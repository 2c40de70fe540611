--------------------------------- MODULE Board ---------------------------------
(***************************************************************************)
(* The notice board (announcements/service.py, announcements/policies.py): *)
(* a notice is written as a draft with its links and files, published,     *)
(* read, and perhaps taken down.  The notices the board raises for an      *)
(* opening are in Openings.                                                *)
(*                                                                         *)
(* A version of its text stands for subject, body and links, which one     *)
(* handler writes.  A handler loads the notice and commits later; what a   *)
(* policy decided on may have changed in between.                          *)
(***************************************************************************)
EXTENDS Directory, Naturals

CONSTANTS
    Notices,       \* keys of announcements
    Documents,     \* keys of announcement_attachments
    MaxText,       \* bounds the edits of one notice
    Workers

VARIABLES
    notice,        \* notice[n]: the row of n, or NoRow
    text,          \* text[n]: the version of its words and links
    documents,     \* documents[n]: its files
    opened,        \* opened[n]: who has a receipt for it
    written,       \* ghost: the keys that have been used
    work,          \* work[w]: what handler w has read so far
    crossed        \* ghost: the notices of which a handler overtook another

boardVars == <<notice, text, documents, opened, written, work, crossed>>

AnnouncementStatus == {"draft", "published", "withdrawn"}
NoticeRow ==
    [audience : {"institution", "department"}, department : Departments \cup {NoRow},
     by : People \cup {NoRow}, byRole : Roles, status : AnnouncementStatus, dated : BOOLEAN]

Idle == [op |-> "idle"]
Work ==
    {Idle}
    \cup [op : {"edit", "publish", "withdraw", "delete"}, of : Notices,
          seen : AnnouncementStatus]
    \cup [op : {"read"}, of : Notices, by : People]
    \cup [op : {"attach", "remove"}, of : Notices, document : Documents]

Init ==
    /\ notice = [n \in Notices |-> NoRow]
    /\ text = [n \in Notices |-> 0]
    /\ documents = [n \in Notices |-> {}]
    /\ opened = [n \in Notices |-> {}]
    /\ written = {}
    /\ work = [w \in Workers |-> Idle]
    /\ crossed = {}

----------------------------------------------------------------------------
(* policies.py *)

\* reach_of, for an account whose scope is its department.
Reach(p) ==
    IF InstitutionWide(p) THEN [audience |-> "institution", department |-> NoRow]
    ELSE [audience |-> "department", department |-> users[p].department]
HasReach(p) ==
    InstitutionWide(p) \/ (users[p].role = "research_coordinator" /\ users[p].department # NoRow)

Addressed(row, p) ==
    /\ row.status = "published"
    /\ \/ InstitutionWide(p)
       \/ row.audience = "institution"
       \/ users[p].department # NoRow /\ row.department = users[p].department

\* Fault: a draft is shown to whom it will be addressed.
VisibleBeforeItsTime(n, p) ==
    /\ notice[n] # NoRow
    /\ Addressed([notice[n] EXCEPT !.status = "published"], p) \/ notice[n].by = p

\* visibility_filter: the list, one notice, its files and the unread count all use it.
Visible(n, p) ==
    /\ notice[n] # NoRow
    /\ \/ Addressed(notice[n], p)
       \/ notice[n].by = p
       \/ users[p].role = "admin" /\ notice[n].status = "withdrawn"

\* Fault: the author may rewrite what is on the board.
MayEditDropped(n, p) == notice[n].by = p

MayEdit(n, p) == notice[n].by = p /\ notice[n].status = "draft"
MayPublish(n, p) == notice[n].by = p /\ notice[n].status = "draft"
MayWithdraw(n, p) ==
    notice[n].status = "published" /\ (notice[n].by = p \/ users[p].role = "admin")
MayDelete(n, p) ==
    \/ notice[n].status = "draft" /\ notice[n].by = p
    \/ notice[n].status = "withdrawn" /\ users[p].role = "admin"

\* unread_count, as the set it counts.
Unread(p) ==
    {n \in Notices : /\ Visible(n, p) /\ notice[n].status = "published"
                     /\ p \notin opened[n]}

----------------------------------------------------------------------------
(* service.py *)

Begin(w, t) == work[w] = Idle /\ work' = [work EXCEPT ![w] = t]
End(w) == work' = [work EXCEPT ![w] = Idle]
RowsUnchanged == UNCHANGED <<users, notice, text, documents, opened, written>>

\* create_announcement decides on the caller alone.
Create(p, n) ==
    /\ May(p, "announcement:post") /\ HasReach(p)
    /\ n \notin written
    /\ notice' = [notice EXCEPT ![n] =
          [audience |-> Reach(p).audience, department |-> Reach(p).department,
           by |-> p, byRole |-> users[p].role, status |-> "draft", dated |-> FALSE]]
    /\ written' = written \cup {n}
    /\ UNCHANGED <<users, text, documents, opened, work, crossed>>

EditLoad(w, n, p) ==
    /\ SignedIn(p) /\ Visible(n, p) /\ MayEdit(n, p)
    /\ Begin(w, [op |-> "edit", of |-> n, seen |-> notice[n].status])
    /\ RowsUnchanged /\ UNCHANGED crossed

PublishLoad(w, n, p) ==
    /\ SignedIn(p) /\ Visible(n, p) /\ MayPublish(n, p)
    /\ Begin(w, [op |-> "publish", of |-> n, seen |-> notice[n].status])
    /\ RowsUnchanged /\ UNCHANGED crossed

WithdrawLoad(w, n, p) ==
    /\ SignedIn(p) /\ Visible(n, p) /\ MayWithdraw(n, p)
    /\ Begin(w, [op |-> "withdraw", of |-> n, seen |-> notice[n].status])
    /\ RowsUnchanged /\ UNCHANGED crossed

DeleteLoad(w, n, p) ==
    /\ SignedIn(p) /\ Visible(n, p) /\ MayDelete(n, p)
    /\ Begin(w, [op |-> "delete", of |-> n, seen |-> notice[n].status])
    /\ RowsUnchanged /\ UNCHANGED crossed

\* A handler overtakes another when the status it read is not the one it writes over.
Overtaken(t) == crossed' = IF notice[t.of].status = t.seen THEN crossed
                           ELSE crossed \cup {t.of}

Holds(w, op) == work[w].op = op /\ notice[work[w].of] # NoRow

EditCommit(w) ==
    /\ Holds(w, "edit") /\ text[work[w].of] < MaxText
    /\ text' = [text EXCEPT ![work[w].of] = @ + 1]
    /\ Overtaken(work[w])
    /\ End(w)
    /\ UNCHANGED <<users, notice, documents, opened, written>>

PublishCommit(w) ==
    /\ Holds(w, "publish")
    /\ notice' = [notice EXCEPT ![work[w].of].status = "published", ![work[w].of].dated = TRUE]
    /\ Overtaken(work[w])
    /\ End(w)
    /\ UNCHANGED <<users, text, documents, opened, written>>

WithdrawCommit(w) ==
    /\ Holds(w, "withdraw")
    /\ notice' = [notice EXCEPT ![work[w].of].status = "withdrawn"]
    /\ Overtaken(work[w])
    /\ End(w)
    /\ UNCHANGED <<users, text, documents, opened, written>>

\* Files and receipts go with the row.
DeleteCommit(w) ==
    LET n == work[w].of IN
    /\ Holds(w, "delete")
    /\ notice' = [notice EXCEPT ![n] = NoRow]
    /\ documents' = [documents EXCEPT ![n] = {}]
    /\ opened' = [opened EXCEPT ![n] = {}]
    /\ Overtaken(work[w])
    /\ End(w)
    /\ UNCHANGED <<users, text, written>>

ReadLoad(w, n, p) ==
    /\ SignedIn(p) /\ Visible(n, p)
    /\ Begin(w, [op |-> "read", of |-> n, by |-> p])
    /\ RowsUnchanged /\ UNCHANGED crossed

\* mark_read inserts with ON CONFLICT DO NOTHING.
ReadCommit(w) ==
    /\ Holds(w, "read") /\ Exists(work[w].by)
    /\ opened' = [opened EXCEPT ![work[w].of] = @ \cup {work[w].by}]
    /\ End(w)
    /\ UNCHANGED <<users, notice, text, documents, written, crossed>>

AttachLoad(w, n, p, d) ==
    /\ SignedIn(p) /\ Visible(n, p) /\ MayEdit(n, p)
    /\ d \notin documents[n]
    /\ Begin(w, [op |-> "attach", of |-> n, document |-> d])
    /\ RowsUnchanged /\ UNCHANGED crossed

RemoveLoad(w, n, p, d) ==
    /\ SignedIn(p) /\ Visible(n, p) /\ MayEdit(n, p)
    /\ d \in documents[n]
    /\ Begin(w, [op |-> "remove", of |-> n, document |-> d])
    /\ RowsUnchanged /\ UNCHANGED crossed

\* Nothing of the notice's own row is written, so nothing notices that it was published.
DocumentCommit(w) ==
    LET t == work[w] IN
    /\ Holds(w, "attach") \/ Holds(w, "remove")
    /\ documents' = [documents EXCEPT ![t.of] = IF t.op = "attach" THEN @ \cup {t.document}
                                                ELSE @ \ {t.document}]
    /\ crossed' = IF notice[t.of].status = "draft" THEN crossed ELSE crossed \cup {t.of}
    /\ End(w)
    /\ UNCHANGED <<users, notice, text, opened, written>>

\* posted_by is SET NULL; receipts are CASCADE.
AccountDeleted(p) ==
    /\ Exists(p)
    /\ users' = [users EXCEPT ![p] = NoRow]
    /\ notice' = [n \in Notices |->
          IF notice[n] # NoRow /\ notice[n].by = p THEN [notice[n] EXCEPT !.by = NoRow]
          ELSE notice[n]]
    /\ opened' = [n \in Notices |-> opened[n] \ {p}]
    /\ UNCHANGED <<text, documents, written, work, crossed>>

Rollback(w) ==
    /\ work[w] # Idle
    /\ End(w)
    /\ RowsUnchanged /\ UNCHANGED crossed

Next ==
    \/ \E p \in People : AccountDeleted(p) \/ \E n \in Notices : Create(p, n)
    \/ \E w \in Workers, n \in Notices, p \in People :
          \/ EditLoad(w, n, p) \/ PublishLoad(w, n, p) \/ WithdrawLoad(w, n, p)
          \/ DeleteLoad(w, n, p) \/ ReadLoad(w, n, p)
          \/ \E d \in Documents : AttachLoad(w, n, p, d) \/ RemoveLoad(w, n, p, d)
    \/ \E w \in Workers :
          \/ EditCommit(w) \/ PublishCommit(w) \/ WithdrawCommit(w) \/ DeleteCommit(w)
          \/ ReadCommit(w) \/ DocumentCommit(w) \/ Rollback(w)

Spec == UsersTypeOK /\ Init /\ [][Next]_<<users, boardVars>>

----------------------------------------------------------------------------
TypeOK ==
    /\ UsersTypeOK
    /\ notice \in [Notices -> NoticeRow \cup {NoRow}]
    /\ text \in [Notices -> 0..MaxText]
    /\ documents \in [Notices -> SUBSET Documents]
    /\ opened \in [Notices -> SUBSET People]
    /\ written \subseteq Notices
    /\ work \in [Workers -> Work]
    /\ crossed \subseteq Notices

\* What has been on the board stays as it was read: its words and files do not change,
\* it goes nowhere but down, and only once it is down is its record deleted -- unless a
\* handler that read the notice at an earlier stage commits over it.
KeepsWhatWasSaid ==
    \A n \in Notices :
        (notice[n] # NoRow /\ notice[n].status # "draft" /\ n \notin crossed') =>
            IF notice'[n] = NoRow THEN notice[n].status = "withdrawn"
            ELSE /\ text'[n] = text[n] /\ documents'[n] = documents[n]
                 /\ notice'[n].status \in {notice[n].status, "withdrawn"}
                 /\ notice'[n].dated

\* When a notice goes up for the first time, it is unread for everybody it is addressed
\* to except its author: while it was a draft nobody else could leave a receipt on it.
GoesUpFresh ==
    \A n \in Notices :
        (/\ notice[n] # NoRow /\ notice[n].status = "draft"
         /\ notice'[n] # NoRow /\ notice'[n].status = "published") =>
            \A p \in People :
                Exists(p) /\ Addressed(notice'[n], p) /\ p # notice[n].by
                    => n \in Unread(p)'

\* No step does otherwise.
SaidToItsReaders == [][KeepsWhatWasSaid /\ GoesUpFresh]_<<users, boardVars>>
=============================================================================
