------------------------------- MODULE Requests -------------------------------
(***************************************************************************)
(* Personal requests (requests/service.py, requests/policies.py): a letter *)
(* from one person to one above them, its files, and its answer.           *)
(*                                                                         *)
(* A handler loads the request, decides on what it loaded, and commits the *)
(* columns whose value differs from the loaded one; the CHECKs of          *)
(* requests/models.py are evaluated on the row as it stands then.          *)
(***************************************************************************)
EXTENDS Directory, Naturals, Sequences, FiniteSets

CONSTANTS
    Letters,       \* keys of personal_requests
    Files,         \* keys of request_attachments
    Notes,         \* what an answer may say
    Workers,       \* handlers that may be in flight at once
    MaxMoves       \* bounds the moves made on one request

VARIABLES
    request,       \* request[q]: the row of q, or NoRow
    attached,      \* attached[q]: its files
    told,          \* told[q]: the REQUEST_DECIDED notices to its sender, oldest first
    moves,         \* ghost: how often q has been moved
    work,          \* work[w]: what handler w has read so far
    crossed        \* ghost: the requests of which a handler overtook another

requestVars == <<request, attached, told, moves, work, crossed>>

Status == {"submitted", "under_review", "resolved", "declined", "withdrawn"}
DECIDED_STATUSES == {"resolved", "declined"}

\* <<from, to, by which side>>
TRANSITIONS ==
    ({"submitted"} \X {"under_review", "resolved", "declined"} \X {"recipient"})
    \cup ({"under_review"} \X {"resolved", "declined", "submitted"} \X {"recipient"})
    \cup ({"submitted", "under_review"} \X {"withdrawn"} \X {"sender"})

TERMINAL_STATUSES == {s \in Status : \A t \in TRANSITIONS : t[1] # s}

LetterRow ==
    [sender : People, senderRole : Roles, recipient : People \cup {NoRow},
     recipientRole : Roles, status : Status, note : Notes \cup {NoRow},
     dated : BOOLEAN, decidedBy : People \cup {NoRow}]

Idle == [op |-> "idle"]
SubmitWork == [op : {"submit"}, letter : LetterRow]
MoveWork == [op : {"move"}, of : Letters, by : People, seen : LetterRow, target : Status,
             note : Notes \cup {NoRow}]
FileWork == [op : {"attach", "remove"}, of : Letters, file : Files, seen : Status]
Work == {Idle} \cup SubmitWork \cup MoveWork \cup FileWork

Init ==
    /\ request = [q \in Letters |-> NoRow]
    /\ attached = [q \in Letters |-> {}]
    /\ told = [q \in Letters |-> <<>>]
    /\ moves = [q \in Letters |-> 0]
    /\ work = [w \in Workers |-> Idle]
    /\ crossed = {}

----------------------------------------------------------------------------
(* Who may ask whom, and who may read *)

\* addressable_filter: the picker and the submit check both.
Addressable(sender) ==
    LET roles == REQUEST_RECIPIENT_ROLES(users[sender].role) IN
    {p \in People \ {sender} :
        /\ SignedIn(p)
        /\ users[p].role \in roles
        /\ InstitutionWide(p) \/ SameDepartment(sender, p)}

\* side_of, visibility_filter
SideOf(q, p) == IF request[q].sender = p THEN "sender"
                ELSE IF request[q].recipient = p THEN "recipient" ELSE "nobody"
Visible(q, p) == request[q] # NoRow /\ SideOf(q, p) # "nobody"

\* assert_may_move; next_statuses offers the same moves to the reader of the page.
MayMove(q, p, target) == <<request[q].status, target, SideOf(q, p)>> \in TRANSITIONS

\* waiting_count, as the set it counts.
Waiting(p) ==
    {q \in Letters : /\ request[q] # NoRow
                     /\ request[q].recipient = p
                     /\ request[q].status \in {"submitted", "under_review"}}

----------------------------------------------------------------------------
(* Sending *)

Begin(w, t) == work[w] = Idle /\ work' = [work EXCEPT ![w] = t]
End(w) == work' = [work EXCEPT ![w] = Idle]

SubmitLoad(w, sender, recipient) ==
    /\ SignedIn(sender)
    /\ recipient \in Addressable(sender)
    /\ Begin(w, [op |-> "submit",
                 letter |-> [sender |-> sender, senderRole |-> users[sender].role,
                             recipient |-> recipient, recipientRole |-> users[recipient].role,
                             status |-> "submitted", note |-> NoRow,
                             dated |-> FALSE, decidedBy |-> NoRow]])
    /\ UNCHANGED <<users, request, attached, told, moves, crossed>>

\* The foreign keys: both accounts still exist.
SubmitCommit(w) ==
    /\ work[w].op = "submit"
    /\ Exists(work[w].letter.sender) /\ Exists(work[w].letter.recipient)
    /\ \E q \in Letters :
          /\ request[q] = NoRow /\ moves[q] = 0
          /\ request' = [request EXCEPT ![q] = work[w].letter]
    /\ End(w)
    /\ UNCHANGED <<users, attached, told, moves, crossed>>

----------------------------------------------------------------------------
(* Moving it along *)

\* change_status up to its first write.
MoveLoad(w, q, p, target, note) ==
    /\ SignedIn(p) /\ Visible(q, p)
    /\ MayMove(q, p, target)
    /\ target = "declined" => note # NoRow
    /\ Begin(w, [op |-> "move", of |-> q, by |-> p, seen |-> request[q],
                 target |-> target, note |-> note])
    /\ UNCHANGED <<users, request, attached, told, moves, crossed>>

\* Fault: an answer without a note keeps the remark made before it.
MovedKeepingNote(row, t) ==
    LET decided == t.target \in DECIDED_STATUSES IN
    [row EXCEPT !.status = t.target,
                !.dated = decided \/ @,
                !.decidedBy = IF decided /\ t.seen.decidedBy # t.by THEN t.by ELSE @,
                !.note = IF t.note # NoRow /\ t.note # t.seen.note THEN t.note ELSE @]

\* The row after the commit: only a column that differs from the loaded one is written.
Moved(row, t) ==
    LET decided == t.target \in DECIDED_STATUSES IN
    [row EXCEPT !.status = t.target,
                !.dated = decided \/ @,
                !.decidedBy = IF decided /\ t.seen.decidedBy # t.by THEN t.by ELSE @,
                !.note = IF (decided \/ t.note # NoRow) /\ t.note # t.seen.note
                         THEN t.note ELSE @]

\* decided_request_is_dated, declined_request_carries_a_reason
Checked(row) ==
    /\ row.status \in DECIDED_STATUSES => row.dated
    /\ row.status = "declined" => row.note # NoRow

\* The row was deleted: no row is matched, and the handler rolls back.
MoveCommit(w) ==
    LET t == work[w]
        row == Moved(request[t.of], t) IN
    /\ t.op = "move"
    /\ request[t.of] # NoRow /\ moves[t.of] < MaxMoves
    /\ Checked(row)
    /\ request' = [request EXCEPT ![t.of] = row]
    /\ told' = IF t.target \in DECIDED_STATUSES
               THEN [told EXCEPT ![t.of] = Append(@, [status |-> t.target, note |-> t.note])]
               ELSE told
    /\ moves' = [moves EXCEPT ![t.of] = @ + 1]
    /\ crossed' = IF [request[t.of] EXCEPT !.recipient = NoRow]
                     = [t.seen EXCEPT !.recipient = NoRow]
                  THEN crossed ELSE crossed \cup {t.of}
    /\ End(w)
    /\ UNCHANGED <<users, attached>>

----------------------------------------------------------------------------
(* Files *)

\* Fault: a file may be added or taken away whatever the answer.
StillOpenDropped(q) == TRUE

\* add_attachment and remove_attachment: the sender's, while there is no answer.
StillOpen(q) == request[q].status \notin TERMINAL_STATUSES

AttachLoad(w, q, p, f) ==
    /\ SignedIn(p) /\ Visible(q, p)
    /\ StillOpen(q)
    /\ SideOf(q, p) = "sender"
    /\ f \notin attached[q]
    /\ Begin(w, [op |-> "attach", of |-> q, file |-> f, seen |-> request[q].status])
    /\ UNCHANGED <<users, request, attached, told, moves, crossed>>

RemoveLoad(w, q, p, f) ==
    /\ SignedIn(p) /\ Visible(q, p)
    /\ StillOpen(q)
    /\ SideOf(q, p) = "sender"
    /\ f \in attached[q]
    /\ Begin(w, [op |-> "remove", of |-> q, file |-> f, seen |-> request[q].status])
    /\ UNCHANGED <<users, request, attached, told, moves, crossed>>

\* Nothing is checked again: an answer may have been committed since the handler looked.
FileCommit(w) ==
    LET t == work[w] IN
    /\ t.op \in {"attach", "remove"}
    /\ request[t.of] # NoRow
    /\ attached' = [attached EXCEPT ![t.of] = IF t.op = "attach" THEN @ \cup {t.file}
                                              ELSE @ \ {t.file}]
    /\ crossed' = IF request[t.of].status # t.seen THEN crossed \cup {t.of} ELSE crossed
    /\ End(w)
    /\ UNCHANGED <<users, request, told, moves>>

----------------------------------------------------------------------------
(* Accounts, as the foreign keys see them go, and failures *)

\* sender_id is CASCADE, recipient_id and decided_by are SET NULL.
AccountDeleted(p) ==
    /\ Exists(p)
    /\ users' = [users EXCEPT ![p] = NoRow]
    /\ LET gone(q) == request[q] # NoRow /\ request[q].sender = p
           unnamed(x) == IF x = p THEN NoRow ELSE x IN
       /\ request' = [q \in Letters |->
             IF request[q] = NoRow \/ gone(q) THEN NoRow
             ELSE [request[q] EXCEPT !.recipient = unnamed(@), !.decidedBy = unnamed(@)]]
       /\ attached' = [q \in Letters |-> IF gone(q) THEN {} ELSE attached[q]]
       /\ told' = [q \in Letters |-> IF gone(q) THEN <<>> ELSE told[q]]
       \* The key of a deleted row is not given again.
       /\ moves' = [q \in Letters |-> IF gone(q) THEN MaxMoves ELSE moves[q]]
    /\ UNCHANGED <<work, crossed>>

Rollback(w) ==
    /\ work[w] # Idle
    /\ End(w)
    /\ UNCHANGED <<users, request, attached, told, moves, crossed>>

Next ==
    \/ \E w \in Workers :
          \/ \E p, r \in People : SubmitLoad(w, p, r)
          \/ SubmitCommit(w)
          \/ \E q \in Letters, p \in People, s \in Status, n \in Notes \cup {NoRow} :
                MoveLoad(w, q, p, s, n)
          \/ MoveCommit(w)
          \/ \E q \in Letters, p \in People, f \in Files :
                AttachLoad(w, q, p, f) \/ RemoveLoad(w, q, p, f)
          \/ FileCommit(w)
          \/ Rollback(w)
    \/ \E p \in People : AccountDeleted(p)

Spec == UsersTypeOK /\ Init /\ [][Next]_<<users, requestVars>>

----------------------------------------------------------------------------
TypeOK ==
    /\ UsersTypeOK
    /\ request \in [Letters -> LetterRow \cup {NoRow}]
    /\ attached \in [Letters -> SUBSET Files]
    /\ \A q \in Letters : \A i \in DOMAIN told[q] :
          told[q][i] \in [status : DECIDED_STATUSES, note : Notes \cup {NoRow}]
    /\ moves \in [Letters -> 0..MaxMoves]
    /\ work \in [Workers -> Work]
    /\ crossed \subseteq Letters

\* The sender of a request nobody raced over has been told exactly the answer that is
\* on the record, with its reason and no remark made before it; and the recipient's
\* badge counts exactly the requests that are neither answered nor withdrawn.
ToldIsTheAnswer ==
    \A q \in Letters : request[q] # NoRow /\ q \notin crossed =>
        LET row == request[q] IN
        /\ told[q] = IF row.status \in DECIDED_STATUSES
                     THEN <<[status |-> row.status, note |-> row.note]>> ELSE <<>>
        /\ row.dated <=> row.status \in DECIDED_STATUSES
        /\ row.recipient # NoRow =>
              (q \in Waiting(row.recipient) <=> told[q] = <<>> /\ row.status # "withdrawn")

\* Once it is answered or withdrawn, a request keeps its status, its reason and its
\* files, unless a handler that read it before the answer commits after it.
KeepsAnswers ==
    \A q \in Letters :
        (/\ request[q] # NoRow /\ request'[q] # NoRow
         /\ q \notin crossed'
         /\ request[q].status \in TERMINAL_STATUSES) =>
            /\ request'[q].status = request[q].status
            /\ request'[q].note = request[q].note
            /\ attached'[q] = attached[q]
AnswerIsFinal == [][KeepsAnswers]_<<users, requestVars>>
=============================================================================
