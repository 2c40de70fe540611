-------------------------------- MODULE Imports --------------------------------
(***************************************************************************)
(* Researcher profiles (profiles/service.py), their verification           *)
(* (researchers/service.py), and the import of a profile and its works     *)
(* from outside (imports/service.py).                                      *)
(*                                                                         *)
(* An import is one request and several transactions: each work is         *)
(* committed by create_publication, and the fields of the profile go with  *)
(* the first commit there is, or are lost with the first rollback.  What   *)
(* the sources say is abstracted to which works they know.                 *)
(***************************************************************************)
EXTENDS Directory, FiniteSets

CONSTANTS
    Watched,       \* whose profiles are followed
    Scope,         \* Scope[p]: coordinator_scope_id
    Papers,        \* works the sources may know, each one with a key of its own
    Workers

VARIABLES
    profile,       \* profile[p]: verification_status, or NoRow when there is no profile
    register,      \* the papers that are in the register
    work,          \* work[w]: what handler w has read so far
    unseen,        \* ghost: what came onto p's record since somebody last decided on it
    crossed        \* ghost: whose record a handler overtook another on, or broke off at

importVars == <<profile, register, work, unseen, crossed>>

VerificationStatus == {"unverified", "pending", "verified", "rejected"}
Claims == {"fields", "department"} \cup Papers

Idle == [op |-> "idle"]
Work ==
    {Idle}
    \cup [op : {"save"}, by : People, seen : VerificationStatus \cup {NoRow},
          moves : BOOLEAN, to : Departments]
    \cup [op : {"verify"}, of : People, looked : SUBSET Claims,
          decision : {"verified", "rejected"}]
    \cup [op : {"import"}, by : People, seen : VerificationStatus, todo : SUBSET Papers,
          pending : BOOLEAN, applied : BOOLEAN, imported : BOOLEAN]

Init ==
    /\ profile = [p \in People |-> NoRow]
    /\ register = {}
    /\ work = [w \in Workers |-> Idle]
    /\ unseen = [p \in People |-> {}]
    /\ crossed = {}

IsAdmin(p) == users[p].role = "admin"
Begin(w, t) == work[w] = Idle /\ work' = [work EXCEPT ![w] = t]
End(w) == work' = [work EXCEPT ![w] = Idle]
RowsUnchanged == UNCHANGED <<users, profile, register, unseen>>

\* The record changed between the reading and the writing of a handler.
Overtaken(p, changed) == crossed' = IF changed THEN crossed \cup {p} ELSE crossed

----------------------------------------------------------------------------
(* profiles/service.py *)

\* department_is_locked
DepartmentLocked(p) == ~IsAdmin(p) /\ profile[p] = "verified"

\* upsert_researcher_profile, with the department on the form.
SaveLoad(w, p, department) ==
    /\ SignedIn(p) /\ users[p].role # "student" /\ p \in Watched
    /\ department # users[p].department => ~DepartmentLocked(p)
    /\ Begin(w, [op |-> "save", by |-> p, seen |-> profile[p],
                 moves |-> department # users[p].department, to |-> department])
    /\ RowsUnchanged /\ UNCHANGED crossed

\* (Re)submits; a verified profile stays so, and an administrator's always is.
Submitted(p, seen) ==
    IF IsAdmin(p) \/ seen = "verified" THEN "verified" ELSE "pending"

\* Only what differs from what was loaded is written; two first rows collide.
SaveCommit(w) ==
    LET t == work[w]
        status == Submitted(t.by, t.seen)
        moved == t.moves /\ users[t.by].department # t.to IN
    /\ t.op = "save"
    /\ t.seen = NoRow => profile[t.by] = NoRow
    /\ profile' = [profile EXCEPT ![t.by] = IF status = t.seen THEN @ ELSE status]
    /\ users' = [users EXCEPT ![t.by].department = IF t.moves THEN t.to ELSE @]
    /\ unseen' = [unseen EXCEPT ![t.by] = IF moved THEN @ \cup {"department"} ELSE @]
    /\ Overtaken(t.by, profile[t.by] # t.seen)
    /\ End(w)
    /\ UNCHANGED register

----------------------------------------------------------------------------
(* researchers/service.py *)

\* assert_in_coordinator_scope
InScope(reviewer, p) ==
    users[reviewer].role = "research_coordinator" =>
        Scope[reviewer] # NoRow /\ Scope[reviewer] = users[p].department

\* verify_researcher asks for no status: a decision may be made again.
VerifyLoad(w, reviewer, p, decision) ==
    /\ May(reviewer, "profile:verify") /\ Exists(p) /\ profile[p] # NoRow
    /\ reviewer # p /\ ~IsAdmin(p)
    /\ InScope(reviewer, p)
    /\ Begin(w, [op |-> "verify", of |-> p, looked |-> unseen[p], decision |-> decision])
    /\ RowsUnchanged /\ UNCHANGED crossed

VerifyCommit(w) ==
    LET t == work[w] IN
    /\ t.op = "verify"
    /\ profile' = [profile EXCEPT ![t.of] = t.decision]
    /\ unseen' = [unseen EXCEPT ![t.of] = @ \ t.looked]
    /\ Overtaken(t.of, unseen[t.of] # t.looked)
    /\ End(w)
    /\ UNCHANGED <<users, register>>

----------------------------------------------------------------------------
(* imports/service.py: apply *)

\* Which of the ticked works the sources come up with again, if any answers at all.
\* wanted: fields were ticked and found.
ImportLoad(w, p, wanted, found) ==
    /\ SignedIn(p) /\ profile[p] # NoRow
    /\ Begin(w, [op |-> "import", by |-> p, seen |-> profile[p], todo |-> found,
                 pending |-> wanted, applied |-> wanted, imported |-> FALSE])
    /\ RowsUnchanged /\ UNCHANGED crossed

Importing(w) == work[w].op = "import"

\* _classify: it is in the register already.
PassOver(w, k) ==
    /\ Importing(w) /\ k \in work[w].todo /\ k \in register
    /\ work' = [work EXCEPT ![w].todo = @ \ {k}]
    /\ RowsUnchanged /\ UNCHANGED crossed

\* What one commit of an import brings onto the record, the pending fields with it.
Brings(t, papers) == papers \cup (IF t.pending THEN {"fields"} ELSE {})

\* create_publication commits the session, and the fields with it.
Enter(w, k) ==
    LET t == work[w] IN
    /\ Importing(w) /\ k \in t.todo /\ k \notin register
    /\ register' = register \cup {k}
    /\ unseen' = [unseen EXCEPT ![t.by] = @ \cup Brings(t, {k})]
    /\ work' = [work EXCEPT ![w] = [t EXCEPT !.todo = @ \ {k}, !.pending = FALSE,
                                             !.imported = TRUE]]
    /\ UNCHANGED <<users, profile, crossed>>

\* DuplicateDoiError, or any other exception: the session is rolled back, and what it
\* held of the profile is read anew when it is next needed.
Refuse(w, k) ==
    LET t == work[w] IN
    /\ Importing(w) /\ k \in t.todo
    /\ work' = [work EXCEPT ![w] = [t EXCEPT !.todo = @ \ {k}, !.pending = FALSE,
                                             !.seen = profile[t.by]]]
    /\ RowsUnchanged /\ UNCHANGED crossed

\* Fault: only works count as an import.
UnearnedByWorks(t) == t.imported /\ ~IsAdmin(t.by) /\ t.seen = "verified"

\* Nobody here has checked what came in.
Unearned(t) == (t.applied \/ t.imported) /\ ~IsAdmin(t.by) /\ t.seen = "verified"

ImportCommit(w) ==
    LET t == work[w] IN
    /\ Importing(w) /\ t.todo = {}
    /\ profile' = [profile EXCEPT ![t.by] = IF Unearned(t) THEN "pending" ELSE @]
    /\ unseen' = [unseen EXCEPT ![t.by] = @ \cup Brings(t, {})]
    /\ Overtaken(t.by, profile[t.by] # t.seen)
    /\ End(w)
    /\ UNCHANGED <<users, register>>

\* The last commit fails, or the process dies; the works that were committed stay.
Break(w) ==
    /\ work[w] # Idle
    /\ IF Importing(w) THEN Overtaken(work[w].by, work[w].imported) ELSE UNCHANGED crossed
    /\ End(w)
    /\ RowsUnchanged

Next ==
    \/ \E w \in Workers, p \in People :
          \/ \E d \in Departments : SaveLoad(w, p, d)
          \/ \E r \in People, d \in {"verified", "rejected"} : VerifyLoad(w, r, p, d)
          \/ \E wanted \in BOOLEAN, found \in SUBSET Papers : ImportLoad(w, p, wanted, found)
    \/ \E w \in Workers :
          \/ SaveCommit(w) \/ VerifyCommit(w) \/ ImportCommit(w) \/ Break(w)
          \/ \E k \in Papers : PassOver(w, k) \/ Enter(w, k) \/ Refuse(w, k)

Spec == UsersTypeOK /\ Init /\ [][Next]_<<users, importVars>>

----------------------------------------------------------------------------
TypeOK ==
    /\ UsersTypeOK
    /\ profile \in [People -> VerificationStatus \cup {NoRow}]
    /\ register \subseteq Papers
    /\ work \in [Workers -> Work]
    /\ unseen \in [People -> SUBSET Claims]
    /\ crossed \subseteq People

Running(p) == \E w \in Workers : Importing(w) /\ work[w].by = p

\* A verified researcher's record holds nothing from outside that no reviewer has seen, and
\* its department is the one they were verified in -- while no import of theirs is running,
\* and unless two handlers overtook one another or an import broke off half way.
VerifiedIsReviewed ==
    \A p \in People :
        (Exists(p) /\ ~IsAdmin(p) /\ profile[p] = "verified" /\ ~Running(p) /\ p \notin crossed)
            => unseen[p] = {}
=============================================================================
