------------------------------- MODULE Accounts -------------------------------
(***************************************************************************)
(* Who is on the platform, in which role, and who answers for whom         *)
(* (admin/service.py, accounts.py, promotions.py, deletion.py,             *)
(* policies.py).                                                           *)
(*                                                                         *)
(* A handler loads the account it changes, decides, and commits the        *)
(* columns whose value it changed; a count it took of the administrators   *)
(* may be out of date by then.  Schools, names, passwords and the audit    *)
(* log are left out; sessions are in Sessions.                             *)
(***************************************************************************)
EXTENDS Directory, Naturals, FiniteSets

CONSTANTS
    MAX_ATTEMPTS,
    Given,         \* bounds the roles that are given
    MaxMoves,      \* bounds the changes that are committed
    Workers

VARIABLES
    departments,   \* the departments there are
    scope,         \* scope[p]: coordinator_scope_id, of type department
    verified,      \* who has a verified researcher profile
    guesses,       \* guesses[p]: those left to the live challenge for p; 0 when there is none
    work,          \* work[w]: what handler w will write; open: the challenge it read is
                   \* still the newest and live; stale: ghost, the administrators have
                   \* changed since it counted them
    moves          \* ghost: how many changes there have been

accountVars == <<departments, scope, verified, guesses, work, moves>>

Account == [role : Roles, department : Departments \cup {NoRow}, active : BOOLEAN,
            scope : Departments \cup {NoRow}]

\* What one account is made of, as a handler loads it.
AccountOf(p) ==
    [role |-> users[p].role, department |-> users[p].department,
     active |-> users[p].active, scope |-> scope[p]]

ActiveAdmins == {p \in People : SignedIn(p) /\ users[p].role = "admin"}

Idle == [op |-> "idle"]

\* What a handler may hold: some columns of an account, with the values they are to get.
WorkTypeOK(t) ==
    \/ t = Idle
    \/ t \in [op : {"delete"}, of : People, stale : BOOLEAN]
    \/ t \in [op : {"guess"}, of : People, left : 0..MAX_ATTEMPTS, open : BOOLEAN]
    \/ /\ t.op \in {"change", "promote"} /\ t.of \in People
       /\ t.stale \in BOOLEAN /\ t.open \in BOOLEAN
       /\ DOMAIN t.changes \subseteq {"role", "department", "active", "scope"}
       /\ \E row \in Account : t.changes = [c \in DOMAIN t.changes |-> row[c]]

Init ==
    /\ departments = Departments
    /\ scope = [p \in People |->
                  IF Exists(p) /\ users[p].role = "research_coordinator"
                  THEN users[p].department ELSE NoRow]
    /\ verified \in SUBSET {p \in People : Exists(p) /\ users[p].role = "faculty"}
    /\ guesses = [p \in People |-> 0]
    /\ work = [w \in Workers |-> Idle]
    /\ moves = 0

Counted == moves < MaxMoves /\ moves' = moves + 1

----------------------------------------------------------------------------
(* Who answers for whom *)

\* _actor_department, _creator_department: a coordinator's is the scope they were given.
ActorDepartment(p) ==
    IF users[p].role = "research_coordinator" THEN scope[p] ELSE users[p].department

\* A self-declared department is no authority until a coordinator has verified it.
VouchedFor(p) == users[p].role = "faculty" => p \in verified

\* assert_may_delete
MayDelete(actor, target) ==
    /\ actor # target
    /\ users[target].role \in DELETABLE_ROLES(users[actor].role)
    /\ \/ users[actor].role = "admin"
       \/ /\ VouchedFor(actor)
          /\ ActorDepartment(actor) # NoRow
          /\ users[target].department = ActorDepartment(actor)

\* assert_may_set_active
MaySetActive(actor, target) == users[actor].role = "admin" \/ MayDelete(actor, target)

\* Fault: an administrator who cannot sign in counts as one who is left.
KeepsAnyAdmin(target, row) ==
    \/ target \notin ActiveAdmins
    \/ row.role = "admin" /\ row.active
    \/ \E p \in People \ {target} : Exists(p) /\ users[p].role = "admin"

\* assert_preserves_last_active_admin
KeepsAnAdmin(target, row) ==
    \/ target \notin ActiveAdmins
    \/ row.role = "admin" /\ row.active
    \/ ActiveAdmins \ {target} # {}

\* _sync_coordinator_scope
ScopeSynced(row) ==
    [row EXCEPT !.scope = IF row.role = "research_coordinator" THEN row.department ELSE NoRow]

\* _sync_institution_wide_placement
PlacementSynced(row) ==
    [row EXCEPT !.department = IF row.role \in INSTITUTION_WIDE_ROLES THEN NoRow ELSE @]

----------------------------------------------------------------------------
(* Bringing somebody in *)

\* create_account on a route that fixes the role; scope as an appointed coordinator's.
\* The row has a key of its own, which no handler has in hand.
Created(p, role, department) ==
    /\ ~Exists(p) /\ ~\E w \in Workers : work[w] # Idle /\ work[w].of = p
    /\ department \in departments \cup {NoRow}
    /\ users' = [users EXCEPT ![p] = [role |-> role, department |-> department, active |-> TRUE]]
    /\ scope' = [scope EXCEPT ![p] = IF role = "research_coordinator" THEN department ELSE NoRow]
    /\ Counted
    /\ UNCHANGED <<departments, verified, guesses, work>>

\* The role comes from the creator's, or from the custodians' route.
CreateAccount(creator, p, role, department) ==
    /\ May(creator, "user:create")
    /\ \/ role \in CREATABLE_ROLE(users[creator].role)
       \/ role = "facility_custodian" /\ users[creator].role \in CUSTODIAN_APPOINTERS
    /\ IF users[creator].role = "admin" THEN department # NoRow \/ role \in INSTITUTION_WIDE_ROLES
       ELSE /\ VouchedFor(creator)
            /\ department # NoRow /\ department = ActorDepartment(creator)
    /\ Created(p, role, department)

\* The administrator's override.
CreateAsAdmin(actor, p, role, department) ==
    /\ May(actor, "user:update_role")
    /\ role \in APPOINTABLE_BY_ADMIN
    /\ department # NoRow \/ role \in INSTITUTION_WIDE_ROLES
    /\ Created(p, role, department)

----------------------------------------------------------------------------
(* Changing an account *)

Begin(w, t) == work[w] = Idle /\ work' = [work EXCEPT ![w] = t]
End(w) == work' = [work EXCEPT ![w] = Idle]
RowsUnchanged == UNCHANGED <<users, departments, scope, verified, guesses, moves>>

\* Only the columns whose value differs from the loaded one are written.
Changing(w, op, p, row) ==
    LET columns == {c \in DOMAIN row : row[c] # AccountOf(p)[c]} IN
    /\ Begin(w, [op |-> op, of |-> p, changes |-> [c \in columns |-> row[c]],
                 open |-> op = "promote", stale |-> FALSE])
    /\ RowsUnchanged

ChangeRole(w, actor, p, role) ==
    LET row == [AccountOf(p) EXCEPT !.role = role] IN
    /\ May(actor, "user:update_role") /\ Exists(p)
    /\ actor # p
    /\ KeepsAnAdmin(p, row)
    /\ Changing(w, "change", p, PlacementSynced(ScopeSynced(row)))

SetActive(w, actor, p, active) ==
    LET row == [AccountOf(p) EXCEPT !.active = active] IN
    /\ May(actor, IF active THEN "user:activate" ELSE "user:deactivate") /\ Exists(p)
    /\ MaySetActive(actor, p)
    /\ KeepsAnAdmin(p, row)
    /\ Changing(w, "change", p, row)

\* step_down counts for itself, and leaves scope and department as they are.
StepDown(w, actor, role) ==
    /\ May(actor, "user:update_role")
    /\ role # "admin"
    /\ ActiveAdmins \ {actor} # {}
    /\ Changing(w, "change", actor, [AccountOf(actor) EXCEPT !.role = role])

\* update_user, with or without an explicit scope in the request.
UpdateUser(w, actor, p, department) ==
    LET row == [AccountOf(p) EXCEPT !.department = department]
        \* An explicit scope still wins; otherwise it is the new department.
        scoped == {[row EXCEPT !.scope = d] : d \in departments \cup {NoRow}}
                  \cup {ScopeSynced(row)} IN
    /\ May(actor, "user:update") /\ Exists(p)
    /\ department # users[p].department
    /\ department \in departments \cup {NoRow}
    /\ \E r \in scoped : Changing(w, "change", p, PlacementSynced(r))

\* The columns that the handler changed, over the row as it is now.
Written(now, changes) ==
    [c \in DOMAIN now |-> IF c \in DOMAIN changes THEN changes[c] ELSE now[c]]

\* The handlers once the challenge for p is closed, those that have read it among them.
Closed(p) ==
    [v \in Workers |->
        IF work[v].op \in {"guess", "promote"} /\ work[v].of = p
        THEN [work[v] EXCEPT !.open = FALSE] ELSE work[v]]

\* The handler is done; what the others counted may be out of date.
Overtake(w, handlers) ==
    work' = [v \in Workers |->
        IF v = w \/ work[v] = Idle THEN Idle
        ELSE IF work[v].op = "guess" THEN handlers[v]
        ELSE [handlers[v] EXCEPT !.stale = @ \/ ActiveAdmins' # ActiveAdmins]]

\* users.department_id is a foreign key; the scope is none.
ChangeCommit(w) ==
    LET t == work[w]
        row == Written(AccountOf(t.of), t.changes) IN
    /\ t.op \in {"change", "promote"} /\ Exists(t.of)
    /\ row.department \in departments \cup {NoRow}
    /\ users' = [users EXCEPT ![t.of] =
          [role |-> row.role, department |-> row.department, active |-> row.active]]
    /\ scope' = [scope EXCEPT ![t.of] = row.scope]
    /\ guesses' = IF t.open THEN [guesses EXCEPT ![t.of] = 0] ELSE guesses
    /\ Overtake(w, IF t.open THEN Closed(t.of) ELSE work)
    /\ Counted
    /\ UNCHANGED <<departments, verified>>

DeleteLoad(w, actor, p) ==
    /\ May(actor, "user:delete") /\ Exists(p)
    /\ MayDelete(actor, p)
    /\ Begin(w, [op |-> "delete", of |-> p, stale |-> FALSE])
    /\ RowsUnchanged

\* The profile and the challenges go with the account.
DeleteCommit(w) ==
    LET p == work[w].of IN
    /\ work[w].op = "delete" /\ Exists(p)
    /\ users' = [users EXCEPT ![p] = NoRow]
    /\ scope' = [scope EXCEPT ![p] = NoRow]
    /\ verified' = verified \ {p}
    /\ guesses' = [guesses EXCEPT ![p] = 0]
    /\ Overtake(w, Closed(p))
    /\ Counted
    /\ UNCHANGED departments

Rollback(w) ==
    /\ work[w] # Idle
    /\ End(w)
    /\ RowsUnchanged

----------------------------------------------------------------------------
(* Making somebody an administrator *)

\* Fault: one guess more than MAX_ATTEMPTS.
OneGuessMore(p) == guesses[p] >= 0

\* The newest challenge is neither consumed, expired nor used up.
LiveChallenge(p) == guesses[p] > 0

\* A second request supersedes the first.
RequestPromotion(actor, p) ==
    /\ May(actor, "user:update_role") /\ Exists(p)
    /\ p # actor /\ users[p].role # "admin" /\ users[p].active
    /\ guesses' = [guesses EXCEPT ![p] = MAX_ATTEMPTS]
    /\ work' = Closed(p)
    /\ UNCHANGED <<users, departments, scope, verified, moves>>

\* The digits differ: the guess is counted from what was loaded, and two may count as one.
GuessLoad(w, actor, p) ==
    /\ May(actor, "user:update_role") /\ Exists(p) /\ LiveChallenge(p)
    /\ Begin(w, [op |-> "guess", of |-> p, left |-> guesses[p], open |-> TRUE])
    /\ RowsUnchanged

GuessCommit(w) ==
    LET t == work[w] IN
    /\ t.op = "guess"
    /\ guesses' = IF t.open THEN [guesses EXCEPT ![t.of] = t.left - 1] ELSE guesses
    /\ End(w)
    /\ UNCHANGED <<users, departments, scope, verified, moves>>

\* The digits match: only the role is written.
ConfirmPromotion(w, actor, p) ==
    /\ May(actor, "user:update_role") /\ Exists(p) /\ LiveChallenge(p)
    /\ Changing(w, "promote", p, [AccountOf(p) EXCEPT !.role = "admin"])

\* The window closes.
Expire(p) ==
    /\ LiveChallenge(p)
    /\ guesses' = [guesses EXCEPT ![p] = 0]
    /\ work' = Closed(p)
    /\ UNCHANGED <<users, departments, scope, verified, moves>>

----------------------------------------------------------------------------
(* Departments, and verification by researchers/service.py *)

CreateDepartment(actor, d) ==
    /\ May(actor, "department:manage") /\ d \notin departments
    /\ departments' = departments \cup {d}
    /\ Counted
    /\ UNCHANGED <<users, scope, verified, guesses, work>>

\* department_id is SET NULL; a scope that names the department stays.
DeleteDepartment(actor, d) ==
    /\ May(actor, "department:manage") /\ d \in departments
    /\ departments' = departments \ {d}
    /\ users' = [p \in People |->
          IF Exists(p) /\ users[p].department = d THEN [users[p] EXCEPT !.department = NoRow]
          ELSE users[p]]
    /\ Counted
    /\ UNCHANGED <<scope, verified, guesses, work>>

Verification(p) ==
    /\ Exists(p) /\ users[p].role = "faculty"
    /\ verified' = IF p \in verified THEN verified \ {p} ELSE verified \cup {p}
    /\ Counted
    /\ UNCHANGED <<users, departments, scope, guesses, work>>

Next ==
    \/ \E a, p \in People, r \in Given, d \in Departments \cup {NoRow} :
          CreateAccount(a, p, r, d) \/ CreateAsAdmin(a, p, r, d)
    \/ \E w \in Workers, a, p \in People :
          \/ \E r \in Given : ChangeRole(w, a, p, r)
          \/ \E active \in BOOLEAN : SetActive(w, a, p, active)
          \/ \E d \in Departments \cup {NoRow} : UpdateUser(w, a, p, d)
          \/ GuessLoad(w, a, p) \/ ConfirmPromotion(w, a, p)
          \/ DeleteLoad(w, a, p)
    \/ \E w \in Workers :
          \/ \E a \in People, r \in Given : StepDown(w, a, r)
          \/ GuessCommit(w) \/ ChangeCommit(w) \/ DeleteCommit(w) \/ Rollback(w)
    \/ \E a, p \in People : RequestPromotion(a, p)
    \/ \E p \in People : Expire(p) \/ Verification(p)
    \/ \E a \in People, d \in Departments : CreateDepartment(a, d) \/ DeleteDepartment(a, d)

Spec == UsersTypeOK /\ Init /\ [][Next]_<<users, accountVars>>

----------------------------------------------------------------------------
TypeOK ==
    /\ UsersTypeOK
    /\ departments \subseteq Departments
    /\ scope \in [People -> Departments \cup {NoRow}]
    /\ verified \subseteq People
    /\ guesses \in [People -> 0..MAX_ATTEMPTS]
    /\ \A w \in Workers : WorkTypeOK(work[w])
    /\ moves \in 0..MaxMoves

\* However administrators appoint, demote, suspend and delete one another, and whoever
\* steps down, the last one who may sign in goes only by a change whose handler counted
\* another, and was overtaken by the change that took that one away.
KeepsAdministrator ==
    ActiveAdmins # {} /\ ActiveAdmins' = {} =>
        \E w \in Workers :
            work[w].op \in {"change", "promote", "delete"} /\ work[w].stale /\ work'[w] = Idle
AdministratorRemains == [][KeepsAdministrator]_<<users, accountVars>>
=============================================================================
