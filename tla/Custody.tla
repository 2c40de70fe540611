-------------------------------- MODULE Custody --------------------------------
(***************************************************************************)
(* Who looks after what may be booked (facilities/service.py, policies.py) *)
(* and who decides the bookings (bookings/service.py): a department runs a *)
(* facility, hands it to a custodian, and bookings of its equipment wait   *)
(* for whoever answers for it by then.                                     *)
(*                                                                         *)
(* A handler is its reads and one commit, which the foreign keys check.    *)
(* Names, and the index on them, are left out; slots, the clock and the    *)
(* overlap of decisions are in Bookings.                                   *)
(***************************************************************************)
EXTENDS Directory, Naturals, FiniteSets

CONSTANTS
    Overseen,          \* Overseen[p]: coordinator_scope_id, of type department, or NoRow
    Facilities, Equipment, Bookings,
    Managers,          \* who runs facilities
    Bookers,           \* who asks for equipment
    Movers,            \* whose account an administrator changes
    Workers,
    MaxMoves           \* bound: changes of accounts, facilities and equipment

VARIABLES
    facility,          \* facility[f]: department, custodian, or NoRow
    equipment,         \* equipment[e]: in which facility, for whom, or NoRow
    booking,           \* booking[b]: of what, by whom, pending or not, or NoRow
    moved,             \* ghost: the people whose account was changed
    work,
    moves

custodyVars == <<users, facility, equipment, booking, moved, work, moves>>

Audiences == {"nobody", "staff", "everybody"}
FacilityRow ==
    [department : Departments \cup {NoRow}, custodian : People \cup {NoRow}]
EquipmentRow == [of : Facilities, for : Audiences]
BookingRow == [of : Equipment, by : People, pending : BOOLEAN]

Idle == [op |-> "idle"]
Work ==
    {Idle}
    \cup [op : {"assign"}, at : Facilities, to : People \cup {NoRow}]
    \cup [op : {"close"}, at : Facilities]
    \cup [op : {"install"}, at : Facilities, for : Audiences]
    \cup [op : {"adapt"}, at : Equipment, for : Audiences]
    \cup [op : {"book"}, at : Equipment, by : People]

Init ==
    /\ \E f \in Facilities, d \in Departments \cup {NoRow} :
          /\ facility = [g \in Facilities |->
                IF g = f THEN [department |-> d, custodian |-> NoRow] ELSE NoRow]
          /\ equipment = [e \in Equipment |-> [of |-> f, for |-> "everybody"]]
    /\ booking = [b \in Bookings |-> NoRow]
    /\ moved = {}
    /\ work = [w \in Workers |-> Idle]
    /\ moves = 0

Counted == moves < MaxMoves /\ moves' = moves + 1
Begin(w, t) ==
    /\ work[w] = Idle
    /\ work' = [work EXCEPT ![w] = t]
    /\ UNCHANGED <<users, facility, equipment, booking, moved>>
End(w) == work' = [work EXCEPT ![w] = Idle] /\ UNCHANGED <<users, moved, moves>>

----------------------------------------------------------------------------
(* policies.py *)

\* coordinator_department
CoordinatorDepartment(p) ==
    IF users[p].role = "research_coordinator" THEN Overseen[p] ELSE NoRow

\* assert_can_manage: of a department; create_facility asks the same of its own.
CanManage(p, department) ==
    \/ users[p].role = "admin"
    \/ department # NoRow /\ CoordinatorDepartment(p) = department

\* may_manage_facility: of the facility itself.
MayManageFacility(p, f) ==
    CASE users[p].role = "admin" -> TRUE
      [] users[p].role = "facility_custodian" -> facility[f].custodian = p
      [] OTHER -> CanManage(p, facility[f].department)

\* manageable_facility_filter
ManageableFacilities(p) ==
    LET there == {f \in Facilities : facility[f] # NoRow}
        scope == CoordinatorDepartment(p) IN
    CASE users[p].role = "admin" -> there
      [] users[p].role = "facility_custodian" -> {f \in there : facility[f].custodian = p}
      [] OTHER -> {f \in there : scope # NoRow /\ facility[f].department = scope}

----------------------------------------------------------------------------
(* Facilities *)

CreateFacility(p, f, department) ==
    /\ May(p, "facility:manage")
    /\ CanManage(p, department)
    /\ facility[f] = NoRow
    /\ ~\E w \in Workers : work[w] # Idle /\ work[w].at = f    \* its key is new
    /\ facility' = [facility EXCEPT ![f] = [department |-> department, custodian |-> NoRow]]
    /\ Counted
    /\ UNCHANGED <<users, equipment, booking, moved, work>>

\* Fault: the department that runs the facility is not asked about.
AnyCustodian(k, f) ==
    Exists(k) /\ users[k].active /\ users[k].role = "facility_custodian"

\* assign_custodian: whom it does not refuse.
Accepts(k, f) ==
    /\ Exists(k) /\ users[k].active
    /\ users[k].role = "facility_custodian"
    /\ facility[f].department = NoRow \/ users[k].department = facility[f].department

\* custodian_candidates: the picker.
Candidates(f) ==
    LET eligible == {k \in People : /\ Exists(k)
                                    /\ users[k].role = "facility_custodian"
                                    /\ users[k].active} IN
    IF facility[f].department = NoRow THEN eligible
    ELSE {k \in eligible : users[k].department = facility[f].department}

AssignLoad(w, p, f, k) ==
    /\ May(p, "facility:manage")
    /\ facility[f] # NoRow
    /\ CanManage(p, facility[f].department)
    /\ k # NoRow => Accepts(k, f)
    /\ facility[f].custodian # k
    /\ Begin(w, [op |-> "assign", at |-> f, to |-> k])
    /\ UNCHANGED moves

\* Neither a facility that went meanwhile nor an account that went is written.
AssignCommit(w) ==
    LET t == work[w] IN
    /\ t.op = "assign"
    /\ facility' = IF facility[t.at] # NoRow /\ (t.to # NoRow => Exists(t.to))
                   THEN [facility EXCEPT ![t.at].custodian = t.to] ELSE facility
    /\ End(w)
    /\ UNCHANGED <<equipment, booking>>

\* delete_facility: at department level, never a custodian's decision.
CloseLoad(w, p, f) ==
    /\ May(p, "facility:manage")
    /\ facility[f] # NoRow
    /\ CanManage(p, facility[f].department)
    /\ Counted
    /\ Begin(w, [op |-> "close", at |-> f])

\* Equipment.facility_id and Booking.equipment_id: ON DELETE CASCADE.
CloseCommit(w) ==
    LET f == work[w].at
        gone == {e \in Equipment : equipment[e] # NoRow /\ equipment[e].of = f} IN
    /\ work[w].op = "close"
    /\ facility' = [facility EXCEPT ![f] = NoRow]
    /\ equipment' = [e \in Equipment |-> IF e \in gone THEN NoRow ELSE equipment[e]]
    /\ booking' = [b \in Bookings |-> IF booking[b] # NoRow /\ booking[b].of \in gone
                                      THEN NoRow ELSE booking[b]]
    /\ End(w)

----------------------------------------------------------------------------
(* Equipment *)

InstallLoad(w, p, f, for) ==
    /\ May(p, "facility:manage")
    /\ facility[f] # NoRow
    /\ MayManageFacility(p, f)
    /\ Counted
    /\ Begin(w, [op |-> "install", at |-> f, for |-> for])

\* Fault: a row may point at one that is gone.
Dangling(row) == row = row

\* A foreign key: the row it points at is there when the row is stored.
Refers(row) == row # NoRow

\* create_equipment
InstallCommit(w, e) ==
    LET t == work[w] IN
    /\ t.op = "install"
    /\ equipment[e] = NoRow
    /\ ~\E v \in Workers : work[v].op \in {"adapt", "book"} /\ work[v].at = e
    /\ equipment' = IF Refers(facility[t.at])
                    THEN [equipment EXCEPT ![e] = [of |-> t.at, for |-> t.for]] ELSE equipment
    /\ End(w)
    /\ UNCHANGED <<facility, booking>>

AdaptLoad(w, p, e, for) ==
    /\ May(p, "facility:manage")
    /\ equipment[e] # NoRow
    /\ MayManageFacility(p, equipment[e].of)
    /\ Counted
    /\ Begin(w, [op |-> "adapt", at |-> e, for |-> for])

\* update_equipment: maintenance_status and students_allowed; its bookings stay.
AdaptCommit(w) ==
    LET t == work[w] IN
    /\ t.op = "adapt"
    /\ equipment' = IF equipment[t.at] # NoRow THEN [equipment EXCEPT ![t.at].for = t.for]
                    ELSE equipment
    /\ End(w)
    /\ UNCHANGED <<facility, booking>>

DeleteEquipment(p, e) ==
    /\ May(p, "facility:manage")
    /\ equipment[e] # NoRow
    /\ MayManageFacility(p, equipment[e].of)
    /\ equipment' = [equipment EXCEPT ![e] = NoRow]
    /\ booking' = [b \in Bookings |-> IF booking[b] # NoRow /\ booking[b].of = e
                                      THEN NoRow ELSE booking[b]]
    /\ Counted
    /\ UNCHANGED <<users, facility, moved, work>>

----------------------------------------------------------------------------
(* Bookings *)

\* _assert_rules, but for the hours.
MayBook(p, e) ==
    /\ equipment[e].for # "nobody"
    /\ users[p].role = "student" => equipment[e].for = "everybody"

BookLoad(w, p, e) ==
    /\ SignedIn(p)
    /\ equipment[e] # NoRow /\ MayBook(p, e)
    /\ Begin(w, [op |-> "book", at |-> e, by |-> p])
    /\ UNCHANGED moves

\* create_booking, of equipment that requires approval.
BookCommit(w, b) ==
    LET t == work[w] IN
    /\ t.op = "book"
    /\ booking[b] = NoRow
    /\ booking' = IF Refers(equipment[t.at]) /\ Exists(t.by)
                  THEN [booking EXCEPT ![b] = [of |-> t.at, by |-> t.by, pending |-> TRUE]]
                  ELSE booking
    /\ End(w)
    /\ UNCHANGED <<facility, equipment>>

Waiting(b) == booking[b] # NoRow /\ booking[b].pending
FacilityOf(b) == equipment[booking[b].of].of

\* Fault: a custodian is asked for no more than the permission.
AnyApprover(p, b) == booking[b].by # p /\ users[p].role = "facility_custodian"

\* _actor_for: "approver".
IsApprover(p, b) ==
    /\ booking[b].by # p
    /\ CASE users[p].role = "admin" -> TRUE
         [] users[p].role = "facility_custodian" -> facility[FacilityOf(b)].custodian = p
         [] OTHER -> /\ CoordinatorDepartment(p) # NoRow
                     /\ CoordinatorDepartment(p) = facility[FacilityOf(b)].department

\* approval_queue: by the filter that facilities are managed by.
ApprovalQueue(p) == {b \in Bookings : Waiting(b) /\ FacilityOf(b) \in ManageableFacilities(p)}

\* approve, reject by whoever answers for it; cancel by whoever asked.
Decide(p, b) ==
    /\ SignedIn(p)
    /\ Waiting(b)
    /\ \/ booking[b].by = p
       \/ May(p, "booking:approve") /\ IsApprover(p, b)
    /\ booking' = [booking EXCEPT ![b].pending = FALSE]
    /\ UNCHANGED <<users, facility, equipment, moved, work, moves>>

\* analytics/service.py _custodian_section: bookings_awaiting_decision.
Awaiting(p) ==
    LET held == {f \in Facilities : facility[f] # NoRow /\ facility[f].custodian = p}
        items == {e \in Equipment : equipment[e] # NoRow /\ equipment[e].of \in held} IN
    Cardinality({b \in Bookings : Waiting(b) /\ booking[b].of \in items})

----------------------------------------------------------------------------
(* The accounts, as admin/service.py and deletion.py change them *)

\* Neither a new role nor a new department touches what the person looks after.
Move(p, role, department) ==
    /\ Exists(p)
    /\ users[p].role # role \/ users[p].department # department
    /\ users' = [users EXCEPT ![p].role = role, ![p].department = department]
    /\ moved' = moved \cup {p}
    /\ Counted
    /\ UNCHANGED <<facility, equipment, booking, work>>

\* custodian_id: SET NULL; Booking.user_id: CASCADE.
Leave(p) ==
    /\ Exists(p)
    /\ users' = [users EXCEPT ![p] = NoRow]
    /\ facility' = [f \in Facilities |->
                      IF facility[f] # NoRow /\ facility[f].custodian = p
                      THEN [facility[f] EXCEPT !.custodian = NoRow] ELSE facility[f]]
    /\ booking' = [b \in Bookings |-> IF booking[b] # NoRow /\ booking[b].by = p
                                      THEN NoRow ELSE booking[b]]
    /\ Counted
    /\ UNCHANGED <<equipment, moved, work>>

Next ==
    \/ \E p \in Managers, f \in Facilities, d \in Departments \cup {NoRow} :
          CreateFacility(p, f, d)
    \/ \E w \in Workers :
          \/ \E p \in Managers, f \in Facilities :
                \/ \E k \in People \cup {NoRow} : AssignLoad(w, p, f, k)
                \/ CloseLoad(w, p, f)
                \/ \E for \in Audiences : InstallLoad(w, p, f, for)
          \/ \E p \in Managers, e \in Equipment, for \in Audiences : AdaptLoad(w, p, e, for)
          \/ \E p \in Bookers, e \in Equipment : BookLoad(w, p, e)
          \/ \E e \in Equipment : InstallCommit(w, e)
          \/ \E b \in Bookings : BookCommit(w, b)
          \/ AssignCommit(w) \/ CloseCommit(w) \/ AdaptCommit(w)
    \/ \E p \in Managers, e \in Equipment : DeleteEquipment(p, e)
    \/ \E p \in People, b \in Bookings : Decide(p, b)
    \/ \E p \in Movers :
          \/ \E role \in {"facility_custodian", "faculty"}, d \in Departments : Move(p, role, d)
          \/ Leave(p)

Spec == UsersTypeOK /\ Init /\ [][Next]_custodyVars

----------------------------------------------------------------------------
TypeOK ==
    /\ UsersTypeOK
    /\ facility \in [Facilities -> FacilityRow \cup {NoRow}]
    /\ equipment \in [Equipment -> EquipmentRow \cup {NoRow}]
    /\ booking \in [Bookings -> BookingRow \cup {NoRow}]
    /\ moved \subseteq People
    /\ work \in [Workers -> Work]

\* What waits in somebody's queue is what they may decide, whatever became of them, of the
\* custodian and of the facility since it was asked for; only a request of one's own is
\* there too, which somebody else has to decide.  The number on a custodian's dashboard is
\* the length of that queue (approval_queue, _actor_for, _custodian_section).
QueueIsDecidable ==
    \A p \in People :
        May(p, "booking:approve") =>
            /\ \A b \in Bookings :
                  Waiting(b) /\ booking[b].by # p => (b \in ApprovalQueue(p) <=> IsApprover(p, b))
            /\ users[p].role = "facility_custodian" => Awaiting(p) = Cardinality(ApprovalQueue(p))

\* The picker offers exactly those the assignment would take (custodian_candidates).
PickerIsAccepted ==
    \A f \in Facilities : facility[f] # NoRow => Candidates(f) = {k \in People : Accepts(k, f)}

\* A facility is in the care of a custodian of the department that runs it, unless their
\* account was changed; nothing waits on equipment, and nothing stands in a facility, that
\* is gone (assign_custodian, delete_facility, the foreign keys).
PlacesAreKept ==
    /\ \A f \in Facilities :
          facility[f] # NoRow /\ facility[f].custodian # NoRow =>
              facility[f].custodian \in moved \/ Accepts(facility[f].custodian, f)
    /\ \A e \in Equipment : equipment[e] # NoRow => facility[equipment[e].of] # NoRow
    /\ \A b \in Bookings : booking[b] # NoRow => equipment[booking[b].of] # NoRow

\* What a queue or a picker offers can be done.
OfferedCanBeDone == QueueIsDecidable /\ PickerIsAccepted
=============================================================================
