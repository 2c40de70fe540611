-------------------------------- MODULE Bookings --------------------------------
(***************************************************************************)
(* The bookings of one item of equipment (bookings/service.py): requests,  *)
(* decisions and the clock.  Items share nothing, so one stands for all.   *)
(* A handler is its reads, on what was committed then, and one commit,     *)
(* where the EXCLUDE constraint is the only check of overlap.              *)
(***************************************************************************)
EXTENDS Integers

CONSTANTS
    Users,       \* the people who may send a request
    Approvers,   \* those of them who look after this item, and administrators
    Students,    \* those of them whom students_allowed is about
    BookingIds,  \* bounds the number of bookings
    Horizon,     \* the last hour there is
    MaxHours,    \* Equipment.max_hours
    MinLead,     \* Equipment.min_lead_hours
    Workers,     \* handlers that may be in flight at once
    NoRow        \* what a query answers when there is no such row, or NULL

ASSUME HoursAssumption == Horizon \in Nat /\ MaxHours \in Nat /\ MinLead \in Nat
ASSUME PeopleAssumption == Approvers \subseteq Users /\ Students \subseteq Users
ASSUME NoRowAssumption == NoRow \notin Users

BookingStatus == {"pending", "approved", "rejected", "cancelled", "completed"}
Hours == 0..Horizon

\* policies.py TRANSITIONS: <<from, to, by whom>>.
Transitions ==
    ({"pending"} \X {"approved", "rejected"} \X {"approver"})
    \cup ({"pending"} \X {"cancelled"} \X {"owner"})
    \cup ({"approved"} \X {"cancelled", "completed"} \X {"owner", "approver"})

Row == [user : Users, starts : Hours, ends : Hours, status : BookingStatus,
        decider : Users \cup {NoRow}, decided : BOOLEAN]

ASSUME RowAssumption == NoRow \notin Row

VARIABLES
    now,       \* the hour it is
    openTo,    \* who the item can be booked by: its maintenance and students_allowed
    approval,  \* Equipment.requires_approval
    booking,   \* booking[b]: the committed row, or NoRow
    work       \* work[w]: what handler w has read so far

vars == <<now, openTo, approval, booking, work>>

\* Under maintenance or retired: nobody.
Audiences == {{}, Users \ Students, Users}

Idle == [op |-> "idle"]
CreateWork == [op : {"create"}, row : Row]
DecideWork == [op : {"decide"}, id : BookingIds, target : BookingStatus,
               by : Users \cup {NoRow}]
Work == {Idle} \cup CreateWork \cup DecideWork

Init ==
    /\ now = 0
    /\ openTo = Users
    /\ approval \in BOOLEAN
    /\ booking = [b \in BookingIds |-> NoRow]
    /\ work = [w \in Workers |-> Idle]

Begin(w, t) ==
    /\ work[w] = Idle
    /\ work' = [work EXCEPT ![w] = t]
    /\ UNCHANGED <<now, openTo, approval, booking>>

End(w) ==
    /\ work' = [work EXCEPT ![w] = Idle]
    /\ UNCHANGED <<now, openTo, approval>>

Tick ==
    /\ now < Horizon
    /\ now' = now + 1
    /\ UNCHANGED <<openTo, approval, booking, work>>

\* facilities/service.py update_equipment: the rules change, the bookings stay.
UpdateEquipment ==
    /\ openTo' \in Audiences
    /\ approval' \in BOOLEAN
    /\ UNCHANGED <<now, booking, work>>

-----------------------------------------------------------------------------
(* Asking for a slot *)

\* _assert_rules.
AssertRules(u, starts, ends) ==
    /\ u \in openTo
    /\ starts >= now
    /\ ends - starts <= MaxHours
    /\ starts - now >= MinLead

\* decided_at of a new booking.
InitialDecision(outright) == outright

CreateLoad(w, u, starts, ends) ==
    /\ starts < ends
    /\ AssertRules(u, starts, ends)
    /\ Begin(w, [op |-> "create",
                 row |-> [user |-> u, starts |-> starts, ends |-> ends,
                          status |-> IF approval THEN "pending" ELSE "approved",
                          decider |-> NoRow, decided |-> InitialDecision(~approval)]])

Overlap(r, s) == r.starts < s.ends /\ s.starts < r.ends

\* Fault: only the start of a slot is compared.
ExcludesSameStart(b, row) ==
    row.status = "approved" =>
        \A c \in BookingIds \ {b} :
            booking[c] # NoRow => booking[c].status # "approved" \/ booking[c].starts # row.starts

\* The EXCLUDE constraint no_overlapping_approved_bookings lets row be stored as b.
Excludes(b, row) ==
    row.status = "approved" =>
        \A c \in BookingIds \ {b} :
            booking[c] # NoRow => booking[c].status # "approved" \/ ~Overlap(booking[c], row)

CreateCommit(w, b) ==
    /\ work[w].op = "create"
    /\ booking[b] = NoRow
    /\ Excludes(b, work[w].row)
    /\ booking' = [booking EXCEPT ![b] = work[w].row]
    /\ End(w)

-----------------------------------------------------------------------------
(* Deciding *)

\* _actor_for.
ActorFor(u, b) ==
    IF u = booking[b].user THEN "owner" ELSE IF u \in Approvers THEN "approver" ELSE "nobody"

AssertTransition(from, to, actor) == <<from, to, actor>> \in Transitions

\* AlreadyStartedError, and the end of a period that is to be completed.
InTime(b, target) ==
    /\ target = "cancelled" => booking[b].starts > now
    /\ target = "completed" => booking[b].ends <= now

DecideLoad(w, u, b, target) ==
    /\ booking[b] # NoRow
    /\ AssertTransition(booking[b].status, target, ActorFor(u, b))
    /\ InTime(b, target)
    /\ Begin(w, [op |-> "decide", id |-> b, target |-> target,
                 by |-> IF ActorFor(u, b) = "approver" THEN u ELSE NoRow])

\* The row with the decision that handler w carries written over it.
Decided(row, target, by) ==
    [row EXCEPT !.status = target,
                !.decider = IF by = NoRow THEN @ ELSE by,
                !.decided = @ \/ by # NoRow]

DecideCommit(w) ==
    /\ work[w].op = "decide"
    /\ LET b == work[w].id
           row == Decided(booking[b], work[w].target, work[w].by)
       IN /\ Excludes(b, row)
          /\ booking' = [booking EXCEPT ![b] = row]
    /\ End(w)

\* OverlapError and every other error end the transaction.
Rollback(w) ==
    /\ work[w] # Idle
    /\ End(w)
    /\ UNCHANGED booking

Handler(w) ==
    \/ \E u \in Users, starts, ends \in Hours : CreateLoad(w, u, starts, ends)
    \/ \E b \in BookingIds : CreateCommit(w, b)
    \/ \E u \in Users, b \in BookingIds, target \in BookingStatus : DecideLoad(w, u, b, target)
    \/ DecideCommit(w)
    \/ Rollback(w)

Next == (\E w \in Workers : Handler(w)) \/ Tick \/ UpdateEquipment

Spec == Init /\ [][Next]_vars

-----------------------------------------------------------------------------
(* Properties *)

\* Every variable has its type.
TypeOK ==
    /\ now \in Hours
    /\ openTo \in Audiences
    /\ approval \in BOOLEAN
    /\ booking \in [BookingIds -> Row \cup {NoRow}]
    /\ work \in [Workers -> Work]

Is(b, status) == booking[b] # NoRow /\ booking[b].status = status

\* "Completed" is only said of a period that is over.
CompletedAfterEnd == \A b \in BookingIds : Is(b, "completed") => booking[b].ends <= now

\* Whoever looks after the item decides other people's bookings, never their
\* own: the owner's own relation to a booking comes first.
DeciderIsAnother ==
    \A b \in BookingIds : booking[b] # NoRow => booking[b].decider # booking[b].user

\* A booking that holds or held its slot, or was refused it, says when that was
\* decided, also when it was booked outright or two decisions crossed.
DecisionIsDated ==
    \A b \in BookingIds :
        Is(b, "approved") \/ Is(b, "rejected") \/ Is(b, "completed") => booking[b].decided

\* Approved bookings hold slots as the calendar promises, whatever races there
\* are between requests, decisions and changes of the rules.
HeldSlots(b) == IF Is(b, "approved") THEN booking[b].starts..(booking[b].ends - 1) ELSE {}
Calendar ==
    INSTANCE EquipmentCalendar
        WITH Bookings <- BookingIds,
             Periods <- {starts..(ends - 1) : starts, ends \in Hours},
             holds <- [b \in BookingIds |-> HeldSlots(b)]
ImplementsCalendar == Calendar!Spec
=============================================================================
