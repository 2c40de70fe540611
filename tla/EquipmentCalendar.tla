--------------------------- MODULE EquipmentCalendar ---------------------------
(***************************************************************************)
(* What booking one item of equipment promises (ADR 0012): a booking takes *)
(* its whole period or nothing, never a slot somebody else holds, and gives *)
(* it back whole.                                                          *)
(***************************************************************************)
CONSTANTS
    Bookings,  \* the bookings there can be
    Periods    \* the sets of slots a booking can ask for

VARIABLE holds  \* holds[b]: the slots booking b holds

Free(period) == \A b \in Bookings : holds[b] \cap period = {}

Init == holds = [b \in Bookings |-> {}]

Take(b, period) ==
    /\ Free(period)
    /\ holds[b] = {}
    /\ holds' = [holds EXCEPT ![b] = period]

Release(b) ==
    /\ holds[b] # {}
    /\ holds' = [holds EXCEPT ![b] = {}]

Next == \E b \in Bookings : Release(b) \/ \E period \in Periods : Take(b, period)

Spec == Init /\ [][Next]_holds
=============================================================================
