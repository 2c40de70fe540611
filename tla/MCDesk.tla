--------------------------------- MODULE MCDesk ---------------------------------
(* The components of Desk on small sets.  Handlers and processes are interchangeable. *)
EXTENDS Desk, TLC

\* One coordinator, of the one department there are coordinators of.
MCScope == [p \in Profiled |-> IF p = "c" THEN "d" ELSE NoRow]

\* The second milestone of a plan waits on the first.
MCDepends == <<{}, {1}>>

Somebody(role) == [role |-> role, active |-> TRUE,
                   department |-> IF role \in {"admin", "dean_of_research"} THEN NoRow ELSE "d"]
Trio == [s |-> "student", r |-> "faculty", c |-> "research_coordinator", a |-> "admin"]

\* Who they are at first.
MCInit ==
    /\ \/ /\ part = "requests"
          /\ users = [p \in Correspondents |-> Somebody(IF p = "s" THEN "student" ELSE "faculty")]
       \/ /\ part \in {"board", "nudges"}
          /\ users = [p \in Readers |-> Somebody(Trio[p])]
       \/ /\ part = "accounts"
          /\ \E role \in {"admin", "faculty"} :
                users = [p \in Officers |-> Somebody(IF p = "a" THEN "admin" ELSE role)]
       \/ /\ part = "sessions"
          /\ users = [p \in Callers |-> Somebody(Trio[p])]
       \/ /\ part = "register"
          /\ users = [p \in Scholars |-> Somebody(Trio[p])]
       \/ /\ part = "imports"
          /\ users = [p \in Profiled |-> Somebody(Trio[p])]
       \/ /\ part = "figures"
          /\ \E place \in [Observed -> Branches] :
                /\ place["c"] = "d"
                /\ users = [p \in Observed |-> [Somebody(Trio[p]) EXCEPT !.department = place[p]]]
       \/ part \in {"reminders", "throttle", "merge", "matching"}
    /\ Init
    /\ part = "nudges" => thing["x"].by = "s" /\ thing["x"].decider = "c"

MCSpec == MCInit /\ [][Next]_vars

MCSymmetry == Permutations(Workers) \cup Permutations(Notes)
=============================================================================
