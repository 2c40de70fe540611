--------------------------- MODULE PairRelationship ---------------------------
(***************************************************************************)
(* What collaborations promise the people of a pair, with no handlers, no  *)
(* rows and no transactions: one question at a time between two people,    *)
(* and what it leads to.  The promise is given to a pair as long as nobody *)
(* acts on it while somebody else does.                                    *)
(***************************************************************************)
CONSTANT
    Pairs      \* the pairs of people

VARIABLES
    standing,  \* standing[p]: "none", "requested", "active" or "ended"
    askers,    \* askers[p]: whose questions are waiting
    raced      \* the pairs the promise was lost for

vars == <<standing, askers, raced>>

Init ==
    /\ standing = [p \in Pairs |-> "none"]
    /\ askers = [p \in Pairs |-> {}]
    /\ raced = {}

\* Either of them asks, when nothing is between them.
Ask(p, u) ==
    /\ standing[p] \in {"none", "ended"}
    /\ standing' = [standing EXCEPT ![p] = "requested"]
    /\ askers' = [askers EXCEPT ![p] = {u}]

\* The answer is yes or no; no is also what taking the question back leaves.
Answer(p, outcome) ==
    /\ standing[p] = "requested"
    /\ standing' = [standing EXCEPT ![p] = outcome]
    /\ askers' = [askers EXCEPT ![p] = {}]

\* One of them is enough to stop.
End(p) ==
    /\ standing[p] = "active"
    /\ standing' = [standing EXCEPT ![p] = "ended"]
    /\ UNCHANGED askers

\* Two people act on the pair at once; nothing happened to it yet.
Race(p) ==
    /\ raced' = raced \cup {p}
    /\ UNCHANGED <<standing, askers>>

\* Where a raced pair goes is not promised.
Lost(p) ==
    /\ \E s \in {"none", "requested", "active", "ended"}, A \in SUBSET p :
         /\ standing' = [standing EXCEPT ![p] = s]
         /\ askers' = [askers EXCEPT ![p] = A]
    /\ UNCHANGED raced

Kept(p) ==
    /\ \/ \E u \in p : Ask(p, u)
       \/ \E outcome \in {"active", "none"} : Answer(p, outcome)
       \/ End(p)
    /\ UNCHANGED raced

Next ==
    \/ \E p \in Pairs \ raced : Kept(p) \/ Race(p)
    \/ \E p \in raced : Lost(p)

Spec == Init /\ [][Next]_vars
=============================================================================
