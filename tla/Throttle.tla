------------------------------- MODULE Throttle -------------------------------
(***************************************************************************)
(* The rate limiter (core/rate_limit.py): the times of the requests that   *)
(* were let through, per key, in the memory of one process, whose handlers *)
(* run in a pool of threads.  A thread reads the clock before it waits for *)
(* the lock.                                                               *)
(***************************************************************************)
EXTENDS Naturals, Sequences, FiniteSets

CONSTANTS
    Keys,          \* an address, an account, or both
    MaxRequests, Window,
    MaxClock,      \* bounds the time that passes
    Threads

VARIABLES
    clock,
    hits,          \* hits[k]: _hits of k, by the numbers its times have in admitted[k]
    waiting,       \* waiting[h]: the key and the time thread h has read, or NotWaiting
    admitted,      \* ghost: the times at which k was let through
    late           \* ghost: the keys at which a thread was overtaken by a later one

throttleVars == <<clock, hits, waiting, admitted, late>>

NotWaiting == [key |-> "none"]

Init ==
    /\ clock = 0
    /\ hits = [k \in Keys |-> {}]
    /\ waiting = [h \in Threads |-> NotWaiting]
    /\ admitted = [k \in Keys |-> <<>>]
    /\ late = {}

Tick ==
    /\ clock < MaxClock
    /\ clock' = clock + 1
    /\ UNCHANGED <<hits, waiting, admitted, late>>

\* An enforcer asks for the key of its request; allow reads the clock, and not yet the lock.
Ask(h, k) ==
    /\ waiting[h] = NotWaiting
    /\ waiting' = [waiting EXCEPT ![h] = [key |-> k, now |-> clock]]
    /\ UNCHANGED <<clock, hits, admitted, late>>

\* Fault: a window begins when the one before it ends.
RecentInStep(k, now) == {i \in hits[k] : admitted[k][i] \div Window = now \div Window}

\* Times before Window count as after the cutoff: monotonic time is never near zero.
Recent(k, now) == {i \in hits[k] : admitted[k][i] + Window > now}

\* The rest of allow, under the lock; a refusal is a 429.
Decide(h) ==
    LET k == waiting[h].key
        now == waiting[h].now
        recent == Recent(k, now)
        allowed == Cardinality(recent) < MaxRequests
        number == Len(admitted[k]) + 1 IN
    /\ waiting[h] # NotWaiting
    /\ hits' = [hits EXCEPT ![k] = IF allowed THEN recent \cup {number} ELSE recent]
    /\ admitted' = IF allowed THEN [admitted EXCEPT ![k] = Append(@, now)] ELSE admitted
    /\ late' = IF \E i \in DOMAIN admitted[k] : admitted[k][i] > now THEN late \cup {k} ELSE late
    /\ waiting' = [waiting EXCEPT ![h] = NotWaiting]
    /\ UNCHANGED clock

\* The process restarts, and its counters with it.
Restart ==
    /\ hits' = [k \in Keys |-> {}]
    /\ waiting' = [h \in Threads |-> NotWaiting]
    /\ admitted' = [k \in Keys |-> <<>>]
    /\ late' = {}
    /\ UNCHANGED clock

Next ==
    \/ Tick \/ Restart
    \/ \E h \in Threads : Decide(h) \/ \E k \in Keys : Ask(h, k)

----------------------------------------------------------------------------
\* A key's list is never longer than its budget: what allow keeps is what it counts.
TypeOK ==
    /\ clock \in 0..MaxClock
    /\ admitted \in [Keys -> Seq(0..clock)] /\ hits \in [Keys -> SUBSET Nat]
    /\ \A k \in Keys :
          /\ hits[k] \subseteq DOMAIN admitted[k]
          /\ Cardinality(hits[k]) <= MaxRequests
    /\ waiting \in [Threads -> [key : Keys, now : 0..clock] \cup {NotWaiting}]
    /\ late \subseteq Keys

\* While the process runs, no stretch as long as the window, wherever it begins, holds more
\* requests of one key than the budget, unless threads took the lock in another order than
\* they read the clock: then the later one has dropped hits the earlier would have counted.
NeverOverBudget ==
    \A k \in Keys \ late : \A t \in 0..MaxClock :
        Cardinality({i \in DOMAIN admitted[k] :
                        t <= admitted[k][i] /\ admitted[k][i] < t + Window}) <= MaxRequests
=============================================================================
