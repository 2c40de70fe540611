-------------------------------- MODULE Nudges --------------------------------
(***************************************************************************)
(* Nudging whoever has to act next (nudges/service.py).  Time is counted   *)
(* in halves of a day, so that a day of 24 hours and a date differ.        *)
(*                                                                         *)
(* What is chased is abstracted to whether it waits; whether a project is  *)
(* at risk is derived elsewhere, and waits stands for it.                  *)
(***************************************************************************)
EXTENDS Directory, Naturals, Sequences, FiniteSets

CONSTANTS
    Things,        \* profiles, projects, bookings, applications
    MaxClock,      \* bounds the half days that pass
    MaxNudges,     \* bounds the nudges that are kept
    Workers

VARIABLES
    clock,
    thing,         \* thing[x]: [kind, by, department, decider, waits]
    nudges,        \* the rows of nudges, oldest first
    heard,         \* NUDGE_RECEIVED notices: [to, by, of, date], date being part of the key
    work,
    crossed        \* ghost: a nudge was committed while another was on its way

nudgeVars == <<clock, thing, nudges, heard, work, crossed>>

Clock == 0..MaxClock
Date(t) == t \div 2
COOLDOWN == 2

NudgeKind == {"profile_verification", "project_review", "booking_approval",
              "application_decision", "project_at_risk"}
ThingRow == [kind : NudgeKind, by : People, department : Departments \cup {NoRow},
             decider : People, waits : BOOLEAN]

Idle == [op |-> "idle"]
Work == {Idle} \cup [op : {"nudge"}, by : People, of : Things, at : Clock,
                     to : SUBSET People, after : 0..MaxNudges]

----------------------------------------------------------------------------
(* Who is told *)

\* _approvers: the department's coordinators, or else the administrators.
Approvers(department) ==
    LET holders(role) == {p \in People : SignedIn(p) /\ users[p].role = role}
        coordinators == {p \in holders("research_coordinator") :
                            department # NoRow /\ users[p].department = department} IN
    IF coordinators # {} THEN coordinators ELSE holders("admin")

\* One's own thing, except for the dean's question about a project that slips.
MayChase(actor, row) ==
    row.waits /\ IF row.kind = "project_at_risk" THEN InstitutionWide(actor)
                 ELSE row.by = actor

\* _RESOLVERS
Recipients(actor, row) ==
    CASE row.kind \in {"profile_verification", "booking_approval"} ->
            Approvers(users[actor].department)
      [] row.kind \in {"project_review", "project_at_risk"} -> Approvers(row.department)
      [] OTHER -> {p \in {row.decider} : SignedIn(p)}

\* Fault: one nudge per date, not per day.
CooledDownByDate(last, now) == Date(last) # Date(now)

CooledDown(last, now) == now - last >= COOLDOWN

\* _last_nudge, read by send and by can_nudge.
Past(actor, x) == {i \in DOMAIN nudges : nudges[i].by = actor /\ nudges[i].of = x}
MayNudgeNow(actor, x) == \A i \in Past(actor, x) : CooledDown(nudges[i].at, clock)

----------------------------------------------------------------------------
Init ==
    /\ clock = 0
    /\ thing \in [Things -> {row \in ThingRow : row.waits /\ Exists(row.by) /\ Exists(row.decider)}]
    /\ nudges = <<>>
    /\ heard = {}
    /\ work = [w \in Workers |-> Idle]
    /\ crossed = {}

\* send, up to the insertion of the notices.
SendLoad(w, actor, x) ==
    /\ SignedIn(actor) /\ work[w] = Idle
    /\ MayChase(actor, thing[x])
    /\ Recipients(actor, thing[x]) # {}
    /\ MayNudgeNow(actor, x)
    /\ work' = [work EXCEPT ![w] =
          [op |-> "nudge", by |-> actor, of |-> x, at |-> clock,
           to |-> Recipients(actor, thing[x]), after |-> Len(nudges)]]
    /\ UNCHANGED <<users, clock, thing, nudges, heard, crossed>>

\* Whom the channel finds told under this key it leaves alone; the nudge is kept even so.
SendCommit(w) ==
    LET t == work[w] IN
    /\ t # Idle
    /\ Len(nudges) < MaxNudges
    /\ nudges' = Append(nudges, [by |-> t.by, of |-> t.of, at |-> t.at])
    /\ heard' = heard \cup {[to |-> p, by |-> t.by, of |-> t.of, date |-> Date(t.at)] : p \in t.to}
    /\ crossed' = IF \E i \in DOMAIN nudges :
                        i > t.after /\ nudges[i].by = t.by /\ nudges[i].of = t.of
                  THEN crossed \cup {<<t.by, t.of>>} ELSE crossed
    /\ work' = [work EXCEPT ![w] = Idle]
    /\ UNCHANGED <<users, clock, thing>>

\* The key was committed by another in the meantime, or the process died.
Rollback(w) ==
    /\ work[w] # Idle
    /\ work' = [work EXCEPT ![w] = Idle]
    /\ UNCHANGED <<users, clock, thing, nudges, heard, crossed>>

\* The thing is decided, or sent in again.
Turns(x) ==
    /\ thing' = [thing EXCEPT ![x].waits = ~@]
    /\ UNCHANGED <<users, clock, nudges, heard, work, crossed>>

\* Somebody is signed out of the platform, or let in again.
Activity(p) ==
    /\ Exists(p)
    /\ users' = [users EXCEPT ![p].active = ~@]
    /\ UNCHANGED <<clock, thing, nudges, heard, work, crossed>>

HalfDay ==
    /\ clock < MaxClock
    /\ clock' = clock + 1
    /\ UNCHANGED <<users, thing, nudges, heard, work, crossed>>

Next ==
    \/ \E w \in Workers :
          \/ \E p \in People, x \in Things : SendLoad(w, p, x)
          \/ SendCommit(w) \/ Rollback(w)
    \/ \E x \in Things : Turns(x)
    \/ \E p \in People : Activity(p)
    \/ HalfDay

Spec == UsersTypeOK /\ Init /\ [][Next]_<<users, nudgeVars>>

----------------------------------------------------------------------------
TypeOK ==
    /\ UsersTypeOK
    /\ clock \in Clock
    /\ thing \in [Things -> ThingRow]
    /\ \A i \in DOMAIN nudges : nudges[i] \in [by : People, of : Things, at : Clock]
    /\ heard \subseteq [to : People, by : People, of : Things, date : Nat]
    /\ work \in [Workers -> Work]
    /\ crossed \subseteq People \X Things

\* Two nudges by one person about one thing are a whole day apart, whatever day it is and
\* whoever received them, unless the two were on their way together.
NudgesAreSpaced ==
    \A i, j \in DOMAIN nudges :
        (/\ i < j /\ nudges[i].by = nudges[j].by /\ nudges[i].of = nudges[j].of
         /\ <<nudges[i].by, nudges[i].of>> \notin crossed)
            => nudges[j].at - nudges[i].at >= COOLDOWN
=============================================================================
