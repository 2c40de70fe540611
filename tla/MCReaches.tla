------------------------------- MODULE MCReaches -------------------------------
(* What must happen in the end, on small sets: a team's thread, or the reminder job, one *)
(* of them at rest while the other runs.                                                 *)
EXTENDS Naturals, Sequences

CONSTANTS o, a, w1, NoRow

VARIABLES
    part, work,
    team, opened, mark, messages, bell, clock, page, cursor, got, mixed,
    today, item, saved, milestone, audience, notified, unread, pass, owed, swept

Thread == INSTANCE TeamThread
    WITH Users <- {o, a}, Owner <- o, Readers <- {a}, PageSize <- 1, MaxSends <- 2,
         Workers <- {w1}
Reminders == INSTANCE Reminders
    WITH People <- {"s"}, Items <- {}, Milestones <- {"m"}, Suited <- {}, LEAD_DAYS <- {1},
         MaxDay <- 1, MaxDue <- 1, Schedulers <- {w1}

threadOwn == <<work, team, opened, mark, messages, bell, clock, page, cursor, got, mixed>>
reminderOwn ==
    <<today, item, saved, milestone, audience, notified, unread, pass, owed, swept>>
vars == <<part, threadOwn, reminderOwn>>

\* While the thread is watched the only milestone is settled and nothing is due.
Init ==
    /\ part \in {"thread", "reminders"}
    /\ Thread!Init
    /\ Reminders!Init
    /\ part = "thread" => milestone["m"] = [due |-> 0, settled |-> TRUE]

Next ==
    /\ UNCHANGED part
    /\ \/ part = "thread" /\ Thread!Next /\ UNCHANGED reminderOwn
       \/ part = "reminders" /\ Reminders!Next /\ UNCHANGED threadOwn

\* The fairness of each component, while it is the one that runs.
Spec ==
    /\ Init /\ [][Next]_vars
    /\ WF_threadOwn(part = "thread" /\ Thread!FetchPage(a))
    /\ WF_threadOwn(part = "thread" /\ Thread!FetchAfter(a))
    /\ WF_reminderOwn(part = "reminders" /\ Reminders!Start(w1))
    /\ \A step \in Reminders!Steps : SF_reminderOwn(part = "reminders" /\ Reminders!Look(w1, step))
    /\ SF_reminderOwn(part = "reminders" /\ Reminders!CommitDeadlines(w1))
    /\ SF_reminderOwn(part = "reminders" /\ Reminders!CommitMilestones(w1))
    /\ SF_reminderOwn(part = "reminders" /\ Reminders!Finish(w1))

----------------------------------------------------------------------------
\* Whoever goes on polling a thread comes to show every message of it (TeamThread).
ReachesThePoller == Thread!ReachesThePoller

\* Whoever stays on the team of a milestone that stays late is told of it (Reminders).
OverdueIsTold == Reminders!OverdueIsTold
=============================================================================
