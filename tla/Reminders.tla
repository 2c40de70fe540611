------------------------------- MODULE Reminders -------------------------------
(***************************************************************************)
(* The reminder job (jobs/reminders.py, jobs/scheduler.py), the in-app     *)
(* channel it writes through (notifications/channels.py) and the bell      *)
(* (notifications/service.py).  Several processes may run the scheduler.   *)
(*                                                                         *)
(* A pass is three transactions one after the other: what is saved, the    *)
(* milestones, the suggested collaborators.  Each reads the day and the    *)
(* rows, and writes notices that carry a dedupe key; a second row with the *)
(* key of a committed one is refused by uq_notifications_dedupe_key, and   *)
(* any exception ends the pass.                                            *)
(***************************************************************************)
EXTENDS Naturals, FiniteSets

CONSTANTS
    People,
    Items,         \* opportunities and funding calls
    Milestones,    \* of one project
    Suited,        \* <<viewer, candidate>>: recommend() scores them above MIN_SCORE
    LEAD_DAYS,     \* 7 and 1
    MaxDay,        \* bounds the days that pass
    MaxDue,        \* bounds the days that are deadlines
    Schedulers     \* processes with ENABLE_SCHEDULER

VARIABLES
    today,
    item,          \* item[i]: [open, deadline]
    saved,         \* saved_items, as <<person, item>>
    milestone,     \* milestone[m]: [due, settled]
    audience,      \* the owner and the members, {} when the project is deleted
    notified,      \* the rows of notifications
    unread,        \* those of them whose read_at is NULL
    pass,          \* pass[s]: how far the pass of process s is
    owed,          \* ghost: what was due this morning and has not changed since
    swept          \* ghost: a pass has read and committed its deadlines today

reminderVars ==
    <<today, item, saved, milestone, audience, notified, unread, pass, owed, swept>>

Days == 0..MaxDay
Deadlines == 0..MaxDue
ItemRow == [open : BOOLEAN, deadline : Deadlines]
MilestoneRow == [due : Deadlines, settled : BOOLEAN]

\* A notice: to whom, about what, how many days ahead (0: overdue, or undated),
\* and the day it was raised.
Notice ==
    [to : People, about : {"deadline"} \X Items, lead : LEAD_DAYS, on : Days]
    \cup [to : People, about : {"milestone"} \X Milestones, lead : LEAD_DAYS \cup {0}, on : Days]
    \cup [to : People, about : {"suggestion"} \X (SUBSET People), lead : {0}, on : Days]

\* A value for Suited: everybody suits everybody else.
EachOther == {pair \in People \X People : pair[1] # pair[2]}

Steps == {"deadlines", "milestones", "suggestions"}
Resting == [step |-> "none"]
Pass == {Resting} \cup [step : Steps, read : BOOLEAN, on : Days, found : SUBSET Notice]

----------------------------------------------------------------------------
(* What a pass finds *)

Reminder(p, kind, x, lead) == [to |-> p, about |-> <<kind, x>>, lead |-> lead, on |-> today]

\* What is saved, open, and due so many days after the day.
DueIn(day, lead) ==
    {s \in saved : item[s[2]].open /\ item[s[2]].deadline = day + lead}

\* _remind_opportunities, _remind_funding
DeadlinesFound ==
    UNION {{Reminder(s[1], "deadline", s[2], lead) : s \in DueIn(today, lead)} :
              lead \in LEAD_DAYS}

Outstanding == {m \in Milestones : ~milestone[m].settled}

\* _remind_milestones_due
MilestonesDue(lead) ==
    {Reminder(p, "milestone", m, lead) :
        p \in audience, m \in {o \in Outstanding : milestone[o].due = today + lead}}

\* _remind_milestones_overdue
MilestonesOverdue ==
    {Reminder(p, "milestone", m, 0) :
        p \in audience, m \in {o \in Outstanding : milestone[o].due < today}}

MilestonesFound ==
    (UNION {MilestonesDue(lead) : lead \in LEAD_DAYS}) \cup MilestonesOverdue

SuggestionsFound ==
    {Reminder(pair[1], "suggestion", {pair[1], pair[2]}, 0) : pair \in Suited}

Found(step) ==
    CASE step = "deadlines" -> DeadlinesFound
      [] step = "milestones" -> MilestonesFound
      [] OTHER -> SuggestionsFound

\* Fault: the key says nothing of the lead.
KeyWithoutLead(n) == <<n.about, 0, 0>>

\* Fault: the key carries the date.
KeyWithDate(n) == <<n.about, n.lead, n.on>>

\* The dedupe_key of a notice.
Key(n) == <<n.about, n.lead, 0>>

\* InAppChannel.send, on what is committed: whom it has told already it leaves alone.
Unsaid(found) ==
    {n \in found : \A told \in notified : told.to = n.to => Key(told) # Key(n)}

----------------------------------------------------------------------------
(* A pass *)

DueOn(day) ==
    UNION {{[to |-> s[1], item |-> s[2], lead |-> lead] : s \in DueIn(day, lead)} :
              lead \in LEAD_DAYS}

Init ==
    /\ today = 0
    /\ item \in [Items -> ItemRow]
    /\ saved = {}
    /\ milestone \in [Milestones -> MilestoneRow]
    /\ audience = People
    /\ notified = {}
    /\ unread = {}
    /\ pass = [s \in Schedulers |-> Resting]
    /\ owed = {}
    /\ swept = FALSE

WorldUnchanged == UNCHANGED <<today, item, saved, milestone, audience>>

\* run_reminders; max_instances is one per process.
Start(s) ==
    /\ pass[s] = Resting
    /\ pass' = [pass EXCEPT ![s] = [step |-> "deadlines", read |-> FALSE,
                                    on |-> today, found |-> {}]]
    /\ WorldUnchanged /\ UNCHANGED <<notified, unread, owed, swept>>

\* One step's queries, with the day it is when they are made.
Look(s, step) ==
    /\ pass[s] # Resting /\ pass[s].step = step /\ ~pass[s].read
    /\ pass' = [pass EXCEPT ![s] = [step |-> step, read |-> TRUE,
                                    on |-> today, found |-> Found(step)]]
    /\ WorldUnchanged /\ UNCHANGED <<notified, unread, owed, swept>>

Kept(s) == /\ notified' = notified \cup Unsaid(pass[s].found)
           /\ unread' = unread \cup Unsaid(pass[s].found)

CommitDeadlines(s) ==
    /\ pass[s] # Resting /\ pass[s].step = "deadlines" /\ pass[s].read
    /\ Kept(s)
    /\ swept' = (swept \/ pass[s].on = today)
    /\ pass' = [pass EXCEPT ![s] = [step |-> "milestones", read |-> FALSE,
                                    on |-> today, found |-> {}]]
    /\ WorldUnchanged /\ UNCHANGED owed

CommitMilestones(s) ==
    /\ pass[s] # Resting /\ pass[s].step = "milestones" /\ pass[s].read
    /\ Kept(s)
    /\ pass' = [pass EXCEPT ![s] = [step |-> "suggestions", read |-> FALSE,
                                    on |-> today, found |-> {}]]
    /\ WorldUnchanged /\ UNCHANGED <<owed, swept>>

\* The suggestions are flushed and never committed: closing the session discards them.
Finish(s) ==
    /\ pass[s] # Resting /\ pass[s].step = "suggestions" /\ pass[s].read
    /\ pass' = [pass EXCEPT ![s] = Resting]
    /\ WorldUnchanged /\ UNCHANGED <<notified, unread, owed, swept>>

\* The index refused a row, the database failed, or the process died.
Fail(s) ==
    /\ pass[s] # Resting
    /\ pass' = [pass EXCEPT ![s] = Resting]
    /\ WorldUnchanged /\ UNCHANGED <<notified, unread, owed, swept>>

----------------------------------------------------------------------------
(* The bell *)

MarkRead(p, n) ==
    /\ n \in unread /\ n.to = p
    /\ unread' = unread \ {n}
    /\ WorldUnchanged /\ UNCHANGED <<notified, pass, owed, swept>>

\* The ids are listed and then updated; a notice that commits in between stays unread,
\* which is a MarkAllRead before it.
MarkAllRead(p) ==
    /\ \E n \in unread : n.to = p
    /\ unread' = {n \in unread : n.to # p}
    /\ WorldUnchanged /\ UNCHANGED <<notified, pass, owed, swept>>

----------------------------------------------------------------------------
(* What the rest of the platform does meanwhile *)

Saves(p, i) ==
    /\ <<p, i>> \notin saved
    /\ saved' = saved \cup {<<p, i>>}
    /\ UNCHANGED <<today, item, milestone, audience, notified, unread, pass, owed, swept>>

Unsaves(p, i) ==
    /\ <<p, i>> \in saved
    /\ saved' = saved \ {<<p, i>>}
    /\ owed' = {o \in owed : <<o.to, o.item>> # <<p, i>>}
    /\ UNCHANGED <<today, item, milestone, audience, notified, unread, pass, swept>>

ItemChanges(i, row) ==
    /\ item[i] # row
    /\ item' = [item EXCEPT ![i] = row]
    /\ owed' = {o \in owed : o.item # i}
    /\ UNCHANGED <<today, saved, milestone, audience, notified, unread, pass, swept>>

MilestoneChanges(m, row) ==
    /\ milestone[m] # row
    /\ milestone' = [milestone EXCEPT ![m] = row]
    /\ UNCHANGED <<today, item, saved, audience, notified, unread, pass, owed, swept>>

TeamChanges(team) ==
    /\ audience # team
    /\ audience' = team
    /\ UNCHANGED <<today, item, saved, milestone, notified, unread, pass, owed, swept>>

Midnight ==
    /\ today < MaxDay
    /\ today' = today + 1
    /\ owed' = DueOn(today + 1)
    /\ swept' = FALSE
    /\ UNCHANGED <<item, saved, milestone, audience, notified, unread, pass>>

Next ==
    \/ \E s \in Schedulers :
          \/ Start(s) \/ CommitDeadlines(s) \/ CommitMilestones(s)
          \/ Finish(s) \/ Fail(s) \/ \E step \in Steps : Look(s, step)
    \/ \E p \in People :
          \/ MarkAllRead(p) \/ \E n \in unread : MarkRead(p, n)
          \/ \E i \in Items : Saves(p, i) \/ Unsaves(p, i)
    \/ \E i \in Items, row \in ItemRow : ItemChanges(i, row)
    \/ \E m \in Milestones, row \in MilestoneRow : MilestoneChanges(m, row)
    \/ \E team \in SUBSET People : TeamChanges(team)
    \/ Midnight

Spec == Init /\ [][Next]_reminderVars

\* The trigger fires at every interval, and a step begun again and again is not lost
\* every time.
Fairness ==
    \A s \in Schedulers :
        /\ WF_reminderVars(Start(s))
        /\ \A step \in Steps : SF_reminderVars(Look(s, step))
        /\ SF_reminderVars(CommitDeadlines(s)) /\ SF_reminderVars(CommitMilestones(s))
        /\ SF_reminderVars(Finish(s))

FairSpec == Spec /\ Fairness

----------------------------------------------------------------------------
TypeOK ==
    /\ today \in Days
    /\ item \in [Items -> ItemRow]
    /\ saved \subseteq People \X Items
    /\ milestone \in [Milestones -> MilestoneRow]
    /\ audience \subseteq People
    /\ notified \subseteq Notice /\ unread \subseteq notified
    /\ \A s \in Schedulers :
          \/ pass[s] = Resting
          \/ /\ pass[s].step \in Steps /\ pass[s].read \in BOOLEAN /\ pass[s].on \in Days
             /\ pass[s].found \subseteq Notice
    /\ swept \in BOOLEAN

\* On a day on which any one pass got as far as committing its deadlines, everybody who
\* held an open item at midnight, and still does, has the reminder for that many days
\* ahead -- however many passes overlapped, failed, or began the day before.
RemindedOnTheDay ==
    swept => \A o \in owed : \E n \in notified :
                n.to = o.to /\ n.about = <<"deadline", o.item>> /\ n.lead = o.lead

\* However often the job runs, and in however many processes, nobody is told the same
\* thing twice: an overdue milestone is told once, not once a day.
ToldOnce ==
    \A n1, n2 \in notified :
        n1.to = n2.to /\ n1.about = n2.about /\ n1.lead = n2.lead => n1 = n2

\* What a pass owes and what it owes nobody a second time.
RemindedOnceOnTheDay == RemindedOnTheDay /\ ToldOnce

\* Somebody who stays on the team of a milestone that stays late is told of it in the end.
OverdueIsTold ==
    \A p \in People, m \in Milestones :
        <>[](p \in audience /\ ~milestone[m].settled /\ milestone[m].due < today)
            => <>(\E n \in notified : n.to = p /\ n.about = <<"milestone", m>> /\ n.lead = 0)

\* "Each pairing is suggested once, ever" (collaboration_suggestions.py:14): a process
\* whose passes keep finishing has told the viewer of a candidate who suits them.
SuggestionsReach ==
    \A pair \in Suited :
        <>(\E n \in notified : n.to = pair[1] /\ n.about = <<"suggestion", {pair[1], pair[2]}>>)
=============================================================================
