-------------------------------- MODULE Openings --------------------------------
(***************************************************************************)
(* One opening: its workflow (opportunities/service.py), the applications  *)
(* to it (applications/service.py) and the notice the board carries about  *)
(* it (announcements/handlers.py), with what moderation does to both       *)
(* (reports/service.py).  Openings share nothing but the team of their     *)
(* project, so one stands for all.                                         *)
(*                                                                         *)
(* A handler is its reads, on what was committed then, and one commit.     *)
(* Accepting reads once more in the middle, after its first flush.  What a *)
(* commit relies on may have gone by then: the ghost lapses remembers which *)
(* handlers overlapped, and what else the promises do not cover.           *)
(***************************************************************************)
EXTENDS Naturals, Sequences, FiniteSets

CONSTANTS
    Applicants,    \* users eligible for this type of opening, its poster excepted
    MaxPositions,  \* bounds the number of places an owner asks for
    MaxEvents,     \* bounds the length of an application's timeline
    Workers,       \* handlers that may be in flight at once
    NoRow          \* what a query answers when there is no such row

ASSUME BoundsAssumption == MaxPositions \in Nat \ {0} /\ MaxEvents \in Nat

OpportunityStatus == {"draft", "open", "closed", "filled"}
ApplicationStatus ==
    {"submitted", "under_review", "shortlisted", "accepted", "rejected", "withdrawn"}

ASSUME NoRowAssumption == NoRow \notin ApplicationStatus

\* opportunities/policies.py TRANSITIONS: <<from, to, by whom>>.
OpeningTransitions ==
    {<<"draft", "open", "owner">>, <<"open", "filled", "system">>}
    \cup ({"draft"} \X {"closed"} \X {"owner", "admin"})
    \cup ({"open"} \X {"closed"} \X {"owner", "coordinator", "admin"})

\* applications/policies.py TRANSITIONS.
ApplicationTransitions ==
    ({"submitted"} \X {"under_review", "shortlisted", "rejected"} \X {"reviewer"})
    \cup ({"under_review"} \X {"shortlisted", "accepted", "rejected"} \X {"reviewer"})
    \cup ({"shortlisted"} \X {"accepted", "rejected"} \X {"reviewer"})
    \cup ({"submitted", "under_review", "shortlisted"} \X {"withdrawn"} \X {"applicant"})

VARIABLES
    status,          \* Opportunity.status
    positions,       \* Opportunity.positions
    deadlinePassed,  \* Opportunity.deadline < today()
    projectActive,   \* the project the opening is on is ACTIVE
    notice,          \* the board's notice about the opening: none, published, withdrawn
    application,     \* application[a]: Application.status of a's row, or NoRow
    timeline,        \* timeline[a]: the statuses of its ApplicationEvents, as committed
    team,            \* the applicants on the project's team
    work,            \* work[w]: what handler w has read so far
    lapses           \* ghost: what happened that a promise does not cover

Lapses == {"places", "status", "decisions", "arrivals", "team", "board", "hidden"}

openingVars == <<status, positions, deadlinePassed, projectActive, notice>>
applicationVars == <<application, timeline, team>>
vars == <<openingVars, applicationVars, work, lapses>>

Idle == [op |-> "idle"]
EditWork == [op : {"edit"}, seen : 1..MaxPositions, positions : 1..MaxPositions,
             extend : BOOLEAN]
ApplyWork == [op : {"apply"}, who : Applicants]
MoveWork == [op : {"move"}, who : Applicants, target : ApplicationStatus]
AcceptWork == [op : {"accept"}, who : Applicants, add : BOOLEAN,
               status : OpportunityStatus, positions : 1..MaxPositions]
AcceptedWork == [op : {"accepted"}, who : Applicants, add : BOOLEAN, joins : BOOLEAN,
                 fills : BOOLEAN]
Work == {Idle, [op |-> "publish"], [op |-> "close"], [op |-> "hide"]}
        \cup EditWork \cup ApplyWork \cup MoveWork \cup AcceptWork \cup AcceptedWork

\* accepted_count, on what is committed.
Accepted == {a \in Applicants : application[a] = "accepted"}
AcceptedCount == Cardinality(Accepted)

\* create_opportunity: a draft, on a project that is active and a deadline to come.
Init ==
    /\ status = "draft"
    /\ positions \in 1..MaxPositions
    /\ deadlinePassed = FALSE
    /\ projectActive = TRUE
    /\ notice = "none"
    /\ application = [a \in Applicants |-> NoRow]
    /\ timeline = [a \in Applicants |-> <<>>]
    /\ team = {}
    /\ work = [w \in Workers |-> Idle]
    /\ lapses = {}

Accepting == {"accept", "accepted"}
Turning == {"publish", "close", "hide"} \cup Accepting

\* What is not promised any more when handlers t and u overlap.
Crossing(t, u) ==
    LET ops == {t.op, u.op} IN
    {lapse \in {"places", "status", "decisions", "arrivals"} :
        \/ lapse = "places" /\ ops \subseteq Accepting \cup {"edit"} /\ ops # {"edit"}
        \/ lapse = "status" /\ ops \subseteq Turning /\ ~(ops \subseteq Accepting)
        \/ lapse = "decisions" /\ ops \subseteq Accepting \cup {"move"} /\ t.who = u.who
        \/ lapse = "arrivals" /\ "apply" \in ops /\ ops \cap Turning # {}}

Begin(w, t) ==
    /\ work[w] = Idle
    /\ work' = [work EXCEPT ![w] = t]
    /\ lapses' = lapses \cup UNION {Crossing(t, work[v]) : v \in Workers}
    /\ UNCHANGED <<openingVars, applicationVars>>

End(w) == work' = [work EXCEPT ![w] = Idle]

-----------------------------------------------------------------------------
(* The board, each time in a savepoint that may fail and be forgotten *)

\* _raise_notice: nothing if the opening ever had one.
RaiseNotice ==
    /\ notice' \in {notice} \cup (IF notice = "none" THEN {"published"} ELSE {})
    /\ UNCHANGED lapses

\* _withdraw_notice: the published one, if there is one.
WithdrawNotice ==
    IF notice = "published"
    THEN \/ notice' = "withdrawn" /\ UNCHANGED lapses
         \/ UNCHANGED notice /\ lapses' = lapses \cup {"board"}
    ELSE UNCHANGED <<notice, lapses>>

\* An administrator takes the notice down, and may then delete it.
ModerateNotice ==
    /\ \/ notice = "published" /\ notice' = "withdrawn"
       \/ notice = "withdrawn" /\ notice' = "none"
    /\ UNCHANGED <<status, positions, deadlinePassed, projectActive, applicationVars, work,
                   lapses>>

-----------------------------------------------------------------------------
(* The opening *)

\* assert_transition of publish_opportunity.
MayPublish == <<status, "open", "owner">> \in OpeningTransitions

PublishLoad(w) ==
    /\ MayPublish
    /\ ~deadlinePassed
    /\ projectActive
    /\ Begin(w, [op |-> "publish"])

PublishCommit(w) ==
    /\ work[w].op = "publish"
    /\ status' = "open"
    /\ RaiseNotice
    /\ End(w)
    /\ UNCHANGED <<positions, deadlinePassed, projectActive, applicationVars>>

CloseLoad(w, by) ==
    /\ <<status, "closed", by>> \in OpeningTransitions
    /\ Begin(w, [op |-> "close"])

\* Fault: closing tells nobody.
CloseSilently == UNCHANGED <<notice, lapses>>

\* _announce_closed: the board takes its notice down.
AnnounceClosed == WithdrawNotice

CloseCommit(w) ==
    /\ work[w].op = "close"
    /\ status' = "closed"
    /\ AnnounceClosed
    /\ End(w)
    /\ UNCHANGED <<positions, deadlinePassed, projectActive, applicationVars>>

\* resolve_report with hide_target: whatever is not closed yet may be hidden,
\* outside TRANSITIONS and with no event.
HideLoad(w) ==
    /\ status # "closed"
    /\ Begin(w, [op |-> "hide"])

\* _hide_target, and the commit of the report it resolves.
HideCommit(w) ==
    /\ work[w].op = "hide"
    /\ status' = "closed"
    /\ lapses' = lapses \cup {"hidden"}
    /\ End(w)
    /\ UNCHANGED <<positions, deadlinePassed, projectActive, notice, applicationVars>>

\* PositionsBelowAcceptedError; the number it has already stands for no number sent.
MayAskFor(n) == n = positions \/ n >= AcceptedCount

EditLoad(w, n, extend) ==
    /\ status \in {"draft", "open"}
    /\ MayAskFor(n)
    /\ Begin(w, [op |-> "edit", seen |-> positions, positions |-> n, extend |-> extend])

\* Only a changed column is written; a new deadline is never in the past.
EditCommit(w) ==
    /\ work[w].op = "edit"
    /\ positions' = IF work[w].positions = work[w].seen THEN positions ELSE work[w].positions
    /\ deadlinePassed' = (deadlinePassed /\ ~work[w].extend)
    /\ End(w)
    /\ UNCHANGED <<status, projectActive, notice, applicationVars, lapses>>

DeadlinePasses ==
    /\ ~deadlinePassed
    /\ deadlinePassed' = TRUE
    /\ UNCHANGED <<status, positions, projectActive, notice, applicationVars, work, lapses>>

\* The project is completed or archived; its openings are left as they are.
ProjectEnds ==
    /\ projectActive
    /\ projectActive' = FALSE
    /\ UNCHANGED <<status, positions, deadlinePassed, notice, applicationVars, work, lapses>>

-----------------------------------------------------------------------------
(* The applications *)

\* Fault: the timeline is told where the application was, not where it went.
RecordPreviousStatus(a, new) == Append(timeline[a], application[a])

\* _record_event, after the status was set.
RecordEvent(a, new) == Append(timeline[a], new)

Moves(a, new) ==
    /\ application' = [application EXCEPT ![a] = new]
    /\ timeline' = [timeline EXCEPT ![a] = RecordEvent(a, new)]

AssertTransition(a, target, actor) ==
    <<application[a], target, actor>> \in ApplicationTransitions

Undecided(a) == application[a] # NoRow /\ Len(timeline[a]) < MaxEvents

\* Fault: the deadline alone decides.
TakesUntilDeadline == ~deadlinePassed

\* NotOpenError and DeadlinePassedError.
TakesApplications == status = "open" /\ ~deadlinePassed

ApplyLoad(w, a) ==
    /\ TakesApplications
    /\ AcceptedCount < positions
    /\ Begin(w, [op |-> "apply", who |-> a])

\* UNIQUE(opportunity_id, applicant_id) is the real guard.
ApplyCommit(w) ==
    /\ work[w].op = "apply"
    /\ application[work[w].who] = NoRow
    /\ Moves(work[w].who, "submitted")
    /\ End(w)
    /\ UNCHANGED <<openingVars, team, lapses>>

\* change_status to anything but ACCEPTED.
DecideLoad(w, a, target) ==
    /\ Undecided(a)
    /\ target # "accepted"
    /\ AssertTransition(a, target, "reviewer")
    /\ Begin(w, [op |-> "move", who |-> a, target |-> target])

WithdrawLoad(w, a) ==
    /\ Undecided(a)
    /\ AssertTransition(a, "withdrawn", "applicant")
    /\ Begin(w, [op |-> "move", who |-> a, target |-> "withdrawn"])

\* The row of a's application is flushed and not committed: who writes it waits.
RowLocked(a) == \E v \in Workers : work[v].op = "accepted" /\ work[v].who = a

MoveCommit(w) ==
    /\ work[w].op = "move"
    /\ ~RowLocked(work[w].who)
    /\ Moves(work[w].who, work[w].target)
    /\ End(w)
    /\ UNCHANGED <<openingVars, team, lapses>>

\* Fault: nobody asks whether a place is left.
EveryoneFits == TRUE

\* PositionsFilledError of change_status.
PlaceLeft == status # "filled" /\ AcceptedCount < positions

\* change_status to ACCEPTED, up to its first flush.
AcceptLoad(w, a, add) ==
    /\ Undecided(a)
    /\ AssertTransition(a, "accepted", "reviewer")
    /\ PlaceLeft
    /\ Begin(w, [op |-> "accept", who |-> a, add |-> add, status |-> status,
                 positions |-> positions])

\* Fault: the opening is filled one acceptance early.
FillsEarly(a, seenStatus, seenPositions) ==
    seenStatus = "open" /\ Cardinality(Accepted \cup {a}) + 1 >= seenPositions

\* mark_filled_if_full, on the opening it loaded at the start and a count that
\* sees its own flushed acceptance and those committed by others.
Fills(a, seenStatus, seenPositions) ==
    seenStatus = "open" /\ Cardinality(Accepted \cup {a}) >= seenPositions

\* The reads after the flush: is the applicant on the team, is the opening full?
AcceptFlush(w) ==
    /\ work[w].op = "accept"
    /\ ~RowLocked(work[w].who)
    /\ work' = [work EXCEPT ![w] =
         [op |-> "accepted", who |-> work[w].who, add |-> work[w].add,
          joins |-> work[w].add /\ work[w].who \notin team,
          fills |-> Fills(work[w].who, work[w].status, work[w].positions)]]
    /\ UNCHANGED <<openingVars, applicationVars, lapses>>

\* record_membership, through projects.service.
Joins(t) == t.joins

\* "One commit: the decision, the timeline event, the team membership and the
\* FILLED transition succeed or fail together."
AcceptCommit(w) ==
    /\ work[w].op = "accepted"
    /\ LET t == work[w] IN
         /\ Joins(t) => t.who \notin team
         /\ Moves(t.who, "accepted")
         /\ team' = IF Joins(t) THEN team \cup {t.who} ELSE team
         /\ IF t.fills THEN status' = "filled" /\ AnnounceClosed
                       ELSE UNCHANGED <<status, notice, lapses>>
    /\ End(w)
    /\ UNCHANGED <<positions, deadlinePassed, projectActive>>

\* projects/service.py add_member: the project's owner adds somebody directly.
AddMember(w, a) ==
    /\ work[w] = Idle
    /\ a \notin team
    /\ team' = team \cup {a}
    /\ UNCHANGED <<openingVars, application, timeline, work, lapses>>

\* projects/service.py remove_member: leaving the team decides nothing here.
RemoveMember(w, a) ==
    /\ work[w] = Idle
    /\ a \in team
    /\ team' = team \ {a}
    /\ lapses' = lapses \cup (IF RowLocked(a) THEN {"team"} ELSE {})
    /\ UNCHANGED <<openingVars, application, timeline, work>>

\* An error, a unique violation among them, rolls the transaction back.
Rollback(w) ==
    /\ work[w] # Idle
    /\ End(w)
    /\ UNCHANGED <<openingVars, applicationVars, lapses>>

Handler(w) ==
    \/ PublishLoad(w) \/ PublishCommit(w)
    \/ \E by \in {"owner", "coordinator", "admin"} : CloseLoad(w, by)
    \/ CloseCommit(w) \/ HideLoad(w) \/ HideCommit(w)
    \/ \E n \in 1..MaxPositions, extend \in BOOLEAN : EditLoad(w, n, extend)
    \/ EditCommit(w)
    \/ \E a \in Applicants :
         \/ ApplyLoad(w, a)
         \/ \E target \in ApplicationStatus : DecideLoad(w, a, target)
         \/ WithdrawLoad(w, a)
         \/ \E add \in BOOLEAN : AcceptLoad(w, a, add)
         \/ AddMember(w, a) \/ RemoveMember(w, a)
    \/ ApplyCommit(w) \/ MoveCommit(w) \/ AcceptFlush(w) \/ AcceptCommit(w)
    \/ Rollback(w)

Next ==
    \/ \E w \in Workers : Handler(w)
    \/ ModerateNotice \/ DeadlinePasses \/ ProjectEnds

Spec == Init /\ [][Next]_vars

-----------------------------------------------------------------------------
(* Properties that hold however handlers interleave *)

\* Every variable has its type.
TypeOK ==
    /\ status \in OpportunityStatus
    /\ positions \in 1..MaxPositions
    /\ deadlinePassed \in BOOLEAN
    /\ projectActive \in BOOLEAN
    /\ notice \in {"none", "published", "withdrawn"}
    /\ application \in [Applicants -> ApplicationStatus \cup {NoRow}]
    /\ timeline \in [Applicants -> Seq(ApplicationStatus)]
    /\ team \subseteq Applicants
    /\ work \in [Workers -> Work]
    /\ lapses \subseteq Lapses

\* The timeline the applicant is shown ends where the application stands, even
\* when a decision and a withdrawal cross: each commits its own event.
TimelineEndsWithStatus ==
    \A a \in Applicants :
        IF application[a] = NoRow THEN timeline[a] = <<>>
        ELSE Len(timeline[a]) > 0 /\ timeline[a][Len(timeline[a])] = application[a]

\* "Accepting requires a review step first": whoever was ever accepted has a
\* review step earlier in the timeline, whatever decisions crossed.
AcceptedAfterReview ==
    \A a \in Applicants : \A i \in 1..Len(timeline[a]) :
        timeline[a][i] = "accepted" =>
            \E j \in 1..(i - 1) : timeline[a][j] \in {"under_review", "shortlisted"}

\* A draft is private: it is on no board and nobody has applied to it.
DraftIsPrivate ==
    status = "draft" => notice = "none" /\ \A a \in Applicants : application[a] = NoRow

-----------------------------------------------------------------------------
(* Properties with the lapses they do not cover *)

\* No more people are accepted than there are places, whatever is edited, unless
\* an acceptance overlaps another or an edit.
NeverOverbooked == "places" \in lapses \/ AcceptedCount <= positions

\* FILLED says exactly that every place is taken, and stays true, unless places
\* or decisions about one application are settled by two handlers at once.
FilledIsFull ==
    lapses \cap {"places", "decisions"} = {} =>
        (status = "filled" => AcceptedCount = positions)

\* The places are neither given twice nor closed over while one is free.
PlacesAreKept == NeverOverbooked /\ FilledIsFull

\* The board advertises only an opening people can apply to, however often it is
\* edited, moderated and withdrawn, unless two handlers turn the opening at once,
\* the board's savepoint fails, or the opening is closed over a report.
BoardMatchesOpening ==
    lapses \cap {"status", "board", "hidden"} = {} =>
        (notice = "published" => status = "open")

\* "A closed posting stops accepting applications at the database level": an
\* application arrives only while the opening is open, unless it overlaps the
\* handler that turns the opening.
AppliedWhileOpen ==
    [][\A a \in Applicants :
          application[a] = NoRow /\ application'[a] # NoRow =>
              status = "open" \/ "arrivals" \in lapses]_application

-----------------------------------------------------------------------------
(* What the code says of every board *)

\* "A board advertising a closed or filled opening is worse than a board that
\* never mentioned it", whoever closed it.
NoticeOnlyWhileOpen ==
    lapses \cap {"status", "board"} = {} => (notice = "published" => status = "open")
=============================================================================
