-------------------------------- MODULE Figures --------------------------------
(***************************************************************************)
(* The figures a coordinator, a dean or an administrator reads             *)
(* (analytics/insights.py, institutional.py, network.py): of one           *)
(* department, of the platform, and of every department side by side, all  *)
(* counted from the rows the other components write.                       *)
(*                                                                         *)
(* A write of another component is one change to one row; figures are read *)
(* within one request.  Dates are days, the publication year and the       *)
(* six-month trends are left out, and so are the limits on what is shown   *)
(* and the count of open reports, which is the platform's in every scope.  *)
(***************************************************************************)
EXTENDS Directory, Naturals, FiniteSets

CONSTANTS
    Milestones, Depends,     \* Depends[m]: what m waits on, in its own project
    Threshold,               \* milestone_at_risk_days
    MaxMoves                 \* bound: changes

VARIABLES
    profile,         \* profile[p]: verification_status of a researcher, or NoRow
    discoverable,    \* the students who opted in to being discoverable
    project,         \* the project: department, status, deleted, owner, members
    milestone,       \* milestone[m]: status, due date, and the day it was completed
    authors,         \* the linked authors of the publication
    request,         \* the collaboration request: its people and status
    opening,         \* the opportunity: its department, and its application's status
    savers,          \* who saved the funding call
    booking,         \* the booking: its facility's department, and its status
    day, moves

ProfileStatus == {"pending", "verified"}
ProjectStatus == {"draft", "active"}
SETTLED_STATUSES == {"done", "cancelled"}
MilestoneStatus == {"pending"} \cup SETTLED_STATUSES
Anywhere == Departments \cup {NoRow}

----------------------------------------------------------------------------
(* insights.py: what is in scope *)

\* A department, or NoRow for the platform; overseen is the department of a coordinator.
DefaultScope(p, overseen) ==
    CASE users[p].role \in {"admin", "dean_of_research"} -> NoRow
      [] users[p].role = "research_coordinator" -> overseen
      [] OTHER -> "nothing"

\* NotInScopeError
Refused(p, overseen, asked) ==
    asked # NoRow /\ DefaultScope(p, overseen) \notin {NoRow, asked}

Readable(p, overseen) ==
    {IF asked # NoRow THEN asked ELSE DefaultScope(p, overseen) :
        asked \in {a \in Anywhere : ~Refused(p, overseen, a)}}

In(scope, department) == scope = NoRow \/ department = scope

ScopedProject(scope) == ~project.deleted /\ In(scope, project.department)
ScopedUsers(scope) ==
    {p \in People : Exists(p) /\ users[p].active /\ In(scope, users[p].department)}
ScopedOpening(scope) == In(scope, opening.department)
ScopedBooking(scope) == In(scope, booking.department)
Count(condition) == IF condition THEN 1 ELSE 0

----------------------------------------------------------------------------
(* milestones/risk.py *)

Settled(m) == milestone[m].status \in SETTLED_STATUSES

\* assess of what a milestone waits on looks no further up.
Upstream(m) ==
    CASE Settled(m) -> "none"
      [] ~Settled(m) /\ milestone[m].due < day -> "overdue"
      [] ~Settled(m) /\ milestone[m].due \in day..(day + Threshold) -> "at_risk"
      [] OTHER -> "on_track"

\* assess: overdue before blocked, blocked before at risk.
Assess(m) ==
    IF Upstream(m) \in {"none", "overdue"} THEN Upstream(m)
    ELSE IF \E d \in Depends[m] : Upstream(d) \in {"overdue", "at_risk"} THEN "blocked"
    ELSE Upstream(m)

----------------------------------------------------------------------------
(* insights.py: the figures of one scope *)

ProjectsByStatus(scope) ==
    [s \in ProjectStatus |-> Count(ScopedProject(scope) /\ project.status = s)]

VerificationBacklog(scope) ==
    Cardinality({p \in People : /\ profile[p] = "pending"
                                /\ scope = NoRow \/ p \in ScopedUsers(scope)})

\* milestone_adherence
Adherence(scope) ==
    LET outstanding(risk) == {m \in Milestones : ScopedProject(scope) /\ Assess(m) = risk}
        completed == {m \in Milestones : /\ ScopedProject(scope) /\ Settled(m)
                                         /\ milestone[m].completed # NoRow} IN
    [on_track |-> Cardinality(outstanding("on_track")),
     at_risk |-> Cardinality(outstanding("at_risk")),
     overdue |-> Cardinality(outstanding("overdue")),
     blocked |-> Cardinality(outstanding("blocked")),
     completed |-> Cardinality(completed),
     completed_on_time |-> Cardinality({m \in completed :
                                            milestone[m].completed <= milestone[m].due})]

\* _publication_window
PublicationWindow(scope) == scope = NoRow \/ \E p \in authors : In(scope, users[p].department)

\* publications_by_department, as a reader of the scope sees it.
PublicationsByDepartment(scope) ==
    [d \in Departments |->
        Count(PublicationWindow(scope) /\ \E p \in authors : users[p].department = d)]

\* cross_department_collaboration
CrossDepartment(scope) ==
    LET left == users[request.sender].department
        right == users[request.recipient].department
        seen == request.accepted /\ (In(scope, left) \/ In(scope, right)) IN
    [unknown |-> Count(seen /\ NoRow \in {left, right}),
     same |-> Count(seen /\ left = right /\ left # NoRow),
     cross |-> Count(seen /\ left # right /\ NoRow \notin {left, right})]

CollaborationTotals(scope) ==
    Count(request.accepted /\ (\/ scope = NoRow
                               \/ request.sender \in ScopedUsers(scope)
                               \/ request.recipient \in ScopedUsers(scope)))

\* opportunity_funnel and application_success_rate
Funnel(scope) ==
    [applications |-> Count(ScopedOpening(scope) /\ opening.application # NoRow),
     accepted |-> Count(ScopedOpening(scope) /\ opening.application = "accepted"),
     rejected |-> Count(ScopedOpening(scope) /\ opening.application = "rejected")]

\* equipment_utilisation
Utilisation(scope) == Count(ScopedBooking(scope) /\ booking.status = "approved")

\* funding_interest: a call somebody of the scope saved, and how many saved it anywhere.
FundingInterest(scope) ==
    IF savers \cap (IF scope = NoRow THEN People ELSE ScopedUsers(scope)) = {} THEN 0
    ELSE Cardinality(savers)

\* institutional.py: build
Report(scope) ==
    LET attributed == PublicationWindow(scope)
                        /\ \E p \in authors : users[p].department # NoRow
        researchers == {p \in ScopedUsers(scope) : profile[p] # NoRow} IN
    [researchers |-> Cardinality(researchers),
     verified |-> Cardinality({p \in researchers : profile[p] = "verified"}),
     students |-> Cardinality({p \in ScopedUsers(scope) : users[p].role = "student"}),
     publications |-> Count(PublicationWindow(scope)),
     attributed |-> Count(attributed)]

----------------------------------------------------------------------------
(* network.py *)

\* Fault: the graph of a department is the platform's.
VisibleAnywhere(scope) ==
    {p \in ScopedUsers(NoRow) : profile[p] # NoRow \/ p \in discoverable}

VisiblePeople(scope) ==
    {p \in ScopedUsers(scope) : profile[p] # NoRow \/ p \in discoverable}

Pairs(members) == {pair \in SUBSET members : Cardinality(pair) = 2}

\* The owner of a live project, and the members of any.
Together == (IF project.deleted THEN {} ELSE {project.owner}) \cup project.members

\* build_graph
Graph(scope) ==
    LET visible == VisiblePeople(scope) IN
    [nodes |-> [p \in visible |-> users[p]],
     co_authorship |-> Pairs(authors \cap visible),
     project |-> Pairs(Together \cap visible),
     collaboration |-> IF request.accepted
                       THEN Pairs({request.sender, request.recipient} \cap visible) ELSE {}]

\* read_analytics_overview, the report and the network
FiguresOf(scope) ==
    <<ProjectsByStatus(scope), VerificationBacklog(scope), Adherence(scope),
      PublicationsByDepartment(scope), CrossDepartment(scope), CollaborationTotals(scope),
      Funnel(scope), Utilisation(scope), FundingInterest(scope), Report(scope),
      Graph(scope)>>

----------------------------------------------------------------------------
(* insights.py: by_department, counted for all of them at once *)

PeoplePerDepartment(d) ==
    LET there == {p \in People : Exists(p) /\ users[p].active /\ users[p].department = d} IN
    [researchers |->
        Cardinality({p \in there : users[p].role \in {"faculty", "research_coordinator"}}),
     students |-> Cardinality({p \in there : users[p].role = "student"})]

ActiveProjectsPerDepartment(d) ==
    Count(~project.deleted /\ project.department = d /\ project.status = "active")

PublicationsPerDepartment(d) ==
    Count({p \in authors : Exists(p) /\ users[p].department = d} # {})

\* Fault: an account that was closed still waits to be verified.
PendingOfClosedToo(d) ==
    Cardinality({p \in People : profile[p] = "pending" /\ users[p].department = d})

VerificationPendingPerDepartment(d) ==
    Cardinality({p \in People : /\ profile[p] = "pending"
                                /\ users[p].active /\ users[p].department = d})

MilestoneRiskPerDepartment(d) ==
    LET judged(risk) == {m \in Milestones : /\ ~project.deleted /\ project.department = d
                                            /\ ~Settled(m) /\ Assess(m) = risk} IN
    [overdue |-> Cardinality(judged("overdue")), at_risk |-> Cardinality(judged("at_risk"))]

----------------------------------------------------------------------------
(* What the other components write *)

Change == moves < MaxMoves /\ moves' = moves + 1

ChangeUser(p) ==
    /\ Change
    /\ \/ \E d \in Anywhere : users' = [users EXCEPT ![p].department = d]
       \/ users' = [users EXCEPT ![p].active = ~@]
    /\ UNCHANGED <<profile, discoverable, project, milestone, authors, request, opening, booking,
                   day, savers>>

ChangeProfile(p) ==
    /\ Change
    /\ IF users[p].role = "student"
       THEN /\ discoverable' = (discoverable \ {p}) \cup ({p} \ discoverable)
            /\ UNCHANGED profile
       ELSE /\ \E s \in ProfileStatus : profile' = [profile EXCEPT ![p] = s]
            /\ UNCHANGED discoverable
    /\ UNCHANGED <<users, project, milestone, authors, request, opening, booking, day, savers>>

ChangeProject ==
    /\ Change
    /\ \/ \E d \in Anywhere : project' = [project EXCEPT !.department = d]
       \/ \E s \in ProjectStatus : project' = [project EXCEPT !.status = s]
       \/ project' = [project EXCEPT !.deleted = TRUE]
       \/ \E p \in People \ {project.owner} :
             project' = [project EXCEPT !.members = (@ \ {p}) \cup ({p} \ @)]
    /\ UNCHANGED <<users, profile, discoverable, milestone, authors, request, opening, booking,
                   day, savers>>

ChangeMilestone(m) ==
    /\ Change
    /\ \/ \E s \in SETTLED_STATUSES :
             milestone' = [milestone EXCEPT ![m].status = s,
                               ![m].completed = IF s = "done" THEN day ELSE NoRow]
       \/ milestone' = [milestone EXCEPT ![m].due = @ + 1]
    /\ UNCHANGED <<users, profile, discoverable, project, authors, request, opening, booking, day,
                   savers>>

ChangeAuthors ==
    /\ Change
    /\ \E p \in People : authors' = (authors \ {p}) \cup ({p} \ authors)
    /\ UNCHANGED <<users, profile, discoverable, project, milestone, request, opening, booking,
                   day, savers>>

Answered ==
    /\ Change /\ ~request.accepted
    /\ request' = [request EXCEPT !.accepted = TRUE]
    /\ UNCHANGED <<users, profile, discoverable, project, milestone, authors, opening, booking,
                   day, savers>>

Decided ==
    /\ Change
    /\ \/ /\ \E s \in {"accepted", "rejected"} : opening' = [opening EXCEPT !.application = s]
          /\ UNCHANGED booking
       \/ booking' = [booking EXCEPT !.status = "approved"] /\ UNCHANGED opening
    /\ UNCHANGED <<users, profile, discoverable, project, milestone, authors, request, savers,
                   day>>

Save(p) ==
    /\ Change
    /\ savers' = (savers \ {p}) \cup ({p} \ savers)
    /\ UNCHANGED <<users, profile, discoverable, project, milestone, authors, request, opening,
                   booking, day>>

Midnight ==
    /\ Change
    /\ day' = day + 1
    /\ UNCHANGED <<users, profile, discoverable, project, milestone, authors, request, opening,
                   booking, savers>>

Next ==
    \/ \E p \in People : ChangeUser(p) \/ ChangeProfile(p) \/ Save(p)
    \/ \E m \in Milestones : ChangeMilestone(m)
    \/ ChangeProject \/ ChangeAuthors \/ Answered \/ Decided \/ Midnight

\* Everybody there is has an account.
Init ==
    /\ \A p \in People : Exists(p)
    /\ profile = [p \in People |-> IF users[p].role = "student" THEN NoRow ELSE "pending"]
    /\ discoverable = {} /\ savers = {}
    /\ \E owner \in {p \in People : profile[p] # NoRow}, other \in People :
          /\ other # owner
          /\ project = [department |-> users[owner].department, status |-> "active",
                        deleted |-> FALSE, owner |-> owner, members |-> People \ {owner}]
          /\ authors = {owner}
          /\ request = [sender |-> owner, recipient |-> other, accepted |-> FALSE]
          /\ opening = [department |-> users[owner].department, application |-> "submitted"]
          /\ booking = [department |-> users[owner].department, status |-> "pending"]
    /\ \E due \in [Milestones -> {1, 3}] :
          milestone = [m \in Milestones |->
              [status |-> "pending", due |-> due[m], completed |-> NoRow]]
    /\ day = 1
    /\ moves = 0

----------------------------------------------------------------------------
TypeOK ==
    /\ UsersTypeOK
    /\ profile \in [People -> ProfileStatus \cup {NoRow}]
    /\ discoverable \subseteq People
    /\ project \in [department : Anywhere, status : ProjectStatus, deleted : BOOLEAN,
                    owner : People, members : SUBSET People]
    /\ milestone \in [Milestones -> [status : MilestoneStatus, due : Nat,
                                     completed : Nat \cup {NoRow}]]
    /\ authors \subseteq People /\ savers \subseteq People
    /\ request \in [sender : People, recipient : People, accepted : BOOLEAN]
    /\ opening \in [department : Anywhere,
                    application : {"submitted", "accepted", "rejected"}]
    /\ booking \in [department : Anywhere, status : {"pending", "approved"}]
    /\ day \in Nat /\ moves \in 0..MaxMoves

\* What is counted for every department at once is what its own coordinator is shown, figure
\* by figure, and the publications not attributed are not fewer than none
\* (insights.py: by_department, institutional.py: build).
FiguresAgree ==
    /\ \A d \in Departments :
          /\ ActiveProjectsPerDepartment(d) = ProjectsByStatus(d)["active"]
          /\ VerificationPendingPerDepartment(d) = VerificationBacklog(d)
          /\ PublicationsPerDepartment(d) = PublicationsByDepartment(d)[d]
          /\ PublicationsPerDepartment(d) = Report(d).publications
          /\ PeoplePerDepartment(d).students = Report(d).students
          /\ MilestoneRiskPerDepartment(d).overdue = Adherence(d).overdue
          /\ MilestoneRiskPerDepartment(d).at_risk = Adherence(d).at_risk
    /\ \A scope \in Anywhere : Report(scope).attributed <= Report(scope).publications

\* What a department's figures may be drawn from.
Of(d) ==
    LET people == {p \in People : users[p].department = d}
        sides == {request.sender, request.recipient} IN
    [people |-> [p \in people |-> <<users[p], profile[p], p \in discoverable>>],
     project |-> IF project.department = d THEN {<<project, milestone, day>>} ELSE {},
     together |-> IF (project.members \cup {project.owner}) \cap people # {} THEN Together ELSE {},
     authors |-> IF authors \cap people # {}
                 THEN {<<authors, [p \in authors |-> users[p].department]>>} ELSE {},
     request |-> IF sides \cap people # {}
                 THEN {<<request, [p \in sides |-> users[p].department]>>} ELSE {},
     savers |-> IF savers \cap people # {} THEN savers ELSE {},
     opening |-> IF opening.department = d THEN {opening} ELSE {},
     booking |-> IF booking.department = d THEN {booking} ELSE {}]

\* What a coordinator is shown moves only with what belongs to their department or to its
\* people, whatever department they ask for: nothing that happens in another one shows in
\* their figures or in their network (insights.py: scope_for, network.py: build_graph).
ConfinedToDepartment ==
    \A d \in Departments :
        Of(d)' = Of(d) =>
            \A scope \in UNION {Readable(p, d) : p \in {c \in People : DefaultScope(c, d) = d}} :
                FiguresOf(scope)' = FiguresOf(scope)
=============================================================================
