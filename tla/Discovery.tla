------------------------------- MODULE Discovery -------------------------------
(***************************************************************************)
(* What a person is shown without asking for it by name: search            *)
(* (search/hybrid.py), recommendations (recommendations/service.py),       *)
(* bookmarks (profiles/saved.py) and the queue of projects to review       *)
(* (projects/service.py); and whether what is offered can be taken         *)
(* (applications/service.py, collaborations/service.py).                   *)
(*                                                                         *)
(* Every statement of a handler reads what is committed then: candidates   *)
(* first, their cards later.  What matches a query, how it is ranked and   *)
(* where the list is cut is any choice (Matching).                         *)
(***************************************************************************)
EXTENDS Visibility, Naturals

CONSTANTS
    Askers,            \* who searches, saves and is recommended to
    Queries,           \* what a query may match: sets of items
    MaxSaved,          \* bound: bookmarks
    Workers,
    MaxMoves           \* bound: changes made by others

VARIABLES
    pairing,           \* what stands between the two people: none, requested, active, ended
    coauthors,         \* whether a publication names them both
    applied,           \* who applied to the opening
    saved,             \* saved[p]: the bookmarks of p
    shown,             \* the answer just given: what is in it, and what may be
    work, moves

Idle == [op |-> "idle"]
Targets == {"researchers", "collaborators", "projects", "opportunities"}

\* A handler in flight: for whom, what it found, and what was findable since it began.
Work ==
    {Idle}
    \cup [op : {"search"}, by : People, lexical : SUBSET Items, semantic : SUBSET Items,
          seen : SUBSET Items]
    \cup [op : {"fused"}, by : People, found : SUBSET Items, seen : SUBSET Items]
    \cup [op : {"recommend"}, by : People, target : Targets, found : SUBSET Items,
          seen : SUBSET Items]
    \cup [op : {"save"}, by : People, found : SUBSET Items, seen : SUBSET Items]

\* What the lists hold at most: a filter and a page cut them to any part of it.
ListResearchers == {q \in People : ResearcherListed(q)}
ListProjects(p) == {x \in {"project"} : SeesProject(p)}
ListPublications == {x \in {"publication"} : publication}
ListOpportunities(p) == {x \in {"opening"} : SeesOpening(p)}
Findable(p) == ListResearchers \cup ListProjects(p) \cup ListPublications \cup ListOpportunities(p)

discoveryVars ==
    <<visibilityVars, pairing, coauthors, applied, saved, shown, work, moves>>

\* Nobody who has a researcher's profile was made a student since.
Init ==
    /\ VisibilityTypeOK
    /\ \A q \in profiled : Exists(q) /\ users[q].role # "student"
    /\ pairing \in {"none", "requested", "active", "ended"}
    /\ coauthors \in BOOLEAN
    /\ applied = {}
    /\ saved = [p \in People |-> {}]
    /\ shown = NoRow
    /\ work = [w \in Workers |-> Idle]
    /\ moves = 0

Begin(w, p, t) ==
    /\ work[w] = Idle
    /\ SignedIn(p)
    /\ work' = [work EXCEPT ![w] = t]
Continue(w, t) == work' = [work EXCEPT ![w] = t]

\* The answer.  Nobody is in it who is not listed any more; a thing may be in it that was
\* to be found at some moment since the question.
Answer(w, p, items, seen) ==
    /\ shown' = [items |-> items,
                 fair |-> (seen \cap Things) \cup Findable(p)
                          \cup {q \in People : StudentListed(q)}]
    /\ work' = [work EXCEPT ![w] = Idle]

Unchanged == UNCHANGED <<visibilityVars, pairing, coauthors, applied, moves>>

----------------------------------------------------------------------------
(* search/hybrid.py *)

\* list_researchers, list_projects, list_publications, list_opportunities: lexical of the
\* matches p may find; semantic is what vector_neighbours has near the query.
SearchLists(w, p, lexical, semantic) ==
    /\ lexical \subseteq Findable(p)
    /\ Begin(w, p, [op |-> "search", by |-> p, lexical |-> lexical, semantic |-> semantic,
                    seen |-> Findable(p)])
    /\ shown' = NoRow
    /\ UNCHANGED saved /\ Unchanged

\* Without a model the lists are the answer.
SearchPlain(w) ==
    LET t == work[w] IN
    /\ t.op = "search"
    /\ shown' = [items |-> t.lexical, fair |-> t.seen]
    /\ work' = [work EXCEPT ![w] = Idle]
    /\ UNCHANGED saved /\ Unchanged

\* Fault: the neighbours are taken for granted.
Neighbours(p, hits) == hits

\* _visible_semantic_ids
VisibleSemanticIds(p, hits) == hits \cap Findable(p)

\* fused
SearchFuse(w) ==
    LET t == work[w] IN
    /\ t.op = "search"
    /\ Continue(w, [op |-> "fused", by |-> t.by, seen |-> t.seen \cup Findable(t.by),
                    found |-> t.lexical \cup VisibleSemanticIds(t.by, t.semantic)])
    /\ shown' = NoRow
    /\ UNCHANGED saved /\ Unchanged

\* What a card is built for of the ids found: projects and openings are read by id alone.
Cards(ids) == (ids \cap Things) \cup {q \in ids \cap People : ResearcherListed(q)}

\* hybrid_search: get_publication raises for one that has gone, and nothing is answered.
SearchCards(w) ==
    LET t == work[w] IN
    /\ t.op = "fused"
    /\ IF "publication" \in t.found /\ ~publication
       THEN /\ work' = [work EXCEPT ![w] = Idle]
            /\ shown' = NoRow
       ELSE Answer(w, t.by, Cards(t.found), t.seen)
    /\ UNCHANGED saved /\ Unchanged

----------------------------------------------------------------------------
(* recommendations/service.py *)

RESEARCHER_ROLES == {"faculty", "research_coordinator"}

\* _researcher_candidates
ResearcherCandidates(p) ==
    {q \in People \ {p} : ResearcherListed(q) /\ users[q].role \in RESEARCHER_ROLES}

\* Fault: only what is agreed counts as being engaged.
Agreed == pairing = "active"

\* engaged: a request that waits or was accepted, whoever sent it.
Engaged == pairing \in {"requested", "active"}

\* _collaborator_candidates
CollaboratorCandidates(p) ==
    IF users[p].role = "admin" THEN {}
    ELSE {q \in People \ {p} :
             /\ users[q].active /\ users[q].role # "admin"
             /\ ~Engaged /\ ~coauthors
             /\ q \in profiled \cup discoverable}

\* _project_candidates
ProjectCandidates(p) ==
    {x \in {"project"} : /\ SeesProject(p) /\ project.status = "active"
                         /\ p \notin {project.owner} \cup project.members}

\* eligible_opportunity_types
EligibleTypes(p) ==
    CASE users[p].role = "student" -> {"student"}
      [] users[p].role \in RESEARCHER_ROLES -> {"collaboration"}
      [] OTHER -> {}

\* _opportunity_candidates
OpportunityCandidates(p) ==
    {x \in {"opening"} : /\ opening.kind \in EligibleTypes(p)
                         /\ opening.status = "open" /\ ~opening.past
                         /\ opening.by # p /\ p \notin applied
                         /\ SeesOpening(p)}

Candidates(p, target) ==
    CASE target = "researchers" -> ResearcherCandidates(p)
      [] target = "collaborators" -> CollaboratorCandidates(p)
      [] target = "projects" -> ProjectCandidates(p)
      [] target = "opportunities" -> OpportunityCandidates(p)

\* Fault: a card is built for whoever is still on the platform.
AnyCard(target, ids) == (ids \cap Things) \cup {q \in ids \cap People : users[q].active}

\* _cards
RecommendedCards(target, ids) ==
    Cards(ids) \cup {q \in ids \cap People : target = "collaborators" /\ StudentListed(q)}

RecommendCandidates(w, p, target) ==
    /\ Begin(w, p, [op |-> "recommend", by |-> p, target |-> target, seen |-> Findable(p),
                    found |-> Candidates(p, target)])
    /\ shown' = NoRow
    /\ UNCHANGED saved /\ Unchanged

RecommendAnswer(w) ==
    LET t == work[w] IN
    /\ t.op = "recommend"
    /\ Answer(w, t.by, RecommendedCards(t.target, t.found), t.seen)
    /\ UNCHANGED saved /\ Unchanged

----------------------------------------------------------------------------
(* profiles/saved.py *)

\* _assert_target_visible
SaveLoad(w, p, x) ==
    /\ Cardinality(saved[p]) < MaxSaved
    /\ MayFind(p, x)
    /\ Begin(w, p, [op |-> "save", by |-> p, found |-> {x}, seen |-> Findable(p)])
    /\ shown' = NoRow
    /\ UNCHANGED saved /\ Unchanged

\* _to_entries
Entries(p, items) == items \cap Findable(p)

\* save_item: the partial unique index decides; what is hidden by now is saved all the
\* same, and the request fails on the empty list of entries.
SaveCommit(w) ==
    LET t == work[w]
        entries == Entries(t.by, t.found) IN
    /\ t.op = "save"
    /\ saved' = [saved EXCEPT ![t.by] = @ \cup t.found]
    /\ IF t.found \subseteq saved[t.by] \/ entries = {}
       THEN work' = [work EXCEPT ![w] = Idle] /\ shown' = NoRow
       ELSE Answer(w, t.by, entries, t.seen)
    /\ Unchanged

\* delete_saved_item
Unsave(p, x) ==
    /\ SignedIn(p)
    /\ saved' = [saved EXCEPT ![p] = @ \ {x}]
    /\ shown' = NoRow
    /\ UNCHANGED work /\ Unchanged

\* list_saved
ListSaved(w, p) ==
    /\ work[w] = Idle
    /\ SignedIn(p)
    /\ saved[p] # {}
    /\ Answer(w, p, Entries(p, saved[p]), {})
    /\ UNCHANGED saved /\ Unchanged

----------------------------------------------------------------------------
(* The queue of projects to review *)

\* crosses_departments
CrossesDepartments ==
    \/ project.department = NoRow
    \/ \E m \in project.members : users[m].department \notin {NoRow, project.department}

\* Fault: whoever may review anything may review everything, the coordinator apart.
DeanReviewsAll(p) ==
    users[p].role \in {"admin", "dean_of_research"} \/ Oversees(p, project.department)

\* may_review
MayReview(p) ==
    CASE users[p].role = "admin" -> TRUE
      [] users[p].role = "dean_of_research" -> CrossesDepartments
      [] OTHER -> Oversees(p, project.department)

\* review_project, as far as it decides whether to take a decision at all.
TakesReview(p) ==
    /\ May(p, "project:review")
    /\ SeesProject(p) /\ p # project.owner /\ MayReview(p)
    /\ <<project.status, "active">> \in ProjectTransitions

\* review_queue
InReviewQueue(p) ==
    /\ May(p, "project:review")
    /\ ~project.deleted /\ project.status = "pending_review"
    /\ users[p].role = "dean_of_research" => CrossesDepartments
    /\ users[p].role = "research_coordinator" =>
          Overseen[p] # NoRow /\ project.department = Overseen[p]

----------------------------------------------------------------------------
(* Whether what is offered can be taken *)

\* assert_eligible
AssertEligible(p, kind) ==
    \/ users[p].role = "student" /\ kind = "student"
    \/ users[p].role \in RESEARCHER_ROLES /\ kind = "collaboration"

\* apply
TakesApplication(p) ==
    /\ May(p, "application:submit")
    /\ SeesOpening(p) /\ opening.by # p
    /\ AssertEligible(p, opening.kind)
    /\ opening.status = "open" /\ ~opening.past /\ ~opening.full
    /\ p \notin applied

\* can_contact
CanContact(q) ==
    \/ users[q].role \in RESEARCHER_ROLES
    \/ users[q].role = "student" /\ q \in discoverable

\* send_request
TakesRequest(p, q) ==
    /\ May(p, "collaboration:send")
    /\ p # q /\ users[q].active
    /\ CanContact(q)
    /\ pairing \notin {"requested", "active"}

Apply(p) ==
    /\ TakesApplication(p)
    /\ applied' = applied \cup {p}
    /\ UNCHANGED <<visibilityVars, pairing, coauthors>>

SendRequest(p, q) ==
    /\ TakesRequest(p, q)
    /\ pairing' = "requested"
    /\ UNCHANGED <<visibilityVars, coauthors, applied>>

\* The other answers, either ends it, or the sender takes it back; a paper is signed by both.
Respond ==
    /\ \/ /\ \/ pairing = "requested" /\ pairing' \in {"active", "none"}
             \/ pairing = "active" /\ pairing' = "ended"
          /\ UNCHANGED coauthors
       \/ coauthors' = ~coauthors /\ UNCHANGED pairing
    /\ UNCHANGED <<visibilityVars, applied>>

Change ==
    /\ moves < MaxMoves
    /\ moves' = moves + 1
    /\ \/ /\ ProjectChanges \/ OpeningChanges \/ PeopleChange
          /\ UNCHANGED <<pairing, coauthors, applied>>
       \/ \E p \in People : Apply(p) \/ (\E q \in People : SendRequest(p, q))
       \/ Respond
    /\ shown' = NoRow
    /\ UNCHANGED <<saved, work>>

Next ==
    \/ Change
    \/ \E w \in Workers, p \in Askers :
          \/ \E lexical, semantic \in Queries : SearchLists(w, p, lexical, semantic)
          \/ \E target \in Targets : RecommendCandidates(w, p, target)
          \/ \E x \in UNION Queries : SaveLoad(w, p, x)
          \/ ListSaved(w, p)
    \/ \E w \in Workers : \/ SearchPlain(w) \/ SearchFuse(w) \/ SearchCards(w)
                          \/ RecommendAnswer(w) \/ SaveCommit(w)
    \/ \E p \in Askers : \E x \in saved[p] : Unsave(p, x)

Spec == Init /\ [][Next]_discoveryVars

----------------------------------------------------------------------------
TypeOK ==
    /\ VisibilityTypeOK
    /\ pairing \in {"none", "requested", "active", "ended"}
    /\ coauthors \in BOOLEAN
    /\ applied \subseteq People
    /\ saved \in [People -> SUBSET Items]
    /\ shown \in [items : SUBSET Items, fair : SUBSET Items] \cup {NoRow}
    /\ work \in [Workers -> Work]

\* Whoever is hidden or suspended while a search or a recommendation is being put together
\* is not in the answer, and nothing is in it that its reader could not find at any moment
\* since they asked.
NeverWidened == shown = NoRow \/ shown.items \subseteq shown.fair

\* A reviewer's queue holds exactly the projects they may decide, their own apart: the
\* queue and the decision draw the line between a coordinator and the dean alike.
QueueIsDecidable ==
    \A p \in People \ {project.owner} : InReviewQueue(p) <=> TakesReview(p)

\* What somebody who may ask or apply is recommended can be asked or applied to, whatever
\* was asked, answered and ended before; a dean's or a custodian's profile and an opening
\* whose places were taken while it stayed open apart.
OfferedCanBeTaken ==
    \A p \in People :
        /\ \A q \in CollaboratorCandidates(p) :
              /\ May(p, "collaboration:send")
              /\ users[q].role \in RESEARCHER_ROLES \cup {"student"}
              => TakesRequest(p, q)
        /\ SignedIn(p) /\ OpportunityCandidates(p) # {} /\ ~opening.full => TakesApplication(p)

\* What a queue or a recommendation offers can be done.
OfferedCanBeDone == QueueIsDecidable /\ OfferedCanBeTaken
=============================================================================
