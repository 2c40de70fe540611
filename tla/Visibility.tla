------------------------------- MODULE Visibility -------------------------------
(***************************************************************************)
(* Who may know of what: a project (projects/policies.py), an opening      *)
(* (opportunities/policies.py), a publication, and a person                *)
(* (researchers/directory.py).  Search, recommendations, bookmarks and     *)
(* reports all ask here; one project, one opening and one publication      *)
(* stand for all of them.                                                  *)
(***************************************************************************)
EXTENDS Directory, FiniteSets

CONSTANTS
    Overseen,          \* Overseen[p]: the department p oversees as a coordinator, or NoRow
    Other              \* whoever is not followed

VARIABLES
    profiled,          \* the people with a researcher's profile
    discoverable,      \* the students who opted in to being found
    project,           \* status, deleted, owner, members, department
    opening,           \* status, kind, by, department, past its deadline, full
    publication        \* whether it is there

visibilityVars == <<users, profiled, discoverable, project, opening, publication>>

Things == {"project", "opening", "publication"}
Items == Things \cup People
PUBLIC_STATUSES == {"active", "completed"}
ProjectStatus == {"draft", "pending_review", "archived"} \cup PUBLIC_STATUSES
OpeningStatus == {"draft", "open", "closed", "filled"}
Anywhere == Departments \cup {NoRow}
ProjectRow ==
    [status : ProjectStatus, deleted : BOOLEAN, owner : People \cup {Other},
     members : SUBSET People, department : Anywhere]
OpeningRow ==
    [status : OpeningStatus, kind : {"student", "collaboration"}, by : People \cup {Other},
     department : Anywhere, past : BOOLEAN, full : BOOLEAN]

\* A coordinator's scope is a department; nobody else's counts.
CoordinatorDepartment(p) ==
    IF users[p].role = "research_coordinator" THEN Overseen[p] ELSE NoRow

Oversees(p, department) == department # NoRow /\ CoordinatorDepartment(p) = department

\* visibility_filter of projects; a dean must see what crosses departments.
SeesProject(p) ==
    /\ ~project.deleted
    /\ \/ InstitutionWide(p)
       \/ project.status \in PUBLIC_STATUSES
       \/ p \in {project.owner} \cup project.members
       \/ Oversees(p, project.department)

\* visibility_filter of opportunities.
SeesOpening(p) ==
    \/ users[p].role = "admin"
    \/ opening.status # "draft"
    \/ opening.by = p
    \/ Oversees(p, opening.department)

\* cards_for_researchers, list_researchers, get_researcher.
ResearcherListed(q) == users[q].active /\ q \in profiled

\* cards_for_students, list_discoverable_students.
StudentListed(q) == users[q].active /\ q \in discoverable

MayFind(p, x) ==
    CASE x = "project" -> SeesProject(p)
      [] x = "opening" -> SeesOpening(p)
      [] x = "publication" -> publication
      [] OTHER -> ResearcherListed(x)

----------------------------------------------------------------------------
(* What other handlers do to them, one commit each *)

\* projects/policies.py TRANSITIONS, without who may take them.
ProjectTransitions ==
    {<<"draft", "pending_review">>, <<"pending_review", "active">>,
     <<"pending_review", "draft">>, <<"active", "completed">>}
    \cup ((ProjectStatus \ {"archived"}) \X {"archived"})

ProjectChanges ==
    /\ ~project.deleted
    /\ \/ \E s \in ProjectStatus :
             /\ <<project.status, s>> \in ProjectTransitions
             /\ project' = [project EXCEPT !.status = s]
       \/ project.status = "draft" /\ project' = [project EXCEPT !.deleted = TRUE]
       \/ \E p \in People \ {project.owner} :
             project' = [project EXCEPT !.members = IF p \in @ THEN @ \ {p} ELSE @ \cup {p}]
    /\ UNCHANGED <<users, profiled, discoverable, opening, publication>>

OpeningChanges ==
    /\ \/ /\ opening.status = "draft" /\ ~opening.past
          /\ opening' = [opening EXCEPT !.status = "open"]
       \/ /\ opening.status \in {"draft", "open"}
          /\ opening' = [opening EXCEPT !.status = "closed"]
       \/ /\ opening.status = "open"
          /\ opening' \in {[opening EXCEPT !.status = "filled", !.full = TRUE],
                           [opening EXCEPT !.full = ~@], [opening EXCEPT !.past = TRUE]}
    /\ UNCHANGED <<users, profiled, discoverable, project, publication>>

\* A publication is deleted; a student opts in or out; an account is closed or opened.
PeopleChange ==
    /\ \/ publication /\ publication' = FALSE /\ UNCHANGED <<users, discoverable>>
       \/ \E p \in People :
             /\ users[p].role = "student"
             /\ discoverable' = IF p \in discoverable THEN discoverable \ {p}
                                ELSE discoverable \cup {p}
             /\ UNCHANGED <<users, publication>>
       \/ \E p \in People :
             /\ Exists(p)
             /\ users' = [users EXCEPT ![p].active = ~@]
             /\ UNCHANGED <<discoverable, publication>>
    /\ UNCHANGED <<profiled, project, opening>>

VisibilityTypeOK ==
    /\ UsersTypeOK
    /\ profiled \subseteq People /\ discoverable \subseteq People
    /\ project \in ProjectRow /\ opening \in OpeningRow
    /\ publication \in BOOLEAN
=============================================================================
