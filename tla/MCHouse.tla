-------------------------------- MODULE MCHouse --------------------------------
(* The components of House: collaborations on model values, the others on small sets. *)
EXTENDS House, FiniteSetsExt, TLC

\* The viewer oversees the one department as its coordinator, and the owner none.
MCOverseen == [p \in People |-> IF p = "v" THEN "d" ELSE NoRow]
MCCharge == [p \in Staff |-> IF p = "c" THEN "d" ELSE NoRow]
MCSpellings == {<<"ml", "lower">>, <<"ml", "upper">>, <<"learning", "lower">>}

Revisions == INSTANCE Revisions
Built == Revisions!Fresh
MCUpgrades == Revisions!upgrade
MCDowngrades == Revisions!downgrade
MCLandmarks == Built

\* A type has the values it had at some revision since.
Since(built, n, type) ==
    IF type \notin built[n].types THEN {{}}
    ELSE {{v \in built[m].later : v[1] = type} : m \in n .. Len(built)}
Gained(built) ==
    [n \in 1 .. Len(built) |->
        FoldSet(LAMBDA type, sets :
                    {gained \cup values : gained \in sets, values \in Since(built, n, type)},
                {{}}, {v[1] : v \in built[Len(built)].later})]
Kept == Gained(Built)
MCLater == Kept

\* A run upwards has created the types that came after the revision it began at.
CreatedSince(built) ==
    [n \in 1 .. Len(built) |-> {built[n].types \ built[m].types : m \in 1 .. n}]
Created == CreatedSince(Built)
MCNoted == Created

Kind(r, s, u) == [rows |-> r, since |-> s, until |-> u]
MCKinds ==
    {Kind("no number", 2, 13), Kind("no email", 14, 36), Kind("no pair", 9, 20),
     Kind("two threads", 19, 20), Kind("pair thread", 21, 36), Kind("saved call", 12, 36),
     Kind("not filed", 33, 36), Kind("new role", 26, 36)}

----------------------------------------------------------------------------
Somebody(role) == [role |-> role, active |-> TRUE,
                   department |-> IF role \in {"admin", "dean_of_research"} THEN NoRow ELSE "d"]

\* Two people, the viewer in one department and the owner in the other.
Standing(viewer, owner) ==
    /\ users = [p \in People |-> IF p = "v" THEN Somebody(viewer)
                               ELSE [Somebody(owner) EXCEPT !.department = "e"]]
    /\ profiled = {p \in People : users[p].role # "student"}
    /\ discoverable = {p \in People : users[p].role = "student"}
    /\ publication = TRUE

Project(s, d) ==
    [status |-> s, deleted |-> FALSE, owner |-> Other, members |-> {}, department |-> d]
Opening(s, k) ==
    [status |-> s, kind |-> k, by |-> "o", department |-> "d", past |-> FALSE, full |-> FALSE]

\* A project to review, an opening to apply to, a project or an opening that is not public.
Scenes ==
    \/ /\ \E v \in {"research_coordinator", "dean_of_research", "admin"} : Standing(v, "faculty")
       /\ \E d \in {"d", "e", NoRow} : project = Project("pending_review", d)
       /\ opening = Opening("closed", "student")
    \/ /\ \E v \in {"student", "faculty", "research_coordinator", "dean_of_research"},
             o \in {"student", "faculty"} : Standing(v, o)
       /\ project = Project("archived", NoRow)
       /\ \E k \in {"student", "collaboration"} : opening = Opening("open", k)
    \/ /\ \E v \in {"student", "research_coordinator"}, o \in {"student", "faculty"} :
             Standing(v, o)
       /\ \E s \in {"draft", "active"} : project = Project(s, "d")
       /\ opening = Opening("draft", "student")

MCInit ==
    /\ \/ part \in {"collaborations", "places", "vocabulary", "schema"}
       \/ /\ part = "discovery"
          /\ Scenes
          /\ coauthors = FALSE /\ pairing = "none"
       \/ /\ part = "moderation"
          /\ Standing("research_coordinator", "student")
          /\ \E s \in {"draft", "active"} : project = Project(s, "d")
          /\ \E s \in {"draft", "open"} : opening = Opening(s, "student")
       \/ /\ part = "custody"
          /\ \E role \in {"student", "facility_custodian"}, d \in Departments :
                users = [p \in Staff |->
                           CASE p = "c" -> Somebody("research_coordinator")
                             [] p = "k" -> Somebody("facility_custodian")
                             [] p = "l" -> [Somebody(role) EXCEPT !.department = d]]
    /\ HouseInit

MCSpec == MCInit /\ [][HouseNext]_houseVars

\* Request keys and workers are interchangeable, and so are the two users.
MCSymmetry == Permutations(Contactable) \cup Permutations(Requests) \cup Permutations(Workers)

=============================================================================
