--------------------------------- MODULE House ---------------------------------
(***************************************************************************)
(* Collaborations, and beside it the components that ask who may see what, *)
(* the places of an opening, and the schema all of them are stored in.  As *)
(* on the Desk, a behaviour is one of the component named by part.         *)
(***************************************************************************)
EXTENDS Collaborations, Sequences

CONSTANTS
    People, Departments, Overseen, Other,
    Clerks,                                         \* the handlers of openings and searches
    MaxMoves,
    Applicants, MaxPositions, MaxEvents,            \* Openings
    Askers, Queries, MaxSaved,                      \* Discovery
    Reports, Participants, Reporters, Moderators,   \* Moderation
    Staff, Charge, Facilities, Equipment, Bookings, Managers, Bookers, Movers, \* Custody
    Spellings, Areas, Suggestions, Calls, MaxAdded, \* Vocabulary
    Upgrades, Downgrades, Landmarks, Processes, Instances, Goals, RowKinds,
    Later, Noted, MaxRows, MaxRuns                  \* Schema

VARIABLES
    part, users, crossed, moves, notice,
    profiled, discoverable, project, opening, publication,
    pairing, coauthors, applied, saved, shown,
    report, message, answers, fell,
    status, positions, deadlinePassed, projectActive, application, timeline, team, lapses,
    facility, equipment, booking, moved,
    skills, area, alias, suggestion, call, added, asked,
    version, schema, rows, process, health, met, lowered, runs

collaborationOwn == <<state, request, thread, raced>>
visibilityOwn == <<profiled, discoverable, project, opening, publication>>
discoveryOwn == <<pairing, coauthors, applied, saved, shown>>
moderationOwn == <<report, message, answers, fell>>
placesOwn ==
    <<status, positions, deadlinePassed, projectActive, application, timeline, team, lapses,
      notice>>
custodyOwn == <<facility, equipment, booking, moved>>
vocabularyOwn == <<skills, area, alias, suggestion, call, added, asked>>
schemaOwn == <<version, schema, rows, process, health, met, lowered, runs>>

houseVars == <<part, users, work, moves, crossed, collaborationOwn, visibilityOwn,
               discoveryOwn, moderationOwn, placesOwn, custodyOwn, vocabularyOwn, schemaOwn>>

Openings == INSTANCE Openings
    WITH Workers <- Clerks
Discovery == INSTANCE Discovery
    WITH Workers <- Clerks
Moderation == INSTANCE Moderation
Custody == INSTANCE Custody
    WITH People <- Staff, Overseen <- Charge
Vocabulary == INSTANCE Vocabulary
    WITH MaxMoves <- MaxAdded
Schema == INSTANCE Schema
    WITH Up <- Upgrades, Down <- Downgrades, Kinds <- RowKinds

\* An empty column is no row; nobody is a thing, and those who report are people.
ASSUME HouseRowsAssumption ==
    /\ NoRow \notin Moderation!ReportRow
    /\ NoRow \notin Custody!FacilityRow /\ NoRow \notin Custody!EquipmentRow
    /\ NoRow \notin Discovery!UserRow
    /\ NoRow \notin Vocabulary!AreaRow /\ NoRow \notin Vocabulary!SuggestionRow
    /\ NoRow \notin Openings!ApplicationStatus
    /\ NoRow \notin Areas /\ \A tags \in SUBSET Areas : tags # NoRow
ASSUME PlacesAssumption == MaxPositions \in Nat \ {0} /\ MaxEvents \in Nat
ASSUME RevisionsAssumption ==
    /\ Len(Upgrades) \in Nat /\ Goals \subseteq 0 .. Len(Upgrades)
    /\ Instances \subseteq Processes
\* Each revision of the schema taken by itself does what it should (Schema).
ASSUME LeadOnAssumption ==
    MaxRows \in Nat /\ \A n \in Schema!Numbers : Schema!LeadsOn(n)
ASSUME PeopleAssumption == Reporters \subseteq People /\ \A p \in People : p \notin Discovery!Things
\* Those who ask, book and move are among the people and the staff; a query finds items.
ASSUME SubsetsAssumption ==
    /\ Askers \subseteq People /\ Queries \subseteq SUBSET Discovery!Items
    /\ Bookers \subseteq Staff /\ Movers \subseteq Staff

----------------------------------------------------------------------------
\* The parts that use what several of them use under one name.
Using(name) ==
    CASE name = "work" ->
             {"collaborations", "places", "discovery", "moderation", "custody", "vocabulary"}
      [] name = "moves" -> {"discovery", "moderation", "custody", "vocabulary"}
      [] name = "crossed" -> {"moderation", "vocabulary"}
      [] name = "users" -> {"discovery", "moderation", "custody"}
      [] name = "visibility" -> {"discovery", "moderation"}

\* A part that is not the one of this behaviour has no rows; of the collaborations nobody
\* has asked anybody yet.
Absent ==
    /\ IF part \in Using("work") THEN TRUE ELSE work = NoRow
    /\ IF part \in Using("moves") THEN TRUE ELSE moves = NoRow
    /\ IF part \in Using("users") THEN TRUE ELSE users = NoRow
    /\ IF part \in Using("visibility") THEN TRUE
       ELSE /\ profiled = NoRow /\ discoverable = NoRow
            /\ project = NoRow /\ opening = NoRow /\ publication = NoRow
    /\ IF part = "collaborations" THEN TRUE
       ELSE /\ state = [p \in Pairs |-> NoRow]
            /\ request = [q \in Requests |-> NoRow]
            /\ thread = {} /\ raced = {}
    /\ IF part = "places" THEN TRUE
       ELSE /\ status = NoRow /\ positions = NoRow /\ deadlinePassed = NoRow
            /\ projectActive = NoRow /\ application = NoRow /\ timeline = NoRow
            /\ team = NoRow /\ lapses = NoRow /\ notice = NoRow
    /\ IF part = "discovery" THEN TRUE
       ELSE /\ pairing = NoRow /\ coauthors = NoRow /\ applied = NoRow
            /\ saved = NoRow /\ shown = NoRow
    /\ IF part \in Using("crossed") THEN TRUE ELSE crossed = NoRow
    /\ IF part = "moderation" THEN TRUE
       ELSE /\ report = NoRow /\ message = NoRow /\ answers = NoRow /\ fell = NoRow
    /\ IF part = "custody" THEN TRUE
       ELSE /\ facility = NoRow /\ equipment = NoRow /\ booking = NoRow /\ moved = NoRow
    /\ IF part = "vocabulary" THEN TRUE
       ELSE /\ skills = NoRow /\ area = NoRow /\ alias = NoRow /\ suggestion = NoRow
            /\ call = NoRow /\ added = NoRow /\ asked = NoRow
    /\ IF part = "schema" THEN TRUE
       ELSE /\ version = NoRow /\ schema = NoRow /\ rows = NoRow /\ process = NoRow
            /\ health = NoRow /\ met = NoRow /\ lowered = NoRow /\ runs = NoRow

HouseInit ==
    /\ \/ part = "collaborations" /\ Init
       \/ part = "places" /\ Openings!Init
       \/ part = "discovery" /\ Discovery!Init
       \/ part = "moderation" /\ Moderation!Init
       \/ part = "custody" /\ Custody!UsersTypeOK /\ Custody!Init
       \/ part = "vocabulary" /\ Vocabulary!Init
       \/ part = "schema" /\ Schema!Init
    /\ Absent

HouseNext ==
    /\ UNCHANGED part
    /\ \/ part = "collaborations" /\ Next
       \/ part = "places" /\ Openings!Next
       \/ part = "discovery" /\ Discovery!Next
       \/ part = "moderation" /\ Moderation!Next
       \/ part = "custody" /\ Custody!Next
       \/ part = "vocabulary" /\ Vocabulary!Next
       \/ part = "schema" /\ Schema!Next
    /\ IF part \in Using("work") THEN TRUE ELSE UNCHANGED work
    /\ IF part \in Using("moves") THEN TRUE ELSE UNCHANGED moves
    /\ IF part \in Using("crossed") THEN TRUE ELSE UNCHANGED crossed
    /\ IF part \in Using("users") THEN TRUE ELSE UNCHANGED users
    /\ IF part \in Using("visibility") THEN TRUE ELSE UNCHANGED visibilityOwn
    /\ IF part = "collaborations" THEN TRUE ELSE UNCHANGED collaborationOwn
    /\ IF part = "places" THEN TRUE ELSE UNCHANGED placesOwn
    /\ IF part = "discovery" THEN TRUE ELSE UNCHANGED discoveryOwn
    /\ IF part = "moderation" THEN TRUE ELSE UNCHANGED moderationOwn
    /\ IF part = "custody" THEN TRUE ELSE UNCHANGED custodyOwn
    /\ IF part = "vocabulary" THEN TRUE ELSE UNCHANGED vocabularyOwn
    /\ IF part = "schema" THEN TRUE ELSE UNCHANGED schemaOwn

HouseSpec == HouseInit /\ [][HouseNext]_houseVars

----------------------------------------------------------------------------
(* The properties of the components, stated and explained in their modules *)

\* Every row of every component has the columns, and the values, the code gives it.
HouseTypeOK ==
    /\ part = "collaborations" => TypeOK
    /\ part = "places" => Openings!TypeOK
    /\ part = "discovery" => Discovery!TypeOK
    /\ part = "moderation" => Moderation!TypeOK
    /\ part = "custody" => Custody!TypeOK
    /\ part = "vocabulary" => Vocabulary!TypeOK
    /\ part = "schema" => Schema!TypeOK

\* No more are accepted than there are places, and FILLED says exactly that every place is
\* taken, unless acceptances overlap (Openings); a facility stays in the care it was given
\* to, with what stands in it and what waits for it (Custody).
PlacesAreKept ==
    /\ part = "places" => Openings!PlacesAreKept
    /\ part = "custody" => Custody!PlacesAreKept

\* Nothing is shown to anybody that they could not find (Discovery).
NeverWidened == part = "discovery" => Discovery!NeverWidened

\* What a queue, a recommendation or a picker offers can be decided, asked, applied to or
\* appointed (Discovery, Custody).
OfferedCanBeDone ==
    /\ part = "discovery" => Discovery!OfferedCanBeDone
    /\ part = "custody" => Custody!OfferedCanBeDone

\* What was reviewed into the vocabulary is there once, is found by whoever asks for it in
\* other words, and tags a call as one edit of it said (Vocabulary).
WordsAreReviewed == part = "vocabulary" => Vocabulary!WordsAreReviewed

\* What moderation took out of circulation stays out (Moderation).
ModerationStands == part = "moderation" => Moderation!ModerationStands

\* A database has at its revision what one built from nothing has there (Schema).
SchemaIsItsRevision == part = "schema" => Schema!SchemaIsItsRevision

\* A process alone with the database always reaches the head (Schema).
AloneItReachesHead == part = "schema" => Schema!AloneItReachesHead

\* An instance that says it is ready has the schema its code was written for (Schema).
ReadyIsCurrent == part = "schema" => Schema!ReadyIsCurrent
=============================================================================
