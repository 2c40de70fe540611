---------------------------------- MODULE Desk ----------------------------------
(***************************************************************************)
(* The components that share the directory of people and nothing else,     *)
(* side by side: a behaviour is one of the component named by part, and    *)
(* leaves the others' variables as they are.  Each has people, rows and    *)
(* bounds of its own.                                                      *)
(***************************************************************************)
EXTENDS Naturals, Sequences, FiniteSets

CONSTANTS
    NoRow, Workers, Departments,
    Correspondents, Letters, Files, Notes, LetterMoves,          \* Requests
    Readers, Notices, Documents, MaxText,                        \* Board
    Things, MaxHalfDays, MaxNudges,                              \* Nudges, among the Readers
    Savers, Items, Stages, Suited, LEAD_DAYS, MaxDay, MaxDue,    \* Reminders
    Officers, MAX_ATTEMPTS, Given, AccountMoves,                 \* Accounts
    Callers, Followed, Tokens,                                   \* Sessions
    Addresses, MaxRequests, Window, MaxTime,                     \* Throttle
    Scholars, Works, Entries, Titles, Dois, Projects, Externals, Reviews,
    RecordMoves,                                                 \* Register
    Profiled, Researchers, Branches, Scope, Papers,              \* Imports
    SourceDois, Headings, Years, Answering, MaxWorks, MaxApplied, \* Merge
    Observed, Checkpoints, Depends, Threshold, FigureMoves,      \* Figures, in the Branches
    Texts, MaxSaves, MaxStamp                                    \* Matching

VARIABLES
    part, users, work, crossed, moves, clock,
    request, attached, told,
    text, documents, opened, written, notice,
    thing, nudges, heard,
    today, item, saved, milestone, audience, notified, unread, pass, owed, swept,
    departments, scope, verified, guesses,
    token, handed, owes, ended,
    hits, waiting, admitted, late,
    pub, review, used, removed,
    profile, register, unseen,
    works, groups, byDoi, entries, ticked, todo,
    standing, discoverable, project, stage, authors, pairing, savers, opening, booking, day,
    version, updatedAt, queued, embedded, cache, ranked, behind, unnoted

requestOwn == <<request, attached, told>>
boardOwn == <<text, documents, opened, written, notice>>
nudgeOwn == <<thing, nudges, heard>>
reminderOwn == <<today, item, saved, milestone, audience, notified, unread, pass, owed, swept>>
accountOwn == <<departments, scope, verified, guesses>>
sessionOwn == <<token, handed, owes, ended>>
throttleOwn == <<hits, waiting, admitted, late>>
registerOwn == <<pub, review, used, removed>>
importOwn == <<profile, register, unseen>>
mergeOwn == <<works, groups, byDoi, entries, ticked, todo>>
figureOwn ==
    <<standing, discoverable, project, stage, authors, pairing, savers, opening, booking, day>>
matchingOwn == <<version, updatedAt, queued, embedded, cache, ranked, behind, unnoted>>

vars == <<part, users, work, crossed, moves, clock, requestOwn, boardOwn, nudgeOwn,
          reminderOwn, accountOwn, sessionOwn, throttleOwn, registerOwn, importOwn, mergeOwn,
          figureOwn, matchingOwn>>

Requests == INSTANCE Requests
    WITH People <- Correspondents, MaxMoves <- LetterMoves
Board == INSTANCE Board
    WITH People <- Readers
Nudges == INSTANCE Nudges
    WITH People <- Readers, MaxClock <- MaxHalfDays
Reminders == INSTANCE Reminders
    WITH People <- Savers, Milestones <- Stages, Schedulers <- Workers
Accounts == INSTANCE Accounts
    WITH People <- Officers, MaxMoves <- AccountMoves
Sessions == INSTANCE Sessions
    WITH People <- Callers, Watched <- Followed
Throttle == INSTANCE Throttle
    WITH Keys <- Addresses, MaxClock <- MaxTime, Threads <- Workers
Register == INSTANCE Register
    WITH People <- Scholars, MaxMoves <- RecordMoves
Imports == INSTANCE Imports
    WITH People <- Profiled, Departments <- Branches, Watched <- Researchers
Merge == INSTANCE Merge
    WITH Dois <- SourceDois, Titles <- Headings
Figures == INSTANCE Figures
    WITH People <- Observed, Departments <- Branches, Milestones <- Checkpoints,
         MaxMoves <- FigureMoves,
         profile <- standing, milestone <- stage, request <- pairing
Matching == INSTANCE Matching
    WITH Documents <- Texts, Counted <- Texts, MaxClock <- MaxStamp

\* An empty column is no row, and only roles are given.
ASSUME RowsAssumption ==
    /\ NoRow \notin Sessions!TokenRow
    /\ NoRow \notin Accounts!UserRow
    /\ NoRow \notin Requests!LetterRow
    /\ NoRow \notin Board!NoticeRow
    /\ NoRow \notin Register!PubRow /\ NoRow \notin Register!ReviewRow
    /\ NoRow \notin Imports!UserRow
    /\ NoRow \notin Figures!UserRow /\ NoRow \notin Branches
ASSUME BudgetAssumption == MaxRequests \in Nat /\ Window \in Nat /\ MaxTime \in Nat
ASSUME RolesAssumption == Given \subseteq Accounts!Roles
ASSUME TextsAssumption == IsFiniteSet(Texts) /\ MaxStamp \in Nat /\ NoRow \notin Nat
\* The sources there are; a title has a word in it.
ASSUME SourcesAssumption ==
    /\ Answering \subseteq {"orcid", "openalex", "crossref", "semantic_scholar"}
    /\ {} \notin Headings
    /\ NoRow \notin SourceDois /\ NoRow \notin Years /\ NoRow \notin Headings
\* The bounds are numbers, and the sets that name some of another's members lie within it.
ASSUME DeskBoundsAssumption ==
    /\ LetterMoves \in Nat /\ AccountMoves \in Nat /\ RecordMoves \in Nat /\ FigureMoves \in Nat
    /\ MaxText \in Nat /\ MaxHalfDays \in Nat /\ MaxNudges \in Nat /\ MaxDay \in Nat
    /\ MAX_ATTEMPTS \in Nat /\ MaxWorks \in Nat /\ MaxSaves \in Nat
    /\ NoRow \notin Imports!VerificationStatus
    /\ Followed \subseteq Callers /\ Suited \subseteq Savers \X Savers

----------------------------------------------------------------------------
\* The parts that use what several of them use under one name.
Using(name) ==
    CASE name = "users" ->
            {"requests", "board", "nudges", "accounts", "sessions", "register", "imports",
             "figures"}
      [] name = "work" ->
            {"requests", "board", "nudges", "accounts", "sessions", "register", "imports",
             "matching"}
      [] name = "crossed" ->
            {"requests", "board", "nudges", "sessions", "register", "imports"}
      [] name = "moves" -> {"requests", "accounts", "register", "figures"}
      [] name = "clock" -> {"nudges", "throttle", "matching"}

\* A part that is not the one of this behaviour has no rows.
Absent ==
    /\ IF part \in Using("users") THEN TRUE ELSE users = NoRow
    /\ IF part \in Using("work") THEN TRUE ELSE work = NoRow
    /\ IF part \in Using("crossed") THEN TRUE ELSE crossed = NoRow
    /\ IF part \in Using("moves") THEN TRUE ELSE moves = NoRow
    /\ IF part \in Using("clock") THEN TRUE ELSE clock = NoRow
    /\ IF part = "requests" THEN TRUE
       ELSE request = NoRow /\ attached = NoRow /\ told = NoRow
    /\ IF part = "board" THEN TRUE
       ELSE /\ text = NoRow /\ documents = NoRow /\ opened = NoRow
            /\ written = NoRow /\ notice = NoRow
    /\ IF part = "nudges" THEN TRUE ELSE thing = NoRow /\ nudges = NoRow /\ heard = NoRow
    /\ IF part = "reminders" THEN TRUE
       ELSE /\ today = NoRow /\ item = NoRow /\ saved = NoRow /\ milestone = NoRow
            /\ audience = NoRow /\ notified = NoRow /\ unread = NoRow /\ pass = NoRow
            /\ owed = NoRow /\ swept = NoRow
    /\ IF part = "accounts" THEN TRUE
       ELSE departments = NoRow /\ scope = NoRow /\ verified = NoRow /\ guesses = NoRow
    /\ IF part = "sessions" THEN TRUE
       ELSE token = NoRow /\ handed = NoRow /\ owes = NoRow /\ ended = NoRow
    /\ IF part = "throttle" THEN TRUE
       ELSE hits = NoRow /\ waiting = NoRow /\ admitted = NoRow /\ late = NoRow
    /\ IF part = "register" THEN TRUE
       ELSE pub = NoRow /\ review = NoRow /\ used = NoRow /\ removed = NoRow
    /\ IF part = "imports" THEN TRUE
       ELSE profile = NoRow /\ register = NoRow /\ unseen = NoRow
    /\ IF part = "merge" THEN TRUE
       ELSE /\ works = NoRow /\ groups = NoRow /\ byDoi = NoRow
            /\ entries = NoRow /\ ticked = NoRow /\ todo = NoRow
    /\ IF part = "figures" THEN TRUE
       ELSE /\ standing = NoRow /\ discoverable = NoRow /\ project = NoRow
            /\ stage = NoRow /\ authors = NoRow /\ pairing = NoRow
            /\ savers = NoRow /\ opening = NoRow /\ booking = NoRow /\ day = NoRow
    /\ IF part = "matching" THEN TRUE
       ELSE /\ version = NoRow /\ updatedAt = NoRow /\ queued = NoRow /\ embedded = NoRow
            /\ cache = NoRow /\ ranked = NoRow /\ behind = NoRow /\ unnoted = NoRow

Init ==
    /\ \/ part = "requests" /\ Requests!UsersTypeOK /\ Requests!Init
       \/ part = "board" /\ Board!UsersTypeOK /\ Board!Init
       \/ part = "nudges" /\ Nudges!UsersTypeOK /\ Nudges!Init
       \/ part = "reminders" /\ Reminders!Init
       \/ part = "accounts" /\ Accounts!UsersTypeOK /\ Accounts!Init
       \/ part = "sessions" /\ Sessions!UsersTypeOK /\ Sessions!Init
       \/ part = "throttle" /\ Throttle!Init
       \/ part = "register" /\ Register!UsersTypeOK /\ Register!Init
       \/ part = "imports" /\ Imports!UsersTypeOK /\ Imports!Init
       \/ part = "merge" /\ Merge!Init
       \/ part = "figures" /\ Figures!UsersTypeOK /\ Figures!Init
       \/ part = "matching" /\ Matching!Init
    /\ Absent

Next ==
    /\ UNCHANGED part
    /\ \/ part = "requests" /\ Requests!Next
       \/ part = "board" /\ Board!Next
       \/ part = "nudges" /\ Nudges!Next
       \/ part = "reminders" /\ Reminders!Next
       \/ part = "accounts" /\ Accounts!Next
       \/ part = "sessions" /\ Sessions!Next
       \/ part = "throttle" /\ Throttle!Next
       \/ part = "register" /\ Register!Next
       \/ part = "imports" /\ Imports!Next
       \/ part = "merge" /\ Merge!Next
       \/ part = "figures" /\ Figures!Next
       \/ part = "matching" /\ Matching!Next
    /\ IF part \in Using("users") THEN TRUE ELSE UNCHANGED users
    /\ IF part \in Using("work") THEN TRUE ELSE UNCHANGED work
    /\ IF part \in Using("crossed") THEN TRUE ELSE UNCHANGED crossed
    /\ IF part \in Using("moves") THEN TRUE ELSE UNCHANGED moves
    /\ IF part \in Using("clock") THEN TRUE ELSE UNCHANGED clock
    /\ IF part = "requests" THEN TRUE ELSE UNCHANGED requestOwn
    /\ IF part = "board" THEN TRUE ELSE UNCHANGED boardOwn
    /\ IF part = "nudges" THEN TRUE ELSE UNCHANGED nudgeOwn
    /\ IF part = "reminders" THEN TRUE ELSE UNCHANGED reminderOwn
    /\ IF part = "accounts" THEN TRUE ELSE UNCHANGED accountOwn
    /\ IF part = "sessions" THEN TRUE ELSE UNCHANGED sessionOwn
    /\ IF part = "throttle" THEN TRUE ELSE UNCHANGED throttleOwn
    /\ IF part = "register" THEN TRUE ELSE UNCHANGED registerOwn
    /\ IF part = "imports" THEN TRUE ELSE UNCHANGED importOwn
    /\ IF part = "merge" THEN TRUE ELSE UNCHANGED mergeOwn
    /\ IF part = "figures" THEN TRUE ELSE UNCHANGED figureOwn
    /\ IF part = "matching" THEN TRUE ELSE UNCHANGED matchingOwn

Spec == Init /\ [][Next]_vars

----------------------------------------------------------------------------
(* The properties of the components, stated and explained in their modules *)

\* Every row of every component has the columns, and the values, the code gives it: no
\* count runs below zero or past its limit, and no code is left to a challenge used up.
TypeOK ==
    /\ part = "requests" => Requests!TypeOK
    /\ part = "board" => Board!TypeOK
    /\ part = "nudges" => Nudges!TypeOK
    /\ part = "reminders" => Reminders!TypeOK
    /\ part = "accounts" => Accounts!TypeOK
    /\ part = "sessions" => Sessions!TypeOK
    /\ part = "throttle" => Throttle!TypeOK
    /\ part = "register" => Register!TypeOK
    /\ part = "imports" => Imports!TypeOK
    /\ part = "merge" => Merge!TypeOK
    /\ part = "figures" => Figures!TypeOK
    /\ part = "matching" => Matching!TypeOK

\* A sender is told exactly the answer on the record (Requests).
ToldIsTheAnswer == part = "requests" => Requests!ToldIsTheAnswer

\* An answer stays as it was given, with its files (Requests).
AnswerIsFinal == [][part = "requests" => Requests!KeepsAnswers]_vars

\* What has been on the board stays as it was read, and what goes up is unread for everybody
\* it is addressed to (Board).
SaidToItsReaders ==
    [][part = "board" => Board!KeepsWhatWasSaid /\ Board!GoesUpFresh]_vars

\* Nudges about one thing are a whole day apart (Nudges).
NudgesAreSpaced == part = "nudges" => Nudges!NudgesAreSpaced

\* Whoever holds an open item has its reminder on the day, and has it once (Reminders).
RemindedOnceOnTheDay ==
    part = "reminders" => Reminders!RemindedOnceOnTheDay

\* The last administrator goes only by a count that was overtaken (Accounts).
AdministratorRemains == [][part = "accounts" => Accounts!KeepsAdministrator]_vars

\* A family of sessions has one live token, and none once it was ended; a password somebody
\* else knows is behind the wall (Sessions).
SessionsAreTheirOwners == part = "sessions" => Sessions!SessionsAreTheirOwners

\* No stretch as long as the window holds more requests than the budget (Throttle).
NeverOverBudget == part = "throttle" => Throttle!NeverOverBudget

\* No merge of two publications loses one of them (Register).
NoWorkIsLost == part = "register" => Register!NoWorkIsLost

\* A verified record holds nothing that no reviewer has seen (Imports); records brought from
\* several sources are one work exactly when matches connect them, and an import made again
\* enters nothing (Merge).
ImportedAsWorks ==
    /\ part = "imports" => Imports!VerifiedIsReviewed
    /\ part = "merge" => Merge!GroupsAreWorks /\ Merge!ImportedOnce

\* Every department's row is what its own coordinator is shown (Figures).
FiguresAgree == part = "figures" => Figures!FiguresAgree

\* Nothing that happens in one department shows in the figures of another (Figures).
ConfinedToDepartment == [][part = "figures" => Figures!ConfinedToDepartment]_vars

\* A stored vector is of what its document says, or a re-embedding is on its way, and a
\* ranking is by no older text than stood when it was asked for (Matching).
RankedByTheText ==
    part = "matching" => Matching!VectorFollowsText /\ Matching!RankedByWhatStood
=============================================================================
