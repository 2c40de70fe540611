------------------------------- MODULE Vocabulary -------------------------------
(***************************************************************************)
(* The words everything is tagged with (taxonomy/service.py): skills,      *)
(* research areas in two levels, aliases, suggestions and their review;    *)
(* and the funding calls (funding/service.py), whose only tie to the rest  *)
(* is the areas they are tagged with.                                      *)
(*                                                                         *)
(* A spelling is a word in one of two cases: the names and aliases are     *)
(* unique as they are spelled, and searched whatever their case.  Nobody   *)
(* deletes a skill, an area or an alias, and a parent is never changed, so *)
(* a handler that adds one is a single step.                               *)
(***************************************************************************)
EXTENDS Naturals, FiniteSets

CONSTANTS
    Spellings,         \* <<word, case>>
    Areas,             \* bound: the keys of the research areas
    Suggestions, Calls,
    Workers,
    MaxMoves,          \* bound: what is added, asked for and edited
    NoRow

VARIABLES
    skills,            \* the names of the skills
    area,              \* area[a]: name and parent, or NoRow
    alias,             \* alias[x]: the skill or the area it stands for, or NoRow
    suggestion,        \* suggestion[s]: name, kind, status, or NoRow
    call,              \* call[c]: the areas a funding call is tagged with, or NoRow
    added,             \* ghost: added[s]: how many entries the approvals of s have made
    asked,             \* ghost: asked[c]: the areas the last request for c named
    crossed,           \* ghost: the suggestions and calls two handlers were on at once
    work,
    moves

vocabularyVars ==
    <<skills, area, alias, suggestion, call, added, asked, crossed, work, moves>>

Kinds == {"skill", "area"}
Word(x) == x[1]
AreaRow == [name : Spellings, parent : Areas \cup {NoRow}]
Targets == ({"skill"} \X Spellings) \cup ({"area"} \X Areas)
SuggestionRow ==
    [name : Spellings, kind : Kinds, status : {"pending", "approved", "rejected"}]

\* Bound: a request names one area for a call, or none.
Tags == {{a} : a \in Areas} \cup {{}}

Idle == [op |-> "idle"]
Work ==
    {Idle}
    \cup [op : {"review"}, on : Suggestions, verdict : {"approved", "rejected"}]
    \cup [op : {"edit"}, on : Calls, gone : SUBSET Areas, new : Tags]

Init ==
    /\ skills = {}
    /\ \E top, under \in Areas, x \in Spellings :
          /\ top = CHOOSE a \in Areas : TRUE
          /\ under = CHOOSE a \in Areas : a # top
          /\ under # top
          /\ area = [a \in Areas |->
                CASE a = top -> [name |-> x, parent |-> NoRow]
                  [] a = under -> [name |-> x, parent |-> top]
                  [] OTHER -> NoRow]
    /\ alias = [x \in Spellings |-> NoRow]
    /\ suggestion = [s \in Suggestions |-> NoRow]
    /\ call = [c \in Calls |-> NoRow]
    /\ added = [s \in Suggestions |-> 0]
    /\ asked = [c \in Calls |-> {}]
    /\ crossed = {}
    /\ work = [w \in Workers |-> Idle]
    /\ moves = 0

Counted == moves < MaxMoves /\ moves' = moves + 1
Known == {a \in Areas : area[a] # NoRow}
IsNew(a) == Areas # Known /\ a = CHOOSE b \in Areas : area[b] = NoRow

Begin(w, t) ==
    /\ work[w] = Idle
    /\ work' = [work EXCEPT ![w] = t]
    /\ crossed' = crossed \cup {work[v].on : v \in {v \in Workers \ {w} :
                                   work[v] # Idle /\ work[v].on = t.on}}
End(w) == work' = [work EXCEPT ![w] = Idle] /\ UNCHANGED crossed

----------------------------------------------------------------------------
(* Skills, areas, aliases *)

CreateSkill(x) ==
    /\ x \notin skills
    /\ skills' = skills \cup {x}
    /\ Counted
    /\ UNCHANGED <<area, alias, suggestion, call, added, asked, crossed, work>>

\* Fault: any area may have areas under it.
AnyDepth(parent) == parent # NoRow => area[parent] # NoRow

\* create_research_area: ResearchAreaNotFoundError, ResearchAreaTooDeepError.
MayBeParent(parent) ==
    parent # NoRow => area[parent] # NoRow /\ area[parent].parent = NoRow

CreateResearchArea(a, x, parent) ==
    /\ IsNew(a)
    /\ MayBeParent(parent)
    /\ area' = [area EXCEPT ![a] = [name |-> x, parent |-> parent]]
    /\ Counted
    /\ UNCHANGED <<skills, alias, suggestion, call, added, asked, crossed, work>>

\* create_tag_alias: no check against the names themselves, nor against the case.
CreateTagAlias(x, target) ==
    /\ alias[x] = NoRow
    /\ target \in ({"skill"} \X skills) \cup ({"area"} \X Known)
    /\ alias' = [alias EXCEPT ![x] = target]
    /\ Counted
    /\ UNCHANGED <<skills, area, suggestion, call, added, asked, crossed, work>>

\* The aliases that read as q; _resolve_alias_skill and _resolve_alias_research_area
\* fail on more than one.
AliasesOf(q) == {x \in Spellings : alias[x] # NoRow /\ Word(x) = Word(q)}

\* Fault: an alias is matched as it is spelled.
ResolveExact(kind, q) ==
    {alias[x] : x \in {x \in Spellings : x = q /\ alias[x] # NoRow /\ alias[x][1] = kind}}

\* An alias of the other kind resolves to nothing.
Resolve(kind, q) == {alias[x] : x \in {x \in AliasesOf(q) : alias[x][1] = kind}}

\* search_skills, list_research_areas: by name, and by alias; SEARCH_LIMIT is not reached.
Found(kind, q) ==
    Resolve(kind, q) \cup
    (IF kind = "skill" THEN {<<kind, x>> : x \in {x \in skills : Word(x) = Word(q)}}
     ELSE {<<kind, a>> : a \in {a \in Known : Word(area[a].name) = Word(q)}})

----------------------------------------------------------------------------
(* Suggestions *)

Suggest(s, x, kind) ==
    /\ suggestion[s] = NoRow
    /\ suggestion' = [suggestion EXCEPT ![s] = [name |-> x, kind |-> kind, status |-> "pending"]]
    /\ Counted
    /\ UNCHANGED <<skills, area, alias, call, added, asked, crossed, work>>

\* Fault: a suggestion is reviewed again.
AnySuggestion(s) == suggestion[s] # NoRow

\* TagSuggestionAlreadyReviewedError
Reviewable(s) == suggestion[s] # NoRow /\ suggestion[s].status = "pending"

ReviewLoad(w, s, verdict) ==
    /\ Reviewable(s)
    /\ Begin(w, [op |-> "review", on |-> s, verdict |-> verdict])
    /\ UNCHANGED <<skills, area, alias, suggestion, call, added, asked, moves>>

Settled(s, verdict) == suggestion' = [suggestion EXCEPT ![s].status = verdict]

\* approve_suggestion of a skill: a name that is taken rolls the review back.
ApproveSkill(w, s) ==
    LET x == suggestion[s].name IN
    /\ suggestion[s].kind = "skill"
    /\ IF x \in skills THEN UNCHANGED <<skills, suggestion, added>>
       ELSE /\ skills' = skills \cup {x}
            /\ Settled(s, "approved")
            /\ added' = [added EXCEPT ![s] = @ + 1]
    /\ UNCHANGED area

\* Nothing refuses a second area of the same name.
ApproveArea(w, s, a) ==
    /\ suggestion[s].kind = "area"
    /\ IsNew(a)
    /\ area' = [area EXCEPT ![a] = [name |-> suggestion[s].name, parent |-> NoRow]]
    /\ Settled(s, "approved")
    /\ added' = [added EXCEPT ![s] = @ + 1]
    /\ UNCHANGED skills

Reject(w, s) == Settled(s, "rejected") /\ UNCHANGED <<skills, area, added>>

ReviewCommit(w) ==
    LET t == work[w] IN
    /\ t.op = "review"
    /\ IF t.verdict = "rejected" THEN Reject(w, t.on)
       ELSE ApproveSkill(w, t.on) \/ \E a \in Areas : ApproveArea(w, t.on, a)
    /\ End(w)
    /\ UNCHANGED <<alias, call, asked, moves>>

----------------------------------------------------------------------------
(* Funding calls *)

\* create_funding: _validate_areas
CreateFunding(c, tags) ==
    /\ call[c] = NoRow
    /\ ~\E w \in Workers : work[w] # Idle /\ work[w].on = c    \* its key is new
    /\ tags \subseteq Known
    /\ call' = [call EXCEPT ![c] = tags]
    /\ asked' = [asked EXCEPT ![c] = tags]
    /\ Counted
    /\ UNCHANGED <<skills, area, alias, suggestion, added, crossed, work>>

\* Fault: the tags the call had are left.
ClearsNothing(c) == {a \in call[c] : a \notin Areas}

\* _replace_areas: the rows its DELETE sees.
Cleared(c) == call[c]

UpdateLoad(w, c, tags) ==
    /\ call[c] # NoRow
    /\ tags \subseteq Known
    /\ Counted
    /\ Begin(w, [op |-> "edit", on |-> c, gone |-> Cleared(c), new |-> tags])
    /\ UNCHANGED <<skills, area, alias, suggestion, call, added, asked>>

\* update_funding: what another edit inserted meanwhile stays, or, when it is the same
\* row, makes the insert fail.
UpdateCommit(w) ==
    LET t == work[w]
        left == IF call[t.on] = NoRow THEN {} ELSE call[t.on] \ t.gone
        stored == call[t.on] # NoRow /\ left \cap t.new = {} IN
    /\ t.op = "edit"
    /\ call' = IF stored THEN [call EXCEPT ![t.on] = left \cup t.new] ELSE call
    /\ asked' = IF stored THEN [asked EXCEPT ![t.on] = t.new] ELSE asked
    /\ End(w)
    /\ UNCHANGED <<skills, area, alias, suggestion, added, moves>>

DeleteFunding(c) ==
    /\ call[c] # NoRow
    /\ call' = [call EXCEPT ![c] = NoRow]
    /\ asked' = [asked EXCEPT ![c] = {}]
    /\ Counted
    /\ UNCHANGED <<skills, area, alias, suggestion, added, crossed, work>>

\* list_funding with research_area_id: the area and those directly under it.
ListFunding(a) ==
    LET under == {b \in Known : b = a \/ area[b].parent = a} IN
    {c \in Calls : call[c] # NoRow /\ call[c] \cap under # {}}

Next ==
    \/ \E x \in Spellings :
          \/ CreateSkill(x)
          \/ \E a \in Areas, parent \in Areas \cup {NoRow} : CreateResearchArea(a, x, parent)
          \/ \E target \in Targets : CreateTagAlias(x, target)
          \/ \E s \in Suggestions, kind \in Kinds : Suggest(s, x, kind)
    \/ \E w \in Workers :
          \/ \E s \in Suggestions, verdict \in {"approved", "rejected"} : ReviewLoad(w, s, verdict)
          \/ ReviewCommit(w) \/ UpdateCommit(w)
          \/ \E c \in Calls, tags \in Tags : UpdateLoad(w, c, tags)
    \/ \E c \in Calls :
          \/ \E tags \in Tags : CreateFunding(c, tags)
          \/ DeleteFunding(c)

Spec == Init /\ [][Next]_vocabularyVars

----------------------------------------------------------------------------
TypeOK ==
    /\ skills \subseteq Spellings
    /\ area \in [Areas -> AreaRow \cup {NoRow}]
    /\ alias \in [Spellings -> Targets \cup {NoRow}]
    /\ suggestion \in [Suggestions -> SuggestionRow \cup {NoRow}]
    /\ call \in [Calls -> (SUBSET Areas) \cup {NoRow}]
    /\ work \in [Workers -> Work]

\* A suggestion that was approved made exactly one entry, and one that was not made none,
\* unless two reviewers were on it at once; a skill is never there twice over
\* (approve_suggestion, reject_suggestion).
ReviewIsWhatHappened ==
    \A s \in Suggestions :
        suggestion[s] # NoRow =>
            \/ added[s] = (IF suggestion[s].status = "approved" THEN 1 ELSE 0)
            \/ s \in crossed /\ (suggestion[s].kind = "skill" => added[s] <= 1)

\* Whoever searches by an alias, in whatever case, finds what it stands for, unless the
\* alias exists in two cases, when the search fails; and whoever filters the calls by an
\* area that has areas under it finds those tagged with either, which takes the two levels
\* the tree is held to (_resolve_alias_skill, create_research_area, list_funding).
WordsAreFound ==
    /\ \A x, q \in Spellings :
          /\ alias[x] # NoRow /\ Word(x) = Word(q)
          /\ Cardinality(AliasesOf(q)) = 1
          => alias[x] \in Found(alias[x][1], q)
    /\ \A c \in Calls : call[c] # NoRow =>
          \A a \in call[c] : \A top \in Known :
             (top = a \/ area[a].parent = top
                \/ (area[a].parent # NoRow /\ area[area[a].parent].parent = top))
             => c \in ListFunding(top)

\* A call is tagged with the areas one request named for it, unless two edits overlapped,
\* whose tags may then stand side by side (_replace_areas).
TagsAreOneEdit == \A c \in Calls \ crossed : call[c] # NoRow => call[c] = asked[c]

\* What was reviewed is there once, is found, and tags a call as one edit of it said.
WordsAreReviewed == ReviewIsWhatHappened /\ WordsAreFound /\ TagsAreOneEdit
=============================================================================
