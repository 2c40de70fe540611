--------------------------------- MODULE Merge ---------------------------------
(***************************************************************************)
(* What the outside sources say of a researcher's works: read one source   *)
(* after the other (imports/service.py: _gather), joined into one list of  *)
(* candidates (imports/merge.py), looked up in the register (_classify)    *)
(* and entered when ticked (apply).                                        *)
(*                                                                         *)
(* A title is the set of its words: titles with a word in common stand for *)
(* those that score at or above TITLE_MATCH_THRESHOLD, and spelling        *)
(* variants are one word.  The shortlist of CANDIDATE_LIMIT is not cut.    *)
(***************************************************************************)
EXTENDS Naturals, Sequences, FiniteSets

CONSTANTS
    NoRow,
    Dois, Titles, Years,
    Answering,       \* the sources that answer at all
    MaxWorks,        \* bound: records gathered
    MaxApplied       \* bound: records gathered in what is imported from

VARIABLES
    works,           \* works[i]: the records in the order they were read
    groups,          \* groups[g]: the positions that describe one work
    byDoi,           \* byDoi[d]: the group a DOI was first seen in
    entries,         \* the register, as far as these works go
    ticked,          \* the keys the researcher ticked
    todo             \* the merged works apply has still to come to

mergeVars == <<works, groups, byDoi, entries, ticked, todo>>

\* The order the sources are read in, and the one they are believed in.
Reading == <<"orcid", "openalex", "crossref", "semantic_scholar">>
METADATA_ORDER == <<"crossref", "openalex", "semantic_scholar", "orcid">>
Enrichers == {"crossref", "semantic_scholar"}
Rank(order, source) == CHOOSE i \in DOMAIN order : order[i] = source

Record == [source : Answering, doi : Dois \cup {NoRow}, title : Titles, year : Years \cup {NoRow}]
Merged == [doi : Dois \cup {NoRow}, title : Titles, year : Years \cup {NoRow}]

Init ==
    /\ works = <<>> /\ groups = <<>>
    /\ byDoi = [d \in Dois |-> NoRow]
    /\ entries = {} /\ ticked = {} /\ todo = {}

----------------------------------------------------------------------------
(* merge.py *)

Alike(left, right) == left \cap right # {}
SubstitutesAWord(left, right) == left \ right # {} /\ right \ left # {}
Differ(a, b) == a # NoRow /\ b # NoRow /\ a # b

\* The guards of the second rule.
SameTitle(work, candidate) ==
    /\ ~Differ(work.doi, candidate.doi)
    /\ Alike(work.title, candidate.title)
    /\ ~SubstitutesAWord(work.title, candidate.title)
    /\ Differ(work.year, candidate.year) => work.doi # NoRow /\ candidate.doi # NoRow

\* _find_group: by DOI, or the first group with a record it matches.
FindGroup(work) ==
    LET matching == {g \in DOMAIN groups : \E i \in groups[g] : SameTitle(work, works[i])} IN
    IF work.doi # NoRow /\ byDoi[work.doi] # NoRow THEN byDoi[work.doi]
    ELSE IF matching = {} THEN NoRow
    ELSE CHOOSE g \in matching : \A h \in matching : g <= h

\* Fault: a DOI is noted only for the record that opened the group.
NotedOnOpening(work, found, index) == work.doi # NoRow /\ found = NoRow

\* by_doi.setdefault
Noted(work, found, index) == work.doi # NoRow /\ byDoi[work.doi] = NoRow

\* One turn of group_works.
Join(work) ==
    LET found == FindGroup(work)
        index == IF found = NoRow THEN Len(groups) + 1 ELSE found IN
    /\ works' = Append(works, work)
    /\ groups' = IF found = NoRow THEN Append(groups, {Len(works) + 1})
                 ELSE [groups EXCEPT ![index] = @ \cup {Len(works) + 1}]
    /\ byDoi' = IF Noted(work, found, index) THEN [byDoi EXCEPT ![work.doi] = index] ELSE byDoi

\* What the best source that has the field says of it.
Pick(group, field) ==
    LET having == {i \in group : works[i][field] # NoRow}
        Before(i, j) ==
            LET a == Rank(METADATA_ORDER, works[i].source)
                b == Rank(METADATA_ORDER, works[j].source) IN
            a < b \/ (a = b /\ i <= j) IN
    IF having = {} THEN NoRow
    ELSE works[CHOOSE i \in having : \A j \in having : Before(i, j)][field]

Fold(group) ==
    [doi |-> Pick(group, "doi"), title |-> Pick(group, "title"), year |-> Pick(group, "year")]

MergeWorks == {Fold(groups[g]) : g \in DOMAIN groups}

\* MergedWork.key
Key(work) == IF work.doi # NoRow THEN <<"doi", work.doi>> ELSE <<"title", work.title>>

----------------------------------------------------------------------------
(* service.py *)

\* What ORCID or OpenAlex lists.
Listed(work) == work.source \notin Enrichers

\* Crossref and Semantic Scholar are asked about the DOIs those two brought, and answer with
\* one record for each.
Enriched(work) ==
    /\ work.source \in Enrichers /\ work.doi # NoRow
    /\ \E i \in DOMAIN works : works[i].source \notin Enrichers /\ works[i].doi = work.doi
    /\ ~\E i \in DOMAIN works : works[i].source = work.source /\ works[i].doi = work.doi

\* _gather: the sources are read in turn; one that fails brings nothing.
Gather(work) ==
    /\ Len(works) < MaxWorks
    /\ todo = {} /\ ticked = {}
    /\ \A i \in DOMAIN works : Rank(Reading, works[i].source) <= Rank(Reading, work.source)
    /\ Listed(work) \/ Enriched(work)
    /\ Join(work)
    /\ UNCHANGED <<entries, ticked, todo>>

\* Fault: a work is looked up by its DOI alone.
KnownByDoi(work, entry) == work.doi # NoRow /\ work.doi = entry.doi

\* _classify: already in the register, by DOI or by title.
Known(work, entry) ==
    \/ work.doi # NoRow /\ work.doi = entry.doi
    \/ ~Differ(work.doi, entry.doi) /\ Alike(work.title, entry.title)

\* WorkCandidate.importable
Importable(work) == work.year # NoRow /\ ~\E entry \in entries : Known(work, entry)

\* apply reads the sources again, and takes them to say what they said.
Apply(keys) ==
    /\ todo = {} /\ ticked = {} /\ keys # {}
    /\ Len(works) <= MaxApplied
    /\ ticked' = keys
    /\ todo' = {m \in MergeWorks : Key(m) \in keys}
    /\ UNCHANGED <<works, groups, byDoi, entries>>

\* The next of them, newest first, is entered or passed over.
Enter(work) ==
    /\ work \in todo
    /\ \A other \in todo : Differ(work.year, other.year) => other.year < work.year
    /\ entries' = IF Importable(work) THEN entries \cup {work} ELSE entries
    /\ todo' = todo \ {work}
    /\ UNCHANGED <<works, groups, byDoi, ticked>>

\* Somebody else enters a work meanwhile; DOIs are unique.
EnteredElsewhere(work) ==
    /\ todo # {} /\ entries = {} /\ work \in MergeWorks /\ work.year # NoRow
    /\ entries' = entries \cup {work}
    /\ UNCHANGED <<works, groups, byDoi, ticked, todo>>

Next ==
    \/ \E work \in Record : Gather(work)
    \/ \E keys \in SUBSET {Key(m) : m \in MergeWorks} : Apply(keys)
    \/ \E work \in MergeWorks : Enter(work) \/ EnteredElsewhere(work)

----------------------------------------------------------------------------
TypeOK ==
    /\ works \in Seq(Record) /\ Len(works) <= MaxWorks
    /\ groups \in Seq(SUBSET (1..MaxWorks))
    /\ byDoi \in [Dois -> {NoRow} \cup DOMAIN groups]
    /\ entries \subseteq Merged /\ todo \subseteq Merged
    /\ ticked \subseteq {Key(m) : m \in MergeWorks}

SameWork(i, j) ==
    \/ works[i].doi # NoRow /\ works[i].doi = works[j].doi
    \/ SameTitle(works[i], works[j])

\* Every record read is in exactly one group, records with one DOI are in one group, and no
\* group holds two records that no chain of matches in it connects: no work is swallowed by
\* one it has nothing to do with (merge.py: group_works).
GroupsAreWorks ==
    /\ \A i \in DOMAIN works : Cardinality({g \in DOMAIN groups : i \in groups[g]}) = 1
    /\ \A g, h \in DOMAIN groups : \A i \in groups[g], j \in groups[h] :
          works[i].doi # NoRow /\ works[i].doi = works[j].doi => g = h
    /\ \A g \in DOMAIN groups : \A part \in (SUBSET groups[g]) \ {{}, groups[g]} :
          \E i \in part, j \in groups[g] \ part : SameWork(i, j)

\* An import made again from the same sources enters nothing: whatever was ticked and come
\* to is in the register now, or cannot be put there (service.py: apply, _classify).
ImportedOnce ==
    \A m \in MergeWorks : Key(m) \in ticked /\ m \notin todo => ~Importable(m)
=============================================================================
