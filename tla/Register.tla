-------------------------------- MODULE Register --------------------------------
(***************************************************************************)
(* The register of publications (publications/service.py) and its queue of *)
(* suspected duplicates (deduplication/service.py, detect.py, policies.py).*)
(*                                                                         *)
(* A title is abstracted to what it says: two titles are alike when they   *)
(* are equal.  Authors are a set; their order is left out.  A merge reads  *)
(* both records and its review row, and commits later.                     *)
(***************************************************************************)
EXTENDS Directory, Naturals, FiniteSets

CONSTANTS
    Works,         \* keys of publications
    Entries,       \* bounds the works entered: the keys they get
    Titles, Dois, Projects,
    Externals,     \* authors without an account
    Reviews,       \* keys of publication_duplicates
    MaxMoves,      \* bounds the edits and the decisions there are
    Workers

VARIABLES
    work,          \* work[w]: what handler w has read so far
    pub,           \* pub[k]: the row of k with its authors and links, or NoRow
    review,        \* review[r]: the row of r, or NoRow
    moves,         \* ghost: how many edits and decisions there have been
    used,          \* ghost: the keys that have been given out
    removed,       \* ghost: the works somebody deleted, or that went with an account
    crossed        \* ghost: the works a handler overtook another over

registerVars == <<work, pub, review, moves, used, removed, crossed>>

Authors == People \cup Externals
\* from: ghost, the key under which the work was first entered.
PubRow == [by : People, title : Titles, doi : Dois \cup {NoRow}, authors : SUBSET Authors,
           links : SUBSET Projects, from : Works]

DuplicateStatus == {"suspected", "merged", "separate", "ignored"}
TRANSITIONS ==
    ({"suspected"} \X {"merged", "separate", "ignored"})
    \cup ({"ignored"} \X {"merged", "separate", "suspected"})
    \cup ({"separate", "merged"} \X {"suspected"})

\* of: the ids of the two sides that are not NULL.
ReviewRow == [of : SUBSET Works, status : DuplicateStatus, into : Works \cup {NoRow},
              snapshot : PubRow \cup {NoRow}]

Idle == [op |-> "idle"]
Work ==
    {Idle}
    \cup [op : {"settle"}, on : Reviews, seen : DuplicateStatus, target : {"separate", "ignored"}]
    \cup [op : {"merge"}, on : Reviews, seen : DuplicateStatus, winner : Works, loser : Works,
          lost : PubRow, inherits : BOOLEAN]
    \cup [op : {"undo"}, on : Reviews, into : Works \cup {NoRow}, lost : PubRow]

Init ==
    /\ work = [w \in Workers |-> Idle]
    /\ pub = [k \in Works |-> NoRow]
    /\ review = [r \in Reviews |-> NoRow]
    /\ moves = 0
    /\ used = {}
    /\ removed = {}
    /\ crossed = {}

Stored == {k \in Works : pub[k] # NoRow}
Begin(w, t) == work[w] = Idle /\ work' = [work EXCEPT ![w] = t]
End(w) == work' = [work EXCEPT ![w] = Idle]
Counted == moves < MaxMoves /\ moves' = moves + 1

----------------------------------------------------------------------------
(* publications/service.py *)

\* _validate_authors; Projects are those _validate_project_links lets through.
ValidAuthors(authors) == \A a \in authors \cap People : SignedIn(a)

\* The unique index on doi.
DoiFree(doi, k) == doi = NoRow \/ \A j \in Stored \ {k} : pub[j].doi # doi

CreatePublication(p, k, title, doi, authors, links) ==
    LET row == [by |-> p, title |-> title, doi |-> doi, authors |-> authors,
                links |-> links, from |-> k] IN
    /\ May(p, "publication:create")
    /\ k \in Entries \ used /\ used' = used \cup {k}
    /\ ValidAuthors(authors) /\ DoiFree(doi, k)
    /\ pub' = [pub EXCEPT ![k] = row]
    /\ UNCHANGED <<users, work, review, moves, removed, crossed>>

\* What a merge under way has read of k is now out of date.
Disturb(ks) ==
    crossed' = crossed \cup
        {work[w].lost.from :
            w \in {v \in Workers : /\ work[v].op = "merge"
                                   /\ {work[v].winner, work[v].loser} \cap ks # {}}}

UpdatePublication(p, k, title, doi, authors, links) ==
    /\ k \in Stored /\ SignedIn(p) /\ pub[k].by = p
    /\ LET row == [pub[k] EXCEPT !.title = title, !.doi = doi, !.authors = authors,
                                 !.links = links] IN
       /\ row # pub[k]
       /\ authors = pub[k].authors \/ ValidAuthors(authors)
       /\ DoiFree(doi, k)
       /\ pub' = [pub EXCEPT ![k] = row]
    /\ Counted
    /\ Disturb({k})
    /\ UNCHANGED <<users, work, review, used, removed>>

\* The review rows with these publications gone: SET NULL on all three columns.
Forgotten(gone) ==
    [r \in Reviews |->
        IF review[r] = NoRow THEN NoRow
        ELSE [review[r] EXCEPT !.of = @ \ gone, !.into = IF @ \in gone THEN NoRow ELSE @]]

DeletePublication(p, k) ==
    /\ k \in Stored /\ SignedIn(p)
    /\ pub[k].by = p \/ users[p].role = "admin"
    /\ pub' = [pub EXCEPT ![k] = NoRow]
    /\ review' = Forgotten({k})
    /\ removed' = removed \cup {pub[k].from}
    /\ Disturb({k})
    /\ UNCHANGED <<users, work, moves, used>>

----------------------------------------------------------------------------
(* detect.py, and the scan *)

\* compare: titles alike, and no two different DOIs.
Alike(k, j) ==
    /\ pub[k].title = pub[j].title
    /\ pub[k].doi = NoRow \/ pub[j].doi = NoRow

Candidates ==
    {pair \in {{k, j} : k \in Stored, j \in Stored} :
        Cardinality(pair) = 2 /\ \A k \in pair : \A j \in pair \ {k} : Alike(k, j)}

Rows == {r \in Reviews : review[r] # NoRow}

\* The pair has a row already, whatever was decided (uq_publication_duplicate_pair).
Known(pair) == \E r \in Rows : review[r].of = pair

Suspected(pair) == [of |-> pair, status |-> "suspected", into |-> NoRow, snapshot |-> NoRow]

\* scan: every new candidate gets a row.
Scan(p) ==
    /\ May(p, "publication:deduplicate")
    /\ LET new == {pair \in Candidates : ~Known(pair)} IN
       /\ new # {}
       /\ \E rows \in SUBSET (Reviews \ Rows) :
             /\ Cardinality(rows) = Cardinality(new)
             /\ \E f \in [rows -> new] :
                   /\ {f[r] : r \in rows} = new
                   /\ review' = [r \in Reviews |-> IF r \in rows THEN Suspected(f[r])
                                                   ELSE review[r]]
    /\ UNCHANGED <<users, work, pub, moves, used, removed, crossed>>

----------------------------------------------------------------------------
(* Deciding *)

SettleLoad(w, p, r, target) ==
    /\ May(p, "publication:deduplicate") /\ r \in Rows
    /\ <<review[r].status, target>> \in TRANSITIONS
    /\ Begin(w, [op |-> "settle", on |-> r, seen |-> review[r].status, target |-> target])
    /\ UNCHANGED <<users, pub, review, moves, used, removed, crossed>>

\* The works of a row: both sides, and the one a merge has put away.
WorksOf(row) ==
    {pub[k].from : k \in row.of \cap Stored}
    \cup (IF row.snapshot = NoRow THEN {} ELSE {row.snapshot.from})

\* The row was decided, or its merge undone, since the handler read it.
Overtaken(t) ==
    IF \/ t.op # "undo" /\ review[t.on].status = t.seen
       \/ t.op = "undo" /\ review[t.on].status = "merged" /\ review[t.on].snapshot = t.lost
    THEN {} ELSE WorksOf(review[t.on]) \cup (IF t.op = "settle" THEN {} ELSE {t.lost.from})

SettleCommit(w) ==
    LET t == work[w] IN
    /\ t.op = "settle"
    /\ review' = [review EXCEPT ![t.on].status = t.target]
    /\ crossed' = crossed \cup Overtaken(t)
    /\ Counted
    /\ End(w)
    /\ UNCHANGED <<users, pub, used, removed>>

\* _merge, up to and with the snapshot and what is to be carried over.
MergeLoad(w, p, r, winner) ==
    /\ May(p, "publication:deduplicate") /\ r \in Rows
    /\ <<review[r].status, "merged">> \in TRANSITIONS
    /\ Cardinality(review[r].of) = 2 /\ winner \in review[r].of
    /\ \E loser \in review[r].of \ {winner} :
          Begin(w, [op |-> "merge", on |-> r, seen |-> review[r].status,
                    winner |-> winner, loser |-> loser, lost |-> pub[loser],
                    inherits |-> pub[winner].doi = NoRow /\ pub[loser].doi # NoRow])
    /\ UNCHANGED <<users, pub, review, moves, used, removed, crossed>>

\* _carry_over, and the DOI the survivor lacks.
Merged(row, t) ==
    [row EXCEPT !.authors = @ \cup t.lost.authors,
                !.links = @ \cup t.lost.links,
                !.doi = IF t.inherits THEN t.lost.doi ELSE @]

\* Fault: the record is deleted without its snapshot.
PutAwayEmpty(row, t) ==
    [row EXCEPT !.of = {t.winner}, !.status = "merged", !.into = t.winner]

\* The review row afterwards.
PutAway(row, t) ==
    [row EXCEPT !.of = {t.winner}, !.status = "merged", !.into = t.winner,
                !.snapshot = t.lost]

\* The foreign keys: the survivor, the carried people and projects are still there.
MergeCommit(w) ==
    LET t == work[w]
        row == Merged(pub[t.winner], t) IN
    /\ t.op = "merge"
    /\ pub[t.winner] # NoRow
    /\ \A a \in row.authors \cap People : Exists(a)
    /\ \A k \in Stored \ {t.winner, t.loser} : row.doi = NoRow \/ pub[k].doi # row.doi
    /\ pub' = [pub EXCEPT ![t.winner] = row, ![t.loser] = NoRow]
    /\ review' = [Forgotten({t.loser}) EXCEPT ![t.on] = PutAway(review[t.on], t)]
    /\ crossed' = crossed \cup Overtaken(t)
    /\ Counted
    /\ End(w)
    /\ UNCHANGED <<users, used, removed>>

UndoLoad(w, p, r) ==
    /\ May(p, "publication:deduplicate") /\ r \in Rows
    /\ review[r].status = "merged" /\ review[r].snapshot # NoRow
    /\ Begin(w, [op |-> "undo", on |-> r, into |-> review[r].into, lost |-> review[r].snapshot])
    /\ UNCHANGED <<users, pub, review, moves, used, removed, crossed>>

\* The survivor as it gives back the DOI it inherited.
GivenBack(t) ==
    [k \in Works |->
        IF k = t.into /\ pub[k] # NoRow /\ pub[k].doi = t.lost.doi
        THEN [pub[k] EXCEPT !.doi = NoRow] ELSE pub[k]]

\* The restored record has a new key, which is no work of its own.  What it points to must
\* still exist, and its DOI be free, or the whole is refused and the snapshot stays.
UndoCommit(w, k) ==
    LET t == work[w]
        row == t.lost IN
    /\ t.op = "undo"
    /\ k \in Works \ (Entries \cup used) /\ used' = used \cup {k}
    /\ Exists(row.by) /\ (\A a \in row.authors \cap People : Exists(a))
    /\ row.doi = NoRow \/ \A j \in Stored : GivenBack(t)[j].doi # row.doi
    /\ pub' = [GivenBack(t) EXCEPT ![k] = row]
    /\ review' = [review EXCEPT ![t.on] =
          Suspected(IF t.into \in Stored THEN {t.into, k} ELSE {k})]
    /\ removed' = removed \cup {k}
    /\ crossed' = crossed \cup Overtaken(t)
    /\ Counted
    /\ End(w)
    /\ UNCHANGED users

Rollback(w) ==
    /\ work[w] # Idle
    /\ End(w)
    /\ UNCHANGED <<users, pub, review, moves, used, removed, crossed>>

----------------------------------------------------------------------------
(* What goes with an account *)

\* created_by and the author slots are CASCADE.
AccountDeleted(p) ==
    LET gone == {k \in Stored : pub[k].by = p} IN
    /\ Exists(p)
    /\ users' = [users EXCEPT ![p] = NoRow]
    /\ pub' = [k \in Works |->
          IF k \notin Stored \/ k \in gone THEN NoRow
          ELSE [pub[k] EXCEPT !.authors = @ \ {p}]]
    /\ review' = Forgotten(gone)
    /\ removed' = removed \cup {pub[k].from : k \in gone}
    /\ Disturb({k \in Stored : k \in gone \/ p \in pub[k].authors})
    /\ UNCHANGED <<work, moves, used>>

Next ==
    \/ \E p \in People :
          \/ \E k \in Works, t \in Titles, d \in Dois \cup {NoRow},
                a \in SUBSET Authors, l \in SUBSET Projects :
                CreatePublication(p, k, t, d, a, l) \/ UpdatePublication(p, k, t, d, a, l)
          \/ \E k \in Works : DeletePublication(p, k)
          \/ Scan(p)
          \/ AccountDeleted(p)
          \/ \E w \in Workers, r \in Reviews :
                \/ \E s \in {"separate", "ignored"} : SettleLoad(w, p, r, s)
                \/ \E k \in Works : MergeLoad(w, p, r, k)
                \/ UndoLoad(w, p, r)
    \/ \E w \in Workers :
          \/ SettleCommit(w) \/ MergeCommit(w) \/ Rollback(w)
          \/ \E k \in Works : UndoCommit(w, k)

Spec == UsersTypeOK /\ Init /\ [][Next]_<<users, registerVars>>

----------------------------------------------------------------------------
TypeOK ==
    /\ UsersTypeOK
    /\ work \in [Workers -> Work]
    /\ pub \in [Works -> PubRow \cup {NoRow}]
    /\ review \in [Reviews -> ReviewRow \cup {NoRow}]
    /\ moves \in 0..MaxMoves
    /\ used \subseteq Works /\ removed \subseteq Works /\ crossed \subseteq Works

\* No merge loses a work: one that nobody deleted is in the register, or in the snapshot
\* of a merge that can still be undone -- unless two reviewers decided on its row at once,
\* or it was edited while it was being merged.
NoWorkIsLost ==
    \A o \in used \ (removed \cup crossed) :
        \/ \E k \in Stored : pub[k].from = o
        \/ \E r \in Rows : /\ review[r].status = "merged"
                           /\ review[r].snapshot # NoRow /\ review[r].snapshot.from = o
=============================================================================
