------------------------------- MODULE Matching -------------------------------
(***************************************************************************)
(* What matching reads instead of the rows: the stored embeddings          *)
(* (search/service.py, search/tasks.py) and the cached TF-IDF index        *)
(* (ml/tfidf.py, recommendations/service.py).                              *)
(*                                                                         *)
(* A document is what an entity says of itself, and is known by its        *)
(* version.  A save writes the row with the time its transaction began     *)
(* (onupdate=func.now()), and the route that took it queues a re-embedding *)
(* that runs after the reply, in memory only.                              *)
(***************************************************************************)
EXTENDS Naturals, FiniteSets, Functions

CONSTANTS
    Documents,
    Counted,         \* those whose rows the fingerprint of their kind looks at
    NoRow,
    MaxSaves,        \* bound: writes, of all the documents, and so of each
    MaxClock,        \* bound: the time
    Workers

VARIABLES
    version,         \* version[x]: how often x was written, 0 before it is there
    updatedAt,       \* updatedAt[x]
    queued,          \* the documents a re-embedding is queued for
    embedded,        \* embedded[x]: the version the stored vector was built from, or NoRow
    cache,           \* the entry of this kind: [fingerprint, documents], or NoRow
    ranked,          \* the last answer: what stood when it was asked, and what it was ranked by
    work, clock,
    behind,          \* ghost: written without a re-embedding, or its embedding overtaken or lost
    unnoted          \* ghost: written without the fingerprint moving

Versions == [Documents -> 0..MaxSaves]
Idle == [op |-> "idle"]
Fingerprints == (0..Cardinality(Documents)) \X (0..MaxClock)
Work ==
    {Idle}
    \cup [op : {"save"}, of : Documents, began : 0..MaxClock, queues : BOOLEAN]
    \cup [op : {"embed"}, of : Documents, read : 1..MaxSaves, row : (1..MaxSaves) \cup {NoRow}]
    \cup [op : {"ask"}, fingerprint : Fingerprints, stood : Versions]
    \cup [op : {"build"}, fingerprint : Fingerprints, stood : Versions, documents : Versions]

Init ==
    /\ version = [x \in Documents |-> 0]
    /\ updatedAt = [x \in Documents |-> 0]
    /\ queued = {}
    /\ embedded = [x \in Documents |-> NoRow]
    /\ cache = NoRow
    /\ ranked = NoRow
    /\ work = [w \in Workers |-> Idle]
    /\ clock = 0
    /\ behind = {} /\ unnoted = {}

Begin(w, t) == work[w] = Idle /\ work' = [work EXCEPT ![w] = t]
End(w) == work' = [work EXCEPT ![w] = Idle]

----------------------------------------------------------------------------
(* recommendations/service.py *)

Newest(stamps) == CHOOSE n \in stamps \cup {0} : \A m \in stamps : m <= n

\* _fingerprint: how many rows there are, and the newest updated_at among them.
Fingerprint ==
    LET rows == {x \in Counted : version[x] > 0} IN
    <<Cardinality(rows), Newest({updatedAt[x] : x \in rows})>>

----------------------------------------------------------------------------
(* The routes that write a document *)

Saves == FoldFunction(+, 0, version) + Cardinality({w \in Workers : work[w].op = "save"})

\* A researcher's profile, a project or an opening is saved and queues a re-embedding; a
\* publication, a funding call or somebody's skills are edited and queue none.
SaveLoad(w, x, queues) ==
    /\ Saves < MaxSaves /\ version[x] < MaxSaves
    /\ version[x] = 0 => queues
    /\ ~\E v \in Workers : work[v].op = "save" /\ work[v].of = x
    /\ Begin(w, [op |-> "save", of |-> x, began |-> clock, queues |-> queues])
    /\ UNCHANGED <<version, updatedAt, queued, embedded, cache, ranked, clock, behind, unnoted>>

\* The commit, and BackgroundTasks.add_task for the reply.
SaveCommit(w) ==
    LET t == work[w] IN
    /\ t.op = "save"
    /\ version' = [version EXCEPT ![t.of] = @ + 1]
    /\ updatedAt' = [updatedAt EXCEPT ![t.of] = t.began]
    /\ queued' = IF t.queues THEN queued \cup {t.of} ELSE queued
    /\ behind' = IF t.queues THEN behind \ {t.of} ELSE behind \cup {t.of}
    /\ unnoted' = IF Fingerprint' = Fingerprint THEN unnoted \cup {t.of} ELSE unnoted
    /\ End(w)
    /\ UNCHANGED <<embedded, cache, ranked, clock>>

Tick ==
    /\ clock < MaxClock
    /\ clock' = clock + 1
    /\ UNCHANGED <<version, updatedAt, queued, embedded, cache, ranked, work, behind, unnoted>>

----------------------------------------------------------------------------
(* search/service.py, search/tasks.py *)

\* Fault: what has a vector is not embedded again.
Embedded(x) == embedded[x] # NoRow

\* embed_entity: the content hash is the one the row has.
Unchanged(x) == embedded[x] = version[x]

\* build_text, and the row as it is.
EmbedRead(w, x) ==
    /\ x \in queued
    /\ queued' = queued \ {x}
    /\ IF Unchanged(x) THEN UNCHANGED work
       ELSE Begin(w, [op |-> "embed", of |-> x, read |-> version[x], row |-> embedded[x]])
    /\ UNCHANGED <<version, updatedAt, embedded, cache, ranked, clock, behind, unnoted>>

\* The vector is written over the row; of two first ones the later fails.
EmbedWrite(w) ==
    LET t == work[w] IN
    /\ t.op = "embed"
    /\ embedded' = [embedded EXCEPT ![t.of] =
                       IF t.row = NoRow /\ @ # NoRow THEN @ ELSE t.read]
    /\ behind' = IF embedded[t.of] # t.row THEN behind \cup {t.of} ELSE behind
    /\ End(w)
    /\ UNCHANGED <<version, updatedAt, queued, cache, ranked, clock, unnoted>>

\* The process stops: what was queued or running is gone, and so is the cache.
Restart ==
    /\ queued # {} \/ cache # NoRow
    /\ \A w \in Workers : work[w].op \in {"idle", "embed"}
    /\ behind' = behind \cup queued
                   \cup {x \in Documents : \E w \in Workers :
                            work[w].op = "embed" /\ work[w].of = x}
    /\ queued' = {} /\ cache' = NoRow
    /\ work' = [w \in Workers |-> Idle]
    /\ UNCHANGED <<version, updatedAt, embedded, ranked, clock, unnoted>>

\* scripts/backfill_embeddings.py: embed_all, with nothing else under way.
Backfill ==
    /\ \A w \in Workers : work[w] = Idle
    /\ behind # {}
    /\ embedded' = [x \in Documents |->
                       IF version[x] = 0 \/ Unchanged(x) THEN embedded[x] ELSE version[x]]
    /\ behind' = {}
    /\ UNCHANGED <<version, updatedAt, queued, cache, ranked, work, clock, unnoted>>

----------------------------------------------------------------------------
(* recommendations/service.py: recommend; ml/tfidf.py: get_or_build *)

Ask(w) ==
    /\ Begin(w, [op |-> "ask", fingerprint |-> Fingerprint, stood |-> version])
    /\ UNCHANGED <<version, updatedAt, queued, embedded, cache, ranked, clock, behind, unnoted>>

\* Fault: an index is good as long as there are as many rows.
SameCount(fingerprint) == cache # NoRow /\ cache.fingerprint[1] = fingerprint[1]

SameFingerprint(fingerprint) == cache # NoRow /\ cache.fingerprint = fingerprint

\* The corpus is read after the fingerprint, whether it is needed or not.
Look(w) ==
    LET t == work[w] IN
    /\ t.op = "ask"
    /\ IF SameFingerprint(t.fingerprint)
       THEN /\ ranked' = [stood |-> t.stood, by |-> cache.documents]
            /\ End(w)
       ELSE /\ work' = [work EXCEPT ![w] = [op |-> "build", fingerprint |-> t.fingerprint,
                                            stood |-> t.stood, documents |-> version]]
            /\ UNCHANGED ranked
    /\ UNCHANGED <<version, updatedAt, queued, embedded, cache, clock, behind, unnoted>>

Build(w) ==
    LET t == work[w] IN
    /\ t.op = "build"
    /\ cache' = [fingerprint |-> t.fingerprint, documents |-> t.documents]
    /\ ranked' = [stood |-> t.stood, by |-> t.documents]
    /\ End(w)
    /\ UNCHANGED <<version, updatedAt, queued, embedded, clock, behind, unnoted>>

Next ==
    \/ \E w \in Workers, x \in Documents :
          \/ \E queues \in BOOLEAN : SaveLoad(w, x, queues)
          \/ EmbedRead(w, x)
    \/ \E w \in Workers : SaveCommit(w) \/ EmbedWrite(w) \/ Ask(w) \/ Look(w) \/ Build(w)
    \/ Tick \/ Restart \/ Backfill

----------------------------------------------------------------------------
TypeOK ==
    /\ version \in Versions
    /\ updatedAt \in [Documents -> 0..MaxClock]
    /\ queued \subseteq Documents
    /\ embedded \in [Documents -> (1..MaxSaves) \cup {NoRow}]
    /\ cache \in [fingerprint : Fingerprints, documents : Versions] \cup {NoRow}
    /\ ranked \in [stood : Versions, by : Versions] \cup {NoRow}
    /\ work \in [Workers -> Work]
    /\ clock \in 0..MaxClock
    /\ behind \subseteq Documents /\ unnoted \subseteq Documents

\* A document has a re-embedding queued or running, or its vector is of what it says now --
\* unless it was written by a route that queues none, two embeddings of it overlapped, or the
\* process stopped before one was done (search/service.py: embed_entity).
VectorFollowsText ==
    \A x \in Documents :
        (version[x] > 0 /\ x \notin behind) =>
            \/ x \in queued \/ \E w \in Workers : work[w].op = "embed" /\ work[w].of = x
            \/ embedded[x] = version[x]

\* Nobody is ranked by an older text than stood when the ranking was asked for -- unless the
\* text was written with the fingerprint standing still (ml/tfidf.py: INDEX_CACHE).
RankedByWhatStood ==
    ranked # NoRow =>
        \A x \in Documents \ unnoted : ranked.by[x] >= ranked.stood[x]
=============================================================================
