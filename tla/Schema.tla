-------------------------------- MODULE Schema --------------------------------
(***************************************************************************)
(* Bringing a database from one revision to another: alembic/env.py,       *)
(* db/migrations.py at start (main.py), scripts/release.sh and downgrades  *)
(* by hand.  PostgreSQL's DDL is transactional: the statements of a        *)
(* transaction and the number of the revision are committed together or    *)
(* not at all.  Nothing keeps two processes from migrating at once.        *)
(***************************************************************************)
EXTENDS Revisions, FiniteSets

CONSTANTS
    Up, Down,          \* Up[n], Down[n]: the statements of revision n
    Landmarks,         \* Landmarks[n + 1]: what a database built from nothing has at revision n
    Processes,
    Instances,         \* those of Processes that are the service in production
    Goals,             \* the revisions somebody migrates to by hand
    Kinds,             \* [rows, since, until]: the revisions at which such rows are written
    Later, Noted,      \* Later[n + 1], Noted[n + 1]: the values gained later that a database may
                       \* have, and the types a run upwards may have created, at revision n
    MaxRows, MaxRuns   \* bounds: kinds of rows at once, migrations begun

VARIABLES
    version,           \* alembic_version
    schema,            \* what is committed
    rows,              \* the kinds of rows there are
    process,           \* process[p]: what p is at
    health,            \* health[p]: what the probe of instance p answers
    met,               \* ghost: the processes that were migrating while another was
    lowered,           \* ghost: the instances under which the schema was taken down
    runs

Newest == Len(Up)
Numbers == 0 .. Newest

----------------------------------------------------------------------------
(* What the revisions must do, each taken by itself *)

\* The kinds of rows there may be at once.
Contents == {kinds \in SUBSET {k.rows : k \in Kinds} : Cardinality(kinds) <= MaxRows}

\* A database at revision n as one built from nothing, but for the values gained later.
Stored(n, gained) == [Landmarks[n + 1] EXCEPT !.later = gained]
ArrivesAt(n, run) ==
    /\ run.db.later \in Later[n + 1] /\ run.db = Stored(n, run.db.later)
    /\ run.rows \in Contents

----------------------------------------------------------------------------
(* A run of alembic *)

\* Fault: the whole upgrade is one transaction.
AllAtOnce(at, goal) == goal

\* transaction_per_migration: where the transaction that begins at a revision ends.
CommitsAt(at, goal) == IF goal > at THEN at + 1 ELSE at - 1

\* What stands between two revisions, in order.
Statements(at, to) ==
    IF to >= at THEN FlattenSeq([i \in 1 .. to - at |-> Up[at + i]])
    ELSE FlattenSeq([i \in 1 .. at - to |-> Down[at + 1 - i]])

\* Whatever a database at revision n has, the next upgrade is accepted and leaves what one at
\* n + 1 may have; its downgrade leaves what one at n - 1 may have, or is refused.
LeadsOn(n) ==
    /\ {} \in Noted[n + 1]
    /\ Landmarks[n + 1] \in Schemas /\ Landmarks[n + 1].later \in Later[n + 1]
    /\ \A gained \in Later[n + 1] :
          Stored(n, gained) \in Schemas /\ Landmarks[n + 1].later \subseteq gained
    /\ \A gained \in Later[n + 1], kinds \in Contents :
          /\ n < Newest =>
             \A memo \in Noted[n + 1] :
             \E up \in {Execute(Open(Stored(n, gained), kinds, memo), Statements(n, n + 1))} :
                up.ok /\ up.memo \in Noted[n + 2] /\ ArrivesAt(n + 1, up)
          /\ n > 0 =>
             \E down \in {Execute(Open(Stored(n, gained), kinds, {}), Statements(n, n - 1))} :
                down.ok => down.memo = {} /\ ArrivesAt(n - 1, down)

Idle == [op |-> "idle"]
Running(at, goal, memo) == [op |-> "migrate", at |-> at, goal |-> goal, memo |-> memo]

Init ==
    /\ version \in Goals \cup {Newest} /\ schema = Landmarks[version + 1] /\ rows = {}
    /\ process = [p \in Processes |-> Idle]
    /\ health = [p \in Instances |-> "down"]
    /\ met = {} /\ lowered = {} /\ runs = 0

Migrating == {p \in Processes : process[p].op = "migrate"}

\* Every process reads the revision once, when it begins.
Begin(p, goal) ==
    /\ runs < MaxRuns /\ runs' = runs + 1
    /\ process[p].op # "migrate"
    /\ process' = [process EXCEPT ![p] = Running(version, goal, {})]
    /\ met' = (met \ {p}) \cup (IF Migrating # {} THEN Migrating \cup {p} ELSE {})
    /\ UNCHANGED <<version, schema, rows>>

\* lifespan: the service migrates itself before it serves.
Boot(p) ==
    /\ health[p] = "down"
    /\ Begin(p, Newest)
    /\ health' = [health EXCEPT ![p] = "starting"]
    /\ lowered' = lowered \ {p}

\* scripts/release.sh, or a downgrade.
ByHand(p, goal) ==
    /\ Begin(p, goal)
    /\ UNCHANGED <<health, lowered>>

\* Fault: an exception is logged and nothing more.
Swallowed(error) == "ok"

\* What readiness answers once upgrade_to_head has returned or raised.
Readiness(error) == IF error THEN "degraded" ELSE "ok"

Ends(p, error, as) ==
    /\ process' = [process EXCEPT ![p] = as]
    /\ health' = IF p \in Instances THEN [health EXCEPT ![p] = Readiness(error)] ELSE health

\* Fault: an UPDATE of the number that changes no row goes unnoticed.
Unnoticed(t, run) == run.ok

\* The number of the revision is changed from what the process takes it to be, and alembic
\* raises when no row was.
Commits(t, run) == run.ok /\ version = t.at

\* One transaction.
Migrate(p) ==
    LET t == process[p]
        to == CommitsAt(t.at, t.goal) IN
    /\ t.op = "migrate" /\ t.at # t.goal
    /\ \E run \in {Execute(Open(schema, rows, t.memo), Statements(t.at, to))} :
       IF Commits(t, run)
       THEN /\ version' = to /\ schema' = run.db /\ rows' = run.rows
            /\ process' = [process EXCEPT ![p] = Running(to, t.goal, run.memo)]
            /\ lowered' = IF to < version THEN {i \in Instances : health[i] # "down"}
                          ELSE lowered
            /\ UNCHANGED health
       ELSE /\ Ends(p, TRUE, [op |-> "failed", goal |-> t.goal])
            /\ UNCHANGED <<version, schema, rows, lowered>>
    /\ UNCHANGED <<met, runs>>

Done(p) ==
    /\ process[p].op = "migrate" /\ process[p].at = process[p].goal
    /\ Ends(p, FALSE, Idle)
    /\ UNCHANGED <<version, schema, rows, met, lowered, runs>>

\* A process is killed; what it has not committed is lost.
Crash(p) ==
    /\ p \in Migrating \/ (p \in Instances /\ health[p] # "down")
    /\ process' = [process EXCEPT ![p] = Idle]
    /\ health' = IF p \in Instances THEN [health EXCEPT ![p] = "down"] ELSE health
    /\ met' = met \ {p}
    /\ UNCHANGED <<version, schema, rows, lowered, runs>>

\* The code of the revision the database is at writes such rows, or the last of them goes.
Write(k) ==
    /\ Migrating = {}
    /\ version \in k.since .. k.until
    /\ rows' \in {rows \cup {k.rows}, rows \ {k.rows}} \ {rows}
    /\ Cardinality(rows') <= MaxRows
    /\ UNCHANGED <<version, schema, process, health, met, lowered, runs>>

Next ==
    \/ \E p \in Instances : Boot(p)
    \/ \E p \in Processes \ Instances, goal \in Goals : ByHand(p, goal)
    \/ \E p \in Processes : Migrate(p) \/ Done(p) \/ Crash(p)
    \/ \E k \in Kinds : Write(k)

----------------------------------------------------------------------------
TypeOK ==
    /\ version \in Numbers
    /\ \A p \in Processes :
          \/ process[p] = Idle
          \/ process[p].op = "failed" /\ process[p].goal \in Numbers
          \/ process[p].op = "migrate" /\ {process[p].at, process[p].goal} \subseteq Numbers
    /\ health \in [Instances -> {"down", "starting", "ok", "degraded"}]
    /\ met \subseteq Processes /\ lowered \subseteq Instances

\* However often it was taken up and down, whichever transactions failed, whoever crashed
\* and whether or not two migrated at once: a database has at its revision exactly what one
\* built from nothing has there, the values PostgreSQL cannot take out of a type apart;
\* and no rows but of the kinds the code writes.
SchemaIsItsRevision ==
    /\ schema \in Schemas /\ rows \subseteq {k.rows : k \in Kinds}
    /\ [schema EXCEPT !.later = {}] = [Landmarks[version + 1] EXCEPT !.later = {}]
    /\ Landmarks[version + 1].later \subseteq schema.later

\* A process that has the database to itself brings it to the head from any revision, from
\* any crash and whatever rows there are; only two at once make one of them fail.
AloneItReachesHead ==
    \A p \in Processes :
        process[p].op = "failed" /\ process[p].goal = Newest => p \in met

\* An instance that says it is ready has the schema its code was written for, unless
\* somebody took the schema down since it started.
ReadyIsCurrent == \A p \in Instances \ lowered : health[p] = "ok" => version = Newest
=============================================================================
