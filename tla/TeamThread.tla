------------------------------ MODULE TeamThread ------------------------------
(***************************************************************************)
(* A project's team and its thread (messages/service.py, and membership in *)
(* projects/service.py): who is in the thread, what is said in it, how far *)
(* each has read, the one notification the thread has for each, and the    *)
(* clients that fetch it.  A handler is its reads and one commit.          *)
(***************************************************************************)
EXTENDS Integers, FiniteSets

CONSTANTS
    Users,     \* the people who may be on the team
    Owner,     \* Project.owner
    Readers,   \* those of them whose clients are followed
    PageSize,  \* PAGE_SIZE: how many messages one answer holds
    MaxSends,  \* bounds the attempts to send
    Workers,   \* handlers that may be in flight at once
    NoRow      \* what a query answers when there is no such row

ASSUME PeopleAssumption == Owner \in Users /\ Readers \subseteq Users
ASSUME BoundsAssumption == PageSize \in Nat \ {0} /\ MaxSends \in Nat

\* A position in the thread, (created_at, id): the order senders began in,
\* created_at being when their transaction did.  0 is before them all, or NULL.
Times == 0..MaxSends
Messages == [at : Times, by : Users]

ASSUME NoRowAssumption ==
    /\ NoRow \notin Times
    /\ NoRow \notin {"unread", "read"}
    /\ \A people \in SUBSET Users : NoRow # people

VARIABLES
    team,      \* project_members
    opened,    \* the thread exists
    mark,      \* mark[u]: last_read_at of participant u, NoRow for the others
    messages,  \* what has been said
    bell,      \* bell[u]: u's notification for this thread
    clock,     \* how many senders have begun
    page,      \* page[u]: the open page of u's browser
    cursor,    \* cursor[u]: next_after as a client that polls with it holds it
    got,       \* got[u]: what that client has been given
    mixed,     \* which kinds of handlers have overlapped so far
    work       \* work[w]: what handler w has read so far

threadVars == <<team, opened, mark, messages, bell>>
clientVars == <<page, cursor, got>>
vars == <<threadVars, clock, clientVars, mixed, work>>

Participants == {u \in Users : mark[u] # NoRow}

SyncOps == {"join", "leave", "open"}

Idle == [op |-> "idle"]
SyncWork == [op : SyncOps, who : Users, found : BOOLEAN,
             should : SUBSET Users, seen : (SUBSET Users) \cup {NoRow}]
SendWork == [op : {"send"}, who : Users, at : Times, read : Times \cup {NoRow},
             clears : BOOLEAN, ring : SUBSET Users]
ReadWork == [op : {"read"}, who : Users, read : Times, clears : BOOLEAN]
Work == {Idle} \cup SyncWork \cup SendWork \cup ReadWork

\* The thread of a new project may have failed to open (_open_team_thread).
Init ==
    /\ team = {}
    /\ opened \in BOOLEAN
    /\ mark = [u \in Users |-> IF opened /\ u = Owner THEN 0 ELSE NoRow]
    /\ messages = {}
    /\ bell = [u \in Users |-> NoRow]
    /\ clock = 0
    /\ page = [u \in Readers |-> {}]
    /\ cursor = [u \in Readers |-> 0]
    /\ got = [u \in Readers |-> {}]
    /\ mixed = {}
    /\ work = [w \in Workers |-> Idle]

InFlight(ops) == \E w \in Workers : work[w].op \in ops

\* Which handlers must not run beside op: two that write the participants, or
\* a sender and another sender or a reader.
Against(op) == [team |-> IF op \in SyncOps THEN SyncOps ELSE {},
                talk |-> IF op = "send" THEN {"send", "read"}
                         ELSE IF op = "read" THEN {"send"} ELSE {}]

Mixing(op) == {kind \in {"team", "talk"} : InFlight(Against(op)[kind])}

Begin(w, t) ==
    /\ work[w] = Idle
    /\ work' = [work EXCEPT ![w] = t]
    /\ mixed' = mixed \cup Mixing(t.op)
    /\ UNCHANGED <<threadVars, clientVars>>

End(w) ==
    /\ work' = [work EXCEPT ![w] = Idle]
    /\ UNCHANGED <<clock, clientVars, mixed>>

\* A refused write, or the process dies: nothing of the transaction is kept.
Rollback(w) ==
    /\ work[w] # Idle
    /\ End(w)
    /\ UNCHANGED threadVars

-----------------------------------------------------------------------------
(* Being on the team and in its thread *)

\* The team as the handler sees it, its own flushed row included.
TeamAfter(op, u) ==
    (IF op = "leave" THEN team \ {u} ELSE team) \cup (IF op = "join" THEN {u} ELSE {})

\* record_membership, discard_membership, open_project_thread: up to and with
\* the reads of the conversation, the owner and the members.
SyncLoad(w, op, u) ==
    /\ \/ op = "join" /\ u \notin team
       \/ op = "leave" /\ u \in team
       \/ op = "open" /\ u \in team \cup {Owner}
    /\ Begin(w, [op |-> op, who |-> u, found |-> opened,
                 should |-> TeamAfter(op, u) \cup {Owner}, seen |-> NoRow])
    /\ UNCHANGED clock

\* The read of the current participants: none in a thread just inserted.
SyncLook(w) ==
    /\ work[w].op \in SyncOps
    /\ work[w].seen = NoRow
    /\ work' = [work EXCEPT ![w].seen = IF work[w].found THEN Participants ELSE {}]
    /\ UNCHANGED <<threadVars, clock, clientVars, mixed>>

\* Fault: whoever is off the team is left in the thread.
SyncAddsOnly(t) == [adds |-> IF t.found \/ t.op = "open" THEN t.should \ t.seen ELSE {},
                    drops |-> {}]

\* sync_project_participants; nothing to do while there is no thread.
Sync(t) ==
    IF t.found \/ t.op = "open"
    THEN [adds |-> t.should \ t.seen, drops |-> t.seen \ t.should]
    ELSE [adds |-> {}, drops |-> {}]

\* The unique keys: one row for a member, one thread for a project, one row
\* for a participant.
SyncCommit(w) ==
    LET t == work[w]
        change == Sync(t)
    IN  /\ t.op \in SyncOps
        /\ t.seen # NoRow
        /\ t.op = "join" => t.who \notin team
        /\ t.op = "open" /\ ~t.found => ~opened
        /\ change.adds \cap Participants = {}
        /\ team' = TeamAfter(t.op, t.who)
        /\ opened' = (opened \/ t.op = "open")
        /\ mark' = [u \in Users |-> IF u \in change.adds THEN 0
                                    ELSE IF u \in change.drops THEN NoRow ELSE mark[u]]
        /\ UNCHANGED <<messages, bell>>
        /\ End(w)

-----------------------------------------------------------------------------
(* Saying something, and having read it *)

\* created_at of a message, from when its transaction begins.
Stamp == clock + 1

SendLoad(w, u) ==
    /\ clock < MaxSends
    /\ u \in Participants
    /\ clock' = clock + 1
    /\ Begin(w, [op |-> "send", who |-> u, at |-> Stamp, read |-> NoRow,
                 clears |-> FALSE, ring |-> {}])

\* _others without a notification under this dedupe key (InAppChannel.send).
WithoutBell(u) == {v \in Participants \ {u} : bell[v] = NoRow}

\* mark_read of the sender, then whom to notify.
SendLook(w) ==
    /\ work[w].op = "send"
    /\ work[w].read = NoRow
    /\ work[w].who \in Participants
    /\ work' = [work EXCEPT ![w].read = clock,
                            ![w].clears = bell[work[w].who] # NoRow,
                            ![w].ring = WithoutBell(work[w].who)]
    /\ UNCHANGED <<threadVars, clock, clientVars, mixed>>

\* Fault: the notification outlives the reading of its thread.
BellKept(t) == bell

\* Its notification leaves with the delete of mark_read.
BellCleared(t) == IF t.clears THEN [bell EXCEPT ![t.who] = NoRow] ELSE bell

SendCommit(w) ==
    LET t == work[w]
    IN  /\ t.op = "send"
        /\ t.read # NoRow
        /\ t.who \in Participants
        /\ \A v \in t.ring : bell[v] = NoRow
        /\ messages' = messages \cup {[at |-> t.at, by |-> t.who]}
        /\ mark' = [mark EXCEPT ![t.who] = t.read]
        /\ bell' = [v \in Users |-> IF v \in t.ring THEN "unread" ELSE BellCleared(t)[v]]
        /\ UNCHANGED <<team, opened>>
        /\ End(w)

MarkReadLoad(w, u) ==
    /\ u \in Participants
    /\ Begin(w, [op |-> "read", who |-> u, read |-> clock, clears |-> bell[u] # NoRow])
    /\ UNCHANGED clock

MarkReadCommit(w) ==
    LET t == work[w]
    IN  /\ t.op = "read"
        /\ t.who \in Participants
        /\ mark' = [mark EXCEPT ![t.who] = t.read]
        /\ bell' = BellCleared(t)
        /\ UNCHANGED <<team, opened, messages>>
        /\ End(w)

\* notifications/service.py mark_read, mark_all_read: the row stays.
ReadBell(u) ==
    /\ bell[u] = "unread"
    /\ bell' = [bell EXCEPT ![u] = "read"]
    /\ UNCHANGED <<team, opened, mark, messages, clock, clientVars, mixed, work>>

-----------------------------------------------------------------------------
(* Fetching the thread *)

After(c) == {m \in messages : m.at > c}

\* Fault: the newest of what is left is given first.
NewestSlice(c) ==
    {m \in After(c) : Cardinality({n \in After(c) : n.at > m.at}) < PageSize}

\* read_messages: the oldest PageSize messages after the cursor.
Slice(c) == {m \in After(c) : Cardinality({n \in After(c) : n.at < m.at}) < PageSize}

\* ThreadPage.tsx asks for the thread without a cursor and shows the answer.
FetchPage(u) ==
    /\ u \in Participants
    /\ page' = [page EXCEPT ![u] = Slice(0)]
    /\ UNCHANGED <<threadVars, clock, cursor, got, mixed, work>>

\* c is the position of the last of the rows.
NextAfter(rows, c) == \E last \in rows : c = last.at /\ \A m \in rows : m.at <= last.at

\* A client that hands next_after back; nothing new leaves it as it was.
FetchAfter(u) ==
    LET rows == Slice(cursor[u])
    IN  /\ u \in Participants
        /\ rows # {}
        /\ \E c \in Times : NextAfter(rows, c) /\ cursor' = [cursor EXCEPT ![u] = c]
        /\ got' = [got EXCEPT ![u] = @ \cup rows]
        /\ mixed' = mixed \cup (IF InFlight({"send"}) THEN {"talk"} ELSE {})
        /\ UNCHANGED <<threadVars, clock, page, work>>

-----------------------------------------------------------------------------

Loads(w) == \E u \in Users :
    \/ \E op \in SyncOps : SyncLoad(w, op, u)
    \/ SendLoad(w, u)
    \/ MarkReadLoad(w, u)

Finishes(w) ==
    \/ SyncLook(w) \/ SyncCommit(w) \/ SendLook(w) \/ SendCommit(w)
    \/ MarkReadCommit(w) \/ Rollback(w)

Next ==
    \/ \E w \in Workers : Loads(w) \/ Finishes(w)
    \/ \E u \in Users : ReadBell(u)
    \/ \E u \in Readers : FetchPage(u) \/ FetchAfter(u)

Spec == Init /\ [][Next]_vars

\* An open thread is fetched again every few seconds for as long as it is open.
FairSpec == Spec /\ \A u \in Readers : WF_vars(FetchPage(u)) /\ WF_vars(FetchAfter(u))

-----------------------------------------------------------------------------
(* Properties *)

Unread(u) == {m \in messages : m.by # u /\ m.at > mark[u]}

\* The rows, the clients and what the handlers hold have the shape of the code's.
TypeOK ==
    /\ team \subseteq Users
    /\ opened \in BOOLEAN
    /\ mark \in [Users -> Times \cup {NoRow}]
    /\ messages \subseteq Messages
    /\ bell \in [Users -> {NoRow, "unread", "read"}]
    /\ clock \in Times
    /\ page \in [Readers -> SUBSET Messages]
    /\ cursor \in [Readers -> Times]
    /\ got \in [Readers -> SUBSET Messages]
    /\ mixed \subseteq {"team", "talk"}
    /\ work \in [Workers -> Work]

\* "Being on a team and being in its thread are one fact": once the thread
\* exists its participants are the owner and the members, whatever joins,
\* leaves and opens follow each other, as long as no two of them overlap.
ThreadFollowsTeam ==
    opened /\ "team" \notin mixed => Participants = team \cup {Owner}

\* A client that hands the cursor back is given every message up to it, as
\* long as no sender's transaction is open while it or another sender runs.
NothingSkipped ==
    "talk" \notin mixed =>
        \A u \in Readers : \A m \in messages : m.at <= cursor[u] => m \in got[u]

\* What a client has been given lies behind its cursor, so no message is given
\* to it twice, whatever overlaps.
NothingTwice == \A u \in Readers : \A m \in got[u] : m.at <= cursor[u]

\* An unread notification stands for something unread: it is gone with the
\* reading of the thread and never raised by one's own message.
BellMeansUnread ==
    "talk" \notin mixed =>
        \A u \in Participants : bell[u] = "unread" => Unread(u) # {}

\* Every message comes to the client that polls with the cursor, for as long as
\* its user takes part and no sender has overlapped.
ReachesThePoller ==
    \A u \in Readers, n \in Times :
        (\E m \in messages : m.at = n)
            ~> \/ \E m \in got[u] : m.at = n
               \/ u \notin Participants
               \/ "talk" \in mixed
=============================================================================
