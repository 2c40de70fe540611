---------------------------- MODULE TeamThreadProofs ----------------------------
(***************************************************************************)
(* Proofs about TeamThread, for any team, any number of messages and of    *)
(* concurrent handlers: its type, that the thread follows the team, that   *)
(* the cursor neither skips nor repeats, and that the bell means something *)
(* unread.  The two halves of the invariant are proved apart: who takes    *)
(* part, and what is said and read.                                        *)
(***************************************************************************)
EXTENDS TeamThread, FiniteSetTheorems, TLAPS

TalkOps == {"send", "read"}

LEMMA WorkShape ==
    ASSUME work \in [Workers -> Work], NEW w \in Workers
    PROVE  /\ work[w].op \in SyncOps => work[w] \in SyncWork
           /\ work[w].op = "send" => work[w] \in SendWork
           /\ work[w].op = "read" => work[w] \in ReadWork
<1>1. work[w] \in Work
  OBVIOUS
<1>2. CASE work[w] = Idle
  BY <1>2 DEF Idle, SyncOps
<1>3. CASE work[w] \in SyncWork
  BY <1>3 DEF SyncWork, SyncOps
<1>4. CASE work[w] \in SendWork
  BY <1>4 DEF SendWork, SyncOps
<1>5. CASE work[w] \in ReadWork
  BY <1>5 DEF ReadWork, SyncOps
<1> QED BY <1>1, <1>2, <1>3, <1>4, <1>5 DEF Work

-----------------------------------------------------------------------------
(* Types *)

LEMMA InitType == Init => TypeOK
<1> SUFFICES ASSUME Init PROVE TypeOK
  OBVIOUS
<1> QED BY BoundsAssumption DEF Init, TypeOK, Work, Times

LEMMA BeginType ==
    ASSUME TypeOK, NEW w \in Workers, NEW t \in Work, Begin(w, t), clock' \in Times
    PROVE  TypeOK'
<1>1. mixed' \subseteq {"team", "talk"}
  BY DEF Begin, Mixing, TypeOK
<1> QED BY <1>1 DEF Begin, TypeOK, threadVars, clientVars

LEMMA SyncType ==
    ASSUME TypeOK, NEW w \in Workers,
           \/ \E u \in Users : \E op \in SyncOps : SyncLoad(w, op, u)
           \/ SyncLook(w) \/ SyncCommit(w)
    PROVE  TypeOK'
<1>1. CASE \E u \in Users : \E op \in SyncOps : SyncLoad(w, op, u)
  <2> PICK u \in Users, op \in SyncOps : SyncLoad(w, op, u)
    BY <1>1
  <2> DEFINE t == [op |-> op, who |-> u, found |-> opened,
                   should |-> TeamAfter(op, u) \cup {Owner}, seen |-> NoRow]
  <2>1. TeamAfter(op, u) \cup {Owner} \subseteq Users
    BY PeopleAssumption DEF TeamAfter, TypeOK
  <2>2. opened \in BOOLEAN
    BY DEF TypeOK
  <2>3. t \in Work
    BY <2>1, <2>2 DEF Work, SyncWork
  <2> QED BY <2>3, BeginType DEF SyncLoad, TypeOK
<1>2. CASE SyncLook(w)
  <2>1. work[w] \in SyncWork
    BY <1>2, WorkShape DEF SyncLook, TypeOK
  <2>2. Participants \subseteq Users
    BY DEF Participants
  <2>3. work'[w] \in SyncWork /\ \A v \in Workers \ {w} : work'[v] = work[v]
    BY <1>2, <2>1, <2>2 DEF SyncLook, SyncWork, TypeOK
  <2>4. work' \in [Workers -> Work]
    BY <1>2, <2>3 DEF SyncLook, Work, TypeOK
  <2> QED BY <1>2, <2>4 DEF SyncLook, TypeOK, threadVars, clientVars
<1>3. CASE SyncCommit(w)
  <2>1. work[w] \in SyncWork
    BY <1>3, WorkShape DEF SyncCommit, TypeOK
  <2>2. team' \subseteq Users
    BY <1>3, <2>1 DEF SyncCommit, SyncWork, TeamAfter, TypeOK
  <2>3. mark' \in [Users -> Times \cup {NoRow}]
    BY <1>3, BoundsAssumption DEF SyncCommit, TypeOK, Times
  <2> QED BY <1>3, <2>2, <2>3 DEF SyncCommit, End, TypeOK, Work, clientVars
<1> QED BY <1>1, <1>2, <1>3

LEMMA TalkType ==
    ASSUME TypeOK, NEW w \in Workers,
           \/ \E u \in Users : SendLoad(w, u) \/ MarkReadLoad(w, u)
           \/ SendLook(w) \/ SendCommit(w) \/ MarkReadCommit(w)
    PROVE  TypeOK'
<1>1. ASSUME NEW u \in Users, SendLoad(w, u) PROVE TypeOK'
  <2> DEFINE t == [op |-> "send", who |-> u, at |-> Stamp, read |-> NoRow,
                   clears |-> FALSE, ring |-> {}]
  <2>1. Stamp \in Times /\ clock' \in Times
    BY <1>1, BoundsAssumption DEF SendLoad, Stamp, TypeOK, Times
  <2>2. t \in Work
    BY <2>1 DEF Work, SendWork
  <2> QED BY <1>1, <2>1, <2>2, BeginType DEF SendLoad
<1>2. ASSUME NEW u \in Users, MarkReadLoad(w, u) PROVE TypeOK'
  <2> DEFINE t == [op |-> "read", who |-> u, read |-> clock, clears |-> bell[u] # NoRow]
  <2>1. t \in Work
    BY DEF Work, ReadWork, TypeOK
  <2> QED BY <1>2, <2>1, BeginType DEF MarkReadLoad, TypeOK
<1>3. CASE SendLook(w)
  <2>1. work[w] \in SendWork
    BY <1>3, WorkShape DEF SendLook, TypeOK
  <2>2. WithoutBell(work[w].who) \subseteq Users
    BY DEF WithoutBell, Participants
  <2>3. work'[w] \in SendWork /\ \A v \in Workers \ {w} : work'[v] = work[v]
    BY <1>3, <2>1, <2>2 DEF SendLook, SendWork, TypeOK
  <2>4. work' \in [Workers -> Work]
    BY <1>3, <2>3 DEF SendLook, Work, TypeOK
  <2> QED BY <1>3, <2>4 DEF SendLook, TypeOK, threadVars, clientVars
<1>4. CASE SendCommit(w)
  <2>1. work[w] \in SendWork /\ work[w].read \in Times
    BY <1>4, WorkShape DEF SendCommit, TypeOK, SendWork
  <2>2. [at |-> work[w].at, by |-> work[w].who] \in Messages
    BY <2>1 DEF SendWork, Messages
  <2>3. BellCleared(work[w]) \in [Users -> {NoRow, "unread", "read"}]
    BY DEF BellCleared, TypeOK
  <2>4. bell' \in [Users -> {NoRow, "unread", "read"}]
    BY <1>4, <2>3 DEF SendCommit
  <2>5. mark' \in [Users -> Times \cup {NoRow}]
    BY <1>4, <2>1 DEF SendCommit, TypeOK
  <2> QED BY <1>4, <2>2, <2>4, <2>5 DEF SendCommit, End, TypeOK, Work, clientVars
<1>5. CASE MarkReadCommit(w)
  <2>1. work[w] \in ReadWork
    BY <1>5, WorkShape DEF MarkReadCommit, TypeOK
  <2>2. bell' \in [Users -> {NoRow, "unread", "read"}]
    BY <1>5 DEF MarkReadCommit, BellCleared, TypeOK
  <2>3. mark' \in [Users -> Times \cup {NoRow}]
    BY <1>5, <2>1 DEF MarkReadCommit, ReadWork, TypeOK
  <2> QED BY <1>5, <2>2, <2>3 DEF MarkReadCommit, End, TypeOK, Work, clientVars
<1> QED BY <1>1, <1>2, <1>3, <1>4, <1>5

LEMMA OtherType ==
    ASSUME TypeOK,
           \/ \E w \in Workers : Rollback(w)
           \/ \E u \in Users : ReadBell(u)
           \/ \E u \in Readers : FetchPage(u) \/ FetchAfter(u)
    PROVE  TypeOK'
<1>1. \A c : Slice(c) \subseteq Messages
  BY DEF Slice, After, TypeOK
<1>2. ASSUME NEW w \in Workers, Rollback(w) PROVE TypeOK'
  BY <1>2 DEF Rollback, End, TypeOK, Work, threadVars, clientVars
<1>3. ASSUME NEW u \in Users, ReadBell(u) PROVE TypeOK'
  BY <1>3 DEF ReadBell, TypeOK, clientVars
<1>4. ASSUME NEW u \in Readers, FetchPage(u) PROVE TypeOK'
  BY <1>1, <1>4 DEF FetchPage, TypeOK, threadVars
<1>5. ASSUME NEW u \in Readers, FetchAfter(u) PROVE TypeOK'
  <2>1. got' \in [Readers -> SUBSET Messages]
    BY <1>1, <1>5 DEF FetchAfter, TypeOK
  <2>2. cursor' \in [Readers -> Times]
    BY <1>5 DEF FetchAfter, TypeOK
  <2> QED BY <1>5, <2>1, <2>2 DEF FetchAfter, TypeOK, threadVars
<1> QED BY <1>2, <1>3, <1>4, <1>5

LEMMA TypeStep == TypeOK /\ [Next]_vars => TypeOK'
<1> SUFFICES ASSUME TypeOK, [Next]_vars PROVE TypeOK'
  OBVIOUS
<1>1. CASE UNCHANGED vars
  BY <1>1 DEF TypeOK, vars, threadVars, clientVars
<1>2. CASE Next
  BY <1>2, SyncType, TalkType, OtherType DEF Next, Loads, Finishes
<1> QED BY <1>1, <1>2

-----------------------------------------------------------------------------
(* Who takes part *)

\* What a handler that writes the participants has read, while it is the only
\* one: nobody else can have changed any of it.
SyncTrue(t) ==
    /\ t.found = opened
    /\ t.should = TeamAfter(t.op, t.who) \cup {Owner}
    /\ t.seen # NoRow => t.seen = Participants

SyncAlone == \A v, w \in Workers : work[v].op \in SyncOps /\ work[w].op \in SyncOps => v = w

TeamInv ==
    /\ \A w \in Workers : work[w].op \in SyncOps => (work[w].found => opened)
    /\ ~opened => Participants = {}
    /\ "team" \notin mixed =>
          /\ opened => Participants = team \cup {Owner}
          /\ SyncAlone
          /\ \A w \in Workers : work[w].op \in SyncOps => SyncTrue(work[w])

LEMMA InitTeam == Init => TeamInv
<1> SUFFICES ASSUME Init PROVE TeamInv
  OBVIOUS
<1>1. \A w \in Workers : work[w].op \notin SyncOps
  BY DEF Init, Idle, SyncOps
<1>2. Participants = IF opened THEN {Owner} ELSE {}
  BY PeopleAssumption, BoundsAssumption, NoRowAssumption DEF Init, Participants, Times
<1>3. team = {}
  BY DEF Init
<1> QED BY <1>1, <1>2, <1>3 DEF TeamInv, SyncAlone

\* A step that leaves the team, the thread and its participants as they are,
\* and brings no handler that writes them.
LEMMA TeamQuiet ==
    ASSUME TeamInv, UNCHANGED <<team, opened, Participants>>, mixed \subseteq mixed',
           \A w \in Workers : work'[w] = work[w] \/ work'[w].op \notin SyncOps
    PROVE  TeamInv'
<1>1. \A t : SyncTrue(t) => SyncTrue(t)'
  BY DEF SyncTrue, TeamAfter
<1>2. SyncAlone => SyncAlone'
  BY DEF SyncAlone
<1>3. \A w \in Workers : work'[w].op \in SyncOps => work'[w] = work[w]
  OBVIOUS
<1>4. ASSUME NEW w \in Workers, work'[w].op \in SyncOps, "team" \notin mixed'
      PROVE  SyncTrue(work[w])'
  <2>1. SyncTrue(work[w])
    BY <1>3, <1>4 DEF TeamInv
  <2> QED BY <1>3, <1>4, <2>1 DEF SyncTrue, TeamAfter
<1> QED BY <1>2, <1>3, <1>4 DEF TeamInv

LEMMA SyncLoadTeam ==
    ASSUME TypeOK, TeamInv, NEW w \in Workers, NEW u \in Users, NEW op \in SyncOps,
           SyncLoad(w, op, u)
    PROVE  TeamInv'
<1> DEFINE t == [op |-> op, who |-> u, found |-> opened,
                 should |-> TeamAfter(op, u) \cup {Owner}, seen |-> NoRow]
<1>1. /\ work'[w] = t
      /\ \A v \in Workers \ {w} : work'[v] = work[v]
      /\ UNCHANGED <<team, opened, mark>>
      /\ work[w] = Idle
  BY DEF SyncLoad, Begin, TypeOK, threadVars
<1>2. Participants' = Participants
  BY <1>1 DEF Participants
<1>3. "team" \notin mixed' =>
          "team" \notin mixed /\ \A v \in Workers : work[v].op \notin SyncOps
  BY DEF SyncLoad, Begin, Mixing, Against, InFlight
<1>4. "team" \notin mixed' => SyncAlone'
  BY <1>1, <1>3 DEF SyncAlone
<1>5. ASSUME NEW v \in Workers, work'[v].op \in SyncOps, "team" \notin mixed'
      PROVE  SyncTrue(work[v])'
  <2>1. v = w
    BY <1>1, <1>3, <1>5
  <2>2. TeamAfter(op, u)' = TeamAfter(op, u)
    BY <1>1 DEF TeamAfter
  <2> QED BY <1>1, <1>2, <2>1, <2>2 DEF SyncTrue
<1> QED BY <1>1, <1>2, <1>3, <1>4, <1>5 DEF TeamInv

LEMMA SyncLookTeam ==
    ASSUME TypeOK, TeamInv, NEW w \in Workers, SyncLook(w)
    PROVE  TeamInv'
<1>1. work[w] \in SyncWork /\ work[w].op \in SyncOps
  BY WorkShape DEF SyncLook, TypeOK
<1>2. /\ work'[w].op = work[w].op
      /\ work'[w].who = work[w].who
      /\ work'[w].found = work[w].found
      /\ work'[w].should = work[w].should
      /\ work'[w].seen = IF work[w].found THEN Participants ELSE {}
      /\ \A v \in Workers \ {w} : work'[v] = work[v]
      /\ UNCHANGED <<team, opened, mark, mixed>>
  BY <1>1 DEF SyncLook, TypeOK, threadVars, SyncWork
<1>3. Participants' = Participants
  BY <1>2 DEF Participants
<1>4. SyncAlone => SyncAlone'
  BY <1>2 DEF SyncAlone
<1>5. ASSUME NEW v \in Workers, work'[v].op \in SyncOps, "team" \notin mixed'
      PROVE  SyncTrue(work[v])'
  <2>1. v = w
    BY <1>1, <1>2, <1>5 DEF TeamInv, SyncAlone
  <2>2. SyncTrue(work[w])
    BY <1>1, <1>2, <1>5 DEF TeamInv
  <2>3. work[w].found = opened /\ (~opened => Participants = {})
    BY <2>2 DEF SyncTrue, TeamInv
  <2> QED BY <1>2, <1>3, <2>1, <2>2, <2>3 DEF SyncTrue, TeamAfter
<1> QED BY <1>2, <1>3, <1>4, <1>5 DEF TeamInv

LEMMA SyncCommitTeam ==
    ASSUME TypeOK, TeamInv, NEW w \in Workers, SyncCommit(w)
    PROVE  TeamInv'
<1> DEFINE t == work[w]
           change == Sync(t)
<1>1. t \in SyncWork /\ t.op \in SyncOps
  BY WorkShape DEF SyncCommit, TypeOK
<1>2. /\ \A v \in Workers \ {w} : work'[v] = work[v]
      /\ work'[w].op \notin SyncOps
      /\ UNCHANGED mixed
      /\ team' = TeamAfter(t.op, t.who)
      /\ opened' = (opened \/ t.op = "open")
  BY DEF SyncCommit, End, TypeOK, Idle, SyncOps
<1>3. Participants' = (Participants \cup (change.adds \cap Users)) \ (change.drops \ change.adds)
  BY BoundsAssumption, NoRowAssumption DEF SyncCommit, Participants, Times
<1>4. \A v \in Workers : work'[v].op \in SyncOps => (work'[v].found => opened')
  BY <1>2 DEF TeamInv
<1>5. ~opened' => Participants' = {}
  <2> SUFFICES ASSUME ~opened' PROVE Participants' = {}
    OBVIOUS
  <2>1. ~t.found /\ t.op # "open" /\ Participants = {}
    BY <1>1, <1>2 DEF TeamInv
  <2> QED BY <1>3, <2>1 DEF Sync
<1>6. ASSUME "team" \notin mixed, opened' PROVE Participants' = team' \cup {Owner}
  <2>1. SyncTrue(t)
    BY <1>1, <1>6 DEF TeamInv
  <2>2. t.found \/ t.op = "open"
    BY <1>2, <1>6, <2>1 DEF SyncTrue
  <2>3. t.seen = Participants
    BY <2>1 DEF SyncTrue, SyncCommit
  <2>4. t.should \subseteq Users
    BY <1>1 DEF SyncWork
  <2>5. change.adds = t.should \ Participants /\ change.drops = Participants \ t.should
    BY <2>2, <2>3 DEF Sync
  <2>6. Participants' = t.should
    BY <1>3, <2>4, <2>5
  <2> QED BY <1>2, <2>1, <2>6 DEF SyncTrue
<1>7. ASSUME "team" \notin mixed
      PROVE  \A v \in Workers : work'[v].op \notin SyncOps
  BY <1>1, <1>2, <1>7 DEF TeamInv, SyncAlone
<1> QED BY <1>2, <1>4, <1>5, <1>6, <1>7 DEF TeamInv, SyncAlone

\* Having read the thread moves a mark; it makes nobody a participant.
LEMMA MarkKeepsParticipants ==
    ASSUME TypeOK, NEW u \in Participants, NEW n \in Times, mark' = [mark EXCEPT ![u] = n]
    PROVE  Participants' = Participants
BY NoRowAssumption DEF Participants, TypeOK

LEMMA TeamStep == TypeOK /\ TeamInv /\ [Next]_vars => TeamInv'
<1> SUFFICES ASSUME TypeOK, TeamInv, [Next]_vars PROVE TeamInv'
  OBVIOUS
<1> USE DEF SyncOps
<1>1. UNCHANGED mark => UNCHANGED Participants
  BY DEF Participants
<1>2. ASSUME NEW w \in Workers, NEW u \in Users, SendLoad(w, u) PROVE TeamInv'
  BY <1>1, <1>2, TeamQuiet DEF SendLoad, Begin, threadVars, TypeOK
<1>3. ASSUME NEW w \in Workers, NEW u \in Users, MarkReadLoad(w, u) PROVE TeamInv'
  BY <1>1, <1>3, TeamQuiet DEF MarkReadLoad, Begin, threadVars, TypeOK
<1>4. ASSUME NEW w \in Workers, SendLook(w) PROVE TeamInv'
  <2>1. work[w] \in SendWork
    BY <1>4, WorkShape DEF SendLook, TypeOK
  <2>2. work'[w].op = "send" /\ \A v \in Workers \ {w} : work'[v] = work[v]
    BY <1>4, <2>1 DEF SendLook, TypeOK, SendWork
  <2> QED BY <1>1, <1>4, <2>2, TeamQuiet DEF SendLook, threadVars
<1>5. ASSUME NEW w \in Workers, SendCommit(w) PROVE TeamInv'
  <2>1. work[w].read \in Times
    BY <1>5, WorkShape DEF SendCommit, TypeOK, SendWork
  <2>2. Participants' = Participants
    BY <1>5, <2>1, MarkKeepsParticipants DEF SendCommit
  <2> QED BY <1>5, <2>2, TeamQuiet DEF SendCommit, End, TypeOK, Idle
<1>6. ASSUME NEW w \in Workers, MarkReadCommit(w) PROVE TeamInv'
  <2>1. work[w].read \in Times
    BY <1>6, WorkShape DEF MarkReadCommit, TypeOK, ReadWork
  <2>2. Participants' = Participants
    BY <1>6, <2>1, MarkKeepsParticipants DEF MarkReadCommit
  <2> QED BY <1>6, <2>2, TeamQuiet DEF MarkReadCommit, End, TypeOK, Idle
<1>7. ASSUME NEW w \in Workers, Rollback(w) PROVE TeamInv'
  BY <1>1, <1>7, TeamQuiet DEF Rollback, End, threadVars, TypeOK, Idle
<1>8. ASSUME NEW u \in Users, ReadBell(u) PROVE TeamInv'
  BY <1>1, <1>8, TeamQuiet DEF ReadBell
<1>9. ASSUME NEW u \in Readers, FetchPage(u) \/ FetchAfter(u) PROVE TeamInv'
  BY <1>1, <1>9, TeamQuiet DEF FetchPage, FetchAfter, threadVars
<1>10. CASE UNCHANGED vars
  BY <1>1, <1>10, TeamQuiet DEF vars, threadVars
<1>11. CASE Next
  BY <1>2, <1>3, <1>4, <1>5, <1>6, <1>7, <1>8, <1>9, <1>11,
     SyncLoadTeam, SyncLookTeam, SyncCommitTeam DEF Next, Loads, Finishes
<1> QED BY <1>10, <1>11

-----------------------------------------------------------------------------
(* What is said and read *)

\* What a sender or a reader holds, whatever runs beside it.
TalkTyped(t) ==
    /\ t.op = "send" => /\ t.at \in 1..clock
                        /\ t.who \notin t.ring
                        /\ t.read # NoRow => t.read <= clock
    /\ t.op = "read" => t.read <= clock

\* What it holds while no sender has overlapped: its message is later than
\* anything read or fetched, and the bell it did not find is not there.
TalkTrue(t) ==
    /\ t.op = "send" => /\ t.at = clock
                        /\ \A u \in Readers : cursor[u] < t.at
                        /\ \A u \in Participants : mark[u] < t.at
    /\ t.op = "send" /\ t.read # NoRow /\ ~t.clears => bell[t.who] = NoRow
    /\ t.op = "read" /\ ~t.clears => bell[t.who] = NoRow

TalkAlone ==
    \A v, w \in Workers : work[w].op = "send" /\ work[v].op \in TalkOps => v = w

Skipless == \A u \in Readers : \A m \in messages : m.at <= cursor[u] => m \in got[u]

BellTrue == \A u \in Participants : bell[u] = "unread" => Unread(u) # {}

TalkInv ==
    /\ IsFiniteSet(messages)
    /\ \A m \in messages : m.at \in 1..clock
    /\ \A u \in Readers : cursor[u] <= clock
    /\ \A u \in Participants : mark[u] <= clock
    /\ \A u \in Users : bell[u] = "unread" => \E m \in messages : m.by # u
    /\ NothingTwice
    /\ \A w \in Workers : TalkTyped(work[w])
    /\ "talk" \notin mixed =>
          /\ Skipless
          /\ BellTrue
          /\ TalkAlone
          /\ \A w \in Workers : TalkTrue(work[w])

LEMMA InitTalk == Init => TalkInv
<1> SUFFICES ASSUME Init PROVE TalkInv
  OBVIOUS
<1>1. IsFiniteSet(messages)
  BY FS_EmptySet DEF Init
<1>2. \A w \in Workers : work[w] = Idle
  BY DEF Init
<1>3. \A u \in Participants : mark[u] <= clock
  BY DEF Init, Participants
<1>4. \A u \in Users : bell[u] # "unread"
  BY NoRowAssumption DEF Init
<1>5. \A w \in Workers : work[w].op \notin TalkOps
  BY <1>2 DEF Idle, TalkOps
<1>6. /\ messages = {} /\ clock = 0
      /\ \A u \in Readers : cursor[u] = 0 /\ got[u] = {}
  BY DEF Init
<1>7. NothingTwice /\ Skipless
  BY <1>6 DEF NothingTwice, Skipless
<1>8. BellTrue
  BY <1>4 DEF BellTrue, Participants
<1>9. TalkAlone /\ \A w \in Workers : TalkTyped(work[w]) /\ TalkTrue(work[w])
  BY <1>5 DEF TalkAlone, TalkTyped, TalkTrue, TalkOps
<1> QED BY <1>1, <1>3, <1>4, <1>6, <1>7, <1>8, <1>9 DEF TalkInv

\* A step that says, reads and fetches nothing: a participant is who it was or
\* a new one, to whom everything is unread, and a bell at most becomes read.
LEMMA TalkQuiet ==
    ASSUME TypeOK, TalkInv, UNCHANGED <<messages, clock, cursor, got>>, mixed \subseteq mixed',
           \A u \in Participants' : mark'[u] = 0 \/ (u \in Participants /\ mark'[u] = mark[u]),
           \A u \in Users : bell'[u] = bell[u] \/ (bell[u] = "unread" /\ bell'[u] = "read"),
           \A w \in Workers : work'[w] = work[w] \/ work'[w].op \notin TalkOps
    PROVE  TalkInv'
<1>1. clock \in Nat /\ \A u \in Readers : cursor[u] \in Nat
  BY BoundsAssumption DEF TypeOK, Times
<1>2. \A u \in Participants' : mark'[u] <= clock'
  BY <1>1 DEF TalkInv
<1>3. \A u \in Users : bell'[u] = "unread" => bell[u] = "unread"
  OBVIOUS
<1>4. NothingTwice' /\ (Skipless => Skipless') /\ (TalkAlone => TalkAlone')
  BY DEF TalkInv, NothingTwice, Skipless, TalkAlone, TalkOps
<1>5. ASSUME NEW w \in Workers PROVE TalkTyped(work[w])'
  <2>1. TalkTyped(work[w])
    BY DEF TalkInv
  <2> QED BY <2>1 DEF TalkTyped, TalkOps
<1>6. ASSUME BellTrue PROVE BellTrue'
  <2> SUFFICES ASSUME NEW u \in Participants', bell'[u] = "unread" PROVE Unread(u)' # {}
    BY DEF BellTrue
  <2>1. u \in Users /\ bell[u] = "unread"
    BY <1>3 DEF Participants
  <2>2. CASE mark'[u] = 0
    <3> PICK m \in messages : m.by # u
      BY <2>1 DEF TalkInv
    <3>1. m.at > 0
      BY <1>1 DEF TalkInv
    <3> QED BY <2>2, <3>1 DEF Unread
  <2>3. CASE u \in Participants /\ mark'[u] = mark[u]
    BY <1>6, <2>1, <2>3 DEF BellTrue, Unread
  <2> QED BY <2>2, <2>3
<1>7. ASSUME NEW w \in Workers, "talk" \notin mixed' PROVE TalkTrue(work[w])'
  <2> SUFFICES ASSUME work'[w] = work[w] PROVE TalkTrue(work[w])'
    BY DEF TalkTrue, TalkOps
  <2>1. TalkTrue(work[w]) /\ TalkTyped(work[w])
    BY <1>7 DEF TalkInv
  <2>2. work[w].op = "send" => \A u \in Participants' : mark'[u] < work[w].at
    BY <1>1, <2>1 DEF TalkTrue, TalkTyped
  <2>3. work[w].op \in TalkOps => work[w].who \in Users
    BY WorkShape DEF TypeOK, TalkOps, SendWork, ReadWork
  <2>4. \A u \in Users : bell[u] = NoRow => bell'[u] = NoRow
    BY NoRowAssumption
  <2> QED BY <2>1, <2>2, <2>3, <2>4 DEF TalkTrue, TalkOps
<1> QED BY <1>2, <1>3, <1>4, <1>5, <1>6, <1>7 DEF TalkInv

LEMMA SendLoadTalk ==
    ASSUME TypeOK, TalkInv, NEW w \in Workers, NEW u \in Users, SendLoad(w, u)
    PROVE  TalkInv'
<1>1. /\ work'[w] = [op |-> "send", who |-> u, at |-> clock + 1, read |-> NoRow,
                     clears |-> FALSE, ring |-> {}]
      /\ \A v \in Workers \ {w} : work'[v] = work[v]
      /\ clock' = clock + 1
      /\ UNCHANGED <<mark, messages, bell, cursor, got>>
  BY DEF SendLoad, Begin, Stamp, TypeOK, threadVars, clientVars
<1>2. /\ clock \in Nat
      /\ \A x \in Readers : cursor[x] \in Nat
      /\ \A x \in Participants : mark[x] \in Nat
  BY BoundsAssumption DEF TypeOK, Times, Participants
<1>3. Participants' = Participants /\ \A x \in Users : Unread(x)' = Unread(x)
  BY <1>1 DEF Participants, Unread
<1>4. /\ \A m \in messages' : m.at \in 1..clock'
      /\ \A x \in Readers : cursor'[x] <= clock'
      /\ \A x \in Participants' : mark'[x] <= clock'
      /\ \A x \in Users : bell'[x] = "unread" => \E m \in messages' : m.by # x
  BY <1>1, <1>2, <1>3 DEF TalkInv
<1>5. NothingTwice' /\ (Skipless => Skipless') /\ (BellTrue => BellTrue')
  BY <1>1, <1>3 DEF TalkInv, NothingTwice, Skipless, BellTrue, Participants
<1>6. ASSUME NEW v \in Workers PROVE TalkTyped(work[v])'
  <2>1. CASE v = w
    BY <1>1, <1>2, <2>1 DEF TalkTyped
  <2>2. CASE v # w
    <3>1. TalkTyped(work[v])
      BY DEF TalkInv
    <3>2. work[v].op = "send" => work[v].read \in Nat \/ work[v].read = NoRow
      BY WorkShape, BoundsAssumption DEF TypeOK, SendWork, Times
    <3>3. work[v].op = "read" => work[v].read \in Nat
      BY WorkShape, BoundsAssumption DEF TypeOK, ReadWork, Times
    <3> QED BY <1>1, <1>2, <2>2, <3>1, <3>2, <3>3 DEF TalkTyped
  <2> QED BY <2>1, <2>2
<1>7. "talk" \notin mixed' =>
          "talk" \notin mixed /\ \A v \in Workers : work[v].op \notin TalkOps
  BY DEF SendLoad, Begin, Mixing, Against, InFlight, TalkOps
<1>8. "talk" \notin mixed' => TalkAlone'
  BY <1>1, <1>7 DEF TalkAlone
<1>9. ASSUME NEW v \in Workers, "talk" \notin mixed' PROVE TalkTrue(work[v])'
  <2>1. CASE v = w
    BY <1>1, <1>2, <1>3, <2>1 DEF TalkTrue, TalkInv
  <2>2. CASE v # w
    BY <1>1, <1>7, <1>9, <2>2 DEF TalkTrue, TalkOps
  <2> QED BY <2>1, <2>2
<1>10. IsFiniteSet(messages')
  BY <1>1 DEF TalkInv
<1> QED BY <1>4, <1>5, <1>6, <1>7, <1>8, <1>9, <1>10 DEF TalkInv

LEMMA SendLookTalk ==
    ASSUME TypeOK, TalkInv, NEW w \in Workers, SendLook(w)
    PROVE  TalkInv'
<1>1. work[w] \in SendWork /\ work[w].op = "send"
  BY WorkShape DEF SendLook, TypeOK
<1>2. /\ work'[w].op = "send"
      /\ work'[w].who = work[w].who
      /\ work'[w].at = work[w].at
      /\ work'[w].read = clock
      /\ work'[w].clears = (bell[work[w].who] # NoRow)
      /\ work'[w].ring = WithoutBell(work[w].who)
      /\ \A v \in Workers \ {w} : work'[v] = work[v]
      /\ UNCHANGED <<mark, messages, bell, clock, cursor, got, mixed>>
  BY <1>1 DEF SendLook, TypeOK, threadVars, clientVars, SendWork
<1>3. clock \in Nat
  BY BoundsAssumption DEF TypeOK, Times
<1>4. Participants' = Participants /\ \A x \in Users : Unread(x)' = Unread(x)
  BY <1>2 DEF Participants, Unread
<1>5. ASSUME NEW v \in Workers PROVE TalkTyped(work[v])'
  <2>1. TalkTyped(work[v])
    BY DEF TalkInv
  <2>2. work[w].who \notin WithoutBell(work[w].who)
    BY DEF WithoutBell
  <2> QED BY <1>1, <1>2, <1>3, <2>1, <2>2 DEF TalkTyped
<1>6. TalkAlone => TalkAlone'
  BY <1>1, <1>2 DEF TalkAlone, TalkOps
<1>7. ASSUME NEW v \in Workers, "talk" \notin mixed' PROVE TalkTrue(work[v])'
  <2>1. TalkTrue(work[v])
    BY <1>2, <1>7 DEF TalkInv
  <2> QED BY <1>1, <1>2, <1>4, <2>1 DEF TalkTrue
<1>8. NothingTwice' /\ (Skipless => Skipless') /\ (BellTrue => BellTrue')
  BY <1>2, <1>4 DEF TalkInv, NothingTwice, Skipless, BellTrue, Participants
<1> QED BY <1>2, <1>4, <1>5, <1>6, <1>7, <1>8 DEF TalkInv

LEMMA SendCommitTalk ==
    ASSUME TypeOK, TalkInv, NEW w \in Workers, SendCommit(w)
    PROVE  TalkInv'
<1> DEFINE t == work[w]
           said == [at |-> t.at, by |-> t.who]
<1>1. t \in SendWork /\ t.op = "send" /\ t.read \in Times /\ t.who \in Participants
  BY WorkShape DEF SendCommit, TypeOK, SendWork
<1>2. TalkTyped(t)
  BY DEF TalkInv
<1>3. /\ messages' = messages \cup {said}
      /\ mark' = [mark EXCEPT ![t.who] = t.read]
      /\ \A v \in Workers \ {w} : work'[v] = work[v]
      /\ work'[w].op \notin TalkOps
      /\ UNCHANGED <<clock, cursor, got, mixed>>
  BY DEF SendCommit, End, TypeOK, clientVars, Idle, TalkOps
<1>4. Participants' = Participants
  BY <1>1, <1>3, MarkKeepsParticipants
<1>5. /\ mark'[t.who] = t.read
      /\ \A u \in Participants \ {t.who} : mark'[u] = mark[u]
  BY <1>1, <1>3 DEF TypeOK, Participants
<1>6. \A u \in Users : bell'[u] = "unread" =>
          u \in t.ring \/ (bell[u] = "unread" /\ ~(u = t.who /\ t.clears))
  BY NoRowAssumption DEF SendCommit, BellCleared, TypeOK
<1>7. IsFiniteSet(messages')
  BY <1>3, FS_AddElement DEF TalkInv
<1>8. \A m \in messages' : m.at \in 1..clock'
  BY <1>1, <1>2, <1>3 DEF TalkInv, TalkTyped
<1>9. \A u \in Participants' : mark'[u] <= clock'
  BY <1>1, <1>2, <1>3, <1>4, <1>5, NoRowAssumption DEF TalkInv, TalkTyped
<1>10. ASSUME NEW u \in Users, bell'[u] = "unread" PROVE \E m \in messages' : m.by # u
  <2>1. CASE u \in t.ring
    <3>1. said \in messages' /\ said.by = t.who
      BY <1>3
    <3>2. t.who # u
      BY <1>1, <1>2, <2>1 DEF TalkTyped
    <3> QED BY <3>1, <3>2
  <2>2. CASE bell[u] = "unread"
    BY <1>3, <2>2 DEF TalkInv
  <2> QED BY <1>6, <1>10, <2>1, <2>2
<1>11. ASSUME NEW v \in Workers PROVE TalkTyped(work[v])'
  <2>1. TalkTyped(work[v])
    BY DEF TalkInv
  <2> QED BY <1>3, <2>1 DEF TalkTyped, TalkOps
<1>12. ASSUME "talk" \notin mixed
       PROVE  /\ Skipless' /\ BellTrue' /\ TalkAlone'
              /\ \A v \in Workers : TalkTrue(work[v])'
  <2>1. TalkTrue(t) /\ Skipless /\ BellTrue /\ TalkAlone
    BY <1>12 DEF TalkInv
  <2>2. \A v \in Workers : work'[v].op \notin TalkOps
    BY <1>1, <1>3, <2>1 DEF TalkAlone
  <2>3. \A u \in Readers : cursor[u] \in Nat /\ t.at \in Nat /\ cursor[u] < t.at
    BY <1>1, <2>1, BoundsAssumption DEF TypeOK, TalkTrue, Times, SendWork
  <2>4. Skipless'
    BY <1>3, <2>1, <2>3 DEF Skipless
  <2>5. ASSUME NEW u \in Participants', bell'[u] = "unread" PROVE Unread(u)' # {}
    <3>1. u \in Users /\ u \in Participants
      BY <1>4 DEF Participants
    <3>2. CASE u \in t.ring
      <4>1. u # t.who
        BY <1>1, <1>2, <3>2 DEF TalkTyped
      <4>2. mark'[u] < t.at
        BY <1>1, <1>5, <2>1, <3>1, <4>1 DEF TalkTrue
      <4>3. said \in Unread(u)'
        BY <1>3, <4>1, <4>2 DEF Unread
      <4> QED BY <4>3
    <3>3. CASE bell[u] = "unread" /\ ~(u = t.who /\ t.clears)
      <4>1. t.read # NoRow
        BY <1>1, NoRowAssumption
      <4>2. u # t.who
        BY <1>1, <2>1, <3>3, <4>1, NoRowAssumption DEF TalkTrue
      <4>3. Unread(u) # {} /\ mark'[u] = mark[u]
        BY <1>5, <2>1, <3>1, <3>3, <4>2 DEF BellTrue
      <4> QED BY <1>3, <4>3 DEF Unread
    <3> QED BY <1>6, <2>5, <3>1, <3>2, <3>3
  <2> QED BY <2>2, <2>4, <2>5 DEF BellTrue, TalkAlone, TalkTrue, TalkOps
<1>13. NothingTwice'
  BY <1>3 DEF TalkInv, NothingTwice
<1> QED BY <1>3, <1>7, <1>8, <1>9, <1>10, <1>11, <1>12, <1>13 DEF TalkInv

LEMMA MarkReadLoadTalk ==
    ASSUME TypeOK, TalkInv, NEW w \in Workers, NEW u \in Users, MarkReadLoad(w, u)
    PROVE  TalkInv'
<1>1. /\ work'[w] = [op |-> "read", who |-> u, read |-> clock, clears |-> (bell[u] # NoRow)]
      /\ \A v \in Workers \ {w} : work'[v] = work[v]
      /\ UNCHANGED <<mark, messages, bell, clock, cursor, got>>
  BY DEF MarkReadLoad, Begin, TypeOK, threadVars, clientVars
<1>2. clock \in Nat
  BY BoundsAssumption DEF TypeOK, Times
<1>3. Participants' = Participants /\ \A x \in Users : Unread(x)' = Unread(x)
  BY <1>1 DEF Participants, Unread
<1>4. ASSUME NEW v \in Workers PROVE TalkTyped(work[v])'
  <2>1. TalkTyped(work[v])
    BY DEF TalkInv
  <2> QED BY <1>1, <1>2, <2>1 DEF TalkTyped
<1>5. "talk" \notin mixed' =>
          "talk" \notin mixed /\ \A v \in Workers : work[v].op # "send"
  BY DEF MarkReadLoad, Begin, Mixing, Against, InFlight
<1>6. "talk" \notin mixed' => TalkAlone'
  BY <1>1, <1>5 DEF TalkAlone
<1>7. ASSUME NEW v \in Workers, "talk" \notin mixed' PROVE TalkTrue(work[v])'
  <2>1. TalkTrue(work[v])
    BY <1>5, <1>7 DEF TalkInv
  <2>2. CASE v = w
    <3>1. work'[w].op = "read" /\ work'[w].who = u /\ work'[w].clears = (bell[u] # NoRow)
      BY <1>1
    <3> QED BY <1>1, <2>2, <3>1 DEF TalkTrue
  <2>3. CASE v # w
    BY <1>1, <1>3, <2>1, <2>3 DEF TalkTrue
  <2> QED BY <2>2, <2>3
<1>8. NothingTwice' /\ (Skipless => Skipless') /\ (BellTrue => BellTrue')
  BY <1>1, <1>3 DEF TalkInv, NothingTwice, Skipless, BellTrue, Participants
<1> QED BY <1>1, <1>3, <1>4, <1>5, <1>6, <1>7, <1>8 DEF TalkInv

LEMMA MarkReadCommitTalk ==
    ASSUME TypeOK, TalkInv, NEW w \in Workers, MarkReadCommit(w)
    PROVE  TalkInv'
<1> DEFINE t == work[w]
<1>1. t \in ReadWork /\ t.op = "read" /\ t.read \in Times /\ t.who \in Participants
  BY WorkShape DEF MarkReadCommit, TypeOK, ReadWork
<1>2. TalkTyped(t)
  BY DEF TalkInv
<1>3. /\ mark' = [mark EXCEPT ![t.who] = t.read]
      /\ \A v \in Workers \ {w} : work'[v] = work[v]
      /\ work'[w].op \notin TalkOps
      /\ UNCHANGED <<messages, clock, cursor, got, mixed>>
  BY DEF MarkReadCommit, End, TypeOK, clientVars, Idle, TalkOps
<1>4. Participants' = Participants
  BY <1>1, <1>3, MarkKeepsParticipants
<1>5. /\ mark'[t.who] = t.read
      /\ \A u \in Participants \ {t.who} : mark'[u] = mark[u]
  BY <1>1, <1>3 DEF TypeOK, Participants
<1>6. \A u \in Users : /\ bell'[u] = "unread" => bell[u] = "unread" /\ ~(u = t.who /\ t.clears)
                       /\ bell[u] = NoRow => bell'[u] = NoRow
  BY NoRowAssumption DEF MarkReadCommit, BellCleared, TypeOK
<1>7. \A u \in Participants' : mark'[u] <= clock'
  BY <1>1, <1>2, <1>3, <1>4, <1>5 DEF TalkInv, TalkTyped
<1>8. \A u \in Users : bell'[u] = "unread" => \E m \in messages' : m.by # u
  BY <1>3, <1>6 DEF TalkInv
<1>9. ASSUME NEW v \in Workers PROVE TalkTyped(work[v])'
  <2>1. TalkTyped(work[v])
    BY DEF TalkInv
  <2> QED BY <1>3, <2>1 DEF TalkTyped, TalkOps
<1>10. ASSUME "talk" \notin mixed
       PROVE  /\ Skipless' /\ BellTrue' /\ TalkAlone'
              /\ \A v \in Workers : TalkTrue(work[v])'
  <2>1. TalkTrue(t) /\ Skipless /\ BellTrue /\ TalkAlone
    BY <1>10 DEF TalkInv
  <2>2. \A v \in Workers : work'[v].op # "send"
    BY <1>1, <1>3, <2>1 DEF TalkAlone, TalkOps
  <2>3. ASSUME NEW u \in Participants', bell'[u] = "unread" PROVE Unread(u)' # {}
    <3>1. u \in Users /\ u \in Participants
      BY <1>4 DEF Participants
    <3>2. u # t.who
      BY <1>1, <1>6, <2>1, <2>3, <3>1, NoRowAssumption DEF TalkTrue
    <3>3. Unread(u) # {} /\ mark'[u] = mark[u]
      BY <1>5, <1>6, <2>1, <2>3, <3>1, <3>2 DEF BellTrue
    <3> QED BY <1>3, <3>3 DEF Unread
  <2>4. ASSUME NEW v \in Workers PROVE TalkTrue(work[v])'
    <3> SUFFICES ASSUME v # w, work[v].op = "read", ~work[v].clears
                 PROVE  bell'[work[v].who] = NoRow
      BY <1>3, <2>2 DEF TalkTrue, TalkOps
    <3>1. bell[work[v].who] = NoRow
      BY <1>10 DEF TalkInv, TalkTrue
    <3>2. work[v].who \in Users
      BY WorkShape DEF TypeOK, ReadWork
    <3> QED BY <1>6, <3>1, <3>2
  <2>5. Skipless'
    BY <1>3, <2>1 DEF Skipless
  <2> QED BY <2>2, <2>3, <2>4, <2>5 DEF BellTrue, TalkAlone
<1>11. NothingTwice'
  BY <1>3 DEF TalkInv, NothingTwice
<1> QED BY <1>3, <1>7, <1>8, <1>9, <1>10, <1>11 DEF TalkInv

\* What is no later than a row of the answer, and after the cursor, is in it.
LEMMA SliceIsClosed ==
    ASSUME IsFiniteSet(messages), \A m \in messages : m.at \in Nat, PageSize \in Nat,
           NEW c \in Nat, NEW last \in Slice(c), NEW m \in After(c), m.at <= last.at
    PROVE  m \in Slice(c)
<1> DEFINE Before(x) == {n \in After(c) : n.at < x.at}
<1>1. After(c) \subseteq messages /\ last \in After(c)
  BY DEF After, Slice
<1>2. Before(m) \subseteq Before(last)
  BY <1>1
<1>3. Before(last) \subseteq messages
  BY <1>1
<1>4. IsFiniteSet(Before(last))
  BY <1>3, FS_Subset
<1>5. IsFiniteSet(Before(m)) /\ Cardinality(Before(m)) <= Cardinality(Before(last))
  BY <1>2, <1>4, FS_Subset
<1>6. Cardinality(Before(m)) \in Nat /\ Cardinality(Before(last)) \in Nat
  BY <1>4, <1>5, FS_CardinalityType
<1>7. Cardinality(Before(last)) < PageSize
  BY DEF Slice
<1> HIDE DEF Before
<1>8. Cardinality(Before(m)) < PageSize
  BY <1>5, <1>6, <1>7
<1> QED BY <1>8 DEF Slice, Before

LEMMA FetchAfterTalk ==
    ASSUME TypeOK, TalkInv, NEW u \in Readers, FetchAfter(u)
    PROVE  TalkInv'
<1> DEFINE rows == Slice(cursor[u])
<1>1. PICK c \in Times, last \in rows :
          /\ c = last.at
          /\ \A m \in rows : m.at <= last.at
          /\ cursor' = [cursor EXCEPT ![u] = c]
  BY DEF FetchAfter, NextAfter
<1>2. /\ cursor'[u] = c /\ got'[u] = got[u] \cup rows
      /\ \A x \in Readers \ {u} : cursor'[x] = cursor[x] /\ got'[x] = got[x]
      /\ UNCHANGED <<mark, messages, bell, clock, work>>
      /\ mixed \subseteq mixed'
  BY <1>1 DEF FetchAfter, TypeOK, threadVars
<1>3. /\ cursor[u] \in Nat /\ clock \in Nat /\ PageSize \in Nat
      /\ \A m \in messages : m.at \in Nat
  BY BoundsAssumption DEF TypeOK, Times, Messages
<1>4. rows \subseteq messages /\ \A m \in rows : m.at > cursor[u]
  BY DEF Slice, After
<1>5. Participants' = Participants /\ \A x \in Users : Unread(x)' = Unread(x)
  BY <1>2 DEF Participants, Unread
<1>6. \A x \in Readers : cursor'[x] <= clock'
  BY <1>1, <1>2, <1>3, <1>4 DEF TalkInv
<1>7. NothingTwice'
  <2> SUFFICES ASSUME NEW x \in Readers, NEW m \in got'[x] PROVE m.at <= cursor'[x]
    BY DEF NothingTwice
  <2>1. CASE x # u
    BY <1>2, <2>1 DEF TalkInv, NothingTwice
  <2>2. CASE x = u /\ m \in rows
    BY <1>1, <1>2, <2>2
  <2>3. CASE x = u /\ m \in got[u]
    <3>1. m \in Messages
      BY <2>3 DEF TypeOK
    <3>2. m.at \in Nat /\ c \in Nat
      BY <3>1, BoundsAssumption DEF Messages, Times
    <3>3. m.at <= cursor[u] /\ cursor[u] < c
      BY <1>1, <1>4, <2>3 DEF TalkInv, NothingTwice
    <3> QED BY <1>2, <1>3, <2>3, <3>2, <3>3
  <2> QED BY <1>2, <2>1, <2>2, <2>3
<1>8. "talk" \notin mixed' =>
          "talk" \notin mixed /\ \A v \in Workers : work[v].op # "send"
  BY DEF FetchAfter, InFlight
<1>9. ASSUME "talk" \notin mixed' PROVE Skipless'
  <2> SUFFICES ASSUME NEW x \in Readers, NEW m \in messages, m.at <= cursor'[x]
               PROVE  m \in got'[x]
    BY <1>2 DEF Skipless
  <2>1. CASE x # u
    BY <1>2, <1>8, <1>9, <2>1 DEF TalkInv, Skipless
  <2>2. CASE x = u /\ m.at <= cursor[u]
    BY <1>2, <1>8, <1>9, <2>2 DEF TalkInv, Skipless
  <2>3. CASE x = u /\ ~(m.at <= cursor[u])
    <3>1. m \in After(cursor[u]) /\ m.at <= last.at
      BY <1>1, <1>2, <1>3, <2>3 DEF After
    <3>2. m \in rows
      BY <1>3, <3>1, SliceIsClosed DEF TalkInv
    <3> QED BY <1>2, <2>3, <3>2
  <2> QED BY <2>1, <2>2, <2>3
<1>10. ASSUME NEW v \in Workers PROVE TalkTyped(work[v])'
  <2>1. TalkTyped(work[v])
    BY DEF TalkInv
  <2> QED BY <1>2, <2>1 DEF TalkTyped
<1>11. ASSUME NEW v \in Workers, "talk" \notin mixed' PROVE TalkTrue(work[v])'
  <2>1. TalkTrue(work[v])
    BY <1>8, <1>11 DEF TalkInv
  <2> QED BY <1>2, <1>8, <1>11, <2>1 DEF TalkTrue
<1>12. (BellTrue => BellTrue') /\ (TalkAlone => TalkAlone')
  BY <1>2, <1>5 DEF BellTrue, TalkAlone, Participants
<1> QED BY <1>2, <1>5, <1>6, <1>7, <1>8, <1>9, <1>10, <1>11, <1>12 DEF TalkInv

LEMMA TalkStep == TypeOK /\ TalkInv /\ [Next]_vars => TalkInv'
<1> SUFFICES ASSUME TypeOK, TalkInv, [Next]_vars PROVE TalkInv'
  OBVIOUS
<1>1. UNCHANGED mark =>
          /\ Participants' = Participants
          /\ \A u \in Participants' : u \in Participants /\ mark'[u] = mark[u]
  BY DEF Participants
<1>2. ASSUME NEW w \in Workers, NEW u \in Users, NEW op \in SyncOps, SyncLoad(w, op, u)
      PROVE  TalkInv'
  <2>1. \A v \in Workers : work'[v] = work[v] \/ work'[v].op \notin TalkOps
    BY <1>2 DEF SyncLoad, Begin, TypeOK, SyncOps, TalkOps
  <2> QED BY <1>1, <1>2, <2>1, TalkQuiet DEF SyncLoad, Begin, threadVars, clientVars
<1>3. ASSUME NEW w \in Workers, SyncLook(w) PROVE TalkInv'
  <2>1. work[w] \in SyncWork
    BY <1>3, WorkShape DEF SyncLook, TypeOK
  <2>2. \A v \in Workers : work'[v] = work[v] \/ work'[v].op \notin TalkOps
    BY <1>3, <2>1 DEF SyncLook, TypeOK, SyncWork, SyncOps, TalkOps
  <2> QED BY <1>1, <1>3, <2>2, TalkQuiet DEF SyncLook, threadVars, clientVars
<1>4. ASSUME NEW w \in Workers, SyncCommit(w) PROVE TalkInv'
  <2>1. \A v \in Workers : work'[v] = work[v] \/ work'[v].op \notin TalkOps
    BY <1>4 DEF SyncCommit, End, TypeOK, Idle, TalkOps
  <2>2. \A u \in Participants' : mark'[u] = 0 \/ (u \in Participants /\ mark'[u] = mark[u])
    BY <1>4 DEF SyncCommit, Participants
  <2> QED BY <1>4, <2>1, <2>2, TalkQuiet DEF SyncCommit, End, clientVars
<1>5. ASSUME NEW w \in Workers, Rollback(w) PROVE TalkInv'
  <2>1. \A v \in Workers : work'[v] = work[v] \/ work'[v].op \notin TalkOps
    BY <1>5 DEF Rollback, End, TypeOK, Idle, TalkOps
  <2> QED BY <1>1, <1>5, <2>1, TalkQuiet DEF Rollback, End, threadVars, clientVars
<1>6. ASSUME NEW u \in Users, ReadBell(u) PROVE TalkInv'
  <2>1. \A x \in Users : bell'[x] = bell[x] \/ (bell[x] = "unread" /\ bell'[x] = "read")
    BY <1>6 DEF ReadBell, TypeOK
  <2> QED BY <1>1, <1>6, <2>1, TalkQuiet DEF ReadBell, clientVars
<1>7. ASSUME NEW u \in Readers, FetchPage(u) PROVE TalkInv'
  BY <1>1, <1>7, TalkQuiet DEF FetchPage, threadVars
<1>8. CASE UNCHANGED vars
  BY <1>1, <1>8, TalkQuiet DEF vars, threadVars, clientVars
<1>9. CASE Next
  BY <1>2, <1>3, <1>4, <1>5, <1>6, <1>7, <1>9, SendLoadTalk, SendLookTalk, SendCommitTalk,
     MarkReadLoadTalk, MarkReadCommitTalk, FetchAfterTalk DEF Next, Loads, Finishes
<1> QED BY <1>8, <1>9

-----------------------------------------------------------------------------
(* What the thread promises *)

IInv == TypeOK /\ TeamInv /\ TalkInv

\* Both halves hold of every reachable state, whatever handlers overlap.
THEOREM Inductive == Spec => []IInv
<1>1. Init => IInv
  BY InitType, InitTeam, InitTalk DEF IInv
<1>2. IInv /\ [Next]_vars => IInv'
  BY TypeStep, TeamStep, TalkStep DEF IInv
<1> QED BY <1>1, <1>2, PTL DEF Spec

\* Rows, clients and in-flight handlers have the shape of the code's.
THEOREM Typing == Spec => []TypeOK
<1>1. IInv => TypeOK
  BY DEF IInv
<1> QED BY <1>1, Inductive, PTL

\* "Being on a team and being in its thread are one fact"
\* (projects/service.py), as long as no two membership changes overlap.
THEOREM TeamAndThreadAreOne == Spec => []ThreadFollowsTeam
<1>1. IInv => ThreadFollowsTeam
  BY DEF IInv, TeamInv, ThreadFollowsTeam
<1> QED BY <1>1, Inductive, PTL

\* The keyset cursor of read_messages skips nothing, for any page size, as
\* long as no sender's transaction is open across another's or a fetch.
THEOREM CursorSkipsNothing == Spec => []NothingSkipped
<1>1. IInv => NothingSkipped
  BY DEF IInv, TalkInv, Skipless, NothingSkipped
<1> QED BY <1>1, Inductive, PTL

\* And it repeats nothing, whatever overlaps.
THEOREM CursorRepeatsNothing == Spec => []NothingTwice
<1>1. IInv => NothingTwice
  BY DEF IInv, TalkInv
<1> QED BY <1>1, Inductive, PTL

\* The thread's notification never points at a thread with nothing unread
\* (mark_read and _on_message_sent), as long as no sender overlaps a reader.
THEOREM BellIsTruthful == Spec => []BellMeansUnread
<1>1. IInv => BellMeansUnread
  BY DEF IInv, TalkInv, BellTrue, BellMeansUnread
<1> QED BY <1>1, Inductive, PTL
=============================================================================
