----------------------------- MODULE BookingsProofs -----------------------------
(***************************************************************************)
(* Proofs about Bookings, for any number of people, bookings, hours and    *)
(* concurrent handlers: its invariants, and that it implements the         *)
(* calendar.                                                               *)
(***************************************************************************)
EXTENDS Bookings, TLAPS

-----------------------------------------------------------------------------
(* The inductive invariant *)

\* A row, committed or about to be.
Sound(row) ==
    /\ row.starts < row.ends
    /\ row.decider # row.user
    /\ row.status \in {"approved", "rejected", "completed"} => row.decided
    /\ row.status = "completed" => row.ends <= now

RowsSound == \A b \in BookingIds : booking[b] # NoRow => Sound(booking[b])

\* What a handler holds was checked when it was read and cannot become false:
\* whose booking it is and when it ends never change, and time only passes.
StillTrue(t) ==
    /\ t.op = "create" => Sound(t.row)
    /\ t.op = "decide" =>
          /\ booking[t.id] # NoRow
          /\ t.by # booking[t.id].user
          /\ t.target \in {"approved", "rejected"} => t.by # NoRow
          /\ t.target = "completed" => booking[t.id].decided /\ booking[t.id].ends <= now

WorkStillTrue == \A w \in Workers : StillTrue(work[w])

NoOverlap ==
    \A b, c \in BookingIds :
        b # c /\ Is(b, "approved") /\ Is(c, "approved") => ~Overlap(booking[b], booking[c])

IInv ==
    /\ TypeOK
    /\ RowsSound
    /\ WorkStillTrue
    /\ NoOverlap

LEMMA WorkShape ==
    ASSUME work \in [Workers -> Work], NEW w \in Workers
    PROVE  /\ work[w].op = "create" => work[w] \in CreateWork
           /\ work[w].op = "decide" => work[w] \in DecideWork
<1>1. work[w] \in Work
  OBVIOUS
<1>2. CASE work[w] = Idle
  BY <1>2 DEF Idle
<1>3. CASE work[w] \in CreateWork
  BY <1>3 DEF CreateWork
<1>4. CASE work[w] \in DecideWork
  BY <1>4 DEF DecideWork
<1> QED BY <1>1, <1>2, <1>3, <1>4 DEF Work

LEMMA InitInv == Init => IInv
<1> SUFFICES ASSUME Init PROVE IInv
  OBVIOUS
<1>1. TypeOK
  BY HoursAssumption DEF Init, TypeOK, Work, Hours, Audiences
<1>2. RowsSound /\ NoOverlap
  BY DEF Init, RowsSound, NoOverlap, Is
<1>3. WorkStillTrue
  BY DEF Init, WorkStillTrue, StillTrue, Idle
<1> QED BY <1>1, <1>2, <1>3 DEF IInv

\* A step that only reads: what it puts in one handler's hands is typed and true.
LEMMA ReadKeepsInv ==
    ASSUME IInv, NEW w \in Workers, NEW t \in Work, StillTrue(t),
           work' = [work EXCEPT ![w] = t], UNCHANGED <<now, openTo, approval, booking>>
    PROVE  IInv'
<1>1. TypeOK'
  BY DEF IInv, TypeOK
<1>2. (RowsSound /\ NoOverlap)'
  BY DEF IInv, RowsSound, NoOverlap, Sound, Is, Overlap
<1>3. \A x : StillTrue(x) => StillTrue(x)'
  BY DEF StillTrue, Sound
<1>4. \A v \in Workers : work'[v] = t \/ work'[v] = work[v]
  BY DEF IInv, TypeOK
<1>5. WorkStillTrue'
  <2> SUFFICES ASSUME NEW v \in Workers PROVE StillTrue(work[v])'
    BY DEF WorkStillTrue
  <2>1. StillTrue(work[v])
    BY DEF IInv, WorkStillTrue
  <2> QED BY <1>3, <1>4, <2>1 DEF StillTrue
<1> QED BY <1>1, <1>2, <1>5 DEF IInv

\* A step in which only time passes, the rules change or handlers give up.
LEMMA OtherStepKeepsInv ==
    ASSUME IInv, UNCHANGED booking, TypeOK', now' >= now,
           \A w \in Workers : work'[w] = work[w] \/ work'[w] = Idle
    PROVE  IInv'
<1>1. now \in Int /\ now' \in Int
  BY DEF IInv, TypeOK, Hours
<1>2. \A row \in Row : Sound(row) => Sound(row)'
  BY <1>1 DEF Sound, Row, Hours
<1>3. (RowsSound /\ NoOverlap)'
  BY <1>2 DEF IInv, TypeOK, RowsSound, NoOverlap, Is, Overlap
<1>4. WorkStillTrue'
  <2> SUFFICES ASSUME NEW v \in Workers, work'[v] = work[v] PROVE StillTrue(work[v])'
    BY DEF WorkStillTrue, StillTrue, Idle
  <2>1. StillTrue(work[v])
    BY DEF IInv, WorkStillTrue
  <2>2. work[v].op = "create" => work[v].row \in Row
    BY WorkShape DEF IInv, TypeOK, CreateWork
  <2>3. work[v].op = "decide" => booking[work[v].id] \in Row
    BY <2>1, WorkShape DEF IInv, TypeOK, DecideWork, StillTrue
  <2> QED BY <1>1, <1>2, <2>1, <2>2, <2>3 DEF StillTrue, Row, Hours
<1> QED BY <1>3, <1>4 DEF IInv

\* A commit: a sound row the constraint lets through, of the same person and
\* period as the one it replaces.
LEMMA WriteKeepsInv ==
    ASSUME IInv, NEW w \in Workers, NEW b \in BookingIds, NEW row \in Row,
           Sound(row), Excludes(b, row), booking' = [booking EXCEPT ![b] = row], End(w),
           booking[b] # NoRow => /\ row.user = booking[b].user
                                 /\ row.ends = booking[b].ends
                                 /\ booking[b].decided => row.decided
    PROVE  IInv'
<1>1. /\ booking'[b] = row
      /\ \A c \in BookingIds : c # b => booking'[c] = booking[c]
  BY DEF IInv, TypeOK
<1>2. \A v \in Workers : work'[v] = work[v] \/ work'[v] = Idle
  BY DEF IInv, TypeOK, End
<1>3. TypeOK'
  BY DEF IInv, TypeOK, End, Work
<1>4. RowsSound'
  BY <1>1 DEF IInv, RowsSound, Sound, End
<1>5. WorkStillTrue'
  <2> SUFFICES ASSUME NEW v \in Workers, work'[v] = work[v] PROVE StillTrue(work[v])'
    BY <1>2 DEF WorkStillTrue, StillTrue, Idle
  <2>1. StillTrue(work[v])
    BY DEF IInv, WorkStillTrue
  <2>2. work[v].op = "decide" => work[v].id \in BookingIds
    BY WorkShape DEF IInv, TypeOK, DecideWork
  <2> QED BY <1>1, <2>1, <2>2, RowAssumption DEF StillTrue, Sound, End
<1>6. NoOverlap'
  <2> SUFFICES ASSUME NEW c \in BookingIds, NEW d \in BookingIds, c # d,
                      Is(c, "approved")', Is(d, "approved")'
               PROVE  ~Overlap(booking'[c], booking'[d])
    BY DEF NoOverlap, Overlap
  <2>1. \A r, s : Overlap(r, s) => Overlap(s, r)
    BY DEF Overlap
  <2>2. CASE c # b /\ d # b
    BY <1>1, <2>2 DEF IInv, NoOverlap, Is
  <2>3. CASE c = b
    BY <1>1, <2>1, <2>3 DEF Is, Excludes
  <2>4. CASE d = b
    BY <1>1, <2>1, <2>4 DEF Is, Excludes
  <2> QED BY <2>2, <2>3, <2>4
<1> QED BY <1>3, <1>4, <1>5, <1>6 DEF IInv

-----------------------------------------------------------------------------
(* Every step keeps it *)

LEMMA CreateLoadInv ==
    ASSUME IInv, NEW w \in Workers, NEW u \in Users, NEW starts \in Hours, NEW ends \in Hours,
           CreateLoad(w, u, starts, ends)
    PROVE  IInv'
<1> DEFINE row == [user |-> u, starts |-> starts, ends |-> ends,
                   status |-> IF approval THEN "pending" ELSE "approved",
                   decider |-> NoRow, decided |-> InitialDecision(~approval)]
           t == [op |-> "create", row |-> row]
<1>1. row \in Row
  BY DEF Row, BookingStatus, InitialDecision, IInv, TypeOK
<1>2. t \in Work
  BY <1>1 DEF Work, CreateWork
<1>3. Sound(row)
  BY NoRowAssumption DEF CreateLoad, Sound, InitialDecision
<1>4. StillTrue(t)
  BY <1>3 DEF StillTrue
<1> QED BY <1>2, <1>4, ReadKeepsInv DEF CreateLoad, Begin

LEMMA CreateCommitInv ==
    ASSUME IInv, NEW w \in Workers, NEW b \in BookingIds, CreateCommit(w, b)
    PROVE  IInv'
<1>1. PICK row \in Row : row = work[w].row
  BY WorkShape DEF CreateCommit, IInv, TypeOK, CreateWork
<1>2. Sound(row)
  BY <1>1 DEF CreateCommit, IInv, WorkStillTrue, StillTrue
<1> QED BY <1>1, <1>2, WriteKeepsInv DEF CreateCommit

LEMMA DecideLoadInv ==
    ASSUME IInv, NEW w \in Workers, NEW u \in Users, NEW b \in BookingIds,
           NEW target \in BookingStatus, DecideLoad(w, u, b, target)
    PROVE  IInv'
<1> DEFINE by == IF ActorFor(u, b) = "approver" THEN u ELSE NoRow
           t == [op |-> "decide", id |-> b, target |-> target, by |-> by]
<1>1. t \in Work
  BY DEF Work, DecideWork
<1>2. booking[b] # NoRow /\ booking[b] \in Row /\ Sound(booking[b])
  BY DEF DecideLoad, IInv, TypeOK, RowsSound
<1>3. by # booking[b].user
  BY <1>2, NoRowAssumption DEF ActorFor, Row
<1>4. target \in {"approved", "rejected"} => by # NoRow
  BY NoRowAssumption DEF DecideLoad, AssertTransition, Transitions
<1>5. target = "completed" => booking[b].decided /\ booking[b].ends <= now
  BY <1>2 DEF DecideLoad, AssertTransition, Transitions, InTime, Sound
<1>6. StillTrue(t)
  BY <1>2, <1>3, <1>4, <1>5 DEF StillTrue
<1> QED BY <1>1, <1>6, ReadKeepsInv DEF DecideLoad, Begin

\* What a decision writes: the same booking, with a sound row.
LEMMA DecideWrites ==
    ASSUME IInv, NEW w \in Workers, DecideCommit(w)
    PROVE  \E b \in BookingIds, row \in Row :
              /\ booking[b] # NoRow
              /\ row.user = booking[b].user
              /\ row.starts = booking[b].starts /\ row.ends = booking[b].ends
              /\ booking[b].decided => row.decided
              /\ Sound(row) /\ Excludes(b, row) /\ booking' = [booking EXCEPT ![b] = row]
              /\ End(w)
<1>1. work[w] \in DecideWork /\ StillTrue(work[w])
  BY WorkShape DEF DecideCommit, IInv, TypeOK, WorkStillTrue
<1>2. PICK b \in BookingIds, target \in BookingStatus, by \in Users \cup {NoRow} :
         b = work[w].id /\ target = work[w].target /\ by = work[w].by
  BY <1>1 DEF DecideWork
<1>3. booking[b] # NoRow /\ booking[b] \in Row /\ Sound(booking[b])
  BY <1>1, <1>2 DEF DecideCommit, StillTrue, IInv, TypeOK, RowsSound
<1>4. PICK row : row = Decided(booking[b], target, by)
  OBVIOUS
<1>5. /\ row \in Row
      /\ row.user = booking[b].user /\ row.starts = booking[b].starts
      /\ row.ends = booking[b].ends /\ row.status = target
      /\ row.decider = IF by = NoRow THEN booking[b].decider ELSE by
      /\ row.decided = (booking[b].decided \/ by # NoRow)
  BY <1>3, <1>4 DEF Decided, Row
<1>6. Sound(row)
  BY <1>1, <1>2, <1>3, <1>5 DEF DecideCommit, StillTrue, Sound
<1>7. Excludes(b, row) /\ booking' = [booking EXCEPT ![b] = row] /\ End(w)
  BY <1>2, <1>4 DEF DecideCommit
<1> QED BY <1>3, <1>5, <1>6, <1>7

LEMMA DecideCommitInv ==
    ASSUME IInv, NEW w \in Workers, DecideCommit(w)
    PROVE  IInv'
BY DecideWrites, WriteKeepsInv

LEMMA OtherStepsInv ==
    ASSUME IInv,
           (\E w \in Workers : Rollback(w)) \/ Tick \/ UpdateEquipment \/ UNCHANGED vars
    PROVE  IInv'
<1>1. now \in Int
  BY DEF IInv, TypeOK, Hours
<1>2. ASSUME NEW w \in Workers, Rollback(w) PROVE IInv'
  <2>1. TypeOK'
    BY <1>2 DEF Rollback, End, IInv, TypeOK, Work
  <2>2. \A v \in Workers : work'[v] = work[v] \/ work'[v] = Idle
    BY <1>2 DEF Rollback, End, IInv, TypeOK
  <2> QED BY <1>1, <1>2, <2>1, <2>2, OtherStepKeepsInv DEF Rollback, End
<1>3. CASE Tick
  <2>1. TypeOK'
    BY <1>3, HoursAssumption DEF Tick, IInv, TypeOK, Hours
  <2> QED BY <1>1, <1>3, <2>1, OtherStepKeepsInv DEF Tick
<1>4. CASE UpdateEquipment \/ UNCHANGED vars
  <2>1. TypeOK'
    BY <1>4 DEF UpdateEquipment, vars, IInv, TypeOK
  <2> QED BY <1>1, <1>4, <2>1, OtherStepKeepsInv DEF UpdateEquipment, vars
<1> QED BY <1>2, <1>3, <1>4

\* The invariant is inductive.
LEMMA NextInv == IInv /\ [Next]_vars => IInv'
<1> SUFFICES ASSUME IInv, [Next]_vars PROVE IInv'
  OBVIOUS
<1>1. ASSUME NEW w \in Workers, Handler(w) PROVE IInv'
  BY <1>1, CreateLoadInv, CreateCommitInv, DecideLoadInv, DecideCommitInv, OtherStepsInv
  DEF Handler
<1> QED BY <1>1, OtherStepsInv DEF Next

THEOREM Inductive == Spec => []IInv
BY InitInv, NextInv, PTL DEF Spec

\* Every variable keeps its type.
THEOREM Typing == Spec => []TypeOK
BY Inductive, PTL DEF IInv

\* What is said of a booking that was decided is true, whatever races there were.
THEOREM DecisionsAreSound == Spec => [](CompletedAfterEnd /\ DeciderIsAnother /\ DecisionIsDated)
<1>1. IInv => CompletedAfterEnd /\ DeciderIsAnother /\ DecisionIsDated
  BY DEF IInv, RowsSound, Sound, CompletedAfterEnd, DeciderIsAnother, DecisionIsDated, Is
<1> QED BY <1>1, Inductive, PTL

-----------------------------------------------------------------------------
(* The bookings implement the calendar *)

LEMMA InitRefines == Init => Calendar!Init
BY DEF Init, Calendar!Init, HeldSlots, Is

\* Periods that do not overlap share no slot.
LEMMA ApartPeriodsAreDisjoint ==
    ASSUME NEW r \in Row, NEW s \in Row, ~Overlap(r, s)
    PROVE  (r.starts..(r.ends - 1)) \cap (s.starts..(s.ends - 1)) = {}
BY HoursAssumption DEF Overlap, Row, Hours

\* A commit takes the whole period, gives it back whole, or changes nothing.
LEMMA WriteRefines ==
    ASSUME IInv, NEW b \in BookingIds, NEW row \in Row,
           Sound(row), Excludes(b, row), booking' = [booking EXCEPT ![b] = row],
           booking[b] # NoRow => row.starts = booking[b].starts /\ row.ends = booking[b].ends
    PROVE  [Calendar!Next]_[c \in BookingIds |-> HeldSlots(c)]
<1> DEFINE period == row.starts..(row.ends - 1)
           held == [c \in BookingIds |-> HeldSlots(c)]
<1>1. booking'[b] = row /\ \A c \in BookingIds : c # b => booking'[c] = booking[c]
  BY DEF IInv, TypeOK
<1>2. \A c \in BookingIds : c # b => HeldSlots(c)' = HeldSlots(c)
  BY <1>1 DEF HeldSlots, Is
<1>3. row.starts \in period
  BY HoursAssumption DEF Sound, Row, Hours
<1>4. HeldSlots(b)' = IF row.status = "approved" THEN period ELSE {}
  BY <1>1, RowAssumption DEF HeldSlots, Is
<1>5. HeldSlots(b) = IF Is(b, "approved") THEN period ELSE {}
  BY DEF HeldSlots, Is
<1>6. CASE Is(b, "approved") <=> row.status = "approved"
  BY <1>2, <1>4, <1>5, <1>6
<1>7. CASE ~Is(b, "approved") /\ row.status = "approved"
  <2>1. \A c \in BookingIds : HeldSlots(c) \cap period = {}
    <3> SUFFICES ASSUME NEW c \in BookingIds, c # b, Is(c, "approved")
                 PROVE  HeldSlots(c) \cap period = {}
      BY <1>5, <1>7 DEF HeldSlots
    <3>1. booking[c] \in Row /\ ~Overlap(booking[c], row)
      BY <1>7 DEF Excludes, Is, IInv, TypeOK
    <3> QED BY <3>1, ApartPeriodsAreDisjoint DEF HeldSlots
  <2>2. period \in {starts..(ends - 1) : starts, ends \in Hours}
    BY DEF Row
  <2>3. held' = [held EXCEPT ![b] = period]
    BY <1>2, <1>4, <1>7
  <2>4. Calendar!Take(b, period)
    BY <1>5, <1>7, <2>1, <2>3 DEF Calendar!Take, Calendar!Free
  <2> QED BY <2>2, <2>4 DEF Calendar!Next
<1>8. CASE Is(b, "approved") /\ row.status # "approved"
  <2>1. held' = [held EXCEPT ![b] = {}]
    BY <1>2, <1>4, <1>8
  <2>2. Calendar!Release(b)
    BY <1>3, <1>5, <1>8, <2>1 DEF Calendar!Release
  <2> QED BY <2>2 DEF Calendar!Next
<1> QED BY <1>6, <1>7, <1>8

LEMMA NextRefines ==
    IInv /\ [Next]_vars => [Calendar!Next]_[b \in BookingIds |-> HeldSlots(b)]
<1> SUFFICES ASSUME IInv, [Next]_vars
             PROVE  [Calendar!Next]_[b \in BookingIds |-> HeldSlots(b)]
  OBVIOUS
<1>1. CASE UNCHANGED booking
  BY <1>1 DEF HeldSlots, Is
<1>2. ASSUME NEW w \in Workers, NEW b \in BookingIds, CreateCommit(w, b)
      PROVE  [Calendar!Next]_[c \in BookingIds |-> HeldSlots(c)]
  <2>1. PICK row \in Row : row = work[w].row
    BY <1>2, WorkShape DEF CreateCommit, IInv, TypeOK, CreateWork
  <2>2. Sound(row)
    BY <1>2, <2>1 DEF CreateCommit, IInv, WorkStillTrue, StillTrue
  <2> QED BY <1>2, <2>1, <2>2, WriteRefines DEF CreateCommit
<1>3. ASSUME NEW w \in Workers, DecideCommit(w)
      PROVE  [Calendar!Next]_[c \in BookingIds |-> HeldSlots(c)]
  <2>1. PICK b \in BookingIds, row \in Row :
           /\ booking[b] # NoRow
           /\ row.starts = booking[b].starts /\ row.ends = booking[b].ends
           /\ Sound(row) /\ Excludes(b, row) /\ booking' = [booking EXCEPT ![b] = row]
    BY <1>3, DecideWrites
  <2> QED BY <2>1, WriteRefines
<1>4. ASSUME NEW w \in Workers, Handler(w)
      PROVE  [Calendar!Next]_[b \in BookingIds |-> HeldSlots(b)]
  BY <1>1, <1>2, <1>3, <1>4 DEF Handler, CreateLoad, DecideLoad, Begin, Rollback
<1> QED BY <1>1, <1>4 DEF Next, Tick, UpdateEquipment, vars

\* Approved bookings hold slots exactly as the calendar promises.
THEOREM BookingsImplementCalendar == Spec => ImplementsCalendar
BY InitRefines, NextRefines, Inductive, PTL DEF Spec, ImplementsCalendar, Calendar!Spec
=============================================================================
