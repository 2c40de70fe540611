---------------------------- MODULE OpeningsProofs ----------------------------
(***************************************************************************)
(* Proofs about Openings, for any number of applicants, places and         *)
(* concurrent handlers.                                                    *)
(***************************************************************************)
EXTENDS Openings, FiniteSetTheorems, TLAPS

LEMMA AppendFacts ==
    ASSUME NEW S, NEW s \in Seq(S), NEW e \in S
    PROVE  /\ Append(s, e) \in Seq(S)
           /\ Len(Append(s, e)) = Len(s) + 1
           /\ Len(s) \in Nat
           /\ \A i \in 1..Len(s) : Append(s, e)[i] = s[i]
           /\ Append(s, e)[Len(s) + 1] = e
OBVIOUS

\* What handler w has in hand, by the operation it is in.
LEMMA WorkShape ==
    ASSUME work \in [Workers -> Work], NEW w \in Workers
    PROVE  /\ work[w].op = "edit" => work[w] \in EditWork
           /\ work[w].op = "apply" => work[w] \in ApplyWork
           /\ work[w].op = "move" => work[w] \in MoveWork
           /\ work[w].op = "accept" => work[w] \in AcceptWork
           /\ work[w].op = "accepted" => work[w] \in AcceptedWork
<1>1. work[w] \in Work
  OBVIOUS
<1>2. CASE work[w] \in {Idle, [op |-> "publish"], [op |-> "close"], [op |-> "hide"]}
  BY <1>2 DEF Idle
<1>3. CASE work[w] \in EditWork
  BY <1>3 DEF EditWork
<1>4. CASE work[w] \in ApplyWork
  BY <1>4 DEF ApplyWork
<1>5. CASE work[w] \in MoveWork
  BY <1>5 DEF MoveWork
<1>6. CASE work[w] \in AcceptWork
  BY <1>6 DEF AcceptWork
<1>7. CASE work[w] \in AcceptedWork
  BY <1>7 DEF AcceptedWork
<1> QED BY <1>1, <1>2, <1>3, <1>4, <1>5, <1>6, <1>7 DEF Work

-----------------------------------------------------------------------------
(* The inductive invariant *)

Reviewed(a) ==
    \E j \in 1..Len(timeline[a]) : timeline[a][j] \in {"under_review", "shortlisted"}

\* What a handler relies on cannot be undone: an opening that left the draft
\* never returns to it, a row of an application stays, and so does a review step.
StillTrue(t) ==
    /\ t.op \in {"apply", "move", "accept", "accepted"} => status # "draft"
    /\ t.op = "move" => t.target # "accepted"
    /\ t.op \in {"move", "accept", "accepted"} => application[t.who] # NoRow
    /\ t.op \in {"accept", "accepted"} => Reviewed(t.who)

WorkStillTrue == \A w \in Workers : StillTrue(work[w])

IInv ==
    /\ TypeOK
    /\ TimelineEndsWithStatus
    /\ AcceptedAfterReview
    /\ DraftIsPrivate
    /\ WorkStillTrue

LEMMA InitInv == Init => IInv
<1> SUFFICES ASSUME Init PROVE IInv
  OBVIOUS
<1>1. TypeOK
  <2>1. timeline \in [Applicants -> Seq(ApplicationStatus)]
    BY DEF Init
  <2>2. work \in [Workers -> Work]
    BY DEF Init, Work
  <2> QED BY <2>1, <2>2 DEF Init, TypeOK, OpportunityStatus
<1>2. TimelineEndsWithStatus /\ AcceptedAfterReview /\ DraftIsPrivate
  BY DEF Init, TimelineEndsWithStatus, AcceptedAfterReview, DraftIsPrivate
<1>3. WorkStillTrue
  BY DEF Init, WorkStillTrue, StillTrue, Idle
<1> QED BY <1>1, <1>2, <1>3 DEF IInv

\* A step that only reads: what it puts in one handler's hands is typed and true.
LEMMA ReadKeepsInv ==
    ASSUME IInv, NEW w \in Workers, NEW t \in Work, StillTrue(t),
           work' = [work EXCEPT ![w] = t], UNCHANGED <<openingVars, applicationVars>>,
           lapses' \subseteq Lapses
    PROVE  IInv'
<1> USE DEF openingVars, applicationVars
<1>1. TypeOK'
  BY DEF TypeOK, IInv
<1>2. (TimelineEndsWithStatus /\ AcceptedAfterReview /\ DraftIsPrivate)'
  BY DEF IInv, TimelineEndsWithStatus, AcceptedAfterReview, DraftIsPrivate
<1>3. \A x : StillTrue(x) => StillTrue(x)'
  BY DEF StillTrue, Reviewed
<1>4. \A v \in Workers : work'[v] = t \/ work'[v] = work[v]
  BY DEF IInv, TypeOK
<1>5. WorkStillTrue'
  <2> SUFFICES ASSUME NEW v \in Workers PROVE StillTrue(work[v])'
    BY DEF WorkStillTrue
  <2>1. StillTrue(work[v])
    BY DEF IInv, WorkStillTrue
  <2> QED BY <1>3, <1>4, <2>1 DEF StillTrue
<1> QED BY <1>1, <1>2, <1>5 DEF IInv

\* A handler that begins does exactly that.
LEMMA BeginInv ==
    ASSUME IInv, NEW w \in Workers, NEW t \in Work, StillTrue(t), Begin(w, t)
    PROVE  IInv'
<1>1. \A u \in Work : Crossing(t, u) \subseteq Lapses
  BY DEF Crossing, Lapses
<1>2. \A v \in Workers : work[v] \in Work
  BY DEF IInv, TypeOK
<1>3. lapses' \subseteq Lapses
  BY <1>1, <1>2 DEF Begin, IInv, TypeOK
<1> QED BY <1>3, ReadKeepsInv DEF Begin

\* A step that ends a handler and leaves the applications and the draft alone.
LEMMA OpeningStepKeepsInv ==
    ASSUME IInv, UNCHANGED <<application, timeline>>, TypeOK',
           status' = "draft" => status = "draft" /\ notice' = notice,
           \A w \in Workers : work'[w] = work[w] \/ work'[w] = Idle
    PROVE  IInv'
<1>1. (TimelineEndsWithStatus /\ AcceptedAfterReview)'
  BY DEF IInv, TimelineEndsWithStatus, AcceptedAfterReview
<1>2. DraftIsPrivate'
  BY DEF IInv, DraftIsPrivate
<1>3. \A x : StillTrue(x) => StillTrue(x)'
  BY DEF StillTrue, Reviewed
<1>4. WorkStillTrue'
  <2> SUFFICES ASSUME NEW v \in Workers PROVE StillTrue(work[v])'
    BY DEF WorkStillTrue
  <2>1. StillTrue(work[v])
    BY DEF IInv, WorkStillTrue
  <2> QED BY <1>3, <2>1 DEF StillTrue, Idle
<1> QED BY <1>1, <1>2, <1>4 DEF IInv

\* An application that moves records where it went.
LEMMA MovesKeepsInv ==
    ASSUME IInv, NEW a \in Applicants, NEW new \in ApplicationStatus, Moves(a, new),
           new = "accepted" => Reviewed(a),
           status # "draft", status' # "draft",
           TypeOK',
           \A w \in Workers : work'[w] = work[w] \/ work'[w] = Idle
    PROVE  IInv'
<1>1. /\ application' = [application EXCEPT ![a] = new]
      /\ timeline' = [timeline EXCEPT ![a] = Append(timeline[a], new)]
  BY DEF Moves, RecordEvent
<1>2. timeline[a] \in Seq(ApplicationStatus)
  BY DEF IInv, TypeOK
<1>3. /\ application'[a] = new
      /\ timeline'[a] = Append(timeline[a], new)
      /\ Len(timeline'[a]) = Len(timeline[a]) + 1
      /\ Len(timeline[a]) \in Nat
      /\ \A i \in 1..Len(timeline[a]) : timeline'[a][i] = timeline[a][i]
      /\ timeline'[a][Len(timeline[a]) + 1] = new
  BY <1>1, <1>2, AppendFacts DEF IInv, TypeOK
<1>4. \A x \in Applicants : x # a => application'[x] = application[x] /\ timeline'[x] = timeline[x]
  BY <1>1 DEF IInv, TypeOK
<1>5. TimelineEndsWithStatus'
  BY <1>3, <1>4, NoRowAssumption DEF IInv, TimelineEndsWithStatus
<1>6. \A x \in Applicants : Reviewed(x) => Reviewed(x)'
  BY <1>3, <1>4 DEF Reviewed
<1>7. AcceptedAfterReview'
  <2> SUFFICES ASSUME NEW x \in Applicants, NEW i \in 1..Len(timeline'[x]),
                      timeline'[x][i] = "accepted"
               PROVE  \E j \in 1..(i - 1) :
                         timeline'[x][j] \in {"under_review", "shortlisted"}
    BY DEF AcceptedAfterReview
  <2>1. CASE x # a
    BY <2>1, <1>4 DEF IInv, AcceptedAfterReview
  <2>2. CASE x = a /\ i \in 1..Len(timeline[a])
    <3>1. PICK j \in 1..(i - 1) : timeline[a][j] \in {"under_review", "shortlisted"}
      BY <2>2, <1>3 DEF IInv, AcceptedAfterReview
    <3> QED BY <3>1, <2>2, <1>3
  <2>3. CASE x = a /\ i = Len(timeline[a]) + 1
    <3>1. PICK j \in 1..Len(timeline[a]) : timeline[a][j] \in {"under_review", "shortlisted"}
      BY <2>3, <1>3 DEF Reviewed
    <3> QED BY <3>1, <2>3, <1>3
  <2> QED BY <2>1, <2>2, <2>3, <1>3
<1>8. DraftIsPrivate'
  BY DEF DraftIsPrivate
<1>9. WorkStillTrue'
  <2> SUFFICES ASSUME NEW v \in Workers PROVE StillTrue(work[v])'
    BY DEF WorkStillTrue
  <2>1. CASE work'[v] = Idle
    BY <2>1 DEF StillTrue, Idle
  <2>2. CASE work'[v] = work[v]
    <3>1. StillTrue(work[v])
      BY DEF IInv, WorkStillTrue
    <3>2. work[v].op \in {"move", "accept", "accepted"} => work[v].who \in Applicants
      BY WorkShape DEF IInv, TypeOK, MoveWork, AcceptWork, AcceptedWork
    <3>3. work[v].op \in {"move", "accept", "accepted"} => application'[work[v].who] # NoRow
      BY <3>1, <3>2, <1>3, <1>4, NoRowAssumption DEF StillTrue
    <3> QED BY <2>2, <3>1, <3>2, <3>3, <1>6 DEF StillTrue
  <2> QED BY <2>1, <2>2
<1> QED BY <1>5, <1>7, <1>8, <1>9 DEF IInv

-----------------------------------------------------------------------------
(* Every step keeps it *)

\* Ending handler w leaves the others' work typed and as it was.
LEMMA EndFacts ==
    ASSUME TypeOK, NEW w \in Workers, End(w)
    PROVE  /\ work' \in [Workers -> Work]
           /\ \A v \in Workers : work'[v] = work[v] \/ work'[v] = Idle
BY DEF TypeOK, End, Work

\* Moving an application keeps the applications typed.
LEMMA MovesTyped ==
    ASSUME TypeOK, NEW a \in Applicants, NEW new \in ApplicationStatus, Moves(a, new)
    PROVE  /\ application' \in [Applicants -> ApplicationStatus \cup {NoRow}]
           /\ timeline' \in [Applicants -> Seq(ApplicationStatus)]
<1>1. Append(timeline[a], new) \in Seq(ApplicationStatus)
  BY AppendFacts DEF TypeOK
<1> QED BY <1>1 DEF TypeOK, Moves, RecordEvent

\* An application under decision has been sent, so the opening is no draft.
LEMMA UndecidedIsPublic ==
    ASSUME IInv, NEW a \in Applicants, Undecided(a)
    PROVE  status # "draft"
BY DEF IInv, DraftIsPrivate, Undecided

LEMMA PublishInv ==
    ASSUME IInv, NEW w \in Workers, PublishLoad(w) \/ PublishCommit(w)
    PROVE  IInv'
<1>1. CASE PublishLoad(w)
  <2> DEFINE t == [op |-> "publish"]
  <2>1. t \in Work /\ StillTrue(t)
    BY DEF Work, StillTrue
  <2> QED BY <1>1, <2>1, BeginInv DEF PublishLoad
<1>2. CASE PublishCommit(w)
  <2>1. TypeOK'
    BY <1>2, EndFacts
    DEF PublishCommit, RaiseNotice, IInv, TypeOK, OpportunityStatus, applicationVars
  <2> QED BY <1>2, <2>1, EndFacts, OpeningStepKeepsInv DEF PublishCommit, applicationVars, IInv
<1> QED BY <1>1, <1>2

LEMMA CloseInv ==
    ASSUME IInv, NEW w \in Workers,
           (\E by \in {"owner", "coordinator", "admin"} : CloseLoad(w, by)) \/ CloseCommit(w)
    PROVE  IInv'
<1>1. ASSUME NEW by, CloseLoad(w, by) PROVE IInv'
  <2> DEFINE t == [op |-> "close"]
  <2>1. t \in Work /\ StillTrue(t)
    BY DEF Work, StillTrue
  <2> QED BY <1>1, <2>1, BeginInv DEF CloseLoad
<1>2. CASE CloseCommit(w)
  <2>1. TypeOK'
    BY <1>2, EndFacts
    DEF CloseCommit, AnnounceClosed, WithdrawNotice, IInv, TypeOK, OpportunityStatus,
        applicationVars, Lapses
  <2> QED BY <1>2, <2>1, EndFacts, OpeningStepKeepsInv DEF CloseCommit, applicationVars, IInv
<1> QED BY <1>1, <1>2

LEMMA HideInv ==
    ASSUME IInv, NEW w \in Workers, HideLoad(w) \/ HideCommit(w)
    PROVE  IInv'
<1>1. CASE HideLoad(w)
  <2> DEFINE t == [op |-> "hide"]
  <2>1. t \in Work /\ StillTrue(t)
    BY DEF Work, StillTrue
  <2> QED BY <1>1, <2>1, BeginInv DEF HideLoad
<1>2. CASE HideCommit(w)
  <2>1. TypeOK'
    BY <1>2, EndFacts DEF HideCommit, IInv, TypeOK, OpportunityStatus, applicationVars, Lapses
  <2> QED BY <1>2, <2>1, EndFacts, OpeningStepKeepsInv DEF HideCommit, applicationVars, IInv
<1> QED BY <1>1, <1>2

LEMMA EditInv ==
    ASSUME IInv, NEW w \in Workers,
           (\E n \in 1..MaxPositions, extend \in BOOLEAN : EditLoad(w, n, extend))
             \/ EditCommit(w)
    PROVE  IInv'
<1>1. ASSUME NEW n \in 1..MaxPositions, NEW extend \in BOOLEAN, EditLoad(w, n, extend)
      PROVE  IInv'
  <2> DEFINE t == [op |-> "edit", seen |-> positions, positions |-> n, extend |-> extend]
  <2>1. t \in EditWork
    BY DEF EditWork, IInv, TypeOK
  <2>2. t \in Work /\ StillTrue(t)
    BY <2>1 DEF Work, StillTrue
  <2> QED BY <1>1, <2>2, BeginInv DEF EditLoad
<1>2. CASE EditCommit(w)
  <2>1. work[w] \in EditWork
    BY <1>2, WorkShape DEF EditCommit, IInv, TypeOK
  <2>2. positions' \in 1..MaxPositions /\ deadlinePassed' \in BOOLEAN
    BY <1>2, <2>1 DEF EditCommit, EditWork, IInv, TypeOK
  <2>3. TypeOK'
    BY <1>2, <2>2, EndFacts DEF EditCommit, IInv, TypeOK, applicationVars
  <2> QED BY <1>2, <2>3, EndFacts, OpeningStepKeepsInv DEF EditCommit, applicationVars, IInv
<1> QED BY <1>1, <1>2

LEMMA ApplyInv ==
    ASSUME IInv, NEW w \in Workers,
           (\E a \in Applicants : ApplyLoad(w, a)) \/ ApplyCommit(w)
    PROVE  IInv'
<1>1. ASSUME NEW a \in Applicants, ApplyLoad(w, a) PROVE IInv'
  <2> DEFINE t == [op |-> "apply", who |-> a]
  <2>1. t \in Work
    BY DEF Work, ApplyWork
  <2>2. StillTrue(t)
    BY <1>1 DEF ApplyLoad, TakesApplications, StillTrue
  <2> QED BY <1>1, <2>1, <2>2, BeginInv DEF ApplyLoad
<1>2. CASE ApplyCommit(w)
  <2>1. PICK a \in Applicants : a = work[w].who
    BY <1>2, WorkShape DEF ApplyCommit, IInv, TypeOK, ApplyWork
  <2>2. Moves(a, "submitted") /\ "submitted" \in ApplicationStatus
    BY <1>2, <2>1 DEF ApplyCommit, ApplicationStatus
  <2>3. status # "draft" /\ status' # "draft"
    BY <1>2 DEF ApplyCommit, IInv, WorkStillTrue, StillTrue, openingVars
  <2>4. TypeOK'
    BY <1>2, <2>2, MovesTyped, EndFacts DEF ApplyCommit, IInv, TypeOK, openingVars
  <2> QED BY <1>2, <2>2, <2>3, <2>4, EndFacts, MovesKeepsInv DEF ApplyCommit, IInv
<1> QED BY <1>1, <1>2

\* The steps of a review that only read: a decision, a withdrawal, an acceptance.
LEMMA ReviewReadInv ==
    ASSUME IInv, NEW w \in Workers, NEW a \in Applicants,
           \/ \E target \in ApplicationStatus : DecideLoad(w, a, target)
           \/ WithdrawLoad(w, a)
           \/ \E add \in BOOLEAN : AcceptLoad(w, a, add)
    PROVE  IInv'
<1>1. ASSUME NEW target \in ApplicationStatus, target # "accepted", Undecided(a),
             Begin(w, [op |-> "move", who |-> a, target |-> target])
      PROVE  IInv'
  <2> DEFINE t == [op |-> "move", who |-> a, target |-> target]
  <2>1. t \in Work
    BY DEF Work, MoveWork
  <2>2. StillTrue(t)
    BY <1>1, UndecidedIsPublic DEF StillTrue, Undecided
  <2> QED BY <1>1, <2>1, <2>2, BeginInv
<1>2. ASSUME NEW target \in ApplicationStatus, DecideLoad(w, a, target) PROVE IInv'
  BY <1>1, <1>2 DEF DecideLoad
<1>3. CASE WithdrawLoad(w, a)
  BY <1>1, <1>3 DEF WithdrawLoad, ApplicationStatus
<1>4. ASSUME NEW add \in BOOLEAN, AcceptLoad(w, a, add) PROVE IInv'
  <2> DEFINE t == [op |-> "accept", who |-> a, add |-> add, status |-> status,
                   positions |-> positions]
  <2>1. t \in AcceptWork
    BY DEF AcceptWork, IInv, TypeOK
  <2>2. t \in Work
    BY <2>1 DEF Work
  <2>3. application[a] \in {"under_review", "shortlisted"}
    BY <1>4 DEF AcceptLoad, AssertTransition, ApplicationTransitions
  <2>4. Len(timeline[a]) > 0 /\ timeline[a][Len(timeline[a])] = application[a]
    BY <1>4 DEF IInv, TimelineEndsWithStatus, AcceptLoad, Undecided
  <2>5. Len(timeline[a]) \in Nat
    BY DEF IInv, TypeOK
  <2>6. Reviewed(a)
    BY <2>3, <2>4, <2>5 DEF Reviewed
  <2>7. StillTrue(t)
    BY <1>4, <2>6, UndecidedIsPublic DEF StillTrue, AcceptLoad, Undecided
  <2> QED BY <1>4, <2>2, <2>7, BeginInv DEF AcceptLoad
<1> QED BY <1>2, <1>3, <1>4

LEMMA MoveCommitInv ==
    ASSUME IInv, NEW w \in Workers, MoveCommit(w)
    PROVE  IInv'
<1>1. PICK a \in Applicants, new \in ApplicationStatus :
         a = work[w].who /\ new = work[w].target
  BY WorkShape DEF MoveCommit, IInv, TypeOK, MoveWork
<1>2. Moves(a, new) /\ End(w) /\ UNCHANGED <<openingVars, team>> /\ lapses' = lapses
  BY <1>1 DEF MoveCommit
<1>3. status # "draft" /\ status' # "draft" /\ new # "accepted"
  BY <1>1, <1>2 DEF MoveCommit, IInv, WorkStillTrue, StillTrue, openingVars
<1>4. TypeOK'
  BY <1>2, MovesTyped, EndFacts DEF IInv, TypeOK, openingVars
<1> QED BY <1>2, <1>3, <1>4, EndFacts, MovesKeepsInv DEF IInv

LEMMA AcceptFlushInv ==
    ASSUME IInv, NEW w \in Workers, AcceptFlush(w)
    PROVE  IInv'
<1>1. work[w] \in AcceptWork /\ StillTrue(work[w])
  BY WorkShape DEF AcceptFlush, IInv, TypeOK, WorkStillTrue
<1>2. PICK t :
         /\ t = [op |-> "accepted", who |-> work[w].who, add |-> work[w].add,
                 joins |-> work[w].add /\ work[w].who \notin team,
                 fills |-> Fills(work[w].who, work[w].status, work[w].positions)]
         /\ work' = [work EXCEPT ![w] = t]
  BY DEF AcceptFlush
<1>3. Fills(work[w].who, work[w].status, work[w].positions) \in BOOLEAN
  BY DEF Fills
<1>4. t \in AcceptedWork
  BY <1>1, <1>2, <1>3 DEF AcceptWork, AcceptedWork
<1>5. t \in Work
  BY <1>4 DEF Work
<1>6. StillTrue(t)
  BY <1>1, <1>2 DEF StillTrue, AcceptWork
<1> QED BY <1>2, <1>5, <1>6, ReadKeepsInv DEF AcceptFlush, IInv, TypeOK

LEMMA AcceptCommitInv ==
    ASSUME IInv, NEW w \in Workers, AcceptCommit(w)
    PROVE  IInv'
<1>1. PICK a \in Applicants : a = work[w].who
  BY WorkShape DEF AcceptCommit, IInv, TypeOK, AcceptedWork
<1>2. Moves(a, "accepted") /\ End(w) /\ "accepted" \in ApplicationStatus
  BY <1>1 DEF AcceptCommit, ApplicationStatus
<1>3. status # "draft" /\ Reviewed(a)
  BY <1>1 DEF AcceptCommit, IInv, WorkStillTrue, StillTrue
<1>4. status' = status \/ status' = "filled"
  BY DEF AcceptCommit
<1>5. TypeOK'
  <2>1. status' \in OpportunityStatus
    BY <1>4 DEF IInv, TypeOK, OpportunityStatus
  <2>2. notice' \in {"none", "published", "withdrawn"}
    BY DEF AcceptCommit, AnnounceClosed, WithdrawNotice, IInv, TypeOK
  <2>3. team' \subseteq Applicants
    BY <1>1 DEF AcceptCommit, IInv, TypeOK
  <2>4. /\ UNCHANGED <<positions, deadlinePassed, projectActive>>
        /\ lapses' \subseteq Lapses
    BY DEF AcceptCommit, AnnounceClosed, WithdrawNotice, IInv, TypeOK, Lapses
  <2> QED BY <1>2, <2>1, <2>2, <2>3, <2>4, MovesTyped, EndFacts DEF IInv, TypeOK
<1> QED BY <1>2, <1>3, <1>4, <1>5, EndFacts, MovesKeepsInv DEF IInv

\* What happens beside the handlers: the team, the board's moderation, time,
\* the project's end, and a transaction that is rolled back.
LEMMA OtherStepsInv ==
    ASSUME IInv,
           \/ \E w \in Workers : \/ Rollback(w)
                                \/ \E a \in Applicants : AddMember(w, a) \/ RemoveMember(w, a)
           \/ ModerateNotice \/ DeadlinePasses \/ ProjectEnds
    PROVE  IInv'
<1> USE DEF openingVars, applicationVars
<1>1. ASSUME NEW w \in Workers, Rollback(w) PROVE IInv'
  <2>1. TypeOK'
    BY <1>1, EndFacts DEF Rollback, IInv, TypeOK
  <2> QED BY <1>1, <2>1, EndFacts, OpeningStepKeepsInv DEF Rollback, IInv
<1>2. ASSUME NEW w \in Workers, NEW a \in Applicants, AddMember(w, a) \/ RemoveMember(w, a)
      PROVE  IInv'
  <2>1. TypeOK'
    BY <1>2 DEF AddMember, RemoveMember, IInv, TypeOK, Lapses
  <2> QED BY <1>2, <2>1, OpeningStepKeepsInv DEF AddMember, RemoveMember
<1>3. CASE ModerateNotice
  <2>1. TypeOK'
    BY <1>3 DEF ModerateNotice, IInv, TypeOK
  <2>2. status # "draft"
    BY <1>3 DEF ModerateNotice, IInv, DraftIsPrivate
  <2> QED BY <1>3, <2>1, <2>2, OpeningStepKeepsInv DEF ModerateNotice
<1>4. CASE DeadlinePasses \/ ProjectEnds
  <2>1. TypeOK'
    BY <1>4 DEF DeadlinePasses, ProjectEnds, IInv, TypeOK
  <2> QED BY <1>4, <2>1, OpeningStepKeepsInv DEF DeadlinePasses, ProjectEnds
<1> QED BY <1>1, <1>2, <1>3, <1>4

LEMMA StutterInv == IInv /\ UNCHANGED vars => IInv'
<1> SUFFICES ASSUME IInv, UNCHANGED vars PROVE IInv'
  OBVIOUS
<1> USE DEF vars, openingVars, applicationVars
<1>1. TypeOK'
  BY DEF IInv, TypeOK
<1> QED BY <1>1, OpeningStepKeepsInv

LEMMA NextInv == IInv /\ [Next]_vars => IInv'
<1> SUFFICES ASSUME IInv, [Next]_vars PROVE IInv'
  OBVIOUS
<1>1. ASSUME NEW w \in Workers, Handler(w) PROVE IInv'
  BY <1>1, PublishInv, CloseInv, HideInv, EditInv, ApplyInv, ReviewReadInv, MoveCommitInv,
     AcceptFlushInv, AcceptCommitInv, OtherStepsInv
  DEF Handler
<1>2. CASE ModerateNotice \/ DeadlinePasses \/ ProjectEnds
  BY <1>2, OtherStepsInv
<1>3. CASE UNCHANGED vars
  BY <1>3, StutterInv
<1> QED BY <1>1, <1>2, <1>3 DEF Next

\* The invariant is inductive.
THEOREM Inductive == Spec => []IInv
BY InitInv, NextInv, PTL DEF Spec

\* Every variable keeps its type, whatever the numbers of applicants, places
\* and handlers in flight.
THEOREM Typing == Spec => []TypeOK
BY Inductive, PTL DEF IInv

\* The timeline always ends where the application stands, although decisions
\* and withdrawals overwrite each other.
THEOREM TimelineIsTruthful == Spec => []TimelineEndsWithStatus
BY Inductive, PTL DEF IInv

\* Nobody is ever accepted without a review step first.
THEOREM AcceptanceNeedsReview == Spec => []AcceptedAfterReview
BY Inductive, PTL DEF IInv

\* Nothing is on the board, and nobody has applied, before the publication.
THEOREM DraftStaysPrivate == Spec => []DraftIsPrivate
BY Inductive, PTL DEF IInv
-----------------------------------------------------------------------------
(* The promises that some overlaps end, and what they rest on *)

\* The handlers in one of the given operations.
InFlight(ops) == {w \in Workers : work[w].op \in ops}

\* A handler that read an open opening for an application still has it open.
NoArrivalIsLate ==
    "arrivals" \notin lapses =>
        \A w \in InFlight({"apply"}) : status = "open" /\ InFlight(Turning) = {}

\* An acceptance in flight has its place, alone; an edit leaves everybody theirs.
PlacesAreCounted ==
    "places" \notin lapses =>
        /\ AcceptedCount <= positions
        /\ \A w \in InFlight({"edit"}) :
             work[w].positions = work[w].seen \/ AcceptedCount <= work[w].positions
        /\ \A w \in InFlight(Accepting) :
             /\ AcceptedCount < positions
             /\ \A v \in InFlight(Accepting \cup {"edit"}) : v = w

\* What an acceptance read of the places, and found after its flush, is still so
\* when it commits; no decision in flight is about somebody who is accepted.
FillingIsTrue ==
    lapses \cap {"places", "decisions"} = {} =>
        /\ status = "filled" => AcceptedCount = positions /\ InFlight({"edit"}) = {}
        /\ \A w \in InFlight({"accept"}) : work[w].positions = positions
        /\ \A w \in InFlight({"accepted"}) :
             work[w].fills => positions <= Cardinality(Accepted \cup {work[w].who})
        /\ \A w \in InFlight({"move"}) :
             /\ work[w].who \notin Accepted
             /\ \A v \in InFlight(Accepting) : work[v].who # work[w].who

CalmInv ==
    /\ IsFiniteSet(Accepted)
    /\ NoArrivalIsLate
    /\ PlacesAreCounted
    /\ FillingIsTrue

\* Two handlers that cross leave the lapse that fits what they do.
LEMMA CrossingFacts ==
    ASSUME NEW t, NEW u
    PROVE  /\ t.op \in {"apply"} /\ u.op \in Turning => "arrivals" \in Crossing(t, u)
           /\ u.op \in {"apply"} /\ t.op \in Turning => "arrivals" \in Crossing(t, u)
           /\ t.op \in Accepting /\ u.op \in Accepting \cup {"edit"} =>
                "places" \in Crossing(t, u)
           /\ u.op \in Accepting /\ t.op \in Accepting \cup {"edit"} =>
                "places" \in Crossing(t, u)
           /\ t.op \in Accepting /\ u.op = "move" /\ t.who = u.who =>
                "decisions" \in Crossing(t, u)
           /\ u.op \in Accepting /\ t.op = "move" /\ t.who = u.who =>
                "decisions" \in Crossing(t, u)
BY DEF Crossing, Accepting, Turning

\* A lapse that is not there after a handler began was not there before, and the
\* handler crossed nobody in that way.
LEMMA BeginFacts ==
    ASSUME IInv, NEW w \in Workers, NEW t, Begin(w, t)
    PROVE  /\ work[w] = Idle /\ work'[w] = t
           /\ \A v \in Workers : v # w => work'[v] = work[v]
           /\ lapses \subseteq lapses'
           /\ \A v \in Workers, l \in Lapses : l \in Crossing(t, work[v]) => l \in lapses'
           /\ UNCHANGED <<openingVars, applicationVars>>
BY DEF Begin, IInv, TypeOK

\* Accepting one more person adds one to the count, or none.
LEMMA AcceptedAfterMove ==
    ASSUME IInv, NEW a \in Applicants, NEW new \in ApplicationStatus, Moves(a, new)
    PROVE  /\ new = "accepted" => Accepted' = Accepted \cup {a}
           /\ new # "accepted" => Accepted' = Accepted \ {a}
<1>1. application' = [application EXCEPT ![a] = new]
  BY DEF Moves
<1> QED BY <1>1 DEF Accepted, IInv, TypeOK

LEMMA CountFacts ==
    ASSUME IsFiniteSet(Accepted), NEW a
    PROVE  /\ AcceptedCount \in Nat
           /\ IsFiniteSet(Accepted \cup {a}) /\ IsFiniteSet(Accepted \ {a})
           /\ Cardinality(Accepted \cup {a}) \in Nat
           /\ Cardinality(Accepted \cup {a}) <= AcceptedCount + 1
           /\ Cardinality(Accepted \ {a}) \in Nat
           /\ Cardinality(Accepted \ {a}) <= AcceptedCount
<1>1. /\ IsFiniteSet(Accepted \cup {a})
      /\ Cardinality(Accepted \cup {a}) =
           IF a \in Accepted THEN Cardinality(Accepted) ELSE Cardinality(Accepted) + 1
  BY FS_AddElement
<1>2. /\ IsFiniteSet(Accepted \ {a})
      /\ Cardinality(Accepted \ {a}) =
           IF a \in Accepted THEN Cardinality(Accepted) - 1 ELSE Cardinality(Accepted)
  BY FS_RemoveElement
<1>3. Cardinality(Accepted) \in Nat /\ Cardinality(Accepted \ {a}) \in Nat
  BY <1>2, FS_CardinalityType
<1> QED BY <1>1, <1>2, <1>3 DEF AcceptedCount

LEMMA InitCalm == Init => CalmInv
<1> SUFFICES ASSUME Init PROVE CalmInv
  OBVIOUS
<1>1. Accepted = {}
  BY NoRowAssumption DEF Init, Accepted, ApplicationStatus
<1>2. IsFiniteSet(Accepted) /\ AcceptedCount = 0
  BY <1>1, FS_EmptySet DEF AcceptedCount
<1>3. \A ops : "idle" \notin ops => InFlight(ops) = {}
  BY DEF Init, InFlight, Idle
<1>4. NoArrivalIsLate /\ FillingIsTrue
  BY <1>3 DEF Init, NoArrivalIsLate, FillingIsTrue
<1>5. PlacesAreCounted
  BY <1>2, <1>3, BoundsAssumption DEF Init, PlacesAreCounted, Accepting
<1> QED BY <1>2, <1>4, <1>5 DEF CalmInv

\* A handler that begins on what is true now keeps the promises it does not end.
LEMMA BeginCalm ==
    ASSUME IInv, CalmInv, NEW w \in Workers, NEW t, Begin(w, t),
           t.op # "accepted",
           t.op = "apply" => status = "open",
           t.op = "edit" =>
               status # "filled" /\ (t.positions = t.seen \/ AcceptedCount <= t.positions),
           t.op = "accept" => AcceptedCount < positions /\ t.positions = positions,
           t.op = "move" => t.who \notin Accepted
    PROVE  CalmInv'
<1> USE DEF openingVars, applicationVars
<1>1. /\ work[w] = Idle /\ work'[w] = t
      /\ \A v \in Workers : v # w => work'[v] = work[v]
      /\ lapses \subseteq lapses'
      /\ \A v \in Workers, l \in Lapses : l \in Crossing(t, work[v]) => l \in lapses'
      /\ UNCHANGED <<openingVars, applicationVars>>
  BY BeginFacts
<1>2. Accepted' = Accepted /\ AcceptedCount' = AcceptedCount
  BY <1>1 DEF Accepted, AcceptedCount
<1>3. {"places", "decisions", "arrivals"} \subseteq Lapses
  BY DEF Lapses
<1>4. NoArrivalIsLate'
  <2> SUFFICES ASSUME "arrivals" \notin lapses', NEW v \in Workers, work'[v].op = "apply"
               PROVE  status' = "open" /\ \A u \in Workers : work'[u].op \notin Turning
    BY DEF NoArrivalIsLate, InFlight
  <2>1. \A u \in Workers : work[u].op = "apply" =>
             status = "open" /\ \A x \in Workers : work[x].op \notin Turning
    BY <1>1 DEF CalmInv, NoArrivalIsLate, InFlight
  <2>2. "idle" \notin Turning /\ "apply" \notin Turning
    BY DEF Turning, Accepting
  <2>3. CASE v = w
    <3>1. \A u \in Workers : work[u].op \notin Turning
      BY <1>1, <1>3, <2>3, CrossingFacts
    <3> QED BY <1>1, <2>2, <2>3, <3>1
  <2>4. CASE v # w
    <3>1. t.op \notin Turning
      BY <1>1, <1>3, <2>4, CrossingFacts
    <3> QED BY <1>1, <2>1, <2>4, <3>1
  <2> QED BY <2>3, <2>4
<1>5. PlacesAreCounted'
  <2> SUFFICES ASSUME "places" \notin lapses' PROVE PlacesAreCounted'
    BY DEF PlacesAreCounted
  <2>1. "places" \notin lapses /\ AcceptedCount <= positions
    BY <1>1 DEF CalmInv, PlacesAreCounted
  <2>2. ASSUME NEW v \in Workers, work'[v].op = "edit"
        PROVE  work'[v].positions = work'[v].seen \/ AcceptedCount <= work'[v].positions
    BY <1>1, <2>1, <2>2 DEF CalmInv, PlacesAreCounted, InFlight
  <2>3. ASSUME NEW v \in Workers, work'[v].op \in Accepting PROVE AcceptedCount < positions
    BY <1>1, <2>1, <2>3 DEF CalmInv, PlacesAreCounted, InFlight, Accepting
  <2>4. ASSUME NEW v \in Workers, work'[v].op \in Accepting,
               NEW u \in Workers, work'[u].op \in Accepting \cup {"edit"}
        PROVE  u = v
    <3>1. CASE u # w /\ v # w
      BY <1>1, <2>1, <2>4, <3>1 DEF CalmInv, PlacesAreCounted, InFlight
    <3>2. CASE u = w /\ v # w
      BY <1>1, <1>3, <2>4, <3>2, CrossingFacts
    <3>3. CASE u # w /\ v = w
      BY <1>1, <1>3, <2>4, <3>3, CrossingFacts
    <3> QED BY <3>1, <3>2, <3>3
  <2> QED BY <1>1, <1>2, <2>1, <2>2, <2>3, <2>4 DEF PlacesAreCounted, InFlight
<1>6. FillingIsTrue'
  <2> SUFFICES ASSUME lapses' \cap {"places", "decisions"} = {} PROVE FillingIsTrue'
    BY DEF FillingIsTrue
  <2>1. lapses \cap {"places", "decisions"} = {}
    BY <1>1
  <2>2. status = "filled" => AcceptedCount = positions /\ \A v \in Workers : work'[v].op # "edit"
    BY <1>1, <2>1 DEF CalmInv, FillingIsTrue, InFlight
  <2>3. ASSUME NEW v \in Workers, work'[v].op = "accept" PROVE work'[v].positions = positions
    BY <1>1, <2>1, <2>3 DEF CalmInv, FillingIsTrue, InFlight
  <2>4. ASSUME NEW v \in Workers, work'[v].op = "accepted", work'[v].fills
        PROVE  positions <= Cardinality(Accepted \cup {work'[v].who})
    BY <1>1, <2>1, <2>4 DEF CalmInv, FillingIsTrue, InFlight
  <2>5. ASSUME NEW v \in Workers, work'[v].op = "move" PROVE work'[v].who \notin Accepted
    BY <1>1, <2>1, <2>5 DEF CalmInv, FillingIsTrue, InFlight
  <2>6. ASSUME NEW v \in Workers, work'[v].op = "move", NEW u \in Workers,
               work'[u].op \in Accepting
        PROVE  work'[u].who # work'[v].who
    <3>1. u # v
      BY <2>6 DEF Accepting
    <3>2. CASE u # w /\ v # w
      BY <1>1, <2>1, <2>6, <3>2 DEF CalmInv, FillingIsTrue, InFlight
    <3>3. CASE u = w /\ v # w
      <4>1. work'[u] = t /\ work'[v] = work[v] /\ "decisions" \notin Crossing(t, work[v])
        BY <1>1, <1>3, <3>3
      <4> QED BY <2>6, <4>1, CrossingFacts
    <3>4. CASE u # w /\ v = w
      <4>1. work'[v] = t /\ work'[u] = work[u] /\ "decisions" \notin Crossing(t, work[u])
        BY <1>1, <1>3, <3>4
      <4> QED BY <2>6, <4>1, CrossingFacts
    <3> QED BY <3>1, <3>2, <3>3, <3>4
  <2> QED BY <1>1, <1>2, <2>2, <2>3, <2>4, <2>5, <2>6 DEF FillingIsTrue, InFlight
<1> QED BY <1>2, <1>4, <1>5, <1>6 DEF CalmInv

\* A step that leaves the places, the status and who is accepted as they are.
LEMMA EndCalm ==
    ASSUME IInv, CalmInv, positions' = positions, Accepted' = Accepted,
           lapses \subseteq lapses',
           \A v \in Workers : work'[v] = work[v] \/ work'[v] = Idle,
           status' = status \/ (status' # "filled" /\ InFlight(Turning) # {})
    PROVE  CalmInv'
<1>1. AcceptedCount' = AcceptedCount
  BY DEF AcceptedCount
<1>2. \A v \in Workers : work'[v].op # "idle" => work'[v] = work[v]
  BY DEF Idle
<1>3. \A ops : "idle" \notin ops => \A v \in InFlight(ops)' : v \in InFlight(ops) /\ work'[v] = work[v]
  BY <1>2 DEF InFlight
<1>4. "idle" \notin Turning /\ "idle" \notin Accepting
  BY DEF Turning, Accepting
<1>5. NoArrivalIsLate'
  BY <1>3, <1>4 DEF CalmInv, NoArrivalIsLate
<1>6. PlacesAreCounted'
  BY <1>1, <1>3, <1>4 DEF CalmInv, PlacesAreCounted
<1>7. FillingIsTrue'
  <2> SUFFICES ASSUME lapses' \cap {"places", "decisions"} = {} PROVE FillingIsTrue'
    BY DEF FillingIsTrue
  <2>1. lapses \cap {"places", "decisions"} = {}
    OBVIOUS
  <2> QED BY <1>1, <1>3, <1>4, <2>1 DEF CalmInv, FillingIsTrue
<1> QED BY <1>5, <1>6, <1>7 DEF CalmInv

LEMMA EditCommitCalm ==
    ASSUME IInv, CalmInv, NEW w \in Workers, EditCommit(w)
    PROVE  CalmInv'
<1> USE DEF openingVars, applicationVars
<1>1. /\ work[w] \in EditWork /\ work[w].op = "edit" /\ lapses' = lapses /\ status' = status
      /\ positions' = IF work[w].positions = work[w].seen THEN positions ELSE work[w].positions
      /\ work'[w] = Idle /\ \A v \in Workers : v # w => work'[v] = work[v]
  BY WorkShape DEF EditCommit, End, IInv, TypeOK
<1>2. Accepted' = Accepted /\ AcceptedCount' = AcceptedCount
  BY DEF EditCommit, Accepted, AcceptedCount
<1>3. \A ops : "idle" \notin ops =>
          \A v \in InFlight(ops)' : v \in InFlight(ops) /\ work'[v] = work[v] /\ v # w
  BY <1>1 DEF InFlight, Idle
<1>4. "idle" \notin Turning /\ "idle" \notin Accepting
  BY DEF Turning, Accepting
<1>5. NoArrivalIsLate'
  BY <1>1, <1>3, <1>4 DEF CalmInv, NoArrivalIsLate
<1>6. "places" \notin lapses => \A v \in InFlight(Accepting) : FALSE
  <2> SUFFICES ASSUME "places" \notin lapses, NEW v \in InFlight(Accepting) PROVE FALSE
    OBVIOUS
  <2>1. w \in InFlight(Accepting \cup {"edit"})
    BY <1>1 DEF InFlight
  <2>2. v = w
    BY <2>1 DEF CalmInv, PlacesAreCounted
  <2> QED BY <1>1, <2>2 DEF InFlight, Accepting
<1>7. PlacesAreCounted'
  <2> SUFFICES ASSUME "places" \notin lapses PROVE PlacesAreCounted'
    BY <1>1 DEF PlacesAreCounted
  <2>1. AcceptedCount' <= positions'
    <3>1. w \in InFlight({"edit"})
      BY <1>1 DEF InFlight
    <3> QED BY <1>1, <1>2, <3>1 DEF CalmInv, PlacesAreCounted
  <2> QED BY <1>1, <1>2, <1>3, <1>4, <1>6, <2>1 DEF CalmInv, PlacesAreCounted
<1>8. FillingIsTrue'
  <2> SUFFICES ASSUME lapses \cap {"places", "decisions"} = {} PROVE FillingIsTrue'
    BY <1>1 DEF FillingIsTrue
  <2>1. status # "filled"
    BY <1>1 DEF CalmInv, FillingIsTrue, InFlight
  <2>2. InFlight(Accepting)' = {} /\ InFlight({"accept"})' = {} /\ InFlight({"accepted"})' = {}
    <3>1. \A v \in Workers : work[v].op \notin Accepting
      BY <1>6 DEF InFlight
    <3> QED BY <1>1, <1>4, <3>1 DEF InFlight, Accepting, Idle
  <2>3. \A v \in InFlight({"move"})' : work'[v].who \notin Accepted
    BY <1>3 DEF CalmInv, FillingIsTrue
  <2> QED BY <1>1, <1>2, <2>1, <2>2, <2>3 DEF FillingIsTrue
<1> QED BY <1>2, <1>5, <1>7, <1>8 DEF CalmInv

LEMMA MoveCommitCalm ==
    ASSUME IInv, CalmInv, NEW w \in Workers, MoveCommit(w)
    PROVE  CalmInv'
<1> USE DEF openingVars, applicationVars
<1>1. PICK a \in Applicants, new \in ApplicationStatus :
         a = work[w].who /\ new = work[w].target /\ work[w].op = "move"
  BY WorkShape DEF MoveCommit, IInv, TypeOK, MoveWork
<1>2. Moves(a, new) /\ new # "accepted"
  BY <1>1 DEF MoveCommit, IInv, WorkStillTrue, StillTrue
<1>3. Accepted' = Accepted \ {a}
  BY <1>2, AcceptedAfterMove
<1>4. IsFiniteSet(Accepted)' /\ AcceptedCount' \in Nat /\ AcceptedCount \in Nat
      /\ AcceptedCount' <= AcceptedCount
  BY <1>3, CountFacts DEF CalmInv, AcceptedCount
<1>5. /\ lapses' = lapses /\ status' = status /\ positions' = positions
      /\ \A v \in Workers : work'[v] = work[v] \/ work'[v] = Idle
  BY EndFacts DEF MoveCommit, IInv
<1>6. \A ops : "idle" \notin ops => \A v \in InFlight(ops)' : v \in InFlight(ops) /\ work'[v] = work[v]
  BY <1>5 DEF InFlight, Idle
<1>7. "idle" \notin Turning /\ "idle" \notin Accepting
  BY DEF Turning, Accepting
<1>8. NoArrivalIsLate'
  BY <1>5, <1>6, <1>7 DEF CalmInv, NoArrivalIsLate
<1>9. PlacesAreCounted'
  <2> SUFFICES ASSUME "places" \notin lapses PROVE PlacesAreCounted'
    BY <1>5 DEF PlacesAreCounted
  <2>1. positions \in Nat
    BY BoundsAssumption DEF IInv, TypeOK
  <2>2. AcceptedCount' <= positions'
    BY <1>4, <1>5, <2>1 DEF CalmInv, PlacesAreCounted
  <2>3. ASSUME NEW v \in InFlight({"edit"})'
        PROVE  work'[v].positions = work'[v].seen \/ AcceptedCount' <= work'[v].positions
    <3>1. v \in InFlight({"edit"}) /\ work'[v] = work[v] /\ work[v] \in EditWork
      BY <1>6, WorkShape DEF InFlight, IInv, TypeOK
    <3>2. work[v].positions \in Nat
      BY <3>1, BoundsAssumption DEF EditWork
    <3> QED BY <1>4, <3>1, <3>2 DEF CalmInv, PlacesAreCounted
  <2>4. ASSUME NEW v \in InFlight(Accepting)'
        PROVE  /\ AcceptedCount' < positions'
               /\ \A u \in InFlight(Accepting \cup {"edit"})' : u = v
    <3>1. v \in InFlight(Accepting) /\ AcceptedCount < positions
      BY <1>6, <1>7 DEF CalmInv, PlacesAreCounted
    <3>2. \A u \in InFlight(Accepting \cup {"edit"}) : u = v
      BY <3>1 DEF CalmInv, PlacesAreCounted
    <3>3. \A u \in InFlight(Accepting \cup {"edit"})' : u = v
      BY <1>6, <1>7, <3>2
    <3> QED BY <1>4, <1>5, <2>1, <3>1, <3>3
  <2> QED BY <2>2, <2>3, <2>4 DEF PlacesAreCounted
<1>10. FillingIsTrue'
  <2> SUFFICES ASSUME lapses \cap {"places", "decisions"} = {} PROVE FillingIsTrue'
    BY <1>5 DEF FillingIsTrue
  <2>1. Accepted' = Accepted
    BY <1>1, <1>3 DEF CalmInv, FillingIsTrue, InFlight
  <2>2. CalmInv'
    BY <1>5, <2>1, EndCalm
  <2> QED BY <2>2 DEF CalmInv
<1> QED BY <1>4, <1>8, <1>9, <1>10 DEF CalmInv

LEMMA AcceptFlushCalm ==
    ASSUME IInv, CalmInv, NEW w \in Workers, AcceptFlush(w)
    PROVE  CalmInv'
<1> USE DEF openingVars, applicationVars
<1>1. /\ work[w].op = "accept" /\ work'[w].op = "accepted" /\ work'[w].who = work[w].who
      /\ work'[w].fills = Fills(work[w].who, work[w].status, work[w].positions)
      /\ \A v \in Workers : v # w => work'[v] = work[v]
  BY DEF AcceptFlush, IInv, TypeOK
<1>2. /\ lapses' = lapses /\ status' = status /\ positions' = positions
      /\ Accepted' = Accepted /\ AcceptedCount' = AcceptedCount
  BY DEF AcceptFlush, Accepted, AcceptedCount
<1>3. /\ InFlight(Accepting)' = InFlight(Accepting)
      /\ InFlight(Accepting \cup {"edit"})' = InFlight(Accepting \cup {"edit"})
      /\ InFlight(Turning)' = InFlight(Turning)
      /\ InFlight({"edit"})' = InFlight({"edit"})
      /\ InFlight({"move"})' = InFlight({"move"})
      /\ InFlight({"apply"})' = InFlight({"apply"})
  BY <1>1 DEF InFlight, Accepting, Turning
<1>4. \A v \in InFlight({"edit", "move", "apply"}) : work'[v] = work[v]
  BY <1>1 DEF InFlight
<1>5. NoArrivalIsLate'
  BY <1>2, <1>3 DEF CalmInv, NoArrivalIsLate
<1>6. PlacesAreCounted'
  BY <1>2, <1>3, <1>4 DEF CalmInv, PlacesAreCounted, InFlight
<1>7. FillingIsTrue'
  <2> SUFFICES ASSUME lapses \cap {"places", "decisions"} = {} PROVE FillingIsTrue'
    BY <1>2 DEF FillingIsTrue
  <2>1. status = "filled" => AcceptedCount = positions /\ InFlight({"edit"})' = {}
    BY <1>3 DEF CalmInv, FillingIsTrue
  <2>2. \A v \in InFlight({"accept"})' : work'[v].positions = positions
    BY <1>1 DEF CalmInv, FillingIsTrue, InFlight
  <2>3. ASSUME NEW v \in InFlight({"accepted"})', work'[v].fills
        PROVE  positions <= Cardinality(Accepted \cup {work'[v].who})
    <3>1. CASE v = w
      <4>1. work[w].positions = positions
        BY <1>1 DEF CalmInv, FillingIsTrue, InFlight
      <4>2. positions \in Nat
        BY BoundsAssumption DEF IInv, TypeOK
      <4>3. Cardinality(Accepted \cup {work[w].who}) \in Nat
        BY CountFacts DEF CalmInv
      <4> QED BY <1>1, <2>3, <3>1, <4>1, <4>2, <4>3 DEF Fills
    <3>2. CASE v # w
      BY <1>1, <2>3, <3>2 DEF CalmInv, FillingIsTrue, InFlight
    <3> QED BY <3>1, <3>2
  <2>4. ASSUME NEW v \in InFlight({"move"})'
        PROVE  work'[v].who \notin Accepted
               /\ \A u \in InFlight(Accepting)' : work'[u].who # work'[v].who
    <3>1. v \in InFlight({"move"}) /\ work'[v] = work[v]
      BY <1>3, <1>4 DEF InFlight
    <3>2. \A u \in InFlight(Accepting)' : u \in InFlight(Accepting) /\ work'[u].who = work[u].who
      BY <1>1, <1>3 DEF InFlight
    <3> QED BY <3>1, <3>2 DEF CalmInv, FillingIsTrue
  <2> QED BY <1>2, <2>1, <2>2, <2>3, <2>4 DEF FillingIsTrue
<1> QED BY <1>2, <1>5, <1>6, <1>7 DEF CalmInv

LEMMA AcceptCommitCalm ==
    ASSUME IInv, CalmInv, NEW w \in Workers, AcceptCommit(w)
    PROVE  CalmInv'
<1> USE DEF openingVars, applicationVars
<1>1. PICK a \in Applicants : a = work[w].who /\ work[w].op = "accepted"
  BY WorkShape DEF AcceptCommit, IInv, TypeOK, AcceptedWork
<1>2. Accepted' = Accepted \cup {a}
  <2>1. Moves(a, "accepted") /\ "accepted" \in ApplicationStatus
    BY <1>1 DEF AcceptCommit, ApplicationStatus
  <2> QED BY <2>1, AcceptedAfterMove
<1>3. IsFiniteSet(Accepted)' /\ AcceptedCount' \in Nat /\ AcceptedCount \in Nat
      /\ AcceptedCount' <= AcceptedCount + 1
  BY <1>2, CountFacts DEF CalmInv, AcceptedCount
<1>4. positions' = positions /\ positions \in Nat
  BY BoundsAssumption DEF AcceptCommit, IInv, TypeOK
<1>5. /\ work'[w] = Idle
      /\ \A v \in Workers : v # w => work'[v] = work[v]
      /\ lapses \subseteq lapses'
      /\ status' = IF work[w].fills THEN "filled" ELSE status
  BY DEF AcceptCommit, End, AnnounceClosed, WithdrawNotice, IInv, TypeOK
<1>6. \A ops : "idle" \notin ops =>
          \A v \in InFlight(ops)' : v \in InFlight(ops) /\ work'[v] = work[v] /\ v # w
  BY <1>5 DEF InFlight, Idle
<1>7. "idle" \notin Turning /\ "idle" \notin Accepting /\ w \in InFlight(Turning)
      /\ w \in InFlight(Accepting)
  BY <1>1 DEF Turning, Accepting, InFlight
<1>8. NoArrivalIsLate'
  BY <1>5, <1>6, <1>7 DEF CalmInv, NoArrivalIsLate
<1>9. ASSUME "places" \notin lapses
      PROVE  /\ AcceptedCount < positions
             /\ InFlight(Accepting \cup {"edit"})' = {}
             /\ InFlight(Accepting)' = {} /\ InFlight({"edit"})' = {}
             /\ InFlight({"accept"})' = {} /\ InFlight({"accepted"})' = {}
  <2>1. AcceptedCount < positions /\ \A v \in InFlight(Accepting \cup {"edit"}) : v = w
    BY <1>7, <1>9 DEF CalmInv, PlacesAreCounted
  <2>2. InFlight(Accepting \cup {"edit"})' = {}
    BY <1>6, <1>7, <2>1
  <2> QED BY <2>1, <2>2 DEF InFlight, Accepting
<1>10. PlacesAreCounted'
  BY <1>3, <1>4, <1>5, <1>9 DEF PlacesAreCounted
<1>11. FillingIsTrue'
  <2> SUFFICES ASSUME lapses' \cap {"places", "decisions"} = {} PROVE FillingIsTrue'
    BY DEF FillingIsTrue
  <2>1. lapses \cap {"places", "decisions"} = {} /\ "places" \notin lapses
    BY <1>5
  <2>2. status # "filled"
    BY <1>3, <1>4, <1>9, <2>1 DEF CalmInv, FillingIsTrue
  <2>3. work[w].fills => AcceptedCount' = positions
    <3>1. work[w].fills => positions <= AcceptedCount'
      BY <1>1, <1>2, <2>1 DEF CalmInv, FillingIsTrue, InFlight, AcceptedCount
    <3> QED BY <1>3, <1>4, <1>9, <2>1, <3>1
  <2>4. \A v \in InFlight({"move"})' : work'[v].who \notin Accepted'
    <3> SUFFICES ASSUME NEW v \in InFlight({"move"})' PROVE work'[v].who \notin Accepted'
      OBVIOUS
    <3>1. v \in InFlight({"move"}) /\ work'[v] = work[v]
      BY <1>6
    <3>2. work[v].who \notin Accepted /\ a # work[v].who
      BY <1>1, <1>7, <2>1, <3>1 DEF CalmInv, FillingIsTrue
    <3> QED BY <1>2, <3>1, <3>2
  <2> QED BY <1>4, <1>5, <1>9, <2>1, <2>2, <2>3, <2>4 DEF FillingIsTrue
<1> QED BY <1>3, <1>8, <1>10, <1>11 DEF CalmInv

\* The handlers' reads: each begins on what is committed now.
LEMMA LoadCalm ==
    ASSUME IInv, CalmInv, NEW w \in Workers,
           \/ PublishLoad(w) \/ HideLoad(w)
           \/ \E by \in {"owner", "coordinator", "admin"} : CloseLoad(w, by)
           \/ \E n \in 1..MaxPositions, extend \in BOOLEAN : EditLoad(w, n, extend)
           \/ \E a \in Applicants :
                \/ ApplyLoad(w, a) \/ WithdrawLoad(w, a)
                \/ \E target \in ApplicationStatus : DecideLoad(w, a, target)
                \/ \E add \in BOOLEAN : AcceptLoad(w, a, add)
    PROVE  CalmInv'
<1>1. CASE PublishLoad(w)
  BY <1>1, BeginCalm DEF PublishLoad
<1>2. CASE HideLoad(w)
  BY <1>2, BeginCalm DEF HideLoad
<1>3. ASSUME NEW by, CloseLoad(w, by) PROVE CalmInv'
  BY <1>3, BeginCalm DEF CloseLoad
<1>4. ASSUME NEW n \in 1..MaxPositions, NEW extend \in BOOLEAN, EditLoad(w, n, extend)
      PROVE  CalmInv'
  <2> DEFINE t == [op |-> "edit", seen |-> positions, positions |-> n, extend |-> extend]
  <2>1. Begin(w, t) /\ status # "filled" /\ (n = positions \/ n >= AcceptedCount)
    BY <1>4 DEF EditLoad, MayAskFor
  <2>2. AcceptedCount \in Nat /\ n \in Nat
    <3>1. AcceptedCount \in Nat
      BY CountFacts DEF CalmInv
    <3> QED BY <3>1, BoundsAssumption
  <2>3. t.positions = t.seen \/ AcceptedCount <= t.positions
    BY <2>1, <2>2
  <2> QED BY <2>1, <2>3, BeginCalm
<1>5. ASSUME NEW a \in Applicants, ApplyLoad(w, a) PROVE CalmInv'
  BY <1>5, BeginCalm DEF ApplyLoad, TakesApplications
<1>6. ASSUME NEW a \in Applicants, NEW target \in ApplicationStatus,
             NEW actor, AssertTransition(a, target, actor),
             Begin(w, [op |-> "move", who |-> a, target |-> target])
      PROVE  CalmInv'
  <2> DEFINE t == [op |-> "move", who |-> a, target |-> target]
  <2>1. application[a] # "accepted"
    BY <1>6 DEF AssertTransition, ApplicationTransitions
  <2>2. t.op = "move" /\ t.who \notin Accepted
    BY <2>1 DEF Accepted
  <2> QED BY <1>6, <2>2, BeginCalm
<1>7. ASSUME NEW a \in Applicants, NEW target \in ApplicationStatus, DecideLoad(w, a, target)
      PROVE  CalmInv'
  BY <1>6, <1>7 DEF DecideLoad
<1>8. ASSUME NEW a \in Applicants, WithdrawLoad(w, a) PROVE CalmInv'
  BY <1>6, <1>8 DEF WithdrawLoad, ApplicationStatus
<1>9. ASSUME NEW a \in Applicants, NEW add \in BOOLEAN, AcceptLoad(w, a, add) PROVE CalmInv'
  BY <1>9, BeginCalm DEF AcceptLoad, PlaceLeft
<1> QED BY <1>1, <1>2, <1>3, <1>4, <1>5, <1>7, <1>8, <1>9

\* The commits that turn the opening, an arrival, and what happens beside the handlers.
LEMMA TurnCalm ==
    ASSUME IInv, CalmInv, NEW w \in Workers,
           PublishCommit(w) \/ CloseCommit(w) \/ HideCommit(w)
    PROVE  CalmInv'
<1>1. w \in InFlight(Turning)
  BY DEF InFlight, Turning, PublishCommit, CloseCommit, HideCommit
<1>2. status' # "filled" /\ positions' = positions /\ Accepted' = Accepted
  BY DEF PublishCommit, CloseCommit, HideCommit, Accepted, applicationVars
<1>3. lapses \subseteq lapses' /\ End(w)
  BY DEF PublishCommit, CloseCommit, HideCommit, RaiseNotice, AnnounceClosed, WithdrawNotice
<1> QED BY <1>1, <1>2, <1>3, EndFacts, EndCalm DEF IInv

LEMMA ApplyCommitCalm ==
    ASSUME IInv, CalmInv, NEW w \in Workers, ApplyCommit(w)
    PROVE  CalmInv'
<1>1. PICK a \in Applicants : a = work[w].who
  BY WorkShape DEF ApplyCommit, IInv, TypeOK, ApplyWork
<1>2. Moves(a, "submitted") /\ "submitted" \in ApplicationStatus /\ application[a] = NoRow
  BY <1>1 DEF ApplyCommit, ApplicationStatus
<1>3. Accepted' = Accepted \ {a}
  BY <1>2, AcceptedAfterMove
<1>4. a \notin Accepted
  BY <1>2, NoRowAssumption DEF Accepted, ApplicationStatus
<1>5. Accepted' = Accepted
  BY <1>3, <1>4
<1> QED BY <1>5, EndFacts, EndCalm DEF ApplyCommit, IInv, openingVars

LEMMA OtherStepsCalm ==
    ASSUME IInv, CalmInv,
           \/ \E w \in Workers : \/ Rollback(w)
                                \/ \E a \in Applicants : AddMember(w, a) \/ RemoveMember(w, a)
           \/ ModerateNotice \/ DeadlinePasses \/ ProjectEnds
           \/ UNCHANGED vars
    PROVE  CalmInv'
<1> USE DEF openingVars, applicationVars
<1>1. positions' = positions /\ status' = status /\ application' = application
      /\ lapses \subseteq lapses'
  BY DEF Rollback, AddMember, RemoveMember, ModerateNotice, DeadlinePasses, ProjectEnds, vars
<1>2. \A v \in Workers : work'[v] = work[v] \/ work'[v] = Idle
  BY EndFacts
  DEF IInv, Rollback, AddMember, RemoveMember, ModerateNotice, DeadlinePasses, ProjectEnds, vars
<1>3. Accepted' = Accepted
  BY <1>1 DEF Accepted
<1> QED BY <1>1, <1>2, <1>3, EndCalm

LEMMA NextCalm == IInv /\ CalmInv /\ [Next]_vars => CalmInv'
<1> SUFFICES ASSUME IInv, CalmInv, [Next]_vars PROVE CalmInv'
  OBVIOUS
<1>1. ASSUME NEW w \in Workers, Handler(w) PROVE CalmInv'
  BY <1>1, LoadCalm, TurnCalm, EditCommitCalm, ApplyCommitCalm, MoveCommitCalm,
     AcceptFlushCalm, AcceptCommitCalm, OtherStepsCalm
  DEF Handler
<1>2. CASE ModerateNotice \/ DeadlinePasses \/ ProjectEnds \/ UNCHANGED vars
  BY <1>2, OtherStepsCalm
<1> QED BY <1>1, <1>2 DEF Next

THEOREM CalmInductive == Spec => []CalmInv
<1>1. Spec => []IInv
  BY Inductive
<1> QED BY <1>1, InitCalm, NextCalm, PTL DEF Spec

LEMMA CalmKeepsPlaces == CalmInv => PlacesAreKept
BY DEF CalmInv, PlacesAreCounted, FillingIsTrue, PlacesAreKept, NeverOverbooked,
   FilledIsFull

\* Nobody is accepted without a place, and FILLED means that every place is taken,
\* for as long as no two handlers settle places, or one application, at once.
THEOREM PlacesAreNotOverbooked == Spec => []PlacesAreKept
BY CalmKeepsPlaces, CalmInductive, PTL

\* An application arrives while the opening is open, unless its handler overlapped the
\* one that turned the opening.
THEOREM NobodyArrivesLate == Spec => AppliedWhileOpen
<1>1. IInv /\ CalmInv /\ [Next]_vars =>
        [\A a \in Applicants :
            application[a] = NoRow /\ application'[a] # NoRow =>
                status = "open" \/ "arrivals" \in lapses]_application
  <2> SUFFICES ASSUME IInv, CalmInv, [Next]_vars, NEW a \in Applicants,
                      application[a] = NoRow, application'[a] # NoRow,
                      "arrivals" \notin lapses
               PROVE  status = "open"
    OBVIOUS
  <2>1. ASSUME NEW w \in Workers, ApplyCommit(w) PROVE status = "open"
    BY <2>1 DEF ApplyCommit, CalmInv, NoArrivalIsLate, InFlight
  <2>2. ASSUME NEW w \in Workers, MoveCommit(w) \/ AcceptCommit(w) PROVE FALSE
    <3>1. PICK b \in Applicants : b = work[w].who /\ application[b] # NoRow
      <4>1. work[w].who \in Applicants
        BY <2>2, WorkShape DEF MoveCommit, AcceptCommit, IInv, TypeOK, MoveWork, AcceptedWork
      <4>2. application[work[w].who] # NoRow
        <5>1. work[w].op \in {"move", "accepted"} /\ StillTrue(work[w])
          BY <2>2 DEF MoveCommit, AcceptCommit, IInv, WorkStillTrue
        <5> QED BY <5>1 DEF StillTrue
      <4> QED BY <4>1, <4>2
    <3>2. a # b /\ application'[a] = application[a]
      BY <2>2, <3>1 DEF MoveCommit, AcceptCommit, Moves, IInv, TypeOK
    <3> QED BY <3>2
  <2>3. CASE application' = application
    BY <2>3
  <2> USE DEF openingVars, applicationVars
  <2>4. ASSUME NEW w \in Workers, Handler(w) PROVE status = "open"
    BY <2>1, <2>2, <2>3, <2>4
    DEF Handler, Begin, PublishLoad, PublishCommit, CloseLoad, CloseCommit, HideLoad, HideCommit,
        EditLoad, EditCommit, ApplyLoad, DecideLoad, WithdrawLoad, AcceptLoad, AcceptFlush,
        AddMember, RemoveMember, Rollback
  <2>5. CASE ModerateNotice \/ DeadlinePasses \/ ProjectEnds \/ UNCHANGED vars
    BY <2>3, <2>5 DEF ModerateNotice, DeadlinePasses, ProjectEnds, vars
  <2> QED BY <2>4, <2>5 DEF Next
<1>2. Spec => []IInv /\ []CalmInv
  BY Inductive, CalmInductive
<1> QED BY <1>1, <1>2, PTL DEF Spec, AppliedWhileOpen

\* The board carries a published notice only of an open opening, unless a savepoint
\* failed, the opening was closed over a report, or two handlers turned it at once.
THEOREM BoardIsTruthful == Spec => []BoardMatchesOpening
<1>1. Init => BoardMatchesOpening
  BY DEF Init, BoardMatchesOpening
<1>2. BoardMatchesOpening /\ [Next]_vars => BoardMatchesOpening'
  <2> SUFFICES ASSUME BoardMatchesOpening, [Next]_vars,
                      lapses' \cap {"status", "board", "hidden"} = {}, notice' = "published"
               PROVE  status' = "open"
    BY DEF BoardMatchesOpening
  <2> USE DEF openingVars, applicationVars
  <2>1. ASSUME NEW w \in Workers, Handler(w), status' # "open" PROVE FALSE
    <3>1. CASE PublishCommit(w)
      BY <2>1, <3>1 DEF PublishCommit
    <3>2. CASE CloseCommit(w)
      BY <3>2 DEF CloseCommit, AnnounceClosed, WithdrawNotice
    <3>3. CASE HideCommit(w)
      BY <3>3 DEF HideCommit
    <3>4. CASE AcceptCommit(w)
      BY <2>1, <3>4 DEF AcceptCommit, AnnounceClosed, WithdrawNotice, BoardMatchesOpening
    <3>5. CASE UNCHANGED <<status, notice>> /\ lapses \subseteq lapses'
      BY <2>1, <3>5 DEF BoardMatchesOpening
    <3> QED BY <2>1, <3>1, <3>2, <3>3, <3>4, <3>5
         DEF Handler, Begin, PublishLoad, CloseLoad, HideLoad, EditLoad, EditCommit, ApplyLoad,
             ApplyCommit, DecideLoad, WithdrawLoad, MoveCommit, AcceptLoad, AcceptFlush,
             AddMember, RemoveMember, Rollback
  <2>2. CASE ModerateNotice
    BY <2>2 DEF ModerateNotice, BoardMatchesOpening
  <2>3. CASE DeadlinePasses \/ ProjectEnds \/ UNCHANGED vars
    BY <2>3 DEF DeadlinePasses, ProjectEnds, vars, BoardMatchesOpening
  <2> QED BY <2>1, <2>2, <2>3 DEF Next
<1> QED BY <1>1, <1>2, PTL DEF Spec

=============================================================================
