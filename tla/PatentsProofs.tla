---------------------------- MODULE PatentsProofs ----------------------------
(***************************************************************************)
(* Proofs about Patents for any records, numbers, years and concurrent     *)
(* handlers.                                                               *)
(***************************************************************************)
EXTENDS Patents, TLAPS

\* What handler w has in hand, by the operation it is in.
LEMMA WorkShape ==
    ASSUME work \in [Workers -> Work], NEW w \in Workers
    PROVE  /\ work[w].op = "create" => work[w] \in CreateWork
           /\ work[w].op = "edit" => work[w] \in EditWork
           /\ work[w].op = "move" => work[w] \in MoveWork
           /\ work[w].op = "decide" => work[w] \in DecideWork
<1>1. work[w] \in Work
  OBVIOUS
<1>2. CASE work[w] = Idle
  BY <1>2 DEF Idle
<1>3. CASE work[w] \in CreateWork
  BY <1>3 DEF CreateWork
<1>4. CASE work[w] \in EditWork
  BY <1>4 DEF EditWork
<1>5. CASE work[w] \in MoveWork
  BY <1>5 DEF MoveWork
<1>6. CASE work[w] \in DecideWork
  BY <1>6 DEF DecideWork
<1> QED BY <1>1, <1>2, <1>3, <1>4, <1>5, <1>6 DEF Work

\* A row that exists is a typed row.
LEMMA RowShape ==
    ASSUME TypeOK, NEW p \in Records, patent[p] # NoRow
    PROVE  patent[p] \in Rows
BY DEF TypeOK

-----------------------------------------------------------------------------
(* The inductive invariant *)

Alive(p) == patent[p] # NoRow

\* A move in hand to a grant comes from a publication, one to a lapse from a
\* grant; columns are never unset, so what was read is still there.
MoveStillTrue(t) ==
    t.op = "move" /\ Alive(t.who) =>
        /\ t.target \in {"granted", "lapsed"} => "publication_date" \in patent[t.who].set
        /\ t.target = "lapsed" => "grant_date" \in patent[t.who].set
MovesStillTrue == \A w \in Workers : MoveStillTrue(work[w])

\* An edit and a decision in flight together have crossed.  If they have not,
\* the decision reads the text as it is and the edit has seen the approval.
CrossingIsKnown ==
    \A v, w \in Workers :
        work[v].op = "edit" /\ work[w].op = "decide" /\ work[v].who = work[w].who =>
            work[v].who \in crossed
DecisionStillTrue(t) ==
    t.op = "decide" /\ Alive(t.who) =>
        t.who \in crossed \/ t.version = patent[t.who].version
EditStillTrue(t) ==
    t.op = "edit" /\ Alive(t.who) /\ patent[t.who].verification = "verified" =>
        t.who \in crossed \/ t.seen = "verified"
ReviewsStillTrue == \A w \in Workers : DecisionStillTrue(work[w]) /\ EditStillTrue(work[w])

\* While a year's numbering has not lost its end, some row is numbered at or
\* above every docket given, and a given docket in somebody's hand is a row's.
Above(p, d) ==
    /\ Alive(p)
    /\ patent[p].docket # NoRow
    /\ patent[p].docket[1] = d[1]
    /\ d[2] <= patent[p].docket[2]
EndIsHeld == \A d \in given : d[1] \in rewound \/ \E p \in Records : Above(p, d)
NumberStillTrue(t) ==
    t.op = "create" /\ t.docket # NoRow /\ t.docket \in given =>
        t.docket[1] \in rewound \/ Taken(t.docket)
NumbersStillTrue == \A w \in Workers : NumberStillTrue(work[w])

Dates == OfficeDatesComplete /\ MovesStillTrue
Reviews == VerifiedAsRead /\ CrossingIsKnown /\ ReviewsStillTrue
Numbers == EndIsHeld /\ NumbersStillTrue

IInv == TypeOK /\ Dates /\ Reviews /\ Numbers

LEMMA InitInv == Init => IInv
<1> SUFFICES ASSUME Init PROVE IInv
  OBVIOUS
<1>1. TypeOK
  BY BoundsAssumption DEF Init, TypeOK, Work
<1>2. Dates
  BY DEF Init, Dates, OfficeDatesComplete, MovesStillTrue, MoveStillTrue, Idle
<1>3. Reviews
  BY DEF Init, Reviews, VerifiedAsRead, CrossingIsKnown, ReviewsStillTrue,
         DecisionStillTrue, EditStillTrue, Idle
<1>4. Numbers
  BY DEF Init, Numbers, EndIsHeld, NumbersStillTrue, NumberStillTrue, Idle
<1> QED BY <1>1, <1>2, <1>3, <1>4 DEF IInv

-----------------------------------------------------------------------------
(* Types *)

\* Every action keeps the types.
LEMMA TypeStep == TypeOK /\ [Next]_vars => TypeOK'
<1> SUFFICES ASSUME TypeOK, [Next]_vars PROVE TypeOK'
  OBVIOUS
<1> USE DEF TypeOK
<1>1. ASSUME NEW w \in Workers, NEW alreadyFiled \in BOOLEAN, CreateLoad(w, alreadyFiled)
      PROVE  TypeOK'
  <2>1. PICK d \in Dockets \cup {NoRow} : Begin(w, [op |-> "create", docket |-> d])
    BY <1>1 DEF CreateLoad
  <2>2. [op |-> "create", docket |-> d] \in Work
    BY DEF Work, CreateWork
  <2> QED BY <1>1, <2>1, <2>2 DEF CreateLoad, Begin
<1>2. ASSUME NEW w \in Workers, NEW p \in Records, NEW v \in InitialVerification(p),
             CreateCommit(w, p, v)
      PROVE  TypeOK'
  <2> DEFINE row == [status |-> EntryStatus(work[w].docket), docket |-> work[w].docket,
                     set |-> IF work[w].docket = NoRow THEN {"filing_date"} ELSE {},
                     verification |-> v, version |-> 0, checked |-> 0]
  <2>1. work[w].docket \in Dockets \cup {NoRow}
    BY <1>2, WorkShape DEF CreateCommit, CreateWork
  <2>2. row \in Rows
    BY <2>1, BoundsAssumption DEF Rows, EntryStatus, PatentStatus, BeforeTheOffice, Columns,
                InitialVerification, VerificationStatus
  <2>3. work' \in [Workers -> Work]
    BY <1>2 DEF CreateCommit, End, Work
  <2>4. patent' = [patent EXCEPT ![p] = row]
    BY <1>2 DEF CreateCommit
  <2>5. given' \subseteq Dockets /\ crossed' \subseteq Records
    BY <1>2, <2>1 DEF CreateCommit
  <2> HIDE DEF row
  <2> QED BY <1>2, <2>2, <2>3, <2>4, <2>5 DEF CreateCommit
<1>3. ASSUME NEW w \in Workers, NEW p \in Records, EditLoad(w, p)
      PROVE  TypeOK'
  <2>1. [op |-> "edit", who |-> p, seen |-> patent[p].verification] \in Work
    BY <1>3, RowShape DEF EditLoad, Work, EditWork, Rows
  <2> QED BY <1>3, <2>1 DEF EditLoad, Begin, Crosses
<1>4. ASSUME NEW w \in Workers, EditCommit(w)
      PROVE  TypeOK'
  <2>1. work[w].who \in Records
    BY <1>4, WorkShape DEF EditCommit, EditWork
  <2> DEFINE p == work[w].who
             row == [patent[p] EXCEPT !.version = patent[p].version + 1,
                                      !.verification = AfterEdit(patent[p], work[w].seen)]
  <2>2. patent[p] \in Rows
    BY <1>4, <2>1, RowShape DEF EditCommit
  <2>3. AfterEdit(patent[p], work[w].seen) \in VerificationStatus
    BY <2>2 DEF AfterEdit, Rows, VerificationStatus
  <2>4. patent[p].version + 1 \in 0..MaxVersion
    BY <1>4, <2>2, BoundsAssumption DEF EditCommit, Rows
  <2>5. row \in Rows
    BY <2>2, <2>3, <2>4 DEF Rows
  <2>6. patent' = [patent EXCEPT ![p] = row]
    BY <1>4 DEF EditCommit
  <2> HIDE DEF row
  <2> QED BY <1>4, <2>1, <2>5, <2>6 DEF EditCommit, End, Work
<1>5. ASSUME NEW w \in Workers, NEW p \in Records, NEW v \in {"verified", "rejected"},
             DecideLoad(w, p, v)
      PROVE  TypeOK'
  <2>1. [op |-> "decide", who |-> p, verdict |-> v, version |-> patent[p].version] \in Work
    BY <1>5, RowShape DEF DecideLoad, Work, DecideWork, Rows
  <2> QED BY <1>5, <2>1 DEF DecideLoad, Begin, Crosses
<1>6. ASSUME NEW w \in Workers, DecideCommit(w)
      PROVE  TypeOK'
  <2> DEFINE p == work[w].who
             row == [patent[p] EXCEPT !.verification = work[w].verdict,
                                      !.checked = work[w].version]
  <2>1. work[w] \in DecideWork
    BY <1>6, WorkShape DEF DecideCommit
  <2>2. patent[p] \in Rows
    BY <1>6, <2>1, RowShape DEF DecideCommit, DecideWork
  <2>3. row \in Rows
    BY <2>1, <2>2 DEF Rows, DecideWork, VerificationStatus
  <2>4. patent' = [patent EXCEPT ![p] = row]
    BY <1>6 DEF DecideCommit
  <2> HIDE DEF row
  <2> QED BY <1>6, <2>1, <2>3, <2>4 DEF DecideCommit, End, Work, DecideWork
<1>7. ASSUME NEW w \in Workers, NEW p \in Records, NEW target \in PatentStatus,
             NEW by \in {"inventor", "ip_cell"}, NEW sent \in SUBSET MayFill(target),
             MoveLoad(w, p, target, by, sent)
      PROVE  TypeOK'
  <2>1. sent \in SUBSET Columns
    BY DEF MayFill, Columns
  <2>2. [op |-> "move", who |-> p, target |-> target, sent |-> sent] \in Work
    BY <2>1 DEF Work, MoveWork
  <2> QED BY <1>7, <2>2 DEF MoveLoad, Begin
<1>8. ASSUME NEW w \in Workers, MoveCommit(w)
      PROVE  TypeOK'
  <2> DEFINE p == work[w].who
  <2>1. work[w] \in MoveWork
    BY <1>8, WorkShape DEF MoveCommit
  <2>2. patent[p] \in Rows
    BY <1>8, <2>1, RowShape DEF MoveCommit, MoveWork
  <2>3. Moved(patent[p], work[w].target, work[w].sent) \in Rows
    BY <2>1, <2>2 DEF Rows, MoveWork, Moved
  <2> QED BY <1>8, <2>1, <2>3 DEF MoveCommit, End, Work, MoveWork
<1>9. ASSUME NEW w \in Workers, NEW p \in Records, Delete(w, p)
      PROVE  TypeOK'
  <2>1. EndsItsYear(p) => patent[p].docket[1] \in Nat
    BY <1>9, RowShape, BoundsAssumption DEF Delete, EndsItsYear, Rows
  <2> QED BY <1>9, <2>1 DEF Delete
<1>10. ASSUME NEW w \in Workers, Rollback(w)
       PROVE  TypeOK'
  BY <1>10 DEF Rollback, End, Work
<1>11. CASE NewYear
  BY <1>11, BoundsAssumption DEF NewYear
<1>12. CASE UNCHANGED vars
  BY <1>12 DEF vars
<1> QED BY <1>1, <1>2, <1>3, <1>4, <1>5, <1>6, <1>7, <1>8, <1>9, <1>10, <1>11, <1>12
        DEF Next, Handler

\* Every variable always has its type.
THEOREM Typing == Spec => []TypeOK
<1>1. Init => TypeOK
  BY InitInv DEF IInv
<1> QED BY <1>1, TypeStep, PTL DEF Spec

-----------------------------------------------------------------------------
(* The dates of the office *)

\* A handler that begins or ends disturbs no row.
LEMMA DatesBegin ==
    ASSUME TypeOK, Dates, NEW w \in Workers, NEW t, MoveStillTrue(t),
           work' = [work EXCEPT ![w] = t], UNCHANGED patent
    PROVE  Dates'
<1>1. \A v \in Workers : work'[v] = t \/ work'[v] = work[v]
  BY DEF TypeOK
<1>2. MovesStillTrue'
  BY <1>1 DEF Dates, MovesStillTrue, MoveStillTrue, Alive
<1> QED BY <1>2 DEF Dates, OfficeDatesComplete

\* A commit that leaves the pipeline of its record where it is.
LEMMA DatesAside ==
    ASSUME TypeOK, Dates, NEW w \in Workers, work' = [work EXCEPT ![w] = Idle],
           NEW p \in Records, NEW row, patent' = [patent EXCEPT ![p] = row],
           Alive(p), row.status = patent[p].status, row.set = patent[p].set
    PROVE  Dates'
<1>1. \A v \in Workers : work'[v] = Idle \/ work'[v] = work[v]
  BY DEF TypeOK
<1>2. \A q : q \in Records => patent'[q] = patent[q] \/ (q = p /\ patent'[q] = row)
  BY DEF TypeOK
<1>3. OfficeDatesComplete'
  BY <1>2 DEF Dates, OfficeDatesComplete, Alive
<1>4. ASSUME NEW v \in Workers PROVE MoveStillTrue(work[v])'
  <2>1. CASE work'[v] = Idle
    BY <2>1 DEF MoveStillTrue, Idle
  <2>2. CASE work'[v] = work[v]
    <3>1. work[v].op = "move" => work[v].who \in Records
      BY WorkShape DEF TypeOK, MoveWork
    <3>2. MoveStillTrue(work[v])
      BY DEF Dates, MovesStillTrue
    <3> QED BY <1>2, <2>2, <3>1, <3>2 DEF MoveStillTrue, Alive
  <2> QED BY <1>1, <2>1, <2>2
<1> QED BY <1>3, <1>4 DEF Dates, MovesStillTrue

LEMMA DatesMoveLoad ==
    ASSUME TypeOK, Dates, NEW w \in Workers, NEW p \in Records,
           NEW target \in PatentStatus, NEW by \in {"inventor", "ip_cell"}, NEW sent,
           MoveLoad(w, p, target, by, sent)
    PROVE  Dates'
<1>1. <<patent[p].status, target, by>> \in Transitions
  BY DEF MoveLoad, AssertMayMove
<1>2. /\ target = "granted" => patent[p].status \in {"published", "lapsed"}
      /\ target = "lapsed" => patent[p].status = "granted"
  BY <1>1 DEF Transitions
<1>3. MoveStillTrue([op |-> "move", who |-> p, target |-> target, sent |-> sent])
  BY <1>2 DEF MoveStillTrue, Alive, Dates, OfficeDatesComplete
<1> QED BY <1>3, DatesBegin DEF MoveLoad, Begin

LEMMA DatesMoveCommit ==
    ASSUME TypeOK, Dates, NEW w \in Workers, MoveCommit(w)
    PROVE  Dates'
<1> DEFINE p == work[w].who
           row == Moved(patent[p], work[w].target, work[w].sent)
<1>1. work[w] \in MoveWork /\ p \in Records
  BY WorkShape DEF TypeOK, MoveCommit, MoveWork
<1>2. patent[p] \in Rows /\ Alive(p)
  BY <1>1, RowShape DEF MoveCommit, Alive
<1>3. row.status = work[w].target /\ row.set = patent[p].set \cup work[w].sent
  BY <1>2 DEF Moved, Rows
<1>4. Storable(row)
  BY DEF MoveCommit
<1>5. MoveStillTrue(work[w])
  BY DEF Dates, MovesStillTrue
<1>6. /\ row.status \in {"published", "granted", "lapsed"} =>
            {"filing_date", "publication_date"} \subseteq row.set
      /\ row.status \in {"granted", "lapsed"} => "grant_date" \in row.set
  BY <1>2, <1>3, <1>4, <1>5 DEF Storable, MoveStillTrue, BeforeTheOffice, MoveCommit
<1>7. patent' = [patent EXCEPT ![p] = row]
  BY DEF MoveCommit
<1> HIDE DEF row
<1>8. \A q : q \in Records => patent'[q] = patent[q] \/ (q = p /\ patent'[q] = row)
  BY <1>7 DEF TypeOK
<1>9. OfficeDatesComplete'
  BY <1>6, <1>8 DEF Dates, OfficeDatesComplete
<1>10. ASSUME NEW v \in Workers PROVE MoveStillTrue(work[v])'
  <2>1. work'[v] = Idle \/ work'[v] = work[v]
    BY DEF TypeOK, MoveCommit, End
  <2>2. CASE work'[v] = Idle
    BY <2>2 DEF MoveStillTrue, Idle
  <2>3. CASE work'[v] = work[v]
    <3>1. work[v].op = "move" => work[v].who \in Records
      BY WorkShape DEF TypeOK, MoveWork
    <3>2. MoveStillTrue(work[v])
      BY DEF Dates, MovesStillTrue
    <3> QED BY <1>2, <1>3, <1>8, <2>3, <3>1, <3>2 DEF MoveStillTrue, Alive
  <2> QED BY <2>1, <2>2, <2>3
<1> QED BY <1>9, <1>10 DEF Dates, MovesStillTrue

LEMMA DatesCreate ==
    ASSUME TypeOK, Dates, NEW w \in Workers, NEW p \in Records, NEW v,
           CreateCommit(w, p, v)
    PROVE  Dates'
<1> DEFINE row == [status |-> EntryStatus(work[w].docket), docket |-> work[w].docket,
                   set |-> IF work[w].docket = NoRow THEN {"filing_date"} ELSE {},
                   verification |-> v, version |-> 0, checked |-> 0]
<1>1. row.status \in {"filed", "disclosed"}
  BY DEF EntryStatus
<1>2. patent' = [patent EXCEPT ![p] = row]
  BY DEF CreateCommit
<1> HIDE DEF row
<1>3. \A q : q \in Records => patent'[q] = patent[q] \/ (q = p /\ patent'[q] = row)
  BY <1>2 DEF TypeOK
<1>4. OfficeDatesComplete'
  BY <1>1, <1>3 DEF Dates, OfficeDatesComplete
<1>5. ASSUME NEW x \in Workers PROVE MoveStillTrue(work[x])'
  <2>1. work'[x] = Idle \/ work'[x] = work[x]
    BY DEF TypeOK, CreateCommit, End
  <2>2. CASE work'[x] = Idle
    BY <2>2 DEF MoveStillTrue, Idle
  <2>3. CASE work'[x] = work[x]
    <3>1. work[x].op = "move" => work[x].who \in Records /\ work[x].who # p
      BY WorkShape DEF TypeOK, MoveWork, CreateCommit, Holds, OnRecord
    <3>2. MoveStillTrue(work[x])
      BY DEF Dates, MovesStillTrue
    <3> QED BY <1>3, <2>3, <3>1, <3>2 DEF MoveStillTrue, Alive
  <2> QED BY <2>1, <2>2, <2>3
<1> QED BY <1>4, <1>5 DEF Dates, MovesStillTrue

LEMMA DatesDelete ==
    ASSUME TypeOK, Dates, NEW w \in Workers, NEW p \in Records, Delete(w, p)
    PROVE  Dates'
<1>1. \A q : q \in Records => patent'[q] = patent[q] \/ patent'[q] = NoRow
  BY DEF TypeOK, Delete
<1>2. OfficeDatesComplete'
  BY <1>1 DEF Dates, OfficeDatesComplete
<1>3. ASSUME NEW x \in Workers PROVE MoveStillTrue(work[x])'
  <2>1. work[x].op = "move" => work[x].who \in Records
    BY WorkShape DEF TypeOK, MoveWork
  <2>2. MoveStillTrue(work[x]) /\ work' = work
    BY DEF Dates, MovesStillTrue, Delete
  <2> QED BY <1>1, <2>1, <2>2 DEF MoveStillTrue, Alive
<1> QED BY <1>2, <1>3 DEF Dates, MovesStillTrue

\* Every action keeps the dates, and what the moves in hand know of them.
LEMMA DatesStep == TypeOK /\ Dates /\ [Next]_vars => Dates'
<1> SUFFICES ASSUME TypeOK, Dates, [Next]_vars PROVE Dates'
  OBVIOUS
<1>0. MoveStillTrue(Idle)
  BY DEF MoveStillTrue, Idle
<1>1. ASSUME NEW w \in Workers, NEW alreadyFiled \in BOOLEAN, CreateLoad(w, alreadyFiled)
      PROVE  Dates'
  <2>1. PICK d : Begin(w, [op |-> "create", docket |-> d])
    BY <1>1 DEF CreateLoad
  <2>2. MoveStillTrue([op |-> "create", docket |-> d])
    BY DEF MoveStillTrue
  <2> QED BY <2>1, <2>2, DatesBegin DEF Begin
<1>2. ASSUME NEW w \in Workers, NEW p \in Records, EditLoad(w, p)
      PROVE  Dates'
  <2>1. MoveStillTrue([op |-> "edit", who |-> p, seen |-> patent[p].verification])
    BY DEF MoveStillTrue
  <2> QED BY <1>2, <2>1, DatesBegin DEF EditLoad, Begin
<1>3. ASSUME NEW w \in Workers, NEW p \in Records, NEW v, DecideLoad(w, p, v)
      PROVE  Dates'
  <2>1. MoveStillTrue([op |-> "decide", who |-> p, verdict |-> v,
                       version |-> patent[p].version])
    BY DEF MoveStillTrue
  <2> QED BY <1>3, <2>1, DatesBegin DEF DecideLoad, Begin
<1>4. ASSUME NEW w \in Workers, EditCommit(w)
      PROVE  Dates'
  <2> DEFINE p == work[w].who
             row == [patent[p] EXCEPT !.version = patent[p].version + 1,
                                      !.verification = AfterEdit(patent[p], work[w].seen)]
  <2>1. p \in Records
    BY <1>4, WorkShape DEF TypeOK, EditCommit, EditWork
  <2>2. patent[p] \in Rows /\ Alive(p)
    BY <1>4, <2>1, RowShape DEF EditCommit, Alive
  <2>3. row.status = patent[p].status /\ row.set = patent[p].set
    BY <2>2 DEF Rows
  <2>4. patent' = [patent EXCEPT ![p] = row] /\ work' = [work EXCEPT ![w] = Idle]
    BY <1>4 DEF EditCommit, End
  <2> HIDE DEF row
  <2> QED BY <2>1, <2>2, <2>3, <2>4, DatesAside
<1>5. ASSUME NEW w \in Workers, DecideCommit(w)
      PROVE  Dates'
  <2> DEFINE p == work[w].who
             row == [patent[p] EXCEPT !.verification = work[w].verdict,
                                      !.checked = work[w].version]
  <2>1. p \in Records
    BY <1>5, WorkShape DEF TypeOK, DecideCommit, DecideWork
  <2>2. patent[p] \in Rows /\ Alive(p)
    BY <1>5, <2>1, RowShape DEF DecideCommit, Alive
  <2>3. row.status = patent[p].status /\ row.set = patent[p].set
    BY <2>2 DEF Rows
  <2>4. patent' = [patent EXCEPT ![p] = row] /\ work' = [work EXCEPT ![w] = Idle]
    BY <1>5 DEF DecideCommit, End
  <2> HIDE DEF row
  <2> QED BY <2>1, <2>2, <2>3, <2>4, DatesAside
<1>6. ASSUME NEW w \in Workers, Rollback(w)
      PROVE  Dates'
  BY <1>0, <1>6, DatesBegin DEF Rollback, End
<1>7. CASE NewYear \/ UNCHANGED vars
  BY <1>7 DEF NewYear, vars, Dates, OfficeDatesComplete, MovesStillTrue, MoveStillTrue, Alive
<1> QED BY <1>1, <1>2, <1>3, <1>4, <1>5, <1>6, <1>7, DatesMoveLoad, DatesMoveCommit,
           DatesCreate, DatesDelete DEF Next, Handler

\* What is or was granted has its filing, its publication and its grant dated, and
\* what is published the first two, whatever moves cross.
THEOREM OfficeIsDated == Spec => []OfficeDatesComplete
<1>1. Init => TypeOK /\ Dates
  BY InitInv DEF IInv
<1>2. TypeOK /\ Dates /\ [Next]_vars => TypeOK' /\ Dates'
  BY TypeStep, DatesStep
<1>3. Dates => OfficeDatesComplete
  BY DEF Dates
<1> QED BY <1>1, <1>2, <1>3, PTL DEF Spec

-----------------------------------------------------------------------------
(* Edits and decisions *)

\* A handler that is neither an edit nor a decision begins, or one ends.
LEMMA ReviewsBegin ==
    ASSUME TypeOK, Reviews, NEW w \in Workers, NEW t, t.op \notin {"edit", "decide"},
           work' = [work EXCEPT ![w] = t], UNCHANGED <<patent, crossed>>
    PROVE  Reviews'
<1>1. \A v : v \in Workers => work'[v] = t \/ work'[v] = work[v]
  BY DEF TypeOK
<1>2. CrossingIsKnown'
  BY <1>1 DEF Reviews, CrossingIsKnown
<1>3. ReviewsStillTrue'
  BY <1>1 DEF Reviews, ReviewsStillTrue, DecisionStillTrue, EditStillTrue, Alive
<1> QED BY <1>2, <1>3 DEF Reviews, VerifiedAsRead

LEMMA ReviewsEditLoad ==
    ASSUME TypeOK, Reviews, NEW w \in Workers, NEW p \in Records, EditLoad(w, p)
    PROVE  Reviews'
<1> DEFINE t == [op |-> "edit", who |-> p, seen |-> patent[p].verification]
<1>1. t.op = "edit" /\ t.who = p /\ t.seen = patent[p].verification
  OBVIOUS
<1>2. work' = [work EXCEPT ![w] = t] /\ patent' = patent /\ crossed \subseteq crossed'
  BY DEF EditLoad, Begin, Crosses
<1>3. \A v \in Workers : work[v].op = "decide" /\ work[v].who = p => p \in crossed'
  BY DEF EditLoad, Crosses
<1> HIDE DEF t
<1>4. \A v : v \in Workers => work'[v] = work[v] \/ work'[v] = t
  BY <1>2 DEF TypeOK
<1>5. CrossingIsKnown'
  BY <1>1, <1>2, <1>3, <1>4 DEF Reviews, CrossingIsKnown
<1>6. ReviewsStillTrue'
  BY <1>1, <1>2, <1>4
     DEF Reviews, ReviewsStillTrue, DecisionStillTrue, EditStillTrue, Alive
<1> QED BY <1>2, <1>5, <1>6 DEF Reviews, VerifiedAsRead

LEMMA ReviewsDecideLoad ==
    ASSUME TypeOK, Reviews, NEW w \in Workers, NEW p \in Records, NEW verdict,
           DecideLoad(w, p, verdict)
    PROVE  Reviews'
<1> DEFINE t == [op |-> "decide", who |-> p, verdict |-> verdict,
                 version |-> patent[p].version]
<1>1. t.op = "decide" /\ t.who = p /\ t.version = patent[p].version
  OBVIOUS
<1>2. work' = [work EXCEPT ![w] = t] /\ patent' = patent /\ crossed \subseteq crossed'
  BY DEF DecideLoad, Begin, Crosses
<1>3. \A v \in Workers : work[v].op = "edit" /\ work[v].who = p => p \in crossed'
  BY DEF DecideLoad, Crosses
<1> HIDE DEF t
<1>4. \A v : v \in Workers => work'[v] = work[v] \/ work'[v] = t
  BY <1>2 DEF TypeOK
<1>5. CrossingIsKnown'
  BY <1>1, <1>2, <1>3, <1>4 DEF Reviews, CrossingIsKnown
<1>6. ReviewsStillTrue'
  BY <1>1, <1>2, <1>4
     DEF Reviews, ReviewsStillTrue, DecisionStillTrue, EditStillTrue, Alive
<1> QED BY <1>2, <1>5, <1>6 DEF Reviews, VerifiedAsRead

LEMMA ReviewsEditCommit ==
    ASSUME TypeOK, Reviews, NEW w \in Workers, EditCommit(w)
    PROVE  Reviews'
<1> DEFINE p == work[w].who
           row == [patent[p] EXCEPT !.version = patent[p].version + 1,
                                    !.verification = AfterEdit(patent[p], work[w].seen)]
<1>1. p \in Records /\ work[w].op = "edit"
  BY WorkShape DEF TypeOK, EditCommit, EditWork
<1>2. patent[p] \in Rows /\ Alive(p)
  BY <1>1, RowShape DEF EditCommit, Alive
<1>3. row.verification = "verified" => p \in crossed
  <2>1. row.verification = AfterEdit(patent[p], work[w].seen)
    BY <1>2 DEF Rows
  <2>2. EditStillTrue(work[w])
    BY DEF Reviews, ReviewsStillTrue
  <2> QED BY <1>1, <1>2, <2>1, <2>2 DEF AfterEdit, EditStillTrue
<1>4. patent' = [patent EXCEPT ![p] = row] /\ work' = [work EXCEPT ![w] = Idle]
  BY DEF EditCommit, End
<1>5. crossed' = crossed
  BY DEF EditCommit
<1> HIDE DEF row
<1>6. \A q : q \in Records => (q # p /\ patent'[q] = patent[q]) \/ (q = p /\ patent'[q] = row)
  BY <1>4 DEF TypeOK
<1>7. \A v : v \in Workers => work'[v] = work[v] \/ work'[v] = Idle
  BY <1>4 DEF TypeOK
<1>8. VerifiedAsRead'
  BY <1>3, <1>5, <1>6 DEF Reviews, VerifiedAsRead
<1>9. CrossingIsKnown'
  BY <1>5, <1>7 DEF Reviews, CrossingIsKnown, Idle
<1>10. ASSUME NEW v \in Workers PROVE DecisionStillTrue(work[v])' /\ EditStillTrue(work[v])'
  <2>1. DecisionStillTrue(work[v]) /\ EditStillTrue(work[v])
    BY DEF Reviews, ReviewsStillTrue
  <2>2. /\ work[v].op \in {"edit", "decide"} => work[v].who \in Records
        /\ work[v].op = "decide" /\ work[v].who = p => p \in crossed
    BY <1>1, WorkShape DEF TypeOK, EditWork, DecideWork, Reviews, CrossingIsKnown
  <2> QED BY <1>3, <1>5, <1>6, <1>7, <2>1, <2>2
          DEF DecisionStillTrue, EditStillTrue, Alive, Idle
<1> QED BY <1>8, <1>9, <1>10 DEF Reviews, ReviewsStillTrue

LEMMA ReviewsDecideCommit ==
    ASSUME TypeOK, Reviews, NEW w \in Workers, DecideCommit(w)
    PROVE  Reviews'
<1> DEFINE p == work[w].who
           row == [patent[p] EXCEPT !.verification = work[w].verdict,
                                    !.checked = work[w].version]
<1>1. p \in Records /\ work[w].op = "decide"
  BY WorkShape DEF TypeOK, DecideCommit, DecideWork
<1>2. patent[p] \in Rows /\ Alive(p)
  BY <1>1, RowShape DEF DecideCommit, Alive
<1>3. row.version = patent[p].version /\ row.checked = work[w].version
  BY <1>2 DEF Rows
<1>4. p \in crossed \/ work[w].version = patent[p].version
  BY <1>1, <1>2 DEF Reviews, ReviewsStillTrue, DecisionStillTrue
<1>5. patent' = [patent EXCEPT ![p] = row] /\ work' = [work EXCEPT ![w] = Idle]
  BY DEF DecideCommit, End
<1>6. crossed' = crossed
  BY DEF DecideCommit
<1> HIDE DEF row
<1>7. \A q : q \in Records => (q # p /\ patent'[q] = patent[q]) \/ (q = p /\ patent'[q] = row)
  BY <1>5 DEF TypeOK
<1>8. \A v : v \in Workers => work'[v] = work[v] \/ work'[v] = Idle
  BY <1>5 DEF TypeOK
<1>9. VerifiedAsRead'
  BY <1>3, <1>4, <1>6, <1>7 DEF Reviews, VerifiedAsRead
<1>10. CrossingIsKnown'
  BY <1>6, <1>8 DEF Reviews, CrossingIsKnown, Idle
<1>11. ASSUME NEW v \in Workers PROVE DecisionStillTrue(work[v])' /\ EditStillTrue(work[v])'
  <2>1. DecisionStillTrue(work[v]) /\ EditStillTrue(work[v])
    BY DEF Reviews, ReviewsStillTrue
  <2>2. /\ work[v].op \in {"edit", "decide"} => work[v].who \in Records
        /\ work[v].op = "edit" /\ work[v].who = p => p \in crossed
    BY <1>1, WorkShape DEF TypeOK, EditWork, DecideWork, Reviews, CrossingIsKnown
  <2> QED BY <1>2, <1>3, <1>6, <1>7, <1>8, <2>1, <2>2
          DEF DecisionStillTrue, EditStillTrue, Alive, Idle
<1> QED BY <1>9, <1>10, <1>11 DEF Reviews, ReviewsStillTrue

LEMMA ReviewsCreate ==
    ASSUME TypeOK, Reviews, NEW w \in Workers, NEW p \in Records, NEW verification,
           CreateCommit(w, p, verification)
    PROVE  Reviews'
<1> DEFINE row == [status |-> EntryStatus(work[w].docket), docket |-> work[w].docket,
                   set |-> IF work[w].docket = NoRow THEN {"filing_date"} ELSE {},
                   verification |-> verification, version |-> 0, checked |-> 0]
<1>1. row.version = row.checked
  OBVIOUS
<1>2. patent' = [patent EXCEPT ![p] = row] /\ work' = [work EXCEPT ![w] = Idle]
  BY DEF CreateCommit, End
<1>3. crossed' = crossed \ {p}
  BY DEF CreateCommit
<1> HIDE DEF row
<1>4. \A q : q \in Records => (q # p /\ patent'[q] = patent[q]) \/ (q = p /\ patent'[q] = row)
  BY <1>2 DEF TypeOK
<1>5. \A v : v \in Workers => work'[v] = work[v] \/ work'[v] = Idle
  BY <1>2 DEF TypeOK
<1>6. \A v \in Workers : work[v].op \in {"edit", "decide"} =>
          work[v].who \in Records /\ work[v].who # p
  BY WorkShape DEF TypeOK, EditWork, DecideWork, CreateCommit, Holds, OnRecord
<1>7. VerifiedAsRead'
  BY <1>1, <1>3, <1>4 DEF Reviews, VerifiedAsRead
<1>8. CrossingIsKnown'
  BY <1>3, <1>5, <1>6 DEF Reviews, CrossingIsKnown, Idle
<1>9. ASSUME NEW v \in Workers PROVE DecisionStillTrue(work[v])' /\ EditStillTrue(work[v])'
  <2>1. DecisionStillTrue(work[v]) /\ EditStillTrue(work[v])
    BY DEF Reviews, ReviewsStillTrue
  <2> QED BY <1>3, <1>4, <1>5, <1>6, <2>1 DEF DecisionStillTrue, EditStillTrue, Alive, Idle
<1> QED BY <1>7, <1>8, <1>9 DEF Reviews, ReviewsStillTrue

\* A move and a deletion leave text and approval of what remains.
LEMMA ReviewsAside ==
    ASSUME TypeOK, Reviews, UNCHANGED crossed,
           \A v \in Workers : work'[v] = work[v] \/ work'[v] = Idle,
           \A q \in Records : patent'[q] # NoRow =>
               /\ Alive(q)
               /\ patent'[q].verification = patent[q].verification
               /\ patent'[q].version = patent[q].version
               /\ patent'[q].checked = patent[q].checked
    PROVE  Reviews'
<1>1. VerifiedAsRead'
  BY DEF Reviews, VerifiedAsRead, Alive
<1>2. CrossingIsKnown'
  BY DEF Reviews, CrossingIsKnown, Idle
<1>3. ASSUME NEW v \in Workers PROVE DecisionStillTrue(work[v])' /\ EditStillTrue(work[v])'
  <2>1. DecisionStillTrue(work[v]) /\ EditStillTrue(work[v])
    BY DEF Reviews, ReviewsStillTrue
  <2>2. work[v].op \in {"edit", "decide"} => work[v].who \in Records
    BY WorkShape DEF TypeOK, EditWork, DecideWork
  <2> QED BY <2>1, <2>2 DEF DecisionStillTrue, EditStillTrue, Alive, Idle
<1> QED BY <1>1, <1>2, <1>3 DEF Reviews, ReviewsStillTrue

\* Every action keeps what approvals say, and what the reviews in hand rely on.
LEMMA ReviewsStep == TypeOK /\ Reviews /\ [Next]_vars => Reviews'
<1> SUFFICES ASSUME TypeOK, Reviews, [Next]_vars PROVE Reviews'
  OBVIOUS
<1>1. ASSUME NEW w \in Workers, NEW alreadyFiled \in BOOLEAN, CreateLoad(w, alreadyFiled)
      PROVE  Reviews'
  <2>1. PICK d : Begin(w, [op |-> "create", docket |-> d])
    BY <1>1 DEF CreateLoad
  <2> QED BY <1>1, <2>1, ReviewsBegin DEF CreateLoad, Begin
<1>2. ASSUME NEW w \in Workers, NEW p \in Records, NEW target \in PatentStatus,
             NEW by, NEW sent, MoveLoad(w, p, target, by, sent)
      PROVE  Reviews'
  BY <1>2, ReviewsBegin DEF MoveLoad, Begin
<1>3. ASSUME NEW w \in Workers, MoveCommit(w)
      PROVE  Reviews'
  <2> DEFINE p == work[w].who
             row == Moved(patent[p], work[w].target, work[w].sent)
  <2>1. p \in Records
    BY <1>3, WorkShape DEF TypeOK, MoveCommit, MoveWork
  <2>2. patent[p] \in Rows /\ Alive(p)
    BY <1>3, <2>1, RowShape DEF MoveCommit, Alive
  <2>3. /\ row.verification = patent[p].verification
        /\ row.version = patent[p].version
        /\ row.checked = patent[p].checked
    BY <2>2 DEF Moved, Rows
  <2>4. patent' = [patent EXCEPT ![p] = row] /\ work' = [work EXCEPT ![w] = Idle]
    BY <1>3 DEF MoveCommit, End
  <2> HIDE DEF row
  <2>5. \A q \in Records : patent'[q] # NoRow =>
            /\ Alive(q)
            /\ patent'[q].verification = patent[q].verification
            /\ patent'[q].version = patent[q].version
            /\ patent'[q].checked = patent[q].checked
    BY <2>2, <2>3, <2>4 DEF TypeOK, Alive
  <2> QED BY <1>3, <2>4, <2>5, ReviewsAside DEF MoveCommit, TypeOK
<1>4. ASSUME NEW w \in Workers, NEW p \in Records, Delete(w, p)
      PROVE  Reviews'
  <2>1. \A q \in Records : patent'[q] # NoRow => Alive(q) /\ patent'[q] = patent[q]
    BY <1>4 DEF TypeOK, Delete, Alive
  <2> QED BY <1>4, <2>1, ReviewsAside DEF Delete
<1>5. ASSUME NEW w \in Workers, Rollback(w)
      PROVE  Reviews'
  BY <1>5, ReviewsBegin DEF Rollback, End, Idle
<1>6. CASE NewYear \/ UNCHANGED vars
  BY <1>6 DEF NewYear, vars, Reviews, VerifiedAsRead, CrossingIsKnown, ReviewsStillTrue,
              DecisionStillTrue, EditStillTrue, Alive
<1> QED BY <1>1, <1>2, <1>3, <1>4, <1>5, <1>6, ReviewsEditLoad, ReviewsEditCommit,
           ReviewsDecideLoad, ReviewsDecideCommit, ReviewsCreate DEF Next, Handler

\* What is verified reads as whoever verified it had it before them, unless an
\* edit of the record overlapped a decision about it.
THEOREM ApprovalIsOfTheText == Spec => []VerifiedAsRead
<1>1. Init => TypeOK /\ Reviews
  BY InitInv DEF IInv
<1>2. TypeOK /\ Reviews /\ [Next]_vars => TypeOK' /\ Reviews'
  BY TypeStep, ReviewsStep
<1>3. Reviews => VerifiedAsRead
  BY DEF Reviews
<1> QED BY <1>1, <1>2, <1>3, PTL DEF Spec

\* Of every record at every moment, whatever moves, edits and verifications cross: it reads as
\* whoever verified it read it, unless an edit overlapped a decision on it, and no stage of
\* the office's half lacks its date.
THEOREM RecordsTellTheTruth == Spec => []RecordsAreTrue
BY ApprovalIsOfTheText, OfficeIsDated, PTL DEF RecordsAreTrue

-----------------------------------------------------------------------------
(* The docket numbers *)

LEMMA NumberShape ==
    ASSUME NEW d \in Dockets
    PROVE  d[1] \in Nat /\ d[2] \in Nat
<1> DEFINE Serials == 1..9999
<1>1. d \in Nat \X Serials
  BY BoundsAssumption
<1>2. Serials \subseteq Nat
  OBVIOUS
<1> HIDE DEF Serials
<1>3. d[1] \in Nat /\ d[2] \in Serials
  BY <1>1
<1> QED BY <1>2, <1>3

\* A row that carries a docket carries one of the numbers.
LEMMA DocketShape ==
    ASSUME TypeOK, NEW p \in Records, Alive(p), patent[p].docket # NoRow
    PROVE  /\ patent[p].docket \in Dockets
           /\ patent[p].docket[1] \in Nat /\ patent[p].docket[2] \in Nat
<1>1. patent[p].docket \in Dockets
  BY RowShape DEF Alive, Rows
<1> QED BY <1>1, NumberShape

\* No docket changes hands or is given, and no year is affected.
LEMMA NumbersAside ==
    ASSUME TypeOK, Numbers, UNCHANGED <<given, rewound>>,
           \A q \in Records : /\ Alive(q) <=> patent'[q] # NoRow
                              /\ Alive(q) => patent'[q].docket = patent[q].docket,
           \A v \in Workers : work'[v] = work[v] \/ NumberStillTrue(work'[v])
    PROVE  Numbers'
<1>1. \A d, q : q \in Records /\ Above(q, d) => Above(q, d)'
  BY DEF Above, Alive
<1>2. \A d : Taken(d) => Taken(d)'
  BY DEF Taken, Alive
<1>3. EndIsHeld'
  BY <1>1 DEF Numbers, EndIsHeld
<1>4. ASSUME NEW v \in Workers PROVE NumberStillTrue(work[v])'
  <2>1. NumberStillTrue(work'[v])
    BY DEF Numbers, NumbersStillTrue
  <2> QED BY <1>2, <2>1 DEF NumberStillTrue
<1> QED BY <1>3, <1>4 DEF Numbers, NumbersStillTrue

\* The number that is allocated was never given, unless the year was rewound.
LEMMA NumbersCreateLoad ==
    ASSUME TypeOK, Numbers, NEW w \in Workers, NEW alreadyFiled \in BOOLEAN,
           CreateLoad(w, alreadyFiled)
    PROVE  Numbers'
<1>1. PICK d \in Dockets \cup {NoRow} :
          /\ d # NoRow => AllocateReference(d)
          /\ Begin(w, [op |-> "create", docket |-> d])
  BY DEF CreateLoad
<1>2. ASSUME d # NoRow, d \in given, d[1] \notin rewound PROVE FALSE
  <2>1. PICK p \in Records : Above(p, d)
    BY <1>2 DEF Numbers, EndIsHeld
  <2> DEFINE e == patent[p].docket
  <2>2. e \in Dockets /\ e[1] = d[1] /\ e[2] \in Nat /\ d[2] <= e[2]
    BY <2>1, DocketShape DEF Above
  <2>3. Taken(e)
    BY <2>1 DEF Taken, Above, Alive
  <2>4. e[2] < d[2]
    BY <1>1, <1>2, <2>2, <2>3 DEF AllocateReference
  <2>5. d[2] \in Nat
    BY <1>1, <1>2, NumberShape
  <2> QED BY <2>2, <2>4, <2>5
<1>3. NumberStillTrue([op |-> "create", docket |-> d])
  BY <1>2 DEF NumberStillTrue
<1> QED BY <1>1, <1>3, NumbersAside DEF Begin, TypeOK, Alive

LEMMA NumbersCreateCommit ==
    ASSUME TypeOK, Numbers, NEW w \in Workers, NEW p \in Records,
           NEW verification \in InitialVerification(p), CreateCommit(w, p, verification)
    PROVE  Numbers'
<1> DEFINE row == [status |-> EntryStatus(work[w].docket), docket |-> work[w].docket,
                   set |-> IF work[w].docket = NoRow THEN {"filing_date"} ELSE {},
                   verification |-> verification, version |-> 0, checked |-> 0]
<1>0. work[w].docket \in Dockets \cup {NoRow}
  BY WorkShape DEF TypeOK, CreateCommit, CreateWork
<1>1. PICK d \in Dockets \cup {NoRow} : d = work[w].docket
  BY <1>0
<1>2. row.docket = d /\ row # NoRow
  <2>1. row \in Rows
    BY <1>1, BoundsAssumption DEF Rows, EntryStatus, PatentStatus, BeforeTheOffice, Columns,
                InitialVerification, VerificationStatus
  <2>2. row.docket = d
    BY <1>1
  <2> HIDE DEF row
  <2> QED BY <2>1, <2>2, NoRowAssumption
<1>3. patent' = [patent EXCEPT ![p] = row] /\ work' = [work EXCEPT ![w] = Idle]
  BY DEF CreateCommit, End
<1>4. given' = given \cup ({d} \ {NoRow}) /\ rewound' = rewound /\ ~Alive(p)
  BY <1>1 DEF CreateCommit, Alive
<1> HIDE DEF row
<1>5. /\ patent'[p] = row
      /\ \A q : q \in Records => q = p \/ patent'[q] = patent[q]
      /\ \A v : v \in Workers => work'[v] = work[v] \/ work'[v] = Idle
  BY <1>3 DEF TypeOK
<1>6. \A e, q : q \in Records /\ Above(q, e) => Above(q, e)'
  BY <1>4, <1>5 DEF Above, Alive
<1>7. \A e : Taken(e) => Taken(e)'
  BY <1>4, <1>5 DEF Taken, Alive
<1>8. d # NoRow => Above(p, d)' /\ Taken(d)'
  <2>1. d # NoRow => d[2] \in Nat
    BY NumberShape
  <2> QED BY <1>2, <1>5, <2>1 DEF Above, Taken, Alive
<1>9. EndIsHeld'
  BY <1>4, <1>6, <1>8 DEF Numbers, EndIsHeld
<1>10. ASSUME NEW v \in Workers PROVE NumberStillTrue(work[v])'
  <2>1. NumberStillTrue(work[v])
    BY DEF Numbers, NumbersStillTrue
  <2> QED BY <1>4, <1>5, <1>7, <1>8, <2>1 DEF NumberStillTrue, Idle
<1> QED BY <1>9, <1>10 DEF Numbers, NumbersStillTrue

LEMMA NumbersDelete ==
    ASSUME TypeOK, Numbers, NEW w \in Workers, NEW p \in Records, Delete(w, p)
    PROVE  Numbers'
<1> DEFINE e == patent[p].docket
<1>1. /\ Alive(p) /\ work' = work /\ given' = given /\ rewound \subseteq rewound'
      /\ EndsItsYear(p) => e[1] \in rewound'
      /\ patent'[p] = NoRow
      /\ \A q : q \in Records => q = p \/ patent'[q] = patent[q]
  BY DEF Delete, Alive, TypeOK
<1>2. ASSUME NEW d \in given PROVE d[1] \in rewound' \/ \E q \in Records : Above(q, d)'
  <2> SUFFICES ASSUME d[1] \notin rewound' PROVE \E q \in Records : Above(q, d)'
    OBVIOUS
  <2>1. PICK q \in Records : Above(q, d)
    BY <1>1 DEF Numbers, EndIsHeld
  <2>2. CASE q # p
    BY <1>1, <2>1, <2>2 DEF Above, Alive
  <2>3. CASE q = p
    <3>1. ~EndsItsYear(p)
      BY <1>1, <2>1, <2>3 DEF Above
    <3>2. PICK x \in Records :
              /\ Alive(x) /\ patent[x].docket # NoRow
              /\ patent[x].docket[1] = e[1]
              /\ ~(patent[x].docket[2] <= e[2])
      BY <2>1, <2>3, <3>1 DEF EndsItsYear, Above, Alive
    <3>3. e[2] \in Nat /\ patent[x].docket[2] \in Nat /\ d[2] \in Nat
      BY <2>1, <2>3, <3>2, DocketShape, NumberShape DEF Above, TypeOK
    <3>4. x # p /\ d[2] <= patent[x].docket[2]
      BY <2>1, <2>3, <3>2, <3>3 DEF Above
    <3> QED BY <1>1, <2>1, <2>3, <3>2, <3>4 DEF Above, Alive
  <2> QED BY <2>2, <2>3
<1>3. ASSUME NEW v \in Workers PROVE NumberStillTrue(work[v])'
  <2> SUFFICES ASSUME work[v].op = "create", work[v].docket # NoRow,
                      work[v].docket \in given, work[v].docket[1] \notin rewound'
               PROVE  Taken(work[v].docket)'
    BY <1>1 DEF NumberStillTrue
  <2>1. Taken(work[v].docket)
    BY <1>1 DEF Numbers, NumbersStillTrue, NumberStillTrue
  <2>2. PICK q \in Records : Alive(q) /\ patent[q].docket = work[v].docket
    BY <2>1 DEF Taken, Alive
  <2>3. q # p
    BY <1>1, <2>2 DEF EndsItsYear
  <2> QED BY <1>1, <2>2, <2>3 DEF Taken, Alive
<1> QED BY <1>1, <1>2, <1>3 DEF Numbers, NumbersStillTrue, EndIsHeld

\* An edit, a decision and a move rewrite one row and keep its docket.
LEMMA CommitKeepsDocket ==
    ASSUME TypeOK, NEW w \in Workers, EditCommit(w) \/ DecideCommit(w) \/ MoveCommit(w)
    PROVE  \E p \in Records : \E row :
               /\ Alive(p) /\ patent' = [patent EXCEPT ![p] = row]
               /\ row # NoRow /\ row.docket = patent[p].docket
<1> DEFINE p == work[w].who
<1>1. p \in Records /\ Alive(p)
  BY WorkShape DEF TypeOK, EditCommit, EditWork, DecideCommit, DecideWork,
                   MoveCommit, MoveWork, Alive
<1>2. patent[p] \in Rows
  BY <1>1, RowShape DEF Alive
<1>3. CASE EditCommit(w)
  <2> DEFINE row == [patent[p] EXCEPT !.version = patent[p].version + 1,
                                      !.verification = AfterEdit(patent[p], work[w].seen)]
  <2>1. patent[p].version + 1 \in 0..MaxVersion
    BY <1>2, <1>3, BoundsAssumption DEF EditCommit, Rows
  <2>2. AfterEdit(patent[p], work[w].seen) \in VerificationStatus
    BY <1>2 DEF AfterEdit, Rows, VerificationStatus
  <2>3. row \in Rows /\ row.docket = patent[p].docket
    BY <1>2, <2>1, <2>2 DEF Rows
  <2>4. patent' = [patent EXCEPT ![p] = row]
    BY <1>3 DEF EditCommit
  <2> HIDE DEF row
  <2> QED BY <1>1, <2>3, <2>4, NoRowAssumption
<1>4. CASE DecideCommit(w)
  <2> DEFINE row == [patent[p] EXCEPT !.verification = work[w].verdict,
                                      !.checked = work[w].version]
  <2>1. work[w] \in DecideWork
    BY <1>4, WorkShape DEF TypeOK, DecideCommit
  <2>2. row \in Rows /\ row.docket = patent[p].docket
    BY <1>2, <2>1 DEF Rows, DecideWork, VerificationStatus
  <2>3. patent' = [patent EXCEPT ![p] = row]
    BY <1>4 DEF DecideCommit
  <2> HIDE DEF row
  <2> QED BY <1>1, <2>2, <2>3, NoRowAssumption
<1>5. CASE MoveCommit(w)
  <2> DEFINE row == Moved(patent[p], work[w].target, work[w].sent)
  <2>1. work[w] \in MoveWork
    BY <1>5, WorkShape DEF TypeOK, MoveCommit
  <2>2. row \in Rows /\ row.docket = patent[p].docket
    BY <1>2, <2>1 DEF Rows, MoveWork, Moved
  <2>3. patent' = [patent EXCEPT ![p] = row]
    BY <1>5 DEF MoveCommit
  <2> HIDE DEF row
  <2> QED BY <1>1, <2>2, <2>3, NoRowAssumption
<1> QED BY <1>3, <1>4, <1>5

\* A row comes into being by CreateCommit only.
LEMMA OnlyCreateAdds ==
    ASSUME TypeOK, [Next]_vars, NEW p \in Records, patent[p] = NoRow, patent'[p] # NoRow
    PROVE  \E w \in Workers, v \in InitialVerification(p) : CreateCommit(w, p, v)
<1>1. patent' # patent
  OBVIOUS
<1>2. ASSUME NEW w \in Workers, NEW q \in Records, NEW v, CreateCommit(w, q, v), q # p
      PROVE  FALSE
  BY <1>2 DEF CreateCommit, TypeOK
<1>3. ASSUME NEW w \in Workers, EditCommit(w) \/ DecideCommit(w) \/ MoveCommit(w)
      PROVE  FALSE
  <2>1. PICK q \in Records : \E row : Alive(q) /\ patent' = [patent EXCEPT ![q] = row]
    BY <1>3, CommitKeepsDocket
  <2> QED BY <2>1 DEF TypeOK, Alive
<1>4. ASSUME NEW w \in Workers, NEW q \in Records, Delete(w, q)
      PROVE  FALSE
  BY <1>4 DEF Delete, TypeOK
<1>5. ASSUME NEW w \in Workers, NEW alreadyFiled, CreateLoad(w, alreadyFiled)
      PROVE  FALSE
  BY <1>1, <1>5 DEF CreateLoad, Begin
<1>6. ASSUME NEW w \in Workers, NEW q, EditLoad(w, q)
      PROVE  FALSE
  BY <1>1, <1>6 DEF EditLoad, Begin
<1>7. ASSUME NEW w \in Workers, NEW q, NEW v, DecideLoad(w, q, v)
      PROVE  FALSE
  BY <1>1, <1>7 DEF DecideLoad, Begin
<1>8. ASSUME NEW w \in Workers, NEW q, NEW target, NEW by, NEW sent,
             MoveLoad(w, q, target, by, sent)
      PROVE  FALSE
  BY <1>1, <1>8 DEF MoveLoad, Begin
<1>9. ASSUME NEW w \in Workers, Rollback(w)
      PROVE  FALSE
  BY <1>1, <1>9 DEF Rollback
<1>10. ~NewYear /\ ~UNCHANGED vars
  BY <1>1 DEF NewYear, vars
<1> QED BY <1>2, <1>3, <1>4, <1>5, <1>6, <1>7, <1>8, <1>9, <1>10 DEF Next, Handler

\* Every action keeps what the numbers of a year that was not rewound promise.
LEMMA NumbersStep == TypeOK /\ Numbers /\ [Next]_vars => Numbers'
<1> SUFFICES ASSUME TypeOK, Numbers, [Next]_vars PROVE Numbers'
  OBVIOUS
<1> DEFINE Kept == \A q \in Records : /\ Alive(q) <=> patent'[q] # NoRow
                                      /\ Alive(q) => patent'[q].docket = patent[q].docket
<1>1. ASSUME NEW w \in Workers, NEW t, work' = [work EXCEPT ![w] = t], t.op # "create",
             Kept, UNCHANGED <<given, rewound>>
      PROVE  Numbers'
  <2>1. \A v \in Workers : work'[v] = work[v] \/ NumberStillTrue(work'[v])
    BY <1>1 DEF TypeOK, NumberStillTrue
  <2> QED BY <1>1, <2>1, NumbersAside
<1>3. UNCHANGED patent => Kept
  BY DEF Alive
<1> HIDE DEF Kept
<1>4. ASSUME NEW w \in Workers, NEW p \in Records, EditLoad(w, p)
      PROVE  Numbers'
  <2> DEFINE t == [op |-> "edit", who |-> p, seen |-> patent[p].verification]
  <2>1. t.op # "create" /\ Begin(w, t)
    BY <1>4 DEF EditLoad
  <2> HIDE DEF t
  <2> QED BY <1>1, <1>3, <2>1 DEF Begin
<1>5. ASSUME NEW w \in Workers, NEW p \in Records, NEW v, DecideLoad(w, p, v)
      PROVE  Numbers'
  <2> DEFINE t == [op |-> "decide", who |-> p, verdict |-> v, version |-> patent[p].version]
  <2>1. t.op # "create" /\ Begin(w, t)
    BY <1>5 DEF DecideLoad
  <2> HIDE DEF t
  <2> QED BY <1>1, <1>3, <2>1 DEF Begin
<1>6. ASSUME NEW w \in Workers, NEW p \in Records, NEW target \in PatentStatus,
             NEW by, NEW sent, MoveLoad(w, p, target, by, sent)
      PROVE  Numbers'
  <2> DEFINE t == [op |-> "move", who |-> p, target |-> target, sent |-> sent]
  <2>1. t.op # "create" /\ Begin(w, t)
    BY <1>6 DEF MoveLoad
  <2> HIDE DEF t
  <2> QED BY <1>1, <1>3, <2>1 DEF Begin
<1>7. ASSUME NEW w \in Workers, Rollback(w)
      PROVE  Numbers'
  <2>1. Idle.op # "create"
    BY DEF Idle
  <2>2. work' = [work EXCEPT ![w] = Idle] /\ UNCHANGED <<patent, given, rewound>>
    BY <1>7 DEF Rollback, End
  <2> QED BY <1>1, <1>3, <2>1, <2>2
<1>8. ASSUME NEW w \in Workers, EditCommit(w) \/ DecideCommit(w) \/ MoveCommit(w)
      PROVE  Numbers'
  <2>1. PICK p \in Records : \E row :
            /\ Alive(p) /\ patent' = [patent EXCEPT ![p] = row]
            /\ row # NoRow /\ row.docket = patent[p].docket
    BY <1>8, CommitKeepsDocket
  <2>2. Kept
    BY <2>1 DEF TypeOK, Alive, Kept
  <2>3. /\ work' = [work EXCEPT ![w] = Idle]
        /\ UNCHANGED <<given, rewound>>
    BY <1>8 DEF EditCommit, DecideCommit, MoveCommit, End
  <2>4. Idle.op # "create"
    BY DEF Idle
  <2> QED BY <1>1, <2>2, <2>3, <2>4
<1>9. CASE NewYear \/ UNCHANGED vars
  <2>1. UNCHANGED <<patent, work, given, rewound>>
    BY <1>9 DEF NewYear, vars
  <2> QED BY <2>1 DEF Numbers, EndIsHeld, Above, Alive, NumbersStillTrue, NumberStillTrue, Taken
<1> QED BY <1>4, <1>5, <1>6, <1>7, <1>8, <1>9, NumbersCreateLoad, NumbersCreateCommit,
           NumbersDelete DEF Next, Handler

\* A docket is given once, unless the newest of its year was deleted, or one that
\* a disclosure in flight was about to be given.
THEOREM NumbersAreNotReused == Spec => DocketGivenOnce
<1>1. Init => TypeOK /\ Numbers
  BY InitInv DEF IInv
<1>2. TypeOK /\ Numbers /\ [Next]_vars => TypeOK' /\ Numbers'
  BY TypeStep, NumbersStep
<1> DEFINE Step == \A p \in Records :
          patent[p] = NoRow /\ patent'[p] # NoRow /\ patent'[p].docket # NoRow =>
              patent'[p].docket \notin given \/ patent'[p].docket[1] \in rewound
<1>3. TypeOK /\ Numbers /\ [Next]_vars => [Step]_patent
  <2> SUFFICES ASSUME TypeOK, Numbers, [Next]_vars, NEW p \in Records,
                      patent[p] = NoRow, patent'[p] # NoRow, patent'[p].docket # NoRow
               PROVE  patent'[p].docket \notin given \/ patent'[p].docket[1] \in rewound
    OBVIOUS
  <2>1. PICK w \in Workers, v \in InitialVerification(p) : CreateCommit(w, p, v)
    BY OnlyCreateAdds
  <2>2. patent'[p].docket = work[w].docket /\ ~Taken(work[w].docket)
    BY <2>1 DEF CreateCommit, TypeOK
  <2>3. NumberStillTrue(work[w]) /\ work[w].op = "create"
    BY <2>1 DEF Numbers, NumbersStillTrue, CreateCommit
  <2> QED BY <2>2, <2>3 DEF NumberStillTrue
<1> HIDE DEF Step
<1>4. [][Step]_patent => DocketGivenOnce
  BY DEF Step, DocketGivenOnce
<1> QED BY <1>1, <1>2, <1>3, <1>4, PTL DEF Spec
=============================================================================
