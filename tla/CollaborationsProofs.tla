------------------------- MODULE CollaborationsProofs -------------------------
(***************************************************************************)
(* Proofs about Collaborations for any number of users, requests and       *)
(* concurrent handlers.                                                    *)
(***************************************************************************)
EXTENDS Collaborations, TLAPS

\* What handler w has in hand, by the operation it is in.
LEMMA WorkShape ==
    ASSUME work \in [Workers -> Work], NEW w \in Workers
    PROVE  /\ work[w].op = "send" => work[w] \in SendWork
           /\ work[w].op = "respond" => work[w] \in RespondWork
           /\ work[w].op = "answer" => work[w] \in AnswerWork
<1>1. work[w] \in Work
  OBVIOUS
<1>2. CASE work[w] = Idle
  BY <1>2 DEF Idle
<1>3. CASE work[w] \in SendWork
  BY <1>3 DEF SendWork
<1>4. CASE work[w] \in RespondWork
  BY <1>4 DEF RespondWork
<1>5. CASE work[w] \in AnswerWork
  BY <1>5 DEF AnswerWork
<1> QED BY <1>1, <1>2, <1>3, <1>4, <1>5 DEF Work

\* A row that exists is a typed row, between two members of a pair.
LEMMA SentRow ==
    ASSUME TypeOK, NEW q \in Requests, request[q] # NoRow
    PROVE  request[q] \in RequestRow
BY DEF TypeOK

-----------------------------------------------------------------------------
(* The inductive invariant *)

Answered(p) == \E q \in RequestsOf(p) : request[q].status # "pending"

\* A request is between two different people, who have a row.
SentBetweenTwo ==
    \A q \in Sent :
        /\ request[q].sender # request[q].recipient
        /\ state[PairOf(q)] # NoRow

\* The row leaves "requested" only with an answer, and a thread opens with one.
RowNeedsAnswer ==
    \A p \in Pairs :
        p \in thread \/ state[p] \in {"none", "active", "ended"} => Answered(p)

\* What a handler holds was true when it was read and cannot become false: a
\* row it saw at rest had been answered, a request it saw is still there.
StillTrue(t) ==
    /\ t.op = "send" =>
          /\ t.sender # t.recipient
          /\ t.seen # NoRow => Answered({t.sender, t.recipient})
    /\ t.op \in {"respond", "answer"} =>
          /\ request[t.req] # NoRow
          /\ t.target # "pending"

WorkNeedsAnswer == \A w \in Workers : StillTrue(work[w])

IInv ==
    /\ TypeOK
    /\ SentBetweenTwo
    /\ RowNeedsAnswer
    /\ WorkNeedsAnswer
    /\ OneFirstRequest

LEMMA PairIsPair ==
    ASSUME NEW u \in Users, NEW v \in Users, u # v
    PROVE  {u, v} \in Pairs
BY DEF Pairs

LEMMA PairOfSent ==
    ASSUME TypeOK, SentBetweenTwo, NEW q \in Requests, request[q] # NoRow
    PROVE  PairOf(q) \in Pairs
BY SentRow, PairIsPair DEF SentBetweenTwo, Sent, PairOf, RequestRow

LEMMA InitInv == Init => IInv
<1> SUFFICES ASSUME Init PROVE IInv
  OBVIOUS
<1>1. Sent = {}
  BY DEF Init, Sent
<1>2. TypeOK
  BY DEF Init, TypeOK, Work
<1>3. \A p \in Pairs : state[p] = NoRow /\ p \notin thread
  BY DEF Init
<1>4. \A w \in Workers : work[w].op = "idle"
  BY DEF Init, Idle
<1> QED
  BY <1>1, <1>2, <1>3, <1>4, NoRowAssumption
  DEF IInv, SentBetweenTwo, RowNeedsAnswer, WorkNeedsAnswer, OneFirstRequest,
      RequestsOf, CollaborationState, StillTrue

\* A step that only reads: it puts something true in one handler's hands.
LEMMA ReadKeepsInv ==
    ASSUME IInv, NEW w \in Workers, NEW t \in Work, StillTrue(t),
           work' = [work EXCEPT ![w] = t], UNCHANGED <<state, request, thread>>,
           raced' \subseteq Pairs
    PROVE  IInv'
<1>1. TypeOK'
  BY DEF TypeOK, IInv
<1>2. (SentBetweenTwo /\ RowNeedsAnswer /\ OneFirstRequest)'
  BY DEF IInv, SentBetweenTwo, RowNeedsAnswer, OneFirstRequest, Answered, RequestsOf, Sent,
         PairOf
<1>3. \A x : StillTrue(x) => StillTrue(x)'
  BY DEF StillTrue, Answered, RequestsOf, Sent, PairOf
<1>4. \A v \in Workers : work'[v] = t \/ work'[v] = work[v]
  BY DEF IInv, TypeOK
<1>5. WorkNeedsAnswer'
  <2> SUFFICES ASSUME NEW v \in Workers PROVE StillTrue(work[v])'
    BY DEF WorkNeedsAnswer
  <2>1. StillTrue(work[v])
    BY DEF IInv, WorkNeedsAnswer
  <2> QED BY <1>3, <1>4, <2>1 DEF StillTrue
<1> QED BY <1>1, <1>2, <1>5 DEF IInv

LEMMA SendLoadInv ==
    ASSUME IInv, NEW w \in Workers, NEW s \in Users, NEW r \in Users, SendLoad(w, s, r)
    PROVE  IInv'
<1> DEFINE t == [op |-> "send", sender |-> s, recipient |-> r, seen |-> state[{s, r}]]
<1>1. {s, r} \in Pairs /\ s # r
  BY PairIsPair DEF SendLoad
<1>2. state[{s, r}] \in {NoRow, "none", "ended"}
  BY <1>1 DEF SendLoad, MayRequest, CollaborationState, TypeOK, IInv
<1>3. t \in Work
  BY <1>2 DEF Work, SendWork
<1>4. StillTrue(t)
  BY <1>1, <1>2 DEF IInv, RowNeedsAnswer, StillTrue
<1>5. raced' \subseteq Pairs
  BY <1>1 DEF SendLoad, BeginOn, IInv, TypeOK
<1> QED BY <1>3, <1>4, <1>5, ReadKeepsInv DEF SendLoad, BeginOn

LEMMA RespondLoadInv ==
    ASSUME IInv, NEW w \in Workers, NEW u \in Users, NEW q \in Requests,
           NEW target \in CollaborationStatus, RespondLoad(w, u, q, target)
    PROVE  IInv'
<1> DEFINE t == [op |-> "respond", req |-> q, target |-> target]
<1>1. t \in Work
  BY DEF Work, RespondWork
<1>2. StillTrue(t)
  BY DEF RespondLoad, AssertTransition, TransitionParties, StillTrue
<1>3. PairOf(q) \in Pairs
  BY PairOfSent DEF RespondLoad, IInv
<1>4. raced' \subseteq Pairs
  BY <1>3 DEF RespondLoad, BeginOn, IInv, TypeOK
<1> QED BY <1>1, <1>2, <1>4, ReadKeepsInv DEF RespondLoad, BeginOn

LEMMA RespondReadPairInv ==
    ASSUME IInv, NEW w \in Workers, RespondReadPair(w)
    PROVE  IInv'
<1> DEFINE t == [op |-> "answer", req |-> work[w].req, target |-> work[w].target,
                 seen |-> state[PairOf(work[w].req)]]
<1>1. work[w] \in RespondWork /\ StillTrue(work[w])
  BY WorkShape DEF RespondReadPair, IInv, TypeOK, WorkNeedsAnswer
<1>2. /\ work[w].req \in Requests
      /\ work[w].target \in CollaborationStatus
      /\ request[work[w].req] # NoRow
      /\ work[w].target # "pending"
  BY <1>1 DEF RespondWork, StillTrue
<1>3. PairOf(work[w].req) \in Pairs
  BY <1>2, PairOfSent DEF IInv
<1>4. t \in Work
  BY <1>2, <1>3 DEF IInv, TypeOK, Work, AnswerWork
<1>5. StillTrue(t)
  BY <1>2 DEF StillTrue
<1> QED BY <1>4, <1>5, ReadKeepsInv DEF RespondReadPair, IInv, TypeOK

LEMMA RollbackInv ==
    ASSUME IInv, NEW w \in Workers, Rollback(w)
    PROVE  IInv'
<1>1. Idle \in Work /\ StillTrue(Idle)
  BY DEF Idle, Work, StillTrue
<1> QED BY <1>1, ReadKeepsInv DEF Rollback, IInv, TypeOK

\* A new request is the first of its pair, or the pair has an answered one.
LEMMA SendCommitInv ==
    ASSUME IInv, NEW w \in Workers, SendCommit(w)
    PROVE  IInv'
<1> DEFINE t == work[w]
           p == {t.sender, t.recipient}
           row == [sender |-> t.sender, recipient |-> t.recipient, status |-> "pending"]
<1>1. t \in SendWork /\ StillTrue(t)
  BY WorkShape DEF SendCommit, IInv, TypeOK, WorkNeedsAnswer
<1>2. /\ p \in Pairs /\ t.sender # t.recipient
      /\ row \in RequestRow
      /\ t.seen # NoRow => Answered(p)
  BY <1>1, PairIsPair DEF SendWork, StillTrue, RequestRow, CollaborationStatus, SendCommit
<1>3. PICK q \in Requests : request[q] = NoRow /\ request' = [request EXCEPT ![q] = row]
  BY DEF SendCommit
<1>4. /\ state' = [state EXCEPT ![p] = "requested"]
      /\ thread' = thread /\ raced' = raced
      /\ work' = [work EXCEPT ![w] = Idle]
      /\ t.seen = NoRow => state[p] = NoRow
  BY DEF SendCommit, UniquePair
<1>5. TypeOK'
  BY <1>2, <1>3, <1>4 DEF IInv, TypeOK, CollaborationState, Work
<1>6. Sent' = Sent \cup {q} /\ q \notin Sent
  BY <1>2, <1>3, NoRowAssumption DEF IInv, TypeOK, Sent
<1>7. \A r \in Sent : request'[r] = request[r] /\ PairOf(r)' = PairOf(r)
  BY <1>3, <1>6 DEF Sent, PairOf, IInv, TypeOK
<1>8. request'[q] = row /\ PairOf(q)' = p
  BY <1>3 DEF PairOf, IInv, TypeOK
<1>9. \A x : RequestsOf(x)' = RequestsOf(x) \cup (IF x = p THEN {q} ELSE {})
  BY <1>6, <1>7, <1>8 DEF RequestsOf
<1>10. \A x : Answered(x) => Answered(x)'
  BY <1>7, <1>9 DEF Answered, RequestsOf
<1>11. SentBetweenTwo'
  <2> SUFFICES ASSUME NEW r \in Sent'
               PROVE  /\ request'[r].sender # request'[r].recipient
                      /\ state'[PairOf(r)'] # NoRow
    BY DEF SentBetweenTwo
  <2>1. CASE r = q
    BY <2>1, <1>2, <1>4, <1>8, NoRowAssumption DEF IInv, TypeOK, CollaborationState
  <2>2. CASE r # q
    <3>1. r \in Sent /\ PairOf(r) \in Pairs
      BY <2>2, <1>6, PairOfSent DEF Sent, IInv
    <3> QED BY <3>1, <1>4, <1>7, NoRowAssumption
            DEF IInv, SentBetweenTwo, TypeOK, CollaborationState
  <2> QED BY <2>1, <2>2
<1>12. RowNeedsAnswer'
  BY <1>4, <1>10 DEF RowNeedsAnswer, IInv, TypeOK
<1>13. WorkNeedsAnswer'
  <2> SUFFICES ASSUME NEW v \in Workers PROVE StillTrue(work[v])'
    BY DEF WorkNeedsAnswer
  <2>1. CASE v = w
    BY <2>1, <1>4 DEF StillTrue, Idle, IInv, TypeOK
  <2>2. CASE v # w
    <3>1. work'[v] = work[v] /\ StillTrue(work[v]) /\ work[v] \in Work
      BY <2>2, <1>4 DEF IInv, TypeOK, WorkNeedsAnswer
    <3>2. \A r \in Requests : request[r] # NoRow => request'[r] # NoRow
      BY <1>7, <1>6 DEF Sent
    <3>3. work[v].op \in {"respond", "answer"} => work[v].req \in Requests
      BY WorkShape DEF IInv, TypeOK, RespondWork, AnswerWork
    <3> QED BY <3>1, <3>2, <3>3, <1>10 DEF StillTrue
  <2> QED BY <2>1, <2>2
<1>14. OneFirstRequest'
  <2> SUFFICES ASSUME NEW x \in Pairs, ~Answered(x)',
                      NEW q1 \in RequestsOf(x)', NEW q2 \in RequestsOf(x)'
               PROVE  q1 = q2
    BY DEF OneFirstRequest, Answered
  <2>1. CASE x = p
    <3>1. state[p] = NoRow
      BY <2>1, <1>2, <1>4, <1>10
    <3>2. RequestsOf(p) = {}
      BY <3>1 DEF IInv, SentBetweenTwo, RequestsOf
    <3> QED BY <2>1, <3>2, <1>9
  <2>2. CASE x # p
    BY <2>2, <1>9, <1>10 DEF IInv, OneFirstRequest, Answered
  <2> QED BY <2>1, <2>2
<1> QED BY <1>5, <1>11, <1>12, <1>13, <1>14 DEF IInv

\* An answer makes its pair an answered one, for ever.
LEMMA RespondCommitInv ==
    ASSUME IInv, NEW w \in Workers, RespondCommit(w)
    PROVE  IInv'
<1> DEFINE t == work[w]
<1>1. t \in AnswerWork /\ StillTrue(t)
  BY WorkShape DEF RespondCommit, IInv, TypeOK, WorkNeedsAnswer
<1>2. PICK q \in Requests :
        /\ q = t.req /\ request[q] # NoRow
        /\ t.target \in CollaborationStatus \ {"pending"}
  BY <1>1 DEF AnswerWork, StillTrue, RespondCommit
<1>3. PICK p \in Pairs : p = PairOf(q)
  BY <1>2, PairOfSent DEF IInv
<1>4. request[q] \in RequestRow
  BY <1>2, SentRow DEF IInv
<1>5. /\ request' = [request EXCEPT ![q] = [@ EXCEPT !.status = t.target]]
      /\ state' = IF t.seen = StateAfter(t.target) THEN state
                  ELSE [state EXCEPT ![p] = StateAfter(t.target)]
      /\ thread' \in {thread, thread \cup {p}}
      /\ work' = [work EXCEPT ![w] = Idle] /\ raced' = raced
  BY <1>2, <1>3 DEF RespondCommit, AnsweredRow, OpensThread
<1>6. request'[q] \in RequestRow /\ request'[q].status # "pending"
  BY <1>2, <1>4, <1>5 DEF RequestRow, IInv, TypeOK
<1>7. request'[q].sender = request[q].sender /\ request'[q].recipient = request[q].recipient
  BY <1>2, <1>4, <1>5 DEF RequestRow, IInv, TypeOK
<1>8. \A r \in Requests : r # q => request'[r] = request[r]
  BY <1>5 DEF IInv, TypeOK
<1>9. StateAfter(t.target) \in CollaborationState
  BY DEF StateAfter, CollaborationState
<1>10. TypeOK'
  BY <1>3, <1>5, <1>6, <1>8, <1>9 DEF IInv, TypeOK, Work
<1>11. Sent' = Sent
  BY <1>2, <1>6, <1>8, NoRowAssumption DEF Sent
<1>12. \A r \in Sent : PairOf(r)' = PairOf(r)
  BY <1>7, <1>8 DEF Sent, PairOf
<1>13. \A x : RequestsOf(x)' = RequestsOf(x)
  BY <1>11, <1>12 DEF RequestsOf
<1>14. \A x : Answered(x) => Answered(x)'
  BY <1>6, <1>8, <1>13 DEF Answered, RequestsOf, Sent
<1>15. Answered(p)'
  <2>1. q \in RequestsOf(p)
    BY <1>2, <1>3 DEF RequestsOf, Sent
  <2> QED BY <2>1, <1>6, <1>13 DEF Answered
<1>16. SentBetweenTwo'
  <2>1. \A x \in Pairs : state[x] # NoRow => state'[x] # NoRow
    BY <1>5, <1>9, NoRowAssumption DEF IInv, TypeOK
  <2>2. \A r \in Sent : PairOf(r) \in Pairs
    BY PairOfSent DEF Sent, IInv
  <2> QED BY <1>7, <1>8, <1>11, <1>12, <2>1, <2>2 DEF SentBetweenTwo, IInv, Sent
<1>17. RowNeedsAnswer'
  <2> SUFFICES ASSUME NEW x \in Pairs, x \in thread' \/ state'[x] \in {"none", "active", "ended"}
               PROVE  Answered(x)'
    BY DEF RowNeedsAnswer
  <2>1. CASE x = p
    BY <2>1, <1>15
  <2>2. CASE x # p
    <3>1. x \in thread \/ state[x] \in {"none", "active", "ended"}
      BY <2>2, <1>5 DEF IInv, TypeOK
    <3> QED BY <3>1, <1>14 DEF IInv, RowNeedsAnswer
  <2> QED BY <2>1, <2>2
<1>18. WorkNeedsAnswer'
  <2> SUFFICES ASSUME NEW v \in Workers PROVE StillTrue(work[v])'
    BY DEF WorkNeedsAnswer
  <2>1. CASE v = w
    BY <2>1, <1>5 DEF StillTrue, Idle, IInv, TypeOK
  <2>2. CASE v # w
    <3>1. work'[v] = work[v] /\ StillTrue(work[v])
      BY <2>2, <1>5 DEF IInv, TypeOK, WorkNeedsAnswer
    <3>2. \A r \in Requests : request[r] # NoRow => request'[r] # NoRow
      BY <1>6, <1>8, NoRowAssumption
    <3>3. work[v].op \in {"respond", "answer"} => work[v].req \in Requests
      BY WorkShape DEF IInv, TypeOK, RespondWork, AnswerWork
    <3> QED BY <3>1, <3>2, <3>3, <1>14 DEF StillTrue
  <2> QED BY <2>1, <2>2
<1>19. OneFirstRequest'
  <2> SUFFICES ASSUME NEW x \in Pairs, ~Answered(x)',
                      NEW q1 \in RequestsOf(x)', NEW q2 \in RequestsOf(x)'
               PROVE  q1 = q2
    BY DEF OneFirstRequest, Answered
  <2> QED BY <1>13, <1>14 DEF IInv, OneFirstRequest, Answered
<1> QED BY <1>10, <1>16, <1>17, <1>18, <1>19 DEF IInv

LEMMA NextInv == IInv /\ [Next]_vars => IInv'
<1> SUFFICES ASSUME IInv, [Next]_vars PROVE IInv'
  OBVIOUS
<1>1. CASE Next
  BY <1>1, SendLoadInv, SendCommitInv, RespondLoadInv, RespondReadPairInv,
     RespondCommitInv, RollbackInv DEF Next
<1>2. CASE UNCHANGED vars
  <2>1. UNCHANGED <<state, request, thread, work, raced>>
    BY <1>2 DEF vars
  <2>2. TypeOK' /\ SentBetweenTwo' /\ OneFirstRequest'
    BY <2>1 DEF IInv, TypeOK, SentBetweenTwo, OneFirstRequest, RequestsOf, Sent, PairOf
  <2>3. \A x : Answered(x)' <=> Answered(x)
    BY <2>1 DEF Answered, RequestsOf, Sent, PairOf
  <2>4. RowNeedsAnswer'
    BY <2>1, <2>3 DEF IInv, RowNeedsAnswer
  <2>5. WorkNeedsAnswer'
    BY <2>1, <2>3 DEF IInv, WorkNeedsAnswer, StillTrue
  <2> QED BY <2>2, <2>4, <2>5 DEF IInv
<1> QED BY <1>1, <1>2

-----------------------------------------------------------------------------
(* The theorems *)

\* The inductive invariant holds in every reachable state.
THEOREM Inductive == Spec => []IInv
BY InitInv, NextInv, PTL DEF Spec

\* Every variable keeps its type, whatever the number of handlers.
THEOREM Typing == Spec => []TypeOK
BY Inductive, PTL DEF IInv

\* However many handlers run at once, two people who meet for the first time
\* never leave two unanswered requests behind.
THEOREM FirstRequestIsOne == Spec => []OneFirstRequest
BY Inductive, PTL DEF IInv

\* A thread, and a row that says active or ended, always follow an answer.
THEOREM ChannelFollowsAnswer == Spec => []ChannelNeedsAnswer
<1>1. IInv => ChannelNeedsAnswer
  BY DEF IInv, RowNeedsAnswer, ChannelNeedsAnswer, Answered
<1> QED BY <1>1, Inductive, PTL
-----------------------------------------------------------------------------
(* A pair whose handlers never overlapped                                    *)

OnPair(p) == {w \in Workers : work[w] # Idle /\ PairInHand(work[w]) = p}

\* What a handler read is still what it will write over.
StillApplies(t) ==
    /\ t.op = "send" => state[PairInHand(t)] = t.seen
    /\ t.op \in {"respond", "answer"} => TransitionParties(request[t.req].status, t.target) # {}
    /\ t.op = "answer" => t.seen = state[PairInHand(t)]

\* The row agrees with the requests, and the only handler on the pair with both.
Undisturbed(p) ==
    /\ state[p] = "requested" <=> InStatus(p, {"pending"}) # {}
    /\ state[p] = "active" <=> InStatus(p, {"accepted"}) # {}
    /\ \A q1, q2 \in InStatus(p, {"pending", "accepted"}) : q1 = q2
    /\ \A v, w \in OnPair(p) : v = w
    /\ \A w \in OnPair(p) : StillApplies(work[w])

PairsInv == \A p \in Pairs \ raced : Undisturbed(p)

\* The operations a handler can be in, and the pair it is on.
LEMMA HandlerFacts ==
    ASSUME IInv, NEW w \in Workers, work[w] # Idle
    PROVE  /\ work[w].op \in {"send", "respond", "answer"}
           /\ PairInHand(work[w]) \in Pairs
           /\ work[w].op \in {"respond", "answer"} =>
                /\ work[w].req \in Requests /\ request[work[w].req] # NoRow
                /\ PairInHand(work[w]) = PairOf(work[w].req)
<1>1. work[w] \in SendWork \cup RespondWork \cup AnswerWork /\ StillTrue(work[w])
  BY DEF IInv, TypeOK, Work, WorkNeedsAnswer
<1>2. CASE work[w] \in SendWork
  <2>1. work[w].op = "send" /\ work[w].sender # work[w].recipient
    BY <1>1, <1>2 DEF SendWork, StillTrue
  <2> QED BY <1>2, <2>1, PairIsPair DEF SendWork, PairInHand
<1>3. CASE work[w] \in RespondWork \cup AnswerWork
  <2>1. /\ work[w].op \in {"respond", "answer"} /\ work[w].req \in Requests
        /\ request[work[w].req] # NoRow
    BY <1>1, <1>3 DEF RespondWork, AnswerWork, StillTrue
  <2> QED BY <2>1, PairOfSent DEF PairInHand, IInv
<1> QED BY <1>1, <1>2, <1>3

\* The pair of a request that was sent never changes.
LEMMA HandKept ==
    ASSUME IInv, NEW w \in Workers, work[w] # Idle,
           \A r \in Sent : PairOf(r)' = PairOf(r)
    PROVE  \A t : t = work[w] => PairInHand(t)' = PairInHand(t)
BY HandlerFacts DEF PairInHand, Sent

\* Sending adds one pending request to its pair and leaves the others alone.
LEMMA SendCommitEffect ==
    ASSUME IInv, NEW w \in Workers, SendCommit(w)
    PROVE  \E p \in Pairs, q \in Requests :
             /\ work[w] # Idle /\ p = PairInHand(work[w]) /\ work[w].op = "send"
             /\ work[w].sender \in p /\ work[w].seen \in {NoRow, "none", "ended"}
             /\ state' = [state EXCEPT ![p] = "requested"]
             /\ work' = [work EXCEPT ![w] = Idle]
             /\ q \notin Sent /\ request'[q].sender = work[w].sender
             /\ \A r \in Sent : request'[r] = request[r] /\ PairOf(r)' = PairOf(r)
             /\ \A x, S : InStatus(x, S)' =
                    InStatus(x, S) \cup (IF x = p /\ "pending" \in S THEN {q} ELSE {})
<1> DEFINE t == work[w]
           p == {t.sender, t.recipient}
           row == [sender |-> t.sender, recipient |-> t.recipient, status |-> "pending"]
<1>1. t \in SendWork /\ StillTrue(t) /\ t.op = "send"
  BY WorkShape DEF SendCommit, IInv, TypeOK, WorkNeedsAnswer
<1>2. p \in Pairs /\ row \in RequestRow /\ t # Idle /\ p = PairInHand(t)
  BY <1>1, PairIsPair DEF SendWork, StillTrue, RequestRow, CollaborationStatus, PairInHand, Idle
<1>3. PICK q \in Requests : request[q] = NoRow /\ request' = [request EXCEPT ![q] = row]
  BY DEF SendCommit
<1>4. q \notin Sent /\ Sent' = Sent \cup {q}
  BY <1>2, <1>3, NoRowAssumption DEF IInv, TypeOK, Sent
<1>5. \A r \in Sent : request'[r] = request[r] /\ PairOf(r)' = PairOf(r)
  BY <1>3, <1>4 DEF Sent, PairOf, IInv, TypeOK
<1>6. request'[q] = row /\ PairOf(q)' = p
  BY <1>3 DEF PairOf, IInv, TypeOK
<1>7. \A x : RequestsOf(x)' = RequestsOf(x) \cup (IF x = p THEN {q} ELSE {})
  BY <1>4, <1>5, <1>6 DEF RequestsOf
<1>8. ASSUME NEW x, NEW S
      PROVE  InStatus(x, S)' = InStatus(x, S) \cup (IF x = p /\ "pending" \in S THEN {q} ELSE {})
  <2>1. \A r \in RequestsOf(x) : r \in Sent /\ request'[r] = request[r]
    BY <1>5 DEF RequestsOf
  <2> QED BY <1>6, <1>7, <2>1 DEF InStatus
<1>9. t.sender \in p /\ t.seen \in {NoRow, "none", "ended"}
  BY <1>1 DEF SendWork
<1>10. state' = [state EXCEPT ![p] = "requested"] /\ work' = [work EXCEPT ![w] = Idle]
  BY DEF SendCommit
<1>11. request'[q].sender = work[w].sender
  BY <1>6
<1> HIDE DEF p
<1> QED BY <1>1, <1>2, <1>4, <1>5, <1>8, <1>9, <1>10, <1>11

\* Answering moves one request of its pair from one status to another.
LEMMA RespondCommitEffect ==
    ASSUME IInv, NEW w \in Workers, RespondCommit(w)
    PROVE  \E p \in Pairs, q \in Sent :
             /\ work[w] # Idle /\ p = PairInHand(work[w]) /\ work[w].op = "answer"
             /\ q = work[w].req /\ q \in RequestsOf(p)
             /\ state' = IF work[w].seen = StateAfter(work[w].target) THEN state
                         ELSE [state EXCEPT ![p] = StateAfter(work[w].target)]
             /\ work' = [work EXCEPT ![w] = Idle]
             /\ request'[q].status = work[w].target
             /\ Sent' = Sent
             /\ \A r \in Sent : r # q => request'[r] = request[r]
             /\ \A r \in Sent : PairOf(r)' = PairOf(r) /\ request'[r].sender = request[r].sender
             /\ \A x : RequestsOf(x)' = RequestsOf(x)
<1> DEFINE t == work[w]
<1>1. t \in AnswerWork /\ StillTrue(t) /\ t.op = "answer"
  BY WorkShape DEF RespondCommit, IInv, TypeOK, WorkNeedsAnswer
<1>2. PICK q \in Sent : q = t.req
  BY <1>1 DEF AnswerWork, StillTrue, Sent
<1>3. PICK p \in Pairs : p = PairOf(q) /\ p = PairInHand(t) /\ t # Idle
  BY <1>1, <1>2, PairOfSent DEF IInv, Sent, PairInHand, Idle
<1>4. request[q] \in RequestRow /\ q \in Requests
  BY <1>2, SentRow DEF IInv, Sent
<1>5. /\ request' = [request EXCEPT ![q] = [@ EXCEPT !.status = t.target]]
      /\ state' = IF t.seen = StateAfter(t.target) THEN state
                  ELSE [state EXCEPT ![p] = StateAfter(t.target)]
      /\ work' = [work EXCEPT ![w] = Idle]
  BY <1>2, <1>3 DEF RespondCommit, AnsweredRow
<1>6. request'[q] \in RequestRow /\ request'[q].status = t.target
  BY <1>1, <1>4, <1>5 DEF RequestRow, IInv, TypeOK, AnswerWork
<1>7. request'[q].sender = request[q].sender /\ request'[q].recipient = request[q].recipient
  BY <1>4, <1>5 DEF RequestRow, IInv, TypeOK
<1>8. \A r \in Requests : r # q => request'[r] = request[r]
  BY <1>5 DEF IInv, TypeOK
<1>9. Sent' = Sent
  BY <1>2, <1>6, <1>8, NoRowAssumption DEF Sent
<1>10. \A r \in Sent : PairOf(r)' = PairOf(r) /\ request'[r].sender = request[r].sender
  BY <1>7, <1>8 DEF Sent, PairOf
<1>11. \A x : RequestsOf(x)' = RequestsOf(x)
  BY <1>9, <1>10 DEF RequestsOf
<1>12. q \in RequestsOf(p) /\ \A r \in Sent : r # q => request'[r] = request[r]
  BY <1>3, <1>8 DEF RequestsOf, Sent
<1> QED BY <1>1, <1>2, <1>3, <1>5, <1>6, <1>9, <1>10, <1>11, <1>12

\* With the same rows, a handler relies on the same things.
LEMMA SameRows ==
    ASSUME UNCHANGED <<state, request>>
    PROVE  /\ \A x : PairInHand(x)' = PairInHand(x)
           /\ \A x : StillApplies(x)' <=> StillApplies(x)
           /\ \A x, S : InStatus(x, S)' = InStatus(x, S)
<1>1. \A x : PairInHand(x)' = PairInHand(x)
  BY DEF PairInHand, PairOf
<1>2. \A x : StillApplies(x)' <=> StillApplies(x)
  BY <1>1 DEF StillApplies
<1>3. \A x, S : InStatus(x, S)' = InStatus(x, S)
  BY DEF InStatus, RequestsOf, Sent, PairOf
<1> QED BY <1>1, <1>2, <1>3

\* A handler that begins makes a race, or is alone on its pair with what it read.
LEMMA BeginKeepsPairs ==
    ASSUME IInv, PairsInv, NEW w \in Workers, NEW p \in Pairs, NEW t, t # Idle,
           BeginOn(w, p, t), UNCHANGED <<state, request, thread>>,
           PairInHand(t) = p, StillApplies(t)
    PROVE  PairsInv'
<1>1. /\ \A x : PairInHand(x)' = PairInHand(x)
      /\ \A x : StillApplies(x)' <=> StillApplies(x)
      /\ \A x, S : InStatus(x, S)' = InStatus(x, S)
  BY SameRows
<1>2. work[w] = Idle /\ work'[w] = t /\ \A v \in Workers : v # w => work'[v] = work[v]
  BY DEF BeginOn, IInv, TypeOK
<1>3. \A v \in Workers : PairInHand(work[v])' = PairInHand(work'[v])
  BY <1>1
<1>4. \A v \in Workers : StillApplies(work[v])' <=> StillApplies(work'[v])
  BY <1>1
<1> SUFFICES ASSUME NEW x \in Pairs, x \notin raced' PROVE Undisturbed(x)'
  BY DEF PairsInv
<1>5. x \notin raced /\ Undisturbed(x)
  BY DEF BeginOn, PairsInv
<1>6. CASE x # p
  <2>1. OnPair(x)' = OnPair(x) /\ w \notin OnPair(x)
    BY <1>2, <1>3, <1>1, <1>6 DEF OnPair
  <2>2. \A v \in OnPair(x) : v \in Workers /\ v # w
    BY <2>1 DEF OnPair
  <2> QED BY <1>1, <1>2, <1>4, <1>5, <2>1, <2>2 DEF Undisturbed
<1>7. CASE x = p
  <2>1. \A v \in Workers : work[v] # Idle => PairInHand(work[v]) # p
    BY <1>7 DEF BeginOn
  <2>2. OnPair(x)' = {w}
    BY <1>1, <1>2, <1>3, <1>7, <2>1 DEF OnPair
  <2> QED BY <1>1, <1>2, <1>4, <1>5, <2>2 DEF Undisturbed
<1> QED BY <1>6, <1>7

\* A handler that reads again, or gives up, disturbs nothing.
LEMMA ReadKeepsPairs ==
    ASSUME IInv, PairsInv, NEW w \in Workers, NEW t, work[w] # Idle,
           work' = [work EXCEPT ![w] = t], UNCHANGED <<state, request, raced>>,
           t # Idle => PairInHand(t) = PairInHand(work[w])
                       /\ (StillApplies(work[w]) => StillApplies(t))
    PROVE  PairsInv'
<1>1. /\ \A x : PairInHand(x)' = PairInHand(x)
      /\ \A x : StillApplies(x)' <=> StillApplies(x)
      /\ \A x, S : InStatus(x, S)' = InStatus(x, S)
  BY SameRows
<1>2. work'[w] = t /\ \A v \in Workers : v # w => work'[v] = work[v]
  BY DEF IInv, TypeOK
<1>3. \A v \in Workers : PairInHand(work[v])' = PairInHand(work'[v])
  BY <1>1
<1>4. \A v \in Workers : StillApplies(work[v])' <=> StillApplies(work'[v])
  BY <1>1
<1> SUFFICES ASSUME NEW x \in Pairs, x \notin raced PROVE Undisturbed(x)'
  BY DEF PairsInv
<1>5. Undisturbed(x)
  BY DEF PairsInv
<1>6. OnPair(x)' \subseteq OnPair(x)
  BY <1>1, <1>2, <1>3 DEF OnPair
<1>7. ASSUME NEW v \in OnPair(x)' PROVE StillApplies(work[v])'
  <2>1. v \in Workers /\ StillApplies(work[v]) /\ work'[v] # Idle
    BY <1>5, <1>6, <1>7 DEF Undisturbed, OnPair
  <2> QED BY <1>2, <1>4, <2>1
<1> QED BY <1>1, <1>5, <1>6, <1>7 DEF Undisturbed

\* A commit changes its own pair only, as far as the others' handlers go.
LEMMA CommitKeepsOthers ==
    ASSUME IInv, PairsInv, NEW w \in Workers, NEW p, work[w] # Idle, PairInHand(work[w]) = p,
           work' = [work EXCEPT ![w] = Idle], raced' = raced,
           \A x \in Pairs : x # p => state'[x] = state[x],
           \A x, S : x # p => InStatus(x, S)' = InStatus(x, S),
           \A r \in Sent : PairOf(r)' = PairOf(r),
           \A r \in Sent : PairOf(r) # p => request'[r] = request[r]
    PROVE  /\ \A x \in Pairs \ raced : x # p => Undisturbed(x)'
           /\ p \notin raced /\ p \in Pairs => OnPair(p)' = {}
<1>1. work'[w] = Idle /\ \A v \in Workers : v # w => work'[v] = work[v]
  BY DEF IInv, TypeOK
<1>2. \A v \in Workers : v # w /\ work[v] # Idle => PairInHand(work[v])' = PairInHand(work[v])
  <2> SUFFICES ASSUME NEW v \in Workers, v # w, work[v] # Idle
               PROVE  PairInHand(work[v])' = PairInHand(work[v])
    OBVIOUS
  <2>1. work'[v] = work[v]
    BY <1>1
  <2>2. /\ work[v].op \in {"send", "respond", "answer"}
        /\ work[v].op \in {"respond", "answer"} => work[v].req \in Sent
    BY HandlerFacts DEF Sent
  <2> QED BY <2>1, <2>2 DEF PairInHand
<1>3. \A x : OnPair(x)' = OnPair(x) \ {w}
  BY <1>1, <1>2 DEF OnPair
<1>4. ASSUME NEW x \in Pairs \ raced, x # p PROVE Undisturbed(x)'
  <2>1. Undisturbed(x)
    BY DEF PairsInv
  <2>2. ASSUME NEW v \in OnPair(x)' PROVE StillApplies(work[v])'
    <3>1. /\ v \in Workers /\ v # w /\ work[v] # Idle /\ PairInHand(work[v]) = x
          /\ StillApplies(work[v]) /\ work'[v] = work[v]
      BY <1>1, <1>3, <2>1, <2>2 DEF OnPair, Undisturbed
    <3>2. PairInHand(work[v])' = x /\ state'[x] = state[x]
      BY <1>2, <1>4, <3>1
    <3>3. work[v].op \in {"respond", "answer"} => request'[work[v].req] = request[work[v].req]
      <4> SUFFICES ASSUME work[v].op \in {"respond", "answer"}
                   PROVE  request'[work[v].req] = request[work[v].req]
        OBVIOUS
      <4>1. work[v].req \in Sent /\ PairOf(work[v].req) = x
        BY <3>1, HandlerFacts DEF Sent
      <4> QED BY <1>4, <4>1
    <3> QED BY <3>1, <3>2, <3>3 DEF StillApplies
  <2> QED BY <1>3, <1>4, <2>1, <2>2 DEF Undisturbed
<1>5. ASSUME p \in Pairs, p \notin raced PROVE OnPair(p)' = {}
  <2>1. w \in OnPair(p) /\ \A v \in OnPair(p) : v = w
    BY <1>5 DEF PairsInv, Undisturbed, OnPair
  <2> QED BY <1>3, <2>1
<1> QED BY <1>4, <1>5

LEMMA SendCommitPairs ==
    ASSUME IInv, PairsInv, NEW w \in Workers, SendCommit(w)
    PROVE  PairsInv'
<1>1. PICK p \in Pairs, q \in Requests :
         /\ work[w] # Idle /\ p = PairInHand(work[w]) /\ work[w].op = "send"
         /\ work[w].sender \in p /\ work[w].seen \in {NoRow, "none", "ended"}
         /\ state' = [state EXCEPT ![p] = "requested"]
         /\ work' = [work EXCEPT ![w] = Idle]
         /\ q \notin Sent /\ request'[q].sender = work[w].sender
         /\ \A r \in Sent : request'[r] = request[r] /\ PairOf(r)' = PairOf(r)
         /\ \A x, S : InStatus(x, S)' =
                InStatus(x, S) \cup (IF x = p /\ "pending" \in S THEN {q} ELSE {})
  BY SendCommitEffect
<1>2. raced' = raced /\ state'[p] = "requested" /\ \A x \in Pairs : x # p => state'[x] = state[x]
  BY <1>1 DEF SendCommit, IInv, TypeOK
<1>3. /\ \A x \in Pairs \ raced : x # p => Undisturbed(x)'
      /\ p \notin raced => OnPair(p)' = {}
  <2>1. \A x, S : x # p => InStatus(x, S)' = InStatus(x, S)
    BY <1>1
  <2>2. \A r \in Sent : PairOf(r)' = PairOf(r) /\ request'[r] = request[r]
    BY <1>1
  <2>3. work[w] # Idle /\ PairInHand(work[w]) = p /\ work' = [work EXCEPT ![w] = Idle]
    BY <1>1
  <2> QED BY <1>2, <2>1, <2>2, <2>3, CommitKeepsOthers
<1>4. ASSUME p \notin raced PROVE Undisturbed(p)'
  <2>1. Undisturbed(p) /\ w \in OnPair(p)
    BY <1>1, <1>4 DEF PairsInv, OnPair
  <2>2. state[p] \notin {"requested", "active"}
    BY <1>1, <2>1, NoRowAssumption DEF Undisturbed, StillApplies, CollaborationState
  <2>3. /\ InStatus(p, {"pending"}) = {} /\ InStatus(p, {"accepted"}) = {}
        /\ InStatus(p, {"pending", "accepted"}) = {}
    BY <2>1, <2>2 DEF Undisturbed, InStatus
  <2>4. /\ InStatus(p, {"pending"})' = {q} /\ InStatus(p, {"accepted"})' = {}
        /\ InStatus(p, {"pending", "accepted"})' = {q}
    BY <1>1, <2>3
  <2> QED BY <1>2, <1>3, <1>4, <2>4 DEF Undisturbed
<1> QED BY <1>2, <1>3, <1>4 DEF PairsInv

\* The requests of a pair, after one of them moved.
LEMMA AnswerMovesOne ==
    ASSUME NEW p, NEW q \in RequestsOf(p), NEW target, NEW S,
           RequestsOf(p)' = RequestsOf(p), request'[q].status = target,
           \A r \in Sent : r # q => request'[r] = request[r]
    PROVE  InStatus(p, S)' = (InStatus(p, S) \ {q}) \cup (IF target \in S THEN {q} ELSE {})
<1>1. \A r \in RequestsOf(p) : r \in Sent
  BY DEF RequestsOf
<1> QED BY <1>1 DEF InStatus

LEMMA RespondCommitPairs ==
    ASSUME IInv, PairsInv, NEW w \in Workers, RespondCommit(w)
    PROVE  PairsInv'
<1> DEFINE t == work[w]
<1>1. PICK p \in Pairs, q \in Sent :
         /\ t # Idle /\ p = PairInHand(t) /\ t.op = "answer"
         /\ q = t.req /\ q \in RequestsOf(p)
         /\ state' = IF t.seen = StateAfter(t.target) THEN state
                     ELSE [state EXCEPT ![p] = StateAfter(t.target)]
         /\ work' = [work EXCEPT ![w] = Idle]
         /\ request'[q].status = t.target
         /\ Sent' = Sent
         /\ \A r \in Sent : r # q => request'[r] = request[r]
         /\ \A r \in Sent : PairOf(r)' = PairOf(r) /\ request'[r].sender = request[r].sender
         /\ \A x : RequestsOf(x)' = RequestsOf(x)
  BY RespondCommitEffect
<1>2. raced' = raced /\ \A x \in Pairs : x # p => state'[x] = state[x]
  BY <1>1 DEF RespondCommit, IInv, TypeOK
<1>3. /\ \A x \in Pairs \ raced : x # p => Undisturbed(x)'
      /\ p \notin raced => OnPair(p)' = {}
  <2>1. ASSUME NEW x, NEW S, x # p PROVE InStatus(x, S)' = InStatus(x, S)
    <3>1. \A r \in RequestsOf(x) : request'[r] = request[r]
      BY <1>1, <2>1 DEF RequestsOf
    <3> QED BY <1>1, <3>1 DEF InStatus
  <2>2. \A r \in Sent : PairOf(r) # p => request'[r] = request[r]
    BY <1>1 DEF RequestsOf
  <2>3. /\ work[w] # Idle /\ PairInHand(work[w]) = p /\ work' = [work EXCEPT ![w] = Idle]
        /\ \A r \in Sent : PairOf(r)' = PairOf(r)
    BY <1>1
  <2>4. \A x, S : x # p => InStatus(x, S)' = InStatus(x, S)
    BY <2>1
  <2> QED BY <1>2, <2>2, <2>3, <2>4, CommitKeepsOthers
<1>4. ASSUME p \notin raced PROVE Undisturbed(p)'
  <2>1. /\ Undisturbed(p) /\ t.seen = state[p]
        /\ TransitionParties(request[q].status, t.target) # {}
    BY <1>1, <1>4 DEF PairsInv, OnPair, Undisturbed, StillApplies
  <2>2. \A S : InStatus(p, S)' = (InStatus(p, S) \ {q}) \cup (IF t.target \in S THEN {q} ELSE {})
    BY <1>1, AnswerMovesOne
  <2>3. \/ request[q].status = "pending" /\ t.target \in {"accepted", "declined", "cancelled"}
        \/ request[q].status = "accepted" /\ t.target = "ended"
    BY <2>1 DEF TransitionParties
  <2>4. InStatus(p, {"pending", "accepted"}) = {q}
    BY <1>1, <2>1, <2>3 DEF Undisturbed, InStatus
  <2>5. /\ InStatus(p, {"pending"}) \subseteq {q} /\ InStatus(p, {"accepted"}) \subseteq {q}
        /\ request[q].status = "pending" => q \in InStatus(p, {"pending"})
        /\ request[q].status = "accepted" => q \in InStatus(p, {"accepted"})
    BY <1>1, <2>4 DEF InStatus
  <2>6. /\ InStatus(p, {"pending"})' = {}
        /\ InStatus(p, {"accepted"})' = IF t.target = "accepted" THEN {q} ELSE {}
        /\ InStatus(p, {"pending", "accepted"})' = IF t.target = "accepted" THEN {q} ELSE {}
    BY <2>2, <2>3, <2>4, <2>5
  <2>7. state'[p] = StateAfter(t.target)
    BY <1>1, <2>1 DEF IInv, TypeOK
  <2>8. state'[p] # "requested" /\ (state'[p] = "active" <=> t.target = "accepted")
    BY <2>3, <2>7 DEF StateAfter
  <2> QED BY <1>3, <1>4, <2>6, <2>8 DEF Undisturbed
<1> QED BY <1>2, <1>3, <1>4 DEF PairsInv

LEMMA NextPairs == IInv /\ PairsInv /\ [Next]_vars => PairsInv'
<1> SUFFICES ASSUME IInv, PairsInv, [Next]_vars PROVE PairsInv'
  OBVIOUS
<1>1. ASSUME NEW w \in Workers, NEW s \in Users, NEW r \in Users, SendLoad(w, s, r)
      PROVE  PairsInv'
  <2> DEFINE t == [op |-> "send", sender |-> s, recipient |-> r, seen |-> state[{s, r}]]
  <2>1. {s, r} \in Pairs /\ BeginOn(w, {s, r}, t) /\ UNCHANGED <<state, request, thread>>
    BY <1>1, PairIsPair DEF SendLoad
  <2>2. t # Idle /\ PairInHand(t) = {s, r} /\ StillApplies(t)
    BY DEF Idle, PairInHand, StillApplies
  <2> HIDE DEF t
  <2> QED BY <2>1, <2>2, BeginKeepsPairs
<1>2. ASSUME NEW w \in Workers, NEW u \in Users, NEW q \in Requests,
             NEW target \in CollaborationStatus, RespondLoad(w, u, q, target)
      PROVE  PairsInv'
  <2> DEFINE t == [op |-> "respond", req |-> q, target |-> target]
  <2>1. PairOf(q) \in Pairs /\ BeginOn(w, PairOf(q), t) /\ UNCHANGED <<state, request, thread>>
    BY <1>2, PairOfSent DEF RespondLoad, IInv
  <2>2. t # Idle /\ PairInHand(t) = PairOf(q) /\ StillApplies(t)
    BY <1>2 DEF Idle, PairInHand, StillApplies, RespondLoad, AssertTransition
  <2> HIDE DEF t
  <2> QED BY <2>1, <2>2, BeginKeepsPairs
<1>3. ASSUME NEW w \in Workers, RespondReadPair(w) PROVE PairsInv'
  <2> DEFINE t == [op |-> "answer", req |-> work[w].req, target |-> work[w].target,
                   seen |-> state[PairOf(work[w].req)]]
  <2>1. /\ work[w].op = "respond" /\ work[w] # Idle
        /\ work' = [work EXCEPT ![w] = t] /\ UNCHANGED <<state, request, raced>>
    BY <1>3 DEF RespondReadPair, Idle
  <2>2. /\ PairInHand(t) = PairInHand(work[w])
        /\ StillApplies(work[w]) => StillApplies(t)
    BY <2>1 DEF PairInHand, StillApplies
  <2> HIDE DEF t
  <2> QED BY <2>1, <2>2, ReadKeepsPairs
<1>4. ASSUME NEW w \in Workers, Rollback(w) PROVE PairsInv'
  BY <1>4, ReadKeepsPairs DEF Rollback
<1>5. CASE UNCHANGED vars
  <2>1. UNCHANGED <<state, request, work, raced>>
    BY <1>5 DEF vars
  <2> QED BY <2>1, SameRows DEF PairsInv, Undisturbed, OnPair
<1> QED BY <1>1, <1>2, <1>3, <1>4, <1>5, SendCommitPairs, RespondCommitPairs DEF Next

LEMMA InitPairs == Init => PairsInv
<1> SUFFICES ASSUME Init, NEW p \in Pairs PROVE Undisturbed(p)
  BY DEF PairsInv
<1>1. Sent = {} /\ OnPair(p) = {} /\ state[p] = NoRow
  BY DEF Init, Sent, OnPair
<1>2. \A S : InStatus(p, S) = {}
  BY <1>1 DEF InStatus, RequestsOf
<1> QED BY <1>1, <1>2, NoRowAssumption DEF Undisturbed, CollaborationState

THEOREM PairsInductive == Spec => []PairsInv
<1>1. Spec => []IInv
  BY Inductive
<1> QED BY <1>1, InitPairs, NextPairs, PTL DEF Spec

\* The row of a pair whose handlers never overlapped says where its requests stand,
\* whatever overlaps on other pairs.
THEOREM RowSaysWhereTheyStand == Spec => []StateMatchesRequests
<1>1. PairsInv => StateMatchesRequests
  BY DEF PairsInv, Undisturbed, StateMatchesRequests
<1> QED BY <1>1, PairsInductive, PTL

-----------------------------------------------------------------------------
(* The service implements the relationship of its pairs                      *)

\* The refinement mapping, named: what a pair's people see.
Standing == [p \in Pairs |-> IF state[p] = NoRow THEN "none" ELSE state[p]]
Asking(p) == {request[q].sender : q \in InStatus(p, {"pending"})}
WhoAsks == [p \in Pairs |-> Asking(p)]

\* Those who ask are of the pair they ask.
LEMMA AskersAreOfThePair ==
    ASSUME NEW p \in Pairs
    PROVE  Asking(p)' \in SUBSET p
<1> SUFFICES ASSUME NEW q \in InStatus(p, {"pending"})' PROVE request'[q].sender \in p
  BY DEF Asking
<1> QED BY DEF InStatus, RequestsOf, PairOf

LEMMA InitRefines == Init => Relationship!Init
<1> SUFFICES ASSUME Init PROVE Relationship!Init
  OBVIOUS
<1>1. Standing = [p \in Pairs |-> "none"]
  BY DEF Init, Standing
<1>2. Sent = {}
  BY DEF Init, Sent
<1>3. \A p \in Pairs : Asking(p) = {}
  BY <1>2 DEF Asking, InStatus, RequestsOf
<1>4. WhoAsks = [p \in Pairs |-> {}]
  BY <1>3 DEF WhoAsks
<1> QED BY <1>1, <1>4 DEF Relationship!Init, Init, Standing, WhoAsks, Asking

\* What is left to show of a step: it does on one pair what the relationship may do.
LEMMA StepRefines ==
    ASSUME NEW p \in Pairs,
           \/ /\ p \notin raced /\ raced' = raced
              /\ \/ \E u \in p : /\ Standing[p] \in {"none", "ended"}
                                 /\ Standing' = [Standing EXCEPT ![p] = "requested"]
                                 /\ WhoAsks' = [WhoAsks EXCEPT ![p] = {u}]
                 \/ \E outcome \in {"active", "none"} :
                      /\ Standing[p] = "requested"
                      /\ Standing' = [Standing EXCEPT ![p] = outcome]
                      /\ WhoAsks' = [WhoAsks EXCEPT ![p] = {}]
                 \/ /\ Standing[p] = "active"
                    /\ Standing' = [Standing EXCEPT ![p] = "ended"]
                    /\ WhoAsks' = WhoAsks
           \/ /\ p \notin raced /\ raced' = raced \cup {p}
              /\ Standing' = Standing /\ WhoAsks' = WhoAsks
           \/ /\ p \in raced /\ raced' = raced
              /\ \E s \in {"none", "requested", "active", "ended"}, A \in SUBSET p :
                   /\ Standing' = [Standing EXCEPT ![p] = s]
                   /\ WhoAsks' = [WhoAsks EXCEPT ![p] = A]
    PROVE  Relationship!Next
BY DEF Relationship!Next, Relationship!Kept, Relationship!Ask, Relationship!Answer,
       Relationship!End, Relationship!Race, Relationship!Lost, Standing, WhoAsks, Asking

LEMMA StutterRefines ==
    ASSUME Standing' = Standing, WhoAsks' = WhoAsks, raced' = raced
    PROVE  UNCHANGED Relationship!vars
BY DEF Relationship!vars, Standing, WhoAsks, Asking

\* With the same rows, the pair's people see the same.
LEMMA SameRowsSeenSame ==
    ASSUME UNCHANGED <<state, request>>
    PROVE  Standing' = Standing /\ WhoAsks' = WhoAsks
<1>1. \A p : Asking(p)' = Asking(p)
  BY DEF Asking, InStatus, RequestsOf, Sent, PairOf
<1> QED BY <1>1 DEF Standing, WhoAsks

\* A change of one pair's row, and of its requests, is a change of what its people see.
LEMMA OnePairChanges ==
    ASSUME TypeOK, TypeOK', NEW p \in Pairs, state'[p] # NoRow,
           \A x \in Pairs : x # p => state'[x] = state[x] /\ Asking(x)' = Asking(x)
    PROVE  /\ Standing' = [Standing EXCEPT ![p] = state'[p]]
           /\ WhoAsks' = [WhoAsks EXCEPT ![p] = Asking(p)']
BY DEF Standing, WhoAsks

LEMMA SendCommitRefines ==
    ASSUME IInv, PairsInv, TypeOK', NEW w \in Workers, SendCommit(w)
    PROVE  Relationship!Next
<1>1. PICK p \in Pairs, q \in Requests :
         /\ work[w] # Idle /\ p = PairInHand(work[w]) /\ work[w].op = "send"
         /\ work[w].sender \in p /\ work[w].seen \in {NoRow, "none", "ended"}
         /\ state' = [state EXCEPT ![p] = "requested"]
         /\ work' = [work EXCEPT ![w] = Idle]
         /\ q \notin Sent /\ request'[q].sender = work[w].sender
         /\ \A r \in Sent : request'[r] = request[r] /\ PairOf(r)' = PairOf(r)
         /\ \A x, S : InStatus(x, S)' =
                InStatus(x, S) \cup (IF x = p /\ "pending" \in S THEN {q} ELSE {})
  BY SendCommitEffect
<1>2. raced' = raced /\ state'[p] = "requested" /\ \A x \in Pairs : x # p => state'[x] = state[x]
  BY <1>1 DEF SendCommit, IInv, TypeOK
<1>3. \A x \in Pairs : x # p => Asking(x)' = Asking(x)
  <2> SUFFICES ASSUME NEW x \in Pairs, x # p PROVE Asking(x)' = Asking(x)
    OBVIOUS
  <2>1. InStatus(x, {"pending"})' = InStatus(x, {"pending"})
    BY <1>1
  <2>2. \A r \in InStatus(x, {"pending"}) : request'[r] = request[r]
    BY <1>1 DEF InStatus, RequestsOf
  <2> QED BY <2>1, <2>2 DEF Asking
<1>4. /\ Standing' = [Standing EXCEPT ![p] = "requested"]
      /\ WhoAsks' = [WhoAsks EXCEPT ![p] = Asking(p)']
  BY <1>2, <1>3, NoRowAssumption, OnePairChanges DEF IInv, CollaborationState
<1>5. CASE p \in raced
  BY <1>2, <1>4, <1>5, AskersAreOfThePair, StepRefines
<1>6. CASE p \notin raced
  <2>1. Undisturbed(p) /\ w \in OnPair(p)
    BY <1>1, <1>6 DEF PairsInv, OnPair
  <2>2. state[p] \in {NoRow, "none", "ended"} /\ state[p] \notin {"requested", "active"}
    BY <1>1, <2>1, NoRowAssumption DEF Undisturbed, StillApplies, CollaborationState
  <2>3. Standing[p] \in {"none", "ended"}
    BY <2>2 DEF Standing
  <2>4. InStatus(p, {"pending"})' = {q}
    BY <1>1, <2>1, <2>2 DEF Undisturbed
  <2>5. Asking(p)' = {work[w].sender}
    BY <1>1, <2>4 DEF Asking
  <2>6. work[w].sender \in p
    BY <1>1
  <2> QED BY <1>2, <1>4, <1>6, <2>3, <2>5, <2>6, StepRefines
<1> QED BY <1>5, <1>6

LEMMA RespondCommitRefines ==
    ASSUME IInv, PairsInv, TypeOK', NEW w \in Workers, RespondCommit(w)
    PROVE  Relationship!Next \/ UNCHANGED Relationship!vars
<1> DEFINE t == work[w]
<1>1. PICK p \in Pairs, q \in Sent :
         /\ t # Idle /\ p = PairInHand(t) /\ t.op = "answer"
         /\ q = t.req /\ q \in RequestsOf(p)
         /\ state' = IF t.seen = StateAfter(t.target) THEN state
                     ELSE [state EXCEPT ![p] = StateAfter(t.target)]
         /\ work' = [work EXCEPT ![w] = Idle]
         /\ request'[q].status = t.target
         /\ Sent' = Sent
         /\ \A r \in Sent : r # q => request'[r] = request[r]
         /\ \A r \in Sent : PairOf(r)' = PairOf(r) /\ request'[r].sender = request[r].sender
         /\ \A x : RequestsOf(x)' = RequestsOf(x)
  BY RespondCommitEffect
<1>2. raced' = raced /\ \A x \in Pairs : x # p => state'[x] = state[x]
  BY <1>1 DEF RespondCommit, IInv, TypeOK
<1>3. state[p] # NoRow /\ state'[p] # NoRow /\ state'[p] \in CollaborationState
  <2>1. state[p] # NoRow
    BY <1>1 DEF IInv, SentBetweenTwo, RequestsOf
  <2>2. StateAfter(t.target) \in CollaborationState
    BY DEF StateAfter, CollaborationState
  <2> QED BY <1>1, <2>1, <2>2, NoRowAssumption DEF IInv, TypeOK
<1>4. \A x \in Pairs : x # p => Asking(x)' = Asking(x)
  <2> SUFFICES ASSUME NEW x \in Pairs, x # p PROVE Asking(x)' = Asking(x)
    OBVIOUS
  <2>1. \A r \in RequestsOf(x) : request'[r] = request[r]
    BY <1>1 DEF RequestsOf
  <2>2. InStatus(x, {"pending"})' = InStatus(x, {"pending"})
    BY <1>1, <2>1 DEF InStatus
  <2> QED BY <2>1, <2>2 DEF Asking, InStatus
<1>5. /\ Standing' = [Standing EXCEPT ![p] = state'[p]]
      /\ WhoAsks' = [WhoAsks EXCEPT ![p] = Asking(p)']
  BY <1>2, <1>3, <1>4, OnePairChanges DEF IInv
<1>6. CASE p \in raced
  BY <1>2, <1>3, <1>5, <1>6, AskersAreOfThePair, StepRefines DEF CollaborationState
<1>7. CASE p \notin raced
  <2>1. /\ Undisturbed(p) /\ t.seen = state[p]
        /\ TransitionParties(request[q].status, t.target) # {}
    BY <1>1, <1>7 DEF PairsInv, OnPair, Undisturbed, StillApplies
  <2>2. InStatus(p, {"pending"})' =
            (InStatus(p, {"pending"}) \ {q}) \cup (IF t.target \in {"pending"} THEN {q} ELSE {})
    BY <1>1, AnswerMovesOne
  <2>3. state'[p] = StateAfter(t.target) /\ Standing[p] = state[p]
    BY <1>1, <1>3, <2>1 DEF IInv, TypeOK, Standing
  <2>4. \/ request[q].status = "pending" /\ t.target \in {"accepted", "declined", "cancelled"}
        \/ request[q].status = "accepted" /\ t.target = "ended"
    BY <2>1 DEF TransitionParties
  <2>5. CASE request[q].status = "pending"
    <3>1. q \in InStatus(p, {"pending"})
      BY <1>1, <2>5 DEF InStatus
    <3>2. InStatus(p, {"pending"}) \subseteq InStatus(p, {"pending", "accepted"})
      BY DEF InStatus
    <3>3. InStatus(p, {"pending"})' = {} /\ state[p] = "requested"
      BY <2>1, <2>2, <2>4, <2>5, <3>1, <3>2 DEF Undisturbed
    <3>4. Asking(p)' = {} /\ state'[p] \in {"active", "none"}
      BY <2>3, <2>4, <2>5, <3>3 DEF Asking, StateAfter
    <3> QED BY <1>2, <1>5, <1>7, <2>3, <3>3, <3>4, StepRefines
  <2>6. CASE request[q].status = "accepted"
    <3>1. q \in InStatus(p, {"accepted"})
      BY <1>1, <2>6 DEF InStatus
    <3>2. state[p] = "active" /\ InStatus(p, {"pending"}) = {} /\ state'[p] = "ended"
      BY <2>1, <2>3, <2>4, <2>6, <3>1 DEF Undisturbed, StateAfter
    <3>3. InStatus(p, {"pending"})' = {}
      BY <2>2, <2>4, <2>6, <3>2
    <3>4. Asking(p)' = Asking(p)
      BY <3>2, <3>3 DEF Asking
    <3>5. WhoAsks' = WhoAsks
      BY <1>5, <3>4 DEF WhoAsks
    <3> QED BY <1>2, <1>5, <1>7, <2>3, <3>2, <3>5, StepRefines
  <2> QED BY <2>4, <2>5, <2>6
<1> QED BY <1>6, <1>7

\* A handler that begins on a pair can do no more than end the promise to it.
LEMMA BeginRefines ==
    ASSUME NEW w \in Workers, NEW p \in Pairs, NEW t, BeginOn(w, p, t),
           UNCHANGED <<state, request, thread>>
    PROVE  Relationship!Next \/ UNCHANGED Relationship!vars
<1>1. Standing' = Standing /\ WhoAsks' = WhoAsks
  BY SameRowsSeenSame
<1>2. CASE raced' = raced
  BY <1>1, <1>2, StutterRefines
<1>3. CASE raced' # raced
  <2>1. p \notin raced /\ raced' = raced \cup {p}
    BY <1>3 DEF BeginOn
  <2> QED BY <1>1, <2>1, StepRefines
<1> QED BY <1>2, <1>3

LEMMA NextRefines ==
    ASSUME IInv, PairsInv, TypeOK', [Next]_vars
    PROVE  Relationship!Next \/ UNCHANGED Relationship!vars
<1>1. ASSUME NEW w \in Workers, NEW s \in Users, NEW r \in Users, SendLoad(w, s, r)
      PROVE  Relationship!Next \/ UNCHANGED Relationship!vars
  BY <1>1, PairIsPair, BeginRefines DEF SendLoad
<1>2. ASSUME NEW w \in Workers, NEW u \in Users, NEW q \in Requests,
             NEW target \in CollaborationStatus, RespondLoad(w, u, q, target)
      PROVE  Relationship!Next \/ UNCHANGED Relationship!vars
  BY <1>2, PairOfSent, BeginRefines DEF RespondLoad, IInv
<1>3. ASSUME UNCHANGED <<state, request, raced>>
      PROVE  Relationship!Next \/ UNCHANGED Relationship!vars
  BY <1>3, SameRowsSeenSame, StutterRefines
<1>4. ASSUME NEW w \in Workers, RespondReadPair(w) \/ Rollback(w)
      PROVE  Relationship!Next \/ UNCHANGED Relationship!vars
  BY <1>3, <1>4 DEF RespondReadPair, Rollback
<1>5. CASE UNCHANGED vars
  BY <1>3, <1>5 DEF vars
<1> QED BY <1>1, <1>2, <1>4, <1>5, SendCommitRefines, RespondCommitRefines DEF Next

\* For every pair whose handlers never overlap, the rows and handlers of the service are
\* one question at a time between its two people.
THEOREM ServiceImplementsRelationship == Spec => ImplementsRelationship
<1>1. IInv /\ PairsInv /\ IInv' /\ [Next]_vars => [Relationship!Next]_Relationship!vars
  BY NextRefines DEF IInv
<1>2. Spec => []IInv /\ []PairsInv
  BY Inductive, PairsInductive
<1>3. Spec => Relationship!Init /\ [][Relationship!Next]_Relationship!vars
  BY <1>1, <1>2, InitRefines, PTL DEF Spec
<1> QED BY <1>3 DEF ImplementsRelationship, Relationship!Spec

=============================================================================
