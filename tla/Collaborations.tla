---------------------------- MODULE Collaborations ----------------------------
(***************************************************************************)
(* Collaboration requests between two people and the relationship row of   *)
(* their pair: backend/app/modules/collaborations/service.py over the      *)
(* tables of collaborations/models.py.                                     *)
(*                                                                         *)
(* Route handlers run in a thread pool, each in one READ COMMITTED         *)
(* transaction that takes no row lock before it writes.  A handler is      *)
(* therefore its reads, each on what was committed at that moment and kept *)
(* in work[w], and one commit that writes what the service computed from   *)
(* them.  Some promises hold only for a pair whose handlers never           *)
(* overlapped: the ghost raced remembers those whose did.                  *)
(***************************************************************************)
EXTENDS Naturals, FiniteSets

CONSTANTS
    Users,        \* the accounts
    Contactable,  \* those can_contact lets anybody write to
    Requests,     \* primary keys of collaboration_requests; bounds how many are sent
    Workers,      \* handlers that may be in flight at once
    NoRow         \* what a query answers when there is no such row

ASSUME ContactableAssumption == Contactable \subseteq Users

CollaborationStatus == {"pending", "accepted", "declined", "cancelled", "ended"}
CollaborationState == {"none", "requested", "active", "ended"}

\* The pair as the table keys it: normalise_pair makes {a, b} and {b, a} one row.
Pairs == {{u, v} : u, v \in Users} \ {{u} : u \in Users}

\* TRANSITIONS: who may move a request from one status to another.
TransitionParties(from, to) ==
    CASE from = "pending" /\ to \in {"accepted", "declined"} -> {"recipient"}
      [] from = "pending" /\ to = "cancelled"                -> {"sender"}
      [] from = "accepted" /\ to = "ended"                   -> {"sender", "recipient"}
      [] OTHER                                               -> {}

\* Fault: a refusal ends a collaboration that never was.
StateAfterRefusalEnds(status) == IF status = "accepted" THEN "active" ELSE "ended"

\* Fault: the pair is left with the status of the request.
StateAfterIsStatus(status) == status

\* _STATE_AFTER: where a request's outcome leaves the pair.
StateAfter(status) ==
    CASE status = "accepted" -> "active"
      [] status = "ended"    -> "ended"
      [] OTHER               -> "none"

VARIABLES
    state,    \* state[p]: Collaboration.state of the pair's row, or NoRow
    request,  \* request[q]: the row [sender, recipient, status], or NoRow
    thread,   \* the pairs that have a conversation
    work,     \* work[w]: what handler w has read so far
    raced     \* ghost: the pairs two handlers were in flight on at once

vars == <<state, request, thread, work, raced>>

Idle == [op |-> "idle"]
RequestRow == [sender : Users, recipient : Users, status : CollaborationStatus]

ASSUME NoRowAssumption == NoRow \notin RequestRow \cup CollaborationState

SendWork == [op : {"send"}, sender : Users, recipient : Users,
             seen : {NoRow, "none", "ended"}]
RespondWork == [op : {"respond"}, req : Requests, target : CollaborationStatus]
AnswerWork == [op : {"answer"}, req : Requests, target : CollaborationStatus,
               seen : CollaborationState \cup {NoRow}]
Work == {Idle} \cup SendWork \cup RespondWork \cup AnswerWork

Sent == {q \in Requests : request[q] # NoRow}
PairOf(q) == {request[q].sender, request[q].recipient}
RequestsOf(p) == {q \in Sent : PairOf(q) = p}
InStatus(p, S) == {q \in RequestsOf(p) : request[q].status \in S}

Init ==
    /\ state = [p \in Pairs |-> NoRow]
    /\ request = [q \in Requests |-> NoRow]
    /\ thread = {}
    /\ work = [w \in Workers |-> Idle]
    /\ raced = {}

\* The pair a handler in flight is about.
PairInHand(t) == IF t.op = "send" THEN {t.sender, t.recipient} ELSE PairOf(t.req)

\* A handler on pair p begins; whoever is on it already makes it a race.
BeginOn(w, p, t) ==
    /\ work[w] = Idle
    /\ work' = [work EXCEPT ![w] = t]
    /\ raced' = IF \E v \in Workers : work[v] # Idle /\ PairInHand(work[v]) = p
                THEN raced \cup {p} ELSE raced

-----------------------------------------------------------------------------
(* send_request *)

\* Fault: only a question that is waiting stops another one.
MayRequestIfNotAsked(p) == state[p] # "requested"

\* "Nothing to ask for: they are already talking, or already asked."
MayRequest(p) == state[p] \notin {"requested", "active"}

\* get_or_create_collaboration inserts a row if it saw none, which
\* uq_collaborations_pair lets through only while there still is none.
UniquePair(seen, p) == seen = NoRow => state[p] = NoRow

\* The recipient check, then the pair's row as it is committed now.  A pair
\* that is REQUESTED or ACTIVE raises AlreadyCollaboratingError.
SendLoad(w, s, r) ==
    /\ s # r
    /\ r \in Contactable
    /\ MayRequest({s, r})
    /\ BeginOn(w, {s, r}, [op |-> "send", sender |-> s, recipient |-> r,
                           seen |-> state[{s, r}]])
    /\ UNCHANGED <<state, request, thread>>

SendCommit(w) ==
    /\ work[w].op = "send"
    /\ LET t == work[w]
           p == {t.sender, t.recipient}
       IN  /\ UniquePair(t.seen, p)
           /\ state' = [state EXCEPT ![p] = "requested"]
           /\ \E q \in Requests :
                /\ request[q] = NoRow
                /\ request' = [request EXCEPT ![q] =
                     [sender |-> t.sender, recipient |-> t.recipient, status |-> "pending"]]
    /\ work' = [work EXCEPT ![w] = Idle]
    /\ UNCHANGED <<thread, raced>>

-----------------------------------------------------------------------------
(* respond: accept, decline, cancel and end *)

PartyOf(u, q) == IF request[q].sender = u THEN "sender" ELSE "recipient"

AssertTransition(u, q, target) ==
    PartyOf(u, q) \in TransitionParties(request[q].status, target)

AnsweredRow(row, target) == [row EXCEPT !.status = target]

\* "Saying yes is what creates somewhere to talk."
OpensThread(target) == target = "accepted"

\* _load and assert_transition on the status read here.
RespondLoad(w, u, q, target) ==
    /\ request[q] # NoRow
    /\ u \in PairOf(q)
    /\ AssertTransition(u, q, target)
    /\ BeginOn(w, PairOf(q), [op |-> "respond", req |-> q, target |-> target])
    /\ UNCHANGED <<state, request, thread>>

\* db.get(Collaboration, ...), a read of its own.
RespondReadPair(w) ==
    /\ work[w].op = "respond"
    /\ work' = [work EXCEPT ![w] = [op |-> "answer", req |-> work[w].req,
                                    target |-> work[w].target,
                                    seen |-> state[PairOf(work[w].req)]]]
    /\ UNCHANGED <<state, request, thread, raced>>

\* The unit of work updates the pair's row only if its state differs from the
\* one it loaded.  Accepting opens the thread in a savepoint whose failure is
\* logged and swallowed; a thread the pair already has is used again.
RespondCommit(w) ==
    /\ work[w].op = "answer"
    /\ LET t == work[w]
           p == PairOf(t.req)
           after == StateAfter(t.target)
       IN  /\ request' = [request EXCEPT ![t.req] = AnsweredRow(@, t.target)]
           /\ state' = IF t.seen = after THEN state ELSE [state EXCEPT ![p] = after]
           /\ thread' \in {thread} \cup (IF OpensThread(t.target) THEN {thread \cup {p}} ELSE {})
    /\ work' = [work EXCEPT ![w] = Idle]
    /\ UNCHANGED raced

\* Any error before the commit (the unique pair's IntegrityError is one) rolls
\* the whole transaction back.
Rollback(w) ==
    /\ work[w] # Idle
    /\ work' = [work EXCEPT ![w] = Idle]
    /\ UNCHANGED <<state, request, thread, raced>>

Next ==
    \E w \in Workers :
        \/ \E s, r \in Users : SendLoad(w, s, r)
        \/ SendCommit(w)
        \/ \E u \in Users, q \in Requests, target \in CollaborationStatus :
              RespondLoad(w, u, q, target)
        \/ RespondReadPair(w)
        \/ RespondCommit(w)
        \/ Rollback(w)

Spec == Init /\ [][Next]_vars

-----------------------------------------------------------------------------
(* Properties that hold however handlers interleave *)

\* Every variable has its type.
TypeOK ==
    /\ state \in [Pairs -> CollaborationState \cup {NoRow}]
    /\ request \in [Requests -> RequestRow \cup {NoRow}]
    /\ thread \subseteq Pairs
    /\ work \in [Workers -> Work]
    /\ raced \subseteq Pairs

\* Two people who meet for the first time, each asking the other at the same
\* moment, leave one request behind and not two: as long as no request of the
\* pair has been answered there is at most one.  The unique constraint on the
\* pair is what send_request's comment relies on for this.
OneFirstRequest ==
    \A p \in Pairs :
        (\A q \in RequestsOf(p) : request[q].status = "pending")
            => \A q1, q2 \in RequestsOf(p) : q1 = q2

\* There is no channel to anyone who has not been asked and answered: a pair
\* with a thread, or whose row says active or ended, has a request that was
\* answered.  (ADR 0022, quoted where respond opens the thread.)
ChannelNeedsAnswer ==
    \A p \in Pairs :
        p \in thread \/ state[p] \in {"active", "ended"}
            => \E q \in RequestsOf(p) : request[q].status # "pending"

-----------------------------------------------------------------------------
(* Properties of a pair whose handlers never overlapped, whatever other pairs *)
(* went through meanwhile                                                   *)

\* The row says where the pair stands, "derived from their requests, stored so
\* the interface can ask one question": requested with one pending request and
\* nothing accepted, active with one accepted request and nothing pending, and
\* otherwise neither.
StateMatchesRequests ==
    \A p \in Pairs \ raced :
        /\ state[p] = "requested" <=> InStatus(p, {"pending"}) # {}
        /\ state[p] = "active" <=> InStatus(p, {"accepted"}) # {}
        /\ \A q1, q2 \in InStatus(p, {"pending", "accepted"}) : q1 = q2

\* The relationship as its two people see it: a missing row is no relationship,
\* and the questions waiting are those of the pending requests.
Relationship ==
    INSTANCE PairRelationship WITH
        standing <- [p \in Pairs |-> IF state[p] = NoRow THEN "none" ELSE state[p]],
        askers <- [p \in Pairs |-> {request[q].sender : q \in InStatus(p, {"pending"})}]

\* The service implements one question at a time per pair, for every pair whose
\* handlers do not overlap, however those of other pairs do.
ImplementsRelationship == Relationship!Spec
=============================================================================
