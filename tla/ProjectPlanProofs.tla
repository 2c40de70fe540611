--------------------------- MODULE ProjectPlanProofs ---------------------------
(***************************************************************************)
(* Proofs about ProjectPlan, for any number of milestones, positions and   *)
(* concurrent handlers.  The invariant has a part per promise, and each    *)
(* part is proved on its own from the types: the workflow, the record of a *)
(* completion, the dependencies.                                           *)
(***************************************************************************)
EXTENDS ProjectPlan, TLAPS

LEMMA WorkShape ==
    ASSUME work \in [Workers -> Work], NEW w \in Workers
    PROVE  /\ work[w].op = "status" => work[w] \in StatusWork
           /\ work[w].op \in {"append", "insert", "place"} => work[w] \in PlaceWork
           /\ work[w].op \in {"retitle", "drop"} => work[w] \in RowWork
           /\ work[w].op = "move" => work[w] \in MoveWork
           /\ work[w].op \in {"depend", "release"} => work[w] \in EdgeWork
<1>1. work[w] \in Work
  OBVIOUS
<1>2. CASE work[w] \in {Idle, [op |-> "delete"], [op |-> "edit"], [op |-> "clashed"]}
  BY <1>2 DEF Idle
<1>3. CASE work[w] \in StatusWork
  BY <1>3 DEF StatusWork
<1>4. CASE work[w] \in PlaceWork
  BY <1>4 DEF PlaceWork
<1>5. CASE work[w] \in RowWork
  BY <1>5 DEF RowWork
<1>6. CASE work[w] \in MoveWork
  BY <1>6 DEF MoveWork
<1>7. CASE work[w] \in EdgeWork
  BY <1>7 DEF EdgeWork
<1> QED BY <1>1, <1>2, <1>3, <1>4, <1>5, <1>6, <1>7 DEF Work

-----------------------------------------------------------------------------
(* The steps, by what they are to the three promises *)

\* A handler that starts: what it has in hand, and what it found.
LEMMA LoadCases ==
    ASSUME TypeOK, NEW w \in Workers, Load(w)
    PROVE  \E t \in Work :
             /\ Begin(w, t)
             /\ t.op \in {"status", "delete"} \cup EditOps
             /\ t.op \in EditOps => MayEdit /\ ~deleted
             /\ t.op = "delete" => status = "draft" /\ ~deleted
             /\ t.op = "status" =>
                  \/ t.to = "archived"
                  \/ ~deleted /\ \E by \in {"owner", "reviewer", "admin"} :
                                   <<status, t.to, by>> \in ProjectTransitions
             /\ t.op \in {"append", "insert"} => Fresh(t.m)
             /\ t.op \in PlanOps \ {"append", "insert", "release"} => t.m \in Planned
             /\ t.op = "move" =>
                  /\ t.seen = plan[t.m].completed
                  /\ \E by \in {"owner", "member"} :
                       <<plan[t.m].status, t.to, by>> \in MilestoneTransitions
             /\ t.op = "depend" => ~ClosesCycle(t.m, t.on)
<1> USE DEF EditOps, PlanOps
<1>1. ASSUME NEW to \in ProjectStatus, NEW by \in {"owner", "reviewer", "admin"},
             StatusLoad(w, to, by)
      PROVE  \E t \in Work : /\ Begin(w, t) /\ t.op = "status" /\ ~deleted
                             /\ <<status, t.to, by>> \in ProjectTransitions
  <2> DEFINE t == [op |-> "status", to |-> to]
  <2>1. t \in Work
    BY DEF Work, StatusWork
  <2> QED BY <1>1, <2>1 DEF StatusLoad
<1>2. CASE HideLoad(w)
  <2> DEFINE t == [op |-> "status", to |-> "archived"]
  <2>1. t \in Work
    BY DEF Work, StatusWork, ProjectStatus
  <2>2. Begin(w, t) /\ t.op = "status" /\ t.to = "archived"
    BY <1>2 DEF HideLoad
  <2> HIDE DEF t
  <2> QED BY <2>1, <2>2
<1>3. CASE DeleteLoad(w)
  <2> DEFINE t == [op |-> "delete"]
  <2>1. t \in Work /\ t.op = "delete"
    BY DEF Work
  <2>2. Begin(w, t) /\ status = "draft" /\ ~deleted
    BY <1>3 DEF DeleteLoad, MayDelete
  <2> HIDE DEF t
  <2> QED BY <2>1, <2>2
<1>4. CASE UpdateProjectLoad(w)
  <2> DEFINE t == [op |-> "edit"]
  <2>1. t \in Work /\ t.op = "edit"
    BY DEF Work
  <2>2. Begin(w, t) /\ MayEdit /\ ~deleted
    BY <1>4 DEF UpdateProjectLoad, EditBegin
  <2> HIDE DEF t
  <2> QED BY <2>1, <2>2
<1>5. ASSUME NEW m \in Milestones, NEW p \in Positions, AppendLoad(w, m, p) \/ InsertLoad(w, m, p)
      PROVE  \E t \in Work : /\ Begin(w, t) /\ t.op \in {"append", "insert"}
                             /\ Fresh(t.m) /\ MayEdit /\ ~deleted
  <2> DEFINE t(op) == [op |-> op, m |-> m, position |-> p]
  <2>1. \A op \in {"append", "insert"} : t(op) \in Work
    BY DEF Work, PlaceWork
  <2> QED BY <1>5, <2>1 DEF AppendLoad, InsertLoad, EditBegin
<1>6. ASSUME NEW m \in Milestones, NEW p \in Positions, PlaceLoad(w, m, p)
      PROVE  \E t \in Work : /\ Begin(w, t) /\ t.op = "place" /\ t.m \in Planned
                             /\ MayEdit /\ ~deleted
  <2> DEFINE t == [op |-> "place", m |-> m, position |-> p]
  <2>1. t \in Work
    BY DEF Work, PlaceWork
  <2> QED BY <1>6, <2>1 DEF PlaceLoad, EditBegin
<1>7. ASSUME NEW m \in Milestones, RowLoad(w, "retitle", m) \/ RowLoad(w, "drop", m)
      PROVE  \E t \in Work : /\ Begin(w, t) /\ t.op \in {"retitle", "drop"} /\ t.m \in Planned
                             /\ MayEdit /\ ~deleted
  <2> DEFINE t(op) == [op |-> op, m |-> m]
  <2>1. \A op \in {"retitle", "drop"} : t(op) \in Work
    BY DEF Work, RowWork
  <2> QED BY <1>7, <2>1 DEF RowLoad, EditBegin
<1>8. ASSUME NEW m \in Milestones, NEW to \in MilestoneStatus, NEW by \in {"owner", "member"},
             MoveLoad(w, m, to, by)
      PROVE  \E t \in Work : /\ Begin(w, t) /\ t.op = "move" /\ t.m \in Planned
                             /\ t.seen = plan[t.m].completed
                             /\ <<plan[t.m].status, t.to, by>> \in MilestoneTransitions
                             /\ MayEdit /\ ~deleted
  <2> DEFINE t == [op |-> "move", m |-> m, to |-> to, seen |-> plan[m].completed]
  <2>1. plan[m] \in Row
    BY <1>8 DEF MoveLoad, Planned, TypeOK
  <2>2. plan[m].completed \in BOOLEAN
    BY <2>1 DEF Row
  <2>3. t \in MoveWork
    BY <2>2 DEF MoveWork
  <2>4. t \in Work
    BY <2>3 DEF Work
  <2>5. Begin(w, t) /\ MayEdit /\ ~deleted
    BY <1>8 DEF MoveLoad, EditBegin
  <2>6. t.op = "move" /\ t.m = m /\ t.to = to /\ t.seen = plan[m].completed
    OBVIOUS
  <2>7. m \in Planned /\ <<plan[m].status, to, by>> \in MilestoneTransitions
    BY <1>8 DEF MoveLoad
  <2> HIDE DEF t
  <2> QED BY <2>4, <2>5, <2>6, <2>7, Zenon
<1>9. ASSUME NEW m \in Milestones, NEW on \in Milestones, DependLoad(w, m, on)
      PROVE  \E t \in Work : /\ Begin(w, t) /\ t.op = "depend" /\ t.m \in Planned
                             /\ ~ClosesCycle(t.m, t.on) /\ MayEdit /\ ~deleted
  <2> DEFINE t == [op |-> "depend", m |-> m, on |-> on]
  <2>1. t \in Work
    BY DEF Work, EdgeWork
  <2> QED BY <1>9, <2>1 DEF DependLoad, EditBegin
<1>10. ASSUME NEW m \in Milestones, NEW on \in Milestones, ReleaseLoad(w, m, on)
      PROVE  \E t \in Work : /\ Begin(w, t) /\ t.op = "release" /\ MayEdit /\ ~deleted
  <2> DEFINE t == [op |-> "release", m |-> m, on |-> on]
  <2>1. t \in Work
    BY DEF Work, EdgeWork
  <2> QED BY <1>10, <2>1 DEF ReleaseLoad, EditBegin
<1> QED BY <1>1, <1>2, <1>3, <1>4, <1>5, <1>6, <1>7, <1>8, <1>9, <1>10 DEF Load

-----------------------------------------------------------------------------
(* Types *)

LEMMA InitType == Init => TypeOK
BY DEF Init, TypeOK, ProjectStatus, Work

LEMMA RacedGrows ==
    ASSUME NEW w, NEW t, Begin(w, t)
    PROVE  /\ raced \subseteq raced'
           /\ raced' \subseteq raced \cup {"status", "moves", "dependencies"}
           /\ \A v \in Workers : Busy(v) => Overlap(t, v) \subseteq raced'
BY DEF Begin, Overlap

LEMMA BeginType ==
    ASSUME TypeOK, NEW w \in Workers, NEW t \in Work, Begin(w, t)
    PROVE  TypeOK'
<1>1. raced' \subseteq {"status", "moves", "dependencies"}
  BY RacedGrows DEF TypeOK
<1> QED BY <1>1 DEF Begin, TypeOK

\* The rows a shift leaves behind.
LEMMA ShiftedRows ==
    ASSUME TypeOK, NEW p \in Positions, HasRoom(p), NEW m \in Milestones
    PROVE  /\ Shifted(p)[m] \in Row \cup {NoRow}
           /\ (Shifted(p)[m] = NoRow) <=> (plan[m] = NoRow)
           /\ m \in Planned => /\ Shifted(p)[m].status = plan[m].status
                               /\ Shifted(p)[m].completed = plan[m].completed
<1>1. CASE m \notin Pushed(p)
  BY <1>1 DEF Shifted, Planned, TypeOK
<1>2. CASE m \in Pushed(p)
  <2>1. plan[m] \in Row
    BY <1>2 DEF Pushed, Planned, TypeOK
  <2>2. plan[m].position + 1 \in Positions
    BY <1>2, <2>1, PositionsAssumption DEF HasRoom, Positions, Row
  <2>3. Shifted(p)[m] = [plan[m] EXCEPT !.position = @ + 1]
    BY <1>2 DEF Shifted
  <2>4. Shifted(p)[m] = [status |-> plan[m].status, completed |-> plan[m].completed,
                         position |-> plan[m].position + 1]
    BY <2>1, <2>3 DEF Row
  <2>5. Shifted(p)[m] \in Row
    BY <2>1, <2>2, <2>4 DEF Row
  <2> QED BY <2>1, <2>4, <2>5, NoRowAssumption
<1> QED BY <1>1, <1>2

LEMMA NewRowIsRow ==
    ASSUME NEW p \in Positions
    PROVE  NewRow(p) \in Row /\ NewRow(p).status = "pending" /\ ~NewRow(p).completed
BY DEF NewRow, Row, MilestoneStatus

\* What a commit of the plan makes of the rows, shifted or not.
LEMMA ShiftCommitRows ==
    ASSUME TypeOK, NEW w \in Workers, ShiftCommit(w)
    PROVE  /\ work[w] \in PlaceWork
           /\ plan' \in [Milestones -> Row \cup {NoRow}]
           /\ \A m \in Milestones :
                \/ /\ (plan'[m] = NoRow) <=> (plan[m] = NoRow)
                   /\ m \in Planned => /\ plan'[m].status = plan[m].status
                                       /\ plan'[m].completed = plan[m].completed
                \/ /\ work[w].op = "insert" /\ m = work[w].m
                   /\ plan'[m].status = "pending" /\ ~plan'[m].completed
<1> DEFINE t == work[w]
           s == Shifted(t.position)
<1>1. t \in PlaceWork /\ t.position \in Positions /\ t.m \in Milestones
  BY WorkShape DEF ShiftCommit, TypeOK, PlaceWork
<1>2. HasRoom(t.position) /\ (t.op = "place" => t.m \in Planned)
  BY DEF ShiftCommit
<1>3. s \in [Milestones -> Row \cup {NoRow}]
  BY <1>1, <1>2, ShiftedRows DEF Shifted
<1>4. /\ \A m \in Milestones : m # t.m => plan'[m] = s[m]
      /\ plan'[t.m] = IF t.op = "insert" THEN NewRow(t.position)
                      ELSE [s[t.m] EXCEPT !.position = t.position]
      /\ plan' = [s EXCEPT ![t.m] = plan'[t.m]]
  BY <1>1, <1>3 DEF ShiftCommit
<1>5. CASE t.op = "insert"
  <2>1. plan'[t.m] = NewRow(t.position)
    BY <1>4, <1>5
  <2> HIDE DEF s
  <2>2. plan'[t.m] \in Row /\ plan'[t.m].status = "pending" /\ ~plan'[t.m].completed
    BY <1>1, <2>1, NewRowIsRow
  <2> QED BY <1>1, <1>2, <1>3, <1>4, <1>5, <2>2, ShiftedRows DEF s
<1>6. CASE t.op = "place"
  <2>1. s[t.m] \in Row /\ s[t.m].status = plan[t.m].status
                       /\ s[t.m].completed = plan[t.m].completed
    BY <1>1, <1>2, <1>6, ShiftedRows DEF Planned
  <2>2. plan'[t.m] = [s[t.m] EXCEPT !.position = t.position]
    BY <1>4, <1>6
  <2> HIDE DEF s
  <2>3. plan'[t.m] = [status |-> s[t.m].status, completed |-> s[t.m].completed,
                      position |-> t.position]
    BY <2>1, <2>2 DEF Row
  <2>4. plan'[t.m] \in Row /\ plan'[t.m].status = plan[t.m].status
                           /\ plan'[t.m].completed = plan[t.m].completed
    BY <1>1, <2>1, <2>3 DEF Row
  <2>5. plan[t.m] # NoRow
    BY <1>2, <1>6 DEF Planned
  <2>6. plan' \in [Milestones -> Row \cup {NoRow}]
    BY <1>1, <1>3, <1>4, <2>4
  <2>7. ASSUME NEW m \in Milestones
        PROVE  /\ (plan'[m] = NoRow) <=> (plan[m] = NoRow)
               /\ m \in Planned => /\ plan'[m].status = plan[m].status
                                   /\ plan'[m].completed = plan[m].completed
    <3>1. CASE m = t.m
      BY <2>4, <2>5, <3>1, NoRowAssumption
    <3>2. CASE m # t.m
      BY <1>1, <1>2, <1>4, <3>2, ShiftedRows DEF s
    <3> QED BY <3>1, <3>2
  <2> QED BY <1>1, <2>6, <2>7
<1>7. t.op \in {"insert", "place"}
  BY DEF ShiftCommit
<1> QED BY <1>5, <1>6, <1>7

\* change_status writes the status it was asked for.
LEMMA MoveCommitRows ==
    ASSUME TypeOK, NEW w \in Workers, MoveCommit(w)
    PROVE  /\ work[w] \in MoveWork /\ work[w].m \in Planned
           /\ plan' \in [Milestones -> Row \cup {NoRow}]
           /\ \A m \in Milestones : m # work[w].m => plan'[m] = plan[m]
           /\ plan'[work[w].m] \in Row
           /\ plan'[work[w].m].status = work[w].to
           /\ plan'[work[w].m].completed = CompletionAfter(work[w])
<1> DEFINE t == work[w]
           c == CompletionAfter(t)
<1>1. t \in MoveWork /\ t.m \in Planned
  BY WorkShape DEF MoveCommit, TypeOK
<1>2. plan[t.m] \in Row /\ t.m \in Milestones /\ t.to \in MilestoneStatus
  BY <1>1 DEF MoveWork, Planned, TypeOK
<1>3. c \in BOOLEAN
  BY DEF CompletionAfter
<1>4. /\ plan' \in [Milestones -> {plan'[m] : m \in Milestones}]
      /\ \A m \in Milestones : m # t.m => plan'[m] = plan[m]
      /\ plan'[t.m] = [plan[t.m] EXCEPT !.status = t.to, !.completed = c]
  BY <1>2 DEF MoveCommit, TypeOK
<1> HIDE DEF c
<1>5. plan'[t.m] = [status |-> t.to, completed |-> c, position |-> plan[t.m].position]
  BY <1>2, <1>4 DEF Row
<1>6. plan'[t.m] \in Row /\ plan'[t.m].status = t.to /\ plan'[t.m].completed = c
  BY <1>2, <1>3, <1>5 DEF Row
<1>7. plan' \in [Milestones -> Row \cup {NoRow}]
  BY <1>4, <1>6 DEF TypeOK
<1> QED BY <1>1, <1>4, <1>6, <1>7 DEF c

LEMMA CommitType ==
    ASSUME TypeOK, NEW w \in Workers, Commit(w) \/ Rollback(w)
    PROVE  TypeOK'
<1> USE DEF WritesPlan, WritesProject
<1>1. ASSUME End(w) PROVE work' \in [Workers -> Work]
  BY <1>1 DEF End, TypeOK, Work
<1>2. CASE StatusCommit(w)
  <2>1. work[w].to \in ProjectStatus
    BY <1>2, WorkShape DEF StatusCommit, StatusWork, TypeOK
  <2> QED BY <1>1, <1>2, <2>1 DEF StatusCommit, TypeOK
<1>3. CASE DeleteCommit(w) \/ UpdateProjectCommit(w) \/ RetitleCommit(w) \/ Rollback(w)
  BY <1>1, <1>3 DEF DeleteCommit, UpdateProjectCommit, RetitleCommit, Rollback, TypeOK
<1>4. CASE AppendCommit(w)
  <2>1. work[w].position \in Positions
    BY <1>4, WorkShape DEF AppendCommit, PlaceWork, TypeOK
  <2>2. NewRow(work[w].position) \in Row
    BY <2>1, NewRowIsRow
  <2> QED BY <1>1, <1>4, <2>2 DEF AppendCommit, TypeOK
<1>5. CASE ShiftCommit(w)
  BY <1>1, <1>5, ShiftCommitRows DEF ShiftCommit, TypeOK
<1>6. CASE ShiftClashes(w)
  BY <1>6 DEF ShiftClashes, TypeOK, Work
<1>7. CASE DropCommit(w)
  BY <1>1, <1>7 DEF DropCommit, TypeOK
<1>8. CASE MoveCommit(w)
  BY <1>1, <1>8, MoveCommitRows DEF MoveCommit, TypeOK
<1>9. CASE DependCommit(w)
  <2>1. work[w].m \in Milestones /\ work[w].on \in Milestones
    BY <1>9, WorkShape DEF DependCommit, EdgeWork, TypeOK
  <2> QED BY <1>1, <1>9, <2>1 DEF DependCommit, TypeOK
<1>10. CASE ReleaseCommit(w)
  BY <1>1, <1>10 DEF ReleaseCommit, TypeOK
<1> QED BY <1>2, <1>3, <1>4, <1>5, <1>6, <1>7, <1>8, <1>9, <1>10 DEF Commit

LEMMA NextType == TypeOK /\ [Next]_vars => TypeOK'
<1> SUFFICES ASSUME TypeOK, [Next]_vars PROVE TypeOK'
  OBVIOUS
<1>1. ASSUME NEW w \in Workers, Load(w) PROVE TypeOK'
  BY <1>1, LoadCases, BeginType
<1>2. CASE UNCHANGED vars
  BY <1>2 DEF vars, TypeOK
<1> QED BY <1>1, <1>2, CommitType DEF Next

-----------------------------------------------------------------------------
(* The workflow *)

\* What a handler in flight relies on, as long as no status handler overlapped.
WorkflowSound(t) ==
    /\ t.op \in EditOps => MayEdit /\ ~deleted
    /\ t.op = "delete" => status = "draft"
    /\ t.op = "status" => /\ t.to \in {"draft", "pending_review"} => ~approved
                          /\ t.to = "active" => ~deleted

\* A handler that writes the status is alone in flight.
AloneWithStatus(v) ==
    work[v].op \in StatusOps => \A u \in Workers : u # v => ~Busy(u)

WorkflowInv ==
    \/ "status" \in raced
    \/ /\ ~slipped
       /\ ~(deleted /\ approved)
       /\ status \in {"draft", "pending_review"} => ~approved
       /\ \A v \in Workers : WorkflowSound(work[v]) /\ AloneWithStatus(v)

LEMMA InitWorkflow == Init => WorkflowInv
BY DEF Init, WorkflowInv, WorkflowSound, AloneWithStatus, Idle, EditOps, PlanOps, StatusOps

LEMMA LoadWorkflow ==
    ASSUME TypeOK, WorkflowInv, NEW w \in Workers, Load(w)
    PROVE  WorkflowInv'
<1> USE DEF EditOps, PlanOps, StatusOps
<1>1. SUFFICES ASSUME "status" \notin raced' PROVE WorkflowInv'
  BY DEF WorkflowInv
<1>2. PICK t \in Work :
        /\ Begin(w, t)
        /\ t.op \in {"status", "delete"} \cup EditOps
        /\ t.op \in EditOps => MayEdit /\ ~deleted
        /\ t.op = "delete" => status = "draft" /\ ~deleted
        /\ t.op = "status" =>
             \/ t.to = "archived"
             \/ ~deleted /\ \E by \in {"owner", "reviewer", "admin"} :
                              <<status, t.to, by>> \in ProjectTransitions
  BY LoadCases
<1>3. "status" \notin raced
  BY <1>1, <1>2, RacedGrows
<1>4. \A v \in Workers : Busy(v) => work[v].op \notin StatusOps /\ t.op \notin StatusOps
  BY <1>1, <1>2, RacedGrows DEF Overlap
<1>5. /\ work'[w] = t /\ \A v \in Workers : v # w => work'[v] = work[v]
      /\ UNCHANGED <<status, deleted, approved, slipped>>
  BY <1>2 DEF Begin, TypeOK
<1>6. WorkflowSound(t)
  <2>1. t.op = "status" /\ t.to # "archived" =>
          /\ ~deleted
          /\ t.to \in {"draft", "pending_review"} => status \in {"draft", "pending_review"}
    BY <1>2 DEF ProjectTransitions
  <2> QED BY <1>2, <1>3, <2>1 DEF WorkflowSound, WorkflowInv
<1>7. ASSUME NEW v \in Workers PROVE WorkflowSound(work[v])'
  BY <1>3, <1>5, <1>6 DEF WorkflowSound, WorkflowInv, MayEdit
<1>8. ASSUME NEW v \in Workers PROVE AloneWithStatus(v)'
  BY <1>2, <1>3, <1>4, <1>5 DEF AloneWithStatus, Busy
<1> QED BY <1>3, <1>5, <1>7, <1>8 DEF WorkflowInv

\* A commit or rollback that leaves the project's own row alone.
LEMMA QuietWorkflow ==
    ASSUME TypeOK, WorkflowInv, NEW w \in Workers,
           UNCHANGED <<status, deleted, approved, raced>>,
           End(w) \/ work' = [work EXCEPT ![w] = [op |-> "clashed"]],
           slipped' = slipped \/ (/\ work[w].op \in EditOps
                                 /\ slipped' = (slipped \/ deleted \/ ~MayEdit))
    PROVE  WorkflowInv'
<1> USE DEF EditOps, PlanOps, StatusOps
<1>1. SUFFICES ASSUME "status" \notin raced PROVE WorkflowInv'
  BY DEF WorkflowInv
<1>2. \A v \in Workers : \/ work'[v] = work[v]
                         \/ work'[v] = Idle \/ work'[v] = [op |-> "clashed"]
  BY DEF End, TypeOK
<1>3. \A v \in Workers : WorkflowSound(work[v])'
  BY <1>1, <1>2 DEF WorkflowSound, WorkflowInv, MayEdit, Idle
<1>4. \A v \in Workers : AloneWithStatus(v)'
  BY <1>1, <1>2 DEF AloneWithStatus, WorkflowInv, Busy, Idle
<1>5. ~slipped'
  BY <1>1 DEF WorkflowInv, WorkflowSound
<1> QED BY <1>1, <1>3, <1>4, <1>5 DEF WorkflowInv

LEMMA CommitWorkflow ==
    ASSUME TypeOK, WorkflowInv, NEW w \in Workers, Commit(w) \/ Rollback(w)
    PROVE  WorkflowInv'
<1>1. CASE StatusCommit(w) \/ DeleteCommit(w)
  <2> USE DEF EditOps, PlanOps, StatusOps
  <2>1. SUFFICES ASSUME "status" \notin raced PROVE WorkflowInv'
    BY <1>1 DEF WorkflowInv, StatusCommit, DeleteCommit, WritesProject
  <2>2. \A v \in Workers : ~Busy(v)'
    <3>1. \A v \in Workers : v # w => ~Busy(v) /\ work'[v] = work[v]
      BY <1>1, <2>1 DEF StatusCommit, DeleteCommit, End, WorkflowInv, AloneWithStatus, TypeOK
    <3>2. work'[w] = Idle
      BY <1>1 DEF StatusCommit, DeleteCommit, End, TypeOK
    <3> QED BY <3>1, <3>2 DEF Busy, Idle
  <2>3. \A v \in Workers : WorkflowSound(work[v])' /\ AloneWithStatus(v)'
    BY <2>2 DEF WorkflowSound, AloneWithStatus, Busy
  <2>4. WorkflowSound(work[w])
    BY <2>1 DEF WorkflowInv
  <2>5. /\ ~slipped'
        /\ ~(deleted' /\ approved')
        /\ status' \in {"draft", "pending_review"} => ~approved'
    <3>1. /\ ~slipped /\ ~(deleted /\ approved)
          /\ status \in {"draft", "pending_review"} => ~approved
      BY <2>1 DEF WorkflowInv
    <3>2. CASE StatusCommit(w)
      <4>1. /\ work[w].op = "status" /\ status' = work[w].to
            /\ deleted' = deleted /\ slipped' = slipped
            /\ approved' => approved \/ work[w].to = "active"
        BY <3>2 DEF StatusCommit, WritesProject
      <4>2. /\ work[w].to \in {"draft", "pending_review"} => ~approved
            /\ work[w].to = "active" => ~deleted
        <5>1. work[w].op = "status"
          BY <4>1
        <5> QED BY <2>4, <5>1 DEF WorkflowSound
      <4>3. CASE work[w].to = "active"
        BY <3>1, <4>1, <4>2, <4>3
      <4>4. CASE work[w].to # "active"
        BY <3>1, <4>1, <4>2, <4>4
      <4> QED BY <4>3, <4>4
    <3>3. CASE DeleteCommit(w)
      <4>1. /\ work[w].op = "delete" /\ status' = status
            /\ approved' = approved /\ slipped' = slipped
        BY <3>3 DEF DeleteCommit, WritesProject
      <4>2. status = "draft"
        BY <2>4, <4>1 DEF WorkflowSound
      <4> QED BY <3>1, <4>1, <4>2
    <3> QED BY <1>1, <3>2, <3>3
  <2> QED BY <2>3, <2>5 DEF WorkflowInv
<1>2. CASE UpdateProjectCommit(w) \/ AppendCommit(w) \/ ShiftCommit(w) \/ RetitleCommit(w)
           \/ DropCommit(w) \/ MoveCommit(w) \/ DependCommit(w) \/ ReleaseCommit(w)
  <2>1. work[w].op \in EditOps /\ WritesPlan /\ End(w)
    BY <1>2 DEF UpdateProjectCommit, AppendCommit, ShiftCommit, RetitleCommit, DropCommit,
                MoveCommit, DependCommit, ReleaseCommit, EditOps, PlanOps
  <2> QED BY <2>1, QuietWorkflow DEF WritesPlan, MayEdit
<1>3. CASE ShiftClashes(w) \/ Rollback(w)
  BY <1>3, QuietWorkflow DEF ShiftClashes, Rollback
<1> QED BY <1>1, <1>2, <1>3 DEF Commit

-----------------------------------------------------------------------------
(* The record of a completion *)

\* The id of a milestone about to be created is nobody else's.
Reserved(v) ==
    work[v].op \in {"append", "insert"} =>
        /\ plan[work[v].m] = NoRow
        /\ \A u \in Workers :
             u # v /\ work[u].op \in {"append", "insert", "move"} => work[u].m # work[v].m

\* A move knows whether a completion is recorded, and no other is in flight.
MoveSound(v) ==
    work[v].op = "move" =>
        /\ work[v].m \in Planned => (work[v].seen <=> plan[work[v].m].completed)
        /\ \A u \in Workers : u # v => work[u].op # "move"

DoneIsDated == \A m \in Planned : plan[m].status = "done" => plan[m].completed
DatedIsDone == \A m \in Planned : plan[m].completed => plan[m].status = "done"

CompletionInv ==
    /\ \A v \in Workers : Reserved(v)
    /\ DoneIsDated
    /\ "moves" \in raced \/ (DatedIsDone /\ \A v \in Workers : MoveSound(v))

LEMMA InitCompletion == Init => CompletionInv
BY DEF Init, CompletionInv, Reserved, MoveSound, DoneIsDated, DatedIsDone, Planned, Idle

LEMMA LoadCompletion ==
    ASSUME TypeOK, CompletionInv, NEW w \in Workers, Load(w)
    PROVE  CompletionInv'
<1> USE DEF EditOps, PlanOps
<1>1. PICK t \in Work :
        /\ Begin(w, t)
        /\ t.op \in {"append", "insert"} => Fresh(t.m)
        /\ t.op = "move" => t.m \in Planned
        /\ t.op = "move" => t.seen = plan[t.m].completed
  BY LoadCases
<1>2. /\ work'[w] = t /\ \A v \in Workers : v # w => work'[v] = work[v]
      /\ plan' = plan /\ raced \subseteq raced'
  BY <1>1, RacedGrows DEF Begin, TypeOK
<1>3. ASSUME NEW v \in Workers PROVE Reserved(v)'
  <2>1. Reserved(v)
    BY DEF CompletionInv
  <2>2. CASE v = w
    BY <1>1, <1>2, <2>2 DEF Reserved, Fresh
  <2>3. CASE v # w
    <3>1. work'[v].op \in {"append", "insert"} /\ t.op \in {"append", "insert", "move"} =>
            t.m # work[v].m
      BY <1>1, <1>2, <2>1, <2>3 DEF Reserved, Fresh, Planned
    <3> QED BY <1>2, <2>1, <2>3, <3>1 DEF Reserved
  <2> QED BY <2>2, <2>3
<1>4. ASSUME "moves" \notin raced', NEW v \in Workers PROVE MoveSound(v)'
  <2>1. "moves" \notin raced /\ MoveSound(v)
    BY <1>2, <1>4 DEF CompletionInv
  <2>2. t.op = "move" => \A u \in Workers : work[u].op # "move"
    BY <1>1, <1>4, RacedGrows DEF Overlap, Busy
  <2>3. CASE v = w
    BY <1>1, <1>2, <2>2, <2>3 DEF MoveSound, Planned
  <2>4. CASE v # w
    BY <1>2, <2>1, <2>2, <2>4 DEF MoveSound, Planned
  <2> QED BY <2>3, <2>4
<1>5. DoneIsDated' /\ (DatedIsDone => DatedIsDone')
  BY <1>2 DEF CompletionInv, DoneIsDated, DatedIsDone, Planned
<1> QED BY <1>2, <1>3, <1>4, <1>5 DEF CompletionInv

\* A step that ends handler w and keeps of every row what it says of completion,
\* or drops it, or is the creation w reserved.
LEMMA QuietCompletion ==
    ASSUME TypeOK, CompletionInv, NEW w \in Workers, raced' = raced,
           End(w) \/ work' = [work EXCEPT ![w] = [op |-> "clashed"]],
           \A m \in Milestones :
             \/ plan'[m] = NoRow
             \/ /\ m \in Planned
                /\ plan'[m].status = plan[m].status
                /\ plan'[m].completed = plan[m].completed
             \/ /\ work[w].op \in {"append", "insert"} /\ m = work[w].m
                /\ plan'[m].status = "pending" /\ ~plan'[m].completed
    PROVE  CompletionInv'
<1>1. \A v \in Workers :
        \/ v # w /\ work'[v] = work[v]
        \/ v = w /\ (work'[v] = Idle \/ work'[v] = [op |-> "clashed"])
  BY DEF End, TypeOK
<1>2. \A v \in Workers : work[v].op \in {"append", "insert", "move"} => work[v].m \in Milestones
  BY WorkShape DEF TypeOK, PlaceWork, MoveWork
<1>3. ASSUME NEW v \in Workers PROVE Reserved(v)'
  <2>1. Reserved(v) /\ Reserved(w)
    BY DEF CompletionInv
  <2> QED BY <1>1, <1>2, <2>1 DEF Reserved, Planned, Idle
<1>4. ASSUME "moves" \notin raced, NEW v \in Workers PROVE MoveSound(v)'
  <2>1. MoveSound(v) /\ Reserved(w)
    BY <1>4 DEF CompletionInv
  <2>2. SUFFICES ASSUME work'[v].op = "move" PROVE MoveSound(v)'
    BY DEF MoveSound
  <2>3. v # w /\ work'[v] = work[v]
    BY <1>1, <2>2 DEF Idle
  <2>4. \A u \in Workers : u # v => work'[u].op # "move"
    BY <1>1, <2>1, <2>2, <2>3 DEF MoveSound, Idle
  <2>5. work[v].m \in Milestones /\ (work[w].op \in {"append", "insert"} => work[v].m # work[w].m)
    BY <1>2, <2>1, <2>2, <2>3 DEF Reserved
  <2>6. work[v].m \in Planned' => /\ work[v].m \in Planned
                                  /\ plan'[work[v].m].completed = plan[work[v].m].completed
    BY <2>5 DEF Planned
  <2> QED BY <2>1, <2>2, <2>3, <2>4, <2>6 DEF MoveSound
<1>5. DoneIsDated'
  BY DEF CompletionInv, DoneIsDated, Planned
<1>6. DatedIsDone => DatedIsDone'
  BY DEF DatedIsDone, Planned
<1> QED BY <1>3, <1>4, <1>5, <1>6 DEF CompletionInv

LEMMA MoveCompletion ==
    ASSUME TypeOK, CompletionInv, NEW w \in Workers, MoveCommit(w)
    PROVE  CompletionInv'
<1> DEFINE t == work[w]
<1>1. /\ t \in MoveWork /\ t.op = "move" /\ t.m \in Planned
      /\ \A m \in Milestones : m # t.m => plan'[m] = plan[m]
      /\ plan'[t.m] # NoRow
      /\ plan'[t.m].status = t.to
      /\ plan'[t.m].completed = CompletionAfter(t)
  BY MoveCommitRows, NoRowAssumption DEF MoveCommit
<1>2. /\ work'[w] = Idle /\ \A v \in Workers : v # w => work'[v] = work[v]
      /\ raced' = raced /\ t.m \in Milestones
  BY <1>1 DEF MoveCommit, End, WritesPlan, TypeOK, Planned
<1>3. ASSUME NEW v \in Workers PROVE Reserved(v)'
  <2>1. Reserved(v)
    BY DEF CompletionInv
  <2>2. SUFFICES ASSUME work'[v].op \in {"append", "insert"} PROVE Reserved(v)'
    BY DEF Reserved
  <2>3. v # w /\ work'[v] = work[v] /\ work[v].m # t.m
    BY <1>1, <1>2, <2>1, <2>2 DEF Reserved, Idle
  <2>4. work[v].m \in Milestones
    BY <2>2, <2>3, WorkShape DEF PlaceWork, TypeOK
  <2> QED BY <1>1, <1>2, <2>1, <2>2, <2>3, <2>4 DEF Reserved, Idle
<1>4. ASSUME "moves" \notin raced, NEW v \in Workers PROVE MoveSound(v)'
  <2>1. MoveSound(w)
    BY <1>4 DEF CompletionInv
  <2> QED BY <1>1, <1>2, <2>1 DEF MoveSound, Idle
<1>5. DoneIsDated'
  <2> SUFFICES ASSUME NEW m \in Milestones, plan'[m] # NoRow, plan'[m].status = "done"
               PROVE  plan'[m].completed
    BY DEF DoneIsDated, Planned
  <2>1. CASE m = t.m
    BY <1>1, <2>1 DEF CompletionAfter
  <2>2. CASE m # t.m
    BY <1>1, <2>2 DEF CompletionInv, DoneIsDated, Planned
  <2> QED BY <2>1, <2>2
<1>6. ASSUME "moves" \notin raced PROVE DatedIsDone'
  <2>1. SUFFICES ASSUME NEW m \in Milestones, plan'[m] # NoRow, plan'[m].completed
                 PROVE  plan'[m].status = "done"
    BY DEF DatedIsDone, Planned
  <2>2. t.seen <=> plan[t.m].completed
    BY <1>1, <1>6 DEF CompletionInv, MoveSound
  <2>3. CASE m = t.m
    <3>1. CompletionAfter(t)
      BY <1>1, <2>1, <2>3
    <3>2. t.to = "done"
      BY <2>2, <3>1 DEF CompletionAfter
    <3> QED BY <1>1, <2>3, <3>2
  <2>4. CASE m # t.m
    BY <1>1, <1>6, <2>1, <2>4 DEF CompletionInv, DatedIsDone, Planned
  <2> QED BY <2>3, <2>4
<1> QED BY <1>2, <1>3, <1>4, <1>5, <1>6 DEF CompletionInv

LEMMA CommitCompletion ==
    ASSUME TypeOK, CompletionInv, NEW w \in Workers, Commit(w) \/ Rollback(w)
    PROVE  CompletionInv'
<1>1. CASE UNCHANGED <<plan, raced>>
           /\ (End(w) \/ work' = [work EXCEPT ![w] = [op |-> "clashed"]])
  BY <1>1, QuietCompletion DEF Planned
<1>2. CASE StatusCommit(w) \/ DeleteCommit(w)
  BY <1>1, <1>2 DEF StatusCommit, DeleteCommit, WritesProject
<1>3. CASE UpdateProjectCommit(w) \/ RetitleCommit(w) \/ DependCommit(w) \/ ReleaseCommit(w)
  BY <1>1, <1>3 DEF UpdateProjectCommit, RetitleCommit, DependCommit, ReleaseCommit, WritesPlan
<1>4. CASE ShiftClashes(w) \/ Rollback(w)
  BY <1>1, <1>4 DEF ShiftClashes, Rollback
<1>5. CASE AppendCommit(w)
  <2>1. work[w].m \in Milestones /\ work[w].position \in Positions
    BY <1>5, WorkShape DEF AppendCommit, PlaceWork, TypeOK
  <2>2. /\ \A m \in Milestones : m # work[w].m => plan'[m] = plan[m]
        /\ plan'[work[w].m] = NewRow(work[w].position)
    BY <1>5, <2>1 DEF AppendCommit, TypeOK
  <2>3. plan'[work[w].m].status = "pending" /\ ~plan'[work[w].m].completed
    BY <2>1, <2>2, NewRowIsRow
  <2> QED BY <1>5, <2>2, <2>3, QuietCompletion DEF AppendCommit, WritesPlan, Planned
<1>6. CASE ShiftCommit(w)
  <2>1. \A m \in Milestones :
          \/ /\ (plan'[m] = NoRow) <=> (plan[m] = NoRow)
             /\ m \in Planned => /\ plan'[m].status = plan[m].status
                                 /\ plan'[m].completed = plan[m].completed
          \/ /\ work[w].op = "insert" /\ m = work[w].m
             /\ plan'[m].status = "pending" /\ ~plan'[m].completed
    BY <1>6, ShiftCommitRows
  <2> QED BY <1>6, <2>1, QuietCompletion DEF ShiftCommit, WritesPlan, Planned
<1>7. CASE DropCommit(w)
  <2>1. \A m \in Milestones : plan'[m] = NoRow \/ plan'[m] = plan[m]
    BY <1>7 DEF DropCommit, TypeOK
  <2> QED BY <1>7, <2>1, QuietCompletion DEF DropCommit, WritesPlan, Planned
<1> QED BY <1>2, <1>3, <1>4, <1>5, <1>6, <1>7, MoveCompletion DEF Commit

-----------------------------------------------------------------------------
(* The dependencies *)

\* Dropping dependencies brings nothing within reach.
LEMMA ReachesShrinks ==
    ASSUME waits' \subseteq waits, NEW m, NEW on, ~Reaches(on, m)
    PROVE  ~Reaches(on, m)'
<1>1. PICK S \in SUBSET Milestones : on \in S /\ Closed(S) /\ m \notin S
  BY DEF Reaches
<1>2. Closed(S)'
  BY <1>1 DEF Closed
<1> QED BY <1>1, <1>2 DEF Reaches

\* A dependency of a on b, which does not wait on a, closes no cycle: of the sets
\* that keep two other milestones apart, and a and b, one keeps them apart still.
LEMMA NewEdgeClosesNoCycle ==
    ASSUME NEW a \in Milestones, NEW b \in Milestones, ~Reaches(b, a),
           waits' = waits \cup {<<a, b>>},
           \A e \in waits : ~Reaches(e[2], e[1])
    PROVE  \A e \in waits' : ~Reaches(e[2], e[1])'
<1>1. PICK T \in SUBSET Milestones : b \in T /\ Closed(T) /\ a \notin T
  BY DEF Reaches
<1>2. Closed(T)'
  BY <1>1 DEF Closed
<1> SUFFICES ASSUME NEW e \in waits' PROVE ~Reaches(e[2], e[1])'
  OBVIOUS
<1>3. CASE e = <<a, b>>
  BY <1>1, <1>2, <1>3 DEF Reaches
<1>4. CASE e \in waits
  <2>1. PICK S \in SUBSET Milestones : e[2] \in S /\ Closed(S) /\ e[1] \notin S
    BY <1>4 DEF Reaches
  <2>2. CASE e[1] \in T
    <3>1. e[2] \in S \cap T /\ Closed(S \cap T)' /\ e[1] \notin S \cap T
      BY <1>1, <1>4, <2>1, <2>2 DEF Closed
    <3>2. S \cap T \in SUBSET Milestones
      OBVIOUS
    <3> QED BY <3>1, <3>2 DEF Reaches
  <2>3. CASE e[1] \notin T
    <3>1. e[2] \in S \cup T /\ Closed(S \cup T)' /\ e[1] \notin S \cup T
      BY <1>1, <2>1, <2>3 DEF Closed
    <3>2. S \cup T \in SUBSET Milestones
      OBVIOUS
    <3> QED BY <3>1, <3>2 DEF Reaches
  <2> QED BY <2>2, <2>3
<1> QED BY <1>3, <1>4

\* A dependency about to be added closes no cycle, and no other is.
DependSound(v) ==
    work[v].op = "depend" =>
        /\ ~Reaches(work[v].on, work[v].m)
        /\ \A u \in Workers : u # v => work[u].op # "depend"

DependencyInv ==
    \/ "dependencies" \in raced
    \/ /\ \A e \in waits : ~Reaches(e[2], e[1])
       /\ \A v \in Workers : DependSound(v)

LEMMA InitDependency == Init => DependencyInv
BY DEF Init, DependencyInv, DependSound, Idle

LEMMA LoadDependency ==
    ASSUME TypeOK, DependencyInv, NEW w \in Workers, Load(w)
    PROVE  DependencyInv'
<1>1. SUFFICES ASSUME "dependencies" \notin raced' PROVE DependencyInv'
  BY DEF DependencyInv
<1>2. PICK t \in Work : Begin(w, t) /\ (t.op = "depend" => ~ClosesCycle(t.m, t.on))
  BY LoadCases
<1>3. /\ work'[w] = t /\ \A v \in Workers : v # w => work'[v] = work[v]
      /\ waits' = waits /\ "dependencies" \notin raced
  BY <1>1, <1>2, RacedGrows DEF Begin, TypeOK
<1>4. t.op = "depend" => \A u \in Workers : work[u].op # "depend"
  BY <1>1, <1>2, RacedGrows DEF Overlap, Busy
<1>5. \A x, y : Reaches(x, y)' <=> Reaches(x, y)
  BY <1>3 DEF Reaches, Closed
<1>6. ASSUME NEW v \in Workers PROVE DependSound(v)'
  BY <1>2, <1>3, <1>4, <1>5 DEF DependSound, DependencyInv, ClosesCycle
<1> QED BY <1>3, <1>5, <1>6 DEF DependencyInv

\* A step that ends handler w and adds no dependency.
LEMMA QuietDependency ==
    ASSUME TypeOK, DependencyInv, NEW w \in Workers, raced' = raced, waits' \subseteq waits,
           End(w) \/ work' = [work EXCEPT ![w] = [op |-> "clashed"]]
    PROVE  DependencyInv'
<1>1. \A v \in Workers : \/ work'[v] = work[v]
                         \/ work'[v] = Idle \/ work'[v] = [op |-> "clashed"]
  BY DEF End, TypeOK
<1>2. SUFFICES ASSUME "dependencies" \notin raced PROVE DependencyInv'
  BY DEF DependencyInv
<1>3. \A e \in waits' : ~Reaches(e[2], e[1])'
  BY <1>2, ReachesShrinks DEF DependencyInv
<1>4. ASSUME NEW v \in Workers PROVE DependSound(v)'
  <2>1. SUFFICES ASSUME work'[v].op = "depend" PROVE DependSound(v)'
    BY DEF DependSound
  <2>2. work'[v] = work[v]
    BY <1>1, <2>1 DEF Idle
  <2>3. ~Reaches(work[v].on, work[v].m)'
    BY <1>2, <2>1, <2>2, ReachesShrinks DEF DependencyInv, DependSound
  <2> QED BY <1>1, <1>2, <2>1, <2>2, <2>3 DEF DependencyInv, DependSound, Idle
<1> QED BY <1>3, <1>4 DEF DependencyInv

LEMMA CommitDependency ==
    ASSUME TypeOK, DependencyInv, NEW w \in Workers, Commit(w) \/ Rollback(w)
    PROVE  DependencyInv'
<1>1. CASE DependCommit(w)
  <2>1. SUFFICES ASSUME "dependencies" \notin raced PROVE DependencyInv'
    BY <1>1 DEF DependencyInv, DependCommit, WritesPlan
  <2>2. work[w].op = "depend" /\ work[w].m \in Milestones /\ work[w].on \in Milestones
    BY <1>1, WorkShape DEF DependCommit, EdgeWork, TypeOK
  <2>3. waits' = waits \cup {<<work[w].m, work[w].on>>} /\ raced' = raced
    BY <1>1 DEF DependCommit, WritesPlan
  <2>4. DependSound(w)
    BY <2>1 DEF DependencyInv
  <2>5. \A e \in waits' : ~Reaches(e[2], e[1])'
    BY <2>1, <2>2, <2>3, <2>4, NewEdgeClosesNoCycle DEF DependencyInv, DependSound
  <2>6. \A v \in Workers : work'[v].op # "depend"
    BY <1>1, <2>2, <2>4 DEF DependCommit, End, DependSound, Idle, TypeOK
  <2> QED BY <2>5, <2>6 DEF DependencyInv, DependSound
<1>2. CASE StatusCommit(w) \/ DeleteCommit(w)
  BY <1>2, QuietDependency DEF StatusCommit, DeleteCommit, WritesProject
<1>3. CASE UpdateProjectCommit(w) \/ AppendCommit(w) \/ ShiftCommit(w) \/ RetitleCommit(w)
           \/ DropCommit(w) \/ MoveCommit(w) \/ ReleaseCommit(w)
  <2>1. waits' \subseteq waits /\ raced' = raced /\ End(w)
    BY <1>3 DEF UpdateProjectCommit, AppendCommit, ShiftCommit, RetitleCommit, DropCommit,
                MoveCommit, ReleaseCommit, WritesPlan
  <2> QED BY <2>1, QuietDependency
<1>4. CASE ShiftClashes(w) \/ Rollback(w)
  BY <1>4, QuietDependency DEF ShiftClashes, Rollback
<1> QED BY <1>1, <1>2, <1>3, <1>4 DEF Commit

-----------------------------------------------------------------------------
(* The theorems *)

IInv == TypeOK /\ WorkflowInv /\ CompletionInv /\ DependencyInv

LEMMA InitInv == Init => IInv
BY InitType, InitWorkflow, InitCompletion, InitDependency DEF IInv

LEMMA NextInv == IInv /\ [Next]_vars => IInv'
<1> SUFFICES ASSUME IInv, [Next]_vars PROVE IInv'
  OBVIOUS
<1>1. TypeOK'
  BY NextType DEF IInv
<1>2. ASSUME NEW w \in Workers, Load(w) \/ Commit(w) \/ Rollback(w) PROVE IInv'
  BY <1>1, <1>2, LoadWorkflow, CommitWorkflow, LoadCompletion, CommitCompletion,
     LoadDependency, CommitDependency DEF IInv
<1>3. CASE UNCHANGED vars
  <2>1. WorkflowInv'
    BY <1>3 DEF IInv, vars, WorkflowInv, WorkflowSound, AloneWithStatus, Busy, MayEdit
  <2>2. CompletionInv'
    BY <1>3 DEF IInv, vars, CompletionInv, Reserved, MoveSound, DoneIsDated, DatedIsDone, Planned
  <2>3. DependencyInv'
    BY <1>3 DEF IInv, vars, DependencyInv, DependSound, Reaches, Closed
  <2> QED BY <1>1, <2>1, <2>2, <2>3 DEF IInv
<1> QED BY <1>2, <1>3 DEF Next

\* Every reachable state of a project and its plan satisfies the invariant.
THEOREM Inductive == Spec => []IInv
BY InitInv, NextInv, PTL DEF Spec

\* Every variable has its type.
THEOREM Typing == Spec => []TypeOK
<1>1. IInv => TypeOK
  BY DEF IInv
<1> QED BY <1>1, Inductive, PTL

\* Neither project nor plan changes under review (policies.py EDITABLE_STATUSES),
\* as long as no handler that writes the status overlapped.
THEOREM ReviewersSeeWhatTheyApprove == Spec => []EditedOnlyWhileEditable
<1>1. IInv => EditedOnlyWhileEditable
  BY DEF IInv, WorkflowInv, EditedOnlyWhileEditable
<1> QED BY <1>1, Inductive, PTL

\* delete_project never takes away what was approved, under the same proviso.
THEOREM HistoryIsKept == Spec => []ApprovedIsKept
<1>1. IInv => ApprovedIsKept
  BY DEF IInv, WorkflowInv, ApprovedIsKept
<1> QED BY <1>1, Inductive, PTL

\* change_status leaves a done milestone dated however moves cross, and only such
\* a one as long as no two did.
THEOREM CompletionIsRecorded == Spec => []CompletionInStep
<1>1. IInv => CompletionInStep
  BY DEF IInv, CompletionInv, DoneIsDated, DatedIsDone, CompletionInStep
<1> QED BY <1>1, Inductive, PTL

\* The walk of add_dependency keeps the dependencies of any number of milestones
\* free of cycles of any length, as long as no two additions overlapped.
THEOREM DependenciesStayAcyclic == Spec => []NothingWaitsOnItself
<1>1. IInv => NothingWaitsOnItself
  BY DEF IInv, DependencyInv, NothingWaitsOnItself
<1> QED BY <1>1, Inductive, PTL
=============================================================================
