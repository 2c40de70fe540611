------------------------------ MODULE ProjectPlan ------------------------------
(***************************************************************************)
(* One research project: its workflow (projects/service.py) and its plan   *)
(* of milestones (milestones/service.py), which may change only while the  *)
(* project is drafting or running.  Its team and their thread are in       *)
(* TeamThread, its openings in Openings.                                   *)
(*                                                                         *)
(* A handler is its reads, on what was committed then, and one commit.     *)
(* What it commits is what it decided on its reads, so every promise that  *)
(* is checked on reads holds only as far as the handlers concerned did not *)
(* overlap; raced says which kinds of handlers have.                       *)
(***************************************************************************)
EXTENDS Naturals, FiniteSets

CONSTANTS
    Milestones,   \* milestone ids in use at once
    MaxPosition,  \* bounds the positions of the plan
    Workers,      \* handlers that may be in flight at once
    NoRow         \* what a query answers when there is no such row

ProjectStatus == {"draft", "pending_review", "active", "completed", "archived"}
MilestoneStatus == {"pending", "in_progress", "done", "cancelled"}
Positions == 1..MaxPosition
Row == [status : MilestoneStatus, completed : BOOLEAN, position : Positions]

ASSUME PositionsAssumption == MaxPosition \in Nat \ {0}
ASSUME NoRowAssumption == NoRow \notin Row

\* projects/policies.py TRANSITIONS: <<from, to, by whom>>.
ProjectTransitions ==
    {<<"draft", "pending_review", "owner">>, <<"active", "completed", "owner">>,
     <<"active", "archived", "owner">>}
    \cup ({"pending_review"} \X {"active", "draft"} \X {"reviewer"})
    \cup ({"draft", "pending_review", "active", "completed"} \X {"archived"} \X {"admin"})

\* milestones/policies.py TRANSITIONS.
MilestoneTransitions ==
    {<<"in_progress", "pending", "owner">>, <<"done", "in_progress", "owner">>,
     <<"cancelled", "pending", "owner">>}
    \cup ({"pending"} \X {"in_progress", "done"} \X {"owner", "member"})
    \cup ({"in_progress"} \X {"done"} \X {"owner", "member"})
    \cup ({"pending", "in_progress"} \X {"cancelled"} \X {"owner"})

VARIABLES
    status,     \* Project.status
    deleted,    \* Project.deleted_at is set
    plan,       \* plan[m]: the row of milestone m, or NoRow
    waits,      \* MilestoneDependency: <<m, n>> when m waits on n
    work,       \* work[w]: what handler w has read and is about to write
    approved,   \* ghost: the project was approved once
    slipped,    \* ghost: an edit was committed on a project not editable any more
    raced       \* ghost: the kinds of handlers that have overlapped

vars == <<status, deleted, plan, waits, work, approved, slipped, raced>>

Idle == [op |-> "idle"]
StatusWork == [op : {"status"}, to : ProjectStatus]
PlaceWork == [op : {"append", "insert", "place"}, m : Milestones, position : Positions]
RowWork == [op : {"retitle", "drop"}, m : Milestones]
MoveWork == [op : {"move"}, m : Milestones, to : MilestoneStatus, seen : BOOLEAN]
EdgeWork == [op : {"depend", "release"}, m : Milestones, on : Milestones]
Work == {Idle, [op |-> "delete"], [op |-> "edit"], [op |-> "clashed"]}
        \cup StatusWork \cup PlaceWork \cup RowWork \cup MoveWork \cup EdgeWork

StatusOps == {"status", "delete"}
PlanOps == {"append", "insert", "place", "retitle", "drop", "move", "depend", "release"}
EditOps == PlanOps \cup {"edit"}

Planned == {m \in Milestones : plan[m] # NoRow}

\* create_project: a draft without milestones.
Init ==
    /\ status = "draft"
    /\ deleted = FALSE
    /\ plan = [m \in Milestones |-> NoRow]
    /\ waits = {}
    /\ work = [w \in Workers |-> Idle]
    /\ approved = FALSE
    /\ slipped = FALSE
    /\ raced = {}

-----------------------------------------------------------------------------
(* Handlers in flight *)

Busy(v) == work[v].op \notin {"idle", "clashed"}

\* The kinds of overlap that arise when a handler t starts while v is in flight.
Overlap(t, v) ==
    (IF {t.op, work[v].op} \cap StatusOps # {} THEN {"status"} ELSE {})
    \cup (IF t.op = "move" /\ work[v].op = "move" THEN {"moves"} ELSE {})
    \cup (IF t.op = "depend" /\ work[v].op = "depend" THEN {"dependencies"} ELSE {})

Begin(w, t) ==
    /\ work[w] = Idle
    /\ work' = [work EXCEPT ![w] = t]
    /\ raced' = raced \cup UNION {Overlap(t, v) : v \in {x \in Workers : Busy(x)}}
    /\ UNCHANGED <<status, deleted, plan, waits, approved, slipped>>

End(w) == work' = [work EXCEPT ![w] = Idle]

\* Commits of the project's own row.
WritesProject == UNCHANGED <<plan, waits, slipped, raced>>

\* Commits of an edit; slipped records one that came too late.
WritesPlan ==
    /\ slipped' = (slipped \/ deleted \/ status \notin {"draft", "active"})
    /\ UNCHANGED <<status, deleted, approved, raced>>

-----------------------------------------------------------------------------
(* The workflow *)

\* submit_project, review_project, complete_project and archive_project; a
\* reviewer is somebody else than the owner whom may_review admits, and the
\* owner who submits is verified.
StatusLoad(w, to, by) ==
    /\ ~deleted
    /\ <<status, to, by>> \in ProjectTransitions
    /\ Begin(w, [op |-> "status", to |-> to])

\* reports/service.py _hide_target archives whatever is not archived yet, a
\* deleted draft that was reported before included.
HideLoad(w) ==
    /\ status # "archived"
    /\ Begin(w, [op |-> "status", to |-> "archived"])

StatusCommit(w) ==
    /\ work[w].op = "status"
    /\ status' = work[w].to
    /\ approved' = (approved \/ work[w].to = "active")
    /\ End(w)
    /\ WritesProject
    /\ UNCHANGED deleted

\* Fault: whatever has not ended is deleted.
MayDeleteUnlessEnded == status \in {"draft", "pending_review", "active"}

\* delete_project: "a DRAFT is soft-deleted; anything else is archived instead".
MayDelete == status = "draft"

DeleteLoad(w) ==
    /\ ~deleted
    /\ MayDelete
    /\ Begin(w, [op |-> "delete"])

DeleteCommit(w) ==
    /\ work[w].op = "delete"
    /\ deleted' = TRUE
    /\ End(w)
    /\ WritesProject
    /\ UNCHANGED <<status, approved>>

\* Fault: only what was taken out of circulation is frozen.
MayEditUnlessArchived == status # "archived"

\* EDITABLE_STATUSES, of update_project and of _assert_project_editable.
MayEdit == status \in {"draft", "active"}

\* Every edit: load the project, find it editable.
EditBegin(w, t) ==
    /\ ~deleted
    /\ MayEdit
    /\ Begin(w, t)

\* update_project
UpdateProjectLoad(w) == EditBegin(w, [op |-> "edit"])

UpdateProjectCommit(w) ==
    /\ work[w].op = "edit"
    /\ End(w)
    /\ WritesPlan
    /\ UNCHANGED <<plan, waits>>

-----------------------------------------------------------------------------
(* The places of the plan *)

\* An id of a deleted milestone stands for a new one once nobody holds it.
Fresh(m) ==
    /\ plan[m] = NoRow
    /\ \A v \in Workers :
         /\ work[v].op \in PlanOps => work[v].m # m
         /\ work[v].op \in {"depend", "release"} => work[v].on # m

\* _next_position
IsNextPosition(p) ==
    /\ \A m \in Planned : plan[m].position < p
    /\ p = 1 \/ \E m \in Planned : plan[m].position + 1 = p

\* create_milestone without a position.
AppendLoad(w, m, p) ==
    /\ Fresh(m)
    /\ IsNextPosition(p)
    /\ EditBegin(w, [op |-> "append", m |-> m, position |-> p])

\* create_milestone at a position.
InsertLoad(w, m, p) ==
    /\ Fresh(m)
    /\ EditBegin(w, [op |-> "insert", m |-> m, position |-> p])

\* update_milestone to another position.
PlaceLoad(w, m, p) ==
    /\ m \in Planned
    /\ plan[m].position # p
    /\ EditBegin(w, [op |-> "place", m |-> m, position |-> p])

\* uq_milestones_project_position
Free(p) == \A m \in Planned : plan[m].position # p

NewRow(p) == [status |-> "pending", completed |-> FALSE, position |-> p]

AppendCommit(w) ==
    /\ work[w].op = "append"
    /\ Free(work[w].position)
    /\ plan' = [plan EXCEPT ![work[w].m] = NewRow(work[w].position)]
    /\ End(w)
    /\ WritesPlan
    /\ UNCHANGED waits

\* The rows _shift_positions_for pushes down; the last has room to go within the bound.
Pushed(p) == {m \in Planned : plan[m].position >= p}
HasRoom(p) == \A m \in Pushed(p) : plan[m].position < MaxPosition

\* _shift_positions_for: one UPDATE of every row at or after p.
Shifted(p) ==
    [m \in Milestones |->
        IF m \in Pushed(p) THEN [plan[m] EXCEPT !.position = @ + 1] ELSE plan[m]]

ShiftCommit(w) ==
    /\ work[w].op \in {"insert", "place"}
    /\ LET t == work[w]
           shifted == Shifted(t.position)
       IN /\ HasRoom(t.position)
          /\ t.op = "place" => t.m \in Planned
          /\ plan' = [shifted EXCEPT ![t.m] =
                        IF t.op = "insert" THEN NewRow(t.position)
                        ELSE [@ EXCEPT !.position = t.position]]
    /\ End(w)
    /\ WritesPlan
    /\ UNCHANGED waits

\* The unique constraint is not deferrable: PostgreSQL checks it on each row the
\* UPDATE visits, and in the order it happens to visit them one row may be pushed
\* onto a place the next has not left yet.
ShiftClashes(w) ==
    /\ work[w].op \in {"insert", "place"}
    /\ \E m, n \in Pushed(work[w].position) : plan[n].position = plan[m].position + 1
    /\ work' = [work EXCEPT ![w] = [op |-> "clashed"]]
    /\ UNCHANGED <<status, deleted, plan, waits, approved, slipped, raced>>

\* update_milestone of the text or the date, and delete_milestone.
RowLoad(w, op, m) ==
    /\ m \in Planned
    /\ EditBegin(w, [op |-> op, m |-> m])

RetitleCommit(w) ==
    /\ work[w].op = "retitle"
    /\ work[w].m \in Planned
    /\ End(w)
    /\ WritesPlan
    /\ UNCHANGED <<plan, waits>>

\* The foreign keys of its dependencies cascade.
DropCommit(w) ==
    /\ work[w].op = "drop"
    /\ plan' = [plan EXCEPT ![work[w].m] = NoRow]
    /\ waits' = {e \in waits : work[w].m \notin {e[1], e[2]}}
    /\ End(w)
    /\ WritesPlan

-----------------------------------------------------------------------------
(* The progress of a milestone *)

\* change_status; it has read whether a completion was recorded.
MoveLoad(w, m, to, by) ==
    /\ m \in Planned
    /\ <<plan[m].status, to, by>> \in MilestoneTransitions
    /\ EditBegin(w, [op |-> "move", m |-> m, to |-> to, seen |-> plan[m].completed])

\* Fault: reopening leaves the record of the completion.
CompletionKept(t) == t.to = "done" \/ plan[t.m].completed

\* completed_at and completed_by: set for DONE and cleared otherwise, where
\* clearing what was read as empty writes nothing.
CompletionAfter(t) == t.to = "done" \/ (plan[t.m].completed /\ ~t.seen)

MoveCommit(w) ==
    /\ work[w].op = "move"
    /\ work[w].m \in Planned
    /\ plan' = [plan EXCEPT ![work[w].m] =
                  [@ EXCEPT !.status = work[w].to, !.completed = CompletionAfter(work[w])]]
    /\ End(w)
    /\ WritesPlan
    /\ UNCHANGED waits

-----------------------------------------------------------------------------
(* The dependencies *)

\* The sets of milestones that no dependency leads out of.
Closed(S) == \A e \in waits : e[1] \in S => e[2] \in S

\* _reaches: target is among what start waits on, directly or through others,
\* or is start itself.
Reaches(start, target) ==
    \A S \in SUBSET Milestones : start \in S /\ Closed(S) => target \in S

\* Fault: the walk starts at the wrong end.
ClosesCycleBackwards(m, on) == m = on \/ Reaches(m, on)

\* DependencyCycleError
ClosesCycle(m, on) == m = on \/ Reaches(on, m)

\* add_dependency; one that is there already is not added again.
DependLoad(w, m, on) ==
    /\ {m, on} \subseteq Planned
    /\ ~ClosesCycle(m, on)
    /\ <<m, on>> \notin waits
    /\ EditBegin(w, [op |-> "depend", m |-> m, on |-> on])

DependCommit(w) ==
    /\ work[w].op = "depend"
    /\ {work[w].m, work[w].on} \subseteq Planned
    /\ waits' = waits \cup {<<work[w].m, work[w].on>>}
    /\ End(w)
    /\ WritesPlan
    /\ UNCHANGED plan

\* remove_dependency
ReleaseLoad(w, m, on) ==
    /\ <<m, on>> \in waits
    /\ EditBegin(w, [op |-> "release", m |-> m, on |-> on])

ReleaseCommit(w) ==
    /\ work[w].op = "release"
    /\ waits' = waits \ {<<work[w].m, work[w].on>>}
    /\ End(w)
    /\ WritesPlan
    /\ UNCHANGED plan

-----------------------------------------------------------------------------

\* An error, a violated constraint among them, rolls the transaction back.
Rollback(w) ==
    /\ work[w] # Idle
    /\ End(w)
    /\ UNCHANGED <<status, deleted, plan, waits, approved, slipped, raced>>

Load(w) ==
    \/ \E to \in ProjectStatus, by \in {"owner", "reviewer", "admin"} : StatusLoad(w, to, by)
    \/ HideLoad(w) \/ DeleteLoad(w) \/ UpdateProjectLoad(w)
    \/ \E m \in Milestones :
         \/ \E p \in Positions : AppendLoad(w, m, p) \/ InsertLoad(w, m, p) \/ PlaceLoad(w, m, p)
         \/ RowLoad(w, "retitle", m) \/ RowLoad(w, "drop", m)
         \/ \E to \in MilestoneStatus, by \in {"owner", "member"} : MoveLoad(w, m, to, by)
         \/ \E on \in Milestones : DependLoad(w, m, on) \/ ReleaseLoad(w, m, on)

Commit(w) ==
    \/ StatusCommit(w) \/ DeleteCommit(w) \/ UpdateProjectCommit(w)
    \/ AppendCommit(w) \/ ShiftCommit(w) \/ ShiftClashes(w) \/ RetitleCommit(w) \/ DropCommit(w)
    \/ MoveCommit(w) \/ DependCommit(w) \/ ReleaseCommit(w)

Next == \E w \in Workers : Load(w) \/ Commit(w) \/ Rollback(w)

Spec == Init /\ [][Next]_vars

-----------------------------------------------------------------------------
(* Properties *)

\* Every variable has its type.
TypeOK ==
    /\ status \in ProjectStatus
    /\ deleted \in BOOLEAN
    /\ plan \in [Milestones -> Row \cup {NoRow}]
    /\ waits \subseteq Milestones \X Milestones
    /\ work \in [Workers -> Work]
    /\ approved \in BOOLEAN
    /\ slipped \in BOOLEAN
    /\ raced \subseteq {"status", "moves", "dependencies"}

\* "Reviewers must see what they approve": neither the project nor its plan is
\* changed while it is under review, or after it ended or was deleted, unless the
\* edit overlapped the step that took the project there.
EditedOnlyWhileEditable == "status" \in raced \/ ~slipped

\* "An approved project's history is never destroyed": what was approved once is
\* never deleted, whatever became of it since, unless the deletion overlapped.
ApprovedIsKept == "status" \in raced \/ ~(deleted /\ approved)

\* A milestone that is done carries the record of its completion, whatever moves
\* crossed; and only such a one does, unless two moves overlapped.
CompletionInStep ==
    \A m \in Planned :
        /\ plan[m].status = "done" => plan[m].completed
        /\ "moves" \in raced \/ (plan[m].completed => plan[m].status = "done")

\* "The dependency would make a milestone wait on itself, eventually": none does,
\* through however many others, unless two dependencies were added at once.
NothingWaitsOnItself ==
    "dependencies" \in raced \/ \A e \in waits : ~Reaches(e[2], e[1])

\* "The unique constraint is never transiently violated mid-way": making room in
\* the plan is not refused by it.
MakingRoomIsNeverRefused == \A w \in Workers : work[w].op # "clashed"
=============================================================================
