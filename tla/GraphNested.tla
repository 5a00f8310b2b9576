------------------------------ MODULE GraphNested ------------------------------
(****************************************************************************)
(* A composite node of a graph (agraph/execute.py): a map, a subgraph or a  *)
(* loop, whose body is a scope of jobs of its own, run once per item or     *)
(* iteration by _run_scope below _run_map, _run_subgraph and _run_loop.     *)
(* GraphRun has what one scope does with edges, retries and fallbacks; here *)
(* a job does one attempt, an edge is only what may keep the pending jobs   *)
(* from ever being ready, and the question is what the composite makes of   *)
(* how its jobs end: its items side by side, its                            *)
(* attempts and its timeout, the user's pause and cancel of the root task,  *)
(* and the ledger tasks of the inner jobs, one per full id for the whole    *)
(* run, over all attempts.                                                  *)
(****************************************************************************)
EXTENDS Naturals, FiniteSets, TaskStates

CONSTANTS
    N,          \* the most items (map) or iterations (loop)
    J,          \* the jobs of a body, in the order of the document
    Shapes,     \* the composites that a behaviour may be about
    UserMoves   \* states the user may move the root task to

VARIABLES
    shape,      \* the composite: a record, see ShapeSet
    root,       \* ledger state of the root task
    node,       \* the composite's coroutine: [pc, attempt, cause]
    nodeTask,   \* ledger state of the composite's own task
    item,       \* item[i]: where the scope of item i is
    st,         \* st[i][j]: _statuses of that scope
    job,        \* job[i][j]: the coroutine of a job, or what it left for gather
    task,       \* task[i][j]: ledger state of the job's task
    recorded    \* jobs in self._node_records

inner == <<item, st, job, task, recorded>>
vars == <<shape, root, node, nodeTask, item, st, job, task, recorded>>

Items == 1..N
Jobs == 1..J

(* strict: on_item_failure is "fail".  reused: jobs the resume record has.  *)
ShapeSet ==
    [kind : {"map", "subgraph", "loop"}, items : Items, parallel : Nat, width : Nat,
     strict : BOOLEAN, halt : BOOLEAN, timed : BOOLEAN, attempts : Nat,
     reused : SUBSET (Items \X Jobs)]

Count == IF shape.kind = "subgraph" THEN 1 ELSE shape.items

Absent == "absent"
Executing == {"enter", "attempt", "body"}
Active == {"round", "gather"}
JobEnd == {"succeeded", "failed", "skipped", "awaiting_human"}
Ended == {"decided", "left"}

Fresh == [i \in Items |-> [j \in Jobs |-> IF <<i, j>> \in shape.reused THEN "succeeded" ELSE "pending"]]
NoJobs == [i \in Items |-> [j \in Jobs |-> "idle"]]

Takes(now, s) == now = s \/ CanMove(now, s)

Init ==
    /\ shape \in Shapes
    /\ root = "running"
    /\ node = [pc |-> "enter", attempt |-> 0, cause |-> "none"] /\ nodeTask = "ready"
    /\ item = [i \in Items |-> "idle"] /\ st = Fresh /\ job = NoJobs
    /\ task = [i \in Items |-> [j \in Jobs |-> Absent]] /\ recorded = {}

(* _await_runtime_control lets a coroutine go on, or raises CancelledError. *)
Allowed == root \notin {"cancelled", "waiting"}
Cancelled == root = "cancelled"

-----------------------------------------------------------------------------
(* The composite: _execute_node and _run_node_body.                         *)

Leave == node' = [node EXCEPT !.pc = "left"]

ControlStops ==
    /\ node.pc \in {"enter", "attempt"} /\ Cancelled
    /\ Leave
    /\ UNCHANGED <<shape, root, nodeTask, inner>>

Start ==
    /\ node.pc = "enter" /\ Allowed
    /\ nodeTask' = "running"
    /\ node' = [node EXCEPT !.pc = "attempt"]
    /\ UNCHANGED <<shape, root, inner>>

(* A scope begins: its jobs get tasks, unless an attempt before made them.  *)
Opened(i) == [j \in Jobs |-> IF task[i][j] # Absent THEN task[i][j]
                             ELSE IF <<i, j>> \in shape.reused THEN "succeeded" ELSE "ready"]

(* The items of a map are created together and wait for the semaphore; a    *)
(* subgraph is one scope; a loop begins its iterations one by one.          *)
BeginAttempt ==
    /\ node.pc = "attempt" /\ Allowed
    /\ node' = [node EXCEPT !.pc = "body", !.attempt = @ + 1, !.cause = "none"]
    /\ st' = Fresh /\ job' = NoJobs
    /\ item' = [i \in Items |-> IF shape.kind # "loop" /\ i <= Count THEN "queued" ELSE "idle"]
    /\ UNCHANGED <<shape, root, nodeTask, task, recorded>>

(* What follows an attempt that did not succeed (retry_on has its class).   *)
Fails ==
    IF node.attempt < shape.attempts
    THEN node' = [node EXCEPT !.pc = "attempt"] /\ UNCHANGED nodeTask
    ELSE node' = [node EXCEPT !.pc = "decided"] /\ nodeTask' = "failed"

Succeeds == node' = [node EXCEPT !.pc = "decided"] /\ nodeTask' = "succeeded"

(* Before any scope: too many items, no source, too deep, a bad expression. *)
BodyRefused ==
    /\ node.pc = "attempt" /\ Allowed
    /\ LET tried == [node EXCEPT !.attempt = @ + 1] IN
       IF tried.attempt < shape.attempts
       THEN node' = tried /\ UNCHANGED nodeTask
       ELSE node' = [tried EXCEPT !.pc = "decided"] /\ nodeTask' = "failed"
    /\ UNCHANGED <<shape, root, inner>>

(* max_wall_clock_seconds, or the asyncio task of the run is cancelled.     *)
Expire ==
    /\ node.pc = "body" /\ shape.timed
    /\ node' = [node EXCEPT !.pc = "aborting", !.cause = "timeout"]
    /\ UNCHANGED <<shape, root, nodeTask, inner>>
Interrupt ==
    /\ node.pc \in {"enter", "attempt", "body"}
    /\ IF node.pc = "body" THEN node' = [node EXCEPT !.pc = "aborting", !.cause = "cancelled"] ELSE Leave
    /\ UNCHANGED <<shape, root, nodeTask, inner>>

-----------------------------------------------------------------------------
(* The scope of an item: _run_scope.                                        *)

InBody == node.pc = "body"
Pending(i) == {j \in Jobs : st[i][j] = "pending"}
Failed(s) == \E j \in Jobs : s[j] = "failed"

(* _terminalize_nonexecuted for the jobs of S, in order, until the ledger   *)
(* refuses a move: that exception leaves _run_scope.                        *)
Marked(i, S, s) == {j \in S : \A k \in S : k <= j => Takes(task[i][k], s)}

(* The scope of an item ends with an exception, which ends the attempt.     *)
Raises(i) ==
    /\ item' = [item EXCEPT ![i] = "raised"]
    /\ node' = [node EXCEPT !.pc = "aborting", !.cause = "failed"]

(* The semaphore of a map is fair: items go in by their index.              *)
Admit(i) ==
    /\ InBody /\ item[i] = "queued"
    /\ \A k \in Items : k < i => item[k] # "queued"
    /\ Cardinality({k \in Items : item[k] \in Active}) < shape.parallel
    /\ item' = [item EXCEPT ![i] = "round"]
    /\ task' = [task EXCEPT ![i] = Opened(i)]
    /\ UNCHANGED <<shape, root, node, nodeTask, st, job, recorded>>

(* A cancelled root: in a map the item's own task ends cancelled, which a   *)
(* TaskGroup ignores; below a subgraph or a loop the node itself ends.      *)
RoundCancelled(i) ==
    /\ InBody /\ item[i] = "round" /\ Pending(i) # {} /\ Cancelled
    /\ item' = [item EXCEPT ![i] = "dropped"]
    /\ IF shape.kind = "map" THEN UNCHANGED node ELSE Leave
    /\ UNCHANGED <<shape, root, nodeTask, st, job, task, recorded>>

Select(i) == {j \in Pending(i) : Cardinality({k \in Pending(i) : k <= j}) <= shape.width}

Launch(i) ==
    /\ InBody /\ item[i] = "round" /\ Pending(i) # {} /\ Allowed
    /\ item' = [item EXCEPT ![i] = "gather"]
    /\ job' = [job EXCEPT ![i] = [j \in Jobs |-> IF j \in Select(i) THEN "enter" ELSE "idle"]]
    /\ UNCHANGED <<shape, root, node, nodeTask, st, task, recorded>>

(* Nothing that is pending can become ready any more.                       *)
BlockScope(i) ==
    LET left == Pending(i)
        blocks == Marked(i, left, "blocked")
    IN
    /\ InBody /\ item[i] = "round" /\ left # {} /\ Allowed
    /\ st' = [st EXCEPT ![i] = [j \in Jobs |-> IF j \in left THEN "blocked" ELSE @[j]]]
    /\ task' = [task EXCEPT ![i] = [j \in Jobs |-> IF j \in blocks THEN "blocked" ELSE @[j]]]
    /\ recorded' = recorded \cup {<<i, j>> : j \in blocks}
    /\ IF blocks # left THEN Raises(i) ELSE UNCHANGED <<item, node>>
    /\ UNCHANGED <<shape, root, nodeTask, job>>

(* A slip: an exception of a job is no status of its own.                   *)
GatheredQuietly(i, j) ==
    IF job[i][j] = "idle" THEN st[i][j] ELSE IF job[i][j] = "raised" THEN "skipped" ELSE job[i][j]

(* What gather makes of a job: an exception is a failure.                   *)
Gathered(i, j) ==
    IF job[i][j] = "idle" THEN st[i][j] ELSE IF job[i][j] = "raised" THEN "failed" ELSE job[i][j]

(* A job that raised and has no record gets its task failed (by way of      *)
(* "blocked", if it never began) and a record; then the policy halts and    *)
(* skips what is pending.                                                   *)
GatherEnds(i) ==
    LET got == [j \in Jobs |-> Gathered(i, j)]
        raised == {j \in Jobs : job[i][j] = "raised" /\ <<i, j>> \notin recorded}
        toSkip == IF shape.halt /\ Failed(got) THEN {j \in Jobs : got[j] = "pending"} ELSE {}
        skips == Marked(i, toSkip, "skipped")
        after == [j \in Jobs |-> IF j \in toSkip THEN "skipped" ELSE got[j]]
    IN
    /\ InBody /\ item[i] = "gather"
    /\ \A j \in Jobs : job[i][j] \notin Executing
    /\ st' = [st EXCEPT ![i] = after]
    /\ task' = [task EXCEPT ![i] = [j \in Jobs |-> IF j \in raised THEN "failed"
                                                   ELSE IF j \in skips THEN "skipped" ELSE @[j]]]
    /\ recorded' = recorded \cup {<<i, j>> : j \in raised \cup skips}
    /\ job' = [job EXCEPT ![i] = [j \in Jobs |-> "idle"]]
    /\ IF skips # toSkip THEN Raises(i) ELSE item' = [item EXCEPT ![i] = "round"] /\ UNCHANGED node
    /\ UNCHANGED <<shape, root, nodeTask>>

(* The scope is over.  run_item and _run_subgraph look for a failed job, not*)
(* for a blocked one; _run_loop looks for neither.                          *)
ScopeEnds(i) ==
    /\ InBody /\ item[i] = "round" /\ Pending(i) = {}
    /\ IF Failed(st[i]) /\ (shape.kind = "subgraph" \/ (shape.kind = "map" /\ shape.strict))
       THEN Raises(i)
       ELSE item' = [item EXCEPT ![i] = "returned"] /\ UNCHANGED node
    /\ UNCHANGED <<shape, root, nodeTask, st, job, task, recorded>>

-----------------------------------------------------------------------------
(* The jobs of a body.                                                      *)

Become(i, j, pc) == job' = [job EXCEPT ![i][j] = pc]
jobStep == <<shape, root, node, nodeTask, item, st>>

JobStops(i, j) ==
    /\ InBody /\ job[i][j] \in {"enter", "attempt"} /\ Cancelled
    /\ Become(i, j, "raised")
    /\ UNCHANGED <<jobStep, task, recorded>>

(* The task is the one of the attempt before: what ended there cannot run.  *)
JobStarts(i, j) ==
    /\ InBody /\ job[i][j] = "enter" /\ Allowed
    /\ IF Takes(task[i][j], "running")
       THEN Become(i, j, "attempt") /\ task' = [task EXCEPT ![i][j] = "running"]
       ELSE Become(i, j, "raised") /\ UNCHANGED task
    /\ UNCHANGED <<jobStep, recorded>>

JobWorks(i, j) ==
    /\ InBody /\ job[i][j] = "attempt" /\ Allowed
    /\ Become(i, j, "body")
    /\ UNCHANGED <<jobStep, task, recorded>>

(* Before it starts: its guard is false, or cannot be evaluated and the     *)
(* policy skips it; or that, its inputs or its route raise.                 *)
JobSkips(i, j) ==
    /\ InBody /\ job[i][j] = "enter" /\ Allowed
    /\ Takes(task[i][j], "skipped")
    /\ Become(i, j, "skipped")
    /\ task' = [task EXCEPT ![i][j] = "skipped"]
    /\ recorded' = recorded \cup {<<i, j>>}
    /\ UNCHANGED jobStep
JobRefused(i, j) ==
    /\ InBody /\ job[i][j] = "enter" /\ Allowed
    /\ Become(i, j, "raised")
    /\ UNCHANGED <<jobStep, task, recorded>>

(* Its agent or gate ends; a gate may hold for a human, a rejected gate and *)
(* a fallback may skip the job.                                             *)
JobEnds(i, j, o) ==
    /\ InBody /\ job[i][j] = "body"
    /\ Become(i, j, o)
    /\ task' = [task EXCEPT ![i][j] = o]
    /\ recorded' = recorded \cup {<<i, j>>}
    /\ UNCHANGED jobStep

-----------------------------------------------------------------------------
(* How the body ends.                                                       *)

(* An abort: of the TaskGroup, when an item raises, or of the whole body by *)
(* the timeout or from outside.  Every scope and every job below is         *)
(* cancelled at its await and unwinds; the tasks stay as they are.          *)
JobUnwinds(i, j) ==
    /\ node.pc = "aborting" /\ job[i][j] \in Executing
    /\ Become(i, j, "raised")
    /\ UNCHANGED <<jobStep, task, recorded>>
ScopeUnwinds(i) ==
    /\ node.pc = "aborting" /\ item[i] \in Active \cup {"queued"}
    /\ \A j \in Jobs : job[i][j] \notin Executing
    /\ item' = [item EXCEPT ![i] = "stopped"]
    /\ UNCHANGED <<shape, root, node, nodeTask, st, job, task, recorded>>

(* A slip: like gather, the first failure is passed on at once.             *)
UnwoundAtOnce == TRUE

Unwound == \A i \in Items : item[i] \notin Active \cup {"queued"}

AbortEnds ==
    /\ node.pc = "aborting" /\ Unwound
    /\ IF node.cause = "cancelled" THEN Leave /\ UNCHANGED nodeTask ELSE Fails
    /\ UNCHANGED <<shape, root, inner>>

(* Outputs are collected and the criteria of the node decide: a map of all  *)
(* its items, a subgraph of its scope.                                      *)
BodyEnds ==
    /\ InBody /\ shape.kind # "loop"
    /\ \A i \in 1..Count : item[i] \in {"returned", "dropped"}
    /\ Succeeds \/ Fails
    /\ UNCHANGED <<shape, root, inner>>

(* A loop goes on to its next iteration, or ends: by its condition, or at   *)
(* max_iterations, where the mode and on_max_iterations decide.             *)
Iterate(i) ==
    /\ InBody /\ shape.kind = "loop" /\ i <= Count
    /\ item[i] = "idle" /\ \A k \in 1..(i - 1) : item[k] = "returned"
    /\ item' = [item EXCEPT ![i] = "round"]
    /\ task' = [task EXCEPT ![i] = Opened(i)]
    /\ UNCHANGED <<shape, root, node, nodeTask, st, job, recorded>>
LoopEnds ==
    /\ InBody /\ shape.kind = "loop"
    /\ \A i \in Items : item[i] \in {"returned", "idle"}
    /\ Succeeds \/ Fails
    /\ UNCHANGED <<shape, root, inner>>

UserControl(s) ==
    /\ node.pc \notin Ended /\ CanMove(root, s)
    /\ root' = s
    /\ UNCHANGED <<shape, node, nodeTask, inner>>

-----------------------------------------------------------------------------
NodeStep ==
    \/ ControlStops \/ Start \/ BeginAttempt \/ BodyRefused \/ Expire \/ Interrupt
    \/ AbortEnds \/ BodyEnds \/ LoopEnds

ItemStep(i) ==
    \/ Admit(i) \/ RoundCancelled(i) \/ Launch(i) \/ BlockScope(i) \/ GatherEnds(i) \/ ScopeEnds(i)
    \/ ScopeUnwinds(i) \/ Iterate(i)

JobStep(i, j) ==
    \/ JobStops(i, j) \/ JobStarts(i, j) \/ JobSkips(i, j) \/ JobRefused(i, j)
    \/ JobWorks(i, j) \/ JobUnwinds(i, j)
    \/ \E o \in JobEnd : JobEnds(i, j, o)

Next ==
    \/ NodeStep
    \/ \E i \in Items : ItemStep(i)
    \/ \E i \in Items, j \in Jobs : JobStep(i, j)
    \/ \E s \in UserMoves : UserControl(s)

Spec == Init /\ [][Next]_vars

-----------------------------------------------------------------------------
TypeOK ==
    /\ shape \in ShapeSet /\ root \in TaskState /\ nodeTask \in TaskState
    /\ node \in [pc : {"enter", "attempt", "body", "aborting"} \cup Ended,
                 attempt : Nat, cause : {"none", "failed", "timeout", "cancelled"}]
    /\ item \in [Items -> Active \cup {"idle", "queued", "returned", "raised", "dropped", "stopped"}]
    /\ st \in [Items -> [Jobs -> JobEnd \cup {"pending", "blocked"}]]
    /\ job \in [Items -> [Jobs -> Executing \cup JobEnd \cup {"idle", "raised"}]]
    /\ task \in [Items -> [Jobs -> TaskState \cup {Absent}]]
    /\ recorded \subseteq Items \X Jobs

(* An attempt that is over, whether an item failed, the time was up or it   *)
(* was cancelled, has left nothing behind that still works: "TaskGroup, not *)
(* gather: on the first failure gather leaves sibling agent sessions and    *)
(* subprocesses running detached" (execute.py).                             *)
NothingRunsOn ==
    node.pc \in {"attempt"} \cup Ended =>
       \A i \in Items : /\ item[i] \notin Active
                        /\ \A j \in Jobs : job[i][j] \notin Executing

Settled == {"succeeded", "skipped", "awaiting_human", "blocked"}

(* A subgraph or a strict map that succeeded, in a run nobody cancelled, has*)
(* lost no job, whichever attempt it was of: each was done, was skipped,    *)
(* waits for a human or could not become ready.  None failed, and none is   *)
(* left pending or running.                                                 *)
NoJobIsLost ==
    ( /\ nodeTask = "succeeded" /\ root # "cancelled"
      /\ shape.kind = "subgraph" \/ (shape.kind = "map" /\ shape.strict) ) =>
       \A i \in 1..Count, j \in Jobs : task[i][j] \in Settled

(* Why the first: a job executes only below a scope that gathers, a scope   *)
(* is under way only while the body or its abort is, and a loop has one at  *)
(* a time.                                                                  *)
Scopes ==
    /\ item \in [Items -> Active \cup {"idle", "queued", "returned", "raised", "dropped", "stopped"}]
    /\ job \in [Items -> [Jobs -> Executing \cup JobEnd \cup {"idle", "raised"}]]
    /\ shape \in ShapeSet
    /\ node \in [pc : Executing \cup {"aborting"} \cup Ended,
                 attempt : Nat, cause : {"none", "failed", "timeout", "cancelled"}]
OneIteration ==
    shape.kind = "loop" =>
       \A i \in Items : item[i] # "idle" => \A k \in 1..(i - 1) : item[k] = "returned"
WorkInv ==
    /\ Scopes /\ OneIteration
    /\ \A i \in Items :
          /\ i > Count => item[i] = "idle"
          /\ \A j \in Jobs : job[i][j] \in Executing => item[i] = "gather"
    /\ node.pc \notin {"body", "aborting"} => \A i \in Items : item[i] \notin Active

(* Why the second: what a scope holds to be over is what the ledger says,   *)
(* and a scope that was passed over has no failure and nothing pending.     *)
Strict == shape.kind = "subgraph" \/ (shape.kind = "map" /\ shape.strict)
JobInv(i, j) ==
    /\ <<i, j>> \in shape.reused => st[i][j] = "succeeded"
    /\ item[i] \in {"idle", "queued", "round"} => job[i][j] = "idle"
    /\ item[i] = "gather" /\ job[i][j] # "idle" => st[i][j] = "pending"
    /\ job[i][j] \in Settled => task[i][j] = job[i][j]
    /\ item[i] \in {"idle", "queued"} =>
          st[i][j] = IF <<i, j>> \in shape.reused THEN "succeeded" ELSE "pending"
    /\ item[i] \in Active \cup {"returned"} /\ st[i][j] \in Settled => task[i][j] = st[i][j]
    /\ Strict /\ item[i] = "returned" => st[i][j] \in Settled
DoneInv ==
    /\ Scopes
    /\ st \in [Items -> [Jobs -> JobEnd \cup {"pending", "blocked"}]]
    /\ task \in [Items -> [Jobs -> TaskState \cup {Absent}]]
    /\ \A i \in Items : item[i] = "dropped" => root = "cancelled"
    /\ InBody => \A i \in Items, j \in Jobs : JobInv(i, j)
    /\ \A i \in Items, j \in Jobs : <<i, j>> \in shape.reused => task[i][j] \in {Absent, "succeeded"}
    /\ nodeTask = "succeeded" => node.pc = "decided"
    /\ NoJobIsLost

-----------------------------------------------------------------------------
(* What one would expect of a composite and the code does not keep.         *)

(* The same of a run that was cancelled: its record keeps the node, and a   *)
(* resume retains it.                                                       *)
CancelledMapLosesNoJob ==
    (nodeTask = "succeeded" /\ shape.kind = "map" /\ shape.strict) =>
       \A i \in 1..Count, j \in Jobs : task[i][j] \in Settled

(* A composite that succeeded has no job that could not become ready.       *)
BlockedJobFails ==
    nodeTask = "succeeded" => \A i \in Items, j \in Jobs : task[i][j] # "blocked"

(* A loop that succeeded ended no iteration with a failed job.              *)
LoopSeesFailures ==
    (nodeTask = "succeeded" /\ shape.kind = "loop") =>
       \A i \in Items, j \in Jobs : task[i][j] # "failed"

(* A retry of the node can run its jobs again.                              *)
RetryRunsJobs ==
    \A i \in Items, j \in Jobs : job[i][j] = "enter" => Takes(task[i][j], "running")

(* A gate that is held below a node holds the node.                         *)
HeldGateHolds ==
    nodeTask = "succeeded" => \A i \in Items, j \in Jobs : task[i][j] # "awaiting_human"

(* A node that is decided has no job whose task says that it runs.          *)
TasksSettle ==
    node.pc = "decided" => \A i \in Items, j \in Jobs : task[i][j] # "running"
=============================================================================
