------------------------------ MODULE DaemonQueue ------------------------------
(***************************************************************************)
(* The background queue (daemon.py): items of the workbench collection     *)
(* daemon_queue, each with a task in the durable ledger, and workers that  *)
(* claim an item, run its command as a child process, and record the       *)
(* outcome, first in the queue and then in the ledger.  The user moves the *)
(* ledger task meanwhile, and a worker learns of it by polling.  A change  *)
(* of the queue is one step (WorkbenchStore), and so is one of the ledger  *)
(* (TaskLedger); nothing joins the two.                                    *)
(*                                                                         *)
(* Every item here is due: an item whose run_at has not come is not yet in *)
(* the queue.                                                              *)
(***************************************************************************)
EXTENDS Naturals, Sequences, FiniteSets, TaskStates

CONSTANTS
  Worker,      \* processes that call run_once, again and again
  Task,        \* ledger tasks
  NoTask,      \* the task of an item from before the ledger
  Legacy,      \* how many such items the queue holds at first
  MaxQueue,    \* bound: items ever queued
  MaxPauses,   \* bound: pauses of each task
  Faults       \* whether processes die and the ledger fails to answer

Nobody == "nobody"

ASSUME QueueAssumption ==
  /\ NoTask \notin Task /\ Nobody \notin Worker
  /\ MaxQueue \in Nat \ {0} /\ MaxPauses \in Nat
  /\ Legacy \in 0..MaxQueue
  /\ Faults \in BOOLEAN

VARIABLES
  queue,     \* daemon_queue
  task,      \* ledger states
  drafts,    \* tasks that enqueue_task created, their items not yet appended
  holder,    \* who has the lock of the queue's file
  pc, work,  \* where each worker is, and with which item and task
  child,     \* the child process of each worker
  result,    \* what _execute_item returned
  orphans,   \* items of child processes whose worker is gone
  launches,  \* history: how often the command of each item was started
  pauses     \* history: how often the user paused each task

queueVars == <<queue, task, drafts, holder, pc, work, child, result, orphans,
               launches, pauses>>

Absent == "absent"

Status == { "pending", "running", "done", "failed", "cancelled" }
Item == [ task : Task \cup { NoTask }, status : Status ]
Place == 1..MaxQueue
Pc == { "idle", "claim", "begin", "launch", "watch", "record", "settle" }
Result == { "ok", "failed", "cancelled", "paused" }
NoWork == [ item |-> 0, task |-> NoTask ]

Goto(w, label) == pc' = [ pc EXCEPT ![w] = label ]
TaskOf(w) == work[w].task
ItemOf(w) == work[w].item

Init ==
  /\ queue = [ i \in 1..Legacy |-> [ task |-> NoTask, status |-> "pending" ] ]
  /\ task = [ t \in Task |-> Absent ]
  /\ drafts = {}
  /\ holder = Nobody
  /\ pc = [ w \in Worker |-> "idle" ]
  /\ work = [ w \in Worker |-> NoWork ]
  /\ child = [ w \in Worker |-> "none" ]
  /\ result = [ w \in Worker |-> "ok" ]
  /\ orphans = [ i \in Place |-> 0 ]
  /\ launches = [ i \in Place |-> 0 ]
  /\ pauses = [ t \in Task |-> 0 ]

-----------------------------------------------------------------------------
(* enqueue_task: the ledger first, then the queue.                         *)

CreateTask(t) ==
  /\ task[t] = Absent
  /\ Len(queue) + Cardinality(drafts) < MaxQueue
  /\ task' = [ task EXCEPT ![t] = "queued" ]
  /\ drafts' = drafts \cup { t }
  /\ UNCHANGED <<queue, holder, pc, work, child, result, orphans, launches, pauses>>

AppendItem(t) ==
  /\ t \in drafts /\ holder = Nobody
  /\ queue' = Append(queue, [ task |-> t, status |-> "pending" ])
  /\ drafts' = drafts \ { t }
  /\ UNCHANGED <<task, holder, pc, work, child, result, orphans, launches, pauses>>

-----------------------------------------------------------------------------
(* run_once.                                                               *)

\* A slip: passes over a task that is running already.
ClaimableUnlessRunning(i) ==
  /\ queue[i].status = "pending"
  /\ queue[i].task # NoTask => task[queue[i].task] \notin { "cancelled", "waiting", "running" }

Claimable(i) ==
  /\ queue[i].status = "pending"
  /\ queue[i].task # NoTask => task[queue[i].task] \notin { "cancelled", "waiting" }

\* _claim_next, under the lock: the first claimable item; one without a task
\* gets one.
Claim(w) ==
  /\ pc[w] = "idle" /\ holder = Nobody
  /\ \E i \in DOMAIN queue :
       /\ Claimable(i) /\ \A j \in 1..(i - 1) : ~Claimable(j)
       /\ \E t \in Task :
            /\ IF queue[i].task = NoTask THEN task[t] = Absent ELSE t = queue[i].task
            /\ work' = [ work EXCEPT ![w] = [ item |-> i, task |-> t ] ]
            /\ task' = IF queue[i].task = NoTask THEN [ task EXCEPT ![t] = "queued" ] ELSE task
  /\ holder' = w
  /\ Goto(w, "claim")
  /\ UNCHANGED <<queue, drafts, child, result, orphans, launches, pauses>>

\* A slip: the item is marked as running in memory only.
ClaimInMemory(w) ==
  /\ pc[w] = "claim"
  /\ queue' = [ queue EXCEPT ![ItemOf(w)].task = TaskOf(w) ]
  /\ holder' = Nobody
  /\ Goto(w, "begin")
  /\ UNCHANGED <<task, drafts, work, child, result, orphans, launches, pauses>>

\* The claim is written before the lock is free.
WriteClaim(w) ==
  /\ pc[w] = "claim"
  /\ queue' = [ queue EXCEPT ![ItemOf(w)] = [ task |-> TaskOf(w), status |-> "running" ] ]
  /\ holder' = Nobody
  /\ Goto(w, "begin")
  /\ UNCHANGED <<task, drafts, work, child, result, orphans, launches, pauses>>

\* The ledger task moves to s, or it may not, or the ledger fails: either error
\* is suppressed.
MovesTo(t, s) ==
  \/ task' = IF CanMove(task[t], s) THEN [ task EXCEPT ![t] = s ] ELSE task
  \/ Faults /\ UNCHANGED task

Begin(w) ==
  /\ pc[w] = "begin"
  /\ MovesTo(TaskOf(w), "running")
  /\ Goto(w, "launch")
  /\ UNCHANGED <<queue, drafts, holder, work, child, result, orphans, launches, pauses>>

Launch(w) ==
  /\ pc[w] = "launch"
  /\ child' = [ child EXCEPT ![w] = "alive" ]
  /\ launches' = [ launches EXCEPT ![ItemOf(w)] = @ + 1 ]
  /\ Goto(w, "watch")
  /\ UNCHANGED <<queue, task, drafts, holder, work, result, orphans, pauses>>

\* _execute_item returns r, and the child is gone or has become nobody's.
Returns(w, r) ==
  /\ result' = [ result EXCEPT ![w] = r ]
  /\ child' = [ child EXCEPT ![w] = "none" ]
  /\ Goto(w, "record")
  /\ UNCHANGED <<queue, task, drafts, holder, work, launches, pauses>>

\* An empty or blocked shell command, or one that cannot be started.
LaunchFails(w) ==
  /\ pc[w] = "launch"
  /\ Returns(w, "failed")
  /\ UNCHANGED orphans

ChildEnds(w) ==
  /\ child[w] = "alive"
  /\ \E r \in { "ok", "failed" } : child' = [ child EXCEPT ![w] = r ]
  /\ UNCHANGED <<queue, task, drafts, holder, pc, work, result, orphans, launches, pauses>>

\* process.poll() has a return code.
Reap(w) ==
  /\ pc[w] = "watch" /\ child[w] # "alive"
  /\ Returns(w, child[w])
  /\ UNCHANGED orphans

\* A slip: a running command is stopped for a pause only.
StopForPause(w) ==
  /\ pc[w] = "watch" /\ child[w] = "alive"
  /\ task[TaskOf(w)] = "waiting"
  /\ Returns(w, "paused")
  /\ UNCHANGED orphans

\* The poll finds the task cancelled or paused: the process group is killed.
Stop(w) ==
  /\ pc[w] = "watch" /\ child[w] = "alive"
  /\ \/ task[TaskOf(w)] = "cancelled" /\ Returns(w, "cancelled")
     \/ task[TaskOf(w)] = "waiting" /\ Returns(w, "paused")
  /\ UNCHANGED orphans

\* Ten minutes have passed: killed.
TimesOut(w) ==
  /\ pc[w] = "watch" /\ child[w] = "alive"
  /\ task[TaskOf(w)] \notin { "cancelled", "waiting" }
  /\ Returns(w, "failed")
  /\ UNCHANGED orphans

\* The ledger does not answer the poll: the exception leaves the child alone.
PollRaises(w) ==
  /\ Faults
  /\ pc[w] = "watch" /\ child[w] = "alive"
  /\ Returns(w, "failed")
  /\ orphans' = [ orphans EXCEPT ![ItemOf(w)] = @ + 1 ]

\* A slip: an item that failed is queued once more.
StatusAgain(r) == CASE r = "ok" -> "done" [] r = "cancelled" -> "cancelled" [] OTHER -> "pending"

\* A slip: the queue shows what the ledger would.
StatusShown(r) == IF r = "ok" THEN "completed" ELSE r

StatusAfter(r) ==
  CASE r = "ok" -> "done" [] r = "failed" -> "failed"
    [] r = "cancelled" -> "cancelled" [] r = "paused" -> "pending"

\* A slip: the outcome is left for the end of the batch.
RecordNothing(w) ==
  /\ pc[w] = "record" /\ holder = Nobody
  /\ Goto(w, "settle")
  /\ UNCHANGED <<queue, task, drafts, holder, work, child, result, orphans, launches, pauses>>

\* _record_outcome
Record(w) ==
  /\ pc[w] = "record" /\ holder = Nobody
  /\ queue' = [ queue EXCEPT ![ItemOf(w)].status = StatusAfter(result[w]) ]
  /\ Goto(w, "settle")
  /\ UNCHANGED <<task, drafts, holder, work, child, result, orphans, launches, pauses>>

\* The ledger gets the outcome, unless it caused it; errors are suppressed.
Settle(w) ==
  /\ pc[w] = "settle"
  /\ CASE result[w] = "ok" -> MovesTo(TaskOf(w), "completed")
       [] result[w] = "failed" -> MovesTo(TaskOf(w), "failed")
       [] OTHER -> UNCHANGED task
  /\ Goto(w, "idle")
  /\ work' = [ work EXCEPT ![w] = NoWork ]
  /\ result' = [ result EXCEPT ![w] = "ok" ]
  /\ UNCHANGED <<queue, drafts, holder, child, orphans, launches, pauses>>

WorkerStep(w) ==
  \/ Claim(w) \/ WriteClaim(w) \/ Begin(w) \/ Launch(w) \/ LaunchFails(w)
  \/ Reap(w) \/ Stop(w) \/ TimesOut(w) \/ PollRaises(w) \/ Record(w) \/ Settle(w)

-----------------------------------------------------------------------------
(* The user, and faults.                                                   *)

\* magent execution pause, resume, cancel or retry.
UserMoves(t, s) ==
  /\ task[t] # Absent /\ CanMove(task[t], s)
  /\ s = "waiting" => pauses[t] < MaxPauses
  /\ task' = [ task EXCEPT ![t] = s ]
  /\ pauses' = IF s = "waiting" THEN [ pauses EXCEPT ![t] = @ + 1 ] ELSE pauses
  /\ UNCHANGED <<queue, drafts, holder, pc, work, child, result, orphans, launches>>

\* The worker is killed or interrupted: its child, which has a session of its
\* own, goes on.
Crash(w) ==
  /\ Faults
  /\ pc[w] # "idle"
  /\ orphans' = IF child[w] = "alive" THEN [ orphans EXCEPT ![ItemOf(w)] = @ + 1 ] ELSE orphans
  /\ holder' = IF holder = w THEN Nobody ELSE holder
  /\ Goto(w, "idle")
  /\ work' = [ work EXCEPT ![w] = NoWork ]
  /\ child' = [ child EXCEPT ![w] = "none" ]
  /\ result' = [ result EXCEPT ![w] = "ok" ]
  /\ UNCHANGED <<queue, task, drafts, launches, pauses>>

OrphanEnds(i) ==
  /\ orphans[i] > 0
  /\ orphans' = [ orphans EXCEPT ![i] = @ - 1 ]
  /\ UNCHANGED <<queue, task, drafts, holder, pc, work, child, result, launches, pauses>>

\* enqueue_task is interrupted between its two writes.
LoseDraft(t) ==
  /\ Faults
  /\ t \in drafts
  /\ drafts' = drafts \ { t }
  /\ UNCHANGED <<queue, task, holder, pc, work, child, result, orphans, launches, pauses>>

Next ==
  \/ \E t \in Task : CreateTask(t) \/ AppendItem(t) \/ LoseDraft(t)
  \/ \E t \in Task, s \in { "waiting", "running", "cancelled", "queued" } : UserMoves(t, s)
  \/ \E w \in Worker : WorkerStep(w) \/ ChildEnds(w) \/ Crash(w)
  \/ \E i \in Place : OrphanEnds(i)

Spec == Init /\ [][Next]_queueVars

\* run_once is called again and again (cron, a service), and enqueue_task ends.
FairSpec ==
  /\ Spec
  /\ \A w \in Worker : SF_queueVars(Claim(w)) /\ SF_queueVars(Record(w)) /\ WF_queueVars(WorkerStep(w))
  /\ \A t \in Task : SF_queueVars(AppendItem(t))

-----------------------------------------------------------------------------
(* Properties.                                                             *)

TypeOK ==
  /\ queue \in Seq(Item)
  /\ task \in [ Task -> TaskState \cup { Absent } ]
  /\ drafts \subseteq Task
  /\ holder \in Worker \cup { Nobody }
  /\ pc \in [ Worker -> Pc ]
  /\ work \in [ Worker -> [ item : Place, task : Task ] \cup { NoWork } ]
  /\ child \in [ Worker -> { "none", "alive", "ok", "failed" } ]
  /\ result \in [ Worker -> Result ]
  /\ orphans \in [ Place -> Nat ] /\ launches \in [ Place -> Nat ]
  /\ pauses \in [ Task -> 0..MaxPauses ]

ChildrenOf(i) == Cardinality({ w \in Worker : child[w] = "alive" /\ ItemOf(w) = i }) + orphans[i]

\* However many workers there are, and whoever dies, at most one command of an
\* item runs at any time.
OneChildPerItem == \A i \in Place : ChildrenOf(i) =< 1

\* The command of an item is started again only because the user paused it:
\* not for a crash, a failure, a timeout or a retry.
RunsAgainOnlyIfPaused ==
  \A i \in DOMAIN queue :
    launches[i] =< 1 + IF queue[i].task = NoTask THEN 0 ELSE pauses[queue[i].task]

\* "Never leave an item stuck in running" (run_once): an item that is marked as
\* running is in the hands of a worker.
RunningIsHeld ==
  \A i \in DOMAIN queue : queue[i].status = "running" => \E w \in Worker : ItemOf(w) = i

\* "Pausing returns the queue item to pending so it can resume" (execution-
\* runtime.md): only the user takes a task out of a pause.
PauseHolds == [][ \A w \in Worker : Begin(w) => task[TaskOf(w)] # "waiting" ]_queueVars

\* Queue entries "atomically record running, completion/failure" (execution-
\* runtime.md): once a worker is through with an item, the ledger has the outcome
\* that the queue has, unless the user cancelled the task.
LedgerHasOutcome ==
  [][ \A w \in Worker : Settle(w) =>
        CASE result[w] = "ok"     -> task'[TaskOf(w)] \in { "completed", "cancelled" }
          [] result[w] = "failed" -> task'[TaskOf(w)] \in { "failed", "cancelled" }
          [] OTHER -> TRUE ]_queueVars

\* A worker that watches the command of a cancelled task stops it.
CancelReachesChild ==
  \A w \in Worker, t \in Task :
    child[w] = "alive" /\ TaskOf(w) = t /\ task[t] = "cancelled"
      ~> child[w] # "alive" \/ TaskOf(w) # t \/ task[t] # "cancelled"

Waits(i) ==
  /\ i \in DOMAIN queue /\ queue[i].status = "pending"
  /\ queue[i].task # NoTask => task[queue[i].task] \notin { "cancelled", "waiting" }

\* No item waits for ever: it is claimed, or the user cancels or pauses its task.
ClaimableRuns == \A i \in Place : Waits(i) ~> ~Waits(i)

\* "Retrying a terminal or blocked task returns it to queued" (execution-
\* runtime.md), from where a worker takes it on.
QueuedIsTakenUp == \A t \in Task : task[t] = "queued" ~> task[t] # "queued"
=============================================================================
