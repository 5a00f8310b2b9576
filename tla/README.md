# A formal model of MagAgent

MagAgent (`src/src/magent`) is a local agent runtime: a command line, a web UI, a
daemon and gateways that start agent work, record it durably, ask a human before
a tool runs, and execute *agentic graphs* of such work. This directory models
in TLA+ what it keeps on disk and shares between processes and threads, and the
control of what runs. TLC checks small instances of every module; TLAPS proves the
most important properties for every size.

Paths below are relative to `src/src/magent` unless they say otherwise.

## 1. The system

| Component | State it keeps | Operations | What is hard |
|---|---|---|---|
| Task ledger (`task_runtime.py`) | SQLite: a row per task, an append-only event log | create, transition, record events, update context | several processes; read-check-write; crash between row and event; busy timeout |
| Workbench store (`workbench_store.py`) | JSON collections, one file each; a lock file | read, write, mutate, append, update_item, quarantine | processes that do not lock; crash or failed write; unreadable file |
| Graph scheduler and executor (`agraph/schedule.py`, `execute.py`, `plan.py`) | statuses, coroutines, fallback chain, completed nodes, usage | rounds, gather, retry, fallback, alternates, compensation | shared attributes of coroutines; cancel and pause at any await; failure while handling failure |
| Composite graph nodes (`agraph/execute.py`) | a scope of jobs per item or iteration, below a node | map, subgraph, loop; attempts, timeout, abort | items side by side; cancel at any await; jobs that share tasks over attempts |
| Graph run records (`agraph/record.py`, `execute.py`, `cli/commands/graph.py`) | the collection `graph_runs` | append, persist, resume, retry of selected jobs | crash between append and persist; several records of one run |
| Approval broker (`approval_broker.py`, `approval_bus.py`) | approvals, decisions, grants in a shared store; waiters in memory | request, decide, replay, grant, revoke, expire, recover | decisions of other processes; timeout against late answer; lost rings |
| Background queue (`daemon.py`) | the collection `daemon_queue`, child processes | enqueue, claim, execute, poll, record, settle | two stores without a common transaction; death with a live child |
| Tool loop (`agent_runtime/tool_loop.py`, `parallel_tools.py`, `permissions/`) | counters of a turn, failed writes | ask the model, check, ask the user, run | limits, denials and failures that meet in one batch |
| Session (`agent_runtime/lifecycle.py`, `context.py`) | conversation, summary, memories | turn, compaction, end | what is cut while a prompt shows less |
| Budgets (`budgets.py`) | spend logs, a cached daily total | check, log a call | other sessions spend; stale cache |
| Session messaging (`session_messaging.py`) | outbox, roster, seen list, inbox as files | send, retry, accept, drain | lost replies; restarts; unlocked files |
| Sub-agents (`subagents/`) | tasks of a runner, ledger rows | spawn, fail, cancel | slots of tasks that never end |
| Goals (`goal_orchestrator.py`) | a plan of steps, its ledger task | run, resume, repair | runs that die half-way; two runs of a plan |
| MCP (`mcp/`) | pipes, request ids, tool catalog | request, question to the user, reconnect | late replies and shared pipes |
| Language servers (`lsp_client.py`) | request ids, reader thread, notifications | request, wait, restart | late replies; restarts |
| Web turns (`ui.py`, `web_runs.py`) | turn lock, runs, event logs, approvals | post, stream, approve, cancel | threads that meet over one run |
| Graphs in the browser (`web_graphs.py`) | drafts and jobs with threads, waiters, grants | generate, start, decide, cancel | cancel against end; retention |
| Schedules (`web_schedules.py`) | a collection with due times | tick, run now, pause | two processes that tick |
| RPC gateway (`rpc_gateway.py`) | streams, a window of events, child processes | start, page, cancel | window overrun; reaping |
| Chat gateway (`gateway/`) | rate table, channel locks, sessions | receive, admit, answer, shut down | cancellation by a time limit |
| Team memory (`team_memory.py`) | a git clone per person, one remote | propose, decide, sync | moving remote; two processes per clone |
| Checkpoints (`workbench.py`, `tools/`) | snapshots and their log | snapshot, restore a session | other sessions; failing snapshots |
| Agent profiles (`agent_profiles/`) | profile files, checkpoints, an inbox of deltas | propose, decide, edit, roll back | check and replacement apart; no lock on either file |
| Migrations (`migrations.py`) | configuration files, marker, zips, history | back up, convert, mark, roll back | a kill between any two files |
| Plugins (`plugins.py`) | tree and state file | install, validate, enable, grant, uninstall | two stores that change one after the other |

Everything that works leaves a task in the **ledger**, and the user steers through
it: `magent execution pause|resume|cancel|retry` moves a ledger row, and workers
notice by polling. **Graph runs** own a root task and one task per node there,
and a record in the collection `graph_runs` of the **workbench store**; so do
**goals**, whose plan is run as one graph of **sub-agents**. The **queue** and the
**schedules** are further collections of that store. A tool that needs consent calls the **approval
broker**, whose store is shared by the process that waits and the one that decides;
a run of the browser without a broker asks a waiter in its own process.

`PROJECT.json` lists every component, with the ones that are not modelled and
why, and every hazard with the line where it bites.

## 2. Modules

```
TaskStates        states and transition table of task_runtime.py
  TaskLedger      one action per operation        <-- TaskLedger_proofs
  TaskLedgerTx    one action per SQL statement    <-- TaskLedgerTx_proofs
                  implements TaskLedger
GraphSchedule     what a document means: edges, joins, selection, bounds
  GraphRun        one execution of run()          <-- GraphRun_proofs
                  implements GraphPromise
  GraphPromise    what observers of a run are promised
  GraphNested     one composite node: map, subgraph or loop  (MCServices)
GraphRecords      the records of runs across resumes and crashes
Collection        a list of items with atomic operations
  WorkbenchStore  files, lock and callers          <-- WorkbenchStore_proofs
                  implements Collection
ApprovalBroker    requests, decisions and grants   <-- ApprovalBroker_proofs
DaemonQueue       queue, workers, children         <-- DaemonQueue_proofs
ToolPermission    what check_permission answers
  AgentTurn       one turn of the tool loop
SessionContext, SpendLimits, Subagents, GoalRun, LspClient, McpLink,
SessionMessaging       scenes of MCSession        <-- MCSession_proofs
WebTurns, GraphDrafts, GraphJobs, WebSchedules, RpcStreams, GatewayRouter,
PluginStore, TeamMemory, Checkpoints, StateMigration,
ProfileDeltas          scenes of MCServices       <-- MCServices_proofs
```

`MC*` modules hold what TLC needs and no code does: documents, calls, symmetry, and the scenes
described in section 3. The modules beside `<--` hold theorems; each extends the module whose specification they are about.

### TaskStates, TaskLedger

`row[t]` has the columns of table `tasks` that the code computes with, `log[t]`
the events of `t`. A timestamp is the sequence number of the event written with
it, which is what its order amounts to. Actions: `Create`, `Transition` (with
pause, resume, cancel, retry as its instances), `RecordEvents`, `UpdateContext`.
An operation the code refuses (`TaskRuntimeError`) changes nothing and is no
step; a transition to the current state returns early and is none either. Titles,
projects, usage and metadata are left out: no guard reads them.

### TaskLedgerTx

Each client runs a call statement by statement: `BeginImmediate` (takes the
write lock), `ReadRow`, `Refuse` or `Update`, `AppendEvents` (sequence is
`MAX + 1`), `Commit`; `BusyTimeout` while another holds the lock; `Crash`
anywhere, after which SQLite rolls back. SQLite itself is external code:
one writer, atomic commit. `ImplementsLedger` maps the committed tables to
`TaskLedger`: every `Commit` is one step of it and everything else a stutter.

### GraphSchedule, GraphRun, GraphPromise

A document is a record: edges with kind and condition, order, entry points, joins, groups,
gates, guards, retries, fallback steps, compensation, limits. A condition is the
set of final statuses of its source that make it true. `GraphSchedule` translates
`edge_table`, `ready_nodes`, `propagate_skips`, the selection of a round and the
plan's worst case.

`GraphRun` is one `run()`. `main` is where the coroutine of `run()` is; `stack[k]`
are the frames of the coroutine of a node (or of compensation), which grow when
an alternate is executed; `chain`, `completed`, `recorded`, `spent` are the
executor's attributes, shared by all coroutines; `root` and `task` are ledger
states; `stored` is the status in the saved record. A coroutine runs from one
await to the next in one step. The user moves `root` at any time, and the asyncio
task of `run()` may be cancelled at any await (`Interrupt`). Exceptions are
explicit: `Throw`, what `gather(return_exceptions=True)` makes of them, and what
each handler of `run()` lets through.

Abstractions: executors of a node return an outcome; conditions speak of their
source; composite nodes are `GraphNested`'s; no success criteria of the graph; `when` of a fallback step is
left out; `Init` is the state after the tasks are created and the
record is appended; the user's moves are followed until `run()` ends.

`GraphPromise` is the specification for an observer who sees document, statuses,
root task and record: each node is decided at most once and for a reason
(`Reason`), at most `parallel` of them executed in a round, the record leaves "running" at
most once, and "succeeded" is true. `GraphRun` implements it (`KeepsPromise`).

### GraphNested

One composite node with `node` (its coroutine), and for each item or iteration the scope (`item`, `st`) with its jobs (`job`), their ledger
tasks (`task`) and who has a record (`recorded`). `shape` is what the document says: map, subgraph or loop, how many side by
side, whether a failed item fails the map and a failed job halts the scope, timeout, attempts, jobs a resume brought along. An attempt
opens scopes anew but keeps the tasks, as `_node_tasks` does; the first item that raises, the timeout and a cancel from
outside lead through `aborting`, where every scope and job unwinds before the node goes on. A job ends succeeded, failed,
held for a human, or skipped (its guard, a rejected gate, a fallback); one that can no longer become ready is blocked (`BlockScope`), and a
job whose guard, inputs or route raise ends its round with an exception. The node looks only for failed jobs, as `run_item` and
`_run_subgraph` do. Jobs do one attempt (retries and fallbacks are `GraphRun`'s); an edge is only what may keep the pending jobs
from becoming ready; criteria are a choice.

### GraphRecords

`records` is the collection; `exec[e]` an execution in process `e` with its record
in memory; `ran[r]` is a history variable, the jobs that executions of `r`
brought to success. A record says of each node how it ended (`failed` stands for blocked and cancelled too). `Accepted` is what lets a
graph succeed: every node succeeded or skipped, or, for a graph with criteria of its own (`Judged`), also waiting for a person. `_find_run` searches from the end, `_persist_record` from the start, and
the model keeps both. The jobs a retry invalidates are any set of jobs: the
closure under dependents is a choice of TLC. Append and persist are single steps
here; what their interleaving does to the file is `WorkbenchStore`'s matter.

### Collection, WorkbenchStore

`Collection` has `Add` (with `_next_id`) and `Update` as single steps.
`WorkbenchStore` runs calls of several processes on a file: `lock` (with its
deadline), `exists`, `load`, `quarantine`, `replace`, `unlock`; kinds of call are
`append` and `update` (under the lock), `rewrite` (read and write back without it,
as `_persist_record` does) and `list` (a bare read). A write is one step because
it is a temporary file and a rename; it may fail, and a process may die anywhere.
`aside` are the files moved aside, named by the second in which they were.

### ApprovalBroker

A request thread passes through publish, wait, look, leave; `decide` of any
process is split at its transaction: what is committed, then what is signalled
in memory. Grants live in the store with their scope; expiry, revocation,
changes of the action under review, orphan recovery, `cancel_owner` and crashes
are steps of their own. The library `aais` (store and envelope) is external: each
of its transactions is atomic. Rings of the doorbell only make a waiter look
sooner, so a waiter may look at any time, and must do so only by the safety poll.

### DaemonQueue

`queue` is the collection, `task` the ledger states, `drafts` the tasks whose item
`enqueue_task` has yet to append. A worker goes `Claim` (lock, first claimable
item) → `WriteClaim` → `Begin` (ledger to running) → `Launch` → `Reap`, `Stop`,
`TimesOut` or `PollRaises` → `Record` (queue) → `Settle` (ledger). A child has a
session of its own: when its worker dies it goes on as an orphan. An illegal or failed
ledger move is suppressed, as in the code. Only due items are in the queue.

### ToolPermission, AgentTurn

`ToolPermission` is `check_permission`: whether an action of a risk tier goes on under a mode, given
who can be asked. `AgentTurn` is one turn of `tool_loop.py`: `AskModel` (any batch, an
answer, garbled markup or a provider error), then each call of the batch passes
through the limits of the turn, the check of its arguments, the permission and its outcome;
neighbouring reads are fetched at once (`parallel_tools.py`) and their results taken in
order. `broken` are the paths whose last write failed, `reported` those that the ending names: with the verifier on, all of them or the
first five (`MaxNamed`), with it off none. `Recover` is the program's own write of a missing content; when the user denies it, the turn goes on.

### SessionContext, SpendLimits

Messages are numbered. `conversation` is cut by compaction into `summary`; `prompt` is what the
last prompt showed; `remembered` is what the extraction of memories was given. A turn is split
at the await of the tool loop; the end of a session runs its hooks, which may raise.
`SpendLimits`: a call is checked before it is made and costs any of `Costs`, nothing included. `logged` is what the logs of all sessions hold,
`dailyCache` the total a tracker remembers for a minute, `last` (history) what a session's last call cost.

### SessionMessaging

The outbox with its attempts, the roster of peers, one connection at a time (`wire`), and what the receiver
has seen, in memory (`order`, which is `_seen_order` and so `_seen`, of twice `MaxQueue` entries) and on disk (`seenFile`), its `inbox`, what it
holds for a review (`held`; the policy is chosen at each start) and what was drained. A review, of the session or of the command line, reads the held file,
replaces it and, when the message is accepted, appends it to the inbox; the reviewer may die in between. A start reads inbox, held and
seen, in this order (`Loaded`). Either side may stop,
crash or start again between any two steps, a reply may come after its sender gave up, and
the oldest entry of a bounded file is cut. `notes` is the history of the messages noted as seen; an item of a file
is the number of its note, so two copies of one message are two items. `accepted`, `taken`, `expired` and `crowded` are histories too.

### Subagents, GoalRun

`agent[t]` is where the coroutine of a sub-agent is, `listed` and `isDone` the runner's table,
`row` its task in the ledger. `GoalRun` has a plan of `N` steps and two runs of it: each reads the plan, runs
its open steps in order, may die, and writes the plan at its end, with a lock only around the write.

### LspClient, McpLink

Requests have ids; the server answers in any order, late or never, and may die. In `LspClient` a reader
thread hands replies to the one request that waits and queues notifications. In `McpLink` client and bridge
exchange lines over two pipes; the bridge's questions read their answer from the pipe that requests come in on.

### WebTurns, GraphDrafts, GraphJobs, WebSchedules

`WebTurns`: handlers with the turn lock, the run's thread, its events, readers that stream and reattach,
approvals between threads, cancel, a project folder that goes. `GraphDrafts`: the bounded table of generation jobs, one thread
each, a cancel that marks at once and reaches the task later. `GraphJobs`: the prompts of a graph run and their local waiters and
grants. `WebSchedules`: two tickers that read without the lock and start jobs inside a locked change, whose write comes after them and may fail
(`unwritten` counts the starts the stored schedule never said).

### RpcStreams, GatewayRouter

`RpcStreams`: a child process, two pumping threads, a bounded window of numbered events, the thread that reaps. A client reads by long poll
(`Poll`) or by server-sent events (`Push`, for the streams in `Pushed`), and only the first is told of a gap.
`GatewayRouter`: one event loop; a message is acknowledged, admitted, waits for its channel, runs a turn, and is
cancelled at whichever await its time limit finds it. A bucket holds the numbers of its user's admissions, whose times are in the history
`admitted`; pruning drops the buckets with nothing in the window, then the least recent ones, ties in any order.

### PluginStore, TeamMemory, Checkpoints

`PluginStore`: the tree and `plugins.toml`, changed one after the other, with crashes. `TeamMemory`: a branch is the set of commits it reaches,
one git command is one step, `propose` and `decide` are several. Any command may fail or be killed, between `git add` and `git commit` too: what is
then left staged goes into the next commit of that clone, and `stranded` (history) says which proposals' nodes that were. `--allow-self-review` is a decision of its own.
`Checkpoints`: a tool reads, snapshots and then changes a file, another session or a restoration in between, the session's own restoration from
another process included; `WritesFirst` is `generate_image`, which snapshots what it has just written, and `extract` and `compress`, which take no snapshot. `before`,
`foreign`, `missed` and `late` are histories. A restoration keeps the checkpoints it has still to put back (`todo`) and takes the newest of them each time.

### StateMigration

A file is of the old form, of the new form, or half copied. `Migrate` opens a zip under a free name, `Save` and `CloseBackup` fill it, but for what lies below
the backup directory (`skips`, one of `Inside`); `SaveFails` is an exception in between, which closes the zip over what is in it. A rollback passes over a file
that its zip does not have. `Convert` replaces the files one by one, `Mark` and `Log` finish; `Rollback` empties and copies file by file and removes the marker. `Crash` ends either anywhere.

### ProfileDeltas

A document is a revision and what was done to it, in order (`marks`); its digest stands for the whole. `Propose` and `Add`, `Decide`,
`Apply`, `Write` and `Note` are the reads and writes of `decide` and `apply_delta`; `Save` and `Rollback` the other two ways to change a profile.
What the operations of a delta do to facts is left out, but for that they may raise.

## 3. What the runs check

| Run | Instance | States | Shows |
|---|---|---|---|
| `ledger` | 1 task, 1 file, 6 events, batches of 2 | 154,884 | legal runs; stamps and attempts; settled stays settled |
| `ledger_tx` | 2 clients, 2 events | 126,626 | implements `TaskLedger`; every call ends |
| `graph_run` | 3 nodes, 5 families of documents, every move of the user, interrupts | 61,206 | ledger tracks statuses; limits; undone iff failed; implements `GraphPromise`; runs end; a cancel stops the run |
| `graph_resume` | 1 run and its resumes | violation | `ResumeRetainsWork` |
| `store` | 2 processes, all kinds of call, faults | 297,424 | every call ends |
| `store_unlocked` | 2 processes, one does not lock | violation | `ItemsAreKept` |
| `broker` | 2 processes, 2 requests, 2 sessions, 1 action | 1.1 million | nothing unapproved; grants sound; decided once |
| `daemon` | 2 workers, 2 items, 1 pause each, faults | 331,794 | one child per item; runs again only if paused |
| `session` | 8 scenes: the parts of one session | 1.5 million | the eight properties of `MCSession` |
| `services` | 14 scenes: front ends, composite nodes and shared stores | 5.1 million | the thirteen properties of `MCServices` |
| `live` | 2 scenes: broker and queue, fair | 16,800 | a decision reaches its waiter; a claimable item runs |
| `team_shared` | 2 people, one with two processes on a clone | violation | `MainIsReviewed` |

**Scenes.** The parts of a session share no state in these models, and neither do the
services. `MCSession` and `MCServices` therefore make one specification of them without
multiplying them: a behaviour picks a scene at its beginning and stays in it, and the slot
variables `v1, v2, ...` are that part's variables through `INSTANCE ... WITH`. A
property of a part is guarded by its scene. What one part does to another's state goes
through a store that has a module of its own (ledger, broker, collection).

| Property | Part | Says |
|---|---|---|
| `HeedsDenial` | `AgentTurn` | after the user denies a call the model made, nothing but the reads started with it runs in the turn |
| `FailuresAreReported` | `AgentTurn` | an ending that reports at all names only files whose last write failed, and all of them unless they are more than it has room for |
| `RecentIsShown` | `SessionContext` | a prompt shows the most recent messages without a gap |
| `OwnSpendIsBounded` | `SpendLimits` | a session that reached its limit, or the daily limit by its own calls, got there by its last call and makes no other, whatever the cached total says |
| `CapHolds` | `Subagents` | no more sub-agents work at a time than the cap |
| `CompletedMeansWorked` | `GoalRun` | a plan is completed only if every step once succeeded, over runs that die or overlap |
| `RepliesAreOurs` | `LspClient`, `McpLink` | no request returns the answer to another; a late reply costs its own request and no other |
| `ExactlyOnce` | `SessionMessaging` | over retries, lost replies, crashes and restarts, a message that was queued is not queued again before `MaxQueue` others were noted (unless a start read it back in front of an older one), and a receipt that says delivered is about a message that was queued, or noted by a receiver that then crashed |
| `UsesAreApproved` | `WebTurns`, `GraphJobs` | a tool of a web turn goes on only after a yes; a graph's prompts go ahead no more often than they were approved |
| `ReadersMissNothing` | `WebTurns`, `RpcStreams` | a stream that ends had every event; a polling client has every event or was told it has not, and one of server-sent events has them unless it fell behind by more than the window |
| `RateIsKept` | `GatewayRouter` | no user exceeds the rate in any window, whatever the pruned table forgets, unless more users than it has room for wrote within one window |
| `CancelledNeverSucceeds` | `GraphDrafts` | a draft the user cancelled never turns into a success |
| `OneRunPerInterval` | `WebSchedules` | two tickers start a schedule at most once each time it is due, and once more for every start whose write was lost |
| `ReviewsStillFit` | `PluginStore`, `ProfileDeltas` | what is enabled or granted is the pack it was given to, over crashes; a delta is applied to the very document it was made from |
| `MainIsReviewed` | `TeamMemory` | only what a teammate accepted, or its author who said `--allow-self-review`, is on main, but for nodes that a failed or killed call left staged |
| `Restored` | `Checkpoints` | restoring a session puts back what its tools changed, but for what another changed since, what no snapshot was taken of in time, and what a tool wrote while the restoration ran |
| `RecordsClaimRealWork` | `GraphRecords` | a record claims only what executions of its run finished, and success only if every node ended in a way its graph accepts |
| `NothingRunsOn` | `GraphNested` | an attempt of a composite node that is over has left no scope and no job working |
| `NoJobIsLost` | `GraphNested` | a subgraph or strict map that succeeds, in a run nobody cancelled, has no job that failed or was left pending or running: each succeeded, was skipped, waits for a human or could not become ready |
| `OriginalsAreSafe` | `StateMigration` | what a file was at first is in place or in a readable zip, whatever failed, was killed or repeated, unless a migration was given a backup directory above the file |
| `LockedCallsAreAtomic` | `WorkbenchStore` | calls that lock change the collection by their own operation, in one step |

Every property has a mutant in `PROJECT.json`: a definition beside the one it
replaces, marked "A slip", that changes the code as a plausible mistake would and
that TLC finds by that property.

### Bounds

Every bound is a constant named in its module. Tasks do not share state, so one task shows
every history of the ledger and two
clients every overlap of two transactions. Three nodes suffice for a join, a branch with
something behind it, two concurrent jobs with a shared alternate, and sagas whose compensation works, fails,
raises before it has a task or has an alternate of its own. Two
processes show every overlap of two
calls on a file, three items a duplicate id. Two requests in two sessions
show a grant of one applied to the other. Two items and two workers show a
double claim, a queue with one item blocked, and a worker beside another's
orphan; one pause shows every way in which a pause meets a step of a worker.

In the session: five calls in three rounds reach every limit of a turn (same call twice, two
failures), and two files that fail where the answer has room for one name (`MaxNamed = 1`; the code's five needs six files and shows the same);
seven turns with a compaction every three reach a second compaction and a full summary; calls that cost 0, 1 or 3 under a session limit of 2, for one
of two sessions, and a daily limit of 5 let each limit be overshot; three sub-agents exceed a
cap of two; three steps and two runs leave a gap in the plan; three requests have two late
replies and a restart between them; two messages over a queue of two with two starts, two
attempts and one reviewer meet a crash, a retry, a review under way and a full file (the repetitions that `ExactlyOnce` leaves room for take more messages than an
exhaustive run affords; section 4 shows one, and the theorem of section 5 speaks of all). In the services: two requests for one conversation, one of them steering; two streams, one per kind of client, one of them running at a time, and a window of two; two users of whom one writes in two channels, and a table with room for one of them, so that a user is forgotten
within the window and outside it; three drafts in a table of two; two due times and one lost write per schedule; two
prompts of which one is a shell command; five plugin operations; two proposals that clash; two sessions, one file and two
checkpoints; one job in the records, since what is claimed of one job does not depend on another, in a run with criteria and one without (`graph_resume` has two jobs); two items of two jobs, so that
an item fails beside one that works, with one attempt, and with two where a retry meets the tasks of
the attempt before; two files, of which none, one or both lie below the backup directory, and three migrations or rollbacks, so that a crash or an
unreadable file is followed by each; two
deltas and two processes with three calls each, so that two documents of one revision meet a delta made for either.

`CHECK_DEADLOCK FALSE` is set where the system may really stop: a ledger, a queue, a
broker or a service to which nobody talks (in the models: at their bounds). It is
on for `TaskLedgerTx`, `GraphRun`, `WorkbenchStore` and `TeamMemory`.

### Fairness

* `TaskLedgerTx`, `WorkbenchStore`: weak fairness of each client's own step, the
  busy or lock deadline included. A process that lives keeps executing, and a
  deadline passes. Nothing makes a lock eventually available; that is why
  the timeouts are needed.
* `GraphRun`: weak fairness of `run()` and of each coroutine: the event loop runs
  what is ready, and a node's body ends (it has a timeout). The user is not fair: nobody
  must resume a paused run, so `RunEnds` is about runs that are in the end not paused.
* `MCLive`, broker: weak fairness of request threads and of the safety poll, none
  of processes that decide.
* `MCLive`, queue: `run_once` is called again and again, so a claim or a record
  that is possible again and again (the lock comes and goes) is made; a command ends or is killed after
  ten minutes.

## 4. Where the code and what is said of it part

Three runs must find a violation; `PROJECT.json` quotes the line of the
repository that says otherwise.

| Run | Property | What happens |
|---|---|---|
| `graph_resume` | `ResumeRetainsWork` | the second resume of a run starts from nothing |
| `store_unlocked` | `ItemsAreKept` | an unlocked rewrite erases an item another process appended |
| `team_shared` | `MainIsReviewed` | two processes on one clone put an unreviewed memory on main |

More properties are stated in the modules, beside the ones that hold, that the code does not
keep. They are not part of the suite. Each row gives the instance under which TLC
shows the counterexample; constants that are not named are those of the module's run.

| Module: instance | Property | What happens |
|---|---|---|
| `GraphRun`: `Sagas`, `UserMoves = {"cancelled"}` | `EndedRunIsRecorded` | a cancel raised while `except Exception` compensates leaves the handler, and the record stays "running" (`agraph/execute.py:288`) |
| `GraphRun`: `Joins`, `{"waiting", "running"}` | `SuccessIsRecorded` | a pause in the last round: waiting → succeeded is illegal, and a success becomes a failure with compensation (`agraph/execute.py:259`) |
| `GraphRun`: `Joins`, `{"cancelled"}`, `FairSpec` | `CancelIsNotFailure` | a cancel that a node notices is gathered as its failure (`agraph/execute.py:399`) |
| `GraphRun`: `Entangled`, 4 nodes, no moves | `NoAlternateRecursion` | jobs share the fallback chain, `pop()` removes a sibling's entry, an alternate runs inside itself (`agraph/execute.py:1155`) |
| `GraphRun`: `Alternates`, no moves | `CyclesAreReal` | a cycle is reported because a sibling uses the alternate (`agraph/execute.py:1135`) |
| `GraphRun`: `Alternates`, no moves | `WorstCaseHolds` | alternates and compensation exceed the plan's worst case (`agraph/plan.py:94`) |
| `GraphRun`: `Branches`, no moves | `UnroutedIsSkipped` | a node two steps behind an untaken branch is blocked and fails the run (`agraph/schedule.py:61`) |
| `GraphNested`: the shapes of `MCServices` | `CancelledMapLosesNoJob` | an item that notices the cancelled root ends cancelled, which a `TaskGroup` ignores: a strict map succeeds with jobs that never ran (`agraph/execute.py:1021`) |
| `GraphNested`: the same | `BlockedJobFails` | only failed jobs fail a composite: a strict map or a subgraph with a job that could not become ready succeeds (`agraph/execute.py:1011`, `1079`) |
| `GraphNested`: the same | `LoopSeesFailures` | a loop does not look at the statuses of its iterations and succeeds with a failed job (`agraph/execute.py:942`) |
| `GraphNested`: the same | `RetryRunsJobs` | a retried composite meets the ended tasks of its jobs: succeeded or failed → running is illegal, so a retry of a subgraph or strict map with such a job fails like the attempt before (`agraph/execute.py:1590`) |
| `GraphNested`: the same | `HeldGateHolds` | a gate held for a human below a node does not hold the node: it succeeds (`agraph/execute.py:1011`, `1079`) |
| `GraphNested`: the same | `TasksSettle` | the tasks of jobs that a timeout or an abort ended stay running (`agraph/execute.py:1021`) |
| `WorkbenchStore`: `Kinds = {"append", "list"}`, `StartStates = {"corrupt"}`, `MaxStamp = 1` | `CorruptFileIsKept` | two readers of an unreadable file within one second lose it (`workbench_store.py:62`) |
| `ApprovalBroker`: 1 request, 1 session | `ApprovedIsNotDenied` | a repeated approval wakes the waiter without an answer, and it denies (`approval_broker.py:614`) |
| `DaemonQueue`: 2 workers, 1 task, `MaxPauses = 0` | `RunningIsHeld` | a worker that dies leaves its item running for ever (`daemon.py:73`) |
| `DaemonQueue`: the same, `MaxPauses = 1`, no faults | `PauseHolds` | a pause between claim and start is undone by the worker (`daemon.py:129`) |
| `DaemonQueue`: the same | `LedgerHasOutcome` | the queue has an outcome that the ledger refused (`daemon.py:160`) |
| `DaemonQueue`: no pauses, `FairSpec` | `QueuedIsTakenUp` | a retried task of the queue is never run, its item stays done (`daemon.py:73`) |
| `AgentTurn` | `EveryEndReports` | a turn that ends by repetition, denial, garbled markup, a limit or a provider error says nothing of the writes that failed, and the other ends name no more than five of them, or none with the verifier off (`docs/troubleshooting.md:82`; `tool_loop.py:712`, `718`) |
| `AgentTurn` | `EveryDenialIsHeeded` | the user denies the write that the program itself dispatched to recover a missing content, and further calls run in the turn (`tool_loop.py:781`) |
| `SessionContext` | `NothingForgotten` | messages between the summary and the shown part are in neither (`src/README.md:565`) |
| `SpendLimits` | `LimitIsHard` | a call is checked before it is made and its cost added afterwards, so a session ends up beyond its limit by up to the cost of a call (`budgets.py:150`, `126`) |
| `SpendLimits` | `DailyStopIsDue` | a session is stopped before the daily limit is reached: its own spend is added to a total that already has it (`budgets.py:11`) |
| `SessionMessaging`: 5 messages, `MaxAttempts = 7`, `MaxStarts = 3` | `NeverSoonAgain` | a start reads what waits in the inbox and the held file before what was seen, so an item may overtake the older ones it is read in front of and be forgotten first; its retry is queued again at once (`session_messaging.py:570`). TLC finds it along a guided behaviour, the instance is too large for all of them |
| `SessionMessaging` | `AcceptedIsKept` | an unlocked replacement by a drain or a review, or a reviewer that dies between its two files, loses an acknowledged message (`session_messaging.py:143`) |
| `SessionMessaging` | `CutIsNotDelivered` | a message that the receiver noted as seen and then lost in a crash is reported delivered: its retry is a "Duplicate suppressed" (`session_messaging.py:706`) |
| `WebTurns` (folder may go) | `LockMeansTurn` | a folder that disappears leaves the turn lock held by nobody's turn (`ui.py:869`) |
| `GraphDrafts` | `CancelSticks`, `NoThreadDies` | an exception of the task that is being cancelled turns the job into a failed one; a job thrown out of the table while it runs loses its thread (`web_graphs.py:145`, `231`) |
| `GraphJobs` | `AcceptedDecisionCounts` | a decision reported as accepted arrives after its wait ended (`web_graphs.py:525`) |
| `McpLink`: `MaxQuestions = 1` | `CatalogKnowsItsAge`, `FailedMeansNotDone` | a list-changed notice during the listing is lost; a request given up is carried out (`mcp/client.py:498`) |
| `GoalRun`: 3 runs | `ResumeFindsTheGap`, `TaskAgrees` | a resume counts the passed results and starts behind a gap two runs left; a completed plan has a failed task (`goal_orchestrator.py:794`) |
| `Subagents` | `SlotsComeBack` | a cancelled sub-agent is never done and keeps its slot (`subagents/__init__.py:89`, `203`) |
| `RpcStreams` | `EventStreamIsTold` | the loop of a server-sent event stream goes on from `page["next"]` and never sends `gap`: a reader that fell behind the window misses events without a word (`rpc_gateway.py:735`) |
| `RpcStreams` | `CancelStopsTheGroup`, `DoneIsLast` | the group is not killed once its leader was reaped; lines follow the done event (`rpc_gateway.py:555`, `459`) |
| `GatewayRouter` | `SuccessMarkIsEarned`, `RowsAreClosed`, `ShutdownFinishes` | a cancelled reply has the success mark, its row stays running; a session that fails to close ends the shutdown (`gateway/base.py:123`, `router.py:405`) |
| `GatewayRouter`: `MaxTracked = 1` | `RateIsKept` without its second clause | when more users write than the table has room for, the one that is dropped starts afresh (`router.py:40`) |
| `WebSchedules` | `OnceEvenUnwritten` | the jobs are started before the collection is written: when the write fails, the schedule is still due and starts again (`web_schedules.py:129`) |
| `PluginStore` | `ForceAsksAgain` | `--force` puts another tree under an entry that keeps its grants |
| `PluginStore`: 2 processes | `EntryIsForThisPack` | an entry written for a tree that another process has replaced |
| `Checkpoints` | `EverySnapshotIsTaken`, `RestorationSucceeds` | a file is changed although its snapshot failed, `generate_image` snapshots what it has just written (`tools/artifacts.py:574`), `extract` and `compress` take no snapshot (`tools/files.py:307`), and a restoration reports success over the lost bytes (`src/README.md:97`); restoring over a directory fails and the rest is left |
| `StateMigration` | `BackupHoldsEverything` | with `--backup-dir` at the state root or above it every file is skipped, the zip is empty and the files are converted all the same (`migrations.py:159`; `docs/compatibility.md:26`) |
| `StateMigration` | `MarkerMeansMigrated` | a rollback that is killed before it removes the marker leaves old or half-copied files that no migration will look at again (`migrations.py:181`) |
| `StateMigration`: `MaxMigrations = 4` | `HistoryOnlyGrows` | a rollback restores the history of its zip and forgets later migrations (`docs/known-limitations.md:26`) |
| `ProfileDeltas` | `OnlyRollbackUndoes` | two accepts, or an accept and an edit, both pass the digest check; the second replacement erases the first (`agent_profiles/delta.py:1` "conflict-safe", `agent_profiles/desktop.py:139`) |
| `ProfileDeltas` | `ProposalsAreKept`, `AppliedIsDecided` | the inbox is read and rewritten without a lock; a delta applied before a crash stays pending and can only conflict (`agent_profiles/delta.py:328`) |
| `LspClient`: 3 requests, 3 notes | `NotesInOrder` | notifications put aside come back behind newer ones |
| `TeamMemory` | `NothingUnreviewed` | a `git commit` of `propose` that fails, times out or is killed leaves the nodes staged; the next review which that clone records, a reject included, commits and pushes them (`team_memory.py:289`, `396`) |
| `TeamMemory` | `DecidedOnce`, `RecallIsReviewed` | two reviewers decide one proposal differently in their clones; a clone recalls what it staged (`team_memory.py:20`) |

Also stated and found to hold when they were checked by themselves with the same instances:
`OneTurnAtATime`, `CancelEnds`, `WorkIsBounded`, `TurnEnds`, `AcceptedOnce`, `ReceiptMeansAccepted`,
`PausedStartsNothing`, `RowTellsTheSame`, `StreamsWithinCap`, `CancelIsOnItsWay`, `OneTurnPerChannel`, `NeverTorn` and
each module's `TypeOK`; and, with the instances of the runs, every inductive invariant that section 5 names.

Smaller observations, met while modelling: reads fetched together may exceed the limit on equal calls or run beside a sibling's
denial (`parallel_tools.py:64`); the end of a session whose required hook is missing leaves messaging and MCP running
(`lifecycle.py:243`); an approval cancelled before it is registered waits for its timeout
(`web_runs.py:115`), and a decision that arrives as it ends is reported as accepted (`web_runs.py:205`); an answer to an open MCP question
may swallow the next request (`bridge.py:260`); a "run now" un-pauses a schedule, and a tick
that raises ends the thread that ticks (`web_schedules.py:150`); a restarted peer can be unlinked from the roster; a request to a dead language server waits
its full time limit; `agent accept --rebase` offers to rebase a delta
(`cli/commands/agents.py:525`), which always refuses (`agent_profiles/delta.py:65`), so of several deltas of one session one can be accepted; `enqueue_task` may leave a task without an item (`daemon.py:30`); `enqueue_due_followups` (`daemon.py:177`) and
the memory inbox rewrite their collections without the lock, like `store_unlocked`.

## 5. What is proved

Every theorem holds for all values of the constants under the `ASSUME`s of its module.

* **`TaskLedger_proofs`**: `[]TypeOK`, `[]RowMatchesLog`, `[]LogIsLegalRun`, `[]StampsMatchLog`,
  `[]SettledUntilRetried`. The invariant `IInv` is their conjunction: none alone is inductive, since a stamp is right
  only if the row has the state of the last event, and a settled log stays one only if the
  next event was checked against that state. A lemma reduces
  every action to one of three shapes (`IsCreate`, `IsMove`, `IsKeep`), and
  one lemma per conjunct shows what such a step does to a log that is extended at its end.
* **`TaskLedgerTx_proofs`**: `[]TypeOK`, `[]OneWriter`, `[]ReadsStayCurrent`, and `Implementation`: `Spec => L!Spec`. `TxInv`
  adds that a call under way is an operation, that
  a call past its read was not refused, and that a task under creation is fresh: `Commit` must be a step of `TaskLedger` from the
  *committed* row, so what the transaction read and computed must still be what the ledger would compute now.
* **`WorkbenchStore_proofs`**: when every call takes the lock (`AllLock`), `LockedCallsAct` and the refinement
  `StoreImplementsCollection`. The invariant says that only the holder of the lock is between its
  read and its write, so what it read is what the file holds, and that ids are distinct and below the next one, so that an append is `Add`.
* **`ApprovalBroker_proofs`**: `NothingGoesUnapproved`, `GrantsAreAlwaysSound`, `DecisionsAreFinal`, from `BrokerInvHolds`. The
  invariant ties each request to what its waiter knows of it (`Row`), each grant to the approval that earned it and each use of a grant to
  the grant: an answer in memory is trusted only because it was copied from a resolved request.
* **`DaemonQueue_proofs`**: `OneCommandPerItem` and `RestartsArePaid`, from `QueueInvHolds`: an item that is not
  running has no worker and no child, a worker's item is its own alone, and the launches of an item never exceed its pauses by more than one.
* **`GraphRun_proofs`**: `TypeCorrect`, `LimitsHold` (`JobsWithinLimits`), `LedgerAgrees` (`LedgerTracksStatus`), `FailuresAreUndone` (`UndoneIffFailed`)
  and the refinement `RunKeepsPromise`, for every set of documents over any finite set of nodes.
  `LimitsInv` adds that jobs are at work only while `run()` waits for its gather, so a new round meets none of the last, and that what
  `Picks` selects respects limit and groups. `LedgerInv` says to whom a frame belongs
  (`Belong`: a node's coroutine has the node's own frame at the bottom and alternates above it) and that until a node is decided its
  task is recorded only together with the result that the gather will get, and says the same: so an alternate that fails, a
  cancel half-way or an exception leaves nothing else in the ledger. `PromiseInv` says that what a round has launched was allowed when it
  began and still is (a decided source never changes), and what `outcome` and `root` may be when the record is saved.
  `UndoInv` says that a node which succeeded, or whose alternate did, is listed in `completed` before anybody can see the
  success, that nothing is undone while the run still schedules, and that while it undoes, a node is still to be undone,
  or its compensation has just been entered, or was tried. "Tried" is as much as the code does: a compensation whose guard or inputs
  raise has no task, one that fails is not repeated (what it raises is suppressed), and what a compensation's own alternates complete is not
  undone in turn (`UndoIsDirect` says when there are none).
* **`MCSession_proofs`** and **`MCServices_proofs`** prove properties of the scenes, from the invariants that the modules of the parts
  define; that a behaviour stays in its scene is a lemma (`SceneStep`).

  | Theorem | Invariant | Why it is needed |
  |---|---|---|
  | `DenialsAreHeeded`, `ReportsAreExact` | `AgentTurn`: `BatchInv`, `DenialInv`, `FailuresInv` | a denial found among reads fetched ahead is not judged yet: until it is, only its own group may be judged; the table of failed files is what the history of calls says, and what an ending names is taken from it |
  | `NothingRecentIsLost` | `SessionContext`: `ContextInv` | the conversation is the last messages made, after any compaction |
  | `LimitsAreKept` | `SpendLimits`: `SpendInv` | a remembered daily total is never below what the session itself spent, a check that passed is spent once, and below the limits |
  | `CapAlwaysHolds`, `RowsTellTheSame` | `Subagents`: `CapInv`, `RowInv` | what works is listed and not done; only `Complete` makes a row completed |
  | `CompletionIsEarned` | `GoalRun`: `GoalInv` | every success in a plan, or in the memory of a run, is of a step that once succeeded |
  | `EveryReplyIsOurs` | `LspClient`: `ReplyInv`, `McpLink`: `McpInv` | an id names one request for ever; every mismatch, past or still on its way, was paid for by an orphan |
  | `EachAcceptedOnce` | `SessionMessaging`: `PeerInv` | the seen file ends with the last notes, and what a start reads back behind an item that is not `crowded` are messages of that file, so a message first queued among the last `MaxQueue` notes is known, in memory and after a start; an answer, on the wire or in a receipt, repeats what a finished note said |
  | `RateAlwaysKept` | `GatewayRouter`: `RateInv` | what a bucket remembers of the window fits, and an admission of the window that it has forgotten was dropped in a crowd |
  | `SessionsArePutBack` | `Checkpoints`: `SaveInv` | the oldest checkpoint of a path that is in time is what it held before, a path with none is unchanged, and what is left to put back is older than all that was |
  | `LockedCallsStayAtomic` | `StoreInv` of `WorkbenchStore_proofs` | the shelf is, definition for definition, a store whose callers all lock, so `LockedCallsAct`, which is about any number of callers, speaks of it |
  | `OneRunEachTime` | `WebSchedules`: `OwedInv` | a schedule that is due has a start to its credit, whoever still holds an old reading |
  | `CancelledStays` | type of the table | the end of a job looks at its status first |
  | `UsesHaveApprovals` | `WebTurns`: `YesInv`, `GraphJobs`: `UseInv` | an approval that waits to be used is counted with the uses |
  | `NothingIsMissed` | `WebTurns`: `StreamInv`, `RpcStreams`: `PageInv` | a run is over only after the last event of its own thread, so a reader that sees it over and then reads has that event; the events of a page follow those before it unless the window has moved past them |
  | `RecordsAreEarned` | `GraphRecords`: `ClaimsInv` | what an execution claims in memory was finished by its own run, and it concludes with success only on ends that its graph accepts |
  | `OriginalsStaySafe` | `StateMigration`: `ZipInv` | a file whose original is in no readable zip was never touched: files are converted only after a zip is closed with all but what was left out, what a rollback puts back comes from a zip, and no closed zip is opened for writing again |
  | `NothingWorksAfter` | `GraphNested`: `WorkInv` | a job works only below a scope in its gather, a scope only below a node in its body or unwinding; a loop has one iteration at a time |
  | `NoJobGetsLost` | `GraphNested`: `DoneInv` | what a scope holds to be over is what the ledger says, a strict scope returns only when nothing is open and nothing failed; a dropped item means the root was cancelled |
  | `ReviewsFit` | `PluginStore`: `StoreInv`, `ProfileDeltas`: `FitInv` | what an operation read still is what there is; every document, in the file, a checkpoint or memory, has each delta on top of the document it was made from |
  | `MainStaysReviewed` | `TeamMemory`: `TeamInv` | every commit on a main, remote or cloned, was accepted, but for what is stranded and the one proposal that a call under way has merged; a branch holds its own proposal and what is stranded; no nodes are staged in a clone but those its process staged and the stranded |

The hypotheses are the named `ASSUME`s of the modules, which TLC evaluates. Most say what kind of value a constant is. Four say more:
`AllLock` (the two theorems of `WorkbenchStore_proofs` are about callers that lock; `store_unlocked` shows what the others do);
`PluginAssumption` and `TeamAssumption` (one process that changes the plugins, one in each clone, since the code has no lock there: section
4 and `team_shared` show what two do); and the documents of `RunAssumption`, which are those that `plan_graph`
accepts: every node once in the topological order, positive attempts and parallelism.
`EachAcceptedOnce` counts from where a message was first queued (`First`). Once it came a second time, an old copy that still waits in the
files is read back in front of newer messages and forgotten before them, so between a second and a third time there may be fewer notes. For the
same reason it excepts a message that a start read back in front of an older one (`crowded`): `NeverSoonAgain` is the statement without that exception.

Only model-checked: every liveness property and everything about fairness, which are out of the prover's reach. Every safety property that
a passing run checks is proved. The theorems are about the specifications as they stand; that a constant bounds a history (`MaxOps`,
`MaxClock`) is part of them, and it may be any natural number.

No module uses a RECURSIVE operator.

## 6. What is not modelled

Criteria of nodes and graphs; parsing and
validation of documents; what models, tools and external servers answer; the
projections for clients; presentation (`cli/`, `webui/`), which is most of the repository's lines and
consists of single calls on the components above; the stores of
conversations (single writers); shell commands left in the background; extraction and ranking of memories, merging of
nodes and the other pure functions over text and graphs; provider requests. Some steps are coarser than the code: a start of a session
reads its three files in one step, one session is restored at a time, and the calls that a compaction or the recovery of a missing content makes
to the model are not counted among those of `SpendLimits`. `PROJECT.json` gives the
reason for every component. Hazards that no property covers have a note there.

## 7. What is left

`BrokerScene` behind `WebTurns` and `GraphJobs`: the path that hands an approval to the broker.
