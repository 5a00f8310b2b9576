------------------------------ MODULE TaskLedger ------------------------------
(***************************************************************************)
(* The durable task ledger (task_runtime.py): a table of task rows and an  *)
(* append-only log of events per task.  Every operation of TaskRuntime is  *)
(* one SQLite transaction that updates the row and appends its event, so   *)
(* here it is one action; TaskLedgerTx splits it into the statements of    *)
(* concurrent connections and shows that they implement this module.       *)
(*                                                                         *)
(* A timestamp is the sequence number of the event written in the same     *)
(* transaction: `updated_at` order is event order, and "" is 0.  An        *)
(* operation that raises TaskRuntimeError (unknown task, illegal move)     *)
(* changes nothing, nor does a transition to the current state.            *)
(***************************************************************************)
EXTENDS Naturals, Sequences, FiniteSets, TaskStates

CONSTANTS
  Task,       \* task ids
  File,       \* paths an update_context may report as changed
  MaxBatch,   \* largest batch given to record_events (1000 in the code)
  MaxEvents   \* bound: events per task, for model checking only

ASSUME LedgerAssumption ==
  /\ MaxBatch \in Nat \ {0}
  /\ MaxEvents \in Nat

VARIABLES
  row,        \* row[t]: the columns of t in table `tasks`
  log         \* log[t]: the rows of t in table `task_events`, by sequence

ledgerVars == <<row, log>>

Absent == "absent"

Row == [ state      : TaskState \cup { Absent },
         attempt    : Nat,
         startedAt  : Nat,
         finishedAt : Nat,
         files      : SUBSET File ]

EventType == { "task_created", "state_changed", "task_context_updated", "recorded" }
Event     == [ type : EventType, state : TaskState ]

NoRow == [ state |-> Absent, attempt |-> 0, startedAt |-> 0, finishedAt |-> 0,
           files |-> {} ]

Exists(t) == row[t].state # Absent
HasRoom(t, n) == Len(log[t]) + n =< MaxEvents

\* A slip: the sequence skips one.
NowSkipping(t) == Len(log[t]) + 2

\* The time of the transaction now running on t.
Now(t) == Len(log[t]) + 1

Ev(type, state) == [ type |-> type, state |-> state ]

-----------------------------------------------------------------------------
(* The pieces of an UPDATE.                                                *)

\* started_at keeps the first start of the task over every later attempt.
StartStamp(r, s, now) ==
  IF r.startedAt # 0 THEN r.startedAt
  ELSE IF s \in StartedState THEN now ELSE 0

\* finished_at is cleared whenever the task leaves its final state.
FinishStamp(r, s, now) == IF s \in FinishedState THEN now ELSE 0

\* A slip: a blocked task that is queued again goes on with its attempt.
NextAttemptAnyQueue(r, s) ==
  r.attempt + (IF r.state \in FinishedState /\ s = "queued" THEN 1 ELSE 0)

NextAttempt(r, s) == r.attempt + (IF BeginsAttempt(r.state, s) THEN 1 ELSE 0)

Moved(r, s, now) ==
  [ r EXCEPT !.state = s,
             !.startedAt = StartStamp(r, s, now),
             !.finishedAt = FinishStamp(r, s, now),
             !.attempt = NextAttempt(r, s) ]

Created(s) ==
  [ NoRow EXCEPT !.state = s,
                 !.attempt = 1,
                 !.startedAt = IF s \in StartedState THEN 1 ELSE 0,
                 !.finishedAt = IF s \in FinishedState THEN 1 ELSE 0 ]

\* A slip: the transition table is not consulted.
MayMoveNoCheck(from, to) == from # to

\* Guard of transition(): the table, and the no-op for the current state.
MayMove(from, to) == from # to /\ CanMove(from, to)

-----------------------------------------------------------------------------
Init ==
  /\ row = [ t \in Task |-> NoRow ]
  /\ log = [ t \in Task |-> <<>> ]

\* create(): the row and its first event, in any initial state.
Create(t, s) ==
  /\ ~Exists(t)
  /\ HasRoom(t, 1)
  /\ row' = [ row EXCEPT ![t] = Created(s) ]
  /\ log' = [ log EXCEPT ![t] = Append(@, Ev("task_created", s)) ]

\* transition(): also pause, resume, cancel and retry, which only name the
\* target state.
Transition(t, s) ==
  /\ Exists(t)
  /\ MayMove(row[t].state, s)
  /\ HasRoom(t, 1)
  /\ row' = [ row EXCEPT ![t] = Moved(@, s, Now(t)) ]
  /\ log' = [ log EXCEPT ![t] = Append(@, Ev("state_changed", s)) ]

\* A slip: whoever records is taken to be running.
RecordEventsAsRunning(t, n) ==
  /\ Exists(t)
  /\ HasRoom(t, n)
  /\ log' = [ log EXCEPT ![t] = @ \o [ i \in 1..n |-> Ev("recorded", "running") ] ]
  /\ UNCHANGED row

\* record_events(): a batch of events stamped with the state of the row.
RecordEvents(t, n) ==
  /\ Exists(t)
  /\ HasRoom(t, n)
  /\ log' = [ log EXCEPT ![t] = @ \o [ i \in 1..n |-> Ev("recorded", row[t].state) ] ]
  /\ UNCHANGED row

\* update_context(): merge evidence into the row and log it.
UpdateContext(t, fs) ==
  /\ Exists(t)
  /\ HasRoom(t, 1)
  /\ row' = [ row EXCEPT ![t].files = @ \cup fs ]
  /\ log' = [ log EXCEPT ![t] = Append(@, Ev("task_context_updated", row[t].state)) ]

Next ==
  \E t \in Task :
    \/ \E s \in TaskState : Create(t, s)
    \/ \E s \in TaskState : Transition(t, s)
    \/ \E n \in 1..MaxBatch : RecordEvents(t, n)
    \/ \E fs \in SUBSET File : UpdateContext(t, fs)

Spec == Init /\ [][Next]_ledgerVars

-----------------------------------------------------------------------------
(* Properties.                                                             *)

\* Rows and events are well formed, and no stamp lies outside the log.
TypeOK ==
  /\ row \in [ Task -> Row ]
  /\ log \in [ Task -> Seq(Event) ]
  /\ \A t \in Task : /\ row[t].startedAt =< Len(log[t])
                     /\ row[t].finishedAt =< Len(log[t])

\* A task has a row exactly when it has a log, the log begins with its
\* creation, and the last event carries the state of the row: the row and the
\* log, written in one transaction, never disagree.
RowMatchesLog ==
  \A t \in Task :
    /\ Exists(t) <=> log[t] # <<>>
    /\ Exists(t) => /\ log[t][1].type = "task_created"
                    /\ log[t][Len(log[t])].state = row[t].state

\* The log is a legal run of the lifecycle: only a state_changed event changes
\* the state, and only along the transition table.
LogIsLegalRun ==
  \A t \in Task : \A i \in 2..Len(log[t]) :
    LET before == log[t][i-1].state
        after  == log[t][i].state
    IN  IF log[t][i].type = "state_changed"
        THEN CanMove(before, after)
        ELSE log[t][i].type # "task_created" /\ after = before

\* Positions of t's log at which a new attempt began.
Requeues(t) ==
  { i \in 2..Len(log[t]) : BeginsAttempt(log[t][i-1].state, log[t][i].state) }

StartMatchesLog(t) ==
  /\ row[t].startedAt = 0 => \A i \in 1..Len(log[t]) : log[t][i].state \notin StartedState
  /\ row[t].startedAt # 0 =>
       /\ log[t][row[t].startedAt].state \in StartedState
       /\ \A i \in 1..(row[t].startedAt - 1) : log[t][i].state \notin StartedState

FinishMatchesLog(t) ==
  /\ row[t].finishedAt # 0 <=> row[t].state \in FinishedState
  /\ row[t].finishedAt # 0 =>
       /\ log[t][row[t].finishedAt].type \in { "task_created", "state_changed" }
       /\ \A i \in row[t].finishedAt..Len(log[t]) : log[t][i].state = row[t].state

\* The stamps and the attempt number, which the code updates incrementally,
\* are what the whole log says: the first start, the entry into the final
\* state the task is in (none if it is not ended), one attempt per re-queue.
StampsMatchLog ==
  \A t \in Task : Exists(t) =>
    /\ StartMatchesLog(t)
    /\ FinishMatchesLog(t)
    /\ row[t].attempt = 1 + Cardinality(Requeues(t))

\* Outcomes that a retry alone may undo; "failed" may also become blocked or
\* cancelled.
Settled == { "completed", "succeeded", "cancelled", "skipped" }

\* What ended as completed, succeeded, cancelled or skipped stays so for the
\* rest of that attempt: between it and any later, different state the task was
\* re-queued.  (A cancelled task cannot come back as a success.)
SettledUntilRetried ==
  \A t \in Task : \A i, j \in 1..Len(log[t]) :
    (i < j /\ log[t][i].state \in Settled /\ log[t][j].state # log[t][i].state)
      => \E k \in Requeues(t) : i < k /\ k =< j
=============================================================================
