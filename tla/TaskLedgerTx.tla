----------------------------- MODULE TaskLedgerTx -----------------------------
(***************************************************************************)
(* The ledger as its concurrent users run it: each call of TaskRuntime     *)
(* opens a connection, executes BEGIN IMMEDIATE, reads the row, updates it,*)
(* reads the last event sequence, inserts its events and commits.  Clients *)
(* are processes (CLI, daemon, desktop) or threads; any of them may die    *)
(* between two statements, and SQLite then discards what it had written.   *)
(*                                                                         *)
(* `row` and `log` are the committed tables.  The module implements        *)
(* TaskLedger, in which the same operations are atomic.                    *)
(***************************************************************************)
EXTENDS Naturals, Sequences, FiniteSets

CONSTANTS Task, File, MaxBatch, MaxEvents,   \* as in TaskLedger
          Client,                            \* users of the database
          NoClient                           \* nobody holds the write lock

ASSUME TxAssumption ==
  /\ MaxBatch \in Nat \ {0}
  /\ MaxEvents \in Nat
  /\ NoClient \notin Client

VARIABLES
  row, log,   \* the committed tables
  writer,     \* the connection inside BEGIN IMMEDIATE ... COMMIT
  pc,         \* pc[c]: the next statement of c's call
  op,         \* op[c]: the call under way, NoOp if none
  draft       \* draft[c]: what c has read, and written without committing

L == INSTANCE TaskLedger

ledger == <<row, log>>
txVars == <<row, log, writer, pc, op, draft>>

Op == [ kind : { "create", "transition" }, task : Task, state : L!TaskState ]
        \cup [ kind : { "record" }, task : Task, n : 1..MaxBatch ]
        \cup [ kind : { "context" }, task : Task, files : SUBSET File ]

NoOp == [ kind |-> "none" ]

Draft == [ row : L!Row, base : Nat, events : Seq(L!Event) ]
NoDraft == [ row |-> L!NoRow, base |-> 0, events |-> <<>> ]

Pc == { "idle", "begin", "read", "update", "append", "commit" }
InTransaction(c) == pc[c] \in { "read", "update", "append", "commit" }

Goto(c, label) == pc' = [ pc EXCEPT ![c] = label ]

\* The connection closes and the call is over.
End(c) ==
  /\ Goto(c, "idle")
  /\ op' = [ op EXCEPT ![c] = NoOp ]
  /\ draft' = [ draft EXCEPT ![c] = NoDraft ]

-----------------------------------------------------------------------------
Init ==
  /\ L!Init
  /\ writer = NoClient
  /\ pc = [ c \in Client |-> "idle" ]
  /\ op = [ c \in Client |-> NoOp ]
  /\ draft = [ c \in Client |-> NoDraft ]

\* A new task gets a fresh uuid: one that no row and no other call has.
FreshFor(c, t) ==
  /\ ~L!Exists(t)
  /\ \A d \in Client \ {c} : pc[d] # "idle" => op[d].task # t

\* A client calls create, transition, record_events or update_context.
Call(c, o) ==
  /\ pc[c] = "idle"
  /\ o.kind = "create" => FreshFor(c, o.task)
  /\ op' = [ op EXCEPT ![c] = o ]
  /\ Goto(c, "begin")
  /\ UNCHANGED <<ledger, writer, draft>>

\* A slip: BEGIN without IMMEDIATE takes no lock before the reads.
BeginDeferred(c) ==
  /\ pc[c] = "begin"
  /\ writer' = c
  /\ Goto(c, "read")
  /\ UNCHANGED <<ledger, op, draft>>

\* _connect(write=True): BEGIN IMMEDIATE waits for the write lock.
BeginImmediate(c) ==
  /\ pc[c] = "begin"
  /\ writer = NoClient
  /\ writer' = c
  /\ Goto(c, "read")
  /\ UNCHANGED <<ledger, op, draft>>

\* A slip: waits for the lock for as long as it takes.
BusyRetry(c) ==
  /\ pc[c] = "begin"
  /\ writer # NoClient
  /\ UNCHANGED txVars

\* The 60 seconds of busy_timeout pass while another connection writes.
BusyTimeout(c) ==
  /\ pc[c] = "begin"
  /\ writer # NoClient
  /\ End(c)
  /\ UNCHANGED <<ledger, writer>>

EventCount(o) == IF o.kind = "record" THEN o.n ELSE 1

\* A slip: does not look whether the row is there.
RefusedUnchecked(c) ==
  LET t == op[c].task IN
  \/ op[c].kind = "transition" /\ ~L!MayMove(row[t].state, op[c].state)
  \/ ~L!HasRoom(t, EventCount(op[c]))

\* TaskRuntimeError: no such task, or the transition is illegal.  A transition
\* to the current state returns the row as it is.  (The bound on events is a
\* full disk: the INSERT fails and the transaction is rolled back.)
Refused(c) ==
  LET t == op[c].task IN
  \/ op[c].kind # "create" /\ ~L!Exists(t)
  \/ op[c].kind = "transition" /\ ~L!MayMove(row[t].state, op[c].state)
  \/ ~L!HasRoom(t, EventCount(op[c]))

Refuse(c) ==
  /\ pc[c] = "read"
  /\ Refused(c)
  /\ End(c)
  /\ writer' = NoClient
  /\ UNCHANGED ledger

\* SELECT * FROM tasks.
ReadRow(c) ==
  /\ pc[c] = "read"
  /\ ~Refused(c)
  /\ draft' = [ draft EXCEPT ![c] = [ row |-> row[op[c].task],
                                      base |-> Len(log[op[c].task]),
                                      events |-> <<>> ] ]
  /\ Goto(c, "update")
  /\ UNCHANGED <<ledger, writer, op>>

\* The row each call writes from row r, read when the log had n events.
RowWritten(o, r, n) ==
  CASE o.kind = "create"     -> L!Created(o.state)
    [] o.kind = "transition" -> L!Moved(r, o.state, n + 1)
    [] o.kind = "context"    -> [ r EXCEPT !.files = @ \cup o.files ]
    [] o.kind = "record"     -> r

RowOf(c) == RowWritten(op[c], draft[c].row, draft[c].base)

\* A slip: without a transaction around it, the UPDATE is visible at once.
UpdateAutocommit(c) ==
  /\ pc[c] = "update"
  /\ draft' = [ draft EXCEPT ![c].row = RowOf(c) ]
  /\ row' = [ row EXCEPT ![op[c].task] = RowOf(c) ]
  /\ Goto(c, "append")
  /\ UNCHANGED <<log, writer, op>>

\* INSERT INTO tasks or UPDATE tasks (record_events writes no row).
Update(c) ==
  /\ pc[c] = "update"
  /\ draft' = [ draft EXCEPT ![c].row = RowOf(c) ]
  /\ Goto(c, "append")
  /\ UNCHANGED <<ledger, writer, op>>

EventsOf(o, r) ==
  CASE o.kind = "create"     -> << L!Ev("task_created", o.state) >>
    [] o.kind = "transition" -> << L!Ev("state_changed", o.state) >>
    [] o.kind = "context"    -> << L!Ev("task_context_updated", r.state) >>
    [] o.kind = "record"     -> [ i \in 1..o.n |-> L!Ev("recorded", r.state) ]

\* _append_event: the next sequence is read after the row.
AppendEvents(c) ==
  /\ pc[c] = "append"
  /\ draft' = [ draft EXCEPT ![c].base = Len(log[op[c].task]),
                             ![c].events = EventsOf(op[c], draft[c].row) ]
  /\ Goto(c, "commit")
  /\ UNCHANGED <<ledger, writer, op>>

Commit(c) ==
  /\ pc[c] = "commit"
  /\ row' = [ row EXCEPT ![op[c].task] = draft[c].row ]
  /\ log' = [ log EXCEPT ![op[c].task] =
                SubSeq(@, 1, draft[c].base) \o draft[c].events ]
  /\ writer' = NoClient
  /\ End(c)

\* The process dies; its transaction, if it had one, is rolled back.
Crash(c) ==
  /\ pc[c] # "idle"
  /\ writer' = IF writer = c THEN NoClient ELSE writer
  /\ End(c)
  /\ UNCHANGED ledger

Statement(c) ==
  \/ BeginImmediate(c) \/ BusyTimeout(c) \/ Refuse(c)
  \/ ReadRow(c) \/ Update(c) \/ AppendEvents(c) \/ Commit(c)

Next ==
  \E c \in Client : \/ \E o \in Op : Call(c, o)
                    \/ Statement(c)
                    \/ Crash(c)

Spec == Init /\ [][Next]_txVars

\* A connection keeps executing its statements, and the busy timer runs.
FairSpec == Spec /\ \A c \in Client : WF_txVars(Statement(c))

-----------------------------------------------------------------------------
(* Properties.                                                             *)

TypeOK ==
  /\ row \in [ Task -> L!Row ]
  /\ log \in [ Task -> Seq(L!Event) ]
  /\ writer \in Client \cup { NoClient }
  /\ pc \in [ Client -> Pc ]
  /\ op \in [ Client -> Op \cup { NoOp } ]
  /\ draft \in [ Client -> Draft ]

\* At most one connection is inside a write transaction.
OneWriter == \A c \in Client : InTransaction(c) => writer = c

\* What a transaction read is still what is committed when it writes: the
\* row it updates is derived from the current one and its events go right
\* after the last one.  (SELECT, UPDATE, MAX(sequence) and INSERT are four
\* statements.)
ReadsStayCurrent ==
  \A c \in Client : pc[c] \in { "update", "append", "commit" } =>
    LET t == op[c].task IN
    /\ draft[c].base = Len(log[t])
    /\ pc[c] = "update" => draft[c].row = row[t]
    /\ pc[c] # "update" => draft[c].row = RowWritten(op[c], row[t], Len(log[t]))
    /\ pc[c] = "commit" => draft[c].events = EventsOf(op[c], draft[c].row)

\* The statements of concurrent and crashing clients implement the atomic
\* operations of TaskLedger: no lost update, no row without its event, no
\* sequence number used twice.
ImplementsLedger == L!Spec

\* A call ends: with a result, an error or the death of its process.
CallsReturn == \A c \in Client : pc[c] # "idle" ~> pc[c] = "idle"
=============================================================================
