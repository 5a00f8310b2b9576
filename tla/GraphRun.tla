-------------------------------- MODULE GraphRun --------------------------------
(***************************************************************************)
(* One run of the Agentic Graph executor (agraph/execute.py, run() down to *)
(* _execute_node and _fallback) over a document of task and gate nodes.    *)
(*                                                                         *)
(* run() is a coroutine that schedules rounds of nodes and gathers them;   *)
(* each node of a round is a coroutine of its own, whose stack grows when  *)
(* a fallback executes an alternate node; compensations run on run()'s own *)
(* stack.  Executor attributes (the fallback chain, the list of completed  *)
(* nodes) are shared by all of them.  The root task in the durable ledger  *)
(* is also moved by the user (`magent execution pause|resume|cancel`), and *)
(* the asyncio task of the run may be cancelled from outside.              *)
(*                                                                         *)
(* Init is the state after run() has created the root and node tasks and   *)
(* appended the run record; a durable write is one step, as in TaskLedger. *)
(***************************************************************************)
EXTENDS GraphSchedule, TaskStates

CONSTANTS
  Documents,   \* documents a run may be given
  Main,        \* the coroutine of run() itself
  UserMoves,   \* states the user may move the root task to
  Interrupts   \* whether the run's asyncio task may be cancelled

ASSUME RunAssumption ==
  /\ IsFiniteSet(Node) /\ Documents \subseteq Document
  /\ Main \notin Node
  /\ UserMoves \subseteq { "waiting", "running", "cancelled" }
  /\ Interrupts \in BOOLEAN

VARIABLES
  doc,         \* the document of this run
  status,      \* statuses of _run_scope
  stack,       \* stack[k]: frames of coroutine k, the executing one first
  result,      \* result[n]: what n's coroutine returned to gather
  chain,       \* self._fallback_chain
  completed,   \* self._completed_for_compensation
  recorded,    \* full ids in self._node_records
  spent,       \* usage.node_executions
  main,        \* where run() is
  undo,        \* what _compensate still has to go through
  outcome,     \* self._record["status"]
  stored,      \* status of the record saved in graph_runs
  root,        \* ledger state of the root task
  task         \* ledger states of the node tasks

memory  == <<status, stack, result, chain, completed, recorded, spent, main, undo, outcome>>
durable == <<stored, root, task>>
vars == <<doc, status, stack, result, chain, completed, recorded, spent, main,
          undo, outcome, stored, root, task>>

\* A full id: a node executed by the scheduler, as an alternate, or to undo.
Scope == { "graph", "fallback", "compensation" }
FullId == Scope \X Node
Top(n) == <<"graph", n>>

Absent == "absent"
BodyOutcome == { "succeeded", "failed", "timeout", "criteria_failed", "skipped",
                 "awaiting_human" }
NodeOutcome == { "succeeded", "failed", "skipped", "awaiting_human" }
RunOutcome  == { "running", "succeeded", "failed", "cancelled" }

Frame == [ id : FullId,
           pc : { "enter", "attempt", "body", "fallback", "alternate", "finish" },
           attempt : Nat, at : Nat \ {0}, final : NodeOutcome ]

\* run(): scheduling, judging, compensating after a failed or a broken run,
\* settling, and the ways it ends.  An "escaped" run raised CancelledError from
\* an exception handler; the others saved their record.
Ended == { "returned", "cancelled", "escaped" }
MainPc == { "round", "gather", "conclude", "undoFailed", "settle", "broken",
            "undoBroken", "cancelling", "persist" } \cup Ended

Coroutine == Node \cup { Main }
Running(k) == stack[k] # <<>>
Frm(k) == Head(stack[k])
NodeOf(k) == Frm(k).id[2]

Enter(scope, n) ==
  [ id |-> <<scope, n>>, pc |-> "enter", attempt |-> 0, at |-> 1, final |-> "failed" ]

\* The ledger accepts a move of the root, or of a node task that
\* _ensure_node_task creates when it is absent.
RootTakes(s) == root = s \/ CanMove(root, s)
TaskTakes(id, s) ==
  LET now == IF task[id] = Absent THEN "ready" ELSE task[id]
  IN  now = s \/ CanMove(now, s)

-----------------------------------------------------------------------------
Init ==
  /\ doc \in Documents
  /\ status = [ n \in Node |-> IF n \in doc.reused THEN "succeeded" ELSE "pending" ]
  /\ stack = [ k \in Coroutine |-> <<>> ]
  /\ result = [ n \in Node |-> "none" ]
  /\ chain = <<>> /\ completed = <<>> /\ recorded = {} /\ spent = 0
  /\ main = "round" /\ undo = <<>>
  /\ outcome = "running" /\ stored = "running" /\ root = "running"
  /\ task = [ id \in FullId |->
                IF id[1] # "graph" THEN Absent
                ELSE IF id[2] \in doc.reused THEN "succeeded" ELSE "ready" ]

-----------------------------------------------------------------------------
(* How a frame ends: by returning to the frame below it, or by an exception*)
(* that unwinds the whole stack.                                           *)

DropLast(s, n) == [ i \in 1..(Len(s) - n) |-> s[i] ]

\* The frame below goes on, after its alternate returned s.
Resumed(f, s) ==
  IF s = "succeeded" THEN [ f EXCEPT !.pc = "finish", !.final = s ]
                     ELSE [ f EXCEPT !.pc = "fallback", !.at = @ + 1 ]

\* k's top returns s.  The chain loses its last entry, which a sibling may have
\* pushed meanwhile.
Return(k, s) ==
  LET below == Tail(stack[k]) IN
  /\ recorded' = recorded \cup { Frm(k).id }
  /\ IF below = <<>>
     THEN /\ stack' = [ stack EXCEPT ![k] = <<>> ]
          /\ result' = IF k = Main THEN result ELSE [ result EXCEPT ![k] = s ]
          /\ UNCHANGED chain
     ELSE /\ stack' = [ stack EXCEPT ![k] = << Resumed(Head(below), s) >> \o Tail(below) ]
          /\ chain' = DropLast(chain, 1)
          /\ UNCHANGED result

\* An exception leaves every frame of k; each alternate pops the chain.
Unwind(k) ==
  /\ stack' = [ stack EXCEPT ![k] = <<>> ]
  /\ chain' = DropLast(chain, Len(stack[k]) - 1)
  /\ result' = IF k = Main THEN result ELSE [ result EXCEPT ![k] = "raised" ]

\* _compensate suppresses Exception, and gather turns it into a result.
Throw(k) == Unwind(k) /\ UNCHANGED main

Goto(k, frame) == stack' = [ stack EXCEPT ![k] = << frame >> \o Tail(@) ]

scheduling == <<doc, status, undo, outcome, stored, root>>

-----------------------------------------------------------------------------
(* _execute_node                                                           *)

\* _await_runtime_control: a cancelled root raises CancelledError (which
\* escapes run() when the exception handler was compensating), a paused one
\* keeps the coroutine polling.
ControlStops(k) ==
  /\ Running(k) /\ Frm(k).pc \in { "enter", "attempt" }
  /\ root = "cancelled"
  /\ Unwind(k)
  /\ main' = IF k # Main THEN main
             ELSE IF main = "undoFailed" THEN "cancelling" ELSE "escaped"
  /\ UNCHANGED <<scheduling, completed, recorded, spent, task>>

PassesControl(k) == Running(k) /\ root \notin { "cancelled", "waiting" }

\* The node's own `when` is false.
GuardFalse(k) ==
  /\ PassesControl(k) /\ Frm(k).pc = "enter"
  /\ NodeOf(k) \in doc.guarded
  /\ TaskTakes(Frm(k).id, "skipped")
  /\ task' = [ task EXCEPT ![Frm(k).id] = "skipped" ]
  /\ Return(k, "skipped")
  /\ UNCHANGED <<scheduling, main, completed, spent>>

\* The node's `when` cannot be evaluated (policy.on_expression_error = fail), or
\* its inputs, route or requirements raise.
EntryRaises(k) ==
  /\ PassesControl(k) /\ Frm(k).pc = "enter"
  /\ NodeOf(k) \in doc.guarded \cup doc.fragile
  /\ Throw(k)
  /\ UNCHANGED <<scheduling, completed, recorded, spent, task>>

Start(k) ==
  /\ PassesControl(k) /\ Frm(k).pc = "enter"
  /\ TaskTakes(Frm(k).id, "running")
  /\ task' = [ task EXCEPT ![Frm(k).id] = "running" ]
  /\ Goto(k, [ Frm(k) EXCEPT !.pc = "attempt", !.attempt = 1 ])
  /\ UNCHANGED <<scheduling, main, result, chain, completed, recorded, spent>>

\* The task of this full id has ended before: an alternate or a compensation
\* that another node has already used.
StartRefused(k) ==
  /\ PassesControl(k) /\ Frm(k).pc = "enter"
  /\ ~TaskTakes(Frm(k).id, "running")
  /\ Throw(k)
  /\ UNCHANGED <<scheduling, completed, recorded, spent, task>>

BeginAttempt(k) ==
  /\ PassesControl(k) /\ Frm(k).pc = "attempt"
  /\ spent' = spent + 1
  /\ Goto(k, [ Frm(k) EXCEPT !.pc = "body" ])
  /\ UNCHANGED <<scheduling, main, result, chain, completed, recorded, task>>

\* _failure_class, with the statuses a gate forces among the tool errors.
FailureClassOf(o) == IF o \in { "timeout", "criteria_failed" } THEN o ELSE "tool_error"

Retries(f, o) ==
  /\ o # "succeeded"
  /\ f.attempt < doc.attempts[f.id[2]]
  /\ FailureClassOf(o) \in doc.retryOn[f.id[2]]

\* The body of an attempt (the agent, the gate, checkpoints, criteria, node
\* budgets) ends with outcome o, and the attempts loop goes on or is left.
BodyEnds(k, o) ==
  LET f == Frm(k) IN
  /\ Running(k) /\ f.pc = "body"
  /\ o \in { "skipped", "awaiting_human" } => NodeOf(k) \in doc.gate
  /\ Goto(k, IF Retries(f, o)
             THEN [ f EXCEPT !.pc = "attempt", !.attempt = @ + 1 ]
             ELSE IF o \in NodeOutcome \ { "failed" }
             THEN [ f EXCEPT !.pc = "finish", !.final = o ]
             ELSE [ f EXCEPT !.pc = "fallback" ])
  /\ UNCHANGED <<scheduling, main, result, chain, completed, recorded, spent, task>>

\* The last ledger moves of the node, with "validating" on the way to success.
TaskEnds(id, s) ==
  IF s = "succeeded" THEN CanMove(task[id], "validating") ELSE TaskTakes(id, s)

Finish(k) ==
  LET f == Frm(k) IN
  /\ Running(k) /\ f.pc = "finish"
  /\ TaskEnds(f.id, f.final)
  /\ task' = [ task EXCEPT ![f.id] = f.final ]
  /\ completed' = IF f.final = "succeeded" THEN Append(completed, f.id[2]) ELSE completed
  /\ Return(k, f.final)
  /\ UNCHANGED <<scheduling, main, spent>>

\* Another execution of the same alternate has ended the task meanwhile.
FinishRefused(k) ==
  /\ Running(k) /\ Frm(k).pc = "finish"
  /\ ~TaskEnds(Frm(k).id, Frm(k).final)
  /\ Throw(k)
  /\ UNCHANGED <<scheduling, completed, recorded, spent, task>>

-----------------------------------------------------------------------------
(* _fallback                                                               *)

Steps(k) == doc.fallback[NodeOf(k)]
AtStep(k, strategy) ==
  /\ Running(k) /\ Frm(k).pc = "fallback"
  /\ Frm(k).at =< Len(Steps(k))
  /\ Steps(k)[Frm(k).at].strategy = strategy

inFallback == <<scheduling, main, result, completed, recorded, spent, task>>

Settle(k, s) == Goto(k, [ Frm(k) EXCEPT !.pc = "finish", !.final = s ])

\* A slip: the loop over the fallback steps does not advance.
NextStepStuck(k) == Goto(k, Frm(k))

NextStep(k) == Goto(k, [ Frm(k) EXCEPT !.at = @ + 1 ])

FallbackSkip(k) == AtStep(k, "skip") /\ Settle(k, "skipped") /\ UNCHANGED <<inFallback, chain>>

\* The outputs are there, or the relaxed criteria pass; or not.
FallbackAccepts(k) ==
  /\ AtStep(k, "degrade_outputs") \/ AtStep(k, "relax_criteria")
  /\ Settle(k, "succeeded") \/ NextStep(k)
  /\ UNCHANGED <<inFallback, chain>>

FallbackTakeover(k) ==
  /\ AtStep(k, "human_takeover")
  /\ Settle(k, "succeeded") \/ Settle(k, "awaiting_human")
  /\ UNCHANGED <<inFallback, chain>>

Alternate(k) == Steps(k)[Frm(k).at].node

CallAlternate(k) ==
  /\ AtStep(k, "alternate_node")
  /\ Alternate(k) \notin Range(chain)
  /\ chain' = Append(chain, Alternate(k))
  /\ stack' = [ stack EXCEPT ![k] = << Enter("fallback", Alternate(k)),
                                       [ Frm(k) EXCEPT !.pc = "alternate" ] >> \o Tail(@) ]
  /\ UNCHANGED inFallback

\* "alternate_node cycle": the step is passed over with a diagnostic.
RefuseCycle(k) ==
  /\ AtStep(k, "alternate_node")
  /\ Alternate(k) \in Range(chain)
  /\ NextStep(k)
  /\ UNCHANGED <<inFallback, chain>>

\* on_exhausted; an escalation is accepted or refused.
ExhaustedOutcome == [ fail |-> { "failed" }, skip |-> { "skipped" },
                      succeed_degraded |-> { "succeeded" },
                      escalate |-> { "succeeded", "failed" } ]

Exhausted(k) ==
  /\ Running(k) /\ Frm(k).pc = "fallback"
  /\ Frm(k).at > Len(Steps(k))
  /\ \E s \in ExhaustedOutcome[doc.exhausted[NodeOf(k)]] : Settle(k, s)
  /\ UNCHANGED <<inFallback, chain>>

Step(k) ==
  \/ ControlStops(k) \/ GuardFalse(k) \/ EntryRaises(k)
  \/ Start(k) \/ StartRefused(k) \/ BeginAttempt(k)
  \/ \E o \in BodyOutcome : BodyEnds(k, o)
  \/ FallbackSkip(k) \/ FallbackAccepts(k) \/ FallbackTakeover(k)
  \/ CallAlternate(k) \/ RefuseCycle(k) \/ Exhausted(k)
  \/ Finish(k) \/ FinishRefused(k)

-----------------------------------------------------------------------------
(* _run_scope                                                              *)

Pending(st) == { n \in Node : st[n] = "pending" }

idle == <<doc, stack, result, chain, completed, spent, undo, outcome, stored, root>>

\* A slip: statuses are decided in memory only.
DecideUnrecorded(st) ==
  /\ status' = st
  /\ UNCHANGED <<task, recorded>>

\* _terminalize_nonexecuted: a node decided without a record of its own gets
\* its ledger task moved to the decided status, and a record.
Decide(st) ==
  LET decided == { n \in Node : st[n] # status[n] /\ Top(n) \notin recorded } IN
  /\ status' = st
  /\ task' = [ id \in FullId |->
                 IF id[1] = "graph" /\ id[2] \in decided THEN st[id[2]] ELSE task[id] ]
  /\ recorded' = recorded \cup { Top(n) : n \in decided }

ScopeEnds ==
  /\ main = "round" /\ Pending(status) = {}
  /\ main' = "conclude"
  /\ UNCHANGED <<idle, status, task, recorded>>

\* A slip: polls a cancelled root as it polls a paused one.
RoundPollsOn ==
  /\ main = "round" /\ Pending(status) # {}
  /\ root = "cancelled"
  /\ UNCHANGED vars

RoundCancelled ==
  /\ main = "round" /\ Pending(status) # {}
  /\ root = "cancelled"
  /\ main' = "cancelling"
  /\ UNCHANGED <<idle, status, task, recorded>>

RoundBegins ==
  /\ main = "round" /\ Pending(status) # {}
  /\ root \notin { "cancelled", "waiting" }

OverBudget == doc.budget > 0 /\ spent >= doc.budget

BudgetExceeded ==
  /\ RoundBegins
  /\ OverBudget
  /\ main' = "broken"
  /\ UNCHANGED <<idle, status, task, recorded>>

\* One pass of skips, then the ready jobs of this round are started together.
Launch ==
  LET st == AfterSkips(doc, status) IN
  /\ RoundBegins /\ ~OverBudget
  /\ Decide(st)
  /\ \E S \in SUBSET Node :
       /\ S # {} /\ Picks(doc, st, S)
       /\ stack' = [ k \in Coroutine |-> IF k \in S THEN << Enter("graph", k) >> ELSE <<>> ]
  /\ main' = "gather"
  /\ UNCHANGED <<doc, result, chain, completed, spent, undo, outcome, stored, root>>

\* Nothing can run: whatever the pass of skips left pending is blocked.
Block ==
  LET st == AfterSkips(doc, status) IN
  /\ RoundBegins /\ ~OverBudget
  /\ Picks(doc, st, {})
  /\ Decide([ n \in Node |-> IF st[n] = "pending" THEN "blocked" ELSE st[n] ])
  /\ main' = "conclude"
  /\ UNCHANGED idle

\* A slip: what a coroutine returned is taken as it is.
GatheredRaw(n) == IF result[n] = "none" THEN status[n] ELSE result[n]

\* A coroutine that raised is a failed node.
Gathered(n) ==
  IF result[n] = "none" THEN status[n] ELSE IF result[n] = "raised" THEN "failed" ELSE result[n]

\* gather returns: the round's results become statuses, and after a failure
\* the halt policy skips the rest.
GatherEnds ==
  LET st == [ n \in Node |-> Gathered(n) ]
      halts == doc.halt /\ \E n \in Node : st[n] = "failed"
  IN
  /\ main = "gather" /\ \A n \in Node : ~Running(n)
  /\ Decide([ n \in Node |-> IF halts /\ st[n] = "pending" THEN "skipped" ELSE st[n] ])
  /\ result' = [ n \in Node |-> "none" ]
  /\ main' = IF halts THEN "conclude" ELSE "round"
  /\ UNCHANGED <<doc, stack, chain, completed, spent, undo, outcome, stored, root>>

-----------------------------------------------------------------------------
(* run(), after the scope                                                  *)

control == <<doc, status, stack, result, chain, completed, recorded, spent, task>>

\* The graph outputs are resolved and the run is judged.
Conclude ==
  /\ main = "conclude"
  /\ outcome' = IF RunFailed(status) THEN "failed" ELSE "succeeded"
  /\ undo' = IF RunFailed(status) THEN Reverse(completed) ELSE <<>>
  /\ main' = IF RunFailed(status) THEN "undoFailed" ELSE "settle"
  /\ UNCHANGED <<control, stored, root>>

\* A required graph output is missing: _resolve_graph_outputs raises.
OutputsMissing ==
  /\ main = "conclude" /\ doc.fallible
  /\ main' = "broken"
  /\ UNCHANGED <<control, undo, outcome, stored, root>>

\* A slip: an `except Exception` that goes straight to the end.
BreakWithoutUndo ==
  /\ main = "broken"
  /\ undo' = <<>>
  /\ main' = "undoBroken"
  /\ UNCHANGED <<control, outcome, stored, root>>

\* `except Exception`: compensate first.
Break ==
  /\ main = "broken"
  /\ undo' = Reverse(completed)
  /\ main' = "undoBroken"
  /\ UNCHANGED <<control, outcome, stored, root>>

Compensating == main \in { "undoFailed", "undoBroken" } /\ ~Running(Main)

\* The next completed node, if it declares a compensation, is undone.
Compensate ==
  /\ Compensating /\ undo # <<>>
  /\ undo' = Tail(undo)
  /\ LET back == doc.compensation[Head(undo)] IN
     stack' = IF back = NoNode THEN stack
              ELSE [ stack EXCEPT ![Main] = << Enter("compensation", back) >> ]
  /\ UNCHANGED <<doc, status, result, chain, completed, recorded, spent, task, main,
                 outcome, stored, root>>

\* The root task gets the run's outcome; the ledger may refuse it.
SettleRoot ==
  /\ \/ main = "settle"
     \/ main = "undoFailed" /\ Compensating /\ undo = <<>>
  /\ IF RootTakes(outcome) THEN root' = outcome /\ main' = "persist"
                           ELSE root' = root /\ main' = "broken"
  /\ UNCHANGED <<control, undo, outcome, stored>>

\* The handler's own transition is suppressed when the ledger refuses it.
SettleBroken ==
  /\ main = "undoBroken" /\ Compensating /\ undo = <<>>
  /\ outcome' = "failed"
  /\ root' = IF RootTakes("failed") THEN "failed" ELSE root
  /\ main' = "persist"
  /\ UNCHANGED <<control, undo, stored>>

\* `except CancelledError`: settle, save the record and raise again.
CancelRun ==
  /\ main = "cancelling"
  /\ outcome' = "cancelled"
  /\ root' = "cancelled"
  /\ stored' = "cancelled"
  /\ main' = "cancelled"
  /\ UNCHANGED <<control, undo>>

Persist ==
  /\ main = "persist"
  /\ stored' = outcome
  /\ main' = "returned"
  /\ UNCHANGED <<control, undo, outcome, root>>

MainStep ==
  \/ ScopeEnds \/ RoundCancelled \/ BudgetExceeded \/ Launch \/ Block \/ GatherEnds
  \/ Conclude \/ OutputsMissing \/ Break \/ Compensate
  \/ SettleRoot \/ SettleBroken \/ CancelRun \/ Persist

-----------------------------------------------------------------------------
(* The environment.                                                        *)

\* magent execution pause, resume or cancel on the root task.  (Bound: nobody
\* moves it once run() has ended.)
UserControl(s) ==
  /\ main \notin Ended
  /\ CanMove(root, s)
  /\ root' = s
  /\ UNCHANGED <<control, undo, outcome, stored, main>>

\* The asyncio task is cancelled at an await: of gather, of the control poll
\* or of a compensation.  Every coroutine below it is unwound.
Interrupt ==
  /\ Interrupts
  /\ \/ main = "gather"
     \/ main = "round" /\ Pending(status) # {} /\ root = "waiting"
     \/ main \in { "undoFailed", "undoBroken" } /\ Running(Main)
  /\ stack' = [ k \in Coroutine |-> <<>> ]
  /\ chain' = <<>>
  /\ main' = IF main = "undoBroken" THEN "escaped" ELSE "cancelling"
  /\ UNCHANGED <<doc, status, result, completed, recorded, spent, undo, outcome, durable>>

Done == main \in Ended /\ UNCHANGED vars

Next ==
  \/ MainStep
  \/ \E k \in Coroutine : Step(k)
  \/ \E s \in UserMoves : UserControl(s)
  \/ Interrupt
  \/ Done

Spec == Init /\ [][Next]_vars

\* The event loop runs every coroutine that can go on, and bodies end.
FairSpec == Spec /\ WF_vars(MainStep) /\ \A k \in Coroutine : WF_vars(Step(k))

-----------------------------------------------------------------------------
(* Properties.                                                             *)

TypeOK ==
  /\ doc \in Documents
  /\ status \in [ Node -> NodeStatus ]
  /\ stack \in [ Coroutine -> Seq(Frame) ]
  /\ result \in [ Node -> NodeOutcome \cup { "none", "raised" } ]
  /\ chain \in Seq(Node) /\ completed \in Seq(Node) /\ undo \in Seq(Node)
  /\ recorded \subseteq FullId
  /\ spent \in Nat
  /\ main \in MainPc
  /\ outcome \in RunOutcome /\ stored \in RunOutcome
  /\ root \in TaskState
  /\ task \in [ FullId -> TaskState \cup { Absent } ]

\* The durable ledger and the scheduler agree on every decided node, whichever
\* way it was decided: executed, skipped, blocked, halted or raised.
LedgerTracksStatus ==
  \A n \in Node : status[n] # "pending" => task[Top(n)] = status[n]

\* Why: k's frames are those of its alternates over its node's own, or over that
\* of a compensation; until n is decided, its task is recorded only together with
\* the result that gather will get, and says the same.
Belong(k, s) ==
  /\ \A i \in 1..(Len(s) - 1) : s[i].id[1] = "fallback"
  /\ k = Main => s[Len(s)].id[1] = "compensation"
  /\ k # Main => s[Len(s)].id = Top(k)
LedgerInv ==
  /\ \A k \in Coroutine : Running(k) => Belong(k, stack[k])
  /\ \A n \in Node :
       /\ Running(n) => status[n] = "pending" /\ result[n] = "none"
       /\ result[n] # "none" => status[n] = "pending"
       /\ status[n] = "pending" => (Top(n) \in recorded <=> result[n] \in NodeOutcome)
       /\ result[n] \in NodeOutcome => task[Top(n)] = result[n]
       /\ main = "round" => result[n] = "none"
  /\ LedgerTracksStatus

Working == { n \in Node : Running(n) }

\* At any moment no more jobs are at work than max_parallel_nodes, no two of
\* one concurrency group, and the sources of each are decided.
JobsWithinLimits ==
  /\ Cardinality(Working) =< doc.parallel
  /\ \A m, n \in Working : m # n /\ doc.group[m] # NoGroup => doc.group[m] # doc.group[n]
  /\ \A n \in Working : \A e \in doc.edges : e.to = n => status[e.from] \in Terminal

\* Why: jobs are at work only while run() waits for its gather, and it executes
\* nodes on its own stack only to undo.
LimitsInv ==
  /\ Working # {} => main = "gather"
  /\ Running(Main) => main \in { "undoFailed", "undoBroken" }
  /\ JobsWithinLimits

\* The nodes that a failed run has to undo: those that it executed with success,
\* and the alternates that succeeded in their place.  (What completes while the
\* run compensates, a compensation or its alternate, is not undone in its turn.)
UndoIsDirect ==
  \A n \in Node : doc.compensation[n] # NoNode =>
    \A i \in DOMAIN doc.fallback[doc.compensation[n]] :
      doc.fallback[doc.compensation[n]][i].strategy # "alternate_node"
ToUndo ==
  { n \in Node :
      /\ doc.compensation[n] # NoNode
      /\ \/ status[n] = "succeeded" /\ n \notin doc.reused
         \/ UndoIsDirect /\ task[<<"fallback", n>>] = "succeeded" }

\* c was executed to undo: its task shows it, unless its guard or its inputs
\* raise before there is one.
Tried(c) == c \in doc.guarded \cup doc.fragile \/ task[<<"compensation", c>>] # Absent

\* A run saved as failed has tried to undo every node it had to, whichever way it
\* failed and whatever compensations failed too; one saved as succeeded has
\* undone none.
NothingUndone == \A c \in Node : task[<<"compensation", c>>] = Absent
UndoneIffFailed ==
  /\ stored = "failed" => \A n \in ToUndo : Tried(doc.compensation[n])
  /\ stored = "succeeded" => NothingUndone

\* Why: what succeeded is in the list that compensation goes through, and a node
\* that left the list was tried, or its compensation has just been entered.
Undoing(n) == /\ Running(Main) /\ Frm(Main).pc = "enter"
              /\ Frm(Main).id = <<"compensation", doc.compensation[n]>>
SuccessIsListed ==
  \A n \in Node : ( \/ status[n] = "succeeded" /\ n \notin doc.reused
                    \/ result[n] = "succeeded"
                    \/ task[<<"fallback", n>>] = "succeeded" )
                  => n \in Range(completed)
UndoComesLast == main \in { "round", "gather", "conclude", "settle" } => NothingUndone
UndoStaysDirect ==
  UndoIsDirect /\ Running(Main) =>
    /\ Frm(Main).id[1] = "compensation"
    /\ NodeOf(Main) \in { doc.compensation[n] : n \in Node } \ { NoNode }
UndoGoesOn ==
  main \in { "undoFailed", "undoBroken" } =>
    \A n \in ToUndo : n \in Range(undo) \/ Undoing(n) \/ Tried(doc.compensation[n])
UndoIsOver ==
  main = "persist" => IF outcome = "failed" THEN \A n \in ToUndo : Tried(doc.compensation[n])
                                            ELSE NothingUndone
UndoInv ==
  SuccessIsListed /\ UndoComesLast /\ UndoStaysDirect /\ UndoGoesOn /\ UndoIsOver /\ UndoneIffFailed

-----------------------------------------------------------------------------
(* What the repository says of a run and the code does not keep.           *)

\* "Persist before re-raising: the record was left saying "running" forever"
\* (execute.py): a run that is over has a record that is over.
EndedRunIsRecorded == main \in Ended => stored # "running"

\* "Pause and resume are cooperative boundaries" (execution-runtime.md): a run
\* whose nodes all succeeded, that was not cancelled and whose outputs resolve is
\* recorded as succeeded, wherever a pause came.
SuccessIsRecorded ==
  ( /\ main = "returned" /\ root # "cancelled" /\ ~doc.fallible
    /\ \A n \in Node : status[n] = "succeeded" ) => stored = "succeeded"

\* A run whose root task is cancelled while nodes are scheduled or at work does
\* not end up as a failure.
CancelIsNotFailure ==
  [](main \in { "round", "gather" } /\ root = "cancelled" => [](outcome # "failed"))

\* The alternates that k is executing; a cycle is reported only among them.
OwnAlternates(k) ==
  { stack[k][i].id[2] : i \in { j \in 1..Len(stack[k]) : stack[k][j].id[1] = "fallback" } }
CyclesAreReal ==
  \A k \in Coroutine : AtStep(k, "alternate_node") /\ Alternate(k) \in Range(chain)
                        => Alternate(k) \in OwnAlternates(k)

\* An alternate is never executed inside its own execution.
NoAlternateRecursion ==
  \A k \in Coroutine : \A i, j \in 1..Len(stack[k]) :
    i # j => stack[k][i].id # stack[k][j].id

\* The plan's worst_case_node_executions bounds what a run executes.
WorstCaseHolds == spent =< WorstCase(doc)

\* A node without an active route is skipped: in a run where no node failed or
\* waits for a human, none is blocked.
UnroutedIsSkipped ==
  (\A n \in Node : status[n] \notin { "failed", "awaiting_human" })
    => \A n \in Node : status[n] # "blocked"

-----------------------------------------------------------------------------
\* What the code promises its observers, at every step.
P == INSTANCE GraphPromise
KeepsPromise == P!Spec

\* Why: the nodes that this round executes may run, and are no more than allowed;
\* the record is written once, by the two ways to end that save it; and root and
\* outcome are what run() has made of the statuses when it comes to save them.
Launched == { n \in Node : Running(n) \/ result[n] # "none" }
RoundIsAllowed ==
  /\ Cardinality(Launched) =< doc.parallel
  /\ \A n \in Launched : P!MayRun(n)
EndIsJustified ==
  /\ main \notin { "returned", "cancelled" } => stored = "running"
  /\ root = "succeeded" => main \in { "persist", "returned" } /\ outcome = "succeeded"
  /\ main = "persist" => \/ outcome = "failed"
                         \/ outcome = "succeeded" /\ root = "succeeded"
  /\ main = "settle" => outcome = "succeeded" /\ ~RunFailed(status)
  /\ main = "undoFailed" => outcome = "failed"
PromiseInv == RoundIsAllowed /\ EndIsJustified

\* Every run that the user does not leave paused, or pause again and again, ends.
RunEnds == <>[](root # "waiting") => <>(main \in Ended)

\* A cancelled root task stops the run, whatever it is doing.
CancelStops == root = "cancelled" ~> main \in Ended
=============================================================================
