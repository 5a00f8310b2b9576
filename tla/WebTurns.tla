------------------------------- MODULE WebTurns -------------------------------
(****************************************************************************)
(* A turn asked for in the browser: the request handler of ui.py with the   *)
(* turn lock of the conversation, the run on its own thread (web_runs.py),  *)
(* its event log, the readers that stream it, approvals and cancelling.     *)
(* Each request for the one conversation modelled starts at most one run,   *)
(* which has the request's name.  Approvals are those of a run without a    *)
(* broker; ApprovalBroker models the other kind.                            *)
(****************************************************************************)
EXTENDS Naturals, Sequences, FiniteSets

CONSTANTS Requests,
          Steered,       \* bound: the runs that ask for approval or are cancelled
          MaxChunks,     \* bound: chunks of one reply
          FolderMayGo    \* the project folder, or a context file, may be missing

VARIABLES
    handler,    \* where each request is in do_POST, "done" after its answer
    turnLock,   \* the request whose lock it is, or "free"
    exists,     \* the conversation is in the store
    run,        \* state, cancel flag, and what the thread of each run is at
    ask,        \* the approval of each run: none, or waiting, or decided
    events,     \* the event log of each run: its length, and the place of the
                \* last event of the run's own thread, 0 before that
    answers,    \* threads in decide_approval that passed its test: <<run, yes>>
    reader,     \* the stream of one of the runs: [of, at, cursor]
    said        \* history: approvals given per run, tools that went on

webVars == <<handler, turnLock, exists, run, ask, events, answers, reader, said>>

Terminal == {"succeeded", "failed", "cancelled"}
NoRun == [state |-> "none", cancel |-> FALSE, at |-> "none"]
NoAsk == [st |-> "none", yes |-> FALSE]

WebInit ==
    /\ handler = [q \in Requests |-> "idle"] /\ turnLock = "free" /\ exists = TRUE
    /\ run = [q \in Requests |-> NoRun] /\ ask = [q \in Requests |-> NoAsk]
    /\ events = [q \in Requests |-> [n |-> 0, last |-> 0]] /\ answers = {}
    /\ reader \in [of : Steered, at : {"none"}, cursor : {0}]
    /\ said = [q \in Requests |-> [yes |-> FALSE, ran |-> FALSE]]

LastOnes == {"done", "error", "cancelled"}
Emit(q, e) ==
    LET n == events[q].n + 1
    IN events' = [events EXCEPT ![q] = [n |-> n, last |-> IF e \in LastOnes THEN n ELSE @.last]]
At(q, pc) == run' = [run EXCEPT ![q].at = pc]

-----------------------------------------------------------------------------
(* The handler of /api/conversations/message. *)

Take(q) ==
    /\ handler[q] = "idle"
    /\ IF exists /\ turnLock = "free"
       THEN turnLock' = q /\ handler' = [handler EXCEPT ![q] = "locked"]
       ELSE handler' = [handler EXCEPT ![q] = "done"] /\ UNCHANGED turnLock   \* 404, 409
    /\ UNCHANGED <<exists, run, ask, events, answers, reader, said>>

(* The folder is gone (400), or reading the context or writing the message  *)
(* raises (500): the handler answers, and the lock stays as it is.          *)
Refuse(q) ==
    /\ handler[q] = "locked" /\ (FolderMayGo \/ ~exists)
    /\ handler' = [handler EXCEPT ![q] = "done"]
    /\ UNCHANGED <<turnLock, exists, run, ask, events, answers, reader, said>>

StartRun(q) ==
    /\ handler[q] = "locked" /\ exists
    /\ handler' = [handler EXCEPT ![q] = "done"]
    /\ run' = [run EXCEPT ![q] = [state |-> "running", cancel |-> FALSE, at |-> "working"]]
    /\ reader' = IF reader.of = q THEN [reader EXCEPT !.at = "since"] ELSE reader
    /\ UNCHANGED <<turnLock, exists, ask, events, answers, said>>

Delete ==
    /\ exists /\ exists' = FALSE
    /\ turnLock' = "free"     \* conversation_locks.pop
    /\ UNCHANGED <<handler, run, ask, events, answers, reader, said>>

-----------------------------------------------------------------------------
(* The thread of the run: chunks and tools, then the reply. *)

Release(q) == turnLock' = IF turnLock = q THEN "free" ELSE turnLock

(* Cancelling is noticed at a chunk.                                        *)
Chunk(q) ==
    /\ run[q].at = "working" /\ events[q].n < MaxChunks
    /\ IF run[q].cancel THEN At(q, "unwind") /\ UNCHANGED events
       ELSE Emit(q, "chunk") /\ UNCHANGED run
    /\ UNCHANGED <<handler, turnLock, exists, ask, answers, reader, said>>
RequestApproval(q) ==
    /\ q \in Steered /\ run[q].at = "working" /\ ask[q].st = "none" /\ events[q].n < MaxChunks
    /\ ask' = [ask EXCEPT ![q] = [st |-> "waiting", yes |-> FALSE]]
    /\ Emit(q, "requested") /\ At(q, "asking")
    /\ UNCHANGED <<handler, turnLock, exists, answers, reader, said>>
(* A slip: any answer lets the tool go on.                                  *)
AnsweredIsYes(q) ==
    /\ run[q].at = "asking" /\ ask[q].st = "decided"
    /\ ask' = [ask EXCEPT ![q].st = "over"]
    /\ At(q, "working") /\ said' = [said EXCEPT ![q].ran = TRUE]
    /\ UNCHANGED <<handler, turnLock, exists, events, answers, reader>>
(* A cancel is looked at before the answer.                                 *)
Answered(q) ==
    /\ run[q].at = "asking" /\ ask[q].st = "decided"
    /\ ask' = [ask EXCEPT ![q].st = "over"]
    /\ IF run[q].cancel THEN At(q, "unwind") /\ UNCHANGED said
       ELSE At(q, "working") /\ said' = [said EXCEPT ![q].ran = ask[q].yes]
    /\ UNCHANGED <<handler, turnLock, exists, events, answers, reader>>
AskTimeout(q) ==
    /\ run[q].at = "asking" /\ ask[q].st = "waiting"
    /\ ask' = [ask EXCEPT ![q].st = "over"] /\ Emit(q, "timeout") /\ At(q, "working")
    /\ UNCHANGED <<handler, turnLock, exists, answers, reader, said>>

(* The reply is complete, or an exception ended it; either is written to    *)
(* the conversation, which raises when that was deleted.                    *)
Complete(q) ==
    /\ run[q].at = "working"
    /\ IF exists THEN Emit(q, "done") /\ At(q, "finish")
       ELSE UNCHANGED events /\ At(q, "fail")
    /\ Release(q) /\ UNCHANGED <<handler, exists, ask, answers, reader, said>>
WorkFails(q) ==
    /\ run[q].at = "working" /\ At(q, "fail")
    /\ IF exists THEN Emit(q, "conversation") ELSE UNCHANGED events
    /\ Release(q) /\ UNCHANGED <<handler, exists, ask, answers, reader, said>>
Unwind(q) ==
    /\ run[q].at = "unwind"
    /\ IF exists THEN Emit(q, "conversation") /\ At(q, "cancel")
       ELSE UNCHANGED events /\ At(q, "fail")
    /\ Release(q) /\ UNCHANGED <<handler, exists, ask, answers, reader, said>>

(* execute() of RunStore.start: the last event, then the final state.       *)
LastEvent(q) ==
    /\ run[q].at \in {"fail", "cancel"}
    /\ Emit(q, IF run[q].at = "fail" THEN "error" ELSE "cancelled")
    /\ At(q, IF run[q].at = "fail" THEN "failed" ELSE "cancelled")
    /\ UNCHANGED <<handler, turnLock, exists, ask, answers, reader, said>>
FinishRun(q) ==
    /\ run[q].at \in {"finish", "failed", "cancelled"}
    /\ run' = [run EXCEPT ![q].state = IF run[q].at = "finish" THEN "succeeded" ELSE run[q].at,
                          ![q].at = "over"]
    /\ UNCHANGED <<handler, turnLock, exists, ask, events, answers, reader, said>>

-----------------------------------------------------------------------------
(* The other threads: cancelling, deciding, streaming. *)

(* cancel() sets its flag first and then reads the approval it may free.    *)
Cancel(q) ==
    /\ q \in Steered /\ run[q].state = "running" /\ ~run[q].cancel
    /\ run' = [run EXCEPT ![q].cancel = TRUE]
    /\ UNCHANGED <<handler, turnLock, exists, ask, events, answers, reader, said>>
CancelFreesAsk(q) ==
    /\ run[q].cancel /\ ask[q].st = "waiting"
    /\ ask' = [ask EXCEPT ![q] = [st |-> "decided", yes |-> FALSE]]
    /\ UNCHANGED <<handler, turnLock, exists, run, events, answers, reader, said>>

(* decide_approval tests that nothing is decided and writes later.          *)
Decide(q, yes) ==
    /\ ask[q].st = "waiting" /\ <<q, yes>> \notin answers
    /\ answers' = answers \cup {<<q, yes>>}
    /\ UNCHANGED <<handler, turnLock, exists, run, ask, events, reader, said>>
DecideWrites ==
    /\ \E a \in answers :
          /\ answers' = answers \ {a}
          /\ ask' = [ask EXCEPT ![a[1]] = [st |-> IF @.st = "over" THEN "over" ELSE "decided",
                                           yes |-> a[2]]]
          /\ said' = [said EXCEPT ![a[1]].yes = @ \/ a[2]]
          /\ Emit(a[1], "answered")
    /\ UNCHANGED <<handler, turnLock, exists, run, reader>>

(* _stream_run: all events past the cursor, the test for the end, a wait    *)
(* that returns at once when there is more.  A browser that went away is a   *)
(* reader that takes no more steps.                                         *)
Since ==
    /\ reader.at = "since"
    /\ reader' = [reader EXCEPT !.at = "test", !.cursor = events[reader.of].n]
    /\ UNCHANGED <<handler, turnLock, exists, run, ask, events, answers, said>>
(* A slip: the state of the run alone ends the stream.                      *)
StreamEndsWithRun == run[reader.of].state \in Terminal
StreamEnds == run[reader.of].state \in Terminal /\ reader.cursor >= events[reader.of].n
TestEnd ==
    /\ reader.at = "test"
    /\ reader' = [reader EXCEPT !.at = IF StreamEnds THEN "ended" ELSE "since"]
    /\ UNCHANGED <<handler, turnLock, exists, run, ask, events, answers, said>>
RunStep(q) ==
    \/ Chunk(q) \/ RequestApproval(q) \/ Answered(q) \/ AskTimeout(q) \/ Complete(q)
    \/ WorkFails(q) \/ Unwind(q) \/ LastEvent(q) \/ FinishRun(q)
WebNext ==
    \/ \E q \in Requests :
          \/ Take(q) \/ Refuse(q) \/ StartRun(q) \/ RunStep(q)
          \/ Cancel(q) \/ CancelFreesAsk(q) \/ \E yes \in BOOLEAN : Decide(q, yes)
    \/ Delete \/ DecideWrites \/ Since \/ TestEnd

-----------------------------------------------------------------------------
(* Turns of one conversation do not overlap, however requests, deletion and *)
(* the threads of the runs interleave.                                      *)
OneTurnAtATime ==
    Cardinality({q \in Requests : run[q].at \in {"working", "asking", "unwind"}}) <= 1

(* A tool that needs an approval goes on only when somebody approved it.    *)
ToolNeedsYes == \A q \in Requests : said[q].ran => said[q].yes

(* A stream that ends was sent every event the run's own thread wrote.      *)
StreamIsWhole ==
    reader.at = "ended" => /\ events[reader.of].last # 0
                           /\ reader.cursor >= events[reader.of].last

(* Why: a yes that a tool will see was said, by the decision that wrote it; *)
(* and a run is over only after an event of its own thread that is the last *)
(* one, and was not started before its request was taken.                   *)
YesInv ==
    /\ ask \in [Requests -> [st : {"none", "waiting", "decided", "over"}, yes : BOOLEAN]]
    /\ said \in [Requests -> [yes : BOOLEAN, ran : BOOLEAN]]
    /\ answers \subseteq Requests \X BOOLEAN
    /\ \A q \in Requests : (ask[q].yes \/ said[q].ran) => said[q].yes
Ending == {"finish", "failed", "cancelled", "over"}
RunPc == {"none", "working", "asking", "unwind", "fail", "cancel"} \cup Ending
StreamInv ==
    /\ answers \subseteq Requests \X BOOLEAN
    /\ run \in [Requests -> [state : Terminal \cup {"none", "running"}, cancel : BOOLEAN, at : RunPc]]
    /\ handler \in [Requests -> {"idle", "locked", "done"}]
    /\ events \in [Requests -> [n : Nat, last : Nat]]
    /\ reader \in [of : Requests, at : {"none", "since", "test", "ended"}, cursor : Nat]
    /\ \A q \in Requests :
          /\ events[q].last <= events[q].n
          /\ handler[q] # "done" => run[q].at = "none"
          /\ run[q].state \in Terminal => run[q].at = "over"
          /\ run[q].at \in Ending <=> events[q].last # 0
    /\ reader.cursor <= events[reader.of].n
    /\ reader.at = "ended" => run[reader.of].at = "over" /\ reader.cursor >= events[reader.of].last

(* ui.py:869 answers "a turn is already running for this conversation" when  *)
(* the lock is taken.                                                       *)
LockMeansTurn ==
    turnLock # "free" =>
       handler[turnLock] = "locked" \/ run[turnLock].at \in {"working", "asking", "unwind"}

(* A run that was cancelled ends, and its stream with it.                   *)
CancelEnds == \A q \in Requests : run[q].cancel ~> run[q].state \in Terminal

=============================================================================
