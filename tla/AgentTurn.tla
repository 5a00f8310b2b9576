------------------------------ MODULE AgentTurn ------------------------------
(****************************************************************************)
(* One turn of the agent (agent_runtime/tool_loop.py): the model is asked,  *)
(* the tool calls of its reply are checked against the limits of the turn   *)
(* and run in order, runs of neighbouring reads at once, and the model is   *)
(* asked again, until it answers or something stops the turn.  A call that  *)
(* needs permission gets it from permissions/__init__.py (ToolPermission).  *)
(*                                                                          *)
(* A call is a record [tool, path, whole, tier]: the tool, the file it      *)
(* writes (or NoPath), whether its required arguments are there, and its    *)
(* risk tier.  Equal records have equal fingerprints.                       *)
(****************************************************************************)
EXTENDS Naturals, Sequences, FiniteSets, FiniteSetTheorems, ToolPermission

CONSTANTS
    Calls,        \* the calls the model may ask for
    Batches,      \* the sequences of calls a reply may carry
    Reads,        \* the tools that may run side by side
    Mutators,     \* the tools whose failures are reported at the end
    NoPath,       \* the path of a call that writes no file
    Mode, FrontEnd,  \* the permission mode and the front end of the session
    MaxRounds, MaxCalls, MaxSame, MaxFailed,
    Halt,         \* doom_loop_policy is "halt"
    Verifier,     \* file_mutation_verifier is on
    MaxNamed      \* how many files the answer names, five in the code

VARIABLES
    pc,        \* where the loop is
    rounds,    \* llm_round
    total,     \* total_tool_calls
    same,      \* repeated_tool_calls, per call
    failed,    \* failed_tool_counts, per tool
    garbled,   \* pseudo_retry_count
    broken,    \* failed_file_mutations: files whose failure is not mended
    batch,     \* the calls of the last reply and how far the loop is in it
    fetched,   \* the results of the read segment that was run ahead
    result,    \* the result of the current call
    ending,    \* why the turn ended
    reported,  \* the files the final answer names as failed
    done       \* history: the calls that were executed, with their results

turnVars == <<pc, rounds, total, same, failed, garbled, broken, batch, fetched,
              result, ending, reported, done>>

limits == <<rounds, total, same, failed, garbled>>

Tools == {c.tool : c \in Calls}
Paths == {c.path : c \in Calls} \ {NoPath}
NoBatch == [calls |-> <<>>, at |-> 1, native |-> TRUE]

Current == batch.calls[batch.at]

-----------------------------------------------------------------------------
(* What a dispatched call comes back with.  Missing arguments are refused   *)
(* before any effect; a tool above the threshold asks, and may be denied by *)
(* the user or refused for want of one; otherwise it works or fails.        *)
Results(c) ==
    IF ~c.whole THEN {"missing"}
    ELSE UNION {IF v.approved THEN {"ok", "failed"}
                ELSE IF v.reason = "user-denied" THEN {"denied"} ELSE {"refused"} :
                v \in Verdicts(Mode, c.tier, FrontEnd)}

(* The call had its effect, or may have had part of it. *)
Effective(d) == d.res \in {"ok", "failed"}

(* The neighbours that are run together when the loop reaches index i.      *)
Segment(i) ==
    LET idx == {j \in i .. Len(batch.calls) : \A k \in i .. j : batch.calls[k].tool \in Reads}
    IN IF batch.native /\ Cardinality(idx) > 1 THEN idx ELSE {}

(* A slip: a write that works does not mend the one that failed before.     *)
RecordedForGood(old, c, res) ==
    IF c.tool \notin Mutators \/ c.path = NoPath \/ res = "ok" THEN old ELSE old \cup {c.path}
Recorded(old, c, res) ==
    IF c.tool \notin Mutators \/ c.path = NoPath THEN old
    ELSE IF res = "ok" THEN old \ {c.path} ELSE old \cup {c.path}

Logged(c, res, by) == Append(done, [call |-> c, res |-> res, by |-> by])

TurnInit ==
    /\ pc = "ask" /\ rounds = 0 /\ total = 0
    /\ same = [c \in Calls |-> 0] /\ failed = [t \in Tools |-> 0] /\ garbled = 0
    /\ broken = {} /\ batch = NoBatch /\ fetched = <<>> /\ result = "none"
    /\ ending = "none" /\ reported = {} /\ done = <<>>

(* The file write verification: nothing if it is off, and no more than the  *)
(* first MaxNamed files; which these are is the order of a dict, left open. *)
Footers(files) ==
    IF ~Verifier THEN {{}}
    ELSE IF Cardinality(files) <= MaxNamed THEN {files}
    ELSE {named \in SUBSET files : Cardinality(named) = MaxNamed}

(* The exits: with the file write verification in the answer, or without.   *)
Finish(why) ==
    /\ pc' = "ended" /\ ending' = why /\ reported' \in Footers(broken)
    /\ UNCHANGED <<batch, fetched, result, broken, done>>
Stop(why) ==
    /\ pc' = "ended" /\ ending' = why /\ reported' = {}
    /\ UNCHANGED <<batch, fetched, result>>

-----------------------------------------------------------------------------
AskModel ==
    /\ pc = "ask" /\ rounds < MaxRounds
    /\ rounds' = rounds + 1 /\ pc' = "model"
    /\ UNCHANGED <<total, same, failed, garbled, broken, batch, fetched, result,
                   ending, reported, done>>
RoundLimit  == pc = "ask" /\ rounds = MaxRounds /\ Finish("rounds") /\ UNCHANGED limits
BudgetStop  == pc = "ask" /\ rounds < MaxRounds /\ Finish("budget") /\ UNCHANGED limits
ProviderError == pc = "model" /\ Stop("provider") /\ UNCHANGED <<limits, broken, done>>
Answer      == pc = "model" /\ Finish("answer") /\ UNCHANGED limits

(* Tool markup that was cut off is not executed; the third time ends it.    *)
Garble ==
    /\ pc = "model" /\ garbled' = garbled + 1
    /\ IF garbled' > 2 THEN Stop("garbled") /\ UNCHANGED <<broken, done>>
       ELSE /\ pc' = "ask"
            /\ UNCHANGED <<batch, fetched, result, broken, ending, reported, done>>
    /\ UNCHANGED <<rounds, total, same, failed>>

(* A reply with tool calls, native ones or ones written as markup.          *)
ReplyWithCalls ==
    /\ pc = "model"
    /\ \E b \in Batches, native \in BOOLEAN :
          /\ batch' = [calls |-> b, at |-> 1, native |-> native]
          /\ total' = total + Len(b)
    /\ fetched' = <<>> /\ pc' = "check"
    /\ UNCHANGED <<rounds, same, failed, garbled, broken, result, ending, reported, done>>

(* _record_tool_call_or_stop: the whole batch is counted before its first   *)
(* call is looked at, an identical call each time it is reached.            *)
Check ==
    /\ pc = "check"
    /\ IF total > MaxCalls THEN Stop("calls") /\ UNCHANGED same
       ELSE /\ same' = [same EXCEPT ![Current] = @ + 1]
            /\ IF same'[Current] > MaxSame THEN Stop("repeat")
               ELSE pc' = "run" /\ UNCHANGED <<batch, fetched, result, ending, reported>>
    /\ UNCHANGED <<rounds, total, failed, garbled, broken, done>>

Took(res, ran) ==
    /\ result' = res /\ done' = ran
    /\ broken' = Recorded(broken, Current, res)
    /\ pc' = IF res = "missing" /\ Current.path # NoPath THEN "recover" ELSE "judge"
    /\ UNCHANGED <<limits, batch, ending, reported>>

RunOne ==
    /\ pc = "run" /\ batch.at \notin DOMAIN fetched /\ Segment(batch.at) = {}
    /\ \E res \in Results(Current) : Took(res, Logged(Current, res, "model"))
    /\ UNCHANGED fetched

(* The first read of a run of reads: all of them are executed now, and the  *)
(* limits are applied to the later ones when their results are taken.       *)
FetchSegment ==
    /\ pc = "run" /\ batch.at \notin DOMAIN fetched
    /\ LET seg == Segment(batch.at)
           read == [k \in 1 .. Cardinality(seg) |-> batch.calls[batch.at + k - 1]]
       IN /\ seg # {}
          /\ \E got \in [seg -> UNION {Results(batch.calls[j]) : j \in seg}] :
                /\ \A j \in seg : got[j] \in Results(batch.calls[j])
                /\ fetched' = got
                /\ done' = done \o [k \in 1 .. Cardinality(seg) |->
                             [call |-> read[k], res |-> got[batch.at + k - 1], by |-> "model"]]
    /\ UNCHANGED <<limits, pc, batch, broken, result, ending, reported>>
TakeFetched ==
    /\ pc = "run" /\ batch.at \in DOMAIN fetched
    /\ Took(fetched[batch.at], done) /\ UNCHANGED fetched

(* Anything a tool raises leaves the loop, _run_turn answers with the error. *)
ToolRaises ==
    /\ pc = "run" /\ batch.at \notin DOMAIN fetched
    /\ Stop("error") /\ UNCHANGED <<limits, broken, done>>

-----------------------------------------------------------------------------
Advance ==
    /\ IF batch.at = Len(batch.calls) THEN batch' = NoBatch /\ fetched' = <<>> /\ pc' = "ask"
       ELSE batch' = [batch EXCEPT !.at = @ + 1] /\ pc' = "check" /\ UNCHANGED fetched
    /\ result' = "none" /\ UNCHANGED <<ending, reported, broken, done>>

(* A slip: a denial is a failure like any other.                            *)
JudgeOn ==
    /\ pc = "judge"
    /\ failed' = [failed EXCEPT ![Current.tool] = IF result = "ok" THEN 0 ELSE @ + 1]
    /\ IF failed'[Current.tool] < MaxFailed THEN Advance ELSE Finish("failures")
    /\ UNCHANGED <<rounds, total, same, garbled>>

(* What the result of a call means for the turn: a denial by the user ends  *)
(* it, a tool that failed too often in a row ends it, anything else does    *)
(* not.                                                                     *)
Judge ==
    /\ pc = "judge"
    /\ \/ result = "denied" /\ Stop("denied") /\ UNCHANGED <<failed, broken, done>>
       \/ result = "ok" /\ failed' = [failed EXCEPT ![Current.tool] = 0] /\ Advance
       \/ /\ result \notin {"denied", "ok"}
          /\ failed' = [failed EXCEPT ![Current.tool] = @ + 1]
          /\ IF failed'[Current.tool] < MaxFailed \/ ~Halt THEN Advance
             ELSE IF result = "missing" /\ Current.path # NoPath
             THEN pc' = "last_recover"
                  /\ UNCHANGED <<batch, fetched, result, ending, reported, broken, done>>
             ELSE Finish("failures")
    /\ UNCHANGED <<rounds, total, same, garbled>>

(* A write without its content: the model is asked for the bare file, and   *)
(* the write is dispatched outside the limits.  Only success ends the turn. *)
Completed ==
    [tool |-> Current.tool, path |-> Current.path, whole |-> TRUE, tier |-> Current.tier]
NotRecovered ==
    IF pc = "recover" THEN pc' = "judge" /\ UNCHANGED <<batch, fetched, result, ending, reported>>
    ELSE /\ pc' = "ended" /\ ending' = "failures" /\ reported' \in Footers(broken')
         /\ UNCHANGED <<batch, fetched, result>>
Recover ==
    /\ pc \in {"recover", "last_recover"}
    /\ \/ UNCHANGED <<broken, done>> /\ NotRecovered   \* no content, or an exception
       \/ \E res \in Results(Completed) :
             /\ done' = Logged(Completed, res, "recovery")
             /\ broken' = Recorded(broken, Completed, res)
             /\ IF res = "ok" THEN Stop("recovered") ELSE NotRecovered
    /\ UNCHANGED limits

(* The user interrupts at an await: what runs is cancelled, nothing is said. *)
Interrupt ==
    /\ pc \in {"model", "run", "recover", "last_recover"}
    /\ Stop("cancelled") /\ UNCHANGED <<limits, broken, done>>

TurnStep ==
    \/ AskModel \/ RoundLimit \/ BudgetStop \/ ProviderError \/ Answer \/ Garble
    \/ ReplyWithCalls \/ Check \/ RunOne \/ FetchSegment \/ TakeFetched \/ ToolRaises
    \/ Judge \/ Recover
TurnNext == TurnStep \/ Interrupt

-----------------------------------------------------------------------------
(* What the turn promises. *)

(* After the user denied a call the model made, nothing but the reads that  *)
(* were started with it runs in this turn: whatever the reply still asked   *)
(* for, and whatever the loop would do next.  A denial of the program's own *)
(* write, which Recover dispatches, is not among these: it counts as one    *)
(* more failure of its file, and the turn goes on.                          *)
HeedsDenial ==
    \A i, j \in DOMAIN done :
       (i < j /\ done[i].res = "denied" /\ done[i].by = "model")
          => done[j].call.tool \in Reads

(* What the code does not keep: that every denial, that of a recovery write *)
(* too, ends the turn.                                                      *)
EveryDenialIsHeeded ==
    \A i, j \in DOMAIN done :
       (i < j /\ done[i].res = "denied") => done[j].call.tool \in Reads

(* However the model repeats itself, an effective call runs at most MaxSame *)
(* times and all calls together at most MaxCalls times, recoveries apart.   *)
WorkIsBounded ==
    LET ByModel(S) == {i \in DOMAIN done : done[i].by = "model" /\ done[i].call \in S}
    IN /\ Cardinality(ByModel(Calls)) <= MaxCalls
       /\ \A c \in Calls : c.tool \in Reads \/ Cardinality(ByModel({c})) <= MaxSame

(* The answer of a turn that ends by answering, or at a limit on rounds,    *)
(* spend or failures, names only files whose last write failed, and all of  *)
(* them unless they are more than it has room for: a failure is not lost by *)
(* a later call and not reported once mended, whichever way (native,        *)
(* markup, recovery) the write was made.  With the verifier off it names    *)
(* none.                                                                    *)
Writes(f) == {i \in DOMAIN done : done[i].call.tool \in Mutators /\ done[i].call.path = f}
LastFailed(f) ==
    \E i \in Writes(f) : done[i].res # "ok" /\ \A j \in Writes(f) : j <= i
Unmended == {f \in Paths : LastFailed(f)}
FailuresAreReported ==
    (pc = "ended" /\ ending \in {"answer", "rounds", "budget", "failures"})
       => /\ reported \subseteq Unmended
          /\ Verifier => reported = Unmended \/ Cardinality(reported) = MaxNamed

(* docs/troubleshooting.md:82 promises the report of every turn and of every *)
(* failed write; the other exits answer without it, and a long list is cut. *)
EveryEndReports == (pc = "ended" /\ ending # "cancelled") => reported = Unmended

(* The turn comes to an end, whatever the model keeps asking for.           *)
TurnEnds == <>(pc = "ended")

-----------------------------------------------------------------------------
(* Why both hold.  The loop is inside its batch, and what it ran ahead are  *)
(* reads of that batch.                                                     *)
Working == {"check", "run", "judge", "recover", "last_recover"}
Outcomes == {"missing", "ok", "failed", "denied", "refused"}
Wholes == {[tool |-> c.tool, path |-> c.path, whole |-> TRUE, tier |-> c.tier] : c \in Calls}
Entries == [call : Calls \cup Wholes, res : Outcomes, by : {"model", "recovery"}]
Replies == [calls : Batches, at : Nat \ {0}, native : BOOLEAN]
BatchInv ==
    /\ pc \in {"ask", "model", "ended"} \cup Working
    /\ pc \in Working => batch \in Replies /\ batch.at <= Len(batch.calls)
    /\ pc \in Working =>
          \A k \in DOMAIN fetched : k \in 1 .. Len(batch.calls) /\ batch.calls[k].tool \in Reads
    /\ pc \in {"recover", "last_recover"} => result = "missing"
    /\ done \in Seq(Entries)

(* A denial among the results that were fetched ahead, which the loop       *)
(* reaches before it runs anything else; and so a denial ends the turn.     *)
DenialIsAhead ==
    \E j \in DOMAIN fetched :
       /\ fetched[j] = "denied" /\ batch.at .. j \subseteq DOMAIN fetched /\ batch.at <= j
       /\ pc \notin {"check", "run"} => batch.at < j
Denies(d) == d.res = "denied" /\ d.by = "model"
Denied == \E k \in DOMAIN done : Denies(done[k])
DenialEndsIt ==
    \/ pc = "ended"
    \/ pc = "judge" /\ result = "denied"
    \/ pc \in Working /\ DenialIsAhead
DenialInv == Denied => DenialEndsIt

(* The files whose failure is not mended are those whose last write failed. *)
FailuresInv == broken = Unmended /\ FailuresAreReported

=============================================================================
