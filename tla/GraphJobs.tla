------------------------------- MODULE GraphJobs -------------------------------
(****************************************************************************)
(* The permission questions of a graph run in the browser, answered by the  *)
(* waiters of GraphRunManager (web_graphs.py) when it has no shared broker, *)
(* and the state of the job around them.  ApprovalBroker is the other case. *)
(****************************************************************************)
EXTENDS Naturals, Sequences, FiniteSets, FiniteSetTheorems

CONSTANTS
    Prompts,       \* what a graph asks permission for
    Shell,         \* the prompts that offer session and always
    MaxAsks,       \* how many questions the job asks
    MaxDecides     \* how many decisions the user sends

VARIABLES
    jobState,  \* the state shown to the browser
    grants,    \* prompts it may repeat without asking
    waiter,    \* [phase, prompt, decision, decided, set]
    asks,      \* questions asked
    uses,      \* how often it went ahead with each prompt
    told       \* the decisions that were accepted, in their order

jobVars == <<jobState, grants, waiter, asks, uses, told>>

NoWaiter == [phase |-> "none", prompt |-> "none", decision |-> "deny", decided |-> FALSE, set |-> FALSE]
Choices(p) == IF p \in Shell THEN {"once", "session", "always", "deny"} ELSE {"once", "deny"}

JobInit == /\ jobState = "queued" /\ grants = {} /\ waiter = NoWaiter /\ asks = 0
           /\ uses = [p \in Prompts |-> 0] /\ told = <<>>

(* emit: graph.started and graph.completed; the end of _execute, also when  *)
(* the run raised, whatever the events said.                                *)
GraphStarted ==
    /\ jobState = "queued" /\ jobState' = "running"
    /\ UNCHANGED <<grants, waiter, asks, uses, told>>
GraphEnds ==
    /\ jobState \in {"queued", "running"} /\ waiter.phase = "none"
    /\ \E end \in {"succeeded", "failed"} : jobState' = end
    /\ UNCHANGED <<grants, waiter, asks, uses, told>>

(* _request_approval: a remembered prompt is not asked again; the wait ends *)
(* with the event, or with the timeout when the event is not set, and only  *)
(* then, under the lock, the decision is read and the waiter dropped.       *)
Ask ==
    /\ jobState = "running" /\ waiter.phase = "none" /\ asks < MaxAsks
    /\ asks' = asks + 1
    /\ \E p \in Prompts :
          IF p \in grants
          THEN uses' = [uses EXCEPT ![p] = @ + 1] /\ UNCHANGED waiter
          ELSE waiter' = [NoWaiter EXCEPT !.phase = "wait", !.prompt = p] /\ UNCHANGED uses
    /\ UNCHANGED <<jobState, grants, told>>
WaitEnds ==
    /\ waiter.phase = "wait"
    /\ waiter' = [waiter EXCEPT !.phase = IF waiter.set THEN "answered" ELSE "timedOut"]
    /\ UNCHANGED <<jobState, grants, asks, uses, told>>
Returns ==
    /\ waiter.phase \in {"answered", "timedOut"}
    /\ uses' = IF waiter.phase = "answered" /\ waiter.decision # "deny"
               THEN [uses EXCEPT ![waiter.prompt] = @ + 1] ELSE uses
    /\ waiter' = NoWaiter
    /\ UNCHANGED <<jobState, grants, asks, told>>

(* A slip: every approval is for the session.                               *)
RemembersAny(d) == d # "deny"
Remembers(d) == d \in {"session", "always"}
(* decide_approval: the decision and the grant are noted under the lock;    *)
(* the event is set outside it, so a second decision may still replace the  *)
(* first, and the grants of both stay.                                      *)
DecideApproval ==
    /\ waiter.phase # "none" /\ ~waiter.set /\ Len(told) < MaxDecides
    /\ \E d \in Choices(waiter.prompt) :
          /\ waiter' = [waiter EXCEPT !.decision = d, !.decided = TRUE]
          /\ grants' = IF Remembers(d) THEN grants \cup {waiter.prompt} ELSE grants
          /\ told' = Append(told, <<waiter.prompt, d>>)
    /\ UNCHANGED <<jobState, asks, uses>>
EventSet ==
    /\ waiter.decided /\ ~waiter.set
    /\ waiter' = [waiter EXCEPT !.set = TRUE]
    /\ UNCHANGED <<jobState, grants, asks, uses, told>>

JobNext == GraphStarted \/ GraphEnds \/ Ask \/ WaitEnds \/ Returns \/ DecideApproval \/ EventSet

-----------------------------------------------------------------------------
Told(p, choices) == {i \in DOMAIN told : told[i][1] = p /\ told[i][2] \in choices}

(* A prompt that nobody granted for the session goes ahead no more often    *)
(* than it was approved, whatever raced with its timeout and whoever else   *)
(* decided at the same moment.                                              *)
EveryUseIsApproved ==
    \A p \in Prompts : \/ uses[p] <= Cardinality(Told(p, {"once"}))
                       \/ Told(p, {"session", "always"}) # {}

(* Why: a prompt is repeated without a question only when the session was   *)
(* told so, and an approval that waits to be used was accepted as well.     *)
Owed(p) == IF waiter.phase # "none" /\ waiter.prompt = p /\ waiter.decision # "deny" THEN 1 ELSE 0
UseInv ==
    /\ waiter \in [phase : {"none", "wait", "answered", "timedOut"}, prompt : Prompts \cup {"none"},
                   decision : {"once", "session", "always", "deny"}, decided : BOOLEAN, set : BOOLEAN]
    /\ waiter.phase # "none" => waiter.prompt \in Prompts
    /\ uses \in [Prompts -> Nat]
    /\ told \in Seq(Prompts \X {"once", "session", "always", "deny"})
    /\ \A p \in Prompts : Told(p, {"session", "always"}) = {} =>
          /\ p \notin grants
          /\ uses[p] + Owed(p) <= Cardinality(Told(p, {"once"}))

(* A decision the manager accepts is the one the tool gets.                 *)
AcceptedDecisionCounts ==
    [][waiter.decided /\ waiter' = NoWaiter => (waiter.decision # "deny" <=> uses' # uses)]_jobVars

=============================================================================
