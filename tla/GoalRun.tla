-------------------------------- MODULE GoalRun --------------------------------
(****************************************************************************)
(* Staged goals (goal_orchestrator.py): a plan of steps in the workbench    *)
(* store, run as one graph whose nodes are the open steps, in order, each   *)
(* given to a sub-agent.  A run reads the plan when it begins, keeps its    *)
(* results in memory, and writes the plan once at its end, so that two runs *)
(* of one plan, or a run that dies, show only in what the next one reads.   *)
(****************************************************************************)
EXTENDS TaskStates, Naturals, FiniteSets, FiniteSetTheorems

CONSTANTS
    N,          \* the number of steps
    Runs        \* the runs that are ever begun

VARIABLES
    plan,       \* the stored plan: its status and the results it keeps
    task,       \* the state of the goal's ledger task
    at,         \* run -> idle, steps, wind (the graph ends), write, over
    next,       \* run -> the step its graph is at
    results,    \* run -> the results it has, <<step, ok>>
    graphOk,    \* run -> whether its graph succeeded
    worked      \* steps whose sub-agent ever returned without an error

goalVars == <<plan, task, at, next, results, graphOk, worked>>

Steps == 1..N
Passed(rs) == {r \in rs : r[2]}

(* create_orchestrated_goal leaves the plan and its task ready to run.      *)
GoalInit ==
    /\ plan = [status |-> "planned", results |-> {}] /\ task = "waiting"
    /\ at = [r \in Runs |-> "idle"] /\ next = [r \in Runs |-> 1]
    /\ results = [r \in Runs |-> {}] /\ graphOk = [r \in Runs |-> FALSE] /\ worked = {}

(* Where to go on: after as many steps as passed, or at the step to retry.  *)
StartIndex(retry) ==
    IF retry # 0 THEN retry - 1
    ELSE IF Cardinality(Passed(plan.results)) < N THEN Cardinality(Passed(plan.results)) ELSE N - 1

(* The task of a graph is resumed, or retried after its end, from whatever  *)
(* state it has; a run that finds it running goes on as well.               *)
Begin(r) ==
    /\ at[r] = "idle"
    /\ \E retry \in 0..N :
          /\ plan.status # "completed" \/ retry # 0
          /\ next' = [next EXCEPT ![r] = StartIndex(retry) + 1]
          /\ results' = [results EXCEPT ![r] =
                {x \in plan.results : x[1] <= StartIndex(retry)}]
    /\ at' = [at EXCEPT ![r] = "steps"] /\ task' = "running"
    /\ UNCHANGED <<plan, graphOk, worked>>

(* One step: the sub-agent answers, fails, or answers with nothing, which   *)
(* counts as a result although the node fails its criterion.                *)
RunStep(r) ==
    /\ at[r] = "steps"
    /\ \E answer \in {"summary", "nothing", "error"} :
          /\ results' = [results EXCEPT ![r] = @ \cup {<<next[r], answer # "error">>}]
          /\ worked' = IF answer = "error" THEN worked ELSE worked \cup {next[r]}
          /\ IF answer = "summary" /\ next[r] < N
             THEN next' = [next EXCEPT ![r] = @ + 1] /\ UNCHANGED <<at, graphOk>>
             ELSE /\ at' = [at EXCEPT ![r] = "wind"]
                  /\ graphOk' = [graphOk EXCEPT ![r] = answer = "summary"]
                  /\ UNCHANGED next
    /\ UNCHANGED <<plan, task>>

(* A deadline, a diagnostic or a cancelled task ends the graph early.       *)
GraphStops(r) ==
    /\ at[r] = "steps"
    /\ at' = [at EXCEPT ![r] = "wind"] /\ graphOk' = [graphOk EXCEPT ![r] = FALSE]
    /\ UNCHANGED <<plan, task, next, results, worked>>

(* The graph moves the task; a move the ledger refuses makes the graph a    *)
(* failed one, and that move is not insisted on.                            *)
GraphEnds(r) ==
    /\ at[r] = "wind"
    /\ LET final == IF graphOk[r] /\ CanMove(task, "completed") THEN "completed" ELSE "failed" IN
       /\ task' = IF CanMove(task, final) THEN final ELSE task
       /\ graphOk' = [graphOk EXCEPT ![r] = final = "completed"]
    /\ at' = [at EXCEPT ![r] = "write"]
    /\ UNCHANGED <<plan, next, results, worked>>

(* A slip: every step has a result, so the plan is done.                    *)
VerdictByCount(r) == IF Cardinality(results[r]) = N THEN "completed" ELSE "blocked"
Verdict(r) == IF graphOk[r] /\ Cardinality(results[r]) = N /\ Passed(results[r]) = results[r]
              THEN "completed" ELSE "blocked"
Settles(r) ==
    /\ at[r] = "write"
    /\ plan' = [status |-> Verdict(r), results |-> results[r]]
    /\ task' = IF Verdict(r) # "completed" /\ task \notin {"blocked", "completed", "cancelled"}
                  /\ CanMove(task, "blocked")
               THEN "blocked" ELSE task
    /\ at' = [at EXCEPT ![r] = "over"]
    /\ UNCHANGED <<next, results, graphOk, worked>>

(* The process dies; or the user cancels the task from another one.         *)
Crash(r) ==
    /\ at[r] \notin {"idle", "over"} /\ at' = [at EXCEPT ![r] = "over"]
    /\ UNCHANGED <<plan, task, next, results, graphOk, worked>>
CancelTask ==
    /\ CanMove(task, "cancelled") /\ task' = "cancelled"
    /\ UNCHANGED <<plan, at, next, results, graphOk, worked>>

GoalNext == CancelTask \/ \E r \in Runs : \/ Begin(r) \/ RunStep(r) \/ GraphStops(r)
                                          \/ GraphEnds(r) \/ Settles(r) \/ Crash(r)

-----------------------------------------------------------------------------
(* A plan is completed only when the sub-agent of every step has at some    *)
(* time come back without an error, whatever was retried, resumed, run      *)
(* twice at once or lost with its process.                                  *)
CompletedMeansWorked == plan.status = "completed" => worked = Steps

(* A resumed plan goes on at the first step that has not passed.            *)
ResumeFindsTheGap ==
    \A k \in Steps : (plan.status = "blocked" /\ Cardinality(Passed(plan.results)) >= k)
                        => \E x \in Passed(plan.results) : x[1] = k

(* The plan and its ledger task agree on what is completed.                 *)
TaskAgrees == plan.status = "completed" => task # "failed"

-----------------------------------------------------------------------------
(* Why a completed plan worked: every success in the results of a plan or   *)
(* of a run is of a step whose sub-agent once succeeded.                    *)
Outcomes == Steps \X BOOLEAN
GoalInv ==
    /\ plan \in [status : {"planned", "blocked", "completed"}, results : SUBSET Outcomes]
    /\ at \in [Runs -> {"idle", "steps", "wind", "write", "over"}]
    /\ next \in [Runs -> Steps] /\ results \in [Runs -> SUBSET Outcomes]
    /\ worked \subseteq Steps
    /\ \A x \in Passed(plan.results) : x[1] \in worked
    /\ \A r \in Runs : \A x \in Passed(results[r]) : x[1] \in worked
    /\ plan.status = "completed" => worked = Steps

=============================================================================
