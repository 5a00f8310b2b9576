------------------------------ MODULE GraphDrafts ------------------------------
(****************************************************************************)
(* Graph proposals generated in the background for the browser              *)
(* (GraphDraftManager of web_graphs.py): a bounded table of jobs, one       *)
(* thread with its own event loop per job, progress events, and a cancel    *)
(* that marks the job at once and reaches the task later.                   *)
(****************************************************************************)
EXTENDS Naturals, Sequences, FiniteSets

CONSTANTS Jobs, MaxJobs      \* 20 jobs are kept

VARIABLES
    table,    \* the jobs that are kept, oldest first
    status,   \* of each job ever started; "none" before
    handle,   \* the job holds its loop and task, so that cancel can reach them
    thread,   \* what the thread of each job is at
    sent,     \* a cancel is on its way into the event loop
    model     \* how the generation of the job will end

draftVars == <<table, status, handle, thread, sent, model>>

Final == {"succeeded", "failed", "cancelled"}
Kept == {table[i] : i \in DOMAIN table}

DraftInit ==
    /\ table = <<>> /\ status = [j \in Jobs |-> "none"] /\ handle = {} /\ sent = {}
    /\ thread = [j \in Jobs |-> "none"] /\ model \in [Jobs -> {"proposal", "refusal", "error"}]

(* start: the oldest job makes room, whatever it is doing.                  *)
Start(j) ==
    /\ status[j] = "none"
    /\ table' = Append(IF Len(table) >= MaxJobs THEN Tail(table) ELSE table, j)
    /\ status' = [status EXCEPT ![j] = "queued"]
    /\ thread' = [thread EXCEPT ![j] = "register"]
    /\ UNCHANGED <<handle, sent, model>>

(* _run first stores its loop and task; without its job it raises, and the  *)
(* handler of that raises again.                                            *)
Register(j) ==
    /\ thread[j] = "register"
    /\ IF j \in Kept
       THEN /\ handle' = handle \cup {j}
            /\ thread' = [thread EXCEPT ![j] = "generate"]
            /\ sent' = IF status[j] = "cancelled" THEN sent \cup {j} ELSE sent
       ELSE thread' = [thread EXCEPT ![j] = "dead"] /\ UNCHANGED <<handle, sent>>
    /\ UNCHANGED <<table, status, model>>

Progress(j) ==
    /\ thread[j] = "generate" /\ j \in Kept /\ status[j] = "queued"
    /\ status' = [status EXCEPT ![j] = "running"]
    /\ UNCHANGED <<table, handle, thread, sent, model>>

(* The cancel reaches the task at an await, unless the task is done first.  *)
TaskCancelled(j) ==
    /\ thread[j] = "generate" /\ j \in sent
    /\ thread' = [thread EXCEPT ![j] = "over"] /\ handle' = handle \ {j}
    /\ UNCHANGED <<table, status, sent, model>>
TaskDone(j) ==
    /\ thread[j] = "generate"
    /\ thread' = [thread EXCEPT ![j] = IF model[j] = "error" THEN "raised" ELSE "returned"]
    /\ UNCHANGED <<table, status, handle, sent, model>>

(* A slip: the result is kept whatever became of the job.                   *)
SettleAnyway(j) ==
    /\ thread[j] \in {"returned", "raised"}
    /\ thread' = [thread EXCEPT ![j] = "over"] /\ handle' = handle \ {j}
    /\ status' = [status EXCEPT ![j] = IF thread[j] = "returned" THEN "succeeded" ELSE "failed"]
    /\ UNCHANGED <<table, sent, model>>
(* The result is kept unless the job was cancelled meanwhile; an exception  *)
(* is kept either way.                                                      *)
Settle(j) ==
    /\ thread[j] \in {"returned", "raised"}
    /\ thread' = [thread EXCEPT ![j] = IF j \in Kept THEN "over" ELSE "dead"]
    /\ handle' = handle \ {j}
    /\ status' = [status EXCEPT ![j] =
          IF j \notin Kept \/ (@ = "cancelled" /\ thread[j] = "returned") THEN @
          ELSE IF thread[j] = "returned" /\ model[j] = "proposal" THEN "succeeded" ELSE "failed"]
    /\ UNCHANGED <<table, sent, model>>

Cancel(j) ==
    /\ j \in Kept /\ status[j] \notin Final
    /\ status' = [status EXCEPT ![j] = "cancelled"]
    /\ sent' = IF j \in handle THEN sent \cup {j} ELSE sent
    /\ UNCHANGED <<table, handle, thread, model>>

DraftThread(j) == Register(j) \/ Progress(j) \/ TaskCancelled(j) \/ TaskDone(j) \/ Settle(j)
DraftNext == \E j \in Jobs : Start(j) \/ DraftThread(j) \/ Cancel(j)

-----------------------------------------------------------------------------
(* A generation the user cancelled is never shown as succeeded, whenever    *)
(* the cancel falls between the task, its thread and the table.             *)
StaysUnsuccessful == \A j \in Jobs : status[j] = "cancelled" => status'[j] # "succeeded"
CancelledNeverSucceeds == [][StaysUnsuccessful]_draftVars

(* A task that was cancelled before its thread began is cancelled as well:  *)
(* nothing generates for a cancelled job without a cancel on its way.       *)
CancelIsOnItsWay ==
    \A j \in Jobs : (status[j] = "cancelled" /\ thread[j] = "generate") => j \in sent

(* An exception of the task that was being cancelled turns the job into a   *)
(* failed one.                                                              *)
CancelSticks == [][\A j \in Jobs : status[j] = "cancelled" => status'[j] = "cancelled"]_draftVars

(* A job that is thrown out of the table while it runs loses its thread.    *)
NoThreadDies == \A j \in Jobs : thread[j] # "dead"

=============================================================================
