------------------------------- MODULE Subagents -------------------------------
(****************************************************************************)
(* The sub-agents of one runner (subagents/__init__.py) and the mirror of   *)
(* each in the task ledger (SessionTaskBridge of execution_bridge.py).  The *)
(* tasks run on one event loop, several at a time when they were spawned in *)
(* waves or by a graph; a node deadline cancels the task that waits for its *)
(* sub-agent.                                                               *)
(****************************************************************************)
EXTENDS TaskStates, Naturals, FiniteSets, FiniteSetTheorems

CONSTANTS
    Tasks,
    MaxSubagents    \* the cap of the configuration, or of the profile

VARIABLES
    agent,      \* task -> none, chat, ending, closing, failing, over, refused, lost
    isDone,     \* the tasks the runner counts as finished
    error,      \* the tasks that report an error
    row,        \* task -> state of its ledger row
    listed      \* the tasks the runner keeps

subVars == <<agent, isDone, error, row, listed>>

SubInit == /\ agent = [t \in Tasks |-> "none"] /\ isDone = {} /\ error = {} /\ listed = {}
           /\ row = [t \in Tasks |-> "none"]

(* A slip: counts by the ledger, where the user may have cancelled the row.  *)
UnfinishedRows == {t \in listed : row[t] = "running"}
Unfinished == listed \ isDone

(* spawn: over the cap the task is refused and not kept; under it, it is    *)
(* kept, and refused by the profile, or given a session and a ledger row.   *)
Spawn(t) ==
    /\ agent[t] = "none"
    /\ IF Cardinality(Unfinished) >= MaxSubagents
       THEN /\ agent' = [agent EXCEPT ![t] = "refused"]
            /\ isDone' = isDone \cup {t} /\ error' = error \cup {t}
            /\ UNCHANGED <<row, listed>>
       ELSE /\ listed' = listed \cup {t}
            /\ \/ /\ agent' = [agent EXCEPT ![t] = "refused"]
                  /\ isDone' = isDone \cup {t} /\ error' = error \cup {t} /\ UNCHANGED row
               \/ /\ agent' = [agent EXCEPT ![t] = "chat"]
                  /\ row' = [row EXCEPT ![t] = "running"] /\ UNCHANGED <<isDone, error>>

(* chat answers or raises; the session is ended either way, and that may    *)
(* raise as well, which is passed over only when the chat had raised.       *)
ChatEnds(t) ==
    /\ agent[t] = "chat"
    /\ \E to \in {"ending", "failing"} : agent' = [agent EXCEPT ![t] = to]
    /\ UNCHANGED <<isDone, error, row, listed>>
SessionEnds(t) ==
    /\ agent[t] = "ending"
    /\ \E to \in {"closing", "failing"} : agent' = [agent EXCEPT ![t] = to]
    /\ UNCHANGED <<isDone, error, row, listed>>

(* bridge.complete: validating, then completed; a move the ledger refuses,  *)
(* or evidence that cannot be written, is a failure of the task.            *)
Complete(t) ==
    /\ agent[t] = "closing"
    /\ \/ /\ CanMove(row[t], "validating")
          /\ row' = [row EXCEPT ![t] = "completed"] /\ isDone' = isDone \cup {t}
          /\ agent' = [agent EXCEPT ![t] = "over"] /\ UNCHANGED error
       \/ /\ CanMove(row[t], "validating")
          /\ row' = [row EXCEPT ![t] = "validating"]
          /\ agent' = [agent EXCEPT ![t] = "failing"] /\ UNCHANGED <<isDone, error>>
       \/ /\ ~CanMove(row[t], "validating")
          /\ agent' = [agent EXCEPT ![t] = "failing"] /\ UNCHANGED <<row, isDone, error>>
    /\ UNCHANGED listed
(* bridge.fail, whose own refusal ends in the same error of the task.       *)
Fail(t) ==
    /\ agent[t] = "failing" /\ agent' = [agent EXCEPT ![t] = "over"]
    /\ row' = [row EXCEPT ![t] = IF CanMove(@, "failed") THEN "failed" ELSE @]
    /\ isDone' = isDone \cup {t} /\ error' = error \cup {t}
    /\ UNCHANGED listed

(* A cancelled task leaves at its await: no handler here takes it.          *)
Cancelled(t) ==
    /\ agent[t] \in {"chat", "ending"} /\ agent' = [agent EXCEPT ![t] = "lost"]
    /\ UNCHANGED <<isDone, error, row, listed>>

(* The user cancels the row from another process.                           *)
CancelRow(t) ==
    /\ CanMove(row[t], "cancelled") /\ row' = [row EXCEPT ![t] = "cancelled"]
    /\ UNCHANGED <<agent, isDone, error, listed>>

SubNext == \E t \in Tasks : \/ Spawn(t) \/ ChatEnds(t) \/ SessionEnds(t) \/ Complete(t)
                            \/ Fail(t) \/ Cancelled(t) \/ CancelRow(t)

SubSpec == SubInit /\ [][SubNext]_subVars

-----------------------------------------------------------------------------
Works(t) == agent[t] \in {"chat", "ending", "closing", "failing"}

(* The sub-agents that work at a time never exceed the cap.                 *)
CapHolds == Cardinality({t \in Tasks : Works(t)}) <= MaxSubagents

(* What a finished task reports and what its ledger row says agree: only a  *)
(* task without an error is completed, and such a task always is.           *)
RowTellsTheSame ==
    \A t \in isDone : row[t] = "completed" <=> t \notin error

(* A slot comes back when its sub-agent stops working.                      *)
SlotsComeBack == \A t \in Unfinished : agent[t] # "lost"

-----------------------------------------------------------------------------
(* The cap holds for every set of tasks and every cap: what works is listed *)
(* and not done, and a task is listed only while fewer than the cap are.    *)
CapInv ==
    /\ agent \in [Tasks -> {"none", "chat", "ending", "closing", "failing", "over", "refused", "lost"}]
    /\ listed \subseteq Tasks /\ isDone \subseteq Tasks
    /\ \A t \in Tasks : Works(t) => t \in Unfinished
    /\ \A t \in Tasks : agent[t] = "none" => t \notin listed /\ t \notin isDone
    /\ Cardinality(Unfinished) <= MaxSubagents

(* Only Complete makes a row completed, and no later move of the row or of  *)
(* the task undoes what either says.                                        *)
RowInv ==
    /\ agent \in [Tasks -> {"none", "chat", "ending", "closing", "failing", "over", "refused", "lost"}]
    /\ row \in [Tasks -> {"none", "running", "validating", "completed", "failed", "cancelled"}]
    /\ isDone \subseteq Tasks /\ error \subseteq Tasks
    /\ \A t \in Tasks : t \in isDone => agent[t] \in {"over", "refused"}
    /\ \A t \in Tasks : t \in error => t \in isDone
    /\ \A t \in Tasks : row[t] = "completed" => t \in isDone /\ t \notin error
    /\ \A t \in Tasks : t \in isDone /\ t \notin error => row[t] = "completed"

=============================================================================
