------------------------------ MODULE TaskStates ------------------------------
(***************************************************************************)
(* The lifecycle of a durable task: the states of task_runtime.py and its  *)
(* table of legal transitions.  Every module whose code moves a ledger     *)
(* task (the ledger itself, the graph executor, the daemon) reads the      *)
(* table from here.  In every module, a definition whose comment calls it a*)
(* slip is a mistake that the properties are shown to catch.               *)
(***************************************************************************)

TaskState ==
  { "pending", "ready", "queued", "planning", "running", "waiting",
    "awaiting_human", "blocked", "validating", "completed", "succeeded",
    "failed", "cancelled", "skipped" }

\* States that set started_at (once) and states that set finished_at.
StartedState  == { "running", "validating" }
FinishedState == { "completed", "succeeded", "failed", "cancelled", "skipped" }

\* A move to "queued" from one of these begins a new attempt.
RetriedFrom == FinishedState \cup { "blocked" }

\* _TRANSITIONS: the set of legal <<from, to>> pairs.
Transitions ==
  UNION { { "pending" }        \X { "ready", "blocked", "cancelled", "skipped" },
          { "ready" }          \X { "running", "blocked", "cancelled", "skipped" },
          { "queued" }         \X { "planning", "running", "cancelled" },
          { "planning" }       \X { "running", "waiting", "blocked", "failed",
                                    "cancelled" },
          { "running" }        \X { "waiting", "awaiting_human", "blocked",
                                    "validating", "completed", "succeeded",
                                    "failed", "cancelled", "skipped" },
          { "waiting", "awaiting_human" }
                               \X { "running", "blocked", "failed", "cancelled" },
          { "blocked" }        \X { "queued", "ready", "running", "failed",
                                    "cancelled" },
          { "validating" }     \X { "running", "blocked", "completed",
                                    "succeeded", "failed", "cancelled" },
          { "failed" }         \X { "queued", "blocked", "cancelled" },
          { "completed", "succeeded", "cancelled", "skipped" } \X { "queued" } }

\* A slip: a cancelled task may be resumed.
CanMoveOrResume(from, to) ==
  <<from, to>> \in Transitions \/ (from = "cancelled" /\ to = "running")

CanMove(from, to) == <<from, to>> \in Transitions

\* The attempt counter grows on a move that re-queues an ended attempt.
BeginsAttempt(from, to) == from \in RetriedFrom /\ to = "queued"
=============================================================================
