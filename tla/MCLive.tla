-------------------------------- MODULE MCLive --------------------------------
(****************************************************************************)
(* What must happen in the end, in the approval broker and in the           *)
(* background queue.  As in MCSession, each part is a scene: a behaviour    *)
(* picks one and stays in it, and the slot variables are that part's.       *)
(****************************************************************************)
EXTENDS Naturals, Sequences

VARIABLES scene, v1, v2, v3, v4, v5, v6, v7, v8, v9, v10, v11
vars == <<scene, v1, v2, v3, v4, v5, v6, v7, v8, v9, v10, v11>>

Requests == {"r1"}
Workers == {"w1", "w2"}
Tasks == {"t1", "t2"}

Broker == INSTANCE ApprovalBroker WITH
    Broker <- {"p", "q"}, Request <- Requests, Action <- {"a"}, Session <- {"s1"},
    alive <- v1, req <- v2, lapsed <- v3, grants <- v4, hits <- v5, thread <- v6, found <- v7,
    signalled <- v8, owed <- v9, changed <- v10, answer <- v11

(* No faults: an item whose worker died waits for ever.                     *)
Queue == INSTANCE DaemonQueue WITH
    Worker <- Workers, Task <- Tasks, NoTask <- "none", Legacy <- 0, MaxQueue <- 2,
    MaxPauses <- 0, Faults <- FALSE,
    queue <- v1, task <- v2, drafts <- v3, holder <- v4, pc <- v5, work <- v6, child <- v7,
    result <- v8, orphans <- v9, launches <- v10, pauses <- v11

Init ==
    \/ scene = "broker" /\ Broker!Init
    \/ scene = "queue"  /\ Queue!Init

BrokerScene == scene = "broker" /\ Broker!Next /\ UNCHANGED scene
QueueScene  == scene = "queue"  /\ Queue!Next /\ UNCHANGED scene
Next == BrokerScene \/ QueueScene

(* Threads of living processes run; run_once is called again and again, and *)
(* enqueue_task ends.                                                       *)
ThreadRuns(r)   == scene = "broker" /\ Broker!ThreadStep(r) /\ UNCHANGED scene
WorkerClaims(w) == scene = "queue"  /\ Queue!Claim(w) /\ UNCHANGED scene
WorkerRecords(w) == scene = "queue" /\ Queue!Record(w) /\ UNCHANGED scene
WorkerRuns(w)   == scene = "queue"  /\ Queue!WorkerStep(w) /\ UNCHANGED scene
ItemAppended(t) == scene = "queue"  /\ Queue!AppendItem(t) /\ UNCHANGED scene

Fairness ==
    /\ \A r \in Requests : WF_vars(ThreadRuns(r))
    /\ \A w \in Workers : SF_vars(WorkerClaims(w)) /\ SF_vars(WorkerRecords(w)) /\ WF_vars(WorkerRuns(w))
    /\ \A t \in Tasks : SF_vars(ItemAppended(t))

FairSpec == Init /\ [][Next]_vars /\ Fairness

-----------------------------------------------------------------------------
(* A decision written by any process reaches the waiting thread, whether or *)
(* not its doorbell rings.                                                  *)
DecisionReachesWaiter ==
    \A r \in Requests :
       (scene = "broker" /\ Broker!Resolved(r) /\ Broker!Waiting(r))
          ~> (scene = "broker" /\ ~Broker!Waiting(r))

(* An item of the queue that may be claimed does not wait for ever.         *)
ClaimableRuns ==
    \A i \in 1..2 :
       (scene = "queue" /\ Queue!Waits(i)) ~> (scene = "queue" /\ ~Queue!Waits(i))

=============================================================================
