-------------------------- MODULE DaemonQueue_proofs --------------------------
(***************************************************************************)
(* For every number of workers, tasks and items, with crashes and a ledger *)
(* that fails: at most one command of an item runs at any time.            *)
(*                                                                         *)
(* The argument.  The worker that holds the lock has an item that is still *)
(* pending; every worker further on, up to its record, has one that is     *)
(* marked as running, and no other worker has the same (Held).  A command  *)
(* that lost its worker belongs to an item that nobody can claim: marked   *)
(* as running for good, or about to be recorded as failed (OrphanIsLast).  *)
(***************************************************************************)
EXTENDS DaemonQueue, FiniteSetTheorems, TLAPS

QueueTyped ==
  /\ queue \in Seq(Item)
  /\ IsFiniteSet(drafts) /\ Len(queue) + Cardinality(drafts) =< MaxQueue
  /\ drafts \subseteq Task
  /\ holder \in Worker \cup { Nobody }
  /\ pc \in [ Worker -> Pc ]
  /\ work \in [ Worker -> [ item : Nat, task : Task \cup { NoTask } ] ]
  /\ child \in [ Worker -> { "none", "alive", "ok", "failed" } ]
  /\ result \in [ Worker -> Result ]
  /\ orphans \in [ Place -> Nat ]

Busy == { "begin", "launch", "watch", "record" }

(* Where a worker is agrees with what the queue says of its item.           *)
Held(w) ==
  /\ pc[w] # "idle" => ItemOf(w) \in DOMAIN queue
  /\ pc[w] = "claim" <=> holder = w
  /\ pc[w] = "claim" => queue[ItemOf(w)].status = "pending"
  /\ pc[w] \in Busy => queue[ItemOf(w)].status = "running"
  /\ child[w] # "none" <=> pc[w] = "watch"

Exclusive ==
  \A v, w \in Worker :
    v # w /\ pc[v] \in Busy /\ pc[w] \in Busy => ItemOf(v) # ItemOf(w)

(* An orphan is alone, and its item is never claimed again.                 *)
OrphanIsLast(i) ==
  orphans[i] > 0 =>
    /\ orphans[i] = 1
    /\ i \in DOMAIN queue /\ queue[i].status # "pending"
    /\ \A w \in Worker : pc[w] \in Busy /\ ItemOf(w) = i =>
         pc[w] = "record" /\ result[w] = "failed"

QueueInv ==
  /\ QueueTyped
  /\ \A w \in Worker : Held(w)
  /\ Exclusive
  /\ \A i \in Place : OrphanIsLast(i)

LEMMA QueueInvInitially == Init => QueueInv
<1> SUFFICES ASSUME Init PROVE QueueInv
  OBVIOUS
<1> USE QueueAssumption
<1>1. queue \in Seq(Item) /\ Len(queue) = Legacy
  BY DEF Init, Item, Status
<1>2. IsFiniteSet(drafts) /\ Cardinality(drafts) = 0 /\ drafts \subseteq Task
  BY FS_EmptySet DEF Init
<1>3. QueueTyped
  <2>1. work \in [ Worker -> [ item : Nat, task : Task \cup { NoTask } ] ]
    BY DEF Init, NoWork
  <2>2. /\ pc \in [ Worker -> Pc ] /\ result \in [ Worker -> Result ]
        /\ child \in [ Worker -> { "none", "alive", "ok", "failed" } ]
        /\ orphans \in [ Place -> Nat ] /\ holder \in Worker \cup { Nobody }
    BY DEF Init, Pc, Result
  <2> QED
    BY <1>1, <1>2, <2>1, <2>2 DEF QueueTyped
<1>4. /\ \A w \in Worker : pc[w] = "idle" /\ child[w] = "none"
      /\ holder = Nobody /\ \A i \in Place : orphans[i] = 0
  BY DEF Init
<1> QED
  BY <1>3, <1>4 DEF QueueInv, Held, Exclusive, OrphanIsLast, Busy

-----------------------------------------------------------------------------
(* enqueue_task and the ledger leave what the workers have as it is.        *)
LEMMA Untouched ==
  ASSUME QueueInv, QueueTyped',
         UNCHANGED <<holder, pc, work, child, result>>,
         \A i \in DOMAIN queue : i \in DOMAIN queue' /\ queue'[i] = queue[i],
         \A i \in Place : orphans'[i] =< orphans[i]
  PROVE  QueueInv'
<1>1. ASSUME NEW w \in Worker
      PROVE  Held(w)'
  <2>1. Held(w) /\ holder' = holder /\ pc' = pc /\ work' = work /\ child' = child
    BY DEF QueueInv
  <2>2. pc[w] # "idle" => ItemOf(w) \in DOMAIN queue
    BY <2>1 DEF Held
  <2>3. pc[w] # "idle" => queue'[ItemOf(w)] = queue[ItemOf(w)] /\ ItemOf(w) \in DOMAIN queue'
    BY <2>2
  <2>4. ItemOf(w)' = ItemOf(w)
    BY <2>1 DEF ItemOf
  <2>5. pc[w] \in Busy \/ pc[w] = "claim" => pc[w] # "idle"
    BY DEF Busy
  <2> QED
    BY <2>1, <2>3, <2>4, <2>5 DEF Held
<1>2. Exclusive'
  BY DEF QueueInv, Exclusive, ItemOf
<1>3. ASSUME NEW i \in Place
      PROVE  OrphanIsLast(i)'
  <2>1. orphans[i] \in Nat /\ orphans'[i] \in Nat
    BY DEF QueueInv, QueueTyped
  <2> QED
    BY <2>1 DEF QueueInv, OrphanIsLast, ItemOf
<1> QED
  BY <1>1, <1>2, <1>3 DEF QueueInv

LEMMA Enqueues ==
  ASSUME QueueInv, NEW t \in Task, CreateTask(t) \/ AppendItem(t) \/ LoseDraft(t)
  PROVE  QueueInv'
<1> USE QueueAssumption
<1>1. /\ queue \in Seq(Item) /\ IsFiniteSet(drafts) /\ drafts \subseteq Task
      /\ Cardinality(drafts) \in Nat /\ Len(queue) \in Nat
      /\ Len(queue) + Cardinality(drafts) =< MaxQueue
  BY FS_CardinalityType DEF QueueInv, QueueTyped
<1>2. /\ UNCHANGED <<holder, pc, work, child, result, orphans>>
  BY DEF CreateTask, AppendItem, LoseDraft
<1>3. /\ queue' \in Seq(Item) /\ drafts' \subseteq Task
      /\ \A i \in DOMAIN queue : i \in DOMAIN queue' /\ queue'[i] = queue[i]
      /\ IsFiniteSet(drafts') /\ Len(queue') + Cardinality(drafts') =< MaxQueue
  <2>1. CASE CreateTask(t)
    <3>0. drafts' = drafts \cup { t }
      BY <2>1 DEF CreateTask
    <3>1. IsFiniteSet(drafts') /\ Cardinality(drafts') =< Cardinality(drafts) + 1
      <4>1. IsFiniteSet(drafts \cup { t })
            /\ Cardinality(drafts \cup { t }) \in { Cardinality(drafts), Cardinality(drafts) + 1 }
        BY <1>1, FS_AddElement, Zenon
      <4> QED
        BY <1>1, <3>0, <4>1
    <3>2. Cardinality(drafts') \in Nat
      BY <3>1, FS_CardinalityType
    <3> QED
      BY <1>1, <2>1, <3>1, <3>2 DEF CreateTask
  <2>2. CASE AppendItem(t)
    <3>1. IsFiniteSet(drafts') /\ Cardinality(drafts') = Cardinality(drafts) - 1
      BY <1>1, <2>2, FS_RemoveElement DEF AppendItem
    <3>2. [ task |-> t, status |-> "pending" ] \in Item
      BY DEF Item, Status
    <3>3. queue' = Append(queue, [ task |-> t, status |-> "pending" ]) /\ drafts' \subseteq Task
      BY <1>1, <2>2 DEF AppendItem
    <3>4. queue' \in Seq(Item) /\ Len(queue') = Len(queue) + 1
          /\ \A i \in DOMAIN queue : i \in DOMAIN queue' /\ queue'[i] = queue[i]
      BY <1>1, <3>2, <3>3
    <3> QED
      BY <1>1, <3>1, <3>3, <3>4
  <2>3. CASE LoseDraft(t)
    <3>1. IsFiniteSet(drafts') /\ Cardinality(drafts') = Cardinality(drafts) - 1
      BY <1>1, <2>3, FS_RemoveElement DEF LoseDraft
    <3> QED
      BY <1>1, <2>3, <3>1 DEF LoseDraft
  <2> QED
    BY <2>1, <2>2, <2>3
<1>4. QueueTyped'
  BY <1>2, <1>3 DEF QueueInv, QueueTyped
<1>5. \A i \in Place : orphans'[i] =< orphans[i]
  BY <1>2 DEF QueueInv, QueueTyped
<1> QED
  BY <1>2, <1>3, <1>4, <1>5, Untouched

-----------------------------------------------------------------------------
(* A step of worker w.                                                      *)
OthersRest(w) ==
  \A v \in Worker : v # w =>
    pc'[v] = pc[v] /\ work'[v] = work[v] /\ child'[v] = child[v] /\ result'[v] = result[v]

(* The queue changes at most at the item of a worker that has it.           *)
WritesOwn(w) ==
  \/ queue' = queue
  \/ /\ pc[w] \in Busy \cup { "claim" } /\ DOMAIN queue' = DOMAIN queue
     /\ \A i \in DOMAIN queue : i # ItemOf(w) => queue'[i] = queue[i]

LEMMA WorkerMoves ==
  ASSUME QueueInv, QueueTyped', NEW w \in Worker,
         OthersRest(w), WritesOwn(w),
         \A v \in Worker : v # w => (holder' = v <=> holder = v),
         pc'[w] \in Busy => work'[w] = work[w] /\ pc[w] \in Busy \cup { "claim" },
         Held(w)',
         \A i \in Place : OrphanIsLast(i)'
  PROVE  QueueInv'
<1>1. ASSUME NEW v \in Worker, v # w, pc[v] \in Busy \cup { "claim" }
      PROVE  ItemOf(v) \in DOMAIN queue /\ queue'[ItemOf(v)] = queue[ItemOf(v)]
  <2>1. Held(v) /\ Held(w)
    BY DEF QueueInv
  <2>2. ItemOf(v) \in DOMAIN queue
    BY <1>1, <2>1 DEF Held, Busy
  <2>3. CASE queue' = queue
    BY <2>2, <2>3
  <2>4. CASE queue' # queue
    <3>1. pc[w] \in Busy \cup { "claim" }
      BY <2>4 DEF WritesOwn
    <3>2. ItemOf(v) # ItemOf(w)
      BY <1>1, <2>1, <3>1 DEF Held, QueueInv, Exclusive
    <3> QED
      BY <2>2, <2>4, <3>2 DEF WritesOwn
  <2> QED
    BY <2>3, <2>4
<1>2. ASSUME NEW v \in Worker
      PROVE  Held(v)'
  <2>1. CASE v = w
    BY <2>1
  <2>2. CASE v # w
    <3>1. Held(v) /\ pc'[v] = pc[v] /\ child'[v] = child[v] /\ ItemOf(v)' = ItemOf(v)
      BY <2>2 DEF QueueInv, OthersRest, ItemOf
    <3>2. DOMAIN queue' = DOMAIN queue
      BY DEF WritesOwn
    <3>3. holder' = v <=> holder = v
      BY <2>2
    <3> QED
      BY <1>1, <2>2, <3>1, <3>2, <3>3 DEF Held
  <2> QED
    BY <2>1, <2>2
<1>3. ASSUME NEW v \in Worker, v # w, pc'[v] \in Busy, pc'[w] \in Busy
      PROVE  ItemOf(v)' # ItemOf(w)'
  <2>1. /\ pc[v] \in Busy /\ ItemOf(v)' = ItemOf(v) /\ ItemOf(w)' = ItemOf(w)
        /\ pc[w] \in Busy \cup { "claim" }
    BY <1>3 DEF OthersRest, ItemOf
  <2>2. CASE pc[w] \in Busy
    BY <1>3, <2>1, <2>2 DEF QueueInv, Exclusive
  <2>3. CASE pc[w] = "claim"
    BY <2>1, <2>3 DEF QueueInv, Held
  <2> QED
    BY <2>1, <2>2, <2>3
<1>4. Exclusive'
  <2> SUFFICES ASSUME NEW u \in Worker, NEW v \in Worker, u # v,
                      pc'[u] \in Busy, pc'[v] \in Busy
               PROVE  ItemOf(u)' # ItemOf(v)'
    BY DEF Exclusive, ItemOf
  <2>1. CASE u = w \/ v = w
    BY <1>3, <2>1
  <2>2. CASE u # w /\ v # w
    BY <2>2 DEF OthersRest, QueueInv, Exclusive, ItemOf
  <2> QED
    BY <2>1, <2>2
<1> QED
  BY <1>2, <1>4 DEF QueueInv

(* Where no command loses its worker, orphans stay what they were.          *)
LEMMA OrphansRest ==
  ASSUME QueueInv, NEW w \in Worker, OthersRest(w), queue' = queue, orphans' = orphans,
         pc'[w] \in Busy =>
           /\ work'[w] = work[w]
           /\ pc[w] \in { "claim", "begin", "launch", "watch" }
  PROVE  \A i \in Place : OrphanIsLast(i)'
<1> SUFFICES ASSUME NEW i \in Place, orphans[i] > 0
             PROVE  /\ orphans[i] = 1 /\ i \in DOMAIN queue /\ queue[i].status # "pending"
                    /\ \A v \in Worker : pc'[v] \in Busy /\ ItemOf(v)' = i =>
                          pc'[v] = "record" /\ result'[v] = "failed"
  BY DEF OrphanIsLast
<1>1. OrphanIsLast(i)
  BY DEF QueueInv
<1>2. ASSUME NEW v \in Worker, pc'[v] \in Busy, ItemOf(v)' = i
      PROVE  pc'[v] = "record" /\ result'[v] = "failed"
  <2>1. CASE v = w
    <3>1. ItemOf(w) = i /\ pc[w] \in { "claim", "begin", "launch", "watch" }
      BY <1>2, <2>1 DEF ItemOf
    <3>2. Held(w)
      BY DEF QueueInv
    <3> QED
      BY <1>1, <3>1, <3>2 DEF OrphanIsLast, Held, Busy
  <2>2. CASE v # w
    BY <1>1, <1>2, <2>2 DEF OrphanIsLast, OthersRest, ItemOf
  <2> QED
    BY <2>1, <2>2
<1> QED
  BY <1>1, <1>2 DEF OrphanIsLast

(* The steps that write neither the queue nor the orphans.                  *)
LEMMA QuietSteps ==
  ASSUME QueueInv, NEW w \in Worker,
         Claim(w) \/ Begin(w) \/ Launch(w) \/ LaunchFails(w) \/ ChildEnds(w) \/ Reap(w)
           \/ Stop(w) \/ TimesOut(w) \/ Settle(w)
  PROVE  QueueInv'
<1> USE DEF Goto, TaskOf, Returns
<1>0. QueueTyped /\ Held(w)
  BY DEF QueueInv
<1>1. queue' = queue /\ orphans' = orphans /\ drafts' = drafts
  BY DEF Claim, Begin, Launch, LaunchFails, ChildEnds, Reap, Stop, TimesOut, Settle
<1>2. OthersRest(w)
  BY <1>0 DEF OthersRest, QueueTyped, Claim, Begin, Launch, LaunchFails, ChildEnds, Reap, Stop,
              TimesOut, Settle
<1>3. CASE Claim(w)
  <2>1. PICK i \in DOMAIN queue, t \in Task :
          /\ Claimable(i) /\ work' = [ work EXCEPT ![w] = [ item |-> i, task |-> t ] ]
    BY <1>3 DEF Claim
  <2>2. /\ holder = Nobody /\ holder' = w /\ pc' = [ pc EXCEPT ![w] = "claim" ]
        /\ child' = child /\ result' = result
    BY <1>3 DEF Claim
  <2>3. work'[w] = [ item |-> i, task |-> t ] /\ i \in Nat
    BY <1>0, <2>1 DEF QueueTyped
  <2>4. QueueTyped'
    <3>1. work' \in [ Worker -> [ item : Nat, task : Task \cup { NoTask } ] ]
      BY <1>0, <2>1, <2>3 DEF QueueTyped
    <3>2. pc' \in [ Worker -> Pc ]
      BY <1>0, <2>2 DEF QueueTyped, Pc
    <3> QED
      BY <1>0, <1>1, <2>2, <3>1, <3>2 DEF QueueTyped
  <2>5. pc[w] = "idle" /\ pc'[w] = "claim" /\ child[w] = "none"
    BY <1>0, <1>3, <2>2 DEF Claim, QueueTyped, Held
  <2>6. Held(w)'
    BY <1>1, <2>1, <2>2, <2>3, <2>5 DEF Held, ItemOf, Claimable, Busy
  <2>7. \A v \in Worker : v # w => (holder' = v <=> holder = v)
    BY <2>2, QueueAssumption
  <2>8. pc'[w] \notin Busy
    BY <2>5 DEF Busy
  <2>9. \A i_1 \in Place : OrphanIsLast(i_1)'
    BY <1>1, <1>2, <2>8, OrphansRest
  <2> QED
    BY <1>1, <1>2, <2>4, <2>6, <2>7, <2>8, <2>9, WorkerMoves DEF WritesOwn
<1>4. CASE Settle(w)
  <2>1. /\ pc[w] = "settle" /\ pc' = [ pc EXCEPT ![w] = "idle" ] /\ child' = child
        /\ work' = [ work EXCEPT ![w] = NoWork ] /\ result' = [ result EXCEPT ![w] = "ok" ]
        /\ holder' = holder
    BY <1>4 DEF Settle
  <2>2. QueueTyped'
    <3>1. work' \in [ Worker -> [ item : Nat, task : Task \cup { NoTask } ] ]
      BY <1>0, <2>1 DEF QueueTyped, NoWork
    <3> QED
      BY <1>0, <1>1, <2>1, <3>1 DEF QueueTyped, Pc, Result
  <2>3. pc'[w] = "idle"
    BY <1>0, <2>1 DEF QueueTyped
  <2>4. Held(w)'
    BY <1>0, <2>1, <2>3 DEF Held, Busy
  <2>5. pc'[w] \notin Busy
    BY <2>3 DEF Busy
  <2>6. \A i \in Place : OrphanIsLast(i)'
    BY <1>1, <1>2, <2>5, OrphansRest
  <2> QED
    BY <1>1, <1>2, <2>1, <2>2, <2>4, <2>5, <2>6, WorkerMoves DEF WritesOwn
<1>5. CASE Begin(w) \/ Launch(w) \/ LaunchFails(w) \/ ChildEnds(w) \/ Reap(w) \/ Stop(w)
             \/ TimesOut(w)
  <2>1. /\ work' = work /\ holder' = holder
        /\ pc[w] \in { "begin", "launch", "watch" }
        /\ \E to \in { "launch", "watch", "record" } : pc' = [ pc EXCEPT ![w] = to ]
             \/ (ChildEnds(w) /\ pc' = pc)
    BY <1>0, <1>5 DEF Begin, Launch, LaunchFails, ChildEnds, Reap, Stop, TimesOut, Held
  <2>2. pc'[w] \in { "launch", "watch", "record" }
    BY <1>0, <2>1 DEF QueueTyped, Held, ChildEnds
  <2>3. child'[w] # "none" <=> pc'[w] = "watch"
    BY <1>0, <1>5 DEF QueueTyped, Held, Begin, Launch, LaunchFails, ChildEnds, Reap, Stop, TimesOut
  <2>4. QueueTyped'
    <3>1. pc' \in [ Worker -> Pc ]
      BY <1>0, <2>1 DEF QueueTyped, Pc
    <3>2. child' \in [ Worker -> { "none", "alive", "ok", "failed" } ]
      BY <1>0, <1>5 DEF QueueTyped, Begin, Launch, LaunchFails, ChildEnds, Reap, Stop, TimesOut
    <3>3. result' \in [ Worker -> Result ]
      <4>1. CASE Reap(w)
        <5>1. child[w] \in { "ok", "failed" } /\ result' = [ result EXCEPT ![w] = child[w] ]
          BY <1>0, <4>1 DEF Reap, QueueTyped, Held
        <5> QED
          BY <1>0, <5>1 DEF QueueTyped, Result
      <4>2. CASE ~ Reap(w)
        BY <1>0, <1>5, <4>2
           DEF QueueTyped, Result, Begin, Launch, LaunchFails, ChildEnds, Stop, TimesOut
      <4> QED
        BY <4>1, <4>2
    <3> QED
      BY <1>0, <1>1, <2>1, <3>1, <3>2, <3>3 DEF QueueTyped
  <2>5. Held(w)'
    BY <1>0, <1>1, <2>1, <2>2, <2>3 DEF Held, Busy, ItemOf
  <2>6. \A i \in Place : OrphanIsLast(i)'
    BY <1>1, <1>2, <2>1, OrphansRest
  <2> QED
    BY <1>1, <1>2, <2>1, <2>4, <2>5, <2>6, WorkerMoves DEF WritesOwn, Busy
<1> QED
  BY <1>3, <1>4, <1>5

LEMMA ClaimIsWritten ==
  ASSUME QueueInv, NEW w \in Worker, WriteClaim(w)
  PROVE  QueueInv'
<1>0. QueueTyped /\ Held(w)
  BY DEF QueueInv
<1> DEFINE i == ItemOf(w)
<1>1. /\ pc[w] = "claim" /\ holder = w /\ i \in DOMAIN queue /\ queue[i].status = "pending"
      /\ child[w] = "none"
  BY <1>0 DEF WriteClaim, Held
<1>2. /\ queue' = [ queue EXCEPT ![i] = [ task |-> TaskOf(w), status |-> "running" ] ]
      /\ holder' = Nobody /\ pc' = [ pc EXCEPT ![w] = "begin" ]
      /\ UNCHANGED <<drafts, work, child, result, orphans>>
  BY DEF WriteClaim, Goto
<1>3. QueueTyped'
  <2>1. [ task |-> TaskOf(w), status |-> "running" ] \in Item
    BY <1>0 DEF QueueTyped, Item, Status, TaskOf
  <2>2. queue' \in Seq(Item) /\ Len(queue') = Len(queue) /\ DOMAIN queue' = DOMAIN queue
    BY <1>0, <1>1, <1>2, <2>1 DEF QueueTyped
  <2>3. pc' \in [ Worker -> Pc ]
    BY <1>0, <1>2 DEF QueueTyped, Pc
  <2> QED
    BY <1>0, <1>2, <2>2, <2>3 DEF QueueTyped
<1>4. DOMAIN queue' = DOMAIN queue /\ \A k \in DOMAIN queue : k # i => queue'[k] = queue[k]
  BY <1>0, <1>2 DEF QueueTyped
<1>5. queue'[i].status = "running" /\ i \in DOMAIN queue' /\ ItemOf(w)' = i
  BY <1>0, <1>1, <1>2 DEF QueueTyped, ItemOf
<1>6. pc'[w] = "begin"
  BY <1>0, <1>2 DEF QueueTyped
<1>7. Held(w)'
  BY <1>1, <1>2, <1>5, <1>6, QueueAssumption DEF Held, Busy
<1>8. OthersRest(w)
  BY <1>0, <1>2 DEF OthersRest, QueueTyped
<1>9. ASSUME NEW k \in Place
      PROVE  OrphanIsLast(k)'
  <2>1. OrphanIsLast(k)
    BY DEF QueueInv
  <2>2. k = i => orphans[k] \in Nat /\ ~(orphans[k] > 0)
    BY <1>0, <1>1, <2>1 DEF OrphanIsLast, QueueTyped
  <2>3. ASSUME k # i, orphans[k] > 0, NEW v \in Worker, pc'[v] \in Busy, ItemOf(v)' = k
        PROVE  pc'[v] = "record" /\ result'[v] = "failed"
    <3>1. v # w
      BY <1>5, <2>3
    <3> QED
      BY <1>8, <2>1, <2>3, <3>1 DEF OthersRest, OrphanIsLast, ItemOf
  <2> QED
    BY <1>2, <1>4, <2>1, <2>2, <2>3 DEF OrphanIsLast
<1>10. \A v \in Worker : v # w => (holder' = v <=> holder = v)
  BY <1>1, <1>2, QueueAssumption
<1>11. WritesOwn(w)
  BY <1>1, <1>4 DEF WritesOwn
<1> QED
  BY <1>1, <1>2, <1>3, <1>7, <1>8, <1>9, <1>10, <1>11, WorkerMoves

LEMMA OutcomeIsRecorded ==
  ASSUME QueueInv, NEW w \in Worker, Record(w)
  PROVE  QueueInv'
<1>0. QueueTyped /\ Held(w)
  BY DEF QueueInv
<1> DEFINE i == ItemOf(w)
<1>1. /\ pc[w] = "record" /\ i \in DOMAIN queue /\ queue[i].status = "running"
      /\ child[w] = "none" /\ holder # w
  BY <1>0 DEF Record, Held, Busy
<1>2. /\ queue' = [ queue EXCEPT ![i].status = StatusAfter(result[w]) ]
      /\ pc' = [ pc EXCEPT ![w] = "settle" ]
      /\ UNCHANGED <<holder, drafts, work, child, result, orphans>>
  BY DEF Record, Goto
<1>3. QueueTyped'
  <2>1. StatusAfter(result[w]) \in Status
    BY <1>0 DEF QueueTyped, Result, StatusAfter, Status
  <2>2. queue[i] \in Item
    BY <1>0, <1>1 DEF QueueTyped
  <2>3. [ queue[i] EXCEPT !.status = StatusAfter(result[w]) ] \in Item
    BY <2>1, <2>2 DEF Item
  <2>4. queue' \in Seq(Item) /\ Len(queue') = Len(queue)
    BY <1>0, <1>1, <1>2, <2>3 DEF QueueTyped
  <2>5. pc' \in [ Worker -> Pc ]
    BY <1>0, <1>2 DEF QueueTyped, Pc
  <2> QED
    BY <1>0, <1>2, <2>4, <2>5 DEF QueueTyped
<1>4. DOMAIN queue' = DOMAIN queue /\ \A k \in DOMAIN queue : k # i => queue'[k] = queue[k]
  BY <1>0, <1>2 DEF QueueTyped
<1>5. queue'[i].status = StatusAfter(result[w]) /\ ItemOf(w)' = i
  <2>1. queue[i] \in Item
    BY <1>0, <1>1 DEF QueueTyped
  <2> QED
    BY <1>0, <1>1, <1>2, <2>1 DEF QueueTyped, ItemOf, Item
<1>6. pc'[w] = "settle"
  BY <1>0, <1>2 DEF QueueTyped
<1>7. Held(w)'
  BY <1>1, <1>2, <1>4, <1>5, <1>6 DEF Held, Busy
<1>8. OthersRest(w)
  BY <1>0, <1>2 DEF OthersRest, QueueTyped
<1>9. ASSUME NEW k \in Place
      PROVE  OrphanIsLast(k)'
  <2>1. OrphanIsLast(k)
    BY DEF QueueInv
  <2>2. k = i /\ orphans[k] > 0 => queue'[k].status # "pending"
    BY <1>1, <1>5, <2>1 DEF OrphanIsLast, Busy, StatusAfter
  <2>3. ASSUME orphans[k] > 0, NEW v \in Worker, pc'[v] \in Busy, ItemOf(v)' = k
        PROVE  pc'[v] = "record" /\ result'[v] = "failed"
    <3>1. v # w
      BY <1>6, <2>3 DEF Busy
    <3> QED
      BY <1>8, <2>1, <2>3, <3>1 DEF OthersRest, OrphanIsLast, ItemOf
  <2> QED
    BY <1>2, <1>4, <2>1, <2>2, <2>3 DEF OrphanIsLast
<1>10. WritesOwn(w) /\ pc'[w] \notin Busy
  BY <1>1, <1>4, <1>6 DEF WritesOwn, Busy
<1> QED
  BY <1>2, <1>3, <1>7, <1>8, <1>9, <1>10, WorkerMoves

(* A worker that dies, or whose poll fails, leaves its command running.     *)
LEMMA CommandIsOrphaned ==
  ASSUME QueueInv, NEW w \in Worker, PollRaises(w) \/ Crash(w)
  PROVE  QueueInv'
<1>0. QueueTyped /\ Held(w)
  BY DEF QueueInv
<1> DEFINE i == ItemOf(w)
<1>1. /\ queue' = queue /\ drafts' = drafts /\ OthersRest(w) /\ child'[w] = "none"
      /\ pc[w] # "idle" /\ i \in DOMAIN queue /\ i \in Place
  <2>1. pc[w] # "idle"
    BY DEF PollRaises, Crash
  <2>2. i \in DOMAIN queue
    BY <1>0, <2>1 DEF Held
  <2>3. i \in Place
    <3>1. queue \in Seq(Item) /\ Len(queue) \in Nat /\ MaxQueue \in Nat /\ Cardinality(drafts) \in Nat
          /\ Len(queue) + Cardinality(drafts) =< MaxQueue
      BY <1>0, FS_CardinalityType, QueueAssumption DEF QueueTyped
    <3> QED
      BY <2>2, <3>1 DEF Place
  <2> QED
    BY <1>0, <2>1, <2>2, <2>3 DEF PollRaises, Crash, Returns, Goto, OthersRest, QueueTyped
<1>2. \/ orphans' = orphans /\ pc'[w] = "idle"
      \/ /\ child[w] = "alive" /\ orphans' = [ orphans EXCEPT ![i] = @ + 1 ]
         /\ \/ pc'[w] = "idle"
            \/ pc'[w] = "record" /\ result'[w] = "failed" /\ work'[w] = work[w]
  BY <1>0 DEF PollRaises, Crash, Returns, Goto, QueueTyped
<1>3. \/ holder' = holder /\ holder # w
      \/ holder = w /\ holder' = Nobody
  BY <1>0 DEF PollRaises, Crash, Returns, Held
<1>4. QueueTyped'
  <2>1. holder' \in Worker \cup { Nobody }
    BY <1>0, <1>3 DEF QueueTyped
  <2>2. work' \in [ Worker -> [ item : Nat, task : Task \cup { NoTask } ] ]
    <3>1. work' = work \/ work' = [ work EXCEPT ![w] = NoWork ]
      BY DEF PollRaises, Crash, Returns
    <3>2. NoWork \in [ item : Nat, task : Task \cup { NoTask } ]
      BY DEF NoWork
    <3> QED
      BY <1>0, <3>1, <3>2 DEF QueueTyped
  <2>3. pc' \in [ Worker -> Pc ] /\ result' \in [ Worker -> Result ]
        /\ child' \in [ Worker -> { "none", "alive", "ok", "failed" } ]
    BY <1>0 DEF PollRaises, Crash, Returns, Goto, QueueTyped, Pc, Result
  <2>4. orphans' \in [ Place -> Nat ]
    <3>1. orphans \in [ Place -> Nat ] /\ orphans[i] + 1 \in Nat
      BY <1>0, <1>1 DEF QueueTyped
    <3> QED
      BY <1>2, <3>1
  <2> QED
    BY <1>0, <1>1, <2>1, <2>2, <2>3, <2>4 DEF QueueTyped
<1>5. pc'[w] \in { "idle", "record" } /\ (pc'[w] = "record" => work'[w] = work[w] /\ child[w] = "alive")
  BY <1>2
<1>6. child[w] = "alive" => pc[w] = "watch" /\ queue[i].status = "running"
  BY <1>0 DEF Held, Busy
<1>7. Held(w)'
  BY <1>1, <1>3, <1>5, <1>6, QueueAssumption DEF Held, Busy, ItemOf
<1>8. ASSUME NEW k \in Place
      PROVE  OrphanIsLast(k)'
  <2>1. OrphanIsLast(k) /\ orphans[k] \in Nat
    BY <1>0 DEF QueueInv, QueueTyped
  <2>2. CASE k = i /\ child[w] = "alive"
    <3>1. orphans[k] = 0
      BY <1>6, <2>1, <2>2 DEF OrphanIsLast, Busy
    <3>2. orphans'[k] \in { 0, 1 }
      BY <1>0, <1>1, <1>2, <2>2, <3>1 DEF QueueTyped
    <3>3. ASSUME NEW v \in Worker, pc'[v] \in Busy, ItemOf(v)' = k
          PROVE  pc'[v] = "record" /\ result'[v] = "failed"
      <4>1. CASE v = w
        BY <1>2, <3>3, <4>1 DEF Busy
      <4>2. CASE v # w
        BY <1>1, <1>6, <2>2, <3>3, <4>2 DEF QueueInv, Exclusive, OthersRest, ItemOf, Busy
      <4> QED
        BY <4>1, <4>2
    <3> QED
      BY <1>1, <1>6, <2>2, <3>2, <3>3 DEF OrphanIsLast
  <2>3. CASE ~ (k = i /\ child[w] = "alive")
    <3>1. orphans'[k] = orphans[k]
      BY <1>0, <1>2, <2>3 DEF QueueTyped
    <3>2. ASSUME orphans[k] > 0, NEW v \in Worker, pc'[v] \in Busy, ItemOf(v)' = k
          PROVE  pc'[v] = "record" /\ result'[v] = "failed"
      <4>1. CASE v = w
        BY <1>2, <2>3, <3>2, <4>1 DEF Busy, ItemOf
      <4>2. CASE v # w
        BY <1>1, <2>1, <3>2, <4>2 DEF OrphanIsLast, OthersRest, ItemOf
      <4> QED
        BY <4>1, <4>2
    <3> QED
      BY <1>1, <2>1, <3>1, <3>2 DEF OrphanIsLast
  <2> QED
    BY <2>2, <2>3
<1>9. \A v \in Worker : v # w => (holder' = v <=> holder = v)
  BY <1>3, QueueAssumption
<1>10. pc'[w] \in Busy => work'[w] = work[w] /\ pc[w] \in Busy \cup { "claim" }
  BY <1>5, <1>6 DEF Busy
<1> QED
  BY <1>1, <1>4, <1>7, <1>8, <1>9, <1>10, WorkerMoves DEF WritesOwn

-----------------------------------------------------------------------------
LEMMA QueueStep ==
  ASSUME QueueInv, [Next]_queueVars
  PROVE  QueueInv'
<1>0. QueueTyped
  BY DEF QueueInv
<1>1. CASE UNCHANGED queueVars
  BY <1>1 DEF queueVars, QueueInv, QueueTyped, Held, Exclusive, OrphanIsLast, ItemOf
<1>2. ASSUME NEW t \in Task, NEW s \in { "waiting", "running", "cancelled", "queued" },
             UserMoves(t, s)
      PROVE  QueueInv'
  BY <1>2 DEF UserMoves, QueueInv, QueueTyped, Held, Exclusive, OrphanIsLast, ItemOf
<1>3. ASSUME NEW i \in Place, OrphanEnds(i)
      PROVE  QueueInv'
  <2>1. QueueTyped'
    BY <1>0, <1>3 DEF OrphanEnds, QueueTyped
  <2>2. \A k \in Place : orphans'[k] =< orphans[k]
    BY <1>0, <1>3 DEF OrphanEnds, QueueTyped
  <2> QED
    BY <1>3, <2>1, <2>2, Untouched DEF OrphanEnds
<1> QED
  BY <1>1, <1>2, <1>3, Enqueues, QuietSteps, ClaimIsWritten, OutcomeIsRecorded, CommandIsOrphaned
     DEF Next, WorkerStep

(* Who holds an item, what a worker read of it and what the list says of it *)
(* fit together after every step of every worker.                           *)
THEOREM QueueInvHolds == Spec => []QueueInv
<1>1. QueueInv /\ [Next]_queueVars => QueueInv'
  BY QueueStep
<1> QED
  BY <1>1, QueueInvInitially, PTL DEF Spec

(* However many workers there are, and whoever dies, at most one command of *)
(* an item runs at any time.                                                *)
THEOREM OneCommandPerItem == Spec => []OneChildPerItem
<1>1. QueueInv => OneChildPerItem
  <2> SUFFICES ASSUME QueueInv, NEW i \in Place PROVE ChildrenOf(i) =< 1
    BY DEF OneChildPerItem
  <2> DEFINE Alive == { w \in Worker : child[w] = "alive" /\ ItemOf(w) = i }
  <2>1. orphans[i] \in Nat /\ OrphanIsLast(i)
    BY DEF QueueInv, QueueTyped
  <2>2. \A w \in Alive : pc[w] = "watch"
    BY DEF QueueInv, Held
  <2>3. CASE Alive = {}
    BY <2>1, <2>3, FS_EmptySet DEF ChildrenOf, OrphanIsLast
  <2>4. CASE Alive # {}
    <3>1. PICK w \in Alive : TRUE
      BY <2>4
    <3>2. Alive = { w }
      BY <2>2, <3>1 DEF QueueInv, Exclusive, Busy
    <3>3. Cardinality(Alive) = 1
      BY <3>2, FS_Singleton
    <3>4. orphans[i] = 0
      BY <2>1, <2>2, <3>1 DEF OrphanIsLast, Busy
    <3> QED
      BY <3>3, <3>4 DEF ChildrenOf
  <2> QED
    BY <2>3, <2>4
<1> QED
  BY <1>1, QueueInvHolds, PTL

-----------------------------------------------------------------------------
(* Every start of a command but the first is paid for by a pause.  A pause  *)
(* is spent when the command it stopped goes back to pending; while its     *)
(* task still waits it is not, so it can be spent once only.                *)

Unspent(t) == IF task[t] = "waiting" THEN 1 ELSE 0

PayTyped ==
  /\ launches \in [ Place -> Nat ] /\ pauses \in [ Task -> Nat ]
  /\ task \in [ Task -> TaskState \cup { Absent } ]
  /\ \A i \in Place : i \notin DOMAIN queue => launches[i] = 0

ItemPaid(i) ==
  IF queue[i].task = NoTask THEN launches[i] = 0
  ELSE /\ launches[i] =< 1 + pauses[queue[i].task]
       /\ queue[i].status = "pending" => launches[i] =< pauses[queue[i].task]

WorkerPaid(w) ==
  /\ pc[w] \in Busy \cup { "claim" } => TaskOf(w) \in Task
  /\ pc[w] \in Busy => queue[ItemOf(w)].task = TaskOf(w)
  /\ pc[w] = "claim" => queue[ItemOf(w)].task \in { TaskOf(w), NoTask }
  /\ pc[w] \in { "claim", "begin", "launch" } =>
       launches[ItemOf(w)] + Unspent(TaskOf(w)) =< pauses[TaskOf(w)]
  /\ pc[w] = "watch" => launches[ItemOf(w)] + Unspent(TaskOf(w)) =< 1 + pauses[TaskOf(w)]
  /\ pc[w] = "record" /\ result[w] = "paused" => launches[ItemOf(w)] =< pauses[TaskOf(w)]

PayInv ==
  /\ PayTyped
  /\ \A i \in DOMAIN queue : ItemPaid(i)
  /\ \A w \in Worker : WorkerPaid(w)

LEMMA PayInvInitially == Init => PayInv
<1> SUFFICES ASSUME Init PROVE PayInv
  OBVIOUS
<1>1. PayTyped
  BY QueueAssumption DEF Init, PayTyped, Place
<1>2. \A i \in DOMAIN queue : i \in Place /\ ItemPaid(i)
  BY QueueAssumption DEF Init, ItemPaid, Place
<1>3. \A w \in Worker : WorkerPaid(w)
  BY DEF Init, WorkerPaid, Busy
<1> QED
  BY <1>1, <1>2, <1>3 DEF PayInv

LEMMA Places ==
  ASSUME QueueTyped
  PROVE  DOMAIN queue \subseteq Place
  BY FS_CardinalityType, QueueAssumption DEF QueueTyped, Place

(* What the pauses of the tasks may do in a step.                           *)
PausesGrow ==
  \A t \in Task : \/ pauses'[t] = pauses[t] /\ (task'[t] = "waiting" => task[t] = "waiting")
                  \/ pauses'[t] = pauses[t] + 1

(* A worker that keeps what it has.                                         *)
LEMMA PaidStays ==
  ASSUME QueueInv, PayInv, PausesGrow, NEW v \in Worker,
         pc'[v] \in Busy \cup { "claim" } =>
           /\ pc'[v] = pc[v] /\ work'[v] = work[v]
           /\ queue'[ItemOf(v)].task = queue[ItemOf(v)].task
           /\ launches'[ItemOf(v)] = launches[ItemOf(v)],
         result'[v] = result[v]
  PROVE  WorkerPaid(v)'
<1>1. WorkerPaid(v) /\ Held(v) /\ PayTyped
  BY DEF PayInv, QueueInv
<1>2. CASE pc'[v] \notin Busy \cup { "claim" }
  BY <1>2 DEF WorkerPaid, Busy
<1>3. CASE pc'[v] \in Busy \cup { "claim" }
  <2>1. pc'[v] = pc[v] /\ TaskOf(v)' = TaskOf(v) /\ ItemOf(v)' = ItemOf(v) /\ TaskOf(v) \in Task
    BY <1>1, <1>3 DEF TaskOf, ItemOf, WorkerPaid
  <2>2. ItemOf(v) \in Place
    BY <1>1, <1>3, <2>1, Places DEF Held, Busy, QueueInv
  <2>3. launches[ItemOf(v)] \in Nat /\ pauses[TaskOf(v)] \in Nat
    BY <1>1, <2>1, <2>2 DEF PayTyped
  <2>4. \/ pauses'[TaskOf(v)] = pauses[TaskOf(v)] /\ Unspent(TaskOf(v))' =< Unspent(TaskOf(v))
        \/ pauses'[TaskOf(v)] = pauses[TaskOf(v)] + 1 /\ Unspent(TaskOf(v))' =< 1
    BY <2>1 DEF Unspent, PausesGrow
  <2>5. Unspent(TaskOf(v)) \in {0, 1} /\ Unspent(TaskOf(v))' \in {0, 1}
    BY DEF Unspent
  <2>6. /\ queue'[ItemOf(v)].task = queue[ItemOf(v)].task
        /\ launches'[ItemOf(v)] = launches[ItemOf(v)]
    BY <1>3
  <2> QED
    BY <1>1, <2>1, <2>3, <2>4, <2>5, <2>6 DEF WorkerPaid
<1> QED
  BY <1>2, <1>3

(* Items that are not written stay paid.                                    *)
LEMMA ItemStays ==
  ASSUME PayInv, PausesGrow, NEW i \in DOMAIN queue, queue[i] \in Item, i \in Place,
         queue'[i] = queue[i], launches'[i] = launches[i]
  PROVE  ItemPaid(i)'
<1>1. ItemPaid(i) /\ launches[i] \in Nat
  BY DEF PayInv, PayTyped
<1>2. CASE queue[i].task = NoTask
  BY <1>1, <1>2 DEF ItemPaid
<1>3. CASE queue[i].task # NoTask
  <2>1. queue[i].task \in Task
    BY <1>3 DEF Item
  <2>2. pauses[queue[i].task] \in Nat
    BY <2>1 DEF PayInv, PayTyped
  <2>3. pauses'[queue[i].task] \in { pauses[queue[i].task], pauses[queue[i].task] + 1 }
    BY <2>1 DEF PausesGrow
  <2> QED
    BY <1>1, <1>3, <2>2, <2>3 DEF ItemPaid
<1> QED
  BY <1>2, <1>3

LEMMA ItemsTyped ==
  ASSUME QueueTyped, NEW i \in DOMAIN queue
  PROVE  queue[i] \in Item /\ i \in Place
  BY Places DEF QueueTyped

(* enqueue_task and the user.                                               *)
LEMMA OutsidePays ==
  ASSUME QueueInv, PayInv,
         \/ \E t \in Task : CreateTask(t) \/ AppendItem(t) \/ LoseDraft(t)
         \/ \E t \in Task, s \in { "waiting", "running", "cancelled", "queued" } : UserMoves(t, s)
         \/ \E i \in Place : OrphanEnds(i)
  PROVE  PayInv'
<1>1. QueueTyped /\ PayTyped
  BY DEF QueueInv, PayInv
<1>2. UNCHANGED <<pc, work, result, launches>>
  BY DEF CreateTask, AppendItem, LoseDraft, UserMoves, OrphanEnds
<1>3. PausesGrow /\ pauses' \in [ Task -> Nat ] /\ task' \in [ Task -> TaskState \cup { Absent } ]
  <2>1. { "waiting", "running", "cancelled", "queued" } \subseteq TaskState
    BY DEF TaskState
  <2>2. CASE \E t \in Task : CreateTask(t)
    BY <1>1, <2>1, <2>2 DEF CreateTask, PayTyped, PausesGrow
  <2>3. ASSUME NEW t \in Task, NEW s \in { "waiting", "running", "cancelled", "queued" },
               UserMoves(t, s)
        PROVE  PausesGrow /\ pauses' \in [ Task -> Nat ]
               /\ task' \in [ Task -> TaskState \cup { Absent } ]
    BY <1>1, <2>1, <2>3 DEF UserMoves, PayTyped, PausesGrow
  <2>4. CASE UNCHANGED <<task, pauses>>
    BY <1>1, <2>4 DEF PayTyped, PausesGrow
  <2> QED
    BY <2>2, <2>3, <2>4 DEF AppendItem, LoseDraft, OrphanEnds
<1>4. /\ \A i \in DOMAIN queue : i \in DOMAIN queue' /\ queue'[i] = queue[i]
      /\ \A i \in DOMAIN queue' : i \notin DOMAIN queue =>
            queue'[i].status = "pending" /\ queue'[i].task \in Task
  <2>1. ASSUME NEW t \in Task, AppendItem(t)
        PROVE  /\ \A i \in DOMAIN queue : i \in DOMAIN queue' /\ queue'[i] = queue[i]
               /\ \A i \in DOMAIN queue' : i \notin DOMAIN queue =>
                     queue'[i].status = "pending" /\ queue'[i].task \in Task
    BY <1>1, <2>1 DEF AppendItem, QueueTyped
  <2> QED
    BY <2>1 DEF CreateTask, LoseDraft, UserMoves, OrphanEnds
<1>5. PayTyped'
  BY <1>1, <1>2, <1>3, <1>4 DEF PayTyped
<1>6. QueueTyped'
  <2>1. Next
    BY DEF Next
  <2>2. QueueInv'
    BY <2>1, QueueStep
  <2> QED
    BY <2>2 DEF QueueInv
<1>7. ASSUME NEW i \in DOMAIN queue'
      PROVE  ItemPaid(i)'
  <2>1. CASE i \in DOMAIN queue
    BY <1>1, <1>2, <1>3, <1>4, <2>1, ItemStays, ItemsTyped
  <2>2. CASE i \notin DOMAIN queue
    <3>1. i \in Place
      BY <1>6, <1>7, FS_CardinalityType, QueueAssumption DEF QueueTyped, Place
    <3>2. launches'[i] = 0 /\ queue'[i].task \in Task /\ pauses'[queue'[i].task] \in Nat
      BY <1>1, <1>2, <1>3, <1>4, <2>2, <3>1 DEF PayTyped
    <3> QED
      BY <3>2, QueueAssumption DEF ItemPaid
  <2> QED
    BY <2>1, <2>2
<1>8. ASSUME NEW v \in Worker
      PROVE  WorkerPaid(v)'
  <2>1. pc[v] \in Busy \cup { "claim" } => ItemOf(v) \in DOMAIN queue
    BY DEF QueueInv, Held, Busy
  <2> QED
    BY <1>2, <1>3, <1>4, <2>1, PaidStays
<1> QED
  BY <1>5, <1>7, <1>8 DEF PayInv

(* A step of worker w leaves to the others what they have.                  *)
LEMMA OthersKeep ==
  ASSUME QueueInv, NEW w \in Worker, NEW v \in Worker, v # w,
         pc[v] \in Busy \cup { "claim" }, pc[w] \in Busy \cup { "claim" }
  PROVE  ItemOf(v) # ItemOf(w)
<1>1. Held(v) /\ Held(w) /\ Exclusive
  BY DEF QueueInv
<1> QED
  BY <1>1 DEF Held, Exclusive

(* What holds of every step of a worker.                                    *)
AnyStep(w) == WorkerStep(w) \/ ChildEnds(w) \/ Crash(w)

LEMMA WorkerFrame ==
  ASSUME QueueInv, PayInv, NEW w \in Worker, AnyStep(w)
  PROVE  /\ OthersRest(w) /\ DOMAIN queue' = DOMAIN queue
         /\ PausesGrow /\ pauses' = pauses
         /\ task' \in [ Task -> TaskState \cup { Absent } ]
         /\ \A i \in DOMAIN queue : queue'[i] = queue[i]
              \/ (i = ItemOf(w) /\ (WriteClaim(w) \/ Record(w)))
         /\ launches' = launches
              \/ (Launch(w) /\ launches' = [ launches EXCEPT ![ItemOf(w)] = @ + 1 ])
<1> USE DEF AnyStep, WorkerStep, Goto, Returns
<1>1. QueueTyped /\ PayTyped
  BY DEF QueueInv, PayInv
<1>2. OthersRest(w)
  BY <1>1 DEF OthersRest, QueueTyped, Claim, WriteClaim, Begin, Launch, LaunchFails, Reap, Stop,
              TimesOut, PollRaises, Record, Settle, ChildEnds, Crash
<1>3. pauses' = pauses
  BY DEF Claim, WriteClaim, Begin, Launch, LaunchFails, Reap, Stop,
         TimesOut, PollRaises, Record, Settle, ChildEnds, Crash
<1>4. \/ task' = task
      \/ \E t \in Task : task' = [ task EXCEPT ![t] = "queued" ]
      \/ \E s \in { "running", "completed", "failed" } : task' = [ task EXCEPT ![TaskOf(w)] = s ]
  BY DEF Claim, WriteClaim, Begin, Launch, LaunchFails, Reap, Stop,
         TimesOut, PollRaises, Record, Settle, ChildEnds, Crash, MovesTo
<1>5. { "queued", "running", "completed", "failed" } \subseteq TaskState
  BY DEF TaskState
<1>6. task' \in [ Task -> TaskState \cup { Absent } ]
      /\ \A t \in Task : task'[t] = "waiting" => task[t] = "waiting"
  BY <1>1, <1>4, <1>5 DEF PayTyped
<1>7. DOMAIN queue' = DOMAIN queue
      /\ \A i \in DOMAIN queue : queue'[i] = queue[i]
              \/ (i = ItemOf(w) /\ (WriteClaim(w) \/ Record(w)))
  BY <1>1 DEF QueueTyped, Claim, WriteClaim, Begin, Launch, LaunchFails, Reap, Stop,
         TimesOut, PollRaises, Record, Settle, ChildEnds, Crash
<1>8. launches' = launches
      \/ (Launch(w) /\ launches' = [ launches EXCEPT ![ItemOf(w)] = @ + 1 ])
  BY DEF Claim, WriteClaim, Begin, Launch, LaunchFails, Reap, Stop,
         TimesOut, PollRaises, Record, Settle, ChildEnds, Crash
<1> QED
  BY <1>2, <1>3, <1>6, <1>7, <1>8 DEF PausesGrow

(* The other workers, and the items that are not written.                   *)
LEMMA RestIsPaid ==
  ASSUME QueueInv, PayInv, NEW w \in Worker, AnyStep(w)
  PROVE  /\ \A v \in Worker : v # w => WorkerPaid(v)'
         /\ PayTyped'
         /\ \A i \in DOMAIN queue :
              ~ (i = ItemOf(w) /\ (WriteClaim(w) \/ Record(w) \/ Launch(w))) => ItemPaid(i)'
<1>1. QueueTyped /\ PayTyped /\ Held(w)
  BY DEF QueueInv, PayInv
<1>2. WriteClaim(w) \/ Record(w) \/ Launch(w) =>
        pc[w] \in Busy \cup { "claim" } /\ ItemOf(w) \in Place
  BY <1>1, Places DEF WriteClaim, Record, Launch, Busy, Held
<1>3. ASSUME NEW v \in Worker, v # w
      PROVE  WorkerPaid(v)'
  <2>1. ASSUME pc'[v] \in Busy \cup { "claim" }
        PROVE  /\ pc'[v] = pc[v] /\ work'[v] = work[v]
               /\ queue'[ItemOf(v)].task = queue[ItemOf(v)].task
               /\ launches'[ItemOf(v)] = launches[ItemOf(v)]
    <3>1. pc'[v] = pc[v] /\ work'[v] = work[v]
      BY <1>3, WorkerFrame DEF OthersRest
    <3>2. ItemOf(v) \in DOMAIN queue /\ ItemOf(v) \in Place
      BY <1>1, <2>1, <3>1, Places DEF QueueInv, Held, Busy
    <3>3. WriteClaim(w) \/ Record(w) \/ Launch(w) => ItemOf(v) # ItemOf(w)
      BY <1>2, <1>3, <2>1, <3>1, OthersKeep
    <3> QED
      BY <1>1, <3>1, <3>2, <3>3, WorkerFrame DEF PayTyped
  <2>2. result'[v] = result[v]
    BY <1>3, WorkerFrame DEF OthersRest
  <2> QED
    BY <2>1, <2>2, PaidStays, WorkerFrame
<1>4. ASSUME NEW i \in DOMAIN queue,
             ~ (i = ItemOf(w) /\ (WriteClaim(w) \/ Record(w) \/ Launch(w)))
      PROVE  ItemPaid(i)'
  <2>1. queue[i] \in Item /\ i \in Place
    BY <1>1, ItemsTyped
  <2>2. queue'[i] = queue[i] /\ launches'[i] = launches[i]
    BY <1>1, <1>2, <1>4, <2>1, WorkerFrame DEF PayTyped
  <2> QED
    BY <2>1, <2>2, ItemStays, WorkerFrame
<1>5. PayTyped'
  <2>1. launches' \in [ Place -> Nat ] /\ pauses' \in [ Task -> Nat ]
    BY <1>1, <1>2, WorkerFrame DEF PayTyped
  <2>2. \A i \in Place : i \notin DOMAIN queue' => launches'[i] = 0
    BY <1>1, <1>2, WorkerFrame DEF PayTyped, Launch, Held
  <2> QED
    BY <2>1, <2>2, WorkerFrame DEF PayTyped
<1> QED
  BY <1>3, <1>4, <1>5

(* Worker w itself, and the item it writes or starts.                       *)
LEMMA WorkerPays ==
  ASSUME QueueInv, PayInv, NEW w \in Worker, AnyStep(w)
  PROVE  PayInv'
<1> PICK i : i = ItemOf(w)
  OBVIOUS
<1> PICK t : t = TaskOf(w)
  OBVIOUS
<1>1. QueueTyped /\ PayTyped /\ Held(w) /\ WorkerPaid(w)
  BY DEF QueueInv, PayInv
<1>2. pc[w] \in Busy \cup { "claim" } =>
        /\ t \in Task /\ i \in DOMAIN queue /\ i \in Place /\ queue[i] \in Item
        /\ launches[i] \in Nat /\ pauses[t] \in Nat /\ Unspent(t) \in {0, 1}
  BY <1>1, ItemsTyped DEF WorkerPaid, PayTyped, Held, Busy, Unspent
<1>3. ASSUME t \in Task
      PROVE  Unspent(t)' \in {0, 1} /\ Unspent(t)' =< Unspent(t) /\ pauses' = pauses /\ t # NoTask
  <2>1. pauses[t] \in Nat /\ pauses' = pauses /\ PausesGrow
    BY <1>1, <1>3, WorkerFrame DEF PayTyped
  <2>2. task'[t] = "waiting" => task[t] = "waiting"
    BY <1>3, <2>1 DEF PausesGrow
  <2> QED
    BY <1>3, <2>1, <2>2, QueueAssumption DEF Unspent
<1>4. SUFFICES /\ WorkerPaid(w)'
               /\ i \in DOMAIN queue /\ (WriteClaim(w) \/ Record(w) \/ Launch(w)) => ItemPaid(i)'
  <2> SUFFICES ASSUME WorkerPaid(w)',
                      i \in DOMAIN queue /\ (WriteClaim(w) \/ Record(w) \/ Launch(w)) => ItemPaid(i)'
               PROVE  PayInv'
    OBVIOUS
  <2>1. \A v \in Worker : WorkerPaid(v)'
    BY RestIsPaid
  <2>2. ASSUME NEW k \in DOMAIN queue
        PROVE  ItemPaid(k)'
    <3>1. CASE k = i /\ (WriteClaim(w) \/ Record(w) \/ Launch(w))
      BY <3>1
    <3>2. CASE ~ (k = i /\ (WriteClaim(w) \/ Record(w) \/ Launch(w)))
      BY <3>2, RestIsPaid
    <3> QED
      BY <3>1, <3>2
  <2>3. DOMAIN queue' = DOMAIN queue /\ PayTyped'
    BY WorkerFrame, RestIsPaid
  <2> QED
    BY <2>1, <2>2, <2>3 DEF PayInv
<1>5. CASE Claim(w)
  <2>1. PICK k \in DOMAIN queue, u \in Task :
          /\ Claimable(k)
          /\ IF queue[k].task = NoTask THEN task[u] = Absent ELSE u = queue[k].task
          /\ work' = [ work EXCEPT ![w] = [ item |-> k, task |-> u ] ]
          /\ task' = IF queue[k].task = NoTask THEN [ task EXCEPT ![u] = "queued" ] ELSE task
    BY <1>5 DEF Claim
  <2>2. ItemOf(w)' = k /\ TaskOf(w)' = u /\ pc'[w] = "claim" /\ queue' = queue /\ launches' = launches
        /\ pauses' = pauses
    BY <1>1, <1>5, <2>1 DEF Claim, Goto, QueueTyped, ItemOf, TaskOf
  <2>3. k \in Place /\ queue[k] \in Item /\ ItemPaid(k) /\ pauses[u] \in Nat /\ launches[k] \in Nat
    BY <1>1, ItemsTyped DEF PayInv, PayTyped
  <2>4. task'[u] # "waiting"
    BY <1>1, <2>1, QueueAssumption DEF Claimable, PayTyped
  <2>5. launches[k] + 0 =< pauses[u]
    BY <2>1, <2>3, QueueAssumption DEF ItemPaid, Claimable
  <2>6. WorkerPaid(w)'
    BY <2>1, <2>2, <2>3, <2>4, <2>5 DEF WorkerPaid, Unspent, Busy
  <2> QED
    BY <1>5, <2>6 DEF Claim, WriteClaim, Record, Launch
<1>6. CASE WriteClaim(w)
  <2>1. /\ pc[w] = "claim" /\ queue' = [ queue EXCEPT ![i] = [ task |-> t, status |-> "running" ] ]
        /\ pc'[w] = "begin" /\ work' = work /\ task' = task /\ launches' = launches /\ pauses' = pauses
    BY <1>1, <1>6 DEF WriteClaim, Goto, QueueTyped
  <2>2. queue'[i] = [ task |-> t, status |-> "running" ] /\ ItemOf(w)' = i /\ TaskOf(w)' = t
    BY <1>1, <1>2, <2>1 DEF QueueTyped, ItemOf, TaskOf
  <2>3. launches[i] + Unspent(t) =< pauses[t]
    BY <1>1, <2>1 DEF WorkerPaid
  <2>4. WorkerPaid(w)'
    BY <1>2, <2>1, <2>2, <2>3 DEF WorkerPaid, Busy, Unspent
  <2>5. t # NoTask /\ launches[i] =< pauses[t] /\ launches[i] \in Nat /\ pauses[t] \in Nat
    BY <1>2, <1>3, <2>1, <2>3
  <2>6. ItemPaid(i)'
    BY <2>1, <2>2, <2>5 DEF ItemPaid
  <2> QED
    BY <2>4, <2>6
<1>7. CASE Launch(w)
  <2>1. /\ pc[w] = "launch" /\ pc'[w] = "watch" /\ queue' = queue /\ work' = work /\ task' = task
        /\ pauses' = pauses /\ launches'[i] = launches[i] + 1
    BY <1>1, <1>2, <1>7 DEF Launch, Goto, QueueTyped, PayTyped, Busy
  <2>2. launches[i] + Unspent(t) =< pauses[t] /\ queue[i].task = t /\ queue[i].status = "running"
    BY <1>1, <2>1 DEF WorkerPaid, Busy, Held
  <2>3. WorkerPaid(w)'
    BY <1>2, <2>1, <2>2 DEF WorkerPaid, Busy, Unspent, ItemOf, TaskOf
  <2>4. t # NoTask /\ launches[i] =< pauses[t] /\ launches[i] \in Nat /\ pauses[t] \in Nat
    BY <1>2, <1>3, <2>1, <2>2 DEF Busy
  <2>5. ItemPaid(i)'
    BY <2>1, <2>2, <2>4 DEF ItemPaid
  <2> QED
    BY <2>3, <2>5
<1>8. CASE Record(w)
  <2>1. /\ pc[w] = "record" /\ pc'[w] = "settle" /\ launches' = launches /\ pauses' = pauses
        /\ queue' = [ queue EXCEPT ![i].status = StatusAfter(result[w]) ]
    BY <1>1, <1>8 DEF Record, Goto, QueueTyped
  <2>2. queue[i] \in Item /\ i \in DOMAIN queue /\ queue[i].task = t /\ t \in Task /\ ItemPaid(i)
    BY <1>1, <1>2, <2>1 DEF WorkerPaid, Busy, PayInv
  <2>3. queue'[i].status = StatusAfter(result[w]) /\ queue'[i].task = t
    BY <1>1, <2>1, <2>2 DEF QueueTyped, Item
  <2>4. StatusAfter(result[w]) = "pending" => result[w] = "paused"
    BY <1>1 DEF QueueTyped, Result, StatusAfter
  <2>5. result[w] = "paused" => launches[i] =< pauses[t]
    BY <1>1, <2>1 DEF WorkerPaid
  <2>6. ItemPaid(i)'
    BY <2>1, <2>2, <2>3, <2>4, <2>5, QueueAssumption DEF ItemPaid
  <2>7. WorkerPaid(w)'
    BY <2>1 DEF WorkerPaid, Busy
  <2> QED
    BY <2>6, <2>7
<1>9. CASE Begin(w) \/ ChildEnds(w) \/ LaunchFails(w) \/ Reap(w) \/ Stop(w) \/ TimesOut(w)
           \/ PollRaises(w)
  <2>1. /\ queue' = queue /\ work' = work /\ launches' = launches
        /\ pc[w] \in { "begin", "launch", "watch" }
    BY <1>1, <1>9 DEF Begin, ChildEnds, LaunchFails, Reap, Stop, TimesOut, PollRaises, Returns, Held
  <2>2. /\ queue[i].task = t /\ ItemOf(w)' = i /\ TaskOf(w)' = t
    BY <1>1, <2>1 DEF WorkerPaid, Busy, ItemOf, TaskOf
  <2>3. \/ pc[w] = "begin" /\ pc'[w] = "launch"
        \/ pc[w] = "watch" /\ pc'[w] = "watch"
        \/ pc'[w] = "record" /\ (result'[w] = "paused" => pc[w] = "watch" /\ task[t] = "waiting")
    BY <1>1, <1>9 DEF Begin, ChildEnds, LaunchFails, Reap, Stop, TimesOut, PollRaises, Returns,
                      Goto, QueueTyped, Held
  <2>4. /\ pc[w] = "begin" => launches[i] + Unspent(t) =< pauses[t]
        /\ pc[w] = "watch" => launches[i] + Unspent(t) =< 1 + pauses[t]
    BY <1>1 DEF WorkerPaid
  <2>5. task[t] = "waiting" => Unspent(t) = 1
    BY DEF Unspent
  <2>6. /\ t \in Task /\ launches[i] \in Nat /\ pauses[t] \in Nat /\ Unspent(t) \in {0, 1}
        /\ Unspent(t)' \in {0, 1} /\ Unspent(t)' =< Unspent(t) /\ pauses' = pauses
    BY <1>2, <1>3, <2>1 DEF Busy
  <2>7. WorkerPaid(w)'
    <3>1. CASE pc'[w] = "launch" /\ pc[w] = "begin"
      BY <2>1, <2>2, <2>4, <2>6, <3>1 DEF WorkerPaid
    <3>2. CASE pc'[w] = "watch" /\ pc[w] = "watch"
      BY <2>1, <2>2, <2>4, <2>6, <3>2 DEF WorkerPaid
    <3>3. CASE pc'[w] = "record" /\ (result'[w] = "paused" => pc[w] = "watch" /\ task[t] = "waiting")
      BY <2>1, <2>2, <2>4, <2>5, <2>6, <3>3 DEF WorkerPaid
    <3> QED
      BY <2>3, <3>1, <3>2, <3>3
  <2>8. ~ WriteClaim(w) /\ ~ Record(w)
    BY <2>1 DEF WriteClaim, Record
  <2>9. ~ Launch(w)
    <3>1. Launch(w) => pc[w] = "launch" /\ pc'[w] = "watch"
      BY <1>1 DEF Launch, Goto, QueueTyped
    <3> QED
      BY <2>3, <3>1
  <2> QED
    BY <2>7, <2>8, <2>9
<1>10. CASE Settle(w) \/ Crash(w)
  <2>1. pc'[w] = "idle" /\ queue' = queue /\ launches' = launches
    BY <1>1, <1>10 DEF Settle, Crash, Goto, QueueTyped
  <2>2. WorkerPaid(w)'
    BY <2>1 DEF WorkerPaid, Busy
  <2>3. pc'[w] # "begin" /\ pc'[w] # "settle" /\ pc'[w] # "watch"
    BY <2>1
  <2>4. ~ WriteClaim(w) /\ ~ Record(w) /\ ~ Launch(w)
    BY <1>1, <2>3 DEF WriteClaim, Record, Launch, Goto, QueueTyped
  <2> QED
    BY <2>2, <2>4
<1> QED
  BY <1>5, <1>6, <1>7, <1>8, <1>9, <1>10 DEF AnyStep, WorkerStep

(* The command of an item is started again only because the user paused it: *)
(* not for a crash, a failure, a timeout or a retry, whoever does what.     *)
THEOREM RestartsArePaid == Spec => []RunsAgainOnlyIfPaused
<1>1. QueueInv /\ PayInv /\ [Next]_queueVars => PayInv'
  <2> SUFFICES ASSUME QueueInv, PayInv, [Next]_queueVars PROVE PayInv'
    OBVIOUS
  <2>1. CASE UNCHANGED queueVars
    BY <2>1 DEF queueVars, PayInv, PayTyped, ItemPaid, WorkerPaid, Unspent, ItemOf, TaskOf
  <2>2. CASE Next
    BY <2>2, OutsidePays, WorkerPays DEF Next, AnyStep
  <2> QED
    BY <2>1, <2>2
<1>2. QueueInv /\ PayInv => RunsAgainOnlyIfPaused
  <2> SUFFICES ASSUME QueueInv, PayInv, NEW i \in DOMAIN queue
               PROVE  launches[i] =< 1 + IF queue[i].task = NoTask THEN 0
                                         ELSE pauses[queue[i].task]
    BY DEF RunsAgainOnlyIfPaused
  <2> QED
    BY DEF PayInv, ItemPaid
<1> QED
  BY <1>1, <1>2, PayInvInitially, QueueInvHolds, PTL DEF Spec
=============================================================================
