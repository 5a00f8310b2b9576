---------------------------- MODULE MCServices_proofs ----------------------------
(****************************************************************************)
(* What the front ends and the shared stores keep true for every value of   *)
(* their constants, as theorems of MCServices: a behaviour stays in its     *)
(* scene, so the inductive invariant of a part, which its module defines,   *)
(* is one of the scene.                                                     *)
(****************************************************************************)
EXTENDS MCServices, SequenceTheorems, WellFoundedInduction, TLAPS

(* A step is a step of its scene and stays in it.                           *)
LEMMA SceneStep ==
    ASSUME [Next]_vars
    PROVE  /\ scene' = scene
           /\ scene = "web" => [Web!WebNext]_(Web!webVars)
           /\ scene = "rpc" => [Rpc!RpcNext]_(Rpc!rpcVars)
           /\ scene = "chat" => [Chat!Next]_(Chat!gwVars)
           /\ scene = "drafts" => [Drafts!DraftNext]_(Drafts!draftVars)
           /\ scene = "schedules" => [Schedules!SchedNext]_(Schedules!schedVars)
           /\ scene = "jobs" => [Jobs!JobNext]_(Jobs!jobVars)
           /\ scene = "plugins" => [Plugins!Next]_(Plugins!plVars)
           /\ scene = "team" => [Team!Next]_(Team!tmVars)
           /\ scene = "saves" => [Saves!Next]_(Saves!ckVars)
           /\ scene = "records" => [Records!Next]_(Records!recordVars)
           /\ scene = "shelf" => [Shelf!Next]_(Shelf!storeVars)
           /\ scene = "nested" => [Nested!Next]_(Nested!vars)
           /\ scene = "migration" => [Migration!Next]_(Migration!vars)
           /\ scene = "profiles" => [Profiles!Next]_(Profiles!vars)
<1> USE DEF WebScene, RpcScene, ChatScene, DraftsScene, SchedulesScene, JobsScene, PluginsScene, TeamScene,
            SavesScene, RecordsScene, ShelfScene, NestedScene, MigrationScene, ProfilesScene
<1>1. CASE Next
  BY <1>1 DEF Next
<1>2. CASE UNCHANGED vars
  BY <1>2 DEF vars, S4, S5, S6, S7, S8, S9, S10, Web!webVars, Rpc!rpcVars, Drafts!draftVars,
              Schedules!schedVars, Jobs!jobVars, Plugins!plVars, Team!tmVars, Records!recordVars,
              Nested!vars, Migration!vars, Profiles!vars, Chat!gwVars, Saves!ckVars,
              Shelf!storeVars
<1> QED
  BY <1>1, <1>2

-----------------------------------------------------------------------------
(* The schedules (WebSchedules).                                            *)

LEMMA OwedInitially == Schedules!SchedInit => Schedules!OwedInv
BY DEF Schedules!SchedInit, Schedules!OwedInv

LEMMA OwedIsKept == Schedules!OwedInv /\ [Schedules!SchedNext]_(Schedules!schedVars) => Schedules!OwedInv'
<1> SUFFICES ASSUME Schedules!OwedInv, [Schedules!SchedNext]_(Schedules!schedVars) PROVE Schedules!OwedInv'
  OBVIOUS
<1>1. ASSUME NEW s \in ScheduleIds, Schedules!IntervalElapses(s)
      PROVE  Schedules!OwedInv'
  <2>1. /\ v4' = [v4 EXCEPT ![s] = @ + 1] /\ v5' = v5 /\ v6' = v6
        /\ v1' = [v1 EXCEPT ![s].due = TRUE]
    BY <1>1 DEF Schedules!IntervalElapses
  <2>2. v1' \in [ScheduleIds -> [status : {"active", "paused", "deleted"}, due : BOOLEAN]]
    BY <2>1 DEF Schedules!OwedInv
  <2>3. v4' \in [ScheduleIds -> Nat] /\ v5' \in [ScheduleIds -> Nat] /\ v6' \in [ScheduleIds -> Nat]
    BY <2>1 DEF Schedules!OwedInv
  <2>4. ASSUME NEW r \in ScheduleIds
        PROVE  /\ v5'[r] <= v4'[r] + v6'[r]
               /\ v1'[r].due => v5'[r] < v4'[r] + v6'[r]
    <3>1. CASE r = s
      BY <2>1, <3>1 DEF Schedules!OwedInv
    <3>2. CASE r # s
      BY <2>1, <3>2 DEF Schedules!OwedInv
    <3> QED
      BY <3>1, <3>2
  <2> QED
    BY <2>2, <2>3, <2>4 DEF Schedules!OwedInv
<1>2. ASSUME NEW s \in ScheduleIds, Schedules!ScheduleAction(s)
      PROVE  Schedules!OwedInv'
  <2>1. v5' = v5 /\ v6' = v6
    BY <1>2 DEF Schedules!ScheduleAction
  <2>2. CASE v4' = v4 /\ v1' = [v1 EXCEPT ![s].status = "paused"]
    BY <2>1, <2>2 DEF Schedules!OwedInv
  <2>3. CASE v4' = v4 /\ v1' = [v1 EXCEPT ![s].status = "deleted"]
    BY <2>1, <2>3 DEF Schedules!OwedInv
  <2>4. CASE v4' = v4
             /\ v1' = [v1 EXCEPT ![s] = [status |-> "active", due |-> FALSE]]
    BY <2>1, <2>4 DEF Schedules!OwedInv
  <2>5. CASE /\ v4' = [v4 EXCEPT ![s] = @ + 1]
             /\ v1' = [v1 EXCEPT ![s] = [status |-> "active", due |-> TRUE]]
    BY <2>1, <2>5 DEF Schedules!OwedInv
  <2> QED
    BY <1>2, <2>2, <2>3, <2>4, <2>5 DEF Schedules!ScheduleAction
<1>3. ASSUME NEW t \in Tickers, Schedules!TickChanges(t)
      PROVE  Schedules!OwedInv'
  <2>1. PICK started \in SUBSET Schedules!ToStart(t) :
             /\ v5' = Schedules!OneMore(v5, started)
             /\ \/ /\ v1' = [s \in ScheduleIds |-> IF s \in Schedules!ToStart(t) THEN [v1[s] EXCEPT !.due = FALSE]
                                                    ELSE v1[s]]
                   /\ v6' = v6
                \/ v6' = Schedules!OneMore(v6, started) /\ v1' = v1
    BY <1>3 DEF Schedules!TickChanges
  <2>2. v4' = v4
    BY <1>3 DEF Schedules!TickChanges
  <2>3. \A s \in Schedules!ToStart(t) : s \in ScheduleIds /\ v5[s] < v4[s] + v6[s]
    BY DEF Schedules!ToStart, Schedules!Due, Schedules!OwedInv
  <2>4. /\ v5' \in [ScheduleIds -> Nat]
        /\ \A s \in ScheduleIds : v5'[s] = v5[s] + (IF s \in started THEN 1 ELSE 0)
    BY <2>1 DEF Schedules!OneMore, Schedules!OwedInv
  <2>5. CASE /\ v1' = [s \in ScheduleIds |-> IF s \in Schedules!ToStart(t) THEN [v1[s] EXCEPT !.due = FALSE]
                                              ELSE v1[s]]
             /\ v6' = v6
    <3>1. v1' \in [ScheduleIds -> [status : {"active", "paused", "deleted"}, due : BOOLEAN]]
      BY <2>5 DEF Schedules!OwedInv
    <3>2. \A s \in ScheduleIds : v5'[s] <= v4'[s] + v6'[s]
      BY <2>1, <2>2, <2>3, <2>4, <2>5 DEF Schedules!OwedInv
    <3>3. ASSUME NEW s \in ScheduleIds, v1'[s].due
          PROVE  v5'[s] < v4'[s] + v6'[s]
      <4>1. s \notin Schedules!ToStart(t) /\ v1[s].due
        BY <2>5, <3>3 DEF Schedules!OwedInv
      <4> QED
        BY <2>1, <2>2, <2>4, <2>5, <4>1 DEF Schedules!OwedInv
    <3> QED
      BY <2>2, <2>4, <2>5, <3>1, <3>2, <3>3 DEF Schedules!OwedInv
  <2>6. CASE v6' = Schedules!OneMore(v6, started) /\ v1' = v1
    <3>1. /\ v6' \in [ScheduleIds -> Nat]
          /\ \A s \in ScheduleIds : v6'[s] = v6[s] + (IF s \in started THEN 1 ELSE 0)
      BY <2>6 DEF Schedules!OneMore, Schedules!OwedInv
    <3>2. \A s \in ScheduleIds : v5'[s] <= v4'[s] + v6'[s]
      BY <2>2, <2>4, <3>1 DEF Schedules!OwedInv
    <3>3. \A s \in ScheduleIds : v1'[s].due => v5'[s] < v4'[s] + v6'[s]
      BY <2>2, <2>4, <2>6, <3>1 DEF Schedules!OwedInv
    <3> QED
      BY <2>2, <2>4, <2>6, <3>1, <3>2, <3>3 DEF Schedules!OwedInv
  <2> QED
    BY <2>1, <2>5, <2>6
<1>4. ASSUME NEW t \in Tickers, Schedules!TickReads(t)
      PROVE  Schedules!OwedInv'
  BY <1>4 DEF Schedules!TickReads, Schedules!OwedInv
<1>5. ASSUME UNCHANGED Schedules!schedVars
      PROVE  Schedules!OwedInv'
  BY <1>5 DEF Schedules!schedVars, Schedules!OwedInv
<1> QED
  BY <1>1, <1>2, <1>3, <1>4, <1>5 DEF Schedules!SchedNext

LEMMA OwedShows == Schedules!OwedInv => Schedules!OneRunPerInterval
BY DEF Schedules!OwedInv, Schedules!OneRunPerInterval

(* For any number of schedules and of windows that tick: a schedule starts  *)
(* at most one run for every time it comes due, and one more for every      *)
(* start whose write was lost (ScheduleStore.tick).                         *)
THEOREM OneRunEachTime == Spec => []OneRunPerInterval
<1> DEFINE Inv == scene = "schedules" => Schedules!OwedInv
<1>1. Init => Inv
  BY OwedInitially DEF Init
<1>2. Inv /\ [Next]_vars => Inv'
  BY SceneStep, OwedIsKept
<1>3. Inv => OneRunPerInterval
  BY OwedShows DEF OneRunPerInterval
<1> QED
  BY <1>1, <1>2, <1>3, PTL DEF Spec

-----------------------------------------------------------------------------
(* The drafts (GraphDrafts).                                                *)

LEMMA DraftInitially == Drafts!DraftInit => v2 \in [Generations -> {"none", "queued", "running"} \cup Drafts!Final]
BY DEF Drafts!DraftInit

LEMMA DraftIsKept ==
    v2 \in [Generations -> {"none", "queued", "running"} \cup Drafts!Final] /\ [Drafts!DraftNext]_(Drafts!draftVars)
        => v2' \in [Generations -> {"none", "queued", "running"} \cup Drafts!Final]
BY DEF Drafts!DraftNext, Drafts!DraftThread, Drafts!Start, Drafts!Register, Drafts!Progress, Drafts!TaskCancelled, Drafts!TaskDone, Drafts!Settle, Drafts!Cancel, Drafts!Final, Drafts!draftVars

LEMMA DraftShows ==
    v2 \in [Generations -> {"none", "queued", "running"} \cup Drafts!Final] /\ [Drafts!DraftNext]_(Drafts!draftVars) => Drafts!StaysUnsuccessful
<1> SUFFICES ASSUME v2 \in [Generations -> {"none", "queued", "running"} \cup Drafts!Final], [Drafts!DraftNext]_(Drafts!draftVars),
                    NEW j \in Generations, v2[j] = "cancelled"
             PROVE  v2'[j] # "succeeded"
  BY DEF Drafts!StaysUnsuccessful
<1>1. ASSUME NEW i \in Generations, Drafts!Start(i) \/ Drafts!Register(i) \/ Drafts!Progress(i) \/ Drafts!TaskCancelled(i) \/ Drafts!TaskDone(i) \/ Drafts!Cancel(i)
      PROVE  v2'[j] # "succeeded"
  BY <1>1 DEF Drafts!Start, Drafts!Register, Drafts!Progress, Drafts!TaskCancelled, Drafts!TaskDone, Drafts!Cancel
<1>2. ASSUME NEW i \in Generations, Drafts!Settle(i)
      PROVE  v2'[j] # "succeeded"
  <2>1. CASE i = j
    BY <1>2, <2>1 DEF Drafts!Settle
  <2>2. CASE i # j
    BY <1>2, <2>2 DEF Drafts!Settle
  <2> QED
    BY <2>1, <2>2
<1>3. CASE UNCHANGED Drafts!draftVars
  BY <1>3 DEF Drafts!draftVars
<1> QED
  BY <1>1, <1>2, <1>3 DEF Drafts!DraftNext, Drafts!DraftThread

(* For any number of generations: one that the user cancelled is never      *)
(* shown as succeeded, whenever its model answers.                          *)
THEOREM CancelledStays == Spec => CancelledNeverSucceeds
<1> DEFINE Inv == scene = "drafts" => v2 \in [Generations -> {"none", "queued", "running"} \cup Drafts!Final]
<1>1. Init => Inv
  BY DraftInitially DEF Init
<1>2. Inv /\ [Next]_vars => Inv'
  BY SceneStep, DraftIsKept
<1>3. Inv /\ [Next]_vars => [scene = "drafts" => Drafts!StaysUnsuccessful]_vars
  BY SceneStep, DraftShows
<1> QED
  BY <1>1, <1>2, <1>3, PTL DEF Spec, CancelledNeverSucceeds

-----------------------------------------------------------------------------
(* The prompts of a graph (GraphJobs).                                      *)

LEMMA JobsInitially == Jobs!JobInit => Jobs!UseInv
<1> SUFFICES ASSUME Jobs!JobInit PROVE Jobs!UseInv
  OBVIOUS
<1>1. \A p, c : Jobs!Told(p, c) = {}
  BY DEF Jobs!JobInit, Jobs!Told
<1>2. \A p : Jobs!Cardinality(Jobs!Told(p, {"once"})) = 0
  BY <1>1, Jobs!FS_EmptySet
<1>3. \A p \in Prompts : Jobs!Owed(p) = 0
  BY DEF Jobs!JobInit, Jobs!Owed, Jobs!NoWaiter
<1>4. v3 \in [phase : {"none", "wait", "answered", "timedOut"}, prompt : Prompts \cup {"none"},
                  decision : {"once", "session", "always", "deny"}, decided : BOOLEAN, set : BOOLEAN]
      /\ v3.phase = "none"
  BY DEF Jobs!JobInit, Jobs!NoWaiter
<1>5. v6 \in Seq(Prompts \X {"once", "session", "always", "deny"}) /\ v5 \in [Prompts -> Nat] /\ v2 = {}
      /\ \A p \in Prompts : v5[p] = 0
  BY DEF Jobs!JobInit
<1>6. \A p \in Prompts : v5[p] + Jobs!Owed(p) <= Jobs!Cardinality(Jobs!Told(p, {"once"}))
  BY <1>2, <1>3, <1>5
<1> QED
  BY <1>4, <1>5, <1>6 DEF Jobs!UseInv

(* What was told is counted.                                                *)
LEMMA ToldCounts ==
    ASSUME NEW S, v6 \in Seq(S), NEW p, NEW c
    PROVE  Jobs!IsFiniteSet(Jobs!Told(p, c)) /\ Jobs!Cardinality(Jobs!Told(p, c)) \in Nat
<1>1. DOMAIN v6 = 1..Len(v6) /\ Len(v6) \in Nat
  OBVIOUS
<1>2. Jobs!IsFiniteSet(DOMAIN v6)
  BY <1>1, Jobs!FS_Interval
<1>3. Jobs!IsFiniteSet(Jobs!Told(p, c))
  BY <1>2, Jobs!FS_Subset DEF Jobs!Told
<1> QED
  BY <1>3, Jobs!FS_CardinalityType

(* Steps after which nothing more is owed or used.                          *)
LEMMA NothingMore ==
    ASSUME Jobs!UseInv, UNCHANGED <<v2, v6>>, v5' \in [Prompts -> Nat],
           v3' \in [phase : {"none", "wait", "answered", "timedOut"}, prompt : Prompts \cup {"none"},
                        decision : {"once", "session", "always", "deny"}, decided : BOOLEAN, set : BOOLEAN],
           v3'.phase # "none" => v3'.prompt \in Prompts,
           \A p \in Prompts \ v2 : v5'[p] + Jobs!Owed(p)' <= v5[p] + Jobs!Owed(p)
    PROVE  Jobs!UseInv'
<1>1. \A p, c : Jobs!Told(p, c)' = Jobs!Told(p, c)
  BY DEF Jobs!Told
<1>2. ASSUME NEW p \in Prompts, Jobs!Told(p, {"session", "always"}) = {}
      PROVE  p \notin v2 /\ v5'[p] + Jobs!Owed(p)' <= Jobs!Cardinality(Jobs!Told(p, {"once"}))
  <2>1. p \notin v2 /\ v5[p] + Jobs!Owed(p) <= Jobs!Cardinality(Jobs!Told(p, {"once"}))
    BY <1>2 DEF Jobs!UseInv
  <2>2. Jobs!Owed(p) \in Nat /\ Jobs!Owed(p)' \in Nat /\ v5[p] \in Nat /\ v5'[p] \in Nat
    BY DEF Jobs!Owed, Jobs!UseInv
  <2>3. Jobs!Cardinality(Jobs!Told(p, {"once"})) \in Nat
    BY ToldCounts DEF Jobs!UseInv
  <2>4. v5'[p] + Jobs!Owed(p)' <= v5[p] + Jobs!Owed(p)
    BY <2>1
  <2> QED
    BY <2>1, <2>2, <2>3, <2>4
<1> QED
  BY <1>1, <1>2 DEF Jobs!UseInv

LEMMA DecisionCounts ==
    ASSUME Jobs!UseInv, Jobs!DecideApproval
    PROVE  Jobs!UseInv'
<1> DEFINE p == v3.prompt
<1>1. PICK d \in Jobs!Choices(p) :
          /\ v3' = [v3 EXCEPT !.decision = d, !.decided = TRUE]
          /\ v2' = IF Jobs!Remembers(d) THEN v2 \cup {p} ELSE v2
          /\ v6' = Append(v6, <<p, d>>)
  BY DEF Jobs!DecideApproval
<1>2. /\ v3.phase # "none" /\ p \in Prompts /\ v5' = v5
      /\ v6 \in Seq(Prompts \X {"once", "session", "always", "deny"})
  BY DEF Jobs!DecideApproval, Jobs!UseInv
<1>3. d \in {"once", "session", "always", "deny"}
  BY DEF Jobs!Choices
<1>4. /\ v3' \in [phase : {"none", "wait", "answered", "timedOut"}, prompt : Prompts \cup {"none"},
                      decision : {"once", "session", "always", "deny"}, decided : BOOLEAN, set : BOOLEAN]
      /\ v3'.phase = v3.phase /\ v3'.prompt = p /\ v3'.decision = d
  BY <1>1, <1>3 DEF Jobs!UseInv
<1> DEFINE i == Len(v6) + 1
<1> HIDE DEF p
<1>5. /\ v6' \in Seq(Prompts \X {"once", "session", "always", "deny"})
      /\ DOMAIN v6' = 1..i /\ v6'[i] = <<p, d>>
      /\ DOMAIN v6 = 1..(i - 1) /\ i \in Nat \ {0}
      /\ \A j \in DOMAIN v6 : v6'[j] = v6[j]
  BY <1>1, <1>2, <1>3
<1> HIDE DEF i
<1>6. /\ DOMAIN v6' = DOMAIN v6 \cup {i} /\ i \notin DOMAIN v6
  BY <1>5
<1>7. \A q, c : Jobs!Told(q, c)' = Jobs!Told(q, c) \cup (IF q = p /\ d \in c THEN {i} ELSE {})
  BY <1>5, <1>6 DEF Jobs!Told
<1>8. \A q, c : i \notin Jobs!Told(q, c)
  BY <1>6 DEF Jobs!Told
<1>9. ASSUME NEW q \in Prompts, Jobs!Told(q, {"session", "always"})' = {}
      PROVE  q \notin v2' /\ v5'[q] + Jobs!Owed(q)' <= Jobs!Cardinality(Jobs!Told(q, {"once"})')
  <2>1. Jobs!Told(q, {"session", "always"}) = {} /\ (q = p => d \notin {"session", "always"})
    BY <1>7, <1>9
  <2>2. q \notin v2 /\ v5[q] + Jobs!Owed(q) <= Jobs!Cardinality(Jobs!Told(q, {"once"}))
    BY <2>1 DEF Jobs!UseInv
  <2>3. q \notin v2'
    BY <1>1, <2>1, <2>2 DEF Jobs!Remembers
  <2>4. Jobs!IsFiniteSet(Jobs!Told(q, {"once"})) /\ Jobs!Cardinality(Jobs!Told(q, {"once"})) \in Nat
    BY <1>2, ToldCounts
  <2>5. v5[q] \in Nat /\ Jobs!Owed(q) \in {0, 1} /\ Jobs!Owed(q)' \in {0, 1}
    BY DEF Jobs!UseInv, Jobs!Owed
  <2>6. CASE q = p /\ d = "once"
    <3>1. Jobs!Told(q, {"once"})' = Jobs!Told(q, {"once"}) \cup {i}
      BY <1>7, <2>6
    <3>2. Jobs!Cardinality(Jobs!Told(q, {"once"})') = Jobs!Cardinality(Jobs!Told(q, {"once"})) + 1
      BY <1>8, <2>4, <3>1, Jobs!FS_AddElement
    <3> QED
      BY <1>2, <2>2, <2>3, <2>4, <2>5, <3>2
  <2>7. CASE q # p \/ d = "deny"
    <3>1. Jobs!Told(q, {"once"})' = Jobs!Told(q, {"once"})
      BY <1>7, <2>7
    <3>2. Jobs!Owed(q)' <= Jobs!Owed(q)
      BY <1>4, <2>5, <2>7 DEF Jobs!Owed, p
    <3> QED
      BY <1>2, <2>2, <2>3, <2>4, <2>5, <3>1, <3>2
  <2> QED
    BY <1>3, <2>1, <2>6, <2>7
<1> QED
  BY <1>2, <1>4, <1>5, <1>9 DEF Jobs!UseInv, p

LEMMA JobsAreKept == Jobs!UseInv /\ [Jobs!JobNext]_(Jobs!jobVars) => Jobs!UseInv'
<1> SUFFICES ASSUME Jobs!UseInv, [Jobs!JobNext]_(Jobs!jobVars) PROVE Jobs!UseInv'
  OBVIOUS
<1>1. CASE UNCHANGED <<v3, v5, v2, v6>>
  BY <1>1 DEF Jobs!UseInv, Jobs!Told, Jobs!Owed
<1>2. CASE Jobs!GraphStarted \/ Jobs!GraphEnds \/ UNCHANGED Jobs!jobVars
  BY <1>1, <1>2 DEF Jobs!GraphStarted, Jobs!GraphEnds, Jobs!jobVars
<1>3. CASE Jobs!Ask
  <2>1. PICK p \in Prompts :
          IF p \in v2
          THEN v5' = [v5 EXCEPT ![p] = @ + 1] /\ UNCHANGED v3
          ELSE v3' = [Jobs!NoWaiter EXCEPT !.phase = "wait", !.prompt = p] /\ UNCHANGED v5
    BY <1>3 DEF Jobs!Ask
  <2>2. UNCHANGED <<v2, v6>> /\ v3.phase = "none"
    BY <1>3 DEF Jobs!Ask
  <2>3. CASE p \in v2
    <3>0. v5 \in [Prompts -> Nat] /\ v5' = [v5 EXCEPT ![p] = v5[p] + 1] /\ v3' = v3
      BY <2>1, <2>3 DEF Jobs!UseInv
    <3>1. v5' \in [Prompts -> Nat] /\ v3' = v3 /\ \A q \in Prompts \ v2 : v5'[q] = v5[q]
      BY ONLY <2>3, <3>0
    <3>2. \A q \in Prompts \ v2 : v5'[q] + Jobs!Owed(q)' <= v5[q] + Jobs!Owed(q)
      BY <3>1 DEF Jobs!Owed, Jobs!UseInv
    <3> QED
      BY <2>2, <3>1, <3>2, NothingMore DEF Jobs!UseInv
  <2>4. CASE p \notin v2
    <3>1. v3' = [phase |-> "wait", prompt |-> p, decision |-> "deny", decided |-> FALSE, set |-> FALSE]
      BY <2>1, <2>4 DEF Jobs!NoWaiter
    <3>2. \A q \in Prompts : Jobs!Owed(q) = 0 /\ Jobs!Owed(q)' = 0
      BY <2>2, <3>1 DEF Jobs!Owed
    <3>3. v5' = v5 /\ \A q \in Prompts \ v2 : v5'[q] + Jobs!Owed(q)' <= v5[q] + Jobs!Owed(q)
      BY <2>1, <2>4, <3>2 DEF Jobs!UseInv
    <3> QED
      BY <2>2, <3>1, <3>3, NothingMore DEF Jobs!UseInv
  <2> QED
    BY <2>3, <2>4
<1>4. CASE Jobs!WaitEnds \/ Jobs!EventSet
  <2>1. /\ UNCHANGED <<v2, v6, v5>> /\ (v3.phase # "none" \/ v3'.phase = v3.phase)
        /\ v3'.prompt = v3.prompt /\ v3'.decision = v3.decision
        /\ v3' \in [phase : {"none", "wait", "answered", "timedOut"}, prompt : Prompts \cup {"none"},
                        decision : {"once", "session", "always", "deny"}, decided : BOOLEAN, set : BOOLEAN]
    BY <1>4 DEF Jobs!WaitEnds, Jobs!EventSet, Jobs!UseInv
  <2>2. \A q \in Prompts : Jobs!Owed(q)' <= Jobs!Owed(q)
    BY <1>4, <2>1 DEF Jobs!Owed, Jobs!WaitEnds, Jobs!EventSet, Jobs!UseInv
  <2> QED
    BY <1>4, <2>1, <2>2, NothingMore DEF Jobs!UseInv, Jobs!WaitEnds, Jobs!EventSet, Jobs!Owed
<1>5. CASE Jobs!Returns
  <2>1. UNCHANGED <<v2, v6>> /\ v3' = Jobs!NoWaiter /\ v3.prompt \in Prompts
        /\ v3.phase \in {"answered", "timedOut"}
        /\ v5' = IF v3.phase = "answered" /\ v3.decision # "deny"
                   THEN [v5 EXCEPT ![v3.prompt] = @ + 1] ELSE v5
    BY <1>5 DEF Jobs!Returns, Jobs!UseInv
  <2>2. v5' \in [Prompts -> Nat] /\ \A q \in Prompts : v5'[q] <= v5[q] + Jobs!Owed(q)
    BY <2>1 DEF Jobs!UseInv, Jobs!Owed
  <2>3. /\ v3' \in [phase : {"none", "wait", "answered", "timedOut"}, prompt : Prompts \cup {"none"},
                        decision : {"once", "session", "always", "deny"}, decided : BOOLEAN, set : BOOLEAN]
        /\ v3'.phase = "none"
    BY <2>1 DEF Jobs!NoWaiter
  <2>4. \A q \in Prompts : Jobs!Owed(q)' = 0
    BY <2>3 DEF Jobs!Owed
  <2>5. \A q \in Prompts \ v2 : v5'[q] + Jobs!Owed(q)' <= v5[q] + Jobs!Owed(q)
    BY <2>2, <2>4 DEF Jobs!Owed, Jobs!UseInv
  <2> QED
    BY <2>1, <2>2, <2>3, <2>5, NothingMore
<1> QED
  BY <1>2, <1>3, <1>4, <1>5, DecisionCounts DEF Jobs!JobNext

LEMMA JobsShow == Jobs!UseInv => Jobs!EveryUseIsApproved
<1> SUFFICES ASSUME Jobs!UseInv, NEW p \in Prompts, Jobs!Told(p, {"session", "always"}) = {}
             PROVE  v5[p] <= Jobs!Cardinality(Jobs!Told(p, {"once"}))
  BY DEF Jobs!EveryUseIsApproved
<1>1. v5[p] + Jobs!Owed(p) <= Jobs!Cardinality(Jobs!Told(p, {"once"})) /\ v5[p] \in Nat /\ Jobs!Owed(p) \in Nat
  BY DEF Jobs!UseInv, Jobs!Owed
<1>2. Jobs!Cardinality(Jobs!Told(p, {"once"})) \in Nat
  BY ToldCounts DEF Jobs!UseInv
<1> QED
  BY <1>1, <1>2

-----------------------------------------------------------------------------
(* The runs of the Web server (WebTurns).                                   *)

LEMMA YesInitially == Web!WebInit => Web!YesInv
BY DEF Web!WebInit, Web!YesInv, Web!NoAsk

LEMMA YesIsKept == Web!YesInv /\ [Web!WebNext]_(Web!webVars) => Web!YesInv'
<1> SUFFICES ASSUME Web!YesInv, [Web!WebNext]_(Web!webVars) PROVE Web!YesInv'
  OBVIOUS
<1> DEFINE Ask == [st : {"none", "waiting", "decided", "over"}, yes : BOOLEAN]
           Said == [yes : BOOLEAN, ran : BOOLEAN]
<1>0. v5 \in [Requests -> Ask] /\ v9 \in [Requests -> Said]
  BY DEF Web!YesInv
<1>a. ASSUME NEW q \in Requests, NEW a \in Ask, NEW s \in Said, a.yes \/ s.ran => s.yes,
             v5' = [v5 EXCEPT ![q] = a], v9' = [v9 EXCEPT ![q] = s],
             v7' \subseteq Requests \X BOOLEAN
      PROVE  Web!YesInv'
  BY <1>0, <1>a DEF Web!YesInv
<1>b. ASSUME UNCHANGED <<v5, v9>>, v7' \subseteq Requests \X BOOLEAN PROVE Web!YesInv'
  BY <1>0, <1>b DEF Web!YesInv
<1>c. ASSUME UNCHANGED <<v5, v9, v7>> PROVE Web!YesInv'
  BY <1>b, <1>c DEF Web!YesInv
<1>1. ASSUME NEW q \in Requests, Web!RequestApproval(q) PROVE Web!YesInv'
  <2> DEFINE a == [st |-> "waiting", yes |-> FALSE]
  <2>1. v5' = [v5 EXCEPT ![q] = a] /\ v9' = v9 /\ v7' = v7
    BY <1>1 DEF Web!RequestApproval
  <2>2. v9' = [v9 EXCEPT ![q] = v9[q]] /\ v9[q] \in Said
    BY <2>1, <1>0
  <2>3. a.yes \/ v9[q].ran => v9[q].yes
    BY DEF Web!YesInv
  <2>4. a \in Ask
    OBVIOUS
  <2> HIDE DEF a
  <2> QED
    BY <1>a, <2>1, <2>2, <2>3, <2>4 DEF Web!YesInv
<1>2. ASSUME NEW q \in Requests, Web!Answered(q) PROVE Web!YesInv'
  <2>1. /\ v5' = [v5 EXCEPT ![q].st = "over"] /\ v7' = v7
        /\ v9' = v9 \/ v9' = [v9 EXCEPT ![q].ran = v5[q].yes]
    BY <1>2 DEF Web!Answered
  <2>2. v5[q] \in Ask /\ v9[q] \in Said /\ (v5[q].yes \/ v9[q].ran => v9[q].yes)
    BY <1>0 DEF Web!YesInv
  <2>3. v5' \in [Requests -> Ask] /\ \A p \in Requests : v5'[p].yes = v5[p].yes
    BY <1>0, <2>1, <2>2
  <2>4. /\ v9' \in [Requests -> Said]
        /\ \A p \in Requests : /\ v9'[p].yes = v9[p].yes
                               /\ v9'[p].ran => v9[p].ran \/ v5[p].yes
    <3>1. CASE v9' = v9
      BY <1>0, <3>1
    <3>2. CASE v9' = [v9 EXCEPT ![q].ran = v5[q].yes]
      BY <1>0, <2>2, <3>2
    <3> QED
      BY <2>1, <3>1, <3>2
  <2> QED
    BY <2>1, <2>3, <2>4 DEF Web!YesInv
<1>3. ASSUME NEW q \in Requests, Web!AskTimeout(q) PROVE Web!YesInv'
  <2>1. v5' = [v5 EXCEPT ![q].st = "over"] /\ v7' = v7 /\ v9' = v9
    BY <1>3 DEF Web!AskTimeout
  <2>2. v5' \in [Requests -> Ask] /\ \A p \in Requests : v5'[p].yes = v5[p].yes
    BY <1>0, <2>1
  <2> QED
    BY <2>1, <2>2 DEF Web!YesInv
<1>4. ASSUME NEW q \in Requests, Web!CancelFreesAsk(q) PROVE Web!YesInv'
  <2> DEFINE a == [st |-> "decided", yes |-> FALSE]
  <2>1. v5' = [v5 EXCEPT ![q] = a] /\ v9' = v9 /\ v7' = v7
    BY <1>4 DEF Web!CancelFreesAsk
  <2>2. v9' = [v9 EXCEPT ![q] = v9[q]] /\ v9[q] \in Said
    BY <2>1, <1>0
  <2>3. a.yes \/ v9[q].ran => v9[q].yes
    BY DEF Web!YesInv
  <2>4. a \in Ask
    OBVIOUS
  <2> HIDE DEF a
  <2> QED
    BY <1>a, <2>1, <2>2, <2>3, <2>4 DEF Web!YesInv
<1>5. ASSUME NEW q \in Requests, NEW yes \in BOOLEAN, Web!Decide(q, yes) PROVE Web!YesInv'
  BY <1>b, <1>5 DEF Web!Decide, Web!YesInv
<1>6. ASSUME Web!DecideWrites PROVE Web!YesInv'
  <2>1. PICK d \in v7 :
          /\ v7' = v7 \ {d}
          /\ v5' = [v5 EXCEPT ![d[1]] = [st |-> IF @.st = "over" THEN "over" ELSE "decided", yes |-> d[2]]]
          /\ v9' = [v9 EXCEPT ![d[1]].yes = @ \/ d[2]]
    BY <1>6 DEF Web!DecideWrites
  <2>2. d[1] \in Requests /\ d[2] \in BOOLEAN /\ v7' \subseteq Requests \X BOOLEAN
    BY <2>1 DEF Web!YesInv
  <2> DEFINE q == d[1]
             a == [st |-> IF v5[q].st = "over" THEN "over" ELSE "decided", yes |-> d[2]]
             s == [yes |-> v9[q].yes \/ d[2], ran |-> v9[q].ran]
  <2>3. v9[q] \in Said /\ (v9[q].ran => v9[q].yes)
    BY <1>0, <2>2 DEF Web!YesInv
  <2>4. a \in Ask /\ s \in Said /\ (a.yes \/ s.ran => s.yes)
    BY <2>2, <2>3
  <2>5. v5' = [v5 EXCEPT ![q] = a]
    BY <1>0, <2>1, <2>2
  <2>6. v9' = [v9 EXCEPT ![q] = s]
    <3>1. v9' = [v9 EXCEPT ![q].yes = @ \/ d[2]]
      BY <2>1
    <3>2. v9' = [v9 EXCEPT ![q] = [v9[q] EXCEPT !.yes = v9[q].yes \/ d[2]]]
      BY <1>0, <2>2, <3>1
    <3>3. v9[q] = [yes |-> v9[q].yes, ran |-> v9[q].ran]
      BY <2>3
    <3>4. [v9[q] EXCEPT !.yes = v9[q].yes \/ d[2]] = s
      BY <3>3
    <3> QED
      BY <3>2, <3>4
  <2> HIDE DEF q, a, s
  <2>7. q \in Requests
    BY <2>2 DEF q
  <2> QED
    BY <1>a, <2>2, <2>4, <2>5, <2>6, <2>7
<1>7. ASSUME NEW q \in Requests, Web!Take(q) \/ Web!Refuse(q) \/ Web!StartRun(q) \/ Web!Chunk(q) \/ Web!Complete(q)
             \/ Web!WorkFails(q) \/ Web!Unwind(q) \/ Web!LastEvent(q) \/ Web!FinishRun(q) \/ Web!Cancel(q)
      PROVE  Web!YesInv'
  <2>1. UNCHANGED <<v5, v9, v7>>
    BY <1>7 DEF Web!Take, Web!Refuse, Web!StartRun, Web!Chunk, Web!Complete, Web!WorkFails, Web!Unwind, Web!LastEvent, Web!FinishRun, Web!Cancel
  <2> QED
    BY <1>c, <2>1
<1>8. ASSUME Web!Delete \/ Web!Since \/ Web!TestEnd \/ UNCHANGED Web!webVars PROVE Web!YesInv'
  BY <1>c, <1>8 DEF Web!Delete, Web!Since, Web!TestEnd, Web!webVars
<1> QED
  BY <1>1, <1>2, <1>3, <1>4, <1>5, <1>6, <1>7, <1>8 DEF Web!WebNext, Web!RunStep

LEMMA YesShows == Web!YesInv => Web!ToolNeedsYes
BY DEF Web!YesInv, Web!ToolNeedsYes

LEMMA StreamInitially == Web!WebInit => Web!StreamInv
<1> SUFFICES ASSUME Web!WebInit PROVE Web!StreamInv
  OBVIOUS
<1>1. /\ v7 = {} /\ v4 \in [Requests -> [state : Web!Terminal \cup {"none", "running"}, cancel : BOOLEAN, at : Web!RunPc]]
      /\ v1 \in [Requests -> {"idle", "locked", "done"}]
      /\ v6 \in [Requests -> [n : Nat, last : Nat]]
  BY DEF Web!WebInit, Web!NoRun, Web!RunPc
<1>2. v8 \in [of : Steered, at : {"none"}, cursor : {0}] /\ v8.of \in Requests
  BY WebAssumption DEF Web!WebInit
<1>3. v8 \in [of : Requests, at : {"none", "since", "test", "ended"}, cursor : Nat]
  BY <1>2
<1>4. \A q \in Requests : v4[q] = Web!NoRun /\ v6[q].last = 0 /\ v6[q].n = 0
  BY DEF Web!WebInit
<1> QED
  BY <1>1, <1>2, <1>3, <1>4 DEF Web!StreamInv, Web!NoRun, Web!Terminal, Web!Ending

(* What a step of one request may make of its run, its log and its handler, *)
(* and of the reader.                                                       *)
Fits(q, r, e, h) ==
    /\ r \in [state : Web!Terminal \cup {"none", "running"}, cancel : BOOLEAN, at : Web!RunPc]
    /\ e \in [n : Nat, last : Nat] /\ e.last <= e.n /\ v6[q].n <= e.n
    /\ h \in {"idle", "locked", "done"}
    /\ h # "done" => r.at = "none"
    /\ r.state \in Web!Terminal => r.at = "over"
    /\ r.at \in Web!Ending <=> e.last # 0
    /\ v4[q].at = "over" => r.at = "over" /\ e.last = v6[q].last
ReaderMayStart ==
    \/ v8' = v8
    \/ /\ v8' \in [of : Requests, at : {"none", "since", "test"}, cursor : Nat]
       /\ v8'.of = v8.of /\ v8'.cursor = v8.cursor

LEMMA RunMoves ==
    ASSUME Web!StreamInv, NEW q \in Requests, NEW r, NEW e, NEW h,
           v4' = [v4 EXCEPT ![q] = r], v6' = [v6 EXCEPT ![q] = e],
           v1' = [v1 EXCEPT ![q] = h], Fits(q, r, e, h),
           v7' \subseteq Requests \X BOOLEAN, ReaderMayStart
    PROVE  Web!StreamInv'
<1> USE DEF Fits
<1>1. /\ v4 \in [Requests -> [state : Web!Terminal \cup {"none", "running"}, cancel : BOOLEAN, at : Web!RunPc]]
      /\ v1 \in [Requests -> {"idle", "locked", "done"}]
      /\ v6 \in [Requests -> [n : Nat, last : Nat]]
      /\ v8 \in [of : Requests, at : {"none", "since", "test", "ended"}, cursor : Nat]
  BY DEF Web!StreamInv
<1>2. /\ v4' \in [Requests -> [state : Web!Terminal \cup {"none", "running"}, cancel : BOOLEAN, at : Web!RunPc]]
      /\ v4'[q] = r /\ \A p \in Requests \ {q} : v4'[p] = v4[p]
  BY <1>1
<1>3. /\ v1' \in [Requests -> {"idle", "locked", "done"}]
      /\ v1'[q] = h /\ \A p \in Requests \ {q} : v1'[p] = v1[p]
  BY <1>1
<1>4. /\ v6' \in [Requests -> [n : Nat, last : Nat]]
      /\ v6'[q] = e /\ \A p \in Requests \ {q} : v6'[p] = v6[p]
  BY <1>1
<1>5. /\ v8' \in [of : Requests, at : {"none", "since", "test", "ended"}, cursor : Nat]
      /\ v8'.of = v8.of /\ v8'.cursor = v8.cursor
      /\ v8'.at = "ended" => v8.at = "ended"
  BY <1>1 DEF ReaderMayStart
<1>6. ASSUME NEW p \in Requests
      PROVE /\ v6'[p].last <= v6'[p].n
            /\ v1'[p] # "done" => v4'[p].at = "none"
            /\ v4'[p].state \in Web!Terminal => v4'[p].at = "over"
            /\ v4'[p].at \in Web!Ending <=> v6'[p].last # 0
  <2>1. CASE p = q
    BY <2>1, <1>2, <1>3, <1>4
  <2>2. CASE p # q
    BY <2>2, <1>2, <1>3, <1>4 DEF Web!StreamInv
  <2> QED
    BY <2>1, <2>2
<1> DEFINE o == v8.of
<1>7. o \in Requests /\ v8.cursor \in Nat /\ v6[o].n \in Nat /\ v6'[o].n \in Nat
  BY <1>1, <1>4
<1>8. v6[o].n <= v6'[o].n
  BY <1>1, <1>4, <1>7
<1>9. v8'.cursor <= v6'[v8'.of].n
  <2>1. v8.cursor <= v6[o].n
    BY DEF Web!StreamInv
  <2> QED
    BY <2>1, <1>5, <1>7, <1>8
<1>10. v8'.at = "ended" => v4'[v8'.of].at = "over" /\ v8'.cursor >= v6'[v8'.of].last
  <2> SUFFICES ASSUME v8'.at = "ended" PROVE v4'[o].at = "over" /\ v8.cursor >= v6'[o].last
    BY <1>5
  <2>1. v4[o].at = "over" /\ v8.cursor >= v6[o].last
    BY <1>5 DEF Web!StreamInv
  <2>2. v4'[o].at = "over" /\ v6'[o].last = v6[o].last
    BY <2>1, <1>2, <1>4, <1>7
  <2> QED
    BY <2>1, <2>2
<1> QED
  BY <1>2, <1>3, <1>4, <1>5, <1>6, <1>9, <1>10 DEF Web!StreamInv

LEMMA StreamIsKept == Web!StreamInv /\ [Web!WebNext]_(Web!webVars) => Web!StreamInv'
<1> SUFFICES ASSUME Web!StreamInv, [Web!WebNext]_(Web!webVars) PROVE Web!StreamInv'
  OBVIOUS
<1> DEFINE R == [state : Web!Terminal \cup {"none", "running"}, cancel : BOOLEAN, at : Web!RunPc]
           H == {"idle", "locked", "done"}
           E == [n : Nat, last : Nat]
<1>0. /\ v4 \in [Requests -> R] /\ v1 \in [Requests -> H] /\ v6 \in [Requests -> E]
      /\ v8 \in [of : Requests, at : {"none", "since", "test", "ended"}, cursor : Nat]
      /\ v7 \subseteq Requests \X BOOLEAN
  BY DEF Web!StreamInv
<1>i. ASSUME NEW q \in Requests
      PROVE /\ v4[q] \in R /\ v1[q] \in H /\ v6[q] \in E
            /\ v6[q].last <= v6[q].n /\ v6[q].n \in Nat /\ v6[q].last \in Nat
            /\ v1[q] # "done" => v4[q].at = "none"
            /\ v4[q].state \in Web!Terminal => v4[q].at = "over"
            /\ v4[q].at \in Web!Ending <=> v6[q].last # 0
  BY <1>0 DEF Web!StreamInv
\* The run of q keeps what it has of what the step leaves alone.
<1>k. ASSUME NEW q \in Requests
      PROVE /\ v4 = [v4 EXCEPT ![q] = v4[q]]
            /\ v6 = [v6 EXCEPT ![q] = v6[q]]
            /\ v1 = [v1 EXCEPT ![q] = v1[q]]
  BY <1>0
<1>e. ASSUME NEW q \in Requests, NEW x, Web!Emit(q, x)
      PROVE  \E e \in E : /\ v6' = [v6 EXCEPT ![q] = e] /\ v6[q].n <= e.n /\ e.last <= e.n
                          /\ x \in Web!LastOnes => e.last # 0
                          /\ x \notin Web!LastOnes => e.last = v6[q].last
  <2> DEFINE k == v6[q].n + 1
             l == IF x \in Web!LastOnes THEN k ELSE v6[q].last
             e == [n |-> k, last |-> l]
  <2>1. /\ k \in Nat /\ l \in Nat /\ v6[q].n <= k /\ l <= k
        /\ x \in Web!LastOnes => l # 0
        /\ x \notin Web!LastOnes => l = v6[q].last
    BY <1>i
  <2>2. v6' = [v6 EXCEPT ![q] = e]
    BY <1>e, <1>0 DEF Web!Emit
  <2> HIDE DEF k, l
  <2>3. e \in E /\ e.n = k /\ e.last = l
    BY <2>1
  <2> HIDE DEF e
  <2> QED
    BY <2>1, <2>2, <2>3
<1>a. ASSUME NEW q \in Requests, NEW pc, pc \in Web!RunPc, Web!At(q, pc)
      PROVE  \E r \in R : /\ v4' = [v4 EXCEPT ![q] = r] /\ r.at = pc
                          /\ r.state = v4[q].state /\ r.cancel = v4[q].cancel
  <2> DEFINE r == [v4[q] EXCEPT !.at = pc]
  <2>1. v4' = [v4 EXCEPT ![q] = r]
    BY <1>0, <1>a DEF Web!At
  <2>2. r \in R /\ r.at = pc /\ r.state = v4[q].state /\ r.cancel = v4[q].cancel
    BY <1>i, <1>a
  <2> HIDE DEF r
  <2> QED
    BY <2>1, <2>2
\* A step of a run that is not over: it may move on, and log what it did.
<1>s. ASSUME NEW q \in Requests, NEW pc \in Web!RunPc, v4[q].at \in Web!RunPc \ {"none", "over"},
             UNCHANGED <<v1, v7, v8>>,
             (UNCHANGED v4 /\ pc = v4[q].at) \/ Web!At(q, pc),
             \/ UNCHANGED v6 /\ (pc \in Web!Ending <=> v4[q].at \in Web!Ending)
             \/ \E x : Web!Emit(q, x) /\ x \in Web!LastOnes /\ pc \in Web!Ending
             \/ \E x : Web!Emit(q, x) /\ x \notin Web!LastOnes /\ (pc \in Web!Ending <=> v4[q].at \in Web!Ending)
      PROVE  Web!StreamInv'
  <2>1. PICK r \in R : /\ v4' = [v4 EXCEPT ![q] = r] /\ r.at = pc
                       /\ r.state = v4[q].state /\ r.cancel = v4[q].cancel
    BY <1>s, <1>a, <1>k, <1>i
  <2>2. PICK e \in E : /\ v6' = [v6 EXCEPT ![q] = e] /\ v6[q].n <= e.n /\ e.last <= e.n
                       /\ pc \in Web!Ending <=> e.last # 0
    <3>1. CASE UNCHANGED v6 /\ (pc \in Web!Ending <=> v4[q].at \in Web!Ending)
      BY <3>1, <1>k, <1>i
    <3>2. ASSUME NEW x, Web!Emit(q, x), x \in Web!LastOnes, pc \in Web!Ending
          PROVE \E e \in E : /\ v6' = [v6 EXCEPT ![q] = e] /\ v6[q].n <= e.n /\ e.last <= e.n
                             /\ pc \in Web!Ending <=> e.last # 0
      <4>1. PICK e \in E : /\ v6' = [v6 EXCEPT ![q] = e] /\ v6[q].n <= e.n /\ e.last <= e.n /\ e.last # 0
        BY <3>2, <1>e
      <4> QED
        BY <4>1, <3>2, <1>i
    <3>3. ASSUME NEW x, Web!Emit(q, x), x \notin Web!LastOnes, pc \in Web!Ending <=> v4[q].at \in Web!Ending
          PROVE \E e \in E : /\ v6' = [v6 EXCEPT ![q] = e] /\ v6[q].n <= e.n /\ e.last <= e.n
                             /\ pc \in Web!Ending <=> e.last # 0
      <4>1. PICK e \in E : /\ v6' = [v6 EXCEPT ![q] = e] /\ v6[q].n <= e.n /\ e.last <= e.n
                           /\ e.last = v6[q].last
        BY <3>3, <1>e
      <4> QED
        BY <4>1, <3>3, <1>i
    <3> QED
      BY <1>s, <3>1, <3>2, <3>3
  <2>3. /\ v1' = [v1 EXCEPT ![q] = v1[q]] /\ v1[q] = "done"
        /\ v1[q] \in H /\ v8' = v8 /\ v7' = v7
    BY <1>s, <1>k, <1>i
  <2>4. r.state \notin Web!Terminal
    BY <2>1, <1>s, <1>i
  <2>5. Fits(q, r, e, v1[q])
    BY <2>1, <2>2, <2>3, <2>4, <1>s DEF Fits
  <2> QED
    BY <2>1, <2>2, <2>3, <2>5, <1>0, RunMoves DEF ReaderMayStart
<1>1. ASSUME NEW q \in Requests, Web!Take(q) \/ Web!Refuse(q) PROVE Web!StreamInv'
  <2>1. PICK h \in H : v1' = [v1 EXCEPT ![q] = h]
    BY <1>1, <1>k, <1>i DEF Web!Take, Web!Refuse
  <2>2. UNCHANGED <<v4, v6, v7, v8>> /\ v1[q] # "done"
    BY <1>1 DEF Web!Take, Web!Refuse
  <2>3. /\ v4' = [v4 EXCEPT ![q] = v4[q]] /\ v6' = [v6 EXCEPT ![q] = v6[q]]
        /\ v4[q] \in R /\ v6[q] \in E /\ v4[q].at = "none"
        /\ v6[q].last <= v6[q].n /\ v6[q].n <= v6[q].n
        /\ v4[q].state \in Web!Terminal => v4[q].at = "over"
        /\ v4[q].at \in Web!Ending <=> v6[q].last # 0
    BY <2>2, <1>k, <1>i
  <2>4. Fits(q, v4[q], v6[q], h)
    BY <2>1, <2>2, <2>3 DEF Fits
  <2> QED
    BY <2>1, <2>2, <2>3, <2>4, <1>0, RunMoves DEF ReaderMayStart
<1>2. ASSUME NEW q \in Requests, Web!StartRun(q) PROVE Web!StreamInv'
  <2> DEFINE r == [state |-> "running", cancel |-> FALSE, at |-> "working"]
  <2>1. /\ v1[q] # "done" /\ v1' = [v1 EXCEPT ![q] = "done"]
        /\ v4' = [v4 EXCEPT ![q] = r] /\ UNCHANGED <<v6, v7>>
        /\ v8' = v8 \/ v8' = [v8 EXCEPT !.at = "since"]
    BY <1>2 DEF Web!StartRun
  <2>2. /\ v6' = [v6 EXCEPT ![q] = v6[q]] /\ v6[q] \in E /\ v4[q].at = "none"
        /\ v6[q].last <= v6[q].n /\ v6[q].n <= v6[q].n
        /\ v6[q].last = 0
    BY <2>1, <1>k, <1>i DEF Web!Ending
  <2>3. /\ r \in R /\ r.state \notin Web!Terminal /\ r.at \notin Web!Ending
    BY DEF Web!RunPc, Web!Terminal, Web!Ending
  <2>4. \/ v8' = v8
        \/ /\ v8' \in [of : Requests, at : {"none", "since", "test"}, cursor : Nat]
           /\ v8'.of = v8.of /\ v8'.cursor = v8.cursor
    BY <2>1, <1>0
  <2> HIDE DEF r
  <2>5. v7' \subseteq Requests \X BOOLEAN
    BY <2>1, <1>0
  <2>6. Fits(q, r, v6[q], "done")
    BY <2>1, <2>2, <2>3 DEF Fits
  <2> QED
    BY <2>1, <2>2, <2>4, <2>5, <2>6, RunMoves DEF ReaderMayStart
<1>3. ASSUME NEW q \in Requests, Web!Chunk(q) PROVE Web!StreamInv'
  <2>1. /\ v4[q].at = "working" /\ UNCHANGED <<v1, v7, v8>>
        /\ \/ Web!At(q, "unwind") /\ UNCHANGED v6
           \/ Web!Emit(q, "chunk") /\ UNCHANGED v4
    BY <1>3 DEF Web!Chunk
  <2> QED
    BY <2>1, <1>s DEF Web!RunPc, Web!Ending, Web!LastOnes
<1>4. ASSUME NEW q \in Requests, Web!RequestApproval(q) PROVE Web!StreamInv'
  BY <1>4, <1>s DEF Web!RequestApproval, Web!RunPc, Web!Ending, Web!LastOnes
<1>5. ASSUME NEW q \in Requests, Web!Answered(q) PROVE Web!StreamInv'
  <2>1. v4[q].at = "asking" /\ UNCHANGED <<v1, v7, v8, v6>> /\ (Web!At(q, "unwind") \/ Web!At(q, "working"))
    BY <1>5 DEF Web!Answered
  <2> QED
    BY <2>1, <1>s DEF Web!RunPc, Web!Ending
<1>6. ASSUME NEW q \in Requests, Web!AskTimeout(q) PROVE Web!StreamInv'
  BY <1>6, <1>s DEF Web!AskTimeout, Web!RunPc, Web!Ending, Web!LastOnes
<1>7. ASSUME NEW q \in Requests, Web!Complete(q) PROVE Web!StreamInv'
  <2>1. /\ v4[q].at = "working" /\ UNCHANGED <<v1, v7, v8>>
        /\ \/ Web!Emit(q, "done") /\ Web!At(q, "finish")
           \/ UNCHANGED v6 /\ Web!At(q, "fail")
    BY <1>7 DEF Web!Complete
  <2> QED
    BY <2>1, <1>s DEF Web!RunPc, Web!Ending, Web!LastOnes
<1>8. ASSUME NEW q \in Requests, Web!WorkFails(q) PROVE Web!StreamInv'
  <2>1. /\ v4[q].at = "working" /\ UNCHANGED <<v1, v7, v8>> /\ Web!At(q, "fail")
        /\ UNCHANGED v6 \/ Web!Emit(q, "conversation")
    BY <1>8 DEF Web!WorkFails
  <2> QED
    BY <2>1, <1>s DEF Web!RunPc, Web!Ending, Web!LastOnes
<1>9. ASSUME NEW q \in Requests, Web!Unwind(q) PROVE Web!StreamInv'
  <2>1. /\ v4[q].at = "unwind" /\ UNCHANGED <<v1, v7, v8>>
        /\ \/ Web!Emit(q, "conversation") /\ Web!At(q, "cancel")
           \/ UNCHANGED v6 /\ Web!At(q, "fail")
    BY <1>9 DEF Web!Unwind
  <2> QED
    BY <2>1, <1>s DEF Web!RunPc, Web!Ending, Web!LastOnes
<1>10. ASSUME NEW q \in Requests, Web!LastEvent(q) PROVE Web!StreamInv'
  <2>1. /\ v4[q].at \in {"fail", "cancel"} /\ UNCHANGED <<v1, v7, v8>>
        /\ Web!Emit(q, "error") \/ Web!Emit(q, "cancelled")
        /\ Web!At(q, "failed") \/ Web!At(q, "cancelled")
    BY <1>10 DEF Web!LastEvent
  <2> QED
    BY <2>1, <1>s DEF Web!RunPc, Web!Ending, Web!LastOnes
<1>11. ASSUME NEW q \in Requests, Web!FinishRun(q) PROVE Web!StreamInv'
  <2> DEFINE s == IF v4[q].at = "finish" THEN "succeeded" ELSE v4[q].at
             r == [v4[q] EXCEPT !.state = s, !.at = "over"]
  <2>1. /\ v4[q].at \in {"finish", "failed", "cancelled"} /\ UNCHANGED <<v1, v6, v7, v8>>
        /\ v4' = [v4 EXCEPT ![q] = r]
    BY <1>11, <1>0 DEF Web!FinishRun
  <2>2. s \in Web!Terminal
    BY <2>1 DEF Web!Terminal
  <2> HIDE DEF s
  <2>3. r \in R /\ r.at = "over"
    BY <2>2, <1>i DEF Web!RunPc, Web!Ending
  <2> HIDE DEF r
  <2>4. /\ v6' = [v6 EXCEPT ![q] = v6[q]] /\ v6[q] \in E
        /\ v6[q].last <= v6[q].n /\ v6[q].n <= v6[q].n
        /\ v6[q].last # 0 /\ v1[q] \in H /\ v1[q] = "done"
        /\ v1' = [v1 EXCEPT ![q] = v1[q]]
    BY <2>1, <1>k, <1>i DEF Web!Ending
  <2>5. v7' \subseteq Requests \X BOOLEAN /\ v8' = v8 /\ r.at \in Web!Ending
    BY <2>1, <2>3, <1>0 DEF Web!Ending
  <2>6. Fits(q, r, v6[q], v1[q])
    BY <2>1, <2>3, <2>4, <2>5 DEF Fits
  <2>7. ReaderMayStart /\ v4' = [v4 EXCEPT ![q] = r] /\ v6' = [v6 EXCEPT ![q] = v6[q]]
        /\ v1' = [v1 EXCEPT ![q] = v1[q]]
    BY <2>1, <2>4, <2>5 DEF ReaderMayStart
  <2> QED
    BY ONLY Web!StreamInv, q \in Requests, <2>5, <2>6, <2>7, RunMoves
<1>12. ASSUME NEW q \in Requests, Web!Cancel(q) PROVE Web!StreamInv'
  <2> DEFINE r == [v4[q] EXCEPT !.cancel = TRUE]
  <2>1. UNCHANGED <<v1, v6, v7, v8>> /\ v4' = [v4 EXCEPT ![q] = r]
    BY <1>12, <1>0 DEF Web!Cancel
  <2>2. r \in R /\ r.at = v4[q].at /\ r.state = v4[q].state
    BY <1>i
  <2> HIDE DEF r
  <2>3. /\ v6' = [v6 EXCEPT ![q] = v6[q]] /\ v6[q] \in E
        /\ v6[q].last <= v6[q].n /\ v6[q].n <= v6[q].n
        /\ v1[q] \in H /\ v1' = [v1 EXCEPT ![q] = v1[q]]
        /\ v1[q] # "done" => v4[q].at = "none"
        /\ v4[q].state \in Web!Terminal => v4[q].at = "over"
        /\ v4[q].at \in Web!Ending <=> v6[q].last # 0
    BY <2>1, <1>k, <1>i
  <2>4. v7' \subseteq Requests \X BOOLEAN /\ v8' = v8
    BY <2>1, <1>0
  <2>5. Fits(q, r, v6[q], v1[q])
    BY <2>2, <2>3 DEF Fits
  <2>6. ReaderMayStart /\ v4' = [v4 EXCEPT ![q] = r] /\ v6' = [v6 EXCEPT ![q] = v6[q]]
        /\ v1' = [v1 EXCEPT ![q] = v1[q]]
    BY <2>1, <2>3, <2>4 DEF ReaderMayStart
  <2> QED
    BY ONLY Web!StreamInv, q \in Requests, <2>4, <2>5, <2>6, RunMoves
<1>13. ASSUME NEW q \in Requests, NEW yes \in BOOLEAN, Web!Decide(q, yes) PROVE Web!StreamInv'
  BY <1>13 DEF Web!Decide, Web!StreamInv
<1>14. ASSUME Web!DecideWrites PROVE Web!StreamInv'
  <2>1. PICK d \in v7 : v7' = v7 \ {d} /\ Web!Emit(d[1], "answered")
    BY <1>14 DEF Web!DecideWrites
  <2>2. d[1] \in Requests /\ v7' \subseteq Requests \X BOOLEAN /\ UNCHANGED <<v1, v4, v8>>
    BY <1>0, <1>14, <2>1 DEF Web!DecideWrites
  <2> DEFINE q == d[1]
  <2>3. PICK e \in E : /\ v6' = [v6 EXCEPT ![q] = e] /\ v6[q].n <= e.n /\ e.last <= e.n
                       /\ e.last = v6[q].last
    BY <1>e, <2>1, <2>2 DEF Web!LastOnes
  <2> HIDE DEF q
  <2>4. q \in Requests
    BY <2>2 DEF q
  <2>5. /\ v1[q] \in H /\ v1' = [v1 EXCEPT ![q] = v1[q]]
        /\ v4' = [v4 EXCEPT ![q] = v4[q]] /\ v4[q] \in R
        /\ e.last <= e.n /\ v6[q].n <= e.n
        /\ v1[q] # "done" => v4[q].at = "none"
        /\ v4[q].state \in Web!Terminal => v4[q].at = "over"
        /\ v4[q].at \in Web!Ending <=> e.last # 0
    BY <2>2, <2>3, <2>4, <1>k, <1>i
  <2>6. Fits(q, v4[q], e, v1[q])
    BY <2>3, <2>5 DEF Fits
  <2> QED
    BY <2>2, <2>3, <2>4, <2>5, <2>6, RunMoves DEF ReaderMayStart
<1>15. ASSUME Web!Since PROVE Web!StreamInv'
  <2>1. /\ v8' = [v8 EXCEPT !.at = "test", !.cursor = v6[v8.of].n]
        /\ UNCHANGED <<v1, v4, v6, v7>>
    BY <1>15 DEF Web!Since
  <2>2. v8.of \in Requests /\ v6[v8.of].n \in Nat
    BY <1>0, <1>i
  <2>3. v8' \in [of : Requests, at : {"none", "since", "test", "ended"}, cursor : Nat]
        /\ v8'.at = "test" /\ v8'.cursor = v6[v8.of].n /\ v8'.of = v8.of
    BY <2>1, <2>2, <1>0
  <2> QED
    BY <2>1, <2>2, <2>3 DEF Web!StreamInv
<1>16. ASSUME Web!TestEnd PROVE Web!StreamInv'
  <2>1. /\ v8' = [v8 EXCEPT !.at = IF Web!StreamEnds THEN "ended" ELSE "since"]
        /\ UNCHANGED <<v1, v4, v6, v7>>
    BY <1>16 DEF Web!TestEnd
  <2>2. /\ v8.of \in Requests /\ v6[v8.of].n \in Nat /\ v6[v8.of].last \in Nat
        /\ v6[v8.of].last <= v6[v8.of].n /\ v8.cursor \in Nat
        /\ v4[v8.of].state \in Web!Terminal => v4[v8.of].at = "over"
    BY <1>0, <1>i
  <2>3. v8' \in [of : Requests, at : {"none", "since", "test", "ended"}, cursor : Nat]
        /\ v8'.cursor = v8.cursor /\ v8'.of = v8.of
        /\ v8'.at = "ended" => Web!StreamEnds
    BY <2>1, <2>2, <1>0
  <2>4. Web!StreamEnds => v4[v8.of].at = "over" /\ v8.cursor >= v6[v8.of].last
    BY <2>2 DEF Web!StreamEnds
  <2> QED
    BY <2>1, <2>2, <2>3, <2>4 DEF Web!StreamInv
<1>17. ASSUME NEW q \in Requests, Web!CancelFreesAsk(q) PROVE Web!StreamInv'
  BY <1>17 DEF Web!CancelFreesAsk, Web!StreamInv
<1>18. ASSUME Web!Delete \/ UNCHANGED Web!webVars PROVE Web!StreamInv'
  BY <1>18 DEF Web!Delete, Web!webVars, Web!StreamInv
<1> QED
  BY <1>1, <1>2, <1>3, <1>4, <1>5, <1>6, <1>7, <1>8, <1>9, <1>10, <1>11, <1>12, <1>13, <1>14,
     <1>15, <1>16, <1>17, <1>18 DEF Web!WebNext, Web!RunStep

LEMMA StreamShows == Web!StreamInv => Web!StreamIsWhole
BY DEF Web!StreamInv, Web!StreamIsWhole, Web!Ending

(* For every set of requests and of prompts: a tool of a Web run that needs *)
(* an approval goes on only when there is one, and a prompt of a graph is   *)
(* used no more often than it was approved.                                 *)
THEOREM UsesHaveApprovals == Spec => []UsesAreApproved
<1> DEFINE One == scene = "web" => Web!YesInv
           Two == scene = "jobs" => Jobs!UseInv
<1>1. Init => One /\ Two
  BY YesInitially, JobsInitially DEF Init
<1>2. One /\ [Next]_vars => One'
  BY SceneStep, YesIsKept
<1>3. Two /\ [Next]_vars => Two'
  BY SceneStep, JobsAreKept
<1>4. One /\ Two => UsesAreApproved
  BY YesShows, JobsShow DEF UsesAreApproved
<1> QED
  BY <1>1, <1>2, <1>3, <1>4, PTL DEF Spec

-----------------------------------------------------------------------------
(* The streams of the RPC gateway (RpcStreams).                             *)

LEMMA PagesInitially == Rpc!RpcInit => Rpc!PageInv
<1> SUFFICES ASSUME Rpc!RpcInit PROVE Rpc!PageInv
  OBVIOUS
<1>1. 1..0 = {}
  OBVIOUS
<1> DEFINE P == Rpc!Pages
<1>2. Rpc!NoPage \in P /\ Rpc!NoPage.next = 0 /\ Rpc!NoPage.seen = {}
  BY DEF Rpc!NoPage, Rpc!Pages
<1> HIDE DEF P
<1>3. v6 = [s \in Streams |-> 0] /\ v10 = [s \in Streams |-> Rpc!NoPage]
  BY DEF Rpc!RpcInit
<1>4. v6 \in [Streams -> Nat] /\ v10 \in [Streams -> P]
  BY <1>2, <1>3
<1>5. \A s \in Streams : v10[s].next = 0 /\ v10[s].seen = {} /\ v6[s] = 0
  BY <1>2, <1>3
<1>6. Rpc!PagesAreWhole
  <2> SUFFICES ASSUME NEW s \in Streams PROVE v10[s].seen = 1..v10[s].next
    BY DEF Rpc!PagesAreWhole, Rpc!Whole
  <2> QED
    BY <1>1, <1>5
<1> QED
  BY <1>4, <1>5, <1>6 DEF Rpc!PageInv, P

LEMMA PagesAreKept == Rpc!PageInv /\ [Rpc!RpcNext]_(Rpc!rpcVars) => Rpc!PageInv'
<1> SUFFICES ASSUME Rpc!PageInv, [Rpc!RpcNext]_(Rpc!rpcVars) PROVE Rpc!PageInv'
  OBVIOUS
<1> DEFINE P == Rpc!Pages
<1>0. v6 \in [Streams -> Nat] /\ v10 \in [Streams -> P]
  BY DEF Rpc!PageInv
<1>1. ASSUME NEW s \in Streams, Rpc!Event(s), UNCHANGED v10 PROVE Rpc!PageInv'
  <2>1. v6' \in [Streams -> Nat] /\ \A t \in Streams : v6[t] <= v6'[t]
    BY <1>0, <1>1 DEF Rpc!Event
  <2>2. \A t \in Streams : v10[t].next <= v6'[t]
    BY <1>0, <2>1 DEF Rpc!PageInv, Rpc!Pages
  <2> QED
    BY <1>1, <2>1, <2>2 DEF Rpc!PageInv, Rpc!PagesAreWhole, Rpc!Whole
<1>2. ASSUME UNCHANGED <<v6, v10>> PROVE Rpc!PageInv'
  BY <1>2 DEF Rpc!PageInv, Rpc!PagesAreWhole, Rpc!Whole
<1>3. ASSUME NEW s \in Streams, NEW tell \in BOOLEAN, tell = (s \notin Pushed),
             Rpc!Read(s, tell)
      PROVE Rpc!PageInv'
  <2> DEFINE after == v10[s].next
             new == {n \in Rpc!Oldest(s)..v6[s] : n > after}
             d == s \in v9
             g == v10[s].gap \/ (tell /\ Rpc!Missed(s, after))
             late == v10[s].slow \/ v6[s] > after + Window
             told == IF s \in Pushed THEN late ELSE g
             p == [next |-> v6[s], seen |-> v10[s].seen \cup new, gap |-> g, slow |-> late,
                   done |-> d]
  <2>1. v10' = [v10 EXCEPT ![s] = p] /\ v6' = v6
    BY <1>3, <1>0 DEF Rpc!Read
  <2>2. /\ v6[s] \in Nat /\ after \in Nat /\ after <= v6[s] /\ v10[s] \in P
    BY <1>0 DEF Rpc!PageInv, Rpc!Pages
  <2>w. v10[s].seen = 1..after \/ told
    BY DEF Rpc!PageInv, Rpc!PagesAreWhole, Rpc!Whole
  <2>3. Rpc!Oldest(s) \in Nat /\ 1 <= Rpc!Oldest(s)
    BY <2>2, RpcAssumption DEF Rpc!Oldest
  <2>4. ASSUME ~told PROVE v10[s].seen \cup new = 1..v6[s]
    <3>1. after + 1 >= Rpc!Oldest(s) \/ after = v6[s]
      <4>1. CASE s \notin Pushed
        <5>1. ~Rpc!Missed(s, after)
          BY <1>3, <2>4, <4>1, Zenon
        <5> QED
          BY <2>2, <2>3, <5>1 DEF Rpc!Missed
      <4>2. CASE s \in Pushed
        BY <2>2, <2>4, <4>2, RpcAssumption DEF Rpc!Oldest
      <4> QED
        BY <4>1, <4>2
    <3>2. v10[s].seen = 1..after
      BY <2>w, <2>4
    <3>3. \A n \in 1..v6[s] : n \in 1..after \/ n \in new
      BY <2>2, <2>3, <3>1
    <3>4. \A n \in new : n \in 1..v6[s]
      BY <2>2, <2>3
    <3>5. \A n \in 1..after : n \in 1..v6[s]
      BY <2>2
    <3> QED
      BY <3>2, <3>3, <3>4, <3>5
  <2>5. new \subseteq Nat /\ v10[s].seen \subseteq Nat
    BY <2>2, <2>3 DEF Rpc!Pages
  <2> HIDE DEF new
  <2>6. g \in BOOLEAN /\ d \in BOOLEAN /\ late \in BOOLEAN
    BY <2>2, <2>3 DEF Rpc!Missed, Rpc!Pages
  <2> DEFINE v == v10[s].seen \cup new
  <2>7. v \in SUBSET Nat
    BY <2>5
  <2> HIDE DEF g, d, v, late
  <2>8. p = [next |-> v6[s], seen |-> v, gap |-> g, slow |-> late, done |-> d]
    BY DEF v
  <2>9. /\ p \in P /\ p.next = v6[s] /\ p.gap = g /\ p.slow = late
        /\ p.seen = v
    BY <1>3, <2>2, <2>6, <2>7, <2>8 DEF Rpc!Pages
  <2> HIDE DEF p, P
  <2>10. v10' \in [Streams -> P] /\ v10'[s] = p /\ \A t \in Streams \ {s} : v10'[t] = v10[t]
    BY <1>0, <2>1, <2>9
  <2>11. \A t \in Streams : v10'[t].next <= v6[t]
    BY <2>2, <2>9, <2>10 DEF Rpc!PageInv
  <2>12. Rpc!PagesAreWhole'
    <3>1. p.seen = 1..p.next \/ (IF s \in Pushed THEN p.slow ELSE p.gap)
      BY <2>4, <2>9 DEF v
    <3> QED
      BY <2>10, <3>1 DEF Rpc!PageInv, Rpc!PagesAreWhole, Rpc!Whole
  <2> QED
    BY <1>0, <2>1, <2>10, <2>11, <2>12 DEF Rpc!PageInv, P
<1>4. ASSUME NEW s \in Streams, Rpc!StreamStep(s) PROVE Rpc!PageInv'
  BY <1>1, <1>2, <1>3, <1>4 DEF Rpc!StreamStep, Rpc!StreamStart, Rpc!StartsChild, Rpc!Writes, Rpc!Exits, Rpc!Pump, Rpc!ProcessReaped,
     Rpc!PumpsJoined, Rpc!Finish, Rpc!CancelChecked, Rpc!CancelAsked, Rpc!GraceOver, Rpc!Terminates,
     Rpc!Poll, Rpc!Push
<1> QED
  BY <1>2, <1>4 DEF Rpc!RpcNext, Rpc!rpcVars

LEMMA PagesShow == Rpc!PageInv => Rpc!PagesAreWhole
BY DEF Rpc!PageInv

(* For any number of requests and streams, and windows of any size: a       *)
(* stream of a Web run that ends was sent every event its run wrote; a      *)
(* client that polls an RPC stream has every event up to its number or was  *)
(* told that it has not; and one that reads server-sent events has them     *)
(* unless more came between two of its reads than the window holds.         *)
THEOREM NothingIsMissed == Spec => []ReadersMissNothing
<1> DEFINE One == scene = "web" => Web!StreamInv
           Two == scene = "rpc" => Rpc!PageInv
<1>1. Init => One /\ Two
  BY StreamInitially, PagesInitially DEF Init
<1>2. One /\ [Next]_vars => One'
  BY SceneStep, StreamIsKept
<1>3. Two /\ [Next]_vars => Two'
  BY SceneStep, PagesAreKept
<1>4. One /\ Two => ReadersMissNothing
  BY StreamShows, PagesShow DEF ReadersMissNothing
<1> QED
  BY <1>1, <1>2, <1>3, <1>4, PTL DEF Spec

-----------------------------------------------------------------------------
(* The records of graph runs (GraphRecords).                                *)

LEMMA RecordsInitially == Records!Init => Records!ClaimsInv
<1>1. Records!Init => Records!TypeOK
  BY DEF Records!Init, Records!TypeOK
<1> QED
  BY <1>1 DEF Records!Init, Records!ClaimsInv, Records!Idle, Records!RecordsClaimRealWork

(* The search from the end finds a record of the run.                       *)
LEMMA FoundIsOfRun ==
    ASSUME v1 \in Seq(Records!Record), NEW r \in Run, Records!PlacesOf(r) # {}
    PROVE  Records!Max(Records!PlacesOf(r)) \in Records!PlacesOf(r)
<1> DEFINE P == Records!PlacesOf(r)
           n == Len(v1)
           T == {k \in Nat : \E i \in P : k + i = n}
<1>1. n \in Nat /\ P \subseteq 1..n
  BY DEF Records!PlacesOf
<1>2. T \subseteq Nat /\ T # {}
  <2>1. PICK i \in P : TRUE
    OBVIOUS
  <2>2. n - i \in T
    BY <1>1, <2>1
  <2> QED
    BY <2>2
<1> HIDE DEF P, n
<1>3. PICK k \in T : \A l \in T : ~(<<l, k>> \in OpToRel(<, Nat))
  <2> HIDE DEF T
  <2> QED
    BY ONLY <1>2, NatLessThanWellFounded, WFMin
<1>4. PICK i \in P : k + i = n
  BY <1>3
<1>5. ASSUME NEW j \in P PROVE i >= j
  <2>1. SUFFICES ASSUME j > i PROVE FALSE
    BY <1>1
  <2>2. n - j \in T /\ n - j < k
    BY <1>1, <1>4, <2>1
  <2>3. n - j \in Nat /\ k \in Nat
    BY <1>2, <1>3, <2>2
  <2> DEFINE l == n - j
  <2> HIDE DEF l, T
  <2>4. l \in T /\ l \in Nat /\ k \in Nat /\ l < k
    BY <2>2, <2>3 DEF l
  <2>5. <<l, k>> \in OpToRel(<, Nat)
    BY <2>4, Zenon DEF OpToRel
  <2> QED
    BY <1>3, <2>4, <2>5
<1>6. \E m \in P : \A j \in P : m >= j
  BY <1>5
<1> QED
  BY <1>6 DEF Records!Max, P

LEMMA RecordsAreKept == Records!ClaimsInv /\ [Records!Next]_(Records!recordVars) => Records!ClaimsInv'
<1> SUFFICES ASSUME Records!ClaimsInv, [Records!Next]_(Records!recordVars) PROVE Records!ClaimsInv'
  OBVIOUS
<1> USE DEF Records!ClaimsInv
<1> DEFINE Claims(x) == /\ Records!Done(x.record) \subseteq v3[x.record.run]
                        /\ x.record.status = "succeeded" => Records!Succeeds(x.record)
                        /\ x.pc # "concluded" => x.record.status = "running"
<1>1. ASSUME NEW e \in Executor, NEW x, v2' = [ v2 EXCEPT ![e] = x ], v3' = v3,
             (x \in Records!Execution /\ Claims(x)) \/ x = Records!Idle,
             v1' \in Seq(Records!Record), Records!RecordsClaimRealWork'
      PROVE  Records!ClaimsInv'
  <2>1. Records!TypeOK'
    BY <1>1 DEF Records!TypeOK
  <2>2. Records!Idle.pc = "idle" /\ \A y \in Records!Execution : y.pc # "idle"
    BY DEF Records!Idle, Records!Execution
  <2>3. \A f \in Executor \ {e} : v2'[f] = v2[f]
    BY <1>1 DEF Records!TypeOK
  <2>4. v2'[e] = x
    BY <1>1 DEF Records!TypeOK
  <2> QED
    BY <1>1, <2>1, <2>2, <2>3, <2>4
<1>2. ASSUME v1' = v1, v3' = v3 PROVE Records!RecordsClaimRealWork' /\ v1' \in Seq(Records!Record)
  BY <1>2 DEF Records!RecordsClaimRealWork, Records!TypeOK
<1>3. ASSUME NEW r \in Run, NEW done \in SUBSET Job, done \subseteq v3[r]
      PROVE  Records!Starting(r, done) \in Records!Execution /\ Claims(Records!Starting(r, done))
  <2> DEFINE rec == [ run |-> r, status |-> "running", nodes |-> Records!Only(done) ]
  <2>1. Records!Only(done) \in [ Job -> Records!Ended \cup { "pending" } ]
    BY DEF Records!Only, Records!Ended
  <2>2. \A j \in Job : Records!Only(done)[j] = "succeeded" <=> j \in done
    BY DEF Records!Only
  <2>3. rec \in Records!Record /\ rec.run = r /\ rec.status = "running" /\ rec.nodes = Records!Only(done)
    BY <2>1 DEF Records!Record, Records!Status
  <2> HIDE DEF rec
  <2>4. Records!Done(rec) \subseteq done
    BY <2>2, <2>3 DEF Records!Done
  <2>5. Records!Starting(r, done) = [ pc |-> "opening", record |-> rec ]
    BY DEF Records!Starting, rec
  <2> QED
    BY <1>3, <2>3, <2>4, <2>5 DEF Records!Execution
<1>4. ASSUME NEW e \in Executor, NEW r \in Run, Records!Start(e, r) PROVE Records!ClaimsInv'
  <2>1. Records!Starting(r, {}) \in Records!Execution /\ Claims(Records!Starting(r, {}))
    BY <1>3
  <2>2. UNCHANGED <<v1, v3>> /\ v2' = [ v2 EXCEPT ![e] = Records!Starting(r, {}) ]
    BY <1>4 DEF Records!Start
  <2> QED
    BY <1>1, <1>2, <2>1, <2>2
<1>5. ASSUME NEW e \in Executor, NEW r \in Run, NEW inv \in SUBSET Job, Records!Resume(e, r, inv) PROVE Records!ClaimsInv'
  <2> DEFINE done == IF Restarts THEN {} ELSE Records!Done(Records!FindRun(r)) \ inv
  <2>1. UNCHANGED <<v1, v3>> /\ v2' = [ v2 EXCEPT ![e] = Records!Starting(r, done) ] /\ Records!PlacesOf(r) # {}
    BY <1>5 DEF Records!Resume
  <2>2. Records!Max(Records!PlacesOf(r)) \in Records!PlacesOf(r)
    BY <2>1, FoundIsOfRun DEF Records!TypeOK
  <2> DEFINE i == Records!Max(Records!PlacesOf(r))
  <2> HIDE DEF i
  <2>2a. i \in DOMAIN v1 /\ v1[i].run = r
    BY <2>2 DEF Records!PlacesOf, i
  <2>2b. v1[i] \in Records!Record /\ Records!Done(v1[i]) \subseteq v3[r]
    BY <2>2a DEF Records!TypeOK, Records!RecordsClaimRealWork
  <2>3. Records!FindRun(r) \in Records!Record /\ Records!Done(Records!FindRun(r)) \subseteq v3[r]
    BY <2>2b DEF Records!FindRun, i
  <2>4. Records!Done(Records!FindRun(r)) \subseteq Job
    BY DEF Records!Done
  <2>5. done \in SUBSET Job /\ done \subseteq v3[r]
    BY <2>3, <2>4
  <2> HIDE DEF done
  <2>6. Records!Starting(r, done) \in Records!Execution /\ Claims(Records!Starting(r, done))
    BY <1>3, <2>5
  <2> QED
    BY <1>1, <1>2, <2>1, <2>6
<1>6. ASSUME NEW e \in Executor, Records!Open(e) PROVE Records!ClaimsInv'
  <2> DEFINE x == [ v2[e] EXCEPT !.pc = "running" ]
             rec == [ v2[e].record EXCEPT !.nodes = Records!Only({}) ]
  <2>1. v2[e] \in Records!Execution /\ Claims(v2[e]) /\ v2[e].pc = "opening"
    <3>1. v2[e].pc = "opening" /\ v2[e] \in Records!Execution \cup {Records!Idle}
      BY <1>6 DEF Records!Open, Records!TypeOK
    <3>2. v2[e] \in Records!Execution
      BY <3>1 DEF Records!Idle
    <3>3. Claims(v2[e])
      BY <3>1
    <3> QED
      BY <3>1, <3>2, <3>3
  <2>2. x \in Records!Execution /\ Claims(x)
    <3>1. x \in Records!Execution /\ x.pc = "running" /\ x.record = v2[e].record
      BY <2>1 DEF Records!Execution
    <3> HIDE DEF x
    <3> QED
      BY <2>1, <3>1 DEF Records!Execution
  <2>3. rec \in Records!Record /\ rec.nodes = Records!Only({}) /\ rec.status = "running"
    BY <2>1 DEF Records!Execution, Records!Record, Records!Only, Records!Ended
  <2>4. UNCHANGED v3 /\ v2' = [ v2 EXCEPT ![e] = x ] /\ v1' = Append(v1, rec)
    BY <1>6 DEF Records!Open
  <2> HIDE DEF x, rec
  <2>3a. Records!Done(rec) = {}
    BY <2>3 DEF Records!Done, Records!Only
  <2>5. /\ v1' \in Seq(Records!Record)
        /\ \A i \in DOMAIN v1' : v1'[i] = rec \/ (i \in DOMAIN v1 /\ v1'[i] = v1[i])
    BY <2>3, <2>4 DEF Records!TypeOK
  <2>6. Records!RecordsClaimRealWork'
    BY <2>3, <2>3a, <2>4, <2>5 DEF Records!RecordsClaimRealWork
  <2> QED
    BY <1>1, <2>2, <2>4, <2>5, <2>6
<1>7. ASSUME NEW e \in Executor, NEW j \in Job, NEW how \in Records!Ended, Records!FinishJob(e, j, how)
      PROVE  Records!ClaimsInv'
  <2> DEFINE r == v2[e].record.run
             x == v2'[e]
  <2>1. v2[e] \in Records!Execution /\ Claims(v2[e]) /\ v2[e].pc = "running" /\ r \in Run
    BY <1>7 DEF Records!FinishJob, Records!TypeOK, Records!Idle, Records!Execution, Records!Record
  <2> DEFINE gain == IF how = "succeeded" THEN { j } ELSE {}
  <2>2. /\ v2' = [ v2 EXCEPT ![e].record.nodes[j] = how ] /\ v1' = v1
        /\ v3' = [ v3 EXCEPT ![r] = @ \cup gain ]
    BY <1>7 DEF Records!FinishJob
  <2>2a. gain \subseteq Job /\ (how = "succeeded" => j \in gain)
    OBVIOUS
  <2> HIDE DEF gain
  <2>3. /\ v3' \in [ Run -> SUBSET Job ] /\ v3'[r] = v3[r] \cup gain
        /\ \A q \in Run : v3[q] \subseteq v3'[q]
    BY <2>1, <2>2, <2>2a DEF Records!TypeOK
  <2>4. /\ x = [ v2[e] EXCEPT !.record.nodes[j] = how ]
        /\ \A f \in Executor \ {e} : v2'[f] = v2[f]
        /\ DOMAIN v2' = Executor /\ v2' = [ f \in Executor |-> v2'[f] ]
    BY <2>2 DEF Records!TypeOK
  <2>5. /\ x \in Records!Execution /\ x.pc = "running" /\ x.record.run = r
        /\ x.record.status = v2[e].record.status
        /\ x.record.nodes = [ v2[e].record.nodes EXCEPT ![j] = how ]
    BY <2>1, <2>4 DEF Records!Execution, Records!Record
  <2>5a. Records!Done(x.record) \subseteq Records!Done(v2[e].record) \cup gain
    BY <2>1, <2>2a, <2>5 DEF Records!Done, Records!Execution, Records!Record
  <2>6. Records!TypeOK'
    BY <2>2, <2>3, <2>4, <2>5 DEF Records!TypeOK
  <2>7. Records!RecordsClaimRealWork'
    BY <2>2, <2>3 DEF Records!RecordsClaimRealWork, Records!TypeOK, Records!Record
  <2>8. ASSUME NEW f \in Executor \ {e}, v2'[f].pc # "idle"
        PROVE  /\ Records!Done(v2'[f].record) \subseteq v3'[v2'[f].record.run]
               /\ v2'[f].record.status = "succeeded" => Records!Succeeds(v2'[f].record)
               /\ v2'[f].pc # "concluded" => v2'[f].record.status = "running"
    <3>1. v2[f] \in Records!Execution /\ Claims(v2[f])
      BY <2>4, <2>8 DEF Records!TypeOK, Records!Idle
    <3> QED
      BY <2>3, <2>4, <3>1 DEF Records!Execution, Records!Record
  <2>9. /\ Records!Done(v2'[e].record) \subseteq v3'[v2'[e].record.run]
        /\ v2'[e].record.status = "succeeded" => Records!Succeeds(v2'[e].record)
        /\ v2'[e].pc # "concluded" => v2'[e].record.status = "running"
    BY <2>1, <2>3, <2>5, <2>5a
  <2> HIDE DEF x, r
  <2> QED
    BY <2>6, <2>7, <2>8, <2>9
<1>8. ASSUME NEW e \in Executor, NEW s \in Records!Status \ { "running" }, Records!Conclude(e, s) PROVE Records!ClaimsInv'
  <2> DEFINE rec == [ v2[e].record EXCEPT !.status = s ]
             x == [ pc |-> "concluded", record |-> rec ]
  <2>1. v2[e] \in Records!Execution /\ Claims(v2[e]) /\ v2[e].pc = "running" /\ (s = "succeeded" => Records!Succeeds(v2[e].record))
    BY <1>8 DEF Records!Conclude, Records!TypeOK, Records!Idle
  <2>2. rec \in Records!Record /\ rec.run = v2[e].record.run /\ rec.nodes = v2[e].record.nodes /\ rec.status = s
    BY <2>1 DEF Records!Execution, Records!Record
  <2>3. [ v2[e] EXCEPT !.pc = "concluded", !.record.status = s ] = x
    <3>1. v2[e] = [ pc |-> v2[e].pc, record |-> v2[e].record ]
      BY <2>1 DEF Records!Execution
    <3>2. [ v2[e] EXCEPT !.pc = "concluded" ] = [ pc |-> "concluded", record |-> v2[e].record ]
      BY <3>1
    <3> DEFINE y == [ pc |-> "concluded", record |-> v2[e].record ]
    <3>3. [ y EXCEPT !.record.status = s ] = x
      OBVIOUS
    <3> QED
      BY <3>2, <3>3
  <2>4. UNCHANGED <<v1, v3>> /\ v2' = [ v2 EXCEPT ![e] = x ]
    BY <1>8, <2>3 DEF Records!Conclude, Records!TypeOK
  <2>5. x \in Records!Execution /\ Claims(x)
    <3>1. Records!Done(rec) = Records!Done(v2[e].record)
      BY <2>2 DEF Records!Done
    <3>2. Records!Succeeds(rec) = Records!Succeeds(v2[e].record)
      BY <2>2 DEF Records!Succeeds
    <3>3. x.record = rec /\ x.pc = "concluded"
      OBVIOUS
    <3> HIDE DEF rec
    <3>4. x \in Records!Execution
      BY <2>2 DEF Records!Execution
    <3> QED
      BY <2>1, <2>2, <3>1, <3>2, <3>3, <3>4
  <2> HIDE DEF x
  <2> QED
    BY <1>1, <1>2, <2>4, <2>5
<1>9. ASSUME NEW e \in Executor, Records!Persist(e) PROVE Records!ClaimsInv'
  <2> DEFINE rec == v2[e].record
  <2>1. v2[e] \in Records!Execution /\ Claims(v2[e])
    BY <1>9 DEF Records!Persist, Records!TypeOK, Records!Idle
  <2>2. rec \in Records!Record /\ Records!Done(rec) \subseteq v3[rec.run]
        /\ (rec.status = "succeeded" => Records!Succeeds(rec))
    BY <2>1 DEF Records!Execution
  <2>3. UNCHANGED v3 /\ v2' = [ v2 EXCEPT ![e] = Records!Idle ]
        /\ v1' = [ v1 EXCEPT ![Records!FirstPlace(v2[e].record.run)] = rec ]
    BY <1>9 DEF Records!Persist
  <2> HIDE DEF rec
  <2> DEFINE p == Records!FirstPlace(v2[e].record.run)
  <2> HIDE DEF p
  <2>4. /\ DOMAIN v1' = DOMAIN v1 /\ v1' \in Seq(Records!Record)
        /\ \A i \in DOMAIN v1' : v1'[i] = rec \/ v1'[i] = v1[i]
    <3>1. v1' = [ v1 EXCEPT ![p] = rec ]
      BY <2>3 DEF p
    <3>2. DOMAIN v1' = DOMAIN v1
      BY <3>1
    <3>3. ASSUME NEW i \in DOMAIN v1' PROVE (v1'[i] = rec \/ v1'[i] = v1[i]) /\ v1'[i] \in Records!Record
      BY <2>2, <3>1, <3>2, <3>3 DEF Records!TypeOK
    <3>4. Len(v1) \in Nat /\ DOMAIN v1 = 1..Len(v1)
      BY DEF Records!TypeOK
    <3>5. v1' = [ i \in 1..Len(v1) |-> v1'[i] ]
      BY <3>1, <3>4
    <3>6. v1' \in [ 1..Len(v1) -> Records!Record ]
      BY <3>2, <3>3, <3>4, <3>5
    <3> QED
      BY <3>2, <3>3, <3>4, <3>6, SeqDef
  <2>5. Records!RecordsClaimRealWork'
    BY <2>2, <2>3, <2>4 DEF Records!RecordsClaimRealWork
  <2> QED
    BY <1>1, <2>3, <2>4, <2>5
<1>10. ASSUME NEW e \in Executor, Records!Crash(e) PROVE Records!ClaimsInv'
  BY <1>1, <1>2, <1>10 DEF Records!Crash
<1>11. CASE UNCHANGED Records!recordVars
  BY <1>11 DEF Records!recordVars, Records!TypeOK, Records!RecordsClaimRealWork
<1> QED
  BY <1>4, <1>5, <1>6, <1>7, <1>8, <1>9, <1>10, <1>11 DEF Records!Next

LEMMA RecordsShow == Records!ClaimsInv => Records!RecordsClaimRealWork
BY DEF Records!ClaimsInv

(* For any number of runs, jobs and executors, whatever is saved late or    *)
(* resumed: a record claims only what executions of its own run finished,   *)
(* and success only for ends of the jobs that its graph accepts.            *)
THEOREM RecordsAreEarned == Spec => []RecordsClaimRealWork
<1> DEFINE Inv == scene = "records" => Records!ClaimsInv
<1>1. Init => Inv
  BY RecordsInitially DEF Init
<1>2. Inv /\ [Next]_vars => Inv'
  BY SceneStep, RecordsAreKept
<1>3. Inv => RecordsClaimRealWork
  BY RecordsShow DEF RecordsClaimRealWork
<1> QED
  BY <1>1, <1>2, <1>3, PTL DEF Spec

-----------------------------------------------------------------------------
(* The migrations (StateMigration).                                         *)

(* A zip that is opened.                                                    *)
LEMMA OpenRecord ==
    ASSUME NEW skips, NEW saved, NEW written
    PROVE  [[state |-> "none", skips |-> {}, saved |-> saved, history |-> written]
                EXCEPT !.state = "open", !.skips = skips]
           = [state |-> "open", skips |-> skips, saved |-> saved, history |-> written]
<1> DEFINE none == [state |-> "none", skips |-> {}, saved |-> saved, history |-> written]
           open == [state |-> "open", skips |-> {}, saved |-> saved, history |-> written]
<1>1. [none EXCEPT !.state = "open"] = open
  OBVIOUS
<1>2. [open EXCEPT !.skips = skips]
      = [state |-> "open", skips |-> skips, saved |-> saved, history |-> written]
  OBVIOUS
<1>3. [none EXCEPT !.state = "open", !.skips = skips] = [[none EXCEPT !.state = "open"] EXCEPT !.skips = skips]
  OBVIOUS
<1> QED
  BY <1>1, <1>2, <1>3

LEMMA MigrationInitially == Migration!Init => Migration!ZipInv
<1> SUFFICES ASSUME Migration!Init PROVE Migration!ZipInv
  OBVIOUS
<1>1. \A n \in Backups : v4[n] = Migration!NoBackup
  BY DEF Migration!Init
<1>2. /\ Migration!NoBackup \in Migration!Backup /\ Migration!NoBackup.state = "none"
  <2> DEFINE s == [f \in Migration!Files |-> Migration!NotSaved]
  <2>1. s \in [Migration!Files -> Migration!Content \cup {Migration!NotSaved}]
    OBVIOUS
  <2>2. Migration!NoBackup = [state |-> "none", skips |-> {}, saved |-> s, history |-> <<>>]
    BY DEF Migration!NoBackup
  <2> HIDE DEF s
  <2> QED
    BY <2>1, <2>2 DEF Migration!Backup
<1>3. v4 \in [Backups -> Migration!Backup]
  BY <1>2 DEF Migration!Init
<1>4. v6 \in [pc : Migration!OpPc, at : Nat, name : Backups] /\ v6.pc = "idle"
  BY MigrationAssumption DEF Migration!Init, Migration!Idle, Migration!OpPc
<1>5. \A n \in Backups : v4[n].state \notin {"closed", "partial"}
  BY <1>1, <1>2
<1>6. \A f \in Migration!Files : Migration!Untouched(f)
  BY <1>5 DEF Migration!Init, Migration!Untouched, Migration!SomeClosed, Migration!Readable
<1> QED
  BY <1>3, <1>4, <1>6 DEF Migration!Init, Migration!ZipInv, Migration!Content

(* Steps that leave every zip and every file as they are.                   *)
LEMMA SameZips ==
    ASSUME Migration!ZipInv, UNCHANGED <<v1, v2, v4>>, v5' \in Seq(Backups),
           v6' \in [pc : Migration!OpPc, at : Nat, name : Backups],
           v6'.pc \notin {"save", "copy"}, v6'.pc = "convert" => Migration!SomeClosed,
           v6'.pc \in {"empty", "history"} => Migration!Readable(v6'.name),
           v6'.pc = "empty" => v6'.at >= 1
    PROVE  Migration!ZipInv'
<1>1. /\ Migration!SomeClosed' = Migration!SomeClosed
      /\ \A n \in Backups : Migration!Readable(n)' = Migration!Readable(n)
      /\ \A f \in Migration!Files : /\ Migration!SavedOriginal(f)' = Migration!SavedOriginal(f)
                                    /\ Migration!LeftOut(f)' = Migration!LeftOut(f)
                                    /\ Migration!Untouched(f)' = Migration!Untouched(f)
  BY DEF Migration!SomeClosed, Migration!SavedOriginal, Migration!LeftOut, Migration!Untouched, Migration!Readable
<1>2. v6'.name \in Backups
  OBVIOUS
<1> QED
  BY <1>1, <1>2 DEF Migration!ZipInv

LEMMA IdleType == Migration!Idle \in [pc : Migration!OpPc, at : Nat, name : Backups] /\ Migration!Idle.pc = "idle"
BY MigrationAssumption DEF Migration!Idle, Migration!OpPc

LEMMA OpMoves ==
    ASSUME Migration!ZipInv, NEW pc \in Migration!OpPc, NEW i \in Nat
    PROVE  /\ [v6 EXCEPT !.pc = pc, !.at = i] \in [pc : Migration!OpPc, at : Nat, name : Backups]
           /\ [v6 EXCEPT !.pc = pc, !.at = i].pc = pc
           /\ [v6 EXCEPT !.pc = pc, !.at = i].at = i
           /\ [v6 EXCEPT !.pc = pc, !.at = i].name = v6.name
BY DEF Migration!ZipInv

LEMMA OpSteps ==
    ASSUME Migration!ZipInv
    PROVE  /\ [v6 EXCEPT !.at = @ + 1] \in [pc : Migration!OpPc, at : Nat, name : Backups]
           /\ [v6 EXCEPT !.at = @ + 1].pc = v6.pc
           /\ [v6 EXCEPT !.at = @ + 1].at = v6.at + 1
           /\ [v6 EXCEPT !.at = @ + 1].name = v6.name
           /\ v6.at \in Nat
BY DEF Migration!ZipInv

(* The zip that is written changes, and is not readable before or after.    *)
LEMMA OpenZip ==
    ASSUME Migration!ZipInv, NEW n \in Backups, NEW b, UNCHANGED <<v1, v2>>,
           v4' = [v4 EXCEPT ![n] = b], b \in Migration!Backup,
           b.state \notin {"closed", "partial"}, ~Migration!Readable(n)
    PROVE  /\ v4' \in [Backups -> Migration!Backup] /\ v4'[n] = b
           /\ \A f \in Migration!Files : Migration!SavedOriginal(f)' \/ Migration!LeftOut(f)' \/ Migration!Untouched(f)'
<1>1. /\ v4' \in [Backups -> Migration!Backup] /\ v4'[n] = b
      /\ \A m \in Backups \ {n} : v4'[m] = v4[m]
  BY DEF Migration!ZipInv
<1>2. v4[n].state \notin {"closed", "partial"}
  BY DEF Migration!Readable
<1>3. ASSUME NEW f \in Migration!Files
      PROVE  Migration!SavedOriginal(f)' \/ Migration!LeftOut(f)' \/ Migration!Untouched(f)'
  <2>1. CASE Migration!SavedOriginal(f)
    BY <1>1, <1>2, <2>1 DEF Migration!SavedOriginal, Migration!Readable
  <2>2. CASE Migration!LeftOut(f)
    BY <1>1, <1>2, <2>2 DEF Migration!LeftOut
  <2>3. CASE Migration!Untouched(f)
    <3>1. ~Migration!SomeClosed'
      BY <1>1, <2>3 DEF Migration!Untouched, Migration!SomeClosed
    <3>2. \A m \in Backups : Migration!Readable(m)' => v4'[m].saved[f] = Migration!NotSaved
      BY <1>1, <2>3 DEF Migration!Untouched, Migration!Readable
    <3> QED
      BY <2>3, <3>1, <3>2 DEF Migration!Untouched
  <2> QED
    BY <2>1, <2>2, <2>3 DEF Migration!ZipInv
<1> QED
  BY <1>1, <1>3

(* The zip that was written becomes readable: complete, or as far as it is. *)
LEMMA ShutZip ==
    ASSUME Migration!ZipInv, v6.pc = "save", NEW s \in {"closed", "partial"}, NEW h \in Seq(Backups),
           s = "closed" => v6.at > FileCount, UNCHANGED <<v1, v2>>,
           v4' = [v4 EXCEPT ![v6.name].state = s, ![v6.name].history = h]
    PROVE  /\ v4' \in [Backups -> Migration!Backup]
           /\ s = "closed" => Migration!SomeClosed'
           /\ \A f \in Migration!Files : Migration!SavedOriginal(f)' \/ Migration!LeftOut(f)' \/ Migration!Untouched(f)'
<1> DEFINE n == v6.name
<1>1. /\ n \in Backups /\ v4[n] \in Migration!Backup /\ v4[n].state = "open" /\ v6.at \in Nat
      /\ \A f \in Migration!Files : v4[n].saved[f] =
            IF f < v6.at /\ f \notin v4[n].skips THEN v2[f] ELSE Migration!NotSaved
  BY DEF Migration!ZipInv
<1>2. PICK b : v4' = [v4 EXCEPT ![n] = b] /\ b = [v4[n] EXCEPT !.state = s, !.history = h]
  BY <1>1 DEF Migration!ZipInv
<1>3. b \in Migration!Backup /\ b.state = s /\ b.saved = v4[n].saved /\ b.skips = v4[n].skips
  BY <1>1, <1>2 DEF Migration!Backup
<1>4. /\ v4' \in [Backups -> Migration!Backup] /\ v4'[n] = b
      /\ \A m \in Backups \ {n} : v4'[m] = v4[m]
  BY <1>1, <1>2, <1>3 DEF Migration!ZipInv
<1>5. s = "closed" => Migration!SomeClosed'
  BY <1>1, <1>3, <1>4 DEF Migration!SomeClosed
<1>6. ASSUME NEW f \in Migration!Files
      PROVE  Migration!SavedOriginal(f)' \/ Migration!LeftOut(f)' \/ Migration!Untouched(f)'
  <2>1. CASE Migration!SavedOriginal(f)
    BY <1>1, <1>4, <2>1 DEF Migration!SavedOriginal, Migration!Readable
  <2>2. CASE Migration!LeftOut(f)
    BY <1>1, <1>4, <2>2 DEF Migration!LeftOut
  <2>3. CASE Migration!Untouched(f) /\ f < v6.at /\ f \notin v4[n].skips
    <3>1. b.saved[f] = v1[f]
      BY <1>1, <1>3, <2>3 DEF Migration!Untouched
    <3> QED
      BY <1>1, <1>3, <1>4, <3>1 DEF Migration!SavedOriginal, Migration!Readable
  <2>4. CASE Migration!Untouched(f) /\ f \in v4[n].skips /\ s = "closed"
    BY <1>1, <1>3, <1>4, <2>4 DEF Migration!LeftOut
  <2>5. CASE Migration!Untouched(f) /\ ~(f < v6.at /\ f \notin v4[n].skips) /\ s = "partial"
    <3>1. b.saved[f] = Migration!NotSaved
      BY <1>1, <1>3, <2>5
    <3>2. ~Migration!SomeClosed'
      BY <1>3, <1>4, <2>5 DEF Migration!Untouched, Migration!SomeClosed
    <3>3. \A m \in Backups : Migration!Readable(m)' => v4'[m].saved[f] = Migration!NotSaved
      BY <1>4, <2>5, <3>1 DEF Migration!Untouched, Migration!Readable
    <3> QED
      BY <2>5, <3>2, <3>3 DEF Migration!Untouched
  <2>6. s = "closed" => f < v6.at
    BY <1>1, MigrationAssumption DEF Migration!Files
  <2> QED
    BY <2>1, <2>2, <2>3, <2>4, <2>5, <2>6 DEF Migration!ZipInv
<1> QED
  BY <1>4, <1>5, <1>6

(* A file is only touched when a zip has its original, or leaves it out.    *)
LEMMA TouchKeeps ==
    ASSUME Migration!ZipInv, NEW f \in Migration!Files, NEW c \in Migration!Content,
           Migration!SomeClosed \/ (\E n \in Backups : Migration!Readable(n) /\ v4[n].saved[f] # Migration!NotSaved),
           UNCHANGED <<v1, v4>>, v2' = [v2 EXCEPT ![f] = c], v5' \in Seq(Backups),
           v6' \in [pc : Migration!OpPc, at : Nat, name : Backups],
           v6'.pc # "save", v6'.pc = "convert" => Migration!SomeClosed,
           v6'.pc \in {"empty", "copy", "history"} => Migration!Readable(v6'.name),
           v6'.pc = "empty" => v6'.at >= 1,
           v6'.pc = "copy" => v6'.at \in Migration!Files /\ v4[v6'.name].saved[v6'.at] # Migration!NotSaved
    PROVE  Migration!ZipInv'
<1>1. /\ Migration!SomeClosed' = Migration!SomeClosed
      /\ \A n \in Backups : Migration!Readable(n)' = Migration!Readable(n)
      /\ \A g \in Migration!Files : /\ Migration!SavedOriginal(g)' = Migration!SavedOriginal(g)
                                    /\ Migration!LeftOut(g)' = Migration!LeftOut(g)
  BY DEF Migration!SomeClosed, Migration!SavedOriginal, Migration!LeftOut, Migration!Readable
<1>2. ~Migration!Untouched(f)
  BY DEF Migration!Untouched
<1>3. \A g \in Migration!Files \ {f} : Migration!Untouched(g)' = Migration!Untouched(g)
  BY <1>1 DEF Migration!Untouched, Migration!ZipInv
<1>4. v2' \in [Migration!Files -> Migration!Content] /\ v6'.name \in Backups
  BY DEF Migration!ZipInv
<1> QED
  BY <1>1, <1>2, <1>3, <1>4 DEF Migration!ZipInv, Migration!IsMember

LEMMA SaveKeeps == Migration!ZipInv /\ Migration!Save => Migration!ZipInv'
<1> SUFFICES ASSUME Migration!ZipInv, Migration!Save PROVE Migration!ZipInv'
  OBVIOUS
<1> DEFINE n == v6.name
           at == v6.at
<1>1. /\ v6.pc = "save" /\ at \in Migration!Files /\ n \in Backups /\ v4[n].state = "open"
      /\ v4[n] \in Migration!Backup
      /\ \A f \in Migration!Files : v4[n].saved[f] =
            IF f < at /\ f \notin v4[n].skips THEN v2[f] ELSE Migration!NotSaved
  BY MigrationAssumption DEF Migration!Save, Migration!ZipInv, Migration!Files
<1>2. /\ UNCHANGED <<v1, v2, v5>> /\ v6' = [v6 EXCEPT !.at = @ + 1]
      /\ v4' = IF at \in v4[n].skips THEN v4 ELSE [v4 EXCEPT ![n].saved[at] = v2[at]]
  BY DEF Migration!Save, Migration!Next1
<1>3. PICK b : /\ v4' = [v4 EXCEPT ![n] = b]
               /\ b = IF at \in v4[n].skips THEN v4[n] ELSE [v4[n] EXCEPT !.saved[at] = v2[at]]
  BY <1>1, <1>2 DEF Migration!ZipInv
<1>4. /\ b \in Migration!Backup /\ b.state = "open" /\ b.skips = v4[n].skips
      /\ b.saved = IF at \in v4[n].skips THEN v4[n].saved ELSE [v4[n].saved EXCEPT ![at] = v2[at]]
  <2>1. v2[at] \in Migration!Content
    BY <1>1 DEF Migration!ZipInv
  <2> QED
    BY <1>1, <1>3, <2>1 DEF Migration!Backup
<1>5. /\ v6' \in [pc : Migration!OpPc, at : Nat, name : Backups]
      /\ v6'.pc = "save" /\ v6'.at = at + 1 /\ v6'.name = n /\ at \in Nat
  BY <1>1, <1>2, OpSteps
<1>6. \A f \in Migration!Files : b.saved[f] =
            IF f < at + 1 /\ f \notin b.skips THEN v2[f] ELSE Migration!NotSaved
  <2>1. v4[n].saved \in [Migration!Files -> Migration!Content \cup {Migration!NotSaved}]
    BY <1>1 DEF Migration!Backup
  <2>2. ASSUME NEW f \in Migration!Files
        PROVE  b.saved[f] = IF f < at + 1 /\ f \notin b.skips THEN v2[f] ELSE Migration!NotSaved
    <3>1. v4[n].saved[f] = IF f < at /\ f \notin v4[n].skips THEN v2[f] ELSE Migration!NotSaved
      BY <1>1
    <3>2. f \in Nat /\ at \in Nat
      BY <1>5, MigrationAssumption DEF Migration!Files
    <3>3. b.saved[f] = IF f = at /\ at \notin v4[n].skips THEN v2[f] ELSE v4[n].saved[f]
      BY <1>4, <2>1
    <3>4. b.skips = v4[n].skips
      BY <1>4
    <3> HIDE DEF at, n
    <3>5. f < at + 1 <=> f < at \/ f = at
      BY <3>2
    <3>6. f = at => ~(f < at)
      BY <3>2
    <3> QED
      BY <3>1, <3>3, <3>4, <3>5, <3>6
  <2> QED
    BY <2>2
<1>7. /\ v4' \in [Backups -> Migration!Backup] /\ v4'[n] = b
      /\ \A f \in Migration!Files : Migration!SavedOriginal(f)' \/ Migration!LeftOut(f)' \/ Migration!Untouched(f)'
  BY <1>1, <1>2, <1>3, <1>4, OpenZip DEF Migration!Readable
<1>8. /\ v4'[v6'.name].state = "open" /\ v6'.at >= 1
      /\ \A f \in Migration!Files : v4'[v6'.name].saved[f] =
            IF f < v6'.at /\ f \notin v4'[v6'.name].skips THEN v2'[f] ELSE Migration!NotSaved
  <2>1. v6'.name = n /\ v6'.at = at + 1 /\ v4'[n] = b /\ v2' = v2 /\ at \in Nat
    BY <1>2, <1>5, <1>7
  <2>2. b.state = "open" /\ b.skips = v4[n].skips
    BY <1>4
  <2>3. at + 1 >= 1
    BY <2>1
  <2> HIDE DEF at, n
  <2> QED
    BY <1>6, <2>1, <2>2, <2>3
<1> QED
  BY <1>2, <1>5, <1>7, <1>8 DEF Migration!ZipInv

LEMMA MigrationIsKept == Migration!ZipInv /\ [Migration!Next]_(Migration!vars) => Migration!ZipInv'
<1> DEFINE Op == [pc : Migration!OpPc, at : Nat, name : Backups]
<1> SUFFICES ASSUME Migration!ZipInv, [Migration!Next]_(Migration!vars) PROVE Migration!ZipInv'
  OBVIOUS
<1>1. ASSUME NEW n \in Backups, NEW inside \in Inside, Migration!Migrate(n, inside) PROVE Migration!ZipInv'
  <2> DEFINE b == [Migration!NoBackup EXCEPT !.state = "open", !.skips = inside]
             s == [f \in Migration!Files |-> Migration!NotSaved]
  <2>1. /\ b \in Migration!Backup /\ b.state = "open" /\ b.saved = s
    <3>1. b = [state |-> "open", skips |-> inside, saved |-> s, history |-> <<>>]
      <4>1. Migration!NoBackup = [state |-> "none", skips |-> {}, saved |-> s, history |-> <<>>]
        BY DEF Migration!NoBackup
      <4> QED
        BY <4>1, OpenRecord
    <3>2. s \in [Migration!Files -> Migration!Content \cup {Migration!NotSaved}]
      OBVIOUS
    <3>3. inside \in SUBSET Migration!Files
      BY MigrationAssumption DEF Migration!Files
    <3> HIDE DEF b, s
    <3> QED
      BY <3>1, <3>2, <3>3 DEF Migration!Backup
  <2>2. /\ v4[n].state = "none" /\ v6' = [pc |-> "save", at |-> 1, name |-> n]
        /\ v4' = [v4 EXCEPT ![n] = b] /\ UNCHANGED <<v1, v2, v5>>
    BY <1>1 DEF Migration!Migrate, Migration!Begin, Migration!FreeNames
  <2>3. \A f \in Migration!Files : ~(f < 1) /\ s[f] = Migration!NotSaved
    BY DEF Migration!Files
  <2> HIDE DEF b, s
  <2>4. /\ v4' \in [Backups -> Migration!Backup] /\ v4'[n] = b
        /\ \A f \in Migration!Files : Migration!SavedOriginal(f)' \/ Migration!LeftOut(f)' \/ Migration!Untouched(f)'
    BY <2>1, <2>2, OpenZip DEF Migration!Readable
  <2>5. v6' \in Op /\ v6'.pc = "save" /\ v6'.at = 1 /\ v6'.name = n
    BY <2>2 DEF Migration!OpPc
  <2>6. /\ v4'[v6'.name].state = "open" /\ v6'.at >= 1
        /\ \A f \in Migration!Files : v4'[v6'.name].saved[f] =
              IF f < v6'.at /\ f \notin v4'[v6'.name].skips THEN v2'[f] ELSE Migration!NotSaved
    BY <2>1, <2>3, <2>4, <2>5
  <2> QED
    BY <2>2, <2>4, <2>5, <2>6 DEF Migration!ZipInv
<1>2. ASSUME NEW n \in Backups, Migration!Rollback(n) PROVE Migration!ZipInv'
  <2>1. UNCHANGED <<v1, v2, v4, v5>> /\ v6' = [pc |-> "empty", at |-> 1, name |-> n]
        /\ Migration!Readable(n)
    BY <1>2 DEF Migration!Rollback, Migration!Begin
  <2>2. v6' \in Op /\ v6'.pc = "empty" /\ v6'.at = 1 /\ v6'.name = n /\ v5' \in Seq(Backups)
    BY <2>1 DEF Migration!ZipInv, Migration!OpPc
  <2> QED
    BY <2>1, <2>2, SameZips
<1>h. /\ Migration!HistorySaved \in Seq(Backups) /\ <<>> \in Seq(Backups)
  BY DEF Migration!HistorySaved, Migration!ZipInv
<1>3. CASE Migration!CloseBackup
  <2>1. /\ v6.pc = "save" /\ v6.at > FileCount /\ UNCHANGED <<v1, v2, v5>>
        /\ v4' = [v4 EXCEPT ![v6.name].state = "closed", ![v6.name].history = Migration!HistorySaved]
        /\ v6' = [v6 EXCEPT !.pc = "convert", !.at = 1]
    BY <1>3 DEF Migration!CloseBackup, Migration!Goto
  <2>2. v6' \in Op /\ v6'.pc = "convert"
    BY <2>1, OpMoves DEF Migration!OpPc
  <2>3. /\ v4' \in [Backups -> Migration!Backup] /\ Migration!SomeClosed'
        /\ \A f \in Migration!Files : Migration!SavedOriginal(f)' \/ Migration!LeftOut(f)' \/ Migration!Untouched(f)'
    BY <1>h, <2>1, ShutZip
  <2> QED
    BY <2>1, <2>2, <2>3 DEF Migration!ZipInv
<1>4. ASSUME NEW h \in {<<>>, Migration!HistorySaved}, Migration!SaveFails(h) PROVE Migration!ZipInv'
  <2>1. /\ v6.pc = "save" /\ UNCHANGED <<v1, v2, v5>> /\ v6' = Migration!Idle
        /\ v4' = [v4 EXCEPT ![v6.name].state = "partial", ![v6.name].history = h]
    BY <1>4 DEF Migration!SaveFails
  <2>2. /\ v4' \in [Backups -> Migration!Backup]
        /\ \A f \in Migration!Files : Migration!SavedOriginal(f)' \/ Migration!LeftOut(f)' \/ Migration!Untouched(f)'
    BY <1>h, <2>1, ShutZip
  <2> QED
    BY <2>1, <2>2, IdleType DEF Migration!ZipInv
<1>5. CASE Migration!Convert
  <2>0. /\ v6.pc = "convert" /\ v6.at \in Nat /\ v6.at <= FileCount
        /\ Migration!SomeClosed /\ UNCHANGED <<v1, v4, v5>> /\ v5' \in Seq(Backups)
    BY <1>5 DEF Migration!Convert, Migration!ZipInv
  <2>1. CASE v2[v6.at] = "torn"
    <3>1. v6' = Migration!Idle /\ v2' = v2
      BY <1>5, <2>1 DEF Migration!Convert
    <3> QED
      BY <2>0, <3>1, IdleType, SameZips
  <2>2. CASE v2[v6.at] # "torn"
    <3>1. v6' = [v6 EXCEPT !.at = @ + 1] /\ v2' = [v2 EXCEPT ![v6.at] = "migrated"]
      BY <1>5, <2>2 DEF Migration!Convert, Migration!Next1
    <3>2. v6' \in Op /\ v6'.pc = "convert"
      BY <2>0, <3>1, OpSteps
    <3>3. CASE v6.at \in Migration!Files
      <4>1. "migrated" \in Migration!Content
        BY DEF Migration!Content
      <4> QED
        BY <2>0, <3>1, <3>2, <3>3, <4>1, TouchKeeps
    <3>4. CASE v6.at \notin Migration!Files
      <4>1. v2' = v2
        BY <3>1, <3>4 DEF Migration!ZipInv
      <4> QED
        BY <2>0, <3>2, <4>1, SameZips
    <3> QED
      BY <3>3, <3>4
  <2> QED
    BY <2>1, <2>2
<1>6. CASE Migration!Mark
  <2>1. UNCHANGED <<v1, v2, v4, v5>> /\ v6' = [v6 EXCEPT !.pc = "log", !.at = 1]
    BY <1>6 DEF Migration!Mark, Migration!Goto
  <2>2. v6' \in Op /\ v6'.pc = "log" /\ v5' \in Seq(Backups)
    BY <2>1, OpMoves DEF Migration!ZipInv, Migration!OpPc
  <2> QED
    BY <2>1, <2>2, SameZips
<1>7. CASE Migration!Log
  <2>1. UNCHANGED <<v1, v2, v4>> /\ v6' = Migration!Idle /\ v5' \in Seq(Backups)
    BY <1>7 DEF Migration!Log, Migration!ZipInv
  <2> QED
    BY <2>1, IdleType, SameZips
<1>8. CASE Migration!PassFile
  <2>1. v6.pc = "empty" /\ UNCHANGED <<v1, v2, v4, v5>> /\ v6' = [v6 EXCEPT !.at = @ + 1]
    BY <1>8 DEF Migration!PassFile, Migration!Next1
  <2>2. v6' \in Op /\ v6'.pc = "empty" /\ v6'.at >= 1 /\ v6'.name = v6.name
    BY <2>1, OpSteps
  <2>3. Migration!Readable(v6.name) /\ v5' \in Seq(Backups)
    BY <2>1 DEF Migration!ZipInv
  <2> QED
    BY <2>1, <2>2, <2>3, SameZips
<1>9. CASE Migration!EmptyFile
  <2>1. /\ v6.pc = "empty" /\ Migration!Readable(v6.name) /\ v6.name \in Backups
        /\ UNCHANGED <<v1, v4, v5>> /\ v5' \in Seq(Backups) /\ v6.at \in Nat /\ v6.at <= FileCount
        /\ v4[v6.name].saved[v6.at] # Migration!NotSaved
        /\ v6' = [v6 EXCEPT !.pc = "copy"] /\ v2' = [v2 EXCEPT ![v6.at] = "torn"]
    BY <1>9 DEF Migration!EmptyFile, Migration!ZipInv, Migration!IsMember
  <2>2. v6' \in Op /\ v6'.pc = "copy" /\ v6'.name = v6.name /\ v6'.at = v6.at
    BY <2>1 DEF Migration!ZipInv, Migration!OpPc
  <2>3. "torn" \in Migration!Content
    BY DEF Migration!Content
  <2>4. v6.at \in Migration!Files
    BY <2>1, MigrationAssumption DEF Migration!Files, Migration!ZipInv
  <2>5. \E n \in Backups : Migration!Readable(n) /\ v4[n].saved[v6.at] # Migration!NotSaved
    BY <2>1
  <2> QED
    BY <2>1, <2>2, <2>3, <2>4, <2>5, TouchKeeps
<1>10. ASSUME v6.pc \in {"copy", "history"}, v6' = [v6 EXCEPT !.pc = "empty", !.at = @ + 1]
      PROVE  v6' \in Op /\ v6'.pc = "empty" /\ v6'.at >= 1 /\ v6'.name = v6.name
  <2>1. v6.at \in Nat /\ v6.at + 1 \in Nat
    BY DEF Migration!ZipInv
  <2> DEFINE i == v6.at + 1
             moved == [v6 EXCEPT !.pc = "empty", !.at = i]
  <2>2. v6' = moved
    BY <1>10
  <2>3. i \in Nat /\ i >= 1 /\ "empty" \in Migration!OpPc
    BY <2>1 DEF Migration!OpPc
  <2> HIDE DEF i
  <2>4. moved \in Op /\ moved.pc = "empty" /\ moved.at = i /\ moved.name = v6.name
    BY <2>3, OpMoves
  <2> HIDE DEF moved
  <2> QED
    BY <2>2, <2>3, <2>4
<1>11. CASE Migration!CopyFile
  <2> DEFINE c == v4[v6.name].saved[v6.at]
  <2>1. /\ v6.pc = "copy" /\ v6.name \in Backups /\ Migration!Readable(v6.name) /\ v6.at \in Migration!Files
        /\ c # Migration!NotSaved /\ UNCHANGED <<v1, v4>> /\ v2' = [v2 EXCEPT ![v6.at] = c]
    BY <1>11 DEF Migration!CopyFile, Migration!ZipInv, Migration!IsMember
  <2>2. c \in Migration!Content
    BY <2>1 DEF Migration!ZipInv, Migration!Backup
  <2> HIDE DEF c
  <2>3. \E n \in Backups : Migration!Readable(n) /\ v4[n].saved[v6.at] # Migration!NotSaved
    BY <2>1 DEF c
  <2>4. CASE v6' = [v6 EXCEPT !.pc = "history"] /\ v5' = <<>>
    <3>1. v6' \in Op /\ v6'.pc = "history" /\ v6'.name = v6.name
      BY <2>4 DEF Migration!ZipInv, Migration!OpPc
    <3> QED
      BY <1>h, <2>1, <2>2, <2>3, <2>4, <3>1, TouchKeeps
  <2>5. CASE v6' = [v6 EXCEPT !.pc = "empty", !.at = @ + 1] /\ v5' = v5
    <3>1. v6' \in Op /\ v6'.pc = "empty" /\ v6'.at >= 1 /\ v6'.name = v6.name
      BY <1>10, <2>1, <2>5
    <3>2. v5' \in Seq(Backups)
      BY <2>5 DEF Migration!ZipInv
    <3> QED
      BY <2>1, <2>2, <2>3, <3>1, <3>2, TouchKeeps
  <2> QED
    BY <1>11, <2>4, <2>5 DEF Migration!CopyFile
<1>12. CASE Migration!CopyHistory
  <2>1. /\ v6.pc = "history" /\ v6.name \in Backups /\ Migration!Readable(v6.name)
        /\ UNCHANGED <<v1, v2, v4>> /\ v5' = v4[v6.name].history
        /\ v6' = [v6 EXCEPT !.pc = "empty", !.at = @ + 1]
    BY <1>12 DEF Migration!CopyHistory, Migration!ZipInv
  <2>2. v6' \in Op /\ v6'.pc = "empty" /\ v6'.at >= 1 /\ v6'.name = v6.name
    BY <1>10, <2>1
  <2>3. v5' \in Seq(Backups)
    BY <2>1 DEF Migration!ZipInv, Migration!Backup
  <2> QED
    BY <2>1, <2>2, <2>3, SameZips
<1>13. CASE Migration!Unmark \/ Migration!Crash
  <2>1. UNCHANGED <<v1, v2, v4, v5>> /\ v6' = Migration!Idle
    BY <1>13 DEF Migration!Unmark, Migration!Crash
  <2>2. v5' \in Seq(Backups)
    BY <2>1 DEF Migration!ZipInv
  <2> QED
    BY <2>1, <2>2, IdleType, SameZips
<1>14. CASE UNCHANGED Migration!vars
  BY <1>14 DEF Migration!vars, Migration!ZipInv, Migration!SomeClosed, Migration!SavedOriginal, Migration!LeftOut,
     Migration!Untouched, Migration!Readable, Migration!IsMember
<1> QED
  BY <1>1, <1>2, <1>3, <1>4, <1>5, <1>6, <1>7, <1>8, <1>9, <1>11, <1>12, <1>13, <1>14, SaveKeeps DEF Migration!Next

LEMMA MigrationShows == Migration!ZipInv => Migration!OriginalsAreSafe
BY DEF Migration!ZipInv, Migration!OriginalsAreSafe, Migration!Untouched

(* For any number of files, whenever a migration or a rollback fails or     *)
(* dies: what a file was before any migration is in place or in a readable  *)
(* backup, unless a backup went into a directory above that file.           *)
THEOREM OriginalsStaySafe == Spec => []OriginalsAreSafe
<1> DEFINE Inv == scene = "migration" => Migration!ZipInv
<1>1. Init => Inv
  BY MigrationInitially DEF Init
<1>2. Inv /\ [Next]_vars => Inv'
  BY SceneStep, MigrationIsKept
<1>3. Inv => OriginalsAreSafe
  BY MigrationShows DEF OriginalsAreSafe
<1> QED
  BY <1>1, <1>2, <1>3, PTL DEF Spec

-----------------------------------------------------------------------------
(* Composite nodes (GraphNested).                                           *)

LEMMA WorkInitially == Nested!Init => Nested!WorkInv
<1> SUFFICES ASSUME Nested!Init PROVE Nested!WorkInv
  OBVIOUS
<1>1. v1 \in Nested!ShapeSet
  BY NestedAssumption DEF Nested!Init
<1> QED
  BY <1>1 DEF Nested!Init, Nested!WorkInv, Nested!Scopes, Nested!OneIteration, Nested!NoJobs, Nested!Active, Nested!Executing, Nested!Ended

LEMMA WorkIsKept == Nested!WorkInv /\ [Nested!Next]_(Nested!vars) => Nested!WorkInv'
<1> SUFFICES ASSUME Nested!WorkInv, [Nested!Next]_(Nested!vars) PROVE Nested!WorkInv'
  OBVIOUS
<1> DEFINE ItemPc == Nested!Active \cup {"idle", "queued", "returned", "raised", "dropped", "stopped"}
           JobPc == Nested!Executing \cup Nested!JobEnd \cup {"idle", "raised"}
<1> DEFINE NodeType == [pc : Nested!Executing \cup {"aborting"} \cup Nested!Ended,
                        attempt : Nat, cause : {"none", "failed", "timeout", "cancelled"}]
<1>0. /\ v3 \in NodeType
      /\ v5 \in [Nested!Items -> ItemPc] /\ v7 \in [Nested!Items -> [Nested!Jobs -> JobPc]] /\ v1 \in Nested!ShapeSet
      /\ Nested!Items \subseteq Nat
  BY DEF Nested!WorkInv, Nested!Scopes, Nested!Items
<1>c. UNCHANGED v1 => Nested!Count' = Nested!Count /\ v1' = v1
  BY DEF Nested!Count
<1>n. Nested!Count \in Nat
  BY <1>0 DEF Nested!Count, Nested!ShapeSet, Nested!Items
\* Only the node moves.
<1>m. ASSUME UNCHANGED <<v1, v5, v7>>, v3' \in NodeType,
             v3'.pc \notin {"body", "aborting"} => \A i \in Nested!Items : v5[i] \notin Nested!Active
      PROVE  Nested!WorkInv'
  BY <1>m, <1>c DEF Nested!WorkInv, Nested!Scopes, Nested!OneIteration
\* One scope moves, within the body.
<1>s. ASSUME NEW i \in Nested!Items, NEW pc \in ItemPc, NEW js, v5' = [v5 EXCEPT ![i] = pc],
             v7' = [v7 EXCEPT ![i] = js], js \in [Nested!Jobs -> JobPc], UNCHANGED v1,
             i <= Nested!Count,
             \A j \in Nested!Jobs : js[j] \in Nested!Executing => pc = "gather",
             v1.kind = "loop" => /\ \A k \in 1..(i - 1) : v5[k] = "returned"
                                 /\ \A k \in Nested!Items : k > i => v5[k] = "idle",
             v3' \in NodeType,
             v3'.pc \notin {"body", "aborting"} =>
                 pc \notin Nested!Active /\ \A k \in Nested!Items \ {i} : v5[k] \notin Nested!Active
      PROVE  Nested!WorkInv'
  <2>1. /\ v5' \in [Nested!Items -> ItemPc] /\ v5'[i] = pc
        /\ \A k \in Nested!Items \ {i} : v5'[k] = v5[k]
    BY <1>0, <1>s
  <2>2. /\ v7' \in [Nested!Items -> [Nested!Jobs -> JobPc]] /\ v7'[i] = js
        /\ \A k \in Nested!Items \ {i} : v7'[k] = v7[k]
    BY <1>0, <1>s
  <2>3. Nested!Scopes' /\ v1' = v1 /\ Nested!Count' = Nested!Count
    BY <1>s, <1>0, <1>c, <2>1, <2>2 DEF Nested!Scopes
  <2>4. Nested!OneIteration'
    <3> SUFFICES ASSUME v1.kind = "loop", NEW m \in Nested!Items, v5'[m] # "idle", NEW k \in 1..(m - 1)
                 PROVE  v5'[k] = "returned"
      BY <2>3 DEF Nested!OneIteration
    <3>1. k \in Nested!Items /\ k < m /\ m \in Nat /\ k \in Nat /\ i \in Nat
      BY NestedAssumption DEF Nested!Items
    <3>2. CASE m = i
      BY <3>1, <3>2, <2>1, <1>s
    <3>3. CASE m < i
      <4>1. m \in 1..(i - 1) /\ k \in 1..(i - 1)
        BY <3>1, <3>3
      <4> QED
        BY <4>1, <3>1, <3>3, <2>1, <1>s
    <3>4. CASE m > i
      BY <3>1, <3>4, <2>1, <1>s
    <3> QED
      BY <3>1, <3>2, <3>3, <3>4
  <2>5. ASSUME NEW k \in Nested!Items
        PROVE /\ k > Nested!Count => v5'[k] = "idle"
              /\ \A j \in Nested!Jobs : v7'[k][j] \in Nested!Executing => v5'[k] = "gather"
    <3>1. k \in Nat /\ i \in Nat
      BY <1>0
    <3> QED
      BY <3>1, <1>n, <2>1, <2>2, <1>s DEF Nested!WorkInv
  <2>6. v3'.pc \notin {"body", "aborting"} => \A k \in Nested!Items : v5'[k] \notin Nested!Active
    BY <1>s, <2>1
  <2> QED
    BY <1>s, <2>3, <2>4, <2>5, <2>6 DEF Nested!WorkInv
\* What holds of a scope that is under way.
<1>a. ASSUME NEW i \in Nested!Items, v5[i] \in Nested!Active \cup {"queued"}
      PROVE  /\ i <= Nested!Count
             /\ v1.kind = "loop" => /\ \A k \in 1..(i - 1) : v5[k] = "returned"
                                    /\ \A k \in Nested!Items : k > i => v5[k] = "idle"
             /\ v1.kind = "subgraph" => \A k \in Nested!Items \ {i} : v5[k] = "idle"
  <2>1. i \in Nat /\ v5[i] # "idle" /\ v5[i] # "returned"
    BY <1>0, <1>a DEF Nested!Active
  <2>2. i <= Nested!Count
    BY <2>1, <1>n DEF Nested!WorkInv
  <2>3. ASSUME v1.kind = "loop", NEW k \in Nested!Items, k > i PROVE v5[k] = "idle"
    <3>1. i \in 1..(k - 1)
      BY <2>1, <2>3, <1>0 DEF Nested!Items
    <3> QED
      BY <2>1, <2>3, <3>1 DEF Nested!WorkInv, Nested!OneIteration
  <2>4. ASSUME v1.kind = "subgraph", NEW k \in Nested!Items \ {i} PROVE v5[k] = "idle"
    <3>1. Nested!Count = 1
      BY <2>4 DEF Nested!Count
    <3>2. i = 1 /\ k > 1
      BY <2>1, <2>2, <3>1, <1>0 DEF Nested!Items
    <3> QED
      BY <3>1, <3>2 DEF Nested!WorkInv
  <2> QED
    BY <2>1, <2>2, <2>3, <2>4 DEF Nested!WorkInv, Nested!OneIteration
\* A job moves.
<1>j. ASSUME NEW i \in Nested!Items, NEW j \in Nested!Jobs, NEW pc \in JobPc, v7[i][j] \in Nested!Executing, Nested!Become(i, j, pc),
             UNCHANGED <<v1, v3, v5>>
      PROVE  Nested!WorkInv'
  <2>1. /\ v7' \in [Nested!Items -> [Nested!Jobs -> JobPc]]
        /\ \A k \in Nested!Items, l \in Nested!Jobs : v7'[k][l] \in Nested!Executing => v7[k][l] \in Nested!Executing
    BY <1>0, <1>j DEF Nested!Become
  <2> QED
    BY <2>1, <1>j, <1>c DEF Nested!WorkInv, Nested!Scopes, Nested!OneIteration
\* The node's record.
<1>p. ASSUME NEW pc \in Nested!Executing \cup {"aborting"} \cup Nested!Ended
      PROVE  /\ [v3 EXCEPT !.pc = pc] \in NodeType /\ [v3 EXCEPT !.pc = pc].pc = pc
             /\ \A c \in {"none", "failed", "timeout", "cancelled"} :
                   /\ [v3 EXCEPT !.pc = pc, !.cause = c] \in NodeType
                   /\ [v3 EXCEPT !.pc = pc, !.cause = c].pc = pc
  BY <1>0
<1>q. ASSUME NEW c \in {"failed", "timeout", "cancelled"},
             v3' = [v3 EXCEPT !.pc = "aborting", !.cause = c]
      PROVE  v3' \in NodeType /\ v3'.pc = "aborting"
  BY <1>q, <1>p
<1>f. ASSUME Nested!Succeeds \/ Nested!Fails \/ Nested!Leave
      PROVE  v3' \in NodeType /\ v3'.pc \in {"attempt"} \cup Nested!Ended
  BY <1>f, <1>p DEF Nested!Succeeds, Nested!Fails, Nested!Leave, Nested!Executing, Nested!Ended
<1>1. ASSUME Nested!ControlStops \/ Nested!Start PROVE Nested!WorkInv'
  <2>1. /\ v3.pc \notin {"body", "aborting"} /\ v3' \in NodeType /\ UNCHANGED <<v1, v5, v7>>
    <3>1. UNCHANGED <<v1, v5, v7>>
      BY <1>1 DEF Nested!ControlStops, Nested!Start, Nested!inner
    <3>2. CASE Nested!ControlStops
      BY <3>1, <3>2, <1>f DEF Nested!ControlStops
    <3>3. CASE Nested!Start
      <4>1. v3.pc = "enter" /\ v3' = [v3 EXCEPT !.pc = "attempt"]
        BY <3>3 DEF Nested!Start
      <4> QED
        BY <3>1, <4>1, <1>p DEF Nested!Executing
    <3> QED
      BY <1>1, <3>2, <3>3
  <2> QED
    BY <2>1, <1>m DEF Nested!WorkInv
<1>2. ASSUME Nested!BeginAttempt PROVE Nested!WorkInv'
  <2>1. /\ v3' \in NodeType /\ v3'.pc = "body"
        /\ v7' = [i \in Nested!Items |-> [j \in Nested!Jobs |-> "idle"]]
        /\ v5' = [i \in Nested!Items |-> IF v1.kind # "loop" /\ i <= Nested!Count THEN "queued" ELSE "idle"]
        /\ v1' = v1
    <3> DEFINE k == v3.attempt + 1
    <3>1. k \in Nat
      BY <1>0
    <3>2. v3' = [v3 EXCEPT !.pc = "body", !.attempt = k, !.cause = "none"]
      BY <1>2 DEF Nested!BeginAttempt
    <3> HIDE DEF k
    <3> QED
      BY <1>0, <1>2, <3>1, <3>2 DEF Nested!BeginAttempt, Nested!NoJobs, Nested!Executing
  <2>2. v5' \in [Nested!Items -> ItemPc] /\ v7' \in [Nested!Items -> [Nested!Jobs -> JobPc]]
    BY <2>1
  <2>3. \A i \in Nested!Items : /\ v1.kind = "loop" \/ i > Nested!Count => v5'[i] = "idle"
                                /\ \A j \in Nested!Jobs : v7'[i][j] = "idle"
    BY <2>1, <1>0, <1>n
  <2> QED
    BY <2>1, <2>2, <2>3, <1>0, <1>c DEF Nested!WorkInv, Nested!Scopes, Nested!OneIteration, Nested!Executing
<1>3. ASSUME Nested!BodyRefused PROVE Nested!WorkInv'
  <2> DEFINE tried == [v3 EXCEPT !.attempt = @ + 1]
             k == v3.attempt + 1
  <2>1. k \in Nat
    BY <1>0
  <2>2. tried = [v3 EXCEPT !.attempt = k]
    OBVIOUS
  <2> HIDE DEF k
  <2>3. tried \in NodeType /\ tried.pc = v3.pc
    BY <1>0, <2>1, <2>2
  <2>4. v3' = tried \/ v3' = [tried EXCEPT !.pc = "decided"]
    BY <1>3 DEF Nested!BodyRefused
  <2> HIDE DEF tried
  <2>5. v3' \in NodeType /\ v3.pc \notin {"body", "aborting"} /\ UNCHANGED <<v1, v5, v7>>
    BY <1>3, <2>3, <2>4 DEF Nested!BodyRefused, Nested!inner, Nested!Ended
  <2> QED
    BY <2>5, <1>m DEF Nested!WorkInv
<1>4. ASSUME Nested!Expire PROVE Nested!WorkInv'
  <2>1. /\ v3' \in NodeType /\ v3'.pc = "aborting" /\ UNCHANGED <<v1, v5, v7>>
    BY <1>4, <1>q DEF Nested!Expire, Nested!inner
  <2> QED
    BY <2>1, <1>m
<1>5. ASSUME Nested!Interrupt PROVE Nested!WorkInv'
  <2>1. /\ v3' \in NodeType /\ UNCHANGED <<v1, v5, v7>>
        /\ v3'.pc = "aborting" \/ v3.pc \notin {"body", "aborting"}
    <3>1. UNCHANGED <<v1, v5, v7>>
      BY <1>5 DEF Nested!Interrupt, Nested!inner
    <3>2. CASE v3' = [v3 EXCEPT !.pc = "aborting", !.cause = "cancelled"]
      BY <3>1, <3>2, <1>q
    <3>3. CASE Nested!Leave /\ v3.pc \in {"enter", "attempt"}
      BY <3>1, <3>3, <1>f
    <3> QED
      BY <1>5, <3>2, <3>3 DEF Nested!Interrupt
  <2> QED
    BY <2>1, <1>m DEF Nested!WorkInv
<1>6. ASSUME Nested!AbortEnds PROVE Nested!WorkInv'
  <2>1. /\ v3' \in NodeType /\ UNCHANGED <<v1, v5, v7>> /\ \A i \in Nested!Items : v5[i] \notin Nested!Active
    BY <1>6, <1>f DEF Nested!AbortEnds, Nested!inner, Nested!Unwound
  <2> QED
    BY <2>1, <1>m
<1>7. ASSUME Nested!BodyEnds \/ Nested!LoopEnds PROVE Nested!WorkInv'
  <2>1. v3' \in NodeType /\ UNCHANGED <<v1, v5, v7>>
    BY <1>7, <1>f DEF Nested!BodyEnds, Nested!LoopEnds, Nested!inner
  <2>2. ASSUME NEW i \in Nested!Items PROVE v5[i] \notin Nested!Active
    <3>1. CASE Nested!BodyEnds
      <4>1. i \in 1..Nested!Count \/ i > Nested!Count
        BY <1>0, <1>n DEF Nested!Items
      <4> QED
        BY <3>1, <4>1 DEF Nested!BodyEnds, Nested!WorkInv, Nested!Active
    <3>2. CASE Nested!LoopEnds
      BY <3>2 DEF Nested!LoopEnds, Nested!Active
    <3> QED
      BY <1>7, <3>1, <3>2
  <2> QED
    BY <2>1, <2>2, <1>m
<1>8. ASSUME NEW i \in Nested!Items, Nested!Admit(i) PROVE Nested!WorkInv'
  <2>1. /\ v5' = [v5 EXCEPT ![i] = "round"] /\ UNCHANGED <<v1, v3, v7>>
        /\ v5[i] = "queued" /\ v3.pc = "body"
    BY <1>8 DEF Nested!Admit, Nested!InBody
  <2>2. v7' = [v7 EXCEPT ![i] = v7[i]] /\ v7[i] \in [Nested!Jobs -> JobPc]
        /\ \A j \in Nested!Jobs : v7[i][j] \notin Nested!Executing
    BY <2>1, <1>0 DEF Nested!WorkInv
  <2>3. v3' \in NodeType /\ v3'.pc = "body" /\ "round" \in ItemPc
    BY <2>1, <1>0 DEF Nested!Active
  <2> QED
    BY <2>1, <2>2, <2>3, <1>s, <1>a
<1>9. ASSUME NEW i \in Nested!Items, Nested!RoundCancelled(i) PROVE Nested!WorkInv'
  <2>1. /\ v5' = [v5 EXCEPT ![i] = "dropped"] /\ UNCHANGED <<v1, v7>>
        /\ v5[i] = "round" /\ v3.pc = "body"
        /\ IF v1.kind = "map" THEN v3' = v3 ELSE Nested!Leave
    BY <1>9 DEF Nested!RoundCancelled, Nested!InBody
  <2>2. v7' = [v7 EXCEPT ![i] = v7[i]] /\ v7[i] \in [Nested!Jobs -> JobPc]
        /\ \A j \in Nested!Jobs : v7[i][j] \notin Nested!Executing
    BY <2>1, <1>0 DEF Nested!WorkInv
  <2>3. v3' \in NodeType
    BY <2>1, <1>0, <1>f
  <2>4. v1.kind \in {"map", "subgraph", "loop"}
    BY <1>0 DEF Nested!ShapeSet
  <2>5. ASSUME v1.kind # "map", NEW k \in Nested!Items \ {i} PROVE v5[k] \notin Nested!Active
    <3>1. k > i \/ k \in 1..(i - 1)
      BY <1>0 DEF Nested!Items
    <3> QED
      BY <2>1, <2>4, <2>5, <3>1, <1>a DEF Nested!Active
  <2>6. v3'.pc \notin {"body", "aborting"} => v1.kind # "map"
    BY <2>1
  <2>7. "dropped" \in ItemPc \ Nested!Active
    BY DEF Nested!Active
  <2>8. /\ i <= Nested!Count
        /\ v1.kind = "loop" => /\ \A k \in 1..(i - 1) : v5[k] = "returned"
                               /\ \A k \in Nested!Items : k > i => v5[k] = "idle"
    BY <2>1, <1>a DEF Nested!Active
  <2> QED
    BY <2>1, <2>2, <2>3, <2>5, <2>6, <2>7, <2>8, <1>s
<1>10. ASSUME NEW i \in Nested!Items, Nested!Launch(i) PROVE Nested!WorkInv'
  <2> DEFINE js == [j \in Nested!Jobs |-> IF j \in Nested!Select(i) THEN "enter" ELSE "idle"]
  <2>1. /\ v5' = [v5 EXCEPT ![i] = "gather"] /\ UNCHANGED <<v1, v3>>
        /\ v5[i] = "round" /\ v3.pc = "body" /\ v7' = [v7 EXCEPT ![i] = js]
    BY <1>10 DEF Nested!Launch, Nested!InBody
  <2>2. js \in [Nested!Jobs -> JobPc]
    BY DEF Nested!Executing
  <2> HIDE DEF js
  <2>3. v3' \in NodeType /\ v3'.pc = "body" /\ "gather" \in ItemPc /\ v5[i] \in Nested!Active
    BY <2>1, <1>0 DEF Nested!Active
  <2> QED
    BY <2>1, <2>2, <2>3, <1>s, <1>a
<1>11. ASSUME NEW i \in Nested!Items, Nested!GatherEnds(i) PROVE Nested!WorkInv'
  <2> DEFINE js == [j \in Nested!Jobs |-> "idle"]
  <2>1. PICK pc \in {"raised", "round"} :
          /\ v5' = [v5 EXCEPT ![i] = pc]
          /\ pc = "raised" => v3' = [v3 EXCEPT !.pc = "aborting", !.cause = "failed"]
          /\ pc = "round" => v3' = v3
    BY <1>11 DEF Nested!GatherEnds, Nested!Raises
  <2>2. /\ UNCHANGED v1 /\ v5[i] = "gather" /\ v3.pc = "body" /\ v7' = [v7 EXCEPT ![i] = js]
    BY <1>11 DEF Nested!GatherEnds, Nested!InBody
  <2>3. v3' \in NodeType /\ v3'.pc \in {"body", "aborting"}
    BY <2>1, <2>2, <1>0, <1>q
  <2>4. js \in [Nested!Jobs -> JobPc] /\ (\A j \in Nested!Jobs : js[j] \notin Nested!Executing) /\ pc \in ItemPc /\ v5[i] \in Nested!Active
    BY <2>1, <2>2 DEF Nested!Executing, Nested!Active
  <2> HIDE DEF js
  <2> QED
    BY <2>1, <2>2, <2>3, <2>4, <1>s, <1>a
<1>12. ASSUME NEW i \in Nested!Items, Nested!ScopeEnds(i) PROVE Nested!WorkInv'
  <2>1. PICK pc \in {"raised", "returned"} :
          /\ v5' = [v5 EXCEPT ![i] = pc]
          /\ pc = "raised" => v3' = [v3 EXCEPT !.pc = "aborting", !.cause = "failed"]
          /\ pc = "returned" => v3' = v3
    BY <1>12 DEF Nested!ScopeEnds, Nested!Raises
  <2>2. /\ UNCHANGED <<v1, v7>> /\ v5[i] = "round" /\ v3.pc = "body"
    BY <1>12 DEF Nested!ScopeEnds, Nested!InBody
  <2>3. v3' \in NodeType /\ v3'.pc \in {"body", "aborting"}
    BY <2>1, <2>2, <1>0, <1>q
  <2>4. v7' = [v7 EXCEPT ![i] = v7[i]] /\ v7[i] \in [Nested!Jobs -> JobPc]
        /\ \A j \in Nested!Jobs : v7[i][j] \notin Nested!Executing
    BY <2>2, <1>0 DEF Nested!WorkInv
  <2>5. pc \in ItemPc /\ v5[i] \in Nested!Active
    BY <2>1, <2>2 DEF Nested!Active
  <2> QED
    BY <2>1, <2>2, <2>3, <2>4, <2>5, <1>s, <1>a
<1>13. ASSUME NEW i \in Nested!Items, Nested!ScopeUnwinds(i) PROVE Nested!WorkInv'
  <2>1. /\ v5' = [v5 EXCEPT ![i] = "stopped"] /\ UNCHANGED <<v1, v3, v7>>
        /\ v5[i] \in Nested!Active \cup {"queued"} /\ v3.pc = "aborting"
        /\ \A j \in Nested!Jobs : v7[i][j] \notin Nested!Executing
    BY <1>13 DEF Nested!ScopeUnwinds
  <2>2. v7' = [v7 EXCEPT ![i] = v7[i]] /\ v7[i] \in [Nested!Jobs -> JobPc]
    BY <2>1, <1>0
  <2>3. v3' \in NodeType /\ v3'.pc = "aborting" /\ "stopped" \in ItemPc
    BY <2>1, <1>0
  <2> QED
    BY <2>1, <2>2, <2>3, <1>s, <1>a
<1>14. ASSUME NEW i \in Nested!Items, Nested!Iterate(i) PROVE Nested!WorkInv'
  <2>1. /\ v5' = [v5 EXCEPT ![i] = "round"] /\ UNCHANGED <<v1, v3, v7>>
        /\ v5[i] = "idle" /\ v3.pc = "body" /\ v1.kind = "loop" /\ i <= Nested!Count
        /\ \A k \in 1..(i - 1) : v5[k] = "returned"
    BY <1>14 DEF Nested!Iterate, Nested!InBody
  <2>2. v7' = [v7 EXCEPT ![i] = v7[i]] /\ v7[i] \in [Nested!Jobs -> JobPc]
        /\ \A j \in Nested!Jobs : v7[i][j] \notin Nested!Executing
    BY <2>1, <1>0 DEF Nested!WorkInv
  <2>3. v3' \in NodeType /\ v3'.pc = "body" /\ "round" \in ItemPc
    BY <2>1, <1>0 DEF Nested!Active
  <2>4. ASSUME NEW k \in Nested!Items, k > i PROVE v5[k] = "idle"
    <3>1. i \in 1..(k - 1)
      BY <2>4, <1>0 DEF Nested!Items
    <3> QED
      BY <2>1, <3>1 DEF Nested!WorkInv, Nested!OneIteration
  <2> QED
    BY <2>1, <2>2, <2>3, <2>4, <1>s
<1>15. ASSUME NEW i \in Nested!Items, NEW j \in Nested!Jobs, Nested!JobStep(i, j) PROVE Nested!WorkInv'
  <2>1. v7[i][j] \in Nested!Executing /\ UNCHANGED <<v1, v3, v5>>
    BY <1>15 DEF Nested!JobStep, Nested!JobStops, Nested!JobStarts, Nested!JobWorks, Nested!JobUnwinds, Nested!JobSkips, Nested!JobRefused, Nested!JobEnds, Nested!jobStep, Nested!Executing
  <2>2. \E pc \in JobPc : Nested!Become(i, j, pc)
    BY <1>15 DEF Nested!JobStep, Nested!JobStops, Nested!JobStarts, Nested!JobWorks, Nested!JobUnwinds, Nested!JobSkips, Nested!JobRefused, Nested!JobEnds, Nested!Executing, Nested!JobEnd
  <2> QED
    BY <2>1, <2>2, <1>j
<1>16. ASSUME NEW s \in UserMoves, Nested!UserControl(s) PROVE Nested!WorkInv'
  BY <1>16, <1>c DEF Nested!UserControl, Nested!inner, Nested!WorkInv, Nested!Scopes, Nested!OneIteration
<1>17. CASE UNCHANGED Nested!vars
  BY <1>17, <1>c DEF Nested!vars, Nested!inner, Nested!WorkInv, Nested!Scopes, Nested!OneIteration
<1>18. ASSUME NEW i \in Nested!Items, Nested!BlockScope(i) PROVE Nested!WorkInv'
  <2>1. PICK pc \in {"raised", "round"} :
          /\ v5' = [v5 EXCEPT ![i] = pc]
          /\ pc = "raised" => v3' = [v3 EXCEPT !.pc = "aborting", !.cause = "failed"]
          /\ pc = "round" => v3' = v3
    <3>1. v5[i] = "round" /\ v5 = [v5 EXCEPT ![i] = v5[i]]
      BY <1>18, <1>0 DEF Nested!BlockScope
    <3> QED
      BY <1>18, <3>1 DEF Nested!BlockScope, Nested!Raises
  <2>2. /\ UNCHANGED <<v1, v7>> /\ v5[i] = "round" /\ v3.pc = "body"
    BY <1>18 DEF Nested!BlockScope, Nested!InBody
  <2>3. v3' \in NodeType /\ v3'.pc \in {"body", "aborting"}
    BY <2>1, <2>2, <1>0, <1>q
  <2>4. v7' = [v7 EXCEPT ![i] = v7[i]] /\ v7[i] \in [Nested!Jobs -> JobPc]
        /\ \A j \in Nested!Jobs : v7[i][j] \notin Nested!Executing
    BY <2>2, <1>0 DEF Nested!WorkInv
  <2>5. pc \in ItemPc /\ v5[i] \in Nested!Active
    BY <2>1, <2>2 DEF Nested!Active
  <2> QED
    BY <2>1, <2>2, <2>3, <2>4, <2>5, <1>s, <1>a
<1> QED
  BY <1>1, <1>2, <1>3, <1>4, <1>5, <1>6, <1>7, <1>8, <1>9, <1>10, <1>11, <1>12, <1>13, <1>14,
     <1>15, <1>16, <1>17, <1>18 DEF Nested!Next, Nested!NodeStep, Nested!ItemStep

LEMMA WorkShows == Nested!WorkInv => Nested!NothingRunsOn
BY DEF Nested!WorkInv, Nested!NothingRunsOn, Nested!Active, Nested!Executing, Nested!Ended

LEMMA DoneInitially == Nested!Init => Nested!DoneInv
<1> SUFFICES ASSUME Nested!Init PROVE Nested!DoneInv
  OBVIOUS
<1>1. Nested!Scopes
  BY WorkInitially DEF Nested!WorkInv
<1>2. v6 = Nested!Fresh /\ v8 = [i \in Nested!Items |-> [j \in Nested!Jobs |-> Nested!Absent]] /\ v3.pc = "enter" /\ v4 = "ready"
      /\ v5 = [i \in Nested!Items |-> "idle"]
  BY DEF Nested!Init
<1>3. v6 \in [Nested!Items -> [Nested!Jobs -> Nested!JobEnd \cup {"pending", "blocked"}]]
  BY <1>2 DEF Nested!Fresh, Nested!JobEnd
<1>4. v8 \in [Nested!Items -> [Nested!Jobs -> Nested!TaskState \cup {Nested!Absent}]]
  BY <1>2
<1> QED
  BY <1>1, <1>2, <1>3, <1>4 DEF Nested!DoneInv, Nested!InBody, Nested!NoJobIsLost

LEMMA UncancelledStays == ASSUME NEW s \in UserMoves PROVE ~Nested!CanMove("cancelled", s)
BY NestedAssumption DEF Nested!CanMove, Nested!Transitions

LEMMA DoneIsKept == Nested!WorkInv /\ Nested!DoneInv /\ [Nested!Next]_(Nested!vars) => Nested!DoneInv'
<1> SUFFICES ASSUME Nested!WorkInv, Nested!DoneInv, [Nested!Next]_(Nested!vars) PROVE Nested!DoneInv'
  OBVIOUS
<1> DEFINE St == Nested!JobEnd \cup {"pending", "blocked"}
           Task == Nested!TaskState \cup {Nested!Absent}
           StType == [Nested!Items -> [Nested!Jobs -> St]]
           TaskType == [Nested!Items -> [Nested!Jobs -> Task]]
<1>0. /\ v6 \in StType /\ v8 \in TaskType
      /\ \A i \in Nested!Items : v5[i] = "dropped" => v2 = "cancelled"
      /\ v3.pc = "body" => \A i \in Nested!Items, j \in Nested!Jobs : Nested!JobInv(i, j)
      /\ \A i \in Nested!Items, j \in Nested!Jobs : <<i, j>> \in v1.reused => v8[i][j] \in {Nested!Absent, "succeeded"}
      /\ v4 = "succeeded" => v3.pc = "decided"
  BY DEF Nested!DoneInv, Nested!InBody
<1>W. Nested!WorkInv' /\ Nested!Scopes'
  BY WorkIsKept DEF Nested!WorkInv
<1>T. /\ v5 \in [Nested!Items -> Nested!Active \cup {"idle", "queued", "returned", "raised", "dropped", "stopped"}]
      /\ v7 \in [Nested!Items -> [Nested!Jobs -> Nested!Executing \cup Nested!JobEnd \cup {"idle", "raised"}]]
      /\ \A i \in Nested!Items, j \in Nested!Jobs : v7[i][j] \in Nested!Executing => v5[i] = "gather"
  BY DEF Nested!WorkInv, Nested!Scopes
\* Nothing that is not over yet can be a success, unless this step makes it one.
<1>f. ASSUME v3.pc \notin Nested!Ended, v4' = v4 \/ v4' # "succeeded"
      PROVE  v4' # "succeeded"
  BY <1>0, <1>f DEF Nested!Ended
\* Nothing moves but the node, which is not at work afterwards.
<1>n. ASSUME UNCHANGED <<v1, v2, v5, v6, v7, v8>>, v3'.pc # "body", v4' # "succeeded"
      PROVE  Nested!DoneInv'
  BY <1>n, <1>0, <1>W DEF Nested!DoneInv, Nested!InBody, Nested!NoJobIsLost
\* The scope of one item moves.
<1>s. ASSUME NEW i \in Nested!Items, v3.pc = "body", UNCHANGED <<v1, v2, v4>>,
             \A k \in Nested!Items \ {i} : /\ v5'[k] = v5[k] /\ v6'[k] = v6[k]
                                           /\ v7'[k] = v7[k] /\ v8'[k] = v8[k],
             v6' \in StType, v8' \in TaskType,
             v5'[i] = "dropped" => v2 = "cancelled",
             v3'.pc = "body" => \A j \in Nested!Jobs : Nested!JobInv(i, j)',
             \A j \in Nested!Jobs : <<i, j>> \in v1.reused => v8'[i][j] \in {Nested!Absent, "succeeded"}
      PROVE  Nested!DoneInv'
  <2>1. v4' # "succeeded"
    BY <1>s, <1>0
  <2>2. ASSUME NEW k \in Nested!Items \ {i}, NEW j \in Nested!Jobs PROVE Nested!JobInv(k, j)'
    <3>1. Nested!JobInv(k, j)
      BY <1>0, <1>s
    <3> QED
      BY <3>1, <1>s DEF Nested!JobInv, Nested!Failed, Nested!Strict
  <2>3. \A k \in Nested!Items, j \in Nested!Jobs : <<k, j>> \in v1.reused => v8'[k][j] \in {Nested!Absent, "succeeded"}
    BY <1>s, <1>0
  <2>4. \A k \in Nested!Items : v5'[k] = "dropped" => v2' = "cancelled"
    BY <1>s, <1>0
  <2> QED
    BY <1>s, <1>W, <2>1, <2>2, <2>3, <2>4 DEF Nested!DoneInv, Nested!InBody, Nested!NoJobIsLost
<1>1. ASSUME Nested!ControlStops \/ Nested!Start \/ Nested!Expire \/ Nested!Interrupt \/ Nested!AbortEnds \/ Nested!BodyRefused PROVE Nested!DoneInv'
  <2>1. UNCHANGED <<v1, v2, v5, v6, v7, v8>> /\ v3.pc \notin Nested!Ended
    BY <1>1 DEF Nested!ControlStops, Nested!Start, Nested!Expire, Nested!Interrupt, Nested!AbortEnds, Nested!BodyRefused, Nested!inner, Nested!Ended
  <2>2. v4' = v4 \/ v4' # "succeeded"
    BY <1>1 DEF Nested!ControlStops, Nested!Start, Nested!Expire, Nested!Interrupt, Nested!AbortEnds, Nested!BodyRefused, Nested!Fails
  <2>3. v3'.pc # "body"
    <3>1. DOMAIN v3 = {"pc", "attempt", "cause"}
      BY DEF Nested!WorkInv, Nested!Scopes
    <3>2. CASE Nested!ControlStops \/ Nested!Start \/ Nested!Expire \/ Nested!Interrupt \/ Nested!AbortEnds
      <4>1. \/ \E pc \in {"left", "attempt", "decided"} : v3' = [v3 EXCEPT !.pc = pc]
            \/ \E c \in {"timeout", "cancelled"} : v3' = [v3 EXCEPT !.pc = "aborting", !.cause = c]
        BY <3>2 DEF Nested!ControlStops, Nested!Start, Nested!Expire, Nested!Interrupt, Nested!AbortEnds, Nested!Fails, Nested!Leave
      <4> QED
        BY <3>1, <4>1
    <3>3. CASE Nested!BodyRefused
      <4> DEFINE k == v3.attempt + 1
                 tried == [v3 EXCEPT !.attempt = k]
      <4>1. v3.pc = "attempt" /\ (v3' = tried \/ v3' = [tried EXCEPT !.pc = "decided"])
        BY <3>3 DEF Nested!BodyRefused
      <4> HIDE DEF k
      <4> QED
        BY <3>1, <4>1
    <3> QED
      BY <1>1, <3>2, <3>3
  <2> QED
    BY <2>1, <2>2, <2>3, <1>f, <1>n
<1>2. ASSUME Nested!BodyEnds \/ Nested!LoopEnds PROVE Nested!DoneInv'
  <2>1. UNCHANGED <<v1, v2, v5, v6, v7, v8>> /\ v3.pc = "body"
    BY <1>2 DEF Nested!BodyEnds, Nested!LoopEnds, Nested!inner, Nested!InBody
  <2>2. "pc" \in DOMAIN v3
    BY DEF Nested!WorkInv, Nested!Scopes
  <2>3. CASE Nested!Fails
    BY <2>1, <2>2, <2>3, <1>0, <1>n DEF Nested!Fails, Nested!Ended
  <2>4. CASE Nested!Succeeds
    <3>1. v3'.pc = "decided" /\ v4' = "succeeded"
      BY <2>2, <2>4 DEF Nested!Succeeds
    <3>2. ASSUME v2 # "cancelled", Nested!Strict, NEW i \in 1..Nested!Count, NEW j \in Nested!Jobs
          PROVE  v8[i][j] \in Nested!Settled
      <4>1. v1.kind # "loop" /\ Nested!Count \in Nat /\ Nested!Count <= Parts
        BY <3>2, NestedAssumption DEF Nested!Strict, Nested!WorkInv, Nested!Scopes, Nested!ShapeSet, Nested!Count, Nested!Items
      <4>2. Nested!BodyEnds /\ i \in Nested!Items
        BY <1>2, <4>1, NestedAssumption DEF Nested!LoopEnds, Nested!Items
      <4>3. v5[i] = "returned"
        BY <4>2, <3>2, <1>0 DEF Nested!BodyEnds
      <4>4. Nested!JobInv(i, j)
        BY <2>1, <4>2, <1>0
      <4> QED
        BY <3>2, <4>3, <4>4 DEF Nested!JobInv
    <3>3. Nested!NoJobIsLost'
      BY <2>1, <3>2 DEF Nested!NoJobIsLost, Nested!Strict, Nested!Count, Nested!JobEnd, Nested!Settled
    <3> QED
      BY <2>1, <3>1, <3>3, <1>0, <1>W DEF Nested!DoneInv, Nested!InBody
  <2> QED
    BY <1>2, <2>3, <2>4 DEF Nested!BodyEnds, Nested!LoopEnds
<1>3. ASSUME Nested!BeginAttempt PROVE Nested!DoneInv'
  <2>1. /\ UNCHANGED <<v1, v2, v4, v8>> /\ v6' = Nested!Fresh /\ v7' = Nested!NoJobs
        /\ v3.pc = "attempt"
        /\ v5' = [i \in Nested!Items |-> IF v1.kind # "loop" /\ i <= Nested!Count THEN "queued" ELSE "idle"]
    BY <1>3 DEF Nested!BeginAttempt
  <2>2. v4' # "succeeded"
    BY <2>1, <1>0
  <2>3. v6' \in StType
    BY <2>1 DEF Nested!Fresh, Nested!JobEnd
  <2>4. ASSUME NEW i \in Nested!Items, NEW j \in Nested!Jobs PROVE Nested!JobInv(i, j)' /\ v5'[i] # "dropped"
    <3>1. /\ v5'[i] \in {"queued", "idle"} /\ v7'[i][j] = "idle"
          /\ v6'[i][j] = IF <<i, j>> \in v1.reused THEN "succeeded" ELSE "pending"
      BY <2>1 DEF Nested!Fresh, Nested!NoJobs
    <3> QED
      BY <2>1, <3>1 DEF Nested!JobInv, Nested!Active, Nested!JobEnd, Nested!Settled
  <2> QED
    BY <2>1, <2>2, <2>3, <2>4, <1>0, <1>W DEF Nested!DoneInv, Nested!NoJobIsLost
\* A scope that begins.
<1>o. ASSUME NEW i \in Nested!Items, v3.pc = "body", v5[i] \in {"idle", "queued"},
             v5' = [v5 EXCEPT ![i] = "round"], v8' = [v8 EXCEPT ![i] = Nested!Opened(i)],
             UNCHANGED <<v1, v2, v3, v4, v6, v7>>
      PROVE  Nested!DoneInv'
  <2>1. /\ v5'[i] = "round" /\ v8'[i] = Nested!Opened(i)
        /\ \A k \in Nested!Items \ {i} : v5'[k] = v5[k] /\ v8'[k] = v8[k]
    BY <1>o, <1>0, <1>T
  <2>2. Nested!Opened(i) \in [Nested!Jobs -> Task]
    BY <1>0 DEF Nested!Opened, Nested!TaskState
  <2>3. v8' \in TaskType
    BY <1>o, <1>0, <2>2
  <2>4. ASSUME NEW j \in Nested!Jobs
        PROVE  /\ Nested!JobInv(i, j)'
               /\ <<i, j>> \in v1.reused => v8'[i][j] \in {Nested!Absent, "succeeded"}
    <3>1. Nested!JobInv(i, j)
      BY <1>o, <1>0
    <3>2. <<i, j>> \in v1.reused => v8'[i][j] = "succeeded"
      BY <1>0, <2>1 DEF Nested!Opened
    <3>3. v7'[i][j] = "idle" /\ v6'[i][j] = IF <<i, j>> \in v1.reused THEN "succeeded" ELSE "pending"
      BY <3>1, <1>o DEF Nested!JobInv
    <3> QED
      BY <1>o, <2>1, <3>2, <3>3 DEF Nested!JobInv, Nested!JobEnd, Nested!Settled
  <2> QED
    BY <1>s, <1>o, <1>0, <2>1, <2>3, <2>4
<1>4. ASSUME NEW i \in Nested!Items, Nested!Admit(i) \/ Nested!Iterate(i) PROVE Nested!DoneInv'
  BY <1>4, <1>o DEF Nested!Admit, Nested!Iterate, Nested!InBody
<1>5. ASSUME NEW i \in Nested!Items, Nested!RoundCancelled(i) PROVE Nested!DoneInv'
  <2>1. /\ v5' = [v5 EXCEPT ![i] = "dropped"] /\ UNCHANGED <<v1, v2, v4, v6, v7, v8>>
        /\ v5[i] = "round" /\ v3.pc = "body" /\ v2 = "cancelled"
    BY <1>5 DEF Nested!RoundCancelled, Nested!InBody, Nested!Cancelled
  <2>2. v5'[i] = "dropped" /\ \A k \in Nested!Items \ {i} : v5'[k] = v5[k]
    BY <2>1, <1>T
  <2>3. ASSUME NEW j \in Nested!Jobs PROVE Nested!JobInv(i, j)'
    <3>1. Nested!JobInv(i, j)
      BY <2>1, <1>0
    <3> QED
      BY <2>1, <2>2, <3>1 DEF Nested!JobInv, Nested!Active, Nested!Failed
  <2> QED
    BY <2>1, <2>2, <2>3, <1>0, <1>s
<1>6. ASSUME NEW i \in Nested!Items, Nested!Launch(i) PROVE Nested!DoneInv'
  <2> DEFINE js == [j \in Nested!Jobs |-> IF j \in Nested!Select(i) THEN "enter" ELSE "idle"]
  <2>1. /\ v5' = [v5 EXCEPT ![i] = "gather"] /\ UNCHANGED <<v1, v2, v3, v4, v6, v8>>
        /\ v5[i] = "round" /\ v3.pc = "body" /\ v7' = [v7 EXCEPT ![i] = js]
    BY <1>6 DEF Nested!Launch, Nested!InBody
  <2>2. /\ v5'[i] = "gather" /\ v7'[i] = js
        /\ \A k \in Nested!Items \ {i} : v5'[k] = v5[k] /\ v7'[k] = v7[k]
    BY <2>1, <1>T
  <2>3. ASSUME NEW j \in Nested!Jobs PROVE Nested!JobInv(i, j)'
    <3>1. Nested!JobInv(i, j)
      BY <2>1, <1>0
    <3>2. v7'[i][j] \in {"enter", "idle"} /\ (v7'[i][j] # "idle" => v6[i][j] = "pending")
      BY <2>2 DEF Nested!Select, Nested!Pending
    <3> QED
      BY <2>1, <2>2, <3>1, <3>2 DEF Nested!JobInv, Nested!Active, Nested!Failed, Nested!JobEnd, Nested!Settled, Nested!Strict
  <2> QED
    BY <2>1, <2>2, <2>3, <1>0, <1>s
<1>7. ASSUME NEW i \in Nested!Items, Nested!GatherEnds(i) PROVE Nested!DoneInv'
  <2> DEFINE got == [j \in Nested!Jobs |-> Nested!Gathered(i, j)]
             raised == {j \in Nested!Jobs : v7[i][j] = "raised" /\ <<i, j>> \notin v9}
             toSkip == IF v1.halt /\ Nested!Failed(got) THEN {j \in Nested!Jobs : got[j] = "pending"} ELSE {}
             skips == Nested!Marked(i, toSkip, "skipped")
             after == [j \in Nested!Jobs |-> IF j \in toSkip THEN "skipped" ELSE got[j]]
             ts == [j \in Nested!Jobs |-> IF j \in raised THEN "failed"
                                   ELSE IF j \in skips THEN "skipped" ELSE v8[i][j]]
  <2>1. /\ v5[i] = "gather" /\ v3.pc = "body" /\ UNCHANGED <<v1, v2, v4>>
        /\ \A j \in Nested!Jobs : v7[i][j] \notin Nested!Executing
        /\ v6' = [v6 EXCEPT ![i] = after]
        /\ v7' = [v7 EXCEPT ![i] = [j \in Nested!Jobs |-> "idle"]]
        /\ v5' = [v5 EXCEPT ![i] = "raised"] \/ (v5' = [v5 EXCEPT ![i] = "round"] /\ skips = toSkip)
    BY <1>7 DEF Nested!GatherEnds, Nested!InBody, Nested!Raises
  <2>2. v8' = [v8 EXCEPT ![i] = ts]
    BY <1>7, <1>0 DEF Nested!GatherEnds
  <2>3. /\ v6'[i] = after /\ v8'[i] = ts
        /\ v5'[i] = "raised" \/ (v5'[i] = "round" /\ skips = toSkip)
        /\ \A j \in Nested!Jobs : v7'[i][j] = "idle"
        /\ \A k \in Nested!Items \ {i} : /\ v5'[k] = v5[k] /\ v6'[k] = v6[k]
                                         /\ v7'[k] = v7[k] /\ v8'[k] = v8[k]
    BY <2>1, <2>2, <1>0, <1>T
  <2>4. ASSUME NEW j \in Nested!Jobs
        PROVE /\ Nested!JobInv(i, j)
              /\ got[j] = IF v7[i][j] = "idle" THEN v6[i][j]
                          ELSE IF v7[i][j] = "raised" THEN "failed" ELSE v7[i][j]
              /\ v7[i][j] # "idle" => v6[i][j] = "pending"
              /\ v7[i][j] \in Nested!JobEnd \cup {"idle", "raised"}
              /\ v6[i][j] \in St /\ v8[i][j] \in Task
              /\ j \in toSkip => got[j] = "pending" /\ Nested!Failed(got)
              /\ after[j] = IF j \in toSkip THEN "skipped" ELSE got[j]
              /\ j \in raised => v7[i][j] = "raised"
              /\ j \in skips => j \in toSkip
    BY <2>1, <1>0, <1>T DEF Nested!Gathered, Nested!JobInv, Nested!Marked
  <2>5. \A j \in Nested!Jobs : ts[j] = IF j \in raised THEN "failed" ELSE IF j \in skips THEN "skipped" ELSE v8[i][j]
    OBVIOUS
  <2>6. v6' \in StType /\ v8' \in TaskType
    <3>1. after \in [Nested!Jobs -> St]
      BY <2>4 DEF Nested!JobEnd
    <3>2. ts \in [Nested!Jobs -> Task]
      BY <2>4 DEF Nested!TaskState
    <3> HIDE DEF after, ts
    <3> QED
      BY <2>1, <2>2, <3>1, <3>2, <1>0
  <2> HIDE DEF got, raised, toSkip, skips, after, ts
  <2>7. ASSUME NEW j \in Nested!Jobs, got[j] = "failed" PROVE after[j] = "failed"
    BY <2>4, <2>7
  <2>8. ASSUME NEW j \in Nested!Jobs
        PROVE  /\ Nested!JobInv(i, j)'
               /\ <<i, j>> \in v1.reused => v8'[i][j] \in {Nested!Absent, "succeeded"}
    <3>1. <<i, j>> \in v1.reused => after[j] = "succeeded" /\ ts[j] = v8[i][j]
      <4> SUFFICES ASSUME <<i, j>> \in v1.reused PROVE after[j] = "succeeded" /\ ts[j] = v8[i][j]
        OBVIOUS
      <4>1. v6[i][j] = "succeeded"
        BY <2>4 DEF Nested!JobInv
      <4> QED
        BY <4>1, <2>4, <2>5
    <3>2. v5'[i] = "round" /\ after[j] \in Nested!Settled => ts[j] = after[j]
      <4> SUFFICES ASSUME v5'[i] = "round", after[j] \in Nested!Settled PROVE ts[j] = after[j]
        OBVIOUS
      <4>0. ASSUME j \in skips PROVE ts[j] = after[j]
        <5>1. j \in toSkip /\ j \notin raised /\ after[j] = "skipped"
          BY <4>0, <2>4
        <5> QED
          BY <4>0, <5>1, <2>5
      <4> SUFFICES ASSUME j \notin toSkip PROVE ts[j] = after[j]
        BY <4>0, <2>3
      <4>1. j \notin toSkip /\ j \notin skips /\ got[j] = after[j] /\ v7[i][j] # "raised"
        BY <2>4 DEF Nested!JobEnd, Nested!Settled
      <4>2. v8[i][j] = got[j]
        BY <4>1, <2>1, <2>4 DEF Nested!JobInv, Nested!Active
      <4> QED
        BY <4>1, <4>2, <2>4, <2>5
    <3> QED
      BY <1>0, <2>1, <2>3, <3>1, <3>2 DEF Nested!JobInv, Nested!JobEnd, Nested!Settled, Nested!Active
  <2> QED
    BY <2>1, <2>3, <2>6, <2>8, <1>s
<1>8. ASSUME NEW i \in Nested!Items, Nested!ScopeEnds(i) PROVE Nested!DoneInv'
  <2>1. /\ v5[i] = "round" /\ v3.pc = "body" /\ UNCHANGED <<v1, v2, v4, v6, v7, v8>>
        /\ Nested!Pending(i) = {}
        /\ \/ v5' = [v5 EXCEPT ![i] = "raised"]
           \/ v5' = [v5 EXCEPT ![i] = "returned"] /\ ~(Nested!Failed(v6[i]) /\ Nested!Strict)
    BY <1>8 DEF Nested!ScopeEnds, Nested!InBody, Nested!Strict, Nested!Raises
  <2>2. /\ v5'[i] \in {"raised", "returned"} /\ (v5'[i] = "returned" => ~(Nested!Failed(v6[i]) /\ Nested!Strict))
        /\ \A k \in Nested!Items \ {i} : v5'[k] = v5[k]
    BY <2>1, <1>T
  <2>3. ASSUME NEW j \in Nested!Jobs PROVE Nested!JobInv(i, j)'
    <3>1. Nested!JobInv(i, j) /\ v6[i][j] \in St
      BY <2>1, <1>0
    <3>2. v6[i][j] # "pending" /\ (v6[i][j] = "failed" => Nested!Failed(v6[i]))
      BY <2>1, <3>1 DEF Nested!Pending, Nested!Failed, Nested!JobInv
    <3>3. Nested!Strict' = Nested!Strict /\ Nested!Failed(v6[i])' = Nested!Failed(v6[i])
      BY <2>1 DEF Nested!Strict, Nested!Failed
    <3>4. Nested!Strict /\ v5'[i] = "returned" => v6[i][j] \in Nested!Settled
      BY <2>2, <3>1, <3>2 DEF Nested!JobEnd, Nested!Settled
    <3> QED
      BY <2>1, <2>2, <3>1, <3>3, <3>4 DEF Nested!JobInv, Nested!Active
  <2> QED
    BY <2>1, <2>2, <2>3, <1>0, <1>s
<1>9. ASSUME NEW i \in Nested!Items, Nested!ScopeUnwinds(i) PROVE Nested!DoneInv'
  <2>1. /\ v5' = [v5 EXCEPT ![i] = "stopped"] /\ UNCHANGED <<v1, v2, v3, v4, v6, v7, v8>>
        /\ v3.pc = "aborting"
    BY <1>9 DEF Nested!ScopeUnwinds
  <2>2. \A k \in Nested!Items : v5'[k] = "dropped" => v5[k] = "dropped"
    BY <2>1, <1>T
  <2> QED
    BY <2>1, <2>2, <1>0, <1>W DEF Nested!DoneInv, Nested!InBody, Nested!NoJobIsLost
\* A job of a body that runs moves on.
<1>j. ASSUME NEW i \in Nested!Items, NEW j \in Nested!Jobs, NEW pc, v7[i][j] \in Nested!Executing, Nested!Become(i, j, pc),
             v3.pc = "body", UNCHANGED <<v1, v2, v3, v4, v5, v6>>, pc # "idle",
             \E t \in Task : v8' = [v8 EXCEPT ![i][j] = t] /\ (pc \in Nested!Settled => t = pc)
      PROVE  Nested!DoneInv'
  <2>1. PICK t \in Task : v8' = [v8 EXCEPT ![i][j] = t] /\ (pc \in Nested!Settled => t = pc)
    BY <1>j
  <2>2. Nested!JobInv(i, j) /\ v5[i] = "gather"
    BY <1>j, <1>0, <1>T
  <2>3. v6[i][j] = "pending" /\ <<i, j>> \notin v1.reused
    BY <2>2, <1>j DEF Nested!JobInv, Nested!Executing
  <2>4. /\ v8' \in TaskType /\ v8'[i][j] = t /\ v7'[i][j] = pc
        /\ \A l \in Nested!Jobs \ {j} : v8'[i][l] = v8[i][l] /\ v7'[i][l] = v7[i][l]
        /\ \A k \in Nested!Items \ {i} : v8'[k] = v8[k] /\ v7'[k] = v7[k]
    BY <1>j, <1>0, <1>T, <2>1 DEF Nested!Become
  <2>5. ASSUME NEW l \in Nested!Jobs
        PROVE /\ Nested!JobInv(i, l)'
              /\ <<i, l>> \in v1.reused => v8'[i][l] \in {Nested!Absent, "succeeded"}
    <3>1. CASE l = j
      BY <3>1, <1>j, <2>1, <2>2, <2>3, <2>4 DEF Nested!JobInv, Nested!JobEnd, Nested!Settled, Nested!Active
    <3>2. CASE l # j
      <4>1. Nested!JobInv(i, l) /\ Nested!Strict' = Nested!Strict /\ Nested!Failed(v6[i])' = Nested!Failed(v6[i])
        BY <1>j, <1>0 DEF Nested!Strict, Nested!Failed
      <4> QED
        BY <3>2, <4>1, <1>j, <1>0, <2>4 DEF Nested!JobInv
    <3> QED
      BY <3>1, <3>2
  <2> QED
    BY <1>j, <1>0, <2>4, <2>5, <1>s
<1>10. ASSUME NEW i \in Nested!Items, NEW j \in Nested!Jobs, Nested!JobStep(i, j) PROVE Nested!DoneInv'
  <2>0. v8 = [v8 EXCEPT ![i][j] = v8[i][j]] /\ v8[i][j] \in Task
    BY <1>0
  <2>1. CASE Nested!JobStops(i, j)
    BY <2>0, <2>1, <1>j DEF Nested!JobStops, Nested!InBody, Nested!jobStep, Nested!Executing, Nested!JobEnd, Nested!Settled
  <2>2. CASE Nested!JobStarts(i, j)
    <3>1. /\ v7[i][j] \in Nested!Executing /\ v3.pc = "body"
          /\ UNCHANGED <<v1, v2, v3, v4, v5, v6>>
      BY <2>2 DEF Nested!JobStarts, Nested!InBody, Nested!jobStep, Nested!Executing
    <3>2. CASE Nested!Become(i, j, "attempt") /\ v8' = [v8 EXCEPT ![i][j] = "running"]
      BY <3>1, <3>2, <1>j DEF Nested!JobEnd, Nested!Settled, Nested!TaskState
    <3>3. CASE Nested!Become(i, j, "raised") /\ UNCHANGED v8
      BY <2>0, <3>1, <3>3, <1>j DEF Nested!JobEnd, Nested!Settled
    <3> QED
      BY <2>2, <3>2, <3>3 DEF Nested!JobStarts
  <2>6. CASE Nested!JobSkips(i, j)
    <3>1. /\ v7[i][j] \in Nested!Executing /\ v3.pc = "body" /\ Nested!Become(i, j, "skipped")
          /\ UNCHANGED <<v1, v2, v3, v4, v5, v6>> /\ v8' = [v8 EXCEPT ![i][j] = "skipped"]
      BY <2>6 DEF Nested!JobSkips, Nested!InBody, Nested!jobStep, Nested!Executing
    <3>2. "skipped" \in Task
      BY DEF Nested!TaskState
    <3> QED
      BY <3>1, <3>2, <1>j
  <2>7. CASE Nested!JobRefused(i, j)
    BY <2>0, <2>7, <1>j DEF Nested!JobRefused, Nested!InBody, Nested!jobStep, Nested!Executing, Nested!JobEnd, Nested!Settled
  <2>3. CASE Nested!JobWorks(i, j)
    BY <2>0, <2>3, <1>j DEF Nested!JobWorks, Nested!InBody, Nested!jobStep, Nested!Executing, Nested!JobEnd, Nested!Settled
  <2>4. ASSUME NEW o \in Nested!JobEnd, Nested!JobEnds(i, j, o) PROVE Nested!DoneInv'
    <3>1. o \in Task /\ o # "idle"
      BY DEF Nested!TaskState, Nested!JobEnd
    <3>2. /\ v7[i][j] \in Nested!Executing /\ v3.pc = "body" /\ Nested!Become(i, j, o)
          /\ UNCHANGED <<v1, v2, v3, v4, v5, v6>> /\ v8' = [v8 EXCEPT ![i][j] = o]
      BY <2>4 DEF Nested!JobEnds, Nested!InBody, Nested!jobStep, Nested!Executing
    <3> QED
      BY <3>1, <3>2, <1>j
  <2>5. CASE Nested!JobUnwinds(i, j)
    <3>1. UNCHANGED <<v1, v2, v3, v4, v5, v6, v8>> /\ v3.pc = "aborting"
      BY <2>5 DEF Nested!JobUnwinds, Nested!jobStep
    <3> QED
      BY <3>1, <1>0, <1>W DEF Nested!DoneInv, Nested!InBody, Nested!NoJobIsLost
  <2> QED
    BY <1>10, <2>1, <2>2, <2>3, <2>4, <2>5, <2>6, <2>7 DEF Nested!JobStep
<1>11. ASSUME NEW s \in UserMoves, Nested!UserControl(s) PROVE Nested!DoneInv'
  <2>1. UNCHANGED <<v1, v3, v4, v5, v6, v7, v8>> /\ v3.pc \notin Nested!Ended
    BY <1>11 DEF Nested!UserControl, Nested!inner
  <2>2. v2 # "cancelled"
    BY <1>11, UncancelledStays DEF Nested!UserControl
  <2>3. v4' # "succeeded"
    BY <2>1, <1>0 DEF Nested!Ended
  <2>4. ASSUME NEW i \in Nested!Items, NEW j \in Nested!Jobs, Nested!JobInv(i, j) PROVE Nested!JobInv(i, j)'
    BY <2>1, <2>4 DEF Nested!JobInv, Nested!Failed, Nested!Strict
  <2> QED
    BY <2>1, <2>2, <2>3, <2>4, <1>0, <1>W DEF Nested!DoneInv, Nested!InBody, Nested!NoJobIsLost
<1>12. CASE UNCHANGED Nested!vars
  <2>1. UNCHANGED <<v1, v2, v3, v4, v5, v6, v7, v8>>
    BY <1>12 DEF Nested!vars, Nested!inner
  <2>2. ASSUME NEW i \in Nested!Items, NEW j \in Nested!Jobs, Nested!JobInv(i, j) PROVE Nested!JobInv(i, j)'
    BY <2>1, <2>2 DEF Nested!JobInv, Nested!Failed, Nested!Strict
  <2>3. Nested!NoJobIsLost'
    BY <2>1 DEF Nested!DoneInv, Nested!NoJobIsLost, Nested!Count
  <2> QED
    BY <2>1, <2>2, <2>3, <1>0, <1>W DEF Nested!DoneInv, Nested!InBody
<1>13. ASSUME NEW i \in Nested!Items, Nested!BlockScope(i) PROVE Nested!DoneInv'
  <2> DEFINE left == Nested!Pending(i)
             blocks == Nested!Marked(i, left, "blocked")
             now == [j \in Nested!Jobs |-> IF j \in left THEN "blocked" ELSE v6[i][j]]
             ts == [j \in Nested!Jobs |-> IF j \in blocks THEN "blocked" ELSE v8[i][j]]
  <2>1. /\ v5[i] = "round" /\ v3.pc = "body" /\ UNCHANGED <<v1, v2, v4, v7>>
        /\ v6' = [v6 EXCEPT ![i] = now] /\ v8' = [v8 EXCEPT ![i] = ts]
        /\ v5' = [v5 EXCEPT ![i] = "raised"] \/ (v5' = v5 /\ blocks = left)
    BY <1>13, <1>0 DEF Nested!BlockScope, Nested!InBody, Nested!Raises
  <2>2. /\ v6'[i] = now /\ v8'[i] = ts
        /\ v5'[i] = "raised" \/ (v5'[i] = "round" /\ blocks = left)
        /\ \A k \in Nested!Items \ {i} : /\ v5'[k] = v5[k] /\ v6'[k] = v6[k]
                                         /\ v7'[k] = v7[k] /\ v8'[k] = v8[k]
    BY <2>1, <1>0, <1>T
  <2>3. now \in [Nested!Jobs -> St] /\ ts \in [Nested!Jobs -> Task]
    BY <1>0 DEF Nested!TaskState
  <2>4. ASSUME NEW j \in Nested!Jobs
        PROVE  /\ now[j] = IF j \in left THEN "blocked" ELSE v6[i][j]
               /\ ts[j] = IF j \in blocks THEN "blocked" ELSE v8[i][j]
               /\ j \in left <=> v6[i][j] = "pending"
               /\ j \in blocks => j \in left
    BY DEF Nested!Pending, Nested!Marked
  <2> HIDE DEF left, blocks, now, ts
  <2>5. v6' \in StType /\ v8' \in TaskType
    BY <2>1, <2>3, <1>0
  <2>6. ASSUME NEW j \in Nested!Jobs
        PROVE  /\ Nested!JobInv(i, j)'
               /\ <<i, j>> \in v1.reused => v8'[i][j] \in {Nested!Absent, "succeeded"}
    <3>1. Nested!JobInv(i, j)
      BY <2>1, <1>0
    <3>2. <<i, j>> \in v1.reused => j \notin left /\ j \notin blocks
      BY <2>4, <3>1 DEF Nested!JobInv
    <3> QED
      BY <1>0, <2>1, <2>2, <2>4, <3>1, <3>2 DEF Nested!JobInv, Nested!JobEnd, Nested!Settled, Nested!Active
  <2> QED
    BY <2>1, <2>2, <2>5, <2>6, <1>s
<1> QED
  BY <1>1, <1>2, <1>3, <1>4, <1>5, <1>6, <1>7, <1>8, <1>9, <1>10, <1>11, <1>12, <1>13
     DEF Nested!Next, Nested!NodeStep, Nested!ItemStep

LEMMA DoneShows == Nested!DoneInv => Nested!NoJobIsLost
BY DEF Nested!DoneInv

(* For composites of every kind and size, with any number of attempts: an   *)
(* attempt that is over, by failure, timeout or cancellation, has left no   *)
(* job of its body working (NestedExecutor).                                *)
THEOREM NothingWorksAfter == Spec => []NothingRunsOn
<1> DEFINE Inv == scene = "nested" => Nested!WorkInv
<1>1. Init => Inv
  BY WorkInitially DEF Init
<1>2. Inv /\ [Next]_vars => Inv'
  BY SceneStep, WorkIsKept
<1>3. Inv => NothingRunsOn
  BY WorkShows DEF NothingRunsOn
<1> QED
  BY <1>1, <1>2, <1>3, PTL DEF Spec

(* And one that succeeds, in a run nobody cancelled, lost no job: each was  *)
(* done, was skipped, waits for a human or could not become ready, and none *)
(* failed or is left pending or working.                                    *)
THEOREM NoJobGetsLost == Spec => []NoJobIsLost
<1> DEFINE Inv == scene = "nested" => Nested!WorkInv /\ Nested!DoneInv
<1>1. Init => Inv
  BY WorkInitially, DoneInitially DEF Init
<1>2. Inv /\ [Next]_vars => Inv'
  BY SceneStep, WorkIsKept, DoneIsKept
<1>3. Inv => NoJobIsLost
  BY DoneShows DEF NoJobIsLost
<1> QED
  BY <1>1, <1>2, <1>3, PTL DEF Spec

-----------------------------------------------------------------------------
(* The plugins (PluginStore).                                               *)

LEMMA StoreInitially == Plugins!Init => Plugins!StoreInv
<1> SUFFICES ASSUME Plugins!Init PROVE Plugins!StoreInv
  OBVIOUS
<1>1. Plugins!NoOp.at = "idle" /\ Plugins!NoEntry \in [on : BOOLEAN, grant : BOOLEAN] /\ Plugins!Gone \in Plugins!Holds
  BY DEF Plugins!NoOp, Plugins!NoEntry, Plugins!Holds
<1>2. \A p \in Installers : v3[p].at = "idle" /\ v3[p].at \in Plugins!Stages
  BY <1>1 DEF Plugins!Init, Plugins!Stages
<1>3. Plugins!TypeOK
  BY <1>1, <1>2, PluginAssumption DEF Plugins!Init, Plugins!TypeOK
<1> QED
  BY <1>2, <1>3 DEF Plugins!Init, Plugins!StoreInv

LEMMA StoreIsKept == Plugins!StoreInv /\ [Plugins!Next]_(Plugins!plVars) => Plugins!StoreInv'
<1> SUFFICES ASSUME Plugins!StoreInv, [Plugins!Next]_(Plugins!plVars) PROVE Plugins!StoreInv'
  OBVIOUS
<1> DEFINE Entries == [on : BOOLEAN, grant : BOOLEAN]
           \* What the invariant says of the operation under way.
           OpOk(o, T, E, R) ==
              /\ o.at \in Plugins!Stages
              /\ o.at # "idle" =>
                    /\ o.n \in PluginNames /\ DOMAIN o = {"at", "n", "pack", "read"}
                    /\ o.at \in {"copy", "check"} => o.pack \in Packs /\ (o.n \notin R => E[o.n] = Plugins!NoEntry)
                    /\ o.at = "removing" => E[o.n] = Plugins!NoEntry
                    /\ o.at \in {"write", "popped"} =>
                          /\ o.pack \in Plugins!Holds \cup {"none"}
                          /\ \E e \in Entries : o.read = [E EXCEPT ![o.n] = e] /\ (o.at = "popped" => e = Plugins!NoEntry)
                    /\ o.at = "write" => o.pack = T[o.n] /\ T[o.n] # Plugins!Gone
           \* And of the files.
           FilesOk(T, E, G, R) ==
              /\ T \in [PluginNames -> Plugins!Holds] /\ G \in [PluginNames -> Plugins!Holds] /\ E \in [PluginNames -> Entries] /\ R \subseteq PluginNames
              /\ \A n \in PluginNames \ R : E[n] # Plugins!NoEntry => T[n] = G[n] /\ T[n] # Plugins!Gone
<1>0. /\ FilesOk(v1, v2, v4, v5) /\ DOMAIN v3 = Installers /\ v6 \in 0..MaxOps
      /\ \A p \in Installers : OpOk(v3[p], v1, v2, v5)
  BY DEF Plugins!StoreInv, Plugins!TypeOK
\* There is one process: its operation is all there is to look at.
<1>g. ASSUME NEW p \in Installers, NEW o,
             v3' = [v3 EXCEPT ![p] = o] \/ (v3' = v3 /\ v3[p] = o),
             v6' \in 0..MaxOps,
             FilesOk(v1', v2', v4', v5'),
             OpOk(o, v1', v2', v5')
      PROVE  Plugins!StoreInv'
  <2>1. DOMAIN v3' = Installers /\ v3'[p] = o
    BY <1>0, <1>g
  <2>2. \A q \in Installers : v3'[q] = o
    BY <2>1, PluginAssumption
  <2> HIDE DEF OpOk
  <2>3. \A q \in Installers : OpOk(v3'[q], v1', v2', v5')
    BY <1>g, <2>2
  <2> USE DEF OpOk
  <2> HIDE DEF FilesOk
  <2>4. Plugins!TypeOK'
    BY <1>g, <2>3 DEF Plugins!TypeOK, FilesOk
  <2>5. \A n \in PluginNames \ v5' : v2'[n] # Plugins!NoEntry => v1'[n] = v4'[n] /\ v1'[n] # Plugins!Gone
    BY <1>g DEF FilesOk
  <2> QED
    BY <2>1, <2>3, <2>4, <2>5 DEF Plugins!StoreInv
<1>n. /\ DOMAIN Plugins!NoOp = {"at", "n", "pack", "read"} /\ Plugins!NoOp.at = "idle"
  BY DEF Plugins!NoOp
<1>i. \A T, E, R : OpOk(Plugins!NoOp, T, E, R)
  BY <1>n DEF Plugins!Stages
<1>h. Plugins!Gone \in Plugins!Holds /\ Plugins!Partial \in Plugins!Holds /\ Packs \subseteq Plugins!Holds /\ Plugins!NoEntry \in Entries
  BY DEF Plugins!Holds, Plugins!NoEntry
<1>b. ASSUME NEW p, NEW o, Plugins!Begin(p, o) PROVE v6' \in 0..MaxOps /\ v3' = [v3 EXCEPT ![p] = o]
  BY <1>0, <1>b, PluginAssumption DEF Plugins!Begin
<1>1. ASSUME NEW p \in Installers, NEW n \in PluginNames, NEW pack \in Packs, Plugins!Install(p, n, pack) PROVE Plugins!StoreInv'
  <2> DEFINE o == [Plugins!NoOp EXCEPT !.at = "copy", !.n = n, !.pack = pack]
  <2>1. /\ v1' = [v1 EXCEPT ![n] = Plugins!Partial] /\ UNCHANGED <<v2, v4>>
        /\ v5' = IF v1[n] = Plugins!Gone THEN v5 ELSE v5 \union {n}
        /\ v6' \in 0..MaxOps /\ v3' = [v3 EXCEPT ![p] = o]
    BY <1>1, <1>b DEF Plugins!Install, Plugins!Holding
  <2>2. n \notin v5' => v2[n] = Plugins!NoEntry
    BY <1>0, <2>1
  <2>3. o.at = "copy" /\ o.n = n /\ o.pack = pack /\ DOMAIN o = {"at", "n", "pack", "read"}
    BY <1>n
  <2> HIDE DEF o
  <2>4. OpOk(o, v1', v2', v5')
    BY <2>1, <2>2, <2>3 DEF Plugins!Stages
  <2>5. FilesOk(v1', v2', v4', v5')
    BY <1>0, <1>h, <2>1, <2>2
  <2> HIDE DEF OpOk, FilesOk
  <2> QED
    BY <1>g, <2>1, <2>4, <2>5
<1>2. ASSUME NEW p \in Installers, Plugins!Copied(p) PROVE Plugins!StoreInv'
  <2> DEFINE o == [v3[p] EXCEPT !.at = "check"]
             n == v3[p].n
  <2>1. /\ v3[p].at = "copy" /\ v1' = [v1 EXCEPT ![n] = v3[p].pack] /\ v3' = [v3 EXCEPT ![p] = o]
        /\ UNCHANGED <<v2, v4, v5, v6>>
    BY <1>2, <1>0 DEF Plugins!Copied, Plugins!Holding, Plugins!Moves, Plugins!At
  <2>2. n \in PluginNames /\ v3[p].pack \in Packs /\ (n \notin v5 => v2[n] = Plugins!NoEntry)
    BY <1>0, <2>1
  <2>3. o.at = "check" /\ o.n = n /\ o.pack = v3[p].pack /\ DOMAIN o = {"at", "n", "pack", "read"}
    BY <1>0, <2>1
  <2> HIDE DEF o
  <2>4. OpOk(o, v1', v2', v5')
    BY <2>1, <2>2, <2>3 DEF Plugins!Stages
  <2>5. FilesOk(v1', v2', v4', v5')
    BY <1>0, <1>h, <2>1, <2>2
  <2> HIDE DEF OpOk, FilesOk
  <2> QED
    BY <1>0, <1>g, <2>1, <2>4, <2>5
<1>3. ASSUME NEW p \in Installers, Plugins!Validated(p) PROVE Plugins!StoreInv'
  <2> DEFINE n == v3[p].n
  <2>1. /\ v3[p].at = "check" /\ v3' = [v3 EXCEPT ![p] = Plugins!NoOp]
        /\ v1' = v1 \/ v1' = [v1 EXCEPT ![n] = Plugins!Gone]
        /\ UNCHANGED <<v2, v4, v5, v6>>
    BY <1>3 DEF Plugins!Validated, Plugins!Ends, Plugins!At
  <2>2. n \in PluginNames /\ (n \notin v5 => v2[n] = Plugins!NoEntry)
    BY <1>0, <2>1
  <2>5. FilesOk(v1', v2', v4', v5')
    BY <1>0, <1>h, <2>1, <2>2
  <2> HIDE DEF OpOk, FilesOk
  <2> QED
    BY <1>0, <1>g, <1>i, <2>1, <2>5
<1>4. ASSUME NEW p \in Installers, NEW n \in PluginNames, NEW e \in Entries, Plugins!SetEntry(p, n, e) PROVE Plugins!StoreInv'
  <2> DEFINE o == [Plugins!NoOp EXCEPT !.at = "write", !.n = n, !.pack = v1[n], !.read = [v2 EXCEPT ![n] = e]]
  <2>1. /\ v1[n] # Plugins!Gone /\ UNCHANGED <<v1, v2, v4, v5>>
        /\ v6' \in 0..MaxOps /\ v3' = [v3 EXCEPT ![p] = o]
    BY <1>4, <1>b DEF Plugins!SetEntry
  <2>2. v1[n] \in Plugins!Holds
    BY <1>0
  <2>3. /\ o.at = "write" /\ o.n = n /\ o.pack = v1[n] /\ o.read = [v2 EXCEPT ![n] = e]
        /\ DOMAIN o = {"at", "n", "pack", "read"}
    BY <1>n
  <2> HIDE DEF o
  <2>4. OpOk(o, v1, v2, v5)
    BY <2>1, <2>2, <2>3 DEF Plugins!Stages
  <2> HIDE DEF OpOk, FilesOk
  <2> QED
    BY <1>0, <1>g, <2>1, <2>4
<1>5. ASSUME NEW p \in Installers, Plugins!WriteState(p) PROVE Plugins!StoreInv'
  <2> DEFINE n == v3[p].n
  <2>1. /\ v3[p].at = "write" /\ v2' = v3[p].read /\ v4' = [v4 EXCEPT ![n] = v3[p].pack]
        /\ v5' = v5 \ {n} /\ v3' = [v3 EXCEPT ![p] = Plugins!NoOp] /\ UNCHANGED <<v1, v6>>
    BY <1>5 DEF Plugins!WriteState, Plugins!Ends, Plugins!At
  <2>2. n \in PluginNames /\ v3[p].pack = v1[n] /\ v1[n] # Plugins!Gone
    BY <1>0, <2>1
  <2>3. PICK e \in Entries : v3[p].read = [v2 EXCEPT ![n] = e]
    BY <1>0, <2>1
  <2>4. v2' = [v2 EXCEPT ![n] = e] /\ v4' = [v4 EXCEPT ![n] = v1[n]]
    BY <2>1, <2>2, <2>3
  <2> HIDE DEF n
  <2>5. FilesOk(v1', v2', v4', v5')
    BY <1>0, <2>1, <2>2, <2>4
  <2> HIDE DEF OpOk, FilesOk
  <2> QED
    BY <1>0, <1>g, <1>i, <2>1, <2>5
<1>6. ASSUME NEW p \in Installers, NEW n \in PluginNames, Plugins!Uninstall(p, n) PROVE Plugins!StoreInv'
  <2> DEFINE o == [Plugins!NoOp EXCEPT !.at = "popped", !.n = n, !.read = [v2 EXCEPT ![n] = Plugins!NoEntry]]
  <2>1. /\ UNCHANGED <<v1, v2, v4, v5>>
        /\ v6' \in 0..MaxOps /\ v3' = [v3 EXCEPT ![p] = o]
    BY <1>6, <1>b DEF Plugins!Uninstall
  <2>3. /\ o.at = "popped" /\ o.n = n /\ o.pack = "none" /\ o.read = [v2 EXCEPT ![n] = Plugins!NoEntry]
        /\ DOMAIN o = {"at", "n", "pack", "read"}
    BY <1>n DEF Plugins!NoOp
  <2> HIDE DEF o
  <2>4. OpOk(o, v1, v2, v5)
    BY <1>h, <2>1, <2>3 DEF Plugins!Stages
  <2> HIDE DEF OpOk, FilesOk
  <2> QED
    BY <1>0, <1>g, <2>1, <2>4
<1>7. ASSUME NEW p \in Installers, Plugins!PopEntry(p) PROVE Plugins!StoreInv'
  <2> DEFINE n == v3[p].n
             o == [v3[p] EXCEPT !.at = "removing"]
  <2>1. /\ v3[p].at = "popped" /\ v2' = v3[p].read
        /\ v5' = v5 \ {n} /\ v3' = [v3 EXCEPT ![p] = o] /\ UNCHANGED <<v1, v4, v6>>
    BY <1>7, <1>0 DEF Plugins!PopEntry, Plugins!Moves, Plugins!At
  <2>2. n \in PluginNames /\ v3[p].read = [v2 EXCEPT ![n] = Plugins!NoEntry]
    BY <1>0, <2>1
  <2>3. o.at = "removing" /\ o.n = n /\ DOMAIN o = {"at", "n", "pack", "read"}
    BY <1>0, <2>1
  <2>4. v2' = [v2 EXCEPT ![n] = Plugins!NoEntry]
    BY <2>1, <2>2
  <2> HIDE DEF n, o
  <2>5. FilesOk(v1', v2', v4', v5')
    BY <1>0, <1>h, <2>1, <2>2, <2>4
  <2>6. OpOk(o, v1', v2', v5')
    BY <1>0, <2>2, <2>3, <2>4 DEF Plugins!Stages
  <2> HIDE DEF OpOk, FilesOk
  <2> QED
    BY <1>0, <1>g, <2>1, <2>5, <2>6
<1>8. ASSUME NEW p \in Installers, Plugins!RemoveTree(p) PROVE Plugins!StoreInv'
  <2> DEFINE n == v3[p].n
  <2>1. /\ v3[p].at = "removing" /\ UNCHANGED <<v2, v4, v5, v6>>
        /\ \/ v1' = [v1 EXCEPT ![n] = Plugins!Partial] /\ v3' = v3
           \/ v1' = [v1 EXCEPT ![n] = Plugins!Gone] /\ v3' = [v3 EXCEPT ![p] = Plugins!NoOp]
    BY <1>8 DEF Plugins!RemoveTree, Plugins!Holding, Plugins!Ends, Plugins!At
  <2>2. n \in PluginNames /\ v2[n] = Plugins!NoEntry
    BY <1>0, <2>1
  <2>5. FilesOk(v1', v2', v4', v5')
    BY <1>0, <1>h, <2>1, <2>2
  <2>3. PICK o : o = v3[p]
    OBVIOUS
  <2>4. o.at = "removing" /\ o.n \in PluginNames /\ DOMAIN o = {"at", "n", "pack", "read"} /\ v2'[o.n] = Plugins!NoEntry
    BY <1>0, <2>1, <2>2, <2>3
  <2>6. OpOk(o, v1', v2', v5')
    BY <2>4 DEF Plugins!Stages
  <2> HIDE DEF OpOk, FilesOk
  <2> QED
    BY <1>0, <1>g, <1>i, <2>1, <2>3, <2>5, <2>6
<1>9. ASSUME NEW p \in Installers, Plugins!Crash(p) PROVE Plugins!StoreInv'
  <2>1. /\ v2' \in {v2, [n \in PluginNames |-> Plugins!NoEntry]} /\ v3' = [v3 EXCEPT ![p] = Plugins!NoOp]
        /\ UNCHANGED <<v1, v4, v5, v6>>
    BY <1>9 DEF Plugins!Crash, Plugins!Ends
  <2>2. FilesOk(v1', v2', v4', v5')
    BY <1>0, <1>h, <2>1
  <2> HIDE DEF OpOk, FilesOk
  <2> QED
    BY <1>0, <1>g, <1>i, <2>1, <2>2
<1>10. CASE UNCHANGED Plugins!plVars
  <2>1. v1' = v1 /\ v2' = v2 /\ v3' = v3 /\ v4' = v4 /\ v5' = v5 /\ v6' = v6
    BY <1>10 DEF Plugins!plVars
  <2>2. Plugins!TypeOK'
    BY <2>1 DEF Plugins!StoreInv, Plugins!TypeOK
  <2> QED
    BY <2>1, <2>2 DEF Plugins!StoreInv
<1> HIDE DEF OpOk, FilesOk
<1>11. \A on, grant \in BOOLEAN : [on |-> on, grant |-> grant] \in Entries
  OBVIOUS
<1> HIDE DEF Entries
<1> QED
  BY <1>1, <1>2, <1>3, <1>4, <1>5, <1>6, <1>7, <1>8, <1>9, <1>10, <1>11 DEF Plugins!Next, Plugins!Done

LEMMA StoreShows == Plugins!StoreInv => Plugins!EntryIsForThisPack
BY DEF Plugins!StoreInv, Plugins!EntryIsForThisPack, Plugins!TypeOK

-----------------------------------------------------------------------------
(* The profiles (ProfileDeltas).                                            *)

LEMMA FirstFits == Profiles!First \in Profiles!Document /\ Profiles!First # Profiles!None /\ \A made : Profiles!Fitting(Profiles!First, made)
BY ProfileAssumption DEF Profiles!First, Profiles!Document, Profiles!Fitting, Profiles!None

LEMMA FitsInitially == Profiles!Init => Profiles!FitInv
<1> SUFFICES ASSUME Profiles!Init PROVE Profiles!FitInv
  OBVIOUS
<1>1. Profiles!Idle = [pc |-> "idle", d |-> Profiles!Edit, items |-> <<>>, doc |-> Profiles!First]
  BY DEF Profiles!Idle
<1>2. /\ DOMAIN Profiles!Idle = {"pc", "d", "items", "doc"} /\ Profiles!Idle.doc = Profiles!First /\ Profiles!Idle.d = Profiles!Edit /\ Profiles!Idle.pc = "idle"
  BY <1>1
<1>3. /\ \A p \in Editors : v6[p] = Profiles!Idle /\ v5[p] = Profiles!First
      /\ DOMAIN v6 = Editors /\ v4 = [d \in Deltas |-> Profiles!None]
      /\ v5 \in [Editors -> Profiles!Document]
      /\ v1 = Profiles!First /\ v2 = {}
  BY FirstFits DEF Profiles!Init
<1> QED
  BY <1>2, <1>3, FirstFits DEF Profiles!FitInv

LEMMA NoneIsNoDocument == Profiles!None \notin Profiles!Document
<1>1. ASSUME Profiles!None \in Profiles!Document PROVE FALSE
  <2>1. <<"none">> \in Seq(Deltas \cup {Profiles!Edit})
    BY <1>1 DEF Profiles!None, Profiles!Document
  <2>2. <<"none">>[1] \in Deltas \cup {Profiles!Edit}
    BY <2>1
  <2> QED
    BY <2>2, ProfileAssumption DEF Profiles!Edit
<1> QED
  BY <1>1

\* A document that fits still does when more deltas have a target.
LEMMA FitsOn ==
    ASSUME NEW doc, NEW made, NEW more, Profiles!Fitting(doc, made),
           \A d \in Deltas : made[d] # Profiles!None => more[d] = made[d]
    PROVE  Profiles!Fitting(doc, more)
BY DEF Profiles!Fitting

\* The next document of a delta that was made from this one.
LEMMA NextFits ==
    ASSUME NEW doc \in Profiles!Document, NEW made, Profiles!Fitting(doc, made), NEW d \in Deltas \cup {Profiles!Edit},
           NEW r \in 1..MaxRev,
           d \in Deltas => made[d] # Profiles!None /\ made[d] = doc
    PROVE  /\ [rev |-> r, marks |-> Append(doc.marks, d)] \in Profiles!Document
           /\ Profiles!Fitting([rev |-> r, marks |-> Append(doc.marks, d)], made)
<1> DEFINE s == doc.marks
           t == Append(s, d)
           M == Deltas \cup {Profiles!Edit}
<1>1. s \in Seq(M)
  BY DEF Profiles!Document
<1>2. t \in Seq(M) /\ Len(t) = Len(s) + 1 /\ t[Len(s) + 1] = d
      /\ \A i \in 1..Len(s) : t[i] = s[i]
  BY <1>1
<1>3. ASSUME NEW i \in DOMAIN t PROVE SubSeq(t, 1, i - 1) = SubSeq(s, 1, i - 1)
  BY <1>1, <1>2
<1>4. SubSeq(s, 1, Len(s)) = s
  BY <1>1
<1>5. ASSUME NEW i \in DOMAIN t, t[i] \in Deltas
      PROVE  made[t[i]] # Profiles!None /\ made[t[i]].marks = SubSeq(t, 1, i - 1)
  <2>1. CASE i = Len(s) + 1
    <3>1. t[i] = d /\ i - 1 = Len(s)
      BY <1>1, <1>2, <2>1
    <3> QED
      BY <1>3, <1>4, <1>5, <3>1
  <2>2. CASE i \in 1..Len(s)
    <3>1. i \in DOMAIN s /\ t[i] = s[i]
      BY <1>1, <1>2, <2>2
    <3>2. made[s[i]] # Profiles!None /\ made[s[i]].marks = SubSeq(s, 1, i - 1)
      BY <1>5, <3>1 DEF Profiles!Fitting
    <3> QED
      BY <1>3, <3>1, <3>2
  <2> QED
    BY <1>1, <1>2, <2>1, <2>2
<1> DEFINE new == [rev |-> r, marks |-> t]
<1>6. new \in Profiles!Document /\ new.marks = t
  BY <1>2 DEF Profiles!Document
<1> HIDE DEF new, t, s
<1>7. Profiles!Fitting(new, made)
  BY <1>5, <1>6 DEF Profiles!Fitting
<1> QED
  BY <1>6, <1>7 DEF new, t, s

LEMMA FitIsKept == Profiles!FitInv /\ [Profiles!Next]_(Profiles!vars) => Profiles!FitInv'
<1> SUFFICES ASSUME Profiles!FitInv, [Profiles!Next]_(Profiles!vars) PROVE Profiles!FitInv'
  OBVIOUS
<1> DEFINE CallOk(c, made) == /\ DOMAIN c = {"pc", "d", "items", "doc"}
                              /\ c.doc \in Profiles!Document /\ Profiles!Fitting(c.doc, made)
                              /\ c.d \in Deltas \cup {Profiles!Edit}
                              /\ c.pc = "apply" => c.d \in Deltas
<1>0. /\ v4 \in [Deltas -> Profiles!Document \cup {Profiles!None}]
      /\ v5 \in [Editors -> Profiles!Document]
      /\ v1 \in Profiles!Document /\ v2 \subseteq Profiles!Document /\ Profiles!Fitting(v1, v4)
      /\ \A doc \in v2 : Profiles!Fitting(doc, v4)
      /\ DOMAIN v6 = Editors
      /\ \A p \in Editors : Profiles!Fitting(v5[p], v4) /\ CallOk(v6[p], v4)
  BY DEF Profiles!FitInv
<1>g. ASSUME v4' \in [Deltas -> Profiles!Document \cup {Profiles!None}],
             v5' \in [Editors -> Profiles!Document],
             v1' \in Profiles!Document, v2' \subseteq Profiles!Document, Profiles!Fitting(v1', v4'),
             \A doc \in v2' : Profiles!Fitting(doc, v4'),
             DOMAIN v6' = Editors,
             \A p \in Editors : Profiles!Fitting(v5'[p], v4') /\ CallOk(v6'[p], v4')
      PROVE  Profiles!FitInv'
  BY <1>g DEF Profiles!FitInv
<1>d. /\ DOMAIN Profiles!Idle = {"pc", "d", "items", "doc"} /\ Profiles!Idle.doc = Profiles!First /\ Profiles!Idle.d = Profiles!Edit /\ Profiles!Idle.pc = "idle"
  BY DEF Profiles!Idle
<1>i. \A made : CallOk(Profiles!Idle, made)
  BY FirstFits DEF Profiles!Idle
\* One call moves; nobody's target does.
<1>c. ASSUME NEW p \in Editors, NEW c, CallOk(c, v4), v6' = [v6 EXCEPT ![p] = c],
             UNCHANGED <<v4, v5>>,
             v1' \in Profiles!Document, Profiles!Fitting(v1', v4),
             v2' \subseteq Profiles!Document, \A doc \in v2' : Profiles!Fitting(doc, v4)
      PROVE  Profiles!FitInv'
  <2>1. DOMAIN v6' = Editors /\ v6'[p] = c /\ \A q \in Editors \ {p} : v6'[q] = v6[q]
    BY <1>0, <1>c
  <2> HIDE DEF CallOk
  <2>2. \A q \in Editors : CallOk(v6'[q], v4)
    BY <1>0, <1>c, <2>1
  <2> QED
    BY <1>0, <1>c, <1>g, <2>1, <2>2
<1>u. ASSUME NEW p \in Editors, NEW c, CallOk(c, v4), v6' = [v6 EXCEPT ![p] = c],
             UNCHANGED <<v4, v5, v1, v2>>
      PROVE  Profiles!FitInv'
  BY <1>0, <1>c, <1>u
<1>e. ASSUME NEW p \in Editors, Profiles!Ends(p), UNCHANGED <<v4, v5, v1, v2>> PROVE Profiles!FitInv'
  BY <1>i, <1>u, <1>e DEF Profiles!Ends
<1>v. ASSUME v1.rev < MaxRev PROVE v1.rev + 1 \in 1..MaxRev
  BY <1>0, <1>v, ProfileAssumption DEF Profiles!Document
<1>1. ASSUME NEW p \in Editors, Profiles!Load(p) PROVE Profiles!FitInv'
  <2>1. v5' \in [Editors -> Profiles!Document] /\ \A q \in Editors : v5'[q] \in {v5[q], v1}
    BY <1>0, <1>1 DEF Profiles!Load
  <2>2. UNCHANGED <<v1, v2, v4, v6>>
    BY <1>1 DEF Profiles!Load
  <2>3. \A q \in Editors : Profiles!Fitting(v5'[q], v4)
    BY <1>0, <2>1
  <2> HIDE DEF CallOk
  <2> QED
    BY <1>0, <1>g, <2>1, <2>2, <2>3
<1>2. ASSUME NEW p \in Editors, NEW d \in Deltas, Profiles!Propose(p, d) PROVE Profiles!FitInv'
  <2> DEFINE c == [Profiles!Idle EXCEPT !.pc = "add", !.d = d, !.items = v3]
  <2>1. /\ v4[d] = Profiles!None /\ v4' = [v4 EXCEPT ![d] = v5[p]]
        /\ UNCHANGED <<v1, v2, v5>> /\ v6' = [v6 EXCEPT ![p] = c]
    BY <1>2 DEF Profiles!Propose, Profiles!Begin
  <2>2. v4' \in [Deltas -> Profiles!Document \cup {Profiles!None}]
    BY <1>0, <2>1
  <2>3. \A e \in Deltas : v4[e] # Profiles!None => v4'[e] = v4[e]
    BY <1>0, <2>1
  <2>4. DOMAIN c = {"pc", "d", "items", "doc"} /\ c.pc = "add" /\ c.d = d /\ c.doc = Profiles!First
    BY <1>d
  <2>5. CallOk(c, v4')
    BY <2>4, FirstFits
  <2>6. \A doc : Profiles!Fitting(doc, v4) => Profiles!Fitting(doc, v4')
    BY <2>3, FitsOn
  <2>7. \A q \in Editors : CallOk(v6[q], v4')
    BY <1>0, <2>3, <2>6
  <2> HIDE DEF c, CallOk
  <2>8. DOMAIN v6' = Editors /\ \A q \in Editors : CallOk(v6'[q], v4')
    <3>1. v6'[p] = c /\ \A q \in Editors \ {p} : v6'[q] = v6[q]
      BY <1>0, <2>1
    <3> QED
      BY <1>0, <2>1, <2>5, <2>7, <3>1
  <2> QED
    BY <1>0, <1>g, <2>1, <2>2, <2>6, <2>8
<1>3. ASSUME NEW p \in Editors, Profiles!Add(p) \/ Profiles!Note(p) \/ Profiles!Conflict(p) \/ Profiles!OperationRaises(p) \/ Profiles!Crash(p) PROVE Profiles!FitInv'
  BY <1>e, <1>3 DEF Profiles!Add, Profiles!Note, Profiles!Conflict, Profiles!OperationRaises, Profiles!Crash
<1>4. ASSUME NEW p \in Editors, NEW d \in Deltas, NEW v \in {"accepted", "rejected"}, Profiles!Decide(p, d, v) PROVE Profiles!FitInv'
  <2> DEFINE pc == IF v = "accepted" THEN "apply" ELSE "rejected"
             c == [Profiles!Idle EXCEPT !.pc = pc, !.d = d, !.items = v3]
  <2>1. UNCHANGED <<v1, v2, v4, v5>> /\ v6' = [v6 EXCEPT ![p] = c]
    BY <1>4 DEF Profiles!Decide, Profiles!Begin
  <2> HIDE DEF pc
  <2>2. DOMAIN c = {"pc", "d", "items", "doc"} /\ c.d = d /\ c.doc = Profiles!First
    BY <1>d
  <2> HIDE DEF c
  <2>4. CallOk(c, v4)
    BY <2>2, FirstFits
  <2> HIDE DEF CallOk
  <2> QED
    BY <1>u, <2>1, <2>4
<1>5. ASSUME NEW p \in Editors, Profiles!Apply(p) PROVE Profiles!FitInv'
  <2> DEFINE d == v6[p].d
             doc == [rev |-> v1.rev + 1, marks |-> Append(v1.marks, d)]
             c == [v6[p] EXCEPT !.pc = "write", !.doc = doc]
  <2>1. /\ v6[p].pc = "apply" /\ v1 = v4[d] /\ v1.rev < MaxRev
        /\ v2' = v2 \cup {v1} /\ UNCHANGED <<v1, v4, v5>>
        /\ v6' = [v6 EXCEPT ![p] = c]
    BY <1>0, <1>5 DEF Profiles!Apply, Profiles!Fits
  <2>2. d \in Deltas /\ v4[d] # Profiles!None
    BY <1>0, <2>1, NoneIsNoDocument
  <2>3. doc \in Profiles!Document /\ Profiles!Fitting(doc, v4)
    BY <1>0, <1>v, <2>1, <2>2, NextFits
  <2>4. /\ DOMAIN c = {"pc", "d", "items", "doc"} /\ c.pc = "write" /\ c.doc = doc /\ c.d = d
    BY <1>0
  <2> HIDE DEF c, doc
  <2>5. CallOk(c, v4)
    BY <2>2, <2>3, <2>4
  <2>6. v2' \subseteq Profiles!Document /\ \A k \in v2' : Profiles!Fitting(k, v4)
    BY <1>0, <2>1
  <2> HIDE DEF CallOk, d
  <2> QED
    BY <1>0, <1>c, <2>1, <2>5, <2>6
<1>6. ASSUME NEW p \in Editors, Profiles!Write(p) PROVE Profiles!FitInv'
  <2> DEFINE c == [v6[p] EXCEPT !.pc = "accepted"]
  <2>1. /\ v1' = v6[p].doc /\ UNCHANGED <<v2, v4, v5>>
        /\ v6' = [v6 EXCEPT ![p] = Profiles!Idle] \/ v6' = [v6 EXCEPT ![p] = c]
    BY <1>0, <1>6 DEF Profiles!Write, Profiles!Ends
  <2>2. v1' \in Profiles!Document /\ Profiles!Fitting(v1', v4) /\ CallOk(v6[p], v4)
    BY <1>0, <2>1
  <2>3. DOMAIN c = {"pc", "d", "items", "doc"} /\ c.pc = "accepted" /\ c.doc = v6[p].doc /\ c.d = v6[p].d
    BY <2>2
  <2> HIDE DEF c
  <2>4. CallOk(c, v4)
    BY <2>2, <2>3
  <2> HIDE DEF CallOk
  <2> QED
    BY <1>0, <1>c, <1>i, <2>1, <2>2, <2>4
<1>7. ASSUME NEW p \in Editors, Profiles!Save(p) PROVE Profiles!FitInv'
  <2> DEFINE doc == [rev |-> v1.rev + 1, marks |-> Append(v1.marks, Profiles!Edit)]
             c == [Profiles!Idle EXCEPT !.pc = "write", !.doc = doc]
  <2>1. /\ v1.rev < MaxRev
        /\ v2' = v2 \cup {v1} /\ UNCHANGED <<v1, v4, v5>>
        /\ v6' = [v6 EXCEPT ![p] = c]
    BY <1>7 DEF Profiles!Save, Profiles!Begin
  <2>2. doc \in Profiles!Document /\ Profiles!Fitting(doc, v4)
    BY <1>0, <1>v, <2>1, NextFits, ProfileAssumption
  <2> HIDE DEF doc
  <2>3. DOMAIN c = {"pc", "d", "items", "doc"} /\ c.pc = "write" /\ c.d = Profiles!Edit /\ c.doc = doc
    BY <1>d
  <2> HIDE DEF c
  <2>4. CallOk(c, v4)
    BY <2>2, <2>3
  <2>5. v2' \subseteq Profiles!Document /\ \A k \in v2' : Profiles!Fitting(k, v4)
    BY <1>0, <2>1
  <2> HIDE DEF CallOk
  <2> QED
    BY <1>0, <1>c, <2>1, <2>4, <2>5
<1>8. ASSUME NEW p \in Editors, NEW k \in v2, Profiles!Rollback(p, k) PROVE Profiles!FitInv'
  <2> DEFINE c == [Profiles!Idle EXCEPT !.pc = "write", !.doc = k]
  <2>1. /\ v2' = v2 \cup {v1} /\ UNCHANGED <<v1, v4, v5>>
        /\ v6' = [v6 EXCEPT ![p] = c]
    BY <1>8 DEF Profiles!Rollback, Profiles!Begin
  <2>2. k \in Profiles!Document /\ Profiles!Fitting(k, v4)
    BY <1>0
  <2>3. DOMAIN c = {"pc", "d", "items", "doc"} /\ c.pc = "write" /\ c.d = Profiles!Edit /\ c.doc = k
    BY <1>d
  <2> HIDE DEF c
  <2>4. CallOk(c, v4)
    BY <2>2, <2>3
  <2>5. v2' \subseteq Profiles!Document /\ \A l \in v2' : Profiles!Fitting(l, v4)
    BY <1>0, <2>1
  <2> HIDE DEF CallOk
  <2> QED
    BY <1>0, <1>c, <2>1, <2>4, <2>5
<1>9. CASE UNCHANGED Profiles!vars
  BY <1>9, <1>0, <1>g DEF Profiles!vars
<1> QED
  BY <1>1, <1>2, <1>3, <1>4, <1>5, <1>6, <1>7, <1>8, <1>9 DEF Profiles!Next

LEMMA FitShows == Profiles!FitInv => Profiles!AppliedToItsTarget
BY DEF Profiles!FitInv, Profiles!AppliedToItsTarget, Profiles!Fitting

(* For every set of plugins and packs, one process at a time, wherever it   *)
(* dies: what is enabled or granted is the pack it was given to.  And for   *)
(* any number of processes: a delta is in the profile on top of the very    *)
(* document it was made from.                                               *)
THEOREM ReviewsFit == Spec => []ReviewsStillFit
<1> DEFINE One == scene = "plugins" => Plugins!StoreInv
           Two == scene = "profiles" => Profiles!FitInv
<1>1. Init => One /\ Two
  BY StoreInitially, FitsInitially DEF Init
<1>2. One /\ [Next]_vars => One'
  BY SceneStep, StoreIsKept
<1>3. Two /\ [Next]_vars => Two'
  BY SceneStep, FitIsKept
<1>4. One /\ Two => ReviewsStillFit
  BY StoreShows, FitShows DEF ReviewsStillFit
<1> QED
  BY <1>1, <1>2, <1>3, <1>4, PTL DEF Spec

-----------------------------------------------------------------------------
(* A team's memory (TeamMemory).                                            *)

\* What ReviewedBut says of sets of commits that grow.
LEMMA ReviewedTogether ==
    ASSUME NEW A, NEW B, NEW P, Team!ReviewedBut(A, P), Team!ReviewedBut(B, P)
    PROVE  Team!ReviewedBut(A \cup B, P)
BY DEF Team!ReviewedBut
LEMMA ReviewedLess ==
    ASSUME NEW A, NEW P, NEW Q, Team!ReviewedBut(A, P), P \subseteq Q
    PROVE  Team!ReviewedBut(A, Q)
BY DEF Team!ReviewedBut
LEMMA ReviewedWith ==
    ASSUME NEW A, NEW P, NEW x, Team!ReviewedBut(A, P), x.kind # "nodes"
    PROVE  Team!ReviewedBut(A \cup {x}, P)
BY DEF Team!ReviewedBut
LEMMA ReviewedAtLast ==
    ASSUME NEW A, NEW P, NEW p, NEW x, Team!ReviewedBut(A, P \cup {p}), Team!Approves(x, p),
           x.kind # "nodes"
    PROVE  Team!ReviewedBut(A \cup {x}, P)
BY DEF Team!ReviewedBut
LEMMA ReviewedStaged ==
    ASSUME NEW A, NEW P, NEW S, Team!ReviewedBut(A, P), Team!NodesIn(S) \subseteq P
    PROVE  Team!ReviewedBut(A \cup S, P)
BY DEF Team!ReviewedBut, Team!NodesIn
LEMMA ReviewedEmpty == \A P : Team!ReviewedBut({}, P)
BY DEF Team!ReviewedBut

\* What is known of the shared repository, when the nodes T are stranded.
RemoteOk(R, T) ==
    /\ R \in [main : SUBSET Team!Commits, branch : [Proposals -> {Team!NoRef} \cup SUBSET Team!Commits]]
    /\ Team!ReviewedBut(R.main, T)
    /\ \A p \in Proposals : R.branch[p] # Team!NoRef => Team!ReviewedBut(R.branch[p], T \cup {p})
\* Of a clone.
CloneOk(c, T) ==
    /\ c \in Team!CloneType /\ Team!ReviewedBut(c.track, T)
    /\ \A p \in Proposals : c.seen[p] # Team!NoRef => Team!ReviewedBut(c.seen[p], T \cup {p})
\* Of a call o of a with the clone c.
Landed(p, main) == \E x \in main : x.kind \in {"accept", "self"} /\ x.p = p
CallFits(o, a, c, main, T) ==
    /\ o.at # "idle" => o.p \in Proposals /\ o.d \in {"propose"} \cup Team!Decisions
    /\ o.at = "checkedOut" => /\ c.head = o.p /\ Team!ReviewedBut(c.branch[o.p], T \cup {o.p})
                              /\ Team!NodesIn(c.staged) \subseteq T \cup {o.p}
    /\ o.at # "checkedOut" => Team!NodesIn(c.staged) \subseteq T
    /\ o.at = "committed" => Team!ReviewedBut(c.branch[o.p], T \cup {o.p})
    /\ o.at \in {"shown", "onMain", "merged", "recorded", "pushed"} =>
          o.d \in {"reject", "self"} \/ (o.d = "accept" /\ UserOf[a] # Author[o.p])
    /\ o.at \in {"onMain", "merged", "recorded"} => c.head = Team!Main
    /\ o.at = "onMain" => o.d # "reject" /\ Team!ReviewedBut(c.main, T)
    /\ o.at = "merged" => Team!ReviewedBut(c.main, T \cup (IF o.d = "reject" THEN {} ELSE {o.p}))
    /\ o.at = "recorded" =>
          /\ Team!ReviewedBut(c.main, T)
          /\ o.d # "reject" => \E y \in c.main : y.kind \in {"accept", "self"} /\ y.p = o.p
    /\ o.at = "pushed" /\ o.d # "reject" => Landed(o.p, main)
    /\ o.said \in {"accept", "self"} => Landed(o.p, main)

TeamParts ==
    /\ RemoteOk(v1, v5)
    /\ v2 \in [Users -> Team!CloneType] /\ \A u \in Users : CloneOk(v2[u], v5)
    /\ v3 \in [Actors -> Team!CallType] /\ v4 \in [Actors -> 0..MaxCalls]
    /\ \A b \in Actors : /\ CallFits(v3[b], b, v2[UserOf[b]], v1.main, v5)
                         /\ v3[b].at # "idle" => v4[b] # 0

LEMMA TeamInParts == Team!TeamInv <=> TeamParts
<1>1. \A p : Team!Accepted(p) # {} <=> Landed(p, v1.main)
  BY DEF Team!Accepted, Landed
<1>2. \A a \in Actors : Team!CallInv(a) <=> CallFits(v3[a], a, v2[UserOf[a]], v1.main, v5)
  <2> TAKE a \in Actors
  <2>1. \A p : Team!Accepted(p) # {} <=> Landed(p, v1.main)
    BY <1>1
  <2> QED
    BY <2>1 DEF Team!CallInv, CallFits
<1>3. \A u \in Users : v2 \in [Users -> Team!CloneType] => (Team!CloneInv(u) <=> CloneOk(v2[u], v5))
  BY DEF Team!CloneInv, CloneOk
<1> QED
  BY <1>2, <1>3 DEF Team!TeamInv, RemoteOk, TeamParts

LEMMA PrimedParts == Team!TeamInv' <=> TeamParts'
BY TeamInParts, PTL

\* More may be stranded.
LEMMA RemoteMore ==
    ASSUME NEW R, NEW T, NEW U, RemoteOk(R, T), T \subseteq U
    PROVE  RemoteOk(R, U)
<1>1. \A P : T \cup P \subseteq U \cup P
  OBVIOUS
<1>2. \A A, P : Team!ReviewedBut(A, T \cup P) => Team!ReviewedBut(A, U \cup P)
  BY <1>1, ReviewedLess
<1>3. \A A : Team!ReviewedBut(A, T) => Team!ReviewedBut(A, U)
  BY ReviewedLess
<1> QED
  BY <1>2, <1>3 DEF RemoteOk
LEMMA CloneMore ==
    ASSUME NEW c, NEW T, NEW U, CloneOk(c, T), T \subseteq U
    PROVE  CloneOk(c, U)
<1>1. \A P : T \cup P \subseteq U \cup P
  OBVIOUS
<1>2. \A A, P : Team!ReviewedBut(A, T \cup P) => Team!ReviewedBut(A, U \cup P)
  BY <1>1, ReviewedLess
<1>3. \A A : Team!ReviewedBut(A, T) => Team!ReviewedBut(A, U)
  BY ReviewedLess
<1> QED
  BY <1>2, <1>3 DEF CloneOk

\* The Git commands on a clone.
LEMMA FetchedClone ==
    ASSUME NEW c, NEW T, CloneOk(c, T), RemoteOk(v1, T)
    PROVE  /\ CloneOk(Team!Fetched(c), T) /\ Team!Fetched(c).track = v1.main
           /\ Team!Fetched(c).head = c.head /\ Team!Fetched(c).main = c.main
           /\ Team!Fetched(c).branch = c.branch /\ Team!Fetched(c).staged = c.staged
<1> DEFINE seen == [p \in Proposals |-> IF v1.branch[p] = Team!NoRef THEN c.seen[p] ELSE v1.branch[p]]
           f == [c EXCEPT !.track = v1.main, !.seen = seen]
<1>1. /\ seen \in [Proposals -> {Team!NoRef} \cup SUBSET Team!Commits]
      /\ \A p \in Proposals : seen[p] # Team!NoRef => Team!ReviewedBut(seen[p], T \cup {p})
  BY DEF CloneOk, RemoteOk, Team!CloneType
<1>2. v1.main \subseteq Team!Commits /\ Team!ReviewedBut(v1.main, T)
  BY DEF RemoteOk
<1> HIDE DEF seen
<1>3. f \in Team!CloneType /\ f.track = v1.main /\ f.seen = seen
      /\ f.head = c.head /\ f.main = c.main /\ f.branch = c.branch /\ f.staged = c.staged
  BY <1>1, <1>2 DEF CloneOk, Team!CloneType
<1> QED
  BY <1>1, <1>2, <1>3 DEF Team!Fetched, CloneOk, seen

LEMMA PrunedClone ==
    ASSUME NEW c, NEW T, CloneOk(c, T), RemoteOk(v1, T)
    PROVE  /\ CloneOk(Team!Pruned(c), T) /\ Team!Pruned(c).track = v1.main
           /\ Team!Pruned(c).head = c.head /\ Team!Pruned(c).main = c.main
           /\ Team!Pruned(c).branch = c.branch /\ Team!Pruned(c).staged = c.staged
<1> DEFINE f == [c EXCEPT !.track = v1.main, !.seen = v1.branch]
<1>1. /\ v1.branch \in [Proposals -> {Team!NoRef} \cup SUBSET Team!Commits]
      /\ \A p \in Proposals : v1.branch[p] # Team!NoRef => Team!ReviewedBut(v1.branch[p], T \cup {p})
      /\ v1.main \subseteq Team!Commits /\ Team!ReviewedBut(v1.main, T)
  BY DEF RemoteOk
<1>3. f \in Team!CloneType /\ f.track = v1.main /\ f.seen = v1.branch
      /\ f.head = c.head /\ f.main = c.main /\ f.branch = c.branch /\ f.staged = c.staged
  BY <1>1 DEF CloneOk, Team!CloneType
<1> QED
  BY <1>1, <1>3 DEF Team!Pruned, CloneOk

\* A clone of which something local was changed.
LEMMA LocalChange ==
    ASSUME NEW c, NEW T, CloneOk(c, T), NEW d \in Team!CloneType, d.track = c.track, d.seen = c.seen
    PROVE  CloneOk(d, T)
BY DEF CloneOk

LEMMA OnMainClone ==
    ASSUME NEW c, NEW T, CloneOk(c, T)
    PROVE  /\ CloneOk(Team!OnMain(c), T) /\ Team!OnMain(c).head = Team!Main
           /\ Team!OnMain(c).main = c.track /\ Team!OnMain(c).staged = c.staged
<1> DEFINE d == [c EXCEPT !.head = Team!Main, !.main = c.track]
<1>1. d \in Team!CloneType /\ d.track = c.track /\ d.seen = c.seen /\ d.head = Team!Main
      /\ d.main = c.track /\ d.staged = c.staged
  BY DEF CloneOk, Team!CloneType
<1> QED
  BY <1>1, LocalChange DEF Team!OnMain

LEMMA OnBranchClone ==
    ASSUME NEW c, NEW T, CloneOk(c, T), NEW p \in Proposals
    PROVE  /\ CloneOk(Team!OnBranch(c, p), T) /\ Team!OnBranch(c, p).head = p
           /\ Team!OnBranch(c, p).branch[p] = c.track /\ Team!OnBranch(c, p).main = c.main
           /\ Team!OnBranch(c, p).staged = c.staged
<1> DEFINE d == [c EXCEPT !.head = p, !.branch[p] = c.track]
<1>1. d \in Team!CloneType /\ d.track = c.track /\ d.seen = c.seen /\ d.head = p
      /\ d.main = c.main /\ d.staged = c.staged /\ d.branch[p] = c.track
  BY DEF CloneOk, Team!CloneType
<1> QED
  BY <1>1, LocalChange DEF Team!OnBranch

\* While main is out.
LEMMA MainBecomes ==
    ASSUME NEW c, NEW T, CloneOk(c, T), c.head = Team!Main, NEW S \in SUBSET Team!Commits
    PROVE  /\ CloneOk(Team!WithHead(c, S), T) /\ Team!WithHead(c, S).head = Team!Main /\ Team!HeadOf(c) = c.main
           /\ Team!WithHead(c, S).main = S /\ Team!WithHead(c, S).staged = c.staged
<1> DEFINE d == [c EXCEPT !.main = S]
<1>1. d \in Team!CloneType /\ d.track = c.track /\ d.seen = c.seen /\ d.head = Team!Main
      /\ d.main = S /\ d.staged = c.staged
  BY DEF CloneOk, Team!CloneType
<1> QED
  BY <1>1, LocalChange DEF Team!WithHead, Team!HeadOf

LEMMA StagedBecomes ==
    ASSUME NEW c, NEW T, CloneOk(c, T), NEW S \in SUBSET Team!Commits
    PROVE  /\ CloneOk([c EXCEPT !.staged = S], T) /\ [c EXCEPT !.staged = S].head = c.head
           /\ [c EXCEPT !.staged = S].main = c.main /\ [c EXCEPT !.staged = S].staged = S
           /\ [c EXCEPT !.staged = S].branch = c.branch
<1> DEFINE d == [c EXCEPT !.staged = S]
<1>1. d \in Team!CloneType /\ d.track = c.track /\ d.seen = c.seen /\ d.head = c.head
      /\ d.main = c.main /\ d.staged = S /\ d.branch = c.branch
  BY DEF CloneOk, Team!CloneType
<1> QED
  BY <1>1, LocalChange

LEMMA HeadMoves ==
    ASSUME NEW c, NEW T, CloneOk(c, T), NEW h \in {Team!Main} \cup Proposals
    PROVE  /\ CloneOk([c EXCEPT !.head = h], T) /\ [c EXCEPT !.head = h].head = h
           /\ [c EXCEPT !.head = h].main = c.main /\ [c EXCEPT !.head = h].staged = c.staged
           /\ [c EXCEPT !.head = h].track = c.track
<1> DEFINE d == [c EXCEPT !.head = h]
<1>1. d \in Team!CloneType /\ d.track = c.track /\ d.seen = c.seen /\ d.head = h
      /\ d.main = c.main /\ d.staged = c.staged
  BY DEF CloneOk, Team!CloneType
<1> QED
  BY <1>1, LocalChange

LEMMA NothingStaged == \A T : Team!NodesIn({}) \subseteq T
BY DEF Team!NodesIn

LEMMA HardResetClone ==
    ASSUME NEW c, NEW T, CloneOk(c, T), c.head = Team!Main
    PROVE  /\ CloneOk(Team!HardReset(c), T) /\ Team!HardReset(c).main = c.track /\ Team!HardReset(c).staged = {}
<1> DEFINE d == Team!WithHead(c, c.track)
<1>1. c.track \in SUBSET Team!Commits
  BY DEF CloneOk, Team!CloneType
<1>2. CloneOk(d, T) /\ d.main = c.track
  BY <1>1, MainBecomes
<1> HIDE DEF d
<1>3. /\ CloneOk([d EXCEPT !.staged = {}], T) /\ [d EXCEPT !.staged = {}].main = d.main
      /\ [d EXCEPT !.staged = {}].staged = {}
  BY <1>2, StagedBecomes
<1>4. Team!HardReset(c) = [d EXCEPT !.staged = {}]
  BY DEF Team!HardReset, d
<1> QED
  BY <1>2, <1>3, <1>4

\* A commit on main takes what is staged along.
LEMMA CommitOnMain ==
    ASSUME NEW c, NEW T, CloneOk(c, T), c.head = Team!Main, NEW S \in SUBSET Team!Commits
    PROVE  /\ CloneOk(Team!Commit(c, S), T) /\ Team!Commit(c, S).head = Team!Main
           /\ Team!Commit(c, S).main = (c.main \cup S) \cup c.staged /\ Team!Commit(c, S).staged = {}
<1> DEFINE M == Team!HeadOf(c) \union S \union c.staged
           d == Team!WithHead(c, M)
<1>1. Team!HeadOf(c) = c.main /\ c.main \subseteq Team!Commits /\ c.staged \subseteq Team!Commits
  BY DEF Team!HeadOf, CloneOk, Team!CloneType
<1>2. M = (c.main \cup S) \cup c.staged /\ M \in SUBSET Team!Commits
  BY <1>1
<1> HIDE DEF M
<1>3. CloneOk(d, T) /\ d.main = M /\ d.head = Team!Main
  BY <1>2, MainBecomes
<1> HIDE DEF d
<1>4. /\ CloneOk([d EXCEPT !.staged = {}], T) /\ [d EXCEPT !.staged = {}].main = d.main
      /\ [d EXCEPT !.staged = {}].staged = {} /\ [d EXCEPT !.staged = {}].head = d.head
  BY <1>3, StagedBecomes
<1>5. Team!Commit(c, S) = [d EXCEPT !.staged = {}]
  BY DEF Team!Commit, d, M
<1> QED
  BY <1>2, <1>3, <1>4, <1>5

\* The commit of a proposal, on its branch.
LEMMA CommitOnBranch ==
    ASSUME NEW c, NEW T, CloneOk(c, T), NEW p \in Proposals, c.head = p,
           Team!NodesIn(c.staged) \subseteq T \cup {p}, Team!ReviewedBut(c.branch[p], T \cup {p})
    PROVE  /\ CloneOk(Team!Commit(c, {}), T) /\ Team!Commit(c, {}).staged = {}
           /\ Team!ReviewedBut(Team!Commit(c, {}).branch[p], T \cup {p})
<1> DEFINE M == Team!HeadOf(c) \union {} \union c.staged
           e == Team!WithHead(c, M)
           d == [c EXCEPT !.branch[p] = M]
<1>1. Team!HeadOf(c) = c.branch[p] /\ c.branch[p] \subseteq Team!Commits /\ p # Team!Main
      /\ c.staged \subseteq Team!Commits
  BY TeamAssumption DEF Team!HeadOf, CloneOk, Team!CloneType
<1>3. M = c.branch[p] \cup c.staged /\ M \in SUBSET Team!Commits
  BY <1>1
<1>4. Team!ReviewedBut(M, T \cup {p})
  BY <1>3, ReviewedStaged
<1> HIDE DEF M
<1>5. d \in Team!CloneType /\ d.track = c.track /\ d.seen = c.seen /\ d.branch[p] = M
  BY <1>3 DEF CloneOk, Team!CloneType
<1>6. e = d
  BY <1>1 DEF Team!WithHead
<1> HIDE DEF d
<1>7. CloneOk(d, T)
  BY <1>5, LocalChange
<1>8. /\ CloneOk([d EXCEPT !.staged = {}], T)
      /\ [d EXCEPT !.staged = {}].staged = {} /\ [d EXCEPT !.staged = {}].branch = d.branch
  BY <1>7, StagedBecomes
<1>9. Team!Commit(c, {}) = [d EXCEPT !.staged = {}]
  BY <1>6 DEF Team!Commit, M
<1> QED
  BY <1>4, <1>5, <1>8, <1>9

\* What a call that was begun says outlasts the steps of others.
LEMMA OthersGrow ==
    ASSUME NEW o, NEW a, NEW c, NEW main, NEW more, main \subseteq more, NEW T, NEW U, T \subseteq U,
           CallFits(o, a, c, main, T)
    PROVE  CallFits(o, a, c, more, U)
<1>1. \A p : Landed(p, main) => Landed(p, more)
  BY DEF Landed
<1>2. \A P : T \cup P \subseteq U \cup P
  OBVIOUS
<1>3. \A A, P : Team!ReviewedBut(A, T \cup P) => Team!ReviewedBut(A, U \cup P)
  BY <1>2, ReviewedLess
<1>4. \A A : Team!ReviewedBut(A, T) => Team!ReviewedBut(A, U)
  BY ReviewedLess
<1> QED
  BY <1>1, <1>3, <1>4 DEF CallFits

\* A step of a process on its clone.
LEMMA OneStep ==
    ASSUME Team!TeamInv, NEW a \in Actors, NEW c, NEW o \in Team!CallType, NEW k \in 0..MaxCalls,
           v2' = [v2 EXCEPT ![UserOf[a]] = c], v3' = [v3 EXCEPT ![a] = o],
           v4' = [v4 EXCEPT ![a] = k], o.at # "idle" => k # 0,
           CloneOk(c, v5'), RemoteOk(v1', v5'), v1.main \subseteq v1'.main, v5 \subseteq v5',
           CallFits(o, a, c, v1'.main, v5')
    PROVE  Team!TeamInv'
<1>1. /\ v2 \in [Users -> Team!CloneType] /\ \A u \in Users : CloneOk(v2[u], v5)
      /\ v3 \in [Actors -> Team!CallType] /\ v4 \in [Actors -> 0..MaxCalls]
      /\ \A b \in Actors : /\ CallFits(v3[b], b, v2[UserOf[b]], v1.main, v5)
                           /\ v3[b].at # "idle" => v4[b] # 0
  BY TeamInParts DEF TeamParts
<1>2. UserOf[a] \in Users /\ \A b \in Actors : b # a => UserOf[b] # UserOf[a]
  BY TeamAssumption
<1>6. \A u \in Users : CloneOk(v2[u], v5')
  BY <1>1, CloneMore
<1>3. v2' \in [Users -> Team!CloneType] /\ \A u \in Users : CloneOk(v2'[u], v5')
  BY <1>1, <1>2, <1>6 DEF CloneOk
<1>4. v3' \in [Actors -> Team!CallType] /\ v4' \in [Actors -> 0..MaxCalls]
  BY <1>1
<1>5. ASSUME NEW b \in Actors
      PROVE  /\ CallFits(v3'[b], b, v2'[UserOf[b]], v1'.main, v5')
             /\ v3'[b].at # "idle" => v4'[b] # 0
  <2>1. CASE b = a
    <3>1. v3'[b] = o /\ v4'[b] = k /\ v2'[UserOf[b]] = c
      BY <1>1, <1>2, <2>1
    <3> QED
      BY <3>1, <2>1
  <2>2. CASE b # a
    <3>1. v3'[b] = v3[b] /\ v4'[b] = v4[b] /\ v2'[UserOf[b]] = v2[UserOf[b]]
      BY <1>1, <1>2, <2>2, TeamAssumption
    <3>2. CallFits(v3[b], b, v2[UserOf[b]], v1'.main, v5')
      BY <1>1, OthersGrow
    <3> QED
      BY <1>1, <3>1, <3>2
  <2> QED
    BY <2>1, <2>2
<1>7. TeamParts'
  BY <1>3, <1>4, <1>5 DEF TeamParts
<1> QED
  BY <1>7, PrimedParts

LEMMA TeamInitially == Team!Init => Team!TeamInv
<1> SUFFICES ASSUME Team!Init PROVE Team!TeamInv
  OBVIOUS
<1>1. RemoteOk(v1, v5)
  BY ReviewedEmpty DEF Team!Init, RemoteOk
<1>2. ASSUME NEW u \in Users PROVE CloneOk(v2[u], v5) /\ v2[u].staged = {}
  BY <1>2, ReviewedEmpty DEF Team!Init, CloneOk, Team!CloneType
<1>3. v2 \in [Users -> Team!CloneType]
  BY DEF Team!Init, Team!CloneType
<1>4. /\ Team!Idle \in Team!CallType /\ Team!Idle.at = "idle" /\ Team!Idle.said = "none"
  BY DEF Team!Idle, Team!CallType, Team!Steps
<1>5. /\ v3 \in [Actors -> Team!CallType] /\ v4 \in [Actors -> 0..MaxCalls]
      /\ \A a \in Actors : v3[a] = Team!Idle
  BY <1>4, TeamAssumption DEF Team!Init
<1>6. ASSUME NEW a \in Actors PROVE CallFits(v3[a], a, v2[UserOf[a]], v1.main, v5)
  <2>1. v2[UserOf[a]].staged = {}
    BY <1>2, TeamAssumption
  <2> QED
    BY <1>4, <1>5, <2>1, NothingStaged DEF CallFits
<1> QED
  BY <1>1, <1>2, <1>3, <1>4, <1>5, <1>6, TeamInParts DEF TeamParts

LEMMA TeamShows == Team!TeamInv => Team!MainIsReviewed
<1> SUFFICES ASSUME Team!TeamInv PROVE Team!MainIsReviewed
  OBVIOUS
<1>1. RemoteOk(v1, v5) /\ \A a \in Actors : CallFits(v3[a], a, v2[UserOf[a]], v1.main, v5)
  BY TeamInParts DEF TeamParts
<1>2. ASSUME NEW x \in v1.main, x.kind = "nodes", x.p \notin v5
      PROVE  \E y \in Team!Accepted(x.p) : Team!Approves(y, x.p)
  BY <1>1, <1>2 DEF RemoteOk, Team!ReviewedBut, Team!Accepted, Team!Approves
<1>3. ASSUME NEW a \in Actors, v3[a].said \in {"accept", "self"} PROVE Team!Accepted(v3[a].p) # {}
  BY <1>1, <1>3 DEF CallFits, Landed, Team!Accepted
<1> QED
  BY <1>2, <1>3 DEF Team!MainIsReviewed

\* The moves of a call, in its type.
MovedTo(o, at) == [o EXCEPT !.at = at]
EndOf(p, w) == [Team!Idle EXCEPT !.p = p, !.said = w]
Said == {"ok", "failed"} \cup Team!Decisions

LEMMA MovedCall ==
    ASSUME NEW o \in Team!CallType, NEW at \in Team!Steps
    PROVE  /\ MovedTo(o, at) \in Team!CallType /\ MovedTo(o, at).at = at /\ MovedTo(o, at).p = o.p
           /\ MovedTo(o, at).d = o.d /\ MovedTo(o, at).said = o.said
BY DEF Team!CallType, MovedTo

LEMMA EndOfCall ==
    ASSUME NEW o \in Team!CallType, NEW w \in Said
    PROVE  /\ EndOf(o.p, w) \in Team!CallType /\ EndOf(o.p, w).at = "idle"
           /\ EndOf(o.p, w).p = o.p /\ EndOf(o.p, w).said = w
<1>1. Team!Idle \in Team!CallType /\ Team!Idle.at = "idle"
  BY DEF Team!Idle, Team!CallType, Team!Steps
<1>2. o.p \in Proposals \cup {"none"}
  BY DEF Team!CallType
<1> QED
  BY <1>1, <1>2 DEF Team!CallType, EndOf, Said

\* A call that ends, with what it leaves staged.
LEMMA EndedCall ==
    ASSUME NEW o, NEW a, NEW c, NEW main, NEW T, o.at = "idle",
           o.said \notin {"accept", "self"} \/ Landed(o.p, main), Team!NodesIn(c.staged) \subseteq T
    PROVE  CallFits(o, a, c, main, T)
BY DEF CallFits

LEMMA TeamIsKept == Team!TeamInv /\ [Team!Next]_(Team!tmVars) => Team!TeamInv'
<1> SUFFICES ASSUME Team!TeamInv, [Team!Next]_(Team!tmVars) PROVE Team!TeamInv'
  OBVIOUS
<1>0. /\ RemoteOk(v1, v5)
      /\ v2 \in [Users -> Team!CloneType] /\ \A u \in Users : CloneOk(v2[u], v5)
      /\ v3 \in [Actors -> Team!CallType] /\ v4 \in [Actors -> 0..MaxCalls]
      /\ \A b \in Actors : /\ CallFits(v3[b], b, v2[UserOf[b]], v1.main, v5)
                           /\ v3[b].at # "idle" => v4[b] # 0
  BY TeamInParts DEF TeamParts
<1>s. Team!Steps = {"idle", "checkedOut", "committed", "shown", "onMain", "merged", "recorded", "pushed"}
      /\ Team!Decisions = {"accept", "self", "reject"}
  BY DEF Team!Steps, Team!Decisions
<1>u. \A a \in Actors : /\ UserOf[a] \in Users /\ CloneOk(v2[UserOf[a]], v5) /\ v3[a] \in Team!CallType
                        /\ v2[UserOf[a]] \in Team!CloneType
                        /\ CallFits(v3[a], a, v2[UserOf[a]], v1.main, v5)
                        /\ v4[a] \in 0..MaxCalls /\ (v3[a].at # "idle" => v4[a] # 0)
  BY <1>0, TeamAssumption
<1>m. v1.main \subseteq Team!Commits /\ Team!ReviewedBut(v1.main, v5)
  BY <1>0 DEF RemoteOk
\* A call begins, and is numbered.
<1>b. ASSUME NEW a \in Actors, Team!Begins(a)
      PROVE  /\ v3[a].at = "idle" /\ v4[a] + 1 \in 0..MaxCalls /\ v4[a] + 1 # 0
             /\ v4' = [v4 EXCEPT ![a] = v4[a] + 1]
  BY <1>u, <1>b, TeamAssumption DEF Team!Begins, Team!In
<1>e. ASSUME NEW a \in Actors, UNCHANGED v4
      PROVE  v4' = [v4 EXCEPT ![a] = v4[a]]
  BY <1>0, <1>e
\* A call begins or goes on, and the repository with what it had.
<1>h. ASSUME NEW a \in Actors, NEW c, NEW o \in Team!CallType, NEW k \in 0..MaxCalls,
             v4' = [v4 EXCEPT ![a] = k], o.at # "idle" => k # 0,
             v2' = [v2 EXCEPT ![UserOf[a]] = c], v3' = [v3 EXCEPT ![a] = o], CloneOk(c, v5),
             RemoteOk(v1', v5), v1.main \subseteq v1'.main, CallFits(o, a, c, v1'.main, v5),
             UNCHANGED v5
      PROVE  Team!TeamInv'
  <2>1. v5 \subseteq v5' /\ v1'.main \subseteq v1'.main
    BY <1>h
  <2>2. CloneOk(c, v5') /\ RemoteOk(v1', v5')
    BY <1>h, <2>1, CloneMore, RemoteMore
  <2>3. CallFits(o, a, c, v1'.main, v5')
    BY <1>h, <2>1, OthersGrow
  <2> QED
    BY <1>h, <2>1, <2>2, <2>3, OneStep
<1>g. ASSUME NEW a \in Actors, NEW c, NEW o \in Team!CallType, v3[a].at # "idle", UNCHANGED v4,
             v2' = [v2 EXCEPT ![UserOf[a]] = c], v3' = [v3 EXCEPT ![a] = o], CloneOk(c, v5),
             RemoteOk(v1', v5), v1.main \subseteq v1'.main, CallFits(o, a, c, v1'.main, v5),
             UNCHANGED v5
      PROVE  Team!TeamInv'
  <2>1. v4' = [v4 EXCEPT ![a] = v4[a]] /\ v4[a] # 0 /\ v4[a] \in 0..MaxCalls
    BY <1>e, <1>g, <1>u
  <2> QED
    BY <1>g, <1>h, <2>1
<1>c. ASSUME NEW a \in Actors
      PROVE  /\ \A at \in Team!Steps : /\ MovedTo(v3[a], at) \in Team!CallType /\ MovedTo(v3[a], at).at = at
                                       /\ MovedTo(v3[a], at).p = v3[a].p /\ MovedTo(v3[a], at).d = v3[a].d
                                       /\ MovedTo(v3[a], at).said = v3[a].said
             /\ \A w \in Said :
                   /\ EndOf(v3[a].p, w) \in Team!CallType /\ EndOf(v3[a].p, w).at = "idle"
                   /\ EndOf(v3[a].p, w).p = v3[a].p /\ EndOf(v3[a].p, w).said = w
  BY <1>u, MovedCall, EndOfCall
<1>w. {"ok", "failed"} \subseteq Said /\ Team!Decisions \subseteq Said
  BY DEF Said
\* A call ends badly, and what it leaves staged is stranded.
<1>k. ASSUME NEW a \in Actors, NEW c, NEW k \in 0..MaxCalls, v4' = [v4 EXCEPT ![a] = k],
             Team!Breaks(a, c), CloneOk(c, v5), RemoteOk(v1', v5), v1.main \subseteq v1'.main
      PROVE  Team!TeamInv'
  <2> DEFINE e == EndOf(v3[a].p, "failed")
  <2>1. /\ v2' = [v2 EXCEPT ![UserOf[a]] = c] /\ v3' = [v3 EXCEPT ![a] = e]
        /\ v5' = v5 \cup Team!NodesIn(c.staged)
    BY <1>k DEF Team!Breaks, Team!CloneBecomes, Team!Ends, EndOf
  <2>2. v5 \subseteq v5' /\ Team!NodesIn(c.staged) \subseteq v5'
    BY <2>1
  <2>3. CloneOk(c, v5') /\ RemoteOk(v1', v5')
    BY <1>k, <2>2, CloneMore, RemoteMore
  <2>4. e \in Team!CallType /\ e.at = "idle" /\ e.said = "failed"
    BY <1>c, <1>w
  <2> HIDE DEF e
  <2>5. CallFits(e, a, c, v1'.main, v5')
    BY <2>2, <2>4, EndedCall
  <2> QED
    BY <1>k, <2>1, <2>2, <2>3, <2>4, <2>5, OneStep
<1>i. ASSUME NEW a \in Actors, NEW c, v4' = v4,
             Team!Breaks(a, c), CloneOk(c, v5), RemoteOk(v1', v5), v1.main \subseteq v1'.main
      PROVE  Team!TeamInv'
  BY <1>e, <1>i, <1>k, <1>u
<1>1. ASSUME NEW a \in Actors, NEW p \in Proposals, Team!Propose(a, p) PROVE Team!TeamInv'
  <2> DEFINE u == UserOf[a]
             f == Team!Fetched(v2[u])
             e == Team!OnBranch(f, p)
             staged == e.staged \union {Team!NodesOf(p)}
             c == [e EXCEPT !.staged = staged]
             o == [at |-> "checkedOut", p |-> p, d |-> "propose", said |-> "none"]
  <2>1. /\ UNCHANGED v1 /\ Team!Begins(a)
        /\ \/ v2' = [v2 EXCEPT ![u] = c] /\ v3' = [v3 EXCEPT ![a] = o] /\ UNCHANGED v5
           \/ Team!Breaks(a, f)
    BY <1>1 DEF Team!Propose, Team!CloneBecomes
  <2>2. v3[a].at = "idle" /\ Team!NodesIn(v2[u].staged) \subseteq v5
    BY <1>b, <1>u, <2>1 DEF CallFits
  <2>3. CloneOk(f, v5) /\ f.track = v1.main /\ f.staged = v2[u].staged
    BY <1>0, <1>u, FetchedClone
  <2> HIDE DEF f
  <2>4. CloneOk(e, v5) /\ e.head = p /\ e.branch[p] = v1.main /\ e.staged = v2[u].staged
    BY <2>3, OnBranchClone
  <2> HIDE DEF e
  <2>9. Team!NodesOf(p) \in Team!Commits /\ Team!NodesOf(p).p = p
    BY TeamAssumption DEF Team!NodesOf, Team!Commits
  <2>10. staged \in SUBSET Team!Commits /\ Team!NodesIn(staged) \subseteq v5 \cup {p}
    BY <2>2, <2>4, <2>9 DEF CloneOk, Team!CloneType, Team!NodesIn
  <2> HIDE DEF staged
  <2>5. CloneOk(c, v5) /\ c.head = p /\ c.branch = e.branch /\ c.staged = staged
    BY <2>4, <2>10, StagedBecomes
  <2> HIDE DEF c
  <2>7. o \in Team!CallType /\ o.at = "checkedOut" /\ o.p = p /\ o.d = "propose" /\ o.said = "none"
    BY DEF Team!CallType, Team!Steps
  <2> HIDE DEF o
  <2>8. CallFits(o, a, c, v1.main, v5)
    <3>0. v5 \subseteq v5 \cup {p}
      OBVIOUS
    <3>1. Team!ReviewedBut(v1.main, v5 \cup {p})
      BY <1>m, <3>0, ReviewedLess
    <3>2. c.branch[p] = v1.main
      BY <2>4, <2>5
    <3> QED
      BY <2>5, <2>7, <2>10, <3>1, <3>2 DEF CallFits
  <2>11. RemoteOk(v1', v5) /\ v1.main \subseteq v1'.main /\ v1'.main = v1.main
    BY <1>0, <2>1
  <2>12. CASE v2' = [v2 EXCEPT ![u] = c] /\ v3' = [v3 EXCEPT ![a] = o] /\ UNCHANGED v5
    BY <1>b, <1>h, <2>1, <2>5, <2>7, <2>8, <2>11, <2>12
  <2>13. CASE Team!Breaks(a, f)
    BY <1>b, <1>k, <2>1, <2>3, <2>11, <2>13
  <2> QED
    BY <2>1, <2>12, <2>13
<1>2. ASSUME NEW a \in Actors, Team!ProposeCommits(a) PROVE Team!TeamInv'
  <2> DEFINE u == UserOf[a]
             p == v3[a].p
             c == Team!Commit(v2[u], {})
             o == MovedTo(v3[a], "committed")
  <2>1. /\ v3[a].at = "checkedOut" /\ UNCHANGED <<v1, v4>>
        /\ \/ v2' = [v2 EXCEPT ![u] = c] /\ v3' = [v3 EXCEPT ![a] = o] /\ UNCHANGED v5
           \/ \E h \in {Team!Main, v2[u].head} : Team!Breaks(a, [v2[u] EXCEPT !.head = h])
    BY <1>2 DEF Team!ProposeCommits, Team!In, Team!CloneBecomes, Team!Goes, MovedTo
  <2>2. /\ p \in Proposals /\ v2[u].head = p /\ Team!NodesIn(v2[u].staged) \subseteq v5 \cup {p}
        /\ Team!ReviewedBut(v2[u].branch[p], v5 \cup {p})
        /\ v3[a].d \in {"propose"} \cup Team!Decisions
        /\ (v3[a].said \in {"accept", "self"} => Landed(p, v1.main))
    BY <1>u, <2>1 DEF CallFits
  <2>4. CloneOk(c, v5) /\ c.staged = {} /\ Team!ReviewedBut(c.branch[p], v5 \cup {p})
    BY <1>u, <2>2, CommitOnBranch
  <2>5. o \in Team!CallType /\ o.at = "committed" /\ o.p = p /\ o.d = v3[a].d /\ o.said = v3[a].said
    BY <1>c, <1>s
  <2> HIDE DEF c, o
  <2>6. CallFits(o, a, c, v1.main, v5)
    BY <2>2, <2>4, <2>5, NothingStaged DEF CallFits
  <2>7. RemoteOk(v1', v5) /\ v1.main \subseteq v1'.main /\ v1'.main = v1.main /\ v3[a].at # "idle"
    BY <1>0, <2>1
  <2>8. CASE v2' = [v2 EXCEPT ![u] = c] /\ v3' = [v3 EXCEPT ![a] = o] /\ UNCHANGED v5
    BY <1>g, <2>1, <2>4, <2>5, <2>6, <2>7, <2>8
  <2>9. ASSUME NEW h \in {Team!Main, v2[u].head}, Team!Breaks(a, [v2[u] EXCEPT !.head = h])
        PROVE  Team!TeamInv'
    <3>1. CloneOk([v2[u] EXCEPT !.head = h], v5)
      BY <1>u, <2>2, HeadMoves
    <3> QED
      BY <1>i, <2>1, <2>7, <2>9, <3>1
  <2> QED
    BY <2>1, <2>8, <2>9
<1>3. ASSUME NEW a \in Actors, Team!ProposePushes(a) PROVE Team!TeamInv'
  <2> DEFINE u == UserOf[a]
             p == v3[a].p
             c == v2[u]
             m == [c EXCEPT !.head = Team!Main]
             s == [c EXCEPT !.head = Team!Main, !.seen[p] = c.branch[p]]
             R == [v1 EXCEPT !.branch[p] = c.branch[p]]
             o == EndOf(v3[a].p, "ok")
  <2>1. /\ v3[a].at = "committed" /\ UNCHANGED v4
        /\ \/ v1' = R /\ v2' = [v2 EXCEPT ![u] = s] /\ v3' = [v3 EXCEPT ![a] = o] /\ UNCHANGED v5
           \/ v1' \in {v1, R} /\ Team!Breaks(a, m)
    BY <1>3 DEF Team!ProposePushes, Team!In, Team!CloneBecomes, Team!Ends, EndOf
  <2>2. /\ p \in Proposals /\ Team!ReviewedBut(c.branch[p], v5 \cup {p})
        /\ Team!NodesIn(c.staged) \subseteq v5 /\ CloneOk(c, v5) /\ c \in Team!CloneType
    BY <1>u, <2>1 DEF CallFits
  <2>3. c.branch[p] \in SUBSET Team!Commits /\ c.branch \in [Proposals -> SUBSET Team!Commits]
    BY <2>2 DEF Team!CloneType
  <2>4. CloneOk(m, v5)
    BY <2>2, HeadMoves
  <2>5. CloneOk(s, v5) /\ s.staged = c.staged
    <3> DEFINE seen == [c.seen EXCEPT ![p] = c.branch[p]]
    <3>1. s \in Team!CloneType /\ s.staged = c.staged /\ s.track = c.track /\ s.seen = seen
      BY <2>2, <2>3 DEF Team!CloneType
    <3>2. \A q \in Proposals : seen[q] # Team!NoRef => Team!ReviewedBut(seen[q], v5 \cup {q})
      BY <2>2 DEF CloneOk, Team!CloneType
    <3> HIDE DEF s, seen
    <3> QED
      BY <2>2, <3>1, <3>2 DEF CloneOk
  <2>6. RemoteOk(R, v5) /\ R.main = v1.main
    <3> DEFINE b == [v1.branch EXCEPT ![p] = c.branch[p]]
    <3>1. R = [v1 EXCEPT !.branch = b]
      OBVIOUS
    <3>2. /\ b \in [Proposals -> {Team!NoRef} \cup SUBSET Team!Commits]
          /\ \A q \in Proposals : b[q] # Team!NoRef => Team!ReviewedBut(b[q], v5 \cup {q})
      BY <1>0, <2>2, <2>3 DEF RemoteOk
    <3> HIDE DEF b, R
    <3>3. R \in [main : SUBSET Team!Commits, branch : [Proposals -> {Team!NoRef} \cup SUBSET Team!Commits]]
          /\ R.main = v1.main /\ R.branch = b
      BY <1>0, <3>1, <3>2 DEF RemoteOk
    <3> QED
      BY <1>m, <3>2, <3>3 DEF RemoteOk
  <2> HIDE DEF m, s, R
  <2>7. o \in Team!CallType /\ o.at = "idle" /\ o.said = "ok"
    BY <1>c, <1>w
  <2> HIDE DEF o
  <2>8. CallFits(o, a, s, R.main, v5)
    BY <2>2, <2>5, <2>7, EndedCall
  <2>11. RemoteOk(v1', v5) /\ v1'.main = v1.main /\ v1.main \subseteq v1'.main
    BY <1>0, <2>1, <2>6
  <2>9. CASE v1' = R /\ v2' = [v2 EXCEPT ![u] = s] /\ v3' = [v3 EXCEPT ![a] = o] /\ UNCHANGED v5
    BY <1>g, <2>1, <2>5, <2>7, <2>8, <2>9, <2>11
  <2>10. CASE Team!Breaks(a, m)
    BY <1>i, <2>1, <2>4, <2>10, <2>11
  <2> QED
    BY <2>1, <2>9, <2>10
<1>4. ASSUME NEW a \in Actors, NEW p \in Proposals, NEW d \in Team!Decisions, Team!Show(a, p, d)
      PROVE  Team!TeamInv'
  <2> DEFINE u == UserOf[a]
             c == Team!Pruned(v2[u])
             o == [at |-> "shown", p |-> p, d |-> d, said |-> "none"]
             e == EndOf(v3[a].p, "failed")
  <2>1. /\ Team!Begins(a) /\ v2' = [v2 EXCEPT ![u] = c] /\ UNCHANGED <<v1, v5>>
        /\ \/ v3' = [v3 EXCEPT ![a] = o] /\ Team!MayDecide(u, c, p, d)
           \/ v3' = [v3 EXCEPT ![a] = e]
    BY <1>4 DEF Team!Show, Team!CloneBecomes, Team!Ends, EndOf
  <2>2. v3[a].at = "idle" /\ Team!NodesIn(v2[u].staged) \subseteq v5
    BY <1>b, <1>u, <2>1 DEF CallFits
  <2>3. CloneOk(c, v5) /\ c.staged = v2[u].staged
    BY <1>0, <1>u, PrunedClone
  <2>4. e \in Team!CallType /\ e.at = "idle" /\ e.said = "failed"
    BY <1>c, <1>w
  <2>5. o \in Team!CallType /\ o.at = "shown" /\ o.p = p /\ o.d = d /\ o.said = "none"
    BY DEF Team!CallType, Team!Steps
  <2>6. Team!MayDecide(u, c, p, d) => d \in {"reject", "self"} \/ (d = "accept" /\ u # Author[p])
    BY <1>s DEF Team!MayDecide
  <2> HIDE DEF c, o, e
  <2>7. CallFits(e, a, c, v1.main, v5)
    BY <2>2, <2>3, <2>4, EndedCall
  <2>8. Team!MayDecide(u, c, p, d) => CallFits(o, a, c, v1.main, v5)
    BY <2>2, <2>3, <2>5, <2>6 DEF CallFits
  <2>9. RemoteOk(v1', v5) /\ v1'.main = v1.main /\ v1.main \subseteq v1'.main /\ UNCHANGED v5
    BY <1>0, <2>1
  <2>10. CASE v3' = [v3 EXCEPT ![a] = o] /\ Team!MayDecide(u, c, p, d)
    BY <1>b, <1>h, <2>1, <2>3, <2>5, <2>8, <2>9, <2>10
  <2>11. CASE v3' = [v3 EXCEPT ![a] = e]
    BY <1>b, <1>h, <2>1, <2>3, <2>4, <2>7, <2>9, <2>11
  <2> QED
    BY <2>1, <2>10, <2>11
<1>5. ASSUME NEW a \in Actors, Team!Sync(a) PROVE Team!TeamInv'
  <2> DEFINE u == UserOf[a]
             q == Team!Pruned(v2[u])
             c == [q EXCEPT !.head = Team!Main]
             m == [c EXCEPT !.main = c.track]
             o == v3[a]
  <2>1. /\ Team!Begins(a) /\ UNCHANGED <<v1, v3, v5>>
        /\ v2' = [v2 EXCEPT ![u] = m] \/ v2' = [v2 EXCEPT ![u] = c] \/ v2' = [v2 EXCEPT ![u] = q]
    BY <1>5 DEF Team!Sync, Team!CloneBecomes
  <2>2. v3[a].at = "idle" /\ Team!NodesIn(v2[u].staged) \subseteq v5
        /\ (v3[a].said \in {"accept", "self"} => Landed(v3[a].p, v1.main))
    BY <1>b, <1>u, <2>1 DEF CallFits
  <2>3. CloneOk(q, v5) /\ q.staged = v2[u].staged /\ q.track = v1.main
    BY <1>0, <1>u, PrunedClone
  <2> HIDE DEF q
  <2>4. CloneOk(c, v5) /\ c.staged = q.staged /\ c.track = v1.main /\ c.head = Team!Main
    BY <2>3, HeadMoves
  <2> HIDE DEF c
  <2>5. CloneOk(m, v5) /\ m.staged = c.staged
    <3>1. Team!WithHead(c, c.track) = m
      BY <2>4 DEF Team!WithHead
    <3> QED
      BY <1>m, <2>4, <3>1, MainBecomes
  <2> HIDE DEF m
  <2>7. o \in Team!CallType /\ v3' = [v3 EXCEPT ![a] = o] /\ o.at = "idle"
        /\ (o.said \in {"accept", "self"} => Landed(o.p, v1.main))
    BY <1>0, <2>1, <2>2
  <2> HIDE DEF o
  <2>6. CallFits(o, a, c, v1.main, v5) /\ CallFits(o, a, m, v1.main, v5) /\ CallFits(o, a, q, v1.main, v5)
    BY <2>2, <2>3, <2>4, <2>5, <2>7, EndedCall
  <2>8. RemoteOk(v1', v5) /\ v1'.main = v1.main /\ v1.main \subseteq v1'.main /\ UNCHANGED v5
    BY <1>0, <2>1
  <2>9. ASSUME NEW x, CloneOk(x, v5), CallFits(o, a, x, v1.main, v5), v2' = [v2 EXCEPT ![u] = x]
        PROVE  Team!TeamInv'
    BY <1>b, <1>h, <2>1, <2>7, <2>8, <2>9
  <2> QED
    BY <2>1, <2>3, <2>4, <2>5, <2>6, <2>9
<1>6. ASSUME NEW a \in Actors, Team!DecideChecksOut(a) PROVE Team!TeamInv'
  <2> DEFINE u == UserOf[a]
             f == Team!Fetched(v2[u])
             c == Team!OnMain(f)
             at == IF v3[a].d = "reject" THEN "merged" ELSE "onMain"
             o == MovedTo(v3[a], at)
  <2>1. /\ v3[a].at = "shown" /\ UNCHANGED <<v1, v4>>
        /\ \/ v2' = [v2 EXCEPT ![u] = c] /\ v3' = [v3 EXCEPT ![a] = o] /\ UNCHANGED v5
           \/ Team!Breaks(a, f)
    BY <1>6 DEF Team!DecideChecksOut, Team!In, Team!CloneBecomes, Team!Goes, MovedTo
  <2>2. /\ v3[a].p \in Proposals /\ Team!NodesIn(v2[u].staged) \subseteq v5
        /\ v3[a].d \in {"reject", "self"} \/ (v3[a].d = "accept" /\ u # Author[v3[a].p])
        /\ v3[a].d \in {"propose"} \cup Team!Decisions
        /\ (v3[a].said \in {"accept", "self"} => Landed(v3[a].p, v1.main))
    BY <1>u, <2>1 DEF CallFits
  <2>3. CloneOk(f, v5) /\ f.staged = v2[u].staged /\ f.track = v1.main
    BY <1>0, <1>u, FetchedClone
  <2> HIDE DEF f
  <2>4. CloneOk(c, v5) /\ c.staged = v2[u].staged /\ c.main = v1.main /\ c.head = Team!Main
    BY <2>3, OnMainClone
  <2>5. at \in Team!Steps
    BY DEF Team!Steps
  <2>6. o \in Team!CallType /\ o.at = at /\ o.p = v3[a].p /\ o.d = v3[a].d /\ o.said = v3[a].said
    BY <1>c, <2>5
  <2> HIDE DEF c, o
  <2>7. CallFits(o, a, c, v1.main, v5)
    <3>1. Team!ReviewedBut(c.main, v5 \cup (IF o.d = "reject" THEN {} ELSE {o.p}))
      BY <1>m, <2>4, ReviewedLess
    <3> QED
      BY <1>m, <2>2, <2>4, <2>6, <3>1 DEF CallFits
  <2>8. RemoteOk(v1', v5) /\ v1.main \subseteq v1'.main /\ v1'.main = v1.main /\ v3[a].at # "idle"
    BY <1>0, <2>1
  <2>9. CASE v2' = [v2 EXCEPT ![u] = c] /\ v3' = [v3 EXCEPT ![a] = o] /\ UNCHANGED v5
    BY <1>g, <2>1, <2>4, <2>6, <2>7, <2>8, <2>9
  <2>10. CASE Team!Breaks(a, f)
    BY <1>i, <2>1, <2>3, <2>8, <2>10
  <2> QED
    BY <2>1, <2>9, <2>10
<1>7. ASSUME NEW a \in Actors, Team!Merge(a) PROVE Team!TeamInv'
  <2> DEFINE u == UserOf[a]
             p == v3[a].p
             c == v2[u]
             h == Team!HardReset(c)
             x == Team!MergeOf(p, a)
             S == Team!HeadOf(c) \union c.seen[p] \union {x}
             m == Team!WithHead(c, S)
             N == {y \in c.seen[p] : y.kind = "nodes"}
             k == [c EXCEPT !.staged = N]
             o == MovedTo(v3[a], "merged")
  <2>1. /\ v3[a].at = "onMain" /\ UNCHANGED <<v1, v4>>
        /\ \/ Team!Breaks(a, h)
           \/ v2' = [v2 EXCEPT ![u] = c] /\ v3' = [v3 EXCEPT ![a] = o] /\ UNCHANGED v5
           \/ /\ c.seen[p] # Team!NoRef
              /\ v2' = [v2 EXCEPT ![u] = m] /\ v3' = [v3 EXCEPT ![a] = o] /\ UNCHANGED v5
           \/ c.seen[p] # Team!NoRef /\ Team!Breaks(a, k)
    BY <1>7 DEF Team!Merge, Team!In, Team!CloneBecomes, Team!Goes, MovedTo
  <2>2. /\ p \in Proposals /\ Team!NodesIn(c.staged) \subseteq v5 /\ c.head = Team!Main
        /\ v3[a].d # "reject" /\ v3[a].d \in {"propose"} \cup Team!Decisions
        /\ v3[a].d \in {"reject", "self"} \/ (v3[a].d = "accept" /\ u # Author[p])
        /\ Team!ReviewedBut(c.main, v5) /\ (v3[a].said \in {"accept", "self"} => Landed(p, v1.main))
        /\ CloneOk(c, v5) /\ v4[a] \in 1..MaxCalls
    <3>1. CallFits(v3[a], a, c, v1.main, v5) /\ CloneOk(c, v5)
      BY <1>u
    <3>2. v4[a] \in 1..MaxCalls
      BY <1>u, <2>1, TeamAssumption
    <3> HIDE DEF c
    <3> QED
      BY <2>1, <3>1, <3>2 DEF CallFits
  <2>3. /\ Team!HeadOf(c) = c.main /\ c.main \subseteq Team!Commits
        /\ c.seen[p] # Team!NoRef => c.seen[p] \subseteq Team!Commits
                                     /\ Team!ReviewedBut(c.seen[p], v5 \cup {p})
    BY <2>2 DEF Team!HeadOf, CloneOk, Team!CloneType
  <2>4. x \in Team!Commits /\ x.kind = "merge"
    BY <2>2 DEF Team!MergeOf, Team!Commits
  <2>5. o \in Team!CallType /\ o.at = "merged" /\ o.p = p /\ o.d = v3[a].d /\ o.said = v3[a].said
    BY <1>c, <1>s
  <2> HIDE DEF x, o
  <2>7. Team!ReviewedBut(c.main, v5 \cup {p})
    <3>1. v5 \subseteq v5 \cup {p}
      OBVIOUS
    <3> QED
      BY <2>2, <3>1, ReviewedLess
  <2>8. c.seen[p] # Team!NoRef => S \in SUBSET Team!Commits /\ Team!ReviewedBut(S, v5 \cup {p})
    <3> SUFFICES ASSUME c.seen[p] # Team!NoRef
                 PROVE  S \in SUBSET Team!Commits /\ Team!ReviewedBut(S, v5 \cup {p})
      OBVIOUS
    <3>1. Team!ReviewedBut(c.main \cup c.seen[p], v5 \cup {p})
      BY <2>3, <2>7, ReviewedTogether
    <3>2. Team!ReviewedBut((c.main \cup c.seen[p]) \cup {x}, v5 \cup {p})
      BY <2>4, <3>1, ReviewedWith
    <3> QED
      BY <2>3, <2>4, <3>2
  <2> HIDE DEF S
  <2>9. c.seen[p] # Team!NoRef => CloneOk(m, v5) /\ m.main = S /\ m.head = Team!Main /\ m.staged = c.staged
    BY <2>2, <2>8, MainBecomes
  <2>10. CloneOk(h, v5)
    BY <2>2, HardResetClone
  <2>11. c.seen[p] # Team!NoRef => CloneOk(k, v5)
    <3> SUFFICES ASSUME c.seen[p] # Team!NoRef PROVE CloneOk(k, v5)
      OBVIOUS
    <3>1. N \in SUBSET Team!Commits
      BY <2>3
    <3> HIDE DEF N
    <3> QED
      BY <2>2, <3>1, StagedBecomes
  <2> HIDE DEF m, h, k
  <2>12. CallFits(o, a, c, v1.main, v5)
    BY <2>2, <2>5, <2>7 DEF CallFits
  <2>13. c.seen[p] # Team!NoRef => CallFits(o, a, m, v1.main, v5)
    BY <2>2, <2>5, <2>8, <2>9 DEF CallFits
  <2>14. RemoteOk(v1', v5) /\ v1.main \subseteq v1'.main /\ v1'.main = v1.main /\ v3[a].at # "idle"
    BY <1>0, <2>1
  <2>15. CASE Team!Breaks(a, h)
    BY <1>i, <2>1, <2>10, <2>14, <2>15
  <2>16. CASE v2' = [v2 EXCEPT ![u] = c] /\ v3' = [v3 EXCEPT ![a] = o] /\ UNCHANGED v5
    BY <1>g, <2>1, <2>2, <2>5, <2>12, <2>14, <2>16
  <2>17. CASE c.seen[p] # Team!NoRef /\ v2' = [v2 EXCEPT ![u] = m] /\ v3' = [v3 EXCEPT ![a] = o]
              /\ UNCHANGED v5
    BY <1>g, <2>1, <2>5, <2>9, <2>13, <2>14, <2>17
  <2>18. CASE c.seen[p] # Team!NoRef /\ Team!Breaks(a, k)
    BY <1>i, <2>1, <2>11, <2>14, <2>18
  <2> QED
    BY <2>1, <2>15, <2>16, <2>17, <2>18
<1>8. ASSUME NEW a \in Actors, Team!Record(a) PROVE Team!TeamInv'
  <2> DEFINE u == UserOf[a]
             p == v3[a].p
             d == v3[a].d
             x == Team!ReviewOf(p, a, d)
             c == Team!Commit(v2[u], {x})
             h == Team!HardReset(v2[u])
             N == v2[u].staged \union {x}
             k == [v2[u] EXCEPT !.staged = N]
             o == MovedTo(v3[a], "recorded")
  <2>1. /\ v3[a].at = "merged" /\ UNCHANGED <<v1, v4>>
        /\ \/ v2' = [v2 EXCEPT ![u] = c] /\ v3' = [v3 EXCEPT ![a] = o] /\ UNCHANGED v5
           \/ Team!Breaks(a, h)
           \/ Team!Breaks(a, k)
    BY <1>8 DEF Team!Record, Team!In, Team!CloneBecomes, Team!Goes, MovedTo
  <2>2. /\ p \in Proposals /\ Team!NodesIn(v2[u].staged) \subseteq v5 /\ v2[u].head = Team!Main
        /\ d \in {"reject", "self"} \/ (d = "accept" /\ u # Author[p])
        /\ d \in {"propose"} \cup Team!Decisions
        /\ Team!ReviewedBut(v2[u].main, v5 \cup (IF d = "reject" THEN {} ELSE {p}))
        /\ (v3[a].said \in {"accept", "self"} => Landed(p, v1.main)) /\ CloneOk(v2[u], v5)
    BY <1>u, <2>1 DEF CallFits
  <2>3. v4[a] \in 1..MaxCalls
    BY <1>u, <2>1, TeamAssumption
  <2>4. x \in Team!Commits /\ x.kind = d /\ x.p = p /\ x.by = a /\ x.kind # "nodes"
    BY <1>s, <2>2, <2>3 DEF Team!ReviewOf, Team!Commits
  <2>5. o \in Team!CallType /\ o.at = "recorded" /\ o.p = p /\ o.d = d /\ o.said = v3[a].said
    BY <1>c, <1>s
  <2> HIDE DEF x, o
  <2>6. CloneOk(c, v5) /\ c.head = Team!Main /\ c.main = (v2[u].main \cup {x}) \cup v2[u].staged
        /\ c.staged = {}
    BY <2>2, <2>4, CommitOnMain
  <2>10. CloneOk(h, v5)
    BY <2>2, HardResetClone
  <2>11. CloneOk(k, v5)
    <3>1. N \in SUBSET Team!Commits
      BY <2>2, <2>4 DEF CloneOk, Team!CloneType
    <3> HIDE DEF N
    <3> QED
      BY <2>2, <3>1, StagedBecomes
  <2> HIDE DEF c, h, k
  <2>7. Team!ReviewedBut(c.main, v5)
    <3>3. Team!ReviewedBut(v2[u].main \cup {x}, v5)
      <4>1. CASE d # "reject"
        <5>1. Team!Approves(x, p) /\ Team!ReviewedBut(v2[u].main, v5 \cup {p})
          BY <2>2, <2>4, <4>1 DEF Team!Approves
        <5> QED
          BY <2>4, <5>1, ReviewedAtLast
      <4>2. CASE d = "reject"
        <5>1. v5 \cup {} = v5
          OBVIOUS
        <5>2. Team!ReviewedBut(v2[u].main, v5)
          BY <2>2, <4>2, <5>1
        <5> QED
          BY <2>4, <5>2, ReviewedWith
      <4> QED
        BY <4>1, <4>2
    <3>4. Team!ReviewedBut((v2[u].main \cup {x}) \cup v2[u].staged, v5)
      BY <2>2, <3>3, ReviewedStaged
    <3> QED
      BY <2>6, <3>4
  <2>8. CallFits(o, a, c, v1.main, v5)
    <3>1. x \in c.main /\ Team!NodesIn(c.staged) \subseteq v5
      BY <2>6, NothingStaged
    <3> QED
      BY <1>s, <2>2, <2>4, <2>5, <2>6, <2>7, <3>1 DEF CallFits
  <2>9. RemoteOk(v1', v5) /\ v1.main \subseteq v1'.main /\ v1'.main = v1.main /\ v3[a].at # "idle"
    BY <1>0, <2>1
  <2>12. CASE v2' = [v2 EXCEPT ![u] = c] /\ v3' = [v3 EXCEPT ![a] = o] /\ UNCHANGED v5
    BY <1>g, <2>1, <2>5, <2>6, <2>8, <2>9, <2>12
  <2>13. CASE Team!Breaks(a, h)
    BY <1>i, <2>1, <2>9, <2>10, <2>13
  <2>14. CASE Team!Breaks(a, k)
    BY <1>i, <2>1, <2>9, <2>11, <2>14
  <2> QED
    BY <2>1, <2>12, <2>13, <2>14
<1>9. ASSUME NEW a \in Actors, Team!PushMain(a) PROVE Team!TeamInv'
  <2> DEFINE u == UserOf[a]
             p == v3[a].p
             c == v2[u]
             R == [v1 EXCEPT !.main = c.main]
             t == [c EXCEPT !.track = c.main]
             h == Team!HardReset(c)
             o == MovedTo(v3[a], "pushed")
  <2>1. /\ v3[a].at = "recorded" /\ UNCHANGED v4
    BY <1>9 DEF Team!PushMain, Team!In
  <2>2. v1 = [v1 EXCEPT !.main = v1.main]
    BY <1>0 DEF RemoteOk
  <2>3. \/ /\ v1.main \subseteq c.main /\ v1' = R /\ UNCHANGED v5
           /\ v2' = [v2 EXCEPT ![u] = t] /\ v3' = [v3 EXCEPT ![a] = o]
        \/ /\ v1' = v1 \/ (v1.main \subseteq c.main /\ v1' = R)
           /\ Team!Breaks(a, h) \/ Team!Breaks(a, c)
    BY <1>9, <2>2 DEF Team!PushMain, Team!CloneBecomes, Team!Goes, MovedTo
  <2>4. /\ p \in Proposals /\ Team!NodesIn(c.staged) \subseteq v5 /\ c.head = Team!Main
        /\ Team!ReviewedBut(c.main, v5)
        /\ v3[a].d \in {"reject", "self"} \/ (v3[a].d = "accept" /\ u # Author[p])
        /\ v3[a].d \in {"propose"} \cup Team!Decisions
        /\ v3[a].d # "reject" => Landed(p, c.main)
        /\ (v3[a].said \in {"accept", "self"} => Landed(p, v1.main)) /\ CloneOk(c, v5)
    BY <1>u, <2>1 DEF CallFits, Landed
  <2>5. o \in Team!CallType /\ o.at = "pushed" /\ o.p = p /\ o.d = v3[a].d /\ o.said = v3[a].said
    BY <1>c, <1>s
  <2> HIDE DEF o
  <2>7. CloneOk(h, v5)
    BY <2>4, HardResetClone
  <2>8. CloneOk(t, v5) /\ t.main = c.main /\ t.staged = c.staged
    <3>1. t \in Team!CloneType /\ t.main = c.main /\ t.staged = c.staged /\ t.track = c.main /\ t.seen = c.seen
      BY <2>4 DEF CloneOk, Team!CloneType
    <3> HIDE DEF t
    <3> QED
      BY <2>4, <3>1 DEF CloneOk
  <2>9. RemoteOk(R, v5) /\ R.main = c.main
    BY <1>0, <2>4 DEF RemoteOk, CloneOk, Team!CloneType
  <2> HIDE DEF h, t, R
  <2>10. v1.main \subseteq c.main => CallFits(o, a, t, c.main, v5)
    <3>1. v1.main \subseteq c.main => (Landed(p, v1.main) => Landed(p, c.main))
      BY DEF Landed
    <3> QED
      BY <2>4, <2>5, <2>8, <3>1 DEF CallFits
  <2>12. CASE v1.main \subseteq c.main /\ v1' = R /\ UNCHANGED v5
              /\ v2' = [v2 EXCEPT ![u] = t] /\ v3' = [v3 EXCEPT ![a] = o]
    BY <1>g, <2>1, <2>5, <2>8, <2>9, <2>10, <2>12
  <2>13. CASE /\ v1' = v1 \/ (v1.main \subseteq c.main /\ v1' = R)
              /\ Team!Breaks(a, h) \/ Team!Breaks(a, c)
    <3>1. RemoteOk(v1', v5) /\ v1.main \subseteq v1'.main
      BY <1>0, <2>9, <2>13
    <3> QED
      BY <1>i, <2>1, <2>4, <2>7, <2>13, <3>1
  <2> QED
    BY <2>3, <2>12, <2>13
<1>10. ASSUME NEW a \in Actors, Team!DeleteBranch(a) PROVE Team!TeamInv'
  <2> DEFINE u == UserOf[a]
             p == v3[a].p
             w == v3[a].d
             R == [v1 EXCEPT !.branch[p] = Team!NoRef]
             q == Team!Pruned(v2[u])
             c == [q EXCEPT !.seen = v1'.branch]
             e == EndOf(p, w)
  <2>1. /\ v3[a].at = "pushed" /\ UNCHANGED <<v4, v5>> /\ (v1' = R \/ v1' = v1)
        /\ v2' = [v2 EXCEPT ![u] = c] /\ v3' = [v3 EXCEPT ![a] = e]
    BY <1>10 DEF Team!DeleteBranch, Team!In, Team!CloneBecomes, Team!Ends, EndOf
  <2>2. /\ p \in Proposals /\ Team!NodesIn(v2[u].staged) \subseteq v5
        /\ w \in Team!Decisions /\ (w # "reject" => Landed(p, v1.main))
    BY <1>s, <1>u, <2>1 DEF CallFits
  <2>3. RemoteOk(v1', v5) /\ v1'.main = v1.main
    <3>1. CASE v1' = v1
      BY <1>0, <3>1
    <3>2. CASE v1' = R
      <4> DEFINE b == [v1.branch EXCEPT ![p] = Team!NoRef]
      <4>1. R = [v1 EXCEPT !.branch = b]
        OBVIOUS
      <4>2. /\ b \in [Proposals -> {Team!NoRef} \cup SUBSET Team!Commits]
            /\ \A r \in Proposals : b[r] # Team!NoRef => Team!ReviewedBut(b[r], v5 \cup {r})
        BY <1>0 DEF RemoteOk
      <4> HIDE DEF b, R
      <4>3. R \in [main : SUBSET Team!Commits, branch : [Proposals -> {Team!NoRef} \cup SUBSET Team!Commits]]
            /\ R.main = v1.main /\ R.branch = b
        BY <1>0, <4>1, <4>2 DEF RemoteOk
      <4> QED
        BY <1>m, <3>2, <4>2, <4>3 DEF RemoteOk
    <3> QED
      BY <2>1, <3>1, <3>2
  <2>4. CloneOk(q, v5) /\ q.staged = v2[u].staged
    BY <1>0, <1>u, PrunedClone
  <2>5. PICK s : s = v1'.branch
    OBVIOUS
  <2>6. /\ s \in [Proposals -> {Team!NoRef} \cup SUBSET Team!Commits]
        /\ \A r \in Proposals : s[r] # Team!NoRef => Team!ReviewedBut(s[r], v5 \cup {r})
    BY <2>3, <2>5 DEF RemoteOk
  <2>7. c = [q EXCEPT !.seen = s]
    BY <2>5
  <2> HIDE DEF q, c, R
  <2>8. c \in Team!CloneType /\ c.staged = v2[u].staged /\ c.seen = s /\ c.track = q.track
    BY <2>4, <2>6, <2>7 DEF CloneOk, Team!CloneType
  <2>9. CloneOk(c, v5)
    BY <2>4, <2>6, <2>8 DEF CloneOk
  <2>10. e \in Team!CallType /\ e.at = "idle" /\ e.p = p /\ e.said = w
    BY <1>c, <1>w, <2>2
  <2> HIDE DEF e
  <2>11. CallFits(e, a, c, v1'.main, v5)
    BY <2>2, <2>3, <2>8, <2>10, EndedCall
  <2> QED
    BY <1>g, <2>1, <2>3, <2>9, <2>10, <2>11
<1>12. ASSUME NEW a \in Actors, Team!Killed(a) PROVE Team!TeamInv'
  <2>1. UNCHANGED <<v1, v4>> /\ Team!Breaks(a, v2[UserOf[a]])
    BY <1>12 DEF Team!Killed
  <2>2. RemoteOk(v1', v5) /\ v1.main \subseteq v1'.main
    BY <1>0, <2>1
  <2> QED
    BY <1>i, <1>u, <2>1, <2>2
<1>11. CASE UNCHANGED Team!tmVars
  <2>1. TeamParts'
    BY <1>0, <1>11 DEF Team!tmVars, TeamParts
  <2> QED
    BY <2>1, PrimedParts
<1> QED
  BY <1>1, <1>2, <1>3, <1>4, <1>5, <1>6, <1>7, <1>8, <1>9, <1>10, <1>11, <1>12
     DEF Team!Next, Team!Step, Team!Done

(* For every team whose members have one process each, any proposals and    *)
(* any conflicts, whatever command fails and wherever a process is killed:  *)
(* the nodes on the main branch were accepted by somebody other than their  *)
(* author, or by the author with --allow-self-review, unless a call that    *)
(* went wrong had left them staged.                                         *)
THEOREM MainStaysReviewed == Spec => []MainIsReviewed
<1> DEFINE Inv == scene = "team" => Team!TeamInv
<1>1. Init => Inv
  BY TeamInitially DEF Init
<1>2. Inv /\ [Next]_vars => Inv'
  BY SceneStep, TeamIsKept
<1>3. Inv => MainIsReviewed
  BY TeamShows DEF MainIsReviewed
<1> QED
  BY <1>1, <1>2, <1>3, PTL DEF Spec

-----------------------------------------------------------------------------
(* The chat (GatewayRouter).                                                *)

LEMMA AdmissionsAreFinite ==
    ASSUME Chat!RateTypes
    PROVE  /\ Len(v7) \in Nat /\ DOMAIN v7 = 1 .. Len(v7)
           /\ \A S \in SUBSET DOMAIN v7 : Chat!IsFiniteSet(S) /\ Chat!Cardinality(S) \in Nat
           /\ \A S \in SUBSET DOMAIN v7 : \A T \in SUBSET S : Chat!Cardinality(T) <= Chat!Cardinality(S)
<1>1. v7 \in Seq([user : Chatters, time : Nat])
  BY DEF Chat!RateTypes
<1>2. Len(v7) \in Nat /\ DOMAIN v7 = 1 .. Len(v7)
  BY <1>1
<1>3. Chat!IsFiniteSet(1 .. Len(v7))
  BY <1>2, Chat!FS_Interval
<1>4. \A S \in SUBSET DOMAIN v7 : Chat!IsFiniteSet(S)
  BY <1>2, <1>3, Chat!FS_Subset
<1>5. \A S \in SUBSET DOMAIN v7 : Chat!Cardinality(S) \in Nat
  BY <1>4, Chat!FS_CardinalityType
<1>6. \A S \in SUBSET DOMAIN v7 : \A T \in SUBSET S : Chat!Cardinality(T) <= Chat!Cardinality(S)
  BY <1>4, Chat!FS_Subset
<1> QED
  BY <1>2, <1>4, <1>5, <1>6

LEMMA AdmissionIsTyped ==
    ASSUME Chat!RateTypes, NEW i \in DOMAIN v7
    PROVE  v7[i].user \in Chatters /\ v7[i].time \in Nat /\ v7[i].time <= v1
<1>1. v7 \in Seq([user : Chatters, time : Nat]) /\ v7[i].time <= v1
  BY DEF Chat!RateTypes
<1>2. v7[i] \in [user : Chatters, time : Nat]
  BY <1>1, ElementOfSeq, LenProperties
<1> QED
  BY <1>1, <1>2

(* Who writes in a window is one of finitely many.                          *)
LEMMA CrowdsGrow ==
    ASSUME NEW S \in SUBSET Chatters, NEW T \in SUBSET S
    PROVE  /\ Chat!Cardinality(S) \in Nat /\ Chat!Cardinality(T) \in Nat
           /\ Chat!Cardinality(T) <= Chat!Cardinality(S)
<1>1. Chat!IsFiniteSet(S)
  BY ChatAssumption, Chat!FS_Subset
<1>2. Chat!IsFiniteSet(T) /\ Chat!Cardinality(T) <= Chat!Cardinality(S)
  BY <1>1, Chat!FS_Subset
<1> QED
  BY <1>1, <1>2, Chat!FS_CardinalityType

(* The window that ends now: what is in it is in the bucket, which fits, or *)
(* was forgotten in a crowd.                                                *)
LEMMA NowIsKept ==
    Chat!RateTypes /\ Chat!BucketsFit /\ Chat!BucketsKnow =>
        \A u \in Chatters :
           \/ Chat!Cardinality(Chat!InWindow(u, v1)) <= MaxPerWindow
           \/ \E s \in v1 - Minute + 1 .. v1 : Chat!Crowded(s)
<1> SUFFICES ASSUME Chat!RateTypes, Chat!BucketsFit, Chat!BucketsKnow, NEW u \in Chatters
             PROVE  \/ Chat!Cardinality(Chat!InWindow(u, v1)) <= MaxPerWindow
                    \/ \E s \in v1 - Minute + 1 .. v1 : Chat!Crowded(s)
  OBVIOUS
<1> USE ChatAssumption
<1>1. \A i \in Chat!InWindow(u, v1) :
         /\ i \in DOMAIN v7 /\ v7[i].user = u /\ v7[i].time \in Nat /\ v7[i].time <= v1
         /\ v1 - Minute < v7[i].time
  BY AdmissionIsTyped DEF Chat!InWindow
<1>2. v1 \in Nat /\ Chat!Recent(v2[u]) \in SUBSET DOMAIN v7
  BY DEF Chat!RateTypes, Chat!Recent
<1>3. \A i \in Chat!InWindow(u, v1) : v7[i].time > v1 - Minute
  BY <1>1, <1>2
<1>4. CASE \A i \in Chat!InWindow(u, v1) : i \in v2[u]
  <2>1. Chat!InWindow(u, v1) \in SUBSET Chat!Recent(v2[u])
    BY <1>3, <1>4 DEF Chat!Recent
  <2>2. Chat!Cardinality(Chat!InWindow(u, v1)) <= Chat!Cardinality(Chat!Recent(v2[u]))
    BY <1>2, <2>1, AdmissionsAreFinite
  <2>3. Chat!Cardinality(Chat!InWindow(u, v1)) \in Nat /\ Chat!Cardinality(Chat!Recent(v2[u])) \in Nat
    BY <1>2, <2>1, AdmissionsAreFinite
  <2>4. Chat!Cardinality(Chat!Recent(v2[u])) <= MaxPerWindow
    BY DEF Chat!BucketsFit
  <2> QED
    BY <2>2, <2>3, <2>4
<1>5. CASE \E i \in Chat!InWindow(u, v1) : i \notin v2[u]
  <2>1. PICK i \in Chat!InWindow(u, v1) : i \notin v2[u]
    BY <1>5
  <2>2. i \in Chat!Recent(DOMAIN v7) /\ v7[i].user = u
    BY <1>1, <1>3, <2>1 DEF Chat!Recent
  <2>3. PICK s \in v7[i].time .. v1 : Chat!Crowded(s)
    BY <2>1, <2>2 DEF Chat!BucketsKnow, Chat!Forgotten
  <2>4. s \in v1 - Minute + 1 .. v1
    BY <1>1, <1>2, <2>1, <2>3
  <2> QED
    BY <2>3, <2>4
<1> QED
  BY <1>4, <1>5

LEMMA RateInitially == Chat!Init => Chat!RateInv
<1> SUFFICES ASSUME Chat!Init PROVE Chat!RateInv
  OBVIOUS
<1> USE DEF Chat!Init
<1>1. Chat!RateTypes
  BY DEF Chat!RateTypes
<1>2. \A u \in Chatters : Chat!Recent(v2[u]) = {}
  BY DEF Chat!Recent
<1>3. Chat!BucketsFit
  <2>1. Chat!Cardinality({}) = 0
    BY Chat!FS_EmptySet
  <2>2. \A u \in Chatters : Chat!Cardinality(Chat!Recent(v2[u])) = 0
    BY <1>2, <2>1
  <2>3. 0 <= MaxPerWindow
    BY ChatAssumption
  <2> QED
    BY <2>2, <2>3 DEF Chat!BucketsFit
<1>4. Chat!BucketsKnow
  BY DEF Chat!BucketsKnow, Chat!Recent
<1>5. \A t \in 0 .. v1 : t = v1
  OBVIOUS
<1>6. Chat!RateIsKept
  BY <1>1, <1>3, <1>4, <1>5, NowIsKept DEF Chat!RateIsKept
<1> QED
  BY <1>1, <1>3, <1>4, <1>6 DEF Chat!RateInv

(* A step beside the rate limiter and the clock.                            *)
LEMMA RateStays ==
    ASSUME Chat!RateInv, v1' = v1, v2' = v2, v7' = v7
    PROVE  Chat!RateInv'
<1> USE DEF Chat!RateInv
<1>1. \A u \in Chatters, t \in Int : Chat!InWindow(u, t)' = Chat!InWindow(u, t)
  BY DEF Chat!InWindow
<1>2. \A t \in Int : Chat!Crowded(t)' <=> Chat!Crowded(t)
  BY DEF Chat!Crowded, Chat!InWindow
<1>3. Chat!RateTypes'
  BY DEF Chat!RateTypes
<1>4. Chat!BucketsFit'
  BY DEF Chat!BucketsFit, Chat!Recent
<1>5. Chat!BucketsKnow'
  BY DEF Chat!BucketsKnow, Chat!Recent, Chat!Forgotten, Chat!Crowded, Chat!InWindow
<1>6. Chat!RateIsKept'
  BY DEF Chat!RateIsKept, Chat!Crowded, Chat!InWindow
<1> QED
  BY <1>3, <1>4, <1>5, <1>6

LEMMA LaterIsKept ==
    ASSUME Chat!RateInv, Chat!RateTypes', Chat!BucketsFit', Chat!BucketsKnow',
           \A t \in 0 .. v1' : t = v1' \/
               /\ t \in 0 .. v1
               /\ \A u \in Chatters : Chat!InWindow(u, t)' = Chat!InWindow(u, t),
           \A s \in Int : Chat!Crowded(s) => Chat!Crowded(s)'
    PROVE  Chat!RateInv'
<1>1. (Chat!RateTypes /\ Chat!BucketsFit /\ Chat!BucketsKnow =>
          \A u \in Chatters :
             \/ Chat!Cardinality(Chat!InWindow(u, v1)) <= MaxPerWindow
             \/ \E s \in v1 - Minute + 1 .. v1 : Chat!Crowded(s))'
  BY NowIsKept, PTL
<1>2. \A u \in Chatters :
         \/ Chat!Cardinality(Chat!InWindow(u, v1)') <= MaxPerWindow
         \/ \E s \in v1' - Minute + 1 .. v1' : Chat!Crowded(s)'
  BY <1>1
<1>3. ASSUME NEW u \in Chatters, NEW t \in 0 .. v1'
      PROVE  \/ Chat!Cardinality(Chat!InWindow(u, t)') <= MaxPerWindow
             \/ \E s \in t - Minute + 1 .. t : Chat!Crowded(s)'
  <2>1. CASE t = v1'
    BY <1>2, <2>1 DEF Chat!InWindow
  <2>2. CASE t \in 0 .. v1 /\ Chat!InWindow(u, t)' = Chat!InWindow(u, t)
    <3>1. \/ Chat!Cardinality(Chat!InWindow(u, t)) <= MaxPerWindow
          \/ \E s \in t - Minute + 1 .. t : Chat!Crowded(s)
      BY <2>2 DEF Chat!RateInv, Chat!RateIsKept
    <3>2. \A s \in t - Minute + 1 .. t : s \in Int
      OBVIOUS
    <3> QED
      BY <2>2, <3>1, <3>2
  <2> QED
    BY <2>1, <2>2
<1>4. Chat!RateIsKept'
  BY <1>3 DEF Chat!RateIsKept
<1> QED
  BY <1>4 DEF Chat!RateInv

LEMMA TickKeepsRate ==
    ASSUME Chat!RateInv, Chat!Tick
    PROVE  Chat!RateInv'
<1> USE DEF Chat!RateInv
<1>1. v1' = v1 + 1 /\ v2' = v2 /\ v7' = v7
  BY DEF Chat!Tick
<1>2. v1 \in Nat /\ Minute \in Nat /\ MaxPerWindow \in Nat
  BY ChatAssumption DEF Chat!RateTypes
<1>3. \A i \in DOMAIN v7 : v7[i].time \in Nat /\ v7[i].time <= v1
  BY AdmissionIsTyped
<1>4. Chat!RateTypes'
  BY <1>1, <1>2, <1>3 DEF Chat!RateTypes
<1>5. \A S \in SUBSET DOMAIN v7 : Chat!Recent(S)' \in SUBSET Chat!Recent(S)
  BY <1>1, <1>2, <1>3 DEF Chat!Recent
<1>6. Chat!BucketsFit'
  <2>1. ASSUME NEW u \in Chatters PROVE Chat!Cardinality(Chat!Recent(v2[u])') <= MaxPerWindow
    <3>1. v2[u] \in SUBSET DOMAIN v7 /\ Chat!Recent(v2[u]) \in SUBSET DOMAIN v7
      BY DEF Chat!RateTypes, Chat!Recent
    <3>2. Chat!Recent(v2[u])' \in SUBSET Chat!Recent(v2[u])
      BY <1>1, <1>2, <1>3, <3>1 DEF Chat!Recent
    <3>3. /\ Chat!Cardinality(Chat!Recent(v2[u])') <= Chat!Cardinality(Chat!Recent(v2[u]))
          /\ Chat!Cardinality(Chat!Recent(v2[u])') \in Nat /\ Chat!Cardinality(Chat!Recent(v2[u])) \in Nat
      BY <3>1, <3>2, AdmissionsAreFinite
    <3>4. Chat!Cardinality(Chat!Recent(v2[u])) <= MaxPerWindow
      BY DEF Chat!BucketsFit
    <3> QED
      BY <1>2, <3>3, <3>4
  <2> QED
    BY <2>1 DEF Chat!BucketsFit
<1>7. \A t \in Int : Chat!Crowded(t)' <=> Chat!Crowded(t)
  BY <1>1 DEF Chat!Crowded, Chat!InWindow
<1>8. \A u \in Chatters, t \in Int : Chat!InWindow(u, t)' = Chat!InWindow(u, t)
  BY <1>1 DEF Chat!InWindow
<1>9. Chat!BucketsKnow'
  <2>1. ASSUME NEW i \in Chat!Recent(DOMAIN v7)', i \notin v2[v7[i].user]
        PROVE  \E s \in v7[i].time .. v1' : Chat!Crowded(s)'
    <3>1. i \in Chat!Recent(DOMAIN v7) /\ i \in DOMAIN v7
      BY <1>1, <1>2, <1>3 DEF Chat!Recent
    <3>2. PICK s \in v7[i].time .. v1 : Chat!Crowded(s)
      BY <2>1, <3>1 DEF Chat!BucketsKnow, Chat!Forgotten
    <3>3. s \in Int /\ s \in v7[i].time .. v1'
      BY <1>1, <1>2, <1>3, <3>1
    <3> QED
      BY <1>7, <3>2, <3>3
  <2> QED
    BY <1>1, <2>1 DEF Chat!BucketsKnow, Chat!Forgotten
<1>10. \A t \in 0 .. v1' : t = v1' \/ (t \in 0 .. v1 /\ t \in Int)
  BY <1>1, <1>2
<1> QED
  BY <1>4, <1>6, <1>7, <1>8, <1>9, <1>10, LaterIsKept

(* Pruning forgets what is in the window only when the table is crowded.    *)
LEMMA PrunedForgets ==
    ASSUME Chat!RateTypes, NEW b \in Chat!Pruned
    PROVE  /\ b \in [Chatters -> SUBSET DOMAIN v7]
           /\ \A u \in Chatters : b[u] \subseteq v2[u]
           /\ \A u \in Chatters : \A i \in Chat!Recent(v2[u]) : i \in b[u] \/ Chat!Crowded(v1)
<1> DEFINE excess == Chat!Cardinality(Chat!Tracked(Chat!Live)) - MaxTracked
<1>1. PICK g \in SUBSET Chat!Tracked(Chat!Live) :
         /\ Chat!Cardinality(g) = IF excess > 0 THEN excess ELSE 0
         /\ b = [u \in Chatters |-> IF u \in g THEN {} ELSE Chat!Live[u]]
  BY DEF Chat!Pruned
<1>2. v2 \in [Chatters -> SUBSET DOMAIN v7]
  BY DEF Chat!RateTypes
<1>3. \A u \in Chatters : Chat!Live[u] = IF Chat!Recent(v2[u]) = {} THEN {} ELSE v2[u]
  BY DEF Chat!Live
<1>4. \A u \in Chatters : b[u] = {} \/ b[u] = v2[u]
  BY <1>1, <1>3
<1>5. b \in [Chatters -> SUBSET DOMAIN v7] /\ \A u \in Chatters : b[u] \subseteq v2[u]
  BY <1>1, <1>2, <1>4
<1>6. ASSUME NEW u \in Chatters, NEW i \in Chat!Recent(v2[u]), i \notin b[u]
      PROVE  Chat!Crowded(v1)
  <2>1. Chat!Live[u] = v2[u] /\ i \in v2[u]
    BY <1>3, <1>6 DEF Chat!Recent
  <2>2. u \in g
    BY <1>1, <1>6, <2>1
  <2>3. Chat!Tracked(Chat!Live) \in SUBSET Chatters
    BY DEF Chat!Tracked
  <2>4. Chat!IsFiniteSet(g)
    BY <2>3, ChatAssumption, Chat!FS_Subset
  <2>5. Chat!Cardinality(g) # 0
    BY <2>2, <2>4, Chat!FS_EmptySet
  <2>6. excess > 0
    BY <1>1, <2>5
  <2>7. Chat!Tracked(Chat!Live) \in SUBSET {w \in Chatters : Chat!InWindow(w, v1) # {}}
    <3>1. ASSUME NEW w \in Chat!Tracked(Chat!Live) PROVE Chat!InWindow(w, v1) # {}
      <4>1. w \in Chatters /\ Chat!Recent(v2[w]) # {}
        BY <1>3 DEF Chat!Tracked
      <4>2. PICK j \in Chat!Recent(v2[w]) : TRUE
        BY <4>1
      <4>3. j \in v2[w] /\ j \in DOMAIN v7 /\ v7[j].time > v1 - Minute
        BY <1>2, <4>1 DEF Chat!Recent
      <4>4. v7[j].user = w /\ v7[j].time \in Nat /\ v7[j].time <= v1 /\ v1 \in Nat
        BY <4>1, <4>3, AdmissionIsTyped DEF Chat!RateTypes
      <4>5. v1 - Minute < v7[j].time
        BY <4>3, <4>4, ChatAssumption
      <4> QED
        BY <4>3, <4>4, <4>5 DEF Chat!InWindow
    <3> QED
      BY <2>3, <3>1
  <2>8. {w \in Chatters : Chat!InWindow(w, v1) # {}} \in SUBSET Chatters
    OBVIOUS
  <2>9. /\ Chat!Cardinality(Chat!Tracked(Chat!Live)) <= Chat!Cardinality({w \in Chatters : Chat!InWindow(w, v1) # {}})
        /\ Chat!Cardinality(Chat!Tracked(Chat!Live)) \in Nat
        /\ Chat!Cardinality({w \in Chatters : Chat!InWindow(w, v1) # {}}) \in Nat
    BY <2>7, <2>8, CrowdsGrow
  <2> QED
    BY <2>6, <2>9, ChatAssumption DEF Chat!Crowded
<1> QED
  BY <1>5, <1>6

LEMMA RefusalKeepsRate ==
    ASSUME Chat!RateInv, NEW u \in Chatters, NEW b \in Chat!Pruned,
           v1' = v1, v7' = v7, v2' = [b EXCEPT ![u] = Chat!Recent(@)]
    PROVE  Chat!RateInv'
<1> USE DEF Chat!RateInv
<1>1. /\ b \in [Chatters -> SUBSET DOMAIN v7]
      /\ \A w \in Chatters : b[w] \subseteq v2[w]
      /\ \A w \in Chatters : \A i \in Chat!Recent(v2[w]) : i \in b[w] \/ Chat!Crowded(v1)
  BY PrunedForgets
<1>2. v2 \in [Chatters -> SUBSET DOMAIN v7] /\ v1 \in Nat
  BY DEF Chat!RateTypes
<1>3. \A w \in Chatters : v2'[w] = IF w = u THEN Chat!Recent(b[u]) ELSE b[w]
  BY <1>1
<1>4. v2' \in [Chatters -> SUBSET DOMAIN v7] /\ \A w \in Chatters : v2'[w] \subseteq v2[w]
  BY <1>1, <1>3 DEF Chat!Recent
<1>5. Chat!RateTypes'
  BY <1>4 DEF Chat!RateTypes
<1>6. Chat!BucketsFit'
  <2>1. ASSUME NEW w \in Chatters PROVE Chat!Cardinality(Chat!Recent(v2[w])') <= MaxPerWindow
    <3>1. Chat!Recent(v2[w])' \in SUBSET Chat!Recent(v2[w]) /\ Chat!Recent(v2[w]) \in SUBSET DOMAIN v7
      BY <1>2, <1>4 DEF Chat!Recent
    <3>2. /\ Chat!Cardinality(Chat!Recent(v2[w])') <= Chat!Cardinality(Chat!Recent(v2[w]))
          /\ Chat!Cardinality(Chat!Recent(v2[w])') \in Nat /\ Chat!Cardinality(Chat!Recent(v2[w])) \in Nat
      BY <3>1, AdmissionsAreFinite
    <3>3. Chat!Cardinality(Chat!Recent(v2[w])) <= MaxPerWindow
      BY DEF Chat!BucketsFit
    <3> QED
      BY <3>2, <3>3, ChatAssumption
  <2> QED
    BY <2>1 DEF Chat!BucketsFit
<1>7. \A t \in Int : Chat!Crowded(t)' <=> Chat!Crowded(t)
  BY DEF Chat!Crowded, Chat!InWindow
<1>8. \A w \in Chatters, t \in Int : Chat!InWindow(w, t)' = Chat!InWindow(w, t)
  BY DEF Chat!InWindow
<1>9. Chat!BucketsKnow'
  <2>1. ASSUME NEW i \in Chat!Recent(DOMAIN v7), i \notin v2'[v7[i].user]
        PROVE  \E s \in v7[i].time .. v1 : Chat!Crowded(s)
    <3>1. i \in DOMAIN v7 /\ v7[i].user \in Chatters /\ v7[i].time \in Nat /\ v7[i].time <= v1
      BY AdmissionIsTyped DEF Chat!Recent
    <3>2. CASE i \notin v2[v7[i].user]
      BY <2>1, <3>2 DEF Chat!BucketsKnow, Chat!Forgotten
    <3>3. CASE i \in v2[v7[i].user]
      <4>1. i \in Chat!Recent(v2[v7[i].user])
        BY <3>3 DEF Chat!Recent
      <4>2. i \notin b[v7[i].user]
        BY <1>3, <2>1, <3>1 DEF Chat!Recent
      <4>3. Chat!Crowded(v1)
        BY <1>1, <3>1, <4>1, <4>2
      <4>4. v1 \in v7[i].time .. v1
        BY <1>2, <3>1
      <4> QED
        BY <4>3, <4>4
    <3> QED
      BY <3>2, <3>3
  <2>2. Chat!Recent(DOMAIN v7)' = Chat!Recent(DOMAIN v7)
    BY DEF Chat!Recent
  <2>3. ASSUME NEW i \in Chat!Recent(DOMAIN v7)', i \notin v2'[v7[i].user]
        PROVE  \E s \in v7[i].time .. v1 : Chat!Crowded(s)'
    <3>1. PICK s \in v7[i].time .. v1 : Chat!Crowded(s)
      BY <2>1, <2>2, <2>3
    <3>2. s \in Int
      OBVIOUS
    <3> QED
      BY <1>7, <3>1, <3>2
  <2> QED
    BY <2>3 DEF Chat!BucketsKnow, Chat!Forgotten
<1>10. \A t \in 0 .. v1' : t \in 0 .. v1 /\ t \in Int
  BY <1>2
<1> QED
  BY <1>5, <1>6, <1>7, <1>8, <1>9, <1>10, LaterIsKept

LEMMA AdmissionKeepsRate ==
    ASSUME Chat!RateInv, NEW u \in Chatters, NEW b \in Chat!Pruned, ~Chat!Full(b[u]),
           v1' = v1, v7' = Append(v7, [user |-> u, time |-> v1]),
           v2' = [b EXCEPT ![u] = Chat!Recent(@) \cup {Len(v7) + 1}]
    PROVE  Chat!RateInv'
<1> USE DEF Chat!RateInv
<1> DEFINE n == Len(v7) + 1
<1>1. /\ b \in [Chatters -> SUBSET DOMAIN v7]
      /\ \A w \in Chatters : b[w] \subseteq v2[w]
      /\ \A w \in Chatters : \A i \in Chat!Recent(v2[w]) : i \in b[w] \/ Chat!Crowded(v1)
  BY PrunedForgets
<1>2. /\ v2 \in [Chatters -> SUBSET DOMAIN v7] /\ v1 \in Nat /\ v7 \in Seq([user : Chatters, time : Nat])
      /\ Minute \in Nat /\ MaxPerWindow \in Nat
  BY ChatAssumption DEF Chat!RateTypes
<1>3. /\ v7' \in Seq([user : Chatters, time : Nat]) /\ DOMAIN v7' = DOMAIN v7 \cup {n}
      /\ DOMAIN v7 = 1 .. Len(v7) /\ Len(v7) \in Nat /\ n \notin DOMAIN v7
      /\ v7'[n] = [user |-> u, time |-> v1] /\ \A i \in DOMAIN v7 : v7'[i] = v7[i]
  BY <1>2
<1>4. v7'[n].user = u /\ v7'[n].time = v1
  BY <1>3
<1>5. \A i \in DOMAIN v7 : /\ v7[i].user \in Chatters /\ v7[i].time \in Nat /\ v7[i].time <= v1
                           /\ v7'[i].user = v7[i].user /\ v7'[i].time = v7[i].time
  BY <1>3, AdmissionIsTyped
<1>6. \A w \in Chatters : v2'[w] = IF w = u THEN Chat!Recent(b[u]) \cup {n} ELSE b[w]
  BY <1>1
<1> HIDE DEF n
<1>7. v2' \in [Chatters -> SUBSET DOMAIN v7'] /\ \A w \in Chatters : v2'[w] \ {n} \subseteq v2[w]
  <2>1. v2' \in [Chatters -> SUBSET (DOMAIN v7 \cup {n})]
    BY <1>1 DEF n, Chat!Recent
  <2> QED
    BY <1>1, <1>3, <1>6, <2>1 DEF Chat!Recent
<1>8. Chat!RateTypes'
  <2>1. \A i \in DOMAIN v7' : v7'[i].time <= v1
    BY <1>2, <1>3, <1>4, <1>5
  <2>2. ASSUME NEW w \in Chatters, NEW i \in v2'[w] PROVE v7'[i].user = w
    <3>1. CASE i = n
      <4>1. w = u
        BY <1>1, <1>3, <1>6, <2>2, <3>1
      <4> QED
        BY <1>4, <3>1, <4>1
    <3>2. CASE i # n
      <4>1. i \in v2[w] /\ i \in DOMAIN v7
        BY <1>2, <1>7, <2>2, <3>2
      <4> QED
        BY <1>5, <4>1 DEF Chat!RateTypes
    <3> QED
      BY <3>1, <3>2
  <2> QED
    BY <1>2, <1>3, <1>7, <2>1, <2>2 DEF Chat!RateTypes
<1>9. \A S \in SUBSET DOMAIN v7 : Chat!Recent(S)' = Chat!Recent(S)
  BY <1>5 DEF Chat!Recent
<1>10. Chat!BucketsFit'
  <2>1. \A w \in Chatters : Chat!Recent(b[w]) \in SUBSET Chat!Recent(v2[w]) /\ Chat!Recent(v2[w]) \in SUBSET DOMAIN v7
    BY <1>1, <1>2 DEF Chat!Recent
  <2>2. \A w \in Chatters :
           /\ Chat!Cardinality(Chat!Recent(b[w])) <= Chat!Cardinality(Chat!Recent(v2[w]))
           /\ Chat!Cardinality(Chat!Recent(b[w])) \in Nat /\ Chat!Cardinality(Chat!Recent(v2[w])) \in Nat
           /\ Chat!IsFiniteSet(Chat!Recent(b[w]))
    <3> TAKE w \in Chatters
    <3>1. Chat!Recent(b[w]) \in SUBSET Chat!Recent(v2[w]) /\ Chat!Recent(v2[w]) \in SUBSET DOMAIN v7
      BY <2>1
    <3>2. Chat!Recent(b[w]) \in SUBSET DOMAIN v7
      BY <3>1
    <3> QED
      BY <3>1, <3>2, AdmissionsAreFinite
  <2>3. \A w \in Chatters : Chat!Cardinality(Chat!Recent(b[w])) <= MaxPerWindow
    BY <1>2, <2>2 DEF Chat!BucketsFit
  <2>4. Chat!Cardinality(Chat!Recent(b[u])) + 1 <= MaxPerWindow
    BY <1>2, <2>2 DEF Chat!Full
  <2>5. ASSUME NEW w \in Chatters PROVE Chat!Cardinality(Chat!Recent(v2[w])') <= MaxPerWindow
    <3>1. CASE w # u
      <4>1. v2'[w] = b[w] /\ b[w] \in SUBSET DOMAIN v7
        BY <1>1, <1>6, <3>1
      <4>2. Chat!Recent(v2[w])' = Chat!Recent(b[w])
        BY <1>5, <4>1 DEF Chat!Recent
      <4> QED
        BY <2>3, <4>2
    <3>2. CASE w = u
      <4>1. v2'[u] = Chat!Recent(b[u]) \cup {n}
        BY <1>6
      <4>2. PICK R : R = Chat!Recent(b[u])
        OBVIOUS
      <4>3. R \in SUBSET DOMAIN v7 /\ \A i \in R : v7[i].time > v1 - Minute
        BY <1>1, <4>2 DEF Chat!Recent
      <4>4. Chat!Recent(v2[u])' \in SUBSET (R \cup {n})
        BY <4>1, <4>2 DEF Chat!Recent
      <4>5. Chat!IsFiniteSet(R) /\ Chat!Cardinality(R) \in Nat /\ Chat!Cardinality(R) + 1 <= MaxPerWindow
        BY <2>2, <2>4, <4>2
      <4>6. Chat!IsFiniteSet(R \cup {n}) /\ Chat!Cardinality(R \cup {n}) <= Chat!Cardinality(R) + 1
        BY <4>5, Chat!FS_AddElement
      <4>7. /\ Chat!Cardinality(Chat!Recent(v2[u])') <= Chat!Cardinality(R \cup {n})
            /\ Chat!IsFiniteSet(Chat!Recent(v2[u])')
        BY <4>4, <4>6, Chat!FS_Subset
      <4>8. Chat!Cardinality(Chat!Recent(v2[u])') \in Nat /\ Chat!Cardinality(R \cup {n}) \in Nat
        BY <4>6, <4>7, Chat!FS_CardinalityType
      <4>9. Chat!Cardinality(Chat!Recent(v2[u])') <= MaxPerWindow
        BY <1>2, <4>5, <4>6, <4>7, <4>8
      <4> QED
        BY <3>2, <4>9
    <3> QED
      BY <3>1, <3>2
  <2> QED
    BY <2>5 DEF Chat!BucketsFit
<1>11. \A w \in Chatters, t \in Int : Chat!InWindow(w, t) \subseteq Chat!InWindow(w, t)'
  BY <1>3, <1>5 DEF Chat!InWindow
<1>12. \A w \in Chatters, t \in 0 .. v1 : t # v1 => Chat!InWindow(w, t)' = Chat!InWindow(w, t)
  <2>1. ASSUME NEW w \in Chatters, NEW t \in 0 .. v1, t # v1
        PROVE  Chat!InWindow(w, t)' = Chat!InWindow(w, t)
    <3>1. ~(v1 <= t) /\ t \in Int
      BY <1>2, <2>1
    <3>2. Chat!InWindow(w, t)' \subseteq Chat!InWindow(w, t)
      BY <1>3, <1>4, <1>5, <3>1 DEF Chat!InWindow
    <3> QED
      BY <1>11, <3>1, <3>2
  <2> QED
    BY <2>1
<1>13. \A t \in Int : Chat!Crowded(t) => Chat!Crowded(t)'
  <2> SUFFICES ASSUME NEW t \in Int, Chat!Crowded(t) PROVE Chat!Crowded(t)'
    OBVIOUS
  <2> DEFINE Now == {w \in Chatters : Chat!InWindow(w, t) # {}}
             Then == {w \in Chatters : Chat!InWindow(w, t)' # {}}
  <2>1. Now \in SUBSET Then /\ Then \in SUBSET Chatters
    BY <1>11
  <2>2. /\ Chat!Cardinality(Now) \in Nat /\ Chat!Cardinality(Then) \in Nat
        /\ Chat!Cardinality(Now) <= Chat!Cardinality(Then)
    BY <2>1, CrowdsGrow
  <2>3. Chat!Cardinality(Now) > MaxTracked
    BY DEF Chat!Crowded
  <2> HIDE DEF Now, Then
  <2>4. Chat!Cardinality(Then) > MaxTracked
    BY <2>2, <2>3, ChatAssumption
  <2> QED
    BY <2>4 DEF Chat!Crowded, Then
<1>14. Chat!BucketsKnow'
  <2>1. ASSUME NEW i \in DOMAIN v7, i \in Chat!Recent(DOMAIN v7), i \notin v2'[v7[i].user]
        PROVE  \E s \in v7[i].time .. v1 : Chat!Crowded(s)
    <3>1. CASE i \notin v2[v7[i].user]
      BY <2>1, <3>1 DEF Chat!BucketsKnow, Chat!Forgotten
    <3>2. CASE i \in v2[v7[i].user]
      <4>1. i \in Chat!Recent(v2[v7[i].user])
        BY <2>1, <3>2 DEF Chat!Recent
      <4>2. i \notin b[v7[i].user]
        BY <1>5, <1>6, <2>1, <4>1 DEF Chat!Recent
      <4>3. Chat!Crowded(v1)
        BY <1>1, <1>5, <4>1, <4>2
      <4>4. v1 \in v7[i].time .. v1
        BY <1>2, <1>5
      <4> QED
        BY <4>3, <4>4
    <3> QED
      BY <3>1, <3>2
  <2>2. ASSUME NEW i \in Chat!Recent(DOMAIN v7)', i \notin v2'[v7'[i].user]
        PROVE  \E s \in v7'[i].time .. v1 : Chat!Crowded(s)'
    <3>1. i # n
      <4>1. n \in v2'[u]
        BY <1>6
      <4> QED
        BY <1>4, <2>2, <4>1
    <3>2. i \in DOMAIN v7 /\ v7'[i].time > v1 - Minute
      BY <1>3, <2>2, <3>1 DEF Chat!Recent
    <3>3. i \in Chat!Recent(DOMAIN v7) /\ v7'[i].user = v7[i].user /\ v7'[i].time = v7[i].time
      BY <1>5, <3>2 DEF Chat!Recent
    <3>4. PICK s \in v7[i].time .. v1 : Chat!Crowded(s)
      BY <2>1, <2>2, <3>2, <3>3
    <3>5. s \in Int
      OBVIOUS
    <3> QED
      BY <1>13, <3>3, <3>4, <3>5
  <2> QED
    BY <2>2 DEF Chat!BucketsKnow, Chat!Forgotten
<1>15. \A t \in 0 .. v1' : t = v1' \/ (t \in 0 .. v1 /\ \A w \in Chatters : Chat!InWindow(w, t)' = Chat!InWindow(w, t))
  BY <1>12
<1> QED
  BY <1>8, <1>10, <1>13, <1>14, <1>15, LaterIsKept

LEMMA RateIsMaintained == Chat!RateInv /\ [Chat!Next]_(Chat!gwVars) => Chat!RateInv'
<1> SUFFICES ASSUME Chat!RateInv, [Chat!Next]_(Chat!gwVars) PROVE Chat!RateInv'
  OBVIOUS
<1>1. CASE UNCHANGED Chat!gwVars
  BY <1>1, RateStays DEF Chat!gwVars
<1>2. ASSUME NEW m \in ChatMessages, Chat!Handle(m)
      PROVE  Chat!RateInv'
  <2>1. SentBy[m] \in Chatters
    BY ChatAssumption
  <2>2. PICK b \in Chat!Pruned :
           /\ v1' = v1
           /\ \/ v2' = [b EXCEPT ![SentBy[m]] = Chat!Recent(@)] /\ v7' = v7
              \/ /\ ~Chat!Full(b[SentBy[m]])
                 /\ v2' = [b EXCEPT ![SentBy[m]] = Chat!Recent(@) \cup {Len(v7) + 1}]
                 /\ v7' = Append(v7, [user |-> SentBy[m], time |-> v1])
    BY <1>2 DEF Chat!Handle
  <2> QED
    BY <2>1, <2>2, RefusalKeepsRate, AdmissionKeepsRate
<1>3. ASSUME NEW m \in ChatMessages,
             Chat!Receive(m) \/ Chat!Command(m) \/ Chat!StartTurn(m) \/ Chat!EndTurn(m) \/ Chat!TimesOut(m)
      PROVE  Chat!RateInv'
  BY <1>3, RateStays DEF Chat!Receive, Chat!Command, Chat!StartTurn, Chat!EndTurn, Chat!TimesOut
<1>4. CASE Chat!Shutdown \/ (\E c \in Channels : Chat!CloseOne(c)) \/ Chat!Stopped
  BY <1>4, RateStays DEF Chat!Shutdown, Chat!CloseOne, Chat!Stopped
<1>5. CASE Chat!Tick
  BY <1>5, TickKeepsRate
<1> QED
  BY <1>1, <1>2, <1>3, <1>4, <1>5 DEF Chat!Next

LEMMA RateShows == Chat!RateInv => Chat!RateIsKept
BY DEF Chat!RateInv

(* For any users, rate, window and size of the table: however the table is  *)
(* pruned (RateLimiter._prune), no user gets more messages admitted in a    *)
(* window than the rate allows, unless more users wrote in one window than  *)
(* the table has room for.                                                  *)
THEOREM RateAlwaysKept == Spec => []RateIsKept
<1> DEFINE Inv == scene = "chat" => Chat!RateInv
<1>1. Init => Inv
  BY RateInitially DEF Init
<1>2. Inv /\ [Next]_vars => Inv'
  BY SceneStep, RateIsMaintained
<1>3. Inv => RateIsKept
  BY RateShows DEF RateIsKept
<1> QED
  BY <1>1, <1>2, <1>3, PTL DEF Spec

-----------------------------------------------------------------------------
(* The checkpoints (Checkpoints).                                           *)

(* Of numbers below a bound there is a last one.                            *)
LEMMA NewestIsLast ==
    ASSUME NEW n \in Nat, NEW S \in SUBSET (1 .. n), S # {}
    PROVE  Saves!Newest(S) \in S /\ \A j \in S : j <= Saves!Newest(S)
<1> DEFINE T == {n - i : i \in S}
<1>1. T \in SUBSET Nat /\ T # {}
  <2>1. ASSUME NEW i \in S PROVE n - i \in Nat
    <3>1. i \in Nat /\ i <= n
      OBVIOUS
    <3> QED
      BY <3>1
  <2>2. T \subseteq Nat
    BY <2>1
  <2> QED
    BY <2>2
<1> HIDE DEF T
<1>2. PICK e \in T : \A k \in T : ~ <<k, e>> \in OpToRel(<, Nat)
  BY ONLY <1>1, NatLessThanWellFounded, WFMin
<1>3. ASSUME NEW k \in T PROVE e <= k
  <2>1. k < e => <<k, e>> \in OpToRel(<, Nat)
    BY <1>1, Zenon DEF OpToRel
  <2>2. ~(k < e)
    BY <1>2, <2>1, Zenon
  <2> QED
    BY <1>1, <2>2
<1>4. PICK i \in S : e = n - i
  BY DEF T
<1>5. ASSUME NEW j \in S PROVE j <= i
  <2>1. n - j \in T
    BY DEF T
  <2> QED
    BY <1>3, <1>4, <2>1
<1>6. \E x \in S : \A j \in S : j <= x
  BY <1>5
<1> QED
  BY <1>6 DEF Saves!Newest

LEMMA SaveInitially == Saves!Init => Saves!SaveInv
<1> SUFFICES ASSUME Saves!Init PROVE Saves!SaveInv
  OBVIOUS
<1>1. Saves!SaveTypes
  BY SavesAssumption DEF Saves!Init, Saves!SaveTypes, Saves!NoRestore
<1>2. Saves!OldestIsBefore
  BY DEF Saves!Init, Saves!OldestIsBefore, Saves!Copies, Saves!OfSession, Saves!Saving, Saves!NoTool
<1>3. Saves!PutBackInOrder
  BY SavesAssumption DEF Saves!Init, Saves!PutBackInOrder, Saves!NoRestore
<1>4. Saves!UnsavedIsThere
  BY DEF Saves!Init, Saves!UnsavedIsThere
<1> QED
  BY <1>1, <1>2, <1>3, <1>4 DEF Saves!SaveInv

LEMMA ToolRecords ==
    ASSUME NEW t \in Saves!Tools
    PROVE  [t EXCEPT !.at = "recorded"] \in Saves!Tools /\ [t EXCEPT !.at = "recorded"].at = "recorded"
BY DEF Saves!Tools

LEMMA ToolSaves ==
    ASSUME NEW t \in Saves!Tools, NEW h \in Saves!Holds
    PROVE  LET u == [t EXCEPT !.at = "saved", !.saw = h]
           IN  u \in Saves!Tools /\ u.at = "saved" /\ u.saw = h /\ u.path = t.path
BY DEF Saves!Tools

LEMMA ToolIsAt ==
    ASSUME Saves!SaveTypes, NEW s \in Savers, v3[s].at # "idle"
    PROVE  /\ v3[s] \in Saves!Tools /\ v3[s].path \in SavedPaths
           /\ v3[s].saw \in Saves!Holds /\ v3[s].new \in Saves!Holds \cup {Saves!Written}
BY DEF Saves!SaveTypes, Saves!Tools, Saves!NoTool

(* A step that touches neither the checkpoints nor what was there before,   *)
(* and no tool that is saving, keeps what they say of each other.           *)
LEMMA OldestStays ==
    ASSUME Saves!OldestIsBefore, v2' = v2, v5' = v5, v7' = v7,
           \A s \in Savers : v3'[s].at = "saved" \/ v3[s].at = "saved" => v3'[s] = v3[s]
    PROVE  Saves!OldestIsBefore'
BY DEF Saves!OldestIsBefore, Saves!Copies, Saves!OfSession, Saves!Saving

(* A step beside a restoration disturbs it only by changes that exempt a    *)
(* path, and the checkpoints it adds are newer.                             *)
LEMMA RestorationStays ==
    ASSUME Saves!PutBackInOrder, v4' = v4,
           \A s \in Savers : s = v4.of =>
               /\ v6[s] \subseteq v6'[s] /\ v7[s] \subseteq v7'[s] /\ v8 \subseteq v8'
               /\ \A p \in SavedPaths :
                     \/ v5'[s][p] = Saves!Untouched \/ v1'[p] = v5'[s][p]
                     \/ p \in v6'[s] \/ p \in v7'[s] \/ p \in v8'
                     \/ v5'[s][p] = v5[s][p] /\ v1'[p] = v1[p]
               /\ Saves!OfSession(s) \subseteq Saves!OfSession(s)'
               /\ \A i \in Saves!OfSession(s)' \ Saves!OfSession(s) : \A j \in Saves!OfSession(s) : j < i
               /\ \A p \in SavedPaths : Saves!Copies(s, p) \subseteq Saves!Copies(s, p)'
    PROVE  Saves!PutBackInOrder'
<1> SUFFICES ASSUME v4.of \in Savers PROVE Saves!PutBackInOrder'
  BY DEF Saves!PutBackInOrder
<1>1. PICK t \in Savers : t = v4.of /\ t = v4'.of
  OBVIOUS
<1>2. /\ v6[t] \subseteq v6'[t] /\ v7[t] \subseteq v7'[t] /\ v8 \subseteq v8'
      /\ \A p \in SavedPaths :
            \/ v5'[t][p] = Saves!Untouched \/ v1'[p] = v5'[t][p]
            \/ p \in v6'[t] \/ p \in v7'[t] \/ p \in v8'
            \/ v5'[t][p] = v5[t][p] /\ v1'[p] = v1[p]
  BY <1>1
<1>5. /\ Saves!OfSession(t) \subseteq Saves!OfSession(t)'
      /\ \A i \in Saves!OfSession(t)' \ Saves!OfSession(t) : \A j \in Saves!OfSession(t) : j < i
      /\ \A p \in SavedPaths : Saves!Copies(t, p) \subseteq Saves!Copies(t, p)'
  BY <1>1
<1>3. v4'.todo \subseteq Saves!OfSession(t)'
  BY <1>1, <1>5 DEF Saves!PutBackInOrder
<1>4. ASSUME v4'.ok
      PROVE  /\ \A i \in Saves!OfSession(t)' \ v4'.todo : \A j \in v4'.todo : j < i
             /\ \A p \in SavedPaths \ Saves!Exempt(t)' :
                    \/ v5'[t][p] = Saves!Untouched \/ v1'[p] = v5'[t][p]
                    \/ Saves!Copies(t, p)' \cap v4'.todo # {}
  <2>1. /\ v4.todo \subseteq Saves!OfSession(t)
        /\ \A i \in Saves!OfSession(t) \ v4.todo : \A j \in v4.todo : j < i
        /\ \A p \in SavedPaths \ Saves!Exempt(t) :
               \/ v5[t][p] = Saves!Untouched \/ v1[p] = v5[t][p]
               \/ Saves!Copies(t, p) \cap v4.todo # {}
    BY <1>1, <1>4 DEF Saves!PutBackInOrder
  <2>2. \A i \in Saves!OfSession(t)' \ v4'.todo : \A j \in v4'.todo : j < i
    BY <1>5, <2>1
  <2>3. ASSUME NEW p \in SavedPaths \ Saves!Exempt(t)'
        PROVE  \/ v5'[t][p] = Saves!Untouched \/ v1'[p] = v5'[t][p]
               \/ Saves!Copies(t, p)' \cap v4'.todo # {}
    <3>1. p \in SavedPaths \ Saves!Exempt(t)
      BY <1>2 DEF Saves!Exempt
    <3>2. v5'[t][p] = Saves!Untouched \/ v1'[p] = v5'[t][p] \/ (v5'[t][p] = v5[t][p] /\ v1'[p] = v1[p])
      BY <1>2 DEF Saves!Exempt
    <3>3. Saves!Copies(t, p) \cap v4.todo \subseteq Saves!Copies(t, p)' \cap v4'.todo
      BY <1>5
    <3> QED
      BY <2>1, <3>1, <3>2, <3>3
  <2> QED
    BY <2>2, <2>3
<1> QED
  BY <1>1, <1>3, <1>4 DEF Saves!PutBackInOrder

(* So do the paths that were touched and have no checkpoint.                *)
LEMMA UnsavedStays ==
    ASSUME Saves!UnsavedIsThere,
           \A s \in Savers, p \in SavedPaths :
               /\ v6[s] \subseteq v6'[s] /\ v7[s] \subseteq v7'[s]
               /\ Saves!Copies(s, p) \subseteq Saves!Copies(s, p)'
               /\ \/ v5'[s][p] = Saves!Untouched \/ v1'[p] = v5'[s][p]
                  \/ p \in v6'[s] \/ p \in v7'[s] \/ Saves!Copies(s, p)' # {}
                  \/ v5'[s][p] = v5[s][p] /\ v1'[p] = v1[p]
    PROVE  Saves!UnsavedIsThere'
<1>1. ASSUME NEW s \in Savers, NEW p \in SavedPaths \ (v6'[s] \union v7'[s]),
             v5'[s][p] # Saves!Untouched, Saves!Copies(s, p)' = {}
      PROVE  v1'[p] = v5'[s][p]
  <2>1. p \notin v6[s] /\ p \notin v7[s] /\ Saves!Copies(s, p) = {}
    BY <1>1
  <2>2. v5[s][p] # Saves!Untouched => v1[p] = v5[s][p]
    BY <2>1 DEF Saves!UnsavedIsThere
  <2> QED
    BY <1>1, <2>2
<1> QED
  BY <1>1 DEF Saves!UnsavedIsThere

(* What somebody changed is foreign to every other session that touched it. *)
LEMMA WhatChanges ==
    ASSUME Saves!SaveTypes, NEW w \in Savers \cup {"none"}, NEW p \in SavedPaths, NEW h \in Saves!Holds,
           Saves!Changes(w, p, h)
    PROVE  /\ v1' \in [SavedPaths -> Saves!Holds] /\ v6' \in [Savers -> SUBSET SavedPaths]
           /\ v1' = [v1 EXCEPT ![p] = h]
           /\ \A s \in Savers :
                 /\ v6[s] \subseteq v6'[s]
                 /\ s # w => \A q \in SavedPaths : v5[s][q] = Saves!Untouched \/ q \in v6'[s] \/ v1'[q] = v1[q]
                 /\ s = w => v6'[s] = v6[s]
<1>1. v1' = [v1 EXCEPT ![p] = h]
  BY DEF Saves!Changes
<1>2. v6' = [s \in Savers |-> IF s # w /\ v5[s][p] # Saves!Untouched /\ v1[p] # h
                              THEN v6[s] \union {p} ELSE v6[s]]
  BY DEF Saves!Changes
<1>3. v1 \in [SavedPaths -> Saves!Holds] /\ v6 \in [Savers -> SUBSET SavedPaths]
  BY DEF Saves!SaveTypes
<1>4. v1' \in [SavedPaths -> Saves!Holds] /\ v6' \in [Savers -> SUBSET SavedPaths]
  BY <1>1, <1>2, <1>3
<1>5. ASSUME NEW s \in Savers, s # w, NEW q \in SavedPaths
      PROVE  v5[s][q] = Saves!Untouched \/ q \in v6'[s] \/ v1'[q] = v1[q]
  BY <1>1, <1>2, <1>3, <1>5
<1> QED
  BY <1>1, <1>2, <1>3, <1>4, <1>5

(* A tool that reads, and one whose snapshot fails or that has written, go  *)
(* no further than their own call.                                          *)
LEMMA ToolReadsKeepsSaves ==
    ASSUME Saves!SaveInv, NEW s \in Savers, NEW p \in SavedPaths, NEW h \in Saves!Holds,
           Saves!ToolReads(s, p, h)
    PROVE  Saves!SaveInv'
<1> USE DEF Saves!SaveInv
<1>1. /\ v3[s].at = "idle"
      /\ v3' = [v3 EXCEPT ![s] = [at |-> "read", path |-> p, new |-> h, saw |-> v1[p]]]
      /\ v1' = v1 /\ v2' = v2 /\ v4' = v4 /\ v5' = v5 /\ v6' = v6 /\ v7' = v7 /\ v8' = v8
  BY DEF Saves!ToolReads
<1>2. Saves!SaveTypes'
  <2>1. [at |-> "read", path |-> p, new |-> h, saw |-> v1[p]] \in Saves!Tools
    BY DEF Saves!SaveTypes, Saves!Tools
  <2> QED
    BY <1>1, <2>1 DEF Saves!SaveTypes
<1>3. \A t \in Savers : v3'[t] = IF t = s THEN [at |-> "read", path |-> p, new |-> h, saw |-> v1[p]] ELSE v3[t]
  BY <1>1 DEF Saves!SaveTypes
<1>4. Saves!OldestIsBefore'
  BY <1>1, <1>3, OldestStays
<1>5. Saves!UnsavedIsThere'
  BY <1>1, UnsavedStays DEF Saves!OfSession, Saves!Copies
<1>6. Saves!PutBackInOrder'
  BY <1>1, RestorationStays DEF Saves!OfSession, Saves!Copies
<1> QED
  BY <1>2, <1>4, <1>5, <1>6

(* A tool that writes with no snapshot: what was there is not to be put     *)
(* back, unless a checkpoint has it.                                        *)
LEMMA WritesFirstKeepsSaves ==
    ASSUME Saves!SaveInv, NEW s \in Savers, NEW p \in SavedPaths, NEW h \in Saves!Holds,
           Saves!WritesFirst(s, p, h)
    PROVE  Saves!SaveInv'
<1> USE DEF Saves!SaveInv
<1>1. /\ v3[s].at = "idle" /\ v2' = v2 /\ v4' = v4 /\ Saves!Changes(s, p, h)
      /\ v8' = IF v4.of = s THEN v8 \cup {p} ELSE v8
      /\ v5' = [v5 EXCEPT ![s][p] = IF @ = Saves!Untouched THEN v1[p] ELSE @]
      /\ v7' = IF v5[s][p] = Saves!Untouched THEN [v7 EXCEPT ![s] = @ \cup {p}] ELSE v7
      /\ \/ v3' = v3
         \/ v3' = [v3 EXCEPT ![s] = [at |-> "read", path |-> p, new |-> Saves!Written, saw |-> h]]
  BY DEF Saves!WritesFirst, Saves!SessionWrites
<1>2. /\ v1' \in [SavedPaths -> Saves!Holds] /\ v6' \in [Savers -> SUBSET SavedPaths]
      /\ v1' = [v1 EXCEPT ![p] = h]
      /\ \A t \in Savers :
            /\ v6[t] \subseteq v6'[t]
            /\ t # s => \A q \in SavedPaths : v5[t][q] = Saves!Untouched \/ q \in v6'[t] \/ v1'[q] = v1[q]
            /\ t = s => v6'[t] = v6[t]
  BY <1>1, WhatChanges
<1>3. \A t \in Savers : t # s => v3'[t] = v3[t] /\ v5'[t] = v5[t] /\ v7'[t] = v7[t]
  BY <1>1 DEF Saves!SaveTypes
<1>4. v3'[s] = v3[s] \/ (v3'[s].at = "read" /\ v3'[s].path = p)
  BY <1>1 DEF Saves!SaveTypes
<1>5. /\ \A q \in SavedPaths : v5'[s][q] = IF q = p /\ v5[s][p] = Saves!Untouched THEN v1[p] ELSE v5[s][q]
      /\ v1[p] \in Saves!Holds
  BY <1>1 DEF Saves!SaveTypes
<1>6. v7'[s] = v7[s] \cup (IF v5[s][p] = Saves!Untouched THEN {p} ELSE {})
  BY <1>1 DEF Saves!SaveTypes
<1>7. \A q \in SavedPaths : q # p => v1'[q] = v1[q]
  BY <1>2 DEF Saves!SaveTypes
<1>8. Saves!SaveTypes'
  <2>1. [at |-> "read", path |-> p, new |-> Saves!Written, saw |-> h] \in Saves!Tools
    BY DEF Saves!Tools
  <2>2. v3' \in [Savers -> Saves!Tools \union {Saves!NoTool}]
    BY <1>1, <2>1 DEF Saves!SaveTypes
  <2>3. v5' \in [Savers -> [SavedPaths -> Saves!Holds \union {Saves!Untouched}]]
    BY <1>1, <1>5 DEF Saves!SaveTypes
  <2>4. v7' \in [Savers -> SUBSET SavedPaths] /\ v8' \subseteq SavedPaths
    BY <1>1 DEF Saves!SaveTypes
  <2> QED
    BY <1>1, <1>2, <2>2, <2>3, <2>4 DEF Saves!SaveTypes
<1>9. Saves!Untouched \notin Saves!Holds
  BY SavesAssumption DEF Saves!Holds, Saves!Untouched
<1>10. \A t \in Savers, q \in SavedPaths :
          Saves!Copies(t, q)' = Saves!Copies(t, q) /\ Saves!OfSession(t)' = Saves!OfSession(t)
  BY <1>1 DEF Saves!Copies, Saves!OfSession
<1>11. \A t \in Savers, q \in SavedPaths :
          /\ Saves!Saving(t, q)' <=> Saves!Saving(t, q)
          /\ Saves!Saving(t, q) => v3'[t] = v3[t]
  BY <1>1, <1>3, <1>4 DEF Saves!Saving
<1>12. ASSUME NEW t \in Savers, NEW q \in SavedPaths
       PROVE  v5'[t][q] = v5[t][q] \/ (t = s /\ q = p /\ v5'[t][q] # Saves!Untouched /\ q \in v7'[t])
  BY <1>3, <1>5, <1>6, <1>9
<1>13. Saves!OldestIsBefore'
  <2>1. ASSUME NEW t \in Savers, NEW q \in SavedPaths
        PROVE  /\ v5'[t][q] = Saves!Untouched => Saves!Copies(t, q)' = {} /\ ~Saves!Saving(t, q)'
               /\ v5'[t][q] # Saves!Untouched /\ q \notin v7'[t] =>
                     \/ Saves!Copies(t, q)' = {} /\ Saves!Saving(t, q)' /\ v3'[t].saw = v5'[t][q]
                     \/ \E i \in Saves!Copies(t, q)' :
                           v2'[i].held = v5'[t][q] /\ \A j \in Saves!Copies(t, q)' : i <= j
    <3>1. /\ v5[t][q] = Saves!Untouched => Saves!Copies(t, q) = {} /\ ~Saves!Saving(t, q)
          /\ v5[t][q] # Saves!Untouched /\ q \notin v7[t] =>
                \/ Saves!Copies(t, q) = {} /\ Saves!Saving(t, q) /\ v3[t].saw = v5[t][q]
                \/ \E i \in Saves!Copies(t, q) :
                      v2[i].held = v5[t][q] /\ \A j \in Saves!Copies(t, q) : i <= j
      BY DEF Saves!OldestIsBefore
    <3>2. Saves!Copies(t, q)' = Saves!Copies(t, q) /\ v2' = v2
      BY <1>1, <1>10
    <3>3. /\ Saves!Saving(t, q)' <=> Saves!Saving(t, q)
          /\ Saves!Saving(t, q) => v3'[t] = v3[t]
      BY <1>11
    <3>4. v7[t] \subseteq v7'[t]
      BY <1>3, <1>6
    <3>5. CASE v5'[t][q] = v5[t][q]
      BY <3>1, <3>2, <3>3, <3>4, <3>5
    <3>6. CASE v5'[t][q] # v5[t][q]
      BY <1>12, <3>6
    <3> QED
      BY <3>5, <3>6
  <2> QED
    BY <2>1 DEF Saves!OldestIsBefore
<1>14. Saves!UnsavedIsThere'
  <2>1. ASSUME NEW t \in Savers, NEW q \in SavedPaths
        PROVE  \/ v5'[t][q] = Saves!Untouched
               \/ q \in v6'[t] \/ q \in v7'[t] \/ Saves!Copies(t, q)' # {}
               \/ v5'[t][q] = v5[t][q] /\ v1'[q] = v1[q]
    <3>1. CASE t # s
      BY <1>2, <1>3, <3>1
    <3>2. CASE t = s /\ q # p
      BY <1>5, <1>7, <3>2
    <3>3. CASE t = s /\ q = p /\ v5[t][q] = Saves!Untouched
      BY <1>6, <3>3
    <3>4. CASE t = s /\ q = p /\ v5[t][q] # Saves!Untouched
      <4>1. ~Saves!Saving(s, p)
        BY <1>1 DEF Saves!Saving
      <4>2. p \in v7[s] \/ Saves!Copies(s, p) # {}
        BY <3>4, <4>1 DEF Saves!OldestIsBefore
      <4> QED
        BY <1>6, <1>10, <3>4, <4>2
    <3> QED
      BY <3>1, <3>2, <3>3, <3>4
  <2>2. \A t \in Savers : v6[t] \subseteq v6'[t] /\ v7[t] \subseteq v7'[t]
    BY <1>2, <1>3, <1>6
  <2> QED
    BY <1>10, <2>1, <2>2, UnsavedStays
<1>15. Saves!PutBackInOrder'
  <2>1. ASSUME NEW t \in Savers, t = v4.of, NEW q \in SavedPaths
        PROVE  \/ v5'[t][q] = Saves!Untouched
               \/ q \in v6'[t] \/ q \in v7'[t] \/ q \in v8'
               \/ v5'[t][q] = v5[t][q] /\ v1'[q] = v1[q]
    <3>1. CASE t # s
      BY <1>2, <1>3, <3>1
    <3>2. CASE t = s /\ q # p
      BY <1>5, <1>7, <3>2
    <3>3. CASE t = s /\ q = p
      BY <1>1, <2>1, <3>3
    <3> QED
      BY <3>1, <3>2, <3>3
  <2>2. \A t \in Savers : v6[t] \subseteq v6'[t] /\ v7[t] \subseteq v7'[t] /\ v8 \subseteq v8'
    BY <1>1, <1>2, <1>3, <1>6
  <2> QED
    BY <1>1, <1>10, <2>1, <2>2, RestorationStays
<1> QED
  BY <1>8, <1>13, <1>14, <1>15

LEMMA SnapshotKeepsSaves ==
    ASSUME Saves!SaveInv, NEW s \in Savers, Saves!Snapshot(s)
    PROVE  Saves!SaveInv'
<1> USE DEF Saves!SaveInv
<1> DEFINE p == v3[s].path
<1>1. /\ v3[s].at = "read" /\ v1' = v1 /\ v2' = v2 /\ v4' = v4 /\ v6' = v6 /\ v7' = v7 /\ v8' = v8
      /\ v3' = [v3 EXCEPT ![s].at = "saved", ![s].saw = v1[p]]
      /\ v5' = [v5 EXCEPT ![s][p] = IF @ = Saves!Untouched THEN v1[p] ELSE @]
  BY DEF Saves!Snapshot
<1>2. p \in SavedPaths /\ v1[p] \in Saves!Holds /\ v3[s] \in Saves!Tools
  BY <1>1, ToolIsAt DEF Saves!SaveTypes
<1>3. \A t \in Savers : t # s => v3'[t] = v3[t] /\ v5'[t] = v5[t]
  BY <1>1 DEF Saves!SaveTypes
<1>4. v3'[s].at = "saved" /\ v3'[s].path = p /\ v3'[s].saw = v1[p]
  <2>1. v3'[s] = [v3[s] EXCEPT !.at = "saved", !.saw = v1[p]]
    BY <1>1 DEF Saves!SaveTypes
  <2> DEFINE u == [v3[s] EXCEPT !.at = "saved", !.saw = v1[p]]
  <2>2. u.at = "saved" /\ u.saw = v1[p] /\ u.path = p
    BY <1>2, ToolSaves
  <2> HIDE DEF u
  <2>3. v3'[s] = u
    BY <2>1 DEF u
  <2> QED
    BY <2>2, <2>3
<1>5. \A q \in SavedPaths : v5'[s][q] = IF q = p /\ v5[s][p] = Saves!Untouched THEN v1[p] ELSE v5[s][q]
  BY <1>1, <1>2 DEF Saves!SaveTypes
<1>6. Saves!SaveTypes'
  <2>1. [v3[s] EXCEPT !.at = "saved", !.saw = v1[p]] \in Saves!Tools
    BY <1>2, ToolSaves
  <2>2. v3' \in [Savers -> Saves!Tools \union {Saves!NoTool}]
    BY <1>1, <2>1 DEF Saves!SaveTypes
  <2>3. v5' \in [Savers -> [SavedPaths -> Saves!Holds \union {Saves!Untouched}]]
    BY <1>1, <1>2 DEF Saves!SaveTypes
  <2> QED
    BY <1>1, <2>2, <2>3 DEF Saves!SaveTypes
<1>7. Saves!Untouched \notin Saves!Holds
  BY SavesAssumption DEF Saves!Holds, Saves!Untouched
<1>8. Saves!OldestIsBefore'
  <2>1. ASSUME NEW t \in Savers, NEW q \in SavedPaths
        PROVE  /\ v5'[t][q] = Saves!Untouched => Saves!Copies(t, q)' = {} /\ ~Saves!Saving(t, q)'
               /\ v5'[t][q] # Saves!Untouched /\ q \notin v7'[t] =>
                     \/ Saves!Copies(t, q)' = {} /\ Saves!Saving(t, q)' /\ v3'[t].saw = v5'[t][q]
                     \/ \E i \in Saves!Copies(t, q)' :
                           v2'[i].held = v5'[t][q] /\ \A j \in Saves!Copies(t, q)' : i <= j
    <3>1. Saves!Copies(t, q)' = Saves!Copies(t, q)
      BY <1>1 DEF Saves!Copies, Saves!OfSession
    <3>2. /\ v5[t][q] = Saves!Untouched => Saves!Copies(t, q) = {} /\ ~Saves!Saving(t, q)
          /\ v5[t][q] # Saves!Untouched /\ q \notin v7[t] =>
                \/ Saves!Copies(t, q) = {} /\ Saves!Saving(t, q) /\ v3[t].saw = v5[t][q]
                \/ \E i \in Saves!Copies(t, q) :
                      v2[i].held = v5[t][q] /\ \A j \in Saves!Copies(t, q) : i <= j
      BY DEF Saves!OldestIsBefore
    <3>3. CASE t # s
      BY <1>1, <1>3, <3>1, <3>2, <3>3 DEF Saves!Saving
    <3>4. CASE t = s /\ q # p
      BY <1>1, <1>4, <1>5, <3>1, <3>2, <3>4 DEF Saves!Saving
    <3>5. CASE t = s /\ q = p /\ v5[s][p] = Saves!Untouched
      BY <1>2, <1>4, <1>5, <1>7, <3>1, <3>2, <3>5 DEF Saves!Saving
    <3>6. CASE t = s /\ q = p /\ v5[s][p] # Saves!Untouched
      <4>1. ~Saves!Saving(s, p)
        BY <1>1 DEF Saves!Saving
      <4> QED
        BY <1>1, <1>2, <1>5, <3>1, <3>2, <3>6, <4>1
    <3> QED
      BY <3>3, <3>4, <3>5, <3>6
  <2> QED
    BY <2>1 DEF Saves!OldestIsBefore
<1>9. \A t \in Savers, q \in SavedPaths : v5'[t][q] = v5[t][q] \/ v1'[q] = v5'[t][q]
  BY <1>1, <1>3, <1>5
<1>10. Saves!UnsavedIsThere'
  BY <1>1, <1>9, UnsavedStays DEF Saves!OfSession, Saves!Copies
<1>11. Saves!PutBackInOrder'
  BY <1>1, <1>9, RestorationStays DEF Saves!OfSession, Saves!Copies
<1> QED
  BY <1>6, <1>8, <1>10, <1>11

LEMMA RecordKeepsSaves ==
    ASSUME Saves!SaveInv, NEW s \in Savers, Saves!RecordCheckpoint(s)
    PROVE  Saves!SaveInv'
<1> USE DEF Saves!SaveInv
<1>p. PICK p : p = v3[s].path
  OBVIOUS
<1> DEFINE e == [session |-> s, path |-> p, held |-> v3[s].saw]
           n == Len(v2) + 1
<1>1. /\ v3[s].at = "saved" /\ v1' = v1 /\ v4' = v4 /\ v5' = v5 /\ v6' = v6 /\ v7' = v7 /\ v8' = v8
      /\ v2' = Append(v2, e) /\ v3' = [v3 EXCEPT ![s].at = "recorded"]
  BY <1>p DEF Saves!RecordCheckpoint, Saves!Goes
<1>2. p \in SavedPaths /\ v3[s] \in Saves!Tools /\ v3[s].saw \in Saves!Holds
  BY <1>p, <1>1, ToolIsAt
<1>3. \A t \in Savers : t # s => v3'[t] = v3[t]
  BY <1>1 DEF Saves!SaveTypes
<1>4. v3'[s] = [v3[s] EXCEPT !.at = "recorded"]
  BY <1>1 DEF Saves!SaveTypes
<1>5. [v3[s] EXCEPT !.at = "recorded"] \in Saves!Tools /\ v3'[s].at = "recorded"
  BY <1>2, <1>4, ToolRecords
<1>6. v2 \in Seq([session : Savers, path : SavedPaths, held : Saves!Holds])
  BY DEF Saves!SaveTypes
<1>7. /\ e \in [session : Savers, path : SavedPaths, held : Saves!Holds]
      /\ e.session = s /\ e.path = p /\ e.held = v3[s].saw
  BY <1>2
<1> HIDE DEF e
<1>8. /\ v2' \in Seq([session : Savers, path : SavedPaths, held : Saves!Holds])
      /\ Len(v2) \in Nat /\ DOMAIN v2' = DOMAIN v2 \cup {n} /\ DOMAIN v2 = 1 .. Len(v2)
      /\ v2'[n] = e /\ \A i \in DOMAIN v2 : v2'[i] = v2[i]
  BY <1>1, <1>6, <1>7
<1>9. Saves!SaveTypes'
  <2>1. v3' \in [Savers -> Saves!Tools \union {Saves!NoTool}]
    BY <1>1, <1>5 DEF Saves!SaveTypes
  <2>2. v4 \in [of : Savers \cup {"none"}, todo : SUBSET DOMAIN v2', ok : BOOLEAN]
    BY <1>8 DEF Saves!SaveTypes
  <2> QED
    BY <1>1, <1>8, <2>1, <2>2 DEF Saves!SaveTypes
<1>10. \A t \in Savers : t # s =>
          /\ Saves!OfSession(t)' = Saves!OfSession(t)
          /\ \A q \in SavedPaths : Saves!Copies(t, q)' = Saves!Copies(t, q)
  BY <1>7, <1>8 DEF Saves!OfSession, Saves!Copies
<1>11. \A q \in SavedPaths : Saves!Copies(s, q)' = IF q = p THEN Saves!Copies(s, q) \cup {n} ELSE Saves!Copies(s, q)
  BY <1>7, <1>8 DEF Saves!OfSession, Saves!Copies
<1>12. \A t \in Savers, q \in SavedPaths : Saves!Copies(t, q) \subseteq DOMAIN v2
  BY DEF Saves!OfSession, Saves!Copies
<1>13. Saves!Saving(s, p) /\ v5[s][p] # Saves!Untouched
  BY <1>p, <1>1, <1>2 DEF Saves!OldestIsBefore, Saves!Saving
<1>14. Saves!OldestIsBefore'
  <2>1. ASSUME NEW t \in Savers, NEW q \in SavedPaths
        PROVE  /\ v5'[t][q] = Saves!Untouched => Saves!Copies(t, q)' = {} /\ ~Saves!Saving(t, q)'
               /\ v5'[t][q] # Saves!Untouched /\ q \notin v7'[t] =>
                     \/ Saves!Copies(t, q)' = {} /\ Saves!Saving(t, q)' /\ v3'[t].saw = v5'[t][q]
                     \/ \E i \in Saves!Copies(t, q)' :
                           v2'[i].held = v5'[t][q] /\ \A j \in Saves!Copies(t, q)' : i <= j
    <3>1. /\ v5[t][q] = Saves!Untouched => Saves!Copies(t, q) = {} /\ ~Saves!Saving(t, q)
          /\ v5[t][q] # Saves!Untouched /\ q \notin v7[t] =>
                \/ Saves!Copies(t, q) = {} /\ Saves!Saving(t, q) /\ v3[t].saw = v5[t][q]
                \/ \E i \in Saves!Copies(t, q) :
                      v2[i].held = v5[t][q] /\ \A j \in Saves!Copies(t, q) : i <= j
      BY DEF Saves!OldestIsBefore
    <3>2. CASE t # s
      <4>1. Saves!Copies(t, q)' = Saves!Copies(t, q) /\ (Saves!Saving(t, q)' <=> Saves!Saving(t, q))
        BY <1>3, <1>10, <3>2 DEF Saves!Saving
      <4> QED
        BY <1>1, <1>3, <1>8, <1>12, <3>1, <3>2, <4>1
    <3>3. CASE t = s /\ q # p
      <4>1. Saves!Copies(t, q)' = Saves!Copies(t, q) /\ ~Saves!Saving(t, q)' /\ ~Saves!Saving(t, q)
        BY <1>p, <1>5, <1>11, <3>3 DEF Saves!Saving
      <4> QED
        BY <1>1, <1>8, <1>12, <3>1, <4>1
    <3>4. CASE t = s /\ q = p
      <4>1. Saves!Copies(s, p)' = Saves!Copies(s, p) \cup {n}
        BY <1>2, <1>11
      <4>2. ASSUME p \notin v7[s]
            PROVE  \E i \in Saves!Copies(s, p)' :
                      v2'[i].held = v5[s][p] /\ \A j \in Saves!Copies(s, p)' : i <= j
        <5>1. CASE Saves!Copies(s, p) = {} /\ v3[s].saw = v5[s][p]
          BY <1>7, <1>8, <4>1, <5>1
        <5>2. CASE \E i \in Saves!Copies(s, p) :
                      v2[i].held = v5[s][p] /\ \A j \in Saves!Copies(s, p) : i <= j
          <6>1. PICK i \in Saves!Copies(s, p) :
                      v2[i].held = v5[s][p] /\ \A j \in Saves!Copies(s, p) : i <= j
            BY <5>2
          <6>2. i \in DOMAIN v2 /\ i <= n
            BY <1>2, <1>8, <1>12
          <6> QED
            BY <1>8, <4>1, <6>1, <6>2
        <5> QED
          BY <1>13, <3>1, <3>4, <4>2, <5>1, <5>2
      <4> QED
        BY <1>1, <1>13, <3>4, <4>2
    <3> QED
      BY <3>2, <3>3, <3>4
  <2> QED
    BY <2>1 DEF Saves!OldestIsBefore
<1>15. \A t \in Savers, q \in SavedPaths : Saves!Copies(t, q) \subseteq Saves!Copies(t, q)'
  BY <1>10, <1>11
<1>16. Saves!UnsavedIsThere'
  BY <1>1, <1>15, UnsavedStays
<1>17. Saves!PutBackInOrder'
  <2>1. \A t \in Savers : /\ Saves!OfSession(t) \subseteq Saves!OfSession(t)'
                          /\ Saves!OfSession(t)' \subseteq Saves!OfSession(t) \cup {n}
                          /\ Saves!OfSession(t) \subseteq 1 .. Len(v2)
    BY <1>7, <1>8 DEF Saves!OfSession
  <2>2. \A t \in Savers : \A i \in Saves!OfSession(t)' \ Saves!OfSession(t) :
           \A j \in Saves!OfSession(t) : j < i
    BY <1>8, <2>1
  <2> QED
    BY <1>1, <1>15, <2>1, <2>2, RestorationStays
<1> QED
  BY <1>9, <1>14, <1>16, <1>17

LEMMA FailureKeepsSaves ==
    ASSUME Saves!SaveInv, NEW s \in Savers, Saves!CheckpointFails(s)
    PROVE  Saves!SaveInv'
<1> USE DEF Saves!SaveInv
<1> DEFINE p == v3[s].path
<1>1. /\ v3[s].at = "saved" /\ v1' = v1 /\ v2' = v2 /\ v4' = v4 /\ v5' = v5 /\ v6' = v6 /\ v8' = v8
      /\ v7' = IF Saves!Copies(s, p) = {} THEN [v7 EXCEPT ![s] = @ \union {p}] ELSE v7
      /\ v3' = [v3 EXCEPT ![s].at = "recorded"]
  BY DEF Saves!CheckpointFails, Saves!Goes
<1>2. p \in SavedPaths /\ v3[s] \in Saves!Tools
  BY <1>1, ToolIsAt
<1>3. \A t \in Savers : t # s => v3'[t] = v3[t] /\ v7'[t] = v7[t]
  BY <1>1 DEF Saves!SaveTypes
<1>4. /\ v3'[s] = [v3[s] EXCEPT !.at = "recorded"]
      /\ v7[s] \subseteq v7'[s] /\ (p \in v7'[s] \/ Saves!Copies(s, p) # {})
  BY <1>1 DEF Saves!SaveTypes
<1>5. [v3[s] EXCEPT !.at = "recorded"] \in Saves!Tools /\ v3'[s].at = "recorded"
  BY <1>2, <1>4, ToolRecords
<1>6. Saves!SaveTypes'
  <2>1. v3' \in [Savers -> Saves!Tools \union {Saves!NoTool}] /\ v7' \in [Savers -> SUBSET SavedPaths]
    BY <1>1, <1>2, <1>5 DEF Saves!SaveTypes
  <2> QED
    BY <1>1, <2>1 DEF Saves!SaveTypes
<1>7. \A t \in Savers, q \in SavedPaths : Saves!Copies(t, q)' = Saves!Copies(t, q)
  BY <1>1 DEF Saves!OfSession, Saves!Copies
<1>8. Saves!OldestIsBefore'
  <2>2. \A t \in Savers, q \in SavedPaths :
            /\ Saves!Saving(t, q)' => Saves!Saving(t, q) /\ v3'[t] = v3[t]
            /\ Saves!Saving(t, q) => \/ Saves!Saving(t, q)' /\ v3'[t] = v3[t]
                                     \/ q \in v7'[t] \/ Saves!Copies(t, q) # {}
            /\ q \in v7[t] => q \in v7'[t]
    BY <1>3, <1>4, <1>5 DEF Saves!Saving
  <2> QED
    BY <1>1, <1>7, <2>2 DEF Saves!OldestIsBefore
<1>9. \A t \in Savers : v7[t] \subseteq v7'[t]
  BY <1>3, <1>4
<1>10. Saves!UnsavedIsThere'
  BY <1>1, <1>7, <1>9, UnsavedStays
<1>11. Saves!PutBackInOrder'
  BY <1>1, <1>7, <1>9, RestorationStays DEF Saves!OfSession
<1> QED
  BY <1>6, <1>8, <1>10, <1>11

LEMMA WriteKeepsSaves ==
    ASSUME Saves!SaveInv, NEW s \in Savers, Saves!ToolWrites(s)
    PROVE  Saves!SaveInv'
<1> USE DEF Saves!SaveInv
<1>p. PICK p \in SavedPaths : p = v3[s].path
  BY ToolIsAt DEF Saves!ToolWrites
<1>1. /\ v3[s].at = "recorded" /\ v2' = v2 /\ v4' = v4 /\ v5' = v5 /\ v7' = v7
      /\ v3' = [v3 EXCEPT ![s] = Saves!NoTool]
      /\ \/ v1' = v1 /\ v6' = v6 /\ v8' = v8
         \/ /\ v3[s].new # Saves!Written /\ Saves!Changes(s, p, v3[s].new)
            /\ v8' = IF v4.of = s THEN v8 \cup {p} ELSE v8
  BY <1>p DEF Saves!ToolWrites, Saves!SessionWrites, Saves!Stops
<1>3. /\ v1' \in [SavedPaths -> Saves!Holds] /\ v6' \in [Savers -> SUBSET SavedPaths]
      /\ \A t \in Savers :
            /\ v6[t] \subseteq v6'[t]
            /\ t # s => \A q \in SavedPaths : v5[t][q] = Saves!Untouched \/ q \in v6'[t] \/ v1'[q] = v1[q]
      /\ \A q \in SavedPaths : q # p => v1'[q] = v1[q]
      /\ v8 \subseteq v8' /\ v8' \subseteq SavedPaths
      /\ v4.of = s => p \in v8' \/ v1' = v1
  <2>1. CASE v1' = v1 /\ v6' = v6 /\ v8' = v8
    BY <2>1 DEF Saves!SaveTypes
  <2>2. CASE /\ v3[s].new # Saves!Written /\ Saves!Changes(s, p, v3[s].new)
             /\ v8' = IF v4.of = s THEN v8 \cup {p} ELSE v8
    <3>1. v3[s].new \in Saves!Holds
      BY <1>1, <2>2, ToolIsAt
    <3>2. /\ v1' \in [SavedPaths -> Saves!Holds] /\ v6' \in [Savers -> SUBSET SavedPaths]
          /\ v1' = [v1 EXCEPT ![p] = v3[s].new]
          /\ \A t \in Savers :
                /\ v6[t] \subseteq v6'[t]
                /\ t # s => \A q \in SavedPaths : v5[t][q] = Saves!Untouched \/ q \in v6'[t] \/ v1'[q] = v1[q]
      BY <2>2, <3>1, WhatChanges
    <3> QED
      BY <2>2, <3>2 DEF Saves!SaveTypes
  <2> QED
    BY <1>1, <2>1, <2>2
<1>4. \A t \in Savers : IF t = s THEN v3'[t].at = "idle" ELSE v3'[t] = v3[t]
  BY <1>1 DEF Saves!SaveTypes, Saves!NoTool
<1>5. Saves!SaveTypes'
  BY <1>1, <1>3 DEF Saves!SaveTypes
<1>6. Saves!OldestIsBefore'
  BY <1>1, <1>4, OldestStays
<1>7. \A t \in Savers, q \in SavedPaths :
          Saves!Copies(t, q)' = Saves!Copies(t, q) /\ Saves!OfSession(t)' = Saves!OfSession(t)
  BY <1>1 DEF Saves!Copies, Saves!OfSession
<1>8. Saves!UnsavedIsThere'
  <2>1. ASSUME NEW t \in Savers, NEW q \in SavedPaths
        PROVE  \/ v5'[t][q] = Saves!Untouched
               \/ q \in v6'[t] \/ q \in v7'[t] \/ Saves!Copies(t, q)' # {}
               \/ v5'[t][q] = v5[t][q] /\ v1'[q] = v1[q]
    <3>1. CASE t # s
      BY <1>1, <1>3, <3>1
    <3>2. CASE t = s /\ q # p
      BY <1>1, <1>3, <3>2
    <3>3. CASE t = s /\ q = p
      <4>1. ~Saves!Saving(s, p)
        BY <1>1 DEF Saves!Saving
      <4>2. v5[s][p] = Saves!Untouched \/ p \in v7[s] \/ Saves!Copies(s, p) # {}
        BY <4>1 DEF Saves!OldestIsBefore
      <4> QED
        BY <1>1, <1>7, <3>3, <4>2
    <3> QED
      BY <3>1, <3>2, <3>3
  <2> QED
    BY <1>1, <1>3, <1>7, <2>1, UnsavedStays
<1>9. Saves!PutBackInOrder'
  <2>1. ASSUME NEW t \in Savers, t = v4.of, NEW q \in SavedPaths
        PROVE  \/ v5'[t][q] = Saves!Untouched
               \/ q \in v6'[t] \/ q \in v7'[t] \/ q \in v8'
               \/ v5'[t][q] = v5[t][q] /\ v1'[q] = v1[q]
    BY <1>1, <1>3, <2>1
  <2> QED
    BY <1>1, <1>3, <1>7, <2>1, RestorationStays
<1> QED
  BY <1>5, <1>6, <1>8, <1>9

LEMMA ByIdKeepsSaves ==
    ASSUME Saves!SaveInv, NEW i \in 1 .. MaxSaves, Saves!RestoreById(i)
    PROVE  Saves!SaveInv'
<1> USE DEF Saves!SaveInv
<1>1. /\ v2' = v2 /\ v3' = v3 /\ v4' = v4 /\ v5' = v5 /\ v7' = v7 /\ v8' = v8 /\ i \in DOMAIN v2
      /\ Saves!Changes("none", v2[i].path, v2[i].held)
  BY DEF Saves!RestoreById
<1>2. v2[i].path \in SavedPaths /\ v2[i].held \in Saves!Holds
  <2>1. v2 \in Seq([session : Savers, path : SavedPaths, held : Saves!Holds])
    BY DEF Saves!SaveTypes
  <2>2. v2[i] \in [session : Savers, path : SavedPaths, held : Saves!Holds]
    BY <1>1, <2>1, ElementOfSeq, LenProperties
  <2> QED
    BY <2>2
<1>3. /\ v1' \in [SavedPaths -> Saves!Holds] /\ v6' \in [Savers -> SUBSET SavedPaths]
      /\ \A t \in Savers :
            /\ v6[t] \subseteq v6'[t]
            /\ \A q \in SavedPaths : v5[t][q] = Saves!Untouched \/ q \in v6'[t] \/ v1'[q] = v1[q]
  BY <1>1, <1>2, WhatChanges, SavesAssumption
<1>4. Saves!SaveTypes'
  BY <1>1, <1>3 DEF Saves!SaveTypes
<1>5. Saves!OldestIsBefore'
  BY <1>1, OldestStays
<1>6. Saves!PutBackInOrder'
  BY <1>1, <1>3, RestorationStays DEF Saves!Copies, Saves!OfSession
<1>7. Saves!UnsavedIsThere'
  BY <1>1, <1>3, UnsavedStays DEF Saves!Copies, Saves!OfSession
<1> QED
  BY <1>4, <1>5, <1>6, <1>7

LEMMA RestoreStartsInOrder ==
    ASSUME Saves!SaveInv, NEW s \in Savers, Saves!SessionRestore(s)
    PROVE  Saves!SaveInv'
<1> USE DEF Saves!SaveInv
<1>1. /\ v4' = [of |-> s, todo |-> Saves!OfSession(s), ok |-> TRUE]
      /\ v1' = v1 /\ v2' = v2 /\ v3' = v3 /\ v5' = v5 /\ v6' = v6 /\ v7' = v7 /\ v8' = v8
  BY DEF Saves!SessionRestore
<1>2. Saves!OfSession(s)' = Saves!OfSession(s) /\ Saves!OfSession(s) \subseteq DOMAIN v2
  BY <1>1 DEF Saves!OfSession
<1>3. Saves!SaveTypes'
  BY <1>1, <1>2 DEF Saves!SaveTypes
<1>4. Saves!OldestIsBefore'
  BY <1>1, OldestStays
<1>5. v4'.of = s /\ v4'.todo = Saves!OfSession(s)
  BY <1>1
<1>6. ASSUME NEW p \in SavedPaths \ Saves!Exempt(s)', v5[s][p] # Saves!Untouched
      PROVE  v1[p] = v5[s][p] \/ Saves!Copies(s, p)' \cap v4'.todo # {}
  <2>1. p \notin v6[s] /\ p \notin v7[s]
    BY <1>1 DEF Saves!Exempt
  <2>2. Saves!Copies(s, p) = {} => v1[p] = v5[s][p]
    BY <1>6, <2>1 DEF Saves!UnsavedIsThere
  <2>3. Saves!Copies(s, p)' = Saves!Copies(s, p) /\ Saves!Copies(s, p) \subseteq Saves!OfSession(s)
    BY <1>1 DEF Saves!Copies, Saves!OfSession
  <2> QED
    BY <1>5, <2>2, <2>3
<1>7. Saves!PutBackInOrder'
  BY <1>1, <1>2, <1>5, <1>6 DEF Saves!PutBackInOrder
<1>8. Saves!UnsavedIsThere'
  BY <1>1, UnsavedStays DEF Saves!Copies, Saves!OfSession
<1> QED
  BY <1>3, <1>4, <1>7, <1>8

LEMMA FailedRestoration ==
    ASSUME NEW A, NEW D, NEW v \in [of : A, todo : SUBSET D, ok : BOOLEAN], NEW rest \in SUBSET D
    PROVE  LET u == [v EXCEPT !.todo = rest, !.ok = FALSE]
           IN  /\ u \in [of : A, todo : SUBSET D, ok : BOOLEAN]
               /\ u.of = v.of /\ u.todo = rest /\ ~u.ok
OBVIOUS

(* One checkpoint put back: the newest that is left.                        *)
LEMMA RestoreOneInOrder ==
    ASSUME Saves!SaveInv, Saves!RestoreOne
    PROVE  Saves!SaveInv'
<1> USE DEF Saves!SaveInv
<1>1. PICK s \in Savers, n \in Nat, todo \in SUBSET Nat, p \in SavedPaths :
          s = v4.of /\ todo = v4.todo /\ n = Saves!Newest(todo) /\ p = v2[n].path
  <2>1. v4.of \in Savers /\ v4.todo # {} /\ v4.todo \in SUBSET (1 .. Len(v2)) /\ Len(v2) \in Nat
    <3>1. v2 \in Seq([session : Savers, path : SavedPaths, held : Saves!Holds]) /\ v4.todo \in SUBSET DOMAIN v2
      BY DEF Saves!SaveTypes
    <3> QED
      BY <3>1 DEF Saves!RestoreOne
  <2>2. Saves!Newest(v4.todo) \in v4.todo
    BY <2>1, NewestIsLast
  <2>3. v2[Saves!Newest(v4.todo)] \in [session : Savers, path : SavedPaths, held : Saves!Holds]
    <3>1. v2 \in Seq([session : Savers, path : SavedPaths, held : Saves!Holds])
      BY DEF Saves!SaveTypes
    <3>2. Saves!Newest(v4.todo) \in 1 .. Len(v2)
      BY <2>1, <2>2
    <3> QED
      BY <3>1, <3>2, ElementOfSeq
  <2>4. v2[Saves!Newest(v4.todo)].path \in SavedPaths
    BY <2>3
  <2> QED
    BY <2>1, <2>2, <2>4
<1>2. todo # {} /\ todo \in SUBSET (1 .. Len(v2)) /\ Len(v2) \in Nat /\ DOMAIN v2 = 1 .. Len(v2)
  <2>1. v2 \in Seq([session : Savers, path : SavedPaths, held : Saves!Holds]) /\ v4.todo \in SUBSET DOMAIN v2
    BY DEF Saves!SaveTypes
  <2> QED
    BY <1>1, <2>1 DEF Saves!RestoreOne
<1>3. n \in todo /\ \A j \in todo : j <= n
  BY <1>1, <1>2, NewestIsLast
<1>4. todo \subseteq Saves!OfSession(s)
  BY <1>1 DEF Saves!PutBackInOrder
<1>5. p \in SavedPaths /\ v2[n].held \in Saves!Holds /\ v2[n].session = s
  <2>1. v2 \in Seq([session : Savers, path : SavedPaths, held : Saves!Holds])
    BY DEF Saves!SaveTypes
  <2>2. v2[n] \in [session : Savers, path : SavedPaths, held : Saves!Holds]
    BY <1>2, <1>3, <2>1, ElementOfSeq
  <2> QED
    BY <1>1, <1>3, <1>4, <2>2 DEF Saves!OfSession
<1>6. v2' = v2 /\ v3' = v3 /\ v5' = v5 /\ v7' = v7 /\ v8' = v8
  BY DEF Saves!RestoreOne
<1>7. v4 \in [of : Savers \union {"none"}, todo : SUBSET DOMAIN v2, ok : BOOLEAN]
  BY DEF Saves!SaveTypes
<1>8. \/ Saves!Changes(s, p, v2[n].held) /\ v4' = [v4 EXCEPT !.todo = todo \ {n}]
      \/ /\ v1' = v1 /\ v6' = v6
         /\ v4' = [v4 EXCEPT !.todo = todo \ {n}, !.ok = FALSE] \/ v4' = [v4 EXCEPT !.todo = {}, !.ok = FALSE]
  BY <1>1, <1>5 DEF Saves!RestoreOne
<1>9. Saves!OldestIsBefore'
  BY <1>6, OldestStays
<1>10. \A q \in SavedPaths : Saves!Copies(s, q)' = Saves!Copies(s, q)
  BY <1>6 DEF Saves!Copies, Saves!OfSession
<1>11. Saves!OfSession(s)' = Saves!OfSession(s)
  BY <1>6 DEF Saves!OfSession
<1>12. CASE /\ v1' = v1 /\ v6' = v6
            /\ v4' = [v4 EXCEPT !.todo = todo \ {n}, !.ok = FALSE] \/ v4' = [v4 EXCEPT !.todo = {}, !.ok = FALSE]
  <2>1. /\ v4' \in [of : Savers \union {"none"}, todo : SUBSET DOMAIN v2, ok : BOOLEAN]
        /\ v4'.of = s /\ v4'.todo \subseteq todo /\ ~v4'.ok
    <3>1. PICK rest \in {todo \ {n}, {}} : v4' = [v4 EXCEPT !.todo = rest, !.ok = FALSE]
      BY <1>12
    <3>2. rest \in SUBSET DOMAIN v2 /\ rest \subseteq todo
      BY <1>2, <3>1
    <3> DEFINE u == [v4 EXCEPT !.todo = rest, !.ok = FALSE]
    <3>3. /\ u \in [of : Savers \union {"none"}, todo : SUBSET DOMAIN v2, ok : BOOLEAN]
          /\ u.of = v4.of /\ u.todo = rest /\ ~u.ok
      BY <1>7, <3>2, FailedRestoration
    <3> HIDE DEF u
    <3>4. v4' = u
      BY <3>1 DEF u
    <3> QED
      BY <1>1, <3>2, <3>3, <3>4
  <2>2. Saves!SaveTypes'
    BY <1>6, <1>12, <2>1 DEF Saves!SaveTypes
  <2>3. Saves!PutBackInOrder'
    BY <1>4, <1>6, <1>11, <2>1 DEF Saves!PutBackInOrder
  <2>4. Saves!UnsavedIsThere'
    BY <1>6, <1>12, UnsavedStays DEF Saves!Copies, Saves!OfSession
  <2> QED
    BY <1>9, <2>2, <2>3, <2>4
<1>13. CASE Saves!Changes(s, p, v2[n].held) /\ v4' = [v4 EXCEPT !.todo = todo \ {n}]
  <2>1. /\ v4' \in [of : Savers \union {"none"}, todo : SUBSET DOMAIN v2, ok : BOOLEAN]
        /\ v4'.of = s /\ v4'.todo = todo \ {n} /\ v4'.ok = v4.ok
    BY <1>1, <1>2, <1>7, <1>13
  <2>2. /\ v1' \in [SavedPaths -> Saves!Holds] /\ v6' \in [Savers -> SUBSET SavedPaths]
        /\ v1' = [v1 EXCEPT ![p] = v2[n].held] /\ v6'[s] = v6[s]
        /\ \A t \in Savers :
              /\ v6[t] \subseteq v6'[t]
              /\ t # s => \A q \in SavedPaths : v5[t][q] = Saves!Untouched \/ q \in v6'[t] \/ v1'[q] = v1[q]
    BY <1>5, <1>13, WhatChanges
  <2>3. Saves!SaveTypes'
    BY <1>6, <2>1, <2>2 DEF Saves!SaveTypes
  <2>4. ASSUME v4'.ok
        PROVE  /\ \A i \in Saves!OfSession(s)' \ v4'.todo : \A j \in v4'.todo : j < i
               /\ \A q \in SavedPaths \ Saves!Exempt(s)' :
                      \/ v5'[s][q] = Saves!Untouched \/ v1'[q] = v5'[s][q]
                      \/ Saves!Copies(s, q)' \cap v4'.todo # {}
    <3>0. Saves!Exempt(s)' = Saves!Exempt(s) /\ v7[s] \subseteq Saves!Exempt(s)
      BY <1>6, <2>2 DEF Saves!Exempt
    <3>1. /\ \A i \in Saves!OfSession(s) \ todo : \A j \in todo : j < i
          /\ \A q \in SavedPaths \ Saves!Exempt(s) :
                 \/ v5[s][q] = Saves!Untouched \/ v1[q] = v5[s][q]
                 \/ Saves!Copies(s, q) \cap todo # {}
      BY <1>1, <2>1, <2>4 DEF Saves!PutBackInOrder
    <3>2. \A i \in Saves!OfSession(s) \ (todo \ {n}) : \A j \in todo \ {n} : j < i
      <4>1. \A j \in todo \ {n} : j < n
        BY <1>2, <1>3
      <4> QED
        BY <3>1, <4>1
    <3>3. ASSUME NEW q \in SavedPaths \ Saves!Exempt(s), v5[s][q] # Saves!Untouched, v1'[q] # v5[s][q]
          PROVE  Saves!Copies(s, q) \cap (todo \ {n}) # {}
      <4>1. CASE q # p
        <5>1. v1'[q] = v1[q]
          BY <2>2, <4>1 DEF Saves!SaveTypes
        <5>2. PICK i \in Saves!Copies(s, q) : i \in todo
          BY <3>1, <3>3, <5>1
        <5>3. i # n
          BY <1>1, <4>1 DEF Saves!Copies
        <5> QED
          BY <5>2, <5>3
      <4>2. CASE q = p
        <5>1. n \in Saves!Copies(s, p)
          BY <1>1, <1>3, <1>4 DEF Saves!Copies
        <5>2. PICK i \in Saves!Copies(s, p) : v2[i].held = v5[s][p] /\ \A j \in Saves!Copies(s, p) : i <= j
          BY <3>0, <3>3, <4>2, <5>1 DEF Saves!OldestIsBefore
        <5>3. v1'[p] = v2[n].held
          BY <1>5, <2>2 DEF Saves!SaveTypes
        <5>4. i # n
          BY <3>3, <4>2, <5>2, <5>3
        <5>5. n \in Saves!Copies(s, p) /\ i \in Saves!OfSession(s) /\ i \in 1 .. Len(v2)
          BY <1>1, <1>2, <1>3, <1>4, <5>2 DEF Saves!Copies, Saves!OfSession
        <5>6. i <= n
          BY <5>2, <5>5
        <5>7. i \in todo
          <6>1. SUFFICES ASSUME i \notin todo PROVE FALSE
            OBVIOUS
          <6>2. n < i
            BY <1>3, <3>1, <5>5, <6>1
          <6> QED
            BY <5>5, <5>6, <6>2
        <5> QED
          BY <4>2, <5>2, <5>4, <5>7
      <4> QED
        BY <4>1, <4>2
    <3>4. \A i \in Saves!OfSession(s)' \ v4'.todo : \A j \in v4'.todo : j < i
      BY <1>11, <2>1, <3>2
    <3>5. ASSUME NEW q \in SavedPaths \ Saves!Exempt(s)'
          PROVE  \/ v5'[s][q] = Saves!Untouched \/ v1'[q] = v5'[s][q]
                 \/ Saves!Copies(s, q)' \cap v4'.todo # {}
      <4>1. q \in SavedPaths \ Saves!Exempt(s) /\ v5' = v5
        BY <1>6, <3>0
      <4>2. Saves!Copies(s, q)' \cap v4'.todo = Saves!Copies(s, q) \cap (todo \ {n})
        BY <1>10, <2>1
      <4> QED
        BY <3>3, <4>1, <4>2
    <3> QED
      BY <3>4, <3>5
  <2>5. Saves!PutBackInOrder'
    BY <1>4, <1>6, <1>11, <2>1, <2>4 DEF Saves!PutBackInOrder
  <2>6. Saves!UnsavedIsThere'
    <3>1. \A t \in Savers, q \in SavedPaths : Saves!Copies(t, q)' = Saves!Copies(t, q)
      BY <1>6 DEF Saves!Copies, Saves!OfSession
    <3>2. n \in Saves!Copies(s, p)
      BY <1>1, <1>3, <1>4 DEF Saves!Copies
    <3>3. \A q \in SavedPaths : q # p => v1'[q] = v1[q]
      BY <2>2 DEF Saves!SaveTypes
    <3>4. \A q \in SavedPaths : Saves!Copies(s, q)' # {} \/ v1'[q] = v1[q]
      BY <3>1, <3>2, <3>3
    <3> QED
      BY <1>6, <2>2, <3>1, <3>4, UnsavedStays
  <2> QED
    BY <1>9, <2>3, <2>5, <2>6
<1> QED
  BY <1>8, <1>12, <1>13

LEMMA SaveIsKept == Saves!SaveInv /\ [Saves!Next]_(Saves!ckVars) => Saves!SaveInv'
<1> SUFFICES ASSUME Saves!SaveInv, [Saves!Next]_(Saves!ckVars) PROVE Saves!SaveInv'
  OBVIOUS
<1>1. CASE UNCHANGED Saves!ckVars
  BY <1>1 DEF Saves!ckVars, Saves!SaveInv, Saves!SaveTypes, Saves!OldestIsBefore, Saves!PutBackInOrder,
              Saves!UnsavedIsThere, Saves!Exempt, Saves!Copies, Saves!OfSession, Saves!Saving
<1>2. CASE Saves!RestoreEnds
  <2>1. /\ v4' = Saves!NoRestore /\ v1' = v1 /\ v2' = v2 /\ v3' = v3 /\ v5' = v5 /\ v6' = v6 /\ v7' = v7
        /\ v8' = {}
    BY <1>2 DEF Saves!RestoreEnds
  <2>2. Saves!SaveTypes'
    BY <2>1 DEF Saves!SaveInv, Saves!SaveTypes, Saves!NoRestore
  <2>3. Saves!OldestIsBefore'
    BY <2>1, OldestStays DEF Saves!SaveInv
  <2>4. Saves!PutBackInOrder'
    BY <2>1, SavesAssumption DEF Saves!PutBackInOrder, Saves!NoRestore
  <2>5. Saves!UnsavedIsThere'
    BY <2>1, UnsavedStays DEF Saves!SaveInv, Saves!Copies, Saves!OfSession
  <2> QED
    BY <2>2, <2>3, <2>4, <2>5 DEF Saves!SaveInv
<1>3. CASE Saves!RestoreOne
  BY <1>3, RestoreOneInOrder
<1>4. CASE \E i \in 1 .. MaxSaves : Saves!RestoreById(i)
  BY <1>4, ByIdKeepsSaves
<1>5. ASSUME NEW s \in Savers,
             \/ \E p \in SavedPaths, h \in Saves!Holds : Saves!ToolReads(s, p, h)
             \/ \E p \in SavedPaths, h \in Saves!Holds : Saves!WritesFirst(s, p, h)
             \/ Saves!Snapshot(s) \/ Saves!RecordCheckpoint(s) \/ Saves!CheckpointFails(s) \/ Saves!ToolWrites(s)
             \/ Saves!SessionRestore(s)
      PROVE  Saves!SaveInv'
  BY <1>5, ToolReadsKeepsSaves, WritesFirstKeepsSaves, SnapshotKeepsSaves, RecordKeepsSaves, FailureKeepsSaves, WriteKeepsSaves,
     RestoreStartsInOrder
<1> QED
  BY <1>1, <1>2, <1>3, <1>4, <1>5 DEF Saves!Next, Saves!Done

LEMMA SaveShows == Saves!SaveInv => Saves!Restored
<1> SUFFICES ASSUME Saves!SaveInv, v4.of \in Savers, v4.todo = {}, v4.ok,
                    NEW p \in SavedPaths \ Saves!Exempt(v4.of), v5[v4.of][p] # Saves!Untouched
             PROVE  v1[p] = v5[v4.of][p]
  BY DEF Saves!Restored, Saves!PutBack
<1> QED
  BY DEF Saves!SaveInv, Saves!PutBackInOrder

(* For any sessions, paths and number of checkpoints, while other sessions, *)
(* the session's own tools, whatever they snapshot first, and restorations  *)
(* of single checkpoints go on: a restoration that says it succeeded has    *)
(* put back what the session's tools changed after a snapshot, nobody else  *)
(* changed and no tool of the session wrote meanwhile                       *)
(* (checkpoint_session_restore).                                            *)
THEOREM SessionsArePutBack == Spec => []Restored
<1> DEFINE Inv == scene = "saves" => Saves!SaveInv
<1>1. Init => Inv
  BY SaveInitially DEF Init
<1>2. Inv /\ [Next]_vars => Inv'
  BY SceneStep, SaveIsKept
<1>3. Inv => Restored
  BY SaveShows DEF Restored
<1> QED
  BY <1>1, <1>2, <1>3, PTL DEF Spec

-----------------------------------------------------------------------------
(* The shelf (WorkbenchStore).  What is proved of a store in general, for   *)
(* callers that all lock, holds for the one of the scene.                   *)
Store == INSTANCE WorkbenchStore_proofs WITH
    Client <- {"p", "q"}, NoClient <- "none", Key <- {"k1"}, MaxItems <- 3,
    Kinds <- {"append", "update"}, StartStates <- {"absent", "corrupt"}, MaxStamp <- 2,
    file <- v1, aside <- v2, stamp <- v3, holder <- v4, pc <- v5, op <- v6, seen <- v7

LEMMA StoreOfTheShelf == Store!StoreAssumption /\ Store!AllLock
BY DEF Store!StoreAssumption, Store!AllLock

(* Definition for definition, the two are the same.                         *)
LEMMA ShelfInitially == Shelf!Init => Store!Init
BY Zenon DEF Shelf!Init, Store!Init, Shelf!NoFile, Store!NoFile, Shelf!NoOp, Store!NoOp

LEMMA SameCollection == Store!C!Next => Shelf!C!Next
BY Zenon DEF Store!C!Next, Shelf!C!Next, Store!C!Add, Shelf!C!Add, Store!C!Update, Shelf!C!Update,
             Store!C!NoId, Shelf!C!NoId

LEMMA SameCalls == Store!Op = Shelf!Op
BY Zenon DEF Store!Op, Shelf!Op

LEMMA SameEnd == \A c : Store!End(c) <=> Shelf!End(c)
BY Zenon DEF Store!End, Shelf!End, Store!Goto, Shelf!Goto, Store!NoOp, Shelf!NoOp

LEMMA SameRoom == Store!Room <=> Shelf!Room
BY Zenon DEF Store!Room, Shelf!Room, Store!Grows, Shelf!Grows, Store!Cardinality, Shelf!Cardinality

LEMMA SameChange == \A c : \A o : Store!Changed(c, o) = Shelf!Changed(c, o)
BY Zenon DEF Store!Changed, Shelf!Changed, Shelf!Appended, Store!Appended, Shelf!Updated, Store!Updated,
             Shelf!Upserted, Store!Upserted, Store!SetFirst, Shelf!SetFirst, Store!NextId, Shelf!NextId,
             Store!Ids, Shelf!Ids, Store!Max, Shelf!Max, Store!C!NoId, Shelf!C!NoId

(* Every step of a call is the same.                                        *)
LEMMA SameSteps == \A c : Store!Step(c) <=> Shelf!Step(c)
<1> USE DEF Store!Goto, Shelf!Goto, Store!NoFile, Shelf!NoFile, Store!Whole, Shelf!Whole
<1>1. \A c : Store!Acquire(c) <=> Shelf!Acquire(c)
  BY Zenon DEF Store!Acquire, Shelf!Acquire
<1>2. \A c : Store!LockTimeout(c) <=> Shelf!LockTimeout(c)
  BY SameEnd, Zenon DEF Store!LockTimeout, Shelf!LockTimeout
<1>3. \A c : Store!LoadMissing(c) <=> Shelf!LoadMissing(c)
  BY SameEnd, Zenon DEF Store!LoadMissing, Shelf!LoadMissing
<1>4. \A c : Store!WriteFails(c) <=> Shelf!WriteFails(c)
  BY SameEnd, Zenon DEF Store!WriteFails, Shelf!WriteFails
<1>5. \A c : Store!Finish(c) <=> Shelf!Finish(c)
  BY SameEnd, Zenon DEF Store!Finish, Shelf!Finish
<1>6. \A c, items : Store!Return(c, items) <=> Shelf!Return(c, items)
  BY SameEnd, Zenon DEF Store!Return, Shelf!Return
<1>7. \A c : Store!ReadDefault(c) <=> Shelf!ReadDefault(c)
  BY <1>6, Zenon DEF Store!ReadDefault, Shelf!ReadDefault
<1>8. \A c : Store!Load(c) <=> Shelf!Load(c)
  BY <1>6, Zenon DEF Store!Load, Shelf!Load
<1>9. \A c : Store!SeesFile(c) <=> Shelf!SeesFile(c)
  BY Zenon DEF Store!SeesFile, Shelf!SeesFile
<1>10. \A c : Store!LoadCorrupt(c) <=> Shelf!LoadCorrupt(c)
  BY Zenon DEF Store!LoadCorrupt, Shelf!LoadCorrupt
<1>11. \A c : Store!Quarantine(c) <=> Shelf!Quarantine(c)
  BY <1>6, Zenon DEF Store!Quarantine, Shelf!Quarantine
<1>12. \A c : Store!Replace(c) <=> Shelf!Replace(c)
  BY SameChange, Zenon DEF Store!Replace, Shelf!Replace
<1> QED
  BY <1>1, <1>2, <1>7, <1>8, <1>11, <1>12, <1>3, <1>4, <1>5, <1>9, <1>10 DEF Store!Step, Shelf!Step

(* So a step of the shelf is one of the store.                              *)
LEMMA ShelfIsAStore == [Shelf!Next]_(Shelf!storeVars) => [Store!Next]_(Store!storeVars)
<1>1. \A c, o : Store!Call(c, o) <=> Shelf!Call(c, o)
  BY SameRoom, Zenon DEF Store!Call, Shelf!Call, Store!Grows, Shelf!Grows, Store!Locks, Shelf!Locks, Store!Goto, Shelf!Goto
<1>2. \A c : Store!Crash(c) <=> Shelf!Crash(c)
  BY SameEnd, Zenon DEF Store!Crash, Shelf!Crash
<1>3. Store!Tick <=> Shelf!Tick
  BY Zenon DEF Store!Tick, Shelf!Tick
<1>4. Store!Next <=> Shelf!Next
  BY <1>1, <1>2, <1>3, SameCalls, SameSteps, Zenon DEF Store!Next, Shelf!Next
<1> QED
  BY <1>4, Zenon DEF Store!storeVars, Shelf!storeVars

(* Append and update_item calls that overlap, fail or crash change the      *)
(* collection each by its own operation, in one step.                       *)
THEOREM LockedCallsStayAtomic == Spec => LockedCallsAreAtomic
<1> DEFINE Inv == scene = "shelf" => Store!StoreInv
<1> DEFINE Step == scene = "shelf" => Shelf!LockedCallsAreAtomic
<1>1. Init => Inv
  BY ShelfInitially, Store!StoreInvInitially, StoreOfTheShelf DEF Init
<1>2. ASSUME Inv, [Next]_vars PROVE Inv' /\ Step
  <2>1. CASE scene = "shelf"
    <3>1. [Store!Next]_(Store!storeVars) /\ scene' = scene
      BY <1>2, <2>1, SceneStep, ShelfIsAStore
    <3>2. Store!StoreInv' /\ (Store!C!Next \/ v1'.items = v1.items)
      BY <1>2, <2>1, <3>1, StoreOfTheShelf, Store!StoreStep
    <3> QED
      BY <2>1, <3>1, <3>2, SameCollection DEF Shelf!LockedCallsAreAtomic
  <2> QED
    BY <1>2, <2>1, SceneStep
<1>3. Inv /\ [Next]_vars => Inv' /\ [Step]_vars
  BY <1>2
<1> QED
  BY <1>1, <1>3, PTL DEF Spec, LockedCallsAreAtomic

=============================================================================
