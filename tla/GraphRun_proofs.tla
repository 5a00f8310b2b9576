----------------------------- MODULE GraphRun_proofs -----------------------------
(****************************************************************************)
(* The graph executor for every set of nodes and every document: its types, *)
(* the limits of a round, the agreement of the task ledger with what the    *)
(* coroutines do, the refinement of GraphPromise, and the compensation of   *)
(* runs that fail.                                                          *)
(****************************************************************************)
EXTENDS GraphRun, SequenceTheorems, FiniteSetTheorems, TLAPS

(* What a document gives to the actions.                                    *)
LEMMA DocumentFacts ==
    ASSUME doc \in Documents
    PROVE  /\ doc.edges \subseteq Edge /\ doc.order \in Orders
           /\ doc.group \in [ Node -> Node \cup { NoGroup } ]
           /\ doc.fallback \in [ Node -> Seq(FallbackStep) ]
           /\ doc.exhausted \in [ Node -> { "fail", "skip", "succeed_degraded", "escalate" } ]
           /\ doc.compensation \in [ Node -> Node \cup { NoNode } ]
           /\ doc.attempts \in [ Node -> Nat \ {0} ]
           /\ doc.parallel \in Nat \ {0} /\ doc.budget \in Nat /\ doc.halt \in BOOLEAN
           /\ doc.join \in [ Node -> Nat ] /\ doc.reused \subseteq Node
           /\ doc.entry \subseteq Node
BY RunAssumption DEF RunAssumption, Document

(* The stack of a coroutine that runs.                                      *)
LEMMA RunningStack ==
    ASSUME stack \in [ Coroutine -> Seq(Frame) ], NEW k \in Coroutine, Running(k)
    PROVE  /\ stack[k] \in Seq(Frame) /\ stack[k] # <<>>
           /\ Frm(k) \in Frame /\ NodeOf(k) \in Node /\ Frm(k).id \in FullId
           /\ Tail(stack[k]) \in Seq(Frame) /\ Len(stack[k]) \in Nat \ {0}
<1>1. stack[k] \in Seq(Frame) /\ stack[k] # <<>>
  BY DEF Running
<1>2. Frm(k) \in Frame /\ Tail(stack[k]) \in Seq(Frame) /\ Len(stack[k]) \in Nat \ {0}
  BY <1>1 DEF Frm
<1>3. Frm(k).id \in FullId
  BY <1>2 DEF Frame
<1> QED
  BY <1>1, <1>2, <1>3 DEF NodeOf, FullId

LEMMA DropLastType ==
    ASSUME NEW s \in Seq(Node), NEW n \in Nat
    PROVE  DropLast(s, n) \in Seq(Node)
BY DEF DropLast

LEMMA GotoType ==
    ASSUME stack \in [ Coroutine -> Seq(Frame) ], NEW k \in Coroutine, Running(k),
           NEW f \in Frame, Goto(k, f)
    PROVE  stack' \in [ Coroutine -> Seq(Frame) ]
<1>1. << f >> \o Tail(stack[k]) \in Seq(Frame)
  BY RunningStack
<1> QED
  BY <1>1 DEF Goto

LEMMA UnwindType ==
    ASSUME TypeOK, NEW k \in Coroutine, Running(k), Unwind(k)
    PROVE  /\ stack' \in [ Coroutine -> Seq(Frame) ]
           /\ chain' \in Seq(Node)
           /\ result' \in [ Node -> NodeOutcome \cup { "none", "raised" } ]
<1>1. Len(stack[k]) - 1 \in Nat /\ <<>> \in Seq(Frame)
  BY RunningStack DEF TypeOK
<1>2. chain' \in Seq(Node)
  BY <1>1, DropLastType DEF TypeOK, Unwind
<1>3. stack' \in [ Coroutine -> Seq(Frame) ]
  BY <1>1 DEF TypeOK, Unwind
<1>4. result' \in [ Node -> NodeOutcome \cup { "none", "raised" } ]
  BY DEF TypeOK, Unwind
<1> QED
  BY <1>2, <1>3, <1>4

(* Frames that go on.                                                       *)
LEMMA NextStepType ==
    ASSUME NEW f \in Frame
    PROVE  LET g == [ f EXCEPT !.pc = "fallback", !.at = @ + 1 ] IN g \in Frame /\ g.id = f.id
<1> DEFINE g == [ f EXCEPT !.pc = "fallback" ]
           h == [ g EXCEPT !.at = @ + 1 ]
<1>1. g \in Frame /\ g.id = f.id
  BY DEF Frame
<1>2. h \in Frame /\ h.id = g.id
  <2> HIDE DEF g
  <2> QED
    BY <1>1 DEF Frame
<1>3. [ f EXCEPT !.pc = "fallback", !.at = @ + 1 ] = h
  OBVIOUS
<1> HIDE DEF h
<1> QED
  BY <1>1, <1>2, <1>3

LEMMA RetryType ==
    ASSUME NEW f \in Frame
    PROVE  LET g == [ f EXCEPT !.pc = "attempt", !.attempt = @ + 1 ] IN g \in Frame /\ g.id = f.id
<1> DEFINE g == [ f EXCEPT !.pc = "attempt" ]
           h == [ g EXCEPT !.attempt = @ + 1 ]
<1>1. g \in Frame /\ g.id = f.id
  BY DEF Frame
<1>2. h \in Frame /\ h.id = g.id
  <2> HIDE DEF g
  <2> QED
    BY <1>1 DEF Frame
<1>3. [ f EXCEPT !.pc = "attempt", !.attempt = @ + 1 ] = h
  OBVIOUS
<1> HIDE DEF h
<1> QED
  BY <1>1, <1>2, <1>3

LEMMA SettledType ==
    ASSUME NEW f \in Frame, NEW s \in NodeOutcome
    PROVE  LET g == [ f EXCEPT !.pc = "finish", !.final = s ] IN g \in Frame /\ g.id = f.id
BY DEF Frame

LEMMA MovedType ==
    ASSUME NEW f \in Frame, NEW p \in { "enter", "attempt", "body", "fallback", "alternate", "finish" }
    PROVE  LET g == [ f EXCEPT !.pc = p ] IN g \in Frame /\ g.id = f.id
BY DEF Frame

LEMMA ResumedType ==
    ASSUME NEW f \in Frame, NEW s \in NodeOutcome
    PROVE  Resumed(f, s) \in Frame /\ Resumed(f, s).id = f.id
<1>1. CASE s = "succeeded"
  BY <1>1, SettledType DEF Resumed
<1>2. CASE s # "succeeded"
  BY <1>2, NextStepType DEF Resumed
<1> QED
  BY <1>1, <1>2

LEMMA ReturnType ==
    ASSUME TypeOK, NEW k \in Coroutine, Running(k), NEW s \in NodeOutcome, Return(k, s)
    PROVE  /\ stack' \in [ Coroutine -> Seq(Frame) ]
           /\ chain' \in Seq(Node)
           /\ result' \in [ Node -> NodeOutcome \cup { "none", "raised" } ]
           /\ recorded' \subseteq FullId
<1> DEFINE below == Tail(stack[k])
<1>1. recorded' \subseteq FullId
  BY RunningStack DEF TypeOK, Return
<1>2. CASE below = <<>>
  <2>1. /\ stack' = [ stack EXCEPT ![k] = <<>> ] /\ chain' = chain
        /\ result' = IF k = Main THEN result ELSE [ result EXCEPT ![k] = s ]
    BY <1>2 DEF Return
  <2>2. <<>> \in Seq(Frame)
    OBVIOUS
  <2> QED
    BY <1>1, <2>1, <2>2 DEF TypeOK
<1>3. CASE below # <<>>
  <2>1. below \in Seq(Frame)
    BY RunningStack DEF TypeOK
  <2>2. Head(below) \in Frame /\ Tail(below) \in Seq(Frame)
    BY <1>3, <2>1
  <2>3. Resumed(Head(below), s) \in Frame
    BY <2>2, ResumedType
  <2>4. << Resumed(Head(below), s) >> \o Tail(below) \in Seq(Frame)
    BY <2>2, <2>3
  <2>5. /\ stack' = [ stack EXCEPT ![k] = << Resumed(Head(below), s) >> \o Tail(below) ]
        /\ chain' = DropLast(chain, 1) /\ result' = result
    BY <1>3 DEF Return
  <2>6. chain' \in Seq(Node)
    BY <2>5, DropLastType DEF TypeOK
  <2> QED
    BY <1>1, <2>4, <2>5, <2>6 DEF TypeOK
<1> QED
  BY <1>2, <1>3

LEMMA StartedType ==
    ASSUME NEW f \in Frame
    PROVE  LET g == [ f EXCEPT !.pc = "attempt", !.attempt = 1 ] IN g \in Frame /\ g.id = f.id
<1> DEFINE g == [ f EXCEPT !.pc = "attempt" ]
           h == [ g EXCEPT !.attempt = 1 ]
<1>1. g \in Frame /\ g.id = f.id
  BY DEF Frame
<1>2. h \in Frame /\ h.id = g.id
  <2> HIDE DEF g
  <2> QED
    BY <1>1 DEF Frame
<1>3. [ f EXCEPT !.pc = "attempt", !.attempt = 1 ] = h
  OBVIOUS
<1> HIDE DEF h
<1> QED
  BY <1>1, <1>2, <1>3

(* The frame that a body, or a step of the fallback, leaves.                *)
LEMMA BodyFrame ==
    ASSUME TypeOK, NEW k \in Coroutine, NEW o \in BodyOutcome, BodyEnds(k, o)
    PROVE  \E f \in Frame : Goto(k, f) /\ f.id = Frm(k).id
<1> DEFINE f == Frm(k)
<1>1. f \in Frame
  BY RunningStack DEF TypeOK, BodyEnds
<1>2. CASE Retries(f, o)
  <2>1. Goto(k, [ f EXCEPT !.pc = "attempt", !.attempt = @ + 1 ])
    BY <1>2 DEF BodyEnds
  <2> QED
    BY <1>1, <2>1, RetryType
<1>3. CASE ~Retries(f, o) /\ o \in NodeOutcome \ { "failed" }
  <2>1. Goto(k, [ f EXCEPT !.pc = "finish", !.final = o ])
    BY <1>3 DEF BodyEnds
  <2> QED
    BY <1>1, <1>3, <2>1, SettledType
<1>4. CASE ~Retries(f, o) /\ o \notin NodeOutcome \ { "failed" }
  <2>1. Goto(k, [ f EXCEPT !.pc = "fallback" ])
    BY <1>4 DEF BodyEnds
  <2> QED
    BY <1>1, <2>1, MovedType
<1> QED
  BY <1>2, <1>3, <1>4

LEMMA FallbackFrame ==
    ASSUME TypeOK, NEW k \in Coroutine,
           FallbackSkip(k) \/ FallbackAccepts(k) \/ FallbackTakeover(k) \/ RefuseCycle(k) \/ Exhausted(k)
    PROVE  \E f \in Frame : Goto(k, f) /\ f.id = Frm(k).id
<1>1. Frm(k) \in Frame /\ NodeOf(k) \in Node
  BY RunningStack DEF TypeOK, FallbackSkip, FallbackAccepts, FallbackTakeover, RefuseCycle, Exhausted, AtStep
<1>2. ASSUME NEW s \in NodeOutcome, Settle(k, s)
      PROVE  \E f \in Frame : Goto(k, f) /\ f.id = Frm(k).id
  BY <1>1, <1>2, SettledType DEF Settle
<1>3. ASSUME NextStep(k)
      PROVE  \E f \in Frame : Goto(k, f) /\ f.id = Frm(k).id
  <2>1. [ Frm(k) EXCEPT !.at = @ + 1 ] \in Frame /\ [ Frm(k) EXCEPT !.at = @ + 1 ].id = Frm(k).id
    BY <1>1 DEF Frame
  <2> QED
    BY <1>3, <2>1 DEF NextStep
<1>4. CASE Exhausted(k)
  <2>1. doc.exhausted[NodeOf(k)] \in { "fail", "skip", "succeed_degraded", "escalate" }
    BY <1>1, DocumentFacts DEF TypeOK
  <2>2. PICK s \in ExhaustedOutcome[doc.exhausted[NodeOf(k)]] : Settle(k, s)
    BY <1>4 DEF Exhausted
  <2>3. s \in NodeOutcome
    BY <2>1, <2>2 DEF ExhaustedOutcome, NodeOutcome
  <2> QED
    BY <1>2, <2>2, <2>3
<1>5. CASE FallbackSkip(k) \/ FallbackAccepts(k) \/ FallbackTakeover(k)
  BY <1>2, <1>3, <1>5 DEF FallbackSkip, FallbackAccepts, FallbackTakeover, NodeOutcome
<1>6. CASE RefuseCycle(k)
  BY <1>3, <1>6 DEF RefuseCycle
<1> QED
  BY <1>4, <1>5, <1>6

LEMMA AlternateType ==
    ASSUME TypeOK, NEW k \in Coroutine, AtStep(k, "alternate_node")
    PROVE  Alternate(k) \in Node
<1>1. NodeOf(k) \in Node /\ Frm(k).at \in Nat \ {0}
  BY RunningStack DEF TypeOK, AtStep, Frame
<1>2. Steps(k) \in Seq(FallbackStep)
  BY <1>1, DocumentFacts DEF TypeOK, Steps
<1>3. Frm(k).at <= Len(Steps(k)) /\ Steps(k)[Frm(k).at].strategy = "alternate_node"
  BY DEF AtStep
<1>4. Steps(k)[Frm(k).at] \in FallbackStep
  BY <1>1, <1>2, <1>3
<1>5. Steps(k)[Frm(k).at] \in [ strategy : { "alternate_node" }, node : Node ]
  BY <1>3, <1>4 DEF FallbackStep
<1> QED
  BY <1>5 DEF Alternate

LEMMA CallType ==
    ASSUME TypeOK, NEW k \in Coroutine, CallAlternate(k)
    PROVE  /\ stack' \in [ Coroutine -> Seq(Frame) ]
           /\ chain' \in Seq(Node)
<1>1. Running(k) /\ Alternate(k) \in Node
  BY AlternateType DEF CallAlternate, AtStep
<1>2. Enter("fallback", Alternate(k)) \in Frame
  BY <1>1 DEF Enter, Frame, FullId, Scope, NodeOutcome
<1>3. [ Frm(k) EXCEPT !.pc = "alternate" ] \in Frame
  BY <1>1, RunningStack, MovedType DEF TypeOK
<1>4. Tail(stack[k]) \in Seq(Frame)
  BY <1>1, RunningStack DEF TypeOK
<1>5. << Enter("fallback", Alternate(k)), [ Frm(k) EXCEPT !.pc = "alternate" ] >> \o Tail(stack[k]) \in Seq(Frame)
  BY <1>2, <1>3, <1>4
<1> QED
  BY <1>1, <1>5 DEF CallAlternate, TypeOK

-----------------------------------------------------------------------------
(* Types.                                                                   *)

LEMMA TypeInitially == Init => TypeOK
<1> SUFFICES ASSUME Init PROVE TypeOK
  OBVIOUS
<1>1. doc.reused \subseteq Node
  BY DocumentFacts DEF Init
<1>2. status \in [ Node -> NodeStatus ] /\ result \in [ Node -> NodeOutcome \cup { "none", "raised" } ]
  BY <1>1 DEF Init, NodeStatus
<1>3. stack \in [ Coroutine -> Seq(Frame) ] /\ chain \in Seq(Node) /\ completed \in Seq(Node) /\ undo \in Seq(Node)
  BY DEF Init
<1>4. task \in [ FullId -> TaskState \cup { Absent } ]
  BY DEF Init, TaskState
<1> QED
  BY <1>2, <1>3, <1>4 DEF Init, TypeOK, MainPc, RunOutcome, TaskState

LEMMA StepType ==
    ASSUME TypeOK, NEW k \in Coroutine, Step(k)
    PROVE  TypeOK'
<1> USE DEF scheduling
<1>1. CASE ControlStops(k)
  BY <1>1, UnwindType DEF ControlStops, TypeOK, MainPc, Ended
<1>2. CASE GuardFalse(k)
  <2>1. Running(k) /\ Return(k, "skipped") /\ task' = [ task EXCEPT ![Frm(k).id] = "skipped" ]
    BY <1>2 DEF GuardFalse, PassesControl
  <2>2. task' \in [ FullId -> TaskState \cup { Absent } ]
    BY <2>1 DEF TypeOK, TaskState
  <2> QED
    BY <1>2, <2>1, <2>2, ReturnType DEF GuardFalse, TypeOK, NodeOutcome
<1>3. CASE EntryRaises(k)
  BY <1>3, UnwindType DEF EntryRaises, PassesControl, Throw, TypeOK
<1>4. CASE Start(k)
  <2>1. Running(k) /\ task' = [ task EXCEPT ![Frm(k).id] = "running" ]
        /\ Goto(k, [ Frm(k) EXCEPT !.pc = "attempt", !.attempt = 1 ])
    BY <1>4 DEF Start, PassesControl
  <2>2. task' \in [ FullId -> TaskState \cup { Absent } ]
    BY <2>1 DEF TypeOK, TaskState
  <2>3. [ Frm(k) EXCEPT !.pc = "attempt", !.attempt = 1 ] \in Frame
    BY <2>1, RunningStack, StartedType DEF TypeOK
  <2>4. stack' \in [ Coroutine -> Seq(Frame) ]
    BY <2>1, <2>3, GotoType DEF TypeOK
  <2> QED
    BY <1>4, <2>2, <2>4 DEF Start, TypeOK
<1>5. CASE StartRefused(k)
  BY <1>5, UnwindType DEF StartRefused, PassesControl, Throw, TypeOK
<1>6. CASE BeginAttempt(k)
  <2>1. Running(k) /\ Goto(k, [ Frm(k) EXCEPT !.pc = "body" ]) /\ spent' = spent + 1
    BY <1>6 DEF BeginAttempt, PassesControl
  <2>2. stack' \in [ Coroutine -> Seq(Frame) ]
    BY <2>1, RunningStack, MovedType, GotoType DEF TypeOK
  <2>3. spent' \in Nat
    BY <2>1 DEF TypeOK
  <2> QED
    BY <1>6, <2>2, <2>3 DEF BeginAttempt, TypeOK
<1>7. ASSUME NEW o \in BodyOutcome, BodyEnds(k, o)
      PROVE  TypeOK'
  <2>1. PICK f \in Frame : Goto(k, f)
    BY <1>7, BodyFrame
  <2>2. stack' \in [ Coroutine -> Seq(Frame) ]
    BY <1>7, <2>1, GotoType DEF TypeOK, BodyEnds
  <2> QED
    BY <1>7, <2>2 DEF BodyEnds, TypeOK
<1>8. ASSUME inFallback' = inFallback, stack' \in [ Coroutine -> Seq(Frame) ], chain' \in Seq(Node)
      PROVE  TypeOK'
  BY <1>8 DEF inFallback, TypeOK
<1>9. CASE FallbackSkip(k) \/ FallbackAccepts(k) \/ FallbackTakeover(k) \/ RefuseCycle(k) \/ Exhausted(k)
  <2>1. PICK f \in Frame : Goto(k, f)
    BY <1>9, FallbackFrame
  <2>2. Running(k) /\ inFallback' = inFallback /\ chain' = chain
    BY <1>9 DEF FallbackSkip, FallbackAccepts, FallbackTakeover, RefuseCycle, Exhausted, AtStep
  <2>3. stack' \in [ Coroutine -> Seq(Frame) ]
    BY <2>1, <2>2, GotoType DEF TypeOK
  <2> QED
    BY <1>8, <2>2, <2>3 DEF TypeOK
<1>10. CASE CallAlternate(k)
  BY <1>8, <1>10, CallType DEF CallAlternate
<1>11. CASE Finish(k)
  <2>1. Running(k) /\ Return(k, Frm(k).final) /\ task' = [ task EXCEPT ![Frm(k).id] = Frm(k).final ]
        /\ completed' = IF Frm(k).final = "succeeded" THEN Append(completed, NodeOf(k)) ELSE completed
    BY <1>11 DEF Finish, NodeOf
  <2>2. Frm(k).final \in NodeOutcome /\ NodeOf(k) \in Node
    BY <2>1, RunningStack DEF TypeOK, Frame
  <2>3. task' \in [ FullId -> TaskState \cup { Absent } ]
    BY <2>1, <2>2 DEF TypeOK, TaskState, NodeOutcome
  <2>4. completed' \in Seq(Node)
    BY <2>1, <2>2 DEF TypeOK
  <2> QED
    BY <1>11, <2>1, <2>2, <2>3, <2>4, ReturnType DEF Finish, TypeOK
<1>12. CASE FinishRefused(k)
  BY <1>12, UnwindType DEF FinishRefused, Throw, TypeOK
<1> QED
  BY <1>1, <1>2, <1>3, <1>4, <1>5, <1>6, <1>7, <1>9, <1>10, <1>11, <1>12 DEF Step

LEMMA ReverseType ==
    ASSUME NEW s \in Seq(Node)
    PROVE  Reverse(s) \in Seq(Node)
BY DEF Reverse

LEMMA SkipsType ==
    ASSUME TypeOK
    PROVE  AfterSkips(doc, status) \in [ Node -> NodeStatus ]
BY DEF TypeOK, AfterSkips, NodeStatus

LEMMA DecideType ==
    ASSUME TypeOK, NEW st \in [ Node -> NodeStatus ], Decide(st)
    PROVE  /\ status' \in [ Node -> NodeStatus ]
           /\ task' \in [ FullId -> TaskState \cup { Absent } ]
           /\ recorded' \subseteq FullId
<1>1. NodeStatus \subseteq TaskState
  BY DEF NodeStatus, TaskState
<1>2. \A id \in FullId : id[2] \in Node
  BY DEF FullId
<1>3. \A n \in Node : Top(n) \in FullId
  BY DEF FullId, Scope, Top
<1> QED
  BY <1>1, <1>2, <1>3 DEF Decide, TypeOK

LEMMA LaunchType == TypeOK /\ Launch => TypeOK'
<1> SUFFICES ASSUME TypeOK, Launch PROVE TypeOK'
  OBVIOUS
<1>1. /\ status' \in [ Node -> NodeStatus ]
      /\ task' \in [ FullId -> TaskState \cup { Absent } ]
      /\ recorded' \subseteq FullId
  BY SkipsType, DecideType DEF Launch
<1>2. PICK S \in SUBSET Node : stack' = [ k \in Coroutine |-> IF k \in S THEN << Enter("graph", k) >> ELSE <<>> ]
  BY DEF Launch
<1>3. ASSUME NEW k \in S
      PROVE  << Enter("graph", k) >> \in Seq(Frame)
  BY <1>2, <1>3 DEF Enter, Frame, FullId, Scope, NodeOutcome
<1>4. stack' \in [ Coroutine -> Seq(Frame) ]
  BY <1>2, <1>3
<1> QED
  BY <1>1, <1>4 DEF Launch, TypeOK, MainPc

LEMMA BlockType == TypeOK /\ Block => TypeOK'
<1> SUFFICES ASSUME TypeOK, Block PROVE TypeOK'
  OBVIOUS
<1> DEFINE st == AfterSkips(doc, status)
           left == [ n \in Node |-> IF st[n] = "pending" THEN "blocked" ELSE st[n] ]
<1>1. left \in [ Node -> NodeStatus ]
  BY SkipsType DEF NodeStatus
<1>2. Decide(left)
  BY DEF Block
<1> HIDE DEF left
<1> QED
  BY <1>1, <1>2, DecideType DEF Block, idle, TypeOK, MainPc

LEMMA GatherType == TypeOK /\ GatherEnds => TypeOK'
<1> SUFFICES ASSUME TypeOK, GatherEnds PROVE TypeOK'
  OBVIOUS
<1> DEFINE st == [ n \in Node |-> Gathered(n) ]
           halts == doc.halt /\ \E n \in Node : st[n] = "failed"
           new == [ n \in Node |-> IF halts /\ st[n] = "pending" THEN "skipped" ELSE st[n] ]
<1>1. st \in [ Node -> NodeStatus ]
  BY DEF TypeOK, Gathered, NodeStatus, NodeOutcome
<1>2. new \in [ Node -> NodeStatus ]
  <2> HIDE DEF st
  <2> QED
    BY <1>1 DEF NodeStatus
<1>3. Decide(new)
  BY DEF GatherEnds
<1>4. main' \in MainPc /\ result' \in [ Node -> NodeOutcome \cup { "none", "raised" } ]
  BY DEF GatherEnds, MainPc
<1> HIDE DEF new
<1> QED
  BY <1>2, <1>3, <1>4, DecideType DEF GatherEnds, TypeOK

LEMMA CompensateType == TypeOK /\ Compensate => TypeOK'
<1> SUFFICES ASSUME TypeOK, Compensate PROVE TypeOK'
  OBVIOUS
<1>1. undo \in Seq(Node) /\ undo # <<>> /\ Head(undo) \in Node /\ Tail(undo) \in Seq(Node)
  BY DEF TypeOK, Compensate
<1>2. doc.compensation[Head(undo)] \in Node \cup { NoNode }
  BY <1>1, DocumentFacts DEF TypeOK
<1>3. CASE doc.compensation[Head(undo)] = NoNode
  BY <1>1, <1>3 DEF Compensate, TypeOK
<1>4. CASE doc.compensation[Head(undo)] # NoNode
  <2> DEFINE back == doc.compensation[Head(undo)]
  <2>1. << Enter("compensation", back) >> \in Seq(Frame)
    BY <1>2, <1>4 DEF Enter, Frame, FullId, Scope, NodeOutcome
  <2>2. stack' = [ stack EXCEPT ![Main] = << Enter("compensation", back) >> ]
    BY <1>4 DEF Compensate
  <2>3. stack' \in [ Coroutine -> Seq(Frame) ]
    <3> HIDE DEF back
    <3> QED
      BY <2>1, <2>2 DEF TypeOK
  <2> QED
    BY <1>1, <2>3 DEF Compensate, TypeOK
<1> QED
  BY <1>3, <1>4

LEMMA MainType ==
    ASSUME TypeOK, MainStep
    PROVE  TypeOK'
<1> USE DEF MainPc, Ended, RunOutcome
<1>1. CASE ScopeEnds \/ RoundCancelled \/ BudgetExceeded
  BY <1>1 DEF ScopeEnds, RoundCancelled, BudgetExceeded, idle, TypeOK
<1>2. CASE Launch
  BY <1>2, LaunchType
<1>3. CASE Block
  BY <1>3, BlockType
<1>4. CASE GatherEnds
  BY <1>4, GatherType
<1>5. CASE Conclude
  BY <1>5, ReverseType DEF Conclude, control, TypeOK
<1>6. CASE OutputsMissing
  BY <1>6 DEF OutputsMissing, control, TypeOK
<1>7. CASE Break
  BY <1>7, ReverseType DEF Break, control, TypeOK
<1>8. CASE Compensate
  BY <1>8, CompensateType
<1>9. CASE SettleRoot \/ SettleBroken \/ CancelRun \/ Persist
  BY <1>9 DEF SettleRoot, SettleBroken, CancelRun, Persist, control, TypeOK, TaskState
<1> QED
  BY <1>1, <1>2, <1>3, <1>4, <1>5, <1>6, <1>7, <1>8, <1>9 DEF MainStep

LEMMA TypeIsKept == TypeOK /\ [Next]_vars => TypeOK'
<1> SUFFICES ASSUME TypeOK, [Next]_vars PROVE TypeOK'
  OBVIOUS
<1>1. ASSUME NEW s \in UserMoves, UserControl(s)
      PROVE  TypeOK'
  BY <1>1, RunAssumption DEF RunAssumption, UserControl, control, TypeOK, TaskState
<1>2. CASE Interrupt
  <2>1. stack' \in [ Coroutine -> Seq(Frame) ] /\ chain' \in Seq(Node)
    BY <1>2 DEF Interrupt
  <2> QED
    BY <1>2, <2>1 DEF Interrupt, durable, TypeOK, MainPc, Ended
<1>3. CASE UNCHANGED vars
  BY <1>3 DEF vars, TypeOK
<1> QED
  BY <1>1, <1>2, <1>3, StepType, MainType DEF Next, Done

(* Whatever the document and the user do, the rows, the stacks of the       *)
(* coroutines and the scheduler's state are well formed.                    *)
THEOREM TypeCorrect == Spec => []TypeOK
BY TypeInitially, TypeIsKept, PTL DEF Spec

-----------------------------------------------------------------------------
(* The limits of a round.                                                   *)

(* The last of some nodes in the topological order has the others before it.*)
LEMMA LastOfNodes ==
    ASSUME NEW d, d.order \in Orders, NEW S \in SUBSET Node, S # {}
    PROVE  \E n \in S : S \ { n } \subseteq Earlier(d, n)
<1> DEFINE order == d.order
           T == { l \in Nat : \E j \in 1..Len(order) : j + l = Len(order) /\ order[j] \in S }
<1>1. order \in Seq(Node) /\ Len(order) \in Nat /\ DOMAIN order = 1..Len(order)
  BY DEF Orders
<1>2. \A n \in Node : \E i \in 1..Len(order) : order[i] = n
  BY <1>1 DEF Orders, Range
<1>3. T \subseteq Nat /\ T # {}
  <2>1. PICK n \in S : TRUE
    OBVIOUS
  <2>2. PICK i \in 1..Len(order) : order[i] = n
    BY <1>2
  <2>3. Len(order) - i \in T
    BY <1>1, <2>2
  <2> QED
    BY <2>3
<1>4. PICK l \in T : \A k \in T : ~ (<<k, l>> \in OpToRel(<, Nat))
  <2> HIDE DEF T
  <2> QED
    BY ONLY <1>3, NatLessThanWellFounded, WFMin
<1>5. \A k \in T : l <= k
  <2> SUFFICES ASSUME NEW k \in T PROVE l <= k
    OBVIOUS
  <2>1. k \in Nat /\ l \in Nat
    OBVIOUS
  <2>2. k < l => <<k, l>> \in OpToRel(<, Nat)
    BY <2>1, Zenon DEF OpToRel
  <2>3. ~ (k < l)
    BY <1>4, <2>2, Zenon
  <2> QED
    BY <2>1, <2>3
<1>6. PICK j \in 1..Len(order) : j + l = Len(order) /\ order[j] \in S
  OBVIOUS
<1>7. ASSUME NEW m \in S \ { order[j] }
      PROVE  m \in Earlier(d, order[j])
  <2>1. PICK i \in 1..Len(order) : order[i] = m
    BY <1>2
  <2>2. Len(order) - i \in T
    BY <1>1, <2>1
  <2>3. l <= Len(order) - i
    BY <1>5, <2>2
  <2>4. i \in 1..(j - 1)
    BY <1>1, <1>6, <2>1, <2>3
  <2> QED
    BY <1>1, <2>1, <2>4 DEF Earlier
<1> QED
  BY <1>6, <1>7

(* Of two nodes one is before the other.                                    *)
LEMMA OneIsEarlier ==
    ASSUME NEW d, d.order \in Orders, NEW m \in Node, NEW n \in Node, m # n
    PROVE  m \in Earlier(d, n) \/ n \in Earlier(d, m)
<1> DEFINE S == { m, n }
<1>1. S \in SUBSET Node /\ S # {}
  OBVIOUS
<1>2. \E x \in S : S \ { x } \subseteq Earlier(d, x)
  <2> HIDE DEF S
  <2> QED
    BY <1>1, LastOfNodes
<1> QED
  BY <1>2

(* What a round picks keeps the limits of the document.                     *)
LEMMA PicksAreLimited ==
    ASSUME doc \in Documents, NEW st, NEW S \in SUBSET Node, Picks(doc, st, S)
    PROVE  /\ Cardinality(S) =< doc.parallel
           /\ \A m, n \in S : m # n /\ doc.group[m] # NoGroup => doc.group[m] # doc.group[n]
           /\ \A n \in S : \A e \in doc.edges : e.to = n => st[e.from] \in Terminal
<1>1. S \subseteq Ready(doc, st)
  BY DEF Picks
<1>2. \A n \in S : Cardinality(S \cap Earlier(doc, n)) < doc.parallel
  BY DEF Picks
<1>3. \A n \in S : \A m \in S \cap Earlier(doc, n) : doc.group[n] # NoGroup => doc.group[m] # doc.group[n]
  BY DEF Picks
<1>4. doc.order \in Orders /\ doc.parallel \in Nat \ {0}
  BY DocumentFacts
<1>5. IsFiniteSet(S)
  BY RunAssumption, FS_Subset DEF RunAssumption
<1>6. Cardinality(S) =< doc.parallel
  <2>1. CASE S = {}
    BY <1>4, <2>1, FS_EmptySet
  <2>2. CASE S # {}
    <3>1. PICK n \in S : S \ { n } \subseteq Earlier(doc, n)
      BY <1>4, <2>2, LastOfNodes
    <3>2. S \ { n } \subseteq S \cap Earlier(doc, n) /\ IsFiniteSet(S \cap Earlier(doc, n)) /\ IsFiniteSet(S \ { n })
      BY <1>5, <3>1, FS_Subset
    <3>3. Cardinality(S \ { n }) =< Cardinality(S \cap Earlier(doc, n))
      BY <3>2, FS_Subset
    <3>4. Cardinality(S \ { n }) = Cardinality(S) - 1
      BY <1>5, FS_RemoveElement
    <3>5. /\ Cardinality(S) \in Nat /\ Cardinality(S \cap Earlier(doc, n)) \in Nat
          /\ Cardinality(S \ { n }) \in Nat
      BY <1>5, <3>2, FS_CardinalityType
    <3>6. Cardinality(S \cap Earlier(doc, n)) < doc.parallel
      BY <1>2
    <3> QED
      BY <1>4, <3>3, <3>4, <3>5, <3>6
  <2> QED
    BY <2>1, <2>2
<1>7. ASSUME NEW m \in S, NEW n \in S, m # n, doc.group[m] # NoGroup
      PROVE  doc.group[m] # doc.group[n]
  <2>1. m \in S \cap Earlier(doc, n) \/ n \in S \cap Earlier(doc, m)
    BY <1>4, <1>7, OneIsEarlier
  <2> QED
    BY <1>3, <1>7, <2>1
<1>8. ASSUME NEW n \in S, NEW e \in doc.edges, e.to = n
      PROVE  st[e.from] \in Terminal
  <2>1. Enabled(doc, st, n) /\ e \in Incoming(doc, n)
    BY <1>1, <1>8 DEF Ready, Incoming
  <2> QED
    BY <2>1 DEF Enabled, IsOpen
<1> QED
  BY <1>6, <1>7, <1>8

(* A step of a coroutine is its own: it touches no other stack, no status,  *)
(* and leaves run() where it is unless it is run() that is cancelled.       *)
LEMMA StepIsOwn ==
    ASSUME TypeOK, NEW k \in Coroutine, Step(k)
    PROVE  /\ Running(k)
           /\ \A c \in Coroutine \ { k } : stack'[c] = stack[c]
           /\ UNCHANGED <<doc, status, outcome, stored, root>>
           /\ main' = main \/ (k = Main /\ stack'[Main] = <<>> /\ main' \in { "cancelling", "escaped" })
<1> USE DEF scheduling
<1> DEFINE Own == \A c \in Coroutine \ { k } : stack'[c] = stack[c]
<1>1. \A f : Goto(k, f) => Own
  BY DEF Goto, TypeOK
<1>2. Unwind(k) => Own /\ stack'[k] = <<>>
  BY DEF Unwind, TypeOK
<1>3. \A s : Return(k, s) => Own
  BY DEF Return, TypeOK
<1>4. CASE ControlStops(k)
  BY <1>2, <1>4 DEF ControlStops
<1>5. CASE GuardFalse(k) \/ EntryRaises(k) \/ Start(k) \/ StartRefused(k) \/ BeginAttempt(k)
  BY <1>1, <1>2, <1>3, <1>5 DEF GuardFalse, EntryRaises, Start, StartRefused, BeginAttempt, PassesControl, Throw
<1>6. CASE \E o \in BodyOutcome : BodyEnds(k, o)
  BY <1>1, <1>6 DEF BodyEnds
<1>7. CASE FallbackSkip(k) \/ FallbackAccepts(k) \/ FallbackTakeover(k) \/ RefuseCycle(k) \/ Exhausted(k)
  BY <1>1, <1>7 DEF FallbackSkip, FallbackAccepts, FallbackTakeover, RefuseCycle, Exhausted, AtStep, inFallback, Settle, NextStep
<1>8. CASE CallAlternate(k)
  BY <1>8 DEF CallAlternate, AtStep, inFallback, TypeOK
<1>9. CASE Finish(k) \/ FinishRefused(k)
  BY <1>2, <1>3, <1>9 DEF Finish, FinishRefused, Throw
<1> QED
  BY <1>4, <1>5, <1>6, <1>7, <1>8, <1>9 DEF Step

(* Fewer jobs at work keep the limits.                                      *)
LEMMA FewerJobs ==
    ASSUME TypeOK, JobsWithinLimits, Working' \subseteq Working, doc' = doc,
           status' = status \/ Working' = {}
    PROVE  JobsWithinLimits'
<1>1. IsFiniteSet(Working) /\ IsFiniteSet(Working')
  BY RunAssumption, FS_Subset DEF RunAssumption, Working
<1>2. Cardinality(Working') =< Cardinality(Working)
  BY <1>1, FS_Subset
<1>3. Cardinality(Working') \in Nat /\ Cardinality(Working) \in Nat /\ doc.parallel \in Nat
  BY <1>1, FS_CardinalityType, DocumentFacts DEF TypeOK
<1>4. Cardinality(Working') =< doc'.parallel
  BY <1>2, <1>3 DEF JobsWithinLimits
<1>5. /\ \A m, n \in Working : m # n /\ doc.group[m] # NoGroup => doc.group[m] # doc.group[n]
      /\ \A n \in Working : \A e \in doc.edges : e.to = n => status[e.from] \in Terminal
  BY DEF JobsWithinLimits
<1> QED
  BY <1>4, <1>5 DEF JobsWithinLimits

LEMMA LimitsInitially == Init => LimitsInv
<1> SUFFICES ASSUME Init PROVE LimitsInv
  OBVIOUS
<1>1. Working = {} /\ ~Running(Main)
  BY DEF Init, Working, Running, Coroutine
<1>2. Cardinality(Working) =< doc.parallel
  BY <1>1, FS_EmptySet, DocumentFacts DEF Init
<1> QED
  BY <1>1, <1>2 DEF LimitsInv, JobsWithinLimits

LEMMA LimitsAreKept == TypeOK /\ LimitsInv /\ [Next]_vars => LimitsInv'
<1> SUFFICES ASSUME TypeOK, LimitsInv, [Next]_vars PROVE LimitsInv'
  OBVIOUS
<1>0. Node \subseteq Coroutine /\ Main \in Coroutine /\ Main \notin Node
  BY RunAssumption DEF RunAssumption, Coroutine
<1>1. ASSUME Working' \subseteq Working, doc' = doc, status' = status, main' = main \/ Working' = {},
             Running(Main)' => main' \in { "undoFailed", "undoBroken" }
      PROVE  LimitsInv'
  BY <1>1, FewerJobs DEF LimitsInv
<1>2. ASSUME NEW k \in Coroutine, Step(k)
      PROVE  LimitsInv'
  <2>1. /\ Running(k) /\ \A c \in Coroutine \ { k } : stack'[c] = stack[c]
        /\ doc' = doc /\ status' = status /\ (main' = main \/ (k = Main /\ stack'[Main] = <<>>))
    BY <1>2, StepIsOwn
  <2>2. Working' \subseteq Working
    BY <1>0, <2>1 DEF Working, Running
  <2>3. CASE k = Main
    <3>1. Working = {}
      BY <2>1, <2>3 DEF LimitsInv
    <3>2. Running(Main)' => main' \in { "undoFailed", "undoBroken" }
      BY <2>1, <2>3 DEF LimitsInv, Running
    <3> QED
      BY <1>1, <2>1, <2>2, <3>1, <3>2
  <2>4. CASE k # Main
    BY <1>0, <1>1, <2>1, <2>2, <2>4 DEF LimitsInv, Running
  <2> QED
    BY <2>3, <2>4
<1>3. CASE Launch
  <2> DEFINE st == AfterSkips(doc, status)
  <2>1. PICK S \in SUBSET Node : /\ Picks(doc, st, S)
                                /\ stack' = [ k \in Coroutine |-> IF k \in S THEN << Enter("graph", k) >> ELSE <<>> ]
    BY <1>3 DEF Launch
  <2>2. doc' = doc /\ status' = st /\ main' = "gather"
    BY <1>3 DEF Launch, Decide
  <2>3. Working' = S /\ ~Running(Main)'
    BY <1>0, <2>1 DEF Working, Running
  <2> HIDE DEF st
  <2>4. /\ Cardinality(S) =< doc.parallel
        /\ \A m, n \in S : m # n /\ doc.group[m] # NoGroup => doc.group[m] # doc.group[n]
        /\ \A n \in S : \A e \in doc.edges : e.to = n => st[e.from] \in Terminal
    BY <2>1, PicksAreLimited DEF TypeOK
  <2> QED
    BY <2>2, <2>3, <2>4 DEF LimitsInv, JobsWithinLimits
<1>4. CASE Block
  <2>1. doc' = doc /\ stack' = stack /\ Working = {} /\ ~Running(Main)
    BY <1>4 DEF Block, idle, RoundBegins, LimitsInv
  <2>2. Working' = {} /\ ~Running(Main)'
    BY <2>1 DEF Working, Running
  <2> QED
    BY <2>1, <2>2, FewerJobs DEF LimitsInv
<1>5. CASE GatherEnds
  <2>1. doc' = doc /\ stack' = stack /\ Working = {} /\ ~Running(Main)
    BY <1>5 DEF GatherEnds, LimitsInv, Working
  <2>2. Working' = {} /\ ~Running(Main)'
    BY <2>1 DEF Working, Running
  <2> QED
    BY <2>1, <2>2, FewerJobs DEF LimitsInv
<1>6. CASE Compensate
  <2>1. /\ doc' = doc /\ status' = status /\ main' = main /\ main \in { "undoFailed", "undoBroken" }
        /\ \A c \in Coroutine \ { Main } : stack'[c] = stack[c]
    BY <1>6 DEF Compensate, Compensating, TypeOK
  <2>2. Working' \subseteq Working
    BY <1>0, <2>1 DEF Working, Running
  <2> QED
    BY <1>1, <2>1, <2>2
<1>7. ASSUME stack' = stack, doc' = doc, status' = status, main # "gather",
             Running(Main) => main' = main
      PROVE  LimitsInv'
  <2>1. Working' = {} /\ Working = {}
    BY <1>7 DEF Working, Running, LimitsInv
  <2>2. Running(Main)' = Running(Main)
    BY <1>7 DEF Running
  <2> QED
    BY <1>1, <1>7, <2>1, <2>2 DEF LimitsInv
<1>8. CASE ScopeEnds \/ RoundCancelled \/ BudgetExceeded
  <2>1. stack' = stack /\ doc' = doc /\ status' = status /\ main = "round"
    BY <1>8 DEF ScopeEnds, RoundCancelled, BudgetExceeded, RoundBegins, idle
  <2> QED
    BY <1>7, <2>1 DEF LimitsInv
<1>9. CASE Conclude \/ OutputsMissing \/ Break \/ CancelRun \/ Persist
  <2>1. /\ stack' = stack /\ doc' = doc /\ status' = status
        /\ main \in { "conclude", "broken", "cancelling", "persist" }
    BY <1>9 DEF Conclude, OutputsMissing, Break, CancelRun, Persist, control
  <2> QED
    BY <1>7, <2>1 DEF LimitsInv
<1>10. CASE SettleRoot \/ SettleBroken
  <2>1. stack' = stack /\ doc' = doc /\ status' = status /\ main # "gather" /\ ~Running(Main)
    BY <1>10 DEF SettleRoot, SettleBroken, Compensating, control, LimitsInv
  <2> QED
    BY <1>7, <2>1
<1>11. CASE Interrupt
  <2>1. doc' = doc /\ status' = status /\ Working' = {} /\ ~Running(Main)'
    BY <1>0, <1>11 DEF Interrupt, Working, Running
  <2> QED
    BY <1>1, <2>1
<1>12. CASE UNCHANGED <<doc, status, stack, main>>
  <2>1. Working' = Working /\ Running(Main)' = Running(Main)
    BY <1>12 DEF Working, Running
  <2> QED
    BY <1>1, <1>12, <2>1 DEF LimitsInv
<1>13. CASE (\E s \in UserMoves : UserControl(s)) \/ Done \/ UNCHANGED vars
  BY <1>12, <1>13 DEF UserControl, Done, control, vars
<1> QED
  BY <1>2, <1>3, <1>4, <1>5, <1>6, <1>8, <1>9, <1>10, <1>11, <1>13 DEF Next, MainStep

(* For every set of documents over any finite set of nodes, whatever the    *)
(* nodes do: never more jobs at work than max_parallel_nodes, no two of a   *)
(* concurrency group, none before its sources are decided (_run_scope).     *)
THEOREM LimitsHold == Spec => []JobsWithinLimits
<1>1. Init => TypeOK /\ LimitsInv
  BY TypeInitially, LimitsInitially
<1>2. TypeOK /\ LimitsInv /\ [Next]_vars => (TypeOK /\ LimitsInv)'
  BY TypeIsKept, LimitsAreKept
<1>3. LimitsInv => JobsWithinLimits
  BY DEF LimitsInv
<1> QED
  BY <1>1, <1>2, <1>3, PTL DEF Spec

-----------------------------------------------------------------------------
(* The ledger and the statuses.                                             *)

LEMMA BelongTop ==
    ASSUME NEW k \in Coroutine, NEW s \in Seq(Frame), s # <<>>, Belong(k, s)
    PROVE  /\ Tail(s) # <<>> => Head(s).id[1] = "fallback" /\ Belong(k, Tail(s))
           /\ Tail(s) = <<>> /\ k = Main => Head(s).id[1] = "compensation"
           /\ Tail(s) = <<>> /\ k # Main => Head(s).id = Top(k)
<1>0. /\ Len(s) \in Nat \ {0} /\ Head(s) = s[1]
      /\ Tail(s) \in Seq(Frame) /\ Len(Tail(s)) = Len(s) - 1
      /\ \A i \in 1..(Len(s) - 1) : Tail(s)[i] = s[i + 1]
  BY ONLY s \in Seq(Frame), s # <<>>
<1>1. CASE Len(s) = 1
  <2>1. Len(Tail(s)) = 0
    BY ONLY <1>0, <1>1
  <2>2. Tail(s) = <<>>
    BY ONLY <1>0, <2>1, EmptySeq
  <2> QED
    BY <1>0, <1>1, <2>2 DEF Belong
<1>2. CASE Len(s) # 1
  <2>1. /\ Len(s) \in Nat /\ Len(s) > 1 /\ Len(Tail(s)) = Len(s) - 1
        /\ \A i \in 1..(Len(s) - 1) : Tail(s)[i] = s[i + 1]
    BY ONLY <1>0, <1>2
  <2>6. Len(s) \in Nat /\ Len(s) > 1 /\ Len(Tail(s)) = Len(s) - 1
    BY ONLY <2>1
  <2>7. \A n \in Nat : n > 1 => n - 1 # 0
    OBVIOUS
  <2>5. Len(Tail(s)) # 0
    BY ONLY <2>6, <2>7, Zenon
  <2>0. Tail(s) # <<>>
    BY ONLY <2>5, EmptySeq
  <2>2. Tail(s)[Len(Tail(s))] = s[Len(s)]
    BY <2>1
  <2>3. \A i \in 1..(Len(Tail(s)) - 1) : Tail(s)[i].id[1] = "fallback"
    BY <2>1 DEF Belong
  <2>4. Head(s).id[1] = "fallback"
    BY <2>1 DEF Belong
  <2> QED
    BY <2>0, <2>2, <2>3, <2>4 DEF Belong
<1> QED
  BY <1>1, <1>2

LEMMA BelongGoto ==
    ASSUME NEW k \in Coroutine, NEW s \in Seq(Frame), s # <<>>, Belong(k, s),
           NEW f \in Frame, f.id = Head(s).id
    PROVE  LET t == << f >> \o Tail(s) IN t # <<>> /\ Belong(k, t)
<1> DEFINE t == << f >> \o Tail(s)
<1>1. /\ t \in Seq(Frame) /\ Len(t) = Len(s) /\ Len(s) \in Nat \ {0}
      /\ t[1] = f /\ \A i \in 2..Len(s) : t[i] = s[i]
  OBVIOUS
<1>2. \A i \in 1..Len(s) : t[i].id = s[i].id
  BY <1>1
<1> HIDE DEF t
<1>3. Belong(k, t)
  BY <1>1, <1>2 DEF Belong
<1>4. t # <<>>
  BY <1>1
<1> QED
  BY <1>3, <1>4 DEF t

LEMMA BelongCall ==
    ASSUME NEW k \in Coroutine, NEW s \in Seq(Frame), s # <<>>, Belong(k, s),
           NEW f \in Frame, f.id = Head(s).id, NEW g \in Frame, g.id[1] = "fallback"
    PROVE  LET t == << g, f >> \o Tail(s) IN t # <<>> /\ Belong(k, t)
<1> DEFINE t == << g, f >> \o Tail(s)
<1>1. /\ t \in Seq(Frame) /\ Len(t) = Len(s) + 1 /\ Len(s) \in Nat \ {0}
      /\ t[1] = g /\ t[2] = f /\ \A i \in 3..(Len(s) + 1) : t[i] = s[i - 1]
  OBVIOUS
<1>2. \A i \in 2..Len(t) : t[i].id = s[i - 1].id
  BY <1>1
<1> HIDE DEF t
<1>3. \A i \in 1..(Len(t) - 1) : t[i].id[1] = "fallback"
  BY <1>1, <1>2 DEF Belong
<1>4. t[Len(t)].id = s[Len(s)].id
  BY <1>1, <1>2
<1> QED
  BY <1>1, <1>3, <1>4 DEF Belong

(* What a step of k leaves for gather: k goes on, or it has returned a      *)
(* result that the ledger has, or it has raised and has no record.          *)
GoesOn(k) ==
  /\ k \in Node => Running(k)'
  /\ result' = result
  /\ \A n \in Node : Top(n) \in recorded' <=> Top(n) \in recorded
Returned(k) ==
  /\ k \in Node /\ Frm(k).id = Top(k) /\ ~Running(k)'
  /\ result'[k] \in NodeOutcome /\ task'[Top(k)] = result'[k]
  /\ recorded' = recorded \cup { Top(k) }
Raised(k) ==
  /\ k \in Node /\ ~Running(k)'
  /\ result'[k] = "raised"
  /\ recorded' = recorded

StepLeaves(k) ==
  /\ Running(k)' => Belong(k, stack'[k])
  /\ \A id \in FullId \ { Frm(k).id } : task'[id] = task[id]
  /\ \A n \in Node \ { k } : result'[n] = result[n]
  /\ GoesOn(k) \/ Returned(k) \/ Raised(k)

LEMMA UnwindLeaves ==
    ASSUME TypeOK, NEW k \in Coroutine, Running(k), Unwind(k), recorded' = recorded, task' = task
    PROVE  StepLeaves(k)
<1>1. stack'[k] = <<>> /\ ~Running(k)'
  BY DEF TypeOK, Unwind, Running
<1>2. CASE k = Main
  BY <1>1, <1>2, RunAssumption DEF RunAssumption, StepLeaves, GoesOn, Unwind
<1>3. CASE k # Main
  <2>1. k \in Node /\ result' = [ result EXCEPT ![k] = "raised" ]
    BY <1>3 DEF Unwind, Coroutine
  <2> QED
    BY <1>1, <2>1 DEF StepLeaves, Raised, TypeOK
<1> QED
  BY <1>2, <1>3

LEMMA ReturnLeaves ==
    ASSUME TypeOK, NEW k \in Coroutine, Running(k), Belong(k, stack[k]), NEW s \in NodeOutcome,
           Return(k, s), task' = [ task EXCEPT ![Frm(k).id] = s ]
    PROVE  StepLeaves(k)
<1>1. /\ stack[k] \in Seq(Frame) /\ stack[k] # <<>> /\ Frm(k).id \in FullId
      /\ Tail(stack[k]) \in Seq(Frame)
  BY RunningStack DEF TypeOK
<1>2. /\ \A id \in FullId \ { Frm(k).id } : task'[id] = task[id]
      /\ task'[Frm(k).id] = s
      /\ recorded' = recorded \cup { Frm(k).id }
  BY <1>1 DEF TypeOK, Return
<1>3. /\ Tail(stack[k]) # <<>> => Frm(k).id[1] = "fallback" /\ Belong(k, Tail(stack[k]))
      /\ Tail(stack[k]) = <<>> /\ k = Main => Frm(k).id[1] = "compensation"
      /\ Tail(stack[k]) = <<>> /\ k # Main => Frm(k).id = Top(k)
  BY <1>1, BelongTop DEF Frm
<1>4. CASE Tail(stack[k]) = <<>>
  <2>1. /\ stack' = [ stack EXCEPT ![k] = <<>> ]
        /\ result' = IF k = Main THEN result ELSE [ result EXCEPT ![k] = s ]
    BY <1>4 DEF Return
  <2>2. ~Running(k)'
    BY <2>1 DEF TypeOK, Running
  <2>3. CASE k = Main
    <3>1. \A n \in Node : Top(n) # Frm(k).id
      BY <1>3, <1>4, <2>3 DEF Top
    <3> QED
      BY <1>2, <2>1, <2>2, <2>3, <3>1, RunAssumption DEF RunAssumption, StepLeaves, GoesOn
  <2>4. CASE k # Main
    <3>1. k \in Node /\ result' = [ result EXCEPT ![k] = s ] /\ Frm(k).id = Top(k)
      BY <1>3, <1>4, <2>1, <2>4 DEF Coroutine
    <3>2. Returned(k)
      BY <1>2, <2>2, <3>1 DEF Returned, TypeOK
    <3> QED
      BY <1>2, <2>2, <3>1, <3>2 DEF StepLeaves, TypeOK
  <2> QED
    BY <2>3, <2>4
<1>5. CASE Tail(stack[k]) # <<>>
  <2> DEFINE below == Tail(stack[k])
             f == Resumed(Head(below), s)
  <2>1. below \in Seq(Frame) /\ below # <<>> /\ Belong(k, below) /\ Head(below) \in Frame
    BY <1>1, <1>3, <1>5
  <2>2. f \in Frame /\ f.id = Head(below).id
    BY <2>1, ResumedType
  <2>3. stack' = [ stack EXCEPT ![k] = << f >> \o Tail(below) ] /\ result' = result
    BY <1>5 DEF Return
  <2> HIDE DEF below, f
  <2>4. stack'[k] # <<>> /\ Belong(k, stack'[k])
    BY <2>1, <2>2, <2>3, BelongGoto DEF TypeOK
  <2>5. \A n \in Node : Top(n) # Frm(k).id
    BY <1>3, <1>5 DEF Top
  <2> QED
    BY <1>2, <2>3, <2>4, <2>5 DEF StepLeaves, GoesOn, Running
<1> QED
  BY <1>4, <1>5

LEMMA GotoLeaves ==
    ASSUME TypeOK, NEW k \in Coroutine, Running(k), Belong(k, stack[k]), NEW f \in Frame,
           f.id = Frm(k).id, Goto(k, f), result' = result, recorded' = recorded,
           \A id \in FullId \ { Frm(k).id } : task'[id] = task[id]
    PROVE  StepLeaves(k)
<1>1. stack[k] \in Seq(Frame) /\ stack[k] # <<>>
  BY RunningStack DEF TypeOK
<1>2. stack'[k] = << f >> \o Tail(stack[k])
  BY DEF Goto, TypeOK
<1>3. stack'[k] # <<>> /\ Belong(k, stack'[k])
  BY <1>1, <1>2, BelongGoto DEF Frm
<1> QED
  BY <1>3 DEF StepLeaves, GoesOn, Running

LEMMA StepLedger ==
    ASSUME TypeOK, NEW k \in Coroutine, Running(k), Belong(k, stack[k]), Step(k)
    PROVE  StepLeaves(k)
<1> USE DEF scheduling
<1>1. CASE ControlStops(k) \/ EntryRaises(k) \/ StartRefused(k) \/ FinishRefused(k)
  BY <1>1, UnwindLeaves DEF ControlStops, EntryRaises, StartRefused, FinishRefused, Throw
<1>2. CASE GuardFalse(k)
  BY <1>2, ReturnLeaves DEF GuardFalse, NodeOutcome
<1>3. CASE Finish(k)
  <2>1. Frm(k).final \in NodeOutcome
    BY RunningStack DEF TypeOK, Frame
  <2> QED
    BY <1>3, <2>1, ReturnLeaves DEF Finish
<1>4. CASE Start(k)
  <2>1. \A id \in FullId \ { Frm(k).id } : task'[id] = task[id]
    BY <1>4 DEF Start, TypeOK
  <2>2. Goto(k, [ Frm(k) EXCEPT !.pc = "attempt", !.attempt = 1 ]) /\ result' = result /\ recorded' = recorded
    BY <1>4 DEF Start
  <2>3. PICK f \in Frame : f.id = Frm(k).id /\ Goto(k, f)
    BY <2>2, RunningStack, StartedType DEF TypeOK
  <2> QED
    BY <2>1, <2>2, <2>3, GotoLeaves
<1>5. CASE BeginAttempt(k)
  <2>1. Goto(k, [ Frm(k) EXCEPT !.pc = "body" ]) /\ result' = result /\ recorded' = recorded /\ task' = task
    BY <1>5 DEF BeginAttempt
  <2>2. PICK f \in Frame : f.id = Frm(k).id /\ Goto(k, f)
    BY <2>1, RunningStack, MovedType DEF TypeOK
  <2> QED
    BY <2>1, <2>2, GotoLeaves
<1>6. ASSUME NEW o \in BodyOutcome, BodyEnds(k, o)
      PROVE  StepLeaves(k)
  <2>1. PICK f \in Frame : f.id = Frm(k).id /\ Goto(k, f)
    BY <1>6, BodyFrame
  <2>2. result' = result /\ recorded' = recorded /\ task' = task
    BY <1>6 DEF BodyEnds
  <2> QED
    BY <2>1, <2>2, GotoLeaves
<1>7. CASE FallbackSkip(k) \/ FallbackAccepts(k) \/ FallbackTakeover(k) \/ RefuseCycle(k) \/ Exhausted(k)
  <2>1. PICK f \in Frame : f.id = Frm(k).id /\ Goto(k, f)
    BY <1>7, FallbackFrame
  <2>2. result' = result /\ recorded' = recorded /\ task' = task
    BY <1>7 DEF FallbackSkip, FallbackAccepts, FallbackTakeover, RefuseCycle, Exhausted, inFallback
  <2> QED
    BY <2>1, <2>2, GotoLeaves
<1>8. CASE CallAlternate(k)
  <2> DEFINE f == [ Frm(k) EXCEPT !.pc = "alternate" ]
             g == Enter("fallback", Alternate(k))
  <2>1. stack[k] \in Seq(Frame) /\ stack[k] # <<>> /\ Frm(k) \in Frame
    BY RunningStack DEF TypeOK
  <2>2. f \in Frame /\ f.id = Head(stack[k]).id
    BY <2>1, MovedType DEF Frm
  <2>3. Alternate(k) \in Node
    BY <1>8, AlternateType DEF CallAlternate
  <2>4. g \in Frame /\ g.id[1] = "fallback"
    BY <2>3 DEF Enter, Frame, FullId, Scope, NodeOutcome
  <2>5. stack' = [ stack EXCEPT ![k] = << g, f >> \o Tail(@) ] /\ result' = result /\ recorded' = recorded /\ task' = task
    BY <1>8 DEF CallAlternate, inFallback
  <2> HIDE DEF f, g
  <2>6. stack'[k] # <<>> /\ Belong(k, stack'[k])
    BY <2>1, <2>2, <2>4, <2>5, BelongCall DEF TypeOK
  <2> QED
    BY <2>5, <2>6 DEF StepLeaves, GoesOn, Running
<1> QED
  BY <1>1, <1>2, <1>3, <1>4, <1>5, <1>6, <1>7, <1>8 DEF Step

LEMMA LedgerInitially == Init => LedgerInv
<1> SUFFICES ASSUME Init PROVE LedgerInv
  OBVIOUS
<1>1. doc.reused \subseteq Node /\ \A k \in Coroutine : ~Running(k)
  BY DocumentFacts DEF Init, Running
<1>2. \A n \in Node : Top(n) \in FullId /\ Top(n)[1] = "graph" /\ Top(n)[2] = n
  BY DEF Top, FullId, Scope
<1>3. LedgerTracksStatus
  BY <1>1, <1>2 DEF Init, LedgerTracksStatus
<1> QED
  BY <1>1, <1>3, RunAssumption DEF RunAssumption, Init, LedgerInv, NodeOutcome, Coroutine

(* A decision keeps the ledger and the statuses together.                   *)
LEMMA DecideKeeps ==
    ASSUME TypeOK, LedgerTracksStatus, NEW st \in [ Node -> NodeStatus ], Decide(st),
           \A n \in Node : status[n] # "pending" => st[n] = status[n],
           \A n \in Node : st[n] # status[n] /\ Top(n) \in recorded => task[Top(n)] = st[n]
    PROVE  /\ LedgerTracksStatus' /\ status' = st
           /\ \A n \in Node : st[n] = "pending" => (Top(n) \in recorded' <=> Top(n) \in recorded)
<1>1. \A n \in Node : Top(n) \in FullId /\ Top(n)[1] = "graph" /\ Top(n)[2] = n
  BY DEF Top, FullId, Scope
<1>2. /\ status' = st
      /\ \A n \in Node : task'[Top(n)] = IF st[n] # status[n] /\ Top(n) \notin recorded THEN st[n] ELSE task[Top(n)]
      /\ \A n \in Node : Top(n) \in recorded' <=> Top(n) \in recorded \/ st[n] # status[n]
  <2>1. \A m, n \in Node : Top(m) = Top(n) => m = n
    BY DEF Top
  <2> QED
    BY <1>1, <2>1 DEF Decide
<1>3. \A n \in Node : st[n] = "pending" => st[n] = status[n]
  OBVIOUS
<1>4. LedgerTracksStatus'
  BY <1>2 DEF LedgerTracksStatus
<1> QED
  BY <1>2, <1>3, <1>4

(* A step of one coroutine.                                                 *)
LEMMA StepKeepsLedger ==
    ASSUME TypeOK, LimitsInv, LedgerInv, NEW k \in Coroutine, Step(k)
    PROVE  LedgerInv'
<1>0. Node \subseteq Coroutine /\ Main \in Coroutine /\ Main \notin Node
  BY RunAssumption DEF RunAssumption, Coroutine
<1>1. /\ Running(k) /\ \A c \in Coroutine \ { k } : stack'[c] = stack[c]
      /\ doc' = doc /\ status' = status
      /\ main' = main \/ main' \in { "cancelling", "escaped" }
  BY StepIsOwn
<1>2. Belong(k, stack[k])
  BY <1>1 DEF LedgerInv
<1>3. StepLeaves(k)
  BY <1>1, <1>2, StepLedger
<1>4. \A c \in Coroutine : Running(c)' => Belong(c, stack'[c])
  BY <1>1, <1>3 DEF StepLeaves, LedgerInv, Running
<1>5. /\ k # Main => Frm(k).id[1] = "fallback" \/ Frm(k).id = Top(k) \/ Frm(k).id = Top(k)
      /\ k = Main => Frm(k).id[1] \in { "fallback", "compensation" }
  <2>1. stack[k] \in Seq(Frame) /\ stack[k] # <<>>
    BY <1>1, RunningStack DEF TypeOK
  <2>2. Belong(k, stack[k])
    BY <1>2
  <2> QED
    BY <2>1, <2>2, BelongTop DEF Frm
<1>6. \A n \in Node \ { k } : task'[Top(n)] = task[Top(n)]
  <2>1. \A n \in Node \ { k } : Top(n) # Frm(k).id
    BY <1>5 DEF Top
  <2> QED
    BY <1>3, <2>1 DEF StepLeaves, Top, FullId, Scope
<1>7. k \in Node => status[k] = "pending" /\ result[k] = "none" /\ main = "gather" /\ Top(k) \notin recorded
  BY <1>1 DEF LedgerInv, LimitsInv, Working, NodeOutcome
<1>8. \A n \in Node \ { k } : /\ Running(n)' = Running(n) /\ result'[n] = result[n]
                              /\ Top(n) \in recorded' <=> Top(n) \in recorded
  <2>1. \A n \in Node \ { k } : Top(n) # Top(k)
    BY DEF Top
  <2> QED
    BY <1>0, <1>1, <1>3, <2>1 DEF StepLeaves, GoesOn, Returned, Raised, Running
<1>9. k \in Node => /\ Running(k)' => result'[k] = "none"
                    /\ Top(k) \in recorded' <=> result'[k] \in NodeOutcome
                    /\ result'[k] \in NodeOutcome => task'[Top(k)] = result'[k]
  BY <1>0, <1>3, <1>7 DEF StepLeaves, GoesOn, Returned, Raised, NodeOutcome
<1>10. LedgerTracksStatus'
  BY <1>1, <1>6, <1>7 DEF LedgerInv, LedgerTracksStatus
<1>11. ASSUME NEW n \in Node
       PROVE  /\ Running(n)' => status'[n] = "pending" /\ result'[n] = "none"
              /\ result'[n] # "none" => status'[n] = "pending"
              /\ status'[n] = "pending" => (Top(n) \in recorded' <=> result'[n] \in NodeOutcome)
              /\ result'[n] \in NodeOutcome => task'[Top(n)] = result'[n]
              /\ main' = "round" => result'[n] = "none"
  <2>1. CASE n = k
    BY <1>1, <1>7, <1>9, <2>1
  <2>2. CASE n # k
    <3>1. /\ Running(n)' = Running(n) /\ result'[n] = result[n] /\ status'[n] = status[n]
          /\ Top(n) \in recorded' <=> Top(n) \in recorded
          /\ task'[Top(n)] = task[Top(n)]
          /\ main' = "round" => main = "round"
      <4>1. n \in Node \ { k }
        BY <2>2
      <4>2. /\ Running(n)' = Running(n) /\ result'[n] = result[n]
            /\ Top(n) \in recorded' <=> Top(n) \in recorded
        BY <1>8, <4>1 
      <4>3. task'[Top(n)] = task[Top(n)]
        BY <1>6, <4>1 
      <4>4. status'[n] = status[n] /\ (main' = "round" => main = "round")
        BY <1>1
      <4> QED
        BY <4>2, <4>3, <4>4
    <3>2. /\ Running(n) => status[n] = "pending" /\ result[n] = "none"
          /\ result[n] # "none" => status[n] = "pending"
          /\ status[n] = "pending" => (Top(n) \in recorded <=> result[n] \in NodeOutcome)
          /\ result[n] \in NodeOutcome => task[Top(n)] = result[n]
          /\ main = "round" => result[n] = "none"
      BY DEF LedgerInv
    <3> QED
      BY <3>1, <3>2
  <2> QED
    BY <2>1, <2>2
<1> QED
  BY <1>4, <1>10, <1>11 DEF LedgerInv

LEMMA LedgerIsKept == TypeOK /\ LimitsInv /\ LedgerInv /\ [Next]_vars => LedgerInv'
<1> SUFFICES ASSUME TypeOK, LimitsInv, LedgerInv, [Next]_vars PROVE LedgerInv'
  OBVIOUS
<1>0. Node \subseteq Coroutine /\ Main \in Coroutine /\ Main \notin Node
  BY RunAssumption DEF RunAssumption, Coroutine
<1>1. ASSUME main = "round"
      PROVE  \A n \in Node : /\ ~Running(n) /\ result[n] = "none"
                             /\ status[n] = "pending" => Top(n) \notin recorded
  BY <1>1 DEF LimitsInv, Working, LedgerInv, NodeOutcome
<1>2. AfterSkips(doc, status) \in [ Node -> NodeStatus ]
      /\ \A n \in Node : status[n] # "pending" => AfterSkips(doc, status)[n] = status[n]
  BY SkipsType DEF TypeOK, AfterSkips, Unrouted
<1>3. CASE Launch
  <2> DEFINE st == AfterSkips(doc, status)
  <2>1. PICK S \in SUBSET Node : /\ Picks(doc, st, S)
                                /\ stack' = [ k \in Coroutine |-> IF k \in S THEN << Enter("graph", k) >> ELSE <<>> ]
    BY <1>3 DEF Launch
  <2>2. /\ main = "round" /\ main' = "gather" /\ Decide(st) /\ result' = result
    BY <1>3 DEF Launch, RoundBegins
  <2>3. \A n \in S : st[n] = "pending"
    BY <2>1 DEF Picks, Ready
  <2>4. \A k \in Coroutine : Running(k)' => k \in S /\ stack'[k] = << Enter("graph", k) >>
    BY <2>1 DEF Running
  <2> HIDE DEF st
  <2>5. /\ LedgerTracksStatus' /\ status' = st
        /\ \A n \in Node : st[n] = "pending" => (Top(n) \in recorded' <=> Top(n) \in recorded)
    BY <1>1, <1>2, <2>2, DecideKeeps DEF LedgerInv, st
  <2>6. \A n \in Node : st[n] = "pending" => status[n] = "pending"
    BY <1>2 DEF st
  <2>7. \A k \in Coroutine : Running(k)' => Belong(k, stack'[k])
    <3>1. ASSUME NEW k \in S PROVE Belong(k, << Enter("graph", k) >>)
      <4> DEFINE s == << Enter("graph", k) >>
      <4>1. Len(s) = 1 /\ s[1].id = Top(k)
        BY DEF Enter, Top
      <4>2. k # Main
        BY <1>0
      <4> HIDE DEF s
      <4>3. Belong(k, s)
        BY <4>1, <4>2 DEF Belong
      <4> QED
        BY <4>3 DEF s
    <3> QED
      BY <2>4, <3>1
  <2>8. \A n \in Node : result'[n] = "none"
    BY <1>1, <2>2
  <2>9. \A n \in Node : Running(n)' => status'[n] = "pending"
    BY <1>0, <2>3, <2>4, <2>5
  <2> QED
    BY <1>1, <2>2, <2>5, <2>6, <2>7, <2>8, <2>9 DEF LedgerInv, NodeOutcome
<1>4. CASE Block
  <2> DEFINE st == [ n \in Node |-> IF AfterSkips(doc, status)[n] = "pending" THEN "blocked" ELSE AfterSkips(doc, status)[n] ]
  <2>1. main = "round" /\ main' = "conclude" /\ Decide(st) /\ result' = result /\ stack' = stack
    BY <1>4 DEF Block, RoundBegins, idle
  <2>2. st \in [ Node -> NodeStatus ] /\ (\A n \in Node : status[n] # "pending" => st[n] = status[n])
        /\ \A n \in Node : st[n] # "pending"
    BY <1>2 DEF NodeStatus
  <2> HIDE DEF st
  <2>3. LedgerTracksStatus' /\ status' = st
    BY <1>1, <2>1, <2>2, DecideKeeps DEF LedgerInv
  <2>4. \A n \in Node : ~Running(n)' /\ result'[n] = "none"
    BY <1>1, <2>1 DEF Running
  <2>5. \A k \in Coroutine : Running(k)' => Belong(k, stack'[k])
    BY <2>1 DEF Running, LedgerInv
  <2> QED
    BY <2>1, <2>2, <2>3, <2>4, <2>5 DEF LedgerInv, NodeOutcome
<1>5. CASE GatherEnds
  <2> DEFINE halts == doc.halt /\ \E n \in Node : Gathered(n) = "failed"
             st == [ n \in Node |-> IF halts /\ Gathered(n) = "pending" THEN "skipped" ELSE Gathered(n) ]
  <2>1. /\ \A n \in Node : ~Running(n)
        /\ Decide(st) /\ result' = [ n \in Node |-> "none" ] /\ stack' = stack
    BY <1>5 DEF GatherEnds
  <2>2. \A n \in Node : Gathered(n) \in NodeStatus
    BY DEF TypeOK, Gathered, NodeStatus, NodeOutcome
  <2>3. \A n \in Node : status[n] # "pending" => st[n] = status[n]
    BY DEF LedgerInv, Gathered
  <2>4. \A n \in Node : result[n] \in NodeOutcome => st[n] = result[n]
    BY DEF Gathered, NodeOutcome
  <2>5. \A n \in Node : st[n] = "pending" => status[n] = "pending" /\ Top(n) \notin recorded
    <3>1. \A n \in Node : result[n] \in NodeOutcome \cup { "none", "raised" }
      BY DEF TypeOK
    <3>2. \A n \in Node : st[n] = "pending" => result[n] \notin NodeOutcome
      BY <2>4 DEF NodeOutcome
    <3> QED
      BY <2>3, <3>2 DEF LedgerInv
  <2>6. st \in [ Node -> NodeStatus ]
    BY <2>2 DEF NodeStatus
  <2> HIDE DEF st
  <2>7. \A n \in Node : st[n] # status[n] /\ Top(n) \in recorded => task[Top(n)] = st[n]
    BY <2>3, <2>4 DEF LedgerInv
  <2>8. /\ LedgerTracksStatus' /\ status' = st
        /\ \A n \in Node : st[n] = "pending" => (Top(n) \in recorded' <=> Top(n) \in recorded)
    BY <2>1, <2>3, <2>6, <2>7, DecideKeeps DEF LedgerInv
  <2>9. \A n \in Node : ~Running(n)' /\ result'[n] = "none"
    BY <2>1 DEF Running
  <2>10. \A k \in Coroutine : Running(k)' => Belong(k, stack'[k])
    BY <2>1 DEF Running, LedgerInv
  <2> QED
    BY <2>5, <2>8, <2>9, <2>10 DEF LedgerInv, NodeOutcome
<1>6. ASSUME UNCHANGED <<status, result, recorded, task>>, main' = main \/ main' # "round",
             \A k \in Coroutine : Running(k)' => Belong(k, stack'[k]),
             \A n \in Node : Running(n)' => Running(n)
      PROVE  LedgerInv'
  BY <1>6 DEF LedgerInv, LedgerTracksStatus
<1>7. CASE Compensate
  <2> DEFINE back == doc.compensation[Head(undo)]
  <2>1. UNCHANGED <<status, result, recorded, task>> /\ main' = main
        /\ stack' = IF back = NoNode THEN stack ELSE [ stack EXCEPT ![Main] = << Enter("compensation", back) >> ]
    BY <1>7 DEF Compensate
  <2> HIDE DEF back
  <2>2. \A k \in Coroutine \ { Main } : stack'[k] = stack[k]
    BY <2>1 DEF TypeOK
  <2>3. Running(Main)' => Belong(Main, stack'[Main])
    <3>1. Belong(Main, << Enter("compensation", back) >>)
      BY DEF Belong, Enter
    <3> QED
      BY <1>0, <2>1, <3>1 DEF TypeOK, Running, LedgerInv
  <2>4. \A k \in Coroutine : Running(k)' => Belong(k, stack'[k])
    BY <2>2, <2>3 DEF Running, LedgerInv
  <2>5. \A n \in Node : Running(n)' => Running(n)
    BY <1>0, <2>2 DEF Running
  <2> QED
    BY <1>6, <2>1, <2>4, <2>5
<1>8. CASE Interrupt
  <2>1. \A k \in Coroutine : ~Running(k)'
    BY <1>8 DEF Interrupt, Running
  <2>2. UNCHANGED <<status, result, recorded, task>> /\ main' # "round"
    BY <1>8 DEF Interrupt, durable
  <2> QED
    BY <1>0, <1>6, <2>1, <2>2
<1>9. ASSUME UNCHANGED <<status, result, recorded, task, stack>>, main' = main \/ main' # "round"
      PROVE  LedgerInv'
  BY <1>0, <1>6, <1>9 DEF Running, LedgerInv
<1>10. CASE ScopeEnds \/ RoundCancelled \/ BudgetExceeded
  BY <1>9, <1>10 DEF ScopeEnds, RoundCancelled, BudgetExceeded, idle
<1>11. CASE Conclude \/ OutputsMissing \/ Break \/ CancelRun \/ Persist \/ SettleRoot \/ SettleBroken
  BY <1>9, <1>11 DEF Conclude, OutputsMissing, Break, CancelRun, Persist, SettleRoot, SettleBroken, control
<1>12. CASE (\E s \in UserMoves : UserControl(s)) \/ Done \/ UNCHANGED vars
  BY <1>9, <1>12 DEF UserControl, Done, control, vars
<1> QED
  BY <1>3, <1>4, <1>5, <1>7, <1>8, <1>10, <1>11, <1>12, StepKeepsLedger DEF Next, MainStep

(* For every set of documents over any finite set of nodes, whatever the    *)
(* nodes do and the user asks: a decided node has that status in the ledger *)
(* too (_execute_node, _terminalize_nonexecuted).                           *)
THEOREM LedgerAgrees == Spec => []LedgerTracksStatus
<1>1. Init => TypeOK /\ LimitsInv /\ LedgerInv
  BY TypeInitially, LimitsInitially, LedgerInitially
<1>2. TypeOK /\ LimitsInv /\ LedgerInv /\ [Next]_vars => (TypeOK /\ LimitsInv /\ LedgerInv)'
  BY TypeIsKept, LimitsAreKept, LedgerIsKept
<1>3. LedgerInv => LedgerTracksStatus
  BY DEF LedgerInv
<1> QED
  BY <1>1, <1>2, <1>3, PTL DEF Spec

-----------------------------------------------------------------------------
(* The run keeps its promise.                                               *)

LEMMA SameCardinality == \A S : P!Cardinality(S) = Cardinality(S)
BY DEF P!Cardinality, Cardinality

(* There are finitely many edges: the plan's joins can be counted.          *)
LEMMA FiniteEdges == IsFiniteSet(Edge)
<1> DEFINE T == (Node \X Node) \X (EdgeKind \X SUBSET Terminal)
           f == [ e \in Edge |-> << <<e.from, e.to>>, <<e.kind, e.when>> >> ]
<1>1. IsFiniteSet(EdgeKind)
  <2>1. IsFiniteSet({ "sequence" } \cup { "on_failure" } \cup { "conditional" })
    BY FS_Singleton, FS_Union
  <2>2. EdgeKind = { "sequence" } \cup { "on_failure" } \cup { "conditional" }
    BY DEF EdgeKind
  <2> QED
    BY <2>1, <2>2
<1>2. IsFiniteSet(Terminal)
  <2>1. IsFiniteSet({ "succeeded" } \cup { "failed" } \cup { "skipped" } \cup { "cancelled" } \cup { "blocked" })
    BY FS_Singleton, FS_Union
  <2>2. Terminal = { "succeeded" } \cup { "failed" } \cup { "skipped" } \cup { "cancelled" } \cup { "blocked" }
    BY DEF Terminal
  <2> QED
    BY <2>1, <2>2
<1>3. IsFiniteSet(SUBSET Terminal)
  BY <1>2, FS_SUBSET
<1>4. IsFiniteSet(Node \X Node) /\ IsFiniteSet(EdgeKind \X SUBSET Terminal)
  BY <1>1, <1>3, FS_Product, RunAssumption DEF RunAssumption
<1>5. IsFiniteSet(T)
  BY <1>4, FS_Product
<1>6. f \in [ Edge -> T ]
  BY DEF Edge
<1>7. \A e1, e2 \in Edge : f[e1] = f[e2] => e1 = e2
  BY DEF Edge
<1>8. f \in Injection(Edge, T)
  BY <1>6, <1>7 DEF Injection, IsInjective
<1> QED
  BY <1>5, <1>8, FS_Injection

(* Readiness in the scheduler is what the promise calls a right to run.     *)
LEMMA EnabledMayRun == TypeOK => \A n \in Node : Enabled(doc, status, n) <=> P!MayRun(n)
<1> SUFFICES ASSUME TypeOK, NEW n \in Node PROVE Enabled(doc, status, n) <=> P!MayRun(n)
  OBVIOUS
<1> DEFINE into == Incoming(doc, n)
           taken == { e \in into : IsActive(status, e) }
<1>0. doc.edges \subseteq Edge /\ doc.join \in [ Node -> Nat ]
  BY DocumentFacts DEF TypeOK
<1>1. P!Into(n) = into /\ P!Decided = Terminal
  BY DEF P!Into, Incoming, P!Decided, Terminal
<1>2. P!Taken(n) = taken
  BY <1>1 DEF P!Taken, Incoming, IsActive, Fires
<1>3. IsFiniteSet(into) /\ IsFiniteSet(taken) /\ taken \subseteq into
  <2>1. into \in SUBSET Edge /\ taken \in SUBSET Edge
    BY <1>0 DEF Incoming
  <2> QED
    BY <2>1, FiniteEdges, FS_Subset
<1>4. (\A m \in P!Sources(n) : status[m] \in P!Decided) <=> \A e \in into : ~IsOpen(status, e)
  BY <1>1 DEF P!Sources, IsOpen
<1>5. ActiveCount(doc, status, n) = P!Cardinality(P!Taken(n))
  BY <1>2, SameCardinality DEF ActiveCount
<1>6. (\A e \in into : IsActive(status, e)) <=> P!Cardinality(P!Taken(n)) >= P!Cardinality(P!Into(n))
  <2>1. P!Cardinality(P!Taken(n)) = Cardinality(taken) /\ P!Cardinality(P!Into(n)) = Cardinality(into)
    BY <1>1, <1>2, SameCardinality
  <2>2. (\A e \in into : IsActive(status, e)) <=> taken = into
    OBVIOUS
  <2> HIDE DEF into, taken
  <2>3. Cardinality(taken) \in Nat /\ Cardinality(into) \in Nat
    BY <1>3, FS_CardinalityType
  <2>4. Cardinality(taken) =< Cardinality(into) /\ (Cardinality(into) = Cardinality(taken) => into = taken)
    BY <1>3, FS_Subset
  <2>5. taken = into <=> Cardinality(taken) >= Cardinality(into)
    BY <2>3, <2>4
  <2> QED
    BY <2>1, <2>2, <2>5
<1>7. JoinMet(doc, status, n) <=> P!Cardinality(P!Taken(n)) >= IF doc.join[n] = 0 THEN P!Cardinality(P!Into(n)) ELSE doc.join[n]
  BY <1>5, <1>6 DEF JoinMet
<1> QED
  BY <1>1, <1>4, <1>7 DEF Enabled, P!MayRun

LEMMA MayRunNext == (TypeOK => \A n \in Node : Enabled(doc, status, n) <=> P!MayRun(n))'
BY EnabledMayRun, PTL

(* A pass of skips takes from no node its right to run.                     *)
LEMMA EnabledAfterSkips ==
    ASSUME TypeOK, NEW n \in Node, Enabled(doc, status, n)
    PROVE  Enabled(doc, AfterSkips(doc, status), n)
<1> DEFINE st == AfterSkips(doc, status)
<1>0. doc.edges \subseteq Edge
  BY DocumentFacts DEF TypeOK
<1>1. \A m \in Node : status[m] # "pending" => st[m] = status[m]
  BY DEF AfterSkips, Unrouted
<1> HIDE DEF st
<1>2. CASE Incoming(doc, n) = {}
  BY <1>2 DEF Enabled
<1>3. CASE Incoming(doc, n) # {}
  <2>1. \A e \in Incoming(doc, n) : e.from \in Node /\ status[e.from] \in Terminal
    BY <1>0, <1>3 DEF Enabled, IsOpen, Incoming, Edge
  <2>2. \A e \in Incoming(doc, n) : st[e.from] = status[e.from]
    BY <1>1, <2>1 DEF Terminal
  <2>3. \A e \in Incoming(doc, n) : /\ IsOpen(st, e) <=> IsOpen(status, e)
                                    /\ IsActive(st, e) <=> IsActive(status, e)
    BY <2>2 DEF IsOpen, IsActive
  <2>4. JoinMet(doc, st, n) <=> JoinMet(doc, status, n)
    <3>1. { e \in Incoming(doc, n) : IsActive(st, e) } = { e \in Incoming(doc, n) : IsActive(status, e) }
      BY <2>3
    <3> QED
      BY <2>3, <3>1 DEF JoinMet, ActiveCount
  <2> QED
    BY <1>3, <2>3, <2>4 DEF Enabled, st
<1> QED
  BY <1>2, <1>3

LEMMA PromiseInitially == Init => P!Init /\ PromiseInv
<1> SUFFICES ASSUME Init PROVE P!Init /\ PromiseInv
  OBVIOUS
<1>1. Launched = {}
  BY DEF Init, Launched, Running, Coroutine
<1>2. doc.parallel \in Nat
  BY DocumentFacts DEF Init
<1>3. RoundIsAllowed
  BY <1>1, <1>2, FS_EmptySet DEF RoundIsAllowed
<1> QED
  BY <1>3 DEF Init, P!Init, PromiseInv, EndIsJustified

LEMMA SameRight ==
    ASSUME UNCHANGED <<doc, status>>, NEW n \in Node
    PROVE  P!MayRun(n)' <=> P!MayRun(n)
BY DEF P!MayRun, P!Into, P!Sources, P!Taken

LEMMA FewerLaunched ==
    ASSUME TypeOK, RoundIsAllowed, Launched' \subseteq Launched, doc' = doc,
           status' = status \/ Launched' = {}
    PROVE  RoundIsAllowed'
<1>1. IsFiniteSet(Launched) /\ IsFiniteSet(Launched') /\ Launched \subseteq Node
  BY RunAssumption, FS_Subset DEF RunAssumption, Launched
<1>2. Cardinality(Launched') =< Cardinality(Launched)
  BY <1>1, FS_Subset
<1>3. Cardinality(Launched') \in Nat /\ Cardinality(Launched) \in Nat /\ doc.parallel \in Nat
  BY <1>1, FS_CardinalityType, DocumentFacts DEF TypeOK
<1>4. Cardinality(Launched') =< doc'.parallel
  BY <1>2, <1>3 DEF RoundIsAllowed
<1>5. \A n \in Launched' : P!MayRun(n)'
  BY <1>1, SameRight DEF RoundIsAllowed
<1> QED
  BY <1>4, <1>5 DEF RoundIsAllowed

LEMMA RoundStaysAllowed ==
    TypeOK /\ LimitsInv /\ LedgerInv /\ RoundIsAllowed /\ TypeOK' /\ [Next]_vars => RoundIsAllowed'
<1> SUFFICES ASSUME TypeOK, LimitsInv, LedgerInv, RoundIsAllowed, TypeOK', [Next]_vars
             PROVE  RoundIsAllowed'
  OBVIOUS
<1>0. Node \subseteq Coroutine /\ Main \in Coroutine /\ Main \notin Node
  BY RunAssumption DEF RunAssumption, Coroutine
<1>1. main = "round" => Launched = {}
  BY DEF LimitsInv, Working, LedgerInv, Launched
<1>2. ASSUME NEW k \in Coroutine, Step(k)
      PROVE  RoundIsAllowed'
  <2>1. /\ Running(k) /\ \A c \in Coroutine \ { k } : stack'[c] = stack[c]
        /\ doc' = doc /\ status' = status
    BY <1>2, StepIsOwn
  <2>2. StepLeaves(k)
    BY <1>2, <2>1, StepLedger DEF LedgerInv
  <2>3. \A n \in Node \ { k } : (Running(n)' <=> Running(n)) /\ result'[n] = result[n]
    BY <1>0, <2>1, <2>2 DEF StepLeaves, Running
  <2>4. Launched' \subseteq Launched
    BY <2>1, <2>3 DEF Launched
  <2> QED
    BY <2>1, <2>4, FewerLaunched
<1>3. CASE Launch
  <2> DEFINE st == AfterSkips(doc, status)
  <2>1. PICK S \in SUBSET Node : /\ Picks(doc, st, S)
                                /\ stack' = [ k \in Coroutine |-> IF k \in S THEN << Enter("graph", k) >> ELSE <<>> ]
    BY <1>3 DEF Launch
  <2>2. main = "round" /\ doc' = doc /\ status' = st /\ result' = result
    BY <1>3 DEF Launch, Decide, RoundBegins
  <2>3. Launched' = S
    BY <1>0, <1>1, <2>1, <2>2 DEF Launched, Running
  <2>4. \A n \in S : Enabled(doc, st, n)
    BY <2>1 DEF Picks, Ready
  <2> HIDE DEF st
  <2>5. Cardinality(S) =< doc.parallel
    BY <2>1, PicksAreLimited DEF TypeOK
  <2>6. \A n \in S : P!MayRun(n)'
    BY <2>2, <2>4, MayRunNext
  <2> QED
    BY <2>2, <2>3, <2>5, <2>6 DEF RoundIsAllowed
<1>4. CASE Block
  <2>1. doc' = doc /\ stack' = stack /\ result' = result /\ Launched = {}
    BY <1>1, <1>4 DEF Block, idle, RoundBegins
  <2>2. Launched' = {}
    BY <2>1 DEF Launched, Running
  <2> QED
    BY <2>1, <2>2, FewerLaunched
<1>5. CASE GatherEnds
  <2>1. doc' = doc /\ stack' = stack /\ result' = [ n \in Node |-> "none" ] /\ \A n \in Node : ~Running(n)
    BY <1>5 DEF GatherEnds
  <2>2. Launched' = {}
    BY <2>1 DEF Launched, Running
  <2> QED
    BY <2>1, <2>2, FewerLaunched
<1>6. ASSUME UNCHANGED <<doc, status, result>>, \A n \in Node : stack'[n] = stack[n] \/ stack'[n] = <<>>
      PROVE  RoundIsAllowed'
  <2>1. Launched' \subseteq Launched
    BY <1>6 DEF Launched, Running
  <2> QED
    BY <1>6, <2>1, FewerLaunched
<1>7. CASE Compensate
  BY <1>0, <1>6, <1>7 DEF Compensate, TypeOK
<1>8. CASE Interrupt
  BY <1>0, <1>6, <1>8 DEF Interrupt
<1>9. CASE UNCHANGED <<doc, status, stack, result>>
  BY <1>6, <1>9
<1>10. CASE ScopeEnds \/ RoundCancelled \/ BudgetExceeded
  BY <1>9, <1>10 DEF ScopeEnds, RoundCancelled, BudgetExceeded, idle
<1>11. CASE Conclude \/ OutputsMissing \/ Break \/ CancelRun \/ Persist \/ SettleRoot \/ SettleBroken
  BY <1>9, <1>11 DEF Conclude, OutputsMissing, Break, CancelRun, Persist, SettleRoot, SettleBroken, control
<1>12. CASE (\E s \in UserMoves : UserControl(s)) \/ Done \/ UNCHANGED vars
  BY <1>9, <1>12 DEF UserControl, Done, control, vars
<1> QED
  BY <1>2, <1>3, <1>4, <1>5, <1>7, <1>8, <1>10, <1>11, <1>12 DEF Next, MainStep

(* What the table allows of the moves run() and the user make.              *)
LEMMA RootMoves ==
    /\ \A s : CanMove("succeeded", s) => s = "queued"
    /\ \A s : CanMove("cancelled", s) => s = "queued"
BY DEF CanMove, Transitions

LEMMA EndStaysJustified ==
    TypeOK /\ LimitsInv /\ EndIsJustified /\ [Next]_vars => EndIsJustified'
<1> SUFFICES ASSUME TypeOK, LimitsInv, EndIsJustified, [Next]_vars PROVE EndIsJustified'
  OBVIOUS
<1>1. ASSUME NEW k \in Coroutine, Step(k)
      PROVE  EndIsJustified'
  <2>1. /\ Running(k) /\ UNCHANGED <<status, outcome, stored, root>>
        /\ main' = main \/ (k = Main /\ main' \in { "cancelling", "escaped" })
    BY <1>1, StepIsOwn
  <2>2. CASE main' = main
    BY <2>1, <2>2 DEF EndIsJustified
  <2>3. CASE k = Main /\ main' \in { "cancelling", "escaped" }
    <3>1. main \in { "undoFailed", "undoBroken" }
      BY <2>1, <2>3 DEF LimitsInv
    <3> QED
      BY <2>1, <2>3, <3>1 DEF EndIsJustified
  <2> QED
    BY <2>1, <2>2, <2>3
<1>2. ASSUME UNCHANGED <<outcome, stored, root>>,
             main \in { "round", "gather", "conclude", "undoFailed", "undoBroken" },
             main' \in { "round", "gather", "conclude", "broken", "cancelling", "escaped" }
      PROVE  EndIsJustified'
  BY <1>2 DEF EndIsJustified
<1>3. CASE ScopeEnds \/ RoundCancelled \/ BudgetExceeded \/ Launch \/ Block \/ GatherEnds \/ OutputsMissing
  <2>1. /\ UNCHANGED <<outcome, stored, root>>
        /\ main \in { "round", "gather", "conclude" }
        /\ main' \in { "round", "gather", "conclude", "broken", "cancelling" }
    BY <1>3 DEF ScopeEnds, RoundCancelled, BudgetExceeded, Launch, Block, GatherEnds, OutputsMissing, RoundBegins, idle
  <2> QED
    BY <1>2, <2>1
<1>4. CASE Interrupt
  <2>1. /\ UNCHANGED <<outcome, stored, root>>
        /\ main \in { "round", "gather", "undoFailed", "undoBroken" }
        /\ main' \in { "cancelling", "escaped" }
    BY <1>4 DEF Interrupt, durable
  <2> QED
    BY <1>2, <2>1
<1>5. CASE Conclude
  BY <1>5 DEF Conclude, control, EndIsJustified
<1>6. CASE Break \/ Compensate
  BY <1>6 DEF Break, Compensate, Compensating, control, EndIsJustified
<1>7. CASE SettleRoot
  <2>1. /\ main = "settle" \/ (main = "undoFailed" /\ UNCHANGED <<outcome, stored, status>>)
        /\ outcome \in { "succeeded", "failed" } /\ stored = "running" /\ root # "succeeded"
    BY <1>7 DEF SettleRoot, EndIsJustified, control
  <2>2. CASE root' = outcome /\ main' = "persist"
    BY <1>7, <2>1, <2>2 DEF SettleRoot, EndIsJustified, control
  <2>3. CASE root' = root /\ main' = "broken"
    BY <1>7, <2>1, <2>3 DEF SettleRoot, EndIsJustified, control
  <2> QED
    BY <1>7, <2>2, <2>3 DEF SettleRoot
<1>8. CASE SettleBroken
  BY <1>8 DEF SettleBroken, EndIsJustified, control
<1>9. CASE CancelRun \/ Persist
  BY <1>9 DEF CancelRun, Persist, EndIsJustified, control
<1>10. ASSUME NEW s \in UserMoves, UserControl(s)
       PROVE  EndIsJustified'
  <2>1. root' # "succeeded" /\ root # "succeeded" /\ UNCHANGED <<status, outcome, stored, main>>
    BY <1>10, RunAssumption, RootMoves DEF UserControl, RunAssumption, control
  <2> QED
    BY <2>1 DEF EndIsJustified
<1>11. CASE Done \/ UNCHANGED vars
  BY <1>11 DEF Done, vars, EndIsJustified
<1> QED
  BY <1>1, <1>3, <1>4, <1>5, <1>6, <1>7, <1>8, <1>9, <1>10, <1>11 DEF Next, MainStep

(* A decision that the pass of skips takes.                                 *)
LEMMA SkipHasReason ==
    ASSUME TypeOK, NEW n \in Unrouted(doc, status)
    PROVE  P!Unreachable(n)
<1>1. P!Into(n) = Incoming(doc, n) /\ P!Decided = Terminal
  BY DEF P!Into, Incoming, P!Decided, Terminal
<1>2. /\ n \in Node /\ Incoming(doc, n) # {}
      /\ \A e \in Incoming(doc, n) : ~IsOpen(status, e) /\ ~IsActive(status, e)
  BY DEF Unrouted
<1>3. P!Taken(n) = {}
  BY <1>1, <1>2 DEF P!Taken, Incoming, IsActive, Fires
<1>4. \A m \in P!Sources(n) : status[m] \in P!Decided
  BY <1>1, <1>2 DEF P!Sources, IsOpen
<1> QED
  BY <1>1, <1>2, <1>3, <1>4 DEF P!Unreachable

(* Steps that decide nodes.                                                 *)
LEMMA DecideNodesStep ==
    ASSUME TypeOK, UNCHANGED <<doc, root, stored>>, status' \in [ Node -> NodeStatus ],
           \A n \in Node : status'[n] # status[n] => status[n] = "pending" /\ P!Reason(n, status'[n]),
           Cardinality(P!Ran) =< doc.parallel
    PROVE  [P!Next]_(P!promised)
<1>1. CASE status' = status
  BY <1>1 DEF P!promised
<1>2. CASE status' # status
  BY <1>2, SameCardinality DEF P!DecideNodes, P!Next
<1> QED
  BY <1>1, <1>2

LEMMA LaunchKeepsPromise ==
    ASSUME TypeOK, TypeOK', Launch
    PROVE  [P!Next]_(P!promised)
<1>1. UNCHANGED <<doc, root, stored>> /\ status' = AfterSkips(doc, status)
  BY DEF Launch, Decide
<1>2. ASSUME NEW n \in Node, status'[n] # status[n]
      PROVE  status[n] = "pending" /\ status'[n] = "skipped" /\ P!Reason(n, status'[n])
  <2>1. n \in Unrouted(doc, status) /\ status'[n] = "skipped" /\ status[n] = "pending"
    BY <1>1, <1>2 DEF AfterSkips, Unrouted
  <2> QED
    BY <2>1, SkipHasReason DEF P!Reason
<1>3. P!Ran = {}
  BY <1>2 DEF P!Ran
<1>4. Cardinality(P!Ran) =< doc.parallel
  BY <1>3, FS_EmptySet, DocumentFacts DEF TypeOK
<1> QED
  BY <1>1, <1>2, <1>4, DecideNodesStep DEF TypeOK

LEMMA BlockKeepsPromise ==
    ASSUME TypeOK, TypeOK', Block
    PROVE  [P!Next]_(P!promised)
<1> DEFINE st == AfterSkips(doc, status)
<1>1. /\ UNCHANGED <<doc, root, stored>> /\ Picks(doc, st, {})
      /\ status' = [ n \in Node |-> IF st[n] = "pending" THEN "blocked" ELSE st[n] ]
  BY DEF Block, Decide, idle
<1>2. \A n \in Node : st[n] = IF n \in Unrouted(doc, status) THEN "skipped" ELSE status[n]
  BY DEF AfterSkips
<1>3. \A n \in Unrouted(doc, status) : status[n] = "pending"
  BY DEF Unrouted
<1>4. Ready(doc, st) = {}
  <2>1. {} = { n \in Ready(doc, st) :
               /\ Cardinality({} \cap Earlier(doc, n)) < doc.parallel
               /\ \A m \in {} \cap Earlier(doc, n) : doc.group[n] # NoGroup => doc.group[m] # doc.group[n] }
    BY <1>1 DEF Picks
  <2>2. \A n : Cardinality({} \cap Earlier(doc, n)) = 0
    BY FS_EmptySet
  <2>3. 0 < doc.parallel
    BY DocumentFacts DEF TypeOK
  <2> QED
    BY <2>1, <2>2, <2>3
<1>5. \A n \in Node : st[n] = "pending" => ~P!MayRun(n)
  <2>1. \A n \in Node : st[n] = "pending" => ~Enabled(doc, st, n)
    BY <1>4 DEF Ready
  <2> QED
    BY <2>1, EnabledAfterSkips, EnabledMayRun
<1> HIDE DEF st
<1>6. ASSUME NEW n \in Node, status'[n] # status[n]
      PROVE  status[n] = "pending" /\ status'[n] \in { "skipped", "blocked" } /\ P!Reason(n, status'[n])
  <2>1. CASE n \in Unrouted(doc, status)
    <3>1. status[n] = "pending" /\ status'[n] = "skipped" /\ P!Unreachable(n)
      BY <1>1, <1>2, <1>3, <2>1, SkipHasReason
    <3> QED
      BY <3>1 DEF P!Reason
  <2>2. CASE n \notin Unrouted(doc, status)
    <3>1. status[n] = "pending" /\ status'[n] = "blocked" /\ ~P!MayRun(n)
      BY <1>1, <1>2, <1>5, <1>6, <2>2
    <3> QED
      BY <3>1 DEF P!Reason
  <2> QED
    BY <2>1, <2>2
<1>7. P!Ran = {}
  BY <1>6 DEF P!Ran
<1>8. Cardinality(P!Ran) =< doc.parallel
  BY <1>7, FS_EmptySet, DocumentFacts DEF TypeOK
<1> QED
  BY <1>1, <1>6, <1>8, DecideNodesStep DEF TypeOK

LEMMA GatherKeepsPromise ==
    ASSUME TypeOK, TypeOK', LedgerInv, RoundIsAllowed, GatherEnds
    PROVE  [P!Next]_(P!promised)
<1> DEFINE halts == doc.halt /\ \E n \in Node : Gathered(n) = "failed"
<1>1. /\ UNCHANGED <<doc, root, stored>>
      /\ status' = [ n \in Node |-> IF halts /\ Gathered(n) = "pending" THEN "skipped" ELSE Gathered(n) ]
  BY DEF GatherEnds, Decide
<1>2. \A n \in Node : result[n] \in NodeOutcome \cup { "none", "raised" }
  BY DEF TypeOK
<1>3. halts => doc.halt /\ \E m \in Node : status'[m] = "failed"
  BY <1>1
<1> HIDE DEF halts
<1>4. ASSUME NEW n \in Node, status'[n] # status[n]
      PROVE  status[n] = "pending" /\ P!Reason(n, status'[n])
  <2>1. CASE result[n] = "none"
    <3>1. halts /\ status[n] = "pending" /\ status'[n] = "skipped"
      BY <1>1, <1>4, <2>1 DEF Gathered
    <3> QED
      BY <1>3, <3>1 DEF P!Reason
  <2>2. CASE result[n] # "none"
    <3>1. status[n] = "pending" /\ P!MayRun(n)
      BY <2>2 DEF LedgerInv, RoundIsAllowed, Launched
    <3>2. status'[n] \in NodeOutcome
      BY <1>1, <1>2, <2>2 DEF Gathered, NodeOutcome
    <3> QED
      BY <3>1, <3>2 DEF P!Reason, NodeOutcome
  <2> QED
    BY <2>1, <2>2
<1>5. P!Ran \subseteq Launched
  <2>1. ASSUME NEW n \in Node, result[n] = "none", status'[n] # status[n]
        PROVE  status'[n] = "skipped"
    BY <1>1, <2>1 DEF Gathered
  <2> QED
    BY <2>1 DEF P!Ran, Launched
<1>6. IsFiniteSet(Launched)
  BY RunAssumption, FS_Subset DEF RunAssumption, Launched
<1>7. Cardinality(P!Ran) =< Cardinality(Launched) /\ IsFiniteSet(P!Ran)
  BY <1>5, <1>6, FS_Subset
<1>8. Cardinality(P!Ran) \in Nat /\ Cardinality(Launched) \in Nat /\ doc.parallel \in Nat
  BY <1>6, <1>7, FS_CardinalityType, DocumentFacts DEF TypeOK
<1>9. Cardinality(P!Ran) =< doc.parallel
  BY <1>7, <1>8 DEF RoundIsAllowed
<1> QED
  BY <1>1, <1>4, <1>9, DecideNodesStep DEF TypeOK

LEMMA EveryStepKeepsPromise ==
    TypeOK /\ LimitsInv /\ LedgerInv /\ PromiseInv /\ TypeOK' /\ [Next]_vars => [P!Next]_(P!promised)
<1> SUFFICES ASSUME TypeOK, LimitsInv, LedgerInv, PromiseInv, TypeOK', [Next]_vars
             PROVE  [P!Next]_(P!promised)
  OBVIOUS
<1>1. ASSUME UNCHANGED <<doc, status, root, stored>>
      PROVE  [P!Next]_(P!promised)
  BY <1>1 DEF P!promised
<1>2. CASE \E k \in Coroutine : Step(k)
  BY <1>1, <1>2, StepIsOwn
<1>3. CASE Launch \/ Block \/ GatherEnds
  BY <1>3, LaunchKeepsPromise, BlockKeepsPromise, GatherKeepsPromise DEF PromiseInv
<1>4. CASE ScopeEnds \/ RoundCancelled \/ BudgetExceeded \/ Conclude \/ OutputsMissing \/ Break \/ Compensate \/ Interrupt \/ Done \/ UNCHANGED vars
  BY <1>1, <1>4 DEF ScopeEnds, RoundCancelled, BudgetExceeded, Conclude, OutputsMissing, Break, Compensate, Interrupt, Done, idle, control, durable, vars
<1>5. CASE SettleRoot
  <2>1. /\ UNCHANGED <<doc, status, stored>> /\ root # "succeeded"
        /\ outcome \in { "succeeded", "failed" }
        /\ outcome = "succeeded" => ~RunFailed(status)
    BY <1>5 DEF SettleRoot, control, PromiseInv, EndIsJustified
  <2>2. root' = root \/ (root' = outcome /\ CanMove(root, outcome))
    BY <1>5 DEF SettleRoot, RootTakes
  <2>3. root' # root => P!MoveRoot
    BY <2>1, <2>2, RootMoves DEF P!MoveRoot, RunFailed
  <2> QED
    BY <1>1, <2>1, <2>3 DEF P!Next
<1>6. CASE SettleBroken
  <2>1. /\ UNCHANGED <<doc, status, stored>>
        /\ root' = root \/ (root' = "failed" /\ CanMove(root, "failed"))
    BY <1>6 DEF SettleBroken, control, RootTakes
  <2>2. root' # root => P!MoveRoot
    BY <2>1, RootMoves DEF P!MoveRoot
  <2> QED
    BY <1>1, <2>1, <2>2 DEF P!Next
<1>7. CASE CancelRun
  <2>1. /\ UNCHANGED <<doc, status>> /\ root' = "cancelled" /\ stored' = "cancelled"
        /\ stored = "running"
    BY <1>7 DEF CancelRun, control, PromiseInv, EndIsJustified
  <2> QED
    BY <2>1 DEF P!Publish, P!Next
<1>8. CASE Persist
  <2>1. /\ UNCHANGED <<doc, status, root>> /\ stored' = outcome /\ stored = "running"
        /\ outcome \in { "succeeded", "failed" }
        /\ outcome = "succeeded" <=> root = "succeeded"
    BY <1>8 DEF Persist, control, PromiseInv, EndIsJustified
  <2> QED
    BY <2>1 DEF P!Publish, P!Next
<1>9. ASSUME NEW s \in UserMoves, UserControl(s)
      PROVE  [P!Next]_(P!promised)
  <2>1. UNCHANGED <<doc, status, stored>> /\ root' = s /\ CanMove(root, s)
    BY <1>9 DEF UserControl, control
  <2>2. s # "succeeded" /\ s # "queued"
    BY RunAssumption DEF RunAssumption
  <2>3. root' # root => P!MoveRoot
    BY <2>1, <2>2, RootMoves DEF P!MoveRoot
  <2> QED
    BY <1>1, <2>1, <2>3 DEF P!Next
<1> QED
  BY <1>2, <1>3, <1>4, <1>5, <1>6, <1>7, <1>8, <1>9 DEF Next, MainStep

(* For every set of documents over any finite set of nodes: a node is       *)
(* decided at most once and for a reason its document gives, no round       *)
(* executes more than it may, the record is saved once, and one that says   *)
(* "succeeded" is true (run(), _run_scope and the ledger together).         *)
THEOREM RunKeepsPromise == Spec => KeepsPromise
<1>1. Init => P!Init /\ TypeOK /\ LimitsInv /\ LedgerInv /\ PromiseInv
  BY TypeInitially, LimitsInitially, LedgerInitially, PromiseInitially
<1>2. TypeOK /\ LimitsInv /\ LedgerInv /\ PromiseInv /\ [Next]_vars
        => /\ (TypeOK /\ LimitsInv /\ LedgerInv /\ PromiseInv)'
           /\ [P!Next]_(P!promised)
  BY TypeIsKept, LimitsAreKept, LedgerIsKept, RoundStaysAllowed, EndStaysJustified,
     EveryStepKeepsPromise DEF PromiseInv
<1> QED
  BY <1>1, <1>2, PTL DEF Spec, KeepsPromise, P!Spec

-----------------------------------------------------------------------------
(* Compensation.                                                            *)

LEMMA RangeOfAppend ==
    ASSUME NEW s \in Seq(Node), NEW n \in Node
    PROVE  Range(s) \subseteq Range(Append(s, n)) /\ n \in Range(Append(s, n))
<1>1. /\ DOMAIN s = 1..Len(s) /\ DOMAIN Append(s, n) = 1..(Len(s) + 1) /\ Len(s) \in Nat
      /\ \A i \in 1..Len(s) : Append(s, n)[i] = s[i]
      /\ Append(s, n)[Len(s) + 1] = n
  OBVIOUS
<1>2. \A i \in 1..Len(s) : i \in DOMAIN Append(s, n)
  BY <1>1
<1>3. Len(s) + 1 \in DOMAIN Append(s, n)
  BY <1>1
<1> QED
  BY <1>1, <1>2, <1>3 DEF Range

LEMMA RangeOfReverse ==
    ASSUME NEW s \in Seq(Node)
    PROVE  Range(s) \subseteq Range(Reverse(s))
<1>1. /\ DOMAIN s = 1..Len(s) /\ DOMAIN Reverse(s) = 1..Len(s) /\ Len(s) \in Nat
      /\ \A i \in 1..Len(s) : Reverse(s)[i] = s[(Len(s) - i) + 1]
  BY DEF Reverse
<1>2. ASSUME NEW i \in 1..Len(s)
      PROVE  (Len(s) - i) + 1 \in 1..Len(s) /\ Reverse(s)[(Len(s) - i) + 1] = s[i]
  <2>1. (Len(s) - i) + 1 \in 1..Len(s) /\ (Len(s) - ((Len(s) - i) + 1)) + 1 = i
    BY <1>1
  <2> QED
    BY <1>1, <2>1
<1> QED
  BY <1>1, <1>2 DEF Range

LEMMA RangeOfTail ==
    ASSUME NEW s \in Seq(Node), s # <<>>, NEW n \in Range(s), n # Head(s)
    PROVE  n \in Range(Tail(s))
<1>1. /\ DOMAIN s = 1..Len(s) /\ DOMAIN Tail(s) = 1..(Len(s) - 1) /\ Len(s) \in Nat
      /\ \A i \in 1..(Len(s) - 1) : Tail(s)[i] = s[i + 1]
      /\ Head(s) = s[1]
  OBVIOUS
<1>2. PICK i \in 1..Len(s) : s[i] = n
  BY <1>1 DEF Range
<1>3. i - 1 \in 1..(Len(s) - 1) /\ (i - 1) + 1 = i
  BY <1>1, <1>2
<1> QED
  BY <1>1, <1>2, <1>3 DEF Range

(* What a step of k counts: whatever succeeds is listed, and only the task  *)
(* of k's top frame moves, never back to where there is none.               *)
Counts(k) ==
  /\ undo' = undo
  /\ Range(completed) \subseteq Range(completed')
  /\ \A id \in FullId : task'[id] # task[id] =>
       /\ id = Frm(k).id
       /\ task'[id] # Absent
       /\ task'[id] = "succeeded" => id[2] \in Range(completed')
  /\ \A n \in Node : result'[n] = "succeeded" => result[n] = "succeeded" \/ n \in Range(completed')

LEMMA StepCounts ==
    ASSUME TypeOK, NEW k \in Coroutine, Running(k), Belong(k, stack[k]), Step(k)
    PROVE  Counts(k)
<1> USE DEF scheduling
<1>0. /\ Frm(k).id \in FullId /\ NodeOf(k) \in Node /\ Frm(k) \in Frame
      /\ stack[k] \in Seq(Frame) /\ stack[k] # <<>>
  BY RunningStack DEF TypeOK
<1>1. ASSUME Unwind(k), UNCHANGED <<completed, undo, task>>
      PROVE  Counts(k)
  <2>1. \A n \in Node : result'[n] = result[n] \/ result'[n] = "raised"
    BY <1>1 DEF Unwind, TypeOK
  <2> QED
    BY <1>1, <2>1 DEF Counts
<1>2. ASSUME UNCHANGED <<completed, undo, task, result>>
      PROVE  Counts(k)
  BY <1>2 DEF Counts
<1>3. ASSUME NEW s \in NodeOutcome, Return(k, s)
      PROVE  \A n \in Node : result'[n] # result[n] => n = NodeOf(k) /\ result'[n] = s
  <2>1. CASE Tail(stack[k]) = <<>> /\ k # Main
    <3>1. Frm(k).id = Top(k)
      BY <1>0, <2>1, BelongTop DEF Frm
    <3>2. NodeOf(k) = k
      BY <3>1 DEF NodeOf, Top
    <3>3. result' = [ result EXCEPT ![k] = s ]
      BY <1>3, <2>1 DEF Return
    <3> QED
      BY <3>2, <3>3 DEF TypeOK
  <2>2. CASE Tail(stack[k]) # <<>> \/ k = Main
    BY <1>3, <2>2 DEF Return
  <2> QED
    BY <2>1, <2>2
<1>4. CASE ControlStops(k) \/ EntryRaises(k) \/ StartRefused(k) \/ FinishRefused(k)
  BY <1>1, <1>4 DEF ControlStops, EntryRaises, StartRefused, FinishRefused, Throw
<1>5. CASE GuardFalse(k)
  <2>1. /\ UNCHANGED <<completed, undo>> /\ Return(k, "skipped")
        /\ task' = [ task EXCEPT ![Frm(k).id] = "skipped" ]
    BY <1>5 DEF GuardFalse
  <2>2. \A id \in FullId : task'[id] # task[id] => id = Frm(k).id /\ task'[id] = "skipped"
    BY <1>0, <2>1 DEF TypeOK
  <2>3. \A n \in Node : result'[n] # result[n] => result'[n] = "skipped"
    BY <1>3, <2>1 DEF NodeOutcome
  <2> QED
    BY <2>1, <2>2, <2>3 DEF Counts, Absent
<1>6. CASE Start(k)
  <2>1. UNCHANGED <<completed, undo, result>> /\ task' = [ task EXCEPT ![Frm(k).id] = "running" ]
    BY <1>6 DEF Start
  <2>2. \A id \in FullId : task'[id] # task[id] => id = Frm(k).id /\ task'[id] = "running"
    BY <1>0, <2>1 DEF TypeOK
  <2> QED
    BY <2>1, <2>2 DEF Counts, Absent
<1>7. CASE BeginAttempt(k) \/ \E o \in BodyOutcome : BodyEnds(k, o)
  BY <1>2, <1>7 DEF BeginAttempt, BodyEnds
<1>8. CASE FallbackSkip(k) \/ FallbackAccepts(k) \/ FallbackTakeover(k) \/ RefuseCycle(k) \/ Exhausted(k) \/ CallAlternate(k)
  BY <1>2, <1>8 DEF FallbackSkip, FallbackAccepts, FallbackTakeover, RefuseCycle, Exhausted, CallAlternate, inFallback
<1>9. CASE Finish(k)
  <2> DEFINE s == Frm(k).final
  <2>1. s \in NodeOutcome
    BY <1>0 DEF Frame
  <2>2. /\ undo' = undo /\ Return(k, s) /\ task' = [ task EXCEPT ![Frm(k).id] = s ]
        /\ completed' = IF s = "succeeded" THEN Append(completed, NodeOf(k)) ELSE completed
    BY <1>9 DEF Finish, NodeOf
  <2> HIDE DEF s
  <2>3. Range(completed) \subseteq Range(completed') /\ (s = "succeeded" => NodeOf(k) \in Range(completed'))
    BY <1>0, <2>2, RangeOfAppend DEF TypeOK
  <2>4. \A id \in FullId : task'[id] # task[id] => id = Frm(k).id /\ task'[id] = s
    BY <1>0, <2>2 DEF TypeOK
  <2>5. \A n \in Node : result'[n] # result[n] => n = NodeOf(k) /\ result'[n] = s
    BY <1>3, <2>1, <2>2
  <2>6. s # Absent /\ NodeOf(k) = Frm(k).id[2]
    BY <2>1 DEF NodeOutcome, Absent, NodeOf
  <2> QED
    BY <2>2, <2>3, <2>4, <2>5, <2>6 DEF Counts
<1> QED
  BY <1>4, <1>5, <1>6, <1>7, <1>8, <1>9 DEF Step

(* A step of run()'s own stack: a compensation that has just been entered   *)
(* is tried, and without alternates it stays the only frame.                *)
LEMMA MainTries ==
    ASSUME TypeOK, LimitsInv, LedgerInv, UndoStaysDirect, Step(Main), Running(Main)
    PROVE  /\ UndoStaysDirect'
           /\ \A n \in Node : Undoing(n) /\ main' = main => Tried(doc.compensation[n])'
<1> USE DEF scheduling
<1> DEFINE Same == Running(Main)' => Frm(Main)'.id = Frm(Main).id
<1>0. /\ Main \in Coroutine /\ Belong(Main, stack[Main]) /\ doc' = doc
      /\ Frm(Main) \in Frame /\ Frm(Main).id \in FullId
      /\ stack[Main] \in Seq(Frame) /\ stack[Main] # <<>>
  BY StepIsOwn, RunningStack DEF LedgerInv, Coroutine, TypeOK
<1>1. Tail(stack[Main]) # <<>> => Frm(Main).id[1] = "fallback"
  BY <1>0, BelongTop DEF Frm
<1>2. ASSUME Unwind(Main)
      PROVE  ~Running(Main)'
  BY <1>0, <1>2 DEF Unwind, TypeOK, Running
<1>3. ASSUME NEW f \in Frame, f.id = Frm(Main).id, Goto(Main, f)
      PROVE  Same
  <2>1. stack'[Main] = << f >> \o Tail(stack[Main])
    BY <1>0, <1>3 DEF Goto, TypeOK
  <2>2. Head(stack'[Main]) = f
    BY <1>0, <2>1
  <2> QED
    BY <1>3, <2>2 DEF Frm
<1>4. ASSUME NEW s, Return(Main, s), Frm(Main).id[1] # "fallback"
      PROVE  ~Running(Main)'
  BY <1>0, <1>1, <1>4 DEF Return, TypeOK, Running
<1>5. ASSUME UndoIsDirect
      PROVE  ~CallAlternate(Main)
  <2>1. NodeOf(Main) \in Node /\ Frm(Main).at \in Nat \ {0}
    BY <1>0, RunningStack DEF TypeOK, Frame
  <2>2. Steps(Main) \in Seq(FallbackStep)
    BY <2>1, DocumentFacts DEF TypeOK, Steps
  <2>3. PICK n \in Node : doc.compensation[n] = NodeOf(Main) /\ doc.compensation[n] # NoNode
    BY <1>5 DEF UndoStaysDirect
  <2>4. \A i \in DOMAIN Steps(Main) : Steps(Main)[i].strategy # "alternate_node"
    BY <1>5, <2>3 DEF UndoIsDirect, Steps
  <2>5. ASSUME AtStep(Main, "alternate_node")
        PROVE  Frm(Main).at \in DOMAIN Steps(Main)
    BY <2>1, <2>2, <2>5 DEF AtStep
  <2> QED
    BY <2>4, <2>5 DEF CallAlternate, AtStep
<1>6. CASE ControlStops(Main) \/ EntryRaises(Main) \/ StartRefused(Main) \/ FinishRefused(Main)
  <2>1. ~Running(Main)'
    BY <1>2, <1>6 DEF ControlStops, EntryRaises, StartRefused, FinishRefused, Throw
  <2>2. ASSUME NEW n \in Node, Undoing(n), main' = main
        PROVE  Tried(doc.compensation[n])'
    <3>1. CASE ControlStops(Main)
      <4>1. main' \in { "cancelling", "escaped" } /\ main \in { "undoFailed", "undoBroken" }
        BY <3>1, <2>2 DEF ControlStops, LimitsInv
      <4> QED
        BY <2>2, <4>1
    <3>2. CASE EntryRaises(Main)
      <4>1. doc.compensation[n] \in doc.guarded \cup doc.fragile
        BY <2>2, <3>2 DEF EntryRaises, Undoing, NodeOf
      <4> QED
        BY <1>0, <4>1 DEF Tried
    <3>3. CASE StartRefused(Main)
      <4>1. task[Frm(Main).id] # Absent /\ task' = task
        BY <3>3 DEF StartRefused, TaskTakes, CanMove, Transitions
      <4> QED
        BY <1>0, <2>2, <4>1 DEF Tried, Undoing
    <3>4. CASE FinishRefused(Main)
      BY <2>2, <3>4 DEF FinishRefused, Undoing
    <3> QED
      BY <1>6, <3>1, <3>2, <3>3, <3>4
  <2> QED
    BY <2>1, <2>2 DEF UndoStaysDirect
<1>7. CASE GuardFalse(Main)
  <2>1. Return(Main, "skipped") /\ task' = [ task EXCEPT ![Frm(Main).id] = "skipped" ]
    BY <1>7 DEF GuardFalse
  <2>2. UndoIsDirect => ~Running(Main)'
    BY <1>4, <2>1 DEF UndoStaysDirect
  <2>3. ASSUME NEW n \in Node, Undoing(n)
        PROVE  Tried(doc.compensation[n])'
    BY <1>0, <2>1, <2>3 DEF Undoing, Tried, TypeOK, Absent
  <2> QED
    BY <1>0, <2>2, <2>3 DEF UndoStaysDirect, UndoIsDirect
<1>8. CASE Finish(Main)
  <2>1. Return(Main, Frm(Main).final) /\ Frm(Main).pc = "finish"
    BY <1>8 DEF Finish
  <2>2. UndoIsDirect => ~Running(Main)'
    BY <1>4, <2>1 DEF UndoStaysDirect
  <2> QED
    BY <1>0, <2>1, <2>2 DEF UndoStaysDirect, UndoIsDirect, Undoing
<1>9. ASSUME Same
      PROVE  UndoStaysDirect'
  BY <1>0, <1>9 DEF UndoStaysDirect, UndoIsDirect, NodeOf, Running
<1>10. CASE Start(Main)
  <2>1. /\ Goto(Main, [ Frm(Main) EXCEPT !.pc = "attempt", !.attempt = 1 ])
        /\ task' = [ task EXCEPT ![Frm(Main).id] = "running" ]
    BY <1>10 DEF Start
  <2>2. Same
    BY <1>0, <1>3, <2>1, StartedType
  <2>3. ASSUME NEW n \in Node, Undoing(n)
        PROVE  Tried(doc.compensation[n])'
    BY <1>0, <2>1, <2>3 DEF Undoing, Tried, TypeOK, Absent
  <2> QED
    BY <1>9, <2>2, <2>3
<1>11. CASE BeginAttempt(Main)
  <2>1. Goto(Main, [ Frm(Main) EXCEPT !.pc = "body" ]) /\ Frm(Main).pc = "attempt"
    BY <1>11 DEF BeginAttempt
  <2>2. Same
    BY <1>0, <1>3, <2>1, MovedType
  <2> QED
    BY <1>9, <2>1, <2>2 DEF Undoing
<1>12. ASSUME NEW o \in BodyOutcome, BodyEnds(Main, o)
       PROVE  Same /\ Frm(Main).pc # "enter"
  BY <1>0, <1>3, <1>12, BodyFrame DEF BodyEnds
<1>13. CASE FallbackSkip(Main) \/ FallbackAccepts(Main) \/ FallbackTakeover(Main) \/ RefuseCycle(Main) \/ Exhausted(Main)
  <2>1. Frm(Main).pc = "fallback"
    BY <1>13 DEF FallbackSkip, FallbackAccepts, FallbackTakeover, RefuseCycle, Exhausted, AtStep
  <2>2. Same
    BY <1>0, <1>3, <1>13, FallbackFrame
  <2> QED
    BY <1>9, <2>1, <2>2 DEF Undoing
<1>14. CASE CallAlternate(Main)
  <2>1. ~UndoIsDirect /\ Frm(Main).pc = "fallback"
    BY <1>5, <1>14 DEF CallAlternate, AtStep
  <2> QED
    BY <1>0, <2>1 DEF UndoStaysDirect, UndoIsDirect, Undoing
<1>15. CASE \E o \in BodyOutcome : BodyEnds(Main, o)
  BY <1>9, <1>12, <1>15 DEF Undoing
<1> QED
  BY <1>6, <1>7, <1>8, <1>10, <1>11, <1>13, <1>14, <1>15 DEF Step

LEMMA UndoInitially == Init => UndoInv
<1> SUFFICES ASSUME Init PROVE UndoInv
  OBVIOUS
<1>1. /\ \A id \in FullId : id[1] # "graph" => task[id] = Absent
      /\ \A n \in Node : <<"fallback", n>> \in FullId /\ <<"compensation", n>> \in FullId
  BY DEF Init, FullId, Scope
<1>2. NothingUndone
  BY <1>1 DEF NothingUndone
<1>3. SuccessIsListed
  BY <1>1 DEF Init, SuccessIsListed, Absent
<1> QED
  BY <1>2, <1>3, RunAssumption
     DEF RunAssumption, Init, UndoInv, UndoComesLast, UndoStaysDirect, UndoGoesOn, UndoIsOver,
         UndoneIffFailed, Running, Coroutine

(* Until the record is saved there is nothing to show for the compensation. *)
LEMMA NotSavedYet == EndIsJustified /\ main \notin { "returned", "cancelled" } => UndoneIffFailed
BY DEF EndIsJustified, UndoneIffFailed

LEMMA NotSavedNext == (EndIsJustified /\ main \notin { "returned", "cancelled" } => UndoneIffFailed)'
BY NotSavedYet, PTL

LEMMA StepKeepsUndo ==
    ASSUME TypeOK, LimitsInv, LedgerInv, EndIsJustified', UndoInv, NEW k \in Coroutine, Step(k)
    PROVE  UndoInv'
<1>0. /\ Running(k) /\ \A c \in Coroutine \ { k } : stack'[c] = stack[c]
      /\ UNCHANGED <<doc, status, outcome, stored, root>>
      /\ main' = main \/ (k = Main /\ main' \in { "cancelling", "escaped" })
  BY StepIsOwn
<1>1. /\ Counts(k) /\ Frm(k).id \in FullId /\ stack[k] \in Seq(Frame) /\ stack[k] # <<>>
      /\ Main \in Coroutine /\ Belong(k, stack[k])
  BY <1>0, StepCounts, RunningStack DEF LedgerInv, TypeOK, Coroutine
<1>2. /\ k = Main => main \in { "undoFailed", "undoBroken" }
      /\ k # Main => main = "gather" /\ main' = main
  <2>1. k # Main => Working # {}
    BY <1>0 DEF Working, Coroutine
  <2> QED
    BY <1>0, <2>1 DEF LimitsInv
<1>3. k # Main => Frm(k).id[1] # "compensation"
  <2>1. Tail(stack[k]) # <<>> => Frm(k).id[1] = "fallback"
    BY <1>1, BelongTop DEF Frm
  <2>2. Tail(stack[k]) = <<>> /\ k # Main => Frm(k).id = Top(k)
    BY <1>1, BelongTop DEF Frm
  <2> QED
    BY <2>1, <2>2 DEF Top
<1>4. /\ \A n \in Node : <<"fallback", n>> \in FullId /\ <<"compensation", n>> \in FullId
      /\ \A n \in Node : <<"fallback", n>>[2] = n /\ <<"fallback", n>>[1] = "fallback"
      /\ \A n \in Node : <<"compensation", n>>[1] = "compensation"
  BY DEF FullId, Scope
<1>5. SuccessIsListed'
  <2>1. ASSUME NEW n \in Node, task'[<<"fallback", n>>] = "succeeded"
        PROVE  task[<<"fallback", n>>] = "succeeded" \/ n \in Range(completed')
    <3>1. CASE task'[<<"fallback", n>>] = task[<<"fallback", n>>]
      BY <2>1, <3>1
    <3>2. CASE task'[<<"fallback", n>>] # task[<<"fallback", n>>]
      <4>1. <<"fallback", n>> \in FullId /\ <<"fallback", n>>[2] = n
        BY <1>4
      <4>2. <<"fallback", n>>[2] \in Range(completed')
        BY <1>1, <2>1, <3>2, <4>1 DEF Counts
      <4> QED
        BY <4>1, <4>2
    <3> QED
      BY <3>1, <3>2
  <2>2. /\ Range(completed) \subseteq Range(completed')
        /\ \A n \in Node : result'[n] = "succeeded" => result[n] = "succeeded" \/ n \in Range(completed')
    BY <1>1 DEF Counts
  <2>3. SuccessIsListed /\ doc' = doc /\ status' = status
    BY <1>0 DEF UndoInv
  <2> QED
    BY <2>1, <2>2, <2>3 DEF SuccessIsListed
<1>6. UndoComesLast'
  <2>1. CASE k = Main
    BY <1>0, <1>2, <2>1 DEF UndoComesLast
  <2>2. CASE k # Main
    <3>1. \A c \in Node : task'[<<"compensation", c>>] = task[<<"compensation", c>>]
      BY <1>1, <1>3, <1>4, <2>2 DEF Counts
    <3>2. NothingUndone
      BY <1>2, <2>2 DEF UndoInv, UndoComesLast
    <3> QED
      BY <3>1, <3>2 DEF UndoComesLast, NothingUndone
  <2> QED
    BY <2>1, <2>2
<1>7. UndoStaysDirect'
  <2>1. CASE k = Main
    BY <1>0, <2>1, MainTries DEF UndoInv
  <2>2. CASE k # Main
    <3>1. stack'[Main] = stack[Main]
      BY <1>0, <1>1, <2>2
    <3> QED
      BY <1>0, <3>1 DEF UndoInv, UndoStaysDirect, UndoIsDirect, Running, Frm, NodeOf
  <2> QED
    BY <2>1, <2>2
<1>8. UndoGoesOn'
  <2>1. CASE k # Main \/ main' # main
    BY <1>0, <1>2, <2>1 DEF UndoGoesOn
  <2>2. CASE k = Main /\ main' = main
    <3>1. ASSUME NEW n \in ToUndo'
          PROVE  n \in ToUndo
      <4>1. UndoIsDirect => Frm(Main).id[1] = "compensation"
        BY <1>0, <2>2 DEF UndoInv, UndoStaysDirect
      <4>2. UndoIsDirect => task'[<<"fallback", n>>] = task[<<"fallback", n>>]
        BY <1>1, <1>4, <2>2, <4>1 DEF Counts, ToUndo
      <4> QED
        BY <1>0, <4>2 DEF ToUndo, UndoIsDirect
    <3>2. ASSUME NEW n \in Node, doc.compensation[n] # NoNode, Tried(doc.compensation[n])
          PROVE  Tried(doc.compensation[n])'
      <4>0. doc.compensation \in [ Node -> Node \cup { NoNode } ]
        BY DocumentFacts DEF TypeOK
      <4>1. <<"compensation", doc.compensation[n]>> \in FullId
        BY <1>4, <3>2, <4>0
      <4> QED
        BY <1>0, <1>1, <3>2, <4>1 DEF Tried, Counts
    <3>3. \A n \in Node : Undoing(n) => Tried(doc.compensation[n])'
      BY <1>0, <2>2, MainTries DEF UndoInv
    <3>4. ASSUME NEW n \in ToUndo'
          PROVE  n \in Range(undo') \/ Tried(doc.compensation[n])'
      <4>1. n \in Node /\ doc.compensation[n] # NoNode
        BY <3>1 DEF ToUndo
      <4>2. n \in Range(undo) \/ Undoing(n) \/ Tried(doc.compensation[n])
        BY <1>2, <2>2, <3>1 DEF UndoInv, UndoGoesOn
      <4> QED
        BY <1>1, <3>2, <3>3, <4>1, <4>2 DEF Counts
    <3> QED
      BY <1>0, <3>4 DEF UndoGoesOn
  <2> QED
    BY <2>1, <2>2
<1>9. UndoIsOver' /\ UndoneIffFailed'
  <2>1. main' \notin { "persist", "returned", "cancelled" }
    BY <1>0, <1>2
  <2> QED
    BY <2>1, NotSavedNext DEF UndoIsOver
<1> QED
  BY <1>5, <1>6, <1>7, <1>8, <1>9 DEF UndoInv

(* Steps that decide nodes touch no task but those of the graph.            *)
LEMMA DecidingKeepsUndo ==
    ASSUME TypeOK, EndIsJustified', UndoInv, NEW st, Decide(st),
           UNCHANGED <<doc, completed>>, main = "round" \/ main = "gather",
           main' \in { "round", "gather", "conclude" },
           \A n \in Node : /\ st[n] = "succeeded" => status[n] = "succeeded" \/ result[n] = "succeeded"
                           /\ result'[n] \in { result[n], "none" },
           ~Running(Main)'
    PROVE  UndoInv'
<1>1. /\ status' = st
      /\ \A n \in Node : task'[<<"fallback", n>>] = task[<<"fallback", n>>]
      /\ \A n \in Node : task'[<<"compensation", n>>] = task[<<"compensation", n>>]
  BY DEF Decide, FullId, Scope
<1>2. SuccessIsListed'
  BY <1>1 DEF UndoInv, SuccessIsListed
<1>3. NothingUndone'
  BY <1>1 DEF UndoInv, UndoComesLast, NothingUndone
<1> QED
  BY <1>2, <1>3, NotSavedNext DEF UndoInv, UndoComesLast, UndoStaysDirect, UndoGoesOn, UndoIsOver

(* Steps that leave the nodes and the list alone.                           *)
LEMMA QuietKeepsUndo ==
    ASSUME UndoInv, UNCHANGED <<doc, status, result, completed, task>>
    PROVE  /\ SuccessIsListed' /\ ToUndo' = ToUndo /\ (NothingUndone' <=> NothingUndone)
           /\ \A c : Tried(c)' <=> Tried(c)
           /\ UNCHANGED stack => UndoStaysDirect'
BY DEF UndoInv, SuccessIsListed, ToUndo, UndoIsDirect, NothingUndone, Tried, UndoStaysDirect, Running, Frm, NodeOf

LEMMA ListedIsPlanned ==
    ASSUME TypeOK, UndoInv, NEW n \in ToUndo
    PROVE  n \in Range(Reverse(completed))
<1>1. n \in Range(completed)
  BY DEF UndoInv, SuccessIsListed, ToUndo
<1> QED
  BY <1>1, RangeOfReverse DEF TypeOK

LEMMA CompensateKeepsUndo ==
    ASSUME TypeOK, EndIsJustified', UndoInv, Compensate
    PROVE  UndoInv'
<1>0. /\ UNCHANGED <<doc, status, result, completed, task, main>>
      /\ main \in { "undoFailed", "undoBroken" } /\ ~Running(Main) /\ undo # <<>> /\ undo' = Tail(undo)
      /\ Main \in Coroutine
  BY DEF Compensate, Compensating, Coroutine
<1> DEFINE back == doc.compensation[Head(undo)]
<1>1. Head(undo) \in Node /\ undo \in Seq(Node)
  BY <1>0 DEF TypeOK
<1>2. /\ back = NoNode => stack' = stack
      /\ back # NoNode => stack'[Main] = << Enter("compensation", back) >>
  BY <1>0 DEF Compensate, TypeOK
<1>3. back # NoNode => /\ Running(Main)' /\ Frm(Main)'.pc = "enter"
                       /\ Frm(Main)'.id = <<"compensation", back>>
  BY <1>2 DEF Running, Frm, Enter
<1>4. UndoStaysDirect'
  <2>1. CASE back = NoNode
    BY <1>0, <1>2, <2>1, QuietKeepsUndo
  <2>2. CASE back # NoNode
    <3>1. Frm(Main)'.id[1] = "compensation" /\ NodeOf(Main)' = back
      BY <1>3, <2>2 DEF NodeOf
    <3> QED
      BY <1>0, <1>1, <2>2, <3>1 DEF UndoStaysDirect
  <2> QED
    BY <2>1, <2>2
<1>5. ASSUME NEW n \in ToUndo
      PROVE  n \in Range(undo') \/ Undoing(n)' \/ Tried(doc.compensation[n])'
  <2>1. n \in Range(undo) \/ Tried(doc.compensation[n])
    BY <1>0 DEF UndoInv, UndoGoesOn, Undoing
  <2>2. CASE Tried(doc.compensation[n])
    BY <1>0, <2>2, QuietKeepsUndo
  <2>3. CASE n \in Range(undo) /\ n # Head(undo)
    BY <1>0, <1>1, <2>3, RangeOfTail
  <2>4. CASE n = Head(undo)
    <3>1. back # NoNode
      BY <2>4 DEF ToUndo
    <3> QED
      BY <1>0, <1>3, <2>4, <3>1 DEF Undoing
  <2> QED
    BY <2>1, <2>2, <2>3, <2>4
<1>6. UndoGoesOn'
  BY <1>0, <1>5, QuietKeepsUndo DEF UndoGoesOn
<1>7. UndoComesLast' /\ UndoIsOver' /\ UndoneIffFailed' /\ SuccessIsListed'
  BY <1>0, NotSavedNext, QuietKeepsUndo DEF UndoComesLast, UndoIsOver
<1> QED
  BY <1>4, <1>6, <1>7 DEF UndoInv

(* The end of a compensation: every node to undo was tried.                 *)
LEMMA AllTried ==
    ASSUME UndoInv, main \in { "undoFailed", "undoBroken" }, undo = <<>>, ~Running(Main)
    PROVE  \A n \in ToUndo : Tried(doc.compensation[n])
<1>1. Range(undo) = {}
  BY DEF Range
<1> QED
  BY <1>1 DEF UndoInv, UndoGoesOn, Undoing

LEMMA UndoIsKept ==
    TypeOK /\ LimitsInv /\ LedgerInv /\ EndIsJustified /\ UndoInv /\ EndIsJustified' /\ [Next]_vars => UndoInv'
<1> SUFFICES ASSUME TypeOK, LimitsInv, LedgerInv, EndIsJustified, UndoInv, EndIsJustified', [Next]_vars
             PROVE  UndoInv'
  OBVIOUS
<1>0. Main \in Coroutine /\ Main \notin Node
  BY RunAssumption DEF RunAssumption, Coroutine
<1>1. main \in { "round", "gather" } => ~Running(Main)
  BY DEF LimitsInv
<1>2. CASE Launch
  <2>1. \A n \in Node : AfterSkips(doc, status)[n] \in { status[n], "skipped" }
    BY DEF AfterSkips
  <2>2. stack'[Main] = <<>>
    BY <1>0, <1>2 DEF Launch
  <2> QED
    BY <1>2, <2>1, <2>2, DecidingKeepsUndo DEF Launch, RoundBegins, Running
<1>3. CASE Block
  <2> DEFINE st == AfterSkips(doc, status)
             left == [ n \in Node |-> IF st[n] = "pending" THEN "blocked" ELSE st[n] ]
  <2>1. \A n \in Node : left[n] \in { status[n], "skipped", "blocked" }
    BY DEF AfterSkips
  <2>2. Decide(left) /\ UNCHANGED <<doc, completed, result, stack>> /\ main = "round" /\ main' = "conclude"
    BY <1>3 DEF Block, RoundBegins, idle
  <2> HIDE DEF left
  <2> QED
    BY <1>1, <2>1, <2>2, DecidingKeepsUndo DEF Running
<1>4. CASE GatherEnds
  <2> DEFINE st == [ n \in Node |-> Gathered(n) ]
             halts == doc.halt /\ \E n \in Node : st[n] = "failed"
             new == [ n \in Node |-> IF halts /\ st[n] = "pending" THEN "skipped" ELSE st[n] ]
  <2>1. \A n \in Node : new[n] = "succeeded" => status[n] = "succeeded" \/ result[n] = "succeeded"
    BY DEF Gathered
  <2>2. /\ Decide(new) /\ UNCHANGED <<doc, completed, stack>> /\ main = "gather"
        /\ main' \in { "conclude", "round" } /\ \A n \in Node : result'[n] = "none"
    BY <1>4 DEF GatherEnds
  <2> HIDE DEF new
  <2> QED
    BY <1>1, <2>1, <2>2, DecidingKeepsUndo DEF Running
<1>5. CASE Compensate
  BY <1>5, CompensateKeepsUndo
<1> DEFINE Quiet == UNCHANGED <<doc, status, result, completed, task>>
<1>6. ASSUME Quiet, UNCHANGED stack, NothingUndone,
             main' \in { "conclude", "settle", "broken", "cancelling" }
      PROVE  UndoInv'
  BY <1>6, NotSavedNext, QuietKeepsUndo DEF UndoInv, UndoComesLast, UndoGoesOn, UndoIsOver
<1>7. ASSUME Quiet, UNCHANGED stack \/ ~Running(Main)', main' \in { "broken", "cancelling", "escaped" }
      PROVE  UndoInv'
  BY <1>7, NotSavedNext, QuietKeepsUndo DEF UndoInv, UndoComesLast, UndoStaysDirect, UndoGoesOn, UndoIsOver
<1>8. CASE ScopeEnds \/ RoundCancelled \/ BudgetExceeded \/ OutputsMissing
  <2>1. /\ Quiet /\ UNCHANGED stack /\ main \in { "round", "conclude" }
        /\ main' \in { "conclude", "broken", "cancelling" }
    BY <1>8 DEF ScopeEnds, RoundCancelled, BudgetExceeded, OutputsMissing, RoundBegins, idle, control
  <2>2. NothingUndone
    BY <2>1 DEF UndoInv, UndoComesLast
  <2> QED
    BY <1>6, <2>1, <2>2
<1>9. ASSUME Quiet, UNCHANGED stack, undo' = Reverse(completed), main' \in { "undoFailed", "undoBroken" }
      PROVE  UndoInv'
  <2>1. UndoGoesOn'
    BY <1>9, ListedIsPlanned, QuietKeepsUndo DEF UndoGoesOn
  <2> QED
    BY <1>9, <2>1, NotSavedNext, QuietKeepsUndo DEF UndoInv, UndoComesLast, UndoIsOver
<1>10. CASE Conclude
  <2>1. Quiet /\ UNCHANGED stack /\ NothingUndone
    BY <1>10 DEF Conclude, control, UndoInv, UndoComesLast
  <2> QED
    BY <1>6, <1>9, <1>10, <2>1 DEF Conclude
<1>11. CASE Break
  BY <1>9, <1>11 DEF Break, control
<1>12. CASE SettleRoot
  <2>1. Quiet /\ UNCHANGED <<stack, outcome>> /\ main' \in { "persist", "broken" }
    BY <1>12 DEF SettleRoot, control
  <2>2. IF outcome = "failed" THEN \A n \in ToUndo : Tried(doc.compensation[n]) ELSE NothingUndone
    BY <1>12, AllTried DEF SettleRoot, Compensating, EndIsJustified, UndoInv, UndoComesLast
  <2> QED
    BY <2>1, <2>2, NotSavedNext, QuietKeepsUndo DEF UndoInv, UndoComesLast, UndoGoesOn, UndoIsOver
<1>13. CASE SettleBroken
  <2>1. Quiet /\ UNCHANGED stack /\ main' = "persist" /\ outcome' = "failed"
    BY <1>13 DEF SettleBroken, control
  <2>2. \A n \in ToUndo : Tried(doc.compensation[n])
    BY <1>13, AllTried DEF SettleBroken, Compensating
  <2> QED
    BY <2>1, <2>2, NotSavedNext, QuietKeepsUndo DEF UndoInv, UndoComesLast, UndoGoesOn, UndoIsOver
<1>14. CASE CancelRun \/ Persist
  <2>1. Quiet /\ UNCHANGED stack /\ main' \in { "returned", "cancelled" }
    BY <1>14 DEF CancelRun, Persist, control
  <2>2. \/ stored' = "cancelled"
        \/ main = "persist" /\ stored' = outcome
    BY <1>14 DEF CancelRun, Persist
  <2>3. UndoneIffFailed'
    BY <2>1, <2>2, QuietKeepsUndo DEF UndoInv, UndoIsOver, UndoneIffFailed
  <2> QED
    BY <2>1, <2>3, QuietKeepsUndo DEF UndoInv, UndoComesLast, UndoGoesOn, UndoIsOver
<1>15. CASE Interrupt
  <2>1. Quiet /\ main' \in { "cancelling", "escaped" } /\ stack'[Main] = <<>>
    BY <1>0, <1>15 DEF Interrupt, durable
  <2> QED
    BY <1>7, <2>1 DEF Running
<1>16. CASE (\E s \in UserMoves : UserControl(s)) \/ Done \/ UNCHANGED vars
  <2>1. Quiet /\ UNCHANGED <<stack, main, undo, outcome, stored>>
    BY <1>16 DEF UserControl, Done, control, vars
  <2>2. \A n \in Node : Undoing(n)' <=> Undoing(n)
    BY <2>1 DEF Undoing, Running, Frm
  <2>3. UndoGoesOn' /\ UndoIsOver' /\ UndoComesLast' /\ UndoneIffFailed'
    BY <2>1, <2>2, QuietKeepsUndo DEF UndoInv, UndoComesLast, UndoGoesOn, UndoIsOver, UndoneIffFailed, ToUndo
  <2> QED
    BY <2>1, <2>3, QuietKeepsUndo DEF UndoInv
<1>17. ASSUME NEW k \in Coroutine, Step(k)
       PROVE  UndoInv'
  BY <1>17, StepKeepsUndo
<1> QED
  BY <1>2, <1>3, <1>4, <1>5, <1>8, <1>10, <1>11, <1>12, <1>13, <1>14, <1>15, <1>16, <1>17
     DEF Next, MainStep

(* For every set of documents, whichever way a run fails, whatever its      *)
(* compensations do and whoever interferes: a run saved as failed has tried *)
(* to undo every node that succeeded, alternates included, and one saved as *)
(* succeeded has undone none (run(), _finish and _compensate).              *)
THEOREM FailuresAreUndone == Spec => []UndoneIffFailed
<1>1. Init => TypeOK /\ LimitsInv /\ LedgerInv /\ EndIsJustified /\ UndoInv
  BY TypeInitially, LimitsInitially, LedgerInitially, PromiseInitially, UndoInitially DEF PromiseInv
<1>2. TypeOK /\ LimitsInv /\ LedgerInv /\ EndIsJustified /\ UndoInv /\ [Next]_vars
        => (TypeOK /\ LimitsInv /\ LedgerInv /\ EndIsJustified /\ UndoInv)'
  BY TypeIsKept, LimitsAreKept, LedgerIsKept, EndStaysJustified, UndoIsKept
<1>3. UndoInv => UndoneIffFailed
  BY DEF UndoInv
<1> QED
  BY <1>1, <1>2, <1>3, PTL DEF Spec
=================================================================================
