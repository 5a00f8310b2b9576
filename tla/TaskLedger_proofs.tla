--------------------------- MODULE TaskLedger_proofs ---------------------------
(***************************************************************************)
(* Proofs about the task ledger: its row and its event log tell the same   *)
(* story in every reachable state, for any set of tasks and files and any  *)
(* bound.  Each operation appends n >= 1 copies of one event to the log of *)
(* one task; the lemmas below say what such a step does to the log, and    *)
(* the invariants are proved from them.                                    *)
(***************************************************************************)
EXTENDS TaskLedger, FiniteSetTheorems, TLAPS

\* The log of t gains n copies of event e and nothing else changes in `log`.
Grows(t, e, n) ==
  /\ log' \in [ Task -> Seq(Event) ]
  /\ Len(log'[t]) = Len(log[t]) + n
  /\ \A i \in 1..Len(log[t]) : log'[t][i] = log[t][i]
  /\ \A i \in (Len(log[t]) + 1)..(Len(log[t]) + n) : log'[t][i] = e
  /\ \A u \in Task \ {t} : log'[u] = log[u]

-----------------------------------------------------------------------------
(* What the operations do, in terms of Grows.                              *)

\* Appending one event, as create, transition and update_context do.
LEMMA AppendGrows ==
  ASSUME log \in [ Task -> Seq(Event) ], NEW t \in Task, NEW e \in Event,
         log' = [ log EXCEPT ![t] = Append(@, e) ]
  PROVE  Grows(t, e, 1)
BY DEF Grows

\* Appending a batch of equal events, as record_events does.
LEMMA BatchGrows ==
  ASSUME log \in [ Task -> Seq(Event) ], NEW t \in Task, NEW e \in Event,
         NEW n \in Nat,
         log' = [ log EXCEPT ![t] = @ \o [ i \in 1..n |-> e ] ]
  PROVE  Grows(t, e, n)
<1> DEFINE batch == [ i \in 1..n |-> e ]
<1>1. batch \in Seq(Event) /\ Len(batch) = n
  OBVIOUS
<1>2. log[t] \in Seq(Event)
  OBVIOUS
<1>3. /\ log[t] \o batch \in Seq(Event)
      /\ Len(log[t] \o batch) = Len(log[t]) + n
  BY <1>1, <1>2
<1>4. \A i \in 1..Len(log[t]) : (log[t] \o batch)[i] = log[t][i]
  BY <1>1, <1>2
<1>5. \A i \in (Len(log[t]) + 1)..(Len(log[t]) + n) : (log[t] \o batch)[i] = e
  BY <1>1, <1>2
<1>6. /\ log'[t] = log[t] \o batch
      /\ \A u \in Task \ {t} : log'[u] = log[u]
      /\ log' \in [ Task -> Seq(Event) ]
  BY <1>3
<1> QED
  BY <1>3, <1>4, <1>5, <1>6 DEF Grows

-----------------------------------------------------------------------------
(* The inductive invariant and the three shapes of a step.                 *)

IInv ==
  /\ TypeOK
  /\ RowMatchesLog
  /\ LogIsLegalRun
  /\ StampsMatchLog
  /\ SettledUntilRetried

\* Nothing happens to the tasks other than t.
OnlyRow(t) == \A u \in Task \ {t} : row'[u] = row[u]

IsCreate(t, s) ==
  /\ ~Exists(t)
  /\ row' \in [ Task -> Row ] /\ OnlyRow(t)
  /\ row'[t] = Created(s)
  /\ Grows(t, Ev("task_created", s), 1)

IsMove(t, s) ==
  /\ Exists(t)
  /\ row[t].state # s /\ CanMove(row[t].state, s)
  /\ row' \in [ Task -> Row ] /\ OnlyRow(t)
  /\ row'[t] = Moved(row[t], s, Len(log[t]) + 1)
  /\ Grows(t, Ev("state_changed", s), 1)

\* record_events and update_context: events that keep the state.
IsKeep(t, type, n) ==
  /\ Exists(t)
  /\ type \in { "recorded", "task_context_updated" } /\ n \in Nat \ {0}
  /\ row' \in [ Task -> Row ] /\ OnlyRow(t)
  /\ row'[t].state = row[t].state
  /\ row'[t].attempt = row[t].attempt
  /\ row'[t].startedAt = row[t].startedAt
  /\ row'[t].finishedAt = row[t].finishedAt
  /\ Grows(t, Ev(type, row[t].state), n)

LEMMA EvType ==
  ASSUME NEW type \in EventType, NEW s \in TaskState
  PROVE  /\ Ev(type, s) \in Event
         /\ Ev(type, s).type = type /\ Ev(type, s).state = s
BY DEF Ev, Event

LEMMA RowStateType ==
  ASSUME TypeOK, NEW t \in Task, Exists(t)
  PROVE  row[t].state \in TaskState
BY DEF TypeOK, Exists, Row, Absent

LEMMA CreatedFields ==
  ASSUME NEW s \in TaskState
  PROVE  /\ Created(s) \in Row
         /\ Created(s).state = s /\ Created(s).attempt = 1
         /\ Created(s).startedAt = IF s \in StartedState THEN 1 ELSE 0
         /\ Created(s).finishedAt = IF s \in FinishedState THEN 1 ELSE 0
<1> DEFINE a == IF s \in StartedState THEN 1 ELSE 0
           b == IF s \in FinishedState THEN 1 ELSE 0
<1>1. a \in Nat /\ b \in Nat
  OBVIOUS
<1>2. Created(s) = [ state |-> s, attempt |-> 1, startedAt |-> a,
                     finishedAt |-> b, files |-> {} ]
  <2> HIDE DEF a, b
  <2>1. Created(s) = [ NoRow EXCEPT !.state = s, !.attempt = 1, !.startedAt = a,
                                    !.finishedAt = b ]
    BY DEF Created, a, b
  <2> QED
    BY <2>1 DEF NoRow
<1> QED
  BY <1>1, <1>2 DEF Row

LEMMA MovedFields ==
  ASSUME NEW r \in Row, NEW s \in TaskState, NEW now \in Nat
  PROVE  /\ Moved(r, s, now) \in Row
         /\ Moved(r, s, now).state = s
         /\ Moved(r, s, now).attempt = NextAttempt(r, s)
         /\ Moved(r, s, now).startedAt = StartStamp(r, s, now)
         /\ Moved(r, s, now).finishedAt = FinishStamp(r, s, now)
<1>1. /\ StartStamp(r, s, now) \in Nat /\ FinishStamp(r, s, now) \in Nat
      /\ NextAttempt(r, s) \in Nat
  BY DEF StartStamp, FinishStamp, NextAttempt, Row
<1> QED
  BY <1>1 DEF Moved, Row

LEMMA MoveFields ==
  ASSUME TypeOK, NEW t \in Task, NEW s \in TaskState, IsMove(t, s)
  PROVE  /\ row'[t].state = s
         /\ row'[t].attempt = NextAttempt(row[t], s)
         /\ row'[t].startedAt = StartStamp(row[t], s, Len(log[t]) + 1)
         /\ row'[t].finishedAt = FinishStamp(row[t], s, Len(log[t]) + 1)
<1> DEFINE now == Len(log[t]) + 1
<1>1. row[t] \in Row /\ now \in Nat
  BY DEF TypeOK
<1>2. row'[t] = Moved(row[t], s, now)
  BY DEF IsMove
<1> HIDE DEF now
<1>3. /\ row'[t].state = s
      /\ row'[t].attempt = NextAttempt(row[t], s)
      /\ row'[t].startedAt = StartStamp(row[t], s, now)
      /\ row'[t].finishedAt = FinishStamp(row[t], s, now)
  BY <1>1, <1>2, MovedFields
<1> QED
  BY <1>3 DEF now

\* Every step of the ledger has one of the three shapes, on one task.
LEMMA StepShapes ==
  ASSUME TypeOK, Next
  PROVE  \E t \in Task :
           \/ \E s \in TaskState : IsCreate(t, s)
           \/ \E s \in TaskState : IsMove(t, s)
           \/ \E type \in EventType, n \in Nat : IsKeep(t, type, n)
<1> USE LedgerAssumption
<1>1. row \in [ Task -> Row ] /\ log \in [ Task -> Seq(Event) ]
  BY DEF TypeOK
<1>2. PICK t \in Task :
        \/ \E s \in TaskState : Create(t, s)
        \/ \E s \in TaskState : Transition(t, s)
        \/ \E n \in 1..MaxBatch : RecordEvents(t, n)
        \/ \E fs \in SUBSET File : UpdateContext(t, fs)
  BY DEF Next
<1>3. CASE \E s \in TaskState : Create(t, s)
  <2>1. PICK s \in TaskState : Create(t, s)
    BY <1>3
  <2>2. Ev("task_created", s) \in Event
    BY EvType DEF EventType
  <2>3. Grows(t, Ev("task_created", s), 1)
    BY <1>1, <2>1, <2>2, AppendGrows DEF Create
  <2>4. Created(s) \in Row
    BY CreatedFields
  <2>5. IsCreate(t, s)
    BY <1>1, <2>1, <2>3, <2>4 DEF Create, IsCreate, OnlyRow
  <2> QED
    BY <2>5
<1>4. CASE \E s \in TaskState : Transition(t, s)
  <2>1. PICK s \in TaskState : Transition(t, s)
    BY <1>4
  <2>2. Ev("state_changed", s) \in Event
    BY EvType DEF EventType
  <2>3. Grows(t, Ev("state_changed", s), 1)
    BY <1>1, <2>1, <2>2, AppendGrows DEF Transition
  <2>4. Moved(row[t], s, Len(log[t]) + 1) \in Row
    BY <1>1, MovedFields
  <2>5. IsMove(t, s)
    BY <1>1, <2>1, <2>3, <2>4 DEF Transition, IsMove, OnlyRow, MayMove, Now
  <2> QED
    BY <2>5
<1>5. CASE \E n \in 1..MaxBatch : RecordEvents(t, n)
  <2>1. PICK n \in 1..MaxBatch : RecordEvents(t, n)
    BY <1>5
  <2>2. row[t].state \in TaskState /\ Ev("recorded", row[t].state) \in Event
    BY <2>1, RowStateType, EvType DEF EventType, RecordEvents
  <2> DEFINE e == Ev("recorded", row[t].state)
  <2>a. n \in Nat /\ n # 0 /\ e \in Event
    BY <2>2
  <2>b. log' = [ log EXCEPT ![t] = @ \o [ i \in 1..n |-> e ] ]
    BY <2>1 DEF RecordEvents
  <2>3. Grows(t, e, n)
    <3> HIDE DEF e
    <3> QED BY <1>1, <2>a, <2>b, BatchGrows
  <2>4. IsKeep(t, "recorded", n)
    BY <1>1, <2>1, <2>a, <2>3 DEF RecordEvents, IsKeep, OnlyRow
  <2> QED
    BY <2>4 DEF EventType
<1>6. CASE \E fs \in SUBSET File : UpdateContext(t, fs)
  <2>1. PICK fs \in SUBSET File : UpdateContext(t, fs)
    BY <1>6
  <2>2. /\ row[t].state \in TaskState
        /\ Ev("task_context_updated", row[t].state) \in Event
    BY <2>1, RowStateType, EvType DEF EventType, UpdateContext
  <2>3. Grows(t, Ev("task_context_updated", row[t].state), 1)
    BY <1>1, <2>1, <2>2, AppendGrows DEF UpdateContext
  <2>4. IsKeep(t, "task_context_updated", 1)
    <3> DEFINE r == [ row[t] EXCEPT !.files = @ \cup fs ]
    <3>1. /\ r \in Row
          /\ r.state = row[t].state /\ r.attempt = row[t].attempt
          /\ r.startedAt = row[t].startedAt /\ r.finishedAt = row[t].finishedAt
      <4>1. row[t] \in Row
        BY <1>1
      <4> QED
        BY <4>1 DEF Row
    <3>2. row' = [ row EXCEPT ![t] = r ]
      BY <2>1 DEF UpdateContext
    <3>3. row'[t] = r /\ row' \in [ Task -> Row ] /\ OnlyRow(t)
      <4> HIDE DEF r
      <4> QED
        BY <1>1, <3>1, <3>2 DEF OnlyRow
    <3> QED
      BY <2>1, <2>3, <3>1, <3>3 DEF UpdateContext, IsKeep
  <2> QED
    BY <2>4 DEF EventType
<1> QED
  BY <1>2, <1>3, <1>4, <1>5, <1>6

-----------------------------------------------------------------------------
(* Each part of IInv is preserved by each shape of a step.                 *)

LEMMA TypeStep ==
  ASSUME TypeOK, NEW t \in Task,
         \/ \E s \in TaskState : IsCreate(t, s)
         \/ \E s \in TaskState : IsMove(t, s)
         \/ \E type \in EventType, n \in Nat : IsKeep(t, type, n)
  PROVE  TypeOK'
<1>1. /\ row' \in [ Task -> Row ] /\ log' \in [ Task -> Seq(Event) ]
      /\ \A u \in Task \ {t} : row'[u] = row[u] /\ log'[u] = log[u]
  BY DEF IsCreate, IsMove, IsKeep, Grows, OnlyRow
<1>2. Len(log[t]) \in Nat /\ row[t] \in Row
  BY DEF TypeOK
<1>3. row'[t].startedAt =< Len(log'[t]) /\ row'[t].finishedAt =< Len(log'[t])
  <2>1. ASSUME NEW s \in TaskState, IsCreate(t, s) PROVE <1>3
    BY <1>2, <2>1, CreatedFields DEF IsCreate, Grows
  <2>2. ASSUME NEW s \in TaskState, IsMove(t, s) PROVE <1>3
    <3>1. /\ row'[t].startedAt = StartStamp(row[t], s, Len(log[t]) + 1)
          /\ row'[t].finishedAt = FinishStamp(row[t], s, Len(log[t]) + 1)
          /\ Len(log'[t]) = Len(log[t]) + 1
      BY <1>2, <2>2, MoveFields DEF IsMove, Grows
    <3> QED
      BY <1>2, <3>1 DEF StartStamp, FinishStamp, TypeOK, Row
  <2>3. ASSUME NEW type \in EventType, NEW n \in Nat, IsKeep(t, type, n) PROVE <1>3
    BY <1>2, <2>3 DEF IsKeep, Grows, TypeOK, Row
  <2> QED
    BY <2>1, <2>2, <2>3
<1> QED
  BY <1>1, <1>3 DEF TypeOK

LEMMA RowMatchesLogStep ==
  ASSUME TypeOK, RowMatchesLog, NEW t \in Task,
         \/ \E s \in TaskState : IsCreate(t, s)
         \/ \E s \in TaskState : IsMove(t, s)
         \/ \E type \in EventType, n \in Nat : IsKeep(t, type, n)
  PROVE  RowMatchesLog'
<1> DEFINE M(u) == /\ Exists(u) <=> log[u] # <<>>
                   /\ Exists(u) => /\ log[u][1].type = "task_created"
                                   /\ log[u][Len(log[u])].state = row[u].state
<1>1. log \in [ Task -> Seq(Event) ] /\ log' \in [ Task -> Seq(Event) ]
  BY DEF TypeOK, IsCreate, IsMove, IsKeep, Grows
<1>2. \A u \in Task \ {t} : M(u)'
  BY DEF IsCreate, IsMove, IsKeep, Grows, OnlyRow, RowMatchesLog, Exists
<1>3. ASSUME NEW s \in TaskState, IsCreate(t, s) PROVE M(t)'
  <2>1. Len(log[t]) = 0
    BY <1>1, <1>3 DEF IsCreate, RowMatchesLog
  <2>2. Len(log'[t]) = 1 /\ log'[t][1] = Ev("task_created", s)
    BY <2>1, <1>3 DEF IsCreate, Grows
  <2>3. row'[t].state = s /\ s # Absent
    BY <1>3, CreatedFields DEF IsCreate, TaskState, Absent
  <2>4. log'[t][1].type = "task_created" /\ log'[t][1].state = s
    BY <2>2 DEF Ev
  <2>5. log'[t] # <<>>
    <3>1. Len(<<>>) = 0
      OBVIOUS
    <3> QED
      BY <2>2, <3>1
  <2> QED
    BY <2>2, <2>3, <2>4, <2>5 DEF Exists
<1>4. ASSUME NEW s \in TaskState, IsMove(t, s) PROVE M(t)'
  <2>1. Len(log[t]) \in Nat \ {0}
    BY <1>1, <1>4 DEF IsMove, RowMatchesLog
  <2>2. /\ Len(log'[t]) = Len(log[t]) + 1
        /\ log'[t][Len(log'[t])] = Ev("state_changed", s)
        /\ log'[t][1] = log[t][1]
    BY <2>1, <1>4 DEF IsMove, Grows
  <2>3. row'[t].state = s /\ s # Absent
    BY <1>4, MoveFields DEF TaskState, Absent
  <2> QED
    BY <1>1, <1>4, <2>1, <2>2, <2>3 DEF Exists, Ev, IsMove, RowMatchesLog
<1>5. ASSUME NEW type \in EventType, NEW n \in Nat, IsKeep(t, type, n) PROVE M(t)'
  <2>1. Len(log[t]) \in Nat \ {0}
    BY <1>1, <1>5 DEF IsKeep, RowMatchesLog
  <2>2. /\ Len(log'[t]) = Len(log[t]) + n
        /\ log'[t][Len(log'[t])] = Ev(type, row[t].state)
        /\ log'[t][1] = log[t][1]
    BY <2>1, <1>5 DEF IsKeep, Grows
  <2> QED
    BY <1>1, <1>5, <2>1, <2>2 DEF Exists, Ev, IsKeep, RowMatchesLog
<1> QED
  BY <1>2, <1>3, <1>4, <1>5 DEF RowMatchesLog
\* What the log of t looks like around a step that keeps or moves its state:
\* the old events, then events that carry state s.
LEMMA LogAround ==
  ASSUME TypeOK, RowMatchesLog, NEW t \in Task, Exists(t),
         NEW type \in EventType, NEW s \in TaskState, NEW n \in Nat \ {0},
         Grows(t, Ev(type, s), n)
  PROVE  /\ Len(log[t]) \in Nat \ {0}
         /\ Len(log'[t]) = Len(log[t]) + n
         /\ log[t][Len(log[t])].state = row[t].state
         /\ \A i \in 1..Len(log[t]) : log'[t][i] = log[t][i]
         /\ \A i \in (Len(log[t]) + 1)..(Len(log[t]) + n) :
              log'[t][i].state = s /\ log'[t][i].type = type
<1>1. log[t] \in Seq(Event) /\ log[t] # <<>>
  BY DEF TypeOK, RowMatchesLog
<1>2. Len(log[t]) \in Nat \ {0}
  BY <1>1
<1> QED
  BY <1>2, EvType DEF Grows, RowMatchesLog

LEMMA LegalRunStep ==
  ASSUME TypeOK, RowMatchesLog, LogIsLegalRun, NEW t \in Task,
         \/ \E s \in TaskState : IsCreate(t, s)
         \/ \E s \in TaskState : IsMove(t, s)
         \/ \E type \in EventType, n \in Nat : IsKeep(t, type, n)
  PROVE  LogIsLegalRun'
<1> DEFINE G(u) == \A i \in 2..Len(log[u]) :
                     IF log[u][i].type = "state_changed"
                     THEN CanMove(log[u][i-1].state, log[u][i].state)
                     ELSE /\ log[u][i].type # "task_created"
                          /\ log[u][i].state = log[u][i-1].state
<1>1. \A u \in Task : G(u)
  BY DEF LogIsLegalRun
<1>2. \A u \in Task \ {t} : G(u)'
  BY <1>1 DEF IsCreate, IsMove, IsKeep, Grows
<1>3. ASSUME NEW s \in TaskState, IsCreate(t, s) PROVE G(t)'
  <2>1. Len(log'[t]) = 1
    BY <1>3 DEF IsCreate, Grows, TypeOK, RowMatchesLog
  <2> QED
    BY <2>1
<1>4. ASSUME NEW s \in TaskState, IsMove(t, s) PROVE G(t)'
  <2>1. /\ Len(log[t]) \in Nat \ {0}
        /\ Len(log'[t]) = Len(log[t]) + 1
        /\ log[t][Len(log[t])].state = row[t].state
        /\ \A i \in 1..Len(log[t]) : log'[t][i] = log[t][i]
        /\ log'[t][Len(log[t]) + 1].state = s
        /\ log'[t][Len(log[t]) + 1].type = "state_changed"
    BY <1>4, LogAround DEF IsMove, EventType
  <2>2. CanMove(row[t].state, s)
    BY <1>4 DEF IsMove
  <2>3. SUFFICES ASSUME NEW i \in 2..(Len(log[t]) + 1)
                 PROVE IF log'[t][i].type = "state_changed"
                       THEN CanMove(log'[t][i-1].state, log'[t][i].state)
                       ELSE /\ log'[t][i].type # "task_created"
                            /\ log'[t][i].state = log'[t][i-1].state
    BY <2>1
  <2>4. CASE i = Len(log[t]) + 1
    <3>1. log'[t][i-1].state = row[t].state
      BY <2>1, <2>4
    <3> QED
      BY <2>1, <2>2, <2>4, <3>1
  <2>5. CASE i # Len(log[t]) + 1
    <3>1. i \in 2..Len(log[t]) /\ i - 1 \in 1..Len(log[t]) /\ i \in 1..Len(log[t])
      BY <2>1, <2>5
    <3> QED
      BY <2>1, <3>1, <1>1
  <2> QED
    BY <2>4, <2>5
<1>5. ASSUME NEW type \in EventType, NEW n \in Nat, IsKeep(t, type, n) PROVE G(t)'
  <2>1. /\ Len(log[t]) \in Nat \ {0}
        /\ Len(log'[t]) = Len(log[t]) + n
        /\ log[t][Len(log[t])].state = row[t].state
        /\ \A i \in 1..Len(log[t]) : log'[t][i] = log[t][i]
        /\ \A i \in (Len(log[t]) + 1)..(Len(log[t]) + n) :
             log'[t][i].state = row[t].state /\ log'[t][i].type = type
    BY <1>5, LogAround, RowStateType DEF IsKeep
  <2>2. type \notin { "state_changed", "task_created" }
    BY <1>5 DEF IsKeep
  <2>3. SUFFICES ASSUME NEW i \in 2..(Len(log[t]) + n)
                 PROVE IF log'[t][i].type = "state_changed"
                       THEN CanMove(log'[t][i-1].state, log'[t][i].state)
                       ELSE /\ log'[t][i].type # "task_created"
                            /\ log'[t][i].state = log'[t][i-1].state
    BY <2>1
  <2>4. CASE i > Len(log[t])
    <3>1. i \in (Len(log[t]) + 1)..(Len(log[t]) + n)
      BY <2>1, <2>4
    <3>2. CASE i = Len(log[t]) + 1
      <4>1. log'[t][i-1].state = row[t].state
        BY <2>1, <3>2
      <4> QED
        BY <2>1, <2>2, <3>1, <4>1
    <3>3. CASE i # Len(log[t]) + 1
      <4>1. i - 1 \in (Len(log[t]) + 1)..(Len(log[t]) + n)
        BY <2>1, <3>1, <3>3
      <4> QED
        BY <2>1, <2>2, <3>1, <4>1
    <3> QED
      BY <3>2, <3>3
  <2>5. CASE ~(i > Len(log[t]))
    <3>1. i \in 2..Len(log[t]) /\ i - 1 \in 1..Len(log[t]) /\ i \in 1..Len(log[t])
      BY <2>1, <2>5
    <3> QED
      BY <2>1, <3>1, <1>1
  <2> QED
    BY <2>4, <2>5
<1> QED
  BY <1>2, <1>3, <1>4, <1>5 DEF LogIsLegalRun
\* A move appends one event that carries the new state.
LEMMA LogAroundMove ==
  ASSUME TypeOK, RowMatchesLog, NEW t \in Task, NEW s \in TaskState, IsMove(t, s)
  PROVE  /\ Len(log[t]) \in Nat \ {0}
         /\ Len(log'[t]) = Len(log[t]) + 1
         /\ log[t][Len(log[t])].state = row[t].state
         /\ \A i \in 1..Len(log[t]) : log'[t][i] = log[t][i]
         /\ log'[t][Len(log[t]) + 1].state = s
         /\ log'[t][Len(log[t]) + 1].type = "state_changed"
BY LogAround DEF IsMove, EventType

\* The other operations append events that repeat the state of the row.
LEMMA LogAroundKeep ==
  ASSUME TypeOK, RowMatchesLog, NEW t \in Task,
         NEW type \in EventType, NEW n \in Nat, IsKeep(t, type, n)
  PROVE  /\ Len(log[t]) \in Nat \ {0}
         /\ Len(log'[t]) = Len(log[t]) + n
         /\ log[t][Len(log[t])].state = row[t].state
         /\ \A i \in 1..Len(log[t]) : log'[t][i] = log[t][i]
         /\ \A i \in (Len(log[t]) + 1)..(Len(log[t]) + n) :
              log'[t][i].state = row[t].state /\ log'[t][i].type = type
BY LogAround, RowStateType DEF IsKeep

LEMMA CreateAround ==
  ASSUME TypeOK, RowMatchesLog, NEW t \in Task, NEW s \in TaskState, IsCreate(t, s)
  PROVE  /\ Len(log[t]) = 0 /\ Len(log'[t]) = 1
         /\ log'[t][1].state = s /\ log'[t][1].type = "task_created"
         /\ row'[t].state = s /\ row'[t].attempt = 1
         /\ row'[t].startedAt = IF s \in StartedState THEN 1 ELSE 0
         /\ row'[t].finishedAt = IF s \in FinishedState THEN 1 ELSE 0
<1>1. Len(log[t]) = 0
  BY DEF IsCreate, RowMatchesLog
<1> QED
  BY <1>1, EvType, CreatedFields DEF IsCreate, Grows, EventType

\* A start stamp once set keeps its meaning while the log only grows.
LEMMA StartKept ==
  ASSUME NEW t \in Task, StartMatchesLog(t), Len(log[t]) \in Nat,
         row[t].startedAt \in 1..Len(log[t]),
         row'[t].startedAt = row[t].startedAt,
         \A i \in 1..Len(log[t]) : log'[t][i] = log[t][i]
  PROVE  StartMatchesLog(t)'
<1> DEFINE at == row[t].startedAt
<1>1. at # 0 /\ at \in 1..Len(log[t]) /\ row'[t].startedAt = at
  OBVIOUS
<1>2. log[t][at].state \in StartedState
  BY <1>1 DEF StartMatchesLog
<1>3. ASSUME NEW i \in 1..(at - 1) PROVE log'[t][i].state \notin StartedState
  <2>1. i \in 1..Len(log[t])
    BY <1>1
  <2>2. log[t][i].state \notin StartedState
    BY <1>1 DEF StartMatchesLog
  <2> QED
    BY <2>1, <2>2
<1>4. log'[t][at].state \in StartedState
  BY <1>1, <1>2
<1> HIDE DEF at
<1> QED
  BY <1>1, <1>3, <1>4 DEF StartMatchesLog

LEMMA StartStep ==
  ASSUME TypeOK, RowMatchesLog, StampsMatchLog, NEW t \in Task,
         \/ \E s \in TaskState : IsCreate(t, s)
         \/ \E s \in TaskState : IsMove(t, s)
         \/ \E type \in EventType, n \in Nat : IsKeep(t, type, n)
  PROVE  StartMatchesLog(t)'
<1>1. row[t].startedAt \in 0..Len(log[t])
  BY DEF TypeOK, Row
<1>2. ASSUME NEW s \in TaskState, IsCreate(t, s) PROVE StartMatchesLog(t)'
  BY <1>2, CreateAround DEF StartMatchesLog
<1>3. ASSUME NEW s \in TaskState, IsMove(t, s) PROVE StartMatchesLog(t)'
  <2>1. StartMatchesLog(t)
    BY <1>3 DEF StampsMatchLog, IsMove
  <2>2. row'[t].startedAt = StartStamp(row[t], s, Len(log[t]) + 1)
    BY <1>3, MoveFields
  <2>3. /\ Len(log[t]) \in Nat \ {0}
        /\ Len(log'[t]) = Len(log[t]) + 1
        /\ \A i \in 1..Len(log[t]) : log'[t][i] = log[t][i]
        /\ log'[t][Len(log[t]) + 1].state = s
    BY <1>3, LogAroundMove
  <2>4. CASE row[t].startedAt # 0
    <3>1. row'[t].startedAt = row[t].startedAt
      BY <2>2, <2>4 DEF StartStamp
    <3>2. row[t].startedAt \in 1..Len(log[t])
      BY <1>1, <2>4
    <3> QED
      BY <2>1, <2>3, <3>1, <3>2, StartKept
  <2>5. CASE row[t].startedAt = 0
    <3>1. row'[t].startedAt = IF s \in StartedState THEN Len(log[t]) + 1 ELSE 0
      BY <2>2, <2>5 DEF StartStamp
    <3>2. \A i \in 1..Len(log[t]) : log'[t][i].state \notin StartedState
      BY <2>1, <2>3, <2>5 DEF StartMatchesLog
    <3> QED
      BY <2>3, <3>1, <3>2 DEF StartMatchesLog
  <2> QED
    BY <2>4, <2>5
<1>4. ASSUME NEW type \in EventType, NEW n \in Nat, IsKeep(t, type, n)
      PROVE StartMatchesLog(t)'
  <2>1. StartMatchesLog(t) /\ row'[t].startedAt = row[t].startedAt
    BY <1>4 DEF StampsMatchLog, IsKeep
  <2>2. n \in Nat \ {0}
    BY <1>4 DEF IsKeep
  <2>3. /\ Len(log[t]) \in Nat \ {0}
        /\ Len(log'[t]) = Len(log[t]) + n
        /\ log[t][Len(log[t])].state = row[t].state
        /\ \A i \in 1..Len(log[t]) : log'[t][i] = log[t][i]
        /\ \A i \in (Len(log[t]) + 1)..(Len(log[t]) + n) :
             log'[t][i].state = row[t].state /\ log'[t][i].type = type
    BY <1>4, LogAroundKeep
  <2>4. CASE row[t].startedAt # 0
    <3>1. row[t].startedAt \in 1..Len(log[t])
      BY <1>1, <2>4
    <3> QED
      BY <2>1, <2>3, <3>1, StartKept
  <2>5. CASE row[t].startedAt = 0
    <3>1. \A i \in 1..Len(log[t]) : log[t][i].state \notin StartedState
      BY <2>1, <2>5 DEF StartMatchesLog
    <3>2. row[t].state \notin StartedState
      BY <2>3, <3>1
    <3>3. ASSUME NEW i \in 1..Len(log'[t]) PROVE log'[t][i].state \notin StartedState
      <4>1. i \in 1..Len(log[t]) \/ i \in (Len(log[t]) + 1)..(Len(log[t]) + n)
        BY <2>2, <2>3
      <4> QED
        BY <2>3, <3>1, <3>2, <4>1
    <3> QED
      BY <2>1, <2>5, <3>3 DEF StartMatchesLog
  <2> QED
    BY <2>4, <2>5
<1> QED
  BY <1>2, <1>3, <1>4

LEMMA FinishStep ==
  ASSUME TypeOK, RowMatchesLog, StampsMatchLog, NEW t \in Task,
         \/ \E s \in TaskState : IsCreate(t, s)
         \/ \E s \in TaskState : IsMove(t, s)
         \/ \E type \in EventType, n \in Nat : IsKeep(t, type, n)
  PROVE  FinishMatchesLog(t)'
<1>1. row[t].finishedAt \in 0..Len(log[t])
  BY DEF TypeOK, Row
<1>2. ASSUME NEW s \in TaskState, IsCreate(t, s) PROVE FinishMatchesLog(t)'
  BY <1>2, CreateAround DEF FinishMatchesLog
<1>3. ASSUME NEW s \in TaskState, IsMove(t, s) PROVE FinishMatchesLog(t)'
  <2>1. /\ row'[t].finishedAt = FinishStamp(row[t], s, Len(log[t]) + 1)
        /\ row'[t].state = s
    BY <1>3, MoveFields
  <2> QED
    BY <1>3, <2>1, LogAroundMove DEF FinishMatchesLog, FinishStamp
<1>4. ASSUME NEW type \in EventType, NEW n \in Nat, IsKeep(t, type, n)
      PROVE FinishMatchesLog(t)'
  <2>1. /\ FinishMatchesLog(t) /\ row'[t].finishedAt = row[t].finishedAt
        /\ row'[t].state = row[t].state /\ n \in Nat \ {0}
    BY <1>4 DEF StampsMatchLog, IsKeep
  <2>2. ASSUME row[t].finishedAt # 0, NEW i \in row[t].finishedAt..Len(log'[t])
        PROVE  log'[t][i].state = row[t].state
    <3>1. i \in row[t].finishedAt..Len(log[t]) \/ i \in (Len(log[t]) + 1)..(Len(log[t]) + n)
      BY <1>1, <1>4, <2>1, <2>2, LogAroundKeep
    <3>2. CASE i \in row[t].finishedAt..Len(log[t])
      <4>1. i \in 1..Len(log[t])
        BY <1>1, <2>2, <3>2
      <4>2. log[t][i].state = row[t].state
        BY <2>1, <2>2, <3>2 DEF FinishMatchesLog
      <4> QED
        BY <1>4, <4>1, <4>2, LogAroundKeep
    <3> QED
      BY <1>4, <3>1, <3>2, LogAroundKeep
  <2>3. row[t].finishedAt # 0 =>
          log'[t][row[t].finishedAt].type \in { "task_created", "state_changed" }
    BY <1>1, <1>4, <2>1, LogAroundKeep DEF FinishMatchesLog
  <2> QED
    BY <2>1, <2>2, <2>3 DEF FinishMatchesLog
<1> QED
  BY <1>2, <1>3, <1>4
LEMMA RequeuesFinite ==
  ASSUME TypeOK, NEW t \in Task
  PROVE  IsFiniteSet(Requeues(t)) /\ Cardinality(Requeues(t)) \in Nat
<1>1. Len(log[t]) \in Nat
  BY DEF TypeOK
<1>2. Requeues(t) \in SUBSET (2..Len(log[t]))
  BY DEF Requeues
<1>3. IsFiniteSet(2..Len(log[t]))
  BY <1>1, FS_Interval
<1>4. IsFiniteSet(Requeues(t))
  BY <1>2, <1>3, FS_Subset
<1> QED
  BY <1>4, FS_CardinalityType

\* The re-queues of t after a move: those before it, and the move itself if it
\* begins an attempt.
LEMMA RequeuesAfterMove ==
  ASSUME TypeOK, RowMatchesLog, NEW t \in Task, NEW s \in TaskState, IsMove(t, s)
  PROVE  Requeues(t)' = IF BeginsAttempt(row[t].state, s)
                        THEN Requeues(t) \cup { Len(log[t]) + 1 }
                        ELSE Requeues(t)
<1> DEFINE m == Len(log[t])
<1>1. /\ m \in Nat \ {0}
      /\ Len(log'[t]) = m + 1
      /\ log[t][m].state = row[t].state
      /\ \A i \in 1..m : log'[t][i] = log[t][i]
      /\ log'[t][m + 1].state = s
  BY LogAroundMove
<1>2. \A i \in 2..m : /\ log'[t][i-1] = log[t][i-1] /\ log'[t][i] = log[t][i]
  BY <1>1
<1>3. log'[t][(m + 1) - 1] = log[t][m] /\ m + 1 \in 2..(m + 1)
  BY <1>1
<1>4. \A i \in 2..(m + 1) : i \in 2..m \/ i = m + 1
  BY <1>1
<1>5. \A i \in 2..m : i \in 2..(m + 1)
  BY <1>1
<1>6. Requeues(t) = { i \in 2..m : BeginsAttempt(log[t][i-1].state, log[t][i].state) }
  BY DEF Requeues
<1>7. Requeues(t)' = { i \in 2..(m + 1) :
                        BeginsAttempt(log'[t][i-1].state, log'[t][i].state) }
  BY <1>1 DEF Requeues
<1> HIDE DEF m
<1> QED
  BY <1>1, <1>2, <1>3, <1>4, <1>5, <1>6, <1>7 DEF m

\* An event that repeats the state is not a re-queue.
LEMMA RequeuesAfterKeep ==
  ASSUME TypeOK, RowMatchesLog, NEW t \in Task,
         NEW type \in EventType, NEW n \in Nat, IsKeep(t, type, n)
  PROVE  Requeues(t)' = Requeues(t)
<1> DEFINE m == Len(log[t])
<1>1. /\ m \in Nat \ {0} /\ n \in Nat \ {0}
      /\ Len(log'[t]) = m + n
      /\ log[t][m].state = row[t].state
      /\ \A i \in 1..m : log'[t][i] = log[t][i]
      /\ \A i \in (m + 1)..(m + n) :
           log'[t][i].state = row[t].state /\ log'[t][i].type = type
  BY LogAroundKeep DEF IsKeep
<1>2. \A i \in 2..m : /\ log'[t][i-1] = log[t][i-1] /\ log'[t][i] = log[t][i]
                      /\ i \in 2..(m + n)
  <2> HIDE DEF m
  <2>1. ASSUME NEW i \in 2..m PROVE i \in 1..m /\ i - 1 \in 1..m /\ i \in 2..(m + n)
    BY <1>1
  <2> QED
    BY <1>1, <2>1
<1>3. ASSUME NEW i \in 2..(m + n), i \notin 2..m
      PROVE  ~BeginsAttempt(log'[t][i-1].state, log'[t][i].state)
  <2>1. i \in (m + 1)..(m + n) /\ (i - 1 = m \/ i - 1 \in (m + 1)..(m + n)) /\ m \in 1..m
    BY <1>1, <1>3
  <2>2. log'[t][i].state = row[t].state
    BY <1>1, <2>1
  <2>3. log'[t][i-1].state = row[t].state
    BY <1>1, <2>1
  <2> QED
    BY <2>2, <2>3 DEF BeginsAttempt, RetriedFrom, FinishedState
<1>4. Requeues(t) = { i \in 2..m : BeginsAttempt(log[t][i-1].state, log[t][i].state) }
  BY DEF Requeues
<1>5. Requeues(t)' = { i \in 2..(m + n) :
                        BeginsAttempt(log'[t][i-1].state, log'[t][i].state) }
  BY <1>1 DEF Requeues
<1> HIDE DEF m
<1> QED
  BY <1>2, <1>3, <1>4, <1>5

LEMMA AttemptStep ==
  ASSUME TypeOK, RowMatchesLog, StampsMatchLog, NEW t \in Task,
         \/ \E s \in TaskState : IsCreate(t, s)
         \/ \E s \in TaskState : IsMove(t, s)
         \/ \E type \in EventType, n \in Nat : IsKeep(t, type, n)
  PROVE  row'[t].attempt = 1 + Cardinality(Requeues(t)')
<1>1. ASSUME NEW s \in TaskState, IsCreate(t, s)
      PROVE  row'[t].attempt = 1 + Cardinality(Requeues(t)')
  <2>1. Requeues(t)' = {}
    BY <1>1, CreateAround DEF Requeues
  <2> QED
    BY <1>1, <2>1, CreateAround, FS_EmptySet
<1>2. ASSUME NEW s \in TaskState, IsMove(t, s)
      PROVE  row'[t].attempt = 1 + Cardinality(Requeues(t)')
  <2>1. row[t].attempt = 1 + Cardinality(Requeues(t))
    BY <1>2 DEF StampsMatchLog, IsMove
  <2>2. row'[t].attempt = NextAttempt(row[t], s)
    BY <1>2, MoveFields
  <2>3. IsFiniteSet(Requeues(t)) /\ Cardinality(Requeues(t)) \in Nat
    BY RequeuesFinite
  <2>4. Len(log[t]) + 1 \notin Requeues(t)
    BY <1>2, LogAroundMove DEF Requeues
  <2>5. Cardinality(Requeues(t) \cup { Len(log[t]) + 1 }) = Cardinality(Requeues(t)) + 1
    BY <2>3, <2>4, FS_AddElement
  <2>6. Requeues(t)' = IF BeginsAttempt(row[t].state, s)
                       THEN Requeues(t) \cup { Len(log[t]) + 1 }
                       ELSE Requeues(t)
    BY <1>2, RequeuesAfterMove
  <2> QED
    BY <2>1, <2>2, <2>3, <2>5, <2>6 DEF NextAttempt
<1>3. ASSUME NEW type \in EventType, NEW n \in Nat, IsKeep(t, type, n)
      PROVE  row'[t].attempt = 1 + Cardinality(Requeues(t)')
  <2>1. row[t].attempt = 1 + Cardinality(Requeues(t)) /\ row'[t].attempt = row[t].attempt
    BY <1>3 DEF IsKeep, StampsMatchLog
  <2>2. Requeues(t)' = Requeues(t)
    BY <1>3, RequeuesAfterKeep
  <2> QED
    BY <2>1, <2>2
<1> QED
  BY <1>1, <1>2, <1>3

LEMMA StampsStep ==
  ASSUME TypeOK, RowMatchesLog, StampsMatchLog, NEW t \in Task,
         \/ \E s \in TaskState : IsCreate(t, s)
         \/ \E s \in TaskState : IsMove(t, s)
         \/ \E type \in EventType, n \in Nat : IsKeep(t, type, n)
  PROVE  StampsMatchLog'
<1>1. StartMatchesLog(t)' /\ FinishMatchesLog(t)'
  BY StartStep, FinishStep
<1>2. row'[t].attempt = 1 + Cardinality(Requeues(t)')
  BY AttemptStep
<1>3. ASSUME NEW u \in Task \ {t}
      PROVE  Exists(u)' => /\ StartMatchesLog(u)'
                           /\ FinishMatchesLog(u)'
                           /\ row'[u].attempt = 1 + Cardinality(Requeues(u)')
  <2>1. row'[u] = row[u] /\ log'[u] = log[u]
    BY DEF IsCreate, IsMove, IsKeep, Grows, OnlyRow
  <2>2. Requeues(u)' = Requeues(u)
    BY <2>1 DEF Requeues
  <2>3. Exists(u)' = Exists(u)
    BY <2>1 DEF Exists
  <2>4. StartMatchesLog(u)' = StartMatchesLog(u)
    BY <2>1 DEF StartMatchesLog
  <2>5. FinishMatchesLog(u)' = FinishMatchesLog(u)
    BY <2>1 DEF FinishMatchesLog
  <2> QED
    BY <2>1, <2>2, <2>3, <2>4, <2>5 DEF StampsMatchLog
<1> QED
  BY <1>1, <1>2, <1>3 DEF StampsMatchLog

LEMMA SettledStep ==
  ASSUME TypeOK, RowMatchesLog, SettledUntilRetried, NEW t \in Task,
         \/ \E s \in TaskState : IsCreate(t, s)
         \/ \E s \in TaskState : IsMove(t, s)
         \/ \E type \in EventType, n \in Nat : IsKeep(t, type, n)
  PROVE  SettledUntilRetried'
<1> DEFINE S(u) == \A i, j \in 1..Len(log[u]) :
                    (i < j /\ log[u][i].state \in Settled /\ log[u][j].state # log[u][i].state)
                      => \E k \in Requeues(u) : i < k /\ k =< j
<1>1. \A u \in Task : S(u)
  BY DEF SettledUntilRetried
<1>2. ASSUME NEW u \in Task \ {t} PROVE S(u)'
  <2>1. log'[u] = log[u]
    BY DEF IsCreate, IsMove, IsKeep, Grows
  <2>2. Requeues(u)' = Requeues(u)
    BY <2>1 DEF Requeues
  <2> QED
    BY <1>1, <2>1, <2>2
<1>3. ASSUME NEW s \in TaskState, IsCreate(t, s) PROVE S(t)'
  BY <1>3, CreateAround
<1>4. ASSUME NEW s \in TaskState, IsMove(t, s) PROVE S(t)'
  <2> DEFINE m == Len(log[t])
  <2>1. /\ m \in Nat \ {0}
        /\ Len(log'[t]) = m + 1
        /\ log[t][m].state = row[t].state
        /\ \A i \in 1..m : log'[t][i] = log[t][i]
        /\ log'[t][m + 1].state = s
    BY <1>4, LogAroundMove
  <2>2. CanMove(row[t].state, s)
    BY <1>4 DEF IsMove
  <2>3. Requeues(t) \subseteq Requeues(t)'
    BY <1>4, RequeuesAfterMove
  <2>4. row[t].state \in Settled => m + 1 \in Requeues(t)'
    <3>1. row[t].state \in Settled => BeginsAttempt(row[t].state, s)
      BY <2>2 DEF Settled, CanMove, Transitions, BeginsAttempt, RetriedFrom, FinishedState
    <3> QED
      BY <1>4, <3>1, RequeuesAfterMove
  <2>5. SUFFICES ASSUME NEW i \in 1..(m + 1), NEW j \in 1..(m + 1), i < j,
                        log'[t][i].state \in Settled,
                        log'[t][j].state # log'[t][i].state
                 PROVE  \E k \in Requeues(t)' : i < k /\ k =< j
    BY <2>1
  <2>6. i \in 1..m
    BY <2>1, <2>5
  <2>7. CASE j \in 1..m
    BY <1>1, <2>1, <2>3, <2>5, <2>6, <2>7
  <2>8. CASE j = m + 1
    <3>1. CASE log[t][m].state = log[t][i].state
      BY <2>1, <2>4, <2>5, <2>6, <2>8, <3>1
    <3>2. CASE log[t][m].state # log[t][i].state
      <4>1. i < m /\ m \in 1..m
        BY <2>1, <2>6, <3>2
      <4>2. PICK k \in Requeues(t) : i < k /\ k =< m
        BY <1>1, <2>1, <2>5, <2>6, <3>2, <4>1
      <4>3. k \in 2..m
        BY <4>2 DEF Requeues
      <4> QED
        BY <2>1, <2>3, <2>8, <4>2, <4>3
    <3> QED
      BY <3>1, <3>2
  <2> QED
    BY <2>1, <2>7, <2>8
<1>5. ASSUME NEW type \in EventType, NEW n \in Nat, IsKeep(t, type, n) PROVE S(t)'
  <2> DEFINE m == Len(log[t])
  <2>1. /\ m \in Nat \ {0}
        /\ Len(log'[t]) = m + n
        /\ log[t][m].state = row[t].state
        /\ \A i \in 1..m : log'[t][i] = log[t][i]
        /\ \A i \in (m + 1)..(m + n) :
             log'[t][i].state = row[t].state /\ log'[t][i].type = type
    BY <1>5, LogAroundKeep
  <2>2. Requeues(t)' = Requeues(t)
    BY <1>5, RequeuesAfterKeep
  <2>3. SUFFICES ASSUME NEW i \in 1..(m + n), NEW j \in 1..(m + n), i < j,
                        log'[t][i].state \in Settled,
                        log'[t][j].state # log'[t][i].state
                 PROVE  \E k \in Requeues(t)' : i < k /\ k =< j
    BY <2>1
  <2>4. i \in 1..m
    <3>1. CASE i \in (m + 1)..(m + n)
      <4>1. j \in (m + 1)..(m + n)
        BY <2>1, <2>3, <3>1
      <4> QED
        BY <2>1, <2>3, <3>1, <4>1
    <3> QED
      BY <2>1, <3>1
  <2>5. CASE j \in 1..m
    BY <1>1, <2>1, <2>2, <2>3, <2>4, <2>5
  <2>6. CASE j \in (m + 1)..(m + n)
    <3>1. log[t][m].state # log[t][i].state
      BY <2>1, <2>3, <2>4, <2>6
    <3>2. i < m /\ m \in 1..m
      BY <2>1, <2>4, <3>1
    <3>3. PICK k \in Requeues(t) : i < k /\ k =< m
      BY <1>1, <2>1, <2>3, <2>4, <3>1, <3>2
    <3>4. k \in 2..m
      BY <3>3 DEF Requeues
    <3> QED
      BY <2>1, <2>2, <2>6, <3>3, <3>4
  <2> QED
    BY <2>1, <2>5, <2>6
<1> QED
  BY <1>2, <1>3, <1>4, <1>5 DEF SettledUntilRetried

-----------------------------------------------------------------------------
(* The theorems.                                                           *)

LEMMA InitInv == Init => IInv
BY DEF Init, IInv, TypeOK, RowMatchesLog, LogIsLegalRun, StampsMatchLog,
       SettledUntilRetried, NoRow, Row, Exists, Absent

LEMMA NextInv == IInv /\ [Next]_ledgerVars => IInv'
<1> SUFFICES ASSUME IInv, [Next]_ledgerVars PROVE IInv'
  OBVIOUS
<1>1. CASE Next
  <2>1. PICK t \in Task :
          \/ \E s \in TaskState : IsCreate(t, s)
          \/ \E s \in TaskState : IsMove(t, s)
          \/ \E type \in EventType, n \in Nat : IsKeep(t, type, n)
    BY <1>1, StepShapes DEF IInv
  <2> QED
    BY <2>1, TypeStep, RowMatchesLogStep, LegalRunStep, StampsStep, SettledStep DEF IInv
<1>2. CASE UNCHANGED ledgerVars
  <2>1. row' = row /\ log' = log
    BY <1>2 DEF ledgerVars
  <2>2. \A t \in Task : /\ Exists(t)' = Exists(t) /\ Requeues(t)' = Requeues(t)
                       /\ StartMatchesLog(t)' = StartMatchesLog(t)
                       /\ FinishMatchesLog(t)' = FinishMatchesLog(t)
    BY <2>1 DEF Exists, Requeues, StartMatchesLog, FinishMatchesLog
  <2>3. TypeOK' /\ RowMatchesLog' /\ LogIsLegalRun'
    BY <2>1, <2>2 DEF IInv, TypeOK, RowMatchesLog, LogIsLegalRun
  <2>4. StampsMatchLog'
    BY <2>1, <2>2 DEF IInv, StampsMatchLog
  <2>5. SettledUntilRetried'
    BY <2>1, <2>2 DEF IInv, SettledUntilRetried
  <2> QED
    BY <2>3, <2>4, <2>5 DEF IInv
<1> QED
  BY <1>1, <1>2

LEMMA Inductive == Spec => []IInv
BY InitInv, NextInv, PTL DEF Spec

\* The rows and events of the ledger are well formed whatever operations run.
THEOREM TypeCorrect == Spec => []TypeOK
BY Inductive, PTL DEF IInv

\* The task table and the event table, updated in the same transaction, agree
\* on which tasks exist and on the state each is in.
THEOREM RowAndLogAgree == Spec => []RowMatchesLog
BY Inductive, PTL DEF IInv

\* Whatever the operations, the log of a task is a run of the transition table.
THEOREM LogsAreLegalRuns == Spec => []LogIsLegalRun
BY Inductive, PTL DEF IInv

\* The incrementally maintained stamps and attempt number are what the whole
\* log determines.
THEOREM StampsAreRight == Spec => []StampsMatchLog
BY Inductive, PTL DEF IInv

\* A settled outcome is final for its attempt.
THEOREM SettledIsFinal == Spec => []SettledUntilRetried
BY Inductive, PTL DEF IInv
=============================================================================
