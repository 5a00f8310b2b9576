-------------------------- MODULE TaskLedgerTx_proofs --------------------------
(***************************************************************************)
(* The statement-level ledger implements the atomic one, for any number of *)
(* clients: TaskLedgerTx!Spec => TaskLedger!Spec.  The argument is the one *)
(* behind BEGIN IMMEDIATE: while a connection is between its first read    *)
(* and its commit it is the only writer, so what it read is still true, so *)
(* its commit is exactly the atomic operation.                             *)
(***************************************************************************)
EXTENDS TaskLedgerTx, SequenceTheorems, TLAPS

\* No two calls create the same task, and none creates one that exists.
CreatesAreFresh ==
  \A c \in Client : (pc[c] # "idle" /\ op[c].kind = "create") =>
    /\ ~L!Exists(op[c].task)
    /\ \A d \in Client \ {c} :
         (pc[d] # "idle" /\ op[d].kind = "create") => op[d].task # op[c].task

Accepted == { "update", "append", "commit" }

TxInv ==
  /\ TypeOK
  /\ OneWriter
  /\ ReadsStayCurrent
  /\ \A c \in Client : pc[c] # "idle" => op[c] \in Op
  /\ \A c \in Client : pc[c] \in Accepted => ~Refused(c)
  /\ CreatesAreFresh

-----------------------------------------------------------------------------
(* What a call writes is well formed.                                      *)

LEMMA CreatedType ==
  ASSUME NEW s \in L!TaskState
  PROVE  L!Created(s) \in L!Row
<1> DEFINE a == IF s \in L!StartedState THEN 1 ELSE 0
           b == IF s \in L!FinishedState THEN 1 ELSE 0
<1>1. a \in Nat /\ b \in Nat
  OBVIOUS
<1>2. L!Created(s) = [ L!NoRow EXCEPT !.state = s, !.attempt = 1, !.startedAt = a,
                                      !.finishedAt = b ]
  BY DEF L!Created
<1> HIDE DEF a, b
<1>3. L!Created(s) = [ state |-> s, attempt |-> 1, startedAt |-> a,
                       finishedAt |-> b, files |-> {} ]
  BY <1>2 DEF L!NoRow
<1> QED
  BY <1>1, <1>3 DEF L!Row

LEMMA MovedType ==
  ASSUME NEW r \in L!Row, NEW s \in L!TaskState, NEW now \in Nat
  PROVE  L!Moved(r, s, now) \in L!Row
<1>1. /\ L!StartStamp(r, s, now) \in Nat /\ L!FinishStamp(r, s, now) \in Nat
      /\ L!NextAttempt(r, s) \in Nat
  BY DEF L!StartStamp, L!FinishStamp, L!NextAttempt, L!Row
<1> QED
  BY <1>1 DEF L!Moved, L!Row

LEMMA WrittenType ==
  ASSUME NEW o \in Op, NEW r \in L!Row, NEW n \in Nat
  PROVE  RowWritten(o, r, n) \in L!Row
<1>1. CASE o.kind = "create"
  <2>1. o.state \in L!TaskState
    BY <1>1 DEF Op
  <2> QED
    BY <1>1, <2>1, CreatedType DEF RowWritten
<1>2. CASE o.kind = "transition"
  <2>1. o.state \in L!TaskState /\ n + 1 \in Nat
    BY <1>2 DEF Op
  <2> QED
    BY <1>2, <2>1, MovedType DEF RowWritten
<1>3. CASE o.kind = "context"
  <2>1. o.files \in SUBSET File
    BY <1>3 DEF Op
  <2> QED
    BY <1>3, <2>1 DEF RowWritten, L!Row
<1>4. CASE o.kind = "record"
  BY <1>4 DEF RowWritten
<1> QED
  BY <1>1, <1>2, <1>3, <1>4 DEF Op

\* Every row a call writes is that of an existing task.
LEMMA WrittenState ==
  ASSUME NEW o \in Op, NEW r \in L!Row, NEW n \in Nat,
         o.kind # "create" => r.state \in L!TaskState
  PROVE  RowWritten(o, r, n).state \in L!TaskState
<1>1. CASE o.kind = "create"
  <2>1. o.state \in L!TaskState /\ RowWritten(o, r, n) = L!Created(o.state)
    BY <1>1 DEF Op, RowWritten
  <2> QED
    BY <2>1 DEF L!Created, L!NoRow
<1>2. CASE o.kind = "transition"
  <2>1. o.state \in L!TaskState /\ RowWritten(o, r, n) = L!Moved(r, o.state, n + 1)
    BY <1>2 DEF Op, RowWritten
  <2> QED
    BY <2>1 DEF L!Moved, L!Row
<1>3. CASE o.kind = "context"
  BY <1>3 DEF RowWritten, L!Row
<1>4. CASE o.kind = "record"
  BY <1>4 DEF RowWritten
<1> QED
  BY <1>1, <1>2, <1>3, <1>4 DEF Op

LEMMA BatchType ==
  ASSUME NEW S, NEW e \in S, NEW n \in Nat
  PROVE  [ i \in 1..n |-> e ] \in Seq(S)
OBVIOUS

LEMMA EventsType ==
  ASSUME NEW o \in Op, NEW r \in L!Row, r.state \in L!TaskState
  PROVE  EventsOf(o, r) \in Seq(L!Event)
<1> USE DEF L!Event, L!EventType, L!Ev
<1>1. CASE o.kind = "create"
  <2>1. o.state \in L!TaskState
    BY <1>1 DEF Op
  <2> QED
    BY <1>1, <2>1 DEF EventsOf
<1>2. CASE o.kind = "transition"
  <2>1. o.state \in L!TaskState
    BY <1>2 DEF Op
  <2> QED
    BY <1>2, <2>1 DEF EventsOf
<1>3. CASE o.kind = "context"
  BY <1>3 DEF EventsOf
<1>4. CASE o.kind = "record"
  <2>1. o.n \in Nat
    BY <1>4, TxAssumption DEF Op
  <2> DEFINE e == L!Ev("recorded", r.state)
  <2>2. e \in L!Event /\ EventsOf(o, r) = [ i \in 1..o.n |-> e ]
    BY <1>4 DEF EventsOf
  <2> HIDE DEF e, L!Event
  <2> QED
    BY <2>1, <2>2, BatchType
<1> QED
  BY <1>1, <1>2, <1>3, <1>4 DEF Op

-----------------------------------------------------------------------------
(* The invariant.                                                          *)

LEMMA InitInv == Init => TxInv
<1> SUFFICES ASSUME Init PROVE TxInv
  OBVIOUS
<1>1. L!NoRow \in L!Row /\ NoDraft \in Draft
  BY DEF L!NoRow, L!Row, NoDraft, Draft
<1>2. TypeOK
  BY <1>1 DEF Init, L!Init, TypeOK, Pc
<1>3. \A c \in Client : pc[c] = "idle"
  BY DEF Init
<1> QED
  BY <1>2, <1>3 DEF TxInv, OneWriter, InTransaction, ReadsStayCurrent, Accepted,
                    CreatesAreFresh

\* A step of client c that leaves the tables alone and keeps TxInv for the
\* others: their pc, op and draft are untouched.
OnlyClient(c) ==
  /\ \A d \in Client \ {c} : pc'[d] = pc[d] /\ op'[d] = op[d] /\ draft'[d] = draft[d]

\* After End(c) the invariant asks nothing more of c.
LEMMA EndsWell ==
  ASSUME TxInv, NEW c \in Client, End(c), UNCHANGED ledger,
         writer' \in { writer, NoClient }, writer # c => writer' = writer
  PROVE  TxInv'
<1>1. /\ pc'[c] = "idle" /\ OnlyClient(c)
      /\ pc' \in [ Client -> Pc ] /\ op' \in [ Client -> Op \cup { NoOp } ]
      /\ draft' \in [ Client -> Draft ]
  <2>1. NoDraft \in Draft
    BY DEF NoDraft, Draft, L!NoRow, L!Row
  <2> QED
    BY <2>1 DEF TxInv, TypeOK, End, Goto, Pc, OnlyClient
<1>2. row' = row /\ log' = log
  BY DEF ledger
<1>3. TypeOK'
  BY <1>1, <1>2 DEF TxInv, TypeOK
<1>4. OneWriter'
  BY <1>1 DEF TxInv, OneWriter, InTransaction, OnlyClient
<1>5. ReadsStayCurrent'
  BY <1>1, <1>2 DEF TxInv, ReadsStayCurrent, OnlyClient
<1>6. \A d \in Client : pc'[d] # "idle" => op'[d] \in Op
  BY <1>1 DEF TxInv, OnlyClient
<1>7. \A d \in Client : pc'[d] \in Accepted => ~Refused(d)'
  BY <1>1, <1>2 DEF TxInv, OnlyClient, Accepted, Refused, L!Exists, L!HasRoom
<1>8. CreatesAreFresh'
  BY <1>1, <1>2 DEF TxInv, CreatesAreFresh, OnlyClient, L!Exists
<1> QED
  BY <1>3, <1>4, <1>5, <1>6, <1>7, <1>8 DEF TxInv
LEMMA CallInv ==
  ASSUME TxInv, NEW c \in Client, NEW o \in Op, Call(c, o)
  PROVE  TxInv'
<1>1. /\ pc'[c] = "begin" /\ op'[c] = o /\ draft' = draft /\ OnlyClient(c)
      /\ pc' \in [ Client -> Pc ] /\ op' \in [ Client -> Op \cup { NoOp } ]
  BY DEF TxInv, TypeOK, Call, Goto, Pc, OnlyClient
<1>2. row' = row /\ log' = log /\ writer' = writer
  BY DEF Call, ledger
<1>3. TypeOK'
  BY <1>1, <1>2 DEF TxInv, TypeOK
<1>4. OneWriter'
  BY <1>1, <1>2 DEF TxInv, OneWriter, InTransaction, OnlyClient
<1>5. ReadsStayCurrent'
  BY <1>1, <1>2 DEF TxInv, ReadsStayCurrent, OnlyClient
<1>6. \A d \in Client : pc'[d] # "idle" => op'[d] \in Op
  BY <1>1 DEF TxInv, OnlyClient
<1>7. \A d \in Client : pc'[d] \in Accepted => ~Refused(d)'
  BY <1>1, <1>2 DEF TxInv, OnlyClient, Accepted, Refused, L!Exists, L!HasRoom
<1>8. CreatesAreFresh'
  <2>1. o.kind = "create" => FreshFor(c, o.task)
    BY DEF Call
  <2>2. ASSUME NEW d \in Client, pc'[d] # "idle", op'[d].kind = "create"
        PROVE  /\ ~L!Exists(op'[d].task)
               /\ \A e \in Client \ {d} : (pc'[e] # "idle" /\ op'[e].kind = "create")
                                            => op'[e].task # op'[d].task
    BY <1>1, <2>1, <2>2 DEF TxInv, CreatesAreFresh, OnlyClient, FreshFor
  <2> QED
    BY <1>2, <2>2 DEF CreatesAreFresh, L!Exists
<1> QED
  BY <1>3, <1>4, <1>5, <1>6, <1>7, <1>8 DEF TxInv

\* The statements of a transaction before its commit: c is the writer, and
\* only c's own pc and draft change.
LEMMA InsideInv ==
  ASSUME TxInv, NEW c \in Client, NEW label \in { "read", "update", "append", "commit" },
         pc[c] # "idle", Goto(c, label), writer' = c, op' = op, UNCHANGED ledger,
         writer \in { c, NoClient },
         draft' \in [ Client -> Draft ],
         \A d \in Client \ {c} : draft'[d] = draft[d],
         label \in Accepted => ~Refused(c),
         label \in Accepted => draft'[c].base = Len(log[op[c].task]),
         label = "update" => draft'[c].row = row[op[c].task],
         label \in { "append", "commit" } =>
           draft'[c].row = RowWritten(op[c], row[op[c].task], Len(log[op[c].task])),
         label = "commit" => draft'[c].events = EventsOf(op[c], draft'[c].row)
  PROVE  TxInv'
<1>1. /\ pc'[c] = label /\ OnlyClient(c)
      /\ pc' \in [ Client -> Pc ]
  BY DEF TxInv, TypeOK, Goto, Pc, OnlyClient
<1>2. row' = row /\ log' = log
  BY DEF ledger
<1>3. TypeOK'
  BY <1>1, <1>2 DEF TxInv, TypeOK
<1>4. \A d \in Client \ {c} : ~InTransaction(d) /\ ~InTransaction(d)'
  BY <1>1, TxAssumption DEF TxInv, OneWriter, InTransaction, OnlyClient
<1>5. OneWriter'
  BY <1>4 DEF OneWriter
<1>6. ASSUME NEW d \in Client, pc'[d] \in Accepted PROVE d = c
  BY <1>4, <1>6 DEF InTransaction, Accepted
<1>7. ReadsStayCurrent'
  BY <1>1, <1>2, <1>6 DEF ReadsStayCurrent, Accepted
<1>8. \A d \in Client : pc'[d] # "idle" => op'[d] \in Op
  BY <1>1 DEF TxInv, OnlyClient
<1>9. \A d \in Client : pc'[d] \in Accepted => ~Refused(d)'
  BY <1>1, <1>2, <1>6 DEF Refused, L!Exists, L!HasRoom
<1>10. CreatesAreFresh'
  BY <1>1, <1>2 DEF TxInv, CreatesAreFresh, OnlyClient, L!Exists
<1> QED
  BY <1>3, <1>5, <1>7, <1>8, <1>9, <1>10 DEF TxInv

LEMMA BeginInv ==
  ASSUME TxInv, NEW c \in Client, BeginImmediate(c)
  PROVE  TxInv'
<1>1. "read" \in { "read", "update", "append", "commit" } /\ "read" \notin Accepted
  BY DEF Accepted
<1> QED
  BY <1>1, InsideInv DEF BeginImmediate, TxInv, TypeOK

LEMMA ReadInv ==
  ASSUME TxInv, NEW c \in Client, ReadRow(c)
  PROVE  TxInv'
<1>1. writer = c /\ op[c] \in Op /\ op[c].task \in Task
  BY DEF ReadRow, TxInv, OneWriter, InTransaction, Op
<1>2. row[op[c].task] \in L!Row /\ Len(log[op[c].task]) \in Nat /\ draft[c] \in Draft
  BY <1>1 DEF TxInv, TypeOK
<1>3. [ row |-> row[op[c].task], base |-> Len(log[op[c].task]), events |-> <<>> ] \in Draft
  BY <1>2 DEF Draft
<1>4. /\ draft' \in [ Client -> Draft ]
      /\ \A d \in Client \ {c} : draft'[d] = draft[d]
      /\ draft'[c].row = row[op[c].task] /\ draft'[c].base = Len(log[op[c].task])
  BY <1>3 DEF ReadRow, TxInv, TypeOK
<1> QED
  BY <1>1, <1>4, InsideInv DEF ReadRow, Accepted

LEMMA UpdateInv ==
  ASSUME TxInv, NEW c \in Client, Update(c)
  PROVE  TxInv'
<1>1. /\ writer = c /\ op[c] \in Op /\ op[c].task \in Task /\ ~Refused(c)
      /\ draft[c].base = Len(log[op[c].task]) /\ draft[c].row = row[op[c].task]
  BY DEF Update, TxInv, OneWriter, InTransaction, Op, Accepted, ReadsStayCurrent
<1>2. draft[c] \in Draft /\ draft[c].row \in L!Row /\ draft[c].base \in Nat
  BY DEF TxInv, TypeOK, Draft
<1>3. RowOf(c) \in L!Row /\ RowOf(c) = RowWritten(op[c], row[op[c].task], Len(log[op[c].task]))
  BY <1>1, <1>2, WrittenType DEF RowOf
<1>4. /\ draft' \in [ Client -> Draft ]
      /\ \A d \in Client \ {c} : draft'[d] = draft[d]
      /\ draft'[c].row = RowOf(c) /\ draft'[c].base = draft[c].base
  BY <1>2, <1>3 DEF Update, TxInv, TypeOK, Draft
<1> QED
  BY <1>1, <1>3, <1>4, InsideInv DEF Update, Accepted

LEMMA AppendInv ==
  ASSUME TxInv, NEW c \in Client, AppendEvents(c)
  PROVE  TxInv'
<1>1. /\ writer = c /\ op[c] \in Op /\ op[c].task \in Task /\ ~Refused(c)
      /\ draft[c].row = RowWritten(op[c], row[op[c].task], Len(log[op[c].task]))
  BY DEF AppendEvents, TxInv, OneWriter, InTransaction, Op, Accepted, ReadsStayCurrent
<1>2. /\ draft[c] \in Draft /\ draft[c].row \in L!Row
      /\ Len(log[op[c].task]) \in Nat /\ row[op[c].task] \in L!Row
  BY <1>1 DEF TxInv, TypeOK, Draft
<1>3. draft[c].row.state \in L!TaskState
  <2>1. op[c].kind # "create" => row[op[c].task].state \in L!TaskState
    BY <1>1, <1>2 DEF Refused, L!Exists, L!Row
  <2> QED
    BY <1>1, <1>2, <2>1, WrittenState
<1>4. EventsOf(op[c], draft[c].row) \in Seq(L!Event)
  BY <1>1, <1>2, <1>3, EventsType
<1>5. /\ draft' \in [ Client -> Draft ]
      /\ \A d \in Client \ {c} : draft'[d] = draft[d]
      /\ draft'[c].row = draft[c].row /\ draft'[c].base = Len(log[op[c].task])
      /\ draft'[c].events = EventsOf(op[c], draft[c].row)
  BY <1>2, <1>4 DEF AppendEvents, TxInv, TypeOK, Draft
<1> QED
  BY <1>1, <1>5, InsideInv DEF AppendEvents, Accepted

-----------------------------------------------------------------------------
(* The commit, which is where the atomic operation takes place.            *)

\* The first n elements of a sequence of length n are all of it.
LEMMA WholePrefix ==
  ASSUME NEW S, NEW s \in Seq(S)
  PROVE  SubSeq(s, 1, Len(s)) = s
OBVIOUS

LEMMA AppendIsConcatOne ==
  ASSUME NEW S, NEW s \in Seq(S), NEW e \in S
  PROVE  s \o <<e>> = Append(s, e)
OBVIOUS

\* What c has drafted when it commits.
LEMMA CommitWrites ==
  ASSUME TxInv, NEW c \in Client, Commit(c)
  PROVE  LET t == op[c].task
             r == RowWritten(op[c], row[t], Len(log[t]))
         IN  /\ op[c] \in Op /\ t \in Task /\ ~Refused(c)
             /\ row' = [ row EXCEPT ![t] = r ]
             /\ log' = [ log EXCEPT ![t] = @ \o EventsOf(op[c], r) ]
<1> DEFINE t == op[c].task
           r == RowWritten(op[c], row[t], Len(log[t]))
<1>1. /\ op[c] \in Op /\ t \in Task /\ ~Refused(c)
      /\ draft[c].base = Len(log[t]) /\ draft[c].row = r
      /\ draft[c].events = EventsOf(op[c], r)
  BY DEF Commit, TxInv, ReadsStayCurrent, Accepted, Op
<1>2. log[t] \in Seq(L!Event)
  BY <1>1 DEF TxInv, TypeOK
<1>3. SubSeq(log[t], 1, Len(log[t])) = log[t]
  BY <1>2, WholePrefix
<1> QED
  BY <1>1, <1>3 DEF Commit

LEMMA CommitIsAtomic ==
  ASSUME TxInv, NEW c \in Client, Commit(c)
  PROVE  L!Next
<1> DEFINE o == op[c]
           t == o.task
           r == RowWritten(o, row[t], Len(log[t]))
<1>1. /\ o \in Op /\ t \in Task /\ ~Refused(c)
      /\ row' = [ row EXCEPT ![t] = r ]
      /\ log' = [ log EXCEPT ![t] = @ \o EventsOf(o, r) ]
  BY CommitWrites
<1>2. row[t] \in L!Row /\ log[t] \in Seq(L!Event) /\ Len(log[t]) \in Nat
  BY <1>1 DEF TxInv, TypeOK
<1>3. L!HasRoom(t, EventCount(o)) /\ (o.kind # "create" => L!Exists(t))
  BY <1>1 DEF Refused
<1>4. pc[c] # "idle"
  BY DEF Commit
<1>5. CASE o.kind = "create"
  <2>1. o.state \in L!TaskState /\ ~L!Exists(t)
    BY <1>1, <1>4, <1>5 DEF Op, TxInv, CreatesAreFresh
  <2>2. r = L!Created(o.state)
    BY <1>5 DEF RowWritten
  <2>3. EventsOf(o, r) = << L!Ev("task_created", o.state) >>
    BY <1>5 DEF EventsOf
  <2>4. L!Ev("task_created", o.state) \in L!Event
    BY <2>1 DEF L!Ev, L!Event, L!EventType
  <2>5. log[t] \o EventsOf(o, r) = Append(log[t], L!Ev("task_created", o.state))
    BY <1>2, <2>3, <2>4, AppendIsConcatOne
  <2>6. L!HasRoom(t, 1)
    BY <1>3, <1>5 DEF EventCount
  <2>7. L!Create(t, o.state)
    BY <1>1, <2>1, <2>2, <2>5, <2>6 DEF L!Create
  <2> QED
    BY <1>1, <2>1, <2>7 DEF L!Next
<1>6. CASE o.kind = "transition"
  <2>1. o.state \in L!TaskState /\ L!MayMove(row[t].state, o.state)
    BY <1>1, <1>6 DEF Op, Refused
  <2>2. r = L!Moved(row[t], o.state, L!Now(t))
    BY <1>6 DEF RowWritten, L!Now
  <2>3. EventsOf(o, r) = << L!Ev("state_changed", o.state) >>
    BY <1>6 DEF EventsOf
  <2>4. L!Ev("state_changed", o.state) \in L!Event
    BY <2>1 DEF L!Ev, L!Event, L!EventType
  <2>5. log[t] \o EventsOf(o, r) = Append(log[t], L!Ev("state_changed", o.state))
    BY <1>2, <2>3, <2>4, AppendIsConcatOne
  <2>6. L!HasRoom(t, 1)
    BY <1>3, <1>6 DEF EventCount
  <2>7. L!Transition(t, o.state)
    BY <1>1, <1>3, <1>6, <2>1, <2>2, <2>5, <2>6 DEF L!Transition
  <2> QED
    BY <1>1, <2>1, <2>7 DEF L!Next
<1>7. CASE o.kind = "context"
  <2>1. o.files \in SUBSET File /\ L!Exists(t)
    BY <1>1, <1>3, <1>7 DEF Op
  <2>2. r = [ row[t] EXCEPT !.files = @ \cup o.files ] /\ r.state = row[t].state
    BY <1>2, <1>7 DEF RowWritten, L!Row
  <2>3. EventsOf(o, r) = << L!Ev("task_context_updated", row[t].state) >>
    BY <1>7, <2>2 DEF EventsOf
  <2>4. L!Ev("task_context_updated", row[t].state) \in L!Event
    BY <1>2, <2>1 DEF L!Ev, L!Event, L!EventType, L!Row, L!Exists
  <2>5. log[t] \o EventsOf(o, r) = Append(log[t], L!Ev("task_context_updated", row[t].state))
    BY <1>2, <2>3, <2>4, AppendIsConcatOne
  <2>6. L!HasRoom(t, 1)
    BY <1>3, <1>7 DEF EventCount
  <2>7. L!UpdateContext(t, o.files)
    BY <1>1, <2>1, <2>2, <2>5, <2>6 DEF L!UpdateContext
  <2> QED
    BY <1>1, <2>1, <2>7 DEF L!Next
<1>8. CASE o.kind = "record"
  <2>1. o.n \in 1..MaxBatch /\ L!Exists(t) /\ r = row[t]
    BY <1>1, <1>3, <1>8 DEF Op, RowWritten
  <2>2. EventsOf(o, r) = [ i \in 1..o.n |-> L!Ev("recorded", row[t].state) ]
    BY <1>8, <2>1 DEF EventsOf
  <2>3. row' = row
    BY <1>1, <2>1 DEF TxInv, TypeOK
  <2>4. L!HasRoom(t, o.n)
    BY <1>3, <1>8 DEF EventCount
  <2>5. L!RecordEvents(t, o.n)
    BY <1>1, <2>1, <2>2, <2>3, <2>4 DEF L!RecordEvents
  <2> QED
    BY <1>1, <2>1, <2>5 DEF L!Next
<1> QED
  BY <1>1, <1>5, <1>6, <1>7, <1>8 DEF Op

LEMMA CommitInv ==
  ASSUME TxInv, NEW c \in Client, Commit(c)
  PROVE  TxInv'
<1> DEFINE t == op[c].task
           r == RowWritten(op[c], row[t], Len(log[t]))
<1>1. /\ op[c] \in Op /\ t \in Task /\ ~Refused(c)
      /\ row' = [ row EXCEPT ![t] = r ]
      /\ log' = [ log EXCEPT ![t] = @ \o EventsOf(op[c], r) ]
  BY CommitWrites
<1>2. row[t] \in L!Row /\ log[t] \in Seq(L!Event) /\ Len(log[t]) \in Nat
  BY <1>1 DEF TxInv, TypeOK
<1>3. r \in L!Row /\ r.state \in L!TaskState
  <2>1. op[c].kind # "create" => row[t].state \in L!TaskState
    BY <1>1, <1>2 DEF Refused, L!Exists, L!Row
  <2> QED
    BY <1>1, <1>2, <2>1, WrittenType, WrittenState
<1>4. EventsOf(op[c], r) \in Seq(L!Event)
  BY <1>1, <1>3, EventsType
<1>5. /\ pc'[c] = "idle" /\ OnlyClient(c) /\ writer' = NoClient
      /\ pc' \in [ Client -> Pc ] /\ op' \in [ Client -> Op \cup { NoOp } ]
      /\ draft' \in [ Client -> Draft ]
  <2>1. NoDraft \in Draft
    BY DEF NoDraft, Draft, L!NoRow, L!Row
  <2> QED
    BY <2>1 DEF TxInv, TypeOK, Commit, End, Goto, Pc, OnlyClient
<1>6. log[t] \o EventsOf(op[c], r) \in Seq(L!Event)
  BY <1>2, <1>4
<1>7. TypeOK'
  BY <1>1, <1>3, <1>5, <1>6 DEF TxInv, TypeOK
<1>8. \A d \in Client : ~InTransaction(d)'
  <2>1. \A d \in Client \ {c} : ~InTransaction(d)
    BY DEF Commit, InTransaction, TxInv, OneWriter
  <2> QED
    BY <1>5, <2>1 DEF InTransaction, OnlyClient
<1>9. OneWriter'
  BY <1>8 DEF OneWriter
<1>10. \A d \in Client : pc'[d] \notin Accepted
  BY <1>8 DEF InTransaction, Accepted
<1>11. ReadsStayCurrent' /\ \A d \in Client : pc'[d] \in Accepted => ~Refused(d)'
  BY <1>10 DEF ReadsStayCurrent, Accepted
<1>12. \A d \in Client : pc'[d] # "idle" => op'[d] \in Op
  BY <1>5 DEF TxInv, OnlyClient
<1>13. CreatesAreFresh'
  <2> SUFFICES ASSUME NEW d \in Client, pc'[d] # "idle", op'[d].kind = "create"
               PROVE  /\ row'[op'[d].task].state = L!Absent
                      /\ \A e \in Client \ {d} :
                           (pc'[e] # "idle" /\ op'[e].kind = "create")
                             => op'[e].task # op'[d].task
    BY DEF CreatesAreFresh, L!Exists, L!Absent
  <2>1. d # c /\ op'[d] = op[d] /\ pc[d] # "idle" /\ op[d] \in Op /\ op[d].task \in Task
    BY <1>5 DEF OnlyClient, TxInv, Op
  <2>2. /\ ~L!Exists(op[d].task)
        /\ \A e \in Client \ {d} :
             (pc[e] # "idle" /\ op[e].kind = "create") => op[e].task # op[d].task
    BY <2>1 DEF TxInv, CreatesAreFresh
  <2>3. op[d].task # t
    <3>1. CASE op[c].kind = "create"
      BY <2>1, <2>2, <3>1 DEF Commit
    <3>2. CASE op[c].kind # "create"
      BY <1>1, <2>2, <3>2 DEF Refused
    <3> QED
      BY <3>1, <3>2
  <2>4. row'[op[d].task] = row[op[d].task]
    BY <1>1, <2>1, <2>3 DEF TxInv, TypeOK
  <2>5. row'[op'[d].task].state = L!Absent
    BY <2>1, <2>2, <2>4 DEF L!Exists
  <2>6. \A e \in Client \ {d} : (pc'[e] # "idle" /\ op'[e].kind = "create")
                                  => op'[e].task # op'[d].task
    BY <1>5, <2>1, <2>2 DEF OnlyClient
  <2> QED
    BY <2>5, <2>6
<1> QED
  BY <1>7, <1>9, <1>11, <1>12, <1>13 DEF TxInv

-----------------------------------------------------------------------------
(* Every step, and the theorems.                                           *)

LEMMA RefuseInv ==
  ASSUME TxInv, NEW c \in Client, Refuse(c)
  PROVE  TxInv'
<1>1. writer = c
  BY DEF Refuse, TxInv, OneWriter, InTransaction
<1> QED
  BY <1>1, EndsWell DEF Refuse

LEMMA NextInv == TxInv /\ [Next]_txVars => TxInv'
<1> SUFFICES ASSUME TxInv, [Next]_txVars PROVE TxInv'
  OBVIOUS
<1>1. CASE UNCHANGED txVars
  BY <1>1 DEF txVars, TxInv, TypeOK, OneWriter, InTransaction, ReadsStayCurrent,
              Refused, CreatesAreFresh, L!Exists, L!HasRoom
<1>2. ASSUME NEW c \in Client, NEW o \in Op, Call(c, o) PROVE TxInv'
  BY <1>2, CallInv
<1>3. ASSUME NEW c \in Client, Statement(c) PROVE TxInv'
  <2>1. CASE BeginImmediate(c)
    BY <2>1, BeginInv
  <2>2. CASE BusyTimeout(c)
    BY <2>2, EndsWell DEF BusyTimeout
  <2>3. CASE Refuse(c)
    BY <2>3, RefuseInv
  <2>4. CASE ReadRow(c)
    BY <2>4, ReadInv
  <2>5. CASE Update(c)
    BY <2>5, UpdateInv
  <2>6. CASE AppendEvents(c)
    BY <2>6, AppendInv
  <2>7. CASE Commit(c)
    BY <2>7, CommitInv
  <2> QED
    BY <1>3, <2>1, <2>2, <2>3, <2>4, <2>5, <2>6, <2>7 DEF Statement
<1>4. ASSUME NEW c \in Client, Crash(c) PROVE TxInv'
  BY <1>4, EndsWell DEF Crash
<1> QED
  BY <1>1, <1>2, <1>3, <1>4 DEF Next

LEMMA Invariance == Spec => []TxInv
  BY InitInv, NextInv, PTL DEF Spec

\* The tables, the write lock and every call's local state stay well formed.
THEOREM TxTypeCorrect == Spec => []TypeOK
<1>1. TxInv => TypeOK
  BY DEF TxInv
<1> QED
  BY <1>1, Invariance, PTL

\* BEGIN IMMEDIATE gives mutual exclusion: whoever is between its first read
\* and its commit is the writer.
THEOREM OneWriterAtATime == Spec => []OneWriter
<1>1. TxInv => OneWriter
  BY DEF TxInv
<1> QED
  BY <1>1, Invariance, PTL

\* So nothing a transaction read can change before it commits.
THEOREM ReadsAreCurrent == Spec => []ReadsStayCurrent
<1>1. TxInv => ReadsStayCurrent
  BY DEF TxInv
<1> QED
  BY <1>1, Invariance, PTL

\* A statement other than COMMIT is a stutter of the atomic ledger.
LEMMA StepSimulates == TxInv /\ [Next]_txVars => [L!Next]_(L!ledgerVars)
<1> SUFFICES ASSUME TxInv, [Next]_txVars PROVE [L!Next]_(L!ledgerVars)
  OBVIOUS
<1>1. CASE UNCHANGED ledger
  BY <1>1 DEF ledger, L!ledgerVars
<1>2. CASE \E c \in Client : Commit(c)
  BY <1>2, CommitIsAtomic
<1>3. (\E c \in Client : Commit(c)) \/ UNCHANGED ledger
  BY DEF Next, Call, Statement, Crash, BeginImmediate, BusyTimeout, Refuse, ReadRow,
         Update, AppendEvents, txVars, ledger
<1> QED
  BY <1>1, <1>2, <1>3

\* The statement-level ledger, with any number of clients that interleave
\* their statements and die between them, implements the atomic TaskLedger.
THEOREM Implementation == Spec => ImplementsLedger
<1>1. Init => L!Init
  BY DEF Init
<1> QED
  BY <1>1, Invariance, StepSimulates, PTL DEF Spec, ImplementsLedger, L!Spec
=============================================================================
