----------------------------- MODULE GraphRecords -----------------------------
(***************************************************************************)
(* The graph_runs collection across executions of the same run: run()      *)
(* appends a record, keeps its results in memory and writes them into the  *)
(* collection when it concludes; `magent graph resume` looks the run up    *)
(* and reuses the jobs its record says succeeded.  Executors are processes *)
(* and may die at any point.  Appending and persisting are single steps    *)
(* here: WorkbenchStore shows what their interleaving can do.              *)
(***************************************************************************)
EXTENDS Naturals, Sequences, FiniteSetsExt

CONSTANTS Run,         \* run ids
          Job,         \* the jobs of the graph
          Executor,    \* processes that execute runs
          Judged,      \* the runs whose graph declares success criteria
          Restarts,    \* the graph's policy: resume = restart
          MaxRecords   \* bound: records ever appended

VARIABLES
  records,  \* the collection graph_runs
  exec,     \* exec[e]: the execution under way in process e
  ran       \* ran[r]: history, the jobs that succeeded in executions of run r

recordVars == <<records, exec, ran>>

Status == { "running", "succeeded", "failed", "cancelled" }
\* "failed" stands for blocked and cancelled nodes, too.
Ended == { "succeeded", "skipped", "awaiting_human", "failed" }
Record == [ run : Run, status : Status, nodes : [ Job -> Ended \cup { "pending" } ] ]
Execution ==
  [ pc : { "opening", "running", "concluded" }, record : Record ]
Idle == [ pc |-> "idle" ]

Done(record) == { j \in Job : record.nodes[j] = "succeeded" }
Only(done) == [ j \in Job |-> IF j \in done THEN "succeeded" ELSE "pending" ]

\* Without criteria of its own a graph succeeds when every node succeeded or
\* was skipped; criteria accept a node that waits for a person as well.  No
\* graph succeeds with a node that failed or was left out.
Accepted(r) ==
  { "succeeded", "skipped" } \cup (IF r \in Judged THEN { "awaiting_human" } ELSE {})
Succeeds(record) == \A j \in Job : record.nodes[j] \in Accepted(record.run)

PlacesOf(r) == { i \in DOMAIN records : records[i].run = r }

\* A slip: takes the newest record, of whichever run.
FindNewest(r) == records[Len(records)]

\* _find_run searches the collection from its end, _persist_record from its
\* start.
FindRun(r) == records[Max(PlacesOf(r))]
FirstPlace(r) == Min(PlacesOf(r))

Init ==
  /\ records = <<>>
  /\ exec = [ e \in Executor |-> Idle ]
  /\ ran = [ r \in Run |-> {} ]

-----------------------------------------------------------------------------
\* A slip: the record is "pending" until the first job starts.
StartingPending(r, done) ==
  [ pc |-> "opening", record |-> [ run |-> r, status |-> "pending", nodes |-> Only(done) ] ]

\* new_run_record: the record says "running" from the start.
Starting(r, done) ==
  [ pc |-> "opening", record |-> [ run |-> r, status |-> "running", nodes |-> Only(done) ] ]

Room ==
  Len(records) + Cardinality({ e \in Executor : exec[e].pc = "opening" }) < MaxRecords

\* A fresh run gets a new uuid.
Start(e, r) ==
  /\ exec[e] = Idle
  /\ Room
  /\ PlacesOf(r) = {}
  /\ \A f \in Executor : exec[f] # Idle => exec[f].record.run # r
  /\ exec' = [ exec EXCEPT ![e] = Starting(r, {}) ]
  /\ UNCHANGED <<records, ran>>

\* resume_cmd: the jobs that succeeded are reused, except those invalidated by
\* --retry-nodes, their dependents and redacted results.  Nothing keeps two processes from
\* resuming one run, nor a resume from meeting a run that still runs.
Resume(e, r, invalidated) ==
  /\ exec[e] = Idle
  /\ Room
  /\ PlacesOf(r) # {}
  /\ exec' = [ exec EXCEPT ![e] =
                 Starting(r, IF Restarts THEN {} ELSE Done(FindRun(r)) \ invalidated) ]
  /\ UNCHANGED <<records, ran>>

\* store.append: the new record says "running" and has no results yet.
Open(e) ==
  /\ exec[e].pc = "opening"
  /\ records' = Append(records, [ exec[e].record EXCEPT !.nodes = Only({}) ])
  /\ exec' = [ exec EXCEPT ![e].pc = "running" ]
  /\ UNCHANGED ran

\* A job ends: its result is in the executor's memory only.
FinishJob(e, j, how) ==
  /\ exec[e].pc = "running"
  /\ exec[e].record.nodes[j] = "pending"
  /\ exec' = [ exec EXCEPT ![e].record.nodes[j] = how ]
  /\ ran' = [ ran EXCEPT ![exec[e].record.run] =
                 @ \cup (IF how = "succeeded" THEN { j } ELSE {}) ]
  /\ UNCHANGED records

\* The criteria may fail whatever the nodes did, and an exception or a
\* cancellation ends the run at any point.
Conclude(e, status) ==
  /\ exec[e].pc = "running"
  /\ status = "succeeded" => Succeeds(exec[e].record)
  /\ exec' = [ exec EXCEPT ![e].pc = "concluded", ![e].record.status = status ]
  /\ UNCHANGED <<records, ran>>

\* _persist_record: the first record of the run takes the results.
Persist(e) ==
  /\ exec[e].pc = "concluded"
  /\ records' = [ records EXCEPT ![FirstPlace(exec[e].record.run)] = exec[e].record ]
  /\ exec' = [ exec EXCEPT ![e] = Idle ]
  /\ UNCHANGED ran

\* The process dies with the results it has not persisted.
Crash(e) ==
  /\ exec[e] # Idle
  /\ exec' = [ exec EXCEPT ![e] = Idle ]
  /\ UNCHANGED <<records, ran>>

Next ==
  \E e \in Executor :
    \/ \E r \in Run : Start(e, r)
    \/ \E r \in Run, invalidated \in SUBSET Job : Resume(e, r, invalidated)
    \/ Open(e)
    \/ \E j \in Job, how \in Ended : FinishJob(e, j, how)
    \/ \E status \in Status \ { "running" } : Conclude(e, status)
    \/ Persist(e)
    \/ Crash(e)

Spec == Init /\ [][Next]_recordVars

-----------------------------------------------------------------------------
(* Properties.                                                             *)

TypeOK ==
  /\ records \in Seq(Record)
  /\ exec \in [ Executor -> Execution \cup { Idle } ]
  /\ ran \in [ Run -> SUBSET Job ]

\* Whatever was resumed, retried, run twice or lost: a record claims only
\* results that executions of its own run produced, and one that says
\* "succeeded" has no job that failed or was left out: each of them succeeded,
\* was skipped or, where the graph's own criteria passed, waits for a person.
RecordsClaimRealWork ==
  \A i \in DOMAIN records :
    /\ Done(records[i]) \subseteq ran[records[i].run]
    /\ records[i].status = "succeeded" => Succeeds(records[i])

\* Why: an execution claims in memory, too, only what executions of its run
\* finished, and concludes with success only on outcomes the graph accepts.
ClaimsInv ==
  /\ TypeOK
  /\ \A e \in Executor : exec[e].pc # "idle" =>
       /\ Done(exec[e].record) \subseteq ran[exec[e].record.run]
       /\ exec[e].record.status = "succeeded" => Succeeds(exec[e].record)
       /\ exec[e].pc # "concluded" => exec[e].record.status = "running"
  /\ RecordsClaimRealWork

\* Successful work that a concluded execution recorded is retained by later
\* resumes: when nobody else executes the run, a resume reuses every recorded
\* job that it does not invalidate.
ResumeRetainsWork ==
  [][ \A e \in Executor, r \in Run, invalidated \in SUBSET Job :
        /\ Resume(e, r, invalidated)
        /\ \A f \in Executor \ { e } : exec[f] = Idle \/ exec[f].record.run # r
        => \A i \in PlacesOf(r) :
             Done(records[i]) \ invalidated \subseteq Done(exec'[e].record) ]_recordVars
=============================================================================
