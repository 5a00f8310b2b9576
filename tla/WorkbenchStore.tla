---------------------------- MODULE WorkbenchStore ----------------------------
(***************************************************************************)
(* One JSON collection of the workbench (tasks, graph_runs, projects, ...) *)
(* as the processes that share it run it.  mutate, under append and        *)
(* update_item, holds an advisory lock from its read to the os.replace of  *)
(* its write.  Some callers read and write without the lock: modelled by   *)
(* "rewrite", the shape of _persist_record and save_project_profile, and   *)
(* by "list", which only reads.  Any read that meets an unreadable file    *)
(* moves it aside.  A process may die between two steps.                   *)
(***************************************************************************)
EXTENDS Naturals, Sequences, FiniteSetsExt

CONSTANTS Client, NoClient,  \* the processes; nobody holds the lock
          Key, MaxItems,     \* as in Collection
          Kinds,             \* the kinds of call the clients make
          StartStates,       \* what may be on disk at first
          MaxStamp           \* bound: seconds that pass (names of files moved aside)

ASSUME StoreAssumption ==
  /\ NoClient \notin Client
  /\ MaxItems \in Nat
  /\ MaxStamp \in Nat \ {0}
  /\ Kinds \subseteq { "append", "update", "rewrite", "list" }
  /\ StartStates \subseteq { "absent", "corrupt" }

VARIABLES
  file,    \* <name>.json
  aside,   \* aside[s]: <name>.json.corrupt-<s>
  stamp,   \* the current second
  holder,  \* who has the flock of .<name>.lock
  pc, op,  \* each client's next step and call
  seen     \* seen[c]: what c's read returned

\* A missing file and one that is not JSON both read as an empty collection.
C == INSTANCE Collection WITH items <- file.items

File == [ state : { "absent", "corrupt", "whole" }, items : Seq(C!Item) ]
NoFile == [ state |-> "absent", items |-> <<>> ]
Torn == [ state |-> "corrupt", items |-> <<>> ]
Whole(s) == [ state |-> "whole", items |-> s ]

storeVars == <<file, aside, stamp, holder, pc, op, seen>>

Op == { o \in [ kind : { "append", "rewrite" }, key : Key ]
                \cup [ kind : { "update" }, id : 1..MaxItems ]
                \cup [ kind : { "list" } ] : o.kind \in Kinds }
NoOp == [ kind |-> "none" ]

Locks(o) == o.kind \in { "append", "update" }
Grows(o) == o.kind \in { "append", "rewrite" }

Pc == { "idle", "lock", "exists", "load", "quarantine", "replace", "unlock" }

Goto(c, label) == pc' = [ pc EXCEPT ![c] = label ]

Init ==
  /\ file \in [ state : StartStates, items : { <<>> } ]
  /\ aside = [ s \in 1..MaxStamp |-> NoFile ]
  /\ stamp = 1
  /\ holder = NoClient
  /\ pc = [ c \in Client |-> "idle" ]
  /\ op = [ c \in Client |-> NoOp ]
  /\ seen = [ c \in Client |-> <<>> ]

-----------------------------------------------------------------------------
\* Calls under way that may add an item count against the bound.
Room == Len(file.items) + Cardinality({ c \in Client : Grows(op[c]) }) < MaxItems

Call(c, o) ==
  /\ pc[c] = "idle"
  /\ Grows(o) => Room
  /\ op' = [ op EXCEPT ![c] = o ]
  /\ Goto(c, IF Locks(o) THEN "lock" ELSE "exists")
  /\ UNCHANGED <<file, aside, stamp, holder, seen>>

\* The call is over; its lock, if it has one, is free.
End(c) ==
  /\ Goto(c, "idle")
  /\ op' = [ op EXCEPT ![c] = NoOp ]
  /\ seen' = [ seen EXCEPT ![c] = <<>> ]
  /\ holder' = IF holder = c THEN NoClient ELSE holder

\* A slip: a lock file older than LOCK_STALE_SECONDS is taken from its holder.
AcquireStale(c) ==
  /\ pc[c] = "lock"
  /\ holder' = c
  /\ Goto(c, "exists")
  /\ UNCHANGED <<file, aside, stamp, op, seen>>

\* flock(LOCK_EX | LOCK_NB), retried until the deadline.
Acquire(c) ==
  /\ pc[c] = "lock"
  /\ holder = NoClient
  /\ holder' = c
  /\ Goto(c, "exists")
  /\ UNCHANGED <<file, aside, stamp, op, seen>>

\* A slip: waits for the lock for as long as it takes.
LockRetry(c) ==
  /\ pc[c] = "lock"
  /\ holder # NoClient
  /\ UNCHANGED storeVars

\* WorkbenchStoreError after LOCK_TIMEOUT_SECONDS of a lock that is taken.
LockTimeout(c) ==
  /\ pc[c] = "lock"
  /\ holder # NoClient
  /\ End(c)
  /\ UNCHANGED <<file, aside, stamp>>

\* What read hands back ends a listing, and is what the others change.
Return(c, items) ==
  IF op[c].kind = "list"
  THEN End(c)
  ELSE /\ seen' = [ seen EXCEPT ![c] = items ]
       /\ Goto(c, "replace")
       /\ UNCHANGED <<holder, op>>

\* read: without a file the caller gets its default.
ReadDefault(c) ==
  /\ pc[c] = "exists"
  /\ file.state = "absent"
  /\ Return(c, <<>>)
  /\ UNCHANGED <<file, aside, stamp>>

SeesFile(c) ==
  /\ pc[c] = "exists"
  /\ file.state # "absent"
  /\ Goto(c, "load")
  /\ UNCHANGED <<file, aside, stamp, holder, op, seen>>

Load(c) ==
  /\ pc[c] = "load"
  /\ file.state = "whole"
  /\ Return(c, file.items)
  /\ UNCHANGED <<file, aside, stamp>>

\* The file went away since it was seen: an OSError, which ends the call.
LoadMissing(c) ==
  /\ pc[c] = "load"
  /\ file.state = "absent"
  /\ End(c)
  /\ UNCHANGED <<file, aside, stamp>>

LoadCorrupt(c) ==
  /\ pc[c] = "load"
  /\ file.state = "corrupt"
  /\ Goto(c, "quarantine")
  /\ UNCHANGED <<file, aside, stamp, holder, op, seen>>

\* A slip: swallows the error, and the unreadable file stays where it is.
QuarantineNothing(c) ==
  /\ pc[c] = "quarantine"
  /\ Return(c, <<>>)
  /\ UNCHANGED <<file, aside, stamp>>

\* _quarantine renames whatever <name>.json is by now; a second rename in the
\* same second replaces the first target.  Its OSErrors are suppressed.
Quarantine(c) ==
  /\ pc[c] = "quarantine"
  /\ file' = NoFile
  /\ aside' = IF file = NoFile THEN aside ELSE [ aside EXCEPT ![stamp] = file ]
  /\ Return(c, <<>>)
  /\ UNCHANGED stamp

Ids(s) == { s[i].id : i \in DOMAIN s }

\* A slip: counts the ids in use as well.
NextIdSkipping(s) == Max(Ids(s) \cup { C!NoId }) + Cardinality(Ids(s)) + 1

\* _next_id: one more than the largest id present.
NextId(s) == Max(Ids(s) \cup { C!NoId }) + 1

Appended(s, k) == Append(s, [ id |-> NextId(s), key |-> k, val |-> "new" ])

\* The first of the items at the places I takes value v.
SetFirst(s, I, v) ==
  [ i \in DOMAIN s |-> IF i \in I /\ \A j \in I : i <= j
                       THEN [ s[i] EXCEPT !.val = v ] ELSE s[i] ]

Updated(s, n) == SetFirst(s, { i \in DOMAIN s : s[i].id = n }, "updated")

\* _persist_record: the first record of the run is updated, or one is added.
Upserted(s, k) ==
  LET about == { i \in DOMAIN s : s[i].key = k } IN
  IF about # {}
  THEN SetFirst(s, about, "rewritten")
  ELSE Append(s, [ id |-> C!NoId, key |-> k, val |-> "rewritten" ])

Changed(o, s) ==
  CASE o.kind = "append"  -> Appended(s, o.key)
    [] o.kind = "update"  -> Updated(s, o.id)
    [] o.kind = "rewrite" -> Upserted(s, o.key)

\* A slip: the file is truncated and written in place, perhaps only in part.
WriteInPlace(c) ==
  /\ pc[c] = "replace"
  /\ file' \in { Whole(Changed(op[c], seen[c])), Torn }
  /\ Goto(c, "unlock")
  /\ UNCHANGED <<aside, stamp, holder, op, seen>>

\* write: the temporary file is complete and synced when it replaces the old.
Replace(c) ==
  /\ pc[c] = "replace"
  /\ file' = Whole(Changed(op[c], seen[c]))
  /\ Goto(c, "unlock")
  /\ UNCHANGED <<aside, stamp, holder, op, seen>>

\* The temporary file cannot be written (a full disk) and is deleted.
WriteFails(c) ==
  /\ pc[c] = "replace"
  /\ End(c)
  /\ UNCHANGED <<file, aside, stamp>>

\* The lock is released and the call returns its result.
Finish(c) ==
  /\ pc[c] = "unlock"
  /\ End(c)
  /\ UNCHANGED <<file, aside, stamp>>

\* The process dies: the kernel drops its flock.
Crash(c) ==
  /\ pc[c] # "idle"
  /\ End(c)
  /\ UNCHANGED <<file, aside, stamp>>

Tick ==
  /\ stamp < MaxStamp
  /\ stamp' = stamp + 1
  /\ UNCHANGED <<file, aside, holder, pc, op, seen>>

Step(c) ==
  \/ Acquire(c) \/ LockTimeout(c)
  \/ ReadDefault(c) \/ SeesFile(c) \/ Load(c) \/ LoadMissing(c)
  \/ LoadCorrupt(c) \/ Quarantine(c)
  \/ Replace(c) \/ WriteFails(c) \/ Finish(c)

Next ==
  \/ \E c \in Client : (\E o \in Op : Call(c, o)) \/ Step(c) \/ Crash(c)
  \/ Tick

Spec == Init /\ [][Next]_storeVars

\* A process that lives keeps going, and the lock's deadline passes.
FairSpec == Spec /\ \A c \in Client : WF_storeVars(Step(c))

-----------------------------------------------------------------------------
(* Properties.                                                             *)

TypeOK ==
  /\ file \in File
  /\ aside \in [ 1..MaxStamp -> File ]
  /\ stamp \in 1..MaxStamp
  /\ holder \in Client \cup { NoClient }
  /\ pc \in [ Client -> Pc ]
  /\ op \in [ Client -> Op \cup { NoOp } ]
  /\ seen \in [ Client -> Seq(C!Item) ]

\* Between its read and its write a locked call alone has the lock, and what
\* it read is what it will replace.
LockedReadsStayCurrent ==
  \A c \in Client : Locks(op[c]) /\ pc[c] = "replace" =>
    holder = c /\ seen[c] = file.items

\* When every writer takes the lock, concurrent and crashing append and
\* update_item calls act as if each were one step: no item is lost, no id is
\* given twice.
ImplementsCollection == C!Spec

\* The same of one step.
LockedCallsAreAtomic == [C!Next]_(file.items)

\* A reader finds the old file or the new one, never a torn one: no step of a
\* call makes a readable file unreadable.
NeverTorn == [][ file'.state = "corrupt" => file.state = "corrupt" ]_storeVars

\* The content of an unreadable file is kept for recovery: it is still in
\* <name>.json or in one of the files moved aside.
CorruptFileIsKept ==
  [][ LET kept(f, a) == "corrupt" \in { f.state } \cup { a[s].state : s \in 1..MaxStamp }
      IN kept(file, aside) => kept(file', aside') ]_storeVars

\* What one process stored, the call of another does not erase.
ItemsAreKept ==
  [][ \A i \in DOMAIN file.items :
        \E j \in DOMAIN file'.items : file'.items[j].id = file.items[i].id ]_storeVars

Called(c) == pc[c] # "idle"

\* Every call ends: with a result, an error, or the death of its process.
CallsReturn == \A c \in Client : Called(c) ~> ~Called(c)
=============================================================================
