---------------------------- MODULE Checkpoints ----------------------------
(***************************************************************************)
(* The snapshots taken before a session's tools change a file, and their   *)
(* restoration (workbench.py create_checkpoint, restore_checkpoint,        *)
(* checkpoint_session_restore; tools/files.py; tools/artifacts.py;         *)
(* tools/executor.py _checkpoint).                                         *)
(*                                                                         *)
(* A tool reads the file, snapshots it, and only then changes it; but      *)
(* generate_image writes first, and extract and compress take no snapshot. *)
(* Sessions are processes, and a restore is one more, so each of them runs *)
(* while a tool of the same session is under way.                          *)
(*                                                                         *)
(* before, foreign, missed and late are history variables: what a path     *)
(* held when the session first touched it, the paths somebody else changed *)
(* since, those the session changed with no snapshot of what was there,    *)
(* and those its tools wrote while its restoration ran.                    *)
(***************************************************************************)
EXTENDS Integers, Sequences

CONSTANTS Sessions, Paths, Contents,
          Absent, Dir,       \* a path that holds nothing, or a directory
          MaxLog             \* bound: checkpoints

VARIABLES files,     \* [Paths -> Holds]
          log,       \* the "checkpoints" collection
          tool,      \* [Sessions -> the call under way]
          restore,   \* the restoration under way
          before, foreign, missed, late

ckVars == <<files, log, tool, restore, before, foreign, missed, late>>

Untouched == "untouched"
Holds == Contents \union {Absent} \union {Dir}
Written == "written"   \* in place of what to write
NoTool == [at |-> "idle", path |-> "none", new |-> "none", saw |-> "none"]
NoRestore == [of |-> "none", todo |-> {}, ok |-> TRUE]

TypeOK ==
    /\ files \in [Paths -> Holds]
    /\ Len(log) <= MaxLog
    /\ \A i \in DOMAIN log : log[i].session \in Sessions /\ log[i].path \in Paths
                             /\ log[i].held \in Holds
    /\ \A s \in Sessions : tool[s].at \in {"idle", "read", "saved", "recorded"}
    /\ restore.of \in Sessions \union {"none"}
    /\ before \in [Sessions -> [Paths -> Holds \union {Untouched}]]
    /\ foreign \in [Sessions -> SUBSET Paths]
    /\ missed \in [Sessions -> SUBSET Paths]
    /\ late \subseteq Paths

Init ==
    /\ files \in [Paths -> Holds]
    /\ log = <<>>
    /\ tool = [s \in Sessions |-> NoTool]
    /\ restore = NoRestore
    /\ before = [s \in Sessions |-> [p \in Paths |-> Untouched]]
    /\ foreign = [s \in Sessions |-> {}]
    /\ missed = [s \in Sessions |-> {}]
    /\ late = {}

-----------------------------------------------------------------------------
\* writer changed p: for every other session that touched p it is foreign.
Changes(writer, p, held) ==
    /\ files' = [files EXCEPT ![p] = held]
    /\ foreign' = [s \in Sessions |->
                      IF s # writer /\ before[s][p] # Untouched /\ files[p] # held
                      THEN foreign[s] \union {p} ELSE foreign[s]]

\* A tool of s writes p, perhaps while the session is being restored.
SessionWrites(s, p, held) ==
    /\ Changes(s, p, held)
    /\ late' = IF restore.of = s THEN late \union {p} ELSE late

OfSession(s) == {i \in DOMAIN log : log[i].session = s}
Copies(s, p) == {i \in OfSession(s) : log[i].path = p}

Goes(s, at) == tool' = [tool EXCEPT ![s].at = at]
Stops(s) == tool' = [tool EXCEPT ![s] = NoTool]

\* write_file, edit_file or delete_file reads what is there; a directory
\* can only be deleted, an absent file only written.
ToolReads(s, p, new) ==
    /\ tool[s].at = "idle" /\ Len(log) < MaxLog
    /\ new # files[p] /\ new # Dir
    /\ files[p] = Dir => new = Absent
    /\ tool' = [tool EXCEPT ![s] = [at |-> "read", path |-> p, new |-> new,
                                    saw |-> files[p]]]
    /\ UNCHANGED <<files, log, restore, before, foreign, missed, late>>

\* extract, compress and commands change a file with no snapshot, and
\* generate_image takes one of what it has just written.
WritesFirst(s, p, new) ==
    /\ tool[s].at = "idle" /\ Len(log) < MaxLog
    /\ new # files[p]
    /\ files[p] = Dir => new = Absent
    /\ SessionWrites(s, p, new)
    /\ before' = [before EXCEPT ![s][p] = IF @ = Untouched THEN files[p] ELSE @]
    /\ missed' = IF before[s][p] = Untouched THEN [missed EXCEPT ![s] = @ \union {p}] ELSE missed
    /\ \/ UNCHANGED tool
       \/ /\ new \in Contents
          /\ tool' = [tool EXCEPT ![s] = [at |-> "read", path |-> p, new |-> Written, saw |-> new]]
    /\ UNCHANGED <<log, restore>>

\* create_checkpoint copies the bytes; of a directory it copies nothing.
Snapshot(s) ==
    /\ tool[s].at = "read"
    /\ LET p == tool[s].path
       IN /\ tool' = [tool EXCEPT ![s].at = "saved", ![s].saw = files[p]]
          /\ before' = [before EXCEPT ![s][p] = IF @ = Untouched THEN files[p] ELSE @]
    /\ UNCHANGED <<files, log, restore, foreign, missed, late>>

RecordCheckpoint(s) ==
    /\ tool[s].at = "saved" /\ Len(log) < MaxLog
    /\ log' = Append(log, [session |-> s, path |-> tool[s].path, held |-> tool[s].saw])
    /\ Goes(s, "recorded")
    /\ UNCHANGED <<files, restore, before, foreign, missed, late>>

\* _checkpoint swallows the error, and the tool carries on.
CheckpointFails(s) ==
    /\ tool[s].at = "saved"
    /\ missed' = IF Copies(s, tool[s].path) = {}
                 THEN [missed EXCEPT ![s] = @ \union {tool[s].path}] ELSE missed
    /\ Goes(s, "recorded")
    /\ UNCHANGED <<files, log, restore, before, foreign, late>>

ToolWrites(s) ==
    /\ tool[s].at = "recorded"
    /\ IF tool[s].new = Written THEN UNCHANGED <<files, foreign, late>>
       ELSE SessionWrites(s, tool[s].path, tool[s].new)
    /\ Stops(s)
    /\ UNCHANGED <<log, restore, before, missed>>

-----------------------------------------------------------------------------
\* The checkpoints of a session, taken the newest first.
\* A slip: the oldest first.
Oldest(todo) == CHOOSE i \in todo : \A j \in todo : i <= j
Newest(todo) == CHOOSE i \in todo : \A j \in todo : j <= i

SessionRestore(s) ==
    /\ restore.of = "none"
    /\ OfSession(s) # {}
    /\ restore' = [of |-> s, todo |-> OfSession(s), ok |-> TRUE]
    /\ UNCHANGED <<files, log, tool, before, foreign, missed, late>>

\* A created directory is refused; a checkpoint of one has no content, and
\* reading its backup path raises.
RestoreOne ==
    /\ restore.of \in Sessions /\ restore.todo # {}
    /\ LET item == log[Newest(restore.todo)]
           rest == restore.todo \ {Newest(restore.todo)}
       IN \/ /\ item.held \in Contents /\ files[item.path] # Dir
             /\ Changes(item.session, item.path, item.held)
             /\ restore' = [restore EXCEPT !.todo = rest]
          \/ /\ item.held = Absent /\ files[item.path] # Dir
             /\ Changes(item.session, item.path, Absent)
             /\ restore' = [restore EXCEPT !.todo = rest]
          \/ /\ item.held = Absent /\ files[item.path] = Dir
             /\ restore' = [restore EXCEPT !.todo = rest, !.ok = FALSE]
             /\ UNCHANGED <<files, foreign>>
          \/ /\ item.held = Dir \/ (item.held \in Contents /\ files[item.path] = Dir)
             /\ restore' = [restore EXCEPT !.todo = {}, !.ok = FALSE]
             /\ UNCHANGED <<files, foreign>>
    /\ UNCHANGED <<log, tool, before, missed, late>>

RestoreEnds ==
    /\ restore.of \in Sessions /\ restore.todo = {}
    /\ restore' = NoRestore /\ late' = {}
    /\ UNCHANGED <<files, log, tool, before, foreign, missed>>

\* A single restore: the last checkpoint, or any by its id.
RestoreById(i) ==
    /\ i \in DOMAIN log
    /\ log[i].held # Dir /\ files[log[i].path] # Dir
    /\ Changes("none", log[i].path, log[i].held)
    /\ UNCHANGED <<log, tool, restore, before, missed, late>>

Done == (\A s \in Sessions : tool[s].at = "idle" \/ Len(log) = MaxLog) /\ UNCHANGED ckVars

Next ==
    \/ \E s \in Sessions :
          \/ \E p \in Paths, new \in Holds : ToolReads(s, p, new) \/ WritesFirst(s, p, new)
          \/ Snapshot(s) \/ RecordCheckpoint(s) \/ CheckpointFails(s) \/ ToolWrites(s)
          \/ SessionRestore(s)
    \/ RestoreOne \/ RestoreEnds
    \/ \E i \in 1..MaxLog : RestoreById(i)
    \/ Done

Spec == Init /\ [][Next]_ckVars

-----------------------------------------------------------------------------
PutBack(P) ==
    \A p \in P : before[restore.of][p] # Untouched => files[p] = before[restore.of][p]

(* When the restoration of a session says that it succeeded, every path its *)
(* tools changed holds what it held before the session first touched it,   *)
(* unless somebody else changed it meanwhile, the session changed it with  *)
(* no snapshot of what was there, or a tool of the session wrote it while  *)
(* the restoration ran.                                                    *)
Exempt(s) == foreign[s] \union missed[s] \union late
Restored ==
    restore.of \in Sessions /\ restore.todo = {} /\ restore.ok =>
        PutBack(Paths \ Exempt(restore.of))

(* Why: the oldest checkpoint of a path holds what the path held before,   *)
(* and is the last to be put back.                                         *)
Tools == [at : {"read", "saved", "recorded"}, path : Paths, new : Holds \union {Written},
          saw : Holds]
SaveTypes ==
    /\ files \in [Paths -> Holds]
    /\ log \in Seq([session : Sessions, path : Paths, held : Holds])
    /\ tool \in [Sessions -> Tools \union {NoTool}]
    /\ restore \in [of : Sessions \union {"none"}, todo : SUBSET DOMAIN log, ok : BOOLEAN]
    /\ before \in [Sessions -> [Paths -> Holds \union {Untouched}]]
    /\ foreign \in [Sessions -> SUBSET Paths] /\ missed \in [Sessions -> SUBSET Paths]
    /\ late \subseteq Paths
Saving(s, p) == tool[s].at = "saved" /\ tool[s].path = p
OldestIsBefore ==
    \A s \in Sessions, p \in Paths :
        /\ before[s][p] = Untouched => Copies(s, p) = {} /\ ~Saving(s, p)
        /\ before[s][p] # Untouched /\ p \notin missed[s] =>
              \/ Copies(s, p) = {} /\ Saving(s, p) /\ tool[s].saw = before[s][p]
              \/ \E i \in Copies(s, p) :
                    log[i].held = before[s][p] /\ \A j \in Copies(s, p) : i <= j
UnsavedIsThere ==
    \A s \in Sessions : \A p \in Paths \ (foreign[s] \union missed[s]) :
        before[s][p] # Untouched /\ Copies(s, p) = {} => files[p] = before[s][p]
PutBackInOrder ==
    restore.of \in Sessions =>
        /\ restore.todo \subseteq OfSession(restore.of)
        /\ restore.ok =>
              /\ \A i \in OfSession(restore.of) \ restore.todo : \A j \in restore.todo : j < i
              /\ \A p \in Paths \ Exempt(restore.of) :
                    \/ before[restore.of][p] = Untouched \/ files[p] = before[restore.of][p]
                    \/ Copies(restore.of, p) \intersect restore.todo # {}
SaveInv == SaveTypes /\ OldestIsBefore /\ UnsavedIsThere /\ PutBackInOrder

(* Not kept: a tool changes a file only after a snapshot of it (README.md  *)
(* of the repository, line 97).  One that fails is dropped, an image is    *)
(* written first, and extract and compress take none.                      *)
EverySnapshotIsTaken == \A s \in Sessions : missed[s] = {}

(* Not kept: a session that changed directories can be put back.           *)
RestorationSucceeds == restore.of \in Sessions /\ restore.todo = {} => restore.ok
=============================================================================
