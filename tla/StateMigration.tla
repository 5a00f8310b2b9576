----------------------------- MODULE StateMigration -----------------------------
(****************************************************************************)
(* The migration of a user's state to the current schema and its rollback   *)
(* (migrations.py, state_schema.py), file by file, by one process that may  *)
(* be killed between any two file operations.  Setup and `magent system     *)
(* migrate` take a zip of everything that is not below the backup directory,*)
(* convert the legacy configuration files and write the marker; `magent     *)
(* system rollback` copies a zip back.  A zip that lies below the state     *)
(* directory is archived and put back like any file: one zip stands here    *)
(* for itself and for the copies of it in other zips.                       *)
(****************************************************************************)
EXTENDS Naturals, Sequences

CONSTANTS
    F,         \* configuration files 1..F: config.toml, then the users' profiles
    Names,     \* names of backups (a second, and a suffix)
    Inside,    \* what may lie below --backup-dir: nothing, profiles, everything
    MaxOps     \* migrations and rollbacks that are begun

VARIABLES
    was,       \* the files as they were before anything happened
    file,      \* file[f]: "legacy", "migrated", or "torn" by half a copy
    marker,    \* state.json is there
    backup,    \* backup[n]: the zip of that name
    history,   \* migration-history.json: the backups it tells of
    op,        \* what the process is doing: [pc, at, name]
    ops

vars == <<was, file, marker, backup, history, op, ops>>

Files == 1..F
Content == {"legacy", "migrated", "torn"}
NotSaved == "none"
Idle == [pc |-> "idle", at |-> 0, name |-> CHOOSE n \in Names : TRUE]
NoBackup ==
    [state |-> "none", skips |-> {}, saved |-> [f \in Files |-> NotSaved], history |-> <<>>]

Init ==
    /\ file \in [Files -> {"legacy", "migrated"}] /\ was = file
    /\ marker = FALSE
    /\ backup = [n \in Names |-> NoBackup] /\ history = <<>>
    /\ op = Idle /\ ops = 0

Begin(pc, name) ==
    /\ op.pc = "idle" /\ ops < MaxOps
    /\ ops' = ops + 1
    /\ op' = [pc |-> pc, at |-> 1, name |-> name]
Next1 == op' = [op EXCEPT !.at = @ + 1]
Goto(pc) == op' = [op EXCEPT !.pc = pc, !.at = 1]

(* A slip: the name is the second alone, whether or not there is such a zip. *)
AnyName == Names

(* A zip that was closed can be read: with all it should hold ("closed"), or*)
(* with what was in it when an exception ended it ("partial").              *)
Readable(n) == backup[n].state \in {"closed", "partial"}

FreeNames == {n \in Names : backup[n].state = "none"}

-----------------------------------------------------------------------------
(* migrate_state.                                                           *)

(* The plan says that there is something to do: no marker.  The zip is      *)
(* opened for writing under its name, and is no zip until it is closed.     *)
Migrate(n, inside) ==
    /\ ~marker /\ n \in FreeNames
    /\ Begin("save", n)
    /\ backup' = [backup EXCEPT ![n] = [NoBackup EXCEPT !.state = "open", !.skips = inside]]
    /\ UNCHANGED <<was, file, marker, history>>

Save ==
    /\ op.pc = "save" /\ op.at <= F
    /\ backup' = IF op.at \in backup[op.name].skips THEN backup
                 ELSE [backup EXCEPT ![op.name].saved[op.at] = file[op.at]]
    /\ Next1
    /\ UNCHANGED <<was, file, marker, history, ops>>
(* The history lies beside config.toml.                                     *)
HistorySaved == IF 1 \in backup[op.name].skips THEN <<>> ELSE history
CloseBackup ==
    /\ op.pc = "save" /\ op.at > F
    /\ backup' = [backup EXCEPT ![op.name].state = "closed", ![op.name].history = HistorySaved]
    /\ Goto("convert")
    /\ UNCHANGED <<was, file, marker, history, ops>>
(* A file cannot be read, or the disk is full: the with block closes the zip*)
(* over what is in it, and the migration is over.                           *)
SaveFails(saved) ==
    /\ op.pc = "save"
    /\ (op.at = 1 => saved = <<>>) /\ (op.at > 2 => saved = HistorySaved)
    /\ backup' = [backup EXCEPT ![op.name].state = "partial", ![op.name].history = saved]
    /\ op' = Idle
    /\ UNCHANGED <<was, file, marker, history, ops>>

(* Each file is replaced as a whole; one that cannot be parsed raises.      *)
Convert ==
    /\ op.pc = "convert" /\ op.at <= F
    /\ IF file[op.at] = "torn"
       THEN op' = Idle /\ UNCHANGED file
       ELSE Next1 /\ file' = [file EXCEPT ![op.at] = "migrated"]
    /\ UNCHANGED <<was, marker, backup, history, ops>>
Mark ==
    /\ op.pc = "convert" /\ op.at > F
    /\ marker' = TRUE
    /\ Goto("log")
    /\ UNCHANGED <<was, file, backup, history, ops>>
Log ==
    /\ op.pc = "log"
    /\ history' = Append(history, op.name)
    /\ op' = Idle
    /\ UNCHANGED <<was, file, marker, backup, ops>>

-----------------------------------------------------------------------------
(* rollback_state: every member of a readable zip is opened for writing,    *)
(* which empties the file, and copied; migrations leave no marker in a zip, *)
(* so the marker goes last.                                                 *)

Rollback(n) ==
    /\ Readable(n)
    /\ Begin("empty", n)
    /\ UNCHANGED <<was, file, marker, backup, history>>

IsMember(f) == backup[op.name].saved[f] # NotSaved
PassFile ==
    /\ op.pc = "empty" /\ op.at <= F /\ ~IsMember(op.at)
    /\ Next1
    /\ UNCHANGED <<was, file, marker, backup, history, ops>>
EmptyFile ==
    /\ op.pc = "empty" /\ op.at <= F /\ IsMember(op.at)
    /\ file' = [file EXCEPT ![op.at] = "torn"]
    /\ op' = [op EXCEPT !.pc = "copy"]
    /\ UNCHANGED <<was, marker, backup, history, ops>>

(* config.toml is followed by the history, if the zip has one: what cannot  *)
(* be read of it counts as empty.                                           *)
CopyFile ==
    /\ op.pc = "copy"
    /\ file' = [file EXCEPT ![op.at] = backup[op.name].saved[op.at]]
    /\ IF op.at = 1 /\ backup[op.name].history # <<>>
       THEN op' = [op EXCEPT !.pc = "history"] /\ history' = <<>>
       ELSE op' = [op EXCEPT !.pc = "empty", !.at = @ + 1] /\ UNCHANGED history
    /\ UNCHANGED <<was, marker, backup, ops>>
CopyHistory ==
    /\ op.pc = "history"
    /\ history' = backup[op.name].history
    /\ op' = [op EXCEPT !.pc = "empty", !.at = @ + 1]
    /\ UNCHANGED <<was, file, marker, backup, ops>>
Unmark ==
    /\ op.pc = "empty" /\ op.at > F
    /\ marker' = FALSE
    /\ op' = Idle
    /\ UNCHANGED <<was, file, backup, history, ops>>

Crash ==
    /\ op.pc # "idle"
    /\ op' = Idle
    /\ UNCHANGED <<was, file, marker, backup, history, ops>>

Next ==
    \/ \E n \in Names : Rollback(n) \/ \E inside \in Inside : Migrate(n, inside)
    \/ Save \/ CloseBackup \/ Convert \/ Mark \/ Log
    \/ \E saved \in {<<>>, HistorySaved} : SaveFails(saved)
    \/ PassFile \/ EmptyFile \/ CopyFile \/ CopyHistory \/ Unmark
    \/ Crash

Spec == Init /\ [][Next]_vars

-----------------------------------------------------------------------------
Backup ==
    [state : {"none", "open", "partial", "closed"}, skips : SUBSET Files,
     saved : [Files -> Content \cup {NotSaved}], history : Seq(Names)]
OpPc == {"idle", "save", "convert", "log", "empty", "copy", "history"}

TypeOK ==
    /\ file \in [Files -> Content] /\ was \in [Files -> Content] /\ marker \in BOOLEAN
    /\ backup \in [Names -> Backup]
    /\ history \in Seq(Names) /\ ops \in 0..MaxOps
    /\ op.pc \in OpPc /\ op.at \in 0..(F + 1)

(* "Apply always creates a private ZIP backup before changing files"        *)
(* (docs/compatibility.md): however often migrations and rollbacks are      *)
(* repeated, fail or are killed half-way, what a file was at first is in    *)
(* place or in a zip that can be read, unless a migration was told to put   *)
(* its backup into a directory above that file: such a backup leaves the    *)
(* file out.                                                                *)
SavedOriginal(f) == \E n \in Names : Readable(n) /\ backup[n].saved[f] = was[f]
LeftOut(f) == \E n \in Names : backup[n].state = "closed" /\ f \in backup[n].skips
OriginalsAreSafe ==
    \A f \in Files : file[f] = was[f] \/ SavedOriginal(f) \/ LeftOut(f)

(* Why: a zip is written from files that nothing touches meanwhile; no file *)
(* is converted before one zip is complete, nor overwritten but by a member *)
(* of a zip; and a zip that was closed is never opened for writing again.   *)
(* So the first zip that has a file has its original.                       *)
SomeClosed == \E n \in Names : backup[n].state = "closed"
Untouched(f) ==
    /\ file[f] = was[f] /\ ~SomeClosed
    /\ \A n \in Names : Readable(n) => backup[n].saved[f] = NotSaved
ZipInv ==
    /\ file \in [Files -> Content] /\ was \in [Files -> Content]
    /\ backup \in [Names -> Backup] /\ history \in Seq(Names)
    /\ op \in [pc : OpPc, at : Nat, name : Names]
    /\ op.pc = "save" =>
          /\ backup[op.name].state = "open" /\ op.at >= 1
          /\ \A f \in Files : backup[op.name].saved[f] =
                IF f < op.at /\ f \notin backup[op.name].skips THEN file[f] ELSE NotSaved
    /\ op.pc \in {"empty", "copy", "history"} => Readable(op.name)
    /\ op.pc = "empty" => op.at >= 1
    /\ op.pc = "copy" => op.at \in Files /\ IsMember(op.at)
    /\ op.pc = "convert" => SomeClosed
    /\ \A f \in Files : SavedOriginal(f) \/ LeftOut(f) \/ Untouched(f)

-----------------------------------------------------------------------------
(* What the code does not keep.                                             *)

(* The sentence above as it stands, for every backup directory.             *)
BackupHoldsEverything ==
    \A f \in Files : file[f] = was[f] \/ SavedOriginal(f)

(* Where the marker says that the state is migrated, no file is of the old  *)
(* form or half a file: no later migration would look at it.                *)
MarkerMeansMigrated ==
    (marker /\ op.pc = "idle") => \A f \in Files : file[f] = "migrated"

(* "append-only migration audit history" (docs/known-limitations.md).       *)
HistoryOnlyGrows ==
    [][Len(history) <= Len(history') /\ SubSeq(history', 1, Len(history)) = history]_history
=============================================================================
