---------------------------- MODULE PluginStore ----------------------------
(***************************************************************************)
(* Installed plugins (plugins.py, plugin_registry.py): a directory per     *)
(* plugin and one state file, plugins.toml, that says which are enabled    *)
(* and what they were granted.  An operation touches both, one after the   *)
(* other, without a lock, and the process may die in between; the state    *)
(* file is overwritten in place.                                           *)
(* given and replaced are history variables: what the directory held when  *)
(* the entry of the state file was made, and the names reinstalled with    *)
(* --force since.                                                          *)
(***************************************************************************)
EXTENDS Integers, FiniteSets

CONSTANTS Names, Packs,
          Invalid,      \* the packs that fail validation
          Processes,
          MaxOps        \* bound: operations begun

VARIABLES tree,      \* [Names -> what the directory holds]
          entry,     \* [Names -> [on, grant]]: plugins.toml
          op,        \* [Processes -> the operation under way]
          given,     \* [Names -> Holds]
          replaced,  \* SUBSET Names
          ops

plVars == <<tree, entry, op, given, replaced, ops>>

Gone == "gone"        \* no directory
Partial == "partial"  \* some of the files
Holds == Packs \union {Gone, Partial}
NoEntry == [on |-> FALSE, grant |-> FALSE]
NoOp == [at |-> "idle", n |-> "none", pack |-> "none", read |-> [n \in Names |-> NoEntry]]
Stages == {"idle", "copy", "check", "verified", "grantRead", "popped", "removing", "write"}

TypeOK ==
    /\ tree \in [Names -> Holds] /\ given \in [Names -> Holds]
    /\ entry \in [Names -> [on : BOOLEAN, grant : BOOLEAN]]
    /\ \A p \in Processes : op[p].at \in Stages
    /\ replaced \subseteq Names /\ ops \in 0..MaxOps

Init ==
    /\ tree = [n \in Names |-> Gone] /\ given = [n \in Names |-> Gone]
    /\ entry = [n \in Names |-> NoEntry]
    /\ op = [p \in Processes |-> NoOp]
    /\ replaced = {} /\ ops = 0

-----------------------------------------------------------------------------
Begin(p, o) ==
    /\ op[p].at = "idle" /\ ops < MaxOps /\ ops' = ops + 1
    /\ op' = [op EXCEPT ![p] = o]
At(p, stage) == op[p].at = stage
Moves(p, stage) == op' = [op EXCEPT ![p].at = stage]
Ends(p) == op' = [op EXCEPT ![p] = NoOp]
Holding(n, held) == tree' = [tree EXCEPT ![n] = held]

(* install_plugin: remove the old directory if forced, copy, validate.     *)
Install(p, n, pack) ==
    /\ Begin(p, [NoOp EXCEPT !.at = "copy", !.n = n, !.pack = pack])
    /\ Holding(n, Partial)
    /\ replaced' = IF tree[n] = Gone THEN replaced ELSE replaced \union {n}
    /\ UNCHANGED <<entry, given>>

Copied(p) ==
    /\ At(p, "copy")
    /\ Holding(op[p].n, op[p].pack) /\ Moves(p, "check")
    /\ UNCHANGED <<entry, given, replaced, ops>>

Validated(p) ==
    /\ At(p, "check")
    /\ tree' = IF op[p].pack \in Invalid THEN [tree EXCEPT ![op[p].n] = Gone] ELSE tree
    /\ Ends(p)
    /\ UNCHANGED <<entry, given, replaced, ops>>

(* set_plugin_enabled and set_plugin_grant read the state after the checks *)
(* and write it back.  Enabling verifies the directory; one that is        *)
(* partly there may pass, for lack of a checksum.                          *)
SetEntry(p, n, e) ==
    /\ tree[n] # Gone
    /\ e.on => tree[n] \notin Invalid
    /\ Begin(p, [NoOp EXCEPT !.at = "write", !.n = n, !.pack = tree[n],
                             !.read = [entry EXCEPT ![n] = e]])
    /\ UNCHANGED <<tree, entry, given, replaced>>

WriteState(p) ==
    /\ At(p, "write")
    /\ entry' = op[p].read
    /\ given' = [given EXCEPT ![op[p].n] = op[p].pack]
    /\ replaced' = replaced \ {op[p].n}
    /\ Ends(p)
    /\ UNCHANGED <<tree, ops>>

(* A slip: the entry stays.                                                *)
UninstallTreeOnly(p, n) ==
    /\ tree[n] # Gone /\ Begin(p, [NoOp EXCEPT !.at = "removing", !.n = n])
    /\ UNCHANGED <<tree, entry, given, replaced>>
(* uninstall_plugin: the entry first, then the directory.                  *)
Uninstall(p, n) ==
    /\ tree[n] # Gone
    /\ Begin(p, [NoOp EXCEPT !.at = "popped", !.n = n,
                             !.read = [entry EXCEPT ![n] = NoEntry]])
    /\ UNCHANGED <<tree, entry, given, replaced>>

PopEntry(p) ==
    /\ At(p, "popped")
    /\ entry' = op[p].read /\ replaced' = replaced \ {op[p].n}
    /\ Moves(p, "removing")
    /\ UNCHANGED <<tree, given, ops>>

RemoveTree(p) ==
    /\ At(p, "removing")
    /\ \/ tree[op[p].n] # Partial /\ Holding(op[p].n, Partial) /\ UNCHANGED op
       \/ Holding(op[p].n, Gone) /\ Ends(p)
    /\ UNCHANGED <<entry, given, replaced, ops>>

\* The process dies.  A state file it was writing reads as empty.
Crash(p) ==
    /\ ~At(p, "idle")
    /\ entry' \in (IF op[p].at \in {"write", "popped"}
                   THEN {entry, [n \in Names |-> NoEntry]} ELSE {entry})
    /\ Ends(p)
    /\ UNCHANGED <<tree, given, replaced, ops>>

Done == ops = MaxOps /\ (\A p \in Processes : At(p, "idle")) /\ UNCHANGED plVars

Next ==
    \/ \E p \in Processes :
          \/ \E n \in Names, pack \in Packs : Install(p, n, pack)
          \/ \E n \in Names, on, grant \in BOOLEAN :
                /\ on = entry[n].on \/ grant = entry[n].grant
                /\ SetEntry(p, n, [on |-> on, grant |-> grant])
          \/ \E n \in Names : Uninstall(p, n)
          \/ Copied(p) \/ Validated(p) \/ WriteState(p) \/ PopEntry(p) \/ RemoveTree(p)
          \/ Crash(p)
    \/ Done

Spec == Init /\ [][Next]_plVars

-----------------------------------------------------------------------------
(* A plugin that is enabled or holds a grant, and is there, is the one     *)
(* that was enabled or granted: neither survives the pack it was given to, *)
(* whatever is interrupted, except for a reinstallation with --force.      *)
EntryIsForThisPack ==
    \A n \in Names \ replaced : entry[n] # NoEntry /\ tree[n] # Gone => tree[n] = given[n]

(* Why: what an operation under way has read still is what there is, and    *)
(* nothing is granted to a plugin that is being installed or removed.       *)
StoreInv ==
    /\ TypeOK
    /\ DOMAIN op = Processes
    /\ \A n \in Names \ replaced :
          entry[n] # NoEntry => tree[n] = given[n] /\ tree[n] # Gone
    /\ \A p \in Processes : op[p].at # "idle" =>
          /\ op[p].n \in Names /\ DOMAIN op[p] = {"at", "n", "pack", "read"}
          /\ op[p].at \in {"copy", "check"} =>
                /\ op[p].pack \in Packs
                /\ op[p].n \notin replaced => entry[op[p].n] = NoEntry
          /\ op[p].at = "removing" => entry[op[p].n] = NoEntry
          /\ op[p].at \in {"write", "popped"} =>
                /\ op[p].pack \in Holds \cup {"none"}
                /\ \E e \in [on : BOOLEAN, grant : BOOLEAN] :
                      /\ op[p].read = [entry EXCEPT ![op[p].n] = e]
                      /\ op[p].at = "popped" => e = NoEntry
                /\ op[p].at = "write" => op[p].pack = tree[op[p].n] /\ tree[op[p].n] # Gone

(* Not kept: --force leaves the entry, for whatever pack comes next.       *)
ForceAsksAgain == \A n \in replaced : entry[n] = NoEntry
=============================================================================
