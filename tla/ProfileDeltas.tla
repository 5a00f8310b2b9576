------------------------------ MODULE ProfileDeltas ------------------------------
(****************************************************************************)
(* One agent profile and the deltas that sessions propose for its state     *)
(* (agent_profiles/delta.py, agent_profiles/desktop.py): sessions queue     *)
(* deltas into an inbox file, people accept or reject them, edit the        *)
(* profile and roll it back, in several processes that share both files and *)
(* no lock.  A file is replaced as a whole.                                 *)
(****************************************************************************)
EXTENDS Naturals, Sequences

CONSTANTS
    Deltas,      \* proposals that may be made
    Processes,   \* sessions, command lines and the desktop
    MaxRev,      \* revisions a profile may reach
    MaxCalls     \* calls a process makes

VARIABLES
    profile,     \* the file: a document [rev, marks], see Document
    copies,      \* the checkpoints beside it
    inbox,       \* the inbox file: a sequence of [id, status]
    target,      \* target[d]: the document that d was made from, None before
    loaded,      \* loaded[p]: the document as p has it in memory
    call,        \* call[p]: [pc, d, items, doc], what p is doing
    calls

vars == <<profile, copies, inbox, target, loaded, call, calls>>

(* marks are what was done to the document, in order; a digest stands for   *)
(* the whole of it.                                                         *)
Edit == "edit"
Document == [rev : 1..MaxRev, marks : Seq(Deltas \cup {Edit})]
First == [rev |-> 1, marks |-> <<>>]
None == [rev |-> 1, marks |-> <<"none">>]
Status == {"pending", "accepted", "rejected"}
Idle == [pc |-> "idle", d |-> Edit, items |-> <<>>, doc |-> First]

Init ==
    /\ profile = First /\ copies = {} /\ inbox = <<>>
    /\ target = [d \in Deltas |-> None]
    /\ loaded = [p \in Processes |-> First]
    /\ call = [p \in Processes |-> Idle] /\ calls = [p \in Processes |-> 0]

Begin(p, new) ==
    /\ call[p].pc = "idle" /\ calls[p] < MaxCalls
    /\ calls' = [calls EXCEPT ![p] = @ + 1]
    /\ call' = [call EXCEPT ![p] = new]
Ends(p) == call' = [call EXCEPT ![p] = Idle]

(* A slip: only the revision is compared.                                   *)
FitsRevision(doc, base) == doc.rev = base.rev

(* A document is the one a delta or an editor started from.                 *)
Fits(doc, base) == doc = base

-----------------------------------------------------------------------------
(* The profile is resolved: a session starts, an editor opens it.           *)
Load(p) ==
    /\ call[p].pc = "idle" /\ loaded[p] # profile
    /\ loaded' = [loaded EXCEPT ![p] = profile]
    /\ UNCHANGED <<profile, copies, inbox, target, call, calls>>

(* A session that ends, or `agent forget`, makes a delta from the profile   *)
(* it has and reads the inbox; the longer list is written back.             *)
Propose(p, d) ==
    /\ target[d] = None
    /\ target' = [target EXCEPT ![d] = loaded[p]]
    /\ Begin(p, [Idle EXCEPT !.pc = "add", !.d = d, !.items = inbox])
    /\ UNCHANGED <<profile, copies, inbox, loaded>>
Add(p) ==
    /\ call[p].pc = "add"
    /\ inbox' = Append(call[p].items, [id |-> call[p].d, status |-> "pending"])
    /\ Ends(p)
    /\ UNCHANGED <<profile, copies, target, loaded, calls>>

(* decide() reads the inbox and looks for the delta, whatever its status.   *)
Decide(p, d, verdict) ==
    /\ \E i \in DOMAIN inbox : inbox[i].id = d
    /\ Begin(p, [Idle EXCEPT !.pc = IF verdict = "accepted" THEN "apply" ELSE "rejected",
                             !.d = d, !.items = inbox])
    /\ UNCHANGED <<profile, copies, inbox, target, loaded>>

(* apply_delta: a delta made from another document is refused (rebasing     *)
(* always raises); else a checkpoint is written.                            *)
Conflict(p) ==
    /\ call[p].pc = "apply" /\ ~Fits(profile, target[call[p].d])
    /\ Ends(p)
    /\ UNCHANGED <<profile, copies, inbox, target, loaded, calls>>
Apply(p) ==
    /\ call[p].pc = "apply" /\ Fits(profile, target[call[p].d]) /\ profile.rev < MaxRev
    /\ copies' = copies \cup {profile}
    /\ call' = [call EXCEPT ![p].pc = "write",
                            ![p].doc = [rev |-> profile.rev + 1, marks |-> Append(profile.marks, call[p].d)]]
    /\ UNCHANGED <<profile, inbox, target, loaded, calls>>

(* An operation of the delta does not fit, or pinned facts are too many.    *)
OperationRaises(p) ==
    /\ call[p].pc = "write" /\ call[p].d # Edit
    /\ Ends(p)
    /\ UNCHANGED <<profile, copies, inbox, target, loaded, calls>>

(* The profile is replaced; after a delta the inbox is written from what    *)
(* was read of it.                                                          *)
Write(p) ==
    /\ call[p].pc = "write"
    /\ profile' = call[p].doc
    /\ IF call[p].d = Edit THEN Ends(p) ELSE call' = [call EXCEPT ![p].pc = "accepted"]
    /\ UNCHANGED <<copies, inbox, target, loaded, calls>>
Note(p) ==
    /\ call[p].pc \in {"accepted", "rejected"}
    /\ \E i \in DOMAIN call[p].items :
          /\ call[p].items[i].id = call[p].d
          /\ \A j \in 1..(i - 1) : call[p].items[j].id # call[p].d
          /\ inbox' = [call[p].items EXCEPT ![i].status = call[p].pc]
    /\ Ends(p)
    /\ UNCHANGED <<profile, copies, target, loaded, calls>>

-----------------------------------------------------------------------------
(* apply_profile, with the digest of the document the editor opened.        *)
Save(p) ==
    /\ Fits(profile, loaded[p]) /\ profile.rev < MaxRev
    /\ Begin(p, [Idle EXCEPT !.pc = "write",
                 !.doc = [rev |-> profile.rev + 1, marks |-> Append(profile.marks, Edit)]])
    /\ copies' = copies \cup {profile}
    /\ UNCHANGED <<profile, inbox, target, loaded>>

(* rollback_profile, or `agent rollback`, which does not ask for a digest.  *)
Rollback(p, c) ==
    /\ c # profile
    /\ Begin(p, [Idle EXCEPT !.pc = "write", !.doc = c])
    /\ copies' = copies \cup {profile}
    /\ UNCHANGED <<profile, inbox, target, loaded>>

Crash(p) ==
    /\ call[p].pc # "idle"
    /\ Ends(p)
    /\ UNCHANGED <<profile, copies, inbox, target, loaded, calls>>

Next ==
    \E p \in Processes :
        \/ Load(p) \/ Add(p) \/ Note(p) \/ Conflict(p) \/ Apply(p) \/ OperationRaises(p)
        \/ Write(p) \/ Save(p) \/ Crash(p)
        \/ \E d \in Deltas : Propose(p, d) \/ \E v \in {"accepted", "rejected"} : Decide(p, d, v)
        \/ \E c \in copies : Rollback(p, c)

Spec == Init /\ [][Next]_vars

-----------------------------------------------------------------------------
TypeOK ==
    /\ profile \in Document /\ copies \subseteq Document
    /\ \A i \in DOMAIN inbox : inbox[i] \in [id : Deltas, status : Status]
    /\ \A d \in Deltas : target[d] \in Document \cup {None}
    /\ \A p \in Processes : loaded[p] \in Document /\ calls[p] \in 0..MaxCalls
                            /\ call[p].pc \in {"idle", "add", "apply", "write", "accepted", "rejected"}

(* "A write targeted a stale profile revision or digest" is a conflict      *)
(* (agent_profiles/errors.py): a delta that is part of the profile was put  *)
(* on the very document it was made from, and reviewed against, however     *)
(* accepts, edits and rollbacks overlap; a revision alone does not tell.    *)
AppliedToItsTarget ==
    \A i \in DOMAIN profile.marks :
       profile.marks[i] \in Deltas =>
          target[profile.marks[i]].marks = SubSeq(profile.marks, 1, i - 1)

(* Why: it holds of every document there is, in the file, in a checkpoint,  *)
(* in memory, or about to be written.                                       *)
Fitting(doc, made) ==
    \A i \in DOMAIN doc.marks :
       doc.marks[i] \in Deltas =>
          /\ made[doc.marks[i]] # None
          /\ made[doc.marks[i]].marks = SubSeq(doc.marks, 1, i - 1)
FitInv ==
    /\ target \in [Deltas -> Document \cup {None}]
    /\ loaded \in [Processes -> Document]
    /\ profile \in Document /\ copies \subseteq Document
    /\ Fitting(profile, target)
    /\ \A doc \in copies : Fitting(doc, target)
    /\ DOMAIN call = Processes
    /\ \A p \in Processes :
          /\ Fitting(loaded[p], target)
          /\ DOMAIN call[p] = {"pc", "d", "items", "doc"}
          /\ call[p].doc \in Document /\ Fitting(call[p].doc, target)
          /\ call[p].d \in Deltas \cup {Edit}
          /\ call[p].pc = "apply" => call[p].d \in Deltas

-----------------------------------------------------------------------------
(* What the code does not keep.                                             *)

(* "conflict-safe" (delta.py), "optimistic concurrency" (desktop.py): what  *)
(* is in the profile leaves it only by a rollback.                          *)
OnlyRollbackUndoes ==
    [][profile' \notin copies =>
          /\ Len(profile.marks) <= Len(profile'.marks)
          /\ SubSeq(profile'.marks, 1, Len(profile.marks)) = profile.marks]_profile

(* A proposal that was queued stays in the inbox.                           *)
ProposalsAreKept ==
    [][\A i \in DOMAIN inbox : \E j \in DOMAIN inbox' : inbox'[j].id = inbox[i].id]_inbox

(* What is applied and settled is not pending: it could not be accepted.    *)
AppliedIsDecided ==
    (\A p \in Processes : call[p].pc = "idle") =>
       \A i \in DOMAIN inbox :
          (\E k \in DOMAIN profile.marks : profile.marks[k] = inbox[i].id) => inbox[i].status = "accepted"
=============================================================================
