---------------------------- MODULE ApprovalBroker ----------------------------
(***************************************************************************)
(* The approval authority (approval_broker.py): request threads of several *)
(* processes wait for decisions that any process may write into one shared *)
(* store.  Each broker transaction is one step (the store locks across     *)
(* processes); what happens between transactions is not: a decision is     *)
(* signalled after it is committed, a timeout denies, an action changes    *)
(* under review, grants expire or are revoked, processes die.  A ring of a *)
(* doorbell is best effort and only brings a waiter's next look at the     *)
(* store forward, so a sleeping waiter may look at any time and does so,   *)
(* rung or not, when the safety poll passes.                               *)
(*                                                                         *)
(* FileApprovalStore is the library aais: modelled from how the broker and *)
(* its tests use it (a decision is final and may be replayed, a request of *)
(* a dead process or past its ttl cannot be approved).                     *)
(***************************************************************************)
EXTENDS Naturals, Sequences, FiniteSets

CONSTANTS Broker,    \* processes, each with one broker
          Request,   \* request ids; bound: requests ever made
          Action,    \* digests of exact actions
          Session    \* session ids

VARIABLES
  alive,      \* processes that run
  req,        \* the shared store: one record per request
  lapsed,     \* pending requests past their ttl
  grants,     \* the store's grants, in the order they were given
  hits,       \* receipts: which grant answered which request
  thread,     \* where the thread that made the request is
  found,      \* waiter.resolution is set
  signalled,  \* waiter.resolved is set
  owed,       \* the waiter's own process returned a decision, not yet the signal
  changed,    \* current_action() no longer has the reviewed digest
  answer      \* what request() returned

store == <<req, lapsed, grants, hits>>
waiter == <<found, signalled, owed>>
vars == <<alive, store, thread, waiter, changed, answer>>

Remembered == { "session", "persistent" }
Scope == { "once" } \cup Remembered
Outcome == { "approved", "denied", "cancelled", "stale" }

\* A request nobody made, or one with its origin and, once it is resolved, its
\* outcome and effective scope.
NoRequest == [ state |-> "none" ]
Requested ==
  [ state : { "pending", "resolved" }, owner : Broker, action : Action,
    session : Session, outcome : Outcome \cup { "none" }, scope : Scope ]

Grant == [ action : Action, session : Session, scope : Remembered,
           status : { "active", "expired", "revoked" }, by : Request ]

ThreadPc == { "idle", "check", "asleep", "late", "leaving", "done", "gone" }

Pending(r) == req[r].state = "pending"
Resolved(r) == req[r].state = "resolved"
Alive(r) == req[r].owner \in alive

\* Its thread is in _await, or in request() with the waiter still registered.
Waiting(r) == thread[r] \in { "check", "asleep", "late" }
HasWaiter(r) == Waiting(r) \/ thread[r] = "leaving"

Init ==
  /\ alive = Broker
  /\ req = [ r \in Request |-> NoRequest ]
  /\ lapsed = {} /\ grants = <<>> /\ hits = {}
  /\ thread = [ r \in Request |-> "idle" ]
  /\ found = {} /\ signalled = {} /\ owed = {} /\ changed = {}
  /\ answer = [ r \in Request |-> "none" ]

-----------------------------------------------------------------------------
(* Requests and grants.                                                    *)

\* A slip: a session grant answers other sessions too.
CoversAnySession(g, a, s) == g.status = "active" /\ g.action = a

\* _use_grant_tx: the exact action, an active grant, the same session unless
\* the grant is persistent.
Covers(g, a, s) ==
  /\ g.status = "active"
  /\ g.action = a
  /\ g.scope = "persistent" \/ g.session = s

Covering(a, s) == { i \in DOMAIN grants : Covers(grants[i], a, s) }
First(I) == CHOOSE i \in I : \A j \in I : i =< j

New(b, a, s) ==
  [ state |-> "pending", owner |-> b, action |-> a, session |-> s,
    outcome |-> "none", scope |-> "once" ]

Closed(q, outcome, scope) ==
  [ q EXCEPT !.state = "resolved", !.outcome = outcome, !.scope = scope ]

\* _new_grant
GrantFor(q, r) ==
  [ action |-> q.action, session |-> q.session, scope |-> q.scope,
    status |-> "active", by |-> r ]

\* A slip: an approval for once is remembered like the others.
RememberAll(q, r) ==
  IF q.outcome = "approved" THEN Append(grants, GrantFor(q, r)) ELSE grants

\* The grants once request r is resolved as q.
Remember(q, r) ==
  IF q.outcome = "approved" /\ q.scope \in Remembered
  THEN Append(grants, GrantFor(q, r)) ELSE grants

\* request() and remembered_scope() with a grant: in one transaction the
\* request is written, decided by the grant and receipted.
UseGrant(b, r, a, s) ==
  /\ b \in alive /\ req[r] = NoRequest
  /\ Covering(a, s) # {}
  /\ LET i == First(Covering(a, s)) IN
     /\ req' = [ req EXCEPT ![r] = Closed(New(b, a, s), "approved", grants[i].scope) ]
     /\ hits' = hits \cup { <<i, r>> }
     /\ answer' = [ answer EXCEPT ![r] = grants[i].scope ]
  /\ thread' = [ thread EXCEPT ![r] = "done" ]
  /\ UNCHANGED <<alive, lapsed, grants, waiter, changed>>

\* request() without a grant: request and waiter are registered in one
\* transaction, and the thread goes to wait.
Ask(b, r, a, s) ==
  /\ b \in alive /\ req[r] = NoRequest
  /\ Covering(a, s) = {}
  /\ req' = [ req EXCEPT ![r] = New(b, a, s) ]
  /\ thread' = [ thread EXCEPT ![r] = "check" ]
  /\ UNCHANGED <<alive, lapsed, grants, hits, waiter, changed, answer>>

\* record_local_decision: a decision the terminal already has is written with
\* its request, and remembered like any other.
RecordLocal(b, r, a, s, outcome, scope) ==
  /\ b \in alive /\ req[r] = NoRequest
  /\ outcome = "approved" \/ scope = "once"
  /\ LET made == Closed(New(b, a, s), outcome, scope) IN
     req' = [ req EXCEPT ![r] = made ] /\ grants' = Remember(made, r)
  /\ thread' = [ thread EXCEPT ![r] = "done" ]
  /\ answer' = [ answer EXCEPT ![r] = IF outcome = "approved" THEN scope ELSE "deny" ]
  /\ UNCHANGED <<alive, lapsed, hits, waiter, changed>>

-----------------------------------------------------------------------------
(* Decisions.                                                              *)

\* The waiter that decide() finds in its own process.
OwnWaiter(b, r) == HasWaiter(r) /\ req[r].owner = b

\* A slip: a later decision overrules the one that is there.
DecidableAgain(r, d) ==
  /\ req[r] # NoRequest
  /\ d = "approve" => r \notin lapsed /\ Alive(r)

\* What the store takes as a first decision.
Decidable(r, d) ==
  /\ Pending(r)
  /\ d = "approve" => r \notin lapsed /\ Alive(r)

\* What it makes of it: a changed action, which only the process that holds the
\* waiter can see, resolves the request as stale.
OutcomeOf(b, r, d) ==
  CASE d = "cancel" -> "cancelled"
    [] d = "deny" -> "denied"
    [] d = "approve" -> IF OwnWaiter(b, r) /\ r \in changed THEN "stale" ELSE "approved"

\* decide() on a pending request: resolution and grant in one transaction, and
\* the resolution handed to the waiter if it is this process's.
Resolve(b, r, d, scope) ==
  /\ Decidable(r, d)
  /\ LET made == Closed(req[r], OutcomeOf(b, r, d), scope) IN
     req' = [ req EXCEPT ![r] = made ] /\ grants' = Remember(made, r)
  /\ lapsed' = lapsed \ { r }
  /\ found' = IF OwnWaiter(b, r) THEN found \cup { r } ELSE found
  /\ owed' = IF OwnWaiter(b, r) THEN owed \cup { r } ELSE owed
  /\ UNCHANGED <<alive, hits, signalled, changed, answer>>

\* A presenter's decision, in whatever process it runs.
Decide(b, r, d, scope) ==
  /\ b \in alive
  /\ d = "approve" \/ scope = "once"
  /\ Resolve(b, r, d, scope)
  /\ UNCHANGED thread

\* A slip: the replay of an approval remembers it once more.
ReplayRemembers(r) ==
  /\ Resolved(r) /\ HasWaiter(r) /\ r \notin owed
  /\ owed' = owed \cup { r }
  /\ grants' = Remember(req[r], r)
  /\ UNCHANGED <<alive, req, lapsed, hits, thread, found, signalled, changed, answer>>

\* The same decision again in the waiter's process (a retry, a second
\* presenter): the resolution that is there is returned, and the waiter will be
\* woken without having been given it.
Replay(r) ==
  /\ Resolved(r) /\ HasWaiter(r) /\ r \notin owed
  /\ owed' = owed \cup { r }
  /\ UNCHANGED <<alive, store, thread, found, signalled, changed, answer>>

\* The end of decide(): the waiter's event is set.
Signal(r) ==
  /\ r \in owed
  /\ owed' = owed \ { r }
  /\ signalled' = signalled \cup { r }
  /\ UNCHANGED <<alive, store, thread, found, changed, answer>>

\* cancel_orphaned: the requests of processes that stopped.
CancelOrphaned ==
  LET orphans == { r \in Request : Pending(r) /\ ~Alive(r) } IN
  /\ orphans # {}
  /\ req' = [ r \in Request |-> IF r \in orphans THEN Closed(req[r], "cancelled", "once")
                                ELSE req[r] ]
  /\ lapsed' = lapsed \ orphans
  /\ UNCHANGED <<alive, grants, hits, thread, waiter, changed, answer>>

-----------------------------------------------------------------------------
(* _await and the end of request(), in the thread of request r.            *)

Step(r, from, to) == thread[r] = from /\ thread' = [ thread EXCEPT ![r] = to ]
awaiting == <<alive, store, signalled, owed, changed, answer>>

\* waiter.resolved is set: waiter.resolution is taken as it is.
Woken(r) ==
  /\ Step(r, "check", "leaving")
  /\ r \in signalled
  /\ UNCHANGED <<awaiting, found>>

\* The store has a resolution.
Notice(r) ==
  /\ Step(r, "check", "leaving")
  /\ r \notin signalled /\ Resolved(r)
  /\ found' = found \cup { r }
  /\ UNCHANGED awaiting

\* Undecided: the thread sleeps, or its deadline has passed and it is about to
\* deny the request itself.
Sleep(r) ==
  /\ Step(r, "check", "asleep") \/ Step(r, "check", "late")
  /\ r \notin signalled /\ ~Resolved(r)
  /\ UNCHANGED <<awaiting, found>>

\* A slip: without a ring the thread sleeps on.
SleepOn(r) == thread[r] = "asleep" /\ UNCHANGED vars

\* A ring arrives, or SAFETY_POLL_SECONDS pass without one.
SafetyPoll(r) ==
  /\ Step(r, "asleep", "check")
  /\ UNCHANGED <<awaiting, found>>

DenyLate(r) ==
  /\ Step(r, "late", "leaving")
  /\ Resolve(req[r].owner, r, "deny", "once")

\* The denial is refused, because the ttl has passed or somebody decided first;
\* a decision that is there is read from the store and counts.
LoseRace(r) ==
  /\ Step(r, "late", "leaving")
  /\ Resolved(r) \/ r \in lapsed
  /\ found' = IF Resolved(r) THEN found \cup { r } ELSE found
  /\ UNCHANGED awaiting

\* The waiter is dropped and request() returns s.
Answer(r, s) ==
  /\ Step(r, "leaving", "done")
  /\ answer' = [ answer EXCEPT ![r] = s ]
  /\ found' = found \ { r } /\ signalled' = signalled \ { r } /\ owed' = owed \ { r }
  /\ UNCHANGED <<alive, store, changed>>

\* A slip: the action that was approved is not compared with the current one.
LeaveUnchecked(r) ==
  Answer(r, IF r \in found /\ req[r].outcome = "approved" THEN req[r].scope ELSE "deny")

\* Without a resolution, or if the action has changed since it was reviewed,
\* the answer is a denial.
Leave(r) ==
  Answer(r, IF r \in found /\ req[r].outcome = "approved" /\ r \notin changed
            THEN req[r].scope ELSE "deny")

ThreadStep(r) ==
  Woken(r) \/ Notice(r) \/ Sleep(r) \/ SafetyPoll(r) \/ DenyLate(r) \/ LoseRace(r) \/ Leave(r)

-----------------------------------------------------------------------------
(* The environment.                                                        *)

\* The ttl of a pending request passes.
Lapse(r) ==
  /\ Pending(r) /\ r \notin lapsed
  /\ lapsed' = lapsed \cup { r }
  /\ UNCHANGED <<alive, req, grants, hits, thread, waiter, changed, answer>>

EndGrant(i, status) ==
  /\ grants[i].status # "revoked"
  /\ grants' = [ grants EXCEPT ![i].status = status ]
  /\ UNCHANGED <<alive, req, lapsed, hits, thread, waiter, changed, answer>>

\* grant_ttl_days pass: only persistent grants expire.
Expire(i) ==
  /\ grants[i].scope = "persistent" /\ grants[i].status = "active"
  /\ EndGrant(i, "expired")

\* revoke_grants
Revoke(i) == EndGrant(i, "revoked")

\* The caller's action changes while it is under review.
Change(r) ==
  /\ HasWaiter(r)
  /\ changed' = changed \cup { r }
  /\ UNCHANGED <<alive, store, thread, waiter, answer>>

\* A process stops, and its request threads and waiters with it.
Crash(b) ==
  LET lost == { r \in Request : OwnWaiter(b, r) } IN
  /\ b \in alive
  /\ alive' = alive \ { b }
  /\ thread' = [ r \in Request |-> IF r \in lost THEN "gone" ELSE thread[r] ]
  /\ found' = found \ lost /\ signalled' = signalled \ lost /\ owed' = owed \ lost
  /\ changed' = changed \ lost
  /\ UNCHANGED <<store, answer>>

Next ==
  \/ \E b \in Broker, r \in Request, a \in Action, s \in Session :
       \/ UseGrant(b, r, a, s) \/ Ask(b, r, a, s)
       \/ \E outcome \in { "approved", "denied" }, scope \in Scope :
            RecordLocal(b, r, a, s, outcome, scope)
  \/ \E b \in Broker, r \in Request, d \in { "approve", "deny", "cancel" }, scope \in Scope :
       Decide(b, r, d, scope)
  \/ CancelOrphaned
  \/ \E r \in Request : Replay(r) \/ Signal(r) \/ ThreadStep(r) \/ Lapse(r) \/ Change(r)
  \/ \E i \in DOMAIN grants : Expire(i) \/ Revoke(i)
  \/ \E b \in Broker : Crash(b)

Spec == Init /\ [][Next]_vars

\* Threads of living processes run, and the safety poll's timer does.
FairSpec == Spec /\ \A r \in Request : WF_vars(ThreadStep(r))

-----------------------------------------------------------------------------
(* Properties.                                                             *)

TypeOK ==
  /\ alive \subseteq Broker
  /\ req \in [ Request -> Requested \cup { NoRequest } ]
  /\ lapsed \subseteq Request
  /\ grants \in Seq(Grant)
  /\ hits \subseteq (DOMAIN grants) \X Request
  /\ thread \in [ Request -> ThreadPc ]
  /\ found \subseteq Request /\ signalled \subseteq Request
  /\ owed \subseteq Request /\ changed \subseteq Request
  /\ answer \in [ Request -> Scope \cup { "none", "deny" } ]

\* A tool goes on only with an approval that the store has for exactly the
\* action it is about to perform, whatever timed out, was replayed or changed.
NothingUnapproved ==
  \A r \in Request : answer[r] \in Scope =>
    /\ Resolved(r) /\ req[r].outcome = "approved" /\ req[r].scope = answer[r]
    /\ r \notin changed

\* The decision of a request is final: no replay, race or recovery changes it.
DecidedOnce ==
  [][ \A r \in Request : Resolved(r) => req'[r] = req[r] ]_vars

\* Each remembered grant comes from one approval of its own, with the scope, the
\* action and the session of that approval.
GrantsAreEarned ==
  /\ \A i, j \in DOMAIN grants : grants[i].by = grants[j].by => i = j
  /\ \A i \in DOMAIN grants :
       LET was == req[grants[i].by] IN
       /\ was.state = "resolved" /\ was.outcome = "approved" /\ was.scope = grants[i].scope
       /\ was.action = grants[i].action /\ was.session = grants[i].session

\* A grant answers only requests for its own action, and those of other
\* sessions only if it was approved as persistent.
GrantsStayInScope ==
  \A h \in hits : LET g == grants[h[1]] was == req[h[2]] IN
    was.action = g.action /\ (g.scope = "persistent" \/ was.session = g.session)

\* Both: what a remembered grant is, and what it is used for.
GrantsAreSound == GrantsAreEarned /\ GrantsStayInScope

\* Once a request is decided, in any process, its living waiter goes on: a ring
\* that was lost, taken by another thread or never sent only delays it.
DecisionReachesWaiter ==
  \A r \in Request : Resolved(r) /\ Waiting(r) ~> ~Waiting(r)

\* A replayed decision changes nothing ("duplicate decision is idempotent"): a
\* request that the store has as approved is not answered with a denial.
ApprovedIsNotDenied ==
  \A r \in Request :
    thread[r] = "done" /\ req[r].outcome = "approved" /\ r \notin changed
      => answer[r] # "deny"
=============================================================================
