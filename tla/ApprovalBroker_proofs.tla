------------------------ MODULE ApprovalBroker_proofs ------------------------
(***************************************************************************)
(* For every number of processes, requests, actions and sessions: a        *)
(* decision is final, no thread goes on without an approval, and grants    *)
(* are earned and used within their scope.                                 *)
(*                                                                         *)
(* The argument.  Only a request that is not resolved yet is ever written  *)
(* (Finality), so what was true of a resolution when it was used stays     *)
(* true.  The list of grants only grows, by the grant of the request that  *)
(* is resolved in the same step, and otherwise changes but the status of a *)
(* grant (GrantsGrow); a grant is used only for a request that is new      *)
(* (HitsCover).  What a thread holds follows its request (RowIsKept).      *)
(***************************************************************************)
EXTENDS ApprovalBroker, WellFoundedInduction, TLAPS

(* What the thread of a request holds agrees with the store.               *)
Row(r) ==
  /\ thread[r] # "idle" \/ r \in changed => req[r] # NoRequest
  /\ r \in found => Resolved(r)
  /\ thread[r] # "done" => answer[r] = "none"
  /\ answer[r] \in Scope =>
       /\ Resolved(r) /\ req[r].outcome = "approved" /\ req[r].scope = answer[r]
       /\ r \notin changed

Rows == \A r \in Request : Row(r)

(* A grant is that of the approval it names.                               *)
Earned(g) ==
  /\ Resolved(g.by) /\ req[g.by].outcome = "approved" /\ req[g.by].scope = g.scope
  /\ req[g.by].action = g.action /\ req[g.by].session = g.session

(* A request that grant g answered was one for it.                         *)
InScope(g, r) ==
  /\ Resolved(r)
  /\ req[r].action = g.action /\ (g.scope = "persistent" \/ req[r].session = g.session)

Grants ==
  /\ \A i, j \in DOMAIN grants : grants[i].by = grants[j].by => i = j
  /\ \A i \in DOMAIN grants : Earned(grants[i])
  /\ \A i \in DOMAIN grants, r \in Request : <<i, r>> \in hits => InScope(grants[i], r)

SameGrant(g, h) ==
  g.by = h.by /\ g.action = h.action /\ g.session = h.session /\ g.scope = h.scope

-----------------------------------------------------------------------------
(* The next step of the model, action by action.                           *)

LEMMA ClosedIsTyped ==
  ASSUME NEW q \in Requested, NEW o \in Outcome, NEW s \in Scope
  PROVE  /\ Closed(q, o, s) \in Requested
         /\ Closed(q, o, s).state = "resolved" /\ Closed(q, o, s).outcome = o
         /\ Closed(q, o, s).scope = s
         /\ Closed(q, o, s).action = q.action /\ Closed(q, o, s).session = q.session
  BY DEF Closed, Requested, Outcome

LEMMA NewIsTyped ==
  ASSUME NEW b \in Broker, NEW a \in Action, NEW s \in Session
  PROVE  /\ New(b, a, s) \in Requested /\ New(b, a, s).state = "pending"
         /\ New(b, a, s).action = a /\ New(b, a, s).session = s
  BY DEF New, Requested, Outcome, Scope

LEMMA RememberIsTyped ==
  ASSUME TypeOK, NEW q \in Requested, NEW r \in Request
  PROVE  /\ Remember(q, r) \in Seq(Grant)
         /\ DOMAIN grants \subseteq DOMAIN Remember(q, r)
         /\ \A i \in DOMAIN grants : Remember(q, r)[i] = grants[i]
         /\ \A i \in DOMAIN Remember(q, r) : i \notin DOMAIN grants =>
              /\ i = Len(grants) + 1 /\ Remember(q, r)[i] = GrantFor(q, r)
              /\ q.outcome = "approved" /\ q.scope \in Remembered
<1>1. CASE q.outcome = "approved" /\ q.scope \in Remembered
  <2>1. GrantFor(q, r) \in Grant
    BY <1>1 DEF GrantFor, Grant, Requested
  <2>2. grants \in Seq(Grant)
    BY DEF TypeOK
  <2> QED
    BY <1>1, <2>1, <2>2 DEF Remember
<1>2. CASE ~(q.outcome = "approved" /\ q.scope \in Remembered)
  BY <1>2 DEF Remember, TypeOK
<1> QED
  BY <1>1, <1>2

LEMMA ResolveWrites ==
  ASSUME TypeOK, NEW b \in Broker, NEW r \in Request,
         NEW d \in {"approve", "deny", "cancel"}, NEW scope \in Scope,
         Resolve(b, r, d, scope)
  PROVE  /\ Pending(r) /\ req[r] \in Requested
         /\ req' = [req EXCEPT ![r] = Closed(req[r], OutcomeOf(b, r, d), scope)]
         /\ OutcomeOf(b, r, d) \in Outcome
         /\ grants' = Remember(req'[r], r)
         /\ req'[r] \in Requested /\ req'[r].state = "resolved"
<1>1. Pending(r)
  BY DEF Resolve, Decidable
<1>2. req[r] \in Requested
  BY <1>1 DEF Pending, TypeOK, NoRequest
<1>3. OutcomeOf(b, r, d) \in Outcome
  BY DEF OutcomeOf, Outcome
<1>4. req' = [req EXCEPT ![r] = Closed(req[r], OutcomeOf(b, r, d), scope)]
  BY DEF Resolve
<1>5. req'[r] = Closed(req[r], OutcomeOf(b, r, d), scope)
  BY <1>4 DEF TypeOK
<1>6. grants' = Remember(req'[r], r)
  BY <1>5 DEF Resolve
<1> QED
  BY <1>1, <1>2, <1>3, <1>4, <1>5, <1>6, ClosedIsTyped

(* What a step does to the requests, the grants and the receipts.           *)

LEMMA UseGrantWrites ==
  ASSUME TypeOK, NEW b \in Broker, NEW r \in Request, NEW a \in Action, NEW s \in Session,
         UseGrant(b, r, a, s)
  PROVE  \E i \in DOMAIN grants :
           /\ Covers(grants[i], a, s)
           /\ req[r] = NoRequest /\ grants[i].scope \in Scope
           /\ req' = [req EXCEPT ![r] = Closed(New(b, a, s), "approved", grants[i].scope)]
           /\ hits' = hits \cup {<<i, r>>}
           /\ answer' = [answer EXCEPT ![r] = grants[i].scope]
<1> DEFINE i == First(Covering(a, s))
<1>1. Covering(a, s) # {} /\ Covering(a, s) \subseteq DOMAIN grants
  BY DEF UseGrant, Covering
<1>2. DOMAIN grants \subseteq Nat
  BY DEF TypeOK
<1>3. i \in Covering(a, s)
  <2>1. PICK k \in Covering(a, s) : \A j \in Covering(a, s) : ~ <<j, k>> \in OpToRel(<, Nat)
    <3>1. Covering(a, s) \subseteq Nat
      BY <1>1, <1>2
    <3> QED
      BY ONLY <1>1, <3>1, NatLessThanWellFounded, WFMin
  <2>2. ASSUME NEW j \in Covering(a, s)
        PROVE  k =< j
    <3>1. j \in Nat /\ k \in Nat
      BY <1>1, <1>2
    <3>2. j < k => <<j, k>> \in OpToRel(<, Nat)
      BY <3>1, Zenon DEF OpToRel
    <3>3. ~ (j < k)
      BY <2>1, <3>2, Zenon
    <3> QED
      BY <3>1, <3>3
  <2> QED
    BY <2>2 DEF First
<1>4. Covers(grants[i], a, s)
  BY <1>3 DEF Covering
<1>5. grants[i].scope \in Scope
  <2>1. grants \in Seq(Grant)
    BY DEF TypeOK
  <2>2. i \in DOMAIN grants
    BY <1>1, <1>3
  <2>3. grants[i] \in Grant
    BY <2>1, <2>2
  <2> QED
    BY <2>3 DEF Grant, Scope
<1> QED
  BY <1>1, <1>3, <1>4, <1>5 DEF UseGrant

LEMMA TypeIsKept ==
  ASSUME TypeOK, Rows, Next
  PROVE  TypeOK'
<1> USE DEF TypeOK
<1>1. ASSUME NEW b \in Broker, NEW r \in Request, NEW a \in Action, NEW s \in Session,
             UseGrant(b, r, a, s)
      PROVE  TypeOK'
  <2>1. PICK i \in DOMAIN grants :
           /\ grants[i].scope \in Scope
           /\ req' = [req EXCEPT ![r] = Closed(New(b, a, s), "approved", grants[i].scope)]
           /\ hits' = hits \cup {<<i, r>>}
           /\ answer' = [answer EXCEPT ![r] = grants[i].scope]
    BY <1>1, UseGrantWrites
  <2>2. Closed(New(b, a, s), "approved", grants[i].scope) \in Requested
    BY <2>1, NewIsTyped, ClosedIsTyped DEF Outcome
  <2>3. req' \in [Request -> Requested \cup {NoRequest}]
    BY <2>1, <2>2
  <2>4. answer' \in [Request -> Scope \cup {"none", "deny"}]
    BY <2>1
  <2> QED
    BY <1>1, <2>1, <2>3, <2>4 DEF UseGrant, waiter, ThreadPc
<1>2. ASSUME NEW b \in Broker, NEW r \in Request, NEW a \in Action, NEW s \in Session,
             Ask(b, r, a, s)
      PROVE  TypeOK'
  BY <1>2, NewIsTyped DEF Ask, waiter, ThreadPc
<1>3. ASSUME NEW b \in Broker, NEW r \in Request, NEW a \in Action, NEW s \in Session,
             NEW outcome \in {"approved", "denied"}, NEW scope \in Scope,
             RecordLocal(b, r, a, s, outcome, scope)
      PROVE  TypeOK'
  <2> DEFINE made == Closed(New(b, a, s), outcome, scope)
  <2>1. made \in Requested
    BY NewIsTyped, ClosedIsTyped DEF Outcome
  <2>2. req' \in [Request -> Requested \cup {NoRequest}]
    BY <1>3, <2>1 DEF RecordLocal
  <2>3. grants' = Remember(made, r)
    BY <1>3 DEF RecordLocal
  <2>4. grants' \in Seq(Grant) /\ hits' \subseteq (DOMAIN grants') \X Request
    BY <1>3, <2>1, <2>3, RememberIsTyped DEF RecordLocal
  <2> QED
    BY <1>3, <2>2, <2>4 DEF RecordLocal, waiter, ThreadPc
<1>4. ASSUME NEW b \in Broker, NEW r \in Request,
             NEW d \in {"approve", "deny", "cancel"}, NEW scope \in Scope,
             Resolve(b, r, d, scope)
      PROVE  /\ req' \in [Request -> Requested \cup {NoRequest}]
             /\ grants' \in Seq(Grant) /\ hits' \subseteq (DOMAIN grants') \X Request
             /\ lapsed' \subseteq Request /\ alive' \subseteq Broker
             /\ found' \subseteq Request /\ signalled' \subseteq Request
             /\ owed' \subseteq Request /\ changed' \subseteq Request
             /\ answer' \in [Request -> Scope \cup {"none", "deny"}]
  <2>1. /\ req' = [req EXCEPT ![r] = Closed(req[r], OutcomeOf(b, r, d), scope)]
        /\ req[r] \in Requested /\ OutcomeOf(b, r, d) \in Outcome
        /\ grants' = Remember(req'[r], r) /\ req'[r] \in Requested
    BY <1>4, ResolveWrites
  <2>2. req' \in [Request -> Requested \cup {NoRequest}]
    BY <2>1, ClosedIsTyped
  <2>3. grants' \in Seq(Grant) /\ hits' \subseteq (DOMAIN grants') \X Request
    BY <1>4, <2>1, RememberIsTyped DEF Resolve
  <2> QED
    BY <1>4, <2>2, <2>3 DEF Resolve
<1>5. ASSUME NEW b \in Broker, NEW r \in Request,
             NEW d \in {"approve", "deny", "cancel"}, NEW scope \in Scope,
             Decide(b, r, d, scope)
      PROVE  TypeOK'
  BY <1>4, <1>5 DEF Decide
<1>6. ASSUME CancelOrphaned
      PROVE  TypeOK'
  <2>1. PICK orphans \in SUBSET {r \in Request : Pending(r)} :
          /\ req' = [r \in Request |-> IF r \in orphans THEN Closed(req[r], "cancelled", "once")
                                       ELSE req[r]]
          /\ lapsed' = lapsed \ orphans
    BY <1>6 DEF CancelOrphaned
  <2>2. \A r \in orphans : Closed(req[r], "cancelled", "once") \in Requested
    BY ClosedIsTyped DEF Pending, NoRequest, Outcome, Scope
  <2>3. req' \in [Request -> Requested \cup {NoRequest}]
    BY <2>1, <2>2
  <2> QED
    BY <1>6, <2>1, <2>3 DEF CancelOrphaned, waiter
<1>7. ASSUME NEW r \in Request, ThreadStep(r)
      PROVE  TypeOK'
  <2>1. CASE Woken(r) \/ Notice(r) \/ Sleep(r) \/ SafetyPoll(r) \/ LoseRace(r)
    BY <2>1 DEF Woken, Notice, Sleep, SafetyPoll, LoseRace, Step, awaiting, store, ThreadPc
  <2>2. CASE DenyLate(r)
    <3>1. Resolve(req[r].owner, r, "deny", "once") /\ Pending(r)
      BY <2>2 DEF DenyLate, Resolve, Decidable
    <3>2. req[r].owner \in Broker
      BY <3>1 DEF Pending, NoRequest, Requested
    <3>3. thread' \in [Request -> ThreadPc]
      BY <2>2 DEF DenyLate, Step, ThreadPc
    <3> QED
      BY <1>4, <3>1, <3>2, <3>3 DEF Scope
  <2>3. CASE Leave(r)
    <3>1. PICK s \in Scope \cup {"deny"} : Answer(r, s)
      <4>1. r \in found => req[r] \in Requested
        BY DEF Rows, Row, Resolved, NoRequest
      <4>2. r \in found => req[r].scope \in Scope
        BY <4>1 DEF Requested
      <4> QED
        BY <2>3, <4>2 DEF Leave
    <3> QED
      BY <3>1 DEF Answer, Step, store, ThreadPc
  <2> QED
    BY <1>7, <2>1, <2>2, <2>3 DEF ThreadStep
<1>8. ASSUME NEW r \in Request, Replay(r) \/ Signal(r) \/ Lapse(r) \/ Change(r)
      PROVE  TypeOK'
  BY <1>8 DEF Replay, Signal, Lapse, Change, store, waiter
<1>9. ASSUME NEW i \in DOMAIN grants, Expire(i) \/ Revoke(i)
      PROVE  TypeOK'
  <2>1. PICK status \in {"expired", "revoked"} : EndGrant(i, status)
    BY <1>9 DEF Expire, Revoke
  <2>2. grants' \in Seq(Grant) /\ DOMAIN grants' = DOMAIN grants
    <3>1. grants \in Seq(Grant) /\ grants[i] \in Grant
      OBVIOUS
    <3>2. [grants[i] EXCEPT !.status = status] \in Grant
      BY <3>1 DEF Grant
    <3>3. grants' = [grants EXCEPT ![i] = [grants[i] EXCEPT !.status = status]]
      BY <2>1 DEF EndGrant
    <3> QED
      BY <3>1, <3>2, <3>3
  <2> QED
    BY <2>1, <2>2 DEF EndGrant, waiter
<1>10. ASSUME NEW b \in Broker, Crash(b)
       PROVE  TypeOK'
  BY <1>10 DEF Crash, store, ThreadPc
<1> QED
  BY <1>1, <1>2, <1>3, <1>5, <1>6, <1>7, <1>8, <1>9, <1>10 DEF Next

(* Only a request that is not resolved is ever written.                     *)
LEMMA RequestIsWritten ==
  ASSUME TypeOK, [Next]_vars, NEW q \in Request
  PROVE  req'[q] = req[q] \/ (~ Resolved(q) /\ req'[q] \in Requested)
<1> DEFINE Goal == req'[q] = req[q] \/ (~ Resolved(q) /\ req'[q] \in Requested)
<1>1. CASE UNCHANGED vars
  BY <1>1 DEF vars, store
<1>2. ASSUME NEW b \in Broker, NEW r \in Request, NEW a \in Action, NEW s \in Session,
             UseGrant(b, r, a, s)
      PROVE  Goal
  BY <1>2, UseGrantWrites, NewIsTyped, ClosedIsTyped DEF TypeOK, Resolved, NoRequest, Outcome
<1>3. ASSUME NEW b \in Broker, NEW r \in Request, NEW a \in Action, NEW s \in Session,
             Ask(b, r, a, s)
      PROVE  Goal
  BY <1>3, NewIsTyped DEF Ask, TypeOK, Resolved, NoRequest
<1>4. ASSUME NEW b \in Broker, NEW r \in Request, NEW a \in Action, NEW s \in Session,
             NEW outcome \in {"approved", "denied"}, NEW scope \in Scope,
             RecordLocal(b, r, a, s, outcome, scope)
      PROVE  Goal
  BY <1>4, NewIsTyped, ClosedIsTyped DEF RecordLocal, TypeOK, Resolved, NoRequest, Outcome
<1>5. ASSUME NEW b \in Broker, NEW r \in Request,
             NEW d \in {"approve", "deny", "cancel"}, NEW scope \in Scope,
             Resolve(b, r, d, scope)
      PROVE  Goal
  BY <1>5, ResolveWrites DEF TypeOK, Resolved, Pending
<1>6. CASE CancelOrphaned
  <2>1. req'[q] = req[q] \/ (Pending(q) /\ req'[q] = Closed(req[q], "cancelled", "once"))
    BY <1>6 DEF CancelOrphaned
  <2>2. Pending(q) => req[q] \in Requested
    BY DEF Pending, TypeOK, NoRequest
  <2>3. "cancelled" \in Outcome /\ "once" \in Scope
    BY DEF Outcome, Scope
  <2> QED
    BY <2>1, <2>2, <2>3, ClosedIsTyped DEF Resolved, Pending
<1>7. ASSUME NEW r \in Request, ThreadStep(r)
      PROVE  Goal
  <2>1. CASE DenyLate(r)
    <3>1. Resolve(req[r].owner, r, "deny", "once") /\ Pending(r)
      BY <2>1 DEF DenyLate, Resolve, Decidable
    <3>2. req[r].owner \in Broker
      BY <3>1 DEF TypeOK, Pending, NoRequest, Requested
    <3> QED
      BY <1>5, <3>1, <3>2 DEF Scope
  <2>2. CASE ~DenyLate(r)
    BY <1>7, <2>2 DEF ThreadStep, Woken, Notice, Sleep, SafetyPoll, LoseRace, Leave, Answer,
                      awaiting, store
  <2> QED
    BY <2>1, <2>2
<1>8. ASSUME NEW r \in Request, Replay(r) \/ Signal(r) \/ Lapse(r) \/ Change(r)
      PROVE  Goal
  BY <1>8 DEF Replay, Signal, Lapse, Change, store
<1>9. ASSUME NEW i \in DOMAIN grants, Expire(i) \/ Revoke(i)
      PROVE  Goal
  BY <1>9 DEF Expire, Revoke, EndGrant
<1>10. ASSUME NEW b \in Broker, Crash(b)
       PROVE  Goal
  BY <1>10 DEF Crash, store
<1> QED
  BY <1>1, <1>2, <1>3, <1>4, <1>5, <1>6, <1>7, <1>8, <1>9, <1>10 DEF Next, Decide

(* So a resolution is final.                                                *)
LEMMA Finality ==
  ASSUME TypeOK, [Next]_vars, NEW q \in Request, Resolved(q)
  PROVE  req'[q] = req[q]
  BY RequestIsWritten

(* A new grant is that of the request which this step approves.             *)
NewGrant(i) ==
  /\ i = Len(grants) + 1
  /\ \E r \in Request :
       /\ ~ Resolved(r) /\ Resolved(r)' /\ req'[r].outcome = "approved"
       /\ grants'[i] = GrantFor(req'[r], r)

LEMMA GrantsGrow ==
  ASSUME TypeOK, [Next]_vars
  PROVE  /\ \A i \in DOMAIN grants : i \in DOMAIN grants' /\ SameGrant(grants'[i], grants[i])
         /\ \A i \in DOMAIN grants' : i \notin DOMAIN grants => NewGrant(i)
<1> DEFINE Goal == /\ \A i \in DOMAIN grants : i \in DOMAIN grants' /\ SameGrant(grants'[i], grants[i])
                   /\ \A i \in DOMAIN grants' : i \notin DOMAIN grants => NewGrant(i)
<1>1. ASSUME UNCHANGED grants
      PROVE  Goal
  BY <1>1 DEF SameGrant
<1>2. ASSUME NEW r \in Request, ~ Resolved(r), req'[r] \in Requested,
             req'[r].state = "resolved", grants' = Remember(req'[r], r)
      PROVE  Goal
  <2>1. /\ \A i \in DOMAIN grants : i \in DOMAIN grants' /\ grants'[i] = grants[i]
        /\ \A i \in DOMAIN grants' : i \notin DOMAIN grants =>
              /\ i = Len(grants) + 1 /\ grants'[i] = GrantFor(req'[r], r)
              /\ req'[r].outcome = "approved"
    BY <1>2, RememberIsTyped
  <2> QED
    BY <1>2, <2>1 DEF SameGrant, NewGrant, Resolved
<1>3. ASSUME NEW b \in Broker, NEW r \in Request, NEW a \in Action, NEW s \in Session,
             NEW outcome \in {"approved", "denied"}, NEW scope \in Scope,
             RecordLocal(b, r, a, s, outcome, scope)
      PROVE  Goal
  <2> DEFINE made == Closed(New(b, a, s), outcome, scope)
  <2>1. made \in Requested /\ made.state = "resolved"
    BY NewIsTyped, ClosedIsTyped DEF Outcome
  <2>2. req'[r] = made /\ grants' = Remember(made, r) /\ ~ Resolved(r)
    BY <1>3 DEF RecordLocal, TypeOK, Resolved, NoRequest
  <2> QED
    BY <1>2, <2>1, <2>2
<1>4. ASSUME NEW b \in Broker, NEW r \in Request,
             NEW d \in {"approve", "deny", "cancel"}, NEW scope \in Scope,
             Resolve(b, r, d, scope)
      PROVE  Goal
  <2>1. Pending(r) /\ grants' = Remember(req'[r], r)
        /\ req'[r] \in Requested /\ req'[r].state = "resolved"
    BY <1>4, ResolveWrites
  <2> QED
    BY <1>2, <2>1 DEF Pending, Resolved
<1>5. ASSUME NEW r \in Request, ThreadStep(r)
      PROVE  Goal
  <2>1. CASE DenyLate(r)
    <3>1. Resolve(req[r].owner, r, "deny", "once") /\ Pending(r)
      BY <2>1 DEF DenyLate, Resolve, Decidable
    <3>2. req[r].owner \in Broker
      BY <3>1 DEF TypeOK, Pending, NoRequest, Requested
    <3> QED
      BY <1>4, <3>1, <3>2 DEF Scope
  <2>2. CASE ~DenyLate(r)
    BY <1>1, <1>5, <2>2 DEF ThreadStep, Woken, Notice, Sleep, SafetyPoll, LoseRace, Leave,
                            Answer, awaiting, store
  <2> QED
    BY <2>1, <2>2
<1>6. ASSUME NEW k \in DOMAIN grants, NEW status \in {"expired", "revoked"}, EndGrant(k, status)
      PROVE  Goal
  <2>1. grants \in Seq(Grant) /\ grants' = [grants EXCEPT ![k].status = status]
    BY <1>6 DEF EndGrant, TypeOK
  <2>2. DOMAIN grants' = DOMAIN grants
    BY <2>1
  <2>3. ASSUME NEW i \in DOMAIN grants
        PROVE  SameGrant(grants'[i], grants[i])
    <3>1. grants[i] \in Grant
      BY <2>1
    <3> QED
      BY <2>1, <3>1 DEF SameGrant, Grant
  <2> QED
    BY <2>2, <2>3
<1>7. ASSUME Next
      PROVE  Goal
  <2>1. CASE \E b \in Broker, r \in Request, a \in Action, s \in Session :
               UseGrant(b, r, a, s) \/ Ask(b, r, a, s)
    BY <1>1, <2>1 DEF UseGrant, Ask
  <2>2. CASE CancelOrphaned
    BY <1>1, <2>2 DEF CancelOrphaned
  <2>3. CASE \E r \in Request : Replay(r) \/ Signal(r) \/ Lapse(r) \/ Change(r)
    BY <1>1, <2>3 DEF Replay, Signal, Lapse, Change, store
  <2>4. CASE \E b \in Broker : Crash(b)
    BY <1>1, <2>4 DEF Crash, store
  <2>5. CASE \E i \in DOMAIN grants : Expire(i) \/ Revoke(i)
    BY <1>6, <2>5 DEF Expire, Revoke
  <2> HIDE DEF Goal
  <2> QED
    BY <1>3, <1>4, <1>5, <1>7, <2>1, <2>2, <2>3, <2>4, <2>5 DEF Next, Decide
<1> QED
  BY <1>1, <1>7 DEF vars, store

(* A grant is used for a request that is made with its use, for its action. *)
LEMMA HitsCover ==
  ASSUME TypeOK, [Next]_vars, NEW i \in DOMAIN grants', NEW q \in Request,
         <<i, q>> \in hits', <<i, q>> \notin hits
  PROVE  /\ ~ Resolved(q) /\ Resolved(q)' /\ i \in DOMAIN grants
         /\ req'[q].action = grants[i].action
         /\ grants[i].scope = "persistent" \/ req'[q].session = grants[i].session
<1>1. PICK b \in Broker, r \in Request, a \in Action, s \in Session : UseGrant(b, r, a, s)
  <2>1. UNCHANGED hits \/ \E b \in Broker, r \in Request, a \in Action, s \in Session :
                             UseGrant(b, r, a, s)
    <3>1. \A r \in Request : ThreadStep(r) => UNCHANGED hits
      BY DEF ThreadStep, Woken, Notice, Sleep, SafetyPoll, DenyLate, Resolve, LoseRace, Leave,
             Answer, awaiting, store
    <3>2. \A r \in Request : Replay(r) \/ Signal(r) \/ Lapse(r) \/ Change(r) => UNCHANGED hits
      BY DEF Replay, Signal, Lapse, Change, store
    <3>3. \A k \in DOMAIN grants : Expire(k) \/ Revoke(k) => UNCHANGED hits
      BY DEF Expire, Revoke, EndGrant
    <3> QED
      BY <3>1, <3>2, <3>3
         DEF Next, Ask, RecordLocal, Decide, Resolve, CancelOrphaned, Crash, vars, store
  <2> QED
    BY <2>1
<1>2. PICK k \in DOMAIN grants :
        /\ Covers(grants[k], a, s) /\ req[r] = NoRequest /\ grants[k].scope \in Scope
        /\ req' = [req EXCEPT ![r] = Closed(New(b, a, s), "approved", grants[k].scope)]
        /\ hits' = hits \cup {<<k, r>>}
  BY <1>1, UseGrantWrites
<1>3. k = i /\ r = q
  BY <1>2
<1>4. /\ req'[q].action = a /\ req'[q].session = s /\ req'[q].state = "resolved"
  BY <1>2, <1>3, NewIsTyped, ClosedIsTyped DEF TypeOK, Outcome
<1> QED
  BY <1>2, <1>3, <1>4 DEF Covers, Resolved, NoRequest

LEMMA GrantsAreKept ==
  ASSUME TypeOK, Grants, [Next]_vars, TypeOK'
  PROVE  Grants'
<1>1. /\ \A i \in DOMAIN grants : i \in DOMAIN grants' /\ SameGrant(grants'[i], grants[i])
      /\ \A i \in DOMAIN grants' : i \notin DOMAIN grants => NewGrant(i)
  BY GrantsGrow
<1>2. ASSUME NEW i \in DOMAIN grants
      PROVE  grants[i].by \in Request /\ Earned(grants[i])
  <2>1. grants[i] \in Grant
    BY DEF TypeOK
  <2> QED
    BY <2>1 DEF Grant, Grants
<1>3. ASSUME NEW i \in DOMAIN grants', NEW j \in DOMAIN grants', grants'[i].by = grants'[j].by
      PROVE  i = j
  <2>1. CASE i \in DOMAIN grants /\ j \in DOMAIN grants
    BY <1>1, <1>3, <2>1 DEF SameGrant, Grants
  <2>2. CASE i \notin DOMAIN grants /\ j \notin DOMAIN grants
    BY <1>1, <2>2 DEF NewGrant
  <2>3. ASSUME NEW k \in DOMAIN grants, NEW l \in DOMAIN grants', l \notin DOMAIN grants
        PROVE  grants'[k].by # grants'[l].by
    BY <1>1, <1>2, <2>3 DEF NewGrant, SameGrant, GrantFor, Earned
  <2> QED
    BY <1>3, <2>1, <2>2, <2>3
<1>4. ASSUME NEW i \in DOMAIN grants'
      PROVE  Earned(grants[i])'
  <2>1. CASE i \in DOMAIN grants
    <3>1. req'[grants[i].by] = req[grants[i].by]
      BY <1>2, <2>1, Finality DEF Earned
    <3> QED
      BY <1>1, <1>2, <2>1, <3>1 DEF Earned, SameGrant, Resolved
  <2>2. CASE i \notin DOMAIN grants
    BY <1>1, <2>2 DEF NewGrant, GrantFor, Earned, Resolved
  <2> QED
    BY <2>1, <2>2
<1>5. ASSUME NEW i \in DOMAIN grants', NEW r \in Request, <<i, r>> \in hits'
      PROVE  InScope(grants[i], r)'
  <2>1. CASE <<i, r>> \in hits
    <3>1. i \in DOMAIN grants /\ InScope(grants[i], r)
      BY <2>1 DEF TypeOK, Grants
    <3>2. req'[r] = req[r]
      BY <3>1, Finality DEF InScope
    <3> QED
      BY <1>1, <3>1, <3>2 DEF InScope, SameGrant, Resolved
  <2>2. CASE <<i, r>> \notin hits
    BY <1>1, <1>5, <2>2, HitsCover DEF InScope, SameGrant
  <2> QED
    BY <2>1, <2>2
<1> QED
  BY <1>3, <1>4, <1>5 DEF Grants

-----------------------------------------------------------------------------
(* What a thread holds follows its request.                                 *)

(* A row stays right when its thread goes on and nothing is answered.       *)
LEMMA RowStays ==
  ASSUME TypeOK, [Next]_vars, NEW q \in Request, Row(q),
         \/ thread'[q] = thread[q]
         \/ thread[q] \notin {"idle", "done"} /\ thread'[q] \notin {"idle", "done"},
         answer'[q] = answer[q],
         q \in changed' => q \in changed \/ HasWaiter(q),
         q \in found' => q \in found \/ Resolved(q)'
  PROVE  Row(q)'
<1>1. req[q] # NoRequest => req'[q] # NoRequest
  <2>1. NoRequest \notin Requested
    BY DEF NoRequest, Requested
  <2> QED
    BY <2>1, RequestIsWritten
<1>2. Resolved(q) => req'[q] = req[q]
  BY Finality
<1>3. HasWaiter(q) => thread[q] \notin {"idle", "done"}
  BY DEF HasWaiter, Waiting
<1>4. "none" \notin Scope
  BY DEF Scope, Remembered
<1>5. answer[q] \in Scope => thread[q] = "done"
  BY <1>4 DEF Row
<1> QED
  BY <1>1, <1>2, <1>3, <1>5 DEF Row, Resolved

LEMMA RowsAreKept ==
  ASSUME TypeOK, Rows, [Next]_vars, TypeOK'
  PROVE  Rows'
<1> SUFFICES ASSUME NEW q \in Request PROVE Row(q)'
  BY DEF Rows
<1> Row(q)
  BY DEF Rows
<1>1. CASE UNCHANGED vars
  BY <1>1, RowStays DEF vars, store, waiter
<1>2. ASSUME NEW b \in Broker, NEW r \in Request, NEW a \in Action, NEW s \in Session,
             UseGrant(b, r, a, s)
      PROVE  Row(q)'
  <2>1. CASE q = r
    <3>1. PICK i \in DOMAIN grants :
            /\ req[r] = NoRequest /\ grants[i].scope \in Scope
            /\ req' = [req EXCEPT ![r] = Closed(New(b, a, s), "approved", grants[i].scope)]
            /\ answer' = [answer EXCEPT ![r] = grants[i].scope]
      BY <1>2, UseGrantWrites
    <3>2. req'[r].state = "resolved" /\ req'[r].outcome = "approved"
          /\ req'[r].scope = grants[i].scope
      <4>1. New(b, a, s) \in Requested
        BY NewIsTyped
      <4>2. /\ Closed(New(b, a, s), "approved", grants[i].scope).state = "resolved"
            /\ Closed(New(b, a, s), "approved", grants[i].scope).outcome = "approved"
            /\ Closed(New(b, a, s), "approved", grants[i].scope).scope = grants[i].scope
        <5>1. "approved" \in Outcome /\ grants[i].scope \in Scope
          BY <3>1 DEF Outcome
        <5> QED
          BY ONLY <4>1, <5>1, ClosedIsTyped
      <4>3. req'[r] = Closed(New(b, a, s), "approved", grants[i].scope)
        BY <3>1 DEF TypeOK
      <4> QED
        BY <4>2, <4>3
    <3>3. thread' = [thread EXCEPT ![r] = "done"] /\ changed' = changed /\ found' = found
      BY <1>2 DEF UseGrant, waiter
    <3> QED
      BY <2>1, <3>1, <3>2, <3>3 DEF TypeOK, Row, Resolved, NoRequest
  <2>2. CASE q # r
    BY <1>2, <2>2, RowStays DEF UseGrant, waiter, TypeOK
  <2> QED
    BY <2>1, <2>2
<1>3. ASSUME NEW b \in Broker, NEW r \in Request, NEW a \in Action, NEW s \in Session,
             Ask(b, r, a, s)
      PROVE  Row(q)'
  <2>1. CASE q = r
    <3>1. req[r] = NoRequest /\ req'[r] = New(b, a, s) /\ req'[r] # NoRequest
      BY <1>3, NewIsTyped DEF Ask, TypeOK, NoRequest
    <3>2. thread[r] = "idle" /\ answer[r] = "none" /\ r \notin found
      BY <2>1, <3>1 DEF Row, Resolved, NoRequest
    <3>3. "none" \notin Scope
      BY DEF Scope, Remembered
    <3> QED
      BY <1>3, <2>1, <3>1, <3>2, <3>3 DEF Ask, waiter, Row
  <2>2. CASE q # r
    BY <1>3, <2>2, RowStays DEF Ask, waiter, TypeOK
  <2> QED
    BY <2>1, <2>2
<1>4. ASSUME NEW b \in Broker, NEW r \in Request, NEW a \in Action, NEW s \in Session,
             NEW outcome \in {"approved", "denied"}, NEW scope \in Scope,
             RecordLocal(b, r, a, s, outcome, scope)
      PROVE  Row(q)'
  <2>1. CASE q = r
    <3>1. /\ req[r] = NoRequest /\ req'[r] = Closed(New(b, a, s), outcome, scope)
          /\ thread'[r] = "done" /\ changed' = changed /\ found' = found
          /\ answer'[r] = IF outcome = "approved" THEN scope ELSE "deny"
      BY <1>4 DEF RecordLocal, waiter, TypeOK
    <3>2. req'[r].state = "resolved" /\ req'[r].outcome = outcome /\ req'[r].scope = scope
      BY <3>1, NewIsTyped, ClosedIsTyped DEF Outcome
    <3>3. "deny" \notin Scope
      BY DEF Scope, Remembered
    <3> QED
      BY <2>1, <3>1, <3>2, <3>3 DEF Row, Resolved, NoRequest
  <2>2. CASE q # r
    BY <1>4, <2>2, RowStays DEF RecordLocal, waiter, TypeOK
  <2> QED
    BY <2>1, <2>2
<1>5. ASSUME NEW b \in Broker, NEW r \in Request,
             NEW d \in {"approve", "deny", "cancel"}, NEW scope \in Scope,
             Resolve(b, r, d, scope)
      PROVE  /\ q \in found' => q \in found \/ Resolved(q)'
             /\ answer' = answer /\ changed' = changed
  <2>1. q \in found' => q \in found \/ q = r
    BY <1>5 DEF Resolve
  <2>2. Resolved(r)'
    BY <1>5, ResolveWrites DEF Resolved
  <2> QED
    BY <1>5, <2>1, <2>2 DEF Resolve
<1>6. ASSUME NEW b \in Broker, NEW r \in Request,
             NEW d \in {"approve", "deny", "cancel"}, NEW scope \in Scope,
             Decide(b, r, d, scope)
      PROVE  Row(q)'
  BY <1>5, <1>6, RowStays DEF Decide
<1>7. CASE CancelOrphaned
  BY <1>7, RowStays DEF CancelOrphaned, waiter
<1>8. ASSUME NEW r \in Request, ThreadStep(r)
      PROVE  Row(q)'
  <2>1. CASE Woken(r) \/ Notice(r) \/ Sleep(r) \/ SafetyPoll(r) \/ LoseRace(r)
    <3>1. /\ thread[r] \notin {"idle", "done"} /\ thread'[r] \notin {"idle", "done"}
          /\ \A k \in Request : k # r => thread'[k] = thread[k]
      BY <2>1 DEF Woken, Notice, Sleep, SafetyPoll, LoseRace, Step, TypeOK
    <3>2. answer' = answer /\ changed' = changed /\ req' = req
      BY <2>1 DEF Woken, Notice, Sleep, SafetyPoll, LoseRace, awaiting, store
    <3>3. found' = found \/ (found' = found \cup {r} /\ Resolved(r))
      BY <2>1 DEF Woken, Notice, Sleep, SafetyPoll, LoseRace
    <3> QED
      BY <3>1, <3>2, <3>3, RowStays DEF Resolved
  <2>2. CASE DenyLate(r)
    <3>1. Resolve(req[r].owner, r, "deny", "once") /\ Pending(r)
      BY <2>2 DEF DenyLate, Resolve, Decidable
    <3>2. req[r].owner \in Broker
      BY <3>1 DEF TypeOK, Pending, NoRequest, Requested
    <3>3. /\ q \in found' => q \in found \/ Resolved(q)'
          /\ answer' = answer /\ changed' = changed
      BY <1>5, <3>1, <3>2 DEF Scope
    <3>4. /\ thread[r] = "late" /\ thread'[r] = "leaving"
          /\ \A k \in Request : k # r => thread'[k] = thread[k]
      BY <2>2 DEF DenyLate, Step, TypeOK
    <3> QED
      BY <3>3, <3>4, RowStays
  <2>3. CASE Leave(r)
    <3>1. /\ thread[r] = "leaving" /\ thread'[r] = "done" /\ changed' = changed /\ req' = req
          /\ found' \subseteq found
          /\ \A k \in Request : k # r => thread'[k] = thread[k] /\ answer'[k] = answer[k]
          /\ answer'[r] = IF r \in found /\ req[r].outcome = "approved" /\ r \notin changed
                          THEN req[r].scope ELSE "deny"
      BY <2>3 DEF Leave, Answer, Step, store, TypeOK
    <3>2. CASE q # r
      BY <3>1, <3>2, RowStays
    <3>3. CASE q = r
      <4>1. "deny" \notin Scope
        BY DEF Scope, Remembered
      <4> QED
        BY <3>1, <3>3, <4>1 DEF Row, Resolved
    <3> QED
      BY <3>2, <3>3
  <2> QED
    BY <1>8, <2>1, <2>2, <2>3 DEF ThreadStep
<1>9. ASSUME NEW r \in Request, Replay(r) \/ Signal(r) \/ Lapse(r) \/ Change(r)
      PROVE  Row(q)'
  BY <1>9, RowStays DEF Replay, Signal, Lapse, Change, store, waiter
<1>10. ASSUME NEW i \in DOMAIN grants, Expire(i) \/ Revoke(i)
       PROVE  Row(q)'
  BY <1>10, RowStays DEF Expire, Revoke, EndGrant, waiter
<1>11. ASSUME NEW b \in Broker, Crash(b)
       PROVE  Row(q)'
  <2>1. /\ thread'[q] = thread[q] \/ (HasWaiter(q) /\ thread'[q] = "gone")
        /\ found' \subseteq found /\ changed' \subseteq changed /\ answer' = answer
    BY <1>11 DEF Crash, OwnWaiter
  <2> QED
    BY <2>1, RowStays DEF HasWaiter, Waiting
<1> QED
  BY <1>1, <1>2, <1>3, <1>4, <1>6, <1>7, <1>8, <1>9, <1>10, <1>11 DEF Next

-----------------------------------------------------------------------------
(* The inductive invariant.                                                 *)
BrokerInv == TypeOK /\ Rows /\ Grants

(* Requests, waiters, grants and histories fit together after every call.   *)
THEOREM BrokerInvHolds == Spec => []BrokerInv
<1>1. Init => BrokerInv
  <2> SUFFICES ASSUME Init PROVE BrokerInv
    OBVIOUS
  <2>1. TypeOK
    BY DEF Init, TypeOK, ThreadPc
  <2>2. "none" \notin Scope
    BY DEF Scope, Remembered
  <2>3. Rows
    BY <2>2 DEF Init, Rows, Row
  <2>4. Grants
    BY DEF Init, Grants
  <2> QED
    BY <2>1, <2>3, <2>4 DEF BrokerInv
<1>2. BrokerInv /\ [Next]_vars => BrokerInv'
  <2> SUFFICES ASSUME BrokerInv, [Next]_vars PROVE BrokerInv'
    OBVIOUS
  <2>1. TypeOK'
    BY TypeIsKept DEF BrokerInv, TypeOK, vars, store, waiter
  <2> QED
    BY <2>1, RowsAreKept, GrantsAreKept DEF BrokerInv
<1> QED
  BY <1>1, <1>2, PTL DEF Spec

(* A tool goes on only with an approval that the store has for exactly the  *)
(* action it performs: for every number of processes and requests.          *)
THEOREM NothingGoesUnapproved == Spec => []NothingUnapproved
<1>1. BrokerInv => NothingUnapproved
  BY DEF BrokerInv, Rows, Row, NothingUnapproved
<1> QED
  BY <1>1, BrokerInvHolds, PTL

(* Every grant is that of one approval, and answers only requests for its   *)
(* action and, unless it is persistent, of its session.                     *)
THEOREM GrantsAreAlwaysSound == Spec => []GrantsAreSound
<1>1. BrokerInv => GrantsAreEarned
  BY DEF BrokerInv, Grants, Earned, Resolved, GrantsAreEarned
<1>2. BrokerInv => GrantsStayInScope
  <2> SUFFICES ASSUME BrokerInv, NEW h \in hits
               PROVE  LET g == grants[h[1]] was == req[h[2]] IN
                      was.action = g.action /\ (g.scope = "persistent" \/ was.session = g.session)
    BY DEF GrantsStayInScope
  <2>1. h[1] \in DOMAIN grants /\ h[2] \in Request /\ h = <<h[1], h[2]>>
    BY DEF BrokerInv, TypeOK
  <2>2. InScope(grants[h[1]], h[2])
    BY <2>1 DEF BrokerInv, Grants
  <2> QED
    BY <2>2 DEF InScope
<1>3. BrokerInv => GrantsAreSound
  BY <1>1, <1>2 DEF GrantsAreSound
<1> QED
  BY <1>3, BrokerInvHolds, PTL

(* A decision is final: no replay, race or recovery changes it.             *)
THEOREM DecisionsAreFinal == Spec => DecidedOnce
<1>1. BrokerInv /\ [Next]_vars =>
        [\A r \in Request : Resolved(r) => req'[r] = req[r]]_vars
  BY Finality DEF BrokerInv
<1> QED
  BY <1>1, BrokerInvHolds, PTL DEF Spec, DecidedOnce
=============================================================================
