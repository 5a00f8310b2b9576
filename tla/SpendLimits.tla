----------------------------- MODULE SpendLimits -----------------------------
(****************************************************************************)
(* The spend guardrails (budgets.py): sessions that log what each model     *)
(* call cost and ask SpendTracker.check before the next.  A call is checked *)
(* before it is made and may cost anything, or nothing where no price is    *)
(* known.  What the logs hold of the last 24 hours is one number:           *)
(* daily_spend reads every session's log, this one's included.              *)
(****************************************************************************)
EXTENDS Integers

CONSTANTS Sessions,
          SessionLimit,  \* per session, a profile may lower it; 0: no limit
          DailyLimit,    \* 0: no limit
          Costs,         \* what one call may cost
          MaxLogged      \* bound: what the logs may come to

VARIABLES sessionUsd,    \* session_usd of each tracker
          logged,        \* what the token_usage events of all sessions add up to
          dailyCache,    \* _daily_cache: a value, or none after a record
          verdict,       \* what each session was last told
          last           \* history: what its last call cost

spendVars == <<sessionUsd, logged, dailyCache, verdict, last>>

NoCache == -1

SpendInit ==
    /\ sessionUsd = [s \in Sessions |-> 0] /\ logged \in 0 .. 1
    /\ dailyCache = [s \in Sessions |-> NoCache]
    /\ verdict = [s \in Sessions |-> "none"] /\ last = [s \in Sessions |-> 0]

(* A verdict from the cache is up to 60 seconds old; without one the logs   *)
(* are read, and the spend of the session is added to what they say.        *)
Daily(s) == IF dailyCache[s] # NoCache THEN dailyCache[s] ELSE logged + sessionUsd[s]

(* A slip: the limit itself may still be spent over.                        *)
VerdictLate(s) ==
    IF SessionLimit[s] > 0 /\ sessionUsd[s] > SessionLimit[s] THEN "session"
    ELSE IF DailyLimit > 0 /\ Daily(s) > DailyLimit THEN "daily" ELSE "ok"
Verdict(s) ==
    IF SessionLimit[s] > 0 /\ sessionUsd[s] >= SessionLimit[s] THEN "session"
    ELSE IF DailyLimit > 0 /\ Daily(s) >= DailyLimit THEN "daily"
    ELSE "ok"

Check(s) ==
    /\ verdict[s] # "ok"
    /\ verdict' = [verdict EXCEPT ![s] = Verdict(s)]
    /\ dailyCache' = IF DailyLimit > 0 THEN [dailyCache EXCEPT ![s] = Daily(s)] ELSE dailyCache
    /\ UNCHANGED <<sessionUsd, logged, last>>

(* A model call goes through: its usage is logged, then recorded.           *)
ModelCall(s) ==
    /\ verdict[s] = "ok"
    /\ \E cost \in Costs :
          /\ logged + cost <= MaxLogged
          /\ logged' = logged + cost
          /\ sessionUsd' = [sessionUsd EXCEPT ![s] = @ + cost]
          /\ last' = [last EXCEPT ![s] = cost]
    /\ dailyCache' = [dailyCache EXCEPT ![s] = NoCache]
    /\ verdict' = [verdict EXCEPT ![s] = "none"]

(* The round fails before there is any usage to log.                        *)
CallFails(s) ==
    /\ verdict[s] = "ok" /\ verdict' = [verdict EXCEPT ![s] = "none"]
    /\ UNCHANGED <<sessionUsd, logged, dailyCache, last>>

CacheExpires(s) ==
    /\ dailyCache[s] # NoCache
    /\ dailyCache' = [dailyCache EXCEPT ![s] = NoCache]
    /\ UNCHANGED <<sessionUsd, logged, verdict, last>>

SpendNext == \E s \in Sessions : Check(s) \/ ModelCall(s) \/ CallFails(s) \/ CacheExpires(s)

-----------------------------------------------------------------------------
(* A session that is at or past a limit got there by its last call, made    *)
(* when it was still below: it overshoots its own limit by less than that   *)
(* call cost, and stops at the daily limit at the latest when its own calls *)
(* use it up, however old what it knows of the other sessions is.           *)
OwnSpendIsBounded ==
    \A s \in Sessions :
       /\ SessionLimit[s] > 0 => sessionUsd[s] - last[s] < SessionLimit[s]
       /\ DailyLimit > 0 => sessionUsd[s] - last[s] < DailyLimit

(* What the code does not keep: the limit itself.                           *)
LimitIsHard ==
    \A s \in Sessions : SessionLimit[s] > 0 => sessionUsd[s] <= SessionLimit[s]

(* budgets.py:11 and docs/hardening.md:88: a session is stopped for the day *)
(* when the recorded spend of 24 hours has reached the daily limit.         *)
DailyStopIsDue == \A s \in Sessions : verdict[s] = "daily" => logged >= DailyLimit

-----------------------------------------------------------------------------
(* Why the limits hold for a session: what it remembers of the day is never *)
(* less than what it spent itself, and a check that passed is spent once.   *)
SpendInv ==
    /\ sessionUsd \in [Sessions -> Nat] /\ logged \in Nat /\ last \in [Sessions -> Nat]
    /\ dailyCache \in [Sessions -> Nat \cup {NoCache}]
    /\ verdict \in [Sessions -> {"none", "ok", "session", "daily"}]
    /\ \A s \in Sessions : dailyCache[s] # NoCache => sessionUsd[s] <= dailyCache[s]
    /\ \A s \in Sessions : verdict[s] = "ok" =>
          /\ SessionLimit[s] > 0 => sessionUsd[s] < SessionLimit[s]
          /\ DailyLimit > 0 => sessionUsd[s] < DailyLimit
    /\ OwnSpendIsBounded

=============================================================================
