--------------------------- MODULE GatewayRouter ---------------------------
(***************************************************************************)
(* The chat gateway (gateway/router.py MessageRouter and RateLimiter,      *)
(* gateway/base.py ack_and_respond, gateway/__init__.py shutdown): a       *)
(* message is acknowledged, checked, admitted by the rate limiter, waits   *)
(* for the lock of its channel, runs one turn of the channel's session     *)
(* mirrored in a row of the task ledger, and its acknowledgement becomes   *)
(* the reply.  asyncio.wait_for cancels whatever of this takes too long.   *)
(* One event loop: a step is what runs between two awaits.                 *)
(***************************************************************************)
EXTENDS Integers, Sequences, FiniteSetTheorems, SequencesExt

CONSTANTS Messages, Users, Channels,
          UserOf, ChannelOf,     \* who sends a message, and where
          MaxPerWindow, Window,  \* rate_limit_per_minute, and the minute
          MaxTracked,            \* max_tracked_users
          MaxClock               \* bound: ticks of the clock

VARIABLES clock,
          stamps,      \* RateLimiter._buckets: [user -> its admissions], {} if no entry
          msg,         \* [Messages -> [at, row, mark]]
          waiters,     \* [Channels -> messages at the lock, its holder first]
          sessions,    \* the channels of _session_cache
          closing,     \* the shutdown: [at, left]
          admitted     \* history: [user, time] of every message admitted

\* A bucket holds times; each is the time of one admission, and stands here
\* for the number of that admission.
gwVars == <<clock, stamps, msg, waiters, sessions, closing, admitted>>

Spots == {"unsent", "acked", "waiting", "running", "replied"}
Rows == {"none", "running", "completed", "failed"}
Marks == {"none", "success", "plain"}
Outcomes == {"none", "answered", "refused", "error", "timeout"}

TypeOK ==
    /\ clock \in 0..MaxClock
    /\ \A u \in Users : stamps[u] \subseteq DOMAIN admitted
    /\ msg \in [Messages -> [at : Spots, row : Rows, mark : Marks, end : Outcomes]]
    /\ \A c \in Channels : ToSet(waiters[c]) \subseteq Messages
    /\ sessions \subseteq Channels
    /\ closing.at \in {"open", "closing", "raised", "stopped"}

Init ==
    /\ clock = 0
    /\ stamps = [u \in Users |-> {}]
    /\ msg = [m \in Messages |-> [at |-> "unsent", row |-> "none", mark |-> "none",
                                  end |-> "none"]]
    /\ waiters = [c \in Channels |-> <<>>]
    /\ sessions = {}
    /\ closing = [at |-> "open", left |-> {}, had |-> {}]
    /\ admitted = <<>>

-----------------------------------------------------------------------------
(* RateLimiter                                                             *)

Recent(b) == {i \in b : admitted[i].time > clock - Window}
Tracked(b) == {u \in Users : b[u] # {}}
Live == [u \in Users |-> IF Recent(stamps[u]) = {} THEN {} ELSE stamps[u]]

\* _prune: the users with nothing in the window, then the least recent ones
\* until the ceiling holds.
LastBefore(u, v) ==
    \A i \in Live[u] : \E j \in Live[v] : admitted[i].time <= admitted[j].time
Pruned ==
    LET without(gone) == [u \in Users |-> IF u \in gone THEN {} ELSE Live[u]]
        excess == Cardinality(Tracked(Live)) - MaxTracked
    IN {without(gone) : gone \in
          {g \in SUBSET Tracked(Live) :
             /\ Cardinality(g) = IF excess > 0 THEN excess ELSE 0
             /\ \A u \in g, v \in Tracked(Live) \ g : LastBefore(u, v)}}

\* A slip: one message too many.
FullLate(b) == Cardinality(Recent(b)) > MaxPerWindow
Full(b) == Cardinality(Recent(b)) >= MaxPerWindow

-----------------------------------------------------------------------------
Becomes(m, f) == msg' = [msg EXCEPT ![m] = f]
Ch(m) == ChannelOf[m]

Receive(m) ==
    /\ msg[m].at = "unsent" /\ closing.at = "open"
    /\ msg' = [msg EXCEPT ![m].at = "acked"]
    /\ UNCHANGED <<clock, stamps, waiters, sessions, closing, admitted>>

\* The text is whatever the handler returned: the mark tells only that it
\* returned.
Reply(m, end, row) ==
    Becomes(m, [at |-> "replied", row |-> row, end |-> end,
                mark |-> IF end = "timeout" THEN "plain" ELSE "success"])

Handle(m) ==
    /\ msg[m].at = "acked"
    /\ \E b \in Pruned :
          LET u == UserOf[m]
          IN IF Full(b[u])
             THEN /\ stamps' = [b EXCEPT ![u] = Recent(@)]
                  /\ Reply(m, "refused", "none")
                  /\ UNCHANGED <<waiters, admitted>>
             ELSE /\ stamps' = [b EXCEPT ![u] = Recent(@) \cup {Len(admitted) + 1}]
                  /\ admitted' = Append(admitted, [user |-> u, time |-> clock])
                  /\ waiters' = [waiters EXCEPT ![Ch(m)] = Append(@, m)]
                  /\ msg' = [msg EXCEPT ![m].at = "waiting"]
    /\ UNCHANGED <<clock, sessions, closing>>

\* A command of the chat, or a message queued for the background worker, is
\* answered under the lock without a turn.
Command(m) ==
    /\ msg[m].at = "waiting" /\ Head(waiters[Ch(m)]) = m
    /\ Reply(m, "answered", "none")
    /\ waiters' = [waiters EXCEPT ![Ch(m)] = Tail(@)]
    /\ UNCHANGED <<clock, stamps, sessions, closing, admitted>>

StartTurn(m) ==
    /\ msg[m].at = "waiting" /\ Head(waiters[Ch(m)]) = m
    /\ sessions' = sessions \union {Ch(m)}
    /\ msg' = [msg EXCEPT ![m].at = "running", ![m].row = "running"]
    /\ UNCHANGED <<clock, stamps, waiters, closing, admitted>>

EndTurn(m) ==
    /\ msg[m].at = "running"
    /\ \/ Reply(m, "answered", "completed")
       \/ Reply(m, "error", "failed")        \* an Exception, caught in the router
    /\ waiters' = [waiters EXCEPT ![Ch(m)] = Tail(@)]
    /\ UNCHANGED <<clock, stamps, sessions, closing, admitted>>

\* CancelledError is not an Exception: the row is left as it is.
TimesOut(m) ==
    /\ msg[m].at \in {"waiting", "running"}
    /\ Reply(m, "timeout", msg[m].row)
    /\ waiters' = [waiters EXCEPT ![Ch(m)] = Remove(@, m)]
    /\ UNCHANGED <<clock, stamps, sessions, closing, admitted>>

Tick ==
    /\ clock < MaxClock
    /\ clock' = clock + 1
    /\ UNCHANGED <<stamps, msg, waiters, sessions, closing, admitted>>

\* The adapters are stopped; messages already accepted go on.
Shutdown ==
    /\ closing.at = "open"
    /\ closing' = [at |-> "closing", left |-> sessions, had |-> sessions]
    /\ UNCHANGED <<clock, stamps, msg, waiters, sessions, admitted>>

\* close_all_sessions awaits the end of each session as it iterates over the
\* cache: a session added meanwhile makes the iteration raise.
CloseOne(c) ==
    /\ closing.at = "closing" /\ c \in closing.left
    /\ closing' = IF sessions = closing.had THEN [closing EXCEPT !.left = @ \ {c}]
                  ELSE [closing EXCEPT !.at = "raised"]
    /\ UNCHANGED <<clock, stamps, msg, waiters, sessions, admitted>>

Stopped ==
    /\ closing.at = "closing" /\ closing.left = {}
    /\ IF sessions = closing.had \/ closing.had = {}
       THEN closing' = [closing EXCEPT !.at = "stopped"] /\ sessions' = {}
       ELSE closing' = [closing EXCEPT !.at = "raised"] /\ UNCHANGED sessions
    /\ UNCHANGED <<clock, stamps, msg, waiters, admitted>>

Next ==
    \/ \E m \in Messages :
          \/ Receive(m) \/ Handle(m) \/ Command(m) \/ StartTurn(m) \/ EndTurn(m)
          \/ TimesOut(m)
    \/ Tick \/ Shutdown \/ (\E c \in Channels : CloseOne(c)) \/ Stopped

Spec == Init /\ [][Next]_gwVars

-----------------------------------------------------------------------------
(* No user gets more than MaxPerWindow messages admitted within any window *)
(* of the clock, whatever the pruning of the table forgets, unless more    *)
(* users than the table has room for wrote within one window.              *)
InWindow(u, t) ==
    {i \in DOMAIN admitted :
        admitted[i].user = u /\ t - Window < admitted[i].time /\ admitted[i].time <= t}
Crowded(t) == Cardinality({u \in Users : InWindow(u, t) # {}}) > MaxTracked
RateIsKept ==
    \A u \in Users, t \in 0 .. clock :
        \/ Cardinality(InWindow(u, t)) <= MaxPerWindow
        \/ \E s \in t - Window + 1 .. t : Crowded(s)

(* Why: what the bucket of a user has forgotten is out of the window, or   *)
(* was forgotten when the table was full of users of that window.          *)
RateTypes ==
    /\ clock \in Nat
    /\ admitted \in Seq([user : Users, time : Nat])
    /\ \A i \in DOMAIN admitted : admitted[i].time <= clock
    /\ stamps \in [Users -> SUBSET DOMAIN admitted]
    /\ \A u \in Users : \A i \in stamps[u] : admitted[i].user = u
BucketsFit == \A u \in Users : Cardinality(Recent(stamps[u])) <= MaxPerWindow
Forgotten(i) == \E s \in admitted[i].time .. clock : Crowded(s)
BucketsKnow ==
    \A i \in Recent(DOMAIN admitted) : i \in stamps[admitted[i].user] \/ Forgotten(i)
RateInv == RateTypes /\ BucketsFit /\ BucketsKnow /\ RateIsKept

(* A channel runs one turn at a time.                                      *)
OneTurnPerChannel ==
    \A m, k \in Messages :
        msg[m].at = "running" /\ msg[k].at = "running" /\ Ch(m) = Ch(k) => m = k

(* Only a success gets the success mark (gateway/base.py:123).             *)
SuccessMarkIsEarned == \A m \in Messages : msg[m].mark = "success" => msg[m].end = "answered"

(* The row of a message that was answered is closed.                       *)
RowsAreClosed == \A m \in Messages : msg[m].at = "replied" => msg[m].row # "running"

(* The shutdown ends every session and gets to its end.                    *)
ShutdownFinishes == closing.at # "raised"
=============================================================================
