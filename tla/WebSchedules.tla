------------------------------ MODULE WebSchedules ------------------------------
(****************************************************************************)
(* The interval scheduler of the browser (ScheduleStore of web_schedules.py) *)
(* and the jobs it starts (GraphRunManager.start).  The schedules are a     *)
(* collection of the workbench store.  A ticker is a thread that calls      *)
(* tick: the loop, or a request that asked for a run now.  It reads without *)
(* the lock and starts the jobs inside a locked change.                     *)
(****************************************************************************)
EXTENDS Naturals, FiniteSets

CONSTANTS
    Schedules, Tickers,
    MaxDue,        \* how often the interval of a schedule elapses
    MaxUnwritten   \* bound: starts of one schedule whose write fails

VARIABLES
    sched,     \* schedule -> [status, due], the stored collection
    ticking,   \* tickers between their read and the lock
    snap,      \* what had come due when each of them read
    elapsed,   \* how often each schedule came due
    runs,      \* how many jobs each schedule started
    unwritten  \* how many of them the stored schedule never said

schedVars == <<sched, ticking, snap, elapsed, runs, unwritten>>

SchedInit ==
    /\ sched = [s \in Schedules |-> [status |-> "active", due |-> FALSE]]
    /\ ticking = {} /\ snap = [t \in Tickers |-> [s \in Schedules |-> 0]]
    /\ elapsed = [s \in Schedules |-> 0] /\ runs = [s \in Schedules |-> 0]
    /\ unwritten = [s \in Schedules |-> 0]

Due(s) == sched[s].status = "active" /\ sched[s].due

IntervalElapses(s) ==
    /\ elapsed[s] < MaxDue /\ ~sched[s].due
    /\ elapsed' = [elapsed EXCEPT ![s] = @ + 1]
    /\ sched' = [sched EXCEPT ![s].due = TRUE]
    /\ UNCHANGED <<ticking, snap, runs, unwritten>>

(* action: pause, resume, delete, or run, which also makes a paused schedule *)
(* active; the request that asked for run is a ticker next.                 *)
ScheduleAction(s) ==
    /\ sched[s].status # "deleted"
    /\ \/ /\ \E act \in {"pause", "resume", "delete"} :
                sched' = [sched EXCEPT ![s] =
                   CASE act = "pause"  -> [@ EXCEPT !.status = "paused"]
                     [] act = "resume" -> [status |-> "active", due |-> FALSE]
                     [] act = "delete" -> [@ EXCEPT !.status = "deleted"]]
          /\ UNCHANGED elapsed
       \/ /\ elapsed[s] < MaxDue
          /\ sched' = [sched EXCEPT ![s] = [status |-> "active", due |-> TRUE]]
          /\ elapsed' = [elapsed EXCEPT ![s] = @ + 1]
    /\ UNCHANGED <<ticking, snap, runs, unwritten>>

(* tick takes the time and reads without the lock; it leaves when nothing   *)
(* is due.                                                                  *)
TickReads(t) ==
    /\ t \notin ticking /\ \E s \in Schedules : Due(s)
    /\ ticking' = ticking \cup {t} /\ snap' = [snap EXCEPT ![t] = elapsed]
    /\ UNCHANGED <<sched, elapsed, runs, unwritten>>

(* Under the lock the items are read again; every one that was due at that  *)
(* time and still is gets started, or its error kept, and its next time set.*)
(* The collection is written when all of them are started: a write that     *)
(* fails, or a process that ends before it, leaves them due.                *)
(* A slip: what was due when it was read is started.                        *)
ToStartAsRead(t) == {s \in Schedules : elapsed[s] > 0 /\ elapsed[s] = snap[t][s]}
ToStart(t) == {s \in Schedules : Due(s) /\ elapsed[s] = snap[t][s]}
OneMore(count, some) == [s \in Schedules |-> count[s] + (IF s \in some THEN 1 ELSE 0)]
TickChanges(t) ==
    /\ t \in ticking /\ ticking' = ticking \ {t}
    /\ \E started \in SUBSET ToStart(t) :
          /\ runs' = OneMore(runs, started)
          /\ \/ /\ sched' = [s \in Schedules |-> IF s \in ToStart(t) THEN [sched[s] EXCEPT !.due = FALSE]
                                                  ELSE sched[s]]
                /\ UNCHANGED unwritten
             \/ /\ \A s \in started : unwritten[s] < MaxUnwritten
                /\ unwritten' = OneMore(unwritten, started)
                /\ UNCHANGED sched
    /\ snap' = [snap EXCEPT ![t] = [s \in Schedules |-> 0]]
    /\ UNCHANGED elapsed

SchedNext == \/ \E s \in Schedules : IntervalElapses(s) \/ ScheduleAction(s)
             \/ \E t \in Tickers : TickReads(t) \/ TickChanges(t)

SchedSpec == SchedInit /\ [][SchedNext]_schedVars

-----------------------------------------------------------------------------
(* A schedule starts at most one run for every time it comes due, and one   *)
(* more for every start whose write was lost, however many tickers saw it   *)
(* due and whatever was done to it between their read and their turn with   *)
(* the lock.                                                                *)
OneRunPerInterval == \A s \in Schedules : runs[s] <= elapsed[s] + unwritten[s]

(* A paused or deleted schedule starts nothing, also when a ticker had seen *)
(* it due before the user paused it.                                        *)
PausedStartsNothing ==
    [][\A s \in Schedules : runs'[s] # runs[s] => sched[s].status = "active"]_schedVars

-----------------------------------------------------------------------------
(* What the code does not keep: the jobs are started before the write that  *)
(* says so, so a schedule whose write fails starts once more.               *)
OnceEvenUnwritten == \A s \in Schedules : runs[s] <= elapsed[s]

-----------------------------------------------------------------------------
(* Every time a schedule came due is still to be started, was started, or   *)
(* was passed over: what is due now has not been started yet.               *)
OwedInv ==
    /\ sched \in [Schedules -> [status : {"active", "paused", "deleted"}, due : BOOLEAN]]
    /\ elapsed \in [Schedules -> Nat] /\ runs \in [Schedules -> Nat]
    /\ unwritten \in [Schedules -> Nat]
    /\ \A s \in Schedules : runs[s] <= elapsed[s] + unwritten[s]
    /\ \A s \in Schedules : sched[s].due => runs[s] < elapsed[s] + unwritten[s]

=============================================================================
