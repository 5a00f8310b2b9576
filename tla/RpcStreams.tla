------------------------------- MODULE RpcStreams -------------------------------
(****************************************************************************)
(* The streams of the RPC gateway (rpc_gateway.py): a MagAgent process      *)
(* started for a remote client, two threads that pump its output into a     *)
(* bounded window of numbered events, a thread that reaps it, and clients   *)
(* that page through the events by long poll or server-sent events.         *)
(* Requests are handled on threads of their own.                            *)
(****************************************************************************)
EXTENDS Naturals, FiniteSets

CONSTANTS
    Streams,
    Pushed,          \* the streams whose client reads server-sent events
    MaxConcurrent,   \* MAX_CONCURRENT_STREAMS
    MaxFinished,     \* MAX_FINISHED_STREAMS
    Window,          \* MAX_STREAM_EVENTS
    MaxLines         \* lines a process writes

VARIABLES
    known,     \* the streams in the table
    leader,    \* stream -> none, runs, gone: the process the gateway started
    child,     \* stream -> none, runs, gone: a process it started in its group
    cancel,    \* stream -> none, asked, term: what a cancel is at
    lines,     \* lines written, pumped or not
    seq,       \* events so far
    pumped,    \* lines among them
    reaper,    \* stream -> none, wait, join, finish, over
    result,    \* the streams that have a result
    page       \* stream -> what its client holds: [next, seen, gap, slow, done]

rpcVars == <<known, leader, child, cancel, lines, seq, pumped, reaper, result, page>>

(* Of a client: the number it holds, the events it got, whether a page told *)
(* it of a gap, and, as history, whether more events than the window holds  *)
(* ever came between two of its reads.                                      *)
NoPage == [next |-> 0, seen |-> {}, gap |-> FALSE, slow |-> FALSE, done |-> FALSE]

RpcInit ==
    /\ known = {} /\ result = {}
    /\ leader = [s \in Streams |-> "none"] /\ child = [s \in Streams |-> "none"]
    /\ cancel = [s \in Streams |-> "none"] /\ reaper = [s \in Streams |-> "none"]
    /\ lines = [s \in Streams |-> 0] /\ seq = [s \in Streams |-> 0]
    /\ pumped = [s \in Streams |-> 0] /\ page = [s \in Streams |-> NoPage]

Event(s) == seq' = [seq EXCEPT ![s] = @ + 1]
Active == known \ result

(* stream.start: under the lock the cap is checked, the oldest finished     *)
(* streams are forgotten and the process is started.                        *)
StreamStart(s) ==
    /\ leader[s] = "none" /\ Cardinality(Active) < MaxConcurrent
    /\ \E kept \in SUBSET (known \cap result) :
          /\ Cardinality(kept) = IF Cardinality(known \cap result) < MaxFinished
                                 THEN Cardinality(known \cap result) ELSE MaxFinished - 1
          /\ known' = Active \cup kept \cup {s}
    /\ leader' = [leader EXCEPT ![s] = "runs"] /\ reaper' = [reaper EXCEPT ![s] = "wait"]
    /\ Event(s)
    /\ UNCHANGED <<child, cancel, lines, pumped, result, page>>

(* The process and its group.                                               *)
StartsChild(s) ==
    /\ leader[s] = "runs" /\ child[s] = "none" /\ child' = [child EXCEPT ![s] = "runs"]
    /\ UNCHANGED <<known, leader, cancel, lines, seq, pumped, reaper, result, page>>
Writes(s) ==
    /\ "runs" \in {leader[s], child[s]} /\ lines[s] < MaxLines
    /\ lines' = [lines EXCEPT ![s] = @ + 1]
    /\ UNCHANGED <<known, leader, child, cancel, seq, pumped, reaper, result, page>>
Exits(s) ==
    /\ \/ leader[s] = "runs" /\ leader' = [leader EXCEPT ![s] = "gone"] /\ UNCHANGED child
       \/ child[s] = "runs" /\ child' = [child EXCEPT ![s] = "gone"] /\ UNCHANGED leader
    /\ UNCHANGED <<known, cancel, lines, seq, pumped, reaper, result, page>>

(* _pump: a line at a time, until every writer has closed the pipe.         *)
Pump(s) ==
    /\ pumped[s] < lines[s] /\ pumped' = [pumped EXCEPT ![s] = @ + 1] /\ Event(s)
    /\ UNCHANGED <<known, leader, child, cancel, lines, reaper, result, page>>
PipesClosed(s) == pumped[s] = lines[s] /\ "runs" \notin {leader[s], child[s]}

(* _reap: wait for the process, join the pumps (for five seconds each), say *)
(* that it is over, and set the result.                                     *)
ProcessReaped(s) ==
    /\ reaper[s] = "wait" /\ leader[s] = "gone" /\ reaper' = [reaper EXCEPT ![s] = "join"]
    /\ UNCHANGED <<known, leader, child, cancel, lines, seq, pumped, result, page>>
PumpsJoined(s) ==
    /\ PipesClosed(s) \/ child[s] = "runs"
    /\ reaper[s] = "join" /\ reaper' = [reaper EXCEPT ![s] = "finish"] /\ Event(s)
    /\ UNCHANGED <<known, leader, child, cancel, lines, pumped, result, page>>
Finish(s) ==
    /\ reaper[s] = "finish" /\ reaper' = [reaper EXCEPT ![s] = "over"]
    /\ result' = result \cup {s}
    /\ UNCHANGED <<known, leader, child, cancel, lines, seq, pumped, page>>

(* cancel_magent_stream: nothing is done for a process that is gone; the    *)
(* group gets SIGTERM, which a member may not heed; when the leader is      *)
(* still there after the grace, all of the group is killed.                 *)
CancelChecked(s) ==
    /\ s \in Active /\ cancel[s] = "none" /\ cancel' = [cancel EXCEPT ![s] = "asked"]
    /\ UNCHANGED <<known, leader, child, lines, seq, pumped, reaper, result, page>>
CancelAsked(s) ==
    /\ cancel[s] = "asked" /\ Event(s)
    /\ cancel' = [cancel EXCEPT ![s] = IF leader[s] = "runs" THEN "term" ELSE "over"]
    /\ UNCHANGED <<known, leader, child, lines, pumped, reaper, result, page>>
Killed(p) == IF p = "runs" THEN "gone" ELSE p
GraceOver(s) ==
    /\ cancel[s] = "term" /\ cancel' = [cancel EXCEPT ![s] = "over"]
    /\ IF leader[s] = "runs"
       THEN /\ leader' = [leader EXCEPT ![s] = "gone"]
            /\ child' = [child EXCEPT ![s] = Killed(@)]
       ELSE UNCHANGED <<leader, child>>
    /\ UNCHANGED <<known, lines, seq, pumped, reaper, result, page>>

(* shutdown terminates every group, and so does a reaper whose patience is  *)
(* over; neither says so in an event.                                       *)
Terminates(s) ==
    /\ s \in known /\ leader[s] = "runs" /\ cancel[s] = "none"
    /\ cancel' = [cancel EXCEPT ![s] = "term"]
    /\ UNCHANGED <<known, leader, child, lines, seq, pumped, reaper, result, page>>

(* stream.events: the events after the number the client gave, whether some *)
(* of them are gone, and whether the run is over, all read at once.         *)
Oldest(s) == IF seq[s] > Window THEN seq[s] - Window + 1 ELSE 1
(* A slip: one missing event is not noticed.                                *)
MissedSeveral(s, after) == after + 2 < Oldest(s) /\ after < seq[s]
Missed(s, after) == after + 1 < Oldest(s) /\ after < seq[s]
Read(s, told) ==
    /\ s \in known /\ ~page[s].done
    /\ seq[s] > page[s].next \/ s \in result
    /\ LET after == page[s].next IN
       page' = [page EXCEPT ![s] =
          [next |-> seq[s], seen |-> @.seen \cup {n \in Oldest(s)..seq[s] : n > after},
           gap |-> @.gap \/ (told /\ Missed(s, after)),
           slow |-> @.slow \/ seq[s] > after + Window, done |-> s \in result]]
    /\ UNCHANGED <<known, leader, child, cancel, lines, seq, pumped, reaper, result>>
(* A long poll is answered with the page.  The loop of an event stream      *)
(* sends the events and the end, and goes on from next: it never says gap.  *)
Poll(s) == s \notin Pushed /\ Read(s, TRUE)
Push(s) == s \in Pushed /\ Read(s, FALSE)

StreamStep(s) ==
    \/ StreamStart(s) \/ StartsChild(s) \/ Writes(s) \/ Exits(s) \/ Pump(s) \/ ProcessReaped(s)
    \/ PumpsJoined(s) \/ Finish(s) \/ CancelChecked(s) \/ CancelAsked(s) \/ GraceOver(s)
    \/ Terminates(s) \/ Poll(s) \/ Push(s)
RpcNext == \E s \in Streams : StreamStep(s)

-----------------------------------------------------------------------------
(* A client that pages through a stream by long poll has every event up to  *)
(* the number it holds, or has been told that it missed some.  One that     *)
(* reads server-sent events is not told; it has every event when never more *)
(* came between two of its reads than the window holds.                     *)
Whole(s) == page[s].seen = 1..page[s].next
PagesAreWhole ==
    \A s \in Streams : Whole(s) \/ (IF s \in Pushed THEN page[s].slow ELSE page[s].gap)

(* What the code does not keep: the second kind of client is told as well.  *)
EventStreamIsTold == \A s \in Pushed : Whole(s) \/ page[s].gap

(* Why: what a client holds never runs ahead of the stream.                 *)
Pages == [next : Nat, seen : SUBSET Nat,
          gap : BOOLEAN, slow : BOOLEAN, done : BOOLEAN]
PageInv ==
    /\ seq \in [Streams -> Nat]
    /\ page \in [Streams -> Pages]
    /\ \A s \in Streams : page[s].next <= seq[s]
    /\ PagesAreWhole

(* No more processes work for remote clients than the cap allows, counting  *)
(* those that are being stopped.                                            *)
StreamsWithinCap == Cardinality({s \in Streams : leader[s] = "runs"}) <= MaxConcurrent

(* What a cancelled stream had started is gone when the stream is over.     *)
CancelStopsTheGroup ==
    \A s \in Streams : cancel[s] = "over" /\ s \in result => child[s] # "runs"

(* The page that says done is the last word of the stream.                  *)
DoneIsLast == \A s \in Streams : page[s].done => page[s].next = seq[s]

=============================================================================
