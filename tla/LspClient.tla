----------------------------- MODULE LspClient -----------------------------
(***************************************************************************)
(* The client of a language server (lsp_client.py): requests with ids and  *)
(* a time limit, a reader thread that hands each reply to the request that *)
(* waits for its id and queues every notification, and restarts.           *)
(* The server is external: it answers in any order, or late, or never, it  *)
(* sends diagnostics when it likes and it may die.                         *)
(***************************************************************************)
EXTENDS Integers, Sequences, FiniteSets

CONSTANTS MaxRequests,   \* bound: requests
          MaxNotes,      \* bound: notifications sent
          MaxRestarts    \* bound: restarts

VARIABLES server,    \* [alive, asked]: the <<id, request>> it has not answered
          pipe,      \* its standard output, unread
          ask,       \* the call under way: [id, request, got], or NoAsk
          made,      \* requests made: _next_id is one more
          notes,     \* the queue _notifications
          waiting,   \* a wait_for_notification under way: [kind, deferred] or NoWait
          sent,      \* notifications sent so far
          restarts,
          returned   \* history: <<request made, request answered>> of each result

lspVars == <<server, pipe, ask, made, notes, waiting, sent, restarts, returned>>

Kinds == {"diagnostics", "progress"}
NoAsk == [id |-> 0, request |-> 0, got |-> 0]
NoWait == [kind |-> "none", deferred |-> <<>>]
Note(k) == [note |-> TRUE, kind |-> k, n |-> sent + 1, id |-> 0]
ReplyTo(q) == [note |-> FALSE, kind |-> "none", n |-> q[2], id |-> q[1]]

TypeOK ==
    /\ server.asked \subseteq (1..MaxRequests) \X (1..MaxRequests)
    /\ \A f \in {"id", "request", "got"} : ask[f] \in 0..MaxRequests
    /\ made \in 0..MaxRequests
    /\ \A i \in DOMAIN notes : notes[i].note
    /\ waiting.kind \in Kinds \union {"none"}
    /\ sent \in 0..MaxNotes /\ restarts \in 0..MaxRestarts

Init ==
    /\ server = [alive |-> TRUE, asked |-> {}]
    /\ pipe = <<>> /\ notes = <<>>
    /\ ask = NoAsk /\ waiting = NoWait
    /\ made = 0 /\ sent = 0 /\ restarts = 0
    /\ returned = {}

Free == ask = NoAsk /\ waiting = NoWait

-----------------------------------------------------------------------------
(* The caller                                                              *)

\* A slip: numbers the requests that were answered.
NewIdOfAnswered == Cardinality(returned) + 1
\* _next_id is never used twice: it goes on after a timeout and a restart.
NewId == made + 1

Request ==
    /\ Free /\ server.alive /\ made < MaxRequests
    /\ made' = made + 1
    /\ ask' = [id |-> NewId, request |-> made + 1, got |-> 0]
    /\ server' = [server EXCEPT !.asked = @ \union {<<NewId, made + 1>>}]
    /\ UNCHANGED <<pipe, notes, waiting, sent, restarts, returned>>

Returns ==
    /\ ask.got # 0
    /\ returned' = returned \union {<<ask.request, ask.got>>}
    /\ ask' = NoAsk
    /\ UNCHANGED <<server, pipe, made, notes, waiting, sent, restarts>>

\* After the time limit the request is forgotten, and the server told so; a
\* server that died is noticed only then.
RequestTimesOut ==
    /\ ask # NoAsk
    /\ ask' = NoAsk
    /\ UNCHANGED <<server, pipe, made, notes, waiting, sent, restarts, returned>>

\* restart: the shutdown ends the server and its output; the table of
\* documents is cleared, the notifications and the ids are not.
Restart ==
    /\ Free /\ restarts < MaxRestarts
    /\ restarts' = restarts + 1
    /\ server' = [alive |-> TRUE, asked |-> {}]
    /\ pipe' = <<>>
    /\ UNCHANGED <<ask, made, notes, waiting, sent, returned>>

\* wait_for_notification takes one at a time and puts those it does not want
\* aside, and back at the end of the queue when it is done.
Wait(k) ==
    /\ Free
    /\ waiting' = [kind |-> k, deferred |-> <<>>]
    /\ UNCHANGED <<server, pipe, ask, made, notes, sent, restarts, returned>>

WaitTakes ==
    /\ waiting # NoWait /\ notes # <<>>
    /\ LET item == Head(notes)
       IN IF item.kind = waiting.kind
          THEN notes' = Tail(notes) \o waiting.deferred /\ waiting' = NoWait
          ELSE notes' = Tail(notes)
               /\ waiting' = [waiting EXCEPT !.deferred = Append(@, item)]
    /\ UNCHANGED <<server, pipe, ask, made, sent, restarts, returned>>

WaitTimesOut ==
    /\ waiting # NoWait
    /\ notes' = notes \o waiting.deferred /\ waiting' = NoWait
    /\ UNCHANGED <<server, pipe, ask, made, sent, restarts, returned>>

-----------------------------------------------------------------------------
\* The reader thread: a reply nobody waits for is dropped.
Read ==
    /\ pipe # <<>>
    /\ pipe' = Tail(pipe)
    /\ LET item == Head(pipe)
       IN IF item.note THEN notes' = Append(notes, item) /\ UNCHANGED ask
          ELSE /\ ask' = IF ask.id = item.id THEN [ask EXCEPT !.got = item.n] ELSE ask
               /\ UNCHANGED notes
    /\ UNCHANGED <<server, made, waiting, sent, restarts, returned>>

-----------------------------------------------------------------------------
(* The server                                                              *)
Answer(q) ==
    /\ server.alive /\ q \in server.asked
    /\ server' = [server EXCEPT !.asked = @ \ {q}]
    /\ pipe' = Append(pipe, ReplyTo(q))
    /\ UNCHANGED <<ask, made, notes, waiting, sent, restarts, returned>>

Notify(k) ==
    /\ server.alive /\ sent < MaxNotes
    /\ pipe' = Append(pipe, Note(k)) /\ sent' = sent + 1
    /\ UNCHANGED <<server, ask, made, notes, waiting, restarts, returned>>

Dies ==
    /\ server.alive
    /\ server' = [alive |-> FALSE, asked |-> {}]
    /\ UNCHANGED <<pipe, ask, made, notes, waiting, sent, restarts, returned>>

Next ==
    \/ Request \/ Returns \/ RequestTimesOut \/ Restart
    \/ (\E k \in Kinds : Wait(k)) \/ WaitTakes \/ WaitTimesOut
    \/ Read
    \/ (\E q \in server.asked : Answer(q)) \/ (\E k \in Kinds : Notify(k)) \/ Dies

Spec == Init /\ [][Next]_lspVars

-----------------------------------------------------------------------------
(* A request that returns a result returns its own, however late the       *)
(* replies to those that timed out before it.                              *)
RepliesAreOurs == \A x \in returned : x[1] = x[2]

(* Notifications of one kind stay in the order the server sent them: the   *)
(* last diagnostics of a file are its latest.                              *)
NotesInOrder ==
    \A i, j \in DOMAIN notes :
        i < j /\ notes[i].kind = notes[j].kind => notes[i].n < notes[j].n

-----------------------------------------------------------------------------
(* An id names one request for ever: what the server was asked, what is in  *)
(* its output and what the caller waits for agree on that.                  *)
Requests == Nat \ {0}
Item == [note : BOOLEAN, kind : Kinds \union {"none"}, n : Nat, id : Nat]

ReplyInv ==
    /\ made \in Nat
    /\ server \in [alive : BOOLEAN, asked : SUBSET (Requests \X Requests)]
    /\ \A q \in server.asked : q[1] = q[2] /\ q[1] \in Requests
    /\ pipe \in Seq(Item)
    /\ sent \in Nat
    /\ \A i \in DOMAIN pipe : ~pipe[i].note => pipe[i].n = pipe[i].id /\ pipe[i].id # 0
    /\ ask \in [id : Nat, request : Nat, got : Nat]
    /\ ask.id = ask.request /\ ask.got \in {0, ask.request}
    /\ \A x \in returned : x[1] = x[2]

=============================================================================
