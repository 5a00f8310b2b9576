--------------------------- MODULE SessionMessaging ---------------------------
(****************************************************************************)
(* Messages from one session to another (session_messaging.py): the outbox  *)
(* of the sender with its receipts and retries, the roster, one connection  *)
(* at a time to the receiver's thread, and the receiver's memory of what it *)
(* has seen, on disk and in the process.  What it takes waits in its inbox  *)
(* or, until a user reviews it, in its held file, as the policy of that     *)
(* start says.  Either session may stop or crash at any step and start      *)
(* again; a reply may come too late.                                        *)
(****************************************************************************)
EXTENDS Integers, Sequences, FiniteSetTheorems

CONSTANTS
    Messages,
    Reviewers,    \* who reviews held messages: the session's prompt, the CLI
    MaxQueue,     \* MAX_QUEUE_ITEMS
    MaxStarts,    \* bound: how often the receiver starts
    MaxAttempts   \* bound: connections the sender opens

VARIABLES
    made,      \* the messages that were ever sent
    outbox,    \* records [event, id, status] of the sender's outbox file
    sender,    \* what the sender is doing: [at, id, todo, cap]
    attempts,  \* connections so far
    wire,      \* the request: [at, id, cap, reply]; the sender may have left
    roster,    \* the start of the receiver its roster entry is from, 0: none
    hold,      \* the policy of this start is "hold", not "accept"
    starts, up,         \* the receiver: how often started, running
    order,              \* _seen_order, and so _seen, of the running process
    seenFile,           \* the last messages it noted
    inbox, held,        \* what waits: for the session, for a review
    review,    \* of each reviewer: [at, rest, item], what it read
    drained,   \* the items drain() has read and not yet replaced; none: <<0>>
    notes,     \* history: what the receiver noted as seen, in order
    accepted,  \* history: the notes whose message was put into a file
    taken,     \* history: the notes whose message drain() or a review took away
    crowded,   \* history: the notes a start read back in front of an older one
    expired    \* messages whose time to live is over

(* An item of a file stands for one note: the receiver may come to note a   *)
(* message twice, and the two items are not the same.                       *)
messagingVars == <<made, outbox, sender, attempts, wire, roster, hold, starts, up,
                   order, seenFile, inbox, held, review, drained, notes, accepted, taken,
                   crowded, expired>>
files == <<inbox, held, review>>
receiverVars == <<hold, starts, up, order, seenFile, files, drained, notes, accepted, taken, crowded>>

Idle == [at |-> "idle", id |-> "none", todo |-> {}, cap |-> 0]
NoWire == [at |-> "none", id |-> "none", cap |-> 0, reply |-> "none"]
NotDrained == <<0>>
NoReview == [at |-> "idle", rest |-> <<>>, item |-> 0]

Items(seq) == {seq[i] : i \in DOMAIN seq}
(* The messages of a file of items.                                         *)
Ids(q) == [i \in DOMAIN q |-> notes[q[i]]]
Newest(seq, k) == IF Len(seq) > k THEN SubSeq(seq, Len(seq) - k + 1, Len(seq)) ELSE seq
(* _append_bounded_jsonl: the newest MaxQueue entries stay.                  *)
Bounded(seq, x) == Newest(Append(seq, x), MaxQueue)

Pending(m) == [event |-> "pending", id |-> m, status |-> "none"]
Receipt(m, st) == [event |-> "receipt", id |-> m, status |-> st]
(* The last receipt in the outbox, which is what retry_outbox goes by.       *)
Outcome(m) ==
    LET rs == {i \in DOMAIN outbox : outbox[i].event = "receipt" /\ outbox[i].id = m}
    IN IF rs = {} THEN "none" ELSE outbox[CHOOSE i \in rs : \A j \in rs : j <= i].status
Retryable == {m \in Messages : Pending(m) \in Items(outbox) /\ Outcome(m) \in {"none", "unreachable"}}

MessagingInit ==
    /\ made = {} /\ outbox = <<>> /\ sender = Idle /\ attempts = 0 /\ wire = NoWire
    /\ roster = 0 /\ hold = FALSE /\ starts = 0 /\ up = FALSE /\ order = <<>>
    /\ seenFile = <<>> /\ inbox = <<>> /\ held = <<>> /\ review = [r \in Reviewers |-> NoReview]
    /\ drained = NotDrained
    /\ notes = <<>> /\ accepted = {} /\ taken = {} /\ crowded = {} /\ expired = {}

-----------------------------------------------------------------------------
(* The sender. *)

(* send_session_message: the envelope is on disk before anything is tried.  *)
Send(m) ==
    /\ sender.at = "idle" /\ m \notin made /\ made' = made \cup {m}
    /\ outbox' = Bounded(outbox, Pending(m))
    /\ sender' = [Idle EXCEPT !.at = "resolve", !.id = m]
    /\ UNCHANGED <<attempts, wire, roster, receiverVars, expired>>

(* retry_outbox goes through the messages its reading of the outbox found.  *)
Retry ==
    /\ sender.at = "idle" /\ Retryable # {}
    /\ \E m \in Retryable :
          sender' = [at |-> "resolve", id |-> m, todo |-> Retryable \ {m}, cap |-> 0]
    /\ UNCHANGED <<made, outbox, attempts, wire, roster, receiverVars, expired>>

Conclude(st) ==
    /\ outbox' = Bounded(outbox, Receipt(sender.id, st))
    /\ sender' = IF sender.todo = {} THEN Idle
                 ELSE LET m == CHOOSE x \in sender.todo : TRUE
                      IN [at |-> "resolve", id |-> m, todo |-> sender.todo \ {m}, cap |-> 0]

(* A retry of an expired message is not sent.                               *)
GiveUp ==
    /\ sender.at = "resolve" /\ sender.id \in expired
    /\ Conclude("expired") /\ UNCHANGED <<made, attempts, wire, roster, receiverVars, expired>>

(* resolve_session: an entry whose process is gone is removed.              *)
Resolve ==
    /\ sender.at = "resolve" /\ sender.id \notin expired
    /\ IF roster # 0 /\ up /\ roster = starts
       THEN sender' = [sender EXCEPT !.at = "connect", !.cap = roster] /\ UNCHANGED <<outbox, roster>>
       ELSE roster' = 0 /\ Conclude("unreachable")
    /\ UNCHANGED <<made, attempts, wire, receiverVars, expired>>

Connect ==
    /\ sender.at = "connect"
    /\ IF up /\ attempts < MaxAttempts
       THEN /\ wire.at = "none" /\ attempts' = attempts + 1
            /\ wire' = [at |-> "sent", id |-> sender.id, cap |-> sender.cap, reply |-> "none"]
            /\ sender' = [sender EXCEPT !.at = "wait"] /\ UNCHANGED outbox
       ELSE Conclude("unreachable") /\ UNCHANGED <<wire, attempts>>
    /\ UNCHANGED <<made, roster, receiverVars, expired>>

GetReply ==
    /\ sender.at = "wait" /\ wire.at = "replied" /\ wire.id = sender.id
    /\ Conclude(wire.reply) /\ wire' = NoWire
    /\ UNCHANGED <<made, attempts, roster, receiverVars, expired>>

(* Three seconds, or the connection broke: the receiver may still be at it. *)
SendTimeout ==
    /\ sender.at = "wait" /\ Conclude("unreachable")
    /\ wire' = IF wire.at = "replied" THEN NoWire ELSE [wire EXCEPT !.reply = "left"]
    /\ UNCHANGED <<made, attempts, roster, receiverVars, expired>>

SenderRestarts ==
    /\ sender.at # "idle" /\ sender' = Idle
    /\ wire' = IF wire.at = "replied" THEN NoWire ELSE [wire EXCEPT !.reply = "left"]
    /\ UNCHANGED <<made, outbox, attempts, roster, receiverVars, expired>>

-----------------------------------------------------------------------------
(* The receiver. *)

(* A start reads back what waits and what was seen, and registers with a    *)
(* new capability and the policy of the day.  Each message is read back     *)
(* once, where it is met first.                                             *)
KeepAt(s, K) == [j \in 1 .. Cardinality(K) |->
                    s[CHOOSE i \in K : Cardinality({h \in K : h <= i}) = j]]
FirstOnly(known) ==
    KeepAt(known, {i \in DOMAIN known : \A h \in 1 .. i - 1 : known[h] # known[i]})
Waiting == inbox \o held
(* A slip: only what still waits is known after a restart.                  *)
LoadedWaiting == FirstOnly(Ids(Waiting))
Loaded == FirstOnly(Ids(Waiting) \o seenFile)
(* What waits in front of an item that the seen file no longer reaches.     *)
InFrontOfOlder ==
    {Waiting[p] : p \in {q \in DOMAIN Waiting :
        \E r \in DOMAIN Waiting : q < r /\ Waiting[r] <= Len(notes) - MaxQueue}}
Start ==
    /\ ~up /\ starts < MaxStarts
    /\ up' = TRUE /\ starts' = starts + 1 /\ roster' = starts' /\ hold' \in BOOLEAN
    /\ order' = Loaded /\ crowded' = crowded \cup InFrontOfOlder
    /\ UNCHANGED <<made, outbox, sender, attempts, wire, seenFile, files, drained, notes,
                   accepted, taken, expired>>

(* stop() removes the roster entry and lets the serving thread finish.      *)
Down == /\ up' = FALSE /\ order' = <<>> /\ drained' = NotDrained
        /\ UNCHANGED <<made, outbox, sender, attempts, hold, starts, seenFile, files, notes,
                       accepted, taken, crowded, expired>>
StopReceiver ==
    /\ up /\ wire.at \notin {"noted"} /\ drained = NotDrained
    /\ roster' = 0 /\ wire' = NoWire /\ Down
Crash ==
    /\ up /\ wire' = NoWire /\ Down /\ UNCHANGED roster

Answer(st) ==
    wire' = IF wire.reply = "left" THEN NoWire ELSE [wire EXCEPT !.at = "replied", !.reply = st]

(* _receive and the first half of _accept_envelope, under the lock: the     *)
(* message is noted as seen, in the process and in the file.  The sender's  *)
(* own capability is refreshed on every retry and always matches here.      *)
Box == IF hold THEN held ELSE inbox
Note ==
    /\ wire.id \notin Items(order) /\ Len(Box) < MaxQueue
    /\ order' = Newest(Append(order, wire.id), 2 * MaxQueue) /\ notes' = Append(notes, wire.id)
    /\ seenFile' = Bounded(seenFile, wire.id)
    /\ wire' = [wire EXCEPT !.at = "noted"]
Receive ==
    /\ up /\ wire.at = "sent"
    /\ \/ wire.cap # starts /\ Answer("refused") /\ UNCHANGED <<order, seenFile, notes>>
       \/ wire.cap = starts /\ wire.id \in expired /\ Answer("expired") /\ UNCHANGED <<order, seenFile, notes>>
       \/ /\ wire.cap = starts /\ wire.id \notin expired
          /\ \/ wire.id \in Items(order) /\ Answer("delivered") /\ UNCHANGED <<order, seenFile, notes>>
             \/ /\ wire.id \notin Items(order)   \* rate limit, or the queue is full
                /\ Answer("refused") /\ UNCHANGED <<order, seenFile, notes>>
             \/ Note
    /\ UNCHANGED <<made, outbox, sender, attempts, roster, hold, starts, up, files, drained, accepted,
                   taken, crowded, expired>>

(* The second half, after the lock: the message enters the file.            *)
Accept ==
    /\ up /\ wire.at = "noted"
    /\ IF hold THEN held' = Bounded(held, Len(notes)) /\ UNCHANGED inbox
       ELSE inbox' = Bounded(inbox, Len(notes)) /\ UNCHANGED held
    /\ accepted' = accepted \cup {Len(notes)}
    /\ Answer(IF hold THEN "held" ELSE "delivered")
    /\ UNCHANGED <<made, outbox, sender, attempts, roster, hold, starts, up, order, seenFile, review,
                   notes, drained, taken, crowded, expired>>

filesAside == <<made, outbox, sender, attempts, wire, roster, hold, starts, up, order, seenFile,
                notes, accepted, crowded, expired>>

(* drain() reads the inbox and then replaces it by an empty one.  The lock  *)
(* it holds is not held by Accept, nor by a review.                         *)
Drain ==
    /\ up /\ inbox # <<>> /\ drained = NotDrained /\ drained' = inbox
    /\ UNCHANGED <<files, taken, filesAside>>
Drained ==
    /\ up /\ drained # NotDrained
    /\ inbox' = <<>> /\ taken' = taken \cup Items(drained) /\ drained' = NotDrained
    /\ UNCHANGED <<held, review, filesAside>>

(* review_held_message and the listing of what is held read the held file   *)
(* and then replace it without the message, or without what has expired; an *)
(* accepted message is appended to the inbox last.  The reviewer may die in *)
(* between.                                                                 *)
Without(S) == KeepAt(held, {i \in DOMAIN held : notes[held[i]] \notin S})
ReviewReads(r) ==
    /\ review[r].at = "idle"
    /\ \/ \E i \in DOMAIN held :
             /\ \A h \in 1 .. i - 1 : notes[held[h]] # notes[held[i]]
             /\ review' = [review EXCEPT ![r] =
                             [at |-> "decide", rest |-> Without({notes[held[i]]}), item |-> held[i]]]
       \/ /\ \E i \in DOMAIN held : notes[held[i]] \in expired
          /\ review' = [review EXCEPT ![r] = [at |-> "list", rest |-> Without(expired), item |-> 0]]
    /\ UNCHANGED <<inbox, held, drained, taken, filesAside>>
ReviewWrites(r) ==
    LET rv == review[r]
    IN /\ rv.at \in {"decide", "list"} /\ held' = rv.rest
       /\ \/ /\ rv.at = "decide" /\ notes[rv.item] \notin expired   \* the decision is to accept
             /\ review' = [review EXCEPT ![r] = [at |-> "append", rest |-> <<>>, item |-> rv.item]]
             /\ UNCHANGED taken
          \/ /\ review' = [review EXCEPT ![r] = NoReview]
             /\ taken' = IF rv.at = "decide" THEN taken \cup {rv.item} ELSE taken
       /\ UNCHANGED <<inbox, drained, filesAside>>
ReviewAppends(r) ==
    /\ review[r].at = "append" /\ inbox' = Bounded(inbox, review[r].item)
    /\ review' = [review EXCEPT ![r] = NoReview]
    /\ UNCHANGED <<held, drained, taken, filesAside>>
ReviewerDies(r) ==
    /\ review[r].at # "idle" /\ review' = [review EXCEPT ![r] = NoReview]
    /\ UNCHANGED <<inbox, held, drained, taken, filesAside>>
Review == \E r \in Reviewers : ReviewReads(r) \/ ReviewWrites(r) \/ ReviewAppends(r) \/ ReviewerDies(r)

Expire(m) ==
    /\ m \notin expired /\ expired' = expired \cup {m}
    /\ UNCHANGED <<made, outbox, sender, attempts, wire, roster, receiverVars>>

MessagingNext ==
    \/ \E m \in Messages : Send(m) \/ Expire(m)
    \/ Retry \/ GiveUp \/ Resolve \/ Connect \/ GetReply \/ SendTimeout \/ SenderRestarts
    \/ Start \/ StopReceiver \/ Crash \/ Receive \/ Accept \/ Drain \/ Drained \/ Review

-----------------------------------------------------------------------------
(* A message that is sent again, because the reply was late or because a    *)
(* session restarted, is not taken again before MaxQueue other messages     *)
(* were noted after it.  Counted from where it was first taken; and not for *)
(* one that a start read back in front of an older item: what waits is read *)
(* back before what was seen, and forgotten before it, so an item that      *)
(* overtook those the seen file has lost may be forgotten at once.          *)
First(i) == \A h \in accepted : notes[h] = notes[i] => i <= h
AcceptedOnce ==
    \A i, j \in accepted :
       (i < j /\ notes[i] = notes[j] /\ First(i) /\ i \notin crowded) => j - i > MaxQueue

(* What the code does not keep: the same without the exception.             *)
NeverSoonAgain ==
    \A i, j \in accepted : (i < j /\ notes[i] = notes[j] /\ First(i)) => j - i > MaxQueue

(* The notes whose message was not taken: the receiver crashed in between. *)
Noting == IF wire.at = "noted" THEN {Len(notes)} ELSE {}
Cut == DOMAIN notes \ (accepted \cup Noting)
Heard(m) == \E i \in accepted \cup Cut : notes[i] = m

(* A receipt that says delivered or held is about a message the receiver    *)
(* put into its queue, unless it crashed between its two files.             *)
ReceiptMeansAccepted == \A m \in Messages : Outcome(m) \in {"delivered", "held"} => Heard(m)

(* A message is delivered exactly once as far as both sides can tell.       *)
ExactlyOnce == AcceptedOnce /\ ReceiptMeansAccepted

(* Why: the seen file ends with the last notes, and what a start reads back *)
(* behind an item that is not crowded are messages of that file.            *)
Named == Messages \cup {"none"}
Answers == {"none", "left", "unreachable", "expired", "refused", "delivered", "held"}
Records == [event : {"pending", "receipt"}, id : Named, status : Answers]
Senders == [at : {"idle", "resolve", "connect", "wait"}, id : Named, todo : SUBSET Messages, cap : Nat]
Wires == [at : {"none", "sent", "noted", "replied"}, id : Named, cap : Nat, reply : Answers]
MessagingTypes ==
    /\ outbox \in Seq(Records) /\ sender \in Senders /\ wire \in Wires
    /\ roster \in Nat /\ starts \in Nat
    /\ notes \in Seq(Named) /\ order \in Seq(Named) /\ seenFile \in Seq(Named)
    /\ accepted \subseteq DOMAIN notes
Reviews == [at : {"idle", "decide", "list", "append"}, rest : Seq(accepted), item : accepted \cup {0}]
FilesHoldAccepted ==
    /\ inbox \in Seq(accepted) /\ held \in Seq(accepted) /\ review \in [Reviewers -> Reviews]
    /\ \A r \in Reviewers : review[r].at \in {"decide", "append"} => review[r].item \in accepted
NotedIsLast ==
    wire.at = "noted" => /\ up /\ notes # <<>> /\ notes[Len(notes)] = wire.id
                         /\ Len(notes) \notin accepted
FileIsTheEnd ==
    /\ Len(seenFile) = IF Len(notes) < MaxQueue THEN Len(notes) ELSE MaxQueue
    /\ \A k \in DOMAIN seenFile : seenFile[k] = notes[Len(notes) - Len(seenFile) + k]
Depth(i) == Len(notes) - i + 1
RecentIsKnown ==
    /\ Items(order) \subseteq Items(notes)
    /\ up => \A i \in accepted \cup Noting :
          (First(i) /\ i \notin crowded /\ Depth(i) <= MaxQueue) =>
                 \E p \in DOMAIN order : order[p] = notes[i] /\ Len(order) - p < MaxQueue + Depth(i)
NotedOnce ==
    \A i \in accepted, j \in accepted \cup Noting :
       (i < j /\ notes[i] = notes[j] /\ First(i) /\ i \notin crowded) => j - i > MaxQueue
AnswersAreTrue ==
    /\ wire.at = "replied" /\ wire.reply \in {"delivered", "held"} => Heard(wire.id)
    /\ \A r \in Items(outbox) : r.status \in {"delivered", "held"} => Heard(r.id)
PeerInv == /\ MessagingTypes /\ FilesHoldAccepted /\ NotedIsLast /\ FileIsTheEnd /\ RecentIsKnown
           /\ NotedOnce /\ AnswersAreTrue

(* Not kept: a message noted as seen when the receiver crashed is never     *)
(* said to be delivered.  Its retry is answered as a duplicate.             *)
CutIsNotDelivered ==
    \A i \in Cut : (\A h \in accepted : notes[h] # notes[i]) => Outcome(notes[i]) # "delivered"

(* Not kept: what was accepted waits, is under review or was taken away.    *)
(* An Accept between the two halves of drain() or of a review breaks it, or *)
(* the death of a reviewer between its two files.                           *)
AcceptedIsKept ==
    accepted \subseteq Items(inbox) \cup Items(held) \cup taken \cup {review[r].item : r \in Reviewers}

=============================================================================
