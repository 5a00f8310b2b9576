---------------------------- MODULE SessionContext ----------------------------
(****************************************************************************)
(* What a session remembers from one turn to the next: the conversation,    *)
(* its compaction into a summary (agent_runtime/lifecycle.py), the part of  *)
(* it each prompt shows (agent_runtime/context.py), the memories extracted  *)
(* on the way, and the end of the session.  Messages are numbered in the    *)
(* order they were made; a turn is split at the await of the tool loop.     *)
(****************************************************************************)
EXTENDS Integers, Sequences, FiniteSets

CONSTANTS
    Keep,          \* keep_recent_turns
    CompactEvery,  \* compact_every_n_turns, 0: never
    WriteEvery,    \* write_every_n_turns, 0: never
    SummaryRoom,   \* messages whose lines fit into 1200 tokens of summary
    MaxTurns       \* bound: turns of one session

OldShown == 12     \* of the turns it drops, a compaction summarises the last 12

VARIABLES
    phase,       \* "idle", "turn", "replied", "ending" steps, "over", "raised"
    turns,       \* turn_count
    made,        \* number of messages ever put into the conversation
    conversation, summary,   \* messages kept verbatim, messages in the summary
    prompt,      \* history the prompt of the turn shows, and the summary it quotes
    remembered,  \* messages offered to the memory extraction
    released     \* what end_session has shut down

contextVars == <<phase, turns, made, conversation, summary, prompt, remembered, released>>

(* Python's seq[-n:] for n > 0; for n = 0 it is the whole sequence. *)
Last(seq, n) == IF n = 0 \/ n >= Len(seq) THEN seq ELSE SubSeq(seq, Len(seq) - n + 1, Len(seq))
Rest(seq, n) == IF n = 0 THEN <<>> ELSE IF n >= Len(seq) THEN <<>> ELSE SubSeq(seq, 1, Len(seq) - n)
Elems(seq) == {seq[i] : i \in DOMAIN seq}

ContextInit ==
    /\ phase = "idle" /\ turns = 0 /\ made = 0
    /\ conversation = <<>> /\ summary = <<>>
    /\ prompt = [shown |-> <<>>, quoted |-> <<>>]
    /\ remembered = {} /\ released = {}

(* _conversation_messages_for_prompt: everything before the user's message, *)
(* or the last Keep messages once there is a summary.                       *)
Shown(conv) ==
    LET before == SubSeq(conv, 1, Len(conv) - 1)
    IN IF summary = <<>> THEN before ELSE IF Keep > 0 THEN Last(before, Keep) ELSE <<>>

(* The user's message enters the conversation before the model is asked.    *)
StartTurn ==
    /\ phase = "idle" /\ turns < MaxTurns
    /\ phase' = "turn" /\ turns' = turns + 1 /\ made' = made + 1
    /\ conversation' = Append(conversation, made')
    /\ prompt' = [shown |-> Shown(conversation'), quoted |-> summary]
    /\ UNCHANGED <<summary, remembered, released>>

(* The tool loop answers, with text or with the error it ran into.          *)
Reply ==
    /\ phase = "turn" /\ phase' = "replied" /\ made' = made + 1
    /\ conversation' = Append(conversation, made')
    /\ UNCHANGED <<turns, summary, prompt, remembered, released>>

(* CancelledError is no Exception: the turn leaves without a reply, and     *)
(* without what comes after it.                                             *)
InterruptTurn ==
    /\ phase = "turn" /\ phase' = "idle"
    /\ UNCHANGED <<turns, made, conversation, summary, prompt, remembered, released>>

(* A slip: one message less than the prompt wants is kept.                  *)
CompactedShort(heavy) ==
    IF Len(conversation) <= Keep + 2 \/ ~heavy THEN UNCHANGED <<conversation, summary>>
    ELSE /\ conversation' = Last(conversation, Keep - 1)
         /\ summary' = Rest(conversation, Keep - 1)
Compacted(heavy) ==
    LET hit == heavy \/ (CompactEvery > 0 /\ turns % CompactEvery = 0)
        old == Rest(conversation, Keep)
        lines == summary \o (IF Len(old) > OldShown THEN Last(old, OldShown) ELSE old)
    IN IF Len(conversation) <= Keep + 2 \/ ~hit THEN UNCHANGED <<conversation, summary>>
       ELSE /\ conversation' = Last(conversation, Keep)
            /\ summary' = SubSeq(lines, 1, IF Len(lines) < SummaryRoom THEN Len(lines) ELSE SummaryRoom)

(* The bookkeeping after a reply: a periodic memory write, whose extraction *)
(* may fail quietly, then the compaction, by interval or by size.           *)
CloseTurn ==
    /\ phase = "replied" /\ phase' = "idle"
    /\ remembered' \in {remembered} \cup
          (IF WriteEvery > 0 /\ turns % WriteEvery = 0 THEN {remembered \cup Elems(conversation)} ELSE {})
    /\ \E heavy \in BOOLEAN : Compacted(heavy)
    /\ UNCHANGED <<turns, made, prompt, released>>

(* end_session, in the order of its statements; a required hook that is not *)
(* configured raises, and what comes after it does not happen.              *)
EndSession ==
    /\ phase = "idle" /\ phase' = "ending"
    /\ remembered' \in {remembered, remembered \cup Elems(conversation)}
    /\ released' = {"work"} /\ UNCHANGED <<turns, made, conversation, summary, prompt>>
OnEndHook ==
    /\ phase = "ending" /\ released = {"work"}
    /\ \/ phase' = "raised" /\ UNCHANGED released
       \/ released' = released \cup {"hook"} /\ UNCHANGED phase
    /\ UNCHANGED <<turns, made, conversation, summary, prompt, remembered>>
Shutdown ==
    /\ phase = "ending" /\ "hook" \in released
    /\ phase' = "over" /\ released' = released \cup {"log", "messaging", "mcp"}
    /\ UNCHANGED <<turns, made, conversation, summary, prompt, remembered>>

ContextNext ==
    StartTurn \/ Reply \/ InterruptTurn \/ CloseTurn \/ EndSession \/ OnEndHook \/ Shutdown

-----------------------------------------------------------------------------
(* A prompt shows the most recent messages without a gap: the last Keep     *)
(* before the user's message, or all of them, however often the session was *)
(* compacted or interrupted and whatever both cut away.                     *)
RecentIsShown ==
    phase = "turn" =>
      LET n == IF made - 1 < Keep THEN made - 1 ELSE Keep
      IN /\ Len(prompt.shown) >= n
         /\ \A k \in 1 .. Len(prompt.shown) : prompt.shown[Len(prompt.shown) + 1 - k] = made - k

(* README.md:565: compaction "summarizes older turns and keeps recent turns  *)
(* verbatim".  Every message the user still has in the conversation is in    *)
(* the prompt, verbatim or in the summary.                                  *)
NothingForgotten ==
    phase = "turn" =>
      Elems(SubSeq(conversation, 1, Len(conversation) - 1))
          \subseteq Elems(prompt.shown) \cup Elems(prompt.quoted)

-----------------------------------------------------------------------------
(* Why nothing recent is lost: the conversation, and what a prompt shows of *)
(* it, are the last messages made, and at least Keep of them.               *)
AtLeastKept(conv, m) == Len(conv) >= (IF m < Keep THEN m ELSE Keep)
Recent(conv, m) == \A k \in 1 .. Len(conv) : conv[k] = m - Len(conv) + k
ContextInv ==
    /\ phase \in {"idle", "turn", "replied", "ending", "over", "raised"}
    /\ made \in Nat /\ conversation \in Seq(Nat)
    /\ Recent(conversation, made) /\ AtLeastKept(conversation, made)
    /\ prompt.shown \in Seq(Nat)
    /\ phase = "turn" => Recent(prompt.shown, made - 1) /\ AtLeastKept(prompt.shown, made - 1)

=============================================================================
