---------------------------- MODULE MCSession_proofs ----------------------------
(****************************************************************************)
(* What the parts of a session keep true for every value of their           *)
(* constants, as theorems of MCSession: a behaviour stays in its scene, so  *)
(* the inductive invariant of a part, which its module defines, is one of   *)
(* the scene.                                                               *)
(****************************************************************************)
EXTENDS MCSession, FiniteSetTheorems, SequenceTheorems, TLAPS

(* A step is a step of its scene and stays in it.                           *)
LEMMA SceneStep ==
    ASSUME [Next]_vars
    PROVE  /\ scene' = scene
           /\ scene = "turn" => [Turn!TurnNext]_(Turn!turnVars)
           /\ scene = "context" => [Context!ContextNext]_(Context!contextVars)
           /\ scene = "spend" => [Spend!SpendNext]_(Spend!spendVars)
           /\ scene = "agents" => [Agents!SubNext]_(Agents!subVars)
           /\ scene = "goal" => [Goal!GoalNext]_(Goal!goalVars)
           /\ scene = "lsp" => [Lsp!Next]_(Lsp!lspVars)
           /\ scene = "mcp" => [Mcp!McpNext]_(Mcp!mcpVars)
           /\ scene = "peer" => [Peer!MessagingNext]_(Peer!messagingVars)
<1> USE DEF TurnScene, ContextScene, SpendScene, AgentsScene, GoalScene, LspScene, McpScene, PeerScene
<1>1. CASE Next
  BY <1>1 DEF Next
<1>2. CASE UNCHANGED vars
  BY <1>2 DEF vars, S5, S6, S8, S9, S10, S14, S15, Turn!turnVars, Context!contextVars, Spend!spendVars,
              Agents!subVars, Goal!goalVars, Lsp!lspVars, Mcp!mcpVars,
              Peer!messagingVars
<1> QED
  BY <1>1, <1>2

-----------------------------------------------------------------------------
(* The turn (AgentTurn).                                                    *)

LEMMA ResultsAreOutcomes == ASSUME NEW c PROVE Turn!Results(c) \subseteq Turn!Outcomes
BY DEF Turn!Results, Turn!Outcomes

(* A set of numbers of a range that holds, with each of its members, all    *)
(* the smaller ones of the range is the beginning of that range.            *)
LEMMA BeginningOfARange ==
    ASSUME NEW a \in Nat, NEW b \in Nat, NEW S \in SUBSET (a .. b),
           \A j \in S : a .. j \subseteq S
    PROVE  Turn!IsFiniteSet(S) /\ Turn!Cardinality(S) \in Nat /\ S = a .. a + Turn!Cardinality(S) - 1
<1>1. Turn!IsFiniteSet(a .. b)
  BY Turn!FS_Interval
<1>2. Turn!IsFiniteSet(S)
  BY <1>1, Turn!FS_Subset
<1>3. Turn!Cardinality(S) \in Nat
  BY <1>2, Turn!FS_CardinalityType
<1>4. PICK n \in Nat : n = Turn!Cardinality(S)
  BY <1>3
<1>5. S \subseteq a .. a + n - 1
  <2> SUFFICES ASSUME NEW j \in S PROVE j \in a .. a + n - 1
    OBVIOUS
  <2>1. j \in Int /\ a <= j
    OBVIOUS
  <2>2. Turn!Cardinality(a .. j) <= Turn!Cardinality(S)
    BY <1>2, Turn!FS_Subset
  <2>3. Turn!Cardinality(a .. j) = j - a + 1
    BY <2>1, Turn!FS_Interval
  <2> QED
    BY <1>4, <2>1, <2>2, <2>3
<1>6. Turn!IsFiniteSet(a .. a + n - 1)
  BY Turn!FS_Interval
<1>7. Turn!Cardinality(a .. a + n - 1) = n
  <2>1. CASE n = 0
    <3>1. a .. a + n - 1 = {}
      BY <2>1
    <3> QED
      BY <2>1, <3>1, Turn!FS_EmptySet
  <2>2. CASE n > 0
    <3>1. a + n - 1 \in Int /\ a <= a + n - 1
      BY <2>2
    <3>2. Turn!Cardinality(a .. a + n - 1) = (a + n - 1) - a + 1
      BY <3>1, Turn!FS_Interval
    <3> QED
      BY <3>2
  <2> QED
    BY <2>1, <2>2
<1>8. S = a .. a + n - 1
  BY <1>4, <1>5, <1>6, <1>7, Turn!FS_Subset
<1> QED
  BY <1>2, <1>3, <1>4, <1>8

LEMMA SegmentShape ==
    ASSUME v8 \in Turn!Replies, v8.at <= Len(v8.calls)
    PROVE  /\ Turn!Cardinality(Turn!Segment(v8.at)) \in Nat
           /\ Turn!Segment(v8.at) = v8.at .. v8.at + Turn!Cardinality(Turn!Segment(v8.at)) - 1
           /\ \A j \in Turn!Segment(v8.at) : /\ j \in v8.at .. Len(v8.calls)
                                           /\ v8.calls[j].tool \in Reads
<1> DEFINE i == v8.at
           last == Len(v8.calls)
           seg == Turn!Segment(i)
           idx == {j \in i .. last : \A k \in i .. j : v8.calls[k].tool \in Reads}
<1>1. i \in Nat \ {0} /\ last \in Nat
  BY TurnAssumption DEF Turn!Replies
<1>2. seg = idx \/ seg = {}
  BY DEF Turn!Segment
<1> HIDE DEF seg, i, last
<1>3. seg \in SUBSET (i .. last)
  BY <1>2
<1>4. \A j \in seg : j \in i .. last /\ v8.calls[j].tool \in Reads
  BY <1>1, <1>2
<1>5. \A j \in seg : i .. j \subseteq seg
  BY <1>1, <1>2
<1>6. Turn!Cardinality(seg) \in Nat /\ seg = i .. i + Turn!Cardinality(seg) - 1
  BY <1>1, <1>3, <1>5, BeginningOfARange
<1> QED
  BY <1>4, <1>6 DEF seg, i, last

LEMMA ListIsASeq ==
    ASSUME NEW T, NEW n \in Nat, NEW f, DOMAIN f = 1 .. n, f = [k \in 1 .. n |-> f[k]],
           \A k \in 1 .. n : f[k] \in T
    PROVE  f \in Seq(T) /\ Len(f) = n
<1>1. f \in [1 .. n -> T]
  OBVIOUS
<1> QED
  BY <1>1

(* What FetchSegment adds to the history. *)
LEMMA FetchAdds ==
    ASSUME Turn!BatchInv, Turn!FetchSegment
    PROVE  \E new \in Seq(Turn!Entries) :
              /\ v13' = v13 \o new
              /\ \A k \in 1 .. Len(new) : /\ new[k].call.tool \in Reads
                                          /\ v8.at + k - 1 \in DOMAIN v9'
                                          /\ new[k].res = v9'[v8.at + k - 1]
              /\ DOMAIN v9' = v8.at .. v8.at + Len(new) - 1
              /\ \A j \in DOMAIN v9' : j \in 1 .. Len(v8.calls) /\ v8.calls[j].tool \in Reads
<1> DEFINE seg == Turn!Segment(v8.at)
           n == Turn!Cardinality(seg)
           read == [k \in 1 .. n |-> v8.calls[v8.at + k - 1]]
<1>1. PICK got \in [seg -> UNION {Turn!Results(v8.calls[j]) : j \in seg}] :
         /\ v9' = got
         /\ v13' = v13 \o [k \in 1 .. n |->
                      [call |-> read[k], res |-> got[v8.at + k - 1], by |-> "model"]]
  BY DEF Turn!FetchSegment
<1> DEFINE entry(k) == [call |-> read[k], res |-> got[v8.at + k - 1], by |-> "model"]
           new == [k \in 1 .. n |-> entry(k)]
           i == v8.at
           last == Len(v8.calls)
<1>2. v8 \in Turn!Replies /\ v8.at <= Len(v8.calls)
  BY DEF Turn!FetchSegment, Turn!BatchInv, Turn!Working
<1>3. /\ n \in Nat /\ seg = i .. i + n - 1
      /\ \A j \in seg : j \in i .. last /\ v8.calls[j].tool \in Reads
  BY <1>2, SegmentShape
<1>4. v8.calls \in Seq(Calls) /\ i \in Nat \ {0}
  BY <1>2, TurnAssumption DEF Turn!Replies
<1>5. last \in Nat /\ \A j \in 1 .. last : v8.calls[j] \in Calls
  BY <1>4
<1>6. DOMAIN got = seg /\ \A j \in seg : got[j] \in Turn!Outcomes
  BY ResultsAreOutcomes
<1>7. \A k \in 1 .. n : read[k] = v8.calls[i + k - 1]
  OBVIOUS
<1> HIDE DEF seg, i, last, n, read
<1>8. ASSUME NEW k \in 1 .. n
      PROVE  /\ i + k - 1 \in seg /\ read[k] \in Calls /\ read[k].tool \in Reads
             /\ got[i + k - 1] \in Turn!Outcomes
  <2>1. i + k - 1 \in seg
    BY <1>3, <1>4
  <2>2. i + k - 1 \in 1 .. last
    BY <1>3, <1>4, <1>5, <2>1
  <2> QED
    BY <1>3, <1>5, <1>6, <1>7, <2>1, <2>2
<1>9. \A k \in 1 .. n : new[k] = entry(k) /\ entry(k) \in Turn!Entries
  <2> SUFFICES ASSUME NEW k \in 1 .. n PROVE entry(k) \in Turn!Entries
    OBVIOUS
  <2> QED
    BY <1>8 DEF Turn!Entries, i
<1>10. new \in Seq(Turn!Entries) /\ Len(new) = n
  <2>1. DOMAIN new = 1 .. n /\ new = [k \in 1 .. n |-> new[k]]
    OBVIOUS
  <2> HIDE DEF entry
  <2>2. \A k \in 1 .. n : new[k] \in Turn!Entries
    BY <1>9
  <2> HIDE DEF new
  <2> QED
    BY <1>3, <2>1, <2>2, ListIsASeq
<1> QED
  <2>1. \A k \in 1 .. n : /\ new[k].call.tool \in Reads
                          /\ i + k - 1 \in DOMAIN got
                          /\ new[k].res = got[i + k - 1]
    BY <1>6, <1>8, <1>9 DEF i
  <2>2. DOMAIN got = i .. i + n - 1
    BY <1>3, <1>6
  <2>3. \A j \in DOMAIN got : j \in 1 .. last /\ v8.calls[j].tool \in Reads
    <3> SUFFICES ASSUME NEW j \in seg PROVE j \in 1 .. last /\ v8.calls[j].tool \in Reads
      BY <1>6
    <3> QED
      BY <1>3, <1>4, <1>5
  <2>4. v13' = v13 \o new /\ v9' = got
    BY <1>1
  <2> HIDE DEF new
  <2> QED
    BY <1>10, <2>1, <2>2, <2>3, <2>4 DEF i, last

LEMMA CurrentIsACall ==
    ASSUME Turn!BatchInv, v1 \in Turn!Working
    PROVE  /\ Turn!Current \in Calls /\ v8.at \in 1 .. Len(v8.calls) /\ Len(v8.calls) \in Nat
           /\ Turn!Completed \in Turn!Wholes /\ Turn!Completed.tool = Turn!Current.tool /\ Turn!Completed.path = Turn!Current.path
<1>1. v8 \in Turn!Replies /\ v8.at <= Len(v8.calls)
  BY DEF Turn!BatchInv
<1>2. v8.calls \in Seq(Calls) /\ v8.at \in Nat \ {0}
  BY <1>1, TurnAssumption DEF Turn!Replies
<1>3. Turn!Current \in Calls /\ v8.at \in 1 .. Len(v8.calls) /\ Len(v8.calls) \in Nat
  BY <1>1, <1>2 DEF Turn!Current
<1>4. Turn!Completed \in Turn!Wholes /\ Turn!Completed.tool = Turn!Current.tool /\ Turn!Completed.path = Turn!Current.path
  BY <1>3 DEF Turn!Completed, Turn!Wholes
<1> QED
  BY <1>3, <1>4

(* What a step adds to the history: nothing, one call, or a run of reads.   *)
LEMMA WhatIsAdded ==
    ASSUME Turn!BatchInv, Turn!TurnNext
    PROVE  \/ v13' = v13
           \/ /\ Turn!RunOne /\ \E res \in Turn!Outcomes : v13' = Turn!Logged(Turn!Current, res, "model")
           \/ /\ Turn!Recover /\ \E res \in Turn!Outcomes : v13' = Turn!Logged(Turn!Completed, res, "recovery")
           \/ Turn!FetchSegment
<1>1. Turn!RunOne => \E res \in Turn!Outcomes : v13' = Turn!Logged(Turn!Current, res, "model")
  BY ResultsAreOutcomes DEF Turn!RunOne, Turn!Took
<1>2. Turn!Recover => v13' = v13 \/ \E res \in Turn!Outcomes : v13' = Turn!Logged(Turn!Completed, res, "recovery")
  BY ResultsAreOutcomes DEF Turn!Recover
<1>3. Turn!TakeFetched => v13' = v13
  BY DEF Turn!TakeFetched, Turn!Took
<1>4. Turn!Judge => v13' = v13
  BY DEF Turn!Judge, Turn!Advance, Turn!Stop, Turn!Finish
<1>5. (Turn!AskModel \/ Turn!RoundLimit \/ Turn!BudgetStop \/ Turn!ProviderError \/ Turn!Answer \/ Turn!Garble
          \/ Turn!ReplyWithCalls \/ Turn!Check \/ Turn!ToolRaises \/ Turn!Interrupt) => v13' = v13
  BY DEF Turn!AskModel, Turn!RoundLimit, Turn!BudgetStop, Turn!ProviderError, Turn!Answer, Turn!Garble, Turn!ReplyWithCalls, Turn!Check,
         Turn!ToolRaises, Turn!Interrupt, Turn!Finish, Turn!Stop
<1> QED
  BY <1>1, <1>2, <1>3, <1>4, <1>5 DEF Turn!TurnNext, Turn!TurnStep

LEMMA DoneIsAHistory ==
    ASSUME Turn!BatchInv, Turn!TurnNext
    PROVE  (v13 \in Seq(Turn!Entries))'
<1>1. v13 \in Seq(Turn!Entries)
  BY DEF Turn!BatchInv
<1>2. CASE v13' = v13
  BY <1>1, <1>2
<1>3. CASE Turn!RunOne /\ \E res \in Turn!Outcomes : v13' = Turn!Logged(Turn!Current, res, "model")
  <2>1. PICK res \in Turn!Outcomes : v13' = Append(v13, [call |-> Turn!Current, res |-> res, by |-> "model"])
    BY <1>3 DEF Turn!Logged
  <2>2. Turn!Current \in Calls
    BY <1>3, CurrentIsACall DEF Turn!RunOne, Turn!Working
  <2>3. [call |-> Turn!Current, res |-> res, by |-> "model"] \in Turn!Entries
    BY <2>2 DEF Turn!Entries
  <2> QED
    BY <1>1, <2>1, <2>3
<1>4. CASE Turn!Recover /\ \E res \in Turn!Outcomes : v13' = Turn!Logged(Turn!Completed, res, "recovery")
  <2>1. PICK res \in Turn!Outcomes : v13' = Append(v13, [call |-> Turn!Completed, res |-> res, by |-> "recovery"])
    BY <1>4 DEF Turn!Logged
  <2>2. Turn!Completed \in Turn!Wholes
    BY <1>4, CurrentIsACall DEF Turn!Recover, Turn!Working
  <2>3. [call |-> Turn!Completed, res |-> res, by |-> "recovery"] \in Turn!Entries
    BY <2>2 DEF Turn!Entries
  <2> QED
    BY <1>1, <2>1, <2>3
<1>5. CASE Turn!FetchSegment
  <2>1. \E new \in Seq(Turn!Entries) : v13' = v13 \o new
    BY <1>5, FetchAdds
  <2> QED
    BY <1>1, <2>1
<1> QED
  BY <1>2, <1>3, <1>4, <1>5, WhatIsAdded

LEMMA BatchInitially == Turn!TurnInit => Turn!BatchInv
BY DEF Turn!TurnInit, Turn!BatchInv, Turn!Working

LEMMA BatchIsKept == Turn!BatchInv /\ [Turn!TurnNext]_(Turn!turnVars) => Turn!BatchInv'
<1> SUFFICES ASSUME Turn!BatchInv, [Turn!TurnNext]_(Turn!turnVars) PROVE Turn!BatchInv'
  OBVIOUS
<1> USE DEF Turn!Working
<1>1. CASE Turn!AskModel \/ Turn!RoundLimit \/ Turn!BudgetStop \/ Turn!ProviderError \/ Turn!Answer \/ Turn!Garble
              \/ Turn!ToolRaises \/ Turn!Interrupt
  BY <1>1 DEF Turn!BatchInv, Turn!AskModel, Turn!RoundLimit, Turn!BudgetStop, Turn!ProviderError, Turn!Answer, Turn!Garble,
              Turn!ToolRaises, Turn!Interrupt, Turn!Finish, Turn!Stop
<1>2. CASE Turn!ReplyWithCalls
  <2>1. PICK b \in Batches, native \in BOOLEAN : v8' = [calls |-> b, at |-> 1, native |-> native]
    BY <1>2 DEF Turn!ReplyWithCalls
  <2>2. v8' \in Turn!Replies
    BY <2>1 DEF Turn!Replies
  <2>3. b \in Seq(Calls) /\ b # <<>>
    BY TurnAssumption
  <2>4. v8'.at <= Len(v8'.calls)
    BY <2>1, <2>3
  <2>5. v1' = "check" /\ DOMAIN v9' = {} /\ v13' = v13
    BY <1>2 DEF Turn!ReplyWithCalls
  <2> QED
    BY <2>2, <2>4, <2>5 DEF Turn!BatchInv
<1>3. CASE Turn!Check
  BY <1>3 DEF Turn!BatchInv, Turn!Check, Turn!Stop
<1>4. CASE Turn!RunOne \/ Turn!TakeFetched
  <2>1. /\ v8' = v8 /\ v9' = v9 /\ v1 = "run"
        /\ v1' \in {"recover", "judge"} /\ (v1' = "recover" => v10' = "missing")
    BY <1>4 DEF Turn!RunOne, Turn!TakeFetched, Turn!Took
  <2>2. (v13 \in Seq(Turn!Entries))'
    BY <1>4, DoneIsAHistory DEF Turn!TurnNext, Turn!TurnStep
  <2> QED
    BY <2>1, <2>2 DEF Turn!BatchInv
<1>5. CASE Turn!FetchSegment
  <2>1. \A j \in DOMAIN v9' : j \in 1 .. Len(v8.calls) /\ v8.calls[j].tool \in Reads
    BY <1>5, FetchAdds
  <2>2. (v13 \in Seq(Turn!Entries))'
    BY <1>5, DoneIsAHistory DEF Turn!TurnNext, Turn!TurnStep
  <2>3. v1' = "run" /\ v8' = v8 /\ v1 = "run"
    BY <1>5 DEF Turn!FetchSegment
  <2> QED
    BY <2>1, <2>2, <2>3 DEF Turn!BatchInv
<1>6. CASE Turn!Judge
  <2>1. CASE Turn!Advance
    <3>1. v13' = v13
      BY <2>1 DEF Turn!Advance
    <3>2. CASE v8.at = Len(v8.calls)
      BY <2>1, <3>1, <3>2 DEF Turn!Advance, Turn!BatchInv
    <3>3. CASE v8.at # Len(v8.calls)
      <4>1. /\ v1' = "check" /\ v9' = v9 /\ v8' = [v8 EXCEPT !.at = v8.at + 1]
        BY <2>1, <3>3 DEF Turn!Advance
      <4>2. v8 \in Turn!Replies /\ v8.at \in 1 .. Len(v8.calls) /\ Len(v8.calls) \in Nat
        BY <1>6, CurrentIsACall DEF Turn!Judge, Turn!BatchInv
      <4>3. v8' \in Turn!Replies /\ v8'.calls = v8.calls /\ v8'.at = v8.at + 1
        BY <4>1, <4>2 DEF Turn!Replies
      <4>4. v8'.at <= Len(v8'.calls)
        BY <3>3, <4>2, <4>3
      <4>5. \A k \in DOMAIN v9' : k \in 1 .. Len(v8'.calls) /\ v8'.calls[k].tool \in Reads
        BY <1>6, <4>1, <4>3 DEF Turn!Judge, Turn!BatchInv
      <4> QED
        BY <3>1, <4>1, <4>3, <4>4, <4>5 DEF Turn!BatchInv
    <3> QED
      BY <3>2, <3>3
  <2>2. CASE /\ v10 = "missing" /\ v1' = "last_recover"
             /\ UNCHANGED <<v8, v9, v10, v11, v12, v7, v13>>
    BY <1>6, <2>2 DEF Turn!Judge, Turn!BatchInv
  <2>3. CASE v1' = "ended" /\ UNCHANGED <<v8, v9, v10, v7, v13>>
    BY <1>6, <2>3 DEF Turn!Judge, Turn!BatchInv
  <2> QED
    BY <1>6, <2>1, <2>2, <2>3 DEF Turn!Judge, Turn!Finish, Turn!Stop
<1>7. CASE Turn!Recover
  <2>1. v8' = v8 /\ v9' = v9 /\ v10' = v10 /\ v1' \in {"judge", "ended"} /\ v1 \in Turn!Working
    BY <1>7 DEF Turn!Recover, Turn!NotRecovered, Turn!Stop
  <2>2. (v13 \in Seq(Turn!Entries))'
    BY <1>7, DoneIsAHistory DEF Turn!TurnNext, Turn!TurnStep
  <2> QED
    BY <2>1, <2>2 DEF Turn!BatchInv
<1>8. CASE UNCHANGED Turn!turnVars
  BY <1>8 DEF Turn!turnVars, Turn!BatchInv
<1> QED
  BY <1>1, <1>2, <1>3, <1>4, <1>5, <1>6, <1>7, <1>8 DEF Turn!TurnNext, Turn!TurnStep

LEMMA ReadsMayFollow ==
    ASSUME v13 \in Seq(Turn!Entries), Turn!HeedsDenial,
           NEW new \in Seq(Turn!Entries), \A k \in 1 .. Len(new) : new[k].call.tool \in Reads,
           v13' = v13 \o new
    PROVE  Turn!HeedsDenial'
<1> SUFFICES ASSUME NEW i \in DOMAIN v13', NEW j \in DOMAIN v13', i < j,
                    v13'[i].res = "denied", v13'[i].by = "model"
             PROVE  v13'[j].call.tool \in Reads
  BY DEF Turn!HeedsDenial
<1>1. /\ Len(v13) \in Nat /\ Len(new) \in Nat /\ DOMAIN v13 = 1 .. Len(v13)
      /\ DOMAIN v13' = 1 .. Len(v13) + Len(new)
      /\ \A k \in 1 .. Len(v13) : v13'[k] = v13[k]
      /\ \A k \in Len(v13) + 1 .. Len(v13) + Len(new) : v13'[k] = new[k - Len(v13)]
  OBVIOUS
<1>2. CASE j <= Len(v13)
  <2>1. i \in DOMAIN v13 /\ j \in DOMAIN v13 /\ v13'[i] = v13[i] /\ v13'[j] = v13[j]
    BY <1>1, <1>2
  <2> QED
    BY <2>1 DEF Turn!HeedsDenial
<1>3. CASE j > Len(v13)
  <2>1. j - Len(v13) \in 1 .. Len(new) /\ v13'[j] = new[j - Len(v13)]
    BY <1>1, <1>3
  <2> QED
    BY <2>1
<1> QED
  BY <1>1, <1>2, <1>3

LEMMA OneMayFollow ==
    ASSUME v13 \in Seq(Turn!Entries), Turn!HeedsDenial, NEW d \in Turn!Entries, v13' = Append(v13, d),
           Turn!Denied => d.call.tool \in Reads
    PROVE  Turn!HeedsDenial'
<1> SUFFICES ASSUME NEW i \in DOMAIN v13', NEW j \in DOMAIN v13', i < j,
                    v13'[i].res = "denied", v13'[i].by = "model"
             PROVE  v13'[j].call.tool \in Reads
  BY DEF Turn!HeedsDenial
<1>1. /\ Len(v13) \in Nat /\ DOMAIN v13 = 1 .. Len(v13) /\ DOMAIN v13' = 1 .. Len(v13) + 1
      /\ \A k \in 1 .. Len(v13) : v13'[k] = v13[k]
      /\ v13'[Len(v13) + 1] = d
  OBVIOUS
<1>2. i \in DOMAIN v13 /\ v13'[i] = v13[i]
  BY <1>1
<1>3. CASE j \in DOMAIN v13
  BY <1>1, <1>2, <1>3 DEF Turn!HeedsDenial
<1>4. CASE j = Len(v13) + 1
  BY <1>1, <1>2, <1>4 DEF Turn!Denied, Turn!Denies
<1> QED
  BY <1>1, <1>3, <1>4

LEMMA DenialInitially == Turn!TurnInit => Turn!DenialInv /\ Turn!HeedsDenial
BY DEF Turn!TurnInit, Turn!DenialInv, Turn!Denied, Turn!HeedsDenial

(* The steps that add nothing: a denial on record stays ahead of the loop, or ends it. *)
LEMMA DenialStaysAhead ==
    ASSUME Turn!BatchInv, Turn!DenialInv, Turn!TurnNext, v13' = v13
    PROVE  Turn!DenialInv'
<1> SUFFICES ASSUME Turn!Denied PROVE Turn!DenialEndsIt'
  BY DEF Turn!DenialInv, Turn!Denied
<1>1. Turn!DenialEndsIt
  BY DEF Turn!DenialInv
<1> USE DEF Turn!Working, Turn!DenialEndsIt
<1>2. CASE Turn!AskModel \/ Turn!RoundLimit \/ Turn!BudgetStop \/ Turn!ProviderError \/ Turn!Answer \/ Turn!Garble \/ Turn!ReplyWithCalls
  BY <1>1, <1>2 DEF Turn!AskModel, Turn!RoundLimit, Turn!BudgetStop, Turn!ProviderError, Turn!Answer, Turn!Garble, Turn!ReplyWithCalls
<1>3. CASE Turn!ToolRaises \/ Turn!Interrupt
  BY <1>3 DEF Turn!ToolRaises, Turn!Interrupt, Turn!Stop
<1>4. CASE Turn!Check
  <2>1. v1' = "ended" \/ (v1' = "run" /\ UNCHANGED <<v8, v9, v10>>)
    BY <1>4 DEF Turn!Check, Turn!Stop
  <2> QED
    BY <1>1, <1>4, <2>1 DEF Turn!Check, Turn!DenialIsAhead
<1>5. CASE Turn!RunOne \/ Turn!FetchSegment
  <2>1. v8.at \notin DOMAIN v9 /\ v1 = "run"
    BY <1>5 DEF Turn!RunOne, Turn!FetchSegment
  <2>2. v8.at \in Nat
    BY <2>1, CurrentIsACall
  <2>3. ~Turn!DenialIsAhead
    <3> SUFFICES ASSUME NEW j \in DOMAIN v9, v8.at .. j \subseteq DOMAIN v9, v8.at <= j
                 PROVE  FALSE
      BY DEF Turn!DenialIsAhead
    <3>1. j \in Nat
      BY <2>1 DEF Turn!BatchInv
    <3> QED
      BY <2>1, <2>2, <3>1
  <2> QED
    BY <1>1, <2>1, <2>3
<1>6. CASE Turn!TakeFetched
  <2>1. /\ v1 = "run" /\ v8.at \in DOMAIN v9 /\ v8' = v8 /\ v9' = v9
        /\ v10' = v9[v8.at]
        /\ v1' \in {"recover", "judge"} /\ (v10' # "missing" => v1' = "judge")
    BY <1>6 DEF Turn!TakeFetched, Turn!Took
  <2>2. PICK j \in DOMAIN v9 : v9[j] = "denied" /\ v8.at .. j \subseteq DOMAIN v9 /\ v8.at <= j
    BY <1>1, <2>1 DEF Turn!DenialIsAhead
  <2>3. CASE j = v8.at
    BY <2>1, <2>2, <2>3
  <2>4. CASE j # v8.at
    <3>1. v8.at < j
      BY <2>1, <2>2, <2>4, CurrentIsACall DEF Turn!BatchInv
    <3> QED
      BY <2>1, <2>2, <3>1 DEF Turn!DenialIsAhead
  <2> QED
    BY <2>3, <2>4
<1>7. CASE Turn!Judge
  <2>1. v1 = "judge" /\ v8.at \in 1 .. Len(v8.calls) /\ Len(v8.calls) \in Nat
    BY <1>7, CurrentIsACall DEF Turn!Judge
  <2>2. CASE v10 = "denied"
    BY <1>7, <2>2 DEF Turn!Judge, Turn!Stop
  <2>3. CASE v10 # "denied"
    <3>1. PICK j \in DOMAIN v9 : v9[j] = "denied" /\ v8.at .. j \subseteq DOMAIN v9 /\ v8.at < j
      BY <1>1, <2>1, <2>3 DEF Turn!DenialIsAhead
    <3>2. j \in 1 .. Len(v8.calls)
      BY <2>1, <3>1 DEF Turn!BatchInv
    <3>3. CASE Turn!Advance
      <4>1. v8.at # Len(v8.calls)
        BY <2>1, <3>1, <3>2
      <4>2. v1' = "check" /\ v9' = v9 /\ v8' = [v8 EXCEPT !.at = v8.at + 1]
        BY <3>3, <4>1 DEF Turn!Advance
      <4>3. v8 \in Turn!Replies
        BY <2>1 DEF Turn!BatchInv
      <4>4. v8'.at = v8.at + 1
        BY <4>2, <4>3 DEF Turn!Replies
      <4>5. v8'.at <= j /\ v8'.at .. j \subseteq DOMAIN v9'
        BY <2>1, <3>1, <3>2, <4>2, <4>4
      <4> QED
        BY <3>1, <4>2, <4>5 DEF Turn!DenialIsAhead
    <3>4. CASE v1' = "last_recover" /\ UNCHANGED <<v8, v9>>
      BY <3>1, <3>4, <2>1, <3>2 DEF Turn!DenialIsAhead
    <3> QED
      BY <1>7, <2>3, <3>3, <3>4 DEF Turn!Judge, Turn!Finish
  <2> QED
    BY <2>2, <2>3
<1>8. CASE Turn!Recover
  <2>1. /\ v1 \in {"recover", "last_recover"} /\ v8' = v8 /\ v9' = v9
        /\ v1' \in {"judge", "ended"}
    BY <1>8 DEF Turn!Recover, Turn!NotRecovered, Turn!Stop
  <2> QED
    BY <1>1, <2>1 DEF Turn!DenialIsAhead
<1> QED
  BY <1>2, <1>3, <1>4, <1>5, <1>6, <1>7, <1>8 DEF Turn!TurnNext, Turn!TurnStep

LEMMA NothingAheadOfRunning ==
    ASSUME Turn!BatchInv, Turn!DenialInv, v1 = "run", v8.at \notin DOMAIN v9
    PROVE  ~Turn!Denied
<1>1. v8.at \in Nat
  BY CurrentIsACall DEF Turn!Working
<1>2. ~Turn!DenialIsAhead
  <2> SUFFICES ASSUME NEW j \in DOMAIN v9, v8.at .. j \subseteq DOMAIN v9, v8.at <= j
               PROVE  FALSE
    BY DEF Turn!DenialIsAhead
  <2>1. j \in Nat
    BY DEF Turn!BatchInv, Turn!Working
  <2> QED
    BY <1>1, <2>1
<1> QED
  BY <1>2 DEF Turn!DenialInv, Turn!DenialEndsIt

LEMMA DenialIsKept == Turn!BatchInv /\ Turn!DenialInv /\ Turn!HeedsDenial /\ [Turn!TurnNext]_(Turn!turnVars) => Turn!DenialInv' /\ Turn!HeedsDenial'
<1> SUFFICES ASSUME Turn!BatchInv, Turn!DenialInv, Turn!HeedsDenial, [Turn!TurnNext]_(Turn!turnVars) PROVE Turn!DenialInv' /\ Turn!HeedsDenial'
  OBVIOUS
<1> USE DEF Turn!Working, Turn!DenialEndsIt
<1>0. v13 \in Seq(Turn!Entries)
  BY DEF Turn!BatchInv
<1>1. CASE Turn!TurnNext /\ v13' = v13
  BY <1>1, DenialStaysAhead DEF Turn!HeedsDenial
<1>2. CASE Turn!RunOne /\ \E res \in Turn!Outcomes : v13' = Turn!Logged(Turn!Current, res, "model")
  <2>1. PICK res \in Turn!Results(Turn!Current) : v10' = res /\ v13' = Turn!Logged(Turn!Current, res, "model")
                /\ (res = "denied" => v1' = "judge")
    BY <1>2 DEF Turn!RunOne, Turn!Took
  <2>2. ~Turn!Denied
    BY <1>2, NothingAheadOfRunning DEF Turn!RunOne
  <2>3. Turn!Current \in Calls /\ res \in Turn!Outcomes
    BY <1>2, CurrentIsACall, ResultsAreOutcomes DEF Turn!RunOne
  <2> DEFINE d == [call |-> Turn!Current, res |-> res, by |-> "model"]
  <2>4. d \in Turn!Entries /\ v13' = Append(v13, d) /\ d.res = res
    BY <2>1, <2>3 DEF Turn!Entries, Turn!Logged
  <2> HIDE DEF d
  <2>5. Turn!HeedsDenial'
    BY <1>0, <2>2, <2>4, OneMayFollow
  <2>6. \A k \in DOMAIN v13' : (k \in DOMAIN v13 /\ v13'[k] = v13[k]) \/ v13'[k] = d
    BY <1>0, <2>4
  <2>7. Turn!DenialInv'
    BY <2>1, <2>2, <2>4, <2>6 DEF Turn!DenialInv, Turn!Denied, Turn!Denies
  <2> QED
    BY <2>5, <2>7
<1>3. CASE Turn!Recover /\ \E res \in Turn!Outcomes : v13' = Turn!Logged(Turn!Completed, res, "recovery")
  <2>1. PICK res \in Turn!Outcomes : v13' = Append(v13, [call |-> Turn!Completed, res |-> res, by |-> "recovery"])
    BY <1>3 DEF Turn!Logged
  <2> DEFINE d == [call |-> Turn!Completed, res |-> res, by |-> "recovery"]
  <2>2. /\ v1 \in {"recover", "last_recover"} /\ v8' = v8 /\ v9' = v9
        /\ v1' \in {"judge", "ended"} /\ v10 = "missing"
    BY <1>3 DEF Turn!Recover, Turn!NotRecovered, Turn!Stop, Turn!BatchInv
  <2>3. Turn!Completed \in Turn!Wholes /\ Turn!Completed.tool = Turn!Current.tool /\ v8.at \in Nat
    BY <2>2, CurrentIsACall
  <2>4. d \in Turn!Entries /\ v13' = Append(v13, d) /\ ~Turn!Denies(d) /\ d.call.tool = Turn!Current.tool
    BY <2>1, <2>3 DEF Turn!Entries, Turn!Denies
  <2> HIDE DEF d
  <2>5. ASSUME Turn!Denied PROVE Turn!DenialIsAhead /\ Turn!Current.tool \in Reads
    <3>1. Turn!DenialIsAhead
      BY <2>2, <2>5 DEF Turn!DenialInv, Turn!Denied
    <3>2. PICK j \in DOMAIN v9 : v8.at .. j \subseteq DOMAIN v9 /\ v8.at <= j
      BY <3>1 DEF Turn!DenialIsAhead
    <3>3. j \in Nat
      BY <2>2 DEF Turn!BatchInv
    <3>4. v8.at \in DOMAIN v9
      BY <2>3, <3>2, <3>3
    <3> QED
      BY <2>2, <3>1, <3>4 DEF Turn!BatchInv, Turn!Current
  <2>6. Turn!HeedsDenial'
    BY <1>0, <2>4, <2>5, OneMayFollow
  <2>7. \A k \in DOMAIN v13' : (k \in DOMAIN v13 /\ v13'[k] = v13[k]) \/ v13'[k] = d
    BY <1>0, <2>4
  <2>8. Turn!DenialInv'
    <3> SUFFICES ASSUME Turn!Denied PROVE Turn!DenialEndsIt'
      BY <2>4, <2>7 DEF Turn!DenialInv, Turn!Denied
    <3> QED
      BY <2>2, <2>5 DEF Turn!DenialIsAhead
  <2> QED
    BY <2>6, <2>8
<1>4. CASE Turn!FetchSegment
  <2>1. PICK new \in Seq(Turn!Entries) :
              /\ v13' = v13 \o new
              /\ \A k \in 1 .. Len(new) : /\ new[k].call.tool \in Reads
                                          /\ v8.at + k - 1 \in DOMAIN v9'
                                          /\ new[k].res = v9'[v8.at + k - 1]
              /\ DOMAIN v9' = v8.at .. v8.at + Len(new) - 1
    BY <1>4, FetchAdds
  <2>2. Turn!HeedsDenial'
    BY <1>0, <2>1, ReadsMayFollow
  <2>3. ~Turn!Denied /\ v1' = "run" /\ v8' = v8 /\ v8.at \in Nat
    BY <1>4, NothingAheadOfRunning, CurrentIsACall DEF Turn!FetchSegment
  <2>4. /\ Len(v13) \in Nat /\ Len(new) \in Nat /\ DOMAIN v13 = 1 .. Len(v13)
        /\ DOMAIN v13' = 1 .. Len(v13) + Len(new)
        /\ \A k \in 1 .. Len(v13) : v13'[k] = v13[k]
        /\ \A k \in Len(v13) + 1 .. Len(v13) + Len(new) : v13'[k] = new[k - Len(v13)]
    BY <1>0, <2>1
  <2>5. ASSUME NEW k \in DOMAIN v13', Turn!Denies(v13'[k]) PROVE Turn!DenialIsAhead'
    <3>1. k \notin 1 .. Len(v13)
      BY <2>3, <2>4, <2>5 DEF Turn!Denied
    <3> DEFINE n == k - Len(v13)
    <3>2. n \in 1 .. Len(new) /\ v13'[k] = new[n]
      BY <2>4, <3>1
    <3> HIDE DEF n
    <3>3. new[n].res = "denied"
      BY <2>5, <3>2 DEF Turn!Denies
    <3> DEFINE j == v8.at + n - 1
    <3>4. j \in DOMAIN v9' /\ v9'[j] = "denied" /\ v8.at <= j
      BY <2>1, <2>3, <2>4, <3>2, <3>3
    <3>5. v8.at .. j \subseteq DOMAIN v9'
      BY <2>1, <2>3, <2>4, <3>2
    <3> QED
      BY <2>3, <3>4, <3>5 DEF Turn!DenialIsAhead
  <2>6. Turn!DenialInv'
    BY <2>3, <2>5 DEF Turn!DenialInv, Turn!Denied
  <2> QED
    BY <2>2, <2>6
<1>5. CASE UNCHANGED Turn!turnVars
  BY <1>5 DEF Turn!turnVars, Turn!DenialInv, Turn!Denied, Turn!HeedsDenial, Turn!DenialIsAhead, Turn!Denies
<1> QED
  BY <1>1, <1>2, <1>3, <1>4, <1>5, WhatIsAdded

(* The last write of a file, after one more call. *)
LEMMA OneMoreCall ==
    ASSUME v13 \in Seq(Turn!Entries), NEW d \in Turn!Entries, v13' = Append(v13, d), NEW f
    PROVE  Turn!LastFailed(f)' <=> IF d.call.tool \in Mutators /\ d.call.path = f THEN d.res # "ok"
                              ELSE Turn!LastFailed(f)
<1> DEFINE n == Len(v13) + 1
           here == d.call.tool \in Mutators /\ d.call.path = f
<1>1. /\ n \in Nat /\ DOMAIN v13 = 1 .. n - 1 /\ DOMAIN v13' = 1 .. n
      /\ \A k \in 1 .. n - 1 : v13'[k] = v13[k]
      /\ v13'[n] = d
  OBVIOUS
<1> HIDE DEF n
<1>2. \A k \in Turn!Writes(f) : k \in 1 .. n - 1
  BY <1>1 DEF Turn!Writes
<1>3. CASE here
  <2>1. Turn!Writes(f)' = Turn!Writes(f) \cup {n}
    BY <1>1, <1>3 DEF Turn!Writes
  <2>2. Turn!LastFailed(f)' <=> \E i \in Turn!Writes(f)' : v13'[i].res # "ok" /\ \A j \in Turn!Writes(f)' : j <= i
    BY DEF Turn!LastFailed
  <2>3. \A i \in Turn!Writes(f)' : (\A j \in Turn!Writes(f)' : j <= i) <=> i = n
    BY <1>1, <1>2, <2>1
  <2> QED
    BY <1>1, <1>3, <2>1, <2>2, <2>3
<1>4. CASE ~here
  <2>1. Turn!Writes(f)' = Turn!Writes(f)
    BY <1>1, <1>4 DEF Turn!Writes
  <2> QED
    BY <1>1, <1>2, <1>4, <2>1 DEF Turn!LastFailed
<1> QED
  BY <1>3, <1>4

(* Reads write nothing. *)
LEMMA MoreReads ==
    ASSUME v13 \in Seq(Turn!Entries), NEW new \in Seq(Turn!Entries), v13' = v13 \o new,
           \A k \in 1 .. Len(new) : new[k].call.tool \in Reads, NEW f
    PROVE  Turn!LastFailed(f)' <=> Turn!LastFailed(f)
<1> DEFINE n == Len(v13)
           m == Len(new)
<1>1. /\ n \in Nat /\ m \in Nat /\ DOMAIN v13 = 1 .. n /\ DOMAIN v13' = 1 .. n + m
      /\ \A k \in 1 .. n : v13'[k] = v13[k]
      /\ \A k \in n + 1 .. n + m : v13'[k] = new[k - n]
  OBVIOUS
<1> HIDE DEF n
<1>2. \A k \in n + 1 .. n + m : v13'[k].call.tool \notin Mutators
  <2> SUFFICES ASSUME NEW k \in n + 1 .. n + m PROVE v13'[k].call.tool \notin Mutators
    OBVIOUS
  <2>1. k - n \in 1 .. m
    BY <1>1
  <2> QED
    BY <1>1, <2>1, TurnAssumption
<1>3. Turn!Writes(f)' = Turn!Writes(f)
  BY <1>1, <1>2 DEF Turn!Writes
<1>4. \A k \in Turn!Writes(f) : k \in 1 .. n
  BY <1>1 DEF Turn!Writes
<1> QED
  BY <1>1, <1>3, <1>4 DEF Turn!LastFailed

LEMMA FailuresInitially == Turn!TurnInit => Turn!FailuresInv
BY DEF Turn!TurnInit, Turn!FailuresInv, Turn!FailuresAreReported, Turn!Unmended, Turn!LastFailed, Turn!Writes

(* A recorded call keeps the files whose failure is not mended exact. *)
LEMMA RecordedIsExact ==
    ASSUME v13 \in Seq(Turn!Entries), v7 = Turn!Unmended, NEW c \in Calls \cup Turn!Wholes, c.path \in Turn!Paths \cup {NoPath},
           NEW res \in Turn!Outcomes, NEW by \in {"model", "recovery"}, v13' = Turn!Logged(c, res, by),
           v7' = Turn!Recorded(v7, c, res)
    PROVE  v7' = Turn!Unmended'
<1> DEFINE d == [call |-> c, res |-> res, by |-> by]
<1>1. d \in Turn!Entries /\ v13' = Append(v13, d) /\ d.call = c /\ d.res = res
  BY DEF Turn!Entries, Turn!Logged
<1> HIDE DEF d
<1>2. \A f \in Turn!Paths : Turn!LastFailed(f)' <=> IF c.tool \in Mutators /\ c.path = f THEN res # "ok" ELSE Turn!LastFailed(f)
  BY <1>1, OneMoreCall
<1>3. Turn!Unmended' = {f \in Turn!Paths : IF c.tool \in Mutators /\ c.path = f THEN res # "ok" ELSE Turn!LastFailed(f)}
  BY <1>2 DEF Turn!Unmended
<1>4. NoPath \notin Turn!Paths
  BY DEF Turn!Paths
<1> HIDE DEF Turn!Paths
<1> QED
  BY <1>3, <1>4 DEF Turn!Unmended, Turn!Recorded

(* What a footer names. *)
LEMMA FootersName ==
    ASSUME NEW files, NEW named \in Turn!Footers(files)
    PROVE  named \subseteq files /\ (Verifier => named = files \/ Turn!Cardinality(named) = MaxNamed)
BY DEF Turn!Footers

LEMMA FailuresAreKept == Turn!BatchInv /\ Turn!FailuresInv /\ [Turn!TurnNext]_(Turn!turnVars) => Turn!FailuresInv'
<1> SUFFICES ASSUME Turn!BatchInv, Turn!FailuresInv, [Turn!TurnNext]_(Turn!turnVars) PROVE Turn!FailuresInv'
  OBVIOUS
<1> DEFINE told == v11 \in {"answer", "rounds", "budget", "failures"}
<1>0. v13 \in Seq(Turn!Entries) /\ v7 = Turn!Unmended
  BY DEF Turn!BatchInv, Turn!FailuresInv
<1>a. ASSUME v13' = v13, v7' = v7 PROVE v7' = Turn!Unmended'
  BY <1>0, <1>a DEF Turn!Unmended, Turn!LastFailed, Turn!Writes
<1> DEFINE Names(named, files) == named \subseteq files /\ (Verifier => named = files \/ Turn!Cardinality(named) = MaxNamed)
<1>b. ASSUME v7' = Turn!Unmended', v1' = "ended" /\ told' => Names(v12', v7') PROVE Turn!FailuresInv'
  BY <1>b DEF Turn!FailuresInv, Turn!FailuresAreReported
<1>c. \A named, files : named \in Turn!Footers(files) => Names(named, files)
  BY FootersName
<1> HIDE DEF Names
<1>1. CASE Turn!AskModel \/ Turn!RoundLimit \/ Turn!BudgetStop \/ Turn!ProviderError \/ Turn!Answer \/ Turn!Garble
              \/ Turn!ReplyWithCalls \/ Turn!Check \/ Turn!ToolRaises \/ Turn!Interrupt
  <2>1. /\ v13' = v13 /\ v7' = v7
        /\ v1' = "ended" /\ told' => Names(v12', v7')
    BY <1>1, <1>c DEF Turn!AskModel, Turn!RoundLimit, Turn!BudgetStop, Turn!ProviderError, Turn!Answer, Turn!Garble, Turn!ReplyWithCalls, Turn!Check,
                Turn!ToolRaises, Turn!Interrupt, Turn!Finish, Turn!Stop
  <2> QED
    BY <1>a, <1>b, <2>1
<1>2. CASE Turn!RunOne
  <2>1. PICK res \in Turn!Results(Turn!Current) : /\ v13' = Turn!Logged(Turn!Current, res, "model")
                                        /\ v7' = Turn!Recorded(v7, Turn!Current, res)
                                        /\ v1' # "ended"
    BY <1>2 DEF Turn!RunOne, Turn!Took
  <2>2. Turn!Current \in Calls /\ res \in Turn!Outcomes
    BY <1>2, CurrentIsACall, ResultsAreOutcomes DEF Turn!RunOne, Turn!Working
  <2>3. Turn!Current.path \in Turn!Paths \cup {NoPath}
    BY <2>2 DEF Turn!Paths
  <2>4. v7' = Turn!Unmended'
    BY <1>0, <2>1, <2>2, <2>3, RecordedIsExact
  <2> QED
    BY <1>b, <2>1, <2>4
<1>3. CASE Turn!FetchSegment
  <2>1. PICK new \in Seq(Turn!Entries) : v13' = v13 \o new /\ \A k \in 1 .. Len(new) : new[k].call.tool \in Reads
    BY <1>3, FetchAdds
  <2>2. \A f \in Turn!Paths : Turn!LastFailed(f)' <=> Turn!LastFailed(f)
    BY <1>0, <2>1, MoreReads
  <2>3. Turn!Unmended' = Turn!Unmended
    BY <2>2 DEF Turn!Unmended
  <2>4. v7' = v7 /\ v1' = "run"
    BY <1>3 DEF Turn!FetchSegment
  <2> QED
    BY <1>0, <1>b, <2>3, <2>4
<1>4. CASE Turn!TakeFetched
  <2>1. /\ v13' = v13 /\ v7' = Turn!Recorded(v7, Turn!Current, v9[v8.at]) /\ v1' # "ended"
        /\ v8.at \in DOMAIN v9 /\ v1 = "run"
    BY <1>4 DEF Turn!TakeFetched, Turn!Took
  <2>2. Turn!Current.tool \notin Mutators
    BY <2>1, TurnAssumption DEF Turn!BatchInv, Turn!Working, Turn!Current
  <2>3. v7' = v7
    BY <2>1, <2>2 DEF Turn!Recorded
  <2> QED
    BY <1>a, <1>b, <2>1, <2>3
<1>5. CASE Turn!Judge
  <2>1. /\ v13' = v13 /\ v7' = v7
        /\ v1' = "ended" /\ told' => Names(v12', v7')
    BY <1>5, <1>c DEF Turn!Judge, Turn!Advance, Turn!Finish, Turn!Stop
  <2> QED
    BY <1>a, <1>b, <2>1
<1>6. CASE Turn!Recover
  <2>1. CASE v13' = v13 /\ v7' = v7 /\ Turn!NotRecovered
    BY <1>a, <1>b, <1>c, <2>1 DEF Turn!NotRecovered
  <2>2. CASE \E res \in Turn!Results(Turn!Completed) :
                /\ v13' = Turn!Logged(Turn!Completed, res, "recovery")
                /\ v7' = Turn!Recorded(v7, Turn!Completed, res)
                /\ IF res = "ok" THEN Turn!Stop("recovered") ELSE Turn!NotRecovered
    <3>1. PICK res \in Turn!Results(Turn!Completed) :
                /\ v13' = Turn!Logged(Turn!Completed, res, "recovery")
                /\ v7' = Turn!Recorded(v7, Turn!Completed, res)
                /\ IF res = "ok" THEN Turn!Stop("recovered") ELSE Turn!NotRecovered
      BY <2>2
    <3>2. v1 \in Turn!Working
      BY <1>6 DEF Turn!Recover, Turn!Working
    <3>3. Turn!Current \in Calls /\ res \in Turn!Outcomes /\ Turn!Completed \in Turn!Wholes /\ Turn!Completed.path = Turn!Current.path
      BY <3>2, CurrentIsACall, ResultsAreOutcomes
    <3>4. Turn!Completed.path \in Turn!Paths \cup {NoPath}
      BY <3>3 DEF Turn!Paths
    <3>5. v7' = Turn!Unmended'
      BY <1>0, <3>1, <3>3, <3>4, RecordedIsExact
    <3>6. v1' = "ended" /\ told' => Names(v12', v7')
      BY <3>1, <1>c DEF Turn!Stop, Turn!NotRecovered
    <3> QED
      BY <1>b, <3>5, <3>6
  <2> QED
    BY <1>6, <2>1, <2>2 DEF Turn!Recover
<1>7. CASE UNCHANGED Turn!turnVars
  <2>1. /\ v13' = v13 /\ v7' = v7
        /\ v1' = "ended" /\ told' => Names(v12', v7')
    BY <1>7 DEF Turn!turnVars, Turn!FailuresInv, Turn!FailuresAreReported, Names
  <2> QED
    BY <1>a, <1>b, <2>1
<1> QED
  BY <1>1, <1>2, <1>3, <1>4, <1>5, <1>6, <1>7 DEF Turn!TurnNext, Turn!TurnStep

(* Whatever the model asks for, in whatever batches, and whichever of its   *)
(* reads run side by side: after the user denied a call the model made,     *)
(* nothing but reads that were started with it runs in the turn.  It says   *)
(* nothing of a denied recovery write (tool_loop.py:787), which goes on.     *)
THEOREM DenialsAreHeeded == Spec => []HeedsDenial
<1> DEFINE Inv == scene = "turn" => Turn!BatchInv /\ Turn!DenialInv /\ Turn!HeedsDenial
<1>1. Init => Inv
  BY BatchInitially, DenialInitially DEF Init
<1>2. Inv /\ [Next]_vars => Inv'
  BY SceneStep, BatchIsKept, DenialIsKept
<1>3. Inv => HeedsDenial
  BY DEF HeedsDenial
<1> QED
  BY <1>1, <1>2, <1>3, PTL DEF Spec

(* For every set of calls and every limit: the answer of a turn names only  *)
(* files whose last write failed, and all of them, or as many as the        *)
(* footer has room for (_finalize_turn_response).                           *)
THEOREM ReportsAreExact == Spec => []FailuresAreReported
<1> DEFINE Inv == scene = "turn" => Turn!BatchInv /\ Turn!FailuresInv
<1>1. Init => Inv
  BY BatchInitially, FailuresInitially DEF Init
<1>2. Inv /\ [Next]_vars => Inv'
  BY SceneStep, BatchIsKept, FailuresAreKept
<1>3. Inv => FailuresAreReported
  BY DEF FailuresAreReported, Turn!FailuresInv
<1> QED
  BY <1>1, <1>2, <1>3, PTL DEF Spec

-----------------------------------------------------------------------------
(* The context (SessionContext).                                            *)

LEMMA LastOfRecent ==
    ASSUME NEW conv \in Seq(Nat), NEW m \in Nat, NEW n \in Nat,
           Context!Recent(conv, m)
    PROVE  /\ Context!Last(conv, n) \in Seq(Nat) /\ Context!Recent(Context!Last(conv, n), m)
           /\ Len(Context!Last(conv, n)) = IF n = 0 \/ n >= Len(conv) THEN Len(conv) ELSE n
<1>1. CASE n = 0 \/ n >= Len(conv)
  BY <1>1 DEF Context!Last
<1>2. CASE ~(n = 0 \/ n >= Len(conv))
  <2> DEFINE lo == Len(conv) - n + 1
  <2>1. Context!Last(conv, n) = SubSeq(conv, lo, Len(conv))
    BY <1>2 DEF Context!Last
  <2>2. lo \in Int /\ Len(conv) \in Int /\ lo <= Len(conv) /\ \A i \in lo .. Len(conv) : conv[i] \in Nat
    BY <1>2
  <2>3. /\ SubSeq(conv, lo, Len(conv)) \in Seq(Nat)
        /\ Len(SubSeq(conv, lo, Len(conv))) = n
        /\ \A i \in 1 .. n : SubSeq(conv, lo, Len(conv))[i] = conv[lo + i - 1]
    BY <2>2, SubSeqProperties
  <2>4. \A i \in 1 .. n : conv[lo + i - 1] = m - n + i
    BY <1>2 DEF Context!Recent
  <2> QED
    BY <1>2, <2>1, <2>3, <2>4 DEF Context!Recent
<1> QED
  BY <1>1, <1>2

LEMMA AppendIsRecent ==
    ASSUME NEW conv \in Seq(Nat), NEW m \in Nat, Context!Recent(conv, m), Context!AtLeastKept(conv, m)
    PROVE  /\ Append(conv, m + 1) \in Seq(Nat) /\ Context!Recent(Append(conv, m + 1), m + 1)
           /\ Context!AtLeastKept(Append(conv, m + 1), m + 1)
           /\ SubSeq(Append(conv, m + 1), 1, Len(Append(conv, m + 1)) - 1) = conv
<1>1. /\ Append(conv, m + 1) \in Seq(Nat) /\ Len(Append(conv, m + 1)) = Len(conv) + 1
      /\ \A i \in 1 .. Len(conv) : Append(conv, m + 1)[i] = conv[i]
      /\ Append(conv, m + 1)[Len(conv) + 1] = m + 1
  BY AppendProperties
<1>2. Context!Recent(Append(conv, m + 1), m + 1)
  BY <1>1 DEF Context!Recent
<1>3. Context!AtLeastKept(Append(conv, m + 1), m + 1)
  BY <1>1, ContextAssumption DEF Context!AtLeastKept
<1>4. SubSeq(Append(conv, m + 1), 1, Len(Append(conv, m + 1)) - 1) = conv
  BY <1>1
<1> QED
  BY <1>1, <1>2, <1>3, <1>4

LEMMA ContextInitially == Context!ContextInit => Context!ContextInv
BY ContextAssumption DEF Context!ContextInit, Context!ContextInv, Context!Recent, Context!AtLeastKept

LEMMA ContextIsKept == Context!ContextInv /\ [Context!ContextNext]_(Context!contextVars) => Context!ContextInv'
<1> SUFFICES ASSUME Context!ContextInv, [Context!ContextNext]_(Context!contextVars) PROVE Context!ContextInv'
  OBVIOUS
<1>1. CASE Context!StartTurn
  <2>1. /\ v3' = v3 + 1 /\ v4' = Append(v4, v3 + 1)
        /\ v1' = "turn" /\ v6'.shown = Context!Shown(v4')
    BY <1>1 DEF Context!StartTurn
  <2>2. /\ v4' \in Seq(Nat) /\ Context!Recent(v4', v3') /\ Context!AtLeastKept(v4', v3')
        /\ SubSeq(v4', 1, Len(v4') - 1) = v4
    BY <2>1, AppendIsRecent DEF Context!ContextInv
  <2>3. \/ Context!Shown(v4') = v4
        \/ Keep > 0 /\ Context!Shown(v4') = Context!Last(v4, Keep)
        \/ Keep = 0 /\ Context!Shown(v4') = <<>>
    <3>1. SubSeq(v4', 1, Len(v4') - 1) = v4
      BY <2>2
    <3>2. Context!Shown(v4') =
            IF v5 = <<>> THEN v4
            ELSE IF Keep > 0 THEN Context!Last(v4, Keep) ELSE <<>>
      BY <3>1, Zenon DEF Context!Shown
    <3> QED
      BY <3>2, ContextAssumption
  <2>4. /\ Context!Shown(v4') \in Seq(Nat) /\ Context!Recent(Context!Shown(v4'), v3)
        /\ Context!AtLeastKept(Context!Shown(v4'), v3)
    <3>1. CASE Context!Shown(v4') = v4
      BY <3>1 DEF Context!ContextInv
    <3>2. CASE Keep > 0 /\ Context!Shown(v4') = Context!Last(v4, Keep)
      BY <3>2, LastOfRecent, ContextAssumption DEF Context!ContextInv, Context!AtLeastKept
    <3>3. CASE Keep = 0 /\ Context!Shown(v4') = <<>>
      BY <3>3 DEF Context!ContextInv, Context!AtLeastKept, Context!Recent
    <3> QED
      BY <2>3, <3>1, <3>2, <3>3
  <2> QED
    BY <2>1, <2>2, <2>4 DEF Context!ContextInv
<1>2. CASE Context!Reply
  <2>1. /\ v3' = v3 + 1 /\ v4' = Append(v4, v3 + 1)
        /\ v1' = "replied" /\ v6' = v6
    BY <1>2 DEF Context!Reply
  <2>2. v4' \in Seq(Nat) /\ Context!Recent(v4', v3') /\ Context!AtLeastKept(v4', v3')
    BY <2>1, AppendIsRecent DEF Context!ContextInv
  <2> QED
    BY <2>1, <2>2 DEF Context!ContextInv
<1>3. CASE Context!CloseTurn
  <2>1. v1' = "idle" /\ v3' = v3 /\ v6' = v6 /\ \E heavy \in BOOLEAN : Context!Compacted(heavy)
    BY <1>3 DEF Context!CloseTurn
  <2>2. \/ v4' = v4
        \/ Len(v4) > Keep + 2 /\ v4' = Context!Last(v4, Keep)
    BY <2>1, ContextAssumption DEF Context!Compacted, Context!ContextInv
  <2>3. v4' \in Seq(Nat) /\ Context!Recent(v4', v3) /\ Context!AtLeastKept(v4', v3)
    BY <2>2, LastOfRecent, ContextAssumption DEF Context!ContextInv, Context!AtLeastKept
  <2> QED
    BY <2>1, <2>3 DEF Context!ContextInv
<1>4. CASE Context!InterruptTurn \/ Context!EndSession \/ Context!OnEndHook \/ Context!Shutdown
  <2>1. /\ v1' \in {"idle", "ending", "raised", "over"}
        /\ UNCHANGED <<v3, v4, v6>>
    BY <1>4 DEF Context!InterruptTurn, Context!EndSession, Context!OnEndHook, Context!Shutdown
  <2> QED
    BY <2>1 DEF Context!ContextInv
<1>5. CASE UNCHANGED Context!contextVars
  BY <1>5 DEF Context!contextVars, Context!ContextInv
<1> QED
  BY <1>1, <1>2, <1>3, <1>4, <1>5 DEF Context!ContextNext

LEMMA ContextShows == Context!ContextInv => Context!RecentIsShown
<1> SUFFICES ASSUME Context!ContextInv, v1 = "turn" PROVE Context!RecentIsShown
  BY DEF Context!RecentIsShown
<1> DEFINE n == IF v3 - 1 < Keep THEN v3 - 1 ELSE Keep
<1>1. Len(v6.shown) >= n
  BY DEF Context!ContextInv, Context!AtLeastKept
<1>2. ASSUME NEW k \in 1 .. Len(v6.shown)
      PROVE  v6.shown[Len(v6.shown) + 1 - k] = v3 - k
  <2>1. Len(v6.shown) + 1 - k \in 1 .. Len(v6.shown)
    BY DEF Context!ContextInv
  <2>2. \A j \in 1 .. Len(v6.shown) : v6.shown[j] = v3 - 1 - Len(v6.shown) + j
    BY DEF Context!ContextInv, Context!Recent
  <2>3. Len(v6.shown) \in Nat /\ v3 \in Nat
    BY DEF Context!ContextInv
  <2>4. \A l, m, i \in Int : m - 1 - l + (l + 1 - i) = m - i
    OBVIOUS
  <2>5. v6.shown[Len(v6.shown) + 1 - k] = v3 - 1 - Len(v6.shown) + (Len(v6.shown) + 1 - k)
    BY <2>1, <2>2, Zenon
  <2> QED
    BY <2>3, <2>4, <2>5
<1> QED
  BY <1>1, <1>2 DEF Context!RecentIsShown

(* However long the session and whenever it compacts: a prompt shows the    *)
(* most recent messages, at least Keep of them, without a gap.              *)
THEOREM NothingRecentIsLost == Spec => []RecentIsShown
<1> DEFINE Inv == scene = "context" => Context!ContextInv
<1>1. Init => Inv
  BY ContextInitially DEF Init
<1>2. Inv /\ [Next]_vars => Inv'
  BY SceneStep, ContextIsKept
<1>3. Inv => RecentIsShown
  BY ContextShows DEF RecentIsShown
<1> QED
  BY <1>1, <1>2, <1>3, PTL DEF Spec

-----------------------------------------------------------------------------
(* The spending (SpendLimits).                                              *)

LEMMA SpendInitially == Spend!SpendInit => Spend!SpendInv
BY SpendAssumption DEF Spend!SpendInit, Spend!SpendInv, Spend!OwnSpendIsBounded, Spend!NoCache

LEMMA SpendIsKept == Spend!SpendInv /\ [Spend!SpendNext]_(Spend!spendVars) => Spend!SpendInv'
<1> SUFFICES ASSUME Spend!SpendInv, [Spend!SpendNext]_(Spend!spendVars) PROVE Spend!SpendInv'
  OBVIOUS
<1>1. ASSUME NEW s \in Spenders, Spend!Check(s)
      PROVE  Spend!SpendInv'
  <2> DEFINE Within(r) == /\ SessionLimit[r] > 0 => v1[r] < SessionLimit[r]
                          /\ DailyLimit > 0 => v1[r] < DailyLimit
  <2>1. Spend!Daily(s) \in Nat /\ Spend!Daily(s) >= v1[s]
    BY DEF Spend!SpendInv, Spend!Daily, Spend!NoCache
  <2>2. v3' \in [Spenders -> Nat \cup {Spend!NoCache}]
        /\ \A r \in Spenders : v3'[r] # Spend!NoCache => v1[r] <= v3'[r]
    BY <1>1, <2>1 DEF Spend!Check, Spend!SpendInv, Spend!NoCache
  <2>3. Spend!Verdict(s) \in {"ok", "session", "daily"}
    BY DEF Spend!Verdict
  <2>4. Spend!Verdict(s) = "ok" => Within(s)
    BY <2>1, SpendAssumption DEF Spend!Verdict, Spend!SpendInv
  <2>5. v1' = v1 /\ v2' = v2 /\ v5' = v5 /\ v4' = [v4 EXCEPT ![s] = Spend!Verdict(s)]
    BY <1>1 DEF Spend!Check
  <2>6. v4' \in [Spenders -> {"none", "ok", "session", "daily"}]
        /\ \A r \in Spenders : v4'[r] = IF r = s THEN Spend!Verdict(s) ELSE v4[r]
    BY <2>3, <2>5 DEF Spend!SpendInv
  <2>7. \A r \in Spenders : v4[r] = "ok" => Within(r)
    BY DEF Spend!SpendInv
  <2>8. \A r \in Spenders : v4'[r] = "ok" => Within(r)
    <3> HIDE DEF Within
    <3> QED
      BY <2>4, <2>6, <2>7
  <2> QED
    BY <2>2, <2>5, <2>6, <2>8 DEF Spend!SpendInv, Spend!OwnSpendIsBounded
<1>2. ASSUME NEW s \in Spenders, Spend!ModelCall(s)
      PROVE  Spend!SpendInv'
  <2>1. PICK cost \in Costs :
           /\ v4[s] = "ok" /\ v2' = v2 + cost
           /\ v1' = [v1 EXCEPT ![s] = @ + cost]
           /\ v3' = [v3 EXCEPT ![s] = Spend!NoCache]
           /\ v4' = [v4 EXCEPT ![s] = "none"]
           /\ v5' = [v5 EXCEPT ![s] = cost]
    BY <1>2 DEF Spend!ModelCall
  <2>2. /\ cost \in Nat
        /\ SessionLimit[s] > 0 => v1[s] < SessionLimit[s]
        /\ DailyLimit > 0 => v1[s] < DailyLimit
    BY <2>1, SpendAssumption DEF Spend!SpendInv
  <2> QED
    BY <2>1, <2>2, SpendAssumption DEF Spend!SpendInv, Spend!OwnSpendIsBounded, Spend!NoCache
<1>3. ASSUME NEW s \in Spenders, Spend!CallFails(s)
      PROVE  Spend!SpendInv'
  BY <1>3 DEF Spend!CallFails, Spend!SpendInv, Spend!OwnSpendIsBounded
<1>4. ASSUME NEW s \in Spenders, Spend!CacheExpires(s)
      PROVE  Spend!SpendInv'
  BY <1>4 DEF Spend!CacheExpires, Spend!SpendInv, Spend!OwnSpendIsBounded, Spend!NoCache
<1>5. CASE UNCHANGED Spend!spendVars
  BY <1>5 DEF Spend!spendVars, Spend!SpendInv, Spend!OwnSpendIsBounded
<1> QED
  BY <1>1, <1>2, <1>3, <1>4, <1>5 DEF Spend!SpendNext

(* For any number of sessions, any limits and any costs: a session that is  *)
(* past its limit, or past the daily one by itself, got there by its last   *)
(* call, made when it was below (SpendTracker.check and record).            *)
THEOREM LimitsAreKept == Spec => []OwnSpendIsBounded
<1> DEFINE Inv == scene = "spend" => Spend!SpendInv
<1>1. Init => Inv
  BY SpendInitially DEF Init
<1>2. Inv /\ [Next]_vars => Inv'
  BY SceneStep, SpendIsKept
<1>3. Inv => OwnSpendIsBounded
  BY DEF OwnSpendIsBounded, Spend!SpendInv
<1> QED
  BY <1>1, <1>2, <1>3, PTL DEF Spec

-----------------------------------------------------------------------------
(* The sub-agents (Subagents).                                              *)

(* The assumption, in the words of the instance.                            *)
LEMMA SubTasksAreFinite == Agents!IsFiniteSet(SubTasks) /\ MaxSubagents \in Nat
  BY AgentsAssumption DEF IsFiniteSet, Agents!IsFiniteSet

(* One more sub-agent is unfinished when the runner keeps one more task.    *)
LEMMA OneMore ==
    ASSUME NEW S, Agents!IsFiniteSet(S), NEW t, Agents!Cardinality(S) < MaxSubagents, MaxSubagents \in Nat
    PROVE  Agents!IsFiniteSet(S \cup {t}) /\ Agents!Cardinality(S \cup {t}) <= MaxSubagents
<1>1. Agents!Cardinality(S) \in Nat
  BY Agents!FS_CardinalityType
<1>2. Agents!IsFiniteSet(S \cup {t}) /\ Agents!Cardinality(S \cup {t}) \in {Agents!Cardinality(S), Agents!Cardinality(S) + 1}
  BY Agents!FS_AddElement
<1> QED
  BY <1>1, <1>2

(* A task that is finished only frees its slot.                             *)
LEMMA NoMore ==
    ASSUME NEW S, Agents!IsFiniteSet(S), NEW T \in SUBSET S, Agents!Cardinality(S) <= MaxSubagents,
           MaxSubagents \in Nat
    PROVE  Agents!Cardinality(T) <= MaxSubagents
<1>1. Agents!Cardinality(T) \in Nat /\ Agents!Cardinality(S) \in Nat /\ Agents!Cardinality(T) <= Agents!Cardinality(S)
  BY Agents!FS_Subset, Agents!FS_CardinalityType
<1> QED
  BY <1>1

LEMMA CapInitially == Agents!SubInit => Agents!CapInv
<1> SUFFICES ASSUME Agents!SubInit PROVE Agents!CapInv
  OBVIOUS
<1>1. Agents!Unfinished = {}
  BY DEF Agents!SubInit, Agents!Unfinished
<1>2. Agents!Cardinality(Agents!Unfinished) <= MaxSubagents
  BY <1>1, Agents!FS_EmptySet, SubTasksAreFinite
<1> QED
  BY <1>2 DEF Agents!SubInit, Agents!CapInv, Agents!Works

LEMMA CapIsKept == Agents!CapInv /\ [Agents!SubNext]_(Agents!subVars) => Agents!CapInv'
<1> SUFFICES ASSUME Agents!CapInv, [Agents!SubNext]_(Agents!subVars) PROVE Agents!CapInv'
  OBVIOUS
<1> USE SubTasksAreFinite DEF Agents!CapInv, Agents!Works
<1>0. Agents!IsFiniteSet(Agents!Unfinished)
  BY Agents!FS_Subset DEF Agents!Unfinished
<1>1. ASSUME NEW t \in SubTasks, Agents!Spawn(t)
      PROVE  Agents!CapInv'
  <2>1. CASE Agents!Cardinality(Agents!Unfinished) >= MaxSubagents
    <3>1. Agents!Unfinished' = Agents!Unfinished
      BY <1>1, <2>1 DEF Agents!Spawn, Agents!Unfinished
    <3> QED
      BY <1>1, <2>1, <3>1 DEF Agents!Spawn
  <2>2. CASE ~(Agents!Cardinality(Agents!Unfinished) >= MaxSubagents)
    <3>1. Agents!Cardinality(Agents!Unfinished) < MaxSubagents
      BY <1>0, <2>2, Agents!FS_CardinalityType
    <3>2. Agents!IsFiniteSet(Agents!Unfinished \cup {t}) /\ Agents!Cardinality(Agents!Unfinished \cup {t}) <= MaxSubagents
      BY <1>0, <3>1, OneMore
    <3>3. Agents!Unfinished' \subseteq Agents!Unfinished \cup {t}
      BY <1>1, <2>2 DEF Agents!Spawn, Agents!Unfinished
    <3>4. Agents!Cardinality(Agents!Unfinished') <= MaxSubagents
      BY <3>2, <3>3, NoMore
    <3>5. \A u \in SubTasks : Agents!Works(u)' => u \in Agents!Unfinished'
      BY <1>1, <2>2 DEF Agents!Spawn, Agents!Unfinished
    <3> QED
      BY <1>1, <2>2, <3>4, <3>5 DEF Agents!Spawn
  <2> QED
    BY <2>1, <2>2
<1>2. ASSUME NEW t \in SubTasks, Agents!ChatEnds(t) \/ Agents!SessionEnds(t) \/ Agents!Cancelled(t) \/ Agents!CancelRow(t)
      PROVE  Agents!CapInv'
  <2>1. Agents!Unfinished' = Agents!Unfinished
    BY <1>2 DEF Agents!ChatEnds, Agents!SessionEnds, Agents!Cancelled, Agents!CancelRow, Agents!Unfinished
  <2> QED
    BY <1>2, <2>1 DEF Agents!ChatEnds, Agents!SessionEnds, Agents!Cancelled, Agents!CancelRow
<1>3. ASSUME NEW t \in SubTasks, Agents!Complete(t) \/ Agents!Fail(t)
      PROVE  Agents!CapInv'
  <2>1. Agents!Unfinished' \in SUBSET Agents!Unfinished
    BY <1>3 DEF Agents!Complete, Agents!Fail, Agents!Unfinished
  <2>2. Agents!Cardinality(Agents!Unfinished') <= MaxSubagents
    BY <1>0, <2>1, NoMore
  <2>3. \A u \in SubTasks : Agents!Works(u)' => u \in Agents!Unfinished'
    BY <1>3 DEF Agents!Complete, Agents!Fail, Agents!Unfinished
  <2> QED
    BY <1>3, <2>2, <2>3 DEF Agents!Complete, Agents!Fail
<1>4. ASSUME UNCHANGED Agents!subVars
      PROVE  Agents!CapInv'
  BY <1>4 DEF Agents!subVars, Agents!Unfinished
<1> QED
  BY <1>1, <1>2, <1>3, <1>4 DEF Agents!SubNext

LEMMA CapShows == Agents!CapInv => Agents!CapHolds
<1> SUFFICES ASSUME Agents!CapInv PROVE Agents!CapHolds
  OBVIOUS
<1>1. Agents!IsFiniteSet(Agents!Unfinished)
  BY SubTasksAreFinite, Agents!FS_Subset DEF Agents!Unfinished, Agents!CapInv
<1>2. {t \in SubTasks : Agents!Works(t)} \in SUBSET Agents!Unfinished
  BY DEF Agents!CapInv
<1> QED
  BY <1>1, <1>2, NoMore, SubTasksAreFinite DEF Agents!CapInv, Agents!CapHolds

LEMMA RowInitially == Agents!SubInit => Agents!RowInv
BY DEF Agents!SubInit, Agents!RowInv

LEMMA RowIsKept == Agents!RowInv /\ [Agents!SubNext]_(Agents!subVars) => Agents!RowInv'
<1> SUFFICES ASSUME Agents!RowInv, [Agents!SubNext]_(Agents!subVars) PROVE Agents!RowInv'
  OBVIOUS
<1>1. ASSUME NEW t \in SubTasks, Agents!Spawn(t)
      PROVE  Agents!RowInv'
  <2>1. t \notin v2 /\ v4[t] # "completed"
    BY <1>1 DEF Agents!Spawn, Agents!RowInv
  <2>2. CASE v2' = v2 \cup {t} /\ v3' = v3 \cup {t}
             /\ v1' = [v1 EXCEPT ![t] = "refused"] /\ v4' = v4
    BY <2>1, <2>2 DEF Agents!RowInv
  <2>3. CASE v2' = v2 /\ v3' = v3
             /\ v1' = [v1 EXCEPT ![t] = "chat"] /\ v4' = [v4 EXCEPT ![t] = "running"]
    BY <2>1, <2>3 DEF Agents!RowInv
  <2> QED
    BY <1>1, <2>2, <2>3 DEF Agents!Spawn
<1>2. ASSUME NEW t \in SubTasks, Agents!ChatEnds(t) \/ Agents!SessionEnds(t) \/ Agents!Cancelled(t)
      PROVE  Agents!RowInv'
  <2>1. t \notin v2 /\ v2' = v2 /\ v3' = v3 /\ v4' = v4
    BY <1>2 DEF Agents!ChatEnds, Agents!SessionEnds, Agents!Cancelled, Agents!RowInv
  <2>2. PICK to \in {"ending", "closing", "failing", "lost"} : v1' = [v1 EXCEPT ![t] = to]
    BY <1>2 DEF Agents!ChatEnds, Agents!SessionEnds, Agents!Cancelled
  <2> QED
    BY <2>1, <2>2 DEF Agents!RowInv
<1>3. ASSUME NEW t \in SubTasks, Agents!Complete(t)
      PROVE  Agents!RowInv'
  <2>1. t \notin v2 /\ v4[t] # "completed" /\ t \notin v3
    BY <1>3 DEF Agents!Complete, Agents!RowInv
  <2>2. CASE v2' = v2 \cup {t} /\ v3' = v3
             /\ v1' = [v1 EXCEPT ![t] = "over"] /\ v4' = [v4 EXCEPT ![t] = "completed"]
    BY <2>1, <2>2 DEF Agents!RowInv
  <2>3. CASE v2' = v2 /\ v3' = v3
             /\ v1' = [v1 EXCEPT ![t] = "failing"]
             /\ (v4' = v4 \/ v4' = [v4 EXCEPT ![t] = "validating"])
    BY <2>1, <2>3 DEF Agents!RowInv
  <2> QED
    BY <1>3, <2>2, <2>3 DEF Agents!Complete
<1>4. ASSUME NEW t \in SubTasks, Agents!Fail(t)
      PROVE  Agents!RowInv'
  <2>1. v4[t] # "completed" /\ v2' = v2 \cup {t} /\ v3' = v3 \cup {t}
        /\ v1' = [v1 EXCEPT ![t] = "over"]
    BY <1>4 DEF Agents!Fail, Agents!RowInv
  <2>2. v4' = v4 \/ v4' = [v4 EXCEPT ![t] = "failed"]
    BY <1>4 DEF Agents!Fail, Agents!RowInv
  <2> QED
    BY <2>1, <2>2 DEF Agents!RowInv
<1>5. ASSUME NEW t \in SubTasks, Agents!CancelRow(t)
      PROVE  Agents!RowInv'
  <2>1. ~Agents!CanMove("completed", "cancelled")
    BY DEF Agents!CanMove, Agents!Transitions
  <2>2. v4[t] # "completed" /\ v4' = [v4 EXCEPT ![t] = "cancelled"]
        /\ v2' = v2 /\ v3' = v3 /\ v1' = v1
    BY <1>5, <2>1 DEF Agents!CancelRow
  <2> QED
    BY <2>2 DEF Agents!RowInv
<1>6. ASSUME UNCHANGED Agents!subVars
      PROVE  Agents!RowInv'
  BY <1>6 DEF Agents!subVars, Agents!RowInv
<1> QED
  BY <1>1, <1>2, <1>3, <1>4, <1>5, <1>6 DEF Agents!SubNext

LEMMA RowShows == Agents!RowInv => Agents!RowTellsTheSame
BY DEF Agents!RowInv, Agents!RowTellsTheSame

(* For every finite set of tasks and every cap, no more than the cap work   *)
(* at a time (SubAgentRunner.spawn counts its unfinished tasks).            *)
THEOREM CapAlwaysHolds == Spec => []CapHolds
<1> DEFINE Inv == scene = "agents" => Agents!CapInv
<1>1. Init => Inv
  BY CapInitially DEF Init
<1>2. Inv /\ [Next]_vars => Inv'
  BY SceneStep, CapIsKept
<1>3. Inv => CapHolds
  BY CapShows DEF CapHolds
<1> QED
  BY <1>1, <1>2, <1>3, PTL DEF Spec

(* For every set of tasks: a finished sub-agent reports an error exactly    *)
(* when its ledger row is not completed (SessionTaskBridge.complete, fail). *)
THEOREM RowsTellTheSame == Spec => [](scene = "agents" => Agents!RowTellsTheSame)
<1> DEFINE Inv == scene = "agents" => Agents!RowInv
<1>1. Init => Inv
  BY RowInitially DEF Init
<1>2. Inv /\ [Next]_vars => Inv'
  BY SceneStep, RowIsKept
<1>3. Inv => (scene = "agents" => Agents!RowTellsTheSame)
  BY RowShows
<1> QED
  BY <1>1, <1>2, <1>3, PTL DEF Spec

-----------------------------------------------------------------------------
(* The goal (GoalRun).                                                      *)

LEMMA AllPassed ==
    ASSUME NEW rs \in SUBSET Goal!Outcomes, NEW W \in SUBSET Goal!Steps,
           \A x \in rs : x[2] /\ x[1] \in W, Goal!Cardinality(rs) = GoalSteps
    PROVE  W = Goal!Steps
<1> DEFINE step == [x \in rs |-> x[1]]
<1>1. Goal!IsFiniteSet(Goal!Steps) /\ Goal!Cardinality(Goal!Steps) = GoalSteps
  BY GoalAssumption, Goal!FS_Interval DEF Goal!Steps
<1>2. Goal!IsFiniteSet(W) /\ Goal!Cardinality(W) <= GoalSteps /\ (Goal!Cardinality(W) = GoalSteps => W = Goal!Steps)
  BY <1>1, Goal!FS_Subset
<1>3. step \in Goal!Injection(rs, W)
  <2>1. step \in [rs -> W]
    OBVIOUS
  <2>2. \A x, y \in rs : x[1] = y[1] => x = y
    BY DEF Goal!Outcomes
  <2> QED
    BY <2>1, <2>2 DEF Goal!Injection, Goal!IsInjective
<1>4. Goal!Cardinality(rs) <= Goal!Cardinality(W)
  BY <1>2, <1>3, Goal!FS_Injection
<1> QED
  BY <1>2, <1>4, Goal!FS_CardinalityType, GoalAssumption

LEMMA StartsInside ==
    ASSUME Goal!GoalInv, NEW retry \in 0..GoalSteps
    PROVE  Goal!StartIndex(retry) + 1 \in Goal!Steps
<1>1. Goal!IsFiniteSet(Goal!Passed(v1.results))
  <2>1. Goal!IsFiniteSet(Goal!Steps) /\ Goal!IsFiniteSet(BOOLEAN)
    <3>1. Goal!IsFiniteSet({TRUE} \cup {FALSE})
      BY Goal!FS_Singleton, Goal!FS_AddElement
    <3>2. BOOLEAN = {TRUE} \cup {FALSE}
      OBVIOUS
    <3>3. Goal!IsFiniteSet(BOOLEAN)
      BY <3>1, <3>2
    <3> QED
      BY <3>3, Goal!FS_Interval, GoalAssumption DEF Goal!Steps
  <2>2. Goal!IsFiniteSet(Goal!Outcomes)
    BY <2>1, Goal!FS_Product DEF Goal!Outcomes
  <2> QED
    BY <2>2, Goal!FS_Subset DEF Goal!GoalInv, Goal!Passed
<1>2. Goal!Cardinality(Goal!Passed(v1.results)) \in Nat
  BY <1>1, Goal!FS_CardinalityType
<1> QED
  BY <1>2, GoalAssumption DEF Goal!StartIndex, Goal!Steps

LEMMA GoalIsKept == Goal!GoalInv /\ [Goal!GoalNext]_(Goal!goalVars) => Goal!GoalInv'
<1> SUFFICES ASSUME Goal!GoalInv, [Goal!GoalNext]_(Goal!goalVars) PROVE Goal!GoalInv'
  OBVIOUS
<1>1. ASSUME NEW r \in GoalRuns, Goal!Begin(r)
      PROVE  Goal!GoalInv'
  <2>1. PICK retry \in 0..GoalSteps :
          /\ v4' = [v4 EXCEPT ![r] = Goal!StartIndex(retry) + 1]
          /\ v5' = [v5 EXCEPT ![r] =
                {x \in v1.results : x[1] <= Goal!StartIndex(retry)}]
    BY <1>1 DEF Goal!Begin
  <2>2. v4' \in [GoalRuns -> Goal!Steps]
    BY <2>1, StartsInside DEF Goal!GoalInv
  <2>3. v5' \in [GoalRuns -> SUBSET Goal!Outcomes]
    BY <2>1 DEF Goal!GoalInv
  <2>4. \A s \in GoalRuns : \A x \in Goal!Passed(v5'[s]) : x[1] \in v7
    BY <2>1 DEF Goal!GoalInv, Goal!Passed
  <2> QED
    BY <1>1, <2>2, <2>3, <2>4 DEF Goal!GoalInv, Goal!Begin, Goal!Passed
<1>2. ASSUME NEW r \in GoalRuns, Goal!RunStep(r)
      PROVE  Goal!GoalInv'
  <2>1. PICK answer \in {"summary", "nothing", "error"} :
          /\ v5' = [v5 EXCEPT ![r] = @ \cup {<<v4[r], answer # "error">>}]
          /\ v7' = IF answer = "error" THEN v7 ELSE v7 \cup {v4[r]}
          /\ IF answer = "summary" /\ v4[r] < GoalSteps
             THEN v4' = [v4 EXCEPT ![r] = @ + 1] /\ UNCHANGED <<v3, v6>>
             ELSE /\ v3' = [v3 EXCEPT ![r] = "wind"]
                  /\ v6' = [v6 EXCEPT ![r] = answer = "summary"]
                  /\ UNCHANGED v4
    BY <1>2 DEF Goal!RunStep
  <2>2. v4[r] \in Goal!Steps /\ v1' = v1
    BY <1>2 DEF Goal!GoalInv, Goal!RunStep
  <2>3. v4' \in [GoalRuns -> Goal!Steps]
    BY <2>1, <2>2, GoalAssumption DEF Goal!GoalInv, Goal!Steps
  <2>4. v7 \subseteq v7' /\ v7' \subseteq Goal!Steps
    BY <2>1, <2>2 DEF Goal!GoalInv
  <2>5. PICK ok \in BOOLEAN : /\ v5' = [v5 EXCEPT ![r] = @ \cup {<<v4[r], ok>>}]
                              /\ ok => v4[r] \in v7'
    BY <2>1
  <2>6. <<v4[r], ok>> \in Goal!Outcomes
    BY <2>2 DEF Goal!Outcomes
  <2>8. v5' \in [GoalRuns -> SUBSET Goal!Outcomes]
    BY <2>5, <2>6 DEF Goal!GoalInv
  <2>9. ASSUME NEW s \in GoalRuns, NEW x \in Goal!Passed(v5'[s])
        PROVE  x[1] \in v7'
    <3>1. x \in v5[s] \/ x = <<v4[r], ok>>
      BY <2>5 DEF Goal!GoalInv, Goal!Passed
    <3> QED
      BY <2>4, <2>5, <2>9, <3>1 DEF Goal!GoalInv, Goal!Passed
  <2>7. v3' \in [GoalRuns -> {"idle", "steps", "wind", "write", "over"}]
    BY <2>1 DEF Goal!GoalInv
  <2> QED
    BY <2>2, <2>3, <2>4, <2>7, <2>8, <2>9 DEF Goal!GoalInv
<1>3. ASSUME NEW r \in GoalRuns, Goal!Settles(r)
      PROVE  Goal!GoalInv'
  <2>1. /\ v1' = [status |-> Goal!Verdict(r), results |-> v5[r]]
        /\ v3' = [v3 EXCEPT ![r] = "over"] /\ UNCHANGED <<v4, v5, v7>>
    BY <1>3 DEF Goal!Settles
  <2>2. Goal!Verdict(r) = "completed" => v7 = Goal!Steps
    BY AllPassed DEF Goal!Verdict, Goal!GoalInv, Goal!Passed
  <2> QED
    BY <2>1, <2>2 DEF Goal!GoalInv, Goal!Verdict, Goal!Passed
<1>4. ASSUME NEW r \in GoalRuns, Goal!GraphStops(r) \/ Goal!GraphEnds(r) \/ Goal!Crash(r)
      PROVE  Goal!GoalInv'
  <2>1. PICK to \in {"wind", "write", "over"} : v3' = [v3 EXCEPT ![r] = to]
    BY <1>4 DEF Goal!GraphStops, Goal!GraphEnds, Goal!Crash
  <2>2. UNCHANGED <<v1, v4, v5, v7>>
    BY <1>4 DEF Goal!GraphStops, Goal!GraphEnds, Goal!Crash
  <2> QED
    BY <2>1, <2>2 DEF Goal!GoalInv, Goal!Passed
<1>5. CASE Goal!CancelTask
  BY <1>5 DEF Goal!CancelTask, Goal!GoalInv, Goal!Passed
<1>6. CASE UNCHANGED Goal!goalVars
  BY <1>6 DEF Goal!goalVars, Goal!GoalInv, Goal!Passed
<1> QED
  BY <1>1, <1>2, <1>3, <1>4, <1>5, <1>6 DEF Goal!GoalNext

LEMMA GoalInitially == Goal!GoalInit => Goal!GoalInv
BY GoalAssumption DEF Goal!GoalInit, Goal!GoalInv, Goal!Passed, Goal!Steps

(* For plans of any length and any number of runs over one plan: a plan is  *)
(* completed only when every step's sub-agent once succeeded, whatever was  *)
(* retried, resumed, cancelled or run twice (goal.py).                      *)
THEOREM CompletionIsEarned == Spec => []CompletedMeansWorked
<1> DEFINE Inv == scene = "goal" => Goal!GoalInv
<1>1. Init => Inv
  BY GoalInitially DEF Init
<1>2. Inv /\ [Next]_vars => Inv'
  BY SceneStep, GoalIsKept
<1>3. Inv => CompletedMeansWorked
  BY DEF CompletedMeansWorked, Goal!GoalInv, Goal!CompletedMeansWorked
<1> QED
  BY <1>1, <1>2, <1>3, PTL DEF Spec

-----------------------------------------------------------------------------
(* The language server (LspClient).                                         *)

LEMMA ReplyInvInitially == Lsp!Init => Lsp!ReplyInv
  BY DEF Lsp!Init, Lsp!ReplyInv, Lsp!NoAsk

LEMMA AppendedIsLast ==
    ASSUME NEW S, NEW s \in Seq(S), NEW e \in S
    PROVE  /\ Append(s, e) \in Seq(S)
           /\ \A i \in DOMAIN Append(s, e) :
                 \/ Append(s, e)[i] = e
                 \/ i \in DOMAIN s /\ Append(s, e)[i] = s[i]
  OBVIOUS

LEMMA ReplyInvIsKept == Lsp!ReplyInv /\ [Lsp!Next]_(Lsp!lspVars) => Lsp!ReplyInv'
<1> SUFFICES ASSUME Lsp!ReplyInv, [Lsp!Next]_(Lsp!lspVars) PROVE Lsp!ReplyInv'
  OBVIOUS
<1> USE DEF Lsp!ReplyInv
<1>1. CASE UNCHANGED Lsp!lspVars
  BY <1>1 DEF Lsp!lspVars
<1>2. CASE Lsp!Request
  BY <1>2 DEF Lsp!Request, Lsp!NewId, Lsp!Requests
<1>3. CASE Lsp!Returns
  BY <1>3 DEF Lsp!Returns, Lsp!NoAsk
<1>4. CASE Lsp!RequestTimesOut
  BY <1>4 DEF Lsp!RequestTimesOut, Lsp!NoAsk
<1>5. CASE Lsp!Restart
  BY <1>5 DEF Lsp!Restart
<1>6. CASE (\E k \in Lsp!Kinds : Lsp!Wait(k)) \/ Lsp!WaitTakes \/ Lsp!WaitTimesOut
  BY <1>6 DEF Lsp!Wait, Lsp!WaitTakes, Lsp!WaitTimesOut
<1>7. CASE Lsp!Read
  <2>1. /\ v2' = Tail(v2) /\ UNCHANGED <<v1, v4, v7, v9>>
        /\ v2 # <<>> /\ v2 \in Seq(Lsp!Item)
    BY <1>7 DEF Lsp!Read
  <2>2. Head(v2) = v2[1] /\ 1 \in DOMAIN v2 /\ Head(v2) \in Lsp!Item
    BY <2>1
  <2>3. /\ v2' \in Seq(Lsp!Item)
        /\ \A i \in DOMAIN v2' : i + 1 \in DOMAIN v2 /\ v2'[i] = v2[i + 1]
    BY <2>1
  <2>4. \A i \in DOMAIN v2' : ~v2'[i].note => v2'[i].n = v2'[i].id /\ v2'[i].id # 0
    BY <2>3
  <2>5. \/ v3' = v3
        \/ ~Head(v2).note /\ v3.id = Head(v2).id /\ v3' = [v3 EXCEPT !.got = Head(v2).n]
    BY <1>7 DEF Lsp!Read
  <2>6. CASE v3' = v3
    BY <2>1, <2>3, <2>4, <2>6
  <2>7. CASE ~Head(v2).note /\ v3.id = Head(v2).id /\ v3' = [v3 EXCEPT !.got = Head(v2).n]
    <3>1. Head(v2).n = Head(v2).id
      BY <2>2, <2>7
    <3>2. v3' \in [id : Nat, request : Nat, got : Nat]
          /\ v3'.id = v3'.request /\ v3'.got = v3'.request
      BY <2>2, <2>7, <3>1 DEF Lsp!Item
    <3> QED
      BY <2>1, <2>3, <2>4, <3>2
  <2> QED
    BY <2>5, <2>6, <2>7
<1>8. ASSUME NEW q \in v1.asked, Lsp!Answer(q)
      PROVE  Lsp!ReplyInv'
  <2>1. /\ q[1] = q[2] /\ q[1] \in Lsp!Requests /\ q[2] \in Lsp!Requests
        /\ v1' \in [alive : BOOLEAN, asked : SUBSET (Lsp!Requests \X Lsp!Requests)]
        /\ \A r \in v1'.asked : r \in v1.asked
    BY <1>8 DEF Lsp!Answer
  <2>2. /\ Lsp!ReplyTo(q) \in Lsp!Item /\ Lsp!ReplyTo(q).n = Lsp!ReplyTo(q).id /\ Lsp!ReplyTo(q).id # 0
    BY <2>1 DEF Lsp!ReplyTo, Lsp!Item, Lsp!Requests
  <2>3. v2' = Append(v2, Lsp!ReplyTo(q)) /\ UNCHANGED <<v3, v4, v7, v9>>
    BY <1>8 DEF Lsp!Answer
  <2>4. /\ v2' \in Seq(Lsp!Item)
        /\ \A i \in DOMAIN v2' :
              \/ v2'[i] = Lsp!ReplyTo(q)
              \/ i \in DOMAIN v2 /\ v2'[i] = v2[i]
    BY <2>2, <2>3, AppendedIsLast
  <2> QED
    BY <2>1, <2>2, <2>3, <2>4
<1>9. ASSUME NEW k \in Lsp!Kinds, Lsp!Notify(k)
      PROVE  Lsp!ReplyInv'
  <2>1. /\ v2' = Append(v2, Lsp!Note(k)) /\ UNCHANGED <<v1, v3, v4, v9>>
        /\ v7' \in Nat
    BY <1>9 DEF Lsp!Notify
  <2>2. Lsp!Note(k) \in Lsp!Item /\ Lsp!Note(k).note
    BY DEF Lsp!Note, Lsp!Item, Lsp!Kinds
  <2>3. /\ v2' \in Seq(Lsp!Item)
        /\ \A i \in DOMAIN v2' :
              \/ v2'[i] = Lsp!Note(k)
              \/ i \in DOMAIN v2 /\ v2'[i] = v2[i]
    BY <2>1, <2>2, AppendedIsLast
  <2> QED
    BY <2>1, <2>2, <2>3
<1>10. CASE Lsp!Dies
  BY <1>10 DEF Lsp!Dies
<1> QED
  BY <1>1, <1>2, <1>3, <1>4, <1>5, <1>6, <1>7, <1>8, <1>9, <1>10 DEF Lsp!Next

LEMMA ReplyInvShows == Lsp!ReplyInv => Lsp!RepliesAreOurs
BY DEF Lsp!ReplyInv, Lsp!RepliesAreOurs

-----------------------------------------------------------------------------
(* The MCP bridge (McpLink).                                                *)

LEMMA FewNumberless ==
    ASSUME NEW lines \in Seq(Mcp!Lines)
    PROVE  Mcp!IsFiniteSet(Mcp!Numberless(lines)) /\ Mcp!Cardinality(Mcp!Numberless(lines)) \in Nat
<1>1. DOMAIN lines = 1 .. Len(lines) /\ Len(lines) \in Nat
  OBVIOUS
<1>2. Mcp!IsFiniteSet(DOMAIN lines)
  BY <1>1, Mcp!FS_Interval
<1> QED
  BY <1>2, Mcp!FS_Subset, Mcp!FS_CardinalityType DEF Mcp!Numberless

LEMMA OneMoreAtMost ==
    ASSUME NEW S, Mcp!IsFiniteSet(S), NEW x, NEW T \in SUBSET (S \cup {x})
    PROVE  Mcp!Cardinality(T) \in Nat /\ Mcp!Cardinality(T) <= Mcp!Cardinality(S) + 1
<1>1. Mcp!IsFiniteSet(S \cup {x}) /\ Mcp!Cardinality(S) \in Nat
  BY Mcp!FS_AddElement, Mcp!FS_CardinalityType
<1>2. Mcp!Cardinality(S \cup {x}) <= Mcp!Cardinality(S) + 1
  BY <1>1, Mcp!FS_AddElement
<1>3. Mcp!IsFiniteSet(T) /\ Mcp!Cardinality(T) <= Mcp!Cardinality(S \cup {x})
  BY <1>1, Mcp!FS_Subset
<1> QED
  BY <1>1, <1>2, <1>3, Mcp!FS_CardinalityType

LEMMA NumberlessAppended ==
    ASSUME NEW lines \in Seq(Mcp!Lines), NEW line \in Mcp!Lines
    PROVE  Mcp!Cardinality(Mcp!Numberless(Append(lines, line))) =
             Mcp!Cardinality(Mcp!Numberless(lines)) + (IF line.kind = "reply" /\ line.req = 0 THEN 1 ELSE 0)
<1>1. /\ Len(Append(lines, line)) = Len(lines) + 1 /\ DOMAIN Append(lines, line) = 1 .. Len(lines) + 1
      /\ \A i \in 1 .. Len(lines) : Append(lines, line)[i] = lines[i]
      /\ Append(lines, line)[Len(lines) + 1] = line
      /\ DOMAIN lines = 1 .. Len(lines) /\ Len(lines) \in Nat
  BY AppendProperties
<1>2. Mcp!Numberless(Append(lines, line)) =
        Mcp!Numberless(lines) \cup (IF line.kind = "reply" /\ line.req = 0 THEN {Len(lines) + 1} ELSE {})
  BY <1>1 DEF Mcp!Numberless
<1>3. Len(lines) + 1 \notin Mcp!Numberless(lines)
  BY <1>1 DEF Mcp!Numberless
<1>4. Mcp!IsFiniteSet(Mcp!Numberless(lines)) /\ Mcp!Cardinality(Mcp!Numberless(lines)) \in Nat
  BY FewNumberless
<1>5. CASE line.kind = "reply" /\ line.req = 0
  <2>1. Mcp!Numberless(Append(lines, line)) = Mcp!Numberless(lines) \cup {Len(lines) + 1}
    BY <1>2, <1>5
  <2>2. Mcp!Cardinality(Mcp!Numberless(lines) \cup {Len(lines) + 1}) = Mcp!Cardinality(Mcp!Numberless(lines)) + 1
    BY <1>3, <1>4, Mcp!FS_AddElement, Zenon
  <2> QED
    BY <1>5, <2>1, <2>2
<1>6. CASE ~(line.kind = "reply" /\ line.req = 0)
  <2>1. Mcp!Numberless(Append(lines, line)) = Mcp!Numberless(lines)
    BY <1>2, <1>6
  <2> QED
    BY <1>4, <1>6, <2>1
<1> QED
  BY <1>5, <1>6

LEMMA NumberlessRead ==
    ASSUME NEW lines \in Seq(Mcp!Lines), lines # <<>>
    PROVE  Mcp!Cardinality(Mcp!Numberless(Tail(lines))) =
             Mcp!Cardinality(Mcp!Numberless(lines))
               - (IF Head(lines).kind = "reply" /\ Head(lines).req = 0 THEN 1 ELSE 0)
<1> DEFINE left == Mcp!Numberless(lines) \ {1}
           up1 == [i \in Mcp!Numberless(Tail(lines)) |-> i + 1]
<1>1. /\ Tail(lines) \in Seq(Mcp!Lines) /\ Len(Tail(lines)) = Len(lines) - 1
      /\ \A i \in 1 .. Len(lines) - 1 : Tail(lines)[i] = lines[i + 1]
      /\ Head(lines) = lines[1] /\ Len(lines) \in Nat \ {0}
      /\ DOMAIN lines = 1 .. Len(lines) /\ DOMAIN Tail(lines) = 1 .. Len(lines) - 1
  BY HeadTailProperties
<1>2. up1 \in Mcp!Bijection(Mcp!Numberless(Tail(lines)), left)
  <2>1. up1 \in [Mcp!Numberless(Tail(lines)) -> left]
    BY <1>1 DEF Mcp!Numberless
  <2>2. \A i, j \in Mcp!Numberless(Tail(lines)) : up1[i] = up1[j] => i = j
    BY <1>1 DEF Mcp!Numberless
  <2>3. ASSUME NEW j \in left
        PROVE  \E i \in Mcp!Numberless(Tail(lines)) : up1[i] = j
    <3>1. j - 1 \in Mcp!Numberless(Tail(lines))
      BY <1>1 DEF Mcp!Numberless
    <3> QED
      BY <1>1, <3>1 DEF Mcp!Numberless
  <2>4. up1 \in Mcp!Injection(Mcp!Numberless(Tail(lines)), left)
    BY <2>1, <2>2 DEF Mcp!Injection, Mcp!IsInjective
  <2>5. up1 \in Mcp!Surjection(Mcp!Numberless(Tail(lines)), left)
    BY <2>1, <2>3 DEF Mcp!Surjection
  <2> QED
    BY <2>4, <2>5 DEF Mcp!Bijection
<1>3. Mcp!Cardinality(left) = Mcp!Cardinality(Mcp!Numberless(Tail(lines)))
  BY <1>1, <1>2, FewNumberless, Mcp!FS_Bijection DEF Mcp!ExistsBijection
<1>4. Mcp!Cardinality(left) = IF 1 \in Mcp!Numberless(lines) THEN Mcp!Cardinality(Mcp!Numberless(lines)) - 1
                                                    ELSE Mcp!Cardinality(Mcp!Numberless(lines))
  BY FewNumberless, Mcp!FS_RemoveElement
<1>5. 1 \in Mcp!Numberless(lines) <=> Head(lines).kind = "reply" /\ Head(lines).req = 0
  BY <1>1 DEF Mcp!Numberless
<1> QED
  BY <1>1, <1>3, <1>4, <1>5, FewNumberless

LEMMA McpInitially == Mcp!McpInit => Mcp!McpInv
<1> SUFFICES ASSUME Mcp!McpInit PROVE Mcp!McpInv
  OBVIOUS
<1>1. Mcp!Mismatched = {} /\ Mcp!Numberless(v6) = {}
  BY DEF Mcp!McpInit, Mcp!Mismatched, Mcp!Numberless
<1>2. Mcp!Cardinality({}) = 0
  BY Mcp!FS_EmptySet
<1>3. Mcp!Cardinality(Mcp!Mismatched) + Mcp!Cardinality(Mcp!Numberless(v6)) <= v12
  <2>1. v12 = 0
    BY DEF Mcp!McpInit
  <2> QED
    BY <1>1, <1>2, <2>1
<1>4. /\ v5 \in Seq(Mcp!Lines) /\ v6 \in Seq(Mcp!Lines)
      /\ \A i \in DOMAIN v5 : v5[i].kind = "request" => v5[i].req \in 1..v2
      /\ \A i \in DOMAIN v6 : v6[i].kind = "reply" => v6[i].req \in 0..v2
  BY DEF Mcp!McpInit
<1>5. v7 \in Mcp!Bridges /\ v7.at = "idle"
  BY DEF Mcp!McpInit, Mcp!Idle, Mcp!Bridges
<1>6. /\ v2 \in 0..MaxMcpRequests /\ v4 \in {0, v2} /\ v12 \in Nat
      /\ v13 \in Nat /\ v9 \in Nat /\ DOMAIN v10 = Mcp!Requests
  BY McpAssumption DEF Mcp!McpInit
<1> QED
  BY <1>3, <1>4, <1>5, <1>6 DEF Mcp!McpInv

LEMMA McpIsKept == Mcp!McpInv /\ [Mcp!McpNext]_(Mcp!mcpVars) => Mcp!McpInv'
<1> SUFFICES ASSUME Mcp!McpInv, [Mcp!McpNext]_(Mcp!mcpVars) PROVE Mcp!McpInv'
  OBVIOUS
<1>0. /\ v6 \in Seq(Mcp!Lines) /\ v5 \in Seq(Mcp!Lines)
      /\ Mcp!IsFiniteSet(Mcp!Mismatched) /\ Mcp!Cardinality(Mcp!Mismatched) \in Nat
      /\ Mcp!Cardinality(Mcp!Numberless(v6)) \in Nat /\ v2 \in Nat
  <2>1. Mcp!IsFiniteSet(Mcp!Requests) /\ v2 \in Nat
    BY McpAssumption, Mcp!FS_Interval DEF Mcp!Requests, Mcp!McpInv
  <2> QED
    BY <2>1, Mcp!FS_Subset, Mcp!FS_CardinalityType, FewNumberless DEF Mcp!McpInv, Mcp!Mismatched
<1>p. Mcp!Numberless(v6') = Mcp!Numberless(v6)'
  BY DEF Mcp!Numberless
<1>1. CASE Mcp!Send
  <2>1. /\ v2' = v2 + 1 /\ v4' = v2 + 1 /\ v2 + 1 \in 1..MaxMcpRequests
        /\ v5' = Append(v5, Mcp!Line("request", v2 + 1, TRUE, 0))
        /\ UNCHANGED <<v6, v7, v9, v10, v12, v13>>
    BY <1>1 DEF Mcp!Send, Mcp!Requests
  <2>2. Mcp!Line("request", v2 + 1, TRUE, 0) \in Mcp!Lines
    BY DEF Mcp!Lines, Mcp!Line, Mcp!McpInv
  <2>3. /\ v5' \in Seq(Mcp!Lines)
        /\ \A i \in DOMAIN v5' : v5'[i].kind = "request" => v5'[i].req \in 1..v2'
    BY <1>0, <2>1, <2>2, AppendProperties DEF Mcp!McpInv, Mcp!Line
  <2>4. \A i \in DOMAIN v6' : v6'[i].kind = "reply" => v6'[i].req \in 0..v2'
    BY <1>0, <2>1 DEF Mcp!McpInv
  <2>5. Mcp!Mismatched' = Mcp!Mismatched /\ Mcp!Numberless(v6)' = Mcp!Numberless(v6)
    BY <2>1 DEF Mcp!Mismatched, Mcp!Numberless
  <2>6. v2 \in Nat /\ v2' \in 0..MaxMcpRequests /\ v4' \in {0, v2'}
    BY <2>1, McpAssumption DEF Mcp!McpInv
  <2>7. v7'.at # "idle" => v7'.req \in 1..v2'
    BY <2>1, <2>6 DEF Mcp!McpInv
  <2> QED
    BY <2>1, <2>3, <2>4, <2>5, <2>6, <2>7 DEF Mcp!McpInv
<1>2. CASE Mcp!ReadLine
  <2> DEFINE line == Head(v6)
             cost == IF line.kind = "reply" /\ line.req = 0 THEN 1 ELSE 0
  <2>1. /\ v4 = v2 /\ v2 \in Nat \ {0} /\ v6 # <<>> /\ v6' = Tail(v6)
        /\ UNCHANGED <<v2, v7, v9, v12, v13>>
    <3>1. /\ v4 # 0 /\ v6 # <<>> /\ v6' = Tail(v6)
          /\ UNCHANGED <<v2, v7, v9, v12, v13>>
      BY <1>2 DEF Mcp!ReadLine
    <3>2. v4 \in {0, v2} /\ v2 \in Nat
      BY McpAssumption DEF Mcp!McpInv
    <3> QED
      BY <3>1, <3>2
  <2>2. line \in Mcp!Lines /\ v6[1] = line /\ (line.kind = "reply" => line.req \in 0..v2)
    BY <1>0, <2>1, HeadTailProperties DEF Mcp!McpInv
  <2>3. /\ v6' \in Seq(Mcp!Lines)
        /\ \A i \in DOMAIN v6' : v6'[i].kind = "reply" => v6'[i].req \in 0..v2
    BY <1>0, <2>1, HeadTailProperties DEF Mcp!McpInv
  <2>4. Mcp!Cardinality(Mcp!Numberless(v6')) = Mcp!Cardinality(Mcp!Numberless(v6)) - cost
    BY <1>0, <2>1, NumberlessRead
  <2>5. /\ v5' \in Seq(Mcp!Lines)
        /\ \A i \in DOMAIN v5' : v5'[i].kind = "request" => v5'[i].req \in 1..v2
    <3>1. CASE v5' = v5
      BY <3>1 DEF Mcp!McpInv
    <3>2. CASE v5' = Append(v5, Mcp!Line("answer", line.req, TRUE, 0))
      <4>1. Mcp!Line("answer", line.req, TRUE, 0) \in Mcp!Lines
        BY <2>2 DEF Mcp!Lines, Mcp!Line
      <4> QED
        BY <1>0, <3>2, <4>1, AppendProperties DEF Mcp!McpInv, Mcp!Line
    <3> QED
      BY <1>2, <3>1, <3>2 DEF Mcp!ReadLine
  <2>6. DOMAIN v10' = Mcp!Requests /\ v4' \in {0, v2}
        /\ Mcp!Cardinality(Mcp!Mismatched') <= Mcp!Cardinality(Mcp!Mismatched) + cost
    <3>1. CASE v10' = v10 /\ v4' = v4
      BY <1>0, <2>1, <3>1 DEF Mcp!McpInv, Mcp!Mismatched
    <3>2. CASE Mcp!Returns("mismatch") /\ line.kind = "reply" /\ line.req # v4 /\ ~Mcp!Outdated(line)
      <4>1. line.req = 0
        BY <2>1, <2>2, <3>2 DEF Mcp!Outdated, Mcp!Lines
      <4>2. Mcp!Mismatched' \subseteq Mcp!Mismatched \cup {v4}
        BY <3>2 DEF Mcp!Returns, Mcp!Mismatched, Mcp!McpInv
      <4> QED
        <5>1. Mcp!Cardinality(Mcp!Mismatched') <= Mcp!Cardinality(Mcp!Mismatched) + 1
          BY <1>0, <4>2, OneMoreAtMost
        <5>3. DOMAIN v10' = Mcp!Requests /\ v4' = 0
          BY <3>2 DEF Mcp!Returns, Mcp!McpInv
        <5> QED
          BY <1>0, <2>1, <3>2, <4>1, <5>1, <5>3
    <3>3. CASE Mcp!Returns("result") \/ Mcp!Returns("error")
      <4>1. Mcp!Mismatched' \subseteq Mcp!Mismatched
        BY <3>3 DEF Mcp!Returns, Mcp!Mismatched, Mcp!McpInv
      <4> QED
        <5>1. Mcp!Cardinality(Mcp!Mismatched') <= Mcp!Cardinality(Mcp!Mismatched) /\ Mcp!Cardinality(Mcp!Mismatched') \in Nat
          BY <1>0, <4>1, Mcp!FS_Subset, Mcp!FS_CardinalityType
        <5>2. DOMAIN v10' = Mcp!Requests /\ v4' = 0
          BY <3>3 DEF Mcp!Returns, Mcp!McpInv
        <5> QED
          BY <1>0, <5>1, <5>2
    <3> QED
      BY <1>2, <3>1, <3>2, <3>3 DEF Mcp!ReadLine
  <2>7. v12 \in Nat /\ Mcp!Cardinality(Mcp!Mismatched) + Mcp!Cardinality(Mcp!Numberless(v6)) <= v12
    BY DEF Mcp!McpInv
  <2>8. Mcp!Cardinality(Mcp!Mismatched') \in Nat
    <3>1. Mcp!IsFiniteSet(Mcp!Requests) /\ Mcp!Mismatched' \in SUBSET Mcp!Requests
      BY McpAssumption, Mcp!FS_Interval DEF Mcp!Requests, Mcp!Mismatched
    <3> QED
      BY <3>1, Mcp!FS_Subset, Mcp!FS_CardinalityType
  <2>10. cost \in {0, 1}
    OBVIOUS
  <2> HIDE DEF cost
  <2>9. (Mcp!Cardinality(Mcp!Mismatched) + Mcp!Cardinality(Mcp!Numberless(v6)) <= v12)'
    BY <1>0, <1>p, <2>1, <2>4, <2>6, <2>7, <2>8, <2>10
  <2> QED
    BY <2>1, <2>3, <2>5, <2>6, <2>9 DEF Mcp!McpInv
<1>3. CASE Mcp!GivesUp
  <2>1. /\ Mcp!Returns("timeout") \/ Mcp!Returns("gone")
        /\ UNCHANGED <<v2, v5, v6, v7, v9, v12, v13>>
    BY <1>3 DEF Mcp!GivesUp
  <2>2. Mcp!Mismatched' \subseteq Mcp!Mismatched /\ DOMAIN v10' = Mcp!Requests /\ v4' = 0
    BY <2>1 DEF Mcp!Returns, Mcp!Mismatched, Mcp!McpInv
  <2>3. Mcp!Cardinality(Mcp!Mismatched') <= Mcp!Cardinality(Mcp!Mismatched) /\ Mcp!Cardinality(Mcp!Mismatched') \in Nat
    BY <1>0, <2>2, Mcp!FS_Subset, Mcp!FS_CardinalityType
  <2>4. Mcp!Numberless(v6)' = Mcp!Numberless(v6)
    BY <2>1 DEF Mcp!Numberless
  <2> QED
    BY <1>0, <2>1, <2>2, <2>3, <2>4 DEF Mcp!McpInv
<1>4. ASSUME NEW line \in Mcp!Lines, v6' = Append(v6, line),
             line.kind = "reply" => line.req \in 0..v2, UNCHANGED <<v2, v4, v10>>,
             \/ v12' = v12 /\ ~(line.kind = "reply" /\ line.req = 0)
             \/ v12' = v12 + 1
      PROVE  /\ v6' \in Seq(Mcp!Lines) /\ v12' \in Nat
             /\ \A i \in DOMAIN v6' : v6'[i].kind = "reply" => v6'[i].req \in 0..v2'
             /\ (Mcp!Cardinality(Mcp!Mismatched) + Mcp!Cardinality(Mcp!Numberless(v6)) <= v12)'
  <2>1. /\ v6' \in Seq(Mcp!Lines)
        /\ \A i \in DOMAIN v6' : v6'[i].kind = "reply" => v6'[i].req \in 0..v2
    BY <1>0, <1>4, AppendProperties DEF Mcp!McpInv
  <2>2. Mcp!Cardinality(Mcp!Numberless(v6')) =
          Mcp!Cardinality(Mcp!Numberless(v6)) + (IF line.kind = "reply" /\ line.req = 0 THEN 1 ELSE 0)
    BY <1>0, <1>4, NumberlessAppended
  <2>3. Mcp!Mismatched' = Mcp!Mismatched
    BY <1>4 DEF Mcp!Mismatched
  <2>4. v12 \in Nat /\ Mcp!Cardinality(Mcp!Mismatched) + Mcp!Cardinality(Mcp!Numberless(v6)) <= v12
    BY DEF Mcp!McpInv
  <2> QED
    BY <1>0, <1>p, <1>4, <2>1, <2>2, <2>3, <2>4
<1>5. CASE Mcp!Take
  <2>1. /\ v5 # <<>> /\ v5' = Tail(v5)
        /\ UNCHANGED <<v2, v4, v10, v9, v13>>
    BY <1>5 DEF Mcp!Take, Mcp!clientVars, Mcp!serverVars
  <2>2. /\ v5' \in Seq(Mcp!Lines)
        /\ \A i \in DOMAIN v5' : v5'[i].kind = "request" => v5'[i].req \in 1..v2
        /\ Head(v5) \in Mcp!Lines /\ (Head(v5).kind = "request" => Head(v5).req \in 1..v2)
    BY <1>0, <2>1, HeadTailProperties DEF Mcp!McpInv
  <2>3. CASE UNCHANGED <<v6, v12>>
    <3>1. v7' = v7 \/ (/\ Head(v5).kind = "request"
                               /\ v7' = [Mcp!Idle EXCEPT !.at = "work", !.req = Head(v5).req])
      BY <1>5, <2>3 DEF Mcp!Take
    <3>2. v7' \in Mcp!Bridges /\ (v7'.at # "idle" => v7'.req \in 1..v2)
      <4>1. CASE v7' = v7
        BY <4>1 DEF Mcp!McpInv
      <4>2. CASE /\ Head(v5).kind = "request"
                 /\ v7' = [Mcp!Idle EXCEPT !.at = "work", !.req = Head(v5).req]
        <5>1. v7' = [at |-> "work", req |-> Head(v5).req, ok |-> TRUE, seen |-> 0]
          BY <4>2 DEF Mcp!Idle
        <5>2. Head(v5).req \in 1..v2 /\ Head(v5).req \in Nat
          BY <2>2, <4>2 DEF Mcp!Lines
        <5> QED
          BY <5>1, <5>2 DEF Mcp!Bridges
      <4> QED
        BY <3>1, <4>1, <4>2
    <3>3. Mcp!Mismatched' = Mcp!Mismatched /\ Mcp!Numberless(v6)' = Mcp!Numberless(v6)
      BY <2>1, <2>3 DEF Mcp!Mismatched, Mcp!Numberless
    <3> QED
      BY <2>1, <2>2, <2>3, <3>2, <3>3 DEF Mcp!McpInv
  <2>4. CASE /\ v6' = Append(v6, Mcp!Line("reply", 0, FALSE, 0)) /\ v12' = v12 + 1
             /\ v7' = v7
    <3> DEFINE line == Mcp!Line("reply", 0, FALSE, 0)
    <3>1. line \in Mcp!Lines /\ line.req = 0
      BY DEF Mcp!Line, Mcp!Lines
    <3>2. v6' = Append(v6, line) /\ v12' = v12 + 1 /\ UNCHANGED <<v2, v4, v10>>
      BY <2>1, <2>4
    <3> HIDE DEF line
    <3>3. line.req \in 0..v2
      BY <1>0, <3>1
    <3>4. /\ v6' \in Seq(Mcp!Lines) /\ v12' \in Nat
          /\ \A i \in DOMAIN v6' : v6'[i].kind = "reply" => v6'[i].req \in 0..v2'
          /\ (Mcp!Cardinality(Mcp!Mismatched) + Mcp!Cardinality(Mcp!Numberless(v6)) <= v12)'
      BY <1>4, <3>1, <3>2, <3>3
    <3> QED
      BY <2>1, <2>2, <2>4, <3>4 DEF Mcp!McpInv
  <2> QED
    BY <1>5, <2>3, <2>4 DEF Mcp!Take
<1>6. CASE Mcp!Ask
  <2> DEFINE line == Mcp!Line("question", v9 + 1, TRUE, 0)
  <2>1. line \in Mcp!Lines /\ line.kind = "question"
    BY DEF Mcp!Line, Mcp!Lines, Mcp!McpInv
  <2>2. /\ v6' = Append(v6, line) /\ v9' = v9 + 1
        /\ UNCHANGED <<v2, v4, v10, v5, v7, v12, v13>>
    BY <1>6 DEF Mcp!Ask, Mcp!clientVars, Mcp!serverVars
  <2> HIDE DEF line
  <2>3. /\ v6' \in Seq(Mcp!Lines)
        /\ \A i \in DOMAIN v6' : v6'[i].kind = "reply" => v6'[i].req \in 0..v2'
        /\ (Mcp!Cardinality(Mcp!Mismatched) + Mcp!Cardinality(Mcp!Numberless(v6)) <= v12)'
    BY <1>4, <2>1, <2>2
  <2> QED
    BY <2>2, <2>3 DEF Mcp!McpInv
<1>7. CASE Mcp!Reply
  <2> DEFINE line == Mcp!Line("reply", v7.req, v7.ok, v7.seen)
  <2>1. line \in Mcp!Lines /\ line.req # 0 /\ line.req \in 0..v2
    BY <1>7 DEF Mcp!Reply, Mcp!Line, Mcp!Lines, Mcp!McpInv, Mcp!Bridges
  <2>2. /\ v6' = Append(v6, line) /\ v7' = Mcp!Idle
        /\ UNCHANGED <<v2, v4, v10, v5, v9, v12, v13>>
    BY <1>7 DEF Mcp!Reply, Mcp!clientVars, Mcp!serverVars
  <2> HIDE DEF line
  <2>3. /\ v6' \in Seq(Mcp!Lines)
        /\ \A i \in DOMAIN v6' : v6'[i].kind = "reply" => v6'[i].req \in 0..v2'
        /\ (Mcp!Cardinality(Mcp!Mismatched) + Mcp!Cardinality(Mcp!Numberless(v6)) <= v12)'
    BY <1>4, <2>1, <2>2
  <2>4. v7' \in Mcp!Bridges /\ v7'.at = "idle"
    BY <2>2 DEF Mcp!Idle, Mcp!Bridges
  <2> QED
    BY <2>2, <2>3, <2>4 DEF Mcp!McpInv
<1>8. CASE Mcp!ToolsChange
  <2> DEFINE line == Mcp!Line("changed", 0, TRUE, 1)
  <2>1. line \in Mcp!Lines /\ line.kind = "changed"
    BY DEF Mcp!Line, Mcp!Lines
  <2>2. /\ v6' = Append(v6, line) /\ v13' = 1
        /\ UNCHANGED <<v2, v4, v10, v5, v7, v9, v12>>
    BY <1>8 DEF Mcp!ToolsChange, Mcp!clientVars
  <2> HIDE DEF line
  <2>3. /\ v6' \in Seq(Mcp!Lines)
        /\ \A i \in DOMAIN v6' : v6'[i].kind = "reply" => v6'[i].req \in 0..v2'
        /\ (Mcp!Cardinality(Mcp!Mismatched) + Mcp!Cardinality(Mcp!Numberless(v6)) <= v12)'
    BY <1>4, <2>1, <2>2
  <2> QED
    BY <2>2, <2>3 DEF Mcp!McpInv
<1>9. CASE Mcp!ServerDone \/ Mcp!ServerTimeout \/ Mcp!BridgeDies \/ UNCHANGED Mcp!mcpVars
  <2>1. UNCHANGED <<v2, v4, v10, v9, v13, v5, v6, v12>>
    BY <1>9 DEF Mcp!ServerDone, Mcp!ServerTimeout, Mcp!BridgeDies, Mcp!mcpVars, Mcp!clientVars, Mcp!serverVars
  <2>2. v7' \in Mcp!Bridges
        /\ (v7'.at # "idle" => v7'.req \in 1..v2)
    <3>1. CASE v7' = v7
      BY <2>1, <3>1 DEF Mcp!McpInv
    <3>2. CASE v7.at = "work" /\ v7' = [v7 EXCEPT !.at = "reply", !.seen = v13]
      BY <3>2 DEF Mcp!McpInv, Mcp!Bridges
    <3>3. CASE v7.at = "work" /\ v7' = [v7 EXCEPT !.at = "reply", !.ok = FALSE]
      BY <3>3 DEF Mcp!McpInv, Mcp!Bridges
    <3>4. CASE v7' = Mcp!Idle
      BY <3>4 DEF Mcp!Idle, Mcp!Bridges
    <3> QED
      BY <1>9, <3>1, <3>2, <3>3, <3>4 DEF Mcp!ServerDone, Mcp!ServerTimeout, Mcp!BridgeDies, Mcp!mcpVars
  <2>3. Mcp!Mismatched' = Mcp!Mismatched /\ Mcp!Numberless(v6)' = Mcp!Numberless(v6)
    BY <2>1 DEF Mcp!Mismatched, Mcp!Numberless
  <2> QED
    BY <2>1, <2>2, <2>3 DEF Mcp!McpInv
<1> QED
  BY <1>1, <1>2, <1>3, <1>5, <1>6, <1>7, <1>8, <1>9 DEF Mcp!McpNext

LEMMA McpRecovers == Mcp!McpInv => Mcp!StreamRecovers
<1> SUFFICES ASSUME Mcp!McpInv PROVE Mcp!Cardinality(Mcp!Mismatched) <= v12
  BY DEF Mcp!StreamRecovers, Mcp!Mismatched
<1>1. Mcp!IsFiniteSet(Mcp!Requests)
  BY McpAssumption, Mcp!FS_Interval DEF Mcp!Requests
<1>2. Mcp!Cardinality(Mcp!Mismatched) \in Nat
  BY <1>1, Mcp!FS_Subset, Mcp!FS_CardinalityType DEF Mcp!Mismatched
<1> QED
  BY <1>2, FewNumberless DEF Mcp!McpInv

(* However many requests time out and however often a server is restarted,  *)
(* a request of a language server never returns the result of another; and  *)
(* an MCP request fails by a mismatch no more often than requests were      *)
(* orphaned before it (LspClient.request, McpBridgeSession).                *)
THEOREM EveryReplyIsOurs == Spec => []RepliesAreOurs
<1> DEFINE LspInv == scene = "lsp" => Lsp!ReplyInv
           BridgeInv == scene = "mcp" => Mcp!McpInv
<1>1. Init => LspInv /\ BridgeInv
  BY ReplyInvInitially, McpInitially DEF Init
<1>2. LspInv /\ [Next]_vars => LspInv'
  BY SceneStep, ReplyInvIsKept
<1>3. BridgeInv /\ [Next]_vars => BridgeInv'
  BY SceneStep, McpIsKept
<1>4. LspInv /\ BridgeInv => RepliesAreOurs
  BY ReplyInvShows, McpRecovers DEF RepliesAreOurs
<1> QED
  BY <1>1, <1>2, <1>3, <1>4, PTL DEF Spec

-----------------------------------------------------------------------------
(* Messages between sessions (SessionMessaging).                            *)

(* How many of the numbers K come up to i.                                  *)
PeerRank(K, i) == Peer!Cardinality({h \in K : h <= i})

LEMMA RanksAreCounted ==
    ASSUME NEW n \in Nat, NEW K \in SUBSET (1 .. n)
    PROVE  /\ Peer!IsFiniteSet(K) /\ Peer!Cardinality(K) \in Nat /\ Peer!Cardinality(K) <= n
           /\ \A i \in K : /\ PeerRank(K, i) \in 1 .. Peer!Cardinality(K)
                           /\ Peer!Cardinality(K) - PeerRank(K, i) <= n - i
           /\ \A i, j \in K : i < j => PeerRank(K, i) < PeerRank(K, j)
<1>1. Peer!IsFiniteSet(1 .. n) /\ Peer!Cardinality(1 .. n) = n
  BY Peer!FS_Interval
<1>2. \A T \in SUBSET (1 .. n) : Peer!IsFiniteSet(T) /\ Peer!Cardinality(T) \in Nat /\ Peer!Cardinality(T) <= n
  BY <1>1, Peer!FS_Subset, Peer!FS_CardinalityType
<1>3. \A T \in SUBSET (1 .. n) : \A U \in SUBSET T : Peer!Cardinality(U) <= Peer!Cardinality(T)
  BY <1>2, Peer!FS_Subset
<1>4. \A T \in SUBSET (1 .. n) : \A U \in SUBSET T : U # T => Peer!Cardinality(U) < Peer!Cardinality(T)
  <2> SUFFICES ASSUME NEW T \in SUBSET (1 .. n), NEW U \in SUBSET T, U # T
               PROVE  Peer!Cardinality(U) < Peer!Cardinality(T)
    OBVIOUS
  <2>1. Peer!IsFiniteSet(T) /\ Peer!Cardinality(T) \in Nat /\ Peer!Cardinality(U) \in Nat
    BY <1>2
  <2>2. Peer!Cardinality(U) <= Peer!Cardinality(T) /\ Peer!Cardinality(T) # Peer!Cardinality(U)
    BY <2>1, Peer!FS_Subset
  <2> QED
    BY <2>1, <2>2
<1>5. ASSUME NEW i \in K
      PROVE  PeerRank(K, i) \in 1 .. Peer!Cardinality(K)
  <2>1. {h \in K : h <= i} \in SUBSET K /\ {h \in K : h <= i} # {}
    OBVIOUS
  <2>2. Peer!Cardinality({}) = 0
    BY Peer!FS_EmptySet
  <2>3. Peer!Cardinality({h \in K : h <= i}) > 0
    BY <1>2, <1>4, <2>1, <2>2
  <2> QED
    BY <1>2, <1>3, <2>1, <2>3 DEF PeerRank
<1>6. ASSUME NEW i \in K
      PROVE  Peer!Cardinality(K) - PeerRank(K, i) <= n - i
  <2> DEFINE low == {h \in K : h <= i}
             high == {h \in K : h > i}
  <2>1. K = low \cup high /\ low \cap high = {} /\ low \in SUBSET (1 .. n) /\ high \in SUBSET (i + 1 .. n)
    <3>1. i \in Nat /\ \A h \in K : h \in Nat /\ 1 <= h /\ h <= n
      OBVIOUS
    <3>2. \A h \in K : (h <= i \/ h > i) /\ ~(h <= i /\ h > i) /\ (h > i => h \in i + 1 .. n)
      BY <3>1
    <3> QED
      BY <3>2
  <2>2. Peer!IsFiniteSet(i + 1 .. n) /\ Peer!Cardinality(i + 1 .. n) = n - i
    BY Peer!FS_Interval
  <2> HIDE DEF low, high
  <2>3. Peer!IsFiniteSet(high) /\ Peer!Cardinality(high) <= n - i /\ Peer!Cardinality(high) \in Nat
    <3>1. Peer!IsFiniteSet(high) /\ Peer!Cardinality(high) <= Peer!Cardinality(i + 1 .. n)
      BY <2>1, <2>2, Peer!FS_Subset
    <3> QED
      BY <2>2, <3>1, Peer!FS_CardinalityType
  <2>4. Peer!IsFiniteSet(low) /\ Peer!Cardinality(low) \in Nat
    BY <1>2, <2>1
  <2>5. Peer!Cardinality(low \cup high) = Peer!Cardinality(low) + Peer!Cardinality(high) - Peer!Cardinality(low \cap high)
    BY <2>3, <2>4, Peer!FS_Union
  <2>6. Peer!Cardinality(low \cap high) = 0
    BY <2>1, Peer!FS_EmptySet
  <2>7. PeerRank(K, i) = Peer!Cardinality(low)
    BY DEF PeerRank, low
  <2> QED
    BY <2>1, <2>3, <2>4, <2>5, <2>6, <2>7
<1>7. ASSUME NEW i \in K, NEW j \in K, i < j
      PROVE  PeerRank(K, i) < PeerRank(K, j)
  <2>0. \A h \in K : h <= i => h <= j
    BY <1>7
  <2>1. {h \in K : h <= j} \in SUBSET (1 .. n) /\ {h \in K : h <= i} \in SUBSET {h \in K : h <= j}
    BY <2>0
  <2>2. j \in {h \in K : h <= j} /\ j \notin {h \in K : h <= i}
    BY <1>7
  <2> QED
    BY <1>4, <2>1, <2>2 DEF PeerRank
<1> QED
  BY <1>2, <1>5, <1>6, <1>7

LEMMA EveryRankIsTaken ==
    ASSUME NEW n \in Nat, NEW K \in SUBSET (1 .. n)
    PROVE  \A j \in 1 .. Peer!Cardinality(K) : \E i \in K : PeerRank(K, i) = j
<1> DEFINE m == Peer!Cardinality(K)
           f == [i \in K |-> PeerRank(K, i)]
<1>1. Peer!IsFiniteSet(K) /\ m \in Nat
  BY RanksAreCounted
<1>2. Peer!IsFiniteSet(1 .. m) /\ Peer!Cardinality(1 .. m) = m
  BY <1>1, Peer!FS_Interval
<1>3. \A i \in K : f[i] \in 1 .. m
  BY RanksAreCounted
<1>4. \A i, j \in K : i # j => f[i] # f[j]
  <2> SUFFICES ASSUME NEW i \in K, NEW j \in K, i # j PROVE f[i] # f[j]
    OBVIOUS
  <2>1. f[i] \in Int /\ f[j] \in Int
    BY <1>3
  <2>2. i < j \/ j < i
    OBVIOUS
  <2>3. f[i] < f[j] \/ f[j] < f[i]
    BY <2>2, RanksAreCounted
  <2> QED
    BY <2>1, <2>3
<1>5. f \in Peer!Injection(K, 1 .. m)
  BY <1>3, <1>4 DEF Peer!Injection, Peer!IsInjective
<1>6. f \in Peer!Surjection(K, 1 .. m)
  <2> HIDE DEF f
  <2> QED
    BY <1>1, <1>2, <1>5, Peer!FS_Injection
<1> QED
  BY <1>6 DEF Peer!Surjection

(* What is kept at the places K of a list: those items, in their order.     *)
LEMMA WhatIsKept ==
    ASSUME NEW S, NEW s \in Seq(S), NEW K \in SUBSET DOMAIN s
    PROVE  /\ Peer!KeepAt(s, K) \in Seq(S)
           /\ Len(Peer!KeepAt(s, K)) \in Nat /\ Len(Peer!KeepAt(s, K)) <= Len(s)
           /\ \A p \in DOMAIN Peer!KeepAt(s, K) :
                 \E i \in K : Peer!KeepAt(s, K)[p] = s[i] /\ PeerRank(K, i) = p
           /\ \A i \in K : /\ PeerRank(K, i) \in DOMAIN Peer!KeepAt(s, K)
                           /\ Peer!KeepAt(s, K)[PeerRank(K, i)] = s[i]
                           /\ Len(Peer!KeepAt(s, K)) - PeerRank(K, i) <= Len(s) - i
<1> DEFINE r == Peer!KeepAt(s, K)
           m == Peer!Cardinality(K)
           At(j) == CHOOSE i \in K : PeerRank(K, i) = j
<1>1. Len(s) \in Nat /\ DOMAIN s = 1 .. Len(s) /\ K \in SUBSET (1 .. Len(s)) /\ \A i \in DOMAIN s : s[i] \in S
  OBVIOUS
<1>2. m \in Nat /\ m <= Len(s)
  BY <1>1, RanksAreCounted
<1>3. r = [j \in 1 .. m |-> s[At(j)]]
  BY DEF Peer!KeepAt, PeerRank
<1>4. \A j \in 1 .. m : At(j) \in K /\ PeerRank(K, At(j)) = j
  BY <1>1, EveryRankIsTaken
<1>5. \A i \in K : /\ PeerRank(K, i) \in 1 .. m /\ At(PeerRank(K, i)) = i
                   /\ m - PeerRank(K, i) <= Len(s) - i
  <2> SUFFICES ASSUME NEW i \in K
               PROVE  /\ PeerRank(K, i) \in 1 .. m /\ At(PeerRank(K, i)) = i
                      /\ m - PeerRank(K, i) <= Len(s) - i
    OBVIOUS
  <2>1. PeerRank(K, i) \in 1 .. m /\ m - PeerRank(K, i) <= Len(s) - i
    BY <1>1, RanksAreCounted
  <2> DEFINE h == At(PeerRank(K, i))
  <2>2. h \in K /\ PeerRank(K, h) = PeerRank(K, i)
    BY <1>4, <2>1
  <2> HIDE DEF h
  <2>3. ~(h < i) /\ ~(i < h)
    <3>1. PeerRank(K, i) \in Int /\ PeerRank(K, h) \in Int
      BY <2>1, <2>2
    <3>2. h < i => PeerRank(K, h) < PeerRank(K, i)
      BY <1>1, <2>2, RanksAreCounted
    <3>3. i < h => PeerRank(K, i) < PeerRank(K, h)
      BY <1>1, <2>2, RanksAreCounted
    <3> QED
      BY <2>2, <3>1, <3>2, <3>3
  <2>4. h = i
    BY <1>1, <2>2, <2>3
  <2> QED
    BY <2>1, <2>4 DEF h
<1> HIDE DEF r, m, At
<1>6. r \in Seq(S) /\ DOMAIN r = 1 .. m /\ Len(r) = m
  <2>1. \A j \in 1 .. m : s[At(j)] \in S
    BY <1>1, <1>4
  <2>2. r \in [1 .. m -> S]
    BY <1>3, <2>1
  <2> QED
    BY <1>2, <2>2
<1>7. \A p \in DOMAIN r : \E i \in K : r[p] = s[i] /\ PeerRank(K, i) = p
  BY <1>3, <1>4, <1>6
<1>8. \A i \in K : /\ PeerRank(K, i) \in DOMAIN r /\ r[PeerRank(K, i)] = s[i]
                   /\ Len(r) - PeerRank(K, i) <= Len(s) - i
  BY <1>3, <1>5, <1>6
<1> QED
  BY <1>2, <1>6, <1>7, <1>8 DEF r

(* A bounded list ends with what was appended and drops only its oldest.    *)
EndsLike(b, s, x) ==
    \A k \in DOMAIN b : /\ k = Len(b) => b[k] = x
                        /\ \A h \in DOMAIN s : h = Len(s) + 1 - Len(b) + k => b[k] = s[h]

LEMMA NewestKeepsTheEnd ==
    ASSUME NEW S, NEW s \in Seq(S), NEW x \in S, NEW most \in Nat, most > 0
    PROVE  /\ Peer!Newest(Append(s, x), most) \in Seq(S)
           /\ Len(Peer!Newest(Append(s, x), most)) = IF Len(s) < most THEN Len(s) + 1 ELSE most
           /\ EndsLike(Peer!Newest(Append(s, x), most), s, x)
           /\ Peer!Items(Peer!Newest(Append(s, x), most)) \subseteq Peer!Items(s) \cup {x}
<1> DEFINE t == Append(s, x)
           n == Len(t)
           b == Peer!Newest(Append(s, x), most)
<1>0. most \in Nat /\ most > 0
  OBVIOUS
<1>1. t \in Seq(S) /\ n = Len(s) + 1 /\ n \in Nat /\ Len(s) \in Nat
  OBVIOUS
<1>2. b = IF n > most THEN SubSeq(t, n - most + 1, n) ELSE t
  BY DEF Peer!Newest
<1>3. DOMAIN s = 1 .. Len(s) /\ \A k \in 1 .. n : t[k] = IF k = n THEN x ELSE s[k]
  OBVIOUS
<1> HIDE DEF t, n, b
<1>4. /\ b \in Seq(S) /\ Len(b) = IF Len(s) < most THEN Len(s) + 1 ELSE most
      /\ \A k \in DOMAIN b : b[k] = t[n - Len(b) + k] /\ n - Len(b) + k \in 1 .. n
  <2>1. CASE n > most
    <3>1. b \in Seq(S) /\ Len(b) = most
      BY <1>0, <1>1, <1>2, <2>1 DEF n
    <3>2. \A k \in 1 .. most : b[k] = t[n - most + k]
      BY <1>0, <1>1, <1>2, <2>1 DEF n
    <3>3. DOMAIN b = 1 .. most
      BY <3>1
    <3> QED
      BY <1>0, <1>1, <2>1, <3>1, <3>2, <3>3
  <2>2. CASE ~(n > most)
    <3>1. b = t /\ Len(b) = n
      BY <1>2, <2>2 DEF n
    <3>2. \A k \in DOMAIN b : n - Len(b) + k = k /\ k \in 1 .. n
      BY <1>1, <3>1
    <3> QED
      BY <1>0, <1>1, <2>2, <3>1, <3>2
  <2> QED
    BY <2>1, <2>2
<1>6. Peer!Items(b) \subseteq Peer!Items(s) \cup {x}
  <2> SUFFICES ASSUME NEW k \in DOMAIN b PROVE b[k] \in Peer!Items(s) \cup {x}
    BY DEF Peer!Items
  <2>1. PICK j \in 1 .. n : b[k] = t[j]
    BY <1>4
  <2> QED
    BY <1>1, <1>3, <2>1 DEF Peer!Items
<1>7. EndsLike(b, s, x)
  <2> SUFFICES ASSUME NEW k \in DOMAIN b
               PROVE  /\ k = Len(b) => b[k] = x
                      /\ \A h \in DOMAIN s : h = Len(s) + 1 - Len(b) + k => b[k] = s[h]
    BY DEF EndsLike
  <2>0. Len(b) \in Nat /\ k \in Nat
    BY <1>4
  <2>1. /\ b[k] = t[n - Len(b) + k] /\ n - Len(b) + k \in 1 .. n
        /\ n - Len(b) + k = Len(s) + 1 - Len(b) + k
    <3>1. b[k] = t[n - Len(b) + k] /\ n - Len(b) + k \in 1 .. n
      BY <1>4
    <3>2. n = Len(s) + 1
      BY <1>1
    <3> QED
      BY <3>1, <3>2
  <2>2. n - Len(b) + k = n <=> k = Len(b)
    BY <1>1, <2>0
  <2> QED
    BY <1>1, <1>3, <2>0, <2>1, <2>2
<1> QED
  BY <1>4, <1>6, <1>7 DEF b, t

LEMMA BoundedKeepsTheEnd ==
    ASSUME NEW S, NEW s \in Seq(S), NEW x \in S
    PROVE  /\ Peer!Bounded(s, x) \in Seq(S)
           /\ Len(Peer!Bounded(s, x)) = IF Len(s) < MaxQueue THEN Len(s) + 1 ELSE MaxQueue
           /\ EndsLike(Peer!Bounded(s, x), s, x)
           /\ Peer!Items(Peer!Bounded(s, x)) \subseteq Peer!Items(s) \cup {x}
<1>1. MaxQueue \in Nat /\ MaxQueue > 0 /\ Peer!Bounded(s, x) = Peer!Newest(Append(s, x), MaxQueue)
  BY PeerAssumption DEF Peer!Bounded
<1> QED
  BY <1>1, NewestKeepsTheEnd

LEMMA LeastOfSome ==
    ASSUME NEW S \in SUBSET Nat, S # {}
    PROVE  \E e \in S : \A k \in S : e <= k
<1>1. PICK e \in S : \A k \in S : ~ <<k, e>> \in OpToRel(<, Nat)
  BY ONLY S \in SUBSET Nat, S # {}, NatLessThanWellFounded, WFMin
<1>2. ASSUME NEW k \in S PROVE e <= k
  <2>1. k < e => <<k, e>> \in OpToRel(<, Nat)
    BY Zenon DEF OpToRel
  <2>2. ~(k < e)
    BY <1>1, <2>1, Zenon
  <2> QED
    BY <2>2
<1> QED
  BY <1>2

(* What a start reads back: messages that were noted, and among them every  *)
(* one whose first acceptance is among the last MaxQueue notes; behind it   *)
(* come messages of the seen file only, unless it is crowded.               *)
LEMMA StartReadsBack ==
    ASSUME Peer!MessagingTypes, Peer!FilesHoldAccepted, Peer!FileIsTheEnd, Peer!NotedOnce
    PROVE  /\ Peer!Loaded \in Seq(Peer!Named)
           /\ Peer!Items(Peer!Loaded) \subseteq Peer!Items(v14)
           /\ \A i \in v15 :
                 (/\ Peer!First(i) /\ Peer!Depth(i) <= MaxQueue
                  /\ i \notin v20 \cup Peer!InFrontOfOlder) =>
                 \E p \in DOMAIN Peer!Loaded :
                    Peer!Loaded[p] = v14[i] /\ Len(Peer!Loaded) - p < MaxQueue + Peer!Depth(i)
<1>w. PICK w : w = Peer!Waiting /\ w = v12 \o v18
  BY DEF Peer!Waiting
<1> DEFINE ids == Peer!Ids(w)
           known == ids \o v11
           K == {i \in DOMAIN known : \A h \in 1 .. i - 1 : known[h] # known[i]}
<1>0. MaxQueue \in Nat /\ MaxQueue > 0
  BY PeerAssumption
<1>1. /\ v14 \in Seq(Peer!Named) /\ v11 \in Seq(Peer!Named) /\ v15 \subseteq 1 .. Len(v14)
      /\ Len(v14) \in Nat /\ Len(v11) \in Nat /\ DOMAIN v11 = 1 .. Len(v11) /\ DOMAIN v14 = 1 .. Len(v14)
      /\ \A i \in 1 .. Len(v14) : v14[i] \in Peer!Named
  BY DEF Peer!MessagingTypes
<1>2. /\ w \in Seq(v15) /\ Len(w) \in Nat /\ DOMAIN w = 1 .. Len(w)
      /\ \A k \in 1 .. Len(w) : w[k] \in v15 /\ w[k] \in 1 .. Len(v14)
  <2>1. w \in Seq(v15)
    BY <1>w, ConcatProperties DEF Peer!FilesHoldAccepted
  <2>2. Len(w) \in Nat /\ DOMAIN w = 1 .. Len(w) /\ \A k \in 1 .. Len(w) : w[k] \in v15
    BY <2>1
  <2> QED
    BY <1>1, <2>1, <2>2
<1>3. /\ Len(v11) = IF Len(v14) < MaxQueue THEN Len(v14) ELSE MaxQueue
      /\ \A k \in 1 .. Len(v11) : v11[k] = v14[Len(v14) - Len(v11) + k]
                                  /\ Len(v14) - Len(v11) + k \in 1 .. Len(v14)
  <2>1. Len(v11) = (IF Len(v14) < MaxQueue THEN Len(v14) ELSE MaxQueue)
        /\ \A k \in DOMAIN v11 : v11[k] = v14[Len(v14) - Len(v11) + k]
    BY DEF Peer!FileIsTheEnd
  <2>2. \A k \in 1 .. Len(v11) : Len(v14) - Len(v11) + k \in 1 .. Len(v14)
    BY <1>0, <1>1, <2>1
  <2> QED
    BY <1>1, <2>1, <2>2
<1>4. ids \in Seq(Peer!Named) /\ Len(ids) = Len(w) /\ \A k \in 1 .. Len(w) : ids[k] = v14[w[k]]
  <2>1. ids = [k \in 1 .. Len(w) |-> v14[w[k]]]
    BY <1>2 DEF Peer!Ids
  <2>2. \A k \in 1 .. Len(w) : v14[w[k]] \in Peer!Named
    BY <1>1, <1>2
  <2> QED
    BY <1>2, <2>1, <2>2
<1> HIDE DEF ids
<1>5. /\ known \in Seq(Peer!Named) /\ Len(known) = Len(w) + Len(v11)
      /\ \A k \in 1 .. Len(w) : known[k] = v14[w[k]]
      /\ \A k \in 1 .. Len(v11) : known[Len(w) + k] = v11[k]
      /\ DOMAIN known = 1 .. Len(w) + Len(v11)
  <2>1. known \in Seq(Peer!Named) /\ Len(known) = Len(ids) + Len(v11)
        /\ \A k \in 1 .. Len(ids) + Len(v11) : known[k] = IF k <= Len(ids) THEN ids[k] ELSE v11[k - Len(ids)]
    BY <1>1, <1>4, ConcatProperties
  <2> HIDE DEF known
  <2>2. \A k \in 1 .. Len(w) : known[k] = v14[w[k]]
    BY <1>1, <1>2, <1>4, <2>1
  <2>3. ASSUME NEW k \in 1 .. Len(v11) PROVE known[Len(w) + k] = v11[k]
    <3>1. /\ Len(w) + k \in 1 .. Len(ids) + Len(v11) /\ ~(Len(w) + k <= Len(ids))
          /\ Len(w) + k - Len(ids) = k
      BY <1>1, <1>2, <1>4
    <3> QED
      BY <2>1, <3>1
  <2> QED
    BY <1>4, <2>1, <2>2, <2>3
<1> HIDE DEF known
<1>6. \A k \in DOMAIN known : known[k] \in Peer!Items(v14)
  <2> SUFFICES ASSUME NEW k \in DOMAIN known PROVE known[k] \in Peer!Items(v14)
    OBVIOUS
  <2>1. CASE k <= Len(w)
    BY <1>1, <1>2, <1>5, <2>1 DEF Peer!Items
  <2>2. CASE ~(k <= Len(w))
    <3>1. k - Len(w) \in 1 .. Len(v11) /\ k = Len(w) + (k - Len(w))
      BY <1>1, <1>2, <1>5, <2>2
    <3>2. known[k] = v11[k - Len(w)]
      BY <1>5, <3>1
    <3> QED
      BY <1>1, <1>3, <3>1, <3>2 DEF Peer!Items
  <2> QED
    BY <2>1, <2>2
<1>7. Peer!Loaded = Peer!KeepAt(known, K)
  BY <1>w DEF Peer!Loaded, Peer!FirstOnly, known, ids
<1>8. K \in SUBSET DOMAIN known
  OBVIOUS
<1>9. Peer!Loaded \in Seq(Peer!Named) /\ Peer!Items(Peer!Loaded) \subseteq Peer!Items(v14)
  <2> HIDE DEF K
  <2>1. Peer!Loaded \in Seq(Peer!Named)
    BY <1>5, <1>7, <1>8, WhatIsKept
  <2>2. \A p \in DOMAIN Peer!Loaded : \E i \in K : Peer!Loaded[p] = known[i]
    BY <1>5, <1>7, <1>8, WhatIsKept
  <2> QED
    BY <1>6, <1>8, <2>1, <2>2 DEF Peer!Items
<1>10. ASSUME NEW i \in v15, Peer!First(i), Peer!Depth(i) <= MaxQueue,
              i \notin v20 \cup Peer!InFrontOfOlder
       PROVE  \E p \in DOMAIN Peer!Loaded :
                 Peer!Loaded[p] = v14[i] /\ Len(Peer!Loaded) - p < MaxQueue + Peer!Depth(i)
  <2>1. i \in 1 .. Len(v14) /\ Peer!Depth(i) = Len(v14) - i + 1
    BY <1>1 DEF Peer!Depth
  <2> DEFINE Places == {k \in DOMAIN known : known[k] = v14[i]}
  <2>2. ASSUME NEW h \in 1 .. Len(v14), h > Len(v14) - MaxQueue
        PROVE  \E k \in 1 .. Len(v11) : v11[k] = v14[h]
    <3> DEFINE k0 == h - (Len(v14) - Len(v11))
    <3>1. k0 \in 1 .. Len(v11)
      BY <1>0, <1>1, <1>3, <2>2
    <3>2. Len(v14) - Len(v11) + k0 = h
      BY <1>1, <2>2
    <3> HIDE DEF k0
    <3> QED
      BY <1>3, <3>1, <3>2
  <2>3. PICK k0 \in 1 .. Len(v11) : v11[k0] = v14[i]
    BY <1>0, <1>1, <1>10, <2>1, <2>2
  <2>4. PICK e \in Places : \A k \in Places : e <= k
    <3>1. Len(w) + k0 \in Places
      BY <1>1, <1>2, <1>5, <2>3
    <3>2. Places # {} /\ \A k \in Places : k \in 1 .. Len(w) + Len(v11)
      BY <1>5, <3>1
    <3>3. Places \in SUBSET Nat
      <4> HIDE DEF Places
      <4> QED
        BY <3>2
    <3> HIDE DEF Places
    <3> QED
      BY <3>2, <3>3, LeastOfSome
  <2>5. e \in 1 .. Len(w) + Len(v11) /\ known[e] = v14[i] /\ e \in Int
    BY <1>1, <1>2, <1>5
  <2>6. e \in K
    <3> SUFFICES ASSUME NEW h \in 1 .. e - 1 PROVE known[h] # known[e]
      BY <1>5, <2>5
    <3>1. h \in DOMAIN known /\ ~(e <= h)
      BY <1>1, <1>2, <1>5, <2>5
    <3> QED
      BY <2>4, <2>5, <3>1
  <2>7. ASSUME NEW k \in DOMAIN known, k > e
        PROVE  \E h \in 1 .. Len(v11) : v11[h] = known[k]
    <3>1. CASE k <= Len(w)
      <4>1. e \in DOMAIN w /\ k \in DOMAIN w /\ w[e] \in v15 /\ v14[w[e]] = v14[i] /\ known[k] = v14[w[k]]
        BY <1>1, <1>2, <1>5, <2>5, <2>7, <3>1
      <4>2. w[e] = i
        <5>1. i <= w[e] /\ w[e] \in 1 .. Len(v14)
          BY <1>2, <1>10, <4>1 DEF Peer!First
        <5>2. i < w[e] => w[e] - i > MaxQueue
          BY <1>10, <4>1 DEF Peer!NotedOnce
        <5> QED
          BY <1>0, <1>1, <1>10, <2>1, <5>1, <5>2
      <4>3. ~(w[k] <= Len(v14) - MaxQueue)
        <5> SUFFICES ASSUME w[k] <= Len(v14) - MaxQueue PROVE FALSE
          OBVIOUS
        <5>1. w[e] \in Peer!InFrontOfOlder
          BY <1>w, <2>7, <4>1 DEF Peer!InFrontOfOlder
        <5> QED
          BY <1>10, <4>2, <5>1
      <4>4. w[k] \in 1 .. Len(v14) /\ w[k] > Len(v14) - MaxQueue
        BY <1>0, <1>1, <1>2, <4>1, <4>3
      <4> QED
        BY <2>2, <4>1, <4>4
    <3>2. CASE ~(k <= Len(w))
      <4>1. k - Len(w) \in 1 .. Len(v11) /\ k = Len(w) + (k - Len(w))
        BY <1>1, <1>2, <1>5, <3>2
      <4> QED
        BY <1>5, <4>1
    <3> QED
      BY <3>1, <3>2
  <2> DEFINE L == Peer!Loaded
             p == PeerRank(K, e)
  <2>8. K \in SUBSET (1 .. Len(known)) /\ Len(known) \in Nat /\ DOMAIN known = 1 .. Len(known)
    BY <1>5, <1>8
  <2>9. \A a, b \in K : a < b => known[a] # known[b]
    <3> SUFFICES ASSUME NEW a \in K, NEW b \in K, a < b PROVE known[a] # known[b]
      OBVIOUS
    <3>1. a \in 1 .. b - 1
      BY <2>8
    <3> QED
      BY <3>1
  <2> HIDE DEF K, Places
  <2>10. p \in DOMAIN L /\ L[p] = v14[i] /\ L \in Seq(Peer!Named)
    BY <1>5, <1>7, <1>8, <1>9, <2>5, <2>6, WhatIsKept
  <2>11. Len(L) \in Nat /\ DOMAIN L = 1 .. Len(L) /\ p \in 1 .. Len(L)
    BY <2>10
  <2>12. \A q \in 1 .. Len(L) : \E a \in K : L[q] = known[a] /\ PeerRank(K, a) = q
    <3>1. \A q \in DOMAIN Peer!KeepAt(known, K) :
             \E a \in K : Peer!KeepAt(known, K)[q] = known[a] /\ PeerRank(K, a) = q
      BY <1>5, <1>8, WhatIsKept
    <3>2. DOMAIN L = DOMAIN Peer!KeepAt(known, K) /\ L = Peer!KeepAt(known, K)
      BY <1>7
    <3> HIDE DEF L
    <3> QED
      BY <2>11, <3>1, <3>2
  <2>13. \A a, b \in K : a < b => PeerRank(K, a) < PeerRank(K, b)
    BY <2>8, RanksAreCounted
  <2>14. \A a \in K : PeerRank(K, a) \in Int /\ a \in Int
    <3>1. /\ Peer!Cardinality(K) \in Nat
          /\ \A a \in K : PeerRank(K, a) \in 1 .. Peer!Cardinality(K)
      BY <2>8, RanksAreCounted
    <3> QED
      BY <2>8, <3>1
  <2> HIDE DEF L, p
  <2>15. ASSUME NEW q \in 1 .. Len(L), NEW r \in 1 .. Len(L), q < r
         PROVE  L[q] # L[r]
    <3>1. PICK a \in K : L[q] = known[a] /\ PeerRank(K, a) = q
      BY <2>12
    <3>2. PICK b \in K : L[r] = known[b] /\ PeerRank(K, b) = r
      BY <2>12
    <3>3. a # b /\ ~(b < a)
      BY <2>13, <2>14, <2>15, <3>1, <3>2
    <3>4. a < b
      BY <2>14, <3>3
    <3> QED
      BY <2>9, <3>1, <3>2, <3>4
  <2>16. ASSUME NEW q \in p .. Len(L)
         PROVE  \E h \in 1 .. Len(v11) : v11[h] = L[q]
    <3>1. CASE q = p
      BY <2>3, <2>10, <3>1
    <3>2. CASE q # p
      <4>1. q \in 1 .. Len(L) /\ q > p
        BY <2>11, <3>2
      <4>2. PICK a \in K : L[q] = known[a] /\ PeerRank(K, a) = q
        BY <2>12, <4>1
      <4>3. p = PeerRank(K, e)
        BY DEF p
      <4>4. a # e /\ ~(a < e)
        BY <2>6, <2>11, <2>13, <2>14, <4>1, <4>2, <4>3
      <4>5. a > e /\ a \in DOMAIN known
        BY <2>6, <2>8, <2>14, <4>4
      <4> QED
        BY <2>7, <4>2, <4>5
    <3> QED
      BY <3>1, <3>2
  <2> DEFINE g == [q \in p .. Len(L) |-> CHOOSE h \in 1 .. Len(v11) : v11[h] = L[q]]
  <2>17. \A q \in p .. Len(L) : g[q] \in 1 .. Len(v11) /\ v11[g[q]] = L[q]
    BY <2>16
  <2>18. \A q, r \in p .. Len(L) : q # r => g[q] # g[r]
    <3> HIDE DEF g
    <3> SUFFICES ASSUME NEW q \in p .. Len(L), NEW r \in p .. Len(L), q # r PROVE g[q] # g[r]
      OBVIOUS
    <3>1. q \in 1 .. Len(L) /\ r \in 1 .. Len(L) /\ (q < r \/ r < q)
      BY <2>11
    <3>2. L[q] # L[r]
      BY <2>15, <3>1
    <3> QED
      BY <2>17, <3>2
  <2>19. g \in Peer!Injection(p .. Len(L), 1 .. Len(v11))
    BY <2>17, <2>18 DEF Peer!Injection, Peer!IsInjective
  <2> HIDE DEF g
  <2>20. Peer!IsFiniteSet(1 .. Len(v11)) /\ Peer!Cardinality(1 .. Len(v11)) = Len(v11)
    <3>1. Len(v11) \in Nat
      BY <1>1
    <3>2. Peer!IsFiniteSet(1 .. Len(v11))
      BY <3>1, Peer!FS_Interval
    <3>3. Peer!Cardinality(1 .. Len(v11)) = IF 1 > Len(v11) THEN 0 ELSE Len(v11) - 1 + 1
      BY <3>1, Peer!FS_Interval
    <3> QED
      BY <3>1, <3>2, <3>3
  <2>21. Peer!Cardinality(p .. Len(L)) = Len(L) - p + 1
    BY <2>11, Peer!FS_Interval
  <2>22. Peer!Cardinality(p .. Len(L)) <= Peer!Cardinality(1 .. Len(v11))
    BY <2>19, <2>20, Peer!FS_Injection
  <2>23. Len(L) - p < MaxQueue + Peer!Depth(i)
    BY <1>0, <1>1, <1>3, <2>1, <2>11, <2>20, <2>21, <2>22
  <2>24. p \in DOMAIN L
    BY <2>11
  <2> QED
    BY <2>10, <2>23, <2>24 DEF L
<1> QED
  BY <1>9, <1>10

LEMMA WhereItIsKept ==
    ASSUME NEW S, NEW s \in Seq(S), NEW x \in S, NEW k \in DOMAIN Peer!Bounded(s, x)
    PROVE  /\ k = Len(Peer!Bounded(s, x)) => Peer!Bounded(s, x)[k] = x
           /\ \A h \in DOMAIN s : h = Len(s) + 1 - Len(Peer!Bounded(s, x)) + k => Peer!Bounded(s, x)[k] = s[h]
BY BoundedKeepsTheEnd DEF EndsLike

Good == {"delivered", "held"}
(* Whatever happened to the request, the note that is being made is as before. *)
NotingStays == (v5'.at = "noted" <=> v5.at = "noted") /\ (v5.at = "noted" => v5'.id = v5.id)

LEMMA PeerInitially == Peer!MessagingInit => Peer!PeerInv
<1> SUFFICES ASSUME Peer!MessagingInit PROVE Peer!PeerInv
  OBVIOUS
<1> USE DEF Peer!MessagingInit, Peer!Idle, Peer!NoWire
<1>1. Peer!MessagingTypes
  BY DEF Peer!MessagingTypes, Peer!Records, Peer!Senders, Peer!Wires, Peer!Answers, Peer!Named
<1>2. Peer!FilesHoldAccepted /\ Peer!NotedIsLast /\ Peer!FileIsTheEnd
  BY PeerAssumption DEF Peer!FilesHoldAccepted, Peer!Reviews, Peer!NoReview, Peer!NotedIsLast, Peer!FileIsTheEnd
<1>3. Peer!RecentIsKnown /\ Peer!NotedOnce /\ Peer!AnswersAreTrue
  BY DEF Peer!RecentIsKnown, Peer!NotedOnce, Peer!AnswersAreTrue, Peer!Items
<1> QED
  BY <1>1, <1>2, <1>3 DEF Peer!PeerInv

LEMMA WhatWasHeard ==
    ASSUME Peer!MessagingTypes, Peer!NotedIsLast, NEW m
    PROVE  Peer!Heard(m) <=> \E i \in DOMAIN v14 \ Peer!Noting : v14[i] = m
<1>1. v15 \cup Peer!Cut = DOMAIN v14 \ Peer!Noting
  BY DEF Peer!Cut, Peer!Noting, Peer!NotedIsLast, Peer!MessagingTypes
<1> QED
  BY <1>1 DEF Peer!Heard

(* A step that changes neither what was noted nor what is queued.           *)
LEMMA MemoryStays ==
    ASSUME Peer!PeerInv, UNCHANGED <<v9, v10, v11, v12, v14, v15, v18, v19, v20>>, NotingStays
    PROVE  /\ Peer!FilesHoldAccepted' /\ Peer!NotedIsLast' /\ Peer!FileIsTheEnd' /\ Peer!RecentIsKnown'
           /\ Peer!NotedOnce' /\ \A m : Peer!Heard(m) => Peer!Heard(m)'
<1>1. Peer!Noting' = Peer!Noting
  BY DEF NotingStays, Peer!Noting
<1>2. Peer!FilesHoldAccepted' /\ Peer!FileIsTheEnd'
  BY DEF Peer!PeerInv, Peer!FilesHoldAccepted, Peer!Reviews, Peer!FileIsTheEnd
<1>3. Peer!NotedIsLast'
  BY DEF Peer!PeerInv, Peer!NotedIsLast, NotingStays
<1>4. Peer!RecentIsKnown'
  BY <1>1 DEF Peer!PeerInv, Peer!RecentIsKnown, Peer!Items, Peer!First, Peer!Depth
<1>5. Peer!NotedOnce'
  BY <1>1 DEF Peer!PeerInv, Peer!NotedOnce, Peer!First
<1>6. \A m : Peer!Heard(m) => Peer!Heard(m)'
  BY <1>1 DEF Peer!Heard, Peer!Cut
<1> QED
  BY <1>2, <1>3, <1>4, <1>5, <1>6

LEMMA QuietStepKeepsPeer ==
    ASSUME Peer!PeerInv, UNCHANGED <<v8, v9, v10, v11, v12, v14, v15, v18, v19, v20>>, NotingStays,
           v2' \in Seq(Peer!Records), v3' \in Peer!Senders, v5' \in Peer!Wires, v6' \in Nat,
           v5'.at = "replied" /\ v5'.reply \in Good => Peer!Heard(v5'.id),
           \A r \in Peer!Items(v2') : r.status \in Good => Peer!Heard(r.id)
    PROVE  Peer!PeerInv'
<1>1. /\ Peer!FilesHoldAccepted' /\ Peer!NotedIsLast' /\ Peer!FileIsTheEnd' /\ Peer!RecentIsKnown'
      /\ Peer!NotedOnce' /\ \A m : Peer!Heard(m) => Peer!Heard(m)'
  BY MemoryStays
<1>2. Peer!MessagingTypes'
  BY DEF Peer!PeerInv, Peer!MessagingTypes
<1>3. Peer!AnswersAreTrue'
  <2>1. \A m : v5'.id = m /\ v5'.at = "replied" /\ v5'.reply \in Good => Peer!Heard(m)'
    BY <1>1
  <2>2. \A r \in Peer!Items(v2') : r.status \in Good => Peer!Heard(r.id)'
    BY <1>1
  <2> QED
    BY <2>1, <2>2 DEF Peer!AnswersAreTrue, Good, Peer!Items
<1> QED
  BY <1>1, <1>2, <1>3 DEF Peer!PeerInv

(* The outbox after one more record.                                        *)
LEMMA OutboxGrows ==
    ASSUME Peer!PeerInv, NEW r \in Peer!Records, v2' = Peer!Bounded(v2, r),
           r.status \in Good => Peer!Heard(r.id)
    PROVE  /\ v2' \in Seq(Peer!Records)
           /\ \A x \in Peer!Items(v2') : x.status \in Good => Peer!Heard(x.id)
<1>1. v2 \in Seq(Peer!Records) /\ \A x \in Peer!Items(v2) : x.status \in Good => Peer!Heard(x.id)
  BY DEF Peer!PeerInv, Peer!MessagingTypes, Peer!AnswersAreTrue, Good
<1>2. Peer!Bounded(v2, r) \in Seq(Peer!Records) /\ Peer!Items(Peer!Bounded(v2, r)) \subseteq Peer!Items(v2) \cup {r}
  BY <1>1, BoundedKeepsTheEnd
<1> QED
  BY <1>1, <1>2 DEF Peer!Items

LEMMA SenderRecord ==
    ASSUME NEW a \in {"idle", "resolve", "connect", "wait"}, NEW i \in Peer!Named, NEW t \in SUBSET Messages, NEW c \in Nat
    PROVE  [at |-> a, id |-> i, todo |-> t, cap |-> c] \in Peer!Senders
BY DEF Peer!Senders

LEMMA ConcludingIsTrue ==
    ASSUME Peer!PeerInv, NEW st \in Peer!Answers, Peer!Conclude(st), st \in Good => Peer!Heard(v3.id)
    PROVE  /\ v2' \in Seq(Peer!Records) /\ v3' \in Peer!Senders
           /\ \A x \in Peer!Items(v2') : x.status \in Good => Peer!Heard(x.id)
<1>1. v3 \in Peer!Senders
  BY DEF Peer!PeerInv, Peer!MessagingTypes
<1> DEFINE r == Peer!Receipt(v3.id, st)
<1>2. r \in Peer!Records /\ r.status = st /\ r.id = v3.id /\ v2' = Peer!Bounded(v2, r)
  BY <1>1 DEF Peer!Conclude, Peer!Receipt, Peer!Records, Peer!Senders
<1> HIDE DEF r
<1>3. v2' \in Seq(Peer!Records) /\ \A x \in Peer!Items(v2') : x.status \in Good => Peer!Heard(x.id)
  BY <1>2, OutboxGrows
<1>4. v3' \in Peer!Senders
  <2>1. CASE v3.todo = {}
    <3>1. v3' = [at |-> "idle", id |-> "none", todo |-> {}, cap |-> 0] /\ "none" \in Peer!Named
      BY <2>1 DEF Peer!Conclude, Peer!Idle, Peer!Named
    <3> QED
      BY <3>1, SenderRecord
  <2>2. CASE v3.todo # {}
    <3> DEFINE m == CHOOSE x \in v3.todo : TRUE
    <3>1. m \in v3.todo /\ v3.todo \in SUBSET Messages
      BY <1>1, <2>2 DEF Peer!Senders
    <3>2. m \in Peer!Named /\ v3.todo \ {m} \in SUBSET Messages
      BY <3>1 DEF Peer!Named
    <3>3. v3' = [at |-> "resolve", id |-> m, todo |-> v3.todo \ {m}, cap |-> 0]
      BY <2>2 DEF Peer!Conclude
    <3> HIDE DEF m
    <3> QED
      BY <3>2, <3>3, SenderRecord
  <2> QED
    BY <2>1, <2>2
<1> QED
  BY <1>3, <1>4

(* A step of the sender: it concludes with what its request has earned, or  *)
(* goes on, and the request it leaves behind keeps what was noted.          *)
LEMMA WireRecord ==
    ASSUME NEW a \in {"none", "sent", "noted", "replied"}, NEW i \in Peer!Named, NEW c \in Nat,
           NEW r \in Peer!Answers
    PROVE  [at |-> a, id |-> i, cap |-> c, reply |-> r] \in Peer!Wires
BY DEF Peer!Wires

LEMMA NoWireIsOne == Peer!NoWire \in Peer!Wires /\ Peer!NoWire.at = "none"
BY WireRecord DEF Peer!NoWire, Peer!Named, Peer!Answers

LEMMA LeavingKeepsTheNote ==
    ASSUME v5 \in Peer!Wires, v5' = IF v5.at = "replied" THEN Peer!NoWire ELSE [v5 EXCEPT !.reply = "left"]
    PROVE  v5' \in Peer!Wires /\ NotingStays /\ (v5'.at = "replied" /\ v5'.reply \in Good => FALSE)
<1>1. CASE v5.at = "replied"
  BY <1>1, NoWireIsOne DEF NotingStays
<1>2. CASE v5.at # "replied"
  <2>1. v5' = [v5 EXCEPT !.reply = "left"]
    BY <1>2
  <2>2. v5'.at = v5.at /\ v5'.id = v5.id /\ v5' \in Peer!Wires
    BY <2>1 DEF Peer!Wires, Peer!Answers
  <2> QED
    BY <1>2, <2>2 DEF NotingStays
<1> QED
  BY <1>1, <1>2

LEMMA SenderKeepsPeer ==
    ASSUME Peer!PeerInv,
           \/ \E m \in Messages : Peer!Send(m) \/ Peer!Expire(m)
           \/ Peer!Retry \/ Peer!GiveUp \/ Peer!Resolve \/ Peer!Connect
           \/ Peer!GetReply \/ Peer!SendTimeout \/ Peer!SenderRestarts
    PROVE  Peer!PeerInv'
<1>1. /\ v2 \in Seq(Peer!Records) /\ v3 \in Peer!Senders /\ v5 \in Peer!Wires /\ v6 \in Nat
      /\ v5.at = "replied" /\ v5.reply \in Good => Peer!Heard(v5.id)
      /\ \A r \in Peer!Items(v2) : r.status \in Good => Peer!Heard(r.id)
  BY DEF Peer!PeerInv, Peer!MessagingTypes, Peer!AnswersAreTrue, Good
<1>2. v5' = v5 => NotingStays /\ v5' \in Peer!Wires
                  /\ (v5'.at = "replied" /\ v5'.reply \in Good => Peer!Heard(v5'.id))
  BY <1>1 DEF NotingStays
<1>3. UNCHANGED Peer!receiverVars => UNCHANGED <<v8, v9, v10, v11, v12, v14, v15, v18, v19, v20>>
  BY DEF Peer!receiverVars, Peer!files
<1> USE DEF Peer!Answers
<1>a. ASSUME NEW m \in Messages, Peer!Send(m) PROVE Peer!PeerInv'
  <2> DEFINE r == Peer!Pending(m)
  <2>1. r \in Peer!Records /\ r.status = "none" /\ v2' = Peer!Bounded(v2, r)
    BY <1>a DEF Peer!Send, Peer!Pending, Peer!Records, Peer!Named
  <2> HIDE DEF r
  <2>2. v2' \in Seq(Peer!Records) /\ \A x \in Peer!Items(v2') : x.status \in Good => Peer!Heard(x.id)
    BY <2>1, OutboxGrows DEF Good
  <2>3. v3' \in Peer!Senders
    <3>1. v3' = [at |-> "resolve", id |-> m, todo |-> {}, cap |-> 0]
      BY <1>a DEF Peer!Send, Peer!Idle
    <3> QED
      BY <3>1, SenderRecord DEF Peer!Named
  <2>4. v5' = v5 /\ v6' = v6 /\ UNCHANGED Peer!receiverVars
    BY <1>a DEF Peer!Send
  <2> QED
    BY <1>1, <1>2, <1>3, <2>2, <2>3, <2>4, QuietStepKeepsPeer
<1>b. ASSUME NEW m \in Messages, Peer!Expire(m) PROVE Peer!PeerInv'
  <2>1. UNCHANGED <<v2, v3, v5, v6>> /\ UNCHANGED Peer!receiverVars
    BY <1>b DEF Peer!Expire
  <2> QED
    BY <1>1, <1>2, <1>3, <2>1, QuietStepKeepsPeer
<1>c. ASSUME Peer!Retry PROVE Peer!PeerInv'
  <2>1. UNCHANGED <<v2, v5, v6>> /\ UNCHANGED Peer!receiverVars
    BY <1>c DEF Peer!Retry
  <2>2. PICK m \in Peer!Retryable : v3' = [at |-> "resolve", id |-> m, todo |-> Peer!Retryable \ {m}, cap |-> 0]
    BY <1>c DEF Peer!Retry
  <2>3. Peer!Retryable \in SUBSET Messages
    BY DEF Peer!Retryable
  <2>4. m \in Peer!Named /\ Peer!Retryable \ {m} \in SUBSET Messages
    BY <2>3 DEF Peer!Named
  <2>5. v3' \in Peer!Senders
    BY <2>2, <2>4, SenderRecord
  <2> QED
    BY <1>1, <1>2, <1>3, <2>1, <2>5, QuietStepKeepsPeer
<1>d. ASSUME Peer!GiveUp PROVE Peer!PeerInv'
  <2>1. UNCHANGED <<v5, v6>> /\ UNCHANGED Peer!receiverVars /\ Peer!Conclude("expired")
    BY <1>d DEF Peer!GiveUp
  <2>2. /\ v2' \in Seq(Peer!Records) /\ v3' \in Peer!Senders
        /\ \A x \in Peer!Items(v2') : x.status \in Good => Peer!Heard(x.id)
    BY <2>1, ConcludingIsTrue DEF Good
  <2> QED
    BY <1>1, <1>2, <1>3, <2>1, <2>2, QuietStepKeepsPeer
<1>e. ASSUME Peer!Resolve PROVE Peer!PeerInv'
  <2>1. v5' = v5 /\ UNCHANGED Peer!receiverVars
    BY <1>e DEF Peer!Resolve
  <2>2. CASE v3' = [v3 EXCEPT !.at = "connect", !.cap = v6] /\ UNCHANGED <<v2, v6>>
    <3>1. v3' \in Peer!Senders
      BY <1>1, <2>2 DEF Peer!Senders
    <3> QED
      BY <1>1, <1>2, <1>3, <2>1, <2>2, <3>1, QuietStepKeepsPeer
  <2>3. CASE v6' = 0 /\ Peer!Conclude("unreachable")
    <3>1. /\ v2' \in Seq(Peer!Records) /\ v3' \in Peer!Senders
          /\ \A x \in Peer!Items(v2') : x.status \in Good => Peer!Heard(x.id)
      BY <2>3, ConcludingIsTrue DEF Good
    <3> QED
      BY <1>1, <1>2, <1>3, <2>1, <2>3, <3>1, QuietStepKeepsPeer
  <2> QED
    BY <1>e, <2>2, <2>3 DEF Peer!Resolve
<1>f. ASSUME Peer!Connect PROVE Peer!PeerInv'
  <2>1. v6' = v6 /\ UNCHANGED Peer!receiverVars
    BY <1>f DEF Peer!Connect
  <2>2. CASE /\ v5.at = "none" /\ v3' = [v3 EXCEPT !.at = "wait"] /\ v2' = v2
             /\ v5' = [at |-> "sent", id |-> v3.id, cap |-> v3.cap, reply |-> "none"]
    <3>1. v3' \in Peer!Senders
      BY <1>1, <2>2 DEF Peer!Senders
    <3>2. v3.id \in Peer!Named /\ v3.cap \in Nat
      BY <1>1 DEF Peer!Senders
    <3>3. v5' \in Peer!Wires /\ v5'.at = "sent"
      BY <2>2, <3>2, WireRecord
    <3>4. NotingStays
      BY <2>2, <3>3 DEF NotingStays
    <3> QED
      BY <1>1, <1>3, <2>1, <2>2, <3>1, <3>3, <3>4, QuietStepKeepsPeer
  <2>3. CASE Peer!Conclude("unreachable") /\ v5' = v5
    <3>1. /\ v2' \in Seq(Peer!Records) /\ v3' \in Peer!Senders
          /\ \A x \in Peer!Items(v2') : x.status \in Good => Peer!Heard(x.id)
      BY <2>3, ConcludingIsTrue DEF Good
    <3> QED
      BY <1>1, <1>2, <1>3, <2>1, <2>3, <3>1, QuietStepKeepsPeer
  <2> QED
    BY <1>f, <2>2, <2>3 DEF Peer!Connect
<1>g. ASSUME Peer!GetReply PROVE Peer!PeerInv'
  <2>1. /\ v5.at = "replied" /\ v5.id = v3.id /\ v5' = Peer!NoWire /\ v6' = v6
        /\ Peer!Conclude(v5.reply) /\ UNCHANGED Peer!receiverVars
    BY <1>g DEF Peer!GetReply
  <2>2. v5.reply \in Peer!Answers
    BY <1>1 DEF Peer!Wires
  <2>3. /\ v2' \in Seq(Peer!Records) /\ v3' \in Peer!Senders
        /\ \A x \in Peer!Items(v2') : x.status \in Good => Peer!Heard(x.id)
    <3> HIDE DEF Peer!Answers
    <3> QED
      BY <1>1, <2>1, <2>2, ConcludingIsTrue
  <2>4. NotingStays /\ v5' \in Peer!Wires /\ v5'.at # "replied"
    BY <2>1, NoWireIsOne DEF NotingStays
  <2> QED
    BY <1>1, <1>3, <2>1, <2>3, <2>4, QuietStepKeepsPeer
<1>h. ASSUME Peer!SendTimeout \/ Peer!SenderRestarts PROVE Peer!PeerInv'
  <2>1. /\ v5' = IF v5.at = "replied" THEN Peer!NoWire ELSE [v5 EXCEPT !.reply = "left"]
        /\ v6' = v6 /\ UNCHANGED Peer!receiverVars
    BY <1>h DEF Peer!SendTimeout, Peer!SenderRestarts
  <2>2. v5' \in Peer!Wires /\ NotingStays /\ (v5'.at = "replied" /\ v5'.reply \in Good => FALSE)
    BY <1>1, <2>1, LeavingKeepsTheNote
  <2>3. CASE Peer!SendTimeout
    <3>1. /\ v2' \in Seq(Peer!Records) /\ v3' \in Peer!Senders
          /\ \A x \in Peer!Items(v2') : x.status \in Good => Peer!Heard(x.id)
      BY <2>3, ConcludingIsTrue DEF Good, Peer!SendTimeout
    <3> QED
      BY <1>1, <1>3, <2>1, <2>2, <3>1, QuietStepKeepsPeer
  <2>4. CASE Peer!SenderRestarts
    <3>1. v2' = v2 /\ v3' = [at |-> "idle", id |-> "none", todo |-> {}, cap |-> 0]
      BY <2>4 DEF Peer!SenderRestarts, Peer!Idle
    <3>2. v3' \in Peer!Senders
      BY <3>1, SenderRecord DEF Peer!Named
    <3> QED
      BY <1>1, <1>3, <2>1, <2>2, <3>1, <3>2, QuietStepKeepsPeer
  <2> QED
    BY <1>h, <2>3, <2>4
<1> QED
  BY <1>a, <1>b, <1>c, <1>d, <1>e, <1>f, <1>g, <1>h

(* The receiver answers, without having noted anything.                     *)
LEMMA ReceiveKeepsPeer ==
    ASSUME Peer!PeerInv, Peer!Receive, ~Peer!Note
    PROVE  Peer!PeerInv'
<1>1. /\ v2 \in Seq(Peer!Records) /\ v3 \in Peer!Senders /\ v5 \in Peer!Wires /\ v6 \in Nat
      /\ \A r \in Peer!Items(v2) : r.status \in Good => Peer!Heard(r.id)
  BY DEF Peer!PeerInv, Peer!MessagingTypes, Peer!AnswersAreTrue, Good
<1>2. /\ UNCHANGED <<v2, v3, v6, v8, v9, v10, v11, v12, v14, v15, v18, v19, v20>> /\ v5.at = "sent"
      /\ \E st \in {"refused", "expired", "delivered"} :
            Peer!Answer(st) /\ (st = "delivered" => v5.id \in Peer!Items(v10))
  BY DEF Peer!Receive, Peer!files
<1>3. PICK st \in {"refused", "expired", "delivered"} :
            Peer!Answer(st) /\ (st = "delivered" => v5.id \in Peer!Items(v10))
  BY <1>2
<1>4. v5.id \in Peer!Items(v10) => Peer!Heard(v5.id)
  <2>1. Peer!Noting = {}
    BY <1>2 DEF Peer!Noting
  <2>2. v5.id \in Peer!Items(v10) => \E i \in DOMAIN v14 : v14[i] = v5.id
    BY DEF Peer!PeerInv, Peer!RecentIsKnown, Peer!Items
  <2> QED
    BY <2>1, <2>2, WhatWasHeard DEF Peer!PeerInv
<1>5. v5' \in Peer!Wires /\ NotingStays /\ (v5'.at = "replied" => v5'.reply = st /\ v5'.id = v5.id)
  <2>1. CASE v5.reply = "left"
    BY <1>2, <1>3, <2>1, NoWireIsOne DEF Peer!Answer, NotingStays
  <2>2. CASE v5.reply # "left"
    <3>1. v5' = [v5 EXCEPT !.at = "replied", !.reply = st]
      BY <1>3, <2>2 DEF Peer!Answer
    <3>2. v5'.at = "replied" /\ v5'.reply = st /\ v5'.id = v5.id /\ v5' \in Peer!Wires
      BY <1>1, <3>1 DEF Peer!Wires, Peer!Answers
    <3> QED
      BY <1>2, <3>2 DEF NotingStays
  <2> QED
    BY <2>1, <2>2
<1>6. v5'.at = "replied" /\ v5'.reply \in Good => Peer!Heard(v5'.id)
  BY <1>3, <1>4, <1>5 DEF Good
<1> QED
  BY <1>1, <1>2, <1>5, <1>6, QuietStepKeepsPeer

(* Whatever happens to the files, as long as they hold what was accepted.   *)
LEMMA OtherFilesKeepPeer ==
    ASSUME Peer!PeerInv, UNCHANGED <<v2, v3, v5, v6, v8, v9, v10, v11, v14, v15, v20>>,
           Peer!FilesHoldAccepted'
    PROVE  Peer!PeerInv'
<1>1. Peer!MessagingTypes' /\ Peer!FileIsTheEnd'
  BY DEF Peer!PeerInv, Peer!MessagingTypes, Peer!FileIsTheEnd
<1>2. Peer!NotedIsLast'
  BY DEF Peer!PeerInv, Peer!NotedIsLast
<1>3. Peer!RecentIsKnown' /\ Peer!NotedOnce'
  BY DEF Peer!PeerInv, Peer!RecentIsKnown, Peer!NotedOnce, Peer!Items, Peer!First, Peer!Depth, Peer!Noting
<1>4. Peer!AnswersAreTrue'
  BY DEF Peer!PeerInv, Peer!AnswersAreTrue, Peer!Items, Peer!Heard, Peer!Cut, Peer!Noting
<1> QED
  BY <1>1, <1>2, <1>3, <1>4 DEF Peer!PeerInv

LEMMA ReviewRecord ==
    ASSUME NEW a \in {"idle", "decide", "list", "append"}, NEW l \in Seq(v15), NEW x \in v15 \cup {0}
    PROVE  [at |-> a, rest |-> l, item |-> x] \in Peer!Reviews
BY DEF Peer!Reviews

(* One reviewer's record changes.                                           *)
LEMMA OneReview ==
    ASSUME Peer!FilesHoldAccepted, NEW r \in Reviewers, NEW rec \in Peer!Reviews,
           v19' = [v19 EXCEPT ![r] = rec], rec.at \in {"decide", "append"} => rec.item \in v15, v15' = v15,
           v12' \in Seq(v15), v18' \in Seq(v15)
    PROVE  Peer!FilesHoldAccepted'
BY DEF Peer!FilesHoldAccepted, Peer!Reviews

LEMMA TakingKeepsPeer ==
    ASSUME Peer!PeerInv, Peer!Drain \/ Peer!Drained \/ Peer!Review
    PROVE  Peer!PeerInv'
<1>1. UNCHANGED <<v2, v3, v5, v6, v8, v9, v10, v11, v14, v15, v20>>
  BY DEF Peer!Drain, Peer!Drained, Peer!Review, Peer!ReviewReads, Peer!ReviewWrites, Peer!ReviewAppends,
         Peer!ReviewerDies, Peer!filesAside
<1>2. /\ Peer!FilesHoldAccepted /\ v12 \in Seq(v15) /\ v18 \in Seq(v15) /\ v19 \in [Reviewers -> Peer!Reviews]
      /\ <<>> \in Seq(v15)
  BY DEF Peer!PeerInv, Peer!FilesHoldAccepted
<1>3. CASE Peer!Drain
  <2>1. UNCHANGED <<v12, v18, v19>>
    BY <1>3 DEF Peer!Drain, Peer!files
  <2>2. Peer!FilesHoldAccepted'
    BY <1>1, <1>2, <2>1 DEF Peer!FilesHoldAccepted, Peer!Reviews
  <2> QED
    BY <1>1, <2>2, OtherFilesKeepPeer
<1>4. CASE Peer!Drained
  <2>1. v12' = <<>> /\ UNCHANGED <<v18, v19>>
    BY <1>4 DEF Peer!Drained
  <2>2. Peer!FilesHoldAccepted'
    BY <1>1, <1>2, <2>1 DEF Peer!FilesHoldAccepted, Peer!Reviews
  <2> QED
    BY <1>1, <2>2, OtherFilesKeepPeer
<1>5. CASE Peer!Review
  <2>1. PICK r \in Reviewers : \/ Peer!ReviewReads(r) \/ Peer!ReviewWrites(r)
                              \/ Peer!ReviewAppends(r) \/ Peer!ReviewerDies(r)
    BY <1>5 DEF Peer!Review
  <2>0. /\ v19[r].rest \in Seq(v15) /\ v19[r].item \in v15 \cup {0}
        /\ v19[r].at \in {"decide", "append"} => v19[r].item \in v15
    BY <1>2 DEF Peer!FilesHoldAccepted, Peer!Reviews
  <2>n. Peer!NoReview \in Peer!Reviews /\ Peer!NoReview.at = "idle"
    BY <1>2, ReviewRecord DEF Peer!NoReview
  <2>k. \A S : Peer!Without(S) \in Seq(v15)
    <3> SUFFICES ASSUME NEW S PROVE Peer!Without(S) \in Seq(v15)
      OBVIOUS
    <3>1. {i \in DOMAIN v18 : v14[v18[i]] \notin S} \in SUBSET DOMAIN v18
      OBVIOUS
    <3> QED
      BY <1>2, <3>1, WhatIsKept DEF Peer!Without
  <2>2. CASE Peer!ReviewReads(r)
    <3>1. CASE \E i \in DOMAIN v18 : v19' = [v19 EXCEPT ![r] =
                 [at |-> "decide", rest |-> Peer!Without({v14[v18[i]]}), item |-> v18[i]]]
      <4>1. PICK i \in DOMAIN v18 : v19' = [v19 EXCEPT ![r] =
                 [at |-> "decide", rest |-> Peer!Without({v14[v18[i]]}), item |-> v18[i]]]
        BY <3>1
      <4>2. PICK l : l = Peer!Without({v14[v18[i]]})
        OBVIOUS
      <4>3. l \in Seq(v15) /\ v18[i] \in v15
        BY <1>2, <2>k, <4>2
      <4>4. PICK rec : rec = [at |-> "decide", rest |-> l, item |-> v18[i]]
        OBVIOUS
      <4>5. rec \in Peer!Reviews /\ rec.item \in v15 /\ v19' = [v19 EXCEPT ![r] = rec]
        BY <4>1, <4>2, <4>3, <4>4, ReviewRecord
      <4>6. v12' = v12 /\ v18' = v18
        BY <2>2 DEF Peer!ReviewReads
      <4>7. Peer!FilesHoldAccepted'
        BY <1>1, <1>2, <4>5, <4>6, OneReview
      <4> QED
        BY <1>1, <4>7, OtherFilesKeepPeer
    <3>2. CASE v19' = [v19 EXCEPT ![r] = [at |-> "list", rest |-> Peer!Without(v17), item |-> 0]]
      <4>1. PICK rec : rec = [at |-> "list", rest |-> Peer!Without(v17), item |-> 0]
        OBVIOUS
      <4>2. rec \in Peer!Reviews /\ rec.at = "list" /\ v19' = [v19 EXCEPT ![r] = rec]
        BY <2>k, <3>2, <4>1, ReviewRecord
      <4>3. v12' = v12 /\ v18' = v18
        BY <2>2 DEF Peer!ReviewReads
      <4>4. Peer!FilesHoldAccepted'
        BY <1>1, <1>2, <4>2, <4>3, OneReview
      <4> QED
        BY <1>1, <4>4, OtherFilesKeepPeer
    <3> QED
      BY <2>2, <3>1, <3>2 DEF Peer!ReviewReads
  <2>3. CASE Peer!ReviewWrites(r)
    <3>1. v18' = v19[r].rest /\ v12' = v12 /\ v19[r].at \in {"decide", "list"}
      BY <2>3 DEF Peer!ReviewWrites
    <3>2. CASE /\ v19[r].at = "decide"
               /\ v19' = [v19 EXCEPT ![r] = [at |-> "append", rest |-> <<>>, item |-> v19[r].item]]
      <4>1. PICK rec : rec = [at |-> "append", rest |-> <<>>, item |-> v19[r].item]
        OBVIOUS
      <4>2. rec \in Peer!Reviews /\ rec.item \in v15 /\ v19' = [v19 EXCEPT ![r] = rec]
        BY <1>2, <2>0, <3>2, <4>1, ReviewRecord
      <4>3. Peer!FilesHoldAccepted'
        BY <1>1, <1>2, <2>0, <3>1, <4>2, OneReview
      <4> QED
        BY <1>1, <4>3, OtherFilesKeepPeer
    <3>3. CASE v19' = [v19 EXCEPT ![r] = Peer!NoReview]
      <4>1. Peer!FilesHoldAccepted'
        BY <1>1, <1>2, <2>0, <2>n, <3>1, <3>3, OneReview
      <4> QED
        BY <1>1, <4>1, OtherFilesKeepPeer
    <3> QED
      BY <2>3, <3>2, <3>3 DEF Peer!ReviewWrites
  <2>4. CASE Peer!ReviewAppends(r)
    <3>1. /\ v12' = Peer!Bounded(v12, v19[r].item) /\ v18' = v18 /\ v19[r].at = "append"
          /\ v19' = [v19 EXCEPT ![r] = Peer!NoReview]
      BY <2>4 DEF Peer!ReviewAppends
    <3>2. v12' \in Seq(v15)
      BY <1>2, <2>0, <3>1, BoundedKeepsTheEnd
    <3>3. Peer!FilesHoldAccepted'
      BY <1>1, <1>2, <2>n, <3>1, <3>2, OneReview
    <3> QED
      BY <1>1, <3>3, OtherFilesKeepPeer
  <2>5. CASE Peer!ReviewerDies(r)
    <3>1. v12' = v12 /\ v18' = v18 /\ v19' = [v19 EXCEPT ![r] = Peer!NoReview]
      BY <2>5 DEF Peer!ReviewerDies
    <3>2. Peer!FilesHoldAccepted'
      BY <1>1, <1>2, <2>n, <3>1, OneReview
    <3> QED
      BY <1>1, <3>2, OtherFilesKeepPeer
  <2> QED
    BY <2>1, <2>2, <2>3, <2>4, <2>5
<1> QED
  BY <1>3, <1>4, <1>5

(* The receiver stops, crashes or starts.                                   *)
LEMMA DownKeepsPeer ==
    ASSUME Peer!PeerInv, Peer!Down, v5' = Peer!NoWire, v6' \in Nat
    PROVE  Peer!PeerInv'
<1>1. UNCHANGED <<v2, v3, v8, v11, v12, v14, v15, v18, v19, v20>> /\ v9' = FALSE /\ v10' = <<>>
  BY DEF Peer!Down, Peer!files
<1>2. v5' \in Peer!Wires /\ v5'.at = "none" /\ Peer!Noting' = {}
  BY NoWireIsOne DEF Peer!Noting
<1>3. Peer!FilesHoldAccepted' /\ Peer!FileIsTheEnd' /\ Peer!NotedIsLast'
  BY <1>1, <1>2 DEF Peer!PeerInv, Peer!FilesHoldAccepted, Peer!Reviews, Peer!FileIsTheEnd, Peer!NotedIsLast
<1>4. Peer!MessagingTypes'
  BY <1>1, <1>2 DEF Peer!PeerInv, Peer!MessagingTypes
<1>5. Peer!RecentIsKnown' /\ Peer!NotedOnce'
  BY <1>1, <1>2 DEF Peer!PeerInv, Peer!RecentIsKnown, Peer!NotedOnce, Peer!Items, Peer!First
<1>6. \A m : Peer!Heard(m) => Peer!Heard(m)'
  BY <1>1, <1>2 DEF Peer!Heard, Peer!Cut
<1>7. Peer!AnswersAreTrue'
  BY <1>1, <1>2, <1>6 DEF Peer!PeerInv, Peer!AnswersAreTrue, Peer!Items
<1> QED
  BY <1>3, <1>4, <1>5, <1>7 DEF Peer!PeerInv

LEMMA StartKeepsPeer ==
    ASSUME Peer!PeerInv, Peer!Start
    PROVE  Peer!PeerInv'
<1>1. /\ UNCHANGED <<v2, v3, v5, v11, v12, v14, v15, v18, v19>> /\ v9' = TRUE /\ v20' = v20 \cup Peer!InFrontOfOlder /\ v10' = Peer!Loaded
      /\ v6' \in Nat /\ v8' \in Nat /\ v9 = FALSE
  BY DEF Peer!Start, Peer!PeerInv, Peer!MessagingTypes, Peer!files
<1>2. Peer!Noting = {} /\ Peer!Noting' = {} /\ v5.at # "noted"
  BY <1>1 DEF Peer!PeerInv, Peer!NotedIsLast, Peer!Noting
<1>3. /\ v10' \in Seq(Peer!Named) /\ Peer!Items(v10') \subseteq Peer!Items(v14)
      /\ \A i \in v15 : (Peer!First(i) /\ i \notin v20' /\ Peer!Depth(i) <= MaxQueue) =>
            \E p \in DOMAIN v10' : v10'[p] = v14[i] /\ Len(v10') - p < MaxQueue + Peer!Depth(i)
  BY <1>1, StartReadsBack DEF Peer!PeerInv
<1>4. Peer!FilesHoldAccepted' /\ Peer!FileIsTheEnd' /\ Peer!NotedIsLast'
  BY <1>1, <1>2 DEF Peer!PeerInv, Peer!FilesHoldAccepted, Peer!Reviews, Peer!FileIsTheEnd, Peer!NotedIsLast
<1>5. Peer!MessagingTypes'
  BY <1>1, <1>3 DEF Peer!PeerInv, Peer!MessagingTypes
<1>6. Peer!RecentIsKnown'
  <2>1. (\A i : Peer!First(i)' <=> Peer!First(i)) /\ (\A i : Peer!Depth(i)' = Peer!Depth(i))
    BY <1>1 DEF Peer!First, Peer!Depth
  <2> QED
    BY <1>1, <1>2, <1>3, <2>1 DEF Peer!RecentIsKnown, Peer!Items
<1>7. Peer!NotedOnce'
  BY <1>1, <1>2 DEF Peer!PeerInv, Peer!NotedOnce, Peer!First
<1>8. Peer!AnswersAreTrue'
  BY <1>1, <1>2 DEF Peer!PeerInv, Peer!AnswersAreTrue, Peer!Items, Peer!Heard, Peer!Cut
<1> QED
  BY <1>4, <1>5, <1>6, <1>7, <1>8 DEF Peer!PeerInv

(* The message enters its file.                                             *)
LEMMA AcceptKeepsPeer ==
    ASSUME Peer!PeerInv, Peer!Accept
    PROVE  Peer!PeerInv'
<1> DEFINE n == Len(v14)
<1>0. /\ MaxQueue \in Nat /\ MaxQueue > 0 /\ n \in Nat /\ n > 0 /\ DOMAIN v14 = 1 .. n /\ v15 \in SUBSET (1 .. n)
      /\ n \notin v15 /\ v14[n] = v5.id /\ v5 \in Peer!Wires /\ v9 = TRUE
  BY PeerAssumption DEF Peer!Accept, Peer!PeerInv, Peer!MessagingTypes, Peer!NotedIsLast
<1>1. /\ UNCHANGED <<v2, v3, v6, v8, v9, v10, v11, v14, v19, v20>> /\ v5.at = "noted"
      /\ v12' \in {v12, Peer!Bounded(v12, n)} /\ v18' \in {v18, Peer!Bounded(v18, n)} /\ v15' = v15 \cup {n}
      /\ Peer!Answer(IF v7 THEN "held" ELSE "delivered")
  BY DEF Peer!Accept
<1>2. v5' \in Peer!Wires /\ v5'.at # "noted" /\ (v5'.at = "replied" => v5'.id = v5.id)
  <2>1. CASE v5.reply = "left"
    BY <1>1, <2>1, NoWireIsOne DEF Peer!Answer
  <2>2. CASE v5.reply # "left"
    <3>1. PICK st \in {"held", "delivered"} : v5' = [v5 EXCEPT !.at = "replied", !.reply = st]
      BY <1>1, <2>2 DEF Peer!Answer
    <3> QED
      BY <1>0, <3>1 DEF Peer!Wires, Peer!Answers
  <2> QED
    BY <2>1, <2>2
<1>3. Peer!Noting = {n} /\ Peer!Noting' = {}
  BY <1>1, <1>2 DEF Peer!Noting
<1> HIDE DEF n
<1>4. Peer!FilesHoldAccepted'
  <2>1. v12 \in Seq(v15') /\ v18 \in Seq(v15') /\ n \in v15' /\ v15 \subseteq v15'
    BY <1>1 DEF Peer!PeerInv, Peer!FilesHoldAccepted
  <2>2. v12' \in Seq(v15') /\ v18' \in Seq(v15')
    BY <1>1, <2>1, BoundedKeepsTheEnd
  <2>3. \A rec \in Peer!Reviews : rec \in Peer!Reviews'
    <3> SUFFICES ASSUME NEW rec \in Peer!Reviews PROVE rec \in Peer!Reviews'
      OBVIOUS
    <3>1. rec = [at |-> rec.at, rest |-> rec.rest, item |-> rec.item] /\ rec.rest \in Seq(v15) /\ rec.item \in v15 \cup {0}
          /\ rec.at \in {"idle", "decide", "list", "append"}
      BY DEF Peer!Reviews
    <3>2. rec.rest \in Seq(v15') /\ rec.item \in v15' \cup {0}
      BY <2>1, <3>1
    <3> QED
      BY <3>1, <3>2 DEF Peer!Reviews
  <2>4. v19 \in [Reviewers -> Peer!Reviews]
        /\ \A r \in Reviewers : v19[r].at \in {"decide", "append"} => v19[r].item \in v15
    BY DEF Peer!PeerInv, Peer!FilesHoldAccepted
  <2>5. v19' \in [Reviewers -> Peer!Reviews']
    BY <1>1, <2>3, <2>4
  <2>6. \A r \in Reviewers : v19'[r].at \in {"decide", "append"} => v19'[r].item \in v15'
    BY <1>1, <2>1, <2>4
  <2> QED
    BY <2>2, <2>5, <2>6 DEF Peer!FilesHoldAccepted
<1>5. Peer!FileIsTheEnd' /\ Peer!NotedIsLast'
  BY <1>1, <1>2 DEF Peer!PeerInv, Peer!FileIsTheEnd, Peer!NotedIsLast
<1>6. Peer!MessagingTypes'
  BY <1>0, <1>1, <1>2 DEF Peer!PeerInv, Peer!MessagingTypes
<1>7. v15' \cup Peer!Noting' = v15 \cup Peer!Noting
  BY <1>1, <1>3
<1>8. (\A i : Peer!First(i)' => Peer!First(i)) /\ (\A i : Peer!Depth(i)' = Peer!Depth(i))
  BY <1>1 DEF Peer!First, Peer!Depth
<1>9. Peer!RecentIsKnown'
  BY <1>1, <1>7, <1>8 DEF Peer!PeerInv, Peer!RecentIsKnown, Peer!Items
<1>10. Peer!NotedOnce'
  <2> SUFFICES ASSUME NEW i \in v15', NEW j \in v15' \cup Peer!Noting', i < j, v14[i] = v14[j], Peer!First(i)',
                      i \notin v20'
               PROVE  j - i > MaxQueue
    BY <1>1 DEF Peer!NotedOnce
  <2>0. j \in v15 \cup Peer!Noting
    BY <1>7
  <2>1. j \in v15 \cup Peer!Noting /\ j \in 1 .. n
    <3>1. j \in v15 \/ j = n
      BY <1>3, <2>0
    <3>2. n \in 1 .. n /\ v15 \subseteq 1 .. n
      BY <1>0
    <3>3. j \in 1 .. n
      BY <3>1, <3>2, Zenon
    <3> QED
      BY <2>0, <3>3
  <2>2. i \in v15
    BY <1>0, <1>1, <2>1
  <2> QED
    BY <1>1, <1>8, <2>1, <2>2 DEF Peer!PeerInv, Peer!NotedOnce
<1>11. \A m : Peer!Heard(m) => Peer!Heard(m)'
  BY <1>1, <1>7 DEF Peer!Heard, Peer!Cut
<1>12. Peer!AnswersAreTrue'
  <2>1. n \in v15' /\ v14'[n] = v5.id
    BY <1>0, <1>1
  <2>2. \A m : v5.id = m => Peer!Heard(m)'
    BY <2>1 DEF Peer!Heard
  <2> QED
    BY <1>1, <1>2, <1>11, <2>2 DEF Peer!PeerInv, Peer!AnswersAreTrue, Peer!Items
<1> QED
  BY <1>4, <1>5, <1>6, <1>9, <1>10, <1>12 DEF Peer!PeerInv

(* The message is noted.  The process knows every message whose first       *)
(* acceptance is among the last MaxQueue notes, so it is not one of them.   *)
LEMMA NoteKeepsPeer ==
    ASSUME Peer!PeerInv, Peer!Receive, Peer!Note
    PROVE  Peer!PeerInv'
<1>p. PICK n \in Nat, x \in Peer!Named : n = Len(v14) /\ x = v5.id
  BY DEF Peer!PeerInv, Peer!MessagingTypes, Peer!Wires
<1> DEFINE longer == Append(v10, x)
<1>0. /\ MaxQueue \in Nat /\ MaxQueue > 0 /\ n \in Nat /\ DOMAIN v14 = 1 .. n /\ v15 \in SUBSET (1 .. n)
      /\ v5 \in Peer!Wires /\ x \in Peer!Named /\ v14 \in Seq(Peer!Named)
      /\ v10 \in Seq(Peer!Named) /\ v11 \in Seq(Peer!Named)
  BY <1>p, PeerAssumption DEF Peer!PeerInv, Peer!MessagingTypes
<1>1. /\ UNCHANGED <<v2, v3, v6, v8, v9, v12, v15, v18, v19, v20>> /\ v5.at = "sent" /\ v9
      /\ x \notin Peer!Items(v10)
      /\ v10' = Peer!Newest(longer, 2 * MaxQueue)
      /\ v14' = Append(v14, x) /\ v11' = Peer!Bounded(v11, x) /\ v5' = [v5 EXCEPT !.at = "noted"]
  BY <1>p DEF Peer!Receive, Peer!Note, Peer!files
<1>2. v5' \in Peer!Wires /\ v5'.at = "noted" /\ v5'.id = x
  BY <1>p, <1>0, <1>1 DEF Peer!Wires
<1>3. /\ v14' \in Seq(Peer!Named) /\ Len(v14') = n + 1 /\ DOMAIN v14' = 1 .. n + 1 /\ v14'[n + 1] = x
      /\ \A i \in 1 .. n : v14'[i] = v14[i]
  BY <1>p, <1>0, <1>1
<1>4. Peer!Noting = {} /\ Peer!Noting' = {n + 1}
  BY <1>1, <1>2, <1>3 DEF Peer!Noting
<1>5. /\ longer \in Seq(Peer!Named) /\ Len(longer) = Len(v10) + 1 /\ Len(v10) \in Nat
      /\ DOMAIN longer = 1 .. Len(v10) + 1 /\ longer[Len(v10) + 1] = x
      /\ \A p \in 1 .. Len(v10) : longer[p] = v10[p]
  BY <1>0
<1> HIDE DEF longer
<1>6. /\ v10' \in Seq(Peer!Named) /\ Len(v10') \in Nat /\ Len(v10') > 0
      /\ \A p \in 1 .. Len(v10') : v10'[p] = longer[Len(longer) - Len(v10') + p]
                                   /\ Len(longer) - Len(v10') + p \in 1 .. Len(longer)
      /\ Len(v10') = IF Len(v10) + 1 > 2 * MaxQueue THEN 2 * MaxQueue ELSE Len(v10) + 1
  <2> DEFINE most == 2 * MaxQueue
  <2>0. most \in Nat /\ most > 0
    BY <1>0
  <2>1. v10' = IF Len(longer) > most THEN SubSeq(longer, Len(longer) - most + 1, Len(longer)) ELSE longer
    BY <1>1 DEF Peer!Newest
  <2> HIDE DEF most
  <2>2. CASE Len(longer) > most
    <3>1. v10' \in Seq(Peer!Named) /\ Len(v10') = most
      BY <1>5, <2>0, <2>1, <2>2
    <3>2. \A p \in 1 .. most : v10'[p] = longer[Len(longer) - most + p]
      BY <1>5, <2>0, <2>1, <2>2
    <3> QED
      BY <1>5, <2>0, <2>2, <3>1, <3>2 DEF most
  <2>3. CASE ~(Len(longer) > most)
    <3>1. v10' = longer
      BY <2>1, <2>3
    <3> QED
      BY <1>0, <1>5, <2>3, <3>1 DEF most
  <2> QED
    BY <2>2, <2>3
<1>7. Peer!FileIsTheEnd'
  <2> DEFINE l == Len(v11)
             w == Len(v11')
  <2>1. /\ l \in Nat /\ l = IF n < MaxQueue THEN n ELSE MaxQueue
        /\ \A k \in 1 .. l : v11[k] = v14[n - l + k]
    <3>1. /\ Len(v11) = (IF Len(v14) < MaxQueue THEN Len(v14) ELSE MaxQueue)
          /\ \A k \in DOMAIN v11 : v11[k] = v14[Len(v14) - Len(v11) + k]
      BY DEF Peer!PeerInv, Peer!FileIsTheEnd
    <3>2. DOMAIN v11 = 1 .. Len(v11) /\ Len(v11) \in Nat
      BY <1>0
    <3> QED
      BY <1>p, <3>1, <3>2
  <2>2. /\ v11' \in Seq(Peer!Named) /\ w = IF l < MaxQueue THEN l + 1 ELSE MaxQueue
        /\ \A k \in DOMAIN v11' : /\ k = w => v11'[k] = x
                                  /\ \A h \in DOMAIN v11 : h = l + 1 - w + k => v11'[k] = v11[h]
    <3>1. v11' = Peer!Bounded(v11, x) /\ v11 \in Seq(Peer!Named) /\ x \in Peer!Named
      BY <1>0, <1>1
    <3>2. Peer!Bounded(v11, x) \in Seq(Peer!Named)
          /\ Len(Peer!Bounded(v11, x)) = IF Len(v11) < MaxQueue THEN Len(v11) + 1 ELSE MaxQueue
      BY <3>1, BoundedKeepsTheEnd
    <3>3. \A k \in DOMAIN v11' : /\ k = w => v11'[k] = x
                                /\ \A h \in DOMAIN v11 : h = l + 1 - w + k => v11'[k] = v11[h]
      BY <3>1, WhereItIsKept
    <3> QED
      BY <3>1, <3>2, <3>3
  <2>3. DOMAIN v11' = 1 .. w /\ w \in Nat /\ DOMAIN v11 = 1 .. l
    BY <1>0, <2>2
  <2> HIDE DEF l, w
  <2>4. ASSUME NEW k \in DOMAIN v11' PROVE v11'[k] = v14'[n + 1 - w + k]
    <3>1. w <= l + 1 /\ k \in 1 .. w /\ l <= n
      BY <1>0, <2>1, <2>2, <2>3
    <3>2. CASE k = w
      <4>1. n + 1 - w + k = n + 1
        BY <2>3, <3>2
      <4> QED
        BY <1>3, <2>2, <3>2, <4>1
    <3>3. CASE k # w
      <4> DEFINE h == l + 1 - w + k
      <4>1. h \in 1 .. l /\ n - l + h = n + 1 - w + k /\ n - l + h \in 1 .. n
        <5>1. l \in Nat /\ w \in Nat /\ n \in Nat
          BY <2>1, <2>3
        <5> QED
          BY <3>1, <3>3, <5>1
      <4>2. v11'[k] = v11[h]
        BY <2>2, <2>3, <4>1
      <4> HIDE DEF h
      <4> QED
        BY <1>3, <2>1, <4>1, <4>2
    <3> QED
      BY <3>2, <3>3
  <2>5. w = IF n + 1 < MaxQueue THEN n + 1 ELSE MaxQueue
    BY <1>0, <2>1, <2>2
  <2> QED
    BY <1>3, <2>4, <2>5 DEF Peer!FileIsTheEnd, w
<1>8. Peer!FilesHoldAccepted' /\ Peer!NotedIsLast'
  <2>1. Peer!FilesHoldAccepted'
    BY <1>1 DEF Peer!PeerInv, Peer!FilesHoldAccepted, Peer!Reviews
  <2>2. n + 1 \notin v15 /\ v14' # <<>>
    BY <1>0, <1>3
  <2> QED
    BY <1>1, <1>2, <1>3, <2>1, <2>2 DEF Peer!NotedIsLast
<1>9. Peer!MessagingTypes'
  <2>1. v11' \in Seq(Peer!Named)
    BY <1>0, <1>1, BoundedKeepsTheEnd
  <2>2. v15' \subseteq DOMAIN v14'
    BY <1>0, <1>1, <1>3
  <2> QED
    BY <1>1, <1>2, <1>3, <1>6, <2>1, <2>2 DEF Peer!PeerInv, Peer!MessagingTypes
<1>10. ASSUME NEW i \in v15, Peer!First(i)'
       PROVE  Peer!First(i) /\ i \in 1 .. n /\ v14'[i] = v14[i] /\ Peer!Depth(i)' = Peer!Depth(i) + 1
              /\ Peer!Depth(i) = n - i + 1
  BY <1>p, <1>0, <1>1, <1>3, <1>10 DEF Peer!First, Peer!Depth
<1>11. ASSUME NEW i \in v15, Peer!First(i), i \notin v20, Peer!Depth(i) <= MaxQueue
       PROVE  \E p \in 1 .. Len(v10) : v10[p] = v14[i] /\ Len(v10) - p < MaxQueue + Peer!Depth(i)
  <2>1. \E p \in DOMAIN v10 : v10[p] = v14[i] /\ Len(v10) - p < MaxQueue + Peer!Depth(i)
    BY <1>1, <1>11 DEF Peer!PeerInv, Peer!RecentIsKnown
  <2>2. DOMAIN v10 = 1 .. Len(v10)
    BY <1>0
  <2> QED
    BY <2>1, <2>2
<1>12. Peer!Items(v10') \subseteq Peer!Items(v14')
  <2>1. \A p \in 1 .. Len(v10) : v10[p] \in Peer!Items(v14')
    <3>1. Peer!Items(v10) \subseteq Peer!Items(v14)
      BY DEF Peer!PeerInv, Peer!RecentIsKnown
    <3>2. Peer!Items(v14) \subseteq Peer!Items(v14')
      BY <1>0, <1>3 DEF Peer!Items
    <3>3. \A p \in 1 .. Len(v10) : v10[p] \in Peer!Items(v10)
      BY <1>0 DEF Peer!Items
    <3> QED
      BY <3>1, <3>2, <3>3
  <2>2. x \in Peer!Items(v14')
    BY <1>0, <1>3 DEF Peer!Items
  <2>3. \A p \in 1 .. Len(longer) : longer[p] \in Peer!Items(v14')
    BY <1>5, <2>1, <2>2
  <2>4. \A p \in 1 .. Len(v10') : v10'[p] \in Peer!Items(v14')
    BY <1>6, <2>3
  <2>5. DOMAIN v10' = 1 .. Len(v10')
    BY <1>6
  <2>6. \A y \in Peer!Items(v10') : \E p \in 1 .. Len(v10') : y = v10'[p]
    BY <2>5 DEF Peer!Items
  <2> QED
    BY <2>4, <2>6
<1>13. ASSUME NEW i \in v15, Peer!First(i)', i \notin v20, Peer!Depth(i)' <= MaxQueue
       PROVE  \E p \in DOMAIN v10' : v10'[p] = v14'[i] /\ Len(v10') - p < MaxQueue + Peer!Depth(i)'
  <2> DEFINE d == Peer!Depth(i)
  <2>1. Peer!First(i) /\ v14'[i] = v14[i] /\ Peer!Depth(i)' = d + 1 /\ d \in Int
    BY <1>0, <1>10, <1>13
  <2>2. d <= MaxQueue /\ d + 1 <= MaxQueue
    BY <1>0, <1>13, <2>1
  <2>3. PICK p \in 1 .. Len(v10) : v10[p] = v14[i] /\ Len(v10) - p < MaxQueue + d
    BY <1>11, <1>13, <2>1, <2>2
  <2> HIDE DEF d
  <2> DEFINE q == p - (Len(longer) - Len(v10'))
  <2>4. q \in 1 .. Len(v10') /\ Len(v10') - q < MaxQueue + (d + 1)
    <3>1. Len(v10) \in Nat /\ Len(longer) = Len(v10) + 1 /\ p \in 1 .. Len(v10) /\ Len(v10) - p < MaxQueue + d
      BY <1>5, <2>3
    <3>2. Len(v10') = IF Len(v10) + 1 > 2 * MaxQueue THEN 2 * MaxQueue ELSE Len(v10) + 1
      BY <1>6
    <3>3. MaxQueue \in Nat /\ d \in Int /\ d + 1 <= MaxQueue
      BY <1>0, <2>1, <2>2
    <3>4. CASE Len(v10) + 1 > 2 * MaxQueue
      <4>1. Len(v10') = 2 * MaxQueue /\ q = p - (Len(v10) + 1 - 2 * MaxQueue)
        BY <3>1, <3>2, <3>4
      <4> HIDE DEF q
      <4> QED
        BY <3>1, <3>3, <3>4, <4>1
    <3>5. CASE ~(Len(v10) + 1 > 2 * MaxQueue)
      BY <3>1, <3>2, <3>3, <3>5
    <3> QED
      BY <3>4, <3>5
  <2>5. Len(longer) - Len(v10') + q = p
    <3>1. Len(longer) \in Int /\ Len(v10') \in Int /\ p \in Int
      BY <1>5, <1>6, <2>3
    <3> QED
      BY <3>1
  <2> HIDE DEF q
  <2>6. v10'[q] = v14'[i]
    BY <1>5, <1>6, <2>1, <2>3, <2>4, <2>5
  <2>7. q \in DOMAIN v10'
    BY <1>6, <2>4
  <2> QED
    BY <2>1, <2>4, <2>6, <2>7
<1>14. \E p \in DOMAIN v10' : v10'[p] = v14'[n + 1] /\ Len(v10') - p < MaxQueue + Peer!Depth(n + 1)'
  <2>1. Peer!Depth(n + 1)' = 1
    <3>1. Peer!Depth(n + 1)' = Len(v14') - (n + 1) + 1
      BY DEF Peer!Depth
    <3> QED
      BY <1>0, <1>3, <3>1
  <2>2. Len(v10') \in DOMAIN v10' /\ v10'[Len(v10')] = x
    <3>1. Len(v10') \in 1 .. Len(v10') /\ DOMAIN v10' = 1 .. Len(v10')
      BY <1>6
    <3>2. v10'[Len(v10')] = longer[Len(longer) - Len(v10') + Len(v10')]
      BY <1>6, <3>1
    <3>3. Len(longer) - Len(v10') + Len(v10') = Len(v10) + 1
      BY <1>5, <1>6
    <3> QED
      BY <1>5, <3>1, <3>2, <3>3
  <2> QED
    BY <1>0, <1>3, <1>6, <2>1, <2>2
<1>15. Peer!RecentIsKnown'
  <2>1. v15' \cup Peer!Noting' = v15 \cup {n + 1}
    BY <1>1, <1>4
  <2>2. \A i \in v15 \cup {n + 1} : (Peer!First(i)' /\ i \notin v20 /\ Peer!Depth(i)' <= MaxQueue) =>
           \E p \in DOMAIN v10' : v10'[p] = v14'[i] /\ Len(v10') - p < MaxQueue + Peer!Depth(i)'
    BY <1>13, <1>14
  <2> QED
    BY <1>1, <1>12, <2>1, <2>2 DEF Peer!RecentIsKnown, Peer!Items
<1>16. Peer!NotedOnce'
  <2> SUFFICES ASSUME NEW i \in v15, NEW j \in v15 \cup {n + 1}, i < j, v14'[i] = v14'[j], Peer!First(i)',
                      i \notin v20
               PROVE  j - i > MaxQueue
    BY <1>1, <1>4 DEF Peer!NotedOnce
  <2>1. Peer!First(i) /\ i \in 1 .. n /\ v14'[i] = v14[i] /\ Peer!Depth(i) = n - i + 1
    BY <1>10
  <2>2. CASE j \in v15
    BY <1>0, <1>3, <2>1, <2>2 DEF Peer!PeerInv, Peer!NotedOnce
  <2>3. CASE j = n + 1
    <3>1. SUFFICES ASSUME Peer!Depth(i) <= MaxQueue PROVE FALSE
      BY <1>0, <2>1, <2>3
    <3>2. PICK p \in 1 .. Len(v10) : v10[p] = v14[i]
      BY <1>11, <2>1, <3>1
    <3>3. v10[p] = x
      BY <1>3, <2>1, <2>3, <3>2
    <3> QED
      BY <1>0, <1>1, <3>3 DEF Peer!Items
  <2> QED
    BY <2>2, <2>3
<1>17. \A m : Peer!Heard(m) => Peer!Heard(m)'
  <2>1. v15 \cup Peer!Cut = 1 .. n
    BY <1>0, <1>4 DEF Peer!Cut
  <2>2. (v15 \cup Peer!Cut)' = 1 .. n
    BY <1>0, <1>1, <1>3, <1>4 DEF Peer!Cut
  <2> QED
    BY <1>3, <2>1, <2>2 DEF Peer!Heard
<1>18. Peer!AnswersAreTrue'
  BY <1>1, <1>2, <1>17 DEF Peer!PeerInv, Peer!AnswersAreTrue, Peer!Items
<1> QED
  BY <1>7, <1>8, <1>9, <1>15, <1>16, <1>18 DEF Peer!PeerInv

LEMMA PeerIsKept == Peer!PeerInv /\ [Peer!MessagingNext]_(Peer!messagingVars) => Peer!PeerInv'
<1> SUFFICES ASSUME Peer!PeerInv, [Peer!MessagingNext]_(Peer!messagingVars) PROVE Peer!PeerInv'
  OBVIOUS
<1>1. CASE Peer!StopReceiver \/ Peer!Crash
  <2>1. Peer!Down /\ v5' = Peer!NoWire /\ v6' \in Nat
    BY <1>1 DEF Peer!StopReceiver, Peer!Crash, Peer!PeerInv, Peer!MessagingTypes
  <2> QED
    BY <2>1, DownKeepsPeer
<1>2. CASE Peer!Receive
  BY <1>2, NoteKeepsPeer, ReceiveKeepsPeer
<1>3. CASE UNCHANGED Peer!messagingVars
  <2>1. UNCHANGED <<v2, v3, v5, v6, v8, v9, v10, v11, v12, v14, v15, v18, v19, v20>>
    BY <1>3 DEF Peer!messagingVars
  <2>2. Peer!FilesHoldAccepted'
    BY <2>1 DEF Peer!PeerInv, Peer!FilesHoldAccepted, Peer!Reviews
  <2> QED
    BY <2>1, <2>2, OtherFilesKeepPeer
<1> QED
  BY <1>1, <1>2, <1>3, SenderKeepsPeer, StartKeepsPeer, AcceptKeepsPeer, TakingKeepsPeer
  DEF Peer!MessagingNext

LEMMA PeerInvShows == Peer!PeerInv => Peer!ExactlyOnce
<1> SUFFICES ASSUME Peer!PeerInv PROVE Peer!ExactlyOnce
  OBVIOUS
<1>1. Peer!AcceptedOnce
  BY DEF Peer!AcceptedOnce, Peer!PeerInv, Peer!NotedOnce
<1>2. Peer!ReceiptMeansAccepted
  <2> SUFFICES ASSUME NEW m \in Messages, Peer!Outcome(m) \in {"delivered", "held"} PROVE Peer!Heard(m)
    BY DEF Peer!ReceiptMeansAccepted
  <2> DEFINE rs == {i \in DOMAIN v2 : v2[i].event = "receipt" /\ v2[i].id = m}
             last == CHOOSE i \in rs : \A j \in rs : j <= i
  <2>1. Peer!Outcome(m) = IF rs = {} THEN "none" ELSE v2[last].status
    BY DEF Peer!Outcome
  <2>2. rs # {}
    BY <2>1
  <2>3. \E i \in rs : \A j \in rs : j <= i
    <3>1. rs \in SUBSET (1 .. Len(v2)) /\ Len(v2) \in Nat
      BY DEF Peer!PeerInv, Peer!MessagingTypes
    <3> DEFINE T == {Len(v2) - i : i \in rs}
    <3>2. T \in SUBSET Nat /\ T # {}
      BY <2>2, <3>1
    <3>3. PICK e \in T : \A k \in T : e <= k
      <4> HIDE DEF T
      <4> QED
        BY <3>2, LeastOfSome
    <3>4. PICK i \in rs : e = Len(v2) - i
      OBVIOUS
    <3>5. \A j \in rs : Len(v2) - i <= Len(v2) - j
      BY <3>3, <3>4
    <3> HIDE DEF rs
    <3>6. \A j \in rs : j <= i
      BY <3>1, <3>5
    <3> QED
      BY <3>6
  <2>4. last \in rs
    BY <2>3
  <2> HIDE DEF last
  <2>5. v2[last] \in Peer!Items(v2) /\ v2[last].id = m /\ v2[last].status \in {"delivered", "held"}
    BY <2>1, <2>2, <2>4 DEF Peer!Items
  <2> QED
    BY <2>5 DEF Peer!PeerInv, Peer!AnswersAreTrue
<1> QED
  BY <1>1, <1>2 DEF Peer!ExactlyOnce

(* Over retries, late and lost replies, crashes and restarts of both sides: *)
(* a message that was taken, to the inbox or for review, is not taken again *)
(* before MaxQueue others were noted, unless a start read it back in front  *)
(* of an older item; and a receipt that claims a delivery is about a        *)
(* message that was taken or cut (SessionMessenger, retry_outbox).          *)
THEOREM EachAcceptedOnce == Spec => []ExactlyOnce
<1> DEFINE Inv == scene = "peer" => Peer!PeerInv
<1>1. Init => Inv
  BY PeerInitially DEF Init
<1>2. Inv /\ [Next]_vars => Inv'
  BY SceneStep, PeerIsKept
<1>3. Inv => ExactlyOnce
  BY PeerInvShows DEF ExactlyOnce
<1> QED
  BY <1>1, <1>2, <1>3, PTL DEF Spec
=============================================================================
