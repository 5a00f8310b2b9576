------------------------------- MODULE MCSession -------------------------------
(****************************************************************************)
(* Small instances of the parts that one session is made of.  They share no *)
(* state in these models, so each of them is a scene of its own: a          *)
(* behaviour picks one scene at its beginning and stays in it, and the slot  *)
(* variables are that part's variables.  One run so answers for all of them *)
(* and none is multiplied with the others.                                  *)
(****************************************************************************)
EXTENDS Integers, Sequences, FiniteSets

CONSTANTS
    Calls, Batches, Reads, Mutators, NoPath, Mode, FrontEnd,   \* the turn
    MaxRounds, MaxCalls, MaxSame, MaxFailed, Halt,
    Verifier, MaxNamed,
    Keep, CompactEvery, WriteEvery, SummaryRoom, MaxTurns,     \* the context
    Spenders, SessionLimit, DailyLimit, Costs, MaxLogged,      \* the spending
    SubTasks, MaxSubagents,                                    \* the sub-agents
    GoalSteps, GoalRuns,                                       \* the goal
    MaxLspRequests, MaxNotes, MaxRestarts,                     \* a language server
    MaxMcpRequests, MaxQuestions,                              \* an MCP bridge
    Messages, Reviewers, MaxQueue, MaxStarts, MaxAttempts                 \* a peer session

ASSUME TurnAssumption == Reads \cap Mutators = {} /\ Batches \subseteq Seq(Calls) \ {<<>>}
ASSUME ContextAssumption == Keep \in Nat
ASSUME SpendAssumption ==
    SessionLimit \in [Spenders -> Nat] /\ DailyLimit \in Nat /\ Costs \subseteq Nat
ASSUME AgentsAssumption == IsFiniteSet(SubTasks) /\ MaxSubagents \in Nat
ASSUME GoalAssumption == GoalSteps \in Nat \ {0}
ASSUME McpAssumption == MaxMcpRequests \in Nat
ASSUME PeerAssumption == MaxQueue \in Nat \ {0}

VARIABLES scene, v1, v2, v3, v4, v5, v6, v7, v8, v9, v10, v11, v12, v13, v14, v15,
          v16, v17, v18, v19, v20

(* The slots a scene leaves empty. *)
S15 == <<v15, v16, v17, v18, v19, v20>>
S14 == <<v14, S15>>
S10 == <<v10, v11, v12, v13, S14>>
S9 == <<v9, S10>>
S8 == <<v8, S9>>
S6 == <<v6, v7, S8>>
S5 == <<v5, S6>>
vars == <<scene, v1, v2, v3, v4, S5>>

Off == "off"
Off15 == v15 = Off /\ v16 = Off /\ v17 = Off /\ v18 = Off /\ v19 = Off /\ v20 = Off
Off14 == v14 = Off /\ Off15
Off10 == v10 = Off /\ v11 = Off /\ v12 = Off /\ v13 = Off /\ Off14
Off9 == v9 = Off /\ Off10
Off8 == v8 = Off /\ Off9
Off6 == v6 = Off /\ v7 = Off /\ Off8
Off5 == v5 = Off /\ Off6

-----------------------------------------------------------------------------
(* A turn whose model may ask for a write with or without its content, an   *)
(* edit, a read that must be confirmed next to one that need not, and a     *)
(* shell command, the same one twice.                                       *)
ToolCall(tool, path, whole, tier) == [tool |-> tool, path |-> path, whole |-> whole, tier |-> tier]
WriteF == ToolCall("write_file", "f", TRUE, 2)
WriteEmpty == ToolCall("write_file", "f", FALSE, 2)
EditF == ToolCall("edit_file", "f", TRUE, 1)
EditG == ToolCall("edit_file", "g", TRUE, 1)
ReadSilent == ToolCall("read_file", "-", TRUE, 0)
ReadAsking == ToolCall("read_file", "-", TRUE, 2)
Shell == ToolCall("run_shell", "-", TRUE, 2)

SmallCalls == {WriteF, WriteEmpty, EditF, EditG, ReadSilent, ReadAsking, Shell}
SmallBatches == {<<WriteF>>, <<WriteEmpty>>, <<EditF, EditG>>, <<ReadAsking, ReadSilent, Shell>>,
                 <<Shell, WriteF>>, <<Shell, Shell>>}

(* One spender with a limit of its own, one with the daily limit only.      *)
SmallLimits == [s \in Spenders |-> IF s = "s1" THEN 2 ELSE 0]

Turn == INSTANCE AgentTurn WITH
    pc <- v1, rounds <- v2, total <- v3, same <- v4, failed <- v5, garbled <- v6, broken <- v7,
    batch <- v8, fetched <- v9, result <- v10, ending <- v11, reported <- v12, done <- v13

Context == INSTANCE SessionContext WITH
    phase <- v1, turns <- v2, made <- v3, conversation <- v4, summary <- v5, prompt <- v6,
    remembered <- v7, released <- v8

Spend == INSTANCE SpendLimits WITH
    Sessions <- Spenders,
    sessionUsd <- v1, logged <- v2, dailyCache <- v3, verdict <- v4, last <- v5

Agents == INSTANCE Subagents WITH
    Tasks <- SubTasks,
    agent <- v1, isDone <- v2, error <- v3, row <- v4, listed <- v5

Goal == INSTANCE GoalRun WITH
    N <- GoalSteps, Runs <- GoalRuns,
    plan <- v1, task <- v2, at <- v3, next <- v4, results <- v5, graphOk <- v6, worked <- v7

Lsp == INSTANCE LspClient WITH
    MaxRequests <- MaxLspRequests,
    server <- v1, pipe <- v2, ask <- v3, made <- v4, notes <- v5, waiting <- v6, sent <- v7,
    restarts <- v8, returned <- v9

Mcp == INSTANCE McpLink WITH
    MaxRequests <- MaxMcpRequests,
    up <- v1, next <- v2, calls <- v3, holder <- v4, toBridge <- v5, toClient <- v6, bridge <- v7,
    asking <- v8, questions <- v9, got <- v10, done <- v11, orphans <- v12, tools <- v13,
    catalog <- v14

Peer == INSTANCE SessionMessaging WITH
    made <- v1, outbox <- v2, sender <- v3, attempts <- v4, wire <- v5, roster <- v6, hold <- v7,
    starts <- v8, up <- v9, order <- v10, seenFile <- v11, inbox <- v12, drained <- v13,
    notes <- v14, accepted <- v15, taken <- v16, expired <- v17, held <- v18, review <- v19,
    crowded <- v20

-----------------------------------------------------------------------------
Init ==
    \/ scene = "turn"    /\ Turn!TurnInit /\ Off14
    \/ scene = "context" /\ Context!ContextInit /\ Off9
    \/ scene = "spend"   /\ Spend!SpendInit /\ Off6
    \/ scene = "agents"  /\ Agents!SubInit /\ Off6
    \/ scene = "goal"    /\ Goal!GoalInit /\ Off8
    \/ scene = "lsp"     /\ Lsp!Init /\ Off10
    \/ scene = "mcp"     /\ Mcp!McpInit /\ Off15
    \/ scene = "peer"    /\ Peer!MessagingInit

TurnScene    == scene = "turn"    /\ Turn!TurnNext /\ UNCHANGED <<scene, S14>>
ContextScene == scene = "context" /\ Context!ContextNext /\ UNCHANGED <<scene, S9>>
SpendScene   == scene = "spend"   /\ Spend!SpendNext /\ UNCHANGED <<scene, S6>>
AgentsScene  == scene = "agents"  /\ Agents!SubNext /\ UNCHANGED <<scene, S6>>
GoalScene    == scene = "goal"    /\ Goal!GoalNext /\ UNCHANGED <<scene, S8>>
LspScene     == scene = "lsp"     /\ Lsp!Next /\ UNCHANGED <<scene, S10>>
McpScene     == scene = "mcp"     /\ Mcp!McpNext /\ UNCHANGED <<scene, S15>>
PeerScene    == scene = "peer"    /\ Peer!MessagingNext /\ UNCHANGED scene

Next ==
    \/ TurnScene \/ ContextScene \/ SpendScene \/ AgentsScene
    \/ GoalScene \/ LspScene \/ McpScene \/ PeerScene

Spec == Init /\ [][Next]_vars

-----------------------------------------------------------------------------
(* After the denial of a call the model made, nothing but the reads started *)
(* with it runs in the turn.                                                *)
HeedsDenial == scene = "turn" => Turn!HeedsDenial

(* The answer of a turn names only files whose last write failed, and all   *)
(* of them when they fit.                                                   *)
FailuresAreReported == scene = "turn" => Turn!FailuresAreReported

(* A prompt shows the most recent messages without a gap.                   *)
RecentIsShown == scene = "context" => Context!RecentIsShown

(* A session goes past its limit, or the daily one by itself, in one call.  *)
OwnSpendIsBounded == scene = "spend" => Spend!OwnSpendIsBounded

(* The sub-agents that work at a time never exceed the cap.                 *)
CapHolds == scene = "agents" => Agents!CapHolds

(* A plan is completed only when every step's sub-agent once succeeded.     *)
CompletedMeansWorked == scene = "goal" => Goal!CompletedMeansWorked

(* A language server's reply goes to the request it answers, and a late MCP *)
(* reply costs nothing but its own request.                                 *)
RepliesAreOurs ==
    /\ scene = "lsp" => Lsp!RepliesAreOurs
    /\ scene = "mcp" => Mcp!StreamRecovers

(* A message is taken once within the memory of the receiver, and what the  *)
(* sender is told of it is true.                                            *)
ExactlyOnce == scene = "peer" => Peer!ExactlyOnce

=============================================================================
