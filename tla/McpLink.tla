------------------------------- MODULE McpLink -------------------------------
(****************************************************************************)
(* One MCP server behind MagAgent: the client of the session (client.py),   *)
(* the private bridge process (bridge.py) and the dispatch index of the     *)
(* manager (manager.py).  Client and bridge talk in lines over two pipes.   *)
(* The client sends one request at a time and gives up on a timeout,        *)
(* leaving the reply in the pipe; the bridge handles one request at a time, *)
(* and a question of the server to the user reads its answer from the same  *)
(* pipe the requests come in on.                                            *)
(****************************************************************************)
EXTENDS Naturals, Sequences, FiniteSets, FiniteSetTheorems

CONSTANTS
    MaxRequests,   \* requests the session makes
    MaxQuestions   \* questions the server asks the user

VARIABLES
    up,        \* the bridge runs; the client believes it is connected
    next,      \* number of requests sent
    calls,     \* those that call a tool; the others list the tools
    holder,    \* the request that holds the lock, 0 when it is free
    toBridge, toClient,   \* the lines in the pipes
    bridge,    \* what the main loop is at: [at, req, ok, seen]
    asking,    \* questions whose callback still reads the pipe
    questions, \* questions asked so far
    got,       \* request -> what its caller received
    done,      \* the calls the server executed
    orphans,   \* replies without a request number that were written
    tools,     \* version of the tools the server has
    catalog    \* [seen, stale] of the client

mcpVars == <<up, next, calls, holder, toBridge, toClient, bridge, asking, questions, got, done,
             orphans, tools, catalog>>

Requests == 1..MaxRequests
Idle == [at |-> "idle", req |-> 0, ok |-> TRUE, seen |-> 0]
Line(kind, r, ok, seen) == [kind |-> kind, req |-> r, ok |-> ok, seen |-> seen]

(* connect ends with the ready line, which carries the first tool list.     *)
McpInit ==
    /\ up = TRUE /\ next = 0 /\ calls = {} /\ holder = 0 /\ toBridge = <<>> /\ toClient = <<>>
    /\ bridge = Idle /\ asking = {} /\ questions = 0 /\ got = [r \in Requests |-> "none"]
    /\ done = {} /\ orphans = 0 /\ tools = 0 /\ catalog = [seen |-> 0, stale |-> FALSE]

clientVars == <<next, calls, holder, got, catalog>>
serverVars == <<done, tools>>

-----------------------------------------------------------------------------
(* The client.  A tool list that is fresh is answered without a request, so *)
(* the requests here are those of a list that is stale or has expired.      *)
Send ==
    /\ holder = 0 /\ next + 1 \in Requests
    /\ calls' \in {calls, calls \cup {next + 1}}
    /\ next' = next + 1 /\ holder' = next + 1
    /\ toBridge' = Append(toBridge, Line("request", next + 1, TRUE, 0))
    /\ UNCHANGED <<up, toClient, bridge, asking, questions, got, done, orphans, tools, catalog>>

Returns(outcome) ==
    /\ got' = [got EXCEPT ![holder] = outcome] /\ holder' = 0

(* Every tool call makes the catalogs stale, however it ended.              *)
AfterCall(c, r) == IF r \in calls THEN [c EXCEPT !.stale = TRUE] ELSE c

(* _request reads one line: events are applied, questions are answered in   *)
(* turn, the reply of an earlier request is dropped, a reply with any other *)
(* number is an error of this request.                                      *)
(* A slip: every reply must be the one that is waited for.                  *)
NeverOutdated(line) == FALSE
Outdated(line) == line.kind = "reply" /\ line.req # 0 /\ line.req < holder
ReadLine ==
    /\ holder # 0 /\ toClient # <<>>
    /\ toClient' = Tail(toClient)
    /\ LET line == Head(toClient) IN
       \/ /\ line.kind = "changed"
          /\ catalog' = [catalog EXCEPT !.stale = TRUE]
          /\ UNCHANGED <<holder, got, toBridge>>
       \/ /\ line.kind = "question"
          /\ toBridge' = Append(toBridge, Line("answer", line.req, TRUE, 0))
          /\ UNCHANGED <<holder, got, catalog>>
       \/ /\ Outdated(line)
          /\ UNCHANGED <<holder, got, catalog, toBridge>>
       \/ /\ line.kind = "reply" /\ line.req = holder
          /\ Returns(IF line.ok THEN "result" ELSE "error")
          /\ catalog' = IF holder \in calls THEN AfterCall(catalog, holder)
                        ELSE IF line.ok THEN [seen |-> line.seen, stale |-> FALSE] ELSE catalog
          /\ UNCHANGED toBridge
       \/ /\ line.kind = "reply" /\ line.req # holder /\ ~Outdated(line)
          /\ Returns("mismatch") /\ catalog' = AfterCall(catalog, holder)
          /\ UNCHANGED toBridge
    /\ UNCHANGED <<up, next, calls, bridge, asking, questions, done, orphans, tools>>

GivesUp ==
    /\ holder # 0 /\ toClient = <<>>
    /\ Returns(IF up THEN "timeout" ELSE "gone") /\ catalog' = AfterCall(catalog, holder)
    /\ UNCHANGED <<up, next, calls, toBridge, toClient, bridge, asking, questions, done, orphans, tools>>

-----------------------------------------------------------------------------
(* The bridge.  Its main loop and every open question poll the same queue.  *)
Take ==
    /\ up /\ toBridge # <<>> /\ toBridge' = Tail(toBridge)
    /\ LET line == Head(toBridge) IN
       \/ /\ bridge.at = "idle" /\ line.kind = "request"
          /\ bridge' = [Idle EXCEPT !.at = "work", !.req = line.req]
          /\ UNCHANGED <<asking, toClient, orphans>>
       \/ /\ bridge.at = "idle" /\ line.kind = "answer"
          /\ toClient' = Append(toClient, Line("reply", 0, FALSE, 0)) /\ orphans' = orphans + 1
          /\ UNCHANGED <<asking, bridge>>
       \/ \E q \in asking :
             /\ asking' = asking \ {q} /\ UNCHANGED <<bridge, toClient, orphans>>
    /\ UNCHANGED <<up, clientVars, questions, serverVars>>

Ask ==
    /\ up /\ bridge.at = "work" /\ questions < MaxQuestions
    /\ questions' = questions + 1 /\ asking' = asking \cup {questions + 1}
    /\ toClient' = Append(toClient, Line("question", questions + 1, TRUE, 0))
    /\ UNCHANGED <<up, clientVars, toBridge, bridge, orphans, serverVars>>

(* The server answers, and a call has then been executed; the bridge gives  *)
(* up on it, executed or not; a question that is open stays open.           *)
ServerDone ==
    /\ up /\ bridge.at = "work"
    /\ bridge' = [bridge EXCEPT !.at = "reply", !.seen = tools]
    /\ done' = IF bridge.req \in calls THEN done \cup {bridge.req} ELSE done
    /\ UNCHANGED <<up, clientVars, toBridge, toClient, asking, questions, orphans, tools>>
ServerTimeout ==
    /\ up /\ bridge.at = "work"
    /\ bridge' = [bridge EXCEPT !.at = "reply", !.ok = FALSE]
    /\ done' \in {done} \cup IF bridge.req \in calls THEN {done \cup {bridge.req}} ELSE {}
    /\ UNCHANGED <<up, clientVars, toBridge, toClient, asking, questions, orphans, tools>>
Reply ==
    /\ up /\ bridge.at = "reply"
    /\ toClient' = Append(toClient, Line("reply", bridge.req, bridge.ok, bridge.seen))
    /\ bridge' = Idle
    /\ UNCHANGED <<up, clientVars, toBridge, asking, questions, orphans, serverVars>>

(* The server changes its tools; the notification is written by another     *)
(* task of the bridge.                                                      *)
ToolsChange ==
    /\ up /\ tools = 0 /\ tools' = 1
    /\ toClient' = Append(toClient, Line("changed", 0, TRUE, 1))
    /\ UNCHANGED <<up, clientVars, toBridge, bridge, asking, questions, done, orphans>>

BridgeDies ==
    /\ up /\ up' = FALSE /\ bridge' = Idle /\ asking' = {}
    /\ UNCHANGED <<clientVars, toBridge, toClient, questions, serverVars, orphans>>

McpNext == Send \/ ReadLine \/ GivesUp \/ Take \/ Ask \/ ServerDone \/ ServerTimeout \/ Reply
           \/ ToolsChange \/ BridgeDies

-----------------------------------------------------------------------------
(* A late reply costs nothing but its own request: a request fails on a     *)
(* reply that is not its own at most once for every reply that had no       *)
(* number, so the stream is never off by one for good.                      *)
StreamRecovers == Cardinality({r \in Requests : got[r] = "mismatch"}) <= orphans

(* A tool list that is out of date is known to be: it is stale, or what     *)
(* says so is still on its way.                                             *)
CatalogKnowsItsAge ==
    catalog.seen = tools \/ catalog.stale \/ \E i \in DOMAIN toClient : toClient[i].kind = "changed"

(* A call that the server executed is never reported as an error.           *)
FailedMeansNotDone == \A r \in done : got[r] \notin {"error", "mismatch"}

-----------------------------------------------------------------------------
(* Why the stream recovers: every mismatch, and every reply without a       *)
(* number that is still to be read, was paid for by an orphan.              *)
Lines == [kind : {"request", "answer", "reply", "question", "changed"}, req : Nat, ok : BOOLEAN, seen : Nat]
Bridges == [at : {"idle", "work", "reply"}, req : Nat, ok : BOOLEAN, seen : Nat]
Numberless(lines) == {i \in DOMAIN lines : lines[i].kind = "reply" /\ lines[i].req = 0}
Mismatched == {r \in Requests : got[r] = "mismatch"}
McpInv ==
    /\ next \in 0..MaxRequests /\ holder \in {0, next} /\ orphans \in Nat /\ tools \in Nat /\ questions \in Nat
    /\ toBridge \in Seq(Lines) /\ toClient \in Seq(Lines)
    /\ bridge \in Bridges
    /\ DOMAIN got = Requests
    /\ \A i \in DOMAIN toBridge : toBridge[i].kind = "request" => toBridge[i].req \in 1..next
    /\ bridge.at # "idle" => bridge.req \in 1..next
    /\ \A i \in DOMAIN toClient : toClient[i].kind = "reply" => toClient[i].req \in 0..next
    /\ Cardinality(Mismatched) + Cardinality(Numberless(toClient)) <= orphans

=============================================================================
