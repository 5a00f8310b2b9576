----------------------------- MODULE GraphSchedule -----------------------------
(***************************************************************************)
(* What a graph document means to the scheduler: edge activation, readiness*)
(* and skips (agraph/schedule.py), the selection of a round (_run_scope),  *)
(* and the plan's bounds (plan.py).  Pure operators over a document d and  *)
(* the statuses st of its nodes.                                           *)
(*                                                                         *)
(* A condition of an edge is the set of final statuses of its source for   *)
(* which the expression is true (an evaluation error is false): conditions *)
(* speak of their source, whose outputs no longer change.                  *)
(***************************************************************************)
EXTENDS Naturals, Sequences, FiniteSets, SequencesExt

CONSTANTS Node,       \* node ids of the documents
          NoGroup,    \* the concurrency group of a node that names none
          NoNode      \* a node without compensation

NodeStatus == { "pending", "succeeded", "failed", "skipped", "blocked",
                "awaiting_human" }

\* TERMINAL of schedule.py: an edge from any other status is still open.
Terminal == { "succeeded", "failed", "skipped", "cancelled", "blocked" }

EdgeKind == { "sequence", "on_failure", "conditional" }
Edge == [ from : Node, to : Node, kind : EdgeKind, when : SUBSET Terminal ]

\* Steps of failure.fallback; an alternate names another node of the graph.
FallbackStep == [ strategy : { "skip", "degrade_outputs", "relax_criteria",
                               "human_takeover" } ]
                  \cup [ strategy : { "alternate_node" }, node : Node ]

FailureClass == { "timeout", "criteria_failed", "tool_error" }

\* Every node once.
Orders == { s \in Seq(Node) : Range(s) = Node /\ IsInjective(s) }

Document ==
  [ edges        : SUBSET Edge,
    order        : Orders,                    \* topological_order
    entry        : SUBSET Node,
    join         : [ Node -> Nat ],           \* 0: all, 1: any, k: n_of k
    group        : [ Node -> Node \cup { NoGroup } ],
    gate         : SUBSET Node,               \* gates may skip or hold
    guarded      : SUBSET Node,               \* nodes with a `when` of their own
    fragile      : SUBSET Node,               \* whose inputs or requirements may raise
    attempts     : [ Node -> Nat \ {0} ],     \* failure.retry.max_attempts
    retryOn      : [ Node -> SUBSET FailureClass ],
    fallback     : [ Node -> Seq(FallbackStep) ],
    exhausted    : [ Node -> { "fail", "skip", "succeed_degraded", "escalate" } ],
    compensation : [ Node -> Node \cup { NoNode } ],
    parallel     : Nat \ {0},                 \* max_parallel_nodes
    halt         : BOOLEAN,                   \* policy.on_node_failure = "halt"
    budget       : Nat,                       \* max_node_executions, 0: none
    fallible     : BOOLEAN,                   \* some graph output may be missing
    reused       : SUBSET Node ]              \* nodes taken from the resumed run

-----------------------------------------------------------------------------
Incoming(d, n) == { e \in d.edges : e.to = n }

\* edge_table: the status that lets an edge fire, by kind.
Fires(e, s) ==
  /\ s \in e.when
  /\ e.kind = "on_failure" => s = "failed"
  /\ e.kind = "sequence"   => s = "succeeded"

IsOpen(st, e) == st[e.from] \notin Terminal
IsActive(st, e) == st[e.from] \in Terminal /\ Fires(e, st[e.from])

ActiveCount(d, st, n) == Cardinality({ e \in Incoming(d, n) : IsActive(st, e) })

\* A slip: a join fires on the first active edge, whatever it asks for.
JoinMetOnAny(d, st, n) == ActiveCount(d, st, n) >= 1

JoinMet(d, st, n) ==
  IF d.join[n] = 0 THEN \A e \in Incoming(d, n) : IsActive(st, e)
                   ELSE ActiveCount(d, st, n) >= d.join[n]

\* Every route to n has been decided, and its join is satisfied.
Enabled(d, st, n) ==
  IF Incoming(d, n) = {} THEN n \in d.entry
  ELSE /\ \A e \in Incoming(d, n) : ~IsOpen(st, e)
       /\ JoinMet(d, st, n)

\* ready_nodes
Ready(d, st) == { n \in Node : st[n] = "pending" /\ Enabled(d, st, n) }

\* propagate_skips: one pass, over the edges as they were before it.
Unrouted(d, st) ==
  { n \in Node \ d.entry :
      /\ st[n] = "pending"
      /\ Incoming(d, n) # {}
      /\ \A e \in Incoming(d, n) : ~IsOpen(st, e) /\ ~IsActive(st, e) }

AfterSkips(d, st) ==
  [ n \in Node |-> IF n \in Unrouted(d, st) THEN "skipped" ELSE st[n] ]

\* The nodes before n in the topological order.
Earlier(d, n) ==
  { m \in Node : \E j \in DOMAIN d.order : d.order[j] = n /\ \E i \in 1..(j - 1) : d.order[i] = m }

\* A slip: selection without the groups of the jobs already picked.
PicksUngrouped(d, st, S) ==
  S = { n \in Ready(d, st) : Cardinality(S \cap Earlier(d, n)) < d.parallel }

\* S is what a round picks: a ready node unless max_parallel_nodes of those
\* before it were picked, or one of its concurrency group.
Picks(d, st, S) ==
  S = { n \in Ready(d, st) :
          /\ Cardinality(S \cap Earlier(d, n)) < d.parallel
          /\ \A m \in S \cap Earlier(d, n) : d.group[n] # NoGroup => d.group[m] # d.group[n] }

\* How _run_scope's caller judges the statuses it is given.
RunFailed(st) == \E n \in Node : st[n] \notin { "succeeded", "skipped" }

\* plan.worst_case_node_executions
WorstCase(d) == FoldLeft(LAMBDA sum, n : sum + d.attempts[n], 0, d.order)
=============================================================================
