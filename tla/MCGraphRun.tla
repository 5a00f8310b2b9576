------------------------------- MODULE MCGraphRun -------------------------------
(* Documents of three nodes that, between them, use every feature the model  *)
(* has: joins, edge kinds, groups, retries, every fallback, compensation,    *)
(* budgets, guards, gates and resumed nodes.                                 *)
EXTENDS GraphRun

CONSTANTS a, b, c, d

All(x) == [ n \in Node |-> x ]
Link(m, n) == [ from |-> m, to |-> n, kind |-> "sequence", when |-> Terminal ]
OnFailure(m, n) == [ from |-> m, to |-> n, kind |-> "on_failure", when |-> Terminal ]
When(m, n, S) == [ from |-> m, to |-> n, kind |-> "conditional", when |-> S ]

Alt(n) == [ strategy |-> "alternate_node", node |-> n ]
Do(s) == [ strategy |-> s ]

Plain ==
  [ edges |-> { Link(a, b), Link(b, c) }, order |-> <<a, b, c>>, entry |-> { a },
    join |-> All(0), group |-> All(NoGroup), gate |-> {}, guarded |-> {}, fragile |-> {},
    attempts |-> All(1), retryOn |-> All({}), fallback |-> All(<<>>),
    exhausted |-> All("fail"), compensation |-> All(NoNode),
    parallel |-> 2, halt |-> FALSE, budget |-> 0, fallible |-> FALSE, reused |-> {} ]

\* Two jobs side by side, then a join of either kind; in one group or not.
Joins ==
  { [ Plain EXCEPT !.edges = { Link(a, c), Link(b, c) }, !.entry = { a, b },
                   !.join = [ All(0) EXCEPT ![c] = j ], !.halt = h, !.group = g ] :
      j \in 0..2, h \in BOOLEAN, g \in { All(NoGroup), [ All(NoGroup) EXCEPT ![a] = a, ![b] = a ] } }

\* A branch: success to b, failure to c, or a condition on either.
Branches ==
  { [ Plain EXCEPT !.edges = { Link(a, b), OnFailure(a, c) } ],
    [ Plain EXCEPT !.edges = { When(a, b, { "succeeded" }), When(a, c, {}) } ],
    [ Plain EXCEPT !.edges = { When(a, b, { "failed" }), Link(b, c) } ],
    [ Plain EXCEPT !.guarded = { a, b }, !.fragile = { c }, !.halt = TRUE ] }

\* Retries, gates that skip or hold, and every way to accept a failure.
Recoveries ==
  { [ Plain EXCEPT !.attempts = [ All(1) EXCEPT ![a] = 2 ],
                   !.retryOn = All({ "tool_error", "criteria_failed" }),
                   !.gate = { a }, !.halt = TRUE,
                   !.fallback = [ All(<<>>) EXCEPT ![a] = << Do("degrade_outputs"), s >> ],
                   !.exhausted = [ All("fail") EXCEPT ![a] = x ] ] :
      s \in { Do("skip"), Do("human_takeover"), Do("relax_criteria") },
      x \in { "fail", "skip", "succeed_degraded", "escalate" } }

\* Jobs a and b run side by side and name c as alternate; c itself has a route
\* from a's failure.  One of them may name the other instead.
Alternates ==
  { [ Plain EXCEPT !.edges = { OnFailure(a, c) }, !.entry = { a, b },
                   !.fallback = [ All(<<>>) EXCEPT ![a] = <<Alt(c)>>, ![b] = f, ![c] = g ],
                   !.halt = h, !.budget = 3 ] :
      f \in { <<>>, <<Alt(c)>>, <<Alt(a), Alt(c)>> }, g \in { <<>>, <<Alt(b)>> }, h \in BOOLEAN }

\* A saga: c undoes a or b, and may have been resumed after a.  Its inputs may
\* raise, or it may itself need an alternate.
Sagas ==
  { [ Plain EXCEPT !.edges = { Link(a, b), OnFailure(b, c) },
                   !.compensation = [ All(NoNode) EXCEPT ![a] = c, ![b] = x ],
                   !.halt = TRUE, !.fallible = y, !.reused = r ] :
      x \in { NoNode, c }, y \in BOOLEAN, r \in { {}, { a } } }
  \cup
  { [ Plain EXCEPT !.edges = { Link(a, b) }, !.order = <<a, b, c>>,
                   !.compensation = [ All(c) EXCEPT ![c] = NoNode ],
                   !.fragile = f, !.fallback = [ All(<<>>) EXCEPT ![c] = g ],
                   !.fallible = TRUE, !.halt = TRUE ] :
      f \in { {}, { c } }, g \in { <<>>, << Alt(b) >> } }

\* Two jobs with their own alternates, one of which names its caller back.
Entangled ==
  { [ Plain EXCEPT !.edges = { OnFailure(a, c), OnFailure(b, d) }, !.entry = { a, b },
                   !.order = <<a, b, c, d>>,
                   !.fallback = [ All(<<>>) EXCEPT ![a] = <<Alt(c)>>, ![b] = <<Alt(d)>>,
                                                   ![d] = <<Alt(b)>> ] ] }

MCDocuments == Joins \cup Branches \cup Recoveries \cup Alternates \cup Sagas
=============================================================================
