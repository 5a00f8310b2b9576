------------------------------ MODULE GraphPromise ------------------------------
(***************************************************************************)
(* What a graph run promises to whoever reads its document, its statuses,  *)
(* its root task and its saved record: every node is decided at most once  *)
(* and for a reason the document gives; the record leaves "running" at     *)
(* most once; and a record that says "succeeded" is true.                  *)
(***************************************************************************)
EXTENDS Naturals, FiniteSets

CONSTANTS Node, Documents

VARIABLES doc, status, root, stored

promised == <<doc, status, root, stored>>

Decided == { "succeeded", "failed", "skipped", "blocked", "cancelled" }

\* The edges into n whose source has been decided as their kind requires.
Taken(n) ==
  { e \in doc.edges :
      /\ e.to = n
      /\ status[e.from] \in e.when \cap Decided
      /\ e.kind = "on_failure" => status[e.from] = "failed"
      /\ e.kind = "sequence"   => status[e.from] = "succeeded" }

Into(n) == { e \in doc.edges : e.to = n }
Sources(n) == { e.from : e \in Into(n) }

\* A node may run: it is an entry point, or all its sources are decided and
\* as many edges are taken as its join asks for.
MayRun(n) ==
  \/ Into(n) = {} /\ n \in doc.entry
  \/ /\ Into(n) # {}
     /\ \A m \in Sources(n) : status[m] \in Decided
     /\ Cardinality(Taken(n)) >= IF doc.join[n] = 0 THEN Cardinality(Into(n)) ELSE doc.join[n]

\* No edge into n can be taken any more.
Unreachable(n) ==
  /\ Into(n) # {}
  /\ \A m \in Sources(n) : status[m] \in Decided
  /\ Taken(n) = {}

Reason(n, new) ==
  /\ new \in { "succeeded", "failed", "awaiting_human", "skipped", "blocked" }
  /\ new \in { "succeeded", "failed", "awaiting_human" } => MayRun(n)
  /\ new = "skipped" => \/ MayRun(n)                      \* its own guard, or a fallback
                        \/ Unreachable(n)
                        \/ doc.halt /\ \E m \in Node : status'[m] = "failed"
  /\ new = "blocked" => ~MayRun(n)

Ran == { n \in Node : status'[n] # status[n] /\ status'[n] \in { "succeeded", "failed" } }

Init ==
  /\ doc \in Documents
  /\ status = [ n \in Node |-> IF n \in doc.reused THEN "succeeded" ELSE "pending" ]
  /\ root = "running"
  /\ stored = "running"

\* A round of nodes is decided: none twice, no more of them executed than
\* max_parallel_nodes.
DecideNodes ==
  /\ status' # status
  /\ \A n \in Node : status'[n] # status[n] =>
       status[n] = "pending" /\ Reason(n, status'[n])
  /\ Cardinality(Ran) =< doc.parallel
  /\ UNCHANGED <<doc, root, stored>>

\* The root task moves: by the user, or to the outcome of the run.
MoveRoot ==
  /\ root' # root
  /\ root \notin { "succeeded", "cancelled" }
  /\ root' = "succeeded" => \A n \in Node : status[n] \in { "succeeded", "skipped" }
  /\ UNCHANGED <<doc, status, stored>>

\* The record is saved, once, with an outcome the root task does not deny.
Publish ==
  /\ stored = "running" /\ stored' # "running"
  /\ stored' = "succeeded" <=> root' = "succeeded"
  /\ stored' = "cancelled" => root' = "cancelled"
  /\ root' # root => root' = "cancelled"
  /\ UNCHANGED <<doc, status>>

Next == DecideNodes \/ MoveRoot \/ Publish

Spec == Init /\ [][Next]_promised
=============================================================================
