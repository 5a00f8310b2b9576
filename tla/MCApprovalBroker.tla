--------------------------- MODULE MCApprovalBroker ---------------------------
(* Small instances of ApprovalBroker for TLC. *)
EXTENDS ApprovalBroker, TLC

Symmetry == Permutations(Broker) \cup Permutations(Session) \cup Permutations(Request)
=============================================================================
