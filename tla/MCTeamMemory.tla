----------------------------- MODULE MCTeamMemory -----------------------------
(* Ann works in her clone with two processes, a1 and a2 (her terminal and   *)
(* her Web UI); Bob has one.                                                *)
EXTENDS TeamMemory

CONSTANTS ann, bob, p1, p2, a1, a2, b1

MCAuthor == [p \in Proposals |-> IF p = p1 THEN ann ELSE bob]
MCUserOf == [a \in Actors |-> IF a = b1 THEN bob ELSE ann]
NoClash == {}
=============================================================================
