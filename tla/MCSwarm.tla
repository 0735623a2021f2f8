------------------------------ MODULE MCSwarm ------------------------------
(* Small instances of Swarm for TLC: "a1" and "a2" are connections of one  *)
(* joiner, "b1" one of another.                                            *)
EXTENDS Swarm

Joiner == [p \in Conns |-> IF p \in {"a1", "a2"} THEN "a" ELSE "b"]
=============================================================================
