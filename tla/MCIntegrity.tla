---------------------------- MODULE MCIntegrity ----------------------------
(* Integrity for TLC: two contents of one size, and one of another.        *)
EXTENDS Integrity

CONSTANTS x, y, z

Sizes == [c \in Content |-> IF c = z THEN 2 ELSE 1]

Interchange == Permutations(Job) \cup Permutations({x, y})
===========================================================================
