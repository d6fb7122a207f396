---------------------------- MODULE MCJournal ----------------------------
(* Journal for TLC: one goroutine of each daemon logs. *)
EXTENDS Journal

CONSTANTS guard, patrol, g1, p1

Homes == [w \in Writer |-> IF w = g1 THEN guard ELSE patrol]
===========================================================================
