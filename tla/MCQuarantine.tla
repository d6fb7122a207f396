--------------------------- MODULE MCQuarantine ---------------------------
(* Quarantine for TLC: the callers are interchangeable.                    *)
EXTENDS Quarantine, FiniteSets, TLC

(* Nothing but TypeOK and KeySafe (proved) speaks of a path once activities *)
(* overlapped on it: its later states are not explored.                    *)
Uncontested == contested = {}

(* Bound: calls that crashes and errors leave half done. *)
FewLeftHalf == crashes + Cardinality(struck) + Cardinality(halfway) <= 2

Explored == Uncontested /\ FewLeftHalf

Symmetry == Permutations(Worker)
===========================================================================
