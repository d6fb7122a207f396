------------------------------- MODULE Vault -------------------------------
(***************************************************************************)
(* What internal/quarantine promises to the user and to the REST API, in   *)
(* atomic moves: without inodes, keys, statements and crashes.  Quarantine *)
(* implements it.  A set of versions has at most one element: {} is no     *)
(* file, {0} a torn one.                                                   *)
(***************************************************************************)
EXTENDS Naturals, Sequences

CONSTANTS Path, Id

VARIABLES
  origin,  \* the path of each version the user wrote
  file,    \* what is at a path
  kept,    \* what is in custody under an id
  hand,    \* what a call for an id has read and not put down yet
  asked    \* ids somebody deletes, or whose version is back at its path

vars == <<origin, file, kept, hand, asked>>

Init ==
  /\ origin = <<>>
  /\ file = [p \in Path |-> {}]
  /\ kept = [i \in Id |-> {}] /\ hand = [i \in Id |-> {}]
  /\ asked = {}

(* A file rewritten in place changes for those who have it open, too. *)
Write(p) ==
  /\ origin' = Append(origin, p)
  /\ file' = [file EXCEPT ![p] = {Len(origin) + 1}]
  /\ \E I \in SUBSET {i \in Id : hand[i] = file[p]} :
       hand' = [i \in Id |-> IF i \in I THEN file'[p] ELSE hand[i]]
  /\ UNCHANGED <<kept, asked>>

PickUp(i, p) ==
  /\ kept[i] = {}
  /\ hand' = [hand EXCEPT ![i] = file[p]]
  /\ UNCHANGED <<origin, file, kept, asked>>

(* The file goes, and in the same step is in custody; never one that       *)
(* differs from what is kept.                                              *)
TakeAway(i, p) ==
  /\ kept[i] = {}
  /\ \E S \in {hand[i], file[p]} \ {{}} :
       /\ file[p] \in {{}, S}
       /\ kept' = [kept EXCEPT ![i] = S]
  /\ file' = [file EXCEPT ![p] = {}]
  /\ hand' = [hand EXCEPT ![i] = {}]
  /\ UNCHANGED <<origin, asked>>

(* It may stay at its path: then what is in custody is a copy of it.       *)
Copy(i, p) ==
  /\ kept[i] = {} /\ hand[i] # {} /\ file[p] = hand[i]
  /\ kept' = [kept EXCEPT ![i] = hand[i]]
  /\ hand' = [hand EXCEPT ![i] = {}]
  /\ UNCHANGED <<origin, file, asked>>

Lend(i) ==
  /\ hand' = [hand EXCEPT ![i] = kept[i]]
  /\ UNCHANGED <<origin, file, kept, asked>>

From(S, p) == S # {} /\ \A v \in S \ {0} : origin[v] = p

(* A restore in parts tears what it replaces, ... *)
Truncate(i, p) ==
  /\ From(hand[i], p)
  /\ file' = [file EXCEPT ![p] = {0}]
  /\ UNCHANGED <<origin, kept, hand, asked>>

(* ... and custody ends with it, or later. *)
PutBack(i, p) ==
  /\ \E S \in {hand[i], kept[i]} :
       From(S, p) /\ file' = [file EXCEPT ![p] = S]
  /\ kept' \in {kept, [kept EXCEPT ![i] = {}]}
  /\ hand' = [hand EXCEPT ![i] = {}]
  /\ asked' = asked \cup {i}
  /\ UNCHANGED origin

Ask(i) == asked' = asked \cup {i} /\ UNCHANGED <<origin, file, kept, hand>>

Drop(i) ==
  /\ i \in asked
  /\ kept' = [kept EXCEPT ![i] = {}]
  /\ UNCHANGED <<origin, file, hand, asked>>

(* Calls end, or all of them with the daemon. *)
Leave ==
  /\ UNCHANGED <<origin, file, kept>>
  /\ hand' = [i \in Id |-> IF hand'[i] = {} THEN {} ELSE hand[i]]
  /\ asked' \subseteq asked

Next ==
  \/ Leave
  \/ \E p \in Path : Write(p)
  \/ \E i \in Id : Lend(i) \/ Ask(i) \/ Drop(i)
  \/ \E i \in Id, p \in Path : PickUp(i, p) \/ TakeAway(i, p) \/ Copy(i, p)
                              \/ Truncate(i, p) \/ PutBack(i, p)

Spec == Init /\ [][Next]_vars
===========================================================================
