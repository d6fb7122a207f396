---------------------------- MODULE MCResolver ----------------------------
(* Resolver for TLC: the policy lets evil and shop through; the feed lists *)
(* evil, which it spells with "www.", and shop, or one of them or neither. *)
EXTENDS Resolver

CONSTANTS evil, www, shop

Asked == SUBSET Host \ {{}, {www}}
NoWww == [h \in Host |-> IF h = www THEN evil ELSE h]
===========================================================================
