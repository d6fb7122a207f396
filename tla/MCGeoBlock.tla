---------------------------- MODULE MCGeoBlock ----------------------------
(* GeoBlock for TLC: values of the structured constants.                   *)
EXTENDS GeoBlock

CONSTANTS c1, c2, cn, ru

OneCountry == <<cn>>
OneFeed == cn :> {{c2}, {c1, c2}}
ShrinkingFeed == cn :> {{c2}, {}}
TwoCountries == <<cn, ru>>
TwoFeeds == cn :> {{c1}} @@ ru :> {{c2}}

Calls == [b \in Backends |-> IF b = "netsh" THEN 1 ELSE 2]

Clients == Permutations(Client)
===========================================================================
