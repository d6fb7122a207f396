----------------------------- MODULE GeoBlock -----------------------------
(***************************************************************************)
(* internal/guard/geoblock.go on top of the firewall: the cached ranges of *)
(* the blocked countries are dropped again at every start, and a refresh   *)
(* (at the start when the cache is older than a week, and by cron)         *)
(* replaces them by what the feed lists.  This is the whole daemon as far  *)
(* as its rules are concerned.  While a refresh has its transaction open   *)
(* it holds the one database connection, and the statements of the REST    *)
(* handlers wait.                                                          *)
(***************************************************************************)
EXTENDS FirewallWindows

CONSTANTS
  Order,   \* blocked_countries in the order of the config
  Feed     \* country -> the lists its feed may serve

(* Start returns at once when there is no country. *)
ASSUME OrderAssumption == Order \in Seq(Country) \ {<<>>} /\ ToSet(Order) = Country
ASSUME FeedAssumption == Feed \in [Country -> SUBSET SUBSET Cidr]

VARIABLE
  geo   \* the refresh: pc, countries left, ranges still to block, blocked in this tx

vars == <<fwVars, geo>>

Resting == [pc |-> "idle", left |-> <<>>, todo |-> {}, tx |-> {}]
Refresh == [pc : {"idle", "fetch", "clear", "flush", "block"},
            left : Seq(Country), todo : SUBSET Cidr, tx : SUBSET Cidr]

Init == FwInit /\ geo = Resting

GeoRows == {r \in rows : r.type = "geo_block"}
(* Mutant: the columns swapped. *)
GeoRowSwapped(c, cc) == [type |-> "geo_block", cidr |-> cc, cc |-> c]
GeoRow(c, cc) == [type |-> "geo_block", cidr |-> c, cc |-> cc]

DbFree == geo.pc # "block"

Go(pc) == geo' = [geo EXCEPT !.pc = pc]

(* The next country, or the end of the refresh. *)
Next1(g) == IF Len(g.left) > 1 THEN [Resting EXCEPT !.pc = "fetch", !.left = Tail(g.left)]
                               ELSE Resting

(* gb.Start: applyCached drops every recorded range, errors ignored, and   *)
(* refreshIfStale starts a refresh when no row is younger than a week (the *)
(* age of the rows is left open; without a row it does).                   *)
Cached == {r.cidr : r \in GeoRows}

ApplyCached ==
  /\ phase = "geo"
  /\ \E S \in SUBSET Cached :
       /\ table = "absent" => S = {}
       /\ table # "absent" => failures + Cardinality(Cached \ S) <= MaxFailures
       /\ failures' = IF table = "absent" THEN failures
                      ELSE failures + Cardinality(Cached \ S)
       /\ unheard' = unheard \cup (Cached \ S)
       /\ rules' = [c \in Cidr |-> IF c \in S THEN Insert(rules[c], "DROP") ELSE rules[c]]
  /\ \/ geo' = [Resting EXCEPT !.pc = "fetch", !.left = Order]
     \/ GeoRows # {} /\ geo' = Resting
  /\ phase' = "up"
  /\ UNCHANGED <<backend, policy, table, rows, applied, call, starts, wanted, contested>>

(* Mutant: only what is recorded is refreshed. *)
CronRefreshRecorded ==
  /\ phase = "up" /\ geo.pc = "idle" /\ Room /\ GeoRows # {}
  /\ geo' = [Resting EXCEPT !.pc = "fetch", !.left = Order]
  /\ UNCHANGED fwVars

(* The cron entry; refresh runs one at a time (g.mu). *)
CronRefresh ==
  /\ phase = "up" /\ geo.pc = "idle" /\ Room
  /\ geo' = [Resting EXCEPT !.pc = "fetch", !.left = Order]
  /\ UNCHANGED fwVars

FetchList ==
  /\ phase = "up" /\ geo.pc = "fetch"
  /\ \E L \in Feed[Head(geo.left)] : geo' = [geo EXCEPT !.pc = "clear", !.todo = L]
  /\ UNCHANGED fwVars

(* Unreachable, or not status 200: the next country. *)
FetchFails ==
  /\ phase = "up" /\ geo.pc = "fetch"
  /\ geo' = Next1(geo)
  /\ UNCHANGED fwVars

OfCountry(r) == r.type = "geo_block" /\ r.cc = Head(geo.left)

(* The DELETE runs outside the transaction ... *)
ClearRows ==
  /\ phase = "up" /\ geo.pc = "clear"
  /\ rows' = {r \in rows : ~OfCountry(r)}
  /\ Go("flush")
  /\ UNCHANGED <<kernel, setup, call, failures, past>>

(* ... and its error is ignored: the old rows stay, and what follows       *)
(* flushes their rules.                                                    *)
ClearRowsFails ==
  /\ phase = "up" /\ geo.pc = "clear" /\ Fails(1)
  /\ unheard' = unheard \cup {r.cidr : r \in {x \in rows : OfCountry(x)}}
  /\ Go("flush")
  /\ UNCHANGED <<kernel, rows, setup, call, wanted, contested>>

(* Mutant: iptables -F TPT_GUARD. *)
FlushedChain(c) == <<>>

(* FlushGeoBlocks: nftables empties tpt_block; iptables deletes one DROP   *)
(* for each recorded range, which no longer are this country's; netsh      *)
(* likewise all blocks of it.  Errors are ignored.                         *)
Flushed(c) ==
  IF backend = "nftables" \/ c \in Cached THEN Delete(rules[c], "DROP") ELSE rules[c]

FlushGeoBlocks ==
  /\ phase = "up" /\ geo.pc = "flush"
  /\ \E K \in SUBSET Cidr :
       /\ rules' = [c \in Cidr |-> IF c \in K THEN rules[c] ELSE Flushed(c)]
       /\ Fails(IF K = {} THEN 0 ELSE 1)
  /\ Go("block")
  /\ UNCHANGED <<table, rows, setup, call, past>>

(* BlockCIDR for a line of the list; recorded if the command succeeds. *)
BlockCIDR(c) ==
  /\ phase = "up" /\ geo.pc = "block" /\ c \in geo.todo
  /\ CommandRuns
  /\ rules' = [rules EXCEPT ![c] = Insert(@, "DROP")]
  /\ geo' = [geo EXCEPT !.todo = @ \ {c}, !.tx = @ \cup {c}]
  /\ UNCHANGED <<table, rows, setup, call, past>>

(* Mutant: the error of the command is not looked at. *)
BlockFailsRecorded(c) ==
  /\ phase = "up" /\ geo.pc = "block" /\ c \in geo.todo
  /\ CommandFails
  /\ geo' = [geo EXCEPT !.todo = @ \ {c}, !.tx = @ \cup {c}]
  /\ UNCHANGED <<kernel, rows, setup, call, past>>

(* Mutant: the command is tried until it succeeds. *)
BlockFailsRetried(c) ==
  /\ phase = "up" /\ geo.pc = "block" /\ c \in geo.todo
  /\ CommandFails
  /\ UNCHANGED <<kernel, rows, setup, call, past, geo>>

BlockFails(c) ==
  /\ phase = "up" /\ geo.pc = "block" /\ c \in geo.todo
  /\ CommandFails
  /\ geo' = [geo EXCEPT !.todo = @ \ {c}]
  /\ UNCHANGED <<kernel, rows, setup, call, past>>

(* Errors of an INSERT and of the COMMIT are ignored: X is recorded. *)
CommitTx ==
  /\ phase = "up" /\ geo.pc = "block" /\ geo.todo = {}
  /\ \E X \in SUBSET geo.tx :
       /\ rows' = rows \cup {GeoRow(c, Head(geo.left)) : c \in X}
       /\ Fails(IF X = geo.tx THEN 0 ELSE 1)
  /\ geo' = Next1(geo)
  /\ UNCHANGED <<kernel, setup, call, past>>

Ended == Stop \/ NetshFlush \/ Crash

GeoStep ==
  \/ FetchList
  \/ ClearRows \/ ClearRowsFails
  \/ FlushGeoBlocks
  \/ \E c \in Cidr : BlockCIDR(c)
  \/ \E c \in Cidr : BlockFails(c)
  \/ CommitTx

StartUp ==
  /\ \/ Reset \/ ResetFails \/ Populate \/ Close \/ CloseFails
     \/ NetshPolicy \/ NetshPopulate
  /\ UNCHANGED geo

Next ==
  \/ StartUp
  \/ ApplyCached
  \/ Ended /\ geo' = Resting
  \/ \E w \in Client, c \in Cidr : BeginAdd(w, c) /\ UNCHANGED geo
  \/ \E w \in Client : Command(w) /\ UNCHANGED geo
  \/ \E w \in Client : DbFree /\ (Lookup(w) \/ Statement(w)) /\ UNCHANGED geo
  \/ CronRefresh
  \/ FetchFails
  \/ GeoStep

Spec == Init /\ [][Next]_vars

(* The start runs through, commands return, cron fires.  A statement waits *)
(* in the queue of database/sql, and a feed asked again and again answers  *)
(* at last: both are enabled on and off.                                   *)
Fairness ==
  /\ WF_vars(StartUp) /\ WF_vars(ApplyCached)
  /\ WF_vars(CronRefresh) /\ WF_vars(GeoStep) /\ SF_vars(FetchList)
  /\ \A w \in Client : /\ WF_vars(Command(w) /\ UNCHANGED geo)
                        /\ SF_vars(DbFree /\ Statement(w) /\ UNCHANGED geo)

FairSpec == Spec /\ Fairness

---------------------------------------------------------------------------
(* Properties.                                                             *)

TypeOK == FwTypeOK /\ geo \in Refresh

(* Default deny.  Once Apply has reported rules_applied, a range that is   *)
(* neither configured nor wanted, and on which no call is under way, gets  *)
(* no packet through: AddAllow and RemoveAllow leave no ACCEPT behind.     *)
(* (On iptables the report says nothing if the final command failed.)      *)
Quiet(c) == \A w \in Client : call[w].pc # "idle" => call[w].cidr # c

ClosedBut(X) ==
  \A c \in Cidr \ (AllowIPs \cup wanted \cup unheard \cup X) :
    phase = "up" /\ applied /\ Quiet(c) /\ (backend # "iptables" \/ table = "shut")
      => ~Reachable(c)

DenyInForce == ClosedBut(contested)

(* "RemoveAllow deletes the ACCEPT rule for the given CIDR", and so for one *)
(* client without calls that overlap nothing need be left out.             *)
RemovedClosed == ClosedBut({})

(* A range that a call has allowed since the rules were last taken away (at *)
(* a start on Linux, by Flush on Windows), and none removed since, is       *)
(* listed, and reachable unless a country list drops it.  (Of what is       *)
(* listed from before that, DenyInForce says that it is closed.)            *)
WantedInForce ==
  \A c \in wanted \ (contested \cup unheard) :
    phase = "up" /\ policy = "deny" /\ Quiet(c) =>
      /\ AllowRow(c) \in rows
      /\ "DROP" \in ToSet(rules[c]) \/ Reachable(c)

(* "List all whitelist rules": what the list has is in force.              *)
ListedInForce ==
  \A c \in Cidr \ (contested \cup unheard) :
    phase = "up" /\ applied /\ Quiet(c) /\ AllowRow(c) \in rows
      => "DROP" \in ToSet(rules[c]) \/ Reachable(c)

(* "applies DROP rules": a recorded range of a blocked country has a DROP   *)
(* whenever no refresh is under way, and nothing reaches it, configured or  *)
(* not.  On iptables that holds of the rules Apply has made, and unless a   *)
(* call has allowed the range: AddAllow puts its ACCEPT before the DROP.    *)
Overridden(c) ==
  backend = "iptables" /\ (policy # "deny" \/ c \in wanted \cup contested \/ ~Quiet(c))

GeoInForce ==
  \A r \in GeoRows :
    phase = "up" /\ table = "shut" /\ geo.pc = "idle" /\ r.cidr \notin unheard =>
      /\ "DROP" \in ToSet(rules[r.cidr])
      /\ ~Reachable(r.cidr) \/ Overridden(r.cidr)

(* "BlockCIDR inserts an explicit DROP for geo-blocked ranges (before      *)
(* ACCEPT rules)": nothing reaches a recorded range, allowed or not.       *)
GeoFirst ==
  \A r \in GeoRows :
    phase = "up" /\ table = "shut" /\ geo.pc = "idle" /\ r.cidr \notin unheard => ~Reachable(r.cidr)

(* "FlushGeoBlocks removes all geo-block DROP rules".                      *)
FlushedAll ==
  geo.pc = "block" /\ geo.tx = {} => \A c \in Cidr : "DROP" \notin ToSet(rules[c])

(* A refresh holds the connection while it runs a command per line of the  *)
(* list, yet every call of the API returns in the end.                     *)
CallsReturn == \A w \in Client : call[w].pc # "idle" ~> call[w].pc = "idle"

(* "if the feed is unreachable, previously cached rules remain", and one   *)
(* that is reachable again is applied: in a daemon that stays up with its  *)
(* table, what every list of a country names is dropped again and again,   *)
(* whatever failed meanwhile.                                              *)
Listed == {c \in Cidr : \E cc \in Country : \A L \in Feed[cc] : c \in L}

GeoReturns ==
  <>[](phase = "up" /\ table # "absent")
    => \A c \in Listed : []<>("DROP" \in ToSet(rules[c]))
===========================================================================
