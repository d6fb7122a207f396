-------------------------- MODULE FirewallWindows --------------------------
(***************************************************************************)
(* internal/guard/firewall_windows.go: how the daemon starts and stops     *)
(* where the firewall is netsh advfirewall.  Rules are persistent and      *)
(* found by their names only: TPT_ALLOW_ and TPT_GEO_ with the range, and  *)
(* TPT_ALLOW_ with a number for the configured ranges.  Rules for          *)
(* processes are left out.                                                 *)
(***************************************************************************)
EXTENDS Firewall

(* Apply: the policy first; what earlier runs have left stays in force.    *)
(* (Ranges whose rule and row agree are no exception any longer.)          *)
NetshPolicy ==
  /\ OnWindows /\ Launch
  /\ \/ /\ policy = "deny" /\ Fails(0)
        /\ table' = "shut" /\ phase' = "populate"
     \/ /\ policy = "deny" /\ Fails(1)
        /\ phase' = "geo" /\ UNCHANGED table
     \/ /\ policy # "deny" /\ Fails(0)
        /\ phase' = "geo" /\ UNCHANGED table
  /\ unheard' = {c \in unheard \cup contested : Contains(rules[c], "ACCEPT") # (c \in wanted)}
  /\ contested' = {}
  /\ UNCHANGED <<rules, wanted>>

(* The rule of every configured range is deleted and added again, errors   *)
(* ignored.                                                                *)
NetshPopulate ==
  /\ OnWindows /\ phase = "populate"
  /\ \E S \in SUBSET AllowIPs :
       /\ rules' = [c \in Cidr |-> CASE c \in S -> Insert(rules[c], "CONFIGURED")
                                    [] c \in AllowIPs \ S -> Delete(rules[c], "CONFIGURED")
                                    [] OTHER -> rules[c]]
       /\ unheard' = unheard \cup (AllowIPs \ S)
       /\ Fails(Cardinality(AllowIPs \ S))
  /\ applied' = TRUE /\ phase' = "geo"
  /\ UNCHANGED <<backend, policy, table, rows, call, starts, wanted, contested>>

(* Flush at SIGTERM: outbound traffic is allowed, and the rules are        *)
(* deleted that have the name of a row; those of configured ranges, and    *)
(* those no row tells of, stay.  Errors are ignored.                       *)
NetshFlush ==
  LET named == {r.cidr : r \in rows}
  IN  /\ OnWindows /\ phase = "up"
      /\ \E T \in {"open", table}, A \in SUBSET named, G \in SUBSET named :
           /\ table' = T
           /\ rules' = [c \in Cidr |-> InMatchingOrder({v \in ToSet(rules[c]) :
                          \/ v = "CONFIGURED" \/ c \notin named
                          \/ v = "ACCEPT" /\ c \in A
                          \/ v = "DROP" /\ c \in G})]
           /\ unheard' = unheard \cup Halfway \cup A
           /\ Fails(Cardinality(A) + Cardinality(G) + IF T = "open" THEN 0 ELSE 1)
      /\ phase' = "down" /\ policy' \in Policies
      /\ call' = [x \in Client |-> Idle]
      /\ wanted' = {}
      /\ UNCHANGED <<backend, rows, applied, starts, contested>>
===========================================================================
