----------------------------- MODULE Firewall -----------------------------
(***************************************************************************)
(* internal/guard: the outbound firewall of tpt-guard, iptables, nftables  *)
(* or, on Windows, netsh advfirewall (module FirewallWindows), and the     *)
(* REST handlers that add and remove allow rules.                          *)
(* Every external command and every SQL statement is a step: the handlers  *)
(* run in goroutines of their own and hold no lock.                        *)
(*                                                                         *)
(* Destinations are abstracted to ranges that do not overlap, so only the  *)
(* order of the rules for one range matters.  The chain TPT_GUARD of       *)
(* iptables is ordered, the first rule of a range decides; in the table    *)
(* tpt_guard of nftables a range is in the sets tpt_block and tpt_allow,   *)
(* and tpt_block is looked at first.  The rules of Windows are a set too,  *)
(* block before allow, and nothing but a command ever takes one away.      *)
(***************************************************************************)
EXTENDS Naturals, Sequences, FiniteSets, SequencesExt

CONSTANTS
  Cidr,        \* destination ranges
  AllowIPs,    \* [[allow.ip]] of guard.toml
  Country,     \* blocked_countries
  NoCountry,
  Client,      \* goroutines of the REST server
  Backends,    \* the backends to consider
  Policies,    \* the values default_policy may have at a start
  MaxCalls,    \* bound: backend -> calls of the REST server at a time
  MaxStarts,   \* bound: starts of the daemon
  MaxRules,    \* bound: iptables: nothing begins when a range has as many rules
  MaxFailures  \* bound: commands that fail although their target exists

ASSUME RangeAssumption ==
  /\ IsFiniteSet(Cidr) /\ Cidr # {} /\ AllowIPs \subseteq Cidr
  /\ NoCountry \notin Country
ASSUME ModeAssumption ==
  /\ Backends \subseteq {"iptables", "nftables", "netsh"}
  /\ Policies \subseteq {"deny", "allow"}
ASSUME LimitAssumption ==
  /\ MaxCalls \in [Backends -> Nat]
  /\ MaxStarts \in Nat /\ MaxRules \in Nat /\ MaxFailures \in Nat

VARIABLES
  backend,   \* Firewall.backend
  policy,    \* cfg.Network.DefaultPolicy
  table,     \* "absent"; "loose", a chain OUTPUT does not jump to; "open", before
             \* the rule or policy that drops the rest; "shut"; netsh: "open",
             \* the policy is allowoutbound, or "shut", blockoutbound
  rules,     \* range -> its rules in matching order
  rows,      \* the table guard_rules
  phase,     \* "down", "populate", "close" (in Apply), "geo" (in gb.Start), "up"
  applied,   \* Apply logged rules_applied
  call,      \* each REST goroutine's call
  starts, failures,
  wanted,    \* history: ranges whose last finished call, of those since the
             \* rules were last taken away, allowed them
  contested, \* history: ranges on which two calls overlapped, or that iptables
             \* was told to accept twice
  unheard    \* history: ranges with a failed command or statement, or on Windows
             \* with a call that was cut off in the middle

kernel  == <<table, rules>>
setup   == <<backend, policy, phase, applied, starts>>
past    == <<wanted, contested, unheard>>
fwVars  == <<kernel, rows, setup, call, failures, past>>

OnWindows == backend = "netsh"

(* On Windows the rule of a configured range has a name of its own. *)
Verdict == {"ACCEPT", "DROP", "CONFIGURED"}
Row == [type : {"ip", "geo_block"}, cidr : Cidr, cc : Country \cup {NoCountry}]
Idle == [pc |-> "idle", cidr |-> CHOOSE c \in Cidr : TRUE]
Call == [pc : {"idle", "add", "insert", "remove", "purge"}, cidr : Cidr]

AllowRow(c) == [type |-> "ip", cidr |-> c, cc |-> NoCountry]

Empty == [c \in Cidr |-> <<>>]

(* iptables -I puts a rule first, whether it is there already or not, and  *)
(* -D takes the first away; nft adds to a set and deletes from it; so in   *)
(* effect does netsh, which adds another rule of the same name but deletes *)
(* all that have it.                                                       *)
If(v, S) == IF v \in S THEN <<v>> ELSE <<>>
InMatchingOrder(S) == If("DROP", S) \o If("ACCEPT", S) \o If("CONFIGURED", S)

Insert(rs, v) == IF backend = "iptables" THEN Cons(v, rs)
                 ELSE InMatchingOrder(ToSet(rs) \cup {v})
Delete(rs, v) == IF backend = "iptables" THEN RemoveFirst(rs, v)
                 ELSE InMatchingOrder(ToSet(rs) \ {v})

(* What happens to a packet to range c. *)
Decides(c) ==
  CASE rules[c] = <<>> -> "none"
    [] rules[c] # <<>> /\ Head(rules[c]) = "DROP" -> "DROP"
    [] OTHER -> "ACCEPT"

Reachable(c) ==
  \/ table \in {"absent", "loose"}
  \/ table = "open" /\ (backend = "nftables" \/ Decides(c) # "DROP")
  \/ table = "shut" /\ Decides(c) = "ACCEPT"

(* A command fails when its table is not there, or (bounded) for any other *)
(* reason.                                                                 *)
Fails(n) == failures' = failures + n /\ failures' <= MaxFailures

CommandFails ==
  \/ table = "absent" /\ failures' = failures
  \/ failures < MaxFailures /\ failures' = failures + 1
CommandRuns == table # "absent" /\ failures' = failures

(* The chain of iptables grows with every call and refresh: a bound. *)
Room == backend # "iptables" \/ \A c \in Cidr : Len(rules[c]) < MaxRules

FwInit ==
  /\ backend \in Backends /\ policy \in Policies
  /\ table = (IF OnWindows THEN "open" ELSE "absent") /\ rules = Empty
  /\ rows = {}
  /\ phase = "down" /\ applied = FALSE
  /\ call = [w \in Client |-> Idle]
  /\ starts = 0 /\ failures = 0
  /\ wanted = {} /\ contested = {} /\ unheard = {}

---------------------------------------------------------------------------
(* Starting and stopping: main, Apply, Flush.                              *)

(* The old table or chain is emptied and a new one made, which as yet      *)
(* drops nothing; with another policy Apply returns at once.  What the API *)
(* allowed before stays in guard_rules, and nothing puts its rules back.   *)
Launch ==
  /\ phase = "down" /\ starts < MaxStarts
  /\ starts' = starts + 1
  /\ applied' = FALSE
  /\ UNCHANGED <<backend, policy, rows, call>>

Afresh == ~OnWindows /\ wanted' = {} /\ unheard' = {} /\ contested' = {}

Reset ==
  /\ Launch /\ Afresh
  /\ IF policy = "deny" THEN /\ table' = "open" /\ rules' = Empty
                             /\ phase' = "populate"
                        ELSE /\ phase' = "geo"
                             /\ UNCHANGED kernel
  /\ UNCHANGED failures

(* iptables: OUTPUT does not jump to the new chain.  nftables: there is no *)
(* table, or none with a set.  Apply returns the error, main continues.    *)
ResetFails ==
  /\ Launch /\ Afresh /\ policy = "deny"
  /\ failures < MaxFailures /\ failures' = failures + 1
  /\ table' = IF backend = "iptables" THEN "loose" ELSE "absent"
  /\ rules' = Empty
  /\ phase' = "geo"

(* The configured ranges; an error is ignored. *)
Populate ==
  /\ ~OnWindows /\ phase = "populate"
  /\ \E S \in SUBSET AllowIPs :
       /\ rules' = [c \in Cidr |-> IF c \in S THEN <<"ACCEPT">> ELSE <<>>]
       /\ unheard' = unheard \cup (AllowIPs \ S)
       /\ failures' = failures + Cardinality(AllowIPs \ S)
  /\ failures' <= MaxFailures
  /\ phase' = "close"
  /\ UNCHANGED <<backend, policy, table, rows, applied, call, starts, wanted, contested>>

(* The final DROP of iptables, or the chain of nftables with policy drop. *)
Close ==
  /\ phase = "close" /\ CommandRuns
  /\ table' = "shut" /\ applied' = TRUE
  /\ phase' = "geo"
  /\ UNCHANGED <<backend, policy, rules, rows, call, starts, past>>

(* nftables: Apply returns the error, and main continues.  iptables: the   *)
(* error of -A TPT_GUARD -j DROP is ignored and rules_applied is logged.   *)
CloseFails ==
  /\ phase = "close" /\ CommandFails
  /\ applied' = (backend = "iptables")
  /\ phase' = "geo"
  /\ UNCHANGED <<backend, policy, kernel, rows, call, starts, past>>

(* SIGTERM: the deferred Flush removes the table; calls still running end  *)
(* with the process.                                                       *)
Stop ==
  /\ ~OnWindows /\ phase = "up"
  /\ table' = "absent" /\ rules' = Empty
  /\ phase' = "down" /\ policy' \in Policies
  /\ call' = [w \in Client |-> Idle]
  /\ UNCHANGED <<backend, rows, applied, starts, failures, past>>

(* Ranges for which there is a rule and no row, or a row and no rule. *)
Halfway == {call[w].cidr : w \in {x \in Client : call[x].pc \in {"insert", "purge"}}}

(* The daemon dies: the kernel keeps its rules. *)
Crash ==
  /\ phase # "down"
  /\ phase' = "down" /\ policy' \in Policies
  /\ call' = [w \in Client |-> Idle]
  /\ unheard' = IF OnWindows THEN unheard \cup Halfway ELSE unheard
  /\ UNCHANGED <<backend, kernel, rows, applied, starts, failures, wanted, contested>>

---------------------------------------------------------------------------
(* The REST handlers.                                                      *)

Begin(w, c, pc) ==
  /\ phase = "up" /\ call[w] = Idle /\ Room
  /\ Cardinality({x \in Client : call[x] # Idle}) < MaxCalls[backend]
  /\ call' = [call EXCEPT ![w] = [pc |-> pc, cidr |-> c]]
  /\ contested' = IF \/ \E x \in Client : call[x].pc # "idle" /\ call[x].cidr = c
                     \/ pc = "add" /\ backend = "iptables" /\ Contains(rules[c], "ACCEPT")
                  THEN contested \cup {c} ELSE contested
  /\ UNCHANGED <<kernel, rows, setup, failures, wanted, unheard>>

Goto(w, pc) == call' = [call EXCEPT ![w].pc = pc]
Return(w)   == call' = [call EXCEPT ![w] = Idle]

(* POST /rules/allow/ip *)
BeginAdd(w, c) == Begin(w, c, "add")

(* DELETE /rules/{id}: the row gives the range, whatever its type. *)
BeginRemove(w, r) == Begin(w, r.cidr, "remove")

AddRule(w) ==
  LET c == call[w].cidr
  IN  /\ call[w].pc = "add" /\ CommandRuns
      /\ rules' = [rules EXCEPT ![c] = Insert(@, "ACCEPT")]
      /\ Goto(w, "insert")
      /\ UNCHANGED <<table, rows, setup, past>>

(* AddAllow returns the error of the command. *)
AddRuleFails(w) ==
  /\ call[w].pc = "add" /\ CommandFails
  /\ Return(w)
  /\ UNCHANGED <<kernel, rows, setup, past>>

InsertRow(w) ==
  LET c == call[w].cidr
  IN  /\ call[w].pc = "insert"
      /\ rows' = rows \cup {AllowRow(c)}
      /\ wanted' = wanted \cup {c}
      /\ Return(w)
      /\ UNCHANGED <<kernel, setup, failures, contested, unheard>>

(* Mutant: the wrong target given to iptables -D. *)
RemoveRuleDrop(w) ==
  LET c == call[w].cidr
  IN  /\ call[w].pc = "remove" /\ CommandRuns
      /\ rules' = [rules EXCEPT ![c] = Delete(@, "DROP")]
      /\ Goto(w, "purge")
      /\ UNCHANGED <<table, rows, setup, past>>

(* RemoveAllow takes the first ACCEPT of the range away ... *)
RemoveRule(w) ==
  LET c == call[w].cidr
  IN  /\ call[w].pc = "remove" /\ CommandRuns
      /\ rules' = [rules EXCEPT ![c] = Delete(@, "ACCEPT")]
      /\ Goto(w, "purge")
      /\ UNCHANGED <<table, rows, setup, past>>

(* ... ignores the error of the command ... *)
RemoveRuleFails(w) ==
  /\ call[w].pc = "remove" /\ CommandFails
  /\ unheard' = unheard \cup {call[w].cidr}
  /\ Goto(w, "purge")
  /\ UNCHANGED <<kernel, rows, setup, wanted, contested>>

(* ... and deletes every row of the range, those of a country included. *)
PurgeRows(w) ==
  LET c == call[w].cidr
  IN  /\ call[w].pc = "purge"
      /\ rows' = {r \in rows : r.cidr # c}
      /\ wanted' = wanted \ {c}
      /\ Return(w)
      /\ UNCHANGED <<kernel, setup, failures, contested, unheard>>

(* The error of the INSERT or of the DELETE is returned; the rule is as it  *)
(* has become.                                                             *)
StatementFails(w) ==
  /\ call[w].pc \in {"insert", "purge"} /\ Fails(1)
  /\ unheard' = unheard \cup {call[w].cidr}
  /\ Return(w)
  /\ UNCHANGED <<kernel, rows, setup, wanted, contested>>

(* The steps that need the one connection of the database (db.Open). *)
Lookup(w) == \E r \in rows : BeginRemove(w, r)

Statement(w) == InsertRow(w) \/ PurgeRows(w) \/ StatementFails(w)

Command(w) == AddRule(w) \/ AddRuleFails(w) \/ RemoveRule(w) \/ RemoveRuleFails(w)

FwTypeOK ==
  /\ backend \in Backends /\ policy \in Policies
  /\ table \in {"absent", "loose", "open", "shut"}
  /\ rules \in [Cidr -> Seq(Verdict)]
  /\ rows \subseteq Row
  /\ phase \in {"down", "populate", "close", "geo", "up"} /\ applied \in BOOLEAN
  /\ call \in [Client -> Call]
  /\ starts \in 0 .. MaxStarts /\ failures \in 0 .. MaxFailures
  /\ wanted \subseteq Cidr /\ contested \subseteq Cidr /\ unheard \subseteq Cidr
===========================================================================
