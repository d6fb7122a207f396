------------------------------- MODULE NetMon -------------------------------
(***************************************************************************)
(* internal/netmon/monitor_linux.go: a goroutine reads the kernel's table  *)
(* of connections at every tick and logs those it has not seen for an      *)
(* hour, those to a suspicious port, and those seen so often in a minute   *)
(* that they look like a beacon.                                           *)
(*                                                                         *)
(* A key stands for a process and a remote address.  Both maps are         *)
(* functions of all keys; Never and <<>> stand for an absent entry.  The   *)
(* log is not part of the state.                                           *)
(***************************************************************************)
EXTENDS Integers, Sequences

CONSTANTS
  Key,             \* "process:remote"
  Never,           \* the time of what has not happened
  BeaconThreshold,
  Minute,          \* the beacon's window
  SeenTTL,
  Gaps,            \* times from one poll to the next: the ticker drops late ticks
  MaxConns,        \* bound: connections of a key at a time
  MaxPolls         \* bound

ASSUME NetAssumption ==
  /\ {BeaconThreshold, Minute, SeenTTL, MaxConns, MaxPolls} \subseteq Nat \ {0}
  /\ Gaps \subseteq Nat \ {0} /\ Gaps # {}
  /\ Minute <= SeenTTL /\ Never \notin Nat

VARIABLES
  now, polls,
  seen,       \* key -> time of the last sighting, or Never
  beacons,    \* key -> times of sightings
  sightings,  \* history: key -> times of all sightings
  reports,    \* history: key -> times at which it was reported as new
  alarms      \* history: key -> how many sightings there were at each alert

netVars == <<now, polls, seen, beacons, sightings, reports, alarms>>

NetInit ==
  /\ now = 0 /\ polls = 0
  /\ seen = [k \in Key |-> Never]
  /\ beacons = [k \in Key |-> <<>>] /\ sightings = [k \in Key |-> <<>>]
  /\ reports = [k \in Key |-> {}] /\ alarms = [k \in Key |-> <<>>]

---------------------------------------------------------------------------
(* The loop that keeps of a list of times those after u. *)
Newer(times, u) ==
  LET kept[i \in 0..Len(times)] ==
        IF i = 0 THEN <<>>
        ELSE IF times[i] > u THEN Append(kept[i - 1], times[i]) ELSE kept[i - 1]
  IN  kept[Len(times)]

Young(times, t) == Newer(times, t - Minute)

(* Mutant: what is older than a minute stays on the list. *)
SightingKept(b, t) ==
  LET times == Append(b.times, t)
      full  == Len(times) >= BeaconThreshold
  IN  [times  |-> IF full THEN <<>> ELSE times,
       count  |-> b.count + 1,
       alarms |-> IF full THEN Append(b.alarms, b.count + 1) ELSE b.alarms]

(* The beacon part of evaluate: one sighting more; the list is emptied     *)
(* when it raises the alert.                                               *)
Sighting(b, t) ==
  LET times == Young(Append(b.times, t), t)
      full  == Len(times) >= BeaconThreshold
  IN  [times  |-> IF full THEN <<>> ELSE times,
       count  |-> b.count + 1,
       alarms |-> IF full THEN Append(b.alarms, b.count + 1) ELSE b.alarms]

(* ... for each of the n connections of k.                                 *)
Evaluate(k, n, t) ==
  LET step[i \in 0..n] ==
        IF i = 0 THEN [times |-> beacons[k], count |-> Len(sightings[k]), alarms |-> alarms[k]]
        ELSE Sighting(step[i - 1], t)
  IN  step[n]

(* Mutant: the time is that of the first sighting. *)
RefreshedFirst(k, n, t) == IF n > 0 /\ seen[k] = Never THEN t ELSE seen[k]
Refreshed(k, n, t) == IF n > 0 THEN t ELSE seen[k]

(* pruneExpired. *)
Expired(u, t) == u # Never /\ u < t - SeenTTL

(* One tick: evaluate for each connection in the table, then pruneExpired. *)
Poll(conns, gap) ==
  LET t     == now + gap
      last  == [k \in Key |-> Refreshed(k, conns[k], t)]
      after == [k \in Key |-> Evaluate(k, conns[k], t)]
  IN  /\ polls < MaxPolls /\ polls' = polls + 1
      /\ now' = t
      /\ seen' = [k \in Key |-> IF Expired(last[k], t) THEN Never ELSE last[k]]
      /\ beacons' = [k \in Key |-> IF Expired(last[k], t) THEN <<>> ELSE after[k].times]
      /\ alarms' = [k \in Key |-> after[k].alarms]
      /\ sightings' = [k \in Key |-> sightings[k] \o [i \in 1..conns[k] |-> t]]
      /\ reports' = [k \in Key |-> IF conns[k] > 0 /\ seen[k] = Never
                                   THEN reports[k] \cup {t} ELSE reports[k]]

(* The daemon is started again. *)
NetRestart ==
  /\ seen' = [k \in Key |-> Never]
  /\ beacons' = [k \in Key |-> <<>>] /\ sightings' = [k \in Key |-> <<>>]
  /\ reports' = [k \in Key |-> {}] /\ alarms' = [k \in Key |-> <<>>]
  /\ UNCHANGED <<now, polls>>

NetNext == \E conns \in [Key -> 0..MaxConns], gap \in Gaps : Poll(conns, gap)

---------------------------------------------------------------------------
NetTypeOK ==
  /\ {now, polls} \subseteq Nat
  /\ seen \in [Key -> Nat \cup {Never}]
  /\ beacons \in [Key -> Seq(Nat)] /\ sightings \in [Key -> Seq(Nat)]
  /\ reports \in [Key -> SUBSET Nat] /\ alarms \in [Key -> Seq(Nat)]

LastAlarm(k) == IF alarms[k] = <<>> THEN 0 ELSE alarms[k][Len(alarms[k])]

(* Each alert stands for a threshold of sightings within a minute, none of *)
(* them counted before; and there are never so many that no alert stands   *)
(* for, whatever was pruned from both maps in between (monitor_linux.go    *)
(* evaluate, pruneExpired).                                                *)
BeaconTold ==
  \A k \in Key :
    LET s == sightings[k]
        a == alarms[k]
    IN  /\ \A i \in 1..Len(a) :
             LET first == a[i] - BeaconThreshold + 1
             IN  /\ first > (IF i = 1 THEN 0 ELSE a[i - 1])
                 /\ s[a[i]] - s[first] < Minute
        /\ \A i \in (LastAlarm(k) + BeaconThreshold)..Len(s) :
             s[i] - s[i - BeaconThreshold + 1] >= Minute

Away(k, d, t) == ~\E i \in 1..Len(sightings[k]) : sightings[k][i] \in (t - d)..(t - 1)

(* A connection is reported as new only after it has been away for more    *)
(* than an hour, and always when it was away for an hour and one poll more:*)
(* a connection that stays open is reported once (evaluate, pruneExpired). *)
NewTold ==
  \A k \in Key : \A i \in 1..Len(sightings[k]) :
    LET t == sightings[k][i]
    IN  /\ t \in reports[k] => Away(k, SeenTTL, t)
        /\ (\A g \in Gaps : Away(k, SeenTTL + g, t)) => t \in reports[k]
===========================================================================
