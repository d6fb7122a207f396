------------------------------- MODULE Sensors -------------------------------
(***************************************************************************)
(* The detectors of tpt-patrol and what it does about what they find:      *)
(* Response, NetMon, and here the watcher's event loop with the canary     *)
(* files (patrol/canary.go) and the detection of mass changes              *)
(* (patrol/ransomware.go), whose alerts go through Response's log.         *)
(*                                                                         *)
(* One directory is watched; the files of Response are in folders that are *)
(* only scanned.  An event is the canary it is about, or "file".  What the *)
(* loop does to the pending map is in Integrity, with the kernel's queue   *)
(* overflowing; here the queue does not.                                   *)
(***************************************************************************)
EXTENDS Response, NetMon, FiniteSetsExt, SequencesExt

CONSTANTS
  Canary,     \* names of canary files, all different (uuid)
  Threshold, Window,
  MaxQueue    \* bound: events waiting

ASSUME SensorAssumption ==
  /\ "file" \notin Canary
  /\ {Threshold, Window} \subseteq Nat \ {0} /\ MaxQueue \in Nat

VARIABLES
  phase,      \* of the watcher: "start", "on", "off"
  queue,      \* fsw.Events
  files,      \* canaries on disk
  canaries,   \* CanaryManager.canaries
  planting,   \* canaries written and not yet in the map
  sleepers,   \* goroutines about to plant one
  recent,     \* dirEvents of the directory
  alerted,    \* time of its last alert, or None
  touches,    \* history: canary -> events about it
  reads,      \* history: canary -> times it was read
  heard,      \* history: canary -> alerts about it
  early,      \* history: canaries whose event was taken while they were planted
  changes,    \* history: times of all changes recorded
  bursts      \* history: times of all alerts raised about them

canaryVars == <<phase, files, canaries, planting, sleepers, touches, reads, heard, early>>
burstVars  == <<recent, alerted, changes, bursts>>
watchVars  == <<queue, canaryVars, burstVars>>
vars == <<respVars, netVars, watchVars>>

(* Start plants before it sets the loop going. *)
Init ==
  /\ RespInit /\ NetInit
  /\ phase = "start" /\ queue = <<>>
  /\ files = {} /\ canaries = {} /\ planting = {}
  /\ sleepers = IF setup.canary THEN 1 ELSE 0
  /\ recent = <<>> /\ alerted = None
  /\ touches = [c \in Canary |-> 0] /\ reads = touches /\ heard = [c \in Canary |-> 0]
  /\ early = {}
  /\ changes = <<>> /\ bursts = <<>>

Raise(S) == queue' = queue \o S /\ Len(queue) + Len(S) <= MaxQueue

---------------------------------------------------------------------------
(* CanaryManager.                                                          *)

Created(c, evts) ==
  /\ sleepers > 0 /\ c \notin files /\ touches[c] = 0
  /\ sleepers' = sleepers - 1
  /\ files' = files \cup {c}
  /\ Raise(evts) /\ touches' = [touches EXCEPT ![c] = Len(evts)]

(* Plant: creating and writing the file are events of the directory that   *)
(* is watched, ...                                                         *)
WriteCanary(c) ==
  /\ Created(c, <<c, c>>)
  /\ planting' = planting \cup {c}
  /\ UNCHANGED <<respVars, netVars, phase, canaries, reads, heard, early, burstVars>>

(* ... or the file cannot be created, or is left empty or half written, ... *)
WriteCanaryFails ==
  /\ \/ \E c \in Canary : Created(c, <<c>>) \/ Created(c, <<c, c>>)
     \/ sleepers > 0 /\ sleepers' = sleepers - 1 /\ UNCHANGED <<queue, files, touches>>
  /\ Fault
  /\ UNCHANGED <<setup, clock, writes, feedVars, mailVars, netVars,
                 phase, canaries, planting, reads, heard, early, burstVars>>

(* ... and only then is its name known. *)
Register(c) ==
  /\ c \in planting
  /\ planting' = planting \ {c} /\ canaries' = canaries \cup {c}
  /\ UNCHANGED <<respVars, netVars, queue, phase, files, sleepers, touches, reads, heard, early,
                 burstVars>>

StartLoop ==
  /\ phase = "start" /\ sleepers = 0 /\ planting = {}
  /\ phase' = "on"
  /\ UNCHANGED <<respVars, netVars, queue, files, canaries, planting, sleepers,
                 touches, reads, heard, early, burstVars>>

(* Mutant: only canaries in the map are. *)
IsKnownCanary(e) == e \in canaries
(* By the map, or by the prefix of the name. *)
IsCanary(e) == e \in canaries \/ e \in Canary

(* Mutant: the directory is looked up after the entry is deleted. *)
TriggeredForgetful(c) ==
  /\ canaries' = canaries \ {c}
  /\ Logged("canary_triggered") \/ LogFails
  /\ heard' = [heard EXCEPT ![c] = @ + 1]
  /\ early' = IF c \in planting THEN early \cup {c} ELSE early
  /\ UNCHANGED <<sleepers, phase, files, planting, touches, reads>>

(* A new canary is planted half a second later, if the map had this one.   *)
Triggered(c) ==
  /\ canaries' = canaries \ {c}
  /\ Logged("canary_triggered") \/ LogFails
  /\ sleepers' = IF c \in canaries THEN sleepers + 1 ELSE sleepers
  /\ heard' = [heard EXCEPT ![c] = @ + 1]
  /\ early' = IF c \in planting THEN early \cup {c} ELSE early
  /\ UNCHANGED <<phase, files, planting, touches, reads>>

(* Watcher.Stop with CleanupAll.  The goroutines go on until main returns. *)
Stop ==
  /\ phase = "on"
  /\ phase' = "off"
  /\ files' = files \ canaries
  /\ UNCHANGED <<respVars, netVars, queue, canaries, planting, sleepers,
                 touches, reads, heard, early, burstVars>>

---------------------------------------------------------------------------
(* RansomwareDetector.Record.                                              *)

(* Mutant: a burst that goes on puts the next alert off. *)
RecordSliding ==
  LET fresh == Append(Newer(recent, clock - Window), clock)
      again == alerted # None /\ clock - alerted < Window
  IN  /\ recent' = fresh
      /\ changes' = Append(changes, clock)
      /\ \/ /\ Len(fresh) < Threshold
            /\ UNCHANGED <<alerted, bursts, failures, mailVars>>
         \/ /\ Len(fresh) >= Threshold /\ again /\ alerted' = clock
            /\ UNCHANGED <<bursts, failures, mailVars>>
         \/ /\ Len(fresh) >= Threshold /\ ~again
            /\ alerted' = clock /\ bursts' = Append(bursts, clock)
            /\ Logged("ransomware_detected") \/ LogFails

Record ==
  LET fresh == Append(Newer(recent, clock - Window), clock)
      again == alerted # None /\ clock - alerted < Window
  IN  /\ recent' = fresh
      /\ changes' = Append(changes, clock)
      /\ \/ /\ Len(fresh) < Threshold \/ again
            /\ UNCHANGED <<alerted, bursts, failures, mailVars>>
         \/ /\ Len(fresh) >= Threshold /\ ~again
            /\ alerted' = clock /\ bursts' = Append(bursts, clock)
            /\ Logged("ransomware_detected") \/ LogFails

---------------------------------------------------------------------------
(* What happens in the directory.                                          *)

(* A canary is written, renamed or removed, or its mode changed. *)
Touch(c) ==
  /\ writes < setup.touches /\ writes' = writes + 1
  /\ phase # "off" /\ c \in files
  /\ files' \in {files, files \ {c}}
  /\ Raise(<<c>>) /\ touches' = [touches EXCEPT ![c] = @ + 1]
  /\ UNCHANGED <<setup, clock, failures, feedVars, mailVars, netVars,
                 phase, canaries, planting, sleepers, reads, heard, early, burstVars>>

(* A canary is read: fsnotify has no event for that. *)
Read(c) ==
  /\ writes < setup.touches /\ writes' = writes + 1
  /\ phase # "off" /\ c \in files
  /\ reads' = [reads EXCEPT ![c] = @ + 1]
  /\ UNCHANGED <<setup, clock, failures, feedVars, mailVars, netVars, queue,
                 phase, files, canaries, planting, sleepers, touches, heard, early, burstVars>>

(* Some other file is created, written, renamed or removed. *)
Change ==
  /\ setup.ransomware /\ phase # "off"
  /\ writes < setup.touches /\ writes' = writes + 1
  /\ Raise(<<"file">>)
  /\ UNCHANGED <<setup, clock, failures, feedVars, mailVars, netVars, canaryVars, burstVars>>

(* eventLoop: one event, to its end. *)
TakeEvent ==
  /\ phase = "on" /\ queue # <<>>
  /\ queue' = Tail(queue)
  /\ \/ setup.canary /\ IsCanary(Head(queue)) /\ Triggered(Head(queue)) /\ UNCHANGED burstVars
     \/ /\ ~(setup.canary /\ IsCanary(Head(queue)))
        /\ IF setup.ransomware THEN Record ELSE UNCHANGED <<burstVars, failures, mailVars>>
        /\ UNCHANGED canaryVars
  /\ UNCHANGED <<setup, clock, writes, feedVars, netVars>>

(* The daemon dies, or ends, and is started again.  Canaries stay on disk, *)
(* their names are forgotten; events nobody took are lost.                 *)
Restart ==
  /\ RespRestart /\ NetRestart
  /\ phase' = "start" /\ queue' = <<>>
  /\ canaries' = {} /\ planting' = {}
  /\ sleepers' = IF setup.canary THEN 1 ELSE 0
  /\ recent' = <<>> /\ alerted' = None /\ changes' = <<>> /\ bursts' = <<>>
  /\ touches' = heard /\ early' = {}
  /\ UNCHANGED <<files, reads, heard>>

Next ==
  \/ RespNext /\ UNCHANGED <<netVars, watchVars>>
  \/ setup.netmon /\ NetNext /\ UNCHANGED <<respVars, watchVars>>
  \/ \E c \in Canary : WriteCanary(c) \/ Register(c) \/ Touch(c) \/ Read(c)
  \/ WriteCanaryFails \/ StartLoop \/ Stop \/ Restart
  \/ Change \/ TakeEvent

Spec == Init /\ [][Next]_vars

---------------------------------------------------------------------------
TypeOK ==
  /\ RespTypeOK /\ NetTypeOK
  /\ phase \in {"start", "on", "off"} /\ queue \in Seq(Canary \cup {"file"})
  /\ files \subseteq Canary /\ canaries \subseteq Canary /\ planting \subseteq Canary
  /\ sleepers \in Nat
  /\ {touches, reads, heard} \subseteq [Canary -> Nat] /\ early \subseteq Canary
  /\ {recent, changes, bursts} \subseteq Seq(Nat) /\ alerted \in Nat \cup {None}

Waiting(c) == Cardinality({i \in 1..Len(queue) : queue[i] = c})

(* Every event of a canary has one alert raised about it: it is waiting or *)
(* was taken for what it is, whether the canary is in the map, not yet, or *)
(* no longer, after a first alert, a failed planting or a restart          *)
(* (canary.go IsCanary).                                                   *)
TouchAlerted == \A c \in Canary : touches[c] = heard[c] + Waiting(c)

(* "Any access, rename, or deletion of a canary fires a critical alert"    *)
(* (canary.go:18): false of an access that only reads.                     *)
AccessAlerted == \A c \in Canary : touches[c] + reads[c] = heard[c] + Waiting(c)

(* Unless something fails, the directory has a canary, or one whose loss   *)
(* is still to be noticed, or one is being planted (canary.go Triggered).  *)
(* The exception is a canary touched before it was registered.             *)
CoverKept ==
  \/ failures > 0 \/ ~setup.canary \/ phase = "off"
  \/ sleepers > 0 \/ planting # {}
  \/ \E c \in canaries : c \in files \/ Waiting(c) > 0 \/ c \in early

(* A threshold of changes within a window has an alert within that window, *)
(* for as long as they go on; and every alert has them, and is a window    *)
(* apart from the one before.  The reference has the whole history, the    *)
(* code a list it prunes (ransomware.go Record).                           *)
BurstAlerted ==
  LET Burst(i) == i >= Threshold /\ changes[i - Threshold + 1] > changes[i] - Window
  IN  /\ \A i \in 1..Len(changes) : Burst(i) =>
           \E j \in 1..Len(bursts) : bursts[j] \in (changes[i] - Window + 1)..changes[i]
      /\ \A j \in 1..Len(bursts) : \E i \in 1..Len(changes) : Burst(i) /\ changes[i] = bursts[j]
      /\ \A j \in 2..Len(bursts) : bursts[j] - bursts[j - 1] >= Window
===========================================================================
