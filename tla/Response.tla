------------------------------ MODULE Response ------------------------------
(***************************************************************************)
(* What tpt-patrol does about a changed file: scanner and watcher start a  *)
(* deep scan in a goroutine (patrol/scanner.go, watcher.go), the threat    *)
(* feed is asked for the hash (threatfeed/client.go), and anything but a   *)
(* clean verdict is written to the log through autoLogger                  *)
(* (cmd/tpt-patrol/main.go), which mails it in another goroutine           *)
(* (alert/smtp.go) and moves the file to the vault.                        *)
(*                                                                         *)
(* A hash is the content.  The vault is a set here: Quarantine has its     *)
(* moves step by step.  YARA, ClamAV and the heuristics are one detector,  *)
(* since all they do is log.  Events of lower severity are left out, as    *)
(* the mailer's cooldown is per type.                                      *)
(***************************************************************************)
EXTENDS Integers, FiniteSets, Sequences

CONSTANTS
  Path, Content,
  None,          \* no file, no row, never
  DeepScan,      \* goroutines
  Cooldown,      \* of the mailer
  MaxMailers,    \* bound: goroutines of one event type waiting in Send
  Setups         \* configurations: feeds, quarantine, canary, ransomware, netmon,
                 \* with bounds: ticks of the clock, writes to scanned folders,
                 \* changes in the watched one, and failures and restarts

ASSUME RespAssumption ==
  /\ {Cooldown, MaxMailers} \subseteq Nat /\ None \notin Nat
  /\ Setups \subseteq [feeds : SUBSET {"malwarebazaar", "virustotal"}, quarantine : BOOLEAN,
                       canary : BOOLEAN, ransomware : BOOLEAN, netmon : BOOLEAN,
                       ticks : Nat, writes : Nat, touches : Nat, faults : Nat]

EventType == {"threat_detected", "other_match", "canary_triggered", "ransomware_detected"}
Bad     == {"malicious", "suspicious"}
Verdict == Bad \cup {"clean"}

VARIABLES
  setup,     \* the configuration of this run of the daemon
  clock,
  writes,    \* by the user, so far
  failures,
  disk,      \* path -> content, or None
  cache,     \* threat_cache: hash -> verdict, None if absent or too old
  scan,      \* goroutine -> its deep scan
  vault,     \* files taken: content, and hash, outage, overtaken of the scan
  mailers,   \* event type -> number of goroutines at the lock of Mailer.Send
  lastSent,  \* event type -> time, or None
  answers,   \* history: hash -> verdicts a feed has given
  quiet,     \* history: hashes whose scan said nothing
  mails,     \* history: event type -> times of the mails tried
  served     \* history: event type -> times at which a Send decided

feedVars == <<disk, cache, scan, vault, answers, quiet>>
mailVars == <<mailers, lastSent, mails, served>>
respVars == <<setup, clock, writes, failures, feedVars, mailVars>>

Idle == [pc |-> "idle"]

RespInit ==
  /\ setup \in Setups
  /\ clock = 0 /\ writes = 0 /\ failures = 0
  /\ disk = [p \in Path |-> None]
  /\ cache = [h \in Content |-> None]
  /\ scan = [g \in DeepScan |-> Idle]
  /\ vault = {}
  /\ answers = [h \in Content |-> {}] /\ quiet = {}
  /\ mailers = [t \in EventType |-> 0]
  /\ lastSent = [t \in EventType |-> None]
  /\ mails = [t \in EventType |-> <<>>] /\ served = [t \in EventType |-> {}]

Tick ==
  /\ clock < setup.ticks
  /\ clock' = clock + 1
  /\ UNCHANGED <<setup, writes, failures, feedVars, mailVars>>

Fault == failures < setup.faults /\ failures' = failures + 1

---------------------------------------------------------------------------
(* autoLogger.Write and the mailer.                                        *)

(* The event is in the log, and a goroutine is off to mail it. *)
Logged(t) ==
  /\ mailers[t] < MaxMailers
  /\ mailers' = [mailers EXCEPT ![t] = @ + 1]
  /\ UNCHANGED <<failures, lastSent, mails, served>>

(* When the log cannot be written nothing else is done about the event. *)
LogFails == Fault /\ UNCHANGED mailVars

InCooldown(t) == lastSent[t] # None /\ clock - lastSent[t] < Cooldown

(* Mutant: a mail that is held back starts the cooldown anew. *)
SendSliding(t) ==
  /\ mailers[t] > 0
  /\ mailers' = [mailers EXCEPT ![t] = @ - 1]
  /\ served' = [served EXCEPT ![t] = @ \cup {clock}]
  /\ lastSent' = [lastSent EXCEPT ![t] = clock]
  /\ IF InCooldown(t) THEN UNCHANGED mails
     ELSE mails' = [mails EXCEPT ![t] = Append(@, clock)]
  /\ UNCHANGED <<setup, clock, writes, failures, feedVars>>

(* Mailer.Send, from lock to unlock.  What becomes of the mail itself,     *)
(* tried after the unlock, is known to nobody.                             *)
Send(t) ==
  /\ mailers[t] > 0
  /\ mailers' = [mailers EXCEPT ![t] = @ - 1]
  /\ served' = [served EXCEPT ![t] = @ \cup {clock}]
  /\ IF InCooldown(t) THEN UNCHANGED <<lastSent, mails>>
     ELSE /\ lastSent' = [lastSent EXCEPT ![t] = clock]
          /\ mails' = [mails EXCEPT ![t] = Append(@, clock)]
  /\ UNCHANGED <<setup, clock, writes, failures, feedVars>>

---------------------------------------------------------------------------
(* The deep scan.                                                          *)

Goto(g, r) == scan' = [scan EXCEPT ![g] = r]

(* A file is created or written, perhaps while it is being scanned. *)
UserWrite(p, c) ==
  /\ writes < setup.writes
  /\ writes' = writes + 1
  /\ disk' = [disk EXCEPT ![p] = c]
  /\ scan' = [g \in DeepScan |-> IF "overtaken" \in DOMAIN scan[g] /\ scan[g].path = p
                                 THEN [scan[g] EXCEPT !.overtaken = TRUE] ELSE scan[g]]
  /\ UNCHANGED <<setup, clock, failures, cache, vault, answers, quiet, mailVars>>

(* Scanner or watcher has hashed a new or changed file. *)
StartDeepScan(g, p) ==
  /\ scan[g] = Idle /\ disk[p] # None
  /\ Goto(g, [pc |-> "cache", path |-> p, hash |-> disk[p], verdict |-> None,
              outage |-> FALSE, overtaken |-> FALSE])
  /\ UNCHANGED <<setup, clock, writes, failures, disk, cache, vault, answers, quiet, mailVars>>

After(g, pc) == [scan[g] EXCEPT !.pc = pc]
Looked(g) == [pc |-> "match", path |-> scan[g].path]

(* Mutant: the error of the query is not looked at. *)
FromCacheBlind(g) ==
  /\ scan[g].pc = "cache"
  /\ Goto(g, [scan[g] EXCEPT !.pc = "judge", !.verdict = cache[scan[g].hash]])
  /\ UNCHANGED <<setup, clock, writes, failures, disk, cache, vault, answers, quiet, mailVars>>

(* fromCache; a row that cannot be read is none. *)
FromCache(g) ==
  LET s == scan[g]
  IN  /\ s.pc = "cache"
      /\ \/ /\ cache[s.hash] # None /\ UNCHANGED failures
            /\ Goto(g, [s EXCEPT !.pc = "judge", !.verdict = cache[s.hash]])
         \/ /\ IF cache[s.hash] = None THEN UNCHANGED failures ELSE Fault
            /\ Goto(g, After(g, "bazaar"))
      /\ UNCHANGED <<setup, clock, writes, disk, cache, vault, answers, quiet, mailVars>>

(* A row grows old. *)
Expire(h) ==
  /\ cache[h] # None
  /\ cache' = [cache EXCEPT ![h] = None]
  /\ UNCHANGED <<setup, clock, writes, failures, disk, scan, vault, answers, quiet, mailVars>>

(* A feed answers with one of the verdicts in V. *)
Answers(g, V) ==
  \E v \in V :
    /\ Goto(g, [scan[g] EXCEPT !.pc = "store", !.verdict = v])
    /\ answers' = [answers EXCEPT ![scan[g].hash] = @ \cup {v}]

(* checkMalwareBazaar; an error leads on to the other feed. *)
AskBazaar(g) ==
  /\ scan[g].pc = "bazaar"
  /\ \/ "malwarebazaar" \in setup.feeds /\ Answers(g, {"malicious", "clean"})
     \/ Goto(g, After(g, "total")) /\ UNCHANGED answers
  /\ UNCHANGED <<setup, clock, writes, failures, disk, cache, vault, quiet, mailVars>>

Unknown(g) == [scan[g] EXCEPT !.pc = "judge", !.verdict = "unknown", !.outage = TRUE]

(* Mutant: the unknown verdict is cached like any other. *)
AskTotalCached(g) ==
  /\ scan[g].pc = "total"
  /\ \/ "virustotal" \in setup.feeds /\ Answers(g, Verdict)
     \/ Goto(g, [Unknown(g) EXCEPT !.pc = "store"]) /\ UNCHANGED answers
  /\ UNCHANGED <<setup, clock, writes, failures, disk, cache, vault, quiet, mailVars>>

(* checkVirusTotal; when it fails too the verdict is unknown. *)
AskTotal(g) ==
  /\ scan[g].pc = "total"
  /\ \/ "virustotal" \in setup.feeds /\ Answers(g, Verdict)
     \/ Goto(g, Unknown(g)) /\ UNCHANGED answers
  /\ UNCHANGED <<setup, clock, writes, failures, disk, cache, vault, quiet, mailVars>>

(* The error of the statement is not looked at. *)
CacheResult(g) ==
  LET s == scan[g]
  IN  /\ s.pc = "store"
      /\ Goto(g, After(g, "judge"))
      /\ \/ cache' = [cache EXCEPT ![s.hash] = s.verdict] /\ UNCHANGED failures
         \/ Fault /\ UNCHANGED cache
      /\ UNCHANGED <<setup, clock, writes, disk, vault, answers, quiet, mailVars>>

(* Mutant: only what is called malicious is a threat. *)
JudgeMalicious(g) ==
  LET s == scan[g]
  IN  /\ s.pc = "judge"
      /\ \/ /\ s.verdict # "malicious"
            /\ quiet' = quiet \cup {s.hash}
            /\ Goto(g, Looked(g))
            /\ UNCHANGED <<failures, mailVars>>
         \/ /\ s.verdict = "malicious"
            /\ Logged("threat_detected") /\ Goto(g, After(g, "move"))
            /\ UNCHANGED quiet
      /\ UNCHANGED <<setup, clock, writes, disk, cache, vault, answers>>

(* Anything but clean is logged, and moved if that worked. *)
Judge(g) ==
  LET s == scan[g]
  IN  /\ s.pc = "judge"
      /\ \/ /\ s.verdict = "clean"
            /\ quiet' = quiet \cup {s.hash}
            /\ Goto(g, Looked(g))
            /\ UNCHANGED <<failures, mailVars>>
         \/ /\ s.verdict # "clean"
            /\ \/ Logged("threat_detected")
                  /\ Goto(g, IF setup.quarantine THEN After(g, "move") ELSE Looked(g))
               \/ LogFails /\ Goto(g, Looked(g))
            /\ UNCHANGED quiet
      /\ UNCHANGED <<setup, clock, writes, disk, cache, vault, answers>>

(* Manager.Quarantine of what the path holds now; its error is only printed. *)
Move(g) ==
  LET s == scan[g]
  IN  /\ s.pc = "move"
      /\ Goto(g, Looked(g))
      /\ \/ /\ disk[s.path] # None
            /\ vault' = vault \cup {[content |-> disk[s.path], hash |-> s.hash,
                                     outage |-> s.outage, overtaken |-> s.overtaken]}
            /\ disk' = [disk EXCEPT ![s.path] = None]
            /\ UNCHANGED failures
         \/ disk[s.path] = None /\ UNCHANGED <<disk, vault, failures>>
         \/ Fault /\ UNCHANGED <<disk, vault>>
      /\ UNCHANGED <<setup, clock, writes, cache, answers, quiet, mailVars>>

(* The other detectors read the file, if it is still there. *)
Match(g) ==
  /\ scan[g].pc = "match"
  /\ Goto(g, Idle)
  /\ \/ disk[scan[g].path] # None /\ (Logged("other_match") \/ LogFails)
     \/ UNCHANGED <<failures, mailVars>>
  /\ UNCHANGED <<setup, clock, writes, disk, cache, vault, answers, quiet>>

(* The daemon dies and is started again: the table stays, the goroutines   *)
(* and the mailer's times are gone, and with them what was to be kept.     *)
RespRestart ==
  /\ Fault
  /\ scan' = [g \in DeepScan |-> Idle]
  /\ mailers' = [t \in EventType |-> 0] /\ lastSent' = [t \in EventType |-> None]
  /\ mails' = [t \in EventType |-> <<>>] /\ served' = [t \in EventType |-> {}]
  /\ UNCHANGED <<setup, clock, writes, disk, cache, vault, answers, quiet>>

RespNext ==
  \/ Tick
  \/ \E t \in EventType : Send(t)
  \/ \E p \in Path, c \in Content : UserWrite(p, c)
  \/ \E h \in Content : Expire(h)
  \/ \E g \in DeepScan :
       \/ \E p \in Path : StartDeepScan(g, p)
       \/ FromCache(g) \/ AskBazaar(g) \/ AskTotal(g) \/ CacheResult(g)
       \/ Judge(g) \/ Move(g) \/ Match(g)

---------------------------------------------------------------------------
ScanOK(s) ==
  \/ s = Idle
  \/ s \in [pc : {"match"}, path : Path]
  \/ /\ s.pc \in {"cache", "bazaar", "total", "store", "judge", "move"}
     /\ s.path \in Path /\ s.hash \in Content
     /\ s.outage \in BOOLEAN /\ s.overtaken \in BOOLEAN
     /\ s.verdict \in CASE s.pc \in {"cache", "bazaar", "total"} -> {None}
                        [] s.pc = "store" -> Verdict
                        [] s.pc = "move" -> Bad \cup {"unknown"}
                        [] OTHER -> Verdict \cup {"unknown"}

RespTypeOK ==
  /\ setup \in Setups /\ {clock, writes, failures} \subseteq Nat
  /\ disk \in [Path -> Content \cup {None}]
  /\ cache \in [Content -> Verdict \cup {None}]
  /\ DOMAIN scan = DeepScan /\ \A g \in DeepScan : ScanOK(scan[g])
  /\ vault \subseteq [content : Content, hash : Content, outage : BOOLEAN, overtaken : BOOLEAN]
  /\ mailers \in [EventType -> 0..MaxMailers]
  /\ lastSent \in [EventType -> Nat \cup {None}]
  /\ answers \in [Content -> SUBSET Verdict] /\ quiet \subseteq Content
  /\ mails \in [EventType -> Seq(Nat)]
  /\ served \in [EventType -> SUBSET Nat]

(* A file is in the vault because a feed has at some time condemned its    *)
(* hash, or because in the very scan that took it no feed would answer: an *)
(* outage must not be remembered.  It is the file that was hashed, unless  *)
(* somebody wrote it during the scan (client.go Check, main.go autoLogger).*)
VaultJustified ==
  \A v \in vault :
    /\ answers[v.hash] \cap Bad # {} \/ v.outage
    /\ v.content = v.hash \/ v.overtaken

(* Nothing is passed over in silence that no feed has ever called clean,   *)
(* whether the verdict came from a feed, from the cache or from a failure  *)
(* of both (scanner.go:126).                                               *)
SilenceJustified == \A h \in quiet : "clean" \in answers[h]

(* Whenever Send has dealt with an event, a mail of its type was tried     *)
(* then, or less than a cooldown before, so that a lasting stream of       *)
(* events is not silenced; and two mails of a type are a cooldown apart,   *)
(* however many goroutines have one to send (smtp.go Send).                *)
AlertTold ==
  \A t \in EventType :
    LET sent == mails[t]
    IN  /\ \A a \in served[t] :
             \E i \in 1..Len(sent) : sent[i] = a \/ sent[i] \in (a - Cooldown + 1)..a
        /\ \A i \in 2..Len(sent) : sent[i] - sent[i - 1] >= Cooldown
===========================================================================
