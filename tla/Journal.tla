------------------------------ MODULE Journal ------------------------------
(***************************************************************************)
(* The daemons, the log they share, and `tptctl events --tail`, which asks *)
(* patrol's GET /events again and again for what is newer than `last`.     *)
(***************************************************************************)
EXTENDS Token, EventLog

CONSTANTS
  Guard, Patrol,  \* the daemons
  Home,           \* writer -> the daemon it is a goroutine of
  Lookback,       \* of a tail that starts
  MaxPolls        \* bound: answers that tail gets

ASSUME JournalAssumption ==
  /\ Daemon = {Guard, Patrol}
  /\ Home \in [Writer -> Daemon]
  /\ Lookback \in 0 .. 2 /\ MaxPolls \in Nat

VARIABLES
  zone,     \* where tptctl runs: east of Greenwich, or not
  tail,     \* tptctl: its token, and last
  printed,  \* history: the events it has printed
  due,      \* history: the events it has asked for
  polls

tailVars == <<zone, tail, printed, due, polls>>
vars == <<tokenVars, logVars, tailVars>>

Init ==
  /\ TokenInit /\ LogInit
  /\ zone \in {"utc", "east"}
  /\ tail = [pc |-> "off", token |-> 0, last |-> 0]
  /\ printed = <<>> /\ due = {} /\ polls = 0

---------------------------------------------------------------------------
First == clock - Lookback

(* tptctl reads the token, once, and starts a little in the past. *)
StartTail ==
  /\ tail.pc = "off"
  /\ tail' = [pc |-> "asleep", token |-> tokenFile, last |-> First]
  /\ UNCHANGED <<tokenVars, logVars, zone, printed, due, polls>>

(* The time goes into the URL as it is printed.  East of Greenwich it has  *)
(* a plus sign, which a query decodes to a blank; the handler does not     *)
(* look at the error of time.Parse, and the zero time asks for all.        *)
Since(t) == IF zone = "east" THEN 0 ELSE t

InLog(e) == \E i \in 1 .. Len(log) : log[i] = [ev |-> e, end |-> TRUE]

(* Mutant: the time is moved on before there is an answer. *)
PollEager ==
  /\ tail.pc = "asleep" /\ polls < MaxPolls /\ Authorised(Patrol, tail.token)
  /\ Open(Since(tail.last))
  /\ tail' = [tail EXCEPT !.pc = "asking", !.last = clock]
  /\ due' = due \cup {e \in Event : InLog(e) /\ stamp[e] > tail.last}
  /\ UNCHANGED <<tokenVars, zone, printed, polls>>

(* Patrol lets the request in.  If it does not, or is down, nothing comes  *)
(* of it and tail sleeps again.                                            *)
Poll ==
  /\ tail.pc = "asleep" /\ polls < MaxPolls /\ Authorised(Patrol, tail.token)
  /\ Open(Since(tail.last))
  /\ tail' = [tail EXCEPT !.pc = "asking"]
  /\ due' = due \cup {e \in Event : InLog(e) /\ stamp[e] > tail.last}
  /\ UNCHANGED <<tokenVars, zone, printed, polls>>

(* The answer is there: it is printed, and if there was anything in it the *)
(* next question is about what is newer than now.                          *)
PrintAnswer ==
  /\ tail.pc = "asking" /\ reader.pc = "done" /\ polls' = polls + 1
  /\ reader' = Resting
  /\ printed' = printed \o reader.got
  /\ tail' = [tail EXCEPT !.pc = "asleep", !.last = IF reader.got = <<>> THEN @ ELSE clock]
  /\ UNCHANGED <<tokenVars, clock, stamp, log, writing, open, failures, zone, due>>

---------------------------------------------------------------------------
(* Mutant: the request is forgotten by patrol and not by tptctl. *)
DieSilently(d) ==
  /\ End(d)
  /\ writing' = [w \in Writer |-> IF Home[w] = d THEN 0 ELSE writing[w]]
  /\ open' = IF \E w \in Writer : Home[w] = d /\ writing[w] = open THEN 0 ELSE open
  /\ reader' = IF d = Patrol THEN Resting ELSE reader
  /\ UNCHANGED <<clock, stamp, log, failures, tailVars>>

(* A daemon ends, perhaps in the middle of a line; what it had not written *)
(* is lost, and the connection of a request to patrol is closed.           *)
Die(d) ==
  /\ End(d)
  /\ writing' = [w \in Writer |-> IF Home[w] = d THEN 0 ELSE writing[w]]
  /\ open' = IF \E w \in Writer : Home[w] = d /\ writing[w] = open THEN 0 ELSE open
  /\ IF d = Patrol /\ tail.pc = "asking"
     THEN /\ reader' = Resting
          /\ tail' = [tail EXCEPT !.pc = "asleep"]
          /\ due' = due \ {e \in Event : stamp[e] > tail.last}
     ELSE UNCHANGED <<reader, tail, due>>
  /\ UNCHANGED <<clock, stamp, log, failures, zone, printed, polls>>

Next ==
  \/ \E d \in Daemon : /\ Start(d) \/ ReadToken(d) \/ OpenFile(d) \/ FillFile(d)
                       /\ UNCHANGED <<logVars, tailVars>>
  \/ \E d \in Daemon : Die(d)
  \/ /\ \/ Tick \/ Read
        \/ \E w \in Writer : /\ daemon[Home[w]] # Down
                             /\ New(w) \/ BeginLine(w) \/ EndLine(w) \/ WriteFails(w)
     /\ UNCHANGED <<tokenVars, tailVars>>
  \/ StartTail \/ Poll \/ PrintAnswer

Spec == Init /\ [][Next]_vars

(* A handler runs on as long as its process does, and a line that is being *)
(* written is completed, unless the disk is full or the process dies.      *)
Undisturbed == UNCHANGED <<tokenVars, tailVars>>

FairSpec ==
  /\ Spec
  /\ WF_vars(Read /\ Undisturbed)
  /\ WF_vars((\E w \in Writer : EndLine(w)) /\ Undisturbed)

---------------------------------------------------------------------------
TypeOK ==
  /\ TokenTypeOK /\ LogTypeOK
  /\ zone \in {"utc", "east"}
  /\ tail \in [pc : {"off", "asleep", "asking"}, token : 0 .. MaxTokens, last : 0 .. MaxClock]
  /\ tail.pc = "asking" <=> reader.pc # "idle"
  /\ open # 0 => \E w \in Writer : writing[w] = open
  /\ polls \in 0 .. MaxPolls /\ printed \in Seq(Event) /\ due \subseteq Event

(* Both daemons accept the token in the file, which is the one tptctl and  *)
(* the operator read, unless they made one at the same time (auth.go).     *)
TokenShared ==
  \A d \in required : Up(d) /\ ~raced => daemon[d].token = tokenFile

(* A tail prints no event twice, and none that was in the log when it      *)
(* asked and is newer than `last` is passed over: whoever logs while the   *)
(* answer is read, whatever shares a moment with it, and whether patrol    *)
(* dies meanwhile.  East of Greenwich it does print twice.                 *)
TailExact ==
  zone # "east" =>
    /\ IsInjective(printed)
    /\ tail.pc = "asleep" => due \subseteq ToSet(printed)

(* "skip malformed lines" (events.go:94): a call of ReadSince returns.     *)
ReadReturns == reader.pc = "read" ~> reader.pc \in {"done", "idle"}
===========================================================================
