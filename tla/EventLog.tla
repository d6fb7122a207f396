----------------------------- MODULE EventLog -----------------------------
(***************************************************************************)
(* internal/events: the log file all processes append to, each through a   *)
(* descriptor of its own, and ReadSince, which every reader of it goes     *)
(* through.  A line is in the file in two pieces: another process may read *)
(* it in between, and the second may be missing (full disk, death).        *)
(***************************************************************************)
EXTENDS Naturals, Sequences, SequencesExt

CONSTANTS
  Writer,      \* goroutines that log, of any process
  MaxEvents,   \* bound: events
  MaxClock,    \* bound: ticks of the clock
  MaxFailures  \* bound: lines that are not completed

ASSUME LogAssumption == {MaxEvents, MaxFailures} \subseteq Nat /\ MaxClock \in Nat \ {0, 1}

VARIABLES
  clock,
  stamp,     \* the TS of each event made so far: event e is the e-th
  log,       \* the pieces in the file
  writing,   \* each goroutine: the event it is about to append, 0 for none
  open,      \* the event whose first piece is the end of the file, 0 for none
  reader,    \* a call of ReadSince
  failures

logVars == <<clock, stamp, log, writing, open, reader, failures>>

Event == 1 .. Len(stamp)
Piece == [ev : 1 .. MaxEvents, end : BOOLEAN]
Resting == [pc |-> "idle", at |-> 1, since |-> 0, got |-> <<>>]

LogInit ==
  /\ clock = 2
  /\ stamp = <<>> /\ log = <<>>
  /\ writing = [w \in Writer |-> 0]
  /\ open = 0
  /\ reader = Resting
  /\ failures = 0

Tick ==
  /\ clock < MaxClock /\ clock' = clock + 1
  /\ UNCHANGED <<stamp, log, writing, open, reader, failures>>

---------------------------------------------------------------------------
(* events.New and Logger.Write: the time is taken before the mutex and the *)
(* kernel's lock of the file, under which the pieces follow each other.    *)
New(w) ==
  /\ writing[w] = 0 /\ Len(stamp) < MaxEvents
  /\ stamp' = Append(stamp, clock)
  /\ writing' = [writing EXCEPT ![w] = Len(stamp')]
  /\ UNCHANGED <<clock, log, open, reader, failures>>

BeginLine(w) ==
  /\ writing[w] # 0 /\ open = 0
  /\ log' = Append(log, [ev |-> writing[w], end |-> FALSE])
  /\ open' = writing[w]
  /\ UNCHANGED <<clock, stamp, writing, reader, failures>>

EndLine(w) ==
  /\ writing[w] # 0 /\ open = writing[w]
  /\ log' = Append(log, [ev |-> open, end |-> TRUE])
  /\ open' = 0
  /\ writing' = [writing EXCEPT ![w] = 0]
  /\ UNCHANGED <<clock, stamp, reader, failures>>

(* Write returns the error; what there is of the line stays. *)
WriteFails(w) ==
  /\ writing[w] # 0 /\ open \in {0, writing[w]}
  /\ failures < MaxFailures /\ failures' = failures + 1
  /\ open' = 0
  /\ writing' = [writing EXCEPT ![w] = 0]
  /\ UNCHANGED <<clock, stamp, log, reader>>

---------------------------------------------------------------------------
(* ReadSince. *)
WholeAt(i) == i < Len(log) /\ ~log[i].end /\ log[i + 1] = [log[i] EXCEPT !.end = TRUE]

(* Mutant: events of the very moment count. *)
NotBefore(e, t) == t = 0 \/ stamp[e] >= t
After(e, t) == t = 0 \/ stamp[e] > t

Open(t) ==
  /\ reader.pc = "idle"
  /\ reader' = [Resting EXCEPT !.pc = "read", !.since = t]
  /\ UNCHANGED <<clock, stamp, log, writing, open, failures>>

DecodeLine ==
  /\ reader.pc = "read" /\ WholeAt(reader.at)
  /\ LET e == log[reader.at].ev
     IN  reader' = [reader EXCEPT !.at = @ + 2,
                                  !.got = IF After(e, reader.since) THEN Append(@, e) ELSE @]
  /\ UNCHANGED <<clock, stamp, log, writing, open, failures>>

(* Half a line, or one that runs into the next: json.Decoder keeps the     *)
(* error and returns it for ever, More sees that there is more, and the    *)
(* loop goes on.                                                           *)
Malformed == reader.pc = "read" /\ reader.at <= Len(log) /\ ~WholeAt(reader.at)

DecodeFails ==
  /\ Malformed
  /\ reader' = [reader EXCEPT !.pc = "stuck"]
  /\ UNCHANGED <<clock, stamp, log, writing, open, failures>>

EndOfFile ==
  /\ reader.pc = "read" /\ reader.at = Len(log) + 1
  /\ reader' = [reader EXCEPT !.pc = "done"]
  /\ UNCHANGED <<clock, stamp, log, writing, open, failures>>

Read == DecodeLine \/ DecodeFails \/ EndOfFile

LogTypeOK ==
  /\ clock \in 2 .. MaxClock /\ failures \in 0 .. MaxFailures
  /\ stamp \in Seq(2 .. MaxClock) /\ Len(stamp) <= MaxEvents
  /\ log \in Seq(Piece)
  /\ writing \in [Writer -> 0 .. MaxEvents] /\ open \in 0 .. MaxEvents
  /\ reader \in [pc : {"idle", "read", "stuck", "done"}, at : Nat, since : 0 .. MaxClock,
                 got : Seq(1 .. MaxEvents)]
===========================================================================
