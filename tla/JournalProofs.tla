--------------------------- MODULE JournalProofs ---------------------------
(***************************************************************************)
(* Proofs about Journal for any daemons, writers and bounds: its types,    *)
(* the shared token, and that a tail prints what it asked for, once.       *)
(***************************************************************************)
EXTENDS Journal, TLAPS

(* An event is in the log, in an answer or printed only if it was made. *)
Made ==
  /\ \A i \in 1 .. Len(log) : log[i].ev \in Event
  /\ \A w \in Writer : writing[w] \in 0 .. Len(stamp)
  /\ reader.got \in Seq(Event) /\ reader.at \in 1 .. Len(log) + 1

Types == TypeOK /\ Made /\ (tail.pc = "asking" => polls < MaxPolls)

(* While two daemons do not make tokens at the same time: whoever makes    *)
(* one found none, so no daemon with a token to ask for is up.             *)
Minting(d) == daemon[d].pc \in {"open", "fill"}

TokenInv ==
  /\ \A d \in Daemon : Minting(d) => daemon[d].token # 0
  /\ ~raced =>
       /\ \A d \in required : Up(d) => daemon[d].token = tokenFile /\ tokenFile # 0
       /\ \A d \in Daemon : Minting(d) =>
            /\ tokenFile = 0
            /\ \A x \in Daemon : Minting(x) => x = d

(* Each event has one writer, and its line is completed once. *)
LinesOnce ==
  /\ \A w, x \in Writer : writing[w] = writing[x] /\ writing[w] # 0 => w = x
  /\ \A i \in 1 .. Len(log) : log[i].end => \A w \in Writer : writing[w] # log[i].ev
  /\ \A i, j \in 1 .. Len(log) :
       log[i].end /\ log[j].end /\ log[i].ev = log[j].ev => i = j
  /\ \A e \in Event : stamp[e] <= clock

(* What an answer holds: lines completed before the place the reader is    *)
(* at, each once, and only what is newer than the question.                *)
Behind(e) == \E i \in 1 .. Len(log) : i < reader.at /\ log[i] = [ev |-> e, end |-> TRUE]

AnswerOK ==
  /\ IsInjective(reader.got)
  /\ \A e \in ToSet(reader.got) : Behind(e) /\ After(e, reader.since)
  /\ tail.pc = "asking" => reader.since = Since(tail.last)

(* What the tail has asked for is printed, in the answer, or ahead of the  *)
(* reader; what is printed is older than the next question.                *)
Ahead(e) == \E i \in 1 .. Len(log) : i >= reader.at /\ log[i] = [ev |-> e, end |-> TRUE]

PrintedOK ==
  zone # "east" =>
    /\ tail.pc = "off" => printed = <<>> /\ due = {}
    /\ IsInjective(printed)
    /\ \A e \in ToSet(printed) : stamp[e] <= tail.last
    /\ \A e \in due : \/ e \in ToSet(printed)
                      \/ /\ tail.pc = "asking" /\ stamp[e] > tail.last
                         /\ e \in ToSet(reader.got) \/ (reader.pc # "done" /\ Ahead(e))

IInv == Types /\ TokenInv /\ LinesOnce /\ AnswerOK /\ PrintedOK

---------------------------------------------------------------------------
(* Types.                                                                  *)

Daemons == \E d \in Daemon : Start(d) \/ ReadToken(d) \/ OpenFile(d) \/ FillFile(d)
Writers == \E w \in Writer : New(w) \/ BeginLine(w) \/ EndLine(w) \/ WriteFails(w)

LEMMA TypesInit == Init => Types
<1> SUFFICES ASSUME Init PROVE Types
  OBVIOUS
<1> USE TokenAssumption, LogAssumption, JournalAssumption
<1>1. TokenTypeOK
  <2>1. Down \in [pc : {"down", "ensure", "open", "fill", "up"}, token : 0 .. MaxTokens]
    BY DEF Down
  <2>2. daemon \in [Daemon -> [pc : {"down", "ensure", "open", "fill", "up"}, token : 0 .. MaxTokens]]
    BY <2>1 DEF Init, TokenInit
  <2>3. required \subseteq Daemon /\ tokenFile = 0 /\ minted = 0 /\ ends = 0 /\ raced \in BOOLEAN
    BY DEF Init, TokenInit
  <2>. QED
    BY <2>2, <2>3 DEF TokenTypeOK
<1>2. LogTypeOK /\ Made
  BY DEF Init, LogInit, LogTypeOK, Made, Resting, Event, Piece
<1>. QED
  BY <1>1, <1>2 DEF Init, LogInit, Types, TypeOK, Resting

(* What the start of a daemon does to the token and to the daemons. *)
LEMMA TokenTyped ==
  ASSUME TokenTypeOK, NEW d \in Daemon,
         Start(d) \/ ReadToken(d) \/ OpenFile(d) \/ FillFile(d) \/ End(d)
  PROVE  TokenTypeOK'
<1> USE TokenAssumption
<1>1. CASE Start(d)
  BY <1>1 DEF Start, Enter, TokenTypeOK
<1>2. CASE ReadToken(d)
  <2>1. CASE Found
    BY <1>2, <2>1 DEF ReadToken, Enter, TokenTypeOK
  <2>2. CASE ~Found
    <3>1. minted' \in 0 .. MaxTokens /\ raced' \in BOOLEAN
      BY <1>2, <2>2 DEF ReadToken, TokenTypeOK
    <3>. QED
      BY <1>2, <2>2, <3>1 DEF ReadToken, Enter, TokenTypeOK
  <2>. QED
    BY <2>1, <2>2
<1>3. CASE OpenFile(d)
  BY <1>3 DEF OpenFile, Enter, TokenTypeOK
<1>4. CASE FillFile(d)
  BY <1>4 DEF FillFile, Enter, TokenTypeOK
<1>5. CASE End(d)
  BY <1>5 DEF End, Enter, TokenTypeOK
<1>. QED
  BY <1>1, <1>2, <1>3, <1>4, <1>5

LogOK == LogTypeOK /\ Made

(* A piece more in the log. *)
LEMMA PieceTyped ==
  ASSUME log \in Seq(Piece), NEW e \in 1 .. MaxEvents, NEW b \in BOOLEAN
  PROVE  LET l == Append(log, [ev |-> e, end |-> b])
         IN  /\ l \in Seq(Piece) /\ Len(l) = Len(log) + 1
             /\ \A i \in 1 .. Len(log) : l[i] = log[i]
             /\ l[Len(log) + 1] = [ev |-> e, end |-> b]
  BY DEF Piece

LEMMA LenLog == LogTypeOK => Len(log) \in Nat /\ Len(stamp) \in Nat
  BY DEF LogTypeOK

LEMMA LogTyped == LogOK /\ (Tick \/ Read \/ Writers) => LogOK'
<1> SUFFICES ASSUME LogOK, Tick \/ Read \/ Writers PROVE LogOK'
  OBVIOUS
<1> USE LogAssumption DEF LogOK
<1>1. CASE Tick
  <2>1. stamp \in Seq(2 .. MaxClock)
    BY DEF LogTypeOK
  <2>. QED
    BY <1>1, <2>1 DEF Tick, LogTypeOK, Made, Event
<1>2. CASE DecodeLine
  <2> DEFINE e == log[reader.at].ev
  <2>1. reader.at \in 1 .. Len(log) /\ e \in Event /\ e \in 1 .. MaxEvents
    <3>1. reader.at \in 1 .. Len(log) + 1 /\ reader.at < Len(log) /\ Len(log) \in Nat
      BY <1>2 DEF DecodeLine, WholeAt, LogTypeOK, Made
    <3>2. log[reader.at] \in Piece
      BY <3>1 DEF LogTypeOK
    <3>. QED
      BY <3>1, <3>2 DEF Made, Piece
  <2>2. Append(reader.got, e) \in Seq(Event) /\ Append(reader.got, e) \in Seq(1 .. MaxEvents)
    BY <2>1 DEF LogTypeOK, Made
  <2> DEFINE g == IF After(e, reader.since) THEN Append(reader.got, e) ELSE reader.got
  <2>5. reader' = [pc |-> reader.pc, at |-> reader.at + 2, since |-> reader.since, got |-> g]
    BY <1>2 DEF DecodeLine, LogTypeOK
  <2>6. g \in Seq(Event) /\ g \in Seq(1 .. MaxEvents)
    BY <2>2 DEF LogTypeOK, Made
  <2> HIDE DEF g
  <2>3. /\ reader' \in [pc : {"idle", "read", "stuck", "done"}, at : Nat, since : 0 .. MaxClock,
                        got : Seq(1 .. MaxEvents)]
        /\ reader'.at = reader.at + 2 /\ reader'.got \in Seq(Event)
    BY <2>5, <2>6 DEF LogTypeOK
  <2>4. reader'.at \in 1 .. Len(log) + 1
    BY <1>2, <2>1, <2>3, LenLog DEF DecodeLine, WholeAt
  <2>. QED
    BY <1>2, <2>3, <2>4 DEF DecodeLine, LogTypeOK, Made, Event
<1>3. CASE DecodeFails \/ EndOfFile
  BY <1>3 DEF DecodeFails, EndOfFile, LogTypeOK, Made, Event
<1>4. ASSUME NEW w \in Writer, New(w) PROVE LogOK'
  <2>1. /\ stamp' \in Seq(2 .. MaxClock) /\ Len(stamp') = Len(stamp) + 1
        /\ Len(stamp') \in 1 .. MaxEvents
    BY <1>4 DEF New, LogTypeOK
  <2>2. Event \subseteq Event'
    BY <2>1 DEF Event
  <2>3. reader.got \in Seq(Event')
    BY <2>2 DEF Made
  <2>. QED
    BY <1>4, <2>1, <2>2, <2>3, SMTT(30) DEF New, LogTypeOK, Made
<1>5. ASSUME NEW w \in Writer, NEW b \in BOOLEAN, writing[w] # 0,
             log' = Append(log, [ev |-> writing[w], end |-> b]),
             writing' \in [Writer -> 0 .. MaxEvents], \A x \in Writer : writing'[x] \in {0, writing[x]},
             open' \in 0 .. MaxEvents, UNCHANGED <<clock, stamp, reader, failures>>
      PROVE  LogOK'
  <2>1. writing[w] \in 1 .. MaxEvents /\ writing[w] \in Event
    BY <1>5 DEF LogTypeOK, Made, Event
  <2>2. /\ log' \in Seq(Piece) /\ Len(log') = Len(log) + 1
        /\ \A i \in 1 .. Len(log) : log'[i] = log[i]
        /\ log'[Len(log) + 1].ev = writing[w]
    BY <1>5, <2>1, PieceTyped DEF LogTypeOK
  <2>3. \A i \in 1 .. Len(log') : log'[i].ev \in Event
    <3>1. Len(log) \in Nat
      BY DEF LogTypeOK
    <3>. QED
      BY <2>1, <2>2, <3>1 DEF Made
  <2>4. reader.at \in 1 .. Len(log') + 1
    BY <2>2 DEF Made, LogTypeOK
  <2>5. \A x \in Writer : writing'[x] \in 0 .. Len(stamp)
    BY <1>5, LenLog DEF Made
  <2>6. LogTypeOK'
    BY <1>5, <2>2 DEF LogTypeOK
  <2>. QED
    BY <1>5, <2>3, <2>4, <2>5, <2>6 DEF Made, Event
<1>7. ASSUME NEW w \in Writer, BeginLine(w) PROVE LogOK'
  <2>1. writing \in [Writer -> 0 .. MaxEvents] /\ writing[w] \in 0 .. MaxEvents
    BY DEF LogTypeOK
  <2>. QED
    BY <1>7, <1>5, <2>1 DEF BeginLine
<1>8. ASSUME NEW w \in Writer, EndLine(w) PROVE LogOK'
  <2>1. writing \in [Writer -> 0 .. MaxEvents] /\ 0 \in 0 .. MaxEvents
    BY DEF LogTypeOK
  <2>2. /\ log' = Append(log, [ev |-> writing[w], end |-> TRUE]) /\ writing[w] # 0
        /\ open' = 0 /\ writing' = [writing EXCEPT ![w] = 0]
        /\ UNCHANGED <<clock, stamp, reader, failures>>
    BY <1>8 DEF EndLine
  <2>3. writing' \in [Writer -> 0 .. MaxEvents] /\ \A x \in Writer : writing'[x] \in {0, writing[x]}
    BY <2>1, <2>2
  <2>. QED
    BY <1>5, <2>1, <2>2, <2>3
<1>6. ASSUME NEW w \in Writer, WriteFails(w) PROVE LogOK'
  BY <1>6 DEF WriteFails, LogTypeOK, Made, Event
<1>. QED
  BY <1>1, <1>2, <1>3, <1>4, <1>6, <1>7, <1>8 DEF Read, Writers

(* The daemons' steps leave the log alone, and the writers' the rest. *)
TailOK ==
  /\ zone \in {"utc", "east"}
  /\ tail \in [pc : {"off", "asleep", "asking"}, token : 0 .. MaxTokens, last : 0 .. MaxClock]
  /\ tail.pc = "asking" <=> reader.pc # "idle"
  /\ open # 0 => \E w \in Writer : writing[w] = open
  /\ polls \in 0 .. MaxPolls /\ printed \in Seq(Event) /\ due \subseteq Event
  /\ tail.pc = "asking" => polls < MaxPolls

LEMMA TypesParts == Types <=> TokenTypeOK /\ LogOK /\ TailOK
  BY DEF Types, TypeOK, LogOK, TailOK

(* The log moves: an event is not unmade, and a request stays one. *)
LEMMA LogMoves ==
  ASSUME LogOK, TailOK, Tick \/ Read \/ Writers, UNCHANGED tailVars
  PROVE  TailOK'
<1> USE DEF tailVars
<1>1. reader.pc # "idle" <=> reader'.pc # "idle"
  BY DEF LogOK, LogTypeOK, Tick, Read, DecodeLine, DecodeFails, EndOfFile, Malformed,
         Writers, New, BeginLine, EndLine, WriteFails
<1>2. stamp' = stamp \/ (\E w \in Writer : New(w))
  BY DEF Tick, Read, DecodeLine, DecodeFails, EndOfFile, Writers, BeginLine, EndLine, WriteFails
<1>3. Event \subseteq Event'
  <2>1. ASSUME NEW w \in Writer, New(w) PROVE Len(stamp') = Len(stamp) + 1
    BY <2>1 DEF New, LogOK, LogTypeOK
  <2>. QED
    BY <1>2, <2>1, LenLog DEF Event, LogOK
<1>4. open' # 0 => \E w \in Writer : writing'[w] = open'
  <2>1. CASE Tick \/ Read
    BY <2>1 DEF TailOK, Tick, Read, DecodeLine, DecodeFails, EndOfFile
  <2>2. ASSUME NEW w \in Writer, New(w), open # 0 PROVE \E x \in Writer : writing'[x] = open
    <3>1. writing \in [Writer -> 0 .. MaxEvents] /\ writing[w] = 0
      BY <2>2 DEF LogOK, LogTypeOK, New
    <3>2. PICK x \in Writer : writing[x] = open
      BY <2>2 DEF TailOK
    <3>3. writing'[x] = open
      BY <2>2, <3>1, <3>2 DEF New
    <3>. QED
      BY <3>3
  <2>3. ASSUME NEW w \in Writer, BeginLine(w) PROVE \E x \in Writer : writing'[x] = open'
    BY <2>3 DEF BeginLine
  <2>4. ASSUME NEW w \in Writer, EndLine(w) \/ WriteFails(w) PROVE open' = 0
    BY <2>4 DEF EndLine, WriteFails
  <2>5. ASSUME NEW w \in Writer, New(w) PROVE open' = open
    BY <2>5 DEF New
  <2>. QED
    BY <2>1, <2>2, <2>3, <2>4, <2>5 DEF Writers
<1>5. printed \in Seq(Event') /\ due \subseteq Event'
  BY <1>3 DEF TailOK
<1>. QED
  BY <1>1, <1>4, <1>5 DEF TailOK

LEMMA TypesNext == Types /\ [Next]_vars => Types'
<1> SUFFICES ASSUME TokenTypeOK, LogOK, TailOK, [Next]_vars PROVE TokenTypeOK' /\ LogOK' /\ TailOK'
  BY TypesParts DEF Types, TypeOK, LogOK, TailOK
<1> USE TokenAssumption, LogAssumption
<1>1. ASSUME NEW d \in Daemon, Start(d) \/ ReadToken(d) \/ OpenFile(d) \/ FillFile(d),
             UNCHANGED <<logVars, tailVars>>
      PROVE  TokenTypeOK' /\ LogOK' /\ TailOK'
  BY <1>1, TokenTyped DEF logVars, tailVars, LogOK, LogTypeOK, Made, TailOK, Event
<1>2. ASSUME NEW d \in Daemon, Die(d) PROVE TokenTypeOK' /\ LogOK' /\ TailOK'
  <2>1. TokenTypeOK'
    BY <1>2, TokenTyped DEF Die
  <2>5. /\ writing' = [w \in Writer |-> IF Home[w] = d THEN 0 ELSE writing[w]]
        /\ open' = IF \E w \in Writer : Home[w] = d /\ writing[w] = open THEN 0 ELSE open
    BY <1>2 DEF Die
  <2>6. /\ writing' \in [Writer -> 0 .. MaxEvents]
        /\ \A w \in Writer : writing'[w] \in 0 .. Len(stamp)
    BY <2>5, LenLog DEF LogOK, LogTypeOK, Made
  <2>7. open' # 0 => \E w \in Writer : writing'[w] = open'
    <3>1. SUFFICES ASSUME open' # 0 PROVE \E w \in Writer : writing'[w] = open'
      OBVIOUS
    <3>2. open' = open /\ \A w \in Writer : writing[w] = open => Home[w] # d
      BY <2>5, <3>1
    <3>3. PICK w \in Writer : writing[w] = open
      BY <3>1, <3>2 DEF TailOK
    <3>. QED
      BY <2>5, <3>2, <3>3
  <2>2. /\ writing' \in [Writer -> 0 .. MaxEvents] /\ open' \in {0, open}
        /\ \A w \in Writer : writing'[w] \in 0 .. Len(stamp)
        /\ open' # 0 => \E w \in Writer : writing'[w] = open'
    BY <2>5, <2>6, <2>7
  <2>3. CASE reader' = Resting /\ tail' = [tail EXCEPT !.pc = "asleep"] /\ due' \subseteq due
    <3>1. /\ Resting \in [pc : {"idle", "read", "stuck", "done"}, at : Nat, since : 0 .. MaxClock,
                          got : Seq(1 .. MaxEvents)]
          /\ Resting.at = 1 /\ Resting.got = <<>> /\ Resting.pc = "idle"
      BY DEF Resting
    <3>2. 1 \in 1 .. Len(log) + 1 /\ <<>> \in Seq(Event)
      BY LenLog DEF LogOK
    <3>. QED
      BY <1>2, <2>1, <2>2, <2>3, <3>1, <3>2 DEF Die, tailVars, LogOK, LogTypeOK, Made, TailOK, Event
  <2>4. CASE UNCHANGED <<reader, tail, due>>
    BY <1>2, <2>1, <2>2, <2>4 DEF Die, LogOK, LogTypeOK, Made, TailOK, Event
  <2>. QED
    BY <1>2, <2>3, <2>4 DEF Die
<1>3. ASSUME Tick \/ Read \/ Writers, UNCHANGED <<tokenVars, tailVars>>
      PROVE  TokenTypeOK' /\ LogOK' /\ TailOK'
  BY <1>3, LogTyped, LogMoves DEF tokenVars, TokenTypeOK
<1>4. CASE StartTail
  <2>1. First \in 0 .. MaxClock /\ tokenFile \in 0 .. MaxTokens
    BY JournalAssumption DEF First, LogOK, LogTypeOK, TokenTypeOK
  <2>. QED
    BY <1>4, <2>1 DEF StartTail, tokenVars, logVars, TokenTypeOK, LogOK, LogTypeOK, Made, TailOK, Event
<1>5. CASE Poll
  <2>1. Since(tail.last) \in 0 .. MaxClock
    BY DEF Since, TailOK
  <2>2. reader' = [pc |-> "read", at |-> 1, since |-> Since(tail.last), got |-> <<>>]
    BY <1>5 DEF Poll, Open, Resting
  <2>3. /\ 1 \in 1 .. Len(log) + 1 /\ <<>> \in Seq(Event) /\ <<>> \in Seq(1 .. MaxEvents)
    BY LenLog DEF LogOK
  <2>4. /\ reader' \in [pc : {"idle", "read", "stuck", "done"}, at : Nat, since : 0 .. MaxClock,
                        got : Seq(1 .. MaxEvents)]
        /\ reader'.pc = "read" /\ reader'.got \in Seq(Event) /\ reader'.at \in 1 .. Len(log) + 1
    BY <2>1, <2>2, <2>3
  <2>5. UNCHANGED <<clock, stamp, log, writing, open, failures>>
    BY <1>5 DEF Poll, Open
  <2>6. LogOK'
    BY <2>4, <2>5 DEF LogOK, LogTypeOK, Made, Event
  <2>7. /\ tail' = [tail EXCEPT !.pc = "asking"] /\ due' \subseteq Event /\ polls < MaxPolls
        /\ UNCHANGED <<tokenVars, zone, printed, polls>>
    BY <1>5 DEF Poll, TailOK
  <2>. QED
    BY <2>4, <2>5, <2>6, <2>7 DEF tokenVars, TokenTypeOK, TailOK, Event
<1>6. CASE PrintAnswer
  <2>1. printed \o reader.got \in Seq(Event)
    BY DEF TailOK, LogOK, Made
  <2>2. clock \in 0 .. MaxClock /\ 1 \in 1 .. Len(log) + 1
    BY LenLog DEF LogOK, LogTypeOK
  <2>3. tail' \in [pc : {"asleep"}, token : 0 .. MaxTokens, last : 0 .. MaxClock]
    BY <1>6, <2>2 DEF PrintAnswer, TailOK
  <2>4. LogOK'
    BY <1>6, <2>2 DEF PrintAnswer, Resting, LogOK, LogTypeOK, Made, Event
  <2>5. polls' \in 0 .. MaxPolls
    BY <1>6, JournalAssumption DEF PrintAnswer, TailOK
  <2>. QED
    BY <1>6, <2>1, <2>3, <2>4, <2>5 DEF PrintAnswer, Resting, tokenVars, TokenTypeOK, TailOK, Event
<1>7. CASE UNCHANGED vars
  BY <1>7 DEF vars, tokenVars, logVars, tailVars, TokenTypeOK, LogOK, LogTypeOK, Made, TailOK, Event
<1>. QED
  BY <1>1, <1>2, <1>3, <1>4, <1>5, <1>6, <1>7 DEF Next, Writers

(* The types hold: of the token, the log, a call of ReadSince, the tail. *)
THEOREM TypeCorrect == Spec => []TypeOK
<1>1. Types => TypeOK
  BY DEF Types
<1>. QED
  BY <1>1, TypesInit, TypesNext, PTL DEF Spec

---------------------------------------------------------------------------
(* The token.                                                              *)

LEMMA TokenInvNext ==
  ASSUME TokenTypeOK, TokenInv, NEW d \in Daemon,
         Start(d) \/ ReadToken(d) \/ OpenFile(d) \/ FillFile(d) \/ End(d)
  PROVE  TokenInv'
<1> USE TokenAssumption
<1> USE DEF TokenTypeOK, TokenInv, Minting, Up, Enter
<1>1. CASE Start(d)
  BY <1>1 DEF Start, Down
<1>2. CASE ReadToken(d)
  <2>1. CASE Found
    BY <1>2, <2>1 DEF ReadToken, Found
  <2>2. CASE ~Found
    <3>1. /\ tokenFile = 0 /\ tokenFile' = 0 /\ required' = required /\ minted + 1 # 0
          /\ daemon' = [daemon EXCEPT ![d] = [pc |-> "open", token |-> minted + 1]]
          /\ raced' = (raced \/ \E x \in Daemon : Minting(x))
      <4>1. raced' = (raced \/ \E x \in Daemon : Minting(x))
        BY <1>2, <2>2, Zenon DEF ReadToken, Found
      <4>2. daemon' = [daemon EXCEPT ![d] = [pc |-> "open", token |-> minted']]
        BY <1>2, <2>2, Zenon DEF ReadToken, Found
      <4>3. minted' = minted + 1 /\ tokenFile' = tokenFile /\ required' = required /\ tokenFile = 0
        BY <1>2, <2>2, Zenon DEF ReadToken, Found
      <4>. QED
        BY <4>1, <4>2, <4>3
    <3>2. daemon'[d] = [pc |-> "open", token |-> minted + 1]
      BY <3>1
    <3>3. \A x \in Daemon : x # d => daemon'[x] = daemon[x]
      BY <3>1
    <3>4. \A x \in Daemon : Minting(x)' => daemon'[x].token # 0
      BY <3>1, <3>2, <3>3
    <3>5. ASSUME ~raced' PROVE \A x \in Daemon : Minting(x)' => x = d
      BY <3>1, <3>2, <3>3, <3>5
    <3>6. ASSUME ~raced', NEW x \in required', Up(x)' PROVE FALSE
      <4>1. ~raced /\ x # d /\ x \in required /\ daemon'[x] = daemon[x]
        BY <3>1, <3>2, <3>3, <3>6
      <4>. QED
        BY <3>1, <3>6, <4>1
    <3>. QED
      BY <3>1, <3>4, <3>5, <3>6
  <2>. QED
    BY <2>1, <2>2
<1>3. CASE OpenFile(d)
  BY <1>3 DEF OpenFile
<1>4. CASE FillFile(d)
  BY <1>4 DEF FillFile
<1>5. CASE End(d)
  BY <1>5 DEF End
<1>. QED
  BY <1>1, <1>2, <1>3, <1>4, <1>5

(* Daemons that did not make a token at the same time hold the one in the *)
(* file: who makes one found none, and then no other daemon has one.      *)
THEOREM TokenAgreed == Spec => []TokenShared
<1>1. Init => TokenInv
  BY DEF Init, TokenInit, TokenInv, Minting, Up, Down
<1>2. Types /\ TokenInv /\ [Next]_vars => TokenInv'
  <2> SUFFICES ASSUME TokenTypeOK, TokenInv, [Next]_vars PROVE TokenInv'
    BY DEF Types, TypeOK
  <2>1. CASE UNCHANGED tokenVars
    BY <2>1 DEF tokenVars, TokenInv, Minting, Up
  <2>. QED
    BY <2>1, TokenInvNext DEF Next, Die, StartTail, Poll, PrintAnswer, vars
<1>3. Types /\ TokenInv => TokenShared
  BY DEF TokenInv, TokenShared, Types, TypeOK, TokenTypeOK
<1>. QED
  BY <1>1, <1>2, <1>3, TypesInit, TypesNext, PTL DEF Spec

---------------------------------------------------------------------------
(* The log.                                                                *)

(* Whoever stops writing leaves the log as it is. *)
LEMMA LinesLetGo ==
  ASSUME Types, LinesOnce, UNCHANGED <<stamp, log>>, clock' >= clock, clock' \in Nat,
         \A w \in Writer : writing'[w] \in {0, writing[w]}
  PROVE  LinesOnce'
<1>1. \A i \in 1 .. Len(log) : log[i].ev \in Event /\ log[i].ev # 0
  BY DEF Types, Made, Event
<1>2. \A e \in Event : stamp[e] <= clock'
  <2>1. stamp \in Seq(2 .. MaxClock) /\ Len(stamp) \in Nat /\ clock \in Nat
    BY LogAssumption DEF Types, TypeOK, LogTypeOK
  <2>2. \A e \in Event : stamp[e] \in Nat /\ stamp[e] <= clock
    BY <2>1, LogAssumption DEF LinesOnce, Event
  <2>. QED
    BY <2>1, <2>2
<1>. QED
  BY <1>1, <1>2 DEF LinesOnce, Event

LEMMA LinesMove ==
  ASSUME Types, LinesOnce, Tick \/ Read \/ Writers PROVE LinesOnce'
<1> USE LogAssumption
<1>0. clock \in Nat /\ \A w \in Writer : writing[w] \in {0, writing[w]}
  BY DEF Types, TypeOK, LogTypeOK
<1>1. CASE Tick \/ Read
  <2>1. UNCHANGED <<stamp, log, writing>> /\ clock' \in {clock, clock + 1}
    BY <1>1 DEF Tick, Read, DecodeLine, DecodeFails, EndOfFile
  <2>2. /\ clock' \in Nat /\ clock' >= clock
        /\ \A w \in Writer : writing'[w] \in {0, writing[w]}
    BY <1>0, <2>1
  <2>. QED
    BY <2>1, <2>2, LinesLetGo
<1>2. ASSUME NEW w \in Writer, WriteFails(w) PROVE LinesOnce'
  BY <1>2, LinesLetGo DEF WriteFails, Types, TypeOK, LogTypeOK
<1>3. ASSUME NEW w \in Writer, New(w) PROVE LinesOnce'
  <2>1. /\ stamp \in Seq(2 .. MaxClock) /\ clock \in 2 .. MaxClock
        /\ Len(stamp) \in Nat /\ writing \in [Writer -> 0 .. MaxEvents]
    BY DEF Types, TypeOK, LogTypeOK
  <2>2. /\ stamp' = Append(stamp, clock) /\ writing' = [writing EXCEPT ![w] = Len(stamp')]
        /\ UNCHANGED <<clock, log>>
    BY <1>3 DEF New
  <2>3. /\ Len(stamp') = Len(stamp) + 1 /\ stamp'[Len(stamp) + 1] = clock
        /\ \A e \in 1 .. Len(stamp) : stamp'[e] = stamp[e]
    BY <2>1, <2>2
  <2>4. /\ \A x \in Writer : writing[x] \in 0 .. Len(stamp)
        /\ \A i \in 1 .. Len(log) : log[i].ev \in 1 .. Len(stamp)
    BY DEF Types, Made, Event
  <2>5. /\ writing'[w] = Len(stamp) + 1
        /\ \A x \in Writer : x # w => writing'[x] = writing[x]
    BY <2>1, <2>2, <2>3
  <2>6. \A x, y \in Writer : writing'[x] = writing'[y] /\ writing'[x] # 0 => x = y
    BY <2>1, <2>4, <2>5 DEF LinesOnce
  <2>7. \A i \in 1 .. Len(log) : log[i].end => \A x \in Writer : writing'[x] # log[i].ev
    BY <2>1, <2>4, <2>5 DEF LinesOnce
  <2>8. \A e \in Event' : stamp'[e] <= clock
    <3>1. \A e \in 1 .. Len(stamp) : stamp'[e] <= clock
      BY <2>3 DEF LinesOnce, Event
    <3>2. clock \in Nat /\ Event' = 1 .. Len(stamp) + 1
      BY <2>1, <2>3 DEF Event
    <3>. QED
      BY <2>1, <2>3, <3>1, <3>2
  <2>. QED
    BY <2>2, <2>6, <2>7, <2>8 DEF LinesOnce
<1>4. ASSUME NEW w \in Writer, BeginLine(w) PROVE LinesOnce'
  <2>1. writing[w] \in 1 .. MaxEvents /\ log \in Seq(Piece) /\ Len(log) \in Nat
    BY <1>4, LenLog DEF BeginLine, Types, TypeOK, LogTypeOK
  <2>2. /\ log' = Append(log, [ev |-> writing[w], end |-> FALSE])
        /\ UNCHANGED <<clock, stamp, writing>>
    BY <1>4 DEF BeginLine
  <2>3. /\ Len(log') = Len(log) + 1 /\ ~log'[Len(log) + 1].end
        /\ \A i \in 1 .. Len(log) : log'[i] = log[i]
    BY <2>1, <2>2, PieceTyped
  <2>4. \A i \in 1 .. Len(log') : log'[i].end => i \in 1 .. Len(log) /\ log'[i] = log[i]
    BY <2>1, <2>3
  <2>. QED
    BY <2>2, <2>4 DEF LinesOnce, Event
<1>5. ASSUME NEW w \in Writer, EndLine(w) PROVE LinesOnce'
  <2>1. /\ writing \in [Writer -> 0 .. MaxEvents] /\ log \in Seq(Piece) /\ Len(log) \in Nat
    BY LenLog DEF Types, TypeOK, LogTypeOK
  <2>2. /\ log' = Append(log, [ev |-> writing[w], end |-> TRUE]) /\ writing[w] # 0
        /\ writing' = [writing EXCEPT ![w] = 0] /\ UNCHANGED <<clock, stamp>>
    BY <1>5 DEF EndLine
  <2>7. writing[w] \in 1 .. MaxEvents
    BY <2>1, <2>2
  <2>3. /\ Len(log') = Len(log) + 1 /\ log'[Len(log) + 1].ev = writing[w]
        /\ \A i \in 1 .. Len(log) : log'[i] = log[i]
    BY <2>1, <2>2, <2>7, PieceTyped
  <2>4. \A i \in 1 .. Len(log') : i = Len(log) + 1 \/ (i \in 1 .. Len(log) /\ log'[i] = log[i])
    BY <2>1, <2>3
  <2>5. writing'[w] = 0 /\ \A x \in Writer : x # w => writing'[x] = writing[x]
    BY <2>1, <2>2
  <2>8. \A i \in 1 .. Len(log) : log[i].ev # 0
    BY DEF Types, Made, Event
  <2>6. \A i \in 1 .. Len(log') : log'[i].end => \A x \in Writer : writing'[x] # log'[i].ev
    BY <2>2, <2>3, <2>4, <2>5, <2>8 DEF LinesOnce
  <2>9. \A i, j \in 1 .. Len(log') :
          log'[i].end /\ log'[j].end /\ log'[i].ev = log'[j].ev => i = j
    BY <2>3, <2>4 DEF LinesOnce
  <2>10. \A x, y \in Writer : writing'[x] = writing'[y] /\ writing'[x] # 0 => x = y
    BY <2>5 DEF LinesOnce
  <2>. QED
    BY <2>2, <2>6, <2>9, <2>10 DEF LinesOnce, Event
<1>. QED
  BY <1>1, <1>2, <1>3, <1>4, <1>5 DEF Writers

LEMMA LinesInv == Types /\ LinesOnce /\ [Next]_vars => LinesOnce'
<1> SUFFICES ASSUME Types, LinesOnce, [Next]_vars PROVE LinesOnce'
  OBVIOUS
<1>1. clock \in Nat
  BY DEF Types, TypeOK, LogTypeOK
<1>2. CASE UNCHANGED <<clock, stamp, log, writing>>
  BY <1>1, <1>2, LinesLetGo
<1>3. ASSUME NEW d \in Daemon, Die(d) PROVE LinesOnce'
  BY <1>1, <1>3, LinesLetGo DEF Die
<1>. QED
  BY <1>2, <1>3, LinesMove
     DEF Next, Writers, logVars, vars, StartTail, Poll, Open, PrintAnswer

---------------------------------------------------------------------------
(* The answer.                                                             *)

(* A sequence of distinct elements and one that is not among them, and two *)
(* such sequences of different elements.                                   *)
LEMMA InjectiveAppend ==
  ASSUME NEW S, NEW s \in Seq(S), NEW e \in S, IsInjective(s), e \notin ToSet(s)
  PROVE  IsInjective(Append(s, e)) /\ ToSet(Append(s, e)) = ToSet(s) \cup {e}
<1>1. /\ Len(s) \in Nat /\ DOMAIN s = 1 .. Len(s) /\ DOMAIN Append(s, e) = 1 .. Len(s) + 1
      /\ \A i \in 1 .. Len(s) : Append(s, e)[i] = s[i]
      /\ Append(s, e)[Len(s) + 1] = e
  OBVIOUS
<1>2. \A i \in 1 .. Len(s) : s[i] # e
  BY <1>1 DEF ToSet
<1>. QED
  BY <1>1, <1>2 DEF IsInjective, ToSet

LEMMA InjectiveConcat ==
  ASSUME NEW S, NEW s \in Seq(S), NEW t \in Seq(S), IsInjective(s), IsInjective(t),
         ToSet(s) \cap ToSet(t) = {}
  PROVE  IsInjective(s \o t) /\ ToSet(s \o t) = ToSet(s) \cup ToSet(t)
<1>1. /\ Len(s) \in Nat /\ DOMAIN s = 1 .. Len(s) /\ Len(t) \in Nat /\ DOMAIN t = 1 .. Len(t)
      /\ DOMAIN (s \o t) = 1 .. Len(s) + Len(t)
      /\ \A i \in 1 .. Len(s) : (s \o t)[i] = s[i]
      /\ \A i \in Len(s) + 1 .. Len(s) + Len(t) : (s \o t)[i] = t[i - Len(s)]
  OBVIOUS
<1>2. \A i \in 1 .. Len(s), j \in 1 .. Len(t) : s[i] # t[j]
  BY <1>1 DEF ToSet
<1>3. \A i \in 1 .. Len(s) + Len(t) : i \in 1 .. Len(s) \/ i - Len(s) \in 1 .. Len(t)
  BY <1>1
<1>4. IsInjective(s \o t)
  <2> SUFFICES ASSUME NEW i \in 1 .. Len(s) + Len(t), NEW j \in 1 .. Len(s) + Len(t),
                      (s \o t)[i] = (s \o t)[j]
               PROVE  i = j
    BY <1>1 DEF IsInjective
  <2>1. CASE i \in 1 .. Len(s) /\ j \in 1 .. Len(s)
    <3>1. s[i] = s[j]
      BY <1>1, <2>1
    <3>. QED
      BY <1>1, <2>1, <3>1 DEF IsInjective
  <2>2. CASE i - Len(s) \in 1 .. Len(t) /\ j - Len(s) \in 1 .. Len(t)
    <3>1. t[i - Len(s)] = t[j - Len(s)]
      BY <1>1, <2>2
    <3>2. i - Len(s) = j - Len(s)
      BY <1>1, <2>2, <3>1 DEF IsInjective
    <3>. QED
      BY <1>1, <3>2
  <2>3. CASE i \in 1 .. Len(s) /\ j - Len(s) \in 1 .. Len(t)
    BY <1>1, <1>2, <2>3
  <2>4. CASE i - Len(s) \in 1 .. Len(t) /\ j \in 1 .. Len(s)
    BY <1>1, <1>2, <2>4
  <2>. QED
    BY <1>3, <2>1, <2>2, <2>3, <2>4
<1>5. \A j \in 1 .. Len(t) : j + Len(s) \in 1 .. Len(s) + Len(t) /\ (s \o t)[j + Len(s)] = t[j]
  BY <1>1
<1>6. \A i \in 1 .. Len(s) : i \in 1 .. Len(s) + Len(t)
  BY <1>1
<1>7. ToSet(s \o t) \subseteq ToSet(s) \cup ToSet(t)
  BY <1>1, <1>3 DEF ToSet
<1>8. ToSet(s) \cup ToSet(t) \subseteq ToSet(s \o t)
  BY <1>1, <1>5, <1>6 DEF ToSet
<1>. QED
  BY <1>4, <1>7, <1>8

(* The log grows at its end, whoever moves it, and no time is changed. *)
Grows ==
  /\ Len(log) \in Nat /\ Len(log') \in Nat /\ Len(log) <= Len(log')
  /\ \A i \in 1 .. Len(log) : log'[i] = log[i]
  /\ Event \subseteq Event' /\ \A e \in Event : stamp'[e] = stamp[e]

LEMMA LogGrows ==
  ASSUME Types, [Next]_vars
  PROVE  Grows
<1> USE LogAssumption
<1>1. /\ stamp \in Seq(2 .. MaxClock) /\ clock \in 2 .. MaxClock /\ Len(stamp) \in Nat
      /\ log \in Seq(Piece) /\ Len(log) \in Nat
      /\ writing \in [Writer -> 0 .. MaxEvents] /\ open \in 0 .. MaxEvents
  BY DEF Types, TypeOK, LogTypeOK
<1>2. ASSUME NEW w \in Writer, New(w) PROVE Grows
  <2>1. stamp' = Append(stamp, clock) /\ log' = log
    BY <1>2 DEF New
  <2>. QED
    BY <1>1, <2>1 DEF Event, Grows
<1>3. ASSUME NEW e \in 1 .. MaxEvents, NEW b \in BOOLEAN,
             log' = Append(log, [ev |-> e, end |-> b]), stamp' = stamp
      PROVE  Grows
  BY <1>1, <1>3, PieceTyped DEF Event, Grows
<1>4. ASSUME NEW w \in Writer, BeginLine(w) PROVE Grows
  <2>1. writing[w] \in 1 .. MaxEvents
    BY <1>1, <1>4 DEF BeginLine
  <2>. QED
    BY <1>3, <1>4, <2>1 DEF BeginLine
<1>5. ASSUME NEW w \in Writer, EndLine(w) PROVE Grows
  <2>1. open \in 1 .. MaxEvents
    BY <1>1, <1>5 DEF EndLine
  <2>. QED
    BY <1>3, <1>5, <2>1 DEF EndLine
<1>6. CASE UNCHANGED <<stamp, log>>
  BY <1>1, <1>6 DEF Event, Grows
<1>. QED
  BY <1>2, <1>4, <1>5, <1>6
     DEF Next, vars, logVars, Die, Tick, Read, DecodeLine, DecodeFails, EndOfFile,
         WriteFails, StartTail, Poll, Open, PrintAnswer

LEMMA AnswerStays ==
  ASSUME Types, AnswerOK, Grows,
         reader'.got = reader.got, reader'.at = reader.at, reader'.since = reader.since,
         tail'.pc = "asking" => /\ tail.pc = "asking" /\ tail'.last = tail.last
                                /\ zone' = zone
  PROVE  AnswerOK'
<1>1. \A e \in ToSet(reader.got) : e \in Event
  BY DEF Types, Made, ToSet
<1>2. \A e \in ToSet(reader.got) : Behind(e)' /\ After(e, reader.since)'
  <2> SUFFICES ASSUME NEW e \in ToSet(reader.got) PROVE Behind(e)' /\ After(e, reader.since)'
    OBVIOUS
  <2>1. PICK i \in 1 .. Len(log) : i < reader.at /\ log[i] = [ev |-> e, end |-> TRUE]
    BY DEF AnswerOK, Behind
  <2>2. i \in 1 .. Len(log') /\ log'[i] = log[i]
    BY <2>1 DEF Grows
  <2>3. Behind(e)'
    BY <2>1, <2>2 DEF Behind
  <2>4. After(e, reader.since)'
    BY <1>1 DEF AnswerOK, After, Grows
  <2>. QED
    BY <2>3, <2>4
<1>. QED
  BY <1>2 DEF AnswerOK, Since

LEMMA AnswerEmpty ==
  ASSUME reader'.got = <<>>, tail'.pc = "asking" => reader'.since = Since(tail.last)'
  PROVE  AnswerOK'
BY DEF AnswerOK, IsInjective, ToSet

(* A line is decoded: its end is behind the reader then and was not before. *)
LEMMA Decoded ==
  ASSUME Types, LinesOnce, AnswerOK, DecodeLine
  PROVE  LET e == log[reader.at].ev
         IN  /\ reader.at \in 1 .. Len(log) /\ reader.at + 1 \in 1 .. Len(log)
             /\ ~log[reader.at].end /\ log[reader.at + 1] = [ev |-> e, end |-> TRUE]
             /\ e \in Event /\ e \notin ToSet(reader.got)
             /\ reader' = [pc |-> "read", at |-> reader.at + 2, since |-> reader.since,
                           got |-> IF After(e, reader.since) THEN Append(reader.got, e)
                                                              ELSE reader.got]
<1> DEFINE e == log[reader.at].ev
<1>1. reader.at \in 1 .. Len(log) /\ reader.at + 1 \in 1 .. Len(log)
  BY LenLog DEF DecodeLine, WholeAt, Types, TypeOK, Made
<1>2. log[reader.at] \in Piece
  BY <1>1 DEF Types, TypeOK, LogTypeOK
<1>3. ~log[reader.at].end /\ log[reader.at + 1] = [ev |-> e, end |-> TRUE]
  BY <1>2 DEF DecodeLine, WholeAt, Piece
<1>4. e \in Event
  BY <1>1 DEF Types, Made
<1>5. ASSUME e \in ToSet(reader.got) PROVE FALSE
  <2>1. PICK i \in 1 .. Len(log) : i < reader.at /\ log[i] = [ev |-> e, end |-> TRUE]
    BY <1>5 DEF AnswerOK, Behind
  <2>2. i = reader.at + 1
    BY <1>1, <1>3, <2>1 DEF LinesOnce
  <2>. QED
    BY <1>1, <2>1, <2>2
<1>6. reader' = [pc |-> "read", at |-> reader.at + 2, since |-> reader.since,
                 got |-> IF After(e, reader.since) THEN Append(reader.got, e) ELSE reader.got]
  BY DEF DecodeLine, Types, TypeOK, LogTypeOK
<1>. QED
  BY <1>1, <1>3, <1>4, <1>5, <1>6

LEMMA AnswerInv == Types /\ LinesOnce /\ AnswerOK /\ [Next]_vars => AnswerOK'
<1> SUFFICES ASSUME Types, LinesOnce, AnswerOK, [Next]_vars PROVE AnswerOK'
  OBVIOUS
<1>1. Grows
  BY LogGrows
<1>2. CASE UNCHANGED <<reader, tail, zone>>
  BY <1>1, <1>2, AnswerStays
<1>3. CASE DecodeLine /\ UNCHANGED tailVars
  <2>9. PICK e \in Event : e = log[reader.at].ev
    BY <1>3, Decoded
  <2> DEFINE g == IF After(e, reader.since) THEN Append(reader.got, e) ELSE reader.got
  <2>1. /\ reader.at \in 1 .. Len(log) /\ reader.at + 1 \in 1 .. Len(log)
        /\ log[reader.at + 1] = [ev |-> e, end |-> TRUE] /\ e \in Event
        /\ e \notin ToSet(reader.got)
        /\ reader' = [pc |-> "read", at |-> reader.at + 2, since |-> reader.since, got |-> g]
    BY <1>3, <2>9, Decoded
  <2>2. IsInjective(g) /\ \A x \in ToSet(g) : x \in ToSet(reader.got) \/ (x = e /\ After(e, reader.since))
    <3>1. reader.got \in Seq(Event)
      BY DEF Types, Made
    <3>2. IsInjective(Append(reader.got, e)) /\ ToSet(Append(reader.got, e)) = ToSet(reader.got) \cup {e}
      BY <2>1, <3>1, InjectiveAppend DEF AnswerOK
    <3>. QED
      BY <3>2 DEF AnswerOK
  <2>3. UNCHANGED <<log, stamp, tail, zone>>
    BY <1>3 DEF DecodeLine, tailVars
  <2> HIDE DEF g
  <2>4. reader'.got = g /\ reader'.at = reader.at + 2 /\ reader'.since = reader.since
    BY <2>1
  <2>5. \A x \in ToSet(reader.got) : Behind(x)'
    BY <2>1, <2>3, <2>4 DEF AnswerOK, Behind
  <2>6. Behind(e)'
    BY <2>1, <2>3, <2>4 DEF Behind
  <2>7. \A x \in ToSet(g) : Behind(x)' /\ After(x, reader.since)'
    BY <2>2, <2>3, <2>4, <2>5, <2>6 DEF AnswerOK, After
  <2>. QED
    BY <2>2, <2>3, <2>4, <2>7 DEF AnswerOK, Since
<1>4. CASE (DecodeFails \/ EndOfFile) /\ UNCHANGED tailVars
  <2>1. /\ reader'.got = reader.got /\ reader'.at = reader.at /\ reader'.since = reader.since
        /\ UNCHANGED <<tail, zone>>
    BY <1>4 DEF DecodeFails, EndOfFile, tailVars, Types, TypeOK, LogTypeOK
  <2>. QED
    BY <1>1, <2>1, AnswerStays
<1>5. CASE StartTail
  BY <1>1, <1>5, AnswerStays DEF StartTail, logVars, Types, TypeOK
<1>6. CASE Poll
  <2>1. /\ reader' = [pc |-> "read", at |-> 1, since |-> Since(tail.last), got |-> <<>>]
        /\ tail'.last = tail.last /\ zone' = zone
    BY <1>6 DEF Poll, Open, Resting, Types, TypeOK
  <2>. QED
    BY <2>1, AnswerEmpty DEF Since
<1>7. CASE PrintAnswer \/ (tail'.pc # "asking" /\ reader' = Resting)
  <2>1. tail'.pc # "asking" /\ reader' = Resting
    BY <1>7 DEF PrintAnswer, Types, TypeOK
  <2>. QED
    BY <2>1, AnswerEmpty DEF Resting
<1>8. ASSUME NEW d \in Daemon, Die(d) PROVE AnswerOK'
  BY <1>2, <1>7, <1>8 DEF Die, Types, TypeOK
<1>. QED
  BY <1>2, <1>3, <1>4, <1>5, <1>6, <1>7, <1>8
     DEF Next, vars, logVars, tailVars, Tick, Read, New, BeginLine, EndLine, WriteFails

---------------------------------------------------------------------------
(* The tail.                                                               *)

(* What is asked for stays in the answer or ahead of the reader, whatever  *)
(* happens between a poll and its answer.                                  *)
Owed(e) ==
  \/ e \in ToSet(printed)
  \/ /\ tail.pc = "asking" /\ stamp[e] > tail.last
     /\ e \in ToSet(reader.got) \/ (reader.pc # "done" /\ Ahead(e))

LEMMA OwedStays ==
  ASSUME Types, LinesOnce, AnswerOK, Grows, UNCHANGED <<tail, zone, printed>>, zone # "east",
         \/ UNCHANGED reader
         \/ Read,
         NEW e \in Event, Owed(e)
  PROVE  Owed(e)'
<1>1. stamp'[e] = stamp[e]
  BY DEF Grows
<1>2. ASSUME Ahead(e), reader'.at = reader.at PROVE Ahead(e)'
  <2>1. PICK i \in 1 .. Len(log) : i >= reader.at /\ log[i] = [ev |-> e, end |-> TRUE]
    BY <1>2 DEF Ahead
  <2>2. i \in 1 .. Len(log') /\ log'[i] = log[i]
    BY <2>1 DEF Grows
  <2>. QED
    BY <1>2, <2>1, <2>2 DEF Ahead
<1>3. CASE UNCHANGED reader
  BY <1>1, <1>2, <1>3 DEF Owed
<1>4. CASE DecodeFails
  <2>1. /\ reader'.got = reader.got /\ reader'.at = reader.at
        /\ reader.pc # "done" /\ reader'.pc # "done"
    BY <1>4 DEF DecodeFails, Malformed, Types, TypeOK, LogTypeOK
  <2>. QED
    BY <1>1, <1>2, <2>1 DEF Owed
<1>5. CASE EndOfFile
  <2>1. reader'.got = reader.got
    BY <1>5 DEF EndOfFile, Types, TypeOK, LogTypeOK
  <2>2. ~Ahead(e)
    BY <1>5, LenLog DEF EndOfFile, Ahead, Types, TypeOK
  <2>. QED
    BY <1>1, <2>1, <2>2 DEF Owed
<1>6. CASE DecodeLine
  <2> DEFINE x == log[reader.at].ev
             g == IF After(x, reader.since) THEN Append(reader.got, x) ELSE reader.got
  <2>1. /\ reader.at \in 1 .. Len(log) /\ reader.at + 1 \in 1 .. Len(log)
        /\ ~log[reader.at].end /\ log[reader.at + 1] = [ev |-> x, end |-> TRUE]
        /\ x \in Event /\ x \notin ToSet(reader.got)
        /\ reader' = [pc |-> "read", at |-> reader.at + 2, since |-> reader.since, got |-> g]
    BY <1>6, Decoded
  <2>2. UNCHANGED <<log, stamp>>
    BY <1>6 DEF DecodeLine
  <2>3. ToSet(Append(reader.got, x)) = ToSet(reader.got) \cup {x}
    BY <2>1, InjectiveAppend DEF AnswerOK, Types, Made
  <2>4. ToSet(reader.got) \subseteq ToSet(g) /\ (After(x, reader.since) => x \in ToSet(g))
    BY <2>3
  <2> HIDE DEF g, x
  <2>5. reader'.got = g /\ reader'.at = reader.at + 2 /\ reader'.pc = "read"
    BY <2>1
  <2>6. ASSUME tail.pc = "asking", stamp[e] > tail.last, Ahead(e)
        PROVE  e \in ToSet(g) \/ Ahead(e)'
    <3>1. PICK i \in 1 .. Len(log) : i >= reader.at /\ log[i] = [ev |-> e, end |-> TRUE]
      BY <2>6 DEF Ahead
    <3>2. i # reader.at
      BY <2>1, <3>1
    <3>3. CASE i = reader.at + 1
      <4>1. x = e
        BY <2>1, <3>1, <3>3
      <4>2. reader.since = tail.last
        BY <2>6 DEF AnswerOK, Since
      <4>. QED
        BY <2>4, <2>6, <4>1, <4>2 DEF After
    <3>4. CASE i >= reader.at + 2
      BY <2>2, <2>5, <3>1, <3>4 DEF Ahead
    <3>. QED
      BY <2>1, <3>1, <3>2, <3>3, <3>4, LenLog DEF Types, TypeOK
  <2>. QED
    BY <1>1, <2>4, <2>5, <2>6 DEF Owed
<1>. QED
  BY <1>3, <1>4, <1>5, <1>6 DEF Read

LEMMA PrintedInv ==
  Types /\ LinesOnce /\ AnswerOK /\ PrintedOK /\ [Next]_vars => PrintedOK'
<1> SUFFICES ASSUME Types, LinesOnce, AnswerOK, PrintedOK, [Next]_vars PROVE PrintedOK'
  OBVIOUS
<1>0. zone' = zone
  BY DEF Next, vars, tailVars, StartTail, Poll, PrintAnswer, Die
<1> SUFFICES ASSUME zone # "east"
             PROVE  /\ tail'.pc = "off" => printed' = <<>> /\ due' = {}
                    /\ IsInjective(printed')
                    /\ \A e \in ToSet(printed') : stamp'[e] <= tail'.last
                    /\ \A e \in due' : Owed(e)'
  BY <1>0 DEF PrintedOK, Owed
<1>1. Grows
  BY LogGrows
<1>2. /\ printed \in Seq(Event) /\ due \subseteq Event /\ reader.got \in Seq(Event)
      /\ \A e \in due : Owed(e)
      /\ tail \in [pc : {"off", "asleep", "asking"}, token : 0 .. MaxTokens, last : 0 .. MaxClock]
  BY DEF Types, TypeOK, Made, PrintedOK, Owed
<1>3. ToSet(printed) \subseteq Event /\ ToSet(reader.got) \subseteq Event
  BY <1>2 DEF ToSet
<1>4. CASE UNCHANGED <<tail, zone, printed, due>> /\ (UNCHANGED reader \/ Read)
  <2>1. \A e \in due' : Owed(e)'
    BY <1>1, <1>2, <1>4, OwedStays
  <2>2. \A e \in ToSet(printed) : stamp'[e] <= tail.last
    BY <1>1, <1>3 DEF PrintedOK, Grows
  <2>. QED
    BY <1>4, <2>1, <2>2 DEF PrintedOK
<1>5. CASE StartTail
  <2>1. printed = <<>> /\ due = {} /\ printed' = printed /\ due' = due /\ tail'.pc = "asleep"
    BY <1>5 DEF StartTail, PrintedOK
  <2>. QED
    BY <2>1 DEF IsInjective, ToSet
<1>6. CASE Poll
  <2>1. /\ tail.pc = "asleep" /\ tail' = [tail EXCEPT !.pc = "asking"]
        /\ due' = due \cup {e \in Event : InLog(e) /\ stamp[e] > tail.last}
        /\ reader'.pc = "read" /\ reader'.at = 1
        /\ UNCHANGED <<printed, stamp, log>>
    BY <1>6 DEF Poll, Open, Resting
  <2>2. tail'.pc = "asking" /\ tail'.last = tail.last
    BY <1>2, <2>1
  <2>3. \A e \in due : e \in ToSet(printed)
    BY <1>2, <2>1 DEF Owed
  <2>4. ASSUME NEW e \in Event, InLog(e) PROVE Ahead(e)'
    <3>1. PICK i \in 1 .. Len(log) : log[i] = [ev |-> e, end |-> TRUE]
      BY <2>4 DEF InLog
    <3>. QED
      BY <2>1, <3>1, LenLog DEF Ahead, Types, TypeOK
  <2>5. \A e \in due' : Owed(e)'
    BY <2>1, <2>2, <2>3, <2>4 DEF Owed
  <2>. QED
    BY <2>1, <2>2, <2>5 DEF PrintedOK
<1>7. CASE PrintAnswer
  <2>1. /\ tail.pc = "asking" /\ reader.pc = "done" /\ printed' = printed \o reader.got
        /\ tail' = [tail EXCEPT !.pc = "asleep",
                                !.last = IF reader.got = <<>> THEN @ ELSE clock]
        /\ UNCHANGED <<clock, stamp, log, due>>
    BY <1>7 DEF PrintAnswer
  <2>2. tail'.pc = "asleep" /\ tail'.last = IF reader.got = <<>> THEN tail.last ELSE clock
    BY <1>2, <2>1
  <2>3. /\ reader.since = tail.last /\ tail.last \in Nat
        /\ \A e \in Event : stamp[e] \in Nat /\ stamp[e] # 0 /\ stamp[e] <= clock
    <3>1. stamp \in Seq(2 .. MaxClock)
      BY DEF Types, TypeOK, LogTypeOK
    <3>2. \A e \in 1 .. Len(stamp) : stamp[e] \in 2 .. MaxClock
      BY <3>1, LogAssumption
    <3>3. reader.since = tail.last
      BY <2>1 DEF AnswerOK, Since
    <3>. QED
      BY <1>2, <3>2, <3>3, LogAssumption DEF LinesOnce, Event
  <2>4. ToSet(printed) \cap ToSet(reader.got) = {}
    <3> SUFFICES ASSUME NEW e \in ToSet(printed), e \in ToSet(reader.got) PROVE FALSE
      OBVIOUS
    <3>1. stamp[e] <= tail.last
      BY DEF PrintedOK
    <3>2. tail.last = 0 \/ stamp[e] > tail.last
      BY <2>3 DEF AnswerOK, After
    <3>. QED
      BY <1>3, <2>3, <3>1, <3>2
  <2>5. IsInjective(printed') /\ ToSet(printed') = ToSet(printed) \cup ToSet(reader.got)
    BY <1>2, <2>1, <2>4, InjectiveConcat DEF PrintedOK, AnswerOK
  <2>6. \A e \in ToSet(printed') : stamp'[e] <= tail'.last
    <3>1. CASE reader.got = <<>>
      <4>1. ToSet(reader.got) = {}
        BY <3>1 DEF ToSet
      <4>. QED
        BY <2>1, <2>2, <2>5, <3>1, <4>1 DEF PrintedOK
    <3>2. CASE reader.got # <<>>
      BY <1>3, <2>1, <2>2, <2>3, <2>5, <3>2
    <3>. QED
      BY <3>1, <3>2
  <2>7. \A e \in due' : e \in ToSet(printed')
    BY <1>2, <2>1, <2>5 DEF Owed
  <2>. QED
    BY <2>2, <2>5, <2>6, <2>7 DEF Owed
<1>8. CASE \E d \in Daemon : Die(d)
  <2>1. PICK d \in Daemon : Die(d)
    BY <1>8
  <2>2. UNCHANGED <<stamp, printed, zone>>
    BY <2>1 DEF Die
  <2>3. CASE UNCHANGED <<reader, tail, due>>
    BY <1>4, <2>2, <2>3
  <2>4. CASE /\ tail' = [tail EXCEPT !.pc = "asleep"]
             /\ due' = due \ {e \in Event : stamp[e] > tail.last}
    <3>1. tail'.pc = "asleep" /\ tail'.last = tail.last
      BY <1>2, <2>4
    <3>2. \A e \in due' : e \in ToSet(printed)
      BY <1>2, <2>4 DEF Owed
    <3>. QED
      BY <2>2, <3>1, <3>2 DEF PrintedOK, Owed
  <2>. QED
    BY <2>1, <2>3, <2>4 DEF Die
<1>9. CASE UNCHANGED vars
  BY <1>4, <1>9 DEF vars, logVars, tailVars
<1>. QED
  <2>1. ASSUME Tick \/ Read \/ Writers, UNCHANGED tailVars
        PROVE  <1>4!1
    BY <2>1 DEF Tick, Read, Writers, New, BeginLine, EndLine, WriteFails, tailVars
  <2>. QED
    BY <1>4, <1>5, <1>6, <1>7, <1>8, <1>9, <2>1 DEF Next, Writers, logVars, tailVars

(* A tail misses nothing it asked for and repeats nothing.  The argument:  *)
(* each event has one complete line (LinesOnce), an answer holds the lines *)
(* behind the reader that are newer than the question (AnswerOK), and what *)
(* is owed is printed, in the answer or ahead of the reader (PrintedOK).   *)
THEOREM TailPrintsOnce == Spec => []TailExact
<1>1. Init => LinesOnce /\ AnswerOK /\ PrintedOK
  <2> SUFFICES ASSUME Init PROVE LinesOnce /\ AnswerOK /\ PrintedOK
    OBVIOUS
  <2>1. /\ stamp = <<>> /\ log = <<>> /\ writing = [w \in Writer |-> 0]
        /\ reader.got = <<>> /\ tail.pc = "off" /\ printed = <<>> /\ due = {}
    BY DEF Init, LogInit, Resting
  <2>. QED
    BY <2>1 DEF LinesOnce, Event, AnswerOK, PrintedOK, IsInjective, ToSet
<1>2. Types /\ PrintedOK => TailExact
  BY DEF PrintedOK, TailExact
<1>. QED
  BY <1>1, <1>2, TypesInit, TypesNext, LinesInv, AnswerInv, PrintedInv, PTL DEF Spec
===========================================================================
