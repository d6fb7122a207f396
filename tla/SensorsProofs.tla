---------------------------- MODULE SensorsProofs ----------------------------
(***************************************************************************)
(* Proofs about Sensors for any number of paths, contents, goroutines,     *)
(* canaries and connections, any bounds and any configurations: what is in *)
(* the vault or passed over is justified, alerts are mailed, canaries are  *)
(* heard and replaced, new connections, beacons and bursts of changes are  *)
(* told, and every variable keeps its type.                                *)
(***************************************************************************)
EXTENDS Sensors, FiniteSetTheorems, WellFoundedInduction, TLAPS

---------------------------------------------------------------------------
(* The deep scan.                                                          *)

Steps == {"cache", "bazaar", "total", "store", "judge", "move"}
Scanning == [pc : Steps, path : Path, hash : Content, verdict : Verdict \cup {"unknown", None},
             outage : BOOLEAN, overtaken : BOOLEAN]

FeedTypes ==
  /\ disk \in [Path -> Content \cup {None}]
  /\ cache \in [Content -> Verdict \cup {None}]
  /\ scan \in [DeepScan -> {Idle} \cup [pc : {"match"}, path : Path] \cup Scanning]
  /\ vault \subseteq [content : Content, hash : Content, outage : BOOLEAN, overtaken : BOOLEAN]
  /\ answers \in [Content -> SUBSET Verdict] /\ quiet \subseteq Content

(* What a scan says of its hash, a feed has said; or it is unknown in this *)
(* scan only.  And its path still has the file, or somebody wrote it.      *)
Justified(g) ==
  LET s == scan[g]
  IN  s \in Scanning =>
        /\ s.pc = "store" => s.verdict \in answers[s.hash]
        /\ s.pc = "judge" => s.verdict \in answers[s.hash] \/ (s.verdict = "unknown" /\ s.outage)
        /\ s.pc = "move" => answers[s.hash] \cap Bad # {} \/ s.outage
        /\ s.overtaken \/ disk[s.path] \in {s.hash, None}

CacheJustified == \A h \in Content : cache[h] # None => cache[h] \in answers[h]

FeedInv ==
  /\ FeedTypes /\ CacheJustified /\ VaultJustified /\ SilenceJustified
  /\ \A g \in DeepScan : Justified(g)

(* A scan at rest, and those that others leave alone: what feeds have      *)
(* answered stays, and files only disappear.                               *)
LEMMA JustifiedStays ==
  ASSUME FeedInv, answers' \in [Content -> SUBSET Verdict],
         \A h \in Content : answers[h] \subseteq answers'[h],
         \A p \in Path : disk'[p] \in {disk[p], None},
         NEW x \in DeepScan, scan'[x] = scan[x]
  PROVE  Justified(x)'
<1> SUFFICES ASSUME scan[x] \in Scanning PROVE Justified(x)'
  BY DEF Justified, Scanning
<1>1. scan[x].hash \in Content /\ scan[x].path \in Path
  BY DEF Scanning
<1>2. Justified(x)
  BY DEF FeedInv
<1>. QED
  BY <1>1, <1>2 DEF Justified, Scanning, Bad

(* One scan makes a step, to r, which is justified. *)
Sound(r) ==
  /\ r \in {Idle} \cup [pc : {"match"}, path : Path] \cup Scanning
  /\ r \in Scanning =>
       /\ r.pc = "store" => r.verdict \in answers'[r.hash]
       /\ r.pc = "judge" => r.verdict \in answers'[r.hash] \/ (r.verdict = "unknown" /\ r.outage)
       /\ r.pc = "move" => answers'[r.hash] \cap Bad # {} \/ r.outage
       /\ r.overtaken \/ disk'[r.path] \in {r.hash, None}

LEMMA ScanStep ==
  ASSUME FeedInv, NEW g \in DeepScan, NEW r, scan' = [scan EXCEPT ![g] = r], Sound(r),
         answers' \in [Content -> SUBSET Verdict],
         \A h \in Content : answers[h] \subseteq answers'[h],
         disk' \in [Path -> Content \cup {None}],
         \A p \in Path : disk'[p] \in {disk[p], None}
  PROVE  /\ scan' \in [DeepScan -> {Idle} \cup [pc : {"match"}, path : Path] \cup Scanning]
         /\ \A x \in DeepScan : Justified(x)'
<1>1. scan'[g] = r /\ \A x \in DeepScan : x # g => scan'[x] = scan[x]
  BY DEF FeedInv, FeedTypes
<1>2. Justified(g)'
  BY <1>1 DEF Sound, Justified
<1>3. scan' \in [DeepScan -> {Idle} \cup [pc : {"match"}, path : Path] \cup Scanning]
  BY DEF FeedInv, FeedTypes, Sound
<1>. QED
  BY <1>1, <1>2, <1>3, JustifiedStays

(* What has been answered stays, and so does what it justifies. *)
LEMMA FeedInvFrom ==
  ASSUME FeedInv, UNCHANGED <<vault, quiet, cache>>,
         answers' \in [Content -> SUBSET Verdict],
         \A h \in Content : answers[h] \subseteq answers'[h],
         disk' \in [Path -> Content \cup {None}],
         scan' \in [DeepScan -> {Idle} \cup [pc : {"match"}, path : Path] \cup Scanning],
         \A x \in DeepScan : Justified(x)'
  PROVE  FeedInv'
<1>1. \A v \in vault : v.hash \in Content
  BY DEF FeedInv, FeedTypes
<1>2. VaultJustified'
  BY <1>1 DEF FeedInv, VaultJustified, Bad
<1>3. SilenceJustified' /\ CacheJustified'
  BY DEF FeedInv, FeedTypes, SilenceJustified, CacheJustified
<1>. QED
  BY <1>2, <1>3 DEF FeedInv, FeedTypes

(* The same for a step that touches the scan only. *)
LEMMA ScanOnly ==
  ASSUME FeedInv, NEW g \in DeepScan, NEW r, scan' = [scan EXCEPT ![g] = r],
         Sound(r), UNCHANGED <<disk, cache, vault, answers, quiet>>
  PROVE  FeedInv'
BY ScanStep, FeedInvFrom DEF FeedInv, FeedTypes

LEMMA FeedInit == RespInit => FeedInv
<1> SUFFICES ASSUME RespInit PROVE FeedInv
  OBVIOUS
<1>1. FeedTypes
  BY DEF RespInit, FeedTypes
<1>2. \A g \in DeepScan : scan[g] = Idle
  BY DEF RespInit
<1>3. Idle \notin Scanning
  BY DEF Idle, Scanning, Steps
<1>. QED
  BY <1>1, <1>2, <1>3
     DEF RespInit, FeedInv, CacheJustified, VaultJustified, SilenceJustified, Justified

LEMMA UserWriteSound ==
  ASSUME FeedInv, NEW p \in Path, NEW c \in Content, UserWrite(p, c) PROVE FeedInv'
<1>1. /\ disk' = [disk EXCEPT ![p] = c]
      /\ scan' = [g \in DeepScan |-> IF "overtaken" \in DOMAIN scan[g] /\ scan[g].path = p
                                     THEN [scan[g] EXCEPT !.overtaken = TRUE] ELSE scan[g]]
      /\ UNCHANGED <<cache, vault, answers, quiet>>
  BY DEF UserWrite
<1>2. disk' \in [Path -> Content \cup {None}] /\ \A q \in Path : q # p => disk'[q] = disk[q]
  BY <1>1 DEF FeedInv, FeedTypes
<1>3. ASSUME NEW g \in DeepScan
      PROVE  /\ scan'[g] \in {Idle} \cup [pc : {"match"}, path : Path] \cup Scanning
             /\ Justified(g)'
  <2>1. scan[g] \in {Idle} \cup [pc : {"match"}, path : Path] \cup Scanning
    BY DEF FeedInv, FeedTypes
  <2>2. CASE scan[g] \in Scanning /\ scan[g].path = p
    <3>1. "overtaken" \in DOMAIN scan[g]
      BY <2>2 DEF Scanning
    <3>2. scan'[g] = [scan[g] EXCEPT !.overtaken = TRUE]
      BY <1>1, <2>2, <3>1
    <3>3. /\ scan'[g] \in Scanning /\ scan'[g].overtaken = TRUE
          /\ scan'[g].pc = scan[g].pc /\ scan'[g].verdict = scan[g].verdict
          /\ scan'[g].outage = scan[g].outage /\ scan'[g].hash = scan[g].hash
      BY <2>2, <3>2 DEF Scanning
    <3>4. Justified(g)
      BY DEF FeedInv
    <3>. QED
      BY <1>1, <2>2, <3>3, <3>4 DEF Justified
  <2>3. CASE ~(scan[g] \in Scanning /\ scan[g].path = p)
    <3>1. scan[g] \notin Scanning => "overtaken" \notin DOMAIN scan[g]
      BY <2>1 DEF Idle
    <3>2. scan'[g] = scan[g]
      BY <1>1, <2>3, <3>1
    <3>3. Justified(g)
      BY DEF FeedInv
    <3>4. scan[g] \in Scanning => scan[g].path \in Path
      BY DEF Scanning
    <3>. QED
      BY <1>1, <1>2, <2>1, <2>3, <3>2, <3>3, <3>4 DEF Justified
  <2>. QED
    BY <2>2, <2>3
<1>4. scan' \in [DeepScan -> {Idle} \cup [pc : {"match"}, path : Path] \cup Scanning]
  BY <1>1, <1>3
<1>. QED
  BY <1>1, <1>2, <1>3, <1>4, FeedInvFrom DEF FeedInv, FeedTypes

(* A scan with a hash is in the middle of its steps. *)
LEMMA InScan ==
  ASSUME FeedTypes, NEW g \in DeepScan, scan[g].pc \in Steps
  PROVE  /\ scan[g] \in Scanning /\ scan[g].hash \in Content /\ scan[g].path \in Path
         /\ Looked(g) \in [pc : {"match"}, path : Path] /\ Looked(g) \notin Scanning
<1>1. scan[g] \in Scanning
  <2>1. scan[g] \in {Idle} \cup [pc : {"match"}, path : Path] \cup Scanning
    BY DEF FeedTypes
  <2>. QED
    BY <2>1 DEF Idle, Steps
<1>. QED
  BY <1>1 DEF Scanning, Steps, Looked

(* The scan of g goes on to pc, with a verdict. *)
Onto(g, pc, v, o) ==
  [pc |-> pc, path |-> scan[g].path, hash |-> scan[g].hash, verdict |-> v,
   outage |-> o, overtaken |-> scan[g].overtaken]

LEMMA OntoIs ==
  ASSUME NEW g \in DeepScan, scan[g] \in Scanning, NEW pc, NEW v
  PROVE  /\ After(g, pc) = Onto(g, pc, scan[g].verdict, scan[g].outage)
         /\ [scan[g] EXCEPT !.pc = pc, !.verdict = v] = Onto(g, pc, v, scan[g].outage)
         /\ Unknown(g) = Onto(g, "judge", "unknown", TRUE)
<1>1. ASSUME NEW q PROVE [scan[g] EXCEPT !.pc = q] = Onto(g, q, scan[g].verdict, scan[g].outage)
  BY DEF Scanning, Onto
<1>2. ASSUME NEW q, NEW u, NEW r, r = Onto(g, q, scan[g].verdict, scan[g].outage)
      PROVE  [r EXCEPT !.verdict = u] = Onto(g, q, u, scan[g].outage)
  BY <1>2 DEF Onto
<1>3. ASSUME NEW q, NEW u, NEW r, NEW o, r = Onto(g, q, u, scan[g].outage)
      PROVE  [r EXCEPT !.outage = o] = Onto(g, q, u, o)
  BY <1>3 DEF Onto
<1>4. ASSUME NEW q, NEW u
      PROVE  [scan[g] EXCEPT !.pc = q, !.verdict = u] = Onto(g, q, u, scan[g].outage)
  BY <1>1, <1>2, Zenon
<1>5. Unknown(g) = Onto(g, "judge", "unknown", TRUE)
  <2> DEFINE r == [scan[g] EXCEPT !.pc = "judge", !.verdict = "unknown"]
  <2>1. r = Onto(g, "judge", "unknown", scan[g].outage)
    BY <1>4
  <2> HIDE DEF r
  <2>2. [r EXCEPT !.outage = TRUE] = Onto(g, "judge", "unknown", TRUE)
    BY <1>3, <2>1, Zenon
  <2>. QED
    BY <2>2, Zenon DEF Unknown, r
<1>. QED
  BY <1>1, <1>4, <1>5 DEF After

LEMMA OntoSound ==
  ASSUME FeedInv, NEW g \in DeepScan, scan[g] \in Scanning, disk' = disk,
         NEW pc \in Steps, NEW v \in Verdict \cup {"unknown", None}, NEW o \in BOOLEAN,
         pc = "store" => v \in answers'[scan[g].hash],
         pc = "judge" => v \in answers'[scan[g].hash] \/ (v = "unknown" /\ o),
         pc = "move" => answers'[scan[g].hash] \cap Bad # {} \/ o
  PROVE  Sound(Onto(g, pc, v, o))
<1>1. Onto(g, pc, v, o) \in Scanning
  BY DEF Onto, Scanning
<1>2. scan[g].overtaken \/ disk[scan[g].path] \in {scan[g].hash, None}
  BY DEF FeedInv, Justified
<1>. QED
  BY <1>1, <1>2 DEF Sound, Onto

LEMMA IdleSound ==
  ASSUME NEW r \in {Idle} \cup [pc : {"match"}, path : Path]
  PROVE  Sound(r)
BY DEF Sound, Scanning, Steps, Idle

LEMMA StartSound ==
  ASSUME FeedInv, NEW g \in DeepScan, NEW p \in Path, StartDeepScan(g, p) PROVE FeedInv'
<1> DEFINE r == [pc |-> "cache", path |-> p, hash |-> disk[p], verdict |-> None,
                 outage |-> FALSE, overtaken |-> FALSE]
<1>1. /\ scan' = [scan EXCEPT ![g] = r] /\ disk[p] # None
      /\ UNCHANGED <<disk, cache, vault, answers, quiet>>
  BY DEF StartDeepScan, Goto
<1>2. disk[p] \in Content
  BY <1>1 DEF FeedInv, FeedTypes
<1>3. r \in Scanning
  BY <1>2 DEF Scanning, Steps
<1>4. Sound(r)
  BY <1>1, <1>2, <1>3 DEF Sound
<1> HIDE DEF r
<1>. QED
  BY <1>1, <1>4, ScanOnly

LEMMA FromCacheSound ==
  ASSUME FeedInv, NEW g \in DeepScan, FromCache(g) PROVE FeedInv'
<1> DEFINE s == scan[g]
<1>1. s.pc = "cache" /\ UNCHANGED <<disk, cache, vault, answers, quiet>>
  BY DEF FromCache
<1>2. s \in Scanning /\ s.hash \in Content /\ s.path \in Path
  BY <1>1, InScan DEF FeedInv, Steps
<1>3. Justified(g)
  BY DEF FeedInv
<1>4. CASE cache[s.hash] # None /\ Goto(g, [s EXCEPT !.pc = "judge", !.verdict = cache[s.hash]])
  <2>1. cache[s.hash] \in answers[s.hash] /\ cache[s.hash] \in Verdict \cup {"unknown", None}
    BY <1>2, <1>4 DEF FeedInv, FeedTypes, CacheJustified
  <2>2. Sound(Onto(g, "judge", cache[s.hash], s.outage))
    BY <1>1, <1>2, <2>1, OntoSound DEF Steps, Scanning
  <2>. QED
    <3>1. scan' = [scan EXCEPT ![g] = Onto(g, "judge", cache[s.hash], s.outage)]
      BY <1>2, <1>4, OntoIs, Zenon DEF Goto
    <3>. QED
      BY <1>1, <2>2, <3>1, ScanOnly
<1>5. CASE Goto(g, After(g, "bazaar"))
  <2>1. Sound(Onto(g, "bazaar", s.verdict, s.outage))
    BY <1>1, <1>2, OntoSound DEF Steps, Scanning
  <2>. QED
    BY <1>1, <1>2, <1>5, <2>1, ScanOnly, OntoIs DEF Goto
<1>. QED
  BY <1>4, <1>5 DEF FromCache

LEMMA ExpireSound ==
  ASSUME FeedInv, NEW h \in Content, Expire(h) PROVE FeedInv'
<1>1. cache' = [cache EXCEPT ![h] = None] /\ UNCHANGED <<disk, scan, vault, answers, quiet>>
  BY DEF Expire
<1>2. FeedTypes' /\ CacheJustified'
  BY <1>1 DEF FeedInv, FeedTypes, CacheJustified
<1>3. \A x \in DeepScan : Justified(x)'
  BY <1>1 DEF FeedInv, Justified
<1>. QED
  BY <1>1, <1>2, <1>3 DEF FeedInv, VaultJustified, SilenceJustified

(* A feed's answer is remembered with the step it allows. *)
LEMMA AnswersSound ==
  ASSUME FeedInv, NEW g \in DeepScan, scan[g] \in Scanning, scan[g].hash \in Content,
         NEW V \in SUBSET Verdict, Answers(g, V), UNCHANGED <<disk, cache, vault, quiet>>
  PROVE  FeedInv'
<1>1. PICK v \in V : /\ Goto(g, [scan[g] EXCEPT !.pc = "store", !.verdict = v])
                     /\ answers' = [answers EXCEPT ![scan[g].hash] = @ \cup {v}]
  BY DEF Answers
<1>2. /\ answers' \in [Content -> SUBSET Verdict] /\ v \in answers'[scan[g].hash]
      /\ \A h \in Content : answers[h] \subseteq answers'[h]
  BY <1>1 DEF FeedInv, FeedTypes
<1>3. Sound(Onto(g, "store", v, scan[g].outage))
  BY <1>1, <1>2, OntoSound DEF Steps, Scanning
<1>4. scan' = [scan EXCEPT ![g] = Onto(g, "store", v, scan[g].outage)]
  BY <1>1, OntoIs DEF Goto
<1>5. disk' \in [Path -> Content \cup {None}] /\ \A p \in Path : disk'[p] \in {disk[p], None}
  BY DEF FeedInv, FeedTypes
<1>. QED
  BY <1>2, <1>3, <1>4, <1>5, ScanStep, FeedInvFrom

LEMMA AskSound ==
  ASSUME FeedInv, NEW g \in DeepScan, AskBazaar(g) \/ AskTotal(g) PROVE FeedInv'
<1>1. /\ scan[g].pc \in {"bazaar", "total"} /\ UNCHANGED <<disk, cache, vault, quiet>>
      /\ \/ Answers(g, {"malicious", "clean"}) \/ Answers(g, Verdict)
         \/ (Goto(g, After(g, "total")) \/ Goto(g, Unknown(g))) /\ UNCHANGED answers
  BY DEF AskBazaar, AskTotal
<1>2. scan[g] \in Scanning /\ scan[g].hash \in Content
  BY <1>1, InScan DEF FeedInv, Steps
<1>3. {"malicious", "clean"} \in SUBSET Verdict /\ Verdict \in SUBSET Verdict
  BY DEF Verdict, Bad
<1>4. Sound(Onto(g, "total", scan[g].verdict, scan[g].outage)) \/ answers' # answers
  BY <1>1, <1>2, OntoSound DEF Steps, Scanning
<1>5. Sound(Onto(g, "judge", "unknown", TRUE)) \/ answers' # answers
  BY <1>1, <1>2, OntoSound DEF Steps, Scanning
<1>. QED
  BY <1>1, <1>2, <1>3, <1>4, <1>5, AnswersSound, ScanOnly, OntoIs DEF Goto

LEMMA CacheResultSound ==
  ASSUME FeedInv, NEW g \in DeepScan, CacheResult(g) PROVE FeedInv'
<1> DEFINE s == scan[g]
<1>1. /\ s.pc = "store" /\ Goto(g, After(g, "judge")) /\ UNCHANGED <<disk, vault, answers, quiet>>
      /\ cache' = [cache EXCEPT ![s.hash] = s.verdict] \/ cache' = cache
  BY DEF CacheResult
<1>2. s \in Scanning /\ s.hash \in Content /\ s.verdict \in answers[s.hash]
  BY <1>1, InScan DEF FeedInv, Steps, Justified
<1>3. s.verdict \in Verdict
  BY <1>2 DEF FeedInv, FeedTypes
<1>4. /\ cache' \in [Content -> Verdict \cup {None}] /\ CacheJustified'
  BY <1>1, <1>2, <1>3 DEF FeedInv, FeedTypes, CacheJustified
<1>5. Sound(Onto(g, "judge", s.verdict, s.outage))
  BY <1>1, <1>2, OntoSound DEF Steps, Scanning
<1>6. /\ scan' \in [DeepScan -> {Idle} \cup [pc : {"match"}, path : Path] \cup Scanning]
      /\ \A x \in DeepScan : Justified(x)'
  BY <1>1, <1>2, <1>5, ScanStep, OntoIs DEF Goto, FeedInv, FeedTypes
<1>. QED
  BY <1>1, <1>4, <1>6 DEF FeedInv, FeedTypes, VaultJustified, SilenceJustified

LEMMA JudgeSound ==
  ASSUME FeedInv, NEW g \in DeepScan, Judge(g) PROVE FeedInv'
<1> DEFINE s == scan[g]
<1>1. s.pc = "judge" /\ UNCHANGED <<disk, cache, vault, answers>>
  BY DEF Judge
<1>2. /\ s \in Scanning /\ s.hash \in Content
      /\ Looked(g) \in [pc : {"match"}, path : Path]
      /\ s.verdict \in answers[s.hash] \/ (s.verdict = "unknown" /\ s.outage)
  BY <1>1, InScan DEF FeedInv, Steps, Justified
<1>3. Sound(Looked(g))
  BY <1>2, IdleSound
<1>4. CASE s.verdict = "clean" /\ quiet' = quiet \cup {s.hash} /\ Goto(g, Looked(g))
  <2>1. "clean" \in answers[s.hash]
    BY <1>2, <1>4
  <2>2. quiet' \subseteq Content /\ SilenceJustified'
    BY <1>1, <1>2, <1>4, <2>1 DEF FeedInv, FeedTypes, SilenceJustified
  <2>3. /\ scan' \in [DeepScan -> {Idle} \cup [pc : {"match"}, path : Path] \cup Scanning]
        /\ \A x \in DeepScan : Justified(x)'
    BY <1>1, <1>3, <1>4, ScanStep DEF Goto, FeedInv, FeedTypes
  <2>. QED
    BY <1>1, <2>2, <2>3 DEF FeedInv, FeedTypes, VaultJustified, CacheJustified
<1>5. CASE s.verdict # "clean" /\ Goto(g, After(g, "move")) /\ UNCHANGED quiet
  <2>1. answers[s.hash] \cap Bad # {} \/ s.outage
    BY <1>2, <1>5 DEF FeedInv, FeedTypes, Verdict
  <2>2. Sound(Onto(g, "move", s.verdict, s.outage))
    BY <1>1, <1>2, <2>1, OntoSound DEF Steps, Scanning
  <2>. QED
    BY <1>1, <1>2, <1>5, <2>2, ScanOnly, OntoIs DEF Goto
<1>6. CASE Goto(g, Looked(g)) /\ UNCHANGED quiet
  BY <1>1, <1>3, <1>6, ScanOnly DEF Goto
<1>. QED
  BY <1>4, <1>5, <1>6 DEF Judge

LEMMA MoveSound ==
  ASSUME FeedInv, NEW g \in DeepScan, Move(g) PROVE FeedInv'
<1> DEFINE s == scan[g]
           v == [content |-> disk[s.path], hash |-> s.hash, outage |-> s.outage,
                 overtaken |-> s.overtaken]
<1>1. s.pc = "move" /\ Goto(g, Looked(g)) /\ UNCHANGED <<cache, answers, quiet>>
  BY DEF Move
<1>2. /\ s \in Scanning /\ s.hash \in Content /\ s.path \in Path
      /\ Looked(g) \in [pc : {"match"}, path : Path]
      /\ answers[s.hash] \cap Bad # {} \/ s.outage
      /\ s.overtaken \/ disk[s.path] \in {s.hash, None}
  BY <1>1, InScan DEF FeedInv, Steps, Justified
<1>3. Sound(Looked(g))
  BY <1>2, IdleSound
<1>4. CASE /\ disk[s.path] # None /\ vault' = vault \cup {v}
           /\ disk' = [disk EXCEPT ![s.path] = None]
  <2>1. v \in [content : Content, hash : Content, outage : BOOLEAN, overtaken : BOOLEAN]
    BY <1>2, <1>4 DEF FeedInv, FeedTypes, Scanning
  <2>2. (answers[v.hash] \cap Bad # {} \/ v.outage) /\ (v.content = v.hash \/ v.overtaken)
    BY <1>2, <1>4
  <2> HIDE DEF v
  <2>3. VaultJustified'
    BY <1>1, <1>4, <2>2 DEF FeedInv, VaultJustified
  <2>4. /\ disk' \in [Path -> Content \cup {None}]
        /\ \A p \in Path : disk'[p] \in {disk[p], None}
    BY <1>4 DEF FeedInv, FeedTypes
  <2>5. /\ scan' \in [DeepScan -> {Idle} \cup [pc : {"match"}, path : Path] \cup Scanning]
        /\ \A x \in DeepScan : Justified(x)'
    BY <1>1, <1>3, <2>4, ScanStep DEF Goto, FeedInv, FeedTypes
  <2>. QED
    BY <1>1, <1>4, <2>1, <2>3, <2>4, <2>5
       DEF FeedInv, FeedTypes, SilenceJustified, CacheJustified
<1>5. CASE UNCHANGED <<disk, vault>>
  BY <1>1, <1>3, <1>5, ScanOnly DEF Goto
<1>. QED
  BY <1>4, <1>5 DEF Move

LEMMA FeedInvNext == FeedInv /\ [Next]_vars => FeedInv'
<1> SUFFICES ASSUME FeedInv, [Next]_vars PROVE FeedInv'
  OBVIOUS
<1>1. CASE UNCHANGED feedVars
  BY <1>1 DEF feedVars, FeedInv, FeedTypes, CacheJustified, VaultJustified, SilenceJustified, Justified
<1>2. ASSUME NEW g \in DeepScan, Match(g) PROVE FeedInv'
  BY <1>2, IdleSound, ScanOnly DEF Match, Goto
<1>3. CASE RespNext
  <2>1. ASSUME NEW t \in EventType, Send(t) PROVE UNCHANGED feedVars
    BY <2>1 DEF Send
  <2>2. Tick => UNCHANGED feedVars
    BY DEF Tick
  <2>. QED
    BY <1>1, <1>2, <1>3, <2>1, <2>2, UserWriteSound, StartSound, FromCacheSound, ExpireSound,
       AskSound, CacheResultSound, JudgeSound, MoveSound DEF RespNext
<1>4. CASE RespRestart
  <2>1. /\ scan' = [g \in DeepScan |-> Idle]
        /\ UNCHANGED <<disk, cache, vault, answers, quiet>>
    BY <1>4 DEF RespRestart
  <2>2. \A g \in DeepScan : Justified(g)'
    BY <2>1 DEF Justified, Idle, Scanning
  <2>. QED
    BY <2>1, <2>2 DEF FeedInv, FeedTypes, CacheJustified, VaultJustified, SilenceJustified
<1>5. CASE UNCHANGED respVars
  BY <1>1, <1>5 DEF respVars
<1>6. CASE \E c \in Canary : WriteCanary(c) \/ Register(c) \/ Touch(c) \/ Read(c)
  BY <1>1, <1>5, <1>6 DEF WriteCanary, Created, Register, Touch, Read
<1>7. CASE WriteCanaryFails \/ StartLoop \/ Stop \/ Change \/ TakeEvent
  BY <1>1, <1>5, <1>7 DEF WriteCanaryFails, Created, StartLoop, Stop, Change, TakeEvent
<1>. QED
  BY <1>3, <1>4, <1>5, <1>6, <1>7 DEF Next, Restart, vars

(* A file is in the vault because a feed condemned it, or none would       *)
(* answer; and what is passed over in silence a feed has called clean.     *)
THEOREM VaultIsJustified == Spec => []VaultJustified
<1>1. FeedInv => VaultJustified
  BY DEF FeedInv
<1>2. Init => FeedInv
  BY FeedInit DEF Init
<1>. QED
  BY <1>1, <1>2, FeedInvNext, PTL DEF Spec

(* What a deep scan passed over a feed has called clean.                   *)
THEOREM SilenceIsJustified == Spec => []SilenceJustified
<1>1. FeedInv => SilenceJustified
  BY DEF FeedInv
<1>2. Init => FeedInv
  BY FeedInit DEF Init
<1>. QED
  BY <1>1, <1>2, FeedInvNext, PTL DEF Spec

---------------------------------------------------------------------------
(* The mailer.                                                             *)

(* lastSent is the time of the last mail tried. *)
MailTypes ==
  /\ clock \in Nat
  /\ mails \in [EventType -> Seq(Nat)] /\ served \in [EventType -> SUBSET Nat]
  /\ lastSent \in [EventType -> Nat \cup {None}]

LastMail(t) ==
  IF lastSent[t] = None
  THEN mails[t] = <<>> /\ served[t] = {}
  ELSE /\ Len(mails[t]) \in Nat \ {0} /\ mails[t][Len(mails[t])] = lastSent[t]
       /\ lastSent[t] <= clock

Told(t) ==
  /\ \A a \in served[t] :
       \E i \in 1..Len(mails[t]) : mails[t][i] = a \/ mails[t][i] \in (a - Cooldown + 1)..a
  /\ \A i \in 2..Len(mails[t]) : mails[t][i] - mails[t][i - 1] >= Cooldown

MailInv == MailTypes /\ \A t \in EventType : LastMail(t) /\ Told(t)

LEMMA MailInit == RespInit => MailInv
<1> SUFFICES ASSUME RespInit PROVE MailInv
  OBVIOUS
<1>1. /\ clock = 0 /\ mails = [t \in EventType |-> <<>>] /\ served = [t \in EventType |-> {}]
      /\ lastSent = [t \in EventType |-> None]
  BY DEF RespInit
<1>. QED
  BY <1>1 DEF MailInv, MailTypes, LastMail, Told

(* A mail more. *)
LEMMA OneMore ==
  ASSUME NEW s \in Seq(Nat), NEW x \in Nat
  PROVE  /\ Append(s, x) \in Seq(Nat) /\ Len(Append(s, x)) = Len(s) + 1 /\ Len(s) \in Nat
         /\ Append(s, x)[Len(s) + 1] = x
         /\ \A i \in 1..Len(s) : Append(s, x)[i] = s[i] /\ s[i] \in Nat
OBVIOUS

LEMMA SendTold ==
  ASSUME MailInv, NEW t \in EventType, Send(t) PROVE MailInv'
<1> USE RespAssumption
<1>1. /\ served' = [served EXCEPT ![t] = @ \cup {clock}] /\ clock' = clock
      /\ clock \in Nat /\ mails[t] \in Seq(Nat) /\ Len(mails[t]) \in Nat
  BY DEF Send, MailInv, MailTypes
<1>2. ASSUME NEW u \in EventType, u # t, UNCHANGED <<mails[u], lastSent[u]>>
      PROVE  LastMail(u)' /\ Told(u)'
  <2>1. served'[u] = served[u]
    BY <1>1, <1>2 DEF MailInv, MailTypes
  <2>. QED
    BY <1>1, <1>2, <2>1 DEF MailInv, LastMail, Told
<1>3. served'[t] = served[t] \cup {clock} /\ served' \in [EventType -> SUBSET Nat]
  BY <1>1 DEF MailInv, MailTypes
<1>4. CASE InCooldown(t)
  <2>1. /\ UNCHANGED <<mails, lastSent>> /\ lastSent[t] # None
        /\ clock - lastSent[t] < Cooldown
    BY <1>4 DEF Send, InCooldown
  <2>2. /\ lastSent[t] \in Nat /\ lastSent[t] <= clock
        /\ Len(mails[t]) \in 1..Len(mails[t]) /\ mails[t][Len(mails[t])] = lastSent[t]
    BY <2>1, <1>1 DEF MailInv, MailTypes, LastMail
  <2>3. lastSent[t] \in (clock - Cooldown + 1)..clock
    BY <1>1, <2>1, <2>2
  <2>4. LastMail(t)' /\ Told(t)'
    BY <1>1, <1>3, <2>1, <2>2, <2>3 DEF MailInv, LastMail, Told
  <2>. QED
    BY <1>1, <1>2, <1>3, <2>1, <2>4 DEF MailInv, MailTypes
<1>5. CASE ~InCooldown(t)
  <2>1. /\ lastSent' = [lastSent EXCEPT ![t] = clock]
        /\ mails' = [mails EXCEPT ![t] = Append(@, clock)]
        /\ lastSent[t] # None => ~(clock - lastSent[t] < Cooldown)
    BY <1>5 DEF Send, InCooldown
  <2>2. /\ lastSent'[t] = clock /\ mails'[t] = Append(mails[t], clock)
        /\ \A u \in EventType : u # t => UNCHANGED <<mails[u], lastSent[u]>>
    BY <2>1 DEF MailInv, MailTypes
  <2>3. /\ mails'[t] \in Seq(Nat) /\ Len(mails'[t]) = Len(mails[t]) + 1
        /\ mails'[t][Len(mails[t]) + 1] = clock
        /\ \A i \in 1..Len(mails[t]) : mails'[t][i] = mails[t][i] /\ mails[t][i] \in Nat
    BY <1>1, <2>2, OneMore
  <2>4. MailTypes'
    BY <1>1, <1>3, <2>1, <2>3 DEF MailInv, MailTypes
  <2>5. LastMail(t)'
    BY <1>1, <2>2, <2>3 DEF LastMail
  <2>6. \A a \in served'[t] :
          \E i \in 1..Len(mails'[t]) :
            mails'[t][i] = a \/ mails'[t][i] \in (a - Cooldown + 1)..a
    <3> SUFFICES ASSUME NEW a \in served'[t]
                 PROVE  \E i \in 1..Len(mails'[t]) :
                          mails'[t][i] = a \/ mails'[t][i] \in (a - Cooldown + 1)..a
      OBVIOUS
    <3>1. CASE a = clock
      BY <1>1, <2>3, <3>1
    <3>2. CASE a \in served[t]
      <4>1. PICK i \in 1..Len(mails[t]) :
                   mails[t][i] = a \/ mails[t][i] \in (a - Cooldown + 1)..a
        BY <3>2 DEF MailInv, Told
      <4>2. i \in 1..Len(mails'[t]) /\ mails'[t][i] = mails[t][i]
        BY <1>1, <2>3
      <4>. QED
        BY <4>1, <4>2
    <3>. QED
      BY <1>3, <3>1, <3>2
  <2>7. \A i \in 2..Len(mails'[t]) : mails'[t][i] - mails'[t][i - 1] >= Cooldown
    <3> SUFFICES ASSUME NEW i \in 2..Len(mails'[t])
                 PROVE  mails'[t][i] - mails'[t][i - 1] >= Cooldown
      OBVIOUS
    <3>1. CASE i \in 2..Len(mails[t])
      <4>1. i - 1 \in 1..Len(mails[t]) /\ i \in 1..Len(mails[t])
        BY <1>1, <3>1
      <4>2. mails[t][i] - mails[t][i - 1] >= Cooldown
        BY <3>1 DEF MailInv, Told
      <4>. QED
        BY <2>3, <4>1, <4>2
    <3>2. CASE i = Len(mails[t]) + 1
      <4>1. Len(mails[t]) # 0 /\ i - 1 = Len(mails[t]) /\ Len(mails[t]) \in 1..Len(mails[t])
        BY <1>1, <3>2
      <4>2. lastSent[t] # None /\ lastSent[t] \in Nat /\ mails[t][Len(mails[t])] = lastSent[t]
        BY <4>1 DEF MailInv, MailTypes, LastMail
      <4>. QED
        BY <1>1, <2>1, <2>3, <3>2, <4>1, <4>2
    <3>. QED
      BY <1>1, <2>3, <3>1, <3>2
  <2>. QED
    BY <1>2, <2>2, <2>4, <2>5, <2>6, <2>7 DEF MailInv, Told
<1>. QED
  BY <1>4, <1>5

(* The rest of the daemon hands events over, and time goes on. *)
LEMMA MailStays ==
  ASSUME MailInv, UNCHANGED <<mails, served, lastSent>>, clock' \in {clock, clock + 1}
  PROVE  MailInv'
<1>1. \A t \in EventType : lastSent[t] \in Nat \cup {None} /\ clock \in Nat
  BY DEF MailInv, MailTypes
<1>2. \A t \in EventType : LastMail(t)'
  BY <1>1 DEF MailInv, LastMail
<1>. QED
  BY <1>1, <1>2 DEF MailInv, MailTypes, Told

LEMMA MailInvNext == MailInv /\ [Next]_vars => MailInv'
<1> SUFFICES ASSUME MailInv, [Next]_vars PROVE MailInv'
  OBVIOUS
<1>1. CASE UNCHANGED <<mails, served, lastSent>> /\ clock' \in {clock, clock + 1}
  BY <1>1, MailStays
<1>2. CASE RespNext
  <2>1. CASE Tick
    BY <1>1, <2>1 DEF Tick, mailVars
  <2>2. ASSUME NEW g \in DeepScan,
               \/ \E p \in Path : StartDeepScan(g, p)
               \/ FromCache(g) \/ AskBazaar(g) \/ AskTotal(g) \/ CacheResult(g) \/ Move(g)
        PROVE  MailInv'
    BY <1>1, <2>2 DEF StartDeepScan, FromCache, AskBazaar, AskTotal, CacheResult, Move, mailVars
  <2>3. ASSUME NEW g \in DeepScan, Judge(g) \/ Match(g) PROVE MailInv'
    BY <1>1, <2>3 DEF Judge, Match, Logged, LogFails, mailVars
  <2>4. ASSUME NEW p \in Path, NEW c \in Content, UserWrite(p, c) PROVE MailInv'
    BY <1>1, <2>4 DEF UserWrite, mailVars
  <2>5. ASSUME NEW h \in Content, Expire(h) PROVE MailInv'
    BY <1>1, <2>5 DEF Expire, mailVars
  <2>. QED
    BY <1>2, <2>1, <2>2, <2>3, <2>4, <2>5, SendTold DEF RespNext
<1>3. CASE RespRestart
  <2>1. /\ mails' = [t \in EventType |-> <<>>] /\ served' = [t \in EventType |-> {}]
        /\ lastSent' = [t \in EventType |-> None] /\ clock' = clock
    BY <1>3 DEF RespRestart
  <2>. QED
    BY <2>1 DEF MailInv, MailTypes, LastMail, Told
<1>4. CASE UNCHANGED respVars
  BY <1>1, <1>4 DEF respVars, mailVars
<1>5. CASE \E c \in Canary : WriteCanary(c) \/ Register(c) \/ Touch(c) \/ Read(c)
  BY <1>1, <1>4, <1>5 DEF WriteCanary, Created, Register, Touch, Read, mailVars
<1>6. CASE WriteCanaryFails \/ StartLoop \/ Stop \/ Change
  BY <1>1, <1>4, <1>6 DEF WriteCanaryFails, Created, StartLoop, Stop, Change, mailVars
<1>7. CASE TakeEvent
  <2>1. \/ UNCHANGED mailVars
        \/ \E t \in EventType : Logged(t)
    BY <1>7 DEF TakeEvent, Triggered, Record, LogFails, EventType
  <2>. QED
    BY <1>1, <1>7, <2>1 DEF TakeEvent, Logged, mailVars
<1>. QED
  BY <1>2, <1>3, <1>4, <1>5, <1>6, <1>7 DEF Next, Restart, vars

(* A lasting stream of events is not silenced, and mails are a cooldown    *)
(* apart.                                                                  *)
THEOREM AlertsTold == Spec => []AlertTold
<1>1. MailInv => AlertTold
  BY DEF MailInv, Told, AlertTold
<1>2. Init => MailInv
  BY MailInit DEF Init
<1>. QED
  BY <1>1, <1>2, MailInvNext, PTL DEF Spec

---------------------------------------------------------------------------
(* The connection monitor.                                                 *)

(* For one key with M sightings s and the reports R: seen, z here, is the  *)
(* time of the last sighting, unless that is more than SeenTTL ago.        *)
SeenTypes ==
  /\ now \in Nat
  /\ seen \in [Key -> Nat \cup {Never}]
  /\ sightings \in [Key -> Seq(Nat)] /\ reports \in [Key -> SUBSET Nat]

LastSeen(s, M, R, z, m) ==
  /\ \A i \in 1..M : s[i] <= m
  /\ \A u \in R : u <= m
  /\ z = Never => \A i \in 1..M : s[i] + SeenTTL < m
  /\ z # Never => /\ \E i \in 1..M : s[i] = z
                  /\ \A i \in 1..M : s[i] <= z
                  /\ m <= z + SeenTTL

Absent(s, M, d, t) == ~\E i \in 1..M : s[i] \in (t - d)..(t - 1)

Reported(s, M, R) ==
  \A i \in 1..M :
    /\ s[i] \in R => Absent(s, M, SeenTTL, s[i])
    /\ (\A g \in Gaps : Absent(s, M, SeenTTL + g, s[i])) => s[i] \in R

SeenInv ==
  /\ SeenTypes
  /\ \A k \in Key : /\ LastSeen(sightings[k], Len(sightings[k]), reports[k], seen[k], now)
                     /\ Reported(sightings[k], Len(sightings[k]), reports[k])

(* The connections of one poll come after all others. *)
LEMMA Resighted ==
  ASSUME NEW s \in Seq(Nat), NEW n \in Nat, NEW t \in Nat, NEW r, r = s \o [i \in 1..n |-> t]
  PROVE  /\ r \in Seq(Nat) /\ Len(r) \in Nat /\ Len(s) \in Nat /\ Len(r) = Len(s) + n
         /\ \A i \in 1..Len(s) : r[i] = s[i]
         /\ \A i \in 1..Len(s) : s[i] \in Nat
         /\ \A i \in 1..Len(r) : i \notin 1..Len(s) => r[i] = t
<1> DEFINE q == [i \in 1..n |-> t]
<1>1. q \in Seq(Nat) /\ Len(q) = n /\ \A i \in 1..n : q[i] = t
  OBVIOUS
<1>2. r = s \o q
  OBVIOUS
<1> HIDE DEF q
<1>3. /\ s \o q \in Seq(Nat) /\ Len(s \o q) = Len(s) + n /\ Len(s) \in Nat
      /\ \A i \in 1..Len(s) : (s \o q)[i] = s[i] /\ s[i] \in Nat
      /\ \A i \in 1..Len(s \o q) : i \notin 1..Len(s) => (s \o q)[i] = q[i - Len(s)] /\ i - Len(s) \in 1..n
  BY <1>1
<1>. QED
  BY <1>1, <1>2, <1>3

(* What a poll at t makes of one key, with n connections. *)
ReportsAfter(R, z, n, t) == IF n > 0 /\ z = Never THEN R \cup {t} ELSE R
SeenAfter(z, n, t) ==
  IF n > 0 THEN t ELSE IF z # Never /\ z < t - SeenTTL THEN Never ELSE z

Polled(s, M, R, z, m, gap, n, t, r, N, S, y) ==
  /\ M \in Nat /\ (\A i \in 1..M : s[i] \in Nat) /\ R \in SUBSET Nat /\ z \in Nat \cup {Never}
  /\ m \in Nat /\ gap \in Nat /\ gap \in Gaps /\ n \in Nat
  /\ LastSeen(s, M, R, z, m) /\ Reported(s, M, R)
  /\ t \in Nat /\ t = m + gap
  /\ N \in Nat /\ N = M + n
  /\ \A i \in 1..M : r[i] = s[i]
  /\ \A i \in 1..N : i \notin 1..M => r[i] = t
  /\ S = ReportsAfter(R, z, n, t) /\ y = SeenAfter(z, n, t)

LEMMA PollKey ==
  ASSUME NEW s, NEW M, NEW R, NEW z, NEW m, NEW gap, NEW n, NEW t, NEW r, NEW N, NEW S, NEW y,
         Polled(s, M, R, z, m, gap, n, t, r, N, S, y)
  PROVE  /\ S \in SUBSET Nat /\ y \in Nat \cup {Never}
         /\ LastSeen(r, N, S, y, t) /\ Reported(r, N, S)
<1> USE DEF Polled
<1>1. m < t /\ SeenTTL \in Nat /\ Never \notin Nat /\ \A g \in Gaps : g \in Nat
  BY NetAssumption
<1>2. /\ \A i \in 1..M : i \in 1..N /\ r[i] = s[i] /\ s[i] \in Nat /\ s[i] <= m
      /\ \A i \in 1..N : i \notin 1..M => r[i] = t
  BY DEF LastSeen
<1>3. \A i \in 1..N : r[i] \in Nat /\ r[i] <= t
  BY <1>1, <1>2
<1>4. \A u \in S : u \in Nat /\ u <= t
  BY <1>1 DEF LastSeen, ReportsAfter
<1>5. CASE n > 0
  <2>1. M + 1 \in 1..N /\ r[M + 1] = t /\ y = t
    BY <1>2, <1>5 DEF SeenAfter
  <2>2. LastSeen(r, N, S, y, t)
    BY <1>1, <1>3, <1>4, <2>1 DEF LastSeen
  <2>3. ASSUME NEW i \in 1..M, NEW d \in Nat
        PROVE  Absent(s, M, d, s[i]) <=> Absent(r, N, d, r[i])
    <3>1. \A j \in 1..N : j \notin 1..M => r[j] \notin (s[i] - d)..(s[i] - 1)
      BY <1>1, <1>2, <2>3
    <3>2. Absent(s, M, d, s[i]) => Absent(r, N, d, s[i])
      BY <1>2, <3>1 DEF Absent
    <3>3. Absent(r, N, d, s[i]) => Absent(s, M, d, s[i])
      BY <1>2 DEF Absent
    <3>. QED
      BY <1>2, <3>2, <3>3
  <2>4. ASSUME NEW i \in 1..M
        PROVE  /\ r[i] \in S => Absent(r, N, SeenTTL, r[i])
               /\ (\A g \in Gaps : Absent(r, N, SeenTTL + g, r[i])) => r[i] \in S
    <3>1. r[i] = s[i] /\ (s[i] \in S <=> s[i] \in R)
      BY <1>1, <1>2 DEF ReportsAfter
    <3>2. \A g \in Gaps : SeenTTL + g \in Nat
      BY <1>1
    <3>. QED
      BY <1>1, <2>3, <3>1, <3>2 DEF Reported
  <2>5. ASSUME NEW i \in 1..N, i \notin 1..M
        PROVE  /\ r[i] \in S => Absent(r, N, SeenTTL, r[i])
               /\ (\A g \in Gaps : Absent(r, N, SeenTTL + g, r[i])) => r[i] \in S
    <3>1. r[i] = t
      BY <1>2, <2>5
    <3>2. t \in S <=> z = Never
      BY <1>1, <1>5 DEF LastSeen, ReportsAfter
    <3>3. ASSUME z = Never PROVE Absent(r, N, SeenTTL, t)
      <4>1. \A j \in 1..M : s[j] + SeenTTL < m
        BY <3>3 DEF LastSeen
      <4>2. \A j \in 1..N : r[j] \notin (t - SeenTTL)..(t - 1)
        BY <1>1, <1>2, <4>1
      <4>. QED
        BY <4>2 DEF Absent
    <3>4. ASSUME z # Never PROVE ~Absent(r, N, SeenTTL + gap, t)
      <4>1. PICK j \in 1..M : s[j] = z
        BY <3>4 DEF LastSeen
      <4>2. m <= s[j] + SeenTTL /\ s[j] <= m /\ s[j] \in Nat /\ j \in 1..N /\ r[j] = s[j]
        BY <1>2, <3>4, <4>1 DEF LastSeen
      <4>3. s[j] \in (t - (SeenTTL + gap))..(t - 1)
        BY <1>1, <4>2
      <4>. QED
        BY <4>2, <4>3 DEF Absent
    <3>. QED
      BY <3>1, <3>2, <3>3, <3>4
  <2>. QED
    BY <1>1, <1>2, <1>4, <2>1, <2>2, <2>4, <2>5 DEF Reported
<1>6. CASE n = 0
  <2>1. N = M /\ S = R
    BY <1>6 DEF ReportsAfter
  <2>2. y = IF z # Never /\ z < t - SeenTTL THEN Never ELSE z
    BY <1>6 DEF SeenAfter
  <2>3. LastSeen(r, N, S, y, t)
    <3>1. CASE z # Never /\ z < t - SeenTTL
      BY <1>1, <1>2, <1>3, <1>4, <2>1, <2>2, <3>1 DEF LastSeen
    <3>2. CASE ~(z # Never /\ z < t - SeenTTL)
      BY <1>1, <1>2, <1>3, <1>4, <2>1, <2>2, <3>2 DEF LastSeen
    <3>. QED
      BY <3>1, <3>2
  <2>4. \A d, u : Absent(s, M, d, u) <=> Absent(r, N, d, u)
    BY <1>2, <2>1 DEF Absent
  <2>5. Reported(r, N, S)
    BY <1>2, <2>1, <2>4 DEF Reported
  <2>. QED
    BY <1>4, <2>2, <2>3, <2>5
<1>. QED
  BY <1>5, <1>6

LEMMA PollTold ==
  ASSUME SeenInv, NEW conns \in [Key -> 0..MaxConns], NEW gap \in Gaps, Poll(conns, gap)
  PROVE  SeenInv'
<1>1. /\ gap \in Nat /\ now' = now + gap /\ now \in Nat /\ now + gap \in Nat /\ Never \notin Nat
      /\ ~(now + gap < now + gap - SeenTTL)
  BY NetAssumption DEF Poll, SeenInv, SeenTypes
<1>2. ASSUME NEW k \in Key
      PROVE  /\ sightings'[k] = sightings[k] \o [i \in 1..conns[k] |-> now + gap]
             /\ reports'[k] = ReportsAfter(reports[k], seen[k], conns[k], now + gap)
             /\ seen'[k] = SeenAfter(seen[k], conns[k], now + gap)
  <2> DEFINE t == now + gap
  <2>1. seen' = [x \in Key |-> IF Expired(Refreshed(x, conns[x], t), t) THEN Never
                              ELSE Refreshed(x, conns[x], t)]
    BY DEF Poll
  <2>2. sightings' = [x \in Key |-> sightings[x] \o [i \in 1..conns[x] |-> t]]
    BY DEF Poll
  <2>3. reports' = [x \in Key |-> IF conns[x] > 0 /\ seen[x] = Never
                                 THEN reports[x] \cup {t} ELSE reports[x]]
    BY DEF Poll
  <2>4. ~(t < t - SeenTTL)
    BY <1>1, NetAssumption
  <2> HIDE DEF t
  <2>5. seen'[k] = SeenAfter(seen[k], conns[k], t)
    BY <2>1, <2>4 DEF Expired, Refreshed, SeenAfter
  <2>6. reports'[k] = ReportsAfter(reports[k], seen[k], conns[k], t)
    BY <2>3 DEF ReportsAfter
  <2>7. sightings'[k] = sightings[k] \o [i \in 1..conns[k] |-> t]
    BY <2>2
  <2>. QED
    BY <2>5, <2>6, <2>7 DEF t
<1>3. ASSUME NEW k \in Key
      PROVE  /\ seen'[k] \in Nat \cup {Never} /\ sightings'[k] \in Seq(Nat) /\ reports'[k] \in SUBSET Nat
             /\ LastSeen(sightings[k], Len(sightings[k]), reports[k], seen[k], now)'
             /\ Reported(sightings[k], Len(sightings[k]), reports[k])'
  <2>1. PICK s, n, R, z, t : /\ s = sightings[k] /\ n = conns[k] /\ R = reports[k]
                             /\ z = seen[k] /\ t = now + gap
    OBVIOUS
  <2>2. /\ n \in Nat /\ s \in Seq(Nat) /\ R \in SUBSET Nat /\ z \in Nat \cup {Never} /\ t \in Nat
        /\ LastSeen(s, Len(s), R, z, now) /\ Reported(s, Len(s), R)
    BY <1>1, <2>1, NetAssumption DEF SeenInv, SeenTypes
  <2>3. PICK r, S, y : /\ r = s \o [i \in 1..n |-> t]
                       /\ S = ReportsAfter(R, z, n, t) /\ y = SeenAfter(z, n, t)
    OBVIOUS
  <2>4. sightings'[k] = r /\ reports'[k] = S /\ seen'[k] = y
    BY <1>2, <2>1, <2>3
  <2>5. /\ r \in Seq(Nat) /\ Len(r) \in Nat /\ Len(s) \in Nat /\ Len(r) = Len(s) + n
        /\ \A i \in 1..Len(s) : r[i] = s[i]
        /\ \A i \in 1..Len(s) : s[i] \in Nat
        /\ \A i \in 1..Len(r) : i \notin 1..Len(s) => r[i] = t
    BY <2>2, <2>3, Resighted
  <2>6. PICK m : m = now
    OBVIOUS
  <2>7. m \in Nat /\ t = m + gap /\ LastSeen(s, Len(s), R, z, m)
    BY <1>1, <2>1, <2>2, <2>6
  <2>8. /\ S \in SUBSET Nat /\ y \in Nat \cup {Never}
        /\ LastSeen(r, Len(r), S, y, t) /\ Reported(r, Len(r), S)
    <3>1. Polled(s, Len(s), R, z, m, gap, n, t, r, Len(r), S, y)
      BY <1>1, <2>2, <2>3, <2>5, <2>7 DEF Polled
    <3>. QED
      BY <3>1, PollKey
  <2>. QED
    BY <1>1, <2>1, <2>4, <2>5, <2>8
<1>4. SeenTypes'
  <2>1. /\ seen' = [k \in Key |-> seen'[k]] /\ sightings' = [k \in Key |-> sightings'[k]]
        /\ reports' = [k \in Key |-> reports'[k]]
    BY DEF Poll
  <2>. QED
    BY <1>1, <1>3, <2>1 DEF SeenTypes
<1>. QED
  BY <1>3, <1>4 DEF SeenInv

LEMMA SeenInvNext == SeenInv /\ [Next]_vars => SeenInv'
<1> SUFFICES ASSUME SeenInv, [Next]_vars PROVE SeenInv'
  OBVIOUS
<1>1. CASE UNCHANGED netVars
  BY <1>1 DEF netVars, SeenInv, SeenTypes
<1>2. CASE NetNext
  BY <1>2, PollTold DEF NetNext
<1>3. CASE NetRestart
  <2>1. /\ seen' = [k \in Key |-> Never] /\ sightings' = [k \in Key |-> <<>>]
        /\ reports' = [k \in Key |-> {}] /\ now' = now
    BY <1>3 DEF NetRestart
  <2>. QED
    BY <2>1 DEF SeenInv, SeenTypes, LastSeen, Reported
<1>4. CASE \E c \in Canary : WriteCanary(c) \/ Register(c) \/ Touch(c) \/ Read(c)
  BY <1>1, <1>4 DEF WriteCanary, Created, Register, Touch, Read
<1>5. CASE WriteCanaryFails \/ StartLoop \/ Stop \/ Change \/ TakeEvent
  BY <1>1, <1>5 DEF WriteCanaryFails, Created, StartLoop, Stop, Change, TakeEvent
<1>. QED
  BY <1>1, <1>2, <1>3, <1>4, <1>5 DEF Next, Restart, vars

(* A connection is reported as new when it has been away for more than an  *)
(* hour, and only then.                                                    *)
THEOREM NewIsTold == Spec => []NewTold
<1>1. SeenInv => NewTold
  BY DEF SeenInv, Reported, Absent, NewTold, Away
<1>2. Init => SeenInv
  <2> SUFFICES ASSUME NetInit PROVE SeenInv
    BY DEF Init
  <2>1. /\ seen = [k \in Key |-> Never] /\ sightings = [k \in Key |-> <<>>]
        /\ reports = [k \in Key |-> {}] /\ now = 0
    BY DEF NetInit
  <2>. QED
    BY <2>1 DEF SeenInv, SeenTypes, LastSeen, Reported
<1>. QED
  BY <1>1, <1>2, SeenInvNext, PTL DEF Spec

---------------------------------------------------------------------------
(* Canaries.                                                               *)

WaitIn(q, c) == Cardinality({i \in 1..Len(q) : q[i] = c})
One(e, c) == IF e = c THEN 1 ELSE 0

LEMMA WaitInNat ==
  ASSUME NEW T, NEW q \in Seq(T), NEW c
  PROVE  /\ IsFiniteSet({i \in 1..Len(q) : q[i] = c}) /\ WaitIn(q, c) \in Nat
         /\ WaitIn(q, c) > 0 <=> \E i \in 1..Len(q) : q[i] = c
<1> DEFINE S == {i \in 1..Len(q) : q[i] = c}
<1>1. IsFiniteSet(1..Len(q)) /\ S \in SUBSET (1..Len(q))
  BY FS_Interval
<1> HIDE DEF S
<1>2. IsFiniteSet(S)
  BY <1>1, FS_Subset
<1>3. Cardinality(S) \in Nat /\ (Cardinality(S) = 0 <=> S = {})
  BY <1>2, FS_CardinalityType, FS_EmptySet
<1>. QED
  BY <1>2, <1>3 DEF S, WaitIn

LEMMA WaitInEmpty == \A c : WaitIn(<<>>, c) = 0
<1> TAKE c
<1>1. {i \in 1..Len(<<>>) : <<>>[i] = c} = {}
  OBVIOUS
<1>. QED
  BY <1>1, FS_EmptySet DEF WaitIn

(* An event more, and one taken. *)
LEMMA WaitInRaised ==
  ASSUME NEW T, NEW q \in Seq(T), NEW e \in T, NEW c
  PROVE  /\ q \o <<e>> \in Seq(T)
         /\ WaitIn(q \o <<e>>, c) = WaitIn(q, c) + One(e, c)
<1> DEFINE r == q \o <<e>>
           S == {i \in 1..Len(q) : q[i] = c}
           R == {i \in 1..Len(r) : r[i] = c}
<1>1. /\ r \in Seq(T) /\ Len(q) \in Nat /\ Len(r) = Len(q) + 1 /\ r[Len(q) + 1] = e
      /\ \A i \in 1..Len(q) : r[i] = q[i]
  OBVIOUS
<1>2. R = IF e = c THEN S \cup {Len(q) + 1} ELSE S
  BY <1>1
<1>3. IsFiniteSet(S) /\ Cardinality(S) \in Nat
  BY WaitInNat DEF WaitIn
<1>6. Len(q) + 1 \notin S
  BY <1>1
<1> HIDE DEF S, R
<1>4. Cardinality(S \cup {Len(q) + 1}) = Cardinality(S) + 1
  BY <1>3, <1>6, FS_AddElement
<1>5. Cardinality(R) = Cardinality(S) + One(e, c)
  BY <1>2, <1>3, <1>4 DEF One
<1>. QED
  BY <1>1, <1>5 DEF WaitIn, S, R

LEMMA WaitInTaken ==
  ASSUME NEW T, NEW q \in Seq(T), q # <<>>, NEW c
  PROVE  /\ Tail(q) \in Seq(T) /\ Head(q) \in T
         /\ WaitIn(q, c) = WaitIn(Tail(q), c) + One(Head(q), c)
<1> DEFINE r == Tail(q)
           S == {i \in 1..Len(q) : q[i] = c}
           R == {i \in 1..Len(r) : r[i] = c}
           f == [i \in R |-> i + 1]
<1>1. /\ r \in Seq(T) /\ Len(q) \in Nat \ {0} /\ Len(r) = Len(q) - 1 /\ Head(q) = q[1]
      /\ q[1] \in T /\ \A i \in 1..Len(r) : r[i] = q[i + 1]
  OBVIOUS
<1>2. \A i \in 2..Len(q) : i - 1 \in 1..Len(r) /\ q[i] = r[i - 1]
  BY <1>1
<1>3. f \in Bijection(R, S \ {1})
  <2>1. \A i \in R : f[i] \in S \ {1}
    BY <1>1
  <2>2. \A i, j \in R : f[i] = f[j] => i = j
    BY <1>1
  <2>3. \A i \in S \ {1} : i - 1 \in R /\ f[i - 1] = i
    BY <1>1, <1>2
  <2> HIDE DEF R, S, f
  <2>. QED
    BY <2>1, <2>2, <2>3 DEF Bijection, Injection, Surjection, IsInjective, f
<1>4. IsFiniteSet(R) /\ IsFiniteSet(S) /\ Cardinality(R) \in Nat /\ Cardinality(S) \in Nat
  BY <1>1, WaitInNat DEF WaitIn
<1>5. 1 \in S <=> q[1] = c
  BY <1>1
<1> HIDE DEF S, R, f
<1>6. Cardinality(S \ {1}) = Cardinality(R)
  BY <1>3, <1>4, FS_Bijection DEF ExistsBijection
<1>7. Cardinality(S \ {1}) = IF 1 \in S THEN Cardinality(S) - 1 ELSE Cardinality(S)
  BY <1>4, FS_RemoveElement
<1>8. Cardinality(S) = Cardinality(R) + One(q[1], c)
  BY <1>4, <1>5, <1>6, <1>7 DEF One
<1>. QED
  BY <1>1, <1>8 DEF WaitIn, S, R

(* Where no canaries are wanted there are none. *)
WatchTypes ==
  /\ setup \in Setups /\ failures \in Nat
  /\ queue \in Seq(Canary \cup {"file"})
  /\ files \subseteq Canary /\ canaries \subseteq Canary /\ planting \subseteq Canary
  /\ sleepers \in Nat /\ early \subseteq Canary
  /\ touches \in [Canary -> Nat] /\ heard \in [Canary -> Nat]

NoneWanted ==
  ~setup.canary =>
    /\ sleepers = 0 /\ planting = {}
    /\ files = {} /\ canaries = {} /\ \A i \in 1..Len(queue) : queue[i] = "file"

Heard == \A c \in Canary : touches[c] = heard[c] + WaitIn(queue, c)

(* A canary is on disk when its name is registered, or its loss is still   *)
(* to be noticed, or was noticed early.                                    *)
Planted ==
  \/ phase = "off"
  \/ \A c \in planting : c \in files \/ WaitIn(queue, c) > 0 \/ c \in early

Covered ==
  \/ failures > 0 \/ ~setup.canary \/ phase = "off"
  \/ sleepers > 0 \/ planting # {}
  \/ \E c \in canaries : c \in files \/ WaitIn(queue, c) > 0 \/ c \in early

WatchInv == WatchTypes /\ NoneWanted /\ Heard /\ Planted /\ Covered

LEMMA WatchInit == Init => WatchInv
<1> SUFFICES ASSUME Init PROVE WatchInv
  OBVIOUS
<1>1. /\ setup \in Setups /\ setup.canary \in BOOLEAN /\ failures = 0
  BY RespAssumption DEF Init, RespInit
<1>2. /\ phase = "start" /\ queue = <<>> /\ files = {} /\ canaries = {} /\ planting = {}
      /\ sleepers = IF setup.canary THEN 1 ELSE 0
      /\ touches = [c \in Canary |-> 0] /\ heard = [c \in Canary |-> 0] /\ early = {}
  BY DEF Init
<1>3. queue \in Seq(Canary \cup {"file"})
  BY <1>2
<1>4. \A c \in Canary : WaitIn(queue, c) = 0
  BY <1>2, WaitInEmpty
<1>5. WatchTypes
  BY <1>1, <1>2, <1>3 DEF WatchTypes
<1>. QED
  BY <1>1, <1>2, <1>4, <1>5 DEF WatchInv, NoneWanted, Heard, Planted, Covered

(* The daemon's other parts: a failure may be more. *)
Failing == setup' = setup /\ failures' \in Nat /\ (failures' = failures \/ failures' > 0)

LEMMA RespFailing == WatchTypes /\ RespNext => Failing
<1> SUFFICES ASSUME WatchTypes, RespNext PROVE Failing
  OBVIOUS
<1>1. failures \in Nat /\ (Fault => failures' \in Nat /\ failures' > 0)
  BY DEF WatchTypes, Fault
<1>2. CASE Tick \/ \E t \in EventType : Send(t)
  BY <1>1, <1>2 DEF Tick, Send, Failing
<1>3. CASE \/ \E p \in Path, c \in Content : UserWrite(p, c)
           \/ \E h \in Content : Expire(h)
  BY <1>1, <1>3 DEF UserWrite, Expire, Failing
<1>4. ASSUME NEW g \in DeepScan,
             \/ \E p \in Path : StartDeepScan(g, p)
             \/ AskBazaar(g) \/ AskTotal(g)
      PROVE  Failing
  BY <1>1, <1>4 DEF StartDeepScan, AskBazaar, AskTotal, Failing
<1>5. ASSUME NEW g \in DeepScan, FromCache(g) \/ CacheResult(g) \/ Move(g)
      PROVE  Failing
  BY <1>1, <1>5 DEF FromCache, CacheResult, Move, Failing
<1>6. ASSUME NEW g \in DeepScan, Judge(g) \/ Match(g)
      PROVE  Failing
  BY <1>1, <1>6 DEF Judge, Match, Logged, LogFails, Failing
<1>. QED
  BY <1>2, <1>3, <1>4, <1>5, <1>6 DEF RespNext

LEMMA WatchOnly == WatchInv /\ Failing /\ UNCHANGED watchVars => WatchInv'
<1> SUFFICES ASSUME WatchInv, Failing, UNCHANGED watchVars PROVE WatchInv'
  OBVIOUS
<1>1. UNCHANGED <<setup, queue, phase, files, canaries, planting, sleepers, touches, heard, early>>
  BY DEF Failing, watchVars, canaryVars
<1>2. failures \in Nat /\ failures' \in Nat /\ (failures > 0 => failures' > 0)
  BY DEF Failing, WatchInv, WatchTypes
<1>. QED
  BY <1>1, <1>2 DEF WatchInv, WatchTypes, NoneWanted, Heard, Planted, Covered

(* Events are only added, and of canaries only where they are wanted. *)
LEMMA CreatedWatched ==
  ASSUME WatchInv, Failing, NEW c \in Canary, NEW n \in {1, 2},
         Created(c, IF n = 1 THEN <<c>> ELSE <<c, c>>),
         planting' = planting \/ planting' = planting \cup {c},
         UNCHANGED <<phase, canaries, heard, early>>
  PROVE  WatchTypes' /\ NoneWanted' /\ Heard' /\ Planted'
<1>1. /\ sleepers > 0 /\ sleepers' = sleepers - 1
      /\ files' = files \cup {c}
      /\ queue' = queue \o (IF n = 1 THEN <<c>> ELSE <<c, c>>)
      /\ touches' = [touches EXCEPT ![c] = n] /\ touches[c] = 0
  BY DEF Created, Raise
<1>2. queue \in Seq(Canary \cup {"file"}) /\ WatchTypes /\ c \in Canary \cup {"file"}
  BY DEF WatchInv, WatchTypes
<1>3. queue \o <<c>> \in Seq(Canary \cup {"file"}) /\ queue \o <<c, c>> = (queue \o <<c>>) \o <<c>>
  BY <1>2
<1>4. queue' \in Seq(Canary \cup {"file"})
  BY <1>1, <1>2, <1>3, WaitInRaised
<1>5. \A d \in Canary : /\ WaitIn(queue, d) \in Nat
                        /\ WaitIn(queue', d) = WaitIn(queue, d) + (IF d = c THEN n ELSE 0)
  <2> TAKE d \in Canary
  <2>1. WaitIn(queue \o <<c>>, d) = WaitIn(queue, d) + One(c, d)
    BY <1>2, WaitInRaised
  <2>2. WaitIn((queue \o <<c>>) \o <<c>>, d) = WaitIn(queue \o <<c>>, d) + One(c, d)
    <3>1. PICK r : r = queue \o <<c>>
      OBVIOUS
    <3>2. r \in Seq(Canary \cup {"file"})
      BY <1>3, <3>1
    <3>3. WaitIn(r \o <<c>>, d) = WaitIn(r, d) + One(c, d)
      BY <1>2, <3>2, WaitInRaised
    <3>. QED
      BY <3>1, <3>3
  <2>3. WaitIn(queue, d) \in Nat
    BY <1>2, WaitInNat
  <2>4. CASE n = 1
    BY <1>1, <2>1, <2>3, <2>4 DEF One
  <2>5. CASE n = 2
    <3>1. queue' = (queue \o <<c>>) \o <<c>>
      BY <1>1, <1>3, <2>5
    <3>. QED
      BY <2>1, <2>2, <2>3, <2>5, <3>1 DEF One
  <2>. QED
    BY <2>4, <2>5
<1>6. WatchTypes'
  BY <1>1, <1>2, <1>4 DEF WatchTypes, Failing
<1>7. NoneWanted'
  BY <1>1 DEF WatchInv, WatchTypes, NoneWanted, Failing
<1>8. Heard'
  <2> SUFFICES ASSUME NEW d \in Canary PROVE touches'[d] = heard'[d] + WaitIn(queue', d)
    BY DEF Heard
  <2>1. touches[d] = heard[d] + WaitIn(queue, d) /\ heard[d] \in Nat /\ touches[d] \in Nat
    BY <1>2 DEF WatchInv, Heard, WatchTypes
  <2>2. touches'[d] = IF d = c THEN n ELSE touches[d]
    BY <1>1, <1>2 DEF WatchTypes
  <2>3. heard' = heard /\ (d = c => touches[d] = 0)
    BY <1>1
  <2>4. PICK w, v, h, t, u : /\ w = WaitIn(queue, d) /\ v = WaitIn(queue', d) /\ h = heard[d]
                            /\ t = touches[d] /\ u = touches'[d]
    OBVIOUS
  <2>5. /\ w \in Nat /\ v = w + (IF d = c THEN n ELSE 0)
        /\ t = h + w /\ h \in Nat /\ t \in Nat
        /\ u = (IF d = c THEN n ELSE t) /\ (d = c => t = 0)
    BY <1>5, <2>1, <2>2, <2>3, <2>4
  <2>6. u = h + v
    BY ONLY <2>5, n \in {1, 2}
  <2>. QED
    BY <2>3, <2>4, <2>6
<1>9. Planted'
  <2>1. \A d \in Canary : WaitIn(queue, d) > 0 => WaitIn(queue', d) > 0
    BY <1>5
  <2>2. planting \subseteq Canary /\ Planted
    BY DEF WatchInv, WatchTypes
  <2>. QED
    BY <1>1, <2>1, <2>2 DEF Planted
<1>. QED
  BY <1>6, <1>7, <1>8, <1>9

LEMMA WriteWatched ==
  ASSUME WatchInv, NEW c \in Canary, WriteCanary(c)
  PROVE  WatchInv'
<1>1. /\ Created(c, <<c, c>>) /\ planting' = planting \cup {c}
      /\ UNCHANGED <<setup, failures, phase, canaries, heard, early>>
  BY DEF WriteCanary, respVars
<1>2. Failing
  BY <1>1 DEF Failing, WatchInv, WatchTypes
<1>3. WatchTypes' /\ NoneWanted' /\ Heard' /\ Planted'
  <2>1. PICK n \in {1, 2} : n = 2
    OBVIOUS
  <2>2. Created(c, IF n = 1 THEN <<c>> ELSE <<c, c>>)
    BY <1>1, <2>1
  <2>. QED
    BY <1>1, <1>2, <2>2, CreatedWatched
<1>4. Covered'
  BY <1>1 DEF Covered
<1>. QED
  BY <1>3, <1>4 DEF WatchInv

LEMMA WriteFailsWatched ==
  ASSUME WatchInv, WriteCanaryFails
  PROVE  WatchInv'
<1>1. /\ failures' = failures + 1
      /\ UNCHANGED <<setup, phase, canaries, planting, heard, early>>
  BY DEF WriteCanaryFails, Fault
<1>2. Failing /\ failures' > 0
  BY <1>1 DEF Failing, WatchInv, WatchTypes
<1>3. Covered'
  BY <1>2 DEF Covered
<1>4. ASSUME NEW c \in Canary, NEW n \in {1, 2}, Created(c, IF n = 1 THEN <<c>> ELSE <<c, c>>)
      PROVE  WatchInv'
  <2>1. WatchTypes' /\ NoneWanted' /\ Heard' /\ Planted'
    BY <1>1, <1>2, <1>4, CreatedWatched
  <2>. QED
    BY <1>3, <2>1 DEF WatchInv
<1>5. ASSUME NEW c \in Canary, Created(c, <<c>>) \/ Created(c, <<c, c>>) PROVE WatchInv'
  <2>1. CASE Created(c, <<c>>)
    <3>1. PICK n \in {1, 2} : n = 1
      OBVIOUS
    <3>2. Created(c, IF n = 1 THEN <<c>> ELSE <<c, c>>)
      BY <2>1, <3>1
    <3>. QED
      BY <1>4, <3>2
  <2>2. CASE Created(c, <<c, c>>)
    <3>1. PICK n \in {1, 2} : n = 2
      OBVIOUS
    <3>2. Created(c, IF n = 1 THEN <<c>> ELSE <<c, c>>)
      BY <2>2, <3>1
    <3>. QED
      BY <1>4, <3>2
  <2>. QED
    BY <1>5, <2>1, <2>2
<1>6. CASE sleepers > 0 /\ sleepers' = sleepers - 1 /\ UNCHANGED <<queue, files, touches>>
  BY <1>1, <1>2, <1>6 DEF WatchInv, WatchTypes, NoneWanted, Heard, Planted, Covered
<1>. QED
  BY <1>5, <1>6 DEF WriteCanaryFails

LEMMA RaisedWatched ==
  ASSUME WatchInv, NEW e \in Canary \cup {"file"}, queue' = queue \o <<e>>,
         e \in Canary => e \in files /\ touches' = [touches EXCEPT ![e] = @ + 1],
         e = "file" => touches' = touches,
         files' = files \/ files' = files \ {e},
         UNCHANGED <<setup, failures, phase, canaries, planting, sleepers, heard, early>>
  PROVE  WatchInv'
<1>1. /\ WatchTypes /\ queue \in Seq(Canary \cup {"file"}) /\ "file" \notin Canary
  BY SensorAssumption DEF WatchInv, WatchTypes
<1>2. queue' \in Seq(Canary \cup {"file"})
  BY <1>1, WaitInRaised
<1>3. \A d \in Canary : /\ WaitIn(queue, d) \in Nat
                        /\ WaitIn(queue', d) = WaitIn(queue, d) + One(e, d)
  <2> TAKE d \in Canary
  <2>1. WaitIn(queue, d) \in Nat
    BY <1>1, WaitInNat
  <2>2. WaitIn(queue \o <<e>>, d) = WaitIn(queue, d) + One(e, d)
    BY <1>1, WaitInRaised
  <2>. QED
    BY <2>1, <2>2
<1>4. touches' \in [Canary -> Nat]
  <2>1. CASE e \in Canary
    BY <1>1, <2>1 DEF WatchTypes
  <2>2. CASE e = "file"
    BY <1>1, <2>2 DEF WatchTypes
  <2>. QED
    BY <2>1, <2>2
<1>5. WatchTypes'
  BY <1>1, <1>2, <1>4 DEF WatchTypes
<1>6. NoneWanted'
  <2> SUFFICES ASSUME ~setup.canary PROVE NoneWanted'
    BY DEF NoneWanted
  <2>1. files = {} /\ e = "file" /\ NoneWanted
    BY <1>1 DEF WatchInv, NoneWanted
  <2>2. \A i \in 1..Len(queue') : queue'[i] = "file"
    BY <1>1, <2>1 DEF NoneWanted
  <2>. QED
    BY <2>1, <2>2 DEF NoneWanted
<1>7. Heard'
  <2> SUFFICES ASSUME NEW d \in Canary PROVE touches'[d] = heard'[d] + WaitIn(queue', d)
    BY DEF Heard
  <2>1. touches[d] = heard[d] + WaitIn(queue, d) /\ heard[d] \in Nat /\ touches[d] \in Nat
    BY <1>1 DEF WatchInv, Heard, WatchTypes
  <2>2. touches'[d] = IF d = e THEN touches[d] + 1 ELSE touches[d]
    BY <1>1 DEF WatchTypes
  <2>. QED
    BY <1>3, <2>1, <2>2 DEF One
<1>8. \A d \in Canary : (d \in files \/ WaitIn(queue, d) > 0) => (d \in files' \/ WaitIn(queue', d) > 0)
  BY <1>3 DEF One
<1>9. planting \subseteq Canary /\ canaries \subseteq Canary
  BY <1>1 DEF WatchTypes
<1>10. Planted'
  BY <1>8, <1>9 DEF WatchInv, Planted
<1>11. Covered'
  BY <1>8, <1>9 DEF WatchInv, Covered
<1>. QED
  BY <1>5, <1>6, <1>7, <1>10, <1>11 DEF WatchInv

(* A canary event taken. *)
LEMMA TriggerWatched ==
  ASSUME WatchInv, NEW c \in Canary, queue # <<>>, c = Head(queue), queue' = Tail(queue),
         setup' = setup, Triggered(c)
  PROVE  WatchInv'
<1>1. /\ canaries' = canaries \ {c}
      /\ sleepers' = IF c \in canaries THEN sleepers + 1 ELSE sleepers
      /\ heard' = [heard EXCEPT ![c] = @ + 1]
      /\ early' = IF c \in planting THEN early \cup {c} ELSE early
      /\ UNCHANGED <<phase, files, planting, touches>>
  BY DEF Triggered
<1>2. /\ WatchTypes /\ queue \in Seq(Canary \cup {"file"}) /\ "file" \notin Canary
  BY SensorAssumption DEF WatchInv, WatchTypes
<1>3. Failing
  BY <1>2 DEF Triggered, Logged, LogFails, Fault, Failing, WatchTypes
<1>4. queue' \in Seq(Canary \cup {"file"})
  BY <1>2, WaitInTaken
<1>5. \A d \in Canary : /\ WaitIn(queue', d) \in Nat
                        /\ WaitIn(queue, d) = WaitIn(queue', d) + One(c, d)
  BY <1>2, <1>4, WaitInNat, WaitInTaken
<1>6. heard' \in [Canary -> Nat] /\ sleepers' \in Nat /\ early' \subseteq Canary
  BY <1>1, <1>2 DEF WatchTypes
<1>7. WatchTypes'
  BY <1>1, <1>2, <1>3, <1>4, <1>6 DEF WatchTypes, Failing
<1>8. NoneWanted'
  <2>1. setup.canary
    <3>1. 1 \in 1..Len(queue) /\ queue[1] = c
      BY <1>2
    <3>. QED
      BY <1>2, <3>1 DEF WatchInv, NoneWanted
  <2>. QED
    BY <2>1 DEF NoneWanted
<1>9. Heard'
  <2> SUFFICES ASSUME NEW d \in Canary PROVE touches'[d] = heard'[d] + WaitIn(queue', d)
    BY DEF Heard
  <2>1. touches[d] = heard[d] + WaitIn(queue, d) /\ heard[d] \in Nat /\ touches[d] \in Nat
    BY <1>2 DEF WatchInv, Heard, WatchTypes
  <2>2. heard'[d] = IF d = c THEN heard[d] + 1 ELSE heard[d]
    BY <1>1, <1>2 DEF WatchTypes
  <2>. QED
    BY <1>1, <1>5, <2>1, <2>2 DEF One
<1>10. \A d \in Canary : d # c => WaitIn(queue', d) = WaitIn(queue, d)
  BY <1>5 DEF One
<1>11. Planted'
  BY <1>1, <1>2, <1>10 DEF WatchInv, Planted, WatchTypes
<1>12. Covered'
  <2>1. CASE c \in canaries
    BY <1>1, <1>2, <2>1 DEF Covered, WatchTypes
  <2>2. CASE c \notin canaries
    <3>1. canaries' = canaries /\ canaries \subseteq Canary /\ early \subseteq early' /\ sleepers' = sleepers
      BY <1>1, <1>2, <2>2 DEF WatchTypes
    <3>2. failures > 0 => failures' > 0
      BY <1>2, <1>3 DEF Failing
    <3>3. \A d \in canaries : WaitIn(queue', d) = WaitIn(queue, d)
      BY <1>10, <2>2, <3>1
    <3>4. Covered
      BY DEF WatchInv
    <3>. QED
      BY <1>1, <3>1, <3>2, <3>3, <3>4 DEF Covered
  <2>. QED
    BY <2>1, <2>2
<1>. QED
  BY <1>7, <1>8, <1>9, <1>11, <1>12 DEF WatchInv

LEMMA FileWatched ==
  ASSUME WatchInv, queue # <<>>, Head(queue) \notin Canary, queue' = Tail(queue), Failing,
         UNCHANGED canaryVars
  PROVE  WatchInv'
<1>1. UNCHANGED <<phase, files, canaries, planting, sleepers, touches, heard, early>> /\ setup' = setup
  BY DEF canaryVars, Failing
<1>2. /\ WatchTypes /\ queue \in Seq(Canary \cup {"file"})
  BY DEF WatchInv, WatchTypes
<1>3. queue' \in Seq(Canary \cup {"file"})
  BY <1>2, WaitInTaken
<1>4. \A d \in Canary : WaitIn(queue', d) = WaitIn(queue, d)
  <2> TAKE d \in Canary
  <2>1. WaitIn(queue', d) \in Nat
    BY <1>3, WaitInNat
  <2>. QED
    BY <1>2, <2>1, WaitInTaken DEF One
<1>5. failures' \in Nat /\ (failures > 0 => failures' > 0)
  BY <1>2 DEF Failing
<1>6. WatchTypes'
  BY <1>1, <1>2, <1>3, <1>5 DEF WatchTypes
<1>7. NoneWanted'
  <2>1. \A i \in 1..Len(queue') : i + 1 \in 1..Len(queue) /\ queue'[i] = queue[i + 1]
    BY <1>2
  <2>. QED
    BY <1>1, <2>1 DEF WatchInv, NoneWanted
<1>8. Heard' /\ Planted' /\ Covered'
  BY <1>1, <1>2, <1>4, <1>5 DEF WatchInv, WatchTypes, Heard, Planted, Covered
<1>. QED
  BY <1>6, <1>7, <1>8 DEF WatchInv

LEMMA TakeWatched == WatchInv /\ TakeEvent => WatchInv'
<1> SUFFICES ASSUME WatchInv, TakeEvent PROVE WatchInv'
  OBVIOUS
<1>1. /\ WatchTypes /\ queue \in Seq(Canary \cup {"file"}) /\ "file" \notin Canary
      /\ canaries \subseteq Canary
  BY SensorAssumption DEF WatchInv, WatchTypes
<1>2. queue # <<>> /\ queue' = Tail(queue) /\ setup' = setup
  BY DEF TakeEvent
<1>3. CASE setup.canary /\ IsCanary(Head(queue)) /\ Triggered(Head(queue))
  BY <1>1, <1>2, <1>3, TriggerWatched DEF IsCanary
<1>4. CASE /\ ~(setup.canary /\ IsCanary(Head(queue)))
           /\ IF setup.ransomware THEN Record ELSE UNCHANGED <<burstVars, failures, mailVars>>
           /\ UNCHANGED canaryVars
  <2>1. Head(queue) \notin Canary
    <3>1. CASE setup.canary
      BY <1>4, <3>1 DEF IsCanary
    <3>2. CASE ~setup.canary
      <4>1. 1 \in 1..Len(queue) /\ Head(queue) = queue[1]
        BY <1>1, <1>2
      <4>. QED
        BY <1>1, <3>2, <4>1 DEF WatchInv, NoneWanted
    <3>. QED
      BY <3>1, <3>2
  <2>2. failures' = failures \/ Fault
    BY <1>4 DEF Record, Logged, LogFails
  <2>3. Failing
    BY <1>1, <1>2, <2>2 DEF Failing, WatchTypes, Fault
  <2>. QED
    BY <1>2, <1>4, <2>1, <2>3, FileWatched
<1>. QED
  BY <1>3, <1>4 DEF TakeEvent

LEMMA RestartWatched == WatchInv /\ Restart => WatchInv'
<1> SUFFICES ASSUME WatchInv, Restart PROVE WatchInv'
  OBVIOUS
<1>1. /\ phase' = "start" /\ queue' = <<>> /\ canaries' = {} /\ planting' = {}
      /\ sleepers' = IF setup.canary THEN 1 ELSE 0
      /\ touches' = heard /\ early' = {} /\ UNCHANGED <<files, heard, setup>>
      /\ failures' = failures + 1
  BY DEF Restart, RespRestart, Fault
<1>2. WatchTypes /\ setup.canary \in BOOLEAN
  BY RespAssumption DEF WatchInv, WatchTypes
<1>3. queue' \in Seq(Canary \cup {"file"})
  BY <1>1
<1>4. \A d \in Canary : WaitIn(queue', d) = 0
  BY <1>1, WaitInEmpty
<1>5. WatchTypes'
  BY <1>1, <1>2, <1>3 DEF WatchTypes
<1>6. NoneWanted'
  BY <1>1, <1>2 DEF WatchInv, NoneWanted
<1>7. Heard' /\ Planted' /\ Covered'
  BY <1>1, <1>2, <1>4 DEF WatchTypes, Heard, Planted, Covered
<1>. QED
  BY <1>5, <1>6, <1>7 DEF WatchInv

LEMMA WatchInvNext == WatchInv /\ [Next]_vars => WatchInv'
<1> SUFFICES ASSUME WatchInv, [Next]_vars PROVE WatchInv'
  OBVIOUS
<1>0. WatchTypes /\ failures \in Nat /\ "file" \notin Canary
  BY SensorAssumption DEF WatchInv, WatchTypes
<1>1. CASE UNCHANGED <<respVars, watchVars>>
  <2>1. Failing
    BY <1>0, <1>1 DEF respVars, Failing
  <2>. QED
    BY <1>1, <2>1, WatchOnly
<1>2. CASE RespNext /\ UNCHANGED <<netVars, watchVars>>
  BY <1>0, <1>2, RespFailing, WatchOnly
<1>3. ASSUME NEW c \in Canary, WriteCanary(c) \/ Touch(c) \/ Read(c) PROVE WatchInv'
  <2>1. CASE WriteCanary(c)
    BY <2>1, WriteWatched
  <2>2. CASE Touch(c)
    <3>1. /\ c \in Canary \cup {"file"} /\ c # "file" /\ c \in files /\ queue' = queue \o <<c>>
          /\ touches' = [touches EXCEPT ![c] = @ + 1]
          /\ files' = files \/ files' = files \ {c}
          /\ UNCHANGED <<setup, failures, phase, canaries, planting, sleepers, heard, early>>
      BY <1>0, <2>2 DEF Touch, Raise
    <3>. QED
      BY <3>1, RaisedWatched
  <2>3. CASE Read(c)
    BY <1>0, <2>3 DEF Read, WatchInv, WatchTypes, NoneWanted, Heard, Planted, Covered
  <2>. QED
    BY <1>3, <2>1, <2>2, <2>3
<1>4. CASE Change
  <2>1. /\ "file" \in Canary \cup {"file"} /\ queue' = queue \o <<"file">>
        /\ touches' = touches /\ files' = files
        /\ UNCHANGED <<setup, failures, phase, canaries, planting, sleepers, heard, early>>
    BY <1>4 DEF Change, Raise, canaryVars
  <2>. QED
    BY <1>0, <2>1, RaisedWatched
<1>5. ASSUME NEW c \in Canary, Register(c) PROVE WatchInv'
  <2>1. /\ c \in planting /\ planting' = planting \ {c} /\ canaries' = canaries \cup {c}
        /\ UNCHANGED <<setup, failures, queue, phase, files, sleepers, touches, heard, early>>
    BY <1>5 DEF Register, respVars
  <2>2. WatchTypes'
    BY <1>0, <2>1 DEF WatchTypes
  <2>3. Covered'
    BY <2>1 DEF WatchInv, Planted, Covered
  <2>4. Planted' /\ NoneWanted' /\ Heard'
    BY <2>1 DEF WatchInv, Planted, NoneWanted, Heard
  <2>. QED
    BY <2>2, <2>3, <2>4 DEF WatchInv
<1>6. CASE WriteCanaryFails
  BY <1>6, WriteFailsWatched
<1>7. CASE StartLoop \/ Stop
  <2>1. /\ phase' = "off" \/ (phase = "start" /\ phase' = "on" /\ files' = files)
        /\ files' \subseteq files
        /\ UNCHANGED <<setup, failures, queue, canaries, planting, sleepers, touches, heard, early>>
    BY <1>7 DEF StartLoop, Stop, respVars
  <2>2. WatchTypes' /\ NoneWanted' /\ Heard'
    BY <1>0, <2>1 DEF WatchInv, WatchTypes, NoneWanted, Heard
  <2>3. Planted' /\ Covered'
    BY <2>1 DEF WatchInv, Planted, Covered
  <2>. QED
    BY <2>2, <2>3 DEF WatchInv
<1>. QED
  BY <1>1, <1>2, <1>3, <1>4, <1>5, <1>6, <1>7, TakeWatched, RestartWatched DEF Next, vars

(* Every event about a canary is alerted about, once. *)
THEOREM TouchIsAlerted == Spec => []TouchAlerted
<1>1. WatchInv => TouchAlerted
  BY DEF WatchInv, Heard, TouchAlerted, WaitIn, Waiting
<1>. QED
  BY <1>1, WatchInit, WatchInvNext, PTL DEF Spec

(* While nothing fails, the directory does not stay without a canary. *)
THEOREM CoverIsKept == Spec => []CoverKept
<1>1. WatchInv => CoverKept
  BY DEF WatchInv, Covered, CoverKept, WaitIn, Waiting
<1>. QED
  BY <1>1, WatchInit, WatchInvNext, PTL DEF Spec
---------------------------------------------------------------------------
(* Lists of times, and what is left of them when the old ones are pruned.  *)

LEMMA UpTo ==
  ASSUME NEW n \in Nat, NEW T, 0 \in T, \A i \in 0..(n - 1) : i \in T => i + 1 \in T
  PROVE  \A i \in 0..n : i \in T
<1> DEFINE I == {i \in 0..n : i \notin T}
<1> SUFFICES ASSUME I # {} PROVE FALSE
  OBVIOUS
<1>1. PICK j \in I : \A i \in I : ~(<<i, j>> \in OpToRel(<, Nat))
  <2>1. I \subseteq Nat
    OBVIOUS
  <2> HIDE DEF I
  <2>. QED
    BY <2>1, NatLessThanWellFounded, WFMin, Zenon
<1>2. j \in 0..n /\ j \notin T /\ \A i \in I : ~(i < j)
  <2>2. j \in 0..n /\ j \notin T /\ I \subseteq Nat
    OBVIOUS
  <2> HIDE DEF I
  <2>. QED
    BY <1>1, <2>2 DEF OpToRel
<1>3. j # 0 /\ j - 1 \in 0..(n - 1) /\ j - 1 \notin I
  BY <1>2
<1>. QED
  BY <1>2, <1>3

(* The loop that prunes, by its steps: each list is that before it, with   *)
(* the next time or without.                                               *)
Kept(s, u, n, F) ==
  F = [i \in 0..n |-> IF i = 0 THEN <<>>
                      ELSE IF s[i] > u THEN Append(F[i - 1], s[i]) ELSE F[i - 1]]

LEMMA KeptExists == ASSUME NEW s, NEW u, NEW m \in Nat PROVE \E F : Kept(s, u, m, F)
<1> DEFINE T == {n \in 0..m : \E F : Kept(s, u, n, F)}
<1>1. 0 \in T
  <2> DEFINE F == [i \in 0..0 |-> <<>>]
  <2>1. Kept(s, u, 0, F)
    BY DEF Kept
  <2>. QED
    BY <2>1
<1>2. ASSUME NEW n \in 0..(m - 1), n \in T PROVE n + 1 \in T
  <2>1. PICK F : Kept(s, u, n, F)
    BY <1>2
  <2>2. \A i \in 0..n : F[i] = IF i = 0 THEN <<>>
                              ELSE IF s[i] > u THEN Append(F[i - 1], s[i]) ELSE F[i - 1]
    BY <2>1 DEF Kept
  <2> DEFINE G == [i \in 0..(n + 1) |-> IF i <= n THEN F[i]
                     ELSE IF s[n + 1] > u THEN Append(F[n], s[n + 1]) ELSE F[n]]
  <2>3. \A i \in 0..(n + 1) : G[i] = IF i = 0 THEN <<>>
                                    ELSE IF s[i] > u THEN Append(G[i - 1], s[i]) ELSE G[i - 1]
    <3> SUFFICES ASSUME NEW i \in 0..(n + 1)
                 PROVE  G[i] = IF i = 0 THEN <<>>
                               ELSE IF s[i] > u THEN Append(G[i - 1], s[i]) ELSE G[i - 1]
      OBVIOUS
    <3>1. CASE i = n + 1
      <4>1. i # 0 /\ ~(i <= n) /\ i - 1 = n /\ n \in 0..(n + 1) /\ n <= n
        BY <3>1
      <4>. QED
        BY <3>1, <4>1
    <3>2. CASE i <= n
      <4>1. i \in 0..n /\ (i # 0 => i - 1 \in 0..(n + 1) /\ i - 1 <= n)
        BY <3>2
      <4>. QED
        BY <2>2, <3>2, <4>1
    <3>. QED
      BY <3>1, <3>2
  <2>4. G = [i \in 0..(n + 1) |-> G[i]]
    OBVIOUS
  <2> HIDE DEF G
  <2>5. Kept(s, u, n + 1, G)
    BY <2>3, <2>4 DEF Kept
  <2>. QED
    BY <2>5
<1> HIDE DEF T
<1>3. m \in T
  BY <1>1, <1>2, UpTo
<1>. QED
  BY <1>3 DEF T

LEMMA NewerByLoop ==
  ASSUME NEW s, Len(s) \in Nat, NEW u
  PROVE  \E F : /\ \A i \in 0..Len(s) : F[i] = IF i = 0 THEN <<>>
                                               ELSE IF s[i] > u THEN Append(F[i - 1], s[i]) ELSE F[i - 1]
                /\ Newer(s, u) = F[Len(s)]
<1> DEFINE G == CHOOSE F : Kept(s, u, Len(s), F)
<1>1. Kept(s, u, Len(s), G)
  BY KeptExists, Zenon
<1>2. Newer(s, u) = G[Len(s)]
  BY Zenon DEF Newer, Kept
<1> HIDE DEF G
<1>. QED
  BY <1>1, <1>2 DEF Kept

(* b holds the last of the times s[L + 1] to s[M], and all of those after u. *)
Suffix(s, M, L, b, u) ==
  /\ b \in Seq(Nat) /\ Len(b) \in 0..(M - L)
  /\ \A j \in 1..Len(b) : b[j] = s[M - Len(b) + j]
  /\ Len(b) < M - L => s[M - Len(b)] <= u

LEMMA SuffixGrows ==
  ASSUME NEW s, NEW M \in Nat, NEW L \in 0..M, NEW b, NEW u, Suffix(s, M, L, b, u),
         NEW t \in Nat, s[M + 1] = t
  PROVE  /\ Suffix(s, M + 1, L, Append(b, t), u)
         /\ Len(Append(b, t)) = Len(b) + 1 /\ Append(b, t)[Len(b) + 1] = t
         /\ \A j \in 1..Len(b) : Append(b, t)[j] = b[j]
<1>1. PICK g : g = Append(b, t)
  OBVIOUS
<1>2. /\ b \in Seq(Nat) /\ Len(b) \in 0..(M - L)
      /\ \A j \in 1..Len(b) : b[j] = s[M - Len(b) + j]
      /\ Len(b) < M - L => s[M - Len(b)] <= u
  BY DEF Suffix
<1>3. /\ g \in Seq(Nat) /\ Len(g) = Len(b) + 1 /\ g[Len(b) + 1] = t
      /\ \A j \in 1..Len(b) : g[j] = b[j]
  BY <1>1, <1>2
<1>4. ASSUME NEW j \in 1..Len(g) PROVE g[j] = s[(M + 1) - Len(g) + j]
  <2>1. CASE j = Len(b) + 1
    <3>1. (M + 1) - Len(g) + j = M + 1
      BY <1>2, <1>3, <2>1
    <3>. QED
      BY <1>3, <2>1, <3>1
  <2>2. CASE j \in 1..Len(b)
    <3>1. (M + 1) - Len(g) + j = M - Len(b) + j
      BY <1>2, <1>3, <2>2
    <3>. QED
      BY <1>2, <1>3, <2>2, <3>1
  <2>. QED
    BY <1>2, <1>3, <2>1, <2>2
<1>5. /\ Len(g) \in 0..((M + 1) - L) /\ (M + 1) - Len(g) = M - Len(b)
      /\ Len(g) < (M + 1) - L => Len(b) < M - L
  BY <1>2, <1>3
<1>6. Suffix(s, M + 1, L, g, u)
  BY <1>2, <1>3, <1>4, <1>5 DEF Suffix
<1>. QED
  BY <1>1, <1>3, <1>6

(* Of an ascending list the last times are kept, and all of those after u. *)
LEMMA NewerIs ==
  ASSUME NEW s \in Seq(Nat), \A i \in 1..Len(s) : \A j \in 1..i : s[j] <= s[i], NEW u \in Int,
         NEW r, r = Newer(s, u)
  PROVE  Suffix(s, Len(s), 0, r, u) /\ \A j \in 1..Len(r) : r[j] > u
<1>1. Len(s) \in Nat /\ \A i \in 1..Len(s) : s[i] \in Nat
  OBVIOUS
<1>2. PICK F : /\ \A i \in 0..Len(s) : F[i] = IF i = 0 THEN <<>>
                                            ELSE IF s[i] > u THEN Append(F[i - 1], s[i]) ELSE F[i - 1]
               /\ r = F[Len(s)]
  BY <1>1, NewerByLoop
<1> DEFINE T == {i \in 0..Len(s) : Suffix(s, i, 0, F[i], u) /\ \A j \in 1..Len(F[i]) : F[i][j] > u}
<1>3. 0 \in T
  <2>1. F[0] = <<>>
    BY <1>1, <1>2
  <2>2. Suffix(s, 0, 0, <<>>, u) /\ Len(<<>>) = 0
    BY DEF Suffix
  <2>. QED
    BY <1>1, <2>1, <2>2
<1>4. ASSUME NEW i \in 0..(Len(s) - 1), i \in T PROVE i + 1 \in T
  <2>1. PICK f : f = F[i]
    OBVIOUS
  <2>2. Suffix(s, i, 0, f, u) /\ \A j \in 1..Len(f) : f[j] > u
    BY <1>4, <2>1
  <2>3. /\ i + 1 \in 0..Len(s) /\ i + 1 \in 1..Len(s) /\ i \in Nat /\ 0 \in 0..i
        /\ i + 1 # 0 /\ (i + 1) - 1 = i /\ s[i + 1] \in Nat
    BY <1>1
  <2>4. F[i + 1] = IF s[i + 1] > u THEN Append(f, s[i + 1]) ELSE f
    BY <1>2, <2>1, <2>3
  <2>5. f \in Seq(Nat) /\ Len(f) \in 0..i
    BY <2>2, <2>3 DEF Suffix
  <2>6. CASE s[i + 1] > u
    <3>1. PICK g : g = Append(f, s[i + 1])
      OBVIOUS
    <3>2. /\ Suffix(s, i + 1, 0, g, u) /\ Len(g) = Len(f) + 1 /\ g[Len(f) + 1] = s[i + 1]
          /\ \A j \in 1..Len(f) : g[j] = f[j]
      BY <2>2, <2>3, <3>1, SuffixGrows
    <3>3. ASSUME NEW j \in 1..Len(g) PROVE g[j] > u
      <4>1. j = Len(f) + 1 \/ j \in 1..Len(f)
        BY <2>5, <3>2
      <4>2. j = Len(f) + 1 => g[j] = s[i + 1]
        BY <3>2
      <4>3. j \in 1..Len(f) => g[j] = f[j] /\ f[j] > u
        BY <2>2, <3>2
      <4>. QED
        BY <2>6, <4>1, <4>2, <4>3
    <3>4. F[i + 1] = g
      BY <2>4, <2>6, <3>1
    <3>. QED
      BY <2>3, <3>2, <3>3, <3>4
  <2>7. CASE ~(s[i + 1] > u)
    <3>1. F[i + 1] = f /\ s[i + 1] <= u
      BY <2>3, <2>4, <2>7
    <3>2. Len(f) = 0
      <4> SUFFICES ASSUME Len(f) # 0 PROVE FALSE
        OBVIOUS
      <4>1. Len(f) \in 1..Len(f) /\ i - Len(f) + Len(f) = i /\ i \in 1..(i + 1)
        BY <2>3, <2>5
      <4>2. f[Len(f)] > u /\ f[Len(f)] = s[i]
        BY <2>2, <4>1 DEF Suffix
      <4>3. s[i] > u /\ s[i] <= s[i + 1] /\ s[i] \in Nat
        BY <1>1, <2>3, <4>1, <4>2
      <4>. QED
        BY <2>3, <3>1, <4>3
    <3>3. Suffix(s, i + 1, 0, f, u)
      BY <2>3, <2>5, <3>1, <3>2 DEF Suffix
    <3>. QED
      BY <2>2, <2>3, <3>1, <3>3
  <2>. QED
    BY <2>6, <2>7
<1> HIDE DEF T
<1>5. Len(s) \in T
  <2>1. \A i \in 0..Len(s) : i \in T
    BY <1>1, <1>3, <1>4, UpTo
  <2>. QED
    BY <1>1, <2>1
<1>. QED
  BY <1>2, <1>5 DEF T

Ascending(s, M) == \A i \in 1..M : s[i] \in Nat /\ \A j \in 1..i : s[j] <= s[i]

(* What is pruned of the end of an ascending list is the end of it.        *)
LEMMA SuffixPruned ==
  ASSUME NEW s, NEW M \in Nat, Ascending(s, M), NEW L \in 0..M, NEW b, NEW u \in Int,
         Suffix(s, M, L, b, u), NEW v \in Int, u <= v, NEW r, r = Newer(b, v)
  PROVE  /\ Suffix(s, M, L, r, v) /\ Len(r) <= Len(b)
         /\ \A j \in 1..Len(r) : r[j] > v
<1>1. /\ b \in Seq(Nat) /\ Len(b) \in 0..(M - L) /\ Len(b) \in Nat
      /\ \A j \in 1..Len(b) : M - Len(b) + j \in 1..M /\ b[j] = s[M - Len(b) + j]
      /\ Len(b) < M - L => s[M - Len(b)] <= u
  BY DEF Suffix
<1>2. ASSUME NEW i \in 1..Len(b), NEW j \in 1..i PROVE b[j] <= b[i]
  <2>1. j \in 1..Len(b) /\ M - Len(b) + j \in 1..(M - Len(b) + i)
    BY <1>1
  <2>. QED
    BY <1>1, <2>1 DEF Ascending
<1>3. Suffix(b, Len(b), 0, r, v) /\ \A j \in 1..Len(r) : r[j] > v
  BY <1>1, <1>2, NewerIs
<1>4. /\ r \in Seq(Nat) /\ Len(r) \in 0..Len(b)
      /\ \A j \in 1..Len(r) : r[j] = b[Len(b) - Len(r) + j]
      /\ Len(r) < Len(b) => b[Len(b) - Len(r)] <= v
  BY <1>1, <1>3 DEF Suffix
<1>5. ASSUME NEW j \in 1..Len(r) PROVE r[j] = s[M - Len(r) + j]
  <2>1. /\ Len(b) - Len(r) + j \in 1..Len(b)
        /\ M - Len(b) + (Len(b) - Len(r) + j) = M - Len(r) + j
    BY <1>1, <1>4
  <2>. QED
    BY <1>1, <1>4, <2>1
<1>6. ASSUME Len(r) < M - L PROVE s[M - Len(r)] <= v
  <2>1. CASE Len(r) = Len(b)
    <3>1. M - Len(r) \in 1..M /\ s[M - Len(r)] <= u
      BY <1>1, <1>6, <2>1
    <3>2. s[M - Len(r)] \in Nat
      BY <3>1 DEF Ascending
    <3>. QED
      BY <3>1, <3>2
  <2>2. CASE Len(r) < Len(b)
    <3>1. Len(b) - Len(r) \in 1..Len(b) /\ M - Len(b) + (Len(b) - Len(r)) = M - Len(r)
      BY <1>1, <1>4, <2>2
    <3>. QED
      BY <1>1, <1>4, <2>2, <3>1
  <2>. QED
    BY <1>1, <1>4, <2>1, <2>2
<1>7. Len(r) \in 0..(M - L) /\ Len(r) <= Len(b)
  BY <1>1, <1>4
<1>. QED
  BY <1>3, <1>4, <1>5, <1>6, <1>7 DEF Suffix

(* It has n times when there are so many after u.                          *)
LEMMA SuffixFull ==
  ASSUME NEW s, NEW M \in Nat, Ascending(s, M), NEW L \in 0..M, NEW b, NEW u \in Int,
         Suffix(s, M, L, b, u), \A j \in 1..Len(b) : b[j] > u, NEW n \in Nat \ {0}
  PROVE  Len(b) >= n <=> (M - L >= n /\ s[M - n + 1] > u)
<1>1. /\ b \in Seq(Nat) /\ Len(b) \in 0..(M - L) /\ Len(b) \in Nat
      /\ \A j \in 1..Len(b) : b[j] = s[M - Len(b) + j]
      /\ Len(b) < M - L => s[M - Len(b)] <= u
  BY DEF Suffix
<1>2. ASSUME Len(b) >= n PROVE M - L >= n /\ s[M - n + 1] > u
  <2>1. Len(b) - n + 1 \in 1..Len(b) /\ M - Len(b) + (Len(b) - n + 1) = M - n + 1
    BY <1>1, <1>2
  <2>2. b[Len(b) - n + 1] = s[M - n + 1] /\ b[Len(b) - n + 1] > u
    BY <1>1, <2>1
  <2>. QED
    BY <1>1, <1>2, <2>2
<1>3. ASSUME Len(b) < n, M - L >= n PROVE ~(s[M - n + 1] > u)
  <2>1. /\ Len(b) < M - L /\ M - Len(b) \in 1..M /\ M - n + 1 \in 1..(M - Len(b))
        /\ M - n + 1 \in 1..M
    BY <1>1, <1>3
  <2>2. /\ s[M - n + 1] <= s[M - Len(b)] /\ s[M - Len(b)] <= u
        /\ s[M - n + 1] \in Nat /\ s[M - Len(b)] \in Nat
    BY <1>1, <2>1 DEF Ascending
  <2>. QED
    BY <2>2
<1>. QED
  BY <1>1, <1>2, <1>3

(* A later time is added at the end. *)
LEMMA AscendingGrows ==
  ASSUME NEW s, NEW M \in Nat, Ascending(s, M), NEW r, \A i \in 1..M : r[i] = s[i],
         NEW t \in Nat, r[M + 1] = t, \A i \in 1..M : s[i] <= t
  PROVE  Ascending(r, M + 1) /\ \A i \in 1..(M + 1) : r[i] <= t
<1>1. ASSUME NEW i \in 1..(M + 1)
      PROVE  r[i] \in Nat /\ r[i] <= t /\ \A j \in 1..i : r[j] <= r[i]
  <2>1. \A j \in 1..M : r[j] = s[j] /\ s[j] \in Nat /\ s[j] <= t
    BY DEF Ascending
  <2>2. CASE i = M + 1
    <3>1. \A j \in 1..i : j \in 1..M \/ j = M + 1
      BY <2>2
    <3>. QED
      BY <2>1, <2>2, <3>1
  <2>3. CASE i \in 1..M
    <3>1. \A j \in 1..i : j \in 1..M
      BY <2>3
    <3>. QED
      BY <2>1, <2>3, <3>1 DEF Ascending
  <2>. QED
    BY <2>2, <2>3
<1>. QED
  BY <1>1 DEF Ascending

LEMMA SuffixSame ==
  ASSUME NEW s, NEW M \in Nat, NEW L \in 0..M, NEW b, NEW u \in Int, NEW v \in Int, u <= v,
         Ascending(s, M), Suffix(s, M, L, b, u), NEW r, \A i \in 1..M : r[i] = s[i]
  PROVE  Suffix(r, M, L, b, v)
<1>1. /\ b \in Seq(Nat) /\ Len(b) \in 0..(M - L) /\ Len(b) \in Nat
      /\ \A j \in 1..Len(b) : b[j] = s[M - Len(b) + j]
      /\ Len(b) < M - L => s[M - Len(b)] <= u
  BY DEF Suffix
<1>2. \A j \in 1..Len(b) : M - Len(b) + j \in 1..M
  BY <1>1
<1>3. Len(b) < M - L => M - Len(b) \in 1..M /\ s[M - Len(b)] \in Nat
  BY <1>1 DEF Ascending
<1>. QED
  BY <1>1, <1>2, <1>3 DEF Suffix

---------------------------------------------------------------------------
(* Bursts of changes.                                                      *)

(* dirEvents has the end of the history, and alerted its last alert.       *)
BurstTypes ==
  /\ clock \in Nat /\ alerted \in Nat \cup {None}
  /\ recent \in Seq(Nat) /\ changes \in Seq(Nat) /\ bursts \in Seq(Nat)

LastBurst ==
  IF alerted = None THEN bursts = <<>>
  ELSE Len(bursts) \in Nat \ {0} /\ bursts[Len(bursts)] = alerted /\ alerted <= clock

BurstAt(s, i) == i >= Threshold /\ s[i - Threshold + 1] > s[i] - Window

BurstsTold(s, M, a, N) ==
  /\ \A i \in 1..M : BurstAt(s, i) => \E j \in 1..N : a[j] \in (s[i] - Window + 1)..s[i]
  /\ \A j \in 1..N : \E i \in 1..M : BurstAt(s, i) /\ s[i] = a[j]
  /\ \A j \in 2..N : a[j] - a[j - 1] >= Window

BurstInv ==
  /\ BurstTypes /\ LastBurst
  /\ Ascending(changes, Len(changes)) /\ \A i \in 1..Len(changes) : changes[i] <= clock
  /\ Suffix(changes, Len(changes), 0, recent, clock - Window)
  /\ BurstsTold(changes, Len(changes), bursts, Len(bursts))

LEMMA BurstInit == Init => BurstInv
<1> SUFFICES ASSUME Init PROVE BurstInv
  OBVIOUS
<1>1. /\ clock = 0 /\ recent = <<>> /\ alerted = None /\ changes = <<>> /\ bursts = <<>>
      /\ <<>> \in Seq(Nat) /\ Len(<<>>) = 0
  BY DEF Init, RespInit
<1>2. Window \in Nat /\ clock - Window \in Int
  BY <1>1, SensorAssumption
<1>3. Suffix(changes, Len(changes), 0, recent, clock - Window)
  BY <1>1, <1>2 DEF Suffix
<1>. QED
  BY <1>1, <1>3 DEF BurstInv, BurstTypes, LastBurst, Ascending, BurstsTold

(* A change more makes a burst or none, and the others stay what they are. *)
LEMMA BurstStays ==
  ASSUME NEW s, NEW M \in Nat, NEW r, \A i \in 1..M : r[i] = s[i]
  PROVE  \A i \in 1..M : BurstAt(r, i) <=> BurstAt(s, i)
<1> TAKE i \in 1..M
<1>1. i >= Threshold => i - Threshold + 1 \in 1..M
  BY SensorAssumption
<1>. QED
  BY <1>1 DEF BurstAt

LEMMA ChangeQuiet ==
  ASSUME NEW s, NEW M \in Nat, NEW r, \A i \in 1..M : r[i] = s[i], NEW a, NEW N \in Nat,
         BurstsTold(s, M, a, N),
         BurstAt(r, M + 1) => \E j \in 1..N : a[j] \in (r[M + 1] - Window + 1)..r[M + 1]
  PROVE  BurstsTold(r, M + 1, a, N)
<1>1. \A i \in 1..M : i \in 1..(M + 1) /\ (BurstAt(r, i) <=> BurstAt(s, i)) /\ r[i] = s[i]
  BY BurstStays
<1>2. \A i \in 1..(M + 1) : i = M + 1 \/ i \in 1..M
  OBVIOUS
<1>. QED
  BY <1>1, <1>2 DEF BurstsTold

LEMMA ChangeTold ==
  ASSUME NEW s, NEW M \in Nat, NEW r, \A i \in 1..M : r[i] = s[i], NEW a, NEW N \in Nat,
         BurstsTold(s, M, a, N), BurstAt(r, M + 1), NEW t \in Nat, r[M + 1] = t,
         NEW e, \A j \in 1..N : e[j] = a[j], e[N + 1] = t,
         N # 0 => t - a[N] >= Window
  PROVE  BurstsTold(r, M + 1, e, N + 1)
<1>1. \A i \in 1..M : i \in 1..(M + 1) /\ (BurstAt(r, i) <=> BurstAt(s, i)) /\ r[i] = s[i]
  BY BurstStays
<1>2. /\ \A i \in 1..(M + 1) : i = M + 1 \/ i \in 1..M
      /\ \A j \in 1..(N + 1) : j = N + 1 \/ j \in 1..N
      /\ \A j \in 1..N : j \in 1..(N + 1)
      /\ M + 1 \in 1..(M + 1) /\ N + 1 \in 1..(N + 1)
  OBVIOUS
<1>3. \A i \in 1..(M + 1) : BurstAt(r, i) =>
        \E j \in 1..(N + 1) : e[j] \in (r[i] - Window + 1)..r[i]
  <2>1. e[N + 1] \in (r[M + 1] - Window + 1)..r[M + 1]
    BY SensorAssumption
  <2>2. ASSUME NEW i \in 1..M, BurstAt(r, i)
        PROVE  \E j \in 1..(N + 1) : e[j] \in (r[i] - Window + 1)..r[i]
    BY <1>1, <1>2, <2>2 DEF BurstsTold
  <2>. QED
    BY <1>2, <2>1, <2>2
<1>4. \A j \in 1..(N + 1) : \E i \in 1..(M + 1) : BurstAt(r, i) /\ r[i] = e[j]
  BY <1>1, <1>2 DEF BurstsTold
<1>5. \A j \in 2..(N + 1) : e[j] - e[j - 1] >= Window
  <2> TAKE j \in 2..(N + 1)
  <2>1. CASE j = N + 1
    <3>1. N # 0 /\ j - 1 = N /\ N \in 1..N
      BY <2>1
    <3>. QED
      BY <2>1, <3>1
  <2>2. CASE j # N + 1
    <3>1. j \in 2..N /\ j \in 1..N /\ j - 1 \in 1..N
      BY <2>2
    <3>. QED
      BY <3>1 DEF BurstsTold
  <2>. QED
    BY <2>1, <2>2
<1>. QED
  BY <1>3, <1>4, <1>5 DEF BurstsTold

LEMMA RecordTold == ASSUME BurstInv, Record, clock' = clock PROVE BurstInv'
<1>1. PICK s, M, b, t, a, N : /\ s = changes /\ M = Len(changes) /\ b = recent /\ t = clock
                              /\ a = bursts /\ N = Len(bursts)
  OBVIOUS
<1>2. /\ s \in Seq(Nat) /\ M \in Nat /\ M = Len(s) /\ t \in Nat /\ a \in Seq(Nat) /\ N \in Nat
      /\ Ascending(s, M) /\ \A i \in 1..M : s[i] <= t
      /\ Suffix(s, M, 0, b, t - Window) /\ BurstsTold(s, M, a, N)
      /\ Window \in Nat \ {0} /\ Threshold \in Nat \ {0} /\ t - Window \in Int
      /\ N = Len(a) /\ 0 \in 0..M /\ 0 \in 0..(M + 1)
  BY <1>1, SensorAssumption DEF BurstInv, BurstTypes
<1>3. PICK p, f, r, e : /\ p = Newer(b, t - Window) /\ f = Append(p, t)
                        /\ r = Append(s, t) /\ e = Append(a, t)
  OBVIOUS
<1>4. Suffix(s, M, 0, p, t - Window) /\ \A j \in 1..Len(p) : p[j] > t - Window
  BY <1>2, <1>3, SuffixPruned
<1>5. /\ r \in Seq(Nat) /\ Len(r) = M + 1 /\ r[M + 1] = t /\ \A i \in 1..M : r[i] = s[i]
      /\ e \in Seq(Nat) /\ Len(e) = N + 1 /\ e[N + 1] = t /\ \A j \in 1..N : e[j] = a[j]
  BY <1>2, <1>3
<1>6. Ascending(r, M + 1) /\ \A i \in 1..(M + 1) : r[i] <= t
  BY <1>2, <1>5, AscendingGrows
<1>7. Suffix(r, M, 0, p, t - Window)
  <2>1. t - Window <= t - Window
    BY <1>2
  <2>. QED
    BY <1>2, <1>4, <1>5, <2>1, SuffixSame
<1>8. /\ Suffix(r, M + 1, 0, f, t - Window)
      /\ Len(f) = Len(p) + 1 /\ f[Len(p) + 1] = t /\ \A j \in 1..Len(p) : f[j] = p[j]
  <2>1. f = Append(p, t) /\ r[M + 1] = t /\ t \in Nat /\ M \in Nat /\ 0 \in 0..M
    BY <1>2, <1>3, <1>5
  <2>. QED
    BY <1>7, <2>1, SuffixGrows
<1>9. Len(p) \in Nat /\ f \in Seq(Nat)
  BY <1>2, <1>4, <1>8 DEF Suffix
<1>10. \A j \in 1..Len(f) : f[j] > t - Window
  <2> TAKE j \in 1..Len(f)
  <2>1. j \in 1..Len(p) \/ j = Len(p) + 1
    BY <1>8, <1>9
  <2>2. t > t - Window
    BY <1>2
  <2>. QED
    BY <1>4, <1>8, <2>1, <2>2
<1>11. Len(f) >= Threshold <=> BurstAt(r, M + 1)
  <2>1. Len(f) >= Threshold <=> (M + 1) - 0 >= Threshold /\ r[(M + 1) - Threshold + 1] > t - Window
    BY <1>2, <1>6, <1>8, <1>10, SuffixFull
  <2>. QED
    BY <1>2, <1>5, <2>1 DEF BurstAt
<1>12. /\ recent' = f /\ changes' = r
       /\ \/ /\ Len(f) < Threshold \/ (alerted # None /\ t - alerted < Window)
             /\ UNCHANGED <<alerted, bursts>>
          \/ /\ Len(f) >= Threshold /\ ~(alerted # None /\ t - alerted < Window)
             /\ alerted' = t /\ bursts' = e
  BY <1>1, <1>3 DEF Record
<1>13. Ascending(changes, Len(changes))' /\ \A i \in 1..Len(changes') : changes'[i] <= clock'
  BY <1>1, <1>5, <1>6, <1>12 DEF Ascending
<1>14. Suffix(changes, Len(changes), 0, recent, clock - Window)'
  BY <1>1, <1>5, <1>8, <1>12 DEF Suffix
<1>15. IF alerted = None THEN N = 0
       ELSE alerted \in Nat /\ N \in 1..N /\ a[N] = alerted /\ alerted <= t
  BY <1>1, <1>2 DEF BurstInv, BurstTypes, LastBurst
<1>16. CASE /\ Len(f) < Threshold \/ (alerted # None /\ t - alerted < Window)
            /\ UNCHANGED <<alerted, bursts>>
  <2>1. BurstAt(r, M + 1) => \E j \in 1..N : a[j] \in (r[M + 1] - Window + 1)..r[M + 1]
    <3> SUFFICES ASSUME BurstAt(r, M + 1)
                 PROVE  \E j \in 1..N : a[j] \in (r[M + 1] - Window + 1)..r[M + 1]
      OBVIOUS
    <3>1. alerted # None /\ t - alerted < Window
      BY <1>8, <1>9, <1>11, <1>16, <1>2
    <3>2. a[N] \in (t - Window + 1)..t /\ N \in 1..N
      BY <1>2, <1>15, <3>1
    <3>. QED
      BY <1>5, <3>2
  <2>2. BurstsTold(r, M + 1, a, N)
    BY <1>2, <1>5, <2>1, ChangeQuiet
  <2>3. BurstsTold(changes, Len(changes), bursts, Len(bursts))'
    BY <1>1, <1>5, <1>12, <1>16, <2>2 DEF BurstsTold, BurstAt
  <2>4. BurstTypes' /\ LastBurst'
    BY <1>1, <1>5, <1>9, <1>12, <1>16 DEF BurstInv, BurstTypes, LastBurst
  <2>. QED
    BY <1>13, <1>14, <2>3, <2>4 DEF BurstInv
<1>17. CASE /\ Len(f) >= Threshold /\ ~(alerted # None /\ t - alerted < Window)
            /\ alerted' = t /\ bursts' = e
  <2>1. N # 0 => t - a[N] >= Window
    BY <1>2, <1>15, <1>17
  <2>2. BurstsTold(r, M + 1, e, N + 1)
    <3>1. /\ M \in Nat /\ N \in Nat /\ t \in Nat /\ BurstsTold(s, M, a, N) /\ BurstAt(r, M + 1)
          /\ r[M + 1] = t /\ e[N + 1] = t
      BY <1>2, <1>5, <1>11, <1>17
    <3>2. (\A i \in 1..M : r[i] = s[i]) /\ \A j \in 1..N : e[j] = a[j]
      BY <1>5
    <3>. QED
      BY <2>1, <3>1, <3>2, ChangeTold
  <2>3. BurstsTold(changes, Len(changes), bursts, Len(bursts))'
    BY <1>1, <1>5, <1>12, <1>17, <2>2 DEF BurstsTold, BurstAt
  <2>4. BurstTypes'
    BY <1>1, <1>2, <1>5, <1>9, <1>12, <1>17 DEF BurstTypes
  <2>5. LastBurst'
    <3>1. t # None /\ N + 1 \in Nat \ {0} /\ t <= t
      BY <1>2, RespAssumption
    <3>. QED
      BY <1>1, <1>5, <1>17, <3>1 DEF LastBurst
  <2>. QED
    BY <1>13, <1>14, <2>3, <2>4, <2>5 DEF BurstInv
<1>. QED
  BY <1>12, <1>16, <1>17

LEMMA BurstInvNext == BurstInv /\ [Next]_vars => BurstInv'
<1> SUFFICES ASSUME BurstInv, [Next]_vars PROVE BurstInv'
  OBVIOUS
<1>1. ASSUME UNCHANGED burstVars, clock' \in Nat, clock' >= clock PROVE BurstInv'
  <2>1. /\ UNCHANGED <<recent, alerted, changes, bursts>> /\ clock \in Nat
        /\ Ascending(changes, Len(changes)) /\ \A i \in 1..Len(changes) : changes[i] <= clock
        /\ Suffix(changes, Len(changes), 0, recent, clock - Window)
        /\ Len(changes) \in Nat /\ Window \in Nat
    BY <1>1, SensorAssumption DEF burstVars, BurstInv, BurstTypes
  <2>2. Suffix(changes, Len(changes), 0, recent, clock' - Window)
    <3>1. PICK x, y : x = clock /\ y = clock'
      OBVIOUS
    <3>2. x \in Nat /\ y \in Nat /\ x <= y /\ Window \in Nat
      BY <1>1, <2>1, <3>1
    <3>3. x - Window \in Int /\ y - Window \in Int /\ x - Window <= y - Window /\ 0 \in 0..Len(changes)
      BY <2>1, <3>2
    <3>. QED
      BY <2>1, <3>1, <3>3, SuffixSame
  <2>3. Suffix(changes, Len(changes), 0, recent, clock - Window)'
    BY <2>1, <2>2 DEF Suffix
  <2>4. \A i \in 1..Len(changes') : changes'[i] <= clock'
    BY <1>1, <2>1 DEF Ascending
  <2>5. /\ BurstsTold(changes, Len(changes), bursts, Len(bursts))'
        /\ Ascending(changes, Len(changes))'
    BY <2>1 DEF BurstInv, BurstsTold, BurstAt, Ascending
  <2>6. BurstTypes' /\ LastBurst'
    BY <1>1, <2>1 DEF BurstInv, BurstTypes, LastBurst
  <2>. QED
    BY <2>3, <2>4, <2>5, <2>6 DEF BurstInv
<1>2. clock \in Nat /\ clock + 1 \in Nat /\ clock + 1 >= clock /\ clock >= clock
  BY DEF BurstInv, BurstTypes
<1>3. RespNext => clock' \in {clock, clock + 1}
  BY DEF RespNext, Tick, Send, UserWrite, Expire, StartDeepScan, FromCache, AskBazaar, AskTotal,
         CacheResult, Judge, Move, Match
<1>4. CASE Restart
  <2>1. /\ clock' = clock /\ recent' = <<>> /\ alerted' = None /\ changes' = <<>> /\ bursts' = <<>>
        /\ <<>> \in Seq(Nat) /\ Len(<<>>) = 0 /\ clock - Window \in Int
    BY <1>2, <1>4, SensorAssumption DEF Restart, RespRestart
  <2>2. Suffix(changes, Len(changes), 0, recent, clock - Window)'
    BY <2>1 DEF Suffix
  <2>. QED
    BY <1>2, <2>1, <2>2 DEF BurstInv, BurstTypes, LastBurst, Ascending, BurstsTold
<1>5. CASE TakeEvent
  BY <1>1, <1>2, <1>5, RecordTold DEF TakeEvent
<1>6. CASE RespNext /\ UNCHANGED watchVars
  BY <1>1, <1>2, <1>3, <1>6 DEF watchVars
<1>7. CASE UNCHANGED <<clock, burstVars>>
  BY <1>1, <1>2, <1>7
<1>8. CASE \E c \in Canary : WriteCanary(c) \/ Register(c) \/ Touch(c) \/ Read(c)
  BY <1>7, <1>8 DEF WriteCanary, Created, Register, Touch, Read, respVars
<1>9. CASE WriteCanaryFails \/ StartLoop \/ Stop \/ Change
  BY <1>7, <1>9 DEF WriteCanaryFails, Created, StartLoop, Stop, Change, respVars
<1>10. CASE UNCHANGED <<respVars, watchVars>>
  BY <1>7, <1>10 DEF respVars, watchVars
<1>. QED
  BY <1>4, <1>5, <1>6, <1>8, <1>9, <1>10 DEF Next, vars

(* A threshold of changes within a window has an alert within that window, *)
(* and every alert has them: the list that is pruned forgets nothing that  *)
(* the whole history would show.                                           *)
THEOREM BurstIsAlerted == Spec => []BurstAlerted
<1>1. BurstInv => BurstAlerted
  BY DEF BurstInv, BurstsTold, BurstAt, BurstAlerted
<1>. QED
  BY <1>1, BurstInit, BurstInvNext, PTL DEF Spec

---------------------------------------------------------------------------
(* Beacons.                                                                *)

(* For one key with the first M of the sightings s, the list b and the     *)
(* alarms a at time t: the list has the sightings since the last alarm,    *)
(* but for some that are a minute old, and too few of them for an alarm.   *)
LastOf(a) == IF a = <<>> THEN 0 ELSE a[Len(a)]

Alarmed(s, M, a) ==
  /\ \A i \in 1..Len(a) :
       /\ a[i] - BeaconThreshold + 1 > (IF i = 1 THEN 0 ELSE a[i - 1])
       /\ s[a[i]] - s[a[i] - BeaconThreshold + 1] < Minute
  /\ \A i \in (LastOf(a) + BeaconThreshold)..M : s[i] - s[i - BeaconThreshold + 1] >= Minute

Beaconed(s, M, b, a, t) ==
  /\ Ascending(s, M) /\ \A i \in 1..M : s[i] <= t
  /\ a \in Seq(Nat) /\ \A i \in 1..Len(a) : a[i] \in 1..M
  /\ Suffix(s, M, LastOf(a), b, t - Minute) /\ Len(b) < BeaconThreshold
  /\ Alarmed(s, M, a)

BeaconTypes ==
  /\ now \in Nat /\ sightings \in [Key -> Seq(Nat)]
  /\ beacons \in [Key -> Seq(Nat)] /\ alarms \in [Key -> Seq(Nat)]

BeaconInv ==
  /\ BeaconTypes
  /\ \A k \in Key : Beaconed(sightings[k], Len(sightings[k]), beacons[k], alarms[k], now)

LEMMA LastOfIs ==
  ASSUME NEW M \in Nat, NEW a \in Seq(Nat), \A i \in 1..Len(a) : a[i] \in 1..M
  PROVE  LastOf(a) \in 0..M
<1>1. a # <<>> => Len(a) \in 1..Len(a)
  OBVIOUS
<1>. QED
  BY <1>1 DEF LastOf

LEMMA SightingTold ==
  ASSUME NEW s, NEW M \in Nat, NEW b, NEW u \in Nat, NEW t \in Nat, u <= t,
         Beaconed(s, M, b.times, b.alarms, u), b.count = M, s[M + 1] = t,
         NEW x, x = Sighting(b, t)
  PROVE  Beaconed(s, M + 1, x.times, x.alarms, t) /\ x.count = M + 1
<1>1. PICK p, a, L, N : /\ p = b.times /\ a = b.alarms /\ L = LastOf(a) /\ N = M + 1
  OBVIOUS
<1>2. /\ Ascending(s, M) /\ \A i \in 1..M : s[i] <= u
      /\ a \in Seq(Nat) /\ \A i \in 1..Len(a) : a[i] \in 1..M
      /\ Suffix(s, M, L, p, u - Minute) /\ Len(p) < BeaconThreshold
      /\ Alarmed(s, M, a)
  BY <1>1 DEF Beaconed
<1>3. /\ Minute \in Nat \ {0} /\ BeaconThreshold \in Nat \ {0} /\ L \in 0..M /\ L \in 0..N
      /\ u - Minute \in Int /\ t - Minute \in Int /\ u - Minute <= t - Minute
      /\ t - Minute <= t - Minute /\ t - Minute < t /\ N \in Nat /\ s[N] = t
  <2>1. L \in 0..M
    BY <1>1, <1>2, LastOfIs
  <2>2. Minute \in Nat \ {0} /\ BeaconThreshold \in Nat \ {0}
    BY NetAssumption
  <2>. QED
    BY <1>1, <2>1, <2>2
<1>4. Ascending(s, N) /\ \A i \in 1..N : s[i] <= t
  <2>1. \A i \in 1..M : s[i] = s[i] /\ s[i] \in Nat /\ s[i] <= t
    BY <1>2, <1>3 DEF Ascending
  <2>. QED
    BY <1>1, <1>2, <2>1, AscendingGrows
<1>5. Suffix(s, M, L, p, t - Minute)
  BY <1>2, <1>3, SuffixSame
<1>6. PICK g, q : g = Append(p, t) /\ q = Newer(g, t - Minute)
  OBVIOUS
<1>7. Suffix(s, N, L, g, t - Minute) /\ Len(g) = Len(p) + 1
  BY <1>1, <1>3, <1>5, <1>6, SuffixGrows
<1>8. /\ Suffix(s, N, L, q, t - Minute) /\ Len(q) <= Len(g)
      /\ \A j \in 1..Len(q) : q[j] > t - Minute
  BY <1>3, <1>4, <1>6, <1>7, SuffixPruned
<1>9. Len(q) >= BeaconThreshold <=> (N - L >= BeaconThreshold /\ s[N - BeaconThreshold + 1] > t - Minute)
  BY <1>3, <1>4, <1>8, SuffixFull
<1>10. Len(q) \in Nat /\ Len(p) \in Nat /\ q \in Seq(Nat)
  BY <1>2, <1>3, <1>8 DEF Suffix
<1>11. x = [times  |-> IF Len(q) >= BeaconThreshold THEN <<>> ELSE q,
            count  |-> N,
            alarms |-> IF Len(q) >= BeaconThreshold THEN Append(a, N) ELSE a]
  BY <1>1, <1>6 DEF Sighting, Young
<1>12. CASE Len(q) >= BeaconThreshold
  <2>1. PICK e : e = Append(a, N)
    OBVIOUS
  <2>2. /\ e \in Seq(Nat) /\ Len(e) = Len(a) + 1 /\ e[Len(a) + 1] = N /\ Len(a) \in Nat
        /\ \A i \in 1..Len(a) : e[i] = a[i] /\ a[i] \in 1..M /\ a[i] \in Nat
    BY <1>2, <1>3, <2>1
  <2>3. x.times = <<>> /\ x.count = N /\ x.alarms = e
    BY <1>11, <1>12, <2>1
  <2>4. LastOf(e) = N
    BY <2>2 DEF LastOf
  <2>5. ASSUME NEW i \in 1..Len(e) PROVE e[i] \in 1..N
    <3>1. i \in 1..Len(a) => e[i] \in 1..M
      BY <2>2
    <3>2. i \in 1..Len(a) \/ i = Len(a) + 1
      BY <2>2
    <3>3. e[Len(a) + 1] = N /\ N \in 1..N /\ N = M + 1
      BY <1>1, <1>3, <2>2
    <3>. QED
      BY <3>1, <3>2, <3>3
  <2>6. Suffix(s, N, N, <<>>, t - Minute) /\ Len(<<>>) < BeaconThreshold
    BY <1>3 DEF Suffix
  <2>7. ASSUME NEW i \in 1..Len(e)
        PROVE  /\ e[i] - BeaconThreshold + 1 > (IF i = 1 THEN 0 ELSE e[i - 1])
               /\ s[e[i]] - s[e[i] - BeaconThreshold + 1] < Minute
    <3>1. CASE i \in 1..Len(a)
      <4>1. e[i] = a[i] /\ (i # 1 => e[i - 1] = a[i - 1])
        <5>1. i # 1 => i - 1 \in 1..Len(a)
          BY <2>2, <3>1
        <5>. QED
          BY <2>2, <3>1, <5>1
      <4>2. /\ a[i] - BeaconThreshold + 1 > (IF i = 1 THEN 0 ELSE a[i - 1])
            /\ s[a[i]] - s[a[i] - BeaconThreshold + 1] < Minute
        BY <1>2, <3>1 DEF Alarmed
      <4>. QED
        BY <4>1, <4>2
    <3>2. CASE i = Len(a) + 1
      <4>1. e[i] = N /\ (i # 1 => i - 1 = Len(a) /\ e[i - 1] = a[Len(a)] /\ a # <<>>)
        BY <2>2, <3>2
      <4>2. N - BeaconThreshold + 1 > L /\ N - BeaconThreshold + 1 \in 1..N
        BY <1>3, <1>9, <1>12
      <4>3. (IF i = 1 THEN 0 ELSE e[i - 1]) <= L
        <5>1. i = 1 => (IF i = 1 THEN 0 ELSE e[i - 1]) = 0 /\ 0 <= L
          BY <1>3
        <5>2. i # 1 => (IF i = 1 THEN 0 ELSE e[i - 1]) = L /\ L <= L
          BY <1>1, <1>3, <4>1 DEF LastOf
        <5>. QED
          BY <5>1, <5>2
      <4>4. (IF i = 1 THEN 0 ELSE e[i - 1]) \in Nat
        BY <2>2, <3>2
      <4>5. s[N] - s[N - BeaconThreshold + 1] < Minute
        <5>1. s[N - BeaconThreshold + 1] \in Nat /\ s[N - BeaconThreshold + 1] > t - Minute
          BY <1>4, <1>9, <1>12, <4>2 DEF Ascending
        <5>. QED
          BY <1>3, <5>1
      <4>. QED
        BY <1>3, <4>1, <4>2, <4>3, <4>4, <4>5
    <3>. QED
      BY <2>2, <3>1, <3>2
  <2>8. Alarmed(s, N, e)
    <3>1. \A i \in (LastOf(e) + BeaconThreshold)..N : FALSE
      BY <1>3, <2>4
    <3>. QED
      BY <2>7, <3>1 DEF Alarmed
  <2>. QED
    BY <1>1, <1>4, <2>2, <2>3, <2>4, <2>5, <2>6, <2>8 DEF Beaconed
<1>13. CASE Len(q) < BeaconThreshold
  <2>1. x.times = q /\ x.count = N /\ x.alarms = a
    BY <1>3, <1>10, <1>11, <1>13
  <2>2. ASSUME NEW i \in (L + BeaconThreshold)..N PROVE s[i] - s[i - BeaconThreshold + 1] >= Minute
    <3>1. CASE i = N
      <4>1. N - BeaconThreshold + 1 \in 1..N /\ N - L >= BeaconThreshold
        BY <1>3, <2>2, <3>1
      <4>2. s[N - BeaconThreshold + 1] \in Nat /\ ~(s[N - BeaconThreshold + 1] > t - Minute)
        BY <1>3, <1>4, <1>9, <1>10, <1>13, <4>1 DEF Ascending
      <4>. QED
        BY <1>3, <3>1, <4>2
    <3>2. CASE i # N
      <4>1. i \in (L + BeaconThreshold)..M
        BY <1>1, <1>3, <2>2, <3>2
      <4>. QED
        BY <1>1, <1>2, <4>1 DEF Alarmed
    <3>. QED
      BY <3>1, <3>2
  <2>3. Alarmed(s, N, a)
    BY <1>1, <1>2, <2>2 DEF Alarmed
  <2>4. \A i \in 1..Len(a) : a[i] \in 1..N
    BY <1>1, <1>2
  <2>. QED
    BY <1>1, <1>2, <1>4, <1>8, <1>13, <2>1, <2>3, <2>4 DEF Beaconed
<1>. QED
  BY <1>3, <1>10, <1>12, <1>13

(* Time goes on, the list is emptied when all sightings are old.           *)
LEMMA BeaconedStays ==
  ASSUME NEW s, NEW M \in Nat, NEW b, NEW a, NEW u \in Nat, Beaconed(s, M, b, a, u),
         NEW t \in Nat, u <= t, NEW r, \A i \in 1..M : r[i] = s[i]
  PROVE  /\ Beaconed(r, M, b, a, t)
         /\ (\A i \in 1..M : r[i] <= t - Minute) => Beaconed(r, M, <<>>, a, t)
<1>1. /\ Ascending(s, M) /\ \A i \in 1..M : s[i] <= u
      /\ a \in Seq(Nat) /\ \A i \in 1..Len(a) : a[i] \in 1..M
      /\ Suffix(s, M, LastOf(a), b, u - Minute) /\ Len(b) < BeaconThreshold
      /\ Alarmed(s, M, a)
  BY DEF Beaconed
<1>2. LastOf(a) \in 0..M
  BY <1>1, LastOfIs
<1>3. /\ Minute \in Nat \ {0} /\ BeaconThreshold \in Nat \ {0}
  BY NetAssumption
<1>4. u - Minute \in Int /\ t - Minute \in Int /\ u - Minute <= t - Minute
  BY <1>3
<1>5. Suffix(r, M, LastOf(a), b, t - Minute)
  BY <1>1, <1>2, <1>4, SuffixSame
<1>6. Ascending(r, M) /\ \A i \in 1..M : r[i] <= t
  <2>1. \A i \in 1..M : r[i] = s[i] /\ s[i] \in Nat /\ s[i] <= u
    BY <1>1 DEF Ascending
  <2>2. \A i \in 1..M : \A j \in 1..i : j \in 1..M /\ s[j] <= s[i]
    BY <1>1 DEF Ascending
  <2>. QED
    BY <2>1, <2>2 DEF Ascending
<1>7. Alarmed(r, M, a)
  <2>1. ASSUME NEW i \in 1..Len(a)
        PROVE  /\ a[i] - BeaconThreshold + 1 > (IF i = 1 THEN 0 ELSE a[i - 1])
               /\ r[a[i]] - r[a[i] - BeaconThreshold + 1] < Minute
    <3>1. /\ a[i] - BeaconThreshold + 1 > (IF i = 1 THEN 0 ELSE a[i - 1])
          /\ s[a[i]] - s[a[i] - BeaconThreshold + 1] < Minute
      BY <1>1 DEF Alarmed
    <3>2. (IF i = 1 THEN 0 ELSE a[i - 1]) \in Nat
      <4>1. i # 1 => i - 1 \in 1..Len(a)
        BY <1>1
      <4>. QED
        BY <1>1, <4>1
    <3>3. a[i] \in 1..M /\ a[i] - BeaconThreshold + 1 \in 1..M
      <4>1. PICK v : v = IF i = 1 THEN 0 ELSE a[i - 1]
        OBVIOUS
      <4>2. v \in Nat /\ a[i] - BeaconThreshold + 1 > v /\ a[i] \in 1..M
        BY <1>1, <3>1, <3>2, <4>1
      <4>. QED
        BY <1>3, <4>2
    <3>. QED
      BY <3>1, <3>3
  <2>2. ASSUME NEW i \in (LastOf(a) + BeaconThreshold)..M
        PROVE  r[i] - r[i - BeaconThreshold + 1] >= Minute
    <3>1. i \in 1..M /\ i - BeaconThreshold + 1 \in 1..M
      BY <1>2, <1>3, <2>2
    <3>. QED
      BY <1>1, <2>2, <3>1 DEF Alarmed
  <2>. QED
    BY <2>1, <2>2 DEF Alarmed
<1>8. ASSUME \A i \in 1..M : r[i] <= t - Minute PROVE Suffix(r, M, LastOf(a), <<>>, t - Minute)
  BY <1>2, <1>8 DEF Suffix
<1>. QED
  BY <1>1, <1>3, <1>5, <1>6, <1>7, <1>8 DEF Beaconed

(* The loop over the connections, by its steps. *)
Stepped(b, t, n, F) == F = [i \in 0..n |-> IF i = 0 THEN b ELSE Sighting(F[i - 1], t)]

LEMMA SteppedExists == ASSUME NEW b, NEW t, NEW m \in Nat PROVE \E F : Stepped(b, t, m, F)
<1> DEFINE T == {n \in 0..m : \E F : Stepped(b, t, n, F)}
<1>1. 0 \in T
  <2> DEFINE F == [i \in 0..0 |-> b]
  <2>1. Stepped(b, t, 0, F)
    BY DEF Stepped
  <2>. QED
    BY <2>1
<1>2. ASSUME NEW n \in 0..(m - 1), n \in T PROVE n + 1 \in T
  <2>1. PICK F : Stepped(b, t, n, F)
    BY <1>2
  <2>2. \A i \in 0..n : F[i] = IF i = 0 THEN b ELSE Sighting(F[i - 1], t)
    BY <2>1 DEF Stepped
  <2> DEFINE G == [i \in 0..(n + 1) |-> IF i <= n THEN F[i] ELSE Sighting(F[n], t)]
  <2>3. ASSUME NEW i \in 0..(n + 1) PROVE G[i] = IF i = 0 THEN b ELSE Sighting(G[i - 1], t)
    <3>1. CASE i = n + 1
      <4>1. i # 0 /\ ~(i <= n) /\ i - 1 = n /\ n \in 0..(n + 1) /\ n <= n
        BY <3>1
      <4>. QED
        BY <3>1, <4>1
    <3>2. CASE i <= n
      <4>1. i \in 0..n /\ (i # 0 => i - 1 \in 0..(n + 1) /\ i - 1 <= n)
        BY <3>2
      <4>. QED
        BY <2>2, <3>2, <4>1
    <3>. QED
      BY <3>1, <3>2
  <2>4. G = [i \in 0..(n + 1) |-> G[i]]
    OBVIOUS
  <2> HIDE DEF G
  <2>5. Stepped(b, t, n + 1, G)
    BY <2>3, <2>4 DEF Stepped
  <2>. QED
    BY <2>5
<1> HIDE DEF T
<1>3. m \in T
  BY <1>1, <1>2, UpTo
<1>. QED
  BY <1>3 DEF T

LEMMA EvaluateTold ==
  ASSUME NEW k, NEW s \in Seq(Nat), s = sightings[k], NEW M, M = Len(s),
         NEW u \in Nat, Beaconed(s, M, beacons[k], alarms[k], u),
         NEW n \in Nat, NEW t \in Nat, u <= t,
         NEW r, Len(r) = M + n, \A i \in 1..M : r[i] = s[i], \A i \in (M + 1)..(M + n) : r[i] = t,
         NEW x, x = Evaluate(k, n, t)
  PROVE  Beaconed(r, Len(r), x.times, x.alarms, t)
<1>1. \E F : /\ F[0] = [times |-> beacons[k], count |-> Len(sightings[k]), alarms |-> alarms[k]]
             /\ \A i \in 1..n : F[i] = Sighting(F[i - 1], t)
             /\ x = F[n]
  <2> DEFINE b == [times |-> beacons[k], count |-> Len(sightings[k]), alarms |-> alarms[k]]
             G == CHOOSE F : Stepped(b, t, n, F)
  <2>1. Stepped(b, t, n, G)
    BY SteppedExists, Zenon
  <2>2. Evaluate(k, n, t) = G[n]
    BY Zenon DEF Evaluate, Stepped
  <2> HIDE DEF G, b
  <2>3. G[0] = b /\ \A i \in 1..n : G[i] = Sighting(G[i - 1], t)
    BY <2>1 DEF Stepped
  <2>. QED
    BY <2>2, <2>3 DEF b
<1>2. M \in Nat
  OBVIOUS
<1>3. PICK F : /\ F[0] = [times |-> beacons[k], count |-> Len(sightings[k]), alarms |-> alarms[k]]
               /\ \A i \in 1..n : F[i] = Sighting(F[i - 1], t)
               /\ x = F[n]
  BY <1>1
<1> DEFINE In(i) == Beaconed(r, M + i, F[i].times, F[i].alarms, t) /\ F[i].count = M + i
           T == {i \in 0..n : In(i)}
<1>4. In(0)
  <2>1. F[0].times = beacons[k] /\ F[0].count = M /\ F[0].alarms = alarms[k]
    BY <1>3
  <2>2. Beaconed(r, M, beacons[k], alarms[k], t)
    <3>1. PICK p, a : p = beacons[k] /\ a = alarms[k]
      OBVIOUS
    <3>2. /\ Beaconed(s, M, p, a, u) /\ M \in Nat /\ u \in Nat /\ t \in Nat /\ u <= t
          /\ \A i \in 1..M : r[i] = s[i]
      BY <1>2, <3>1
    <3>3. Beaconed(r, M, p, a, t)
      BY ONLY <3>2, BeaconedStays
    <3>. QED
      BY <3>1, <3>3
  <2>3. M + 0 = M
    BY <1>2
  <2>. QED
    BY <2>1, <2>2, <2>3
<1>5. ASSUME NEW i \in 0..(n - 1), In(i) PROVE In(i + 1)
  <2>1. PICK b, y, K : b = F[i] /\ y = F[i + 1] /\ K = M + i
    OBVIOUS
  <2>2. Beaconed(r, K, b.times, b.alarms, t) /\ b.count = K
    BY <1>5, <2>1
  <2>3. i + 1 \in 1..n /\ (i + 1) - 1 = i /\ K + 1 = M + (i + 1) /\ K \in Nat /\ t <= t
    <3>1. i \in 0..(n - 1) /\ K = M + i /\ M \in Nat /\ n \in Nat /\ t \in Nat
      BY <1>2, <2>1
    <3>. QED
      BY ONLY <3>1
  <2>4. y = Sighting(b, t)
    BY <1>3, <2>1, <2>3
  <2>5. r[K + 1] = t
    <3>1. i \in 0..(n - 1) /\ K = M + i /\ M \in Nat /\ n \in Nat
      BY <1>2, <2>1
    <3>2. K + 1 \in (M + 1)..(M + n)
      BY ONLY <3>1
    <3>. QED
      BY <3>2
  <2>6. Beaconed(r, K + 1, y.times, y.alarms, t) /\ y.count = K + 1
    <3>1. K \in Nat /\ t <= t
      BY <2>3
    <3>. QED
      BY <2>2, <2>4, <2>5, <3>1, SightingTold
  <2>. QED
    BY <2>1, <2>3, <2>6
<1> HIDE DEF In
<1>6. n \in T
  <2>1. 0 \in T /\ \A i \in 0..(n - 1) : i \in T => i + 1 \in T
    BY <1>4, <1>5
  <2> HIDE DEF T
  <2>2. \A i \in 0..n : i \in T
    BY <2>1, UpTo, Zenon
  <2>. QED
    BY <2>2
<1>7. Beaconed(r, M + n, F[n].times, F[n].alarms, t)
  BY <1>6 DEF In
<1>. QED
  BY <1>3, <1>7

LEMMA PollBeacons ==
  ASSUME BeaconInv, SeenInv, NEW conns \in [Key -> 0..MaxConns], NEW gap \in Gaps, Poll(conns, gap)
  PROVE  BeaconInv'
<1>1. PICK u, t : u = now /\ t = now + gap
  OBVIOUS
<1>2. /\ u \in Nat /\ t \in Nat /\ u <= t /\ now' = t
      /\ ~(t < t - SeenTTL) /\ Minute \in Nat /\ SeenTTL \in Nat /\ Minute <= SeenTTL
  <2>1. gap \in Nat /\ now \in Nat
    BY NetAssumption DEF BeaconInv, BeaconTypes
  <2>2. Minute \in Nat /\ SeenTTL \in Nat /\ Minute <= SeenTTL
    BY NetAssumption
  <2>. QED
    BY <1>1, <2>1, <2>2 DEF Poll
<1>3. ASSUME NEW k \in Key
      PROVE  /\ sightings'[k] \in Seq(Nat) /\ beacons'[k] \in Seq(Nat) /\ alarms'[k] \in Seq(Nat)
             /\ Beaconed(sightings[k], Len(sightings[k]), beacons[k], alarms[k], now)'
  <2>1. PICK s, n, r, x, z : /\ s = sightings[k] /\ n = conns[k] /\ r = s \o [i \in 1..n |-> t]
                             /\ x = Evaluate(k, n, t) /\ z = seen[k]
    OBVIOUS
  <2>2. /\ s \in Seq(Nat) /\ n \in Nat
        /\ Beaconed(s, Len(s), beacons[k], alarms[k], u)
    BY <1>1, <2>1, NetAssumption DEF BeaconInv, BeaconTypes
  <2>3. /\ r \in Seq(Nat) /\ Len(r) \in Nat /\ Len(s) \in Nat /\ Len(r) = Len(s) + n
        /\ \A i \in 1..Len(s) : r[i] = s[i]
        /\ \A i \in 1..Len(s) : s[i] \in Nat
        /\ \A i \in 1..Len(r) : i \notin 1..Len(s) => r[i] = t
    <3>1. s \in Seq(Nat) /\ n \in Nat /\ t \in Nat /\ r = s \o [i \in 1..n |-> t]
      BY <1>2, <2>1, <2>2
    <3>. QED
      BY <3>1, Resighted
  <2>4. Beaconed(r, Len(r), x.times, x.alarms, t)
    <3>1. PICK M : M = Len(s)
      OBVIOUS
    <3>2. /\ Len(r) = M + n /\ (\A i \in 1..M : r[i] = s[i])
          /\ \A i \in (M + 1)..(M + n) : r[i] = t
      <4>1. M \in Nat /\ n \in Nat /\ Len(r) = M + n
        BY <2>2, <2>3, <3>1
      <4>2. \A i \in 1..M : r[i] = s[i]
        BY ONLY <2>3, <3>1
      <4>3. \A i \in 1..Len(r) : i \notin 1..M => r[i] = t
        BY ONLY <2>3, <3>1
      <4>. QED
        BY ONLY <4>1, <4>2, <4>3
    <3>3. s = sightings[k] /\ x = Evaluate(k, n, t)
      BY <2>1
    <3>. QED
      BY <1>2, <2>2, <3>1, <3>2, <3>3, EvaluateTold
  <2>5. sightings'[k] = r /\ alarms'[k] = x.alarms
    BY <1>1, <2>1 DEF Poll
  <2>6. beacons'[k] = IF Expired(Refreshed(k, n, t), t) THEN <<>> ELSE x.times
    BY <1>1, <2>1 DEF Poll
  <2>7. r \in Seq(Nat) /\ Len(r) \in Nat /\ Len(r) = Len(s) + n /\ \A i \in 1..Len(s) : r[i] = s[i] /\ s[i] \in Nat
    BY <2>3
  <2>8. Beaconed(r, Len(r), beacons'[k], x.alarms, t)
    <3>1. CASE Expired(Refreshed(k, n, t), t)
      <4>1. n = 0 /\ z # Never /\ z < t - SeenTTL
        BY <1>2, <2>1, <2>2, <3>1 DEF Expired, Refreshed
      <4>2. (\A i \in 1..Len(s) : s[i] <= z) /\ z \in Nat
        BY <2>1, <4>1 DEF SeenInv, SeenTypes, LastSeen
      <4>3. \A i \in 1..Len(r) : r[i] <= t - Minute
        <5> TAKE i \in 1..Len(r)
        <5>1. i \in 1..Len(s) /\ r[i] = s[i] /\ s[i] \in Nat /\ s[i] <= z
          BY <2>2, <2>7, <4>1, <4>2
        <5>. QED
          BY <1>2, <4>1, <4>2, <5>1
      <4>4. Beaconed(r, Len(r), <<>>, x.alarms, t)
        <5>1. t <= t /\ \A i \in 1..Len(r) : r[i] = r[i]
          BY <1>2
        <5>. QED
          BY <1>2, <2>4, <2>7, <4>3, <5>1, BeaconedStays
      <4>. QED
        BY <2>6, <3>1, <4>4
    <3>2. CASE ~Expired(Refreshed(k, n, t), t)
      BY <2>4, <2>6, <3>2
    <3>. QED
      BY <3>1, <3>2
  <2>9. x.alarms \in Seq(Nat) /\ beacons'[k] \in Seq(Nat)
    BY <2>8 DEF Beaconed, Suffix
  <2>10. Beaconed(sightings'[k], Len(sightings'[k]), beacons'[k], alarms'[k], now')
    BY <1>2, <2>5, <2>8
  <2>. QED
    BY <2>5, <2>7, <2>9, <2>10
       DEF Beaconed, Ascending, Alarmed, Suffix, LastOf
<1>4. BeaconTypes'
  <2>1. /\ sightings' = [k \in Key |-> sightings'[k]] /\ beacons' = [k \in Key |-> beacons'[k]]
        /\ alarms' = [k \in Key |-> alarms'[k]]
    BY DEF Poll
  <2>. QED
    BY <1>2, <1>3, <2>1 DEF BeaconTypes
<1>. QED
  BY <1>3, <1>4 DEF BeaconInv

LEMMA NoSightings == \A t \in Nat : Beaconed(<<>>, 0, <<>>, <<>>, t)
<1> TAKE t \in Nat
<1>1. Minute \in Nat /\ BeaconThreshold \in Nat \ {0} /\ LastOf(<<>>) = 0
  BY NetAssumption DEF LastOf
<1>2. Suffix(<<>>, 0, 0, <<>>, t - Minute) /\ Ascending(<<>>, 0)
  BY DEF Suffix, Ascending
<1>3. Alarmed(<<>>, 0, <<>>)
  BY <1>1 DEF Alarmed
<1>. QED
  BY <1>1, <1>2, <1>3 DEF Beaconed

(* The list of a key is emptied when it has not been seen for an hour: the *)
(* invariant of the map of sightings is needed for this one.               *)
LEMMA BeaconInvNext == BeaconInv /\ SeenInv /\ [Next]_vars => BeaconInv'
<1> SUFFICES ASSUME BeaconInv, SeenInv, [Next]_vars PROVE BeaconInv'
  OBVIOUS
<1>1. CASE UNCHANGED netVars
  BY <1>1 DEF netVars, BeaconInv, BeaconTypes, Beaconed, Ascending, Alarmed, Suffix, LastOf
<1>2. CASE NetNext
  BY <1>2, PollBeacons DEF NetNext
<1>3. CASE NetRestart
  <2>1. /\ beacons' = [k \in Key |-> <<>>] /\ sightings' = [k \in Key |-> <<>>]
        /\ alarms' = [k \in Key |-> <<>>] /\ now' = now /\ now \in Nat
    BY <1>3 DEF NetRestart, BeaconInv, BeaconTypes
  <2>2. \A k \in Key : Beaconed(<<>>, Len(<<>>), <<>>, <<>>, now)
    BY <2>1, NoSightings
  <2>. QED
    BY <2>1, <2>2
       DEF BeaconInv, BeaconTypes, Beaconed, Ascending, Alarmed, Suffix, LastOf
<1>4. CASE \E c \in Canary : WriteCanary(c) \/ Register(c) \/ Touch(c) \/ Read(c)
  BY <1>1, <1>4 DEF WriteCanary, Created, Register, Touch, Read
<1>5. CASE WriteCanaryFails \/ StartLoop \/ Stop \/ Change \/ TakeEvent
  BY <1>1, <1>5 DEF WriteCanaryFails, Created, StartLoop, Stop, Change, TakeEvent
<1>. QED
  BY <1>1, <1>2, <1>3, <1>4, <1>5 DEF Next, Restart, vars

LEMMA NetInvInit == NetInit => BeaconInv /\ SeenInv
<1> SUFFICES ASSUME NetInit PROVE BeaconInv /\ SeenInv
  OBVIOUS
<1>1. /\ seen = [k \in Key |-> Never] /\ sightings = [k \in Key |-> <<>>]
      /\ reports = [k \in Key |-> {}] /\ now = 0
      /\ beacons = [k \in Key |-> <<>>] /\ alarms = [k \in Key |-> <<>>]
  BY DEF NetInit
<1>2. SeenInv
  BY <1>1 DEF SeenInv, SeenTypes, LastSeen, Reported
<1>3. \A k \in Key : Beaconed(<<>>, Len(<<>>), <<>>, <<>>, now)
  BY <1>1, NoSightings
<1>4. BeaconInv
  BY <1>1, <1>3 DEF BeaconInv, BeaconTypes
<1>. QED
  BY <1>2, <1>4

(* Each beacon alert stands for a threshold of sightings within a minute,  *)
(* none of them counted before, and there are never so many without one,   *)
(* whatever is pruned from the lists and the maps in between.              *)
THEOREM BeaconIsTold == Spec => []BeaconTold
<1>1. BeaconInv => BeaconTold
  <2>1. \A k \in Key : LastAlarm(k) = LastOf(alarms[k])
    BY DEF LastAlarm, LastOf
  <2>. QED
    BY <2>1 DEF BeaconInv, Beaconed, Alarmed, BeaconTold
<1>2. Init => BeaconInv /\ SeenInv
  BY NetInvInit DEF Init
<1>. QED
  BY <1>1, <1>2, BeaconInvNext, SeenInvNext, PTL DEF Spec

---------------------------------------------------------------------------
(* Types.                                                                  *)

(* No verdict before a feed or the cache gave one; what is clean is not    *)
(* moved.                                                                  *)
Fitting(s) ==
  s \in Scanning =>
    /\ s.pc \in {"cache", "bazaar", "total"} => s.verdict = None
    /\ s.pc = "move" => s.verdict \in Bad \cup {"unknown"}

Fitted == \A x \in DeepScan : Fitting(scan[x])

Counted == mailers \in [EventType -> 0..MaxMailers]

RestTypes ==
  /\ {writes, polls} \subseteq Nat /\ phase \in {"start", "on", "off"}
  /\ reads \in [Canary -> Nat]

LEMMA FittingStep ==
  ASSUME FeedInv, Fitted, NEW g \in DeepScan, NEW r, Goto(g, r), Fitting(r)
  PROVE  Fitted'
<1>1. scan'[g] = r /\ \A x \in DeepScan : x # g => scan'[x] = scan[x]
  BY DEF Goto, FeedInv, FeedTypes
<1>. QED
  BY <1>1 DEF Fitted, Fitting

LEMMA OntoFits ==
  ASSUME NEW g \in DeepScan, NEW pc, NEW v, NEW o,
         pc \in {"cache", "bazaar", "total"} => v = None,
         pc = "move" => v \in Bad \cup {"unknown"}
  PROVE  Fitting(Onto(g, pc, v, o))
BY DEF Onto, Fitting

LEMMA RestingFits ==
  ASSUME NEW r \in {Idle} \cup [pc : {"match"}, path : Path]
  PROVE  Fitting(r)
BY DEF Fitting, Scanning, Steps, Idle

LEMMA FittedStays == Fitted /\ scan' = scan => Fitted'
BY DEF Fitted, Fitting

LEMMA WriteFits ==
  ASSUME FeedInv, Fitted, NEW p \in Path, NEW c \in Content, UserWrite(p, c)
  PROVE  Fitted'
<1> SUFFICES ASSUME NEW g \in DeepScan PROVE Fitting(scan'[g])
  BY DEF Fitted, Fitting
<1>1. scan'[g] = IF "overtaken" \in DOMAIN scan[g] /\ scan[g].path = p
                 THEN [scan[g] EXCEPT !.overtaken = TRUE] ELSE scan[g]
  BY DEF UserWrite
<1>2. Fitting(scan[g]) /\ scan[g] \in {Idle} \cup [pc : {"match"}, path : Path] \cup Scanning
  BY DEF Fitted, FeedInv, FeedTypes
<1>3. CASE scan[g] \in Scanning
  <2>1. [scan[g] EXCEPT !.overtaken = TRUE].pc = scan[g].pc
        /\ [scan[g] EXCEPT !.overtaken = TRUE].verdict = scan[g].verdict
    BY <1>3 DEF Scanning
  <2>. QED
    BY <1>1, <1>2, <1>3, <2>1 DEF Fitting
<1>4. CASE scan[g] \notin Scanning
  <2>1. "overtaken" \notin DOMAIN scan[g]
    BY <1>2, <1>4 DEF Idle
  <2>. QED
    BY <1>1, <1>2, <2>1
<1>. QED
  BY <1>3, <1>4

LEMMA ScanFits ==
  ASSUME FeedInv, Fitted, NEW g \in DeepScan,
         \/ FromCache(g) \/ AskBazaar(g) \/ AskTotal(g) \/ CacheResult(g)
         \/ Judge(g) \/ Move(g) \/ Match(g)
  PROVE  Fitted'
<1>1. CASE Match(g)
  BY <1>1, RestingFits, FittingStep DEF Match
<1>2. CASE ~Match(g)
  <2>1. scan[g].pc \in Steps
    BY <1>2 DEF FromCache, AskBazaar, AskTotal, CacheResult, Judge, Move, Steps
  <2>2. /\ scan[g] \in Scanning /\ scan[g].hash \in Content
        /\ Looked(g) \in [pc : {"match"}, path : Path]
    BY <2>1, InScan DEF FeedInv
  <2>3. PICK v, o, h : v = scan[g].verdict /\ o = scan[g].outage /\ h = scan[g].hash
    OBVIOUS
  <2>4. /\ \A pc : After(g, pc) = Onto(g, pc, v, o)
        /\ \A pc, w : [scan[g] EXCEPT !.pc = pc, !.verdict = w] = Onto(g, pc, w, o)
        /\ Unknown(g) = Onto(g, "judge", "unknown", TRUE)
    BY <2>2, <2>3, OntoIs
  <2>5. ASSUME NEW pc, NEW w, NEW q, Goto(g, Onto(g, pc, w, q)),
               pc \in {"cache", "bazaar", "total"} => w = None,
               pc = "move" => w \in Bad \cup {"unknown"}
        PROVE  Fitted'
    BY <2>5, OntoFits, FittingStep
  <2>6. Fitting(Looked(g))
    BY <2>2, RestingFits
  <2>7. scan[g].pc \in {"cache", "bazaar"} => v = None
    BY <2>2, <2>3 DEF Fitted, Fitting
  <2>8. CASE FromCache(g)
    <3>1. \/ Goto(g, [scan[g] EXCEPT !.pc = "judge", !.verdict = cache[h]])
          \/ Goto(g, After(g, "bazaar")) /\ v = None
      BY <2>3, <2>7, <2>8 DEF FromCache
    <3>2. \/ Goto(g, Onto(g, "judge", cache[h], o))
          \/ Goto(g, Onto(g, "bazaar", v, o)) /\ v = None
      BY <2>4, <3>1, Zenon
    <3>. QED
      BY <2>5, <3>2
  <2>9. CASE AskBazaar(g) \/ AskTotal(g)
    <3>1. \/ \E w : Goto(g, [scan[g] EXCEPT !.pc = "store", !.verdict = w])
          \/ Goto(g, After(g, "total")) /\ v = None
          \/ Goto(g, Unknown(g))
      BY <2>7, <2>9 DEF AskBazaar, AskTotal, Answers
    <3>2. \/ \E w : Goto(g, Onto(g, "store", w, o))
          \/ Goto(g, Onto(g, "total", v, o)) /\ v = None
          \/ Goto(g, Onto(g, "judge", "unknown", TRUE))
      <4>1. ASSUME NEW w, Goto(g, [scan[g] EXCEPT !.pc = "store", !.verdict = w])
            PROVE  Goto(g, Onto(g, "store", w, o))
        <5>1. [scan[g] EXCEPT !.pc = "store", !.verdict = w] = Onto(g, "store", w, o)
          BY <2>4, Zenon
        <5>. QED
          BY <4>1, <5>1, Zenon
      <4>2. After(g, "total") = Onto(g, "total", v, o) /\ Unknown(g) = Onto(g, "judge", "unknown", TRUE)
        BY <2>4, Zenon
      <4>. QED
        BY <3>1, <4>1, <4>2, Zenon
    <3>. QED
      BY <2>5, <3>2
  <2>10. CASE CacheResult(g)
    <3>1. Goto(g, Onto(g, "judge", v, o))
      BY <2>4, <2>10, Zenon DEF CacheResult
    <3>. QED
      BY <2>5, <3>1
  <2>11. CASE Judge(g)
    <3>1. \/ Goto(g, Looked(g))
          \/ Goto(g, After(g, "move")) /\ v # "clean" /\ scan[g].pc = "judge"
      BY <2>3, <2>11 DEF Judge
    <3>2. scan[g].pc = "judge" => v \in Bad \cup {"clean", "unknown"}
      BY <2>2, <2>3 DEF FeedInv, FeedTypes, Justified, Verdict
    <3>3. \/ Goto(g, Looked(g))
          \/ Goto(g, Onto(g, "move", v, o)) /\ v \in Bad \cup {"unknown"}
      <4>1. v # "clean" /\ scan[g].pc = "judge" => v \in Bad \cup {"unknown"}
        BY <3>2
      <4>. QED
        BY <2>4, <3>1, <4>1, Zenon
    <3>. QED
      BY <2>5, <2>6, <3>3, FittingStep
  <2>12. CASE Move(g)
    BY <2>6, <2>12, FittingStep DEF Move
  <2>. QED
    BY <1>2, <2>8, <2>9, <2>10, <2>11, <2>12
<1>. QED
  BY <1>1, <1>2

LEMMA FittedNext == FeedInv /\ Fitted /\ [Next]_vars => Fitted'
<1> SUFFICES ASSUME FeedInv, Fitted, [Next]_vars PROVE Fitted'
  OBVIOUS
<1>1. CASE UNCHANGED feedVars
  BY <1>1, FittedStays DEF feedVars
<1>2. ASSUME NEW g \in DeepScan, NEW p \in Path, StartDeepScan(g, p) PROVE Fitted'
  <2>1. PICK r : /\ r = [pc |-> "cache", path |-> p, hash |-> disk[p], verdict |-> None,
                          outage |-> FALSE, overtaken |-> FALSE]
                 /\ Goto(g, r)
    BY <1>2 DEF StartDeepScan
  <2>2. Fitting(r)
    BY <2>1 DEF Fitting
  <2>. QED
    BY <2>1, <2>2, FittingStep
<1>3. CASE RespNext
  <2>1. ASSUME NEW t \in EventType, Send(t) PROVE UNCHANGED feedVars
    BY <2>1 DEF Send
  <2>2. (Tick => UNCHANGED feedVars) /\ \A h \in Content : Expire(h) => scan' = scan
    BY DEF Tick, Expire
  <2>. QED
    BY <1>1, <1>2, <1>3, <2>1, <2>2, FittedStays, WriteFits, ScanFits DEF RespNext
<1>4. CASE RespRestart
  <2>1. scan' = [g \in DeepScan |-> Idle]
    BY <1>4 DEF RespRestart
  <2>2. Fitting(Idle)
    BY RestingFits
  <2>. QED
    BY <2>1, <2>2 DEF Fitted, Fitting
<1>5. CASE UNCHANGED respVars
  BY <1>1, <1>5 DEF respVars
<1>6. CASE \E c \in Canary : WriteCanary(c) \/ Register(c) \/ Touch(c) \/ Read(c)
  BY <1>1, <1>5, <1>6 DEF WriteCanary, Created, Register, Touch, Read
<1>7. CASE WriteCanaryFails \/ StartLoop \/ Stop \/ Change \/ TakeEvent
  BY <1>1, <1>5, <1>7 DEF WriteCanaryFails, Created, StartLoop, Stop, Change, TakeEvent
<1>. QED
  BY <1>3, <1>4, <1>5, <1>6, <1>7 DEF Next, Restart, vars

(* Goroutines start below the bound, and end one by one. *)
Mailing ==
  \/ mailers' = mailers
  \/ \E t \in EventType : mailers[t] < MaxMailers /\ mailers' = [mailers EXCEPT ![t] = @ + 1]
  \/ \E t \in EventType : mailers[t] > 0 /\ mailers' = [mailers EXCEPT ![t] = @ - 1]
  \/ mailers' = [t \in EventType |-> 0]

LEMMA NextMails == [Next]_vars => Mailing
<1> SUFFICES ASSUME [Next]_vars PROVE Mailing
  OBVIOUS
<1>1. ASSUME NEW t \in EventType, Logged(t) \/ LogFails PROVE Mailing
  BY <1>1 DEF Logged, LogFails, mailVars, Mailing
<1>2. {"threat_detected", "other_match", "canary_triggered", "ransomware_detected"} \subseteq EventType
  BY DEF EventType
<1>3. UNCHANGED mailVars => Mailing
  BY DEF mailVars, Mailing
<1>4. CASE RespNext
  <2>1. ASSUME NEW t \in EventType, Send(t) PROVE Mailing
    BY <2>1 DEF Send, Mailing
  <2>2. ASSUME NEW g \in DeepScan, Judge(g) \/ Match(g) PROVE Mailing
    BY <1>1, <1>2, <1>3, <2>2 DEF Judge, Match
  <2>3. ASSUME NEW g \in DeepScan,
               \/ FromCache(g) \/ AskBazaar(g) \/ AskTotal(g) \/ CacheResult(g) \/ Move(g)
        PROVE  UNCHANGED mailVars
    BY <2>3 DEF FromCache, AskBazaar, AskTotal, CacheResult, Move
  <2>4. ASSUME NEW g \in DeepScan, NEW p \in Path, StartDeepScan(g, p) PROVE UNCHANGED mailVars
    BY <2>4 DEF StartDeepScan
  <2>5. ASSUME NEW p \in Path, NEW c \in Content, UserWrite(p, c) \/ Expire(c) \/ Tick
        PROVE  UNCHANGED mailVars
    BY <2>5 DEF UserWrite, Expire, Tick
  <2>6. Tick => UNCHANGED mailVars
    BY DEF Tick
  <2>7. \A h \in Content : Expire(h) => UNCHANGED mailVars
    BY DEF Expire
  <2>. QED
    BY <1>3, <1>4, <2>1, <2>2, <2>3, <2>4, <2>5, <2>6, <2>7 DEF RespNext
<1>5. CASE Restart
  BY <1>5 DEF Restart, RespRestart, Mailing
<1>6. CASE TakeEvent
  <2>1. ASSUME NEW c, Triggered(c) PROVE Mailing
    BY <1>1, <1>2, <2>1 DEF Triggered
  <2>2. Record => Mailing
    BY <1>1, <1>2, <1>3 DEF Record
  <2>. QED
    BY <1>3, <1>6, <2>1, <2>2 DEF TakeEvent
<1>7. CASE \E c \in Canary : WriteCanary(c) \/ Register(c) \/ Touch(c) \/ Read(c)
  BY <1>3, <1>7 DEF WriteCanary, Created, Register, Touch, Read, respVars
<1>8. CASE WriteCanaryFails \/ StartLoop \/ Stop \/ Change
  BY <1>3, <1>8 DEF WriteCanaryFails, Created, StartLoop, Stop, Change, respVars
<1>9. CASE UNCHANGED respVars
  BY <1>3, <1>9 DEF respVars
<1>. QED
  BY <1>4, <1>5, <1>6, <1>7, <1>8, <1>9 DEF Next, vars

LEMMA CountedNext == Counted /\ [Next]_vars => Counted'
<1> SUFFICES ASSUME Counted, Mailing PROVE Counted'
  BY NextMails
<1>1. MaxMailers \in Nat
  BY RespAssumption
<1>. QED
  BY <1>1 DEF Counted, Mailing

LEMMA RestNext == RestTypes /\ [Next]_vars => RestTypes'
<1> SUFFICES ASSUME RestTypes, [Next]_vars PROVE RestTypes'
  OBVIOUS
<1>1. ASSUME writes' \in {writes, writes + 1}, polls' \in {polls, polls + 1},
             phase' \in {phase, "start", "on", "off"},
             reads' = reads \/ \E c \in Canary : reads' = [reads EXCEPT ![c] = @ + 1]
      PROVE  RestTypes'
  BY <1>1 DEF RestTypes
<1>2. RespNext => writes' \in {writes, writes + 1}
  BY DEF RespNext, Tick, Send, UserWrite, Expire, StartDeepScan, FromCache, AskBazaar, AskTotal,
         CacheResult, Judge, Move, Match
<1>3. RespNext /\ UNCHANGED <<netVars, watchVars>> => RestTypes'
  BY <1>1, <1>2 DEF netVars, watchVars, canaryVars
<1>4. NetNext /\ UNCHANGED <<respVars, watchVars>> => RestTypes'
  BY <1>1 DEF NetNext, Poll, respVars, watchVars, canaryVars
<1>5. (\E c \in Canary : WriteCanary(c) \/ Register(c) \/ Touch(c) \/ Read(c)) => RestTypes'
  BY <1>1 DEF WriteCanary, Created, Register, Touch, Read, respVars, netVars
<1>6. WriteCanaryFails \/ StartLoop \/ Stop \/ Change => RestTypes'
  BY <1>1 DEF WriteCanaryFails, Created, StartLoop, Stop, Change, respVars, netVars, canaryVars
<1>7. Restart => RestTypes'
  BY <1>1 DEF Restart, RespRestart, NetRestart
<1>8. TakeEvent => RestTypes'
  BY <1>1 DEF TakeEvent, Triggered, netVars, canaryVars
<1>9. UNCHANGED vars => RestTypes'
  BY <1>1 DEF vars, respVars, netVars, watchVars, canaryVars
<1>. QED
  BY <1>3, <1>4, <1>5, <1>6, <1>7, <1>8, <1>9 DEF Next

SensorsInv ==
  /\ FeedInv /\ MailInv /\ SeenInv /\ BeaconInv /\ WatchInv /\ BurstInv
  /\ Fitted /\ Counted /\ RestTypes

(* The types of a scan go with its step. *)
LEMMA ScanTyped == FeedInv /\ Fitted => \A g \in DeepScan : ScanOK(scan[g])
<1> SUFFICES ASSUME FeedInv, Fitted, NEW g \in DeepScan PROVE ScanOK(scan[g])
  OBVIOUS
<1>1. PICK s : s = scan[g]
  OBVIOUS
<1>2. s \in {Idle} \cup [pc : {"match"}, path : Path] \cup Scanning /\ Fitting(s)
  BY <1>1 DEF FeedInv, FeedTypes, Fitted
<1>3. CASE s \in Scanning
  <2>1. /\ s.pc \in Steps /\ s.path \in Path /\ s.hash \in Content
        /\ s.outage \in BOOLEAN /\ s.overtaken \in BOOLEAN
    BY <1>3 DEF Scanning
  <2>2. /\ s.pc = "store" => s.verdict \in answers[s.hash]
        /\ s.pc = "judge" => s.verdict \in answers[s.hash] \/ (s.verdict = "unknown" /\ s.outage)
    BY <1>1, <1>3 DEF FeedInv, Justified
  <2>3. answers[s.hash] \subseteq Verdict
    BY <2>1 DEF FeedInv, FeedTypes
  <2>4. /\ s.pc \in {"cache", "bazaar", "total"} => s.verdict = None
        /\ s.pc = "move" => s.verdict \in Bad \cup {"unknown"}
    BY <1>2, <1>3 DEF Fitting
  <2>5. s.verdict \in CASE s.pc \in {"cache", "bazaar", "total"} -> {None}
                        [] s.pc = "store" -> Verdict
                        [] s.pc = "move" -> Bad \cup {"unknown"}
                        [] OTHER -> Verdict \cup {"unknown"}
    BY <2>1, <2>2, <2>3, <2>4 DEF Steps
  <2>. QED
    BY <1>1, <2>1, <2>5 DEF ScanOK, Steps
<1>4. CASE s \in {Idle} \cup [pc : {"match"}, path : Path]
  BY <1>1, <1>4 DEF ScanOK
<1>. QED
  BY <1>2, <1>3, <1>4

(* Every variable has its type in every state: a scan has the verdict its  *)
(* step allows, and never more goroutines wait to mail than the bound.     *)
THEOREM TypesHold == Spec => []TypeOK
<1>1. SensorsInv => TypeOK
  <2> SUFFICES ASSUME SensorsInv PROVE TypeOK
    OBVIOUS
  <2>1. RespTypeOK
    <3>1. DOMAIN scan = DeepScan /\ \A g \in DeepScan : ScanOK(scan[g])
      BY ScanTyped DEF SensorsInv, FeedInv, FeedTypes
    <3>. QED
      BY <3>1 DEF SensorsInv, RespTypeOK, FeedInv, FeedTypes, MailInv, MailTypes, WatchInv,
                  WatchTypes, RestTypes, Counted
  <2>2. NetTypeOK
    BY DEF SensorsInv, NetTypeOK, SeenInv, SeenTypes, BeaconInv, BeaconTypes, RestTypes
  <2>. QED
    BY <2>1, <2>2 DEF SensorsInv, TypeOK, WatchInv, WatchTypes, BurstInv, BurstTypes, RestTypes
<1>2. Init => SensorsInv
  <2> SUFFICES ASSUME Init PROVE SensorsInv
    OBVIOUS
  <2>1. FeedInv /\ MailInv /\ SeenInv /\ BeaconInv /\ WatchInv /\ BurstInv
    BY FeedInit, MailInit, NetInvInit, WatchInit, BurstInit DEF Init
  <2>2. Fitted
    BY RestingFits DEF Init, RespInit, Fitted
  <2>3. Counted /\ RestTypes
    BY RespAssumption DEF Init, RespInit, NetInit, Counted, RestTypes
  <2>. QED
    BY <2>1, <2>2, <2>3 DEF SensorsInv
<1>3. SensorsInv /\ [Next]_vars => SensorsInv'
  BY FeedInvNext, MailInvNext, SeenInvNext, BeaconInvNext, WatchInvNext, BurstInvNext,
     FittedNext, CountedNext, RestNext DEF SensorsInv
<1>. QED
  BY <1>1, <1>2, <1>3, PTL DEF Spec
===========================================================================
