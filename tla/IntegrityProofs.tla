-------------------------- MODULE IntegrityProofs --------------------------
(***************************************************************************)
(* Proofs about Integrity for any number of files, contents and            *)
(* goroutines and any bounds: the type invariant, that no row calls a file *)
(* clean that is not (StampSound), that nothing becomes the baseline       *)
(* without an event or a rebuild (NothingSilent), and that the watcher     *)
(* comes to see the last write (LastWriteSeen).                            *)
(***************************************************************************)
EXTENDS Integrity, FiniteSetTheorems, TLAPS

---------------------------------------------------------------------------
(* The folder.  A time of modification that is this second belongs to a    *)
(* file that is hot: the next write of it within the second is seen to.    *)

Dated(p, m) == m \in 0..clock /\ (m = clock => p \in hot)

FilesOK ==
  /\ clock \in 1..MaxClock
  /\ DOMAIN disk \subseteq Path
  /\ \A p \in DOMAIN disk : /\ disk[p].content \in Content /\ Dated(p, disk[p].mtime)
                            /\ disk[p] \in [content : Content, mtime : 0..clock]

(* A record of p with the time the file has now has its content; whatever  *)
(* the order in which stat, hash and writes took place.                    *)
Stamped(p, r) ==
  /\ Dated(p, r.mtime)
  /\ p \in DOMAIN disk \ fooled /\ r.mtime = disk[p].mtime => r.hash = disk[p].content

(* What may be relied upon from step to step. *)
Time ==
  /\ known \subseteq known'
  /\ \A p, m : Dated(p, m) => Dated(p, m)'
  /\ \A p, r : Stamped(p, r) => Stamped(p, r)'

LEMMA WithoutIs ==
  ASSUME NEW f, NEW p
  PROVE  /\ DOMAIN Without(f, p) = DOMAIN f \ {p}
         /\ \A q \in DOMAIN f \ {p} : Without(f, p)[q] = f[q]
  BY DEF Without, Restrict

LEMMA FilesInit == Init => FilesOK
  BY BoundAssumption DEF Init, FilesOK, Dated

LEMMA StillTime ==
  ASSUME UNCHANGED userVars, known \subseteq known'
  PROVE  Time
  BY DEF userVars, Time, Dated, Stamped

LEMMA StillFiles == FilesOK /\ UNCHANGED userVars => FilesOK'
  BY DEF userVars, FilesOK, Dated

LEMMA WriteFiles ==
  ASSUME FilesOK, NEW p \in Path, NEW c \in Content, UserWrite(p, c)
  PROVE  FilesOK' /\ Time
<1>0. PICK f : f = [content |-> c, mtime |-> clock]
  OBVIOUS
<1>1. /\ disk' = Put(disk, p, f) /\ hot' = hot \cup {p} /\ clock' = clock /\ known' = known
      /\ fooled' = IF p \in hot THEN fooled \cup {p} ELSE fooled
  BY <1>0 DEF UserWrite
<1>2. /\ DOMAIN disk' = DOMAIN disk \cup {p} /\ disk'[p] = f
      /\ \A q \in DOMAIN disk \ {p} : disk'[q] = disk[q]
  <2>1. /\ DOMAIN Put(disk, p, f) = DOMAIN disk \cup {p} /\ Put(disk, p, f)[p] = f
        /\ \A q \in DOMAIN disk \ {p} : Put(disk, p, f)[q] = disk[q]
    BY DEF Put, Over
  <2>. QED
    BY <1>1, <2>1
<1>3. clock \in Nat
  BY BoundAssumption DEF FilesOK
<1>4. \A q, m : Dated(q, m) => Dated(q, m)'
  BY <1>1 DEF Dated
<1>5. FilesOK'
  BY <1>0, <1>1, <1>2, <1>3, <1>4 DEF FilesOK, Dated
<1>6. ASSUME NEW q, NEW r, Stamped(q, r) PROVE Stamped(q, r)'
  <2>1. Dated(q, r.mtime)'
    BY <1>4, <1>6 DEF Stamped
  <2>2. ASSUME q \in DOMAIN disk' \ fooled', r.mtime = disk'[q].mtime PROVE r.hash = disk'[q].content
    <3>1. CASE q = p
      BY <1>0, <1>1, <1>2, <1>6, <2>2, <3>1 DEF Stamped, Dated
    <3>2. CASE q # p
      BY <1>1, <1>2, <1>6, <2>2, <3>2 DEF Stamped
    <3>. QED
      BY <3>1, <3>2
  <2>. QED
    BY <2>1, <2>2 DEF Stamped
<1>. QED
  BY <1>1, <1>4, <1>5, <1>6 DEF Time

LEMMA UnlinkFiles ==
  ASSUME FilesOK, NEW p \in Path, Unlink(p)
  PROVE  FilesOK' /\ Time
<1>1. disk' = Without(disk, p) /\ UNCHANGED <<hot, clock, known, fooled>>
  BY DEF Unlink
<1>2. DOMAIN disk' = DOMAIN disk \ {p} /\ \A q \in DOMAIN disk \ {p} : disk'[q] = disk[q]
  BY <1>1, WithoutIs
<1>3. FilesOK'
  BY <1>1, <1>2 DEF FilesOK, Dated
<1>. QED
  BY <1>1, <1>2, <1>3 DEF Time, Dated, Stamped

LEMMA SecondFiles == FilesOK /\ Second => FilesOK' /\ Time
<1> SUFFICES ASSUME FilesOK, Second PROVE FilesOK' /\ Time
  OBVIOUS
<1>1. /\ clock < MaxClock /\ clock' = clock + 1 /\ hot' = {}
      /\ UNCHANGED <<disk, fooled, known>>
  BY DEF Second
<1>2. clock \in Nat /\ MaxClock \in Nat /\ clock >= 1
  BY BoundAssumption DEF FilesOK
<1>3. \A q, m : Dated(q, m) => Dated(q, m)'
  BY <1>1, <1>2 DEF Dated
<1>4. FilesOK'
  BY <1>1, <1>2, <1>3 DEF FilesOK, Dated
<1>. QED
  BY <1>1, <1>3, <1>4 DEF Time, Stamped

LEMMA FilesNext == FilesOK /\ [Next]_vars => FilesOK' /\ Time
<1> SUFFICES ASSUME FilesOK, [Next]_vars PROVE FilesOK' /\ Time
  OBVIOUS
<1>1. CASE UNCHANGED userVars /\ known \subseteq known'
  BY <1>1, StillTime, StillFiles
<1>2. CASE UNCHANGED vars
  BY <1>1, <1>2 DEF vars
<1>3. ASSUME NEW j \in Job, StartScan(j) \/ StartRebuild(j) \/ WriteFails(j) \/ JobStep(j)
      PROVE  UNCHANGED userVars /\ known \subseteq known'
  <2>1. CASE StartScan(j) \/ StartRebuild(j) \/ WriteFails(j)
    BY <2>1 DEF StartScan, StartRebuild, WriteFails
  <2>2. CASE (\E p \in Path : LookAt(j, p)) \/ Summarise(j) \/ UpdateBaseline(j)
    BY <2>2 DEF LookAt, Summarise, UpdateBaseline
  <2>3. CASE HashFile(j) \/ Store(j)
    BY <2>3 DEF HashFile, Store
  <2>. QED
    BY <1>3, <2>1, <2>2, <2>3 DEF JobStep
<1>4. CASE Watch
  <2>1. UNCHANGED userVars /\ known \subseteq known'
    BY <1>4 DEF Watch, TakeEvent, Drain, ProcessFile, Compare
  <2>. QED
    BY <1>1, <2>1
<1>5. CASE ReadFails
  <2>1. UNCHANGED userVars /\ known \subseteq known'
    BY <1>5 DEF ReadFails, HashFileFails, ProcessFileFails
  <2>. QED
    BY <1>1, <2>1
<1>. QED
  BY <1>1, <1>2, <1>3, <1>4, <1>5, WriteFiles, UnlinkFiles, SecondFiles DEF Next

---------------------------------------------------------------------------
(* Scans and rebuilds.  What they are to write is stamped, and told of.    *)

Recorded(p, r) == r \in Row /\ Stamped(p, r) /\ <<p, r.hash>> \in known

Gathered(f) == DOMAIN f \subseteq Path /\ \A p \in DOMAIN f : Recorded(p, f[p])

WalkOK(d) ==
  /\ d.kind \in {"scan", "rebuild"} /\ d.left \subseteq Path /\ Gathered(d.recs)
  /\ d.pc = "walk" => d = Walk(d.kind, d.left, d.recs)

(* A file that has been opened: the time is of that moment; and the hash   *)
(* of the row a scan compares with has been told of.                       *)
OpenOK(d) ==
  /\ d = [kind |-> d.kind, pc |-> d.pc, left |-> d.left, recs |-> d.recs, path |-> d.path,
          base |-> d.base, size |-> d.size, mtime |-> d.mtime]
  /\ d.path \in Path /\ d.size \in Bytes /\ Dated(d.path, d.mtime)
  /\ d.pc = "hash" /\ d.kind = "scan" /\ d.base # NoHash => <<d.path, d.base>> \in known
  /\ d.pc = "store" =>
       /\ d.kind = "rebuild" /\ d.base \in Content
       /\ Stamped(d.path, [hash |-> d.base, size |-> d.size, mtime |-> d.mtime])

JobOK(d) ==
  \/ d = Resting
  \/ d.pc = "walk" /\ WalkOK(d)
  \/ d.pc \in {"hash", "store"} /\ WalkOK(d) /\ OpenOK(d)

JobsOK == job \in [Job -> {job[j] : j \in Job}] /\ \A j \in Job : JobOK(job[j])

(* Nothing that is gathered goes bad. *)
LEMMA RecordedStays ==
  ASSUME Time, NEW p, NEW r, Recorded(p, r)
  PROVE  Recorded(p, r)'
  BY DEF Time, Recorded, Row, Bytes

LEMMA GatheredStays ==
  ASSUME Time, NEW f, Gathered(f)
  PROVE  Gathered(f)'
<1> SUFFICES ASSUME NEW p \in DOMAIN f PROVE Recorded(p, f[p])'
  BY DEF Gathered
<1>1. PICK r : r = f[p] /\ Recorded(p, r)
  BY DEF Gathered
<1>. QED
  BY <1>1, RecordedStays DEF Recorded, Stamped, Dated

LEMMA JobStays ==
  ASSUME Time, NEW d, JobOK(d)
  PROVE  JobOK(d)'
<1>1. ASSUME WalkOK(d) PROVE WalkOK(d)'
  <2>1. PICK f : f = d.recs
    OBVIOUS
  <2>2. Gathered(f)'
    BY <1>1, <2>1, GatheredStays DEF WalkOK
  <2>. QED
    BY <1>1, <2>1, <2>2 DEF WalkOK, Walk, Gathered, Recorded, Stamped, Dated
<1>2. ASSUME OpenOK(d) PROVE OpenOK(d)'
  <2>1. PICK r : r = [hash |-> d.base, size |-> d.size, mtime |-> d.mtime]
    OBVIOUS
  <2>2. Dated(d.path, d.mtime)'
    BY <1>2 DEF Time, OpenOK
  <2>3. Stamped(d.path, r) => Stamped(d.path, r)'
    BY DEF Time
  <2>4. d.pc = "hash" /\ d.kind = "scan" /\ d.base # NoHash => <<d.path, d.base>> \in known'
    BY <1>2 DEF Time, OpenOK
  <2>. QED
    BY <1>2, <2>1, <2>2, <2>3, <2>4 DEF OpenOK, Bytes
<1>. QED
  BY <1>1, <1>2 DEF JobOK, Resting

LEMMA AllStay ==
  ASSUME Time, JobsOK, UNCHANGED job
  PROVE  JobsOK'
<1>1. ASSUME NEW j \in Job PROVE JobOK(job[j])'
  <2>1. PICK d : d = job[j]
    OBVIOUS
  <2>2. JobOK(d)'
    BY <2>1, JobStays DEF JobsOK
  <2>. QED
    BY <2>1, <2>2
<1>. QED
  BY <1>1 DEF JobsOK

(* One goroutine makes a step, to d. *)
LEMMA JobMoves ==
  ASSUME Time, JobsOK, NEW j \in Job, NEW d, JobOK(d)', job' = [job EXCEPT ![j] = d]
  PROVE  JobsOK'
<1>1. ASSUME NEW i \in Job PROVE JobOK(job[i])'
  <2>1. CASE i = j
    <3>1. job'[i] = d
      BY <2>1 DEF JobsOK
    <3>. QED
      BY <3>1
  <2>2. CASE i # j
    <3>1. PICK e : e = job[i] /\ job'[i] = e
      BY <2>2 DEF JobsOK
    <3>2. JobOK(e)'
      BY <3>1, JobStays DEF JobsOK
    <3>. QED
      BY <3>1, <3>2
  <2>. QED
    BY <2>1, <2>2
<1>2. job' \in [Job -> {job'[i] : i \in Job}]
  BY DEF JobsOK
<1>. QED
  BY <1>1, <1>2 DEF JobsOK

LEMMA WalkingOK ==
  ASSUME NEW k \in {"scan", "rebuild"}, NEW L \in SUBSET Path, NEW f, Gathered(f)'
  PROVE  JobOK(Walk(k, L, f))'
  BY DEF JobOK, WalkOK, Walk

LEMMA GatheredMore ==
  ASSUME NEW f, Gathered(f), NEW p \in Path, NEW r, Recorded(p, r)
  PROVE  Gathered(Put(f, p, r))
<1>1. PICK g : g = Put(f, p, r)
  OBVIOUS
<1>2. DOMAIN g = DOMAIN f \cup {p} /\ g[p] = r /\ \A q \in DOMAIN f \ {p} : g[q] = f[q]
  BY <1>1 DEF Put, Over
<1>3. Gathered(g)
  BY <1>2 DEF Gathered
<1>. QED
  BY <1>1, <1>3

(* A step at a time. *)
LEMMA StartJob ==
  ASSUME FilesOK, Time, JobsOK, NEW j \in Job, StartScan(j) \/ StartRebuild(j)
  PROVE  JobsOK'
<1>1. PICK k \in {"scan", "rebuild"}, L \in SUBSET Path :
        job' = [job EXCEPT ![j] = Walk(k, L, <<>>)]
  BY DEF StartScan, StartRebuild, FilesOK
<1>2. Gathered(<<>>)'
  BY DEF Gathered
<1>3. JobOK(Walk(k, L, <<>>))'
  BY <1>2, WalkingOK
<1>. QED
  BY <1>1, <1>3, JobMoves

TablesOK == Gathered(baseline)

LEMMA LookAtOK ==
  ASSUME FilesOK, Time, JobsOK, TablesOK, NEW j \in Job, NEW p \in Path, LookAt(j, p)
  PROVE  JobsOK'
<1>1. PICK d : d = job[j]
  OBVIOUS
<1>2. /\ d = Walk(d.kind, d.left, d.recs) /\ d.kind \in {"scan", "rebuild"}
      /\ d.left \subseteq Path /\ d.left \ {p} \subseteq Path /\ Gathered(d.recs)
  BY <1>1 DEF LookAt, JobsOK, JobOK, WalkOK, Resting
<1>3. PICK k, L, f : k = d.kind /\ L = d.left \ {p} /\ f = d.recs
  OBVIOUS
<1>4. Gathered(f)'
  BY <1>2, <1>3, GatheredStays
<1>5. CASE job' = [job EXCEPT ![j].left = @ \ {p}]
  <2>1. [d EXCEPT !.left = @ \ {p}] = Walk(k, L, f)
    BY <1>2, <1>3 DEF Walk
  <2>2. job' = [job EXCEPT ![j] = Walk(k, L, f)]
    BY <1>1, <1>5, <2>1
  <2>. QED
    BY <1>2, <1>3, <1>4, <2>2, WalkingOK, JobMoves
<1>6. CASE Exists(p) /\ job' = [job EXCEPT ![j] = Opened(@, p)]
  <2>1. PICK b, s, m : b = (IF k = "scan" THEN RowOf(p).hash ELSE NoHash) /\ s = SizeOf(p) /\ m = disk[p].mtime
    OBVIOUS
  <2>2. PICK e : e = [kind |-> k, pc |-> "hash", left |-> L, recs |-> f, path |-> p,
                      base |-> b, size |-> s, mtime |-> m]
    OBVIOUS
  <2>3. job' = [job EXCEPT ![j] = e]
    BY <1>1, <1>3, <1>6, <2>1, <2>2 DEF Opened
  <2>4. s \in Bytes /\ Dated(p, m)
    BY <1>6, <2>1 DEF FilesOK, Exists, SizeOf, Bytes
  <2>5. Dated(p, m)'
    BY <2>4 DEF Time
  <2>6. k = "scan" /\ b # NoHash => <<p, b>> \in known'
    BY <2>1 DEF TablesOK, Gathered, Recorded, RowOf, Time
  <2>7. WalkOK(e)'
    BY <1>2, <1>3, <1>4, <2>2 DEF WalkOK
  <2>8. OpenOK(e)'
    BY <2>2, <2>4, <2>5, <2>6 DEF OpenOK, Bytes
  <2>9. JobOK(e)'
    BY <2>2, <2>7, <2>8 DEF JobOK
  <2>. QED
    BY <2>3, <2>9, JobMoves
<1>. QED
  BY <1>5, <1>6 DEF LookAt

(* The file is read: what is found is what it has now. *)
LEMMA FoundOK ==
  ASSUME FilesOK, NEW d, OpenOK(d), Exists(d.path)
  PROVE  LET r == [hash |-> disk[d.path].content, size |-> d.size, mtime |-> d.mtime]
         IN  r \in Row /\ Stamped(d.path, r)
<1>1. disk[d.path].content \in Content /\ d.size \in Bytes /\ d.mtime \in 0..clock
  BY DEF FilesOK, Exists, OpenOK, Dated
<1>2. d.mtime \in 0..MaxClock
  BY <1>1, BoundAssumption DEF FilesOK
<1>. QED
  BY <1>1, <1>2 DEF Row, Stamped, OpenOK

LEMMA HashFileOK ==
  ASSUME FilesOK, Time, JobsOK, NEW j \in Job, HashFile(j)
  PROVE  JobsOK'
<1>1. PICK d : d = job[j]
  OBVIOUS
<1>2. /\ d.pc = "hash" /\ OpenOK(d) /\ d.kind \in {"scan", "rebuild"}
      /\ d.left \subseteq Path /\ Gathered(d.recs) /\ d.path \in Path
  BY <1>1 DEF HashFile, JobsOK, JobOK, WalkOK, Resting, OpenOK
<1>3. PICK k, L, f, p, c : k = d.kind /\ L = d.left /\ f = d.recs /\ p = d.path /\ c = disk[p].content
  OBVIOUS
<1>4. PICK r : r = [hash |-> c, size |-> d.size, mtime |-> d.mtime]
  OBVIOUS
<1>5. Gathered(f)'
  BY <1>2, <1>3, GatheredStays
<1>6. CASE ~Exists(p)
  <2>1. job' = [job EXCEPT ![j] = Walk(k, L, f)]
    BY <1>1, <1>3, <1>6 DEF HashFile
  <2>. QED
    BY <1>2, <1>3, <1>5, <2>1, WalkingOK, JobMoves
<1>7. ASSUME Exists(p) PROVE r \in Row /\ Stamped(p, r) /\ Stamped(p, r)'
  BY <1>2, <1>3, <1>4, <1>7, FoundOK DEF Time
<1>8. CASE Exists(p) /\ k = "scan"
  <2>1. job' = [job EXCEPT ![j] = Walk(k, L, Put(f, p, r))]
    BY <1>1, <1>3, <1>4, <1>8 DEF HashFile, Found
  <2>2. <<p, c>> \in known'
    <3>1. CASE d.base # c
      BY <1>1, <1>3, <1>8, <3>1 DEF HashFile, Told
    <3>2. CASE d.base = c
      <4>1. c # NoHash
        BY <1>3, <1>8, SizeAssumption DEF FilesOK, Exists
      <4>. QED
        BY <1>2, <1>3, <1>8, <3>2, <4>1 DEF OpenOK, Time
    <3>. QED
      BY <3>1, <3>2
  <2>3. Recorded(p, r)'
    BY <1>4, <1>7, <1>8, <2>2 DEF Recorded, Row, Bytes
  <2>4. PICK g : g = Put(f, p, r)
    OBVIOUS
  <2>5. Gathered(g)'
    <3>1. DOMAIN g = DOMAIN f \cup {p} /\ g[p] = r /\ \A q \in DOMAIN f \ {p} : g[q] = f[q]
      BY <2>4 DEF Put, Over
    <3>. QED
      BY <1>2, <1>3, <1>5, <2>3, <3>1 DEF Gathered
  <2>. QED
    BY <1>2, <1>3, <2>1, <2>4, <2>5, WalkingOK, JobMoves
<1>9. CASE Exists(p) /\ k # "scan"
  <2>1. PICK e : e = [kind |-> k, pc |-> "store", left |-> L, recs |-> f, path |-> p,
                      base |-> c, size |-> d.size, mtime |-> d.mtime]
    OBVIOUS
  <2>2. [d EXCEPT !.pc = "store", !.base = c] = e
    <3>1. d = [kind |-> k, pc |-> "hash", left |-> L, recs |-> f, path |-> p,
               base |-> d.base, size |-> d.size, mtime |-> d.mtime]
      BY <1>2, <1>3 DEF OpenOK
    <3>2. ASSUME NEW u, u = [d EXCEPT !.pc = "store"] PROVE [u EXCEPT !.base = c] = e
      <4>1. u = [kind |-> k, pc |-> "store", left |-> L, recs |-> f, path |-> p,
                 base |-> d.base, size |-> d.size, mtime |-> d.mtime]
        BY <3>1, <3>2
      <4>. QED
        BY <2>1, <4>1
    <3>. QED
      BY <3>2, Zenon
  <2>3. job' = [job EXCEPT ![j] = e]
    BY <1>1, <1>3, <1>9, <2>2 DEF HashFile
  <2>4. WalkOK(e)'
    BY <1>2, <1>3, <1>5, <2>1 DEF WalkOK
  <2>5. OpenOK(e)'
    <3>1. r.hash = c /\ c \in Content /\ d.size \in Bytes
      BY <1>2, <1>3, <1>4, <1>9 DEF FilesOK, Exists, OpenOK
    <3>2. Dated(p, d.mtime)'
      BY <1>2, <1>3 DEF OpenOK, Time
    <3>. QED
      BY <1>2, <1>3, <1>4, <1>7, <1>9, <2>1, <3>1, <3>2 DEF OpenOK, Bytes
  <2>6. JobOK(e)'
    BY <2>1, <2>4, <2>5 DEF JobOK
  <2>. QED
    BY <2>3, <2>6, JobMoves
<1>. QED
  BY <1>6, <1>8, <1>9

LEMMA HashFailsOK ==
  ASSUME Time, JobsOK, NEW j \in Job, HashFileFails(j)
  PROVE  JobsOK'
<1>1. PICK d : d = job[j]
  OBVIOUS
<1>2. d.pc = "hash" /\ d.kind \in {"scan", "rebuild"} /\ d.left \subseteq Path /\ Gathered(d.recs)
  BY <1>1 DEF HashFileFails, JobsOK, JobOK, WalkOK, Resting
<1>3. PICK k, L, f : k = d.kind /\ L = d.left /\ f = d.recs
  OBVIOUS
<1>4. Gathered(f)' /\ job' = [job EXCEPT ![j] = Walk(k, L, f)]
  BY <1>1, <1>2, <1>3, GatheredStays DEF HashFileFails
<1>. QED
  BY <1>2, <1>3, <1>4, WalkingOK, JobMoves

(* What a job writes. *)
LEMMA TablesStay == Time /\ TablesOK /\ UNCHANGED baseline => TablesOK'
<1> SUFFICES ASSUME Time, TablesOK, UNCHANGED baseline PROVE TablesOK'
  OBVIOUS
<1>1. PICK f : f = baseline
  OBVIOUS
<1>2. Gathered(f)'
  BY <1>1, GatheredStays DEF TablesOK
<1>. QED
  BY <1>1, <1>2 DEF TablesOK, Gathered, Recorded, Stamped, Dated

LEMMA StoreOK ==
  ASSUME Time, JobsOK, TablesOK, FilesOK, NEW j \in Job, Store(j)
  PROVE  JobsOK' /\ TablesOK'
<1>1. PICK d : d = job[j]
  OBVIOUS
<1>2. /\ d.pc = "store" /\ OpenOK(d) /\ d.kind \in {"scan", "rebuild"}
      /\ d.left \subseteq Path /\ Gathered(d.recs)
  BY <1>1 DEF Store, JobsOK, JobOK, WalkOK, Resting
<1>3. PICK k, L, f, p, r, b :
        /\ k = d.kind /\ L = d.left /\ f = d.recs /\ p = d.path /\ b = baseline
        /\ r = [hash |-> d.base, size |-> d.size, mtime |-> d.mtime]
  OBVIOUS
<1>4. p \in Path /\ r \in Row /\ Stamped(p, r) /\ <<p, r.hash>> \in known'
  <2>1. d.mtime \in 0..MaxClock
    BY <1>2, BoundAssumption DEF OpenOK, Dated, FilesOK
  <2>2. <<p, r.hash>> \in known'
    BY <1>1, <1>3 DEF Store
  <2>. QED
    BY <1>2, <1>3, <2>1, <2>2 DEF OpenOK, Row
<1>5. Recorded(p, r)'
  BY <1>4 DEF Time, Recorded, Row, Bytes
<1>6. Gathered(f)' /\ Gathered(b)'
  BY <1>2, <1>3, GatheredStays DEF TablesOK
<1>7. ASSUME NEW h, Gathered(h)' PROVE Gathered(Put(h, p, r))'
  <2>1. PICK g : g = Put(h, p, r)
    OBVIOUS
  <2>2. DOMAIN g = DOMAIN h \cup {p} /\ g[p] = r /\ \A q \in DOMAIN h \ {p} : g[q] = h[q]
    BY <2>1 DEF Put, Over
  <2>3. Gathered(g)'
    BY <1>4, <1>5, <1>7, <2>2 DEF Gathered
  <2>. QED
    BY <2>1, <2>3
<1>8. JobsOK'
  <2>1. job' = [job EXCEPT ![j] = Walk(k, L, Put(f, p, r))]
    BY <1>1, <1>3 DEF Store
  <2>2. PICK g : g = Put(f, p, r)
    OBVIOUS
  <2>3. Gathered(g)'
    BY <1>6, <1>7, <2>2
  <2>. QED
    BY <1>2, <1>3, <2>1, <2>2, <2>3, WalkingOK, JobMoves
<1>9. TablesOK'
  <2>1. PICK g : g = Put(b, p, r)
    OBVIOUS
  <2>2. baseline' = g
    BY <1>1, <1>3, <2>1 DEF Store
  <2>3. Gathered(g)'
    BY <1>6, <1>7, <2>1
  <2>. QED
    BY <2>2, <2>3 DEF TablesOK, Gathered, Recorded, Stamped, Dated
<1>. QED
  BY <1>8, <1>9

LEMMA RestOK ==
  ASSUME Time, JobsOK, NEW j \in Job, job' = [job EXCEPT ![j] = Resting]
  PROVE  JobsOK'
<1>1. JobOK(Resting)'
  BY DEF JobOK, Resting
<1>2. PICK d : d = Resting
  OBVIOUS
<1>. QED
  BY <1>1, <1>2, JobMoves DEF Resting

LEMMA UpdateBaselineOK ==
  ASSUME Time, JobsOK, TablesOK, NEW j \in Job, UpdateBaseline(j)
  PROVE  JobsOK' /\ TablesOK'
<1>1. job' = [job EXCEPT ![j] = Resting]
  BY DEF UpdateBaseline
<1>2. PICK f, b, g : f = job[j].recs /\ b = baseline /\ g = Over(f, b)
  OBVIOUS
<1>3. Gathered(f) /\ Gathered(b)
  BY <1>2 DEF UpdateBaseline, JobsOK, JobOK, WalkOK, Resting, TablesOK
<1>4. Gathered(f)' /\ Gathered(b)'
  BY <1>3, GatheredStays
<1>5. Gathered(g)'
  <2>1. DOMAIN g = DOMAIN f \cup DOMAIN b /\ \A q \in DOMAIN g : g[q] = IF q \in DOMAIN f THEN f[q] ELSE b[q]
    BY <1>2 DEF Over
  <2>. QED
    BY <1>4, <2>1 DEF Gathered
<1>6. baseline' = g
  BY <1>2 DEF UpdateBaseline
<1>7. TablesOK'
  BY <1>5, <1>6 DEF TablesOK, Gathered, Recorded, Stamped, Dated
<1>. QED
  BY <1>1, <1>7, RestOK

ScansOK == FilesOK /\ JobsOK /\ TablesOK

LEMMA ScansInit == Init => ScansOK
<1> SUFFICES ASSUME Init PROVE ScansOK
  OBVIOUS
<1>1. job = [j \in Job |-> Resting] /\ baseline = <<>>
  BY DEF Init
<1>2. JobsOK
  BY <1>1 DEF JobsOK, JobOK
<1>3. TablesOK
  BY <1>1 DEF TablesOK, Gathered
<1>. QED
  BY <1>2, <1>3, FilesInit DEF ScansOK

LEMMA ScansNext == ScansOK /\ [Next]_vars => ScansOK'
<1> SUFFICES ASSUME ScansOK, [Next]_vars PROVE ScansOK'
  OBVIOUS
<1>1. FilesOK /\ FilesOK' /\ Time /\ JobsOK /\ TablesOK
  BY FilesNext DEF ScansOK
<1>2. CASE UNCHANGED <<job, baseline>>
  BY <1>1, <1>2, AllStay, TablesStay DEF ScansOK
<1>3. CASE \/ \E p \in Path, c \in Content : UserWrite(p, c)
           \/ \E p \in Path : Unlink(p)
           \/ Second \/ Watch \/ UNCHANGED vars
           \/ \E p \in Path : ProcessFileFails(p)
  <2>1. UNCHANGED <<job, baseline>>
    BY <1>3 DEF UserWrite, Unlink, Second, Watch, TakeEvent, Drain, ProcessFile, ProcessFileFails,
                Compare, vars, tables
  <2>. QED
    BY <1>2, <2>1
<1>4. ASSUME NEW j \in Job, StartScan(j) \/ StartRebuild(j) PROVE ScansOK'
  <2>1. UNCHANGED baseline
    BY <1>4 DEF StartScan, StartRebuild, tables
  <2>. QED
    BY <1>1, <1>4, <2>1, StartJob, TablesStay DEF ScansOK
<1>5. ASSUME NEW j \in Job, WriteFails(j) \/ Summarise(j) PROVE ScansOK'
  <2>1. UNCHANGED baseline /\ job' = [job EXCEPT ![j] = Resting]
    BY <1>5 DEF WriteFails, Summarise, tables
  <2>. QED
    BY <1>1, <2>1, RestOK, TablesStay DEF ScansOK
<1>6. ASSUME NEW j \in Job, HashFile(j) \/ \E p \in Path : LookAt(j, p) PROVE ScansOK'
  <2>1. UNCHANGED baseline
    BY <1>6 DEF HashFile, LookAt, tables
  <2>. QED
    BY <1>1, <1>6, <2>1, HashFileOK, LookAtOK, TablesStay DEF ScansOK
<1>7. ASSUME NEW j \in Job, Store(j) \/ UpdateBaseline(j) PROVE ScansOK'
  BY <1>1, <1>7, StoreOK, UpdateBaselineOK DEF ScansOK
<1>8. ASSUME NEW j \in Job, HashFileFails(j) PROVE ScansOK'
  <2>1. UNCHANGED baseline
    BY <1>8 DEF HashFileFails, tables
  <2>. QED
    BY <1>1, <1>8, <2>1, HashFailsOK, TablesStay DEF ScansOK
<1>. QED
  BY <1>3, <1>4, <1>5, <1>6, <1>7, <1>8 DEF Next, JobStep, ReadFails

(* A row whose size and time are the file's has its hash, unless the file  *)
(* was written twice in a second: a scan that calls it clean is right.     *)
THEOREM StampsAreSound == Spec => []StampSound
<1>1. ScansOK => StampSound
  <2> SUFFICES ASSUME ScansOK, NEW p \in DOMAIN disk \ fooled, Clean(p)
               PROVE  baseline[p].hash = disk[p].content
    BY DEF StampSound
  <2>1. p \in DOMAIN baseline /\ baseline[p].mtime = disk[p].mtime
    BY DEF Clean, RowOf
  <2>. QED
    BY <2>1 DEF ScansOK, TablesOK, Gathered, Recorded, Stamped
<1>. QED
  BY <1>1, ScansInit, ScansNext, PTL DEF Spec

(* What the baseline takes for good was told of, or stored by a rebuild.   *)
THEOREM NothingIsSilent == Spec => []NothingSilent
<1>1. ScansOK => NothingSilent
  BY DEF ScansOK, TablesOK, Gathered, Recorded, NothingSilent
<1>. QED
  BY <1>1, ScansInit, ScansNext, PTL DEF Spec

---------------------------------------------------------------------------
(* The watcher.  What is on disk was compared last, or is being compared,  *)
(* or there is an event yet to be seen to; a removal is not one.           *)

Event == [path : Path, op : {"change", "remove"}]
Hashed == [path : Path, hash : Content]

WatchTypes ==
  /\ queue \in Seq(Event) /\ pending \subseteq Path /\ ready \subseteq Path
  /\ current = Nobody \/ current \in Hashed
  /\ DOMAIN seen = Path

Queued(q, p) == \E i \in 1..Len(q) : q[i].path = p /\ q[i].op = "change"
Due(p) == Queued(queue, p) \/ p \in pending \cup ready \cup missed

FollowedUp(p) ==
  \/ Due(p)
  \/ current # Nobody /\ current.path = p /\ current.hash = disk[p].content
  \/ (current = Nobody \/ current.path # p) /\ seen[p] = disk[p].content

WatchOK == WatchTypes /\ \A p \in DOMAIN disk : FollowedUp(p)

LEMMA QueuedAppend ==
  ASSUME NEW q \in Seq(Event), NEW e \in Event
  PROVE  /\ Append(q, e) \in Seq(Event)
         /\ e.op = "change" => Queued(Append(q, e), e.path)
         /\ \A p : Queued(q, p) => Queued(Append(q, e), p)
<1>1. PICK r : r = Append(q, e)
  OBVIOUS
<1>2. /\ r \in Seq(Event) /\ Len(q) \in Nat /\ Len(r) = Len(q) + 1 /\ r[Len(r)] = e
      /\ \A i \in 1..Len(q) : r[i] = q[i]
  BY <1>1
<1>3. Len(r) \in 1..Len(r) /\ 1..Len(q) \subseteq 1..Len(r)
  BY <1>2
<1>. QED
  BY <1>1, <1>2, <1>3 DEF Queued

LEMMA QueuedTail ==
  ASSUME NEW q \in Seq(Event), q # <<>>
  PROVE  /\ Tail(q) \in Seq(Event) /\ Head(q) \in Event
         /\ \A p : Queued(q, p) => Queued(Tail(q), p) \/ (Head(q).op = "change" /\ Head(q).path = p)
<1>1. PICK r : r = Tail(q)
  OBVIOUS
<1>2. /\ r \in Seq(Event) /\ Len(q) \in Nat /\ Len(r) = Len(q) - 1 /\ Head(q) = q[1]
      /\ q[1] \in Event /\ \A i \in 1..Len(r) : r[i] = q[i + 1]
  BY <1>1
<1>3. \A i \in 1..Len(q) : i = 1 \/ (i - 1 \in 1..Len(r) /\ q[i] = r[i - 1])
  BY <1>2
<1>. QED
  BY <1>1, <1>2, <1>3 DEF Queued

LEMMA NotifyOK ==
  ASSUME WatchTypes, NEW p \in Path, NEW op \in {"change", "remove"}, Notify(p, op)
  PROVE  /\ queue' \in Seq(Event) /\ missed \subseteq missed'
         /\ op = "change" => Queued(queue', p) \/ p \in missed'
         /\ \A q : Queued(queue, q) => Queued(queue', q)
<1>0. PICK e : e = [path |-> p, op |-> op]
  OBVIOUS
<1>1. e \in Event /\ e.path = p /\ e.op = op
  BY <1>0 DEF Event
<1>2. queue \in Seq(Event)
  BY DEF WatchTypes
<1>3. CASE queue' = Append(queue, e) /\ missed' = missed
  BY <1>1, <1>2, <1>3, QueuedAppend
<1>4. CASE queue' = queue /\ missed' = missed \cup {p}
  BY <1>2, <1>4
<1>. QED
  BY <1>0, <1>3, <1>4 DEF Notify

LEMMA WatchInit == Init => WatchOK
<1> SUFFICES ASSUME Init PROVE WatchOK
  OBVIOUS
<1>1. /\ queue = <<>> /\ pending = {} /\ ready = {} /\ current = Nobody
      /\ disk \in [Path -> [content : Content, mtime : {0}]]
      /\ seen = [p \in Path |-> disk[p].content]
  BY DEF Init
<1>2. WatchTypes
  BY <1>1 DEF WatchTypes
<1>. QED
  BY <1>1, <1>2 DEF WatchOK, FollowedUp

(* The user: every write has an event, or is counted as missed.            *)
LEMMA WriteWatched ==
  ASSUME WatchOK, NEW p \in Path,
         \/ \E c \in Content : UserWrite(p, c)
         \/ Unlink(p)
  PROVE  WatchOK'
<1>1. WatchTypes /\ UNCHANGED <<pending, ready, current, seen>>
  BY DEF WatchOK, UserWrite, Unlink, watchVars
<1>2. PICK op \in {"change", "remove"} :
        /\ Notify(p, op)
        /\ op = "remove" => p \notin DOMAIN disk'
        /\ DOMAIN disk' \subseteq DOMAIN disk \cup {p}
        /\ \A q \in DOMAIN disk' \ {p} : disk'[q] = disk[q]
  <2>1. ASSUME NEW c \in Content, UserWrite(p, c)
        PROVE  /\ Notify(p, "change")
               /\ DOMAIN disk' \subseteq DOMAIN disk \cup {p}
               /\ \A q \in DOMAIN disk' \ {p} : disk'[q] = disk[q]
    BY <2>1 DEF UserWrite, Put, Over
  <2>2. CASE Unlink(p)
    <3>1. Notify(p, "remove") /\ disk' = Without(disk, p)
      BY <2>2 DEF Unlink
    <3>. QED
      BY <3>1, WithoutIs
  <2>. QED
    BY <2>1, <2>2
<1>3. /\ queue' \in Seq(Event) /\ missed \subseteq missed'
      /\ op = "change" => Queued(queue', p) \/ p \in missed'
      /\ \A q : Queued(queue, q) => Queued(queue', q)
  BY <1>1, <1>2, NotifyOK
<1>4. WatchTypes'
  BY <1>1, <1>3 DEF WatchTypes, Nobody
<1>5. ASSUME NEW q \in DOMAIN disk' PROVE FollowedUp(q)'
  <2>1. CASE q = p
    BY <1>2, <1>3, <1>5, <2>1 DEF FollowedUp, Due
  <2>2. CASE q # p
    <3>1. FollowedUp(q) /\ disk'[q] = disk[q]
      BY <1>2, <1>5, <2>2 DEF WatchOK
    <3>. QED
      BY <1>1, <1>3, <3>1 DEF FollowedUp, Due, Nobody
  <2>. QED
    BY <2>1, <2>2
<1>. QED
  BY <1>4, <1>5 DEF WatchOK

LEMMA TakeWatched == WatchOK /\ TakeEvent => WatchOK'
<1> SUFFICES ASSUME WatchOK, TakeEvent PROVE WatchOK'
  OBVIOUS
<1>1. /\ queue # <<>> /\ queue' = Tail(queue)
      /\ pending' = IF Head(queue).op = "change" THEN pending \cup {Head(queue).path} ELSE pending
      /\ UNCHANGED <<disk, missed, ready, current, seen>>
  BY DEF TakeEvent, userVars
<1>2. WatchTypes /\ queue \in Seq(Event)
  BY DEF WatchOK, WatchTypes
<1>3. /\ queue' \in Seq(Event) /\ Head(queue) \in Event
      /\ \A p : Queued(queue, p) => Queued(queue', p) \/ (Head(queue).op = "change" /\ Head(queue).path = p)
  BY <1>1, <1>2, QueuedTail
<1>4. WatchTypes'
  BY <1>1, <1>2, <1>3 DEF WatchTypes, Event, Nobody
<1>5. \A p : Due(p) => Due(p)'
  BY <1>1, <1>3 DEF Due
<1>. QED
  BY <1>1, <1>4, <1>5 DEF WatchOK, FollowedUp, Nobody

LEMMA LoopWatched == WatchOK /\ (Drain \/ (\E p \in Path : ProcessFile(p)) \/ Compare) /\ FilesOK => WatchOK'
<1> SUFFICES ASSUME WatchOK, FilesOK PROVE Drain \/ (\E p \in Path : ProcessFile(p)) \/ Compare => WatchOK'
  OBVIOUS
<1>1. WatchTypes /\ \A p \in DOMAIN disk : FollowedUp(p)
  BY DEF WatchOK
<1>2. CASE Drain
  <2>1. /\ ready' \subseteq pending /\ pending' = pending \ ready' /\ ready = {}
        /\ UNCHANGED <<disk, queue, missed, current, seen>>
    BY <1>2 DEF Drain, userVars
  <2>2. WatchTypes'
    BY <1>1, <2>1 DEF WatchTypes, Nobody
  <2>3. \A p : Due(p) => Due(p)'
    BY <2>1 DEF Due
  <2>. QED
    BY <1>1, <2>1, <2>2, <2>3 DEF WatchOK, FollowedUp, Nobody
<1>3. ASSUME NEW p \in Path, ProcessFile(p) PROVE WatchOK'
  <2>1. /\ current = Nobody /\ ready' = ready \ {p}
        /\ current' = IF Exists(p) THEN [path |-> p, hash |-> disk[p].content] ELSE Nobody
        /\ missed' = missed \ {p}
        /\ UNCHANGED <<disk, queue, pending, seen>>
    BY <1>3 DEF ProcessFile, userVars
  <2>2. WatchTypes'
    <3>1. current' = Nobody \/ current' \in Hashed
      BY <2>1 DEF FilesOK, Exists, Hashed
    <3>. QED
      BY <1>1, <2>1, <3>1 DEF WatchTypes, Nobody
  <2>3. ASSUME NEW q \in DOMAIN disk PROVE FollowedUp(q)'
    <3>1. CASE q = p
      <4>1. current' = [path |-> p, hash |-> disk[p].content] /\ disk[p].content # NoHash
        BY <2>1, <2>3, <3>1, SizeAssumption DEF Exists, FilesOK
      <4>2. current'.path = p /\ current'.hash = disk[p].content /\ current' # Nobody
        BY <4>1 DEF Nobody
      <4>. QED
        BY <2>1, <3>1, <4>2 DEF FollowedUp, Nobody
    <3>2. CASE q # p
      <4>1. FollowedUp(q) /\ (Due(q) => Due(q)')
        BY <1>1, <2>1, <2>3, <3>2 DEF Due
      <4>2. current' = Nobody \/ current'.path # q
        BY <2>1, <3>2
      <4>. QED
        BY <2>1, <4>1, <4>2 DEF FollowedUp, Nobody
    <3>. QED
      BY <3>1, <3>2
  <2>. QED
    BY <2>1, <2>2, <2>3 DEF WatchOK
<1>4. CASE Compare
  <2>1. /\ current # Nobody /\ seen' = Put(seen, current.path, current.hash) /\ current' = Nobody
        /\ UNCHANGED <<disk, queue, missed, pending, ready>>
    BY <1>4 DEF Compare, userVars
  <2>2. WatchTypes'
    <3>1. current.path \in Path
      BY <1>1, <2>1 DEF WatchTypes, Hashed
    <3>2. DOMAIN seen' = Path
      BY <1>1, <2>1, <3>1 DEF WatchTypes, Put, Over
    <3>. QED
      BY <1>1, <2>1, <3>2 DEF WatchTypes, Nobody
  <2>3. \A p : Due(p) => Due(p)'
    BY <2>1 DEF Due
  <2>4. ASSUME NEW q \in DOMAIN disk PROVE FollowedUp(q)'
    <3>1. CASE Due(q)
      BY <2>3, <3>1 DEF FollowedUp
    <3>2. CASE current.path = q /\ current.hash = disk[q].content
      <4>1. seen'[q] = disk[q].content
        BY <2>1, <3>2 DEF Put, Over
      <4>. QED
        BY <2>1, <4>1 DEF FollowedUp, Nobody
    <3>3. CASE current.path # q /\ seen[q] = disk[q].content
      <4>1. seen'[q] = seen[q]
        BY <1>1, <2>1, <2>4, <3>3 DEF Put, Over, WatchTypes, FilesOK
      <4>. QED
        BY <2>1, <3>3, <4>1 DEF FollowedUp, Nobody
    <3>. QED
      BY <1>1, <2>1, <3>1, <3>2, <3>3 DEF FollowedUp
  <2>. QED
    BY <2>1, <2>2, <2>4 DEF WatchOK
<1>. QED
  BY <1>2, <1>3, <1>4

(* A file that could not be read is counted as missed. *)
LEMMA FailsWatched ==
  ASSUME WatchOK, NEW p \in Path, ProcessFileFails(p)
  PROVE  WatchOK'
<1>1. /\ ready' = ready \ {p} /\ missed' = missed \cup {p}
      /\ UNCHANGED <<disk, queue, pending, current, seen>>
  BY DEF ProcessFileFails, userVars
<1>2. WatchTypes'
  BY <1>1 DEF WatchOK, WatchTypes, Nobody
<1>3. \A q : Due(q) => Due(q)'
  BY <1>1 DEF Due
<1>. QED
  BY <1>1, <1>2, <1>3 DEF WatchOK, FollowedUp, Nobody

LEMMA WatchNext == FilesOK /\ WatchOK /\ [Next]_vars => WatchOK'
<1> SUFFICES ASSUME FilesOK, WatchOK, [Next]_vars PROVE WatchOK'
  OBVIOUS
<1>1. CASE UNCHANGED <<disk, queue, missed, watchVars>>
  BY <1>1 DEF WatchOK, WatchTypes, FollowedUp, Due, watchVars, Nobody
<1>2. CASE Second \/ UNCHANGED vars
  BY <1>1, <1>2 DEF Second, vars, userVars
<1>3. ASSUME NEW j \in Job, StartScan(j) \/ StartRebuild(j) \/ WriteFails(j) \/ JobStep(j)
      PROVE  WatchOK'
  BY <1>1, <1>3 DEF StartScan, StartRebuild, WriteFails, JobStep, LookAt, HashFile, Store,
                    Summarise, UpdateBaseline, userVars
<1>4. CASE Watch
  BY <1>4, TakeWatched, LoopWatched DEF Watch
<1>5. CASE \E j \in Job : HashFileFails(j)
  BY <1>1, <1>5 DEF HashFileFails, userVars
<1>. QED
  BY <1>2, <1>3, <1>4, <1>5, WriteWatched, FailsWatched DEF Next, ReadFails

(* Once nothing of a file is under way in the watcher, it has compared     *)
(* what the file holds now; unless the kernel dropped an event of the file *)
(* or it could not be read, and the watcher has not read it since.         *)
THEOREM LastWriteIsSeen == Spec => []LastWriteSeen
<1>1. WatchOK => LastWriteSeen
  BY DEF WatchOK, WatchTypes, FollowedUp, Due, Queued, LastWriteSeen, SeenBut,
         Settled
<1>. QED
  BY <1>1, ScansInit, ScansNext, WatchInit, WatchNext, PTL DEF Spec, ScansOK

---------------------------------------------------------------------------
(* The summary of the folder; and the types together.                      *)

SummaryOK == summary = NoSummary \/ summary.count \in 0 .. Cardinality(Path)

LEMMA SummaryNext == ScansOK /\ SummaryOK /\ [Next]_vars => SummaryOK'
<1> SUFFICES ASSUME ScansOK, SummaryOK, [Next]_vars PROVE SummaryOK'
  OBVIOUS
<1>1. CASE UNCHANGED summary
  BY <1>1 DEF SummaryOK
<1>2. CASE \/ \E p \in Path, c \in Content : UserWrite(p, c)
           \/ \E p \in Path : Unlink(p)
           \/ Second \/ Watch \/ ReadFails \/ UNCHANGED vars
  BY <1>1, <1>2 DEF UserWrite, Unlink, Second, Watch, TakeEvent, Drain, ProcessFile, Compare,
                    ReadFails, HashFileFails, ProcessFileFails, vars, tables
<1>3. ASSUME NEW j \in Job, StartScan(j) \/ StartRebuild(j) \/ WriteFails(j) \/ HashFile(j)
                            \/ Store(j) \/ UpdateBaseline(j) \/ \E p \in Path : LookAt(j, p)
      PROVE  UNCHANGED summary
  BY <1>3 DEF StartScan, StartRebuild, WriteFails, HashFile, Store, UpdateBaseline, LookAt, tables
<1>4. ASSUME NEW j \in Job, Summarise(j) PROVE SummaryOK'
  <2>1. PICK S : S = DOMAIN job[j].recs
    OBVIOUS
  <2>2. S \subseteq Path
    <3>1. job[j].pc = "walk"
      BY <1>4, Zenon DEF Summarise
    <3>. QED
      BY <2>1, <3>1 DEF ScansOK, JobsOK, JobOK, WalkOK, Gathered, Resting
  <2>3. Cardinality(S) \in 0..Cardinality(Path)
    <3>1. IsFiniteSet(Path)
      BY BoundAssumption
    <3>2. IsFiniteSet(S) /\ Cardinality(S) <= Cardinality(Path)
      BY <2>2, <3>1, FS_Subset
    <3>. QED
      BY <3>1, <3>2, FS_CardinalityType
  <2>4. summary'.count = Cardinality(S)
    BY <1>4, <2>1 DEF Summarise
  <2>. QED
    BY <2>3, <2>4 DEF SummaryOK
<1>. QED
  BY <1>1, <1>2, <1>3, <1>4 DEF Next, JobStep

(* Files, rows, records and events are of their types, the times not in    *)
(* the future, and a summary counts no more files than there can be.       *)
THEOREM TypeCorrect == Spec => []TypeOK
<1>1. ScansOK /\ WatchOK /\ SummaryOK => TypeOK
  <2> SUFFICES ASSUME ScansOK, WatchOK, SummaryOK PROVE TypeOK
    OBVIOUS
  <2>1. \A j \in Job : \/ job[j] = Resting
                       \/ job[j].kind \in {"scan", "rebuild"} /\ job[j].left \subseteq Path
    BY DEF ScansOK, JobsOK, JobOK, WalkOK
  <2>2. \A i \in DOMAIN queue : queue[i].path \in Path
    <3>1. queue \in Seq(Event)
      BY DEF WatchOK, WatchTypes
    <3>2. \A i \in DOMAIN queue : queue[i] \in Event
      BY <3>1
    <3>. QED
      BY <3>2 DEF Event
  <2>3. DOMAIN baseline \subseteq Path /\ \A p \in DOMAIN baseline : baseline[p] \in Row
    BY DEF ScansOK, TablesOK, Gathered, Recorded
  <2>. QED
    BY <2>1, <2>2, <2>3 DEF TypeOK, ScansOK, FilesOK, WatchOK, WatchTypes, Hashed, SummaryOK
<1>2. Init => SummaryOK
  BY DEF Init, SummaryOK
<1>. QED
  BY <1>1, <1>2, ScansInit, ScansNext, WatchInit, WatchNext, SummaryNext, PTL DEF Spec, ScansOK
===========================================================================
