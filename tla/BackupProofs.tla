---------------------------- MODULE BackupProofs ----------------------------
(***************************************************************************)
(* Proofs about Backup for any number of files, contents and runs and any  *)
(* bounds: the type invariant, that pruning keeps the newest directories   *)
(* (PruneKeepsNewest), that a finished copy is whole (CompleteWhole) and   *)
(* one is kept (LastKept), and that a file passed over by the upload is in *)
(* the bucket (SkippedIsStored).                                           *)
(***************************************************************************)
EXTENDS Backup, FiniteSetTheorems, TLAPS

---------------------------------------------------------------------------
(* Types.                                                                  *)

RunOK(d) ==
  \/ d = Idle
  \/ /\ d.pc \in {"copy", "list", "prune", "walk", "hash"}
     /\ d = Run(d.pc, d.snap, d.todo, d.held) /\ d.snap \in 0..minute
     /\ d.pc = "copy" => /\ d.snap >= 1 /\ d.todo \subseteq DOMAIN d.held
                         /\ DOMAIN d.held \subseteq Path
  \/ /\ d.pc = "fill"
     /\ d = [pc |-> "fill", snap |-> d.snap, todo |-> d.todo, held |-> d.held,
             path |-> d.path, buf |-> d.buf]
     /\ d.snap \in 1..minute /\ d.todo \subseteq DOMAIN d.held
     /\ DOMAIN d.held \subseteq Path /\ d.path \in DOMAIN d.held /\ d.buf \in Content
  \/ /\ d.pc \in {"read", "put", "record"}
     /\ d = [pc |-> d.pc, snap |-> 0, todo |-> d.todo, path |-> d.path, hash |-> d.hash,
             data |-> d.data]
     /\ d.path \in Path /\ d.hash \in Content /\ (d.pc # "read" => d.data \in Content)

RunsOK == run \in [Runner -> {run[r] : r \in Runner}] /\ \A r \in Runner : RunOK(run[r])

FilesOK ==
  /\ file \in [Path -> Content \cup {None}] /\ minute \in Nat \ {0}
  /\ failures \in 0..MaxFailures

SnapsOK ==
  /\ DOMAIN snaps \subseteq 1..minute /\ \A m \in DOMAIN snaps : snaps[m] \in Snap
  /\ DOMAIN complete \subseteq DOMAIN snaps

BucketOK ==
  /\ object \in [Path -> Content \cup {None}] /\ rows \in [Path -> Content \cup {None}]
  /\ doubt \subseteq Path

Types == FilesOK /\ RunsOK /\ SnapsOK /\ BucketOK

Steady == minute \in Nat /\ minute' \in Nat /\ minute' >= minute

LEMMA RunStays ==
  ASSUME Steady, NEW d, RunOK(d)
  PROVE  RunOK(d)'
  BY DEF Steady, RunOK, Run, Idle

LEMMA RunMoves ==
  ASSUME Steady, RunsOK, NEW r \in Runner, NEW d, RunOK(d)', run' = [run EXCEPT ![r] = d]
  PROVE  RunsOK'
<1>1. ASSUME NEW x \in Runner PROVE RunOK(run[x])'
  <2>1. CASE x = r
    <3>1. run'[x] = d
      BY <2>1 DEF RunsOK
    <3>. QED
      BY <3>1
  <2>2. CASE x # r
    <3>1. PICK e : e = run[x] /\ run'[x] = e
      BY <2>2 DEF RunsOK
    <3>2. RunOK(e)'
      BY <3>1, RunStays DEF RunsOK
    <3>. QED
      BY <3>1, <3>2
  <2>. QED
    BY <2>1, <2>2
<1>2. run' \in [Runner -> {run'[x] : x \in Runner}]
  BY DEF RunsOK
<1>. QED
  BY <1>1, <1>2 DEF RunsOK

(* A run at rest, a new one, and the uploads. *)
LEMMA SimpleOK ==
  ASSUME minute' \in Nat
  PROVE  /\ RunOK(Idle)' /\ RunOK(Upload)'
         /\ \A pc \in {"list", "prune"}, m \in 0..minute' : \A T, h : RunOK(Run(pc, m, T, h))'
         /\ \A pc \in {"walk", "hash"} : \A T, h : RunOK(Run(pc, 0, T, h))'
<1>1. RunOK(Idle)'
  BY DEF RunOK, Idle
<1>2. \A pc \in {"list", "prune"}, m \in 0..minute' : \A T, h : RunOK(Run(pc, m, T, h))'
  BY DEF RunOK, Run
<1>3. \A pc \in {"walk", "hash"} : \A T, h : RunOK(Run(pc, 0, T, h))'
  BY DEF RunOK, Run
<1>4. RunOK(Upload)'
  BY <1>1, <1>3 DEF Upload, Run, Idle
<1>. QED
  BY <1>1, <1>2, <1>3, <1>4

(* The steps of a run that lead to one of these. *)
Simple(r) ==
  \/ CopyFails(r) \/ ListSnaps(r) \/ EndPrune(r) \/ EndCopy(r)
  \/ Walk(r) \/ EndWalk(r) \/ Record(r) \/ RecordFails(r) \/ PutFails(r)
  \/ \E p \in Path : HashFails(r, p)
  \/ \E m \in 1..MaxMinute : RemoveFails(r, m)

LEMMA SimpleRuns ==
  ASSUME FilesOK, RunsOK, NEW r \in Runner, Simple(r)
  PROVE  RunsOK'
<1>1. minute' = minute /\ minute \in Nat /\ Steady
  <2>1. UNCHANGED user
    <3>1. CASE CopyFails(r) \/ ListSnaps(r) \/ EndPrune(r) \/ EndCopy(r) \/ Walk(r) \/ EndWalk(r)
      BY <3>1 DEF CopyFails, ListSnaps, EndPrune, EndCopy, Walk, EndWalk
    <3>2. CASE Record(r) \/ RecordFails(r) \/ PutFails(r)
      BY <3>2 DEF Record, RecordFails, PutFails
    <3>3. CASE \/ \E p \in Path : HashFails(r, p)
               \/ \E m \in 1..MaxMinute : RemoveFails(r, m)
      BY <3>3 DEF HashFails, RemoveFails
    <3>. QED
      BY <3>1, <3>2, <3>3 DEF Simple
  <2>. QED
    BY <2>1 DEF user, FilesOK, Steady
<1>2. run[r].snap \in 0..minute \/ run[r].pc \notin {"copy", "list"}
  BY DEF RunsOK, RunOK, Idle
<1>3. ASSUME NEW d, RunOK(d)', Goto(r, d) PROVE RunsOK'
  BY <1>1, <1>3, RunMoves DEF Goto
<1>4. CASE Goto(r, Upload) \/ Goto(r, Idle)
  BY <1>1, <1>4, SimpleOK, RunMoves DEF Goto, Upload, Idle, Run
<1>5. ASSUME NEW T, Goto(r, Run("hash", 0, T, <<>>)) PROVE RunsOK'
  BY <1>1, <1>3, <1>5, SimpleOK
<1>6. CASE ListSnaps(r) \/ EndCopy(r)
  BY <1>1, <1>2, <1>3, <1>6, SimpleOK DEF ListSnaps, EndCopy
<1>7. CASE CopyFails(r) \/ EndPrune(r) \/ EndWalk(r) \/ PutFails(r)
           \/ \E m \in 1..MaxMinute : RemoveFails(r, m)
  BY <1>4, <1>7 DEF CopyFails, EndPrune, EndWalk, PutFails, RemoveFails
<1>8. CASE Walk(r) \/ Record(r) \/ RecordFails(r) \/ \E p \in Path : HashFails(r, p)
  BY <1>4, <1>5, <1>8 DEF Walk, Record, RecordFails, HashFails, Next1
<1>. QED
  BY <1>6, <1>7, <1>8 DEF Simple

(* The others make a record of their own. *)
LEMMA StartRuns ==
  ASSUME FilesOK, RunsOK, NEW r \in Runner, StartRun(r)
  PROVE  RunsOK'
<1>1. minute' = minute /\ file' = file /\ minute \in Nat \ {0} /\ Steady
  BY DEF StartRun, user, FilesOK, Steady
<1>2. CASE "local" \in mode
  <2>1. PICK h : h = [p \in Existing |-> {file[p]}]
    OBVIOUS
  <2>2. Goto(r, Run("copy", minute, Existing, h))
    BY <1>2, <2>1 DEF StartRun
  <2>3. DOMAIN h = Existing /\ Existing \subseteq Path
    BY <2>1 DEF Existing
  <2>4. PICK d : d = Run("copy", minute, Existing, h)
    OBVIOUS
  <2>5. d.pc = "copy" /\ d.snap = minute /\ d.todo = Existing /\ d.held = h
    BY <2>4 DEF Run
  <2>6. RunOK(d)'
    BY <1>1, <2>3, <2>4, <2>5 DEF RunOK
  <2>. QED
    BY <1>1, <2>2, <2>4, <2>6, RunMoves DEF Goto
<1>3. CASE "local" \notin mode
  <2>1. Goto(r, Upload)
    BY <1>3 DEF StartRun
  <2>. QED
    BY <1>1, <2>1, SimpleOK, RunMoves DEF Goto, Upload, Idle, Run
<1>. QED
  BY <1>2, <1>3

LEMMA CopyRuns ==
  ASSUME FilesOK, RunsOK, NEW r \in Runner, FillCopy(r) \/ \E p \in Path : OpenCopy(r, p)
  PROVE  RunsOK'
<1>1. PICK d : d = run[r] /\ RunOK(d)
  BY DEF RunsOK
<1>2. minute' = minute /\ minute \in Nat \ {0} /\ Steady
  <2>1. UNCHANGED user
    BY DEF OpenCopy, FillCopy
  <2>. QED
    BY <2>1 DEF user, FilesOK, Steady
<1>3. CASE FillCopy(r)
  <2>1. PICK e : e = Run("copy", d.snap, d.todo, d.held)
    OBVIOUS
  <2>2. run' = [run EXCEPT ![r] = e]
    BY <1>1, <1>3, <2>1 DEF FillCopy, Goto
  <2>3. d.snap \in 1..minute /\ d.todo \subseteq DOMAIN d.held /\ DOMAIN d.held \subseteq Path
    BY <1>1, <1>3 DEF FillCopy, RunOK, Idle
  <2>4. e.pc = "copy" /\ e.snap = d.snap /\ e.todo = d.todo /\ e.held = d.held
    BY <2>1 DEF Run
  <2>5. RunOK(e)'
    BY <1>2, <2>1, <2>3, <2>4 DEF RunOK
  <2>. QED
    BY <1>2, <2>2, <2>5, RunMoves
<1>4. ASSUME NEW p \in Path, OpenCopy(r, p) PROVE RunsOK'
  <2>1. PICK e : e = [pc |-> "fill", snap |-> d.snap, todo |-> d.todo \ {p}, held |-> d.held,
                      path |-> p, buf |-> file[p]]
    OBVIOUS
  <2>2. run' = [run EXCEPT ![r] = e]
    BY <1>1, <1>4, <2>1 DEF OpenCopy, Goto
  <2>3. /\ d.pc = "copy" /\ p \in d.todo /\ file[p] \in Content
        /\ d.snap \in 1..minute /\ d.todo \subseteq DOMAIN d.held /\ DOMAIN d.held \subseteq Path
    BY <1>1, <1>2, <1>4 DEF OpenCopy, First, CanCopy, RunOK, Idle, FilesOK
  <2>4. RunOK(e)'
    BY <1>2, <2>1, <2>3 DEF RunOK
  <2>. QED
    BY <1>2, <2>2, <2>4, RunMoves
<1>. QED
  BY <1>3, <1>4

LEMMA RemoveRuns ==
  ASSUME FilesOK, RunsOK, NEW r \in Runner, NEW m, RemoveAll(r, m)
  PROVE  RunsOK'
<1>1. PICK d : d = run[r] /\ RunOK(d)
  BY DEF RunsOK
<1>2. minute' = minute /\ minute \in Nat /\ Steady /\ d.pc = "prune"
  BY <1>1 DEF RemoveAll, user, FilesOK, Steady
<1>3. d = Run("prune", d.snap, d.todo, d.held) /\ d.snap \in 0..minute
  BY <1>1, <1>2 DEF RunOK, Idle
<1>4. [d EXCEPT !.todo = @ \ {m}] = Run("prune", d.snap, d.todo \ {m}, d.held)
  BY <1>3 DEF Run
<1>5. run' = [run EXCEPT ![r] = Run("prune", d.snap, d.todo \ {m}, d.held)]
  BY <1>1, <1>4 DEF RemoveAll, Goto
<1>. QED
  BY <1>2, <1>3, <1>5, SimpleOK, RunMoves

LEMMA UploadRuns ==
  ASSUME FilesOK, RunsOK, NEW r \in Runner,
         ReadFile(r) \/ PutObject(r) \/ \E p \in Path : HashFile(r, p)
  PROVE  RunsOK'
<1>1. PICK d : d = run[r] /\ RunOK(d)
  BY DEF RunsOK
<1>2. minute' = minute /\ minute \in Nat /\ Steady
  <2>1. UNCHANGED user
    BY DEF ReadFile, PutObject, HashFile
  <2>. QED
    BY <2>1 DEF user, FilesOK, Steady
<1>3. ASSUME NEW T, run' = [run EXCEPT ![r] = Run("hash", 0, T, <<>>)] PROVE RunsOK'
  BY <1>2, <1>3, SimpleOK, RunMoves
<1>4. ASSUME NEW pc \in {"read", "put", "record"}, NEW T, NEW p \in Path, NEW h \in Content,
             NEW c, pc # "read" => c \in Content, NEW e,
             e = [pc |-> pc, snap |-> 0, todo |-> T, path |-> p, hash |-> h, data |-> c],
             run' = [run EXCEPT ![r] = e]
      PROVE  RunsOK'
  <2>1. RunOK(e)'
    BY <1>4 DEF RunOK
  <2>. QED
    BY <1>2, <1>4, <2>1, RunMoves
<1>5. ASSUME NEW p \in Path, HashFile(r, p) PROVE RunsOK'
  <2>1. CASE Goto(r, Next1(r, p))
    BY <1>3, <2>1 DEF Goto, Next1
  <2>2. CASE Goto(r, Upload1(r, "read", p, file[p], None))
    <3>1. file[p] \in Content
      BY <1>5 DEF HashFile, FilesOK
    <3>. QED
      BY <1>4, <2>2, <3>1 DEF Goto, Upload1
  <2>. QED
    BY <1>5, <2>1, <2>2 DEF HashFile
<1>6. CASE ReadFile(r)
  <2>1. d.path \in Path /\ d.hash \in Content
    BY <1>1, <1>6 DEF ReadFile, RunOK, Idle
  <2>2. CASE Goto(r, Next1(r, d.path))
    BY <1>3, <2>2 DEF Goto, Next1
  <2>3. CASE file[d.path] # None /\ Goto(r, Upload1(r, "put", d.path, d.hash, file[d.path]))
    <3>1. file[d.path] \in Content
      BY <2>1, <2>3 DEF FilesOK
    <3>. QED
      BY <1>4, <2>1, <2>3, <3>1 DEF Goto, Upload1
  <2>. QED
    BY <1>1, <1>6, <2>2, <2>3 DEF ReadFile
<1>7. CASE PutObject(r)
  <2>1. /\ d.pc = "put" /\ d.path \in Path /\ d.hash \in Content /\ d.data \in Content
        /\ d = [pc |-> "put", snap |-> 0, todo |-> d.todo, path |-> d.path, hash |-> d.hash,
                data |-> d.data]
    BY <1>1, <1>7 DEF PutObject, RunOK, Idle
  <2>2. [d EXCEPT !.pc = "record"] =
          [pc |-> "record", snap |-> 0, todo |-> d.todo, path |-> d.path, hash |-> d.hash,
           data |-> d.data]
    BY <2>1
  <2>3. PICK e : e = [d EXCEPT !.pc = "record"]
    OBVIOUS
  <2>4. run' = [run EXCEPT ![r] = e]
    BY <1>1, <1>7, <2>3 DEF PutObject, Goto
  <2>5. RunOK(e)'
    BY <2>1, <2>2, <2>3 DEF RunOK
  <2>. QED
    BY <1>2, <2>4, <2>5, RunMoves
<1>. QED
  BY <1>5, <1>6, <1>7

(* The user writes: some runs hold more. *)
LEMMA HoldRuns ==
  ASSUME FilesOK, RunsOK, UNCHANGED minute, NEW p, NEW c, Hold(p, c)
  PROVE  RunsOK'
<1>1. ASSUME NEW r \in Runner PROVE RunOK(run[r])'
  <2>1. PICK d, e : d = run[r] /\ RunOK(d) /\ e = run'[r]
    BY DEF RunsOK
  <2>2. CASE e = d
    BY <2>1, <2>2, RunStays DEF Steady, FilesOK
  <2>3. CASE d.pc = "copy" /\ e = [d EXCEPT !.held[p] = @ \cup {c}]
    <3>1. d = Run("copy", d.snap, d.todo, d.held)
      BY <2>1, <2>3 DEF RunOK, Idle
    <3>2. e = Run("copy", d.snap, d.todo, [d.held EXCEPT ![p] = @ \cup {c}])
      BY <2>3, <3>1 DEF Run
    <3>3. PICK h : h = [d.held EXCEPT ![p] = @ \cup {c}] /\ DOMAIN h = DOMAIN d.held
      OBVIOUS
    <3>4. e.pc = "copy" /\ e.snap = d.snap /\ e.todo = d.todo /\ e.held = h
      BY <3>2, <3>3 DEF Run
    <3>5. RunOK(e)'
      BY <2>1, <2>3, <3>2, <3>3, <3>4 DEF RunOK, Idle
    <3>. QED
      BY <2>1, <3>5
  <2>4. CASE d.pc = "fill" /\ e = [d EXCEPT !.held[p] = @ \cup {c}]
    <3>1. d = [pc |-> "fill", snap |-> d.snap, todo |-> d.todo, held |-> d.held,
               path |-> d.path, buf |-> d.buf]
      BY <2>1, <2>4 DEF RunOK, Idle
    <3>2. e = [pc |-> "fill", snap |-> d.snap, todo |-> d.todo,
               held |-> [d.held EXCEPT ![p] = @ \cup {c}], path |-> d.path, buf |-> d.buf]
      BY <2>4, <3>1
    <3>3. PICK h : h = [d.held EXCEPT ![p] = @ \cup {c}] /\ DOMAIN h = DOMAIN d.held
      OBVIOUS
    <3>4. RunOK(e)'
      BY <2>1, <2>4, <3>2, <3>3 DEF RunOK, Idle
    <3>. QED
      BY <2>1, <3>4
  <2>. QED
    BY <2>1, <2>2, <2>3, <2>4 DEF Hold
<1>2. run' \in [Runner -> {run'[r] : r \in Runner}]
  BY DEF Hold
<1>. QED
  BY <1>1, <1>2 DEF RunsOK

(* The directories. *)
LEMMA WithoutIs ==
  ASSUME NEW f, NEW S
  PROVE  /\ DOMAIN Without(f, S) = DOMAIN f \ S
         /\ \A x \in DOMAIN f \ S : Without(f, S)[x] = f[x]
  BY DEF Without, Restrict

LEMMA SnapTyped ==
  /\ <<>> \in Snap
  /\ \A s \in Snap, S \in SUBSET Path : S \subseteq DOMAIN s => Restrict(s, S) \in Snap
  /\ \A s \in Snap, p \in Path, c \in Content \cup {Torn} : Put(s, p, c) \in Snap
<1>1. \A S \in SUBSET Path : \A f : f \in [S -> Content \cup {Torn}] => f \in Snap
  BY DEF Snap
<1>2. \A s \in Snap : DOMAIN s \in SUBSET Path /\ \A p \in DOMAIN s : s[p] \in Content \cup {Torn}
  BY DEF Snap
<1>3. <<>> \in Snap
  <2>1. <<>> \in [{} -> Content \cup {Torn}]
    OBVIOUS
  <2>. QED
    BY <1>1, <2>1
<1>4. ASSUME NEW s \in Snap, NEW S \in SUBSET Path, S \subseteq DOMAIN s
      PROVE  Restrict(s, S) \in Snap
  <2>1. Restrict(s, S) \in [S -> Content \cup {Torn}]
    BY <1>2, <1>4 DEF Restrict
  <2>. QED
    BY <1>1, <2>1
<1>5. ASSUME NEW s \in Snap, NEW p \in Path, NEW c \in Content \cup {Torn}
      PROVE  Put(s, p, c) \in Snap
  <2>1. Put(s, p, c) \in [DOMAIN s \cup {p} -> Content \cup {Torn}]
    BY <1>2 DEF Put
  <2>2. DOMAIN s \cup {p} \in SUBSET Path
    BY <1>2
  <2>. QED
    BY <1>1, <2>1, <2>2
<1>. QED
  BY <1>3, <1>4, <1>5

LEMMA StartSnaps ==
  ASSUME FilesOK, SnapsOK, NEW r \in Runner, StartRun(r)
  PROVE  SnapsOK'
<1>1. UNCHANGED minute /\ minute \in 1..minute
  BY DEF StartRun, user, FilesOK
<1>2. DOMAIN complete' \subseteq DOMAIN complete
  <2>1. complete' = Without(complete, {minute})
    BY DEF StartRun
  <2>. QED
    BY <2>1 DEF Without, Restrict
<1>3. CASE snaps' = snaps
  BY <1>1, <1>2, <1>3 DEF SnapsOK
<1>4. CASE snaps' = Put(snaps, minute, <<>>)
  BY <1>1, <1>2, <1>4, SnapTyped DEF SnapsOK, Put
<1>. QED
  BY <1>3, <1>4 DEF StartRun

LEMMA CopySnaps ==
  ASSUME FilesOK, RunsOK, SnapsOK, NEW r \in Runner, FillCopy(r) \/ \E p \in Path : OpenCopy(r, p)
  PROVE  SnapsOK'
<1>1. PICK d : d = run[r] /\ RunOK(d)
  BY DEF RunsOK
<1>2. UNCHANGED <<file, minute, complete>>
  <2>1. UNCHANGED <<user, complete>>
    BY DEF OpenCopy, FillCopy
  <2>. QED
    BY <2>1 DEF user
<1>3. ASSUME NEW s \in Snap, snaps' = [snaps EXCEPT ![d.snap] = s] PROVE SnapsOK'
  BY <1>2, <1>3 DEF SnapsOK
<1>4. CASE FillCopy(r)
  <2>1. d.path \in Path /\ d.buf \in Content
    BY <1>1, <1>4 DEF FillCopy, RunOK, Idle
  <2>2. PICK c \in Content :
          snaps' = IF d.snap \in DOMAIN snaps /\ d.path \in DOMAIN snaps[d.snap]
                   THEN [snaps EXCEPT ![d.snap][d.path] = c] ELSE snaps
    BY <1>1, <1>4, <2>1 DEF FillCopy, Copied, FilesOK
  <2>3. CASE d.snap \in DOMAIN snaps /\ d.path \in DOMAIN snaps[d.snap]
    <3>1. PICK s : s = [snaps[d.snap] EXCEPT ![d.path] = c]
      OBVIOUS
    <3>2. snaps' = [snaps EXCEPT ![d.snap] = s]
      BY <2>2, <2>3, <3>1
    <3>3. s \in Snap
      BY <2>3, <3>1 DEF SnapsOK, Snap
    <3>. QED
      BY <1>3, <3>2, <3>3
  <2>4. CASE snaps' = snaps
    BY <1>2, <2>4 DEF SnapsOK
  <2>. QED
    BY <2>2, <2>3, <2>4
<1>5. ASSUME NEW p \in Path, OpenCopy(r, p) PROVE SnapsOK'
  <2>1. PICK s : s = Put(snaps[d.snap], p, Torn)
    OBVIOUS
  <2>2. snaps' = [snaps EXCEPT ![d.snap] = s] /\ d.snap \in DOMAIN snaps
    BY <1>1, <1>5, <2>1 DEF OpenCopy, CanCopy
  <2>3. s \in Snap
    BY <2>1, <2>2, SnapTyped DEF SnapsOK
  <2>. QED
    BY <1>3, <2>2, <2>3
<1>. QED
  BY <1>4, <1>5

LEMMA EndCopySnaps ==
  ASSUME SnapsOK, NEW r \in Runner, EndCopy(r)
  PROVE  SnapsOK'
<1>1. UNCHANGED <<minute, snaps>>
  BY DEF EndCopy, user
<1>2. DOMAIN complete' \subseteq DOMAIN snaps
  BY DEF EndCopy, SnapsOK, Put
<1>. QED
  BY <1>1, <1>2 DEF SnapsOK

LEMMA RemoveSnaps ==
  ASSUME SnapsOK, NEW r \in Runner, NEW m, RemoveAll(r, m) \/ RemoveFails(r, m)
  PROVE  SnapsOK'
<1>1. UNCHANGED minute /\ complete' = Without(complete, {m})
  BY DEF RemoveAll, RemoveFails, user
<1>2. DOMAIN complete' = DOMAIN complete \ {m}
  BY <1>1, WithoutIs
<1>3. CASE RemoveAll(r, m)
  <2>1. /\ DOMAIN snaps' = DOMAIN snaps \ {m}
        /\ \A x \in DOMAIN snaps \ {m} : snaps'[x] = snaps[x]
    BY <1>3, WithoutIs DEF RemoveAll
  <2>. QED
    BY <1>1, <1>2, <2>1 DEF SnapsOK
<1>4. CASE RemoveFails(r, m)
  <2>1. PICK S \in SUBSET DOMAIN snaps[m] :
          m \in DOMAIN snaps /\ snaps' = [snaps EXCEPT ![m] = Restrict(@, S)]
    BY <1>4 DEF RemoveFails
  <2>2. PICK s : s = Restrict(snaps[m], S)
    OBVIOUS
  <2>3. s \in Snap
    <3>1. snaps[m] \in Snap /\ DOMAIN snaps[m] \subseteq Path
      BY <2>1 DEF SnapsOK, Snap
    <3>. QED
      BY <2>1, <2>2, <3>1, SnapTyped
  <2>4. snaps' = [snaps EXCEPT ![m] = s]
    BY <2>1, <2>2
  <2>. QED
    BY <1>1, <1>2, <2>1, <2>3, <2>4 DEF SnapsOK
<1>. QED
  BY <1>3, <1>4

(* The bucket. *)
LEMMA BucketStep ==
  ASSUME RunsOK, BucketOK, NEW r \in Runner, CloudStep(r)
  PROVE  BucketOK'
<1>1. CASE UNCHANGED bucket
  BY <1>1 DEF bucket, BucketOK
<1>2. CASE Walk(r) \/ EndWalk(r) \/ \E p \in Path : HashFails(r, p)
  BY <1>1, <1>2 DEF Walk, EndWalk, HashFails
<1>3. ASSUME NEW p \in Path, HashFile(r, p) PROVE BucketOK'
  <2>1. UNCHANGED <<object, rows>> /\ doubt' \in {doubt, doubt \cup {p}}
    BY <1>3 DEF HashFile
  <2>. QED
    BY <2>1 DEF BucketOK
<1>4. CASE ReadFile(r) \/ PutObject(r) \/ PutFails(r) \/ Record(r) \/ RecordFails(r)
  <2>1. PICK d : d = run[r] /\ RunOK(d)
    BY DEF RunsOK
  <2>2. d.path \in Path /\ d.hash \in Content /\ (d.pc = "put" => d.data \in Content)
    BY <1>4, <2>1 DEF ReadFile, PutObject, PutFails, Record, RecordFails, RunOK, Idle
  <2>3. object' \in {object, [object EXCEPT ![d.path] = d.data]} /\ (object' # object => d.pc = "put")
    BY <1>4, <2>1 DEF ReadFile, PutObject, PutFails, Record, RecordFails, bucket
  <2>4. rows' \in {rows, [rows EXCEPT ![d.path] = d.hash]}
    BY <1>4, <2>1 DEF ReadFile, PutObject, PutFails, Record, RecordFails, bucket
  <2>5. doubt' \in {doubt, doubt \cup {d.path}, doubt \ {d.path}}
    BY <1>4, <2>1 DEF ReadFile, PutObject, PutFails, Record, RecordFails, bucket
  <2>6. object' \in [Path -> Content \cup {None}]
    BY <2>2, <2>3 DEF BucketOK
  <2>7. rows' \in [Path -> Content \cup {None}]
    BY <2>2, <2>4 DEF BucketOK
  <2>8. doubt' \subseteq Path
    BY <2>2, <2>5 DEF BucketOK
  <2>. QED
    BY <2>6, <2>7, <2>8 DEF BucketOK
<1>. QED
  BY <1>2, <1>3, <1>4 DEF CloudStep

LEMMA FilesNext == FilesOK /\ [Next]_vars => FilesOK' /\ Steady
<1> SUFFICES ASSUME FilesOK, [Next]_vars PROVE FilesOK' /\ Steady
  OBVIOUS
<1>1. Fault => failures' \in 0..MaxFailures
  BY BoundAssumption DEF FilesOK, Fault
<1>2. CASE UNCHANGED <<file, minute>> /\ (UNCHANGED failures \/ Fault)
  BY <1>1, <1>2 DEF FilesOK, Steady
<1>3. ASSUME NEW p \in Path, NEW c \in Content \cup {None}, Change(p, c) PROVE FilesOK' /\ Steady
  BY <1>3 DEF Change, FilesOK, Steady
<1>4. CASE Minute
  BY <1>4 DEF Minute, FilesOK, Steady
<1>5. ASSUME NEW r \in Runner, StartRun(r) \/ LocalStep(r)
      PROVE  UNCHANGED <<file, minute>> /\ (UNCHANGED failures \/ Fault)
  <2>1. CASE StartRun(r) \/ FillCopy(r) \/ CopyFails(r) \/ EndCopy(r) \/ ListSnaps(r) \/ EndPrune(r)
    BY <2>1 DEF StartRun, FillCopy, CopyFails, EndCopy, ListSnaps, EndPrune, user
  <2>2. ASSUME NEW p, OpenCopy(r, p) \/ RemoveAll(r, p) \/ RemoveFails(r, p)
        PROVE  UNCHANGED <<file, minute>> /\ (UNCHANGED failures \/ Fault)
    BY <2>2 DEF OpenCopy, RemoveAll, RemoveFails, user
  <2>. QED
    BY <1>5, <2>1, <2>2 DEF LocalStep
<1>6. ASSUME NEW r \in Runner, CloudStep(r)
      PROVE  UNCHANGED <<file, minute>> /\ (UNCHANGED failures \/ Fault)
  <2>1. CASE Walk(r) \/ ReadFile(r) \/ PutObject(r) \/ PutFails(r) \/ Record(r) \/ RecordFails(r) \/ EndWalk(r)
    BY <2>1 DEF Walk, ReadFile, PutObject, PutFails, Record, RecordFails, EndWalk, user
  <2>2. ASSUME NEW p, HashFile(r, p) \/ HashFails(r, p)
        PROVE  UNCHANGED <<file, minute>> /\ (UNCHANGED failures \/ Fault)
    BY <2>2 DEF HashFile, HashFails, user
  <2>. QED
    BY <1>6, <2>1, <2>2 DEF CloudStep
<1>7. ASSUME NEW R, Crash(R) PROVE UNCHANGED <<file, minute>> /\ (UNCHANGED failures \/ Fault)
  BY <1>7 DEF Crash, user
<1>8. CASE UNCHANGED vars
  BY <1>2, <1>8 DEF vars, user
<1>9. ASSUME NEW p \in Path, Unlink(p) \/ \E c \in Content : UserWrite(p, c) PROVE FilesOK' /\ Steady
  BY <1>3, <1>9 DEF Unlink, UserWrite
<1>. QED
  BY <1>2, <1>4, <1>5, <1>6, <1>7, <1>8, <1>9 DEF Next

LEMMA CrashRuns == RunsOK /\ Steady /\ (\E R : Crash(R)) => RunsOK'
<1> SUFFICES ASSUME RunsOK, Steady, NEW R, Crash(R) PROVE RunsOK'
  OBVIOUS
<1>1. run' = [r \in Runner |-> IF r \in R THEN Idle ELSE run[r]]
  BY DEF Crash
<1>2. ASSUME NEW r \in Runner PROVE RunOK(run[r])'
  <2>1. PICK d, e : d = run[r] /\ RunOK(d) /\ e = run'[r]
    BY DEF RunsOK
  <2>2. e = d \/ e = Idle
    BY <1>1, <2>1
  <2>3. RunOK(e)'
    BY <2>1, <2>2, RunStays DEF RunOK, Idle
  <2>. QED
    BY <2>1, <2>3
<1>3. run' \in [Runner -> {run'[x] : x \in Runner}]
  BY <1>1
<1>. QED
  BY <1>2, <1>3 DEF RunsOK

LEMMA TypesInit == Init => Types
<1> SUFFICES ASSUME Init PROVE Types
  OBVIOUS
<1>1. run = [r \in Runner |-> Idle]
  BY DEF Init
<1>2. RunsOK
  BY <1>1 DEF RunsOK, RunOK
<1>3. FilesOK /\ SnapsOK /\ BucketOK
  BY BoundAssumption DEF Init, FilesOK, SnapsOK, BucketOK
<1>. QED
  BY <1>2, <1>3 DEF Types

LEMMA TypesNext == Types /\ [Next]_vars => Types'
<1> SUFFICES ASSUME Types, [Next]_vars PROVE Types'
  OBVIOUS
<1>1. FilesOK /\ FilesOK' /\ Steady /\ RunsOK /\ SnapsOK /\ BucketOK
  BY FilesNext DEF Types
<1>2. ASSUME UNCHANGED copies PROVE SnapsOK'
  BY <1>1, <1>2 DEF copies, SnapsOK, Steady
<1>3. ASSUME UNCHANGED bucket PROVE BucketOK'
  BY <1>1, <1>3 DEF bucket, BucketOK
<1>4. ASSUME UNCHANGED run PROVE RunsOK'
  <2>1. ASSUME NEW r \in Runner PROVE RunOK(run[r])'
    <3>1. PICK d : d = run[r] /\ RunOK(d)
      BY <1>1 DEF RunsOK
    <3>. QED
      BY <1>1, <1>4, <3>1, RunStays
  <2>. QED
    BY <1>1, <1>4, <2>1 DEF RunsOK
<1>5. CASE UNCHANGED vars
  BY <1>1, <1>2, <1>3, <1>4, <1>5 DEF vars, Types
<1>6. ASSUME NEW p \in Path, NEW c, Change(p, c) PROVE Types'
  <2>1. UNCHANGED copies /\ UNCHANGED bucket /\ UNCHANGED minute /\ Hold(p, c)
    BY <1>6 DEF Change
  <2>. QED
    BY <1>1, <1>2, <1>3, <2>1, HoldRuns DEF Types
<1>7. CASE Minute
  BY <1>1, <1>2, <1>3, <1>4, <1>7 DEF Minute, Types
<1>8. ASSUME NEW r \in Runner, StartRun(r) PROVE Types'
  <2>1. UNCHANGED bucket
    BY <1>8 DEF StartRun
  <2>. QED
    BY <1>1, <1>3, <1>8, <2>1, StartRuns, StartSnaps DEF Types
<1>9. ASSUME NEW r \in Runner, LocalStep(r) PROVE Types'
  <2>1. UNCHANGED bucket
    BY <1>9 DEF LocalStep, OpenCopy, FillCopy, CopyFails, EndCopy, ListSnaps, RemoveAll, RemoveFails, EndPrune
  <2>2. CASE CopyFails(r) \/ ListSnaps(r) \/ EndPrune(r)
    <3>1. UNCHANGED copies
      BY <2>2 DEF CopyFails, ListSnaps, EndPrune
    <3>. QED
      BY <1>1, <1>2, <1>3, <2>1, <2>2, <3>1, SimpleRuns DEF Simple, Types
  <2>3. CASE FillCopy(r) \/ \E p \in Path : OpenCopy(r, p)
    BY <1>1, <1>3, <2>1, <2>3, CopyRuns, CopySnaps DEF Types
  <2>4. CASE EndCopy(r)
    BY <1>1, <1>3, <2>1, <2>4, SimpleRuns, EndCopySnaps DEF Simple, Types
  <2>5. ASSUME NEW m \in 1..MaxMinute, RemoveAll(r, m) \/ RemoveFails(r, m) PROVE Types'
    BY <1>1, <1>3, <2>1, <2>5, SimpleRuns, RemoveRuns, RemoveSnaps DEF Simple, Types
  <2>. QED
    BY <1>9, <2>2, <2>3, <2>4, <2>5 DEF LocalStep
<1>10. ASSUME NEW r \in Runner, CloudStep(r) PROVE Types'
  <2>1. UNCHANGED copies
    BY <1>10 DEF CloudStep, Walk, HashFile, HashFails, ReadFile, PutObject, PutFails, Record, RecordFails, EndWalk
  <2>2. RunsOK'
    BY <1>1, <1>10, SimpleRuns, UploadRuns DEF CloudStep, Simple
  <2>. QED
    BY <1>1, <1>2, <1>10, <2>1, <2>2, BucketStep DEF Types
<1>11. ASSUME NEW R \in SUBSET Runner, Crash(R) PROVE Types'
  <2>1. UNCHANGED copies /\ BucketOK'
    BY <1>1, <1>11 DEF Crash, BucketOK
  <2>. QED
    BY <1>1, <1>2, <1>11, <2>1, CrashRuns DEF Types
<1>. QED
  BY <1>5, <1>6, <1>7, <1>8, <1>9, <1>10, <1>11 DEF Next, UserWrite, Unlink

(* Files, directories, objects, rows and runs are of their types; what is  *)
(* complete exists; and only contents are put into the bucket.             *)
THEOREM TypeCorrect == Spec => []TypeOK
<1>1. Types => TypeOK
  <2> SUFFICES ASSUME Types PROVE TypeOK
    OBVIOUS
  <2>1. \A r \in Runner : /\ Active(r) => run[r].snap \in 0..minute
                          /\ run[r].pc = "put" => run[r].data \in Content
    BY DEF Types, RunsOK, RunOK, Active, Idle, FilesOK
  <2>. QED
    BY <2>1 DEF Types, FilesOK, SnapsOK, BucketOK, TypeOK
<1>. QED
  BY <1>1, TypesInit, TypesNext, PTL DEF Spec

---------------------------------------------------------------------------
(* Pruning.  A list grows stale, but what is on it has enough newer ones:  *)
(* when the newest of these goes, those that made it go are newer still.   *)

After(S, m) == {n \in S : n > m}
Enough(S, m) == Cardinality(After(S, m)) >= Retain

PruneOK ==
  \A r \in Runner : run[r].pc = "prune" =>
    \A m \in run[r].todo : m \in Nat /\ Enough(DOMAIN snaps, m)

LEMMA AfterFinite ==
  ASSUME NEW S, IsFiniteSet(S), NEW m
  PROVE  IsFiniteSet(After(S, m)) /\ Cardinality(After(S, m)) \in Nat
<1>1. After(S, m) \subseteq S
  BY DEF After
<1>. QED
  BY <1>1, FS_Subset, FS_CardinalityType

LEMMA EnoughMore ==
  ASSUME NEW S, IsFiniteSet(S), NEW m, Enough(S, m), NEW T, NEW n, IsFiniteSet(T),
         After(S, m) \subseteq After(T, n)
  PROVE  Enough(T, n)
<1>1. IsFiniteSet(After(S, m)) /\ Cardinality(After(S, m)) \in Nat
  BY AfterFinite
<1>2. IsFiniteSet(After(T, n)) /\ Cardinality(After(T, n)) \in Nat
  BY AfterFinite
<1>3. Cardinality(After(S, m)) <= Cardinality(After(T, n))
  BY <1>2, FS_Subset
<1>. QED
  BY <1>1, <1>2, <1>3, RetainAssumption DEF Enough

LEMMA EnoughLess ==
  ASSUME NEW S \in SUBSET Nat, IsFiniteSet(S), NEW k \in Nat, Enough(S, k),
         NEW m \in Nat, Enough(S, m)
  PROVE  Enough(S \ {k}, m)
<1>1. IsFiniteSet(S \ {k})
  BY FS_RemoveElement
<1>2. CASE m < k
  <2>1. \A n \in S : n \in Nat /\ (n > k => n > m /\ n # k)
    BY <1>2
  <2>2. After(S, k) \subseteq After(S \ {k}, m)
    BY <2>1 DEF After
  <2>. QED
    BY <1>1, <2>2, EnoughMore
<1>3. CASE m >= k
  <2>1. After(S, m) \subseteq After(S \ {k}, m)
    BY <1>3 DEF After
  <2>. QED
    BY <1>1, <2>1, EnoughMore
<1>. QED
  BY <1>2, <1>3

LEMMA BelowFinite ==
  ASSUME NEW n \in Nat, NEW S \in SUBSET (1..n)
  PROVE  IsFiniteSet(S) /\ S \subseteq Nat
<1>1. IsFiniteSet(1..n)
  BY FS_Interval
<1>2. IsFiniteSet(S)
  BY <1>1, FS_Subset
<1>. QED
  BY <1>2

LEMMA SnapsFinite == FilesOK /\ SnapsOK => IsFiniteSet(DOMAIN snaps) /\ DOMAIN snaps \subseteq Nat
  BY BelowFinite DEF FilesOK, SnapsOK

(* Nobody starts to prune or goes on with it ... *)
Unpruned ==
  /\ DOMAIN snaps \subseteq DOMAIN snaps'
  /\ \A r \in Runner : run'[r].pc = "prune" => run[r].pc = "prune" /\ run'[r].todo = run[r].todo

LEMMA PruneStays == Types /\ Types' /\ PruneOK /\ Unpruned => PruneOK'
<1> SUFFICES ASSUME Types, Types', PruneOK, Unpruned, NEW r \in Runner, run'[r].pc = "prune",
                    NEW m \in run'[r].todo
             PROVE  m \in Nat /\ Enough(DOMAIN snaps', m)
  BY DEF PruneOK
<1>1. m \in Nat /\ Enough(DOMAIN snaps, m)
  BY DEF PruneOK, Unpruned
<1>2. IsFiniteSet(DOMAIN snaps) /\ IsFiniteSet(DOMAIN snaps')
  BY BelowFinite DEF Types, FilesOK, SnapsOK
<1>3. After(DOMAIN snaps, m) \subseteq After(DOMAIN snaps', m)
  BY DEF Unpruned, After
<1>. QED
  BY <1>1, <1>2, <1>3, EnoughMore

(* A run that moves to something else, with the other runs as they were. *)
LEMMA GotoUnpruned ==
  ASSUME RunsOK, NEW r \in Runner, NEW d, Goto(r, d), d.pc # "prune",
         DOMAIN snaps \subseteq DOMAIN snaps'
  PROVE  Unpruned
  BY DEF RunsOK, Goto, Unpruned

LEMMA GotoUploads ==
  ASSUME RunsOK, NEW r \in Runner, DOMAIN snaps \subseteq DOMAIN snaps',
         \/ Goto(r, Upload) \/ Goto(r, Idle)
         \/ \E T : Goto(r, Run("hash", 0, T, <<>>))
  PROVE  Unpruned
<1>1. Idle.pc # "prune" /\ Upload.pc # "prune" /\ \A T : Run("hash", 0, T, <<>>).pc # "prune"
  BY DEF Idle, Upload, Run
<1>. QED
  BY <1>1, GotoUnpruned

LEMMA CloudUnpruned == Types /\ (\E r \in Runner : CloudStep(r)) => Unpruned
<1> SUFFICES ASSUME Types, NEW r \in Runner, CloudStep(r) PROVE Unpruned
  OBVIOUS
<1>1. RunsOK /\ DOMAIN snaps \subseteq DOMAIN snaps'
  <2>1. UNCHANGED copies
    BY DEF CloudStep, Walk, HashFile, HashFails, ReadFile, PutObject, PutFails, Record, RecordFails, EndWalk
  <2>. QED
    BY <2>1 DEF Types, copies
<1>2. CASE Walk(r) \/ (\E p \in Path : HashFails(r, p)) \/ PutFails(r) \/ Record(r)
           \/ RecordFails(r) \/ EndWalk(r)
  BY <1>1, <1>2, GotoUploads DEF Walk, HashFails, PutFails, Record, RecordFails, EndWalk, Next1
<1>3. \A pc, p, h, c : Upload1(r, pc, p, h, c).pc = pc
  BY DEF Upload1
<1>4. CASE ReadFile(r) \/ \E p \in Path : HashFile(r, p)
  <2>1. PICK pc, p, h, c : /\ Goto(r, Next1(r, p)) \/ Goto(r, Upload1(r, pc, p, h, c))
                           /\ pc \in {"read", "put"}
    BY <1>4 DEF ReadFile, HashFile
  <2>2. CASE Goto(r, Next1(r, p))
    BY <1>1, <2>2, GotoUploads DEF Next1
  <2>3. CASE Goto(r, Upload1(r, pc, p, h, c))
    BY <1>1, <1>3, <2>1, <2>3, GotoUnpruned
  <2>. QED
    BY <2>1, <2>2, <2>3
<1>5. CASE PutObject(r)
  <2>1. PICK d, e : d = run[r] /\ e = [d EXCEPT !.pc = "record"]
    OBVIOUS
  <2>2. Goto(r, e) /\ d.pc = "put" /\ RunOK(d)
    BY <1>1, <1>5, <2>1 DEF PutObject, RunsOK
  <2>3. e.pc = "record"
    BY <2>1, <2>2 DEF RunOK, Idle
  <2>. QED
    BY <1>1, <2>2, <2>3, GotoUnpruned
<1>. QED
  BY <1>2, <1>4, <1>5 DEF CloudStep

LEMMA CopyUnpruned ==
  ASSUME Types, NEW r \in Runner,
         \/ StartRun(r) \/ FillCopy(r) \/ CopyFails(r) \/ EndCopy(r) \/ EndPrune(r)
         \/ \E p \in Path : OpenCopy(r, p)
         \/ \E m \in 1..MaxMinute : RemoveFails(r, m)
  PROVE  Unpruned
<1>1. DOMAIN snaps \subseteq DOMAIN snaps'
  <2>1. CASE StartRun(r)
    BY <2>1 DEF StartRun, Put
  <2>2. CASE FillCopy(r) \/ CopyFails(r) \/ EndCopy(r) \/ EndPrune(r)
    BY <2>2 DEF FillCopy, CopyFails, EndCopy, EndPrune, copies
  <2>3. CASE \/ \E p \in Path : OpenCopy(r, p)
             \/ \E m \in 1..MaxMinute : RemoveFails(r, m)
    BY <2>3 DEF OpenCopy, RemoveFails
  <2>. QED
    BY <2>1, <2>2, <2>3
<1>2. CASE CopyFails(r) \/ EndPrune(r) \/ \E m \in 1..MaxMinute : RemoveFails(r, m)
  BY <1>1, <1>2, GotoUploads DEF CopyFails, EndPrune, RemoveFails, Types
<1>3. \A pc, m, T, h : Run(pc, m, T, h).pc = pc
  BY DEF Run
<1>4. CASE StartRun(r) \/ FillCopy(r) \/ EndCopy(r)
  <2>1. \/ Goto(r, Upload)
        \/ \E pc \in {"copy", "list"} : \E m, T, h : Goto(r, Run(pc, m, T, h))
    BY <1>4 DEF StartRun, FillCopy, EndCopy
  <2>. QED
    BY <1>1, <1>3, <2>1, GotoUploads, GotoUnpruned DEF Types
<1>5. ASSUME NEW p \in Path, OpenCopy(r, p) PROVE Unpruned
  <2>1. PICK e : Goto(r, e) /\ e.pc = "fill"
    BY <1>5 DEF OpenCopy
  <2>. QED
    BY <1>1, <2>1, GotoUnpruned DEF Types
<1>. QED
  BY <1>2, <1>4, <1>5

(* ... or lists what is old ... *)
LEMMA ListPrunes ==
  ASSUME Types, PruneOK, NEW r \in Runner, ListSnaps(r)
  PROVE  PruneOK'
<1>1. PICK d : d = Run("prune", run[r].snap, Old, <<>>)
  OBVIOUS
<1>2. run' = [run EXCEPT ![r] = d] /\ UNCHANGED snaps /\ d.todo = Old
  BY <1>1 DEF ListSnaps, Goto, copies, Run
<1>3. \A m \in Old : m \in Nat /\ Enough(DOMAIN snaps, m)
  BY SnapsFinite DEF Old, Newer, Enough, After, Types
<1>. QED
  BY <1>2, <1>3 DEF PruneOK, Types, RunsOK

(* ... or removes a directory. *)
LEMMA RemovePrunes ==
  ASSUME Types, PruneOK, NEW r \in Runner, NEW k, RemoveAll(r, k)
  PROVE  PruneOK' /\ DOMAIN snaps' = DOMAIN snaps \ {k} /\ Enough(DOMAIN snaps \ {k}, k)
<1>1. PICK d, e : d = run[r] /\ e = [d EXCEPT !.todo = @ \ {k}]
  OBVIOUS
<1>2. run' = [run EXCEPT ![r] = e] /\ snaps' = Without(snaps, {k})
  BY <1>1 DEF RemoveAll, Goto
<1>3. d.pc = "prune" /\ k \in d.todo /\ RunOK(d)
  BY <1>1 DEF RemoveAll, First, Types, RunsOK
<1>4. e.todo \subseteq d.todo
  BY <1>1, <1>3 DEF RunOK, Run, Idle
<1>5. DOMAIN snaps' = DOMAIN snaps \ {k}
  BY <1>2 DEF Without, Restrict
<1>6. k \in Nat /\ Enough(DOMAIN snaps, k)
  BY <1>1, <1>3 DEF PruneOK
<1>7. \A m : m \in Nat /\ Enough(DOMAIN snaps, m) => Enough(DOMAIN snaps', m)
  BY <1>5, <1>6, SnapsFinite, EnoughLess DEF Types
<1>8. ASSUME NEW x \in Runner, run'[x].pc = "prune", NEW m \in run'[x].todo
      PROVE  m \in Nat /\ Enough(DOMAIN snaps', m)
  <2>1. run[x].pc = "prune" /\ m \in run[x].todo
    BY <1>1, <1>2, <1>3, <1>4, <1>8 DEF Types, RunsOK
  <2>. QED
    BY <1>7, <2>1 DEF PruneOK
<1>. QED
  BY <1>5, <1>6, <1>7, <1>8 DEF PruneOK

Kept == \A m \in DOMAIN snaps \ DOMAIN snaps' :
          Cardinality({n \in DOMAIN snaps' : n > m}) >= Retain

LEMMA PruneNext == Types /\ Types' /\ PruneOK /\ [Next]_vars => PruneOK' /\ Kept
<1> SUFFICES ASSUME Types, Types', PruneOK, [Next]_vars PROVE PruneOK' /\ Kept
  OBVIOUS
<1>1. ASSUME Unpruned PROVE PruneOK' /\ Kept
  BY <1>1, PruneStays DEF Unpruned, Kept
<1>2. ASSUME UNCHANGED <<snaps, run>> PROVE Unpruned
  BY <1>2 DEF Unpruned
<1>3. CASE UNCHANGED vars \/ Minute
  BY <1>1, <1>2, <1>3 DEF vars, copies, Minute
<1>4. ASSUME NEW p \in Path, NEW c, Change(p, c) PROVE Unpruned
  <2>1. UNCHANGED snaps /\ Hold(p, c)
    BY <1>4 DEF Change, copies
  <2>2. ASSUME NEW r \in Runner, run'[r].pc = "prune"
        PROVE  run[r].pc = "prune" /\ run'[r].todo = run[r].todo
    <3>1. PICK d : d = run[r] /\ RunOK(d)
      BY DEF Types, RunsOK
    <3>2. CASE run'[r] = [d EXCEPT !.held[p] = @ \cup {c}] /\ d.pc \in {"copy", "fill"}
      <4>1. run'[r].pc = d.pc
        BY <3>1, <3>2 DEF RunOK, Run, Idle
      <4>. QED
        BY <2>2, <3>2, <4>1
    <3>. QED
      BY <2>1, <2>2, <3>1, <3>2 DEF Hold
  <2>. QED
    BY <2>1, <2>2 DEF Unpruned
<1>5. ASSUME NEW r \in Runner, LocalStep(r) PROVE PruneOK' /\ Kept
  <2>1. CASE ListSnaps(r)
    BY <2>1, ListPrunes DEF Kept, ListSnaps, copies
  <2>2. ASSUME NEW m \in 1..MaxMinute, RemoveAll(r, m) PROVE PruneOK' /\ Kept
    BY <2>2, RemovePrunes DEF Kept, Enough, After
  <2>. QED
    BY <1>1, <1>5, <2>1, <2>2, CopyUnpruned DEF LocalStep
<1>6. ASSUME NEW R, Crash(R) PROVE Unpruned
  BY <1>6 DEF Crash, copies, Unpruned, Idle
<1>. QED
  BY <1>1, <1>3, <1>4, <1>5, <1>6, CopyUnpruned, CloudUnpruned DEF Next, UserWrite, Unlink

LEMMA PruneInit == Init => PruneOK
  BY DEF Init, PruneOK, Idle

(* However stale the list of a pruning run is, a directory goes only while *)
(* enough newer ones are there.                                            *)
THEOREM NewestAreKept == Spec => PruneKeepsNewest
<1>1. Types /\ Types' /\ PruneOK /\ [Next]_vars =>
        [\A m \in DOMAIN snaps \ DOMAIN snaps' :
           Cardinality({n \in DOMAIN snaps' : n > m}) >= Retain]_vars
  BY PruneNext DEF Kept
<1>. QED
  BY <1>1, TypesInit, TypesNext, PruneInit, PruneNext, PTL DEF Spec, PruneKeepsNewest

---------------------------------------------------------------------------
(* Whole copies.  A run that copies has its directory for itself, or the   *)
(* minute is spoilt; what it has copied is there, until the directory is   *)
(* pruned, and that it is never in the same minute.                        *)

Copying(d) == d.pc \in {"copy", "fill"}

CopyOK(d) ==
  /\ d.snap = minute => minute \in DOMAIN snaps
  /\ \A p \in DOMAIN d.held : file[p] \in d.held[p]
  /\ d.pc = "fill" => d.buf \in d.held[d.path]
  /\ d.snap \in DOMAIN snaps \ spoilt =>
       \A p \in DOMAIN d.held \ d.todo :
         /\ p \in DOMAIN snaps[d.snap]
         /\ snaps[d.snap][p] \in d.held[p] \/ (d.pc = "fill" /\ d.path = p)
  /\ d.snap \notin DOMAIN complete \ spoilt

CopiesOK == \A r \in Runner : Copying(run[r]) => CopyOK(run[r])

Apart ==
  \A r, x \in Runner :
    r # x /\ Copying(run[r]) /\ Copying(run[x]) /\ run[r].snap = run[x].snap
      => run[r].snap \in spoilt

Whole(m) ==
  \A p \in DOMAIN complete[m] : p \in DOMAIN snaps[m] /\ snaps[m][p] \in complete[m][p]

WholeOK == (\A m \in DOMAIN complete \ spoilt : Whole(m)) /\ CopiesOK /\ Apart

(* What a run in directory k does to the others. *)
Only(k) ==
  /\ UNCHANGED <<file, minute>> /\ spoilt \subseteq spoilt'
  /\ minute \in DOMAIN snaps => minute \in DOMAIN snaps'
  /\ \A m \in DOMAIN snaps' \ spoilt' : m # k => m \in DOMAIN snaps /\ snaps'[m] = snaps[m]
  /\ \A m \in DOMAIN complete' \ spoilt' : m # k => m \in DOMAIN complete /\ complete'[m] = complete[m]

LEMMA CopyStays ==
  ASSUME Types, Types', NEW k, Only(k), NEW d, RunOK(d), Copying(d), CopyOK(d),
         d.snap = k => k \in spoilt' \/ k \notin DOMAIN snaps'
  PROVE  CopyOK(d)'
<1>1. d.snap \notin DOMAIN complete' \ spoilt'
  BY DEF Only, CopyOK, Types, SnapsOK
<1>2. d.snap \in DOMAIN snaps' \ spoilt' => d.snap \in DOMAIN snaps \ spoilt /\ snaps'[d.snap] = snaps[d.snap]
  BY DEF Only
<1>. QED
  BY <1>1, <1>2 DEF Only, CopyOK

LEMMA WholeStays ==
  ASSUME Types, Types', WholeOK, NEW k, Only(k), NEW r \in Runner,
         \A x \in Runner \ {r} : run'[x] = run[x],
         \A x \in Runner \ {r} : Copying(run[x]) /\ run[x].snap = k
                                   => k \in spoilt' \/ k \notin DOMAIN snaps',
         Copying(run'[r]) =>
           /\ run'[r].snap = k /\ CopyOK(run[r])'
           /\ \A x \in Runner \ {r} : Copying(run[x]) /\ run[x].snap = k => k \in spoilt',
         k \in DOMAIN complete' \ spoilt' => Whole(k)'
  PROVE  WholeOK'
<1>1. ASSUME NEW m \in DOMAIN complete' \ spoilt' PROVE Whole(m)'
  <2>1. CASE m = k
    BY <1>1, <2>1 DEF Whole
  <2>2. CASE m # k
    <3>1. m \in DOMAIN complete \ spoilt /\ complete'[m] = complete[m]
      BY <1>1, <2>2 DEF Only
    <3>2. snaps'[m] = snaps[m]
      BY <1>1, <2>2 DEF Only, Types, SnapsOK
    <3>. QED
      BY <3>1, <3>2 DEF WholeOK, Whole
  <2>. QED
    BY <2>1, <2>2
<1>2. ASSUME NEW x \in Runner, Copying(run'[x]) PROVE CopyOK(run[x])'
  <2>1. CASE x # r
    <3>1. PICK d : d = run[x] /\ d = run'[x]
      BY <2>1
    <3>2. RunOK(d) /\ Copying(d) /\ CopyOK(d)
      BY <1>2, <3>1 DEF WholeOK, CopiesOK, Types, RunsOK
    <3>3. CopyOK(d)'
      BY <2>1, <3>1, <3>2, CopyStays
    <3>. QED
      BY <3>1, <3>3
  <2>. QED
    BY <1>2, <2>1
<1>3. Apart'
  BY DEF WholeOK, Apart, Only
<1>. QED
  BY <1>1, <1>2, <1>3 DEF WholeOK, CopiesOK, Copying

(* Nothing about directories: some runs copy no longer. *)
LEMMA QuietWhole ==
  ASSUME Types, WholeOK, UNCHANGED <<file, minute, snaps, complete, spoilt>>,
         \A r \in Runner : Copying(run'[r]) => run'[r] = run[r]
  PROVE  WholeOK'
<1>1. ASSUME NEW m \in DOMAIN complete' \ spoilt' PROVE Whole(m)'
  BY <1>1 DEF WholeOK, Whole
<1>2. ASSUME NEW r \in Runner, Copying(run'[r]) PROVE CopyOK(run[r])'
  BY <1>2 DEF WholeOK, CopiesOK, CopyOK
<1>3. Apart'
  BY DEF WholeOK, Apart
<1>. QED
  BY <1>1, <1>2, <1>3 DEF WholeOK, CopiesOK, Copying

LEMMA GotoQuiet ==
  ASSUME Types, WholeOK, UNCHANGED <<file, minute, snaps, complete, spoilt>>,
         NEW r \in Runner, NEW d, Goto(r, d), ~Copying(d)
  PROVE  WholeOK'
<1>1. \A x \in Runner : Copying(run'[x]) => run'[x] = run[x]
  BY DEF Goto, Types, RunsOK
<1>. QED
  BY <1>1, QuietWhole

LEMMA NotCopying ==
  /\ ~Copying(Idle) /\ ~Copying(Upload)
  /\ \A pc \in {"list", "prune", "walk", "hash"} : \A m, T, h : ~Copying(Run(pc, m, T, h))
  BY DEF Copying, Idle, Upload, Run

LEMMA CloudQuiet == Types /\ WholeOK /\ (\E r \in Runner : CloudStep(r)) => WholeOK'
<1> SUFFICES ASSUME Types, WholeOK, NEW r \in Runner, CloudStep(r) PROVE WholeOK'
  OBVIOUS
<1>1. UNCHANGED <<file, minute, snaps, complete, spoilt>>
  <2>1. UNCHANGED <<user, copies, together>>
    BY DEF CloudStep, Walk, HashFile, HashFails, ReadFile, PutObject, PutFails, Record, RecordFails, EndWalk
  <2>. QED
    BY <2>1 DEF user, copies, together
<1>2. \E d : Goto(r, d) /\ ~Copying(d)
  <2>1. CASE Walk(r) \/ (\E p \in Path : HashFails(r, p)) \/ PutFails(r) \/ Record(r)
             \/ RecordFails(r) \/ EndWalk(r)
    BY <2>1, NotCopying DEF Walk, HashFails, PutFails, Record, RecordFails, EndWalk, Next1
  <2>2. \A pc \in {"read", "put"} : \A p, h, c : ~Copying(Upload1(r, pc, p, h, c))
    BY DEF Upload1, Copying
  <2>3. CASE ReadFile(r) \/ \E p \in Path : HashFile(r, p)
    BY <2>2, <2>3, NotCopying DEF ReadFile, HashFile, Next1
  <2>4. CASE PutObject(r)
    <3>1. PICK d, e : d = run[r] /\ e = [d EXCEPT !.pc = "record"]
      OBVIOUS
    <3>2. Goto(r, e) /\ d.pc = "put" /\ RunOK(d)
      BY <2>4, <3>1 DEF PutObject, Types, RunsOK
    <3>3. e.pc = "record"
      BY <3>1, <3>2 DEF RunOK, Idle
    <3>. QED
      BY <3>2, <3>3 DEF Copying
  <2>. QED
    BY <2>1, <2>3, <2>4 DEF CloudStep
<1>. QED
  BY <1>1, <1>2, GotoQuiet

LEMMA EndsQuiet ==
  ASSUME Types, WholeOK, NEW r \in Runner, CopyFails(r) \/ ListSnaps(r) \/ EndPrune(r)
  PROVE  WholeOK'
<1>1. UNCHANGED <<file, minute, snaps, complete, spoilt>>
  <2>1. UNCHANGED <<user, copies, together>>
    BY DEF CopyFails, ListSnaps, EndPrune
  <2>. QED
    BY <2>1 DEF user, copies, together
<1>2. \E d : Goto(r, d) /\ ~Copying(d)
  BY NotCopying DEF CopyFails, ListSnaps, EndPrune
<1>. QED
  BY <1>1, <1>2, GotoQuiet

(* The user's writes are held. *)
LEMMA ChangeWhole ==
  ASSUME Types, WholeOK, NEW p \in Path, NEW c, Change(p, c)
  PROVE  WholeOK'
<1>1. /\ file' = [file EXCEPT ![p] = c] /\ UNCHANGED <<minute, snaps, complete, spoilt>> /\ Hold(p, c)
  BY DEF Change, copies, together
<1>2. ASSUME NEW m \in DOMAIN complete' \ spoilt' PROVE Whole(m)'
  BY <1>1, <1>2 DEF WholeOK, Whole
<1>3. ASSUME NEW r \in Runner, Copying(run'[r])
      PROVE  /\ Copying(run[r]) /\ run'[r].pc = run[r].pc /\ run'[r].snap = run[r].snap
             /\ CopyOK(run[r])'
  <2>1. PICK d, e : d = run[r] /\ RunOK(d) /\ e = run'[r] /\ Copying(e)
    BY <1>3 DEF Types, RunsOK
  <2>2. CASE ~Copying(d)
    BY <1>1, <2>1, <2>2 DEF Hold, Copying
  <2>3. CASE Copying(d) /\ p \notin DOMAIN d.held
    <3>1. e = d /\ CopyOK(d)
      BY <1>1, <2>1, <2>3 DEF Hold, Copying, WholeOK, CopiesOK
    <3>2. \A q \in DOMAIN d.held : file'[q] = file[q]
      <4>1. DOMAIN d.held \subseteq Path
        BY <2>1, <2>3 DEF RunOK, Copying, Idle
      <4>. QED
        BY <1>1, <2>3, <4>1 DEF Types, FilesOK
    <3>3. CopyOK(d)'
      BY <1>1, <3>1, <3>2 DEF CopyOK
    <3>. QED
      BY <2>1, <2>3, <3>1, <3>3
  <2>4. CASE Copying(d) /\ p \in DOMAIN d.held
    <3>1. PICK h : h = [d.held EXCEPT ![p] = @ \cup {c}]
      OBVIOUS
    <3>2. DOMAIN h = DOMAIN d.held /\ \A q \in DOMAIN h : d.held[q] \subseteq h[q] /\ (q = p => c \in h[q])
      BY <3>1
    <3>3. e = [d EXCEPT !.held[p] = @ \cup {c}]
      BY <1>1, <2>1, <2>4 DEF Hold, Copying
    <3>4. e.pc = d.pc /\ e.snap = d.snap /\ e.todo = d.todo /\ e.held = h
      BY <2>1, <2>4, <3>1, <3>3 DEF RunOK, Run, Copying, Idle
    <3>5. d.pc = "fill" => e.buf = d.buf /\ e.path = d.path /\ d.path \in DOMAIN d.held
      BY <2>1, <2>4, <3>3 DEF RunOK, Run, Idle
    <3>6. \A q \in DOMAIN h : file'[q] \in h[q]
      <4>1. DOMAIN d.held \subseteq Path /\ CopyOK(d)
        BY <2>1, <2>4 DEF RunOK, Copying, Idle, WholeOK, CopiesOK
      <4>. QED
        BY <1>1, <3>2, <4>1 DEF CopyOK, Types, FilesOK
    <3>7. CopyOK(d)
      BY <2>1, <2>4 DEF WholeOK, CopiesOK
    <3>8. CopyOK(e)'
      BY <1>1, <3>2, <3>4, <3>5, <3>6, <3>7 DEF CopyOK
    <3>. QED
      BY <2>1, <2>4, <3>4, <3>8
  <2>. QED
    BY <2>2, <2>3, <2>4
<1>4. Apart'
  BY <1>1, <1>3 DEF WholeOK, Apart
<1>. QED
  BY <1>2, <1>3, <1>4 DEF WholeOK, CopiesOK, Copying

LEMMA MinuteWhole == Types /\ WholeOK /\ Minute => WholeOK'
<1> SUFFICES ASSUME Types, WholeOK, Minute PROVE WholeOK'
  OBVIOUS
<1>1. minute' = minute + 1 /\ minute \in Nat /\ UNCHANGED <<file, snaps, complete, spoilt, run>>
  BY DEF Minute, copies, together, Types, FilesOK
<1>2. ASSUME NEW m \in DOMAIN complete' \ spoilt' PROVE Whole(m)'
  BY <1>1, <1>2 DEF WholeOK, Whole
<1>3. ASSUME NEW r \in Runner, Copying(run[r]) PROVE CopyOK(run[r])'
  <2>1. PICK d : d = run[r] /\ RunOK(d) /\ CopyOK(d)
    BY <1>3 DEF Types, RunsOK, WholeOK, CopiesOK
  <2>2. d.snap \in 0..minute
    BY <1>1, <1>3, <2>1 DEF RunOK, Copying, Idle
  <2>3. CopyOK(d)'
    BY <1>1, <2>1, <2>2 DEF CopyOK
  <2>. QED
    BY <1>1, <2>1, <2>3
<1>4. Apart'
  BY <1>1 DEF WholeOK, Apart, Copying
<1>. QED
  BY <1>1, <1>2, <1>3, <1>4 DEF WholeOK, CopiesOK, Copying

LEMMA StartWhole ==
  ASSUME Types, Types', WholeOK, NEW r \in Runner, StartRun(r)
  PROVE  WholeOK'
<1>1. /\ UNCHANGED <<file, minute>> /\ complete' = Without(complete, {minute})
      /\ spoilt \subseteq spoilt'
  BY DEF StartRun, user
<1>2. /\ DOMAIN complete' = DOMAIN complete \ {minute}
      /\ \A m \in DOMAIN complete \ {minute} : complete'[m] = complete[m]
  BY <1>1 DEF Without, Restrict
<1>3. /\ \A m \in DOMAIN snaps' : m # minute => m \in DOMAIN snaps /\ snaps'[m] = snaps[m]
      /\ minute \in DOMAIN snaps => minute \in DOMAIN snaps'
  BY DEF StartRun, Put
<1>4. Only(minute)
  BY <1>1, <1>2, <1>3 DEF Only
<1>5. \A x \in Runner : Copying(run[x]) /\ run[x].snap = minute => minute \in DOMAIN snaps
  BY DEF WholeOK, CopiesOK, CopyOK
<1>6. \A x \in Runner \ {r} : run'[x] = run[x]
  BY DEF StartRun, Goto, Types, RunsOK
<1>7. CASE "local" \in mode
  <2>1. PICK h : h = [p \in Existing |-> {file[p]}]
    OBVIOUS
  <2>2. PICK d : d = Run("copy", minute, Existing, h)
    OBVIOUS
  <2>3. run'[r] = d /\ minute \in DOMAIN snaps' /\ (minute \in DOMAIN snaps => minute \in spoilt')
    BY <1>7, <2>1, <2>2 DEF StartRun, Goto, Types, RunsOK, Put
  <2>4. d.pc = "copy" /\ d.snap = minute /\ d.todo = Existing /\ d.held = h
    BY <2>2 DEF Run
  <2>5. CopyOK(d)'
    BY <1>1, <1>2, <2>1, <2>3, <2>4 DEF CopyOK
  <2>. QED
    BY <1>2, <1>4, <1>5, <1>6, <2>3, <2>4, <2>5, WholeStays
<1>8. CASE "local" \notin mode
  <2>1. Goto(r, Upload) /\ UNCHANGED <<snaps, spoilt>>
    BY <1>8 DEF StartRun
  <2>2. \A x \in Runner : Copying(run'[x]) => run'[x] = run[x]
    BY <1>6, <2>1, NotCopying DEF Goto, Types, RunsOK
  <2>3. ASSUME NEW m \in DOMAIN complete' \ spoilt' PROVE Whole(m)'
    BY <1>2, <2>1, <2>3 DEF WholeOK, Whole
  <2>4. ASSUME NEW x \in Runner, Copying(run'[x]) PROVE CopyOK(run[x])'
    BY <1>1, <1>2, <2>1, <2>2, <2>4 DEF WholeOK, CopiesOK, CopyOK
  <2>5. Apart'
    BY <2>1, <2>2 DEF WholeOK, Apart
  <2>. QED
    BY <2>3, <2>4, <2>5 DEF WholeOK, CopiesOK, Copying
<1>. QED
  BY <1>7, <1>8

(* A file is opened, or filled: in the run's own directory. *)
LEMMA OwnDirectory ==
  ASSUME Types, Types', WholeOK, NEW r \in Runner, NEW d, d = run[r], Copying(d),
         NEW e, run' = [run EXCEPT ![r] = e], Copying(e), e.snap = d.snap, CopyOK(e)',
         UNCHANGED <<file, minute, complete, spoilt>>,
         DOMAIN snaps' = DOMAIN snaps, \A m \in DOMAIN snaps : m # d.snap => snaps'[m] = snaps[m]
  PROVE  WholeOK'
<1>1. PICK k : k = d.snap
  OBVIOUS
<1>2. Only(k)
  BY <1>1 DEF Only
<1>3. run'[r] = e /\ \A x \in Runner \ {r} : run'[x] = run[x]
  BY DEF Types, RunsOK
<1>4. \A x \in Runner \ {r} : Copying(run[x]) /\ run[x].snap = k => k \in spoilt'
  BY <1>1 DEF WholeOK, Apart
<1>5. k \notin DOMAIN complete' \ spoilt'
  BY <1>1 DEF CopyOK
<1>. QED
  BY <1>1, <1>2, <1>3, <1>4, <1>5, WholeStays

LEMMA OpenWhole ==
  ASSUME Types, Types', WholeOK, NEW r \in Runner, NEW p \in Path, OpenCopy(r, p)
  PROVE  WholeOK'
<1>1. PICK d : d = run[r] /\ RunOK(d)
  BY DEF Types, RunsOK
<1>2. PICK e : e = [pc |-> "fill", snap |-> d.snap, todo |-> d.todo \ {p}, held |-> d.held,
                    path |-> p, buf |-> file[p]]
  OBVIOUS
<1>3. PICK s : s = Put(snaps[d.snap], p, Torn)
  OBVIOUS
<1>4. /\ run' = [run EXCEPT ![r] = e] /\ snaps' = [snaps EXCEPT ![d.snap] = s]
      /\ d.pc = "copy" /\ p \in d.todo /\ d.snap \in DOMAIN snaps
      /\ UNCHANGED <<user, together, complete>>
  BY <1>1, <1>2, <1>3 DEF OpenCopy, Goto, First, CanCopy
<1>5. UNCHANGED <<file, minute, complete, spoilt>>
  BY <1>4 DEF user, together
<1>6. /\ DOMAIN s = DOMAIN snaps[d.snap] \cup {p}
      /\ \A q \in DOMAIN snaps[d.snap] : q # p => s[q] = snaps[d.snap][q]
  BY <1>3 DEF Put
<1>7. CopyOK(d) /\ p \in DOMAIN d.held /\ Copying(d)
  BY <1>1, <1>4 DEF WholeOK, CopiesOK, Copying, RunOK, Idle
<1>8. CopyOK(e)'
  <2>1. file'[p] \in e.held[p]
    BY <1>2, <1>5, <1>7 DEF CopyOK
  <2>2. ASSUME e.snap \notin spoilt', NEW q \in DOMAIN e.held \ e.todo
        PROVE  /\ q \in DOMAIN snaps'[e.snap]
               /\ snaps'[e.snap][q] \in e.held[q] \/ (e.pc = "fill" /\ e.path = q)
    <3>1. e.snap = d.snap /\ snaps'[e.snap] = s /\ e.held = d.held /\ e.pc = "fill" /\ e.path = p
      BY <1>2, <1>4
    <3>2. CASE q = p
      BY <1>6, <3>1, <3>2
    <3>3. CASE q # p
      <4>1. q \in DOMAIN d.held \ d.todo
        BY <1>2, <2>2, <3>3
      <4>2. q \in DOMAIN snaps[d.snap] /\ snaps[d.snap][q] \in d.held[q]
        BY <1>4, <1>5, <1>7, <2>2, <3>1, <4>1 DEF CopyOK
      <4>. QED
        BY <1>6, <3>1, <3>3, <4>2
    <3>. QED
      BY <3>2, <3>3
  <2>. QED
    BY <1>2, <1>4, <1>5, <1>7, <2>1, <2>2 DEF CopyOK
<1>9. Copying(e) /\ e.snap = d.snap
  BY <1>2 DEF Copying
<1>10. DOMAIN snaps' = DOMAIN snaps /\ \A m \in DOMAIN snaps : m # d.snap => snaps'[m] = snaps[m]
  BY <1>4
<1>. QED
  BY <1>1, <1>4, <1>5, <1>7, <1>8, <1>9, <1>10, OwnDirectory

LEMMA FillWhole ==
  ASSUME Types, Types', WholeOK, NEW r \in Runner, FillCopy(r)
  PROVE  WholeOK'
<1>1. PICK d : d = run[r] /\ RunOK(d)
  BY DEF Types, RunsOK
<1>2. PICK e : e = Run("copy", d.snap, d.todo, d.held)
  OBVIOUS
<1>3. /\ run' = [run EXCEPT ![r] = e] /\ d.pc = "fill"
      /\ UNCHANGED <<user, together, complete>>
  BY <1>1, <1>2 DEF FillCopy, Goto
<1>4. UNCHANGED <<file, minute, complete, spoilt>>
  BY <1>3 DEF user, together
<1>5. CopyOK(d) /\ Copying(d) /\ d.path \in DOMAIN d.held
  BY <1>1, <1>3 DEF WholeOK, CopiesOK, Copying, RunOK, Run, Idle
<1>6. PICK c : /\ c \in d.held[d.path]
               /\ snaps' = IF d.snap \in DOMAIN snaps /\ d.path \in DOMAIN snaps[d.snap]
                           THEN [snaps EXCEPT ![d.snap][d.path] = c] ELSE snaps
  <2>1. d.buf \in d.held[d.path] /\ file[d.path] \in d.held[d.path]
    BY <1>3, <1>5 DEF CopyOK
  <2>. QED
    BY <1>1, <2>1 DEF FillCopy, Copied
<1>7. DOMAIN snaps' = DOMAIN snaps /\ \A m \in DOMAIN snaps : m # d.snap => snaps'[m] = snaps[m]
  BY <1>6
<1>8. e.pc = "copy" /\ e.snap = d.snap /\ e.todo = d.todo /\ e.held = d.held
  BY <1>2 DEF Run
<1>9. CopyOK(e)'
  <2>1. ASSUME d.snap \in DOMAIN snaps \ spoilt, NEW q \in DOMAIN d.held \ d.todo
        PROVE  q \in DOMAIN snaps'[d.snap] /\ snaps'[d.snap][q] \in d.held[q]
    <3>1. /\ q \in DOMAIN snaps[d.snap]
          /\ snaps[d.snap][q] \in d.held[q] \/ d.path = q
      BY <1>5, <2>1 DEF CopyOK
    <3>2. CASE d.path \in DOMAIN snaps[d.snap]
      <4>1. PICK s : s = [snaps[d.snap] EXCEPT ![d.path] = c]
        OBVIOUS
      <4>2. snaps'[d.snap] = s
        BY <1>6, <2>1, <3>2, <4>1
      <4>. QED
        BY <1>6, <3>1, <3>2, <4>1, <4>2
    <3>3. CASE d.path \notin DOMAIN snaps[d.snap]
      BY <1>6, <3>1, <3>3
    <3>. QED
      BY <3>2, <3>3
  <2>. QED
    BY <1>4, <1>5, <1>7, <1>8, <2>1 DEF CopyOK
<1>10. Copying(e)
  BY <1>8 DEF Copying
<1>. QED
  BY <1>1, <1>3, <1>4, <1>5, <1>7, <1>8, <1>9, <1>10, OwnDirectory

(* A copy that ends without an error is whole. *)
LEMMA EndWhole ==
  ASSUME Types, Types', WholeOK, NEW r \in Runner, EndCopy(r)
  PROVE  WholeOK'
<1>1. PICK d : d = run[r] /\ RunOK(d)
  BY DEF Types, RunsOK
<1>2. PICK k, e : k = d.snap /\ e = Run("list", k, {}, <<>>)
  OBVIOUS
<1>3. /\ run' = [run EXCEPT ![r] = e] /\ d.pc = "copy" /\ d.todo = {}
      /\ complete' = IF k \in DOMAIN snaps THEN Put(complete, k, d.held) ELSE complete
      /\ UNCHANGED <<user, together, snaps>>
  BY <1>1, <1>2 DEF EndCopy, Goto
<1>4. UNCHANGED <<file, minute, snaps, spoilt>>
  BY <1>3 DEF user, together
<1>5. CopyOK(d) /\ Copying(d)
  BY <1>1, <1>3 DEF WholeOK, CopiesOK, Copying
<1>6. Only(k)
  BY <1>3, <1>4 DEF Only, Put
<1>7. run'[r] = e /\ \A x \in Runner \ {r} : run'[x] = run[x]
  BY <1>3 DEF Types, RunsOK
<1>8. \A x \in Runner \ {r} : Copying(run[x]) /\ run[x].snap = k => k \in spoilt'
  BY <1>1, <1>2, <1>4, <1>5 DEF WholeOK, Apart
<1>9. ~Copying(e)
  BY <1>2, NotCopying
<1>10. ASSUME k \in DOMAIN complete' \ spoilt' PROVE Whole(k)'
  <2>1. k \in DOMAIN snaps \ spoilt
    BY <1>4, <1>10 DEF Types, SnapsOK
  <2>2. complete'[k] = d.held
    BY <1>3, <2>1 DEF Put
  <2>3. \A p \in DOMAIN d.held : p \in DOMAIN snaps[k] /\ snaps[k][p] \in d.held[p]
    BY <1>2, <1>3, <1>5, <2>1 DEF CopyOK
  <2>. QED
    BY <1>4, <2>2, <2>3 DEF Whole
<1>. QED
  BY <1>6, <1>7, <1>8, <1>9, <1>10, WholeStays

LEMMA RemoveWhole ==
  ASSUME Types, Types', PruneOK, WholeOK, NEW r \in Runner, NEW k,
         RemoveAll(r, k) \/ RemoveFails(r, k)
  PROVE  WholeOK'
<1>1. /\ UNCHANGED <<file, minute>> /\ spoilt \subseteq spoilt'
      /\ complete' = Without(complete, {k}) /\ run[r].pc = "prune" /\ k \in run[r].todo
  BY DEF RemoveAll, RemoveFails, user, together, First
<1>2. /\ DOMAIN complete' = DOMAIN complete \ {k}
      /\ \A m \in DOMAIN complete \ {k} : complete'[m] = complete[m]
  BY <1>1 DEF Without, Restrict
<1>3. /\ \A m \in DOMAIN snaps' : m # k => m \in DOMAIN snaps /\ snaps'[m] = snaps[m]
      /\ \A m \in DOMAIN snaps : m # k => m \in DOMAIN snaps'
      /\ k \in spoilt' \/ k \notin DOMAIN snaps'
  <2>1. CASE RemoveAll(r, k)
    BY <2>1 DEF RemoveAll, Without, Restrict
  <2>2. CASE RemoveFails(r, k)
    <3>1. k \in spoilt' /\ \E S : snaps' = [snaps EXCEPT ![k] = Restrict(@, S)]
      BY <2>2 DEF RemoveFails
    <3>. QED
      BY <3>1
  <2>. QED
    BY <2>1, <2>2
<1>4. k # minute
  <2>1. k \in Nat /\ Enough(DOMAIN snaps, k)
    BY <1>1 DEF PruneOK
  <2>2. After(DOMAIN snaps, k) # {}
    BY <2>1, RetainAssumption, FS_EmptySet DEF Enough
  <2>3. minute \in Nat /\ DOMAIN snaps \subseteq 1..minute
    BY DEF Types, FilesOK, SnapsOK
  <2>. QED
    BY <2>1, <2>2, <2>3 DEF After
<1>5. Only(k)
  BY <1>1, <1>2, <1>3, <1>4 DEF Only
<1>6. ~Copying(run'[r]) /\ \A x \in Runner \ {r} : run'[x] = run[x]
  <2>1. CASE RemoveFails(r, k)
    BY <2>1, NotCopying DEF RemoveFails, Goto, Types, RunsOK
  <2>2. CASE RemoveAll(r, k)
    <3>1. PICK d, e : d = run[r] /\ RunOK(d) /\ e = [d EXCEPT !.todo = @ \ {k}]
      BY DEF Types, RunsOK
    <3>2. run' = [run EXCEPT ![r] = e]
      BY <2>2, <3>1 DEF RemoveAll, Goto
    <3>3. e.pc = "prune"
      BY <1>1, <3>1 DEF RunOK, Run, Idle
    <3>. QED
      BY <3>2, <3>3 DEF Copying, Types, RunsOK
  <2>. QED
    BY <2>1, <2>2
<1>. QED
  BY <1>2, <1>3, <1>5, <1>6, WholeStays

LEMMA WholeNext == Types /\ Types' /\ PruneOK /\ WholeOK /\ [Next]_vars => WholeOK'
<1> SUFFICES ASSUME Types, Types', PruneOK, WholeOK, [Next]_vars PROVE WholeOK'
  OBVIOUS
<1>1. CASE UNCHANGED vars
  <2>1. UNCHANGED <<file, minute, snaps, complete, spoilt, run>>
    BY <1>1 DEF vars, user, copies, together
  <2>. QED
    BY <2>1, QuietWhole
<1>2. ASSUME NEW R, Crash(R) PROVE WholeOK'
  <2>1. UNCHANGED <<file, minute, snaps, complete, spoilt>>
    BY <1>2 DEF Crash, user, copies, together
  <2>2. \A r \in Runner : Copying(run'[r]) => run'[r] = run[r]
    BY <1>2, NotCopying DEF Crash
  <2>. QED
    BY <2>1, <2>2, QuietWhole
<1>3. ASSUME NEW r \in Runner, LocalStep(r) PROVE WholeOK'
  BY <1>3, EndsQuiet, OpenWhole, FillWhole, EndWhole, RemoveWhole DEF LocalStep
<1>. QED
  BY <1>1, <1>2, <1>3, ChangeWhole, MinuteWhole, StartWhole, CloudQuiet DEF Next, UserWrite, Unlink

LEMMA WholeInit == Init => WholeOK
  BY DEF Init, WholeOK, CopiesOK, Apart, Copying, Idle

(* A finished copy has every file found at its start, as it was at some    *)
(* time while the run went on.                                             *)
THEOREM CopiesAreWhole == Spec => []CompleteWhole
<1>1. WholeOK => CompleteWhole
  BY DEF WholeOK, Whole, CompleteWhole
<1>. QED
  BY <1>1, TypesInit, TypesNext, PruneInit, PruneNext, WholeInit, WholeNext, PTL DEF Spec

---------------------------------------------------------------------------
(* The last copy.  Without overlaps one run is under way, its directory is *)
(* the newest, and from the end of the copy on it is the whole one that    *)
(* pruning leaves alone.                                                   *)

Local(d) == d.pc \in {"copy", "fill", "list", "prune"}

LocalOK(d) ==
  /\ \A n \in DOMAIN snaps : n <= d.snap
  /\ Copying(d) => d.snap \in DOMAIN snaps
  /\ spoilt = {} /\ ~Copying(d) =>
       d.snap \in DOMAIN complete /\ (d.pc = "prune" => d.snap \notin d.todo)

Alone ==
  /\ \A r, x \in Runner : Active(r) /\ Active(x) => r = x
  /\ \A r \in Runner : Local(run[r]) => LocalOK(run[r])

OneKept == ever /\ ~overlap /\ spoilt = {} => DOMAIN complete # {}

NoLocal == ~ever /\ \A r \in Runner : ~Local(run[r])

LastOK == ("local" \notin mode => NoLocal) /\ (~overlap => Alone) /\ OneKept

LEMMA NotLocal ==
  /\ ~Local(Idle) /\ ~Local(Upload)
  /\ \A pc \in {"walk", "hash"} : \A m, T, h : ~Local(Run(pc, m, T, h))
  /\ \A r : Local(run[r]) => Active(r)
  BY DEF Local, Active, Idle, Upload, Run

(* One run moves on. *)
LEMMA OneMoves ==
  ASSUME Types, LastOK, NEW r \in Runner, Active(r), NEW d, Goto(r, d),
         UNCHANGED <<mode, overlap>>, Local(d) => Local(run[r]),
         ever' => ever \/ Local(run[r]), ~overlap /\ Local(d) => LocalOK(d)', OneKept'
  PROVE  LastOK'
<1>1. run'[r] = d /\ \A x \in Runner \ {r} : run'[x] = run[x]
  BY DEF Goto, Types, RunsOK
<1>2. ASSUME "local" \notin mode PROVE NoLocal'
  BY <1>1, <1>2 DEF LastOK, NoLocal, Local
<1>3. ASSUME ~overlap PROVE Alone'
  <2>1. \A x \in Runner \ {r} : ~Active(x)
    BY <1>3 DEF LastOK, Alone
  <2>2. \A x \in Runner \ {r} : ~Active(x)' /\ ~Local(run'[x])
    BY <1>1, <2>1, NotLocal DEF Active
  <2>3. \A x \in Runner : Local(run'[x]) => x = r
    BY <2>2
  <2>4. Local(run'[r]) => LocalOK(run[r])'
    BY <1>1, <1>3
  <2>. QED
    BY <2>2, <2>3, <2>4 DEF Alone, Local
<1>. QED
  BY <1>2, <1>3 DEF LastOK

(* To the uploads, through them and to rest. *)
LEMMA LeavesLocal ==
  ASSUME Types, LastOK, NEW r \in Runner, Active(r), NEW d, Goto(r, d), ~Local(d),
         UNCHANGED <<mode, overlap, ever>>, UNCHANGED <<complete, spoilt>> \/ spoilt' # {}
  PROVE  LastOK'
<1>1. OneKept'
  BY DEF LastOK, OneKept
<1>. QED
  BY <1>1, OneMoves

LEMMA CloudLast == Types /\ LastOK /\ (\E r \in Runner : CloudStep(r)) => LastOK'
<1> SUFFICES ASSUME Types, LastOK, NEW r \in Runner, CloudStep(r) PROVE LastOK'
  OBVIOUS
<1>1. UNCHANGED <<mode, overlap, ever>> /\ UNCHANGED <<complete, spoilt>>
  <2>1. UNCHANGED <<mode, copies, together>>
    BY DEF CloudStep, Walk, HashFile, HashFails, ReadFile, PutObject, PutFails, Record, RecordFails, EndWalk
  <2>. QED
    BY <2>1 DEF copies, together
<1>2. Active(r)
  BY DEF CloudStep, Walk, HashFile, HashFails, ReadFile, PutObject, PutFails, Record, RecordFails,
         EndWalk, Active
<1>3. \E d : Goto(r, d) /\ ~Local(d)
  <2>1. CASE Walk(r) \/ (\E p \in Path : HashFails(r, p)) \/ PutFails(r) \/ Record(r)
             \/ RecordFails(r) \/ EndWalk(r)
    BY <2>1, NotLocal DEF Walk, HashFails, PutFails, Record, RecordFails, EndWalk, Next1
  <2>2. \A pc \in {"read", "put"} : \A p, h, c : ~Local(Upload1(r, pc, p, h, c))
    BY DEF Upload1, Local
  <2>3. CASE ReadFile(r) \/ \E p \in Path : HashFile(r, p)
    BY <2>2, <2>3, NotLocal DEF ReadFile, HashFile, Next1
  <2>4. CASE PutObject(r)
    <3>1. PICK d, e : d = run[r] /\ e = [d EXCEPT !.pc = "record"]
      OBVIOUS
    <3>2. Goto(r, e) /\ d.pc = "put" /\ RunOK(d)
      BY <2>4, <3>1 DEF PutObject, Types, RunsOK
    <3>3. e.pc = "record"
      BY <3>1, <3>2 DEF RunOK, Idle
    <3>. QED
      BY <3>2, <3>3 DEF Local
  <2>. QED
    BY <2>1, <2>3, <2>4 DEF CloudStep
<1>. QED
  BY <1>1, <1>2, <1>3, LeavesLocal

LEMMA EndsLast ==
  ASSUME Types, LastOK, NEW r \in Runner,
         CopyFails(r) \/ EndPrune(r) \/ \E m : RemoveFails(r, m)
  PROVE  LastOK'
<1>1. UNCHANGED <<mode, overlap, ever>> /\ (UNCHANGED <<complete, spoilt>> \/ spoilt' # {})
  BY DEF CopyFails, EndPrune, RemoveFails, copies, together
<1>2. Active(r) /\ \E e \in {Upload, Idle} : Goto(r, e)
  <2>1. CASE CopyFails(r)
    BY <2>1 DEF CopyFails, Active
  <2>2. CASE EndPrune(r)
    BY <2>2 DEF EndPrune, Active
  <2>3. ASSUME NEW m, RemoveFails(r, m) PROVE Active(r) /\ \E e \in {Upload, Idle} : Goto(r, e)
    BY <2>3 DEF RemoveFails, Active
  <2>. QED
    BY <2>1, <2>2, <2>3
<1>. QED
  BY <1>1, <1>2, NotLocal, LeavesLocal

LEMMA CopyLast ==
  ASSUME Types, LastOK, NEW r \in Runner, FillCopy(r) \/ \E p \in Path : OpenCopy(r, p)
  PROVE  LastOK'
<1>1. PICK d : d = run[r]
  OBVIOUS
<1>2. PICK e : Goto(r, e) /\ e.snap = d.snap /\ Copying(e) /\ Copying(d)
  <2>1. CASE FillCopy(r)
    BY <1>1, <2>1 DEF FillCopy, Copying, Run
  <2>2. CASE \E p \in Path : OpenCopy(r, p)
    BY <1>1, <2>2 DEF OpenCopy, Copying
  <2>. QED
    BY <2>1, <2>2
<1>3. UNCHANGED <<mode, together, complete, ever>> /\ DOMAIN snaps' = DOMAIN snaps
  <2>1. CASE FillCopy(r)
    BY <2>1 DEF FillCopy
  <2>2. CASE \E p \in Path : OpenCopy(r, p)
    BY <2>2 DEF OpenCopy
  <2>. QED
    BY <2>1, <2>2
<1>4. UNCHANGED <<mode, overlap, spoilt, complete, ever>>
  BY <1>3 DEF together
<1>5. Local(e) /\ Local(d) /\ Active(r)
  BY <1>1, <1>2 DEF Copying, Local, Active
<1>6. ASSUME ~overlap PROVE LocalOK(e)'
  <2>1. LocalOK(d)
    BY <1>1, <1>5, <1>6 DEF LastOK, Alone
  <2>. QED
    BY <1>2, <1>3, <1>4, <2>1 DEF LocalOK
<1>7. OneKept'
  BY <1>4 DEF LastOK, OneKept
<1>. QED
  BY <1>1, <1>2, <1>4, <1>5, <1>6, <1>7, OneMoves

LEMMA EndLast ==
  ASSUME Types, LastOK, NEW r \in Runner, EndCopy(r)
  PROVE  LastOK'
<1>1. PICK d, e : d = run[r] /\ e = Run("list", d.snap, {}, <<>>)
  OBVIOUS
<1>2. /\ Goto(r, e) /\ d.pc = "copy" /\ UNCHANGED <<mode, snaps, together>>
      /\ complete' = IF d.snap \in DOMAIN snaps THEN Put(complete, d.snap, d.held) ELSE complete
  BY <1>1 DEF EndCopy
<1>3. UNCHANGED <<mode, snaps, overlap, spoilt>>
  BY <1>2 DEF together
<1>4. Local(d) /\ Active(r) /\ Copying(d)
  BY <1>1, <1>2 DEF Local, Active, Copying
<1>5. e.pc = "list" /\ e.snap = d.snap
  BY <1>1 DEF Run
<1>6. ASSUME ~overlap PROVE LocalOK(e)' /\ d.snap \in DOMAIN complete'
  <2>1. LocalOK(d)
    BY <1>1, <1>4, <1>6 DEF LastOK, Alone
  <2>2. d.snap \in DOMAIN complete'
    BY <1>2, <1>4, <2>1 DEF LocalOK, Put
  <2>. QED
    BY <1>3, <1>5, <2>1, <2>2 DEF LocalOK, Copying
<1>7. OneKept'
  BY <1>3, <1>6 DEF OneKept
<1>. QED
  BY <1>1, <1>2, <1>3, <1>4, <1>6, <1>7, OneMoves

LEMMA ListLast ==
  ASSUME Types, LastOK, NEW r \in Runner, ListSnaps(r)
  PROVE  LastOK'
<1>1. PICK d, e : d = run[r] /\ e = Run("prune", d.snap, Old, <<>>)
  OBVIOUS
<1>2. Goto(r, e) /\ d.pc = "list" /\ UNCHANGED <<mode, copies, together>>
  BY <1>1 DEF ListSnaps
<1>3. UNCHANGED <<mode, snaps, complete, ever, overlap, spoilt>>
  BY <1>2 DEF copies, together
<1>4. Local(d) /\ Active(r) /\ ~Copying(d)
  BY <1>1, <1>2 DEF Local, Active, Copying
<1>5. e.pc = "prune" /\ e.snap = d.snap /\ e.todo = Old
  BY <1>1 DEF Run
<1>6. ASSUME ~overlap PROVE LocalOK(e)'
  <2>1. LocalOK(d)
    BY <1>1, <1>4, <1>6 DEF LastOK, Alone
  <2>2. d.snap \notin Old
    <3>1. d.snap \in DOMAIN snaps => Newer(d.snap) = {}
      BY <2>1, SnapsFinite DEF Newer, LocalOK, Types
    <3>. QED
      BY <3>1, FS_EmptySet, RetainAssumption DEF Old
  <2>. QED
    BY <1>3, <1>4, <1>5, <2>1, <2>2 DEF LocalOK, Copying
<1>7. OneKept'
  BY <1>3 DEF LastOK, OneKept
<1>. QED
  BY <1>1, <1>2, <1>3, <1>4, <1>6, <1>7, OneMoves

LEMMA RemoveLast ==
  ASSUME Types, LastOK, NEW r \in Runner, NEW k, RemoveAll(r, k)
  PROVE  LastOK'
<1>1. PICK d, e : d = run[r] /\ RunOK(d) /\ e = [d EXCEPT !.todo = @ \ {k}]
  BY DEF Types, RunsOK
<1>2. /\ Goto(r, e) /\ d.pc = "prune" /\ k \in d.todo /\ UNCHANGED <<mode, ever, together>>
      /\ snaps' = Without(snaps, {k}) /\ complete' = Without(complete, {k})
  BY <1>1 DEF RemoveAll, First
<1>3. UNCHANGED <<mode, ever, overlap, spoilt>>
  BY <1>2 DEF together
<1>4. DOMAIN snaps' = DOMAIN snaps \ {k} /\ DOMAIN complete' = DOMAIN complete \ {k}
  BY <1>2 DEF Without, Restrict
<1>5. e.pc = "prune" /\ e.snap = d.snap /\ e.todo \subseteq d.todo
  BY <1>1, <1>2 DEF RunOK, Run, Idle
<1>6. Local(d) /\ Active(r) /\ ~Copying(d) /\ ~Copying(e)
  BY <1>1, <1>2, <1>5 DEF Local, Active, Copying
<1>7. ASSUME ~overlap PROVE LocalOK(e)' /\ (spoilt = {} => d.snap \in DOMAIN complete')
  <2>1. LocalOK(d)
    BY <1>1, <1>6, <1>7 DEF LastOK, Alone
  <2>2. spoilt = {} => d.snap \in DOMAIN complete' /\ d.snap \notin d.todo
    BY <1>2, <1>4, <1>6, <2>1 DEF LocalOK
  <2>. QED
    BY <1>3, <1>4, <1>5, <1>6, <2>1, <2>2 DEF LocalOK
<1>8. OneKept'
  BY <1>3, <1>7 DEF OneKept
<1>. QED
  BY <1>1, <1>2, <1>3, <1>6, <1>7, <1>8, OneMoves

LEMMA StartLast ==
  ASSUME Types, LastOK, NEW r \in Runner, StartRun(r)
  PROVE  LastOK'
<1>1. /\ UNCHANGED <<mode, ever, minute>> /\ complete' = Without(complete, {minute})
      /\ overlap' = (overlap \/ \E x \in Runner : Active(x))
  BY DEF StartRun, user
<1>2. DOMAIN complete' = DOMAIN complete \ {minute}
  BY <1>1 DEF Without, Restrict
<1>3. \A x \in Runner \ {r} : run'[x] = run[x]
  BY DEF StartRun, Goto, Types, RunsOK
<1>4. CASE "local" \notin mode
  <2>1. run'[r] = Upload /\ NoLocal
    BY <1>4 DEF StartRun, Goto, Types, RunsOK, LastOK
  <2>2. NoLocal'
    BY <1>1, <1>3, <2>1, NotLocal DEF NoLocal, Local
  <2>3. ~overlap' => Alone'
    BY <1>1, <1>3, <2>2 DEF Alone, NoLocal, Local, Active
  <2>. QED
    BY <2>2, <2>3 DEF LastOK, OneKept, NoLocal
<1>5. CASE "local" \in mode
  <2>1. PICK d : run'[r] = d /\ d.pc = "copy" /\ d.snap = minute
    <3>1. \A T, h : Run("copy", minute, T, h).pc = "copy" /\ Run("copy", minute, T, h).snap = minute
      BY DEF Run
    <3>2. \E T, h : run'[r] = Run("copy", minute, T, h)
      BY <1>5 DEF StartRun, Goto, Types, RunsOK
    <3>. QED
      BY <3>1, <3>2
  <2>2. /\ minute \in DOMAIN snaps => spoilt' # {} /\ snaps' = snaps
        /\ minute \notin DOMAIN snaps => spoilt' = spoilt /\ DOMAIN snaps' = DOMAIN snaps \cup {minute}
    BY <1>5 DEF StartRun, Put
  <2>3. LocalOK(d)'
    <3>1. minute \in Nat /\ DOMAIN snaps \subseteq 1..minute
      BY DEF Types, FilesOK, SnapsOK
    <3>. QED
      BY <2>1, <2>2, <3>1 DEF LocalOK, Copying
  <2>4. ASSUME ~overlap' PROVE Alone'
    <3>1. ~overlap /\ \A x \in Runner : ~Active(x)
      BY <1>1, <2>4
    <3>2. \A x \in Runner \ {r} : ~Active(x)' /\ ~Local(run'[x])
      BY <1>3, <3>1, NotLocal DEF Active
    <3>3. \A x \in Runner : Local(run'[x]) => x = r
      BY <3>2
    <3>4. LocalOK(run[r])'
      BY <2>1, <2>3
    <3>. QED
      BY <3>2, <3>3, <3>4 DEF Alone, Local
  <2>5. OneKept'
    <3>1. ASSUME ever, ~overlap, spoilt' = {} PROVE DOMAIN complete' # {}
      <4>1. minute \notin DOMAIN snaps /\ spoilt = {}
        BY <2>2, <3>1
      <4>2. PICK m : m \in DOMAIN complete
        BY <3>1, <4>1 DEF LastOK, OneKept
      <4>3. m \in DOMAIN complete'
        BY <1>2, <4>1, <4>2 DEF Types, SnapsOK
      <4>. QED
        BY <4>3
    <3>. QED
      BY <1>1, <3>1 DEF OneKept
  <2>. QED
    BY <1>1, <1>5, <2>4, <2>5 DEF LastOK
<1>. QED
  BY <1>4, <1>5

LEMMA OthersLast ==
  ASSUME Types, LastOK, Minute \/ (\E p, c : Change(p, c)) \/ (\E R : Crash(R)) \/ UNCHANGED vars
  PROVE  LastOK'
<1>1. UNCHANGED <<mode, snaps, complete, ever, overlap, spoilt>>
  <2>1. UNCHANGED <<mode, copies, together>>
    BY DEF Minute, Change, Crash, vars
  <2>. QED
    BY <2>1 DEF copies, together
<1>2. ASSUME NEW r \in Runner
      PROVE  \/ run'[r] = Idle
             \/ /\ run'[r].pc = run[r].pc
                /\ Local(run[r]) => /\ run'[r].snap = run[r].snap
                                    /\ run[r].pc = "prune" => run'[r].todo = run[r].todo
  <2>1. CASE Minute \/ UNCHANGED vars
    BY <2>1 DEF Minute, vars
  <2>2. CASE \E R : Crash(R)
    BY <2>2 DEF Crash
  <2>3. ASSUME NEW p, NEW c, Change(p, c)
        PROVE  /\ run'[r].pc = run[r].pc
               /\ Local(run[r]) => /\ run'[r].snap = run[r].snap
                                   /\ run[r].pc = "prune" => run'[r].todo = run[r].todo
    <3>1. PICK d : d = run[r] /\ RunOK(d)
      BY DEF Types, RunsOK
    <3>2. CASE run'[r] = d
      BY <3>1, <3>2
    <3>3. CASE d.pc \in {"copy", "fill"} /\ run'[r] = [d EXCEPT !.held[p] = @ \cup {c}]
      <4>1. run'[r].pc = d.pc /\ run'[r].snap = d.snap
        BY <3>1, <3>3 DEF RunOK, Run, Idle
      <4>. QED
        BY <3>1, <3>3, <4>1
    <3>. QED
      BY <2>3, <3>1, <3>2, <3>3 DEF Change, Hold
  <2>. QED
    BY <2>1, <2>2, <2>3
<1>3. \A r \in Runner : (Active(r)' => Active(r)) /\ (Local(run'[r]) => Local(run[r]))
  BY <1>2 DEF Active, Local, Idle
<1>4. \A r \in Runner : Local(run'[r]) /\ LocalOK(run[r]) => LocalOK(run[r])'
  BY <1>1, <1>2 DEF LocalOK, Local, Copying, Idle
<1>5. OneKept'
  BY <1>1 DEF LastOK, OneKept
<1>6. ~overlap' => Alone'
  BY <1>1, <1>3, <1>4 DEF LastOK, Alone, Local
<1>7. "local" \notin mode' => NoLocal'
  BY <1>1, <1>3 DEF LastOK, NoLocal, Local
<1>. QED
  BY <1>5, <1>6, <1>7 DEF LastOK

LEMMA LastNext == Types /\ LastOK /\ [Next]_vars => LastOK'
<1> SUFFICES ASSUME Types, LastOK, [Next]_vars PROVE LastOK'
  OBVIOUS
<1>1. ASSUME NEW r \in Runner, LocalStep(r) PROVE LastOK'
  BY <1>1, CopyLast, EndsLast, EndLast, ListLast, RemoveLast DEF LocalStep
<1>. QED
  BY <1>1, OthersLast, StartLast, CloudLast DEF Next, UserWrite, Unlink

LEMMA LastInit == Init => LastOK
  BY NotLocal DEF Init, LastOK, NoLocal, Alone, OneKept, Active, Idle

(* Failed runs, and runs that die, cost no backup.                         *)
THEOREM OneIsKept == Spec => []LastKept
<1>1. LastOK => LastKept
  BY DEF LastOK, OneKept, LastKept
<1>. QED
  BY <1>1, TypesInit, TypesNext, LastInit, LastNext, PTL DEF Spec

---------------------------------------------------------------------------
(* The bucket.  One run at most is at a file not in doubt; what it has put *)
(* is what it is going to record; and while nobody records it, the row is  *)
(* the object.                                                             *)

At(d, q) == d.pc \in {"read", "put", "record"} /\ d.path = q

CloudOK(q) ==
  /\ \A r, x \in Runner : At(run[r], q) /\ At(run[x], q) => r = x
  /\ \A r \in Runner : At(run[r], q) => /\ run[r].pc = "put" => run[r].data = run[r].hash
                                        /\ run[r].pc = "record" => object[q] = run[r].hash
  /\ (\A r \in Runner : ~Recording(r, q)) => object[q] = rows[q]

CloudInv == \A q \in Path \ doubt : CloudOK(q)

(* A file nobody touches, though some may leave it before they have put it. *)
LEMMA CloudStays ==
  ASSUME NEW q, CloudOK(q), object'[q] = object[q], rows'[q] = rows[q],
         \A r \in Runner : At(run'[r], q) => run'[r] = run[r],
         \A r \in Runner : Recording(r, q) => run'[r] = run[r]
  PROVE  CloudOK(q)'
  BY DEF CloudOK, At, Recording

(* A run that is at p moves on; the others and the other files stay.       *)
LEMMA CloudMoves ==
  ASSUME Types, CloudInv, NEW r \in Runner, NEW p, NEW d, Goto(r, d),
         \A q : q # p => ~At(run[r], q) /\ ~At(d, q),
         \A q \in Path : q # p => object'[q] = object[q] /\ rows'[q] = rows[q],
         \A q : q \in doubt \ doubt' => q = p,
         p \in Path \ doubt' => CloudOK(p)'
  PROVE  CloudInv'
<1>1. run'[r] = d /\ \A x \in Runner \ {r} : run'[x] = run[x]
  BY DEF Goto, Types, RunsOK
<1>2. ASSUME NEW q \in Path \ doubt', q # p PROVE CloudOK(q)'
  <2>1. CloudOK(q)
    BY <1>2 DEF CloudInv
  <2>2. ~At(run[r], q) /\ ~At(run'[r], q)
    BY <1>1, <1>2
  <2>3. \A x \in Runner : At(run'[x], q) => run'[x] = run[x]
    BY <1>1, <2>2
  <2>4. \A x \in Runner : Recording(x, q) => run'[x] = run[x]
    BY <1>1, <2>2 DEF Recording, At
  <2>. QED
    BY <1>2, <2>1, <2>3, <2>4, CloudStays
<1>. QED
  BY <1>2 DEF CloudInv

(* Runs that are at no file. *)
LEMMA Elsewhere ==
  /\ \A q : ~At(Idle, q) /\ ~At(Upload, q)
  /\ \A pc \in {"copy", "list", "prune", "walk", "hash"} : \A m, T, h, q : ~At(Run(pc, m, T, h), q)
  BY DEF At, Idle, Upload, Run

LEMMA CloudQuietly ==
  ASSUME Types, CloudInv, NEW r \in Runner, NEW d, Goto(r, d),
         UNCHANGED <<object, rows>>, doubt \subseteq doubt',
         \A q : ~At(d, q),
         \A q \in Path \ doubt' : ~Recording(r, q)
  PROVE  CloudInv'
<1>1. run'[r] = d /\ \A x \in Runner \ {r} : run'[x] = run[x]
  BY DEF Goto, Types, RunsOK
<1>2. ASSUME NEW q \in Path \ doubt' PROVE CloudOK(q)'
  <2>1. CloudOK(q)
    BY <1>2 DEF CloudInv
  <2>2. \A x \in Runner : At(run'[x], q) => run'[x] = run[x]
    BY <1>1
  <2>3. \A x \in Runner : Recording(x, q) => run'[x] = run[x]
    BY <1>1, <1>2
  <2>. QED
    BY <2>1, <2>2, <2>3, CloudStays
<1>. QED
  BY <1>2 DEF CloudInv

LEMMA LocalCloud ==
  ASSUME Types, CloudInv, NEW r \in Runner, StartRun(r) \/ LocalStep(r)
  PROVE  CloudInv'
<1>1. UNCHANGED <<object, rows, doubt>>
  <2>1. UNCHANGED bucket
    BY DEF StartRun, LocalStep, OpenCopy, FillCopy, CopyFails, EndCopy, ListSnaps, RemoveAll,
           RemoveFails, EndPrune
  <2>. QED
    BY <2>1 DEF bucket
<1>2. \A q : ~Recording(r, q)
  BY DEF StartRun, LocalStep, OpenCopy, FillCopy, CopyFails, EndCopy, ListSnaps, RemoveAll,
         RemoveFails, EndPrune, Active, Recording
<1>3. PICK d : Goto(r, d) /\ \A q : ~At(d, q)
  <2>1. CASE StartRun(r) \/ FillCopy(r) \/ CopyFails(r) \/ EndCopy(r) \/ ListSnaps(r) \/ EndPrune(r)
    BY <2>1, Elsewhere DEF StartRun, FillCopy, CopyFails, EndCopy, ListSnaps, EndPrune
  <2>2. CASE \E p \in Path : OpenCopy(r, p)
    BY <2>2 DEF OpenCopy, At
  <2>3. ASSUME NEW m, RemoveFails(r, m) PROVE \E e : Goto(r, e) /\ \A q : ~At(e, q)
    BY <2>3, Elsewhere DEF RemoveFails
  <2>4. ASSUME NEW m, RemoveAll(r, m) PROVE \E e : Goto(r, e) /\ \A q : ~At(e, q)
    <3>1. PICK d, e : d = run[r] /\ RunOK(d) /\ e = [d EXCEPT !.todo = @ \ {m}]
      BY DEF Types, RunsOK
    <3>2. Goto(r, e) /\ d.pc = "prune"
      BY <2>4, <3>1 DEF RemoveAll
    <3>3. e.pc = "prune"
      BY <3>1, <3>2 DEF RunOK, Run, Idle
    <3>. QED
      BY <3>2, <3>3 DEF At
  <2>. QED
    BY <2>1, <2>2, <2>3, <2>4 DEF LocalStep
<1>. QED
  BY <1>1, <1>2, <1>3, CloudQuietly

LEMMA WalkCloud ==
  ASSUME Types, CloudInv, NEW r \in Runner,
         Walk(r) \/ EndWalk(r) \/ \E p \in Path : HashFails(r, p)
  PROVE  CloudInv'
<1>1. UNCHANGED <<object, rows, doubt>>
  BY DEF Walk, EndWalk, HashFails, bucket
<1>2. \A q : ~Recording(r, q)
  BY DEF Walk, EndWalk, HashFails, Recording
<1>3. PICK d : Goto(r, d) /\ \A q : ~At(d, q)
  BY Elsewhere DEF Walk, EndWalk, HashFails, Next1
<1>. QED
  BY <1>1, <1>2, <1>3, CloudQuietly

(* A second upload of a file puts it in doubt. *)
LEMMA HashCloud ==
  ASSUME Types, CloudInv, NEW r \in Runner, NEW p \in Path, HashFile(r, p)
  PROVE  CloudInv'
<1>1. UNCHANGED <<object, rows>> /\ doubt \subseteq doubt' /\ run[r].pc = "hash"
  BY DEF HashFile
<1>2. CASE Goto(r, Next1(r, p))
  <2>1. \A q : ~Recording(r, q)
    BY <1>1 DEF Recording
  <2>. QED
    BY <1>1, <1>2, <2>1, Elsewhere, CloudQuietly DEF Next1
<1>3. CASE /\ Goto(r, Upload1(r, "read", p, file[p], None))
           /\ doubt' = IF \E x \in Runner \ {r} : Uploading(x, p) THEN doubt \cup {p} ELSE doubt
  <2>1. PICK d : d = Upload1(r, "read", p, file[p], None)
    OBVIOUS
  <2>2. d.pc = "read" /\ d.path = p
    BY <2>1 DEF Upload1
  <2>3. \A q : q # p => ~At(run[r], q) /\ ~At(d, q)
    BY <1>1, <2>2 DEF At
  <2>4. run'[r] = d /\ \A x \in Runner \ {r} : run'[x] = run[x]
    BY <1>3, <2>1 DEF Goto, Types, RunsOK
  <2>5. ASSUME p \notin doubt' PROVE CloudOK(p)'
    <3>1. CloudOK(p) /\ \A x \in Runner \ {r} : ~At(run[x], p)
      BY <1>1, <1>3, <2>5 DEF CloudInv, Uploading, At
    <3>2. \A x \in Runner \ {r} : ~At(run'[x], p)
      BY <2>4, <3>1
    <3>3. \A x \in Runner : ~Recording(x, p)
      BY <1>1, <3>1 DEF Recording, At
    <3>. QED
      BY <1>1, <2>2, <2>4, <3>1, <3>2, <3>3 DEF CloudOK
  <2>. QED
    BY <1>1, <1>3, <2>1, <2>3, <2>5, CloudMoves
<1>. QED
  BY <1>2, <1>3 DEF HashFile

(* The steps of a run that is at a file. *)
LEMMA AtOne ==
  ASSUME NEW d, RunOK(d), d.pc \in {"read", "put", "record"}
  PROVE  d.path \in Path /\ At(d, d.path) /\ \A q : q # d.path => ~At(d, q)
  BY DEF RunOK, Idle, At

LEMMA ReadCloud ==
  ASSUME Types, CloudInv, NEW r \in Runner, ReadFile(r)
  PROVE  CloudInv'
<1>1. PICK d, p : d = run[r] /\ RunOK(d) /\ p = d.path
  BY DEF Types, RunsOK
<1>2. /\ UNCHANGED <<object, rows>> /\ doubt \subseteq doubt' /\ d.pc = "read"
      /\ file[p] \notin {None, d.hash} => p \in doubt'
  BY <1>1 DEF ReadFile
<1>3. CASE Goto(r, Next1(r, p))
  <2>1. \A q : ~Recording(r, q)
    BY <1>1, <1>2 DEF Recording
  <2>. QED
    BY <1>2, <1>3, <2>1, Elsewhere, CloudQuietly DEF Next1
<1>4. CASE file[p] # None /\ Goto(r, Upload1(r, "put", p, d.hash, file[p]))
  <2>1. PICK e : e = Upload1(r, "put", p, d.hash, file[p])
    OBVIOUS
  <2>2. e.pc = "put" /\ e.path = p /\ e.hash = d.hash /\ e.data = file[p]
    BY <2>1 DEF Upload1
  <2>3. \A q : q # p => ~At(d, q) /\ ~At(e, q)
    BY <1>1, <2>2 DEF At
  <2>4. run'[r] = e /\ \A x \in Runner \ {r} : run'[x] = run[x]
    BY <1>4, <2>1 DEF Goto, Types, RunsOK
  <2>5. ASSUME p \in Path \ doubt' PROVE CloudOK(p)'
    <3>1. CloudOK(p) /\ At(d, p)
      BY <1>1, <1>2, <2>5 DEF CloudInv, At
    <3>2. \A x \in Runner \ {r} : ~At(run[x], p) /\ ~At(run'[x], p)
      BY <1>1, <2>4, <3>1 DEF CloudOK
    <3>3. \A x \in Runner : ~Recording(x, p)
      BY <1>1, <1>2, <3>2 DEF Recording, At
    <3>4. e.data = e.hash
      BY <1>2, <1>4, <2>2, <2>5
    <3>. QED
      BY <1>2, <2>2, <2>4, <3>1, <3>2, <3>3, <3>4 DEF CloudOK
  <2>. QED
    BY <1>1, <1>2, <1>4, <2>1, <2>3, <2>5, CloudMoves
<1>. QED
  BY <1>1, <1>3, <1>4 DEF ReadFile

LEMMA PutCloud ==
  ASSUME Types, CloudInv, NEW r \in Runner, PutObject(r)
  PROVE  CloudInv'
<1>1. PICK d, p, e : d = run[r] /\ RunOK(d) /\ p = d.path /\ e = [d EXCEPT !.pc = "record"]
  BY DEF Types, RunsOK
<1>2. /\ UNCHANGED <<rows, doubt>> /\ object' = [object EXCEPT ![p] = d.data] /\ d.pc = "put"
      /\ Goto(r, e)
  BY <1>1 DEF PutObject
<1>3. p \in Path /\ At(d, p) /\ e.pc = "record" /\ e.path = p /\ e.hash = d.hash
  BY <1>1, <1>2 DEF RunOK, Idle, At
<1>4. \A q : q # p => ~At(d, q) /\ ~At(e, q)
  BY <1>1, <1>3 DEF At
<1>5. run'[r] = e /\ \A x \in Runner \ {r} : run'[x] = run[x]
  BY <1>2 DEF Goto, Types, RunsOK
<1>6. object'[p] = d.data /\ \A q \in Path : q # p => object'[q] = object[q]
  BY <1>2, <1>3 DEF Types, BucketOK
<1>7. ASSUME p \notin doubt' PROVE CloudOK(p)'
  <2>1. CloudOK(p)
    BY <1>2, <1>3, <1>7 DEF CloudInv
  <2>2. d.data = d.hash /\ \A x \in Runner \ {r} : ~At(run[x], p)
    BY <1>1, <1>2, <1>3, <2>1 DEF CloudOK
  <2>3. \A x \in Runner \ {r} : ~At(run'[x], p)
    BY <1>5, <2>2
  <2>4. Recording(r, p)'
    BY <1>3, <1>5 DEF Recording
  <2>. QED
    BY <1>3, <1>5, <1>6, <2>2, <2>3, <2>4 DEF CloudOK
<1>. QED
  BY <1>1, <1>2, <1>4, <1>6, <1>7, CloudMoves

(* A request without an answer, and a statement that fails, leave doubt.   *)
LEMMA FailsCloud ==
  ASSUME Types, CloudInv, NEW r \in Runner, PutFails(r) \/ RecordFails(r)
  PROVE  CloudInv'
<1>1. PICK d, p : d = run[r] /\ RunOK(d) /\ p = d.path
  BY DEF Types, RunsOK
<1>2. /\ UNCHANGED rows /\ doubt \subseteq doubt' /\ d.pc \in {"put", "record"}
      /\ object' \in {object, [object EXCEPT ![p] = d.data]}
      /\ d.pc = "record" \/ object' # object => p \in doubt'
  BY <1>1 DEF PutFails, RecordFails
<1>3. PICK e : Goto(r, e) /\ \A q : ~At(e, q)
  BY Elsewhere DEF PutFails, RecordFails, Next1
<1>4. p \in Path /\ At(d, p) /\ \A q : q # p => ~At(d, q)
  BY <1>1, <1>2, AtOne
<1>5. CASE p \in doubt'
  <2>1. \A q \in Path : q # p => object'[q] = object[q]
    BY <1>2, <1>4 DEF Types, BucketOK
  <2>. QED
    BY <1>1, <1>2, <1>3, <1>4, <1>5, <2>1, CloudMoves
<1>6. CASE p \notin doubt'
  <2>1. UNCHANGED object /\ \A q : ~Recording(r, q)
    BY <1>1, <1>2, <1>6 DEF Recording
  <2>. QED
    BY <1>2, <1>3, <2>1, CloudQuietly
<1>. QED
  BY <1>5, <1>6

LEMMA RecordCloud ==
  ASSUME Types, CloudInv, NEW r \in Runner, Record(r)
  PROVE  CloudInv'
<1>1. PICK d, p, e : d = run[r] /\ RunOK(d) /\ p = d.path /\ e = Next1(r, p)
  BY DEF Types, RunsOK
<1>2. /\ UNCHANGED object /\ rows' = [rows EXCEPT ![p] = d.hash] /\ d.pc = "record" /\ Goto(r, e)
      /\ doubt' = IF object[p] = d.hash /\ ~\E x \in Runner \ {r} : Uploading(x, p)
                  THEN doubt \ {p} ELSE doubt
  BY <1>1 DEF Record
<1>3. p \in Path /\ At(d, p) /\ \A q : q # p => ~At(d, q)
  BY <1>1, <1>2, AtOne
<1>4. \A q : ~At(e, q)
  BY <1>1, Elsewhere DEF Next1
<1>5. run'[r] = e /\ \A x \in Runner \ {r} : run'[x] = run[x]
  BY <1>2 DEF Goto, Types, RunsOK
<1>6. rows'[p] = d.hash /\ \A q \in Path : q # p => rows'[q] = rows[q]
  BY <1>2, <1>3 DEF Types, BucketOK
<1>7. ASSUME p \notin doubt' PROVE CloudOK(p)'
  <2>1. object[p] = d.hash /\ \A x \in Runner \ {r} : ~At(run[x], p)
    <3>1. CASE p \in doubt
      BY <1>2, <1>7, <3>1 DEF Uploading, At
    <3>2. CASE p \notin doubt
      <4>1. CloudOK(p)
        BY <1>3, <3>2 DEF CloudInv
      <4>. QED
        BY <1>1, <1>2, <1>3, <4>1 DEF CloudOK
    <3>. QED
      BY <3>1, <3>2
  <2>2. \A x \in Runner : ~At(run'[x], p)
    BY <1>4, <1>5, <2>1
  <2>. QED
    BY <1>2, <1>6, <2>1, <2>2 DEF CloudOK
<1>8. \A q : q \in doubt \ doubt' => q = p
  BY <1>2
<1>. QED
  BY <1>1, <1>2, <1>3, <1>4, <1>6, <1>7, <1>8, CloudMoves

LEMMA OthersCloud ==
  ASSUME Types, CloudInv,
         \/ Minute \/ (\E p \in Path : \E c : Change(p, c)) \/ UNCHANGED vars
         \/ \E R \in SUBSET Runner : Crash(R)
  PROVE  CloudInv'
<1>1. UNCHANGED <<object, rows>> /\ doubt \subseteq doubt'
  BY DEF Minute, Change, Crash, vars, bucket
<1>2. ASSUME NEW r \in Runner, NEW q \in Path \ doubt'
      PROVE  /\ At(run'[r], q) => run'[r] = run[r]
             /\ Recording(r, q) => run'[r] = run[r]
  <2>1. CASE Minute \/ UNCHANGED vars
    BY <2>1 DEF Minute, vars
  <2>2. ASSUME NEW p, NEW c, Change(p, c)
        PROVE  /\ At(run'[r], q) => run'[r] = run[r]
               /\ Recording(r, q) => run'[r] = run[r]
    <3>1. PICK d : d = run[r] /\ RunOK(d)
      BY DEF Types, RunsOK
    <3>2. CASE run'[r] = d
      BY <3>1, <3>2
    <3>3. CASE d.pc \in {"copy", "fill"} /\ run'[r] = [d EXCEPT !.held[p] = @ \cup {c}]
      <4>1. run'[r].pc = d.pc
        BY <3>1, <3>3 DEF RunOK, Run, Idle
      <4>. QED
        BY <3>1, <3>3, <4>1 DEF At, Recording
    <3>. QED
      BY <2>2, <3>1, <3>2, <3>3 DEF Change, Hold
  <2>3. ASSUME NEW R \in SUBSET Runner, Crash(R)
        PROVE  /\ At(run'[r], q) => run'[r] = run[r]
               /\ Recording(r, q) => run'[r] = run[r]
    <3>1. r \in R => ~Recording(r, q)
      BY <1>2, <2>3 DEF Crash, Recording
    <3>2. run'[r] = IF r \in R THEN Idle ELSE run[r]
      BY <2>3 DEF Crash
    <3>. QED
      BY <3>1, <3>2, Elsewhere
  <2>. QED
    BY <2>1, <2>2, <2>3
<1>. QED
  BY <1>1, <1>2, CloudStays DEF CloudInv

LEMMA CloudNext == Types /\ CloudInv /\ [Next]_vars => CloudInv'
<1> SUFFICES ASSUME Types, CloudInv, [Next]_vars PROVE CloudInv'
  OBVIOUS
<1>1. ASSUME NEW r \in Runner, CloudStep(r) PROVE CloudInv'
  BY <1>1, WalkCloud, HashCloud, ReadCloud, PutCloud, FailsCloud, RecordCloud DEF CloudStep
<1>. QED
  BY <1>1, OthersCloud, LocalCloud DEF Next, UserWrite, Unlink

LEMMA CloudInit == Init => CloudInv
  BY DEF Init, CloudInv, CloudOK, At, Recording, Idle

(* What the next run passes over is in the bucket as it is.                *)
THEOREM PassedOverIsStored == Spec => []SkippedIsStored
<1>1. CloudInv => SkippedIsStored
  BY DEF CloudInv, CloudOK, SkippedIsStored
<1>. QED
  BY <1>1, TypesInit, TypesNext, CloudInit, CloudNext, PTL DEF Spec
===========================================================================
