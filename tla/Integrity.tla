----------------------------- MODULE Integrity -----------------------------
(***************************************************************************)
(* internal/patrol: the file-integrity baseline of tpt-patrol.  Scans (by  *)
(* cron and by POST /scan) and rebuilds walk the same folder in goroutines *)
(* of their own, with nothing that keeps them apart; the watcher follows   *)
(* the events of the folder through a queue, a debounced map and a loop    *)
(* that hashes; and all the while the user writes and removes files.       *)
(*                                                                         *)
(* One folder is both watched and baselined.  A hash is the content (no    *)
(* collisions), a time of modification a second of a coarse clock, and a   *)
(* write is one step.  excluded() and the deep scans are left out.         *)
(***************************************************************************)
EXTENDS Naturals, Sequences, FiniteSetsExt, Functions, TLC

CONSTANTS
  Path,        \* files of the folder
  Content,     \* what a file may contain
  Size,        \* content -> bytes
  Job,         \* goroutines that scan or rebuild
  NoHash,      \* no row: sql.ErrNoRows
  NoSummary,   \* no row in folder_summary
  MaxWrites,   \* bound: writes and removals by the user
  MaxClock,    \* bound: seconds
  MaxQueue,    \* length of the kernel's event queue
  MaxFailures  \* bound: transactions and reads that fail

ASSUME SizeAssumption == Size \in [Content -> Nat] /\ NoHash \notin Content
ASSUME BoundAssumption ==
  /\ IsFiniteSet(Path) /\ MaxClock \in Nat \ {0}
  /\ {MaxWrites, MaxQueue, MaxFailures} \subseteq Nat

VARIABLES
  disk,       \* file -> [content, mtime]
  clock, writes,
  baseline,   \* the table file_baseline: path -> [hash, size, mtime]
  summary,    \* the row of the folder in folder_summary: [count, bytes]
  job,        \* goroutine -> its scan or rebuild
  failures,
  queue,      \* w.fsw.Events and the kernel behind it
  pending,    \* w.pending
  ready,      \* the paths debounceLoop has drained
  current,    \* the path it processes: [path, hash]
  seen,       \* history: content the watcher last compared with the baseline
  hot,        \* history: files written in this second
  fooled,     \* history: files written twice within a second
  missed,     \* history: files with an event the full queue dropped, or that could not
              \* be read, since the watcher last read them
  known       \* history: <<path, hash>> an event has told of or a rebuild recorded

userVars  == <<disk, clock, writes, hot, fooled>>
tables    == <<baseline, summary>>
watchVars == <<pending, ready, current, seen>>
vars == <<userVars, tables, job, failures, queue, missed, known, watchVars>>

Exists(p) == p \in DOMAIN disk
SizeOf(p) == Size[disk[p].content]
(* @@ of TLC, of which the prover knows nothing. *)
Over(f, g) == [p \in DOMAIN f \cup DOMAIN g |-> IF p \in DOMAIN f THEN f[p] ELSE g[p]]
Put(f, p, v) == Over([q \in {p} |-> v], f)
Without(f, p) == Restrict(f, DOMAIN f \ {p})

RowOf(p) == IF p \in DOMAIN baseline THEN baseline[p] ELSE [hash |-> NoHash]

Live == [count |-> Cardinality(DOMAIN disk),
         bytes |-> FoldSet(LAMBDA p, n : SizeOf(p) + n, 0, DOMAIN disk)]

FolderDirty == summary = NoSummary \/ summary # Live

Resting == [kind |-> "none", pc |-> "idle"]
Nobody  == [path |-> NoHash, hash |-> NoHash]

Init ==
  /\ disk \in [Path -> [content : Content, mtime : {0}]]
  /\ clock = 1 /\ writes = 0
  /\ baseline = <<>> /\ summary = NoSummary
  /\ job = [j \in Job |-> Resting]
  /\ failures = 0
  /\ queue = <<>> /\ pending = {} /\ ready = {}
  /\ current = Nobody
  /\ seen = [p \in Path |-> disk[p].content]
  /\ hot = {} /\ fooled = {} /\ missed = {} /\ known = {}

---------------------------------------------------------------------------
(* The user, and the kernel's events.                                      *)

Notify(p, op) ==
  IF Len(queue) < MaxQueue THEN queue' = Append(queue, [path |-> p, op |-> op]) /\ missed' = missed
                           ELSE queue' = queue /\ missed' = missed \cup {p}

UserWrite(p, c) ==
  /\ writes < MaxWrites /\ writes' = writes + 1
  /\ disk' = Put(disk, p, [content |-> c, mtime |-> clock])
  /\ hot' = hot \cup {p}
  /\ fooled' = IF p \in hot THEN fooled \cup {p} ELSE fooled
  /\ Notify(p, "change")
  /\ UNCHANGED <<clock, tables, job, failures, known, watchVars>>

Unlink(p) ==
  /\ Exists(p)
  /\ writes < MaxWrites /\ writes' = writes + 1
  /\ disk' = Without(disk, p)
  /\ Notify(p, "remove")
  /\ UNCHANGED <<clock, hot, fooled, tables, job, failures, known, watchVars>>

Second ==
  /\ clock < MaxClock /\ clock' = clock + 1
  /\ hot' = {}
  /\ UNCHANGED <<disk, writes, fooled, tables, job, failures, queue, missed, known, watchVars>>

---------------------------------------------------------------------------
(* Scan and rebuild.                                                       *)

Walk(kind, left, recs) == [kind |-> kind, pc |-> "walk", left |-> left, recs |-> recs]

(* base: the hash of the row; for a rebuild, once there is one, the file's. *)
Opened(d, p) ==
  [kind |-> d.kind, pc |-> "hash", left |-> d.left \ {p}, recs |-> d.recs, path |-> p,
   base |-> IF d.kind = "scan" THEN RowOf(p).hash ELSE NoHash,
   size |-> SizeOf(p), mtime |-> disk[p].mtime]

(* runScan skips a folder whose count and bytes are those of the summary.  *)
StartScan(j) ==
  /\ job[j] = Resting /\ FolderDirty
  /\ job' = [job EXCEPT ![j] = Walk("scan", DOMAIN disk, <<>>)]
  /\ UNCHANGED <<userVars, tables, failures, queue, missed, known, watchVars>>

StartRebuild(j) ==
  /\ job[j] = Resting
  /\ job' = [job EXCEPT ![j] = Walk("rebuild", DOMAIN disk, <<>>)]
  /\ UNCHANGED <<userVars, tables, failures, queue, missed, known, watchVars>>

(* Mutant: a file with a row is clean. *)
CleanOnceKnown(p) == RowOf(p).hash # NoHash

Clean(p) == LET r == RowOf(p)
            IN  r.hash # NoHash /\ r.mtime = disk[p].mtime /\ r.size = SizeOf(p)

(* d.Info(), and for a scan the row.  A file that is gone, or clean to a   *)
(* scan, is passed over.                                                   *)
LookAt(j, p) ==
  /\ job[j].pc = "walk" /\ p \in job[j].left
  /\ job' = IF ~Exists(p) \/ (job[j].kind = "scan" /\ Clean(p))
            THEN [job EXCEPT ![j].left = @ \ {p}]
            ELSE [job EXCEPT ![j] = Opened(@, p)]
  /\ UNCHANGED <<userVars, tables, failures, queue, missed, known, watchVars>>

(* Mutant: the time of the scan for that of the file. *)
FoundNow(j) == LET d == job[j] IN [hash |-> disk[d.path].content, size |-> d.size, mtime |-> clock]

Found(j) == LET d == job[j] IN [hash |-> disk[d.path].content, size |-> d.size, mtime |-> d.mtime]

(* Mutant: no file_changed. *)
ToldNew(j) == job[j].base = NoHash

(* new_file or file_changed; nothing when only the time is another one. *)
Told(j) == job[j].base # disk[job[j].path].content

(* Mutant: a scan records a file it could not open. *)
HashFileUnopened(j) ==
  LET d == job[j]
      r == IF Exists(d.path) THEN Found(j) ELSE [hash |-> NoHash, size |-> d.size, mtime |-> d.mtime]
  IN  /\ d.pc = "hash" /\ d.kind = "scan"
      /\ job' = [job EXCEPT ![j] = Walk(d.kind, d.left, Put(d.recs, d.path, r))]
      /\ known' = known \cup {<<d.path, r.hash>>}
      /\ UNCHANGED <<userVars, tables, failures, queue, missed, watchVars>>

(* HashFile.  A scan keeps the record for UpdateBaseline. *)
HashFile(j) ==
  LET d == job[j]
  IN  /\ d.pc = "hash"
      /\ job' = [job EXCEPT ![j] =
           CASE ~Exists(d.path) -> Walk(d.kind, d.left, d.recs)
             [] Exists(d.path) /\ d.kind = "scan" ->
                  Walk(d.kind, d.left, Put(d.recs, d.path, Found(j)))
             [] OTHER -> [d EXCEPT !.pc = "store", !.base = disk[d.path].content]]
      /\ known' = IF Exists(d.path) /\ d.kind = "scan" /\ Told(j)
                  THEN known \cup {<<d.path, disk[d.path].content>>} ELSE known
      /\ UNCHANGED <<userVars, tables, failures, queue, missed, watchVars>>

(* The row cannot be read, or the file not opened or read: it is passed    *)
(* over, and nobody is told.                                               *)
HashFileFails(j) ==
  LET d == job[j]
  IN  /\ d.pc = "hash" /\ Exists(d.path)
      /\ failures < MaxFailures /\ failures' = failures + 1
      /\ job' = [job EXCEPT ![j] = Walk(d.kind, d.left, d.recs)]
      /\ UNCHANGED <<userVars, tables, queue, missed, known, watchVars>>

(* A rebuild writes each row on its own. *)
Store(j) ==
  LET d == job[j]
      r == [hash |-> d.base, size |-> d.size, mtime |-> d.mtime]
  IN  /\ d.pc = "store"
      /\ baseline' = Put(baseline, d.path, r)
      /\ job' = [job EXCEPT ![j] = Walk(d.kind, d.left, Put(d.recs, d.path, r))]
      /\ known' = known \cup {<<d.path, d.base>>}
      /\ UNCHANGED <<userVars, summary, failures, queue, missed, watchVars>>

(* ... and the summary at the end. *)
Summarise(j) ==
  LET d == job[j]
  IN  /\ d.pc = "walk" /\ d.left = {} /\ d.kind = "rebuild"
      /\ summary' = [count |-> Cardinality(DOMAIN d.recs),
                     bytes |-> FoldSet(LAMBDA p, n : d.recs[p].size + n, 0, DOMAIN d.recs)]
      /\ job' = [job EXCEPT ![j] = Resting]
      /\ UNCHANGED <<userVars, baseline, failures, queue, missed, known, watchVars>>

(* UpdateBaseline: all the records of a scan in one transaction. *)
UpdateBaseline(j) ==
  LET d == job[j]
  IN  /\ d.pc = "walk" /\ d.left = {} /\ d.kind = "scan"
      /\ baseline' = Over(d.recs, baseline)
      /\ job' = [job EXCEPT ![j] = Resting]
      /\ UNCHANGED <<userVars, summary, failures, queue, missed, known, watchVars>>

(* A rebuild ends with the first error; runScan ignores UpdateBaseline's.  *)
WriteFails(j) ==
  /\ job[j].pc = "store" \/ (job[j].pc = "walk" /\ job[j].left = {})
  /\ failures < MaxFailures /\ failures' = failures + 1
  /\ job' = [job EXCEPT ![j] = Resting]
  /\ UNCHANGED <<userVars, tables, queue, missed, known, watchVars>>

JobStep(j) ==
  \/ \E p \in Path : LookAt(j, p)
  \/ HashFile(j)
  \/ Store(j)
  \/ Summarise(j)
  \/ UpdateBaseline(j)

---------------------------------------------------------------------------
(* The watcher.                                                            *)

(* Mutant: an event of a file that is being processed is a duplicate. *)
TakeEventOnce ==
  /\ queue # <<>>
  /\ queue' = Tail(queue)
  /\ pending' = IF Head(queue).op = "change" /\ Head(queue).path # current.path
                THEN pending \cup {Head(queue).path} ELSE pending
  /\ UNCHANGED <<userVars, tables, job, failures, missed, known, ready, current, seen>>

(* eventLoop; a removal is only logged. *)
TakeEvent ==
  /\ queue # <<>>
  /\ queue' = Tail(queue)
  /\ pending' = IF Head(queue).op = "change" THEN pending \cup {Head(queue).path}
                                             ELSE pending
  /\ UNCHANGED <<userVars, tables, job, failures, missed, known, ready, current, seen>>

(* A tick of debounceLoop, under w.mu: some paths have been without an      *)
(* event for debounceWindow.                                               *)
Drain ==
  /\ ready = {} /\ current = Nobody
  /\ \E S \in (SUBSET pending) \ {{}} : ready' = S /\ pending' = pending \ S
  /\ UNCHANGED <<userVars, tables, job, failures, queue, missed, known, current, seen>>

(* processFile: the hash, or nothing if there is no file ... *)
ProcessFile(p) ==
  /\ current = Nobody /\ p \in ready
  /\ ready' = ready \ {p}
  /\ current' = IF Exists(p) THEN [path |-> p, hash |-> disk[p].content] ELSE Nobody
  /\ missed' = missed \ {p}
  /\ UNCHANGED <<userVars, tables, job, failures, queue, known, pending, seen>>

(* A file that cannot be opened or read has left w.pending all the same.   *)
ProcessFileFails(p) ==
  /\ current = Nobody /\ p \in ready /\ Exists(p)
  /\ failures < MaxFailures /\ failures' = failures + 1
  /\ ready' = ready \ {p}
  /\ missed' = missed \cup {p}
  /\ UNCHANGED <<userVars, tables, job, queue, known, pending, current, seen>>

(* ... then the row: new_file, file_changed, or nothing to say. *)
Compare ==
  /\ current # Nobody
  /\ seen' = Put(seen, current.path, current.hash)
  /\ known' = IF RowOf(current.path).hash = current.hash THEN known
              ELSE known \cup {<<current.path, current.hash>>}
  /\ current' = Nobody
  /\ UNCHANGED <<userVars, tables, job, failures, queue, missed, pending, ready>>

Watch == TakeEvent \/ Drain \/ (\E p \in Path : ProcessFile(p)) \/ Compare

ReadFails == (\E j \in Job : HashFileFails(j)) \/ \E p \in Path : ProcessFileFails(p)

Next ==
  \/ \E p \in Path, c \in Content : UserWrite(p, c)
  \/ \E p \in Path : Unlink(p)
  \/ Second
  \/ \E j \in Job : StartScan(j) \/ StartRebuild(j) \/ WriteFails(j)
  \/ \E j \in Job : JobStep(j)
  \/ Watch
  \/ ReadFails

(* cron starts scans again and again; goroutines run on. *)
Fairness == WF_vars(Watch) /\ \A j \in Job : WF_vars(StartScan(j)) /\ WF_vars(JobStep(j))

Spec == Init /\ [][Next]_vars

FairSpec == Spec /\ Fairness

---------------------------------------------------------------------------
(* Properties.                                                             *)

Bytes == {Size[c] : c \in Content}
Row == [hash : Content, size : Bytes, mtime : 0 .. MaxClock]

TypeOK ==
  /\ DOMAIN disk \subseteq Path
  /\ \A p \in DOMAIN disk : disk[p] \in [content : Content, mtime : 0 .. clock]
  /\ DOMAIN baseline \subseteq Path /\ \A p \in DOMAIN baseline : baseline[p] \in Row
  /\ summary = NoSummary \/ summary.count \in 0 .. Cardinality(Path)
  /\ \A j \in Job : \/ job[j] = Resting
                    \/ job[j].kind \in {"scan", "rebuild"} /\ job[j].left \subseteq Path
  /\ \A i \in DOMAIN queue : queue[i].path \in Path
  /\ pending \subseteq Path /\ ready \subseteq Path
  /\ current = Nobody \/ current \in [path : Path, hash : Content]

(* A row may be out of date, or pair an old stat with a newer hash, or be  *)
(* written over by a slower scan: it never has the size and time the file  *)
(* has now and another hash, for then ScanChanged would call the file      *)
(* clean.  (Except where a second is too coarse.)                          *)
StampSound ==
  \A p \in DOMAIN disk \ fooled : Clean(p) => baseline[p].hash = disk[p].content

(* What the baseline takes for good was either told in an event or stored  *)
(* by a rebuild, whichever scans, rebuilds and comparisons overlap.        *)
NothingSilent == \A p \in DOMAIN baseline : <<p, baseline[p].hash>> \in known

Settled(p) ==
  /\ \A i \in DOMAIN queue : queue[i].path # p
  /\ p \notin pending \cup ready /\ current.path # p

SeenBut(X) == \A p \in DOMAIN disk \ X : Settled(p) => seen[p] = disk[p].content

(* Debouncing loses nothing: once no event of a file is queued, pending or *)
(* being processed, the last comparison of the watcher was with what is in *)
(* the file now, whatever was written while it was being hashed.  Two      *)
(* things do lose a write, until the watcher reads the file again: an      *)
(* event the full queue dropped, and a file that could not be read.        *)
LastWriteSeen == SeenBut(missed)

(* "Modify a watched file -> event appears": false, for a file that cannot *)
(* be read when its turn comes is neither told of nor tried again.         *)
EveryWriteSeen == SeenBut({})

(* A scan of a dirty folder brings the baseline up to date.  (The user's   *)
(* writes are bounded, so the files come to rest.)                         *)
ScanCatchesUp ==
  \A p \in Path :
    []<>(FolderDirty /\ Exists(p) /\ p \notin fooled
           => p \in DOMAIN baseline /\ baseline[p].hash = disk[p].content)
===========================================================================
