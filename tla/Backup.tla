------------------------------ MODULE Backup ------------------------------
(***************************************************************************)
(* internal/backup: tpt-backup copies the source files into a directory    *)
(* named after the minute, prunes old directories, and then uploads what   *)
(* has changed since the row in backup_hashes.  cron starts every run in a *)
(* goroutine of its own and `tpt-backup -run` is a process of its own, so  *)
(* runs overlap; nothing but the names of the directories and the table    *)
(* connects them.                                                          *)
(*                                                                         *)
(* There is one source, a flat directory.  A hash is the content.  The     *)
(* names of the directories are minutes that never go back.                *)
(***************************************************************************)
EXTENDS Naturals, FiniteSets, Functions, TLC

CONSTANTS
  Path,         \* files of the source: numbers, in the order of their names
  Content,      \* what a file may contain
  None,         \* no file, no object, no row
  Torn,         \* a copy not finished
  Runner,       \* goroutines, of one process or two
  Modes,        \* subsets of {"local", "cloud"}: which are enabled
  Retain,       \* [local] retain
  MaxMinute,    \* bound: minutes
  MaxWrites,    \* bound: writes and removals by the user, for each mode
  MaxFailures   \* bound: failed system calls, requests, statements and crashes

ASSUME PathAssumption == Path \subseteq Nat
ASSUME RetainAssumption == Retain \in Nat \ {0}    \* NewLocalBackup sees to it
ASSUME ModeAssumption == Modes \subseteq SUBSET {"local", "cloud"}
ASSUME BoundAssumption ==
  MaxMinute \in Nat /\ MaxFailures \in Nat /\ MaxWrites \in [Modes -> Nat]
ASSUME ContentAssumption == None \notin Content /\ Torn \notin Content /\ Torn # None

VARIABLES
  file,      \* path -> content, or None
  minute, writes, failures,
  mode,      \* what the configuration enables
  snaps,     \* minute -> path -> content or Torn, for the directories there are
  object,    \* path -> content in the bucket, or None
  rows,      \* path -> hash in backup_hashes, or None
  run,       \* goroutine -> its run
  complete,  \* history: minute -> path -> what the file held while it was copied,
             \* for the directories whose copy ended without an error
  ever,      \* history: some copy ended without an error
  spoilt,    \* history: minutes in which two runs began, or whose directory could
             \* not be removed completely
  overlap,   \* history: two runs were under way at once
  doubt      \* history: paths whose object may differ from the row

user     == <<file, minute, writes>>
copies   == <<snaps, complete, ever>>
bucket   == <<object, rows, doubt>>
together == <<spoilt, overlap>>
vars == <<user, failures, mode, copies, bucket, run, together>>

Idle == [pc |-> "idle"]

(* A run: its minute, the files (or directories) left, and, for history,   *)
(* what each of the files it found has held since.                         *)
Run(pc, m, todo, held) == [pc |-> pc, snap |-> m, todo |-> todo, held |-> held]

Existing == {p \in Path : file[p] # None}
Without(f, S) == Restrict(f, DOMAIN f \ S)
Put(f, k, v) == [x \in DOMAIN f \cup {k} |-> IF x = k THEN v ELSE f[x]]

(* One of a bounded number of failures. *)
Fault == failures < MaxFailures /\ failures' = failures + 1

Init ==
  /\ file \in [Path -> Content]
  /\ minute = 1 /\ writes = 0 /\ failures = 0
  /\ mode \in Modes
  /\ snaps = <<>>
  /\ object = [p \in Path |-> None] /\ rows = [p \in Path |-> None]
  /\ run = [r \in Runner |-> Idle]
  /\ complete = <<>> /\ ever = FALSE /\ spoilt = {} /\ overlap = FALSE /\ doubt = {}

---------------------------------------------------------------------------
(* The user and the clock.                                                 *)

(* What a run copies of p may from now on be c. *)
Hold(p, c) ==
  run' = [r \in Runner |->
            IF run[r].pc \in {"copy", "fill"} /\ p \in DOMAIN run[r].held
            THEN [run[r] EXCEPT !.held[p] = @ \cup {c}] ELSE run[r]]

Change(p, c) ==
  /\ writes < MaxWrites[mode] /\ writes' = writes + 1
  /\ file' = [file EXCEPT ![p] = c]
  /\ Hold(p, c)
  /\ UNCHANGED <<minute, failures, mode, copies, bucket, together>>

UserWrite(p, c) == c # file[p] /\ Change(p, c)

Unlink(p) == file[p] # None /\ Change(p, None)

(* Time plays no part but in the names of the directories. *)
Minute ==
  /\ "local" \in mode
  /\ minute < MaxMinute /\ minute' = minute + 1
  /\ UNCHANGED <<file, writes, failures, mode, copies, bucket, run, together>>

---------------------------------------------------------------------------
(* LocalBackup.Run.                                                        *)

Upload == IF "cloud" \in mode THEN Run("walk", 0, {}, <<>>) ELSE Idle

Goto(r, s) == run' = [run EXCEPT ![r] = s]

Active(r) == run[r].pc # "idle"

(* os.ReadDir and filepath.Walk go through the names in order. *)
First(r, p) == p \in run[r].todo /\ \A q \in run[r].todo : p <= q

(* MkdirAll takes a directory that is there; then the files are listed. *)
StartRun(r) ==
  /\ ~Active(r) /\ mode # {}
  /\ Goto(r, IF "local" \in mode
             THEN Run("copy", minute, Existing, [p \in Existing |-> {file[p]}])
             ELSE Upload)
  /\ snaps' = IF "local" \in mode /\ minute \notin DOMAIN snaps
              THEN Put(snaps, minute, <<>>) ELSE snaps
  /\ spoilt' = IF "local" \in mode /\ minute \in DOMAIN snaps
               THEN spoilt \cup {minute} ELSE spoilt
  /\ overlap' = (overlap \/ \E x \in Runner : Active(x))
  /\ complete' = Without(complete, {minute})
  /\ UNCHANGED <<user, failures, mode, bucket, ever>>

CanCopy(r, p) == file[p] # None /\ run[r].snap \in DOMAIN snaps

(* copyFile: both files are opened, the target truncated ... *)
OpenCopy(r, p) ==
  LET d == run[r]
  IN  /\ d.pc = "copy" /\ First(r, p)
      /\ CanCopy(r, p)
      /\ snaps' = [snaps EXCEPT ![d.snap] = Put(@, p, Torn)]
      /\ Goto(r, [pc |-> "fill", snap |-> d.snap, todo |-> d.todo \ {p}, held |-> d.held,
                  path |-> p, buf |-> file[p]])
      /\ UNCHANGED <<user, failures, mode, bucket, together, complete, ever>>

(* ... and what the open source holds now is copied: what it held then, if *)
(* the file has been replaced.  A target pruned meanwhile takes it along.  *)
Copied(r) == {run[r].buf, file[run[r].path]} \ {None}

FillCopy(r) ==
  LET d == run[r]
  IN  /\ d.pc = "fill"
      /\ \E c \in Copied(r) :
           snaps' = IF d.snap \in DOMAIN snaps /\ d.path \in DOMAIN snaps[d.snap]
                    THEN [snaps EXCEPT ![d.snap][d.path] = c] ELSE snaps
      /\ Goto(r, Run("copy", d.snap, d.todo, d.held))
      /\ UNCHANGED <<user, failures, mode, bucket, together, complete, ever>>

(* Mutant: a file that cannot be copied is passed over. *)
CopyFailsSkipped(r) ==
  LET d == run[r]
  IN  /\ d.pc = "fill" /\ Fault
      /\ Goto(r, Run("copy", d.snap, d.todo, d.held))
      /\ UNCHANGED <<user, mode, copies, bucket, together>>

(* Mutant: prune is called whether the copy failed or not. *)
CopyFailsPruned(r) ==
  LET d == run[r]
  IN  /\ d.pc = "fill" /\ Fault
      /\ Goto(r, Run("list", d.snap, {}, <<>>))
      /\ UNCHANGED <<user, mode, copies, bucket, together>>

(* The first error ends the copy, and nothing is pruned. *)
CopyFails(r) ==
  /\ \/ run[r].pc = "copy" /\ (\E p \in Path : First(r, p) /\ ~CanCopy(r, p)) /\ UNCHANGED failures
     \/ run[r].pc = "fill" /\ Fault
  /\ Goto(r, Upload)
  /\ UNCHANGED <<user, mode, copies, bucket, together>>

(* Every source copied without an error. *)
EndCopy(r) ==
  LET d == run[r]
  IN  /\ d.pc = "copy" /\ d.todo = {}
      /\ ever' = TRUE
      /\ complete' = IF d.snap \in DOMAIN snaps THEN Put(complete, d.snap, d.held) ELSE complete
      /\ Goto(r, Run("list", d.snap, {}, <<>>))
      /\ UNCHANGED <<user, failures, mode, bucket, snaps, together>>

Newer(m) == {n \in DOMAIN snaps : n > m}

OldOffByOne == {m \in DOMAIN snaps : Cardinality(Newer(m)) >= Retain - 1}   \* mutant
Old == {m \in DOMAIN snaps : Cardinality(Newer(m)) >= Retain}

(* prune lists the directories ... *)
ListSnaps(r) ==
  /\ run[r].pc = "list"
  /\ Goto(r, Run("prune", run[r].snap, Old, <<>>))
  /\ UNCHANGED <<user, failures, mode, copies, bucket, together>>

(* ... and removes them one by one, the oldest first. *)
RemoveAll(r, m) ==
  /\ run[r].pc = "prune" /\ First(r, m)
  /\ snaps' = Without(snaps, {m})
  /\ complete' = Without(complete, {m})
  /\ Goto(r, [run[r] EXCEPT !.todo = @ \ {m}])
  /\ UNCHANGED <<user, failures, mode, bucket, ever, together>>

(* An error, which may leave some of it, ends the pruning; the death of    *)
(* the process the run (and those a Crash takes next).                     *)
RemoveFails(r, m) ==
  /\ run[r].pc = "prune" /\ First(r, m) /\ Fault
  /\ m \in DOMAIN snaps
  /\ \E S \in SUBSET DOMAIN snaps[m] : snaps' = [snaps EXCEPT ![m] = Restrict(@, S)]
  /\ complete' = Without(complete, {m}) /\ spoilt' = spoilt \cup {m}
  /\ Goto(r, Upload) \/ Goto(r, Idle)
  /\ UNCHANGED <<user, mode, bucket, ever, overlap>>

EndPrune(r) ==
  /\ run[r].pc = "prune" /\ run[r].todo = {}
  /\ Goto(r, Upload)
  /\ UNCHANGED <<user, failures, mode, copies, bucket, together>>

---------------------------------------------------------------------------
(* UploadChanged.                                                          *)

Uploading(r, p) == run[r].pc \in {"read", "put", "record"} /\ run[r].path = p

(* filepath.Walk lists the files. *)
Walk(r) ==
  /\ run[r].pc = "walk"
  /\ Goto(r, Run("hash", 0, Existing, <<>>))
  /\ UNCHANGED <<user, failures, mode, copies, bucket, together>>

Next1(r, p) == Run("hash", 0, run[r].todo \ {p}, <<>>)
Upload1(r, pc, p, h, c) ==
  [pc |-> pc, snap |-> 0, todo |-> run[r].todo, path |-> p, hash |-> h, data |-> c]

Unchanged(p) == rows[p] = file[p]

(* The hash, and the row: unchanged files are passed over, and a row that  *)
(* cannot be read counts as another.  Two uploads of one file at once put  *)
(* its object and its row in doubt.                                        *)
HashFile(r, p) ==
  /\ run[r].pc = "hash" /\ First(r, p) /\ file[p] # None
  /\ \/ /\ Unchanged(p) /\ Goto(r, Next1(r, p))
        /\ UNCHANGED <<failures, doubt>>
     \/ /\ Goto(r, Upload1(r, "read", p, file[p], None))
        /\ IF Unchanged(p) THEN Fault ELSE UNCHANGED failures
        /\ doubt' = IF \E x \in Runner \ {r} : Uploading(x, p) THEN doubt \cup {p} ELSE doubt
  /\ UNCHANGED <<user, mode, copies, object, rows, together>>

(* A file that is gone: the error of Walk's lstat ends the run, that of    *)
(* hashFile is not looked at and the file is passed over.                  *)
HashFails(r, p) ==
  /\ run[r].pc = "hash" /\ First(r, p) /\ file[p] = None
  /\ Goto(r, Idle) \/ Goto(r, Next1(r, p))
  /\ UNCHANGED <<user, failures, mode, copies, bucket, together>>

(* Mutant: a file that is gone is read as nothing. *)
ReadFileMissing(r) ==
  /\ run[r].pc = "read"
  /\ Goto(r, Upload1(r, "put", run[r].path, run[r].hash, file[run[r].path]))
  /\ UNCHANGED <<user, failures, mode, copies, bucket, together>>

(* The content is read apart from its hash. *)
ReadFile(r) ==
  LET p == run[r].path
  IN  /\ run[r].pc = "read"
      /\ Goto(r, IF file[p] = None THEN Next1(r, p)
                 ELSE Upload1(r, "put", p, run[r].hash, file[p]))
      /\ doubt' = IF file[p] \notin {None, run[r].hash} THEN doubt \cup {p} ELSE doubt
      /\ UNCHANGED <<user, failures, mode, copies, object, rows, together>>

PutObject(r) ==
  LET d == run[r]
  IN  /\ d.pc = "put"
      /\ object' = [object EXCEPT ![d.path] = d.data]
      /\ Goto(r, [d EXCEPT !.pc = "record"])
      /\ UNCHANGED <<user, failures, mode, copies, rows, doubt, together>>

(* Mutant: the error of the request is not looked at. *)
PutFailsIgnored(r) ==
  /\ run[r].pc = "put" /\ Fault
  /\ Goto(r, [run[r] EXCEPT !.pc = "record"])
  /\ UNCHANGED <<user, mode, copies, bucket, together>>

(* An error, or no answer in time although the object was stored, ends the *)
(* run.                                                                    *)
PutFails(r) ==
  LET d == run[r]
  IN  /\ d.pc = "put" /\ Fault
      /\ \/ UNCHANGED <<object, doubt>>
         \/ object' = [object EXCEPT ![d.path] = d.data] /\ doubt' = doubt \cup {d.path}
      /\ Goto(r, Idle)
      /\ UNCHANGED <<user, mode, copies, rows, together>>

(* The row.  When nobody else is at the file and the content read was the  *)
(* one hashed, bucket and row agree again.                                 *)
Record(r) ==
  LET d == run[r]
  IN  /\ d.pc = "record"
      /\ rows' = [rows EXCEPT ![d.path] = d.hash]
      /\ doubt' = IF object[d.path] = d.hash /\ ~\E x \in Runner \ {r} : Uploading(x, d.path)
                  THEN doubt \ {d.path} ELSE doubt
      /\ Goto(r, Next1(r, d.path))
      /\ UNCHANGED <<user, failures, mode, copies, object, together>>

(* The error of the statement (the other process holds the database, say)  *)
(* is not looked at.                                                       *)
RecordFails(r) ==
  /\ run[r].pc = "record" /\ Fault
  /\ doubt' = doubt \cup {run[r].path}
  /\ Goto(r, Next1(r, run[r].path))
  /\ UNCHANGED <<user, mode, copies, object, rows, together>>

EndWalk(r) ==
  /\ run[r].pc = "hash" /\ run[r].todo = {}
  /\ Goto(r, Idle)
  /\ UNCHANGED <<user, failures, mode, copies, bucket, together>>

(* A process dies with the runs R it has under way. *)
Crash(R) ==
  /\ R # {} /\ (\A r \in R : Active(r)) /\ Fault
  /\ run' = [r \in Runner |-> IF r \in R THEN Idle ELSE run[r]]
  /\ doubt' = doubt \cup {p \in Path : \E r \in R : run[r].pc = "record" /\ run[r].path = p}
  /\ UNCHANGED <<user, mode, copies, object, rows, together>>

LocalStep(r) ==
  \/ \E p \in Path : OpenCopy(r, p)
  \/ FillCopy(r)
  \/ CopyFails(r)
  \/ EndCopy(r)
  \/ ListSnaps(r)
  \/ \E m \in 1 .. MaxMinute : RemoveAll(r, m) \/ RemoveFails(r, m)
  \/ EndPrune(r)

CloudStep(r) ==
  \/ Walk(r)
  \/ \E p \in Path : HashFile(r, p) \/ HashFails(r, p)
  \/ ReadFile(r)
  \/ PutObject(r)
  \/ PutFails(r)
  \/ Record(r)
  \/ RecordFails(r)
  \/ EndWalk(r)

Next ==
  \/ \E p \in Path : (\E c \in Content : UserWrite(p, c)) \/ Unlink(p)
  \/ Minute
  \/ \E r \in Runner : StartRun(r) \/ LocalStep(r) \/ CloudStep(r)
  \/ \E R \in SUBSET Runner : Crash(R)

Spec == Init /\ [][Next]_vars

---------------------------------------------------------------------------
(* Properties.                                                             *)

Snap == UNION {[S -> Content \cup {Torn}] : S \in SUBSET Path}

TypeOK ==
  /\ file \in [Path -> Content \cup {None}]
  /\ DOMAIN snaps \subseteq 1 .. minute /\ \A m \in DOMAIN snaps : snaps[m] \in Snap
  /\ object \in [Path -> Content \cup {None}] /\ rows \in [Path -> Content \cup {None}]
  /\ \A r \in Runner : /\ Active(r) => run[r].snap \in 0 .. minute
                       /\ run[r].pc = "put" => run[r].data \in Content
  /\ DOMAIN complete \subseteq DOMAIN snaps
  /\ failures \in 0 .. MaxFailures /\ doubt \subseteq Path

(* What a run copied without an error is a whole copy, and stays one until *)
(* it is pruned, whatever other runs do: every file found at the start is  *)
(* there, with something it held while the run went on.  (Two runs within  *)
(* a minute write to one directory.)                                       *)
CompleteWhole ==
  \A m \in DOMAIN complete \ spoilt :
    \A p \in DOMAIN complete[m] :
      p \in DOMAIN snaps[m] /\ snaps[m][p] \in complete[m][p]

(* "Keeps the <retain> most recent snapshots and deletes older ones": even *)
(* with runs that prune at once, from stale lists, a directory disappears  *)
(* only while at least Retain newer ones are there.                        *)
PruneKeepsNewest ==
  [][\A m \in DOMAIN snaps \ DOMAIN snaps' :
       Cardinality({n \in DOMAIN snaps' : n > m}) >= Retain]_vars

(* Runs that fail or die cost no backup: if runs never overlap or share a  *)
(* minute, and no removal fails, then once a copy has succeeded there is   *)
(* always a whole one.                                                     *)
LastKept == ever /\ ~overlap /\ spoilt = {} => complete # <<>>

Recording(r, p) == run[r].pc = "record" /\ run[r].path = p

(* A file the next run would pass over is in the bucket as it is: its row  *)
(* is never ahead of the object, unless uploads of it overlapped, it was   *)
(* written between hash and read, or a request or statement was lost.      *)
SkippedIsStored ==
  \A p \in Path \ doubt :
    (\A r \in Runner : ~Recording(r, p)) /\ file[p] # None /\ rows[p] = file[p]
      => object[p] = file[p]
===========================================================================
