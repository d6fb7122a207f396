---------------------------- MODULE Quarantine ----------------------------
(***************************************************************************)
(* internal/quarantine: the Manager that moves a flagged file into the     *)
(* vault directory, lists it in the SQLite table quarantine, and restores  *)
(* or deletes it later.  Nothing in the package holds a lock: the watcher, *)
(* the scheduled scan (through autoLogger.Write of cmd/tpt-patrol) and the *)
(* REST handlers call it from goroutines of their own, so every system     *)
(* call and every SQL statement is a step of its own here.                 *)
(*                                                                         *)
(* Files are modelled with their inodes: a rename moves the inode, a       *)
(* truncating open keeps it, an unlink drops the name while a writer may   *)
(* still hold it.  What a file contains is the version of user data in it  *)
(* (0 for a torn one) and the keys it is sealed with.                      *)
(***************************************************************************)
EXTENDS Naturals, Sequences

CONSTANTS
  Path,         \* paths of user files
  Local,        \* the paths on the vault's filesystem: os.Rename works
  NoPath,
  Worker,       \* goroutines that call the manager
  MaxUuid,      \* bound: quarantine calls
  MaxVersion,   \* bound: versions of files the user writes
  MaxInode,     \* bound: files that exist at a time
  MaxKey,       \* bound: keys generated
  MaxCrash,     \* bound: crashes of the daemon
  MayDisable,   \* may encrypt = true become false in patrol.toml?
  KeyReadFails  \* may reading an intact key file fail?

ASSUME PathAssumption == Local \subseteq Path /\ NoPath \notin Path
ASSUME BoundAssumption ==
  {MaxUuid, MaxVersion, MaxInode, MaxKey, MaxCrash} \subseteq Nat
ASSUME NameAssumption == Path \cap Nat = {}
ASSUME FaultAssumption == {MayDisable, KeyReadFails} \subseteq BOOLEAN

Id    == 1 .. MaxUuid
Inode == 1 .. MaxInode
Name == Path \cup Id          \* i \in Id names <vault>/<uuid>.quarantine
Data == [v : 0 .. MaxVersion, seal : Seq(1 .. MaxKey)]
Row  == [path : Path \cup {NoPath}, enc : BOOLEAN]

Torn     == [v |-> 0, seal |-> <<>>]
Plain(v) == [v |-> v, seal |-> <<>>]
NoRow    == [path |-> NoPath, enc |-> FALSE]

VARIABLES
  dir,        \* name -> inode, 0 when no such file
  data,       \* inode -> what it contains
  rows,       \* the table quarantine
  keyFile,    \* .tpt-qkey: the key, 0 when absent or not 32 bytes
  minted,     \* keys generated so far
  phase,      \* the daemon: "down", "keygen" (in New), "up"
  encrypt,    \* cfg.Encrypt
  key,        \* Manager.key, 0 for nil
  work,       \* each goroutine's call
  uuids,      \* uuids handed out
  crashes,
  born,       \* history: the path of each version the user has written
  released,   \* history: versions replaced or deleted on request
  contested,  \* history: paths where a restore overlapped a quarantine or restore,
              \* or a write by the user either (two quarantines may overlap)
  halfway,    \* history: paths where a restore stopped and left a torn file
  struck      \* history: ids whose SQL statement never ran after the move, or
              \* whose blob a restore or delete could not remove

files   == <<dir, data>>
daemon  == <<phase, encrypt, key, keyFile, minted>>
history == <<born, released, contested, halfway, struck>>
vars    == <<files, rows, daemon, work, uuids, crashes, history>>

(* A call: what it moves, whether through encryptMove or decryptMove, the  *)
(* content it has read and the files it has open.                          *)
Call(op, i, p, crypt, pc) ==
  [pc |-> pc, op |-> op, id |-> i, path |-> p, crypt |-> crypt,
   buf |-> Torn, in |-> 0, out |-> 0]

Idle == Call("none", 0, NoPath, FALSE, "idle")

Work ==
  [pc : {"idle", "rename", "read", "create", "fill", "unlink", "commit"},
   op : {"none", "Quarantine", "Restore", "Delete"},
   id : 0 .. MaxUuid, path : Path \cup {NoPath}, crypt : BOOLEAN,
   buf : Data, in : 0 .. MaxInode, out : 0 .. MaxInode]

(* Both directions are one move: a file to its blob, or a blob to its file. *)
Src(c) == IF c.op = "Quarantine" THEN c.path ELSE c.id
Dst(c) == IF c.op = "Quarantine" THEN c.id ELSE c.path

Listed(i) == rows[i] # NoRow

Seal(d, k)  == [d EXCEPT !.seal = Append(d.seal, k)]
Opens(d, k) == d.v # 0 /\ d.seal # <<>> /\ d.seal[Len(d.seal)] = k

OpenNothing(d) == d    \* mutant: decryptMove writes what it read
Open(d)     == [d EXCEPT !.seal = SubSeq(d.seal, 1, Len(d.seal) - 1)]

(* The version a file holds, as the set of the versions lost with it. *)
Held(n) == IF dir[n] = 0 THEN {} ELSE {data[dir[n]].v} \ {0}

(* The inode an open for writing gets: the file's, or the first free one.  *)
(* One that no name and no open file refers to any more is free and blank. *)
Free(o) == /\ \A n \in Name : dir[n] # o
           /\ \A w \in Worker : o \notin {work[w].in, work[w].out}

Store(d) == data' = [o \in Inode |-> IF Free(o)' THEN Torn ELSE d[o]]

Opened(n, o) == IF dir[n] # 0 THEN o = dir[n]
                              ELSE Free(o) /\ \A j \in 1 .. (o - 1) : ~Free(j)

Goto(w, pc) == work' = [work EXCEPT ![w].pc = pc]
Done(w, pc) ==
  work' = [work EXCEPT ![w] = Call(@.op, @.id, @.path, @.crypt, pc)]
Return(w)   == work' = [work EXCEPT ![w] = Idle]

Init ==
  /\ dir = [n \in Name |-> 0]
  /\ data = [i \in Inode |-> Torn]
  /\ rows = [i \in Id |-> NoRow]
  /\ keyFile = 0 /\ minted = 0
  /\ phase = "down" /\ encrypt \in BOOLEAN /\ key = 0
  /\ work = [w \in Worker |-> Idle]
  /\ uuids = 0 /\ crashes = 0
  /\ born = <<>> /\ released = {} /\ contested = {} /\ halfway = {} /\ struck = {}

---------------------------------------------------------------------------
(* Starting the daemon: New and loadOrGenerateKey.                         *)

(* New with encryption off, or with a 32-byte key file on disk. *)
Boot ==
  /\ phase = "down"
  /\ encrypt => keyFile # 0
  /\ key' = IF encrypt THEN keyFile ELSE 0
  /\ phase' = "up"
  /\ UNCHANGED <<files, rows, encrypt, keyFile, minted, work, uuids, crashes, history>>

KeyLostAlways == TRUE    \* mutant: every start generates a key
KeyLost == keyFile = 0 \/ KeyReadFails

(* Any other outcome of the read generates a key; WriteFile truncates ... *)
GenerateKey ==
  /\ phase = "down" /\ encrypt
  /\ KeyLost
  /\ minted < MaxKey
  /\ minted' = minted + 1
  /\ keyFile' = 0
  /\ phase' = "keygen"
  /\ UNCHANGED <<files, rows, encrypt, key, work, uuids, crashes, history>>

(* Mutant: the new key is never written. *)
SaveKeyInMemory ==
  /\ phase = "keygen"
  /\ key' = minted
  /\ phase' = "up"
  /\ UNCHANGED <<files, rows, encrypt, keyFile, minted, work, uuids, crashes, history>>

(* ... and then writes it; only then does New return the manager. *)
SaveKey ==
  /\ phase = "keygen"
  /\ keyFile' = minted
  /\ key' = minted
  /\ phase' = "up"
  /\ UNCHANGED <<files, rows, encrypt, minted, work, uuids, crashes, history>>

---------------------------------------------------------------------------
(* The calls.                                                              *)

Busy(p, ops) == \E w \in Worker : work[w].path = p /\ work[w].op \in ops

(* An activity starts on a path where another one is under way. *)
Contend(p, ops) ==
  contested' = IF Busy(p, ops) THEN contested \cup {p} ELSE contested

NewIdReused == IF uuids = 0 THEN 1 ELSE uuids    \* mutant: not a fresh uuid
NewId == uuids + 1

(* autoLogger.Write on a threat_detected event, for a file just scanned. *)
BeginQuarantine(w, p) ==
  /\ phase = "up" /\ work[w] = Idle
  /\ dir[p] # 0
  /\ uuids < MaxUuid
  /\ uuids' = uuids + 1
  /\ LET crypt == encrypt /\ key # 0
     IN  work' = [work EXCEPT ![w] = Call("Quarantine", NewId, p, crypt,
                                          IF crypt THEN "read" ELSE "rename")]
  /\ Contend(p, {"Restore"})
  /\ UNCHANGED <<files, rows, daemon, crashes, born, released, halfway, struck>>

(* POST /quarantine/{id}/restore: Get finds the row. *)
BeginRestore(w, i) ==
  /\ phase = "up" /\ work[w] = Idle
  /\ Listed(i)
  /\ LET crypt == rows[i].enc /\ key # 0
     IN  work' = [work EXCEPT ![w] = Call("Restore", i, rows[i].path, crypt,
                                          IF crypt THEN "read" ELSE "rename")]
  /\ Contend(rows[i].path, {"Quarantine", "Restore"})
  /\ UNCHANGED <<files, rows, daemon, uuids, crashes, born, released, halfway, struck>>

(* DELETE /quarantine/{id}, for an id the caller saw listed. *)
BeginDelete(w, i) ==
  /\ phase = "up" /\ work[w] = Idle
  /\ Listed(i)
  /\ work' = [work EXCEPT ![w] = Call("Delete", i, NoPath, FALSE, "unlink")]
  /\ UNCHANGED <<files, rows, daemon, uuids, crashes, history>>

(* os.Rename, which replaces what is at the target; otherwise copyFile. *)
Rename(w) ==
  LET c == work[w]
      works == dir[Src(c)] # 0 /\ c.path \in Local
  IN  /\ c.pc = "rename"
      /\ IF works
         THEN /\ dir' = [dir EXCEPT ![Dst(c)] = dir[Src(c)], ![Src(c)] = 0]
              /\ released' = released \cup (Held(Dst(c)) \ Held(Src(c)))
              /\ Goto(w, "commit")
         ELSE /\ Goto(w, "read")
              /\ UNCHANGED <<dir, released>>
      /\ UNCHANGED <<rows, daemon, uuids, crashes, born, contested, halfway, struck>>
      /\ Store(data)

(* os.ReadFile (and gcm.Open) of encryptMove and decryptMove, which take   *)
(* the whole content now; os.Open of copyFile, which reads when it copies. *)
(* Each may fail on a file that is there, too.                             *)
Readable(c) ==
  /\ dir[Src(c)] # 0
  /\ c.crypt /\ c.op = "Restore" => Opens(data[dir[Src(c)]], key)

Taken(c, d) == CASE ~c.crypt -> Torn
                 [] c.crypt /\ c.op = "Restore" -> Open(d)
                 [] OTHER -> d

ReadSource(w) ==
  LET c == work[w]
  IN  /\ c.pc = "read"
      /\ Readable(c)
      /\ work' = [work EXCEPT ![w] =
                    [c EXCEPT !.pc = "create",
                              !.in = IF c.crypt THEN 0 ELSE dir[Src(c)],
                              !.buf = Taken(c, data[dir[Src(c)]])]]
      /\ UNCHANGED <<files, rows, daemon, uuids, crashes, history>>

ReadFails(w) ==
  /\ work[w].pc = "read"
  /\ Return(w)
  /\ UNCHANGED <<files, rows, daemon, uuids, crashes, history>>

(* The open of os.WriteFile or os.Create: a new file, or the old truncated. *)
CreateTarget(w, o) ==
  LET c == work[w]
      moving == IF c.crypt THEN {c.buf.v} ELSE {data[c.in].v}
  IN  /\ c.pc = "create"
      /\ Opened(Dst(c), o)
      /\ dir' = [dir EXCEPT ![Dst(c)] = o]
      /\ released' = released \cup (Held(Dst(c)) \ moving)
      /\ work' = [work EXCEPT ![w] = [c EXCEPT !.pc = "fill", !.out = o]]
      /\ UNCHANGED <<rows, daemon, uuids, crashes, born, contested, halfway, struck>>
      /\ Store([data EXCEPT ![o] = Torn])

Payload(c) == CASE ~c.crypt -> data[c.in]
                [] c.crypt /\ c.op = "Quarantine" -> Seal(c.buf, key)
                [] OTHER -> c.buf

FillTarget(w) ==
  /\ work[w].pc = "fill"
  /\ Done(w, "unlink")
  /\ UNCHANGED <<dir, rows, daemon, uuids, crashes, history>>
  /\ Store([data EXCEPT ![work[w].out] = Payload(work[w])])

HalfDone(W) ==
  halfway' = halfway \cup
    {work[w].path : w \in {x \in W : work[x].op = "Restore" /\ work[x].pc = "fill"}}

(* Mutant: the error of the write is ignored. *)
FillFailsIgnored(w) ==
  /\ work[w].pc = "fill"
  /\ Done(w, "unlink")
  /\ UNCHANGED <<files, rows, daemon, uuids, crashes, history>>

(* The target cannot be opened, or the disk is full: the error is returned *)
(* and a torn target stays.                                                *)
FillFails(w) ==
  /\ work[w].pc \in {"create", "fill"}
  /\ Return(w)
  /\ HalfDone({w})
  /\ UNCHANGED <<dir, rows, daemon, uuids, crashes, born, released, contested, struck>>
  /\ Store(data)

(* os.Remove of the source, which may be gone by now: encryptMove and      *)
(* decryptMove return the error, the copy path and Delete ignore it.       *)
Unlink(w) ==
  LET c == work[w]
  IN  /\ c.pc = "unlink"
      /\ dir' = [dir EXCEPT ![Src(c)] = 0]
      /\ released' = IF c.op = "Delete" THEN released \cup Held(Src(c)) ELSE released
      /\ IF c.crypt /\ dir[Src(c)] = 0 THEN Return(w) ELSE Goto(w, "commit")
      /\ UNCHANGED <<rows, daemon, uuids, crashes, born, contested, halfway, struck>>
      /\ Store(data)

(* It fails although the file is there (immutable, in use on Windows, a    *)
(* mount turned read-only): the source stays, and of a copy or a delete    *)
(* the row is written or deleted nevertheless.                             *)
UnlinkFails(w) ==
  LET c == work[w]
  IN  /\ c.pc = "unlink" /\ dir[Src(c)] # 0
      /\ IF c.crypt THEN Return(w) ELSE Goto(w, "commit")
      /\ struck' = IF c.crypt \/ c.op = "Quarantine" THEN struck ELSE struck \cup {c.id}
      /\ UNCHANGED <<files, rows, daemon, uuids, crashes, born, released, contested, halfway>>

RowOfId(c) == [path |-> c.id, enc |-> encrypt]    \* mutant: columns swapped
RowOf(c) == [path |-> c.path, enc |-> encrypt]

(* The INSERT of Quarantine, the DELETE of Restore and Delete. *)
Commit(w) ==
  LET c == work[w]
  IN  /\ c.pc = "commit"
      /\ rows' = [rows EXCEPT ![c.id] = IF c.op = "Quarantine" THEN RowOf(c) ELSE NoRow]
      /\ Return(w)
      /\ UNCHANGED <<files, daemon, uuids, crashes, history>>

CommitFails(w) ==
  /\ work[w].pc = "commit"
  /\ struck' = struck \cup {work[w].id}
  /\ Return(w)
  /\ UNCHANGED <<files, rows, daemon, uuids, crashes, born, released, contested, halfway>>

---------------------------------------------------------------------------
(* The environment.                                                        *)

(* The daemon dies, and is configured again before its next start. *)
Crash ==
  /\ phase # "down" /\ crashes < MaxCrash
  /\ crashes' = crashes + 1
  /\ phase' = "down" /\ key' = 0
  /\ encrypt' \in IF MayDisable THEN BOOLEAN ELSE {encrypt, TRUE}
  /\ struck' = struck \cup {work[w].id : w \in {x \in Worker : work[x].pc = "commit"}}
  /\ HalfDone(Worker)
  /\ work' = [w \in Worker |-> Idle]
  /\ UNCHANGED <<dir, rows, keyFile, minted, uuids, born, released, contested>>
  /\ Store(data)

(* The user creates a file or rewrites one in place. *)
UserWrite(p, o) ==
  /\ Len(born) < MaxVersion
  /\ Opened(p, o)
  /\ born' = Append(born, p)
  /\ dir' = [dir EXCEPT ![p] = o]
  /\ data' = [data EXCEPT ![o] = Plain(Len(born) + 1)]
  /\ released' = released \cup Held(p)
  /\ Contend(p, {"Quarantine", "Restore"})
  /\ UNCHANGED <<rows, daemon, work, uuids, crashes, halfway, struck>>

Step(w) ==
  \/ \E p \in Path : BeginQuarantine(w, p)
  \/ \E i \in Id : BeginRestore(w, i)
  \/ \E i \in Id : BeginDelete(w, i)
  \/ Rename(w)
  \/ ReadSource(w)
  \/ ReadFails(w)
  \/ \E o \in Inode : CreateTarget(w, o)
  \/ FillTarget(w)
  \/ FillFails(w)
  \/ Unlink(w)
  \/ UnlinkFails(w)
  \/ Commit(w)
  \/ CommitFails(w)

Next ==
  \/ Boot
  \/ GenerateKey
  \/ SaveKey
  \/ Crash
  \/ \E p \in Path, o \in Inode : UserWrite(p, o)
  \/ \E w \in Worker : Step(w)

Spec == Init /\ [][Next]_vars

---------------------------------------------------------------------------
(* Properties.                                                             *)

(* Every variable has the type the code gives it. *)
TypeOK ==
  /\ dir \in [Name -> 0 .. MaxInode]
  /\ data \in [Inode -> Data]
  /\ rows \in [Id -> Row]
  /\ keyFile \in 0 .. MaxKey /\ minted \in 0 .. MaxKey
  /\ phase \in {"down", "keygen", "up"} /\ encrypt \in BOOLEAN /\ key \in 0 .. MaxKey
  /\ work \in [Worker -> Work]
  /\ uuids \in 0 .. MaxUuid /\ crashes \in 0 .. MaxCrash
  /\ born \in Seq(Path) /\ Len(born) <= MaxVersion
  /\ released \subseteq 1 .. MaxVersion
  /\ contested \subseteq Path /\ halfway \subseteq Path /\ struck \subseteq Nat

(* loadOrGenerateKey: whatever crashes and reconfigurations happen, every  *)
(* file ever sealed opens with the key now on disk, and it is the key the  *)
(* running manager holds: no start replaces a key that sealed something.   *)
KeySafe ==
  /\ \A i \in Inode : \A s \in DOMAIN data[i].seal : data[i].seal[s] = keyFile
  /\ key # 0 => key = keyFile

Committing(i) == \E w \in Worker : work[w].pc = "commit" /\ work[w].id = i

Intact(i) ==
  /\ dir[i] # 0
  /\ data[dir[i]].v # 0 \/ rows[i].path \in halfway
  /\ data[dir[i]].seal = IF rows[i].enc THEN <<keyFile>> ELSE <<>>

(* List shows only what Restore can give back: a row whose path saw no     *)
(* overlapping activity has its whole blob behind it, in the form the row  *)
(* says (torn only if a restore of that path had left the file torn),      *)
(* unless the statement that ends a restore or a delete is still to run,   *)
(* or was lost to a crash or a database error.                             *)
ListedIntact ==
  \A i \in Id :
    Listed(i) /\ rows[i].path \notin contested =>
      Intact(i) \/ Committing(i) \/ i \in struck

(* Quarantine and Restore never destroy what they move: a version the user *)
(* wrote, neither replaced nor deleted on request and on a path that saw   *)
(* no overlapping activity, is at its path or in a blob that opens with    *)
(* the key on disk; and that blob is listed or about to be, unless a crash *)
(* or a database error struck between the move and the INSERT, or its row  *)
(* is gone and it could not be removed.                                    *)
Accounted ==
  \A v \in DOMAIN born :
    \/ v \in released
    \/ born[v] \in contested
    \/ dir[born[v]] # 0 /\ data[dir[born[v]]] = Plain(v)
    \/ \E i \in Id : /\ dir[i] # 0
                     /\ data[dir[i]] \in {Plain(v), Seal(Plain(v), keyFile)}
                     /\ Listed(i) \/ Committing(i) \/ i \in struck

(* Restore moves a quarantined file back: when it is about to delete the   *)
(* row, the original path holds a version the user once had there, and not *)
(* ciphertext, if nothing else touched the path meanwhile.                 *)
RestoredReadable ==
  \A w \in Worker :
    LET c == work[w]
    IN  c.op = "Restore" /\ c.pc = "commit" /\ c.path \notin contested =>
          /\ dir[c.path] # 0
          /\ \/ \E v \in DOMAIN born : born[v] = c.path /\ data[dir[c.path]] = Plain(v)
             \/ c.path \in halfway /\ data[dir[c.path]] = Torn

(* "Quarantine moves a file into the quarantine directory": when it is     *)
(* about to insert its row, the file is gone from its path, if nobody has  *)
(* written there meanwhile.                                                *)
Moved ==
  \A w \in Worker :
    LET c == work[w]
    IN  c.op = "Quarantine" /\ c.pc = "commit" /\ c.path \notin contested =>
          dir[c.path] = 0

(* What a path holds for its user, an id for its row, and a call between   *)
(* its steps: the state of Vault.                                          *)
At(n) == IF dir[n] = 0 THEN {} ELSE {data[dir[n]].v}

File(p) == IF dir[p] # 0 /\ data[dir[p]].seal # <<>> THEN {} ELSE At(p)

Kept(i) ==
  IF /\ dir[i] # 0
     /\ Listed(i) \/ i \in struck \/ Committing(i)
     /\ data[dir[i]].seal \in {<<>>, <<keyFile>>}
  THEN {data[dir[i]].v} ELSE {}

Carried(c) ==
  CASE c.pc \in {"create", "fill"} -> IF c.crypt THEN {c.buf.v} ELSE {data[c.in].v}
    [] c.pc = "unlink" /\ c.op = "Quarantine" -> At(c.id)
    [] OTHER -> {}

For(i) == {w \in Worker : work[w].id = i}

Droppable(c) == c.op = "Delete" \/ (c.op = "Restore" /\ c.pc \in {"unlink", "commit"})

V == INSTANCE Vault WITH
       origin <- born,
       file   <- [p \in Path |-> File(p)],
       kept   <- [i \in Id |-> Kept(i)],
       hand   <- [i \in Id |-> UNION {Carried(work[w]) : w \in For(i)}],
       asked  <- {i \in Id : \E w \in For(i) : Droppable(work[w])}

(* However many system calls a move takes and wherever it stops, the user  *)
(* sees it happen at once: a file leaves its path only into the custody of *)
(* an id (or stays beside its copy, when it cannot be unlinked), an id     *)
(* gives up exactly what it took, only to the path it came from or on      *)
(* request, and nothing in custody is ever replaced.  (Checked             *)
(* up to the first overlap of activities on a path, see MCQuarantine.)     *)
ImplementsVault == V!Spec
===========================================================================
