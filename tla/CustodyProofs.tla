--------------------------- MODULE CustodyProofs ---------------------------
(***************************************************************************)
(* Proofs that the vault loses nothing (Accounted), that what it lists is  *)
(* whole (ListedIntact) and that what it gives back is readable            *)
(* (RestoredReadable), for any number of callers, paths, quarantines and   *)
(* crashes; as in the run, encryption is not switched off and an intact    *)
(* key file can be read.                                                   *)
(***************************************************************************)
EXTENDS QuarantineProofs

(* Ids.  The blob of a new id is nobody else's until its row is there ... *)
TakeIds(w) ==
  LET c == work[w]
  IN  /\ ~Listed(c.id) /\ c.id \notin struck
      /\ \A x \in Worker : work[x].id = c.id => x = w
      /\ dir[c.id] = 0 <=> c.pc \in {"rename", "read", "create"}
      /\ c.pc = "fill" => c.out = dir[c.id]

(* ... and the blob of a restore or delete is listed as long as it exists, *)
(* unless one of them could not remove it.                                 *)
GiveIds(c) ==
  /\ dir[c.id] # 0 => c.id \in struck \/ (Listed(c.id) /\ c.pc # "commit")
  /\ c.op = "Restore" /\ Listed(c.id) => rows[c.id].path = c.path
  /\ c.op = "Delete" => c.path = NoPath /\ c.in = 0 /\ c.out = 0

CallIds(w) ==
  /\ work[w].pc = "idle" => work[w] = Idle
  /\ work[w].pc # "idle" => work[w].id \in 1 .. uuids /\ work[w].op # "none"
  /\ work[w].op = "Quarantine" => TakeIds(w)
  /\ work[w].op \in {"Restore", "Delete"} => GiveIds(work[w])

(* Restores of an id agree on where it goes, even when its row is gone. *)
GivesAgree ==
  \A w, x \in Worker :
    work[w].op = "Restore" /\ work[x].op = "Restore" /\ work[w].id = work[x].id =>
      work[w].path = work[x].path

IdsOK ==
  /\ GivesAgree
  /\ \A i \in Id : i > uuids => dir[i] = 0 /\ ~Listed(i)
  /\ struck \subseteq 1 .. uuids
  /\ \A w \in Worker : CallIds(w)

(* What a call and a row know of the configuration. *)
EncCall(c) ==
  /\ c.pc = "rename" => ~c.crypt
  /\ c.op = "Quarantine" => c.crypt = encrypt
  /\ c.op = "Restore" /\ Listed(c.id) => c.crypt = rows[c.id].enc

EncOK ==
  /\ phase = "up" => (encrypt <=> key # 0)
  /\ phase = "keygen" => encrypt
  /\ \A i \in Id : Listed(i) /\ rows[i].enc => encrypt
  /\ \A w \in Worker : EncCall(work[w])

(* The inode o belongs to the user's file p: it is the file, a listed blob *)
(* of it, or in the hands of a call on it.                                 *)
Of(o, p) ==
  \/ dir[p] = o
  \/ \E i \in Id : dir[i] = o /\ Listed(i) /\ rows[i].path = p
  \/ \E w \in Worker : /\ work[w].path = p
                       /\ o \in {work[w].in, work[w].out, dir[work[w].id]}

BornAt(v, p) == v # 0 => v \in DOMAIN born /\ born[v] = p

(* Whatever calls overlap, the versions of two files never mix. *)
Named    == \A m, n \in Name : dir[m] = dir[n] /\ dir[m] # 0 => m = n
Apart    == \A o \in Inode, p, q \in Path : Of(o, p) /\ Of(o, q) => p = q
Contents == \A o \in Inode, p \in Path : Of(o, p) => BornAt(data[o].v, p)
Buffers  == \A w \in Worker : work[w].path \in Path => BornAt(work[w].buf.v, work[w].path)

LineOK == Named /\ Apart /\ Contents /\ Buffers

(* A version the user has had at p, or a torn one left by a restore. *)
Was(v, p)    == BornAt(v, p) /\ (v = 0 => p \in halfway)
Good(d, p)   == \E v \in 0 .. MaxVersion : Was(v, p) /\ d = Plain(v)
Sealed(d, e) == IF e THEN Seal(d, keyFile) ELSE d
Whole(d, p, e) == \E v \in 0 .. MaxVersion : Was(v, p) /\ d = Sealed(Plain(v), e)

Load(c) == IF c.crypt THEN c.buf ELSE data[c.in]

Filling(p) ==
  \E w \in Worker : work[w].op = "Restore" /\ work[w].path = p /\ work[w].pc = "fill"

FileOK(p) == dir[p] # 0 /\ ~Filling(p) => Good(data[dir[p]], p)

BlobOK(i, p) ==
  Listed(i) /\ rows[i].path = p =>
    /\ dir[i] # 0 => Whole(data[dir[i]], p, rows[i].enc)
    /\ dir[i] = 0 => Committing(i) \/ i \in struck

(* A quarantine between its steps: what it has read is what is at the path *)
(* as long as there is something, and so is the blob it has written.       *)
TakeOK(c, p) ==
  /\ c.pc \in {"create", "fill"} =>
       /\ Good(Load(c), p)
       /\ dir[p] # 0 => data[dir[p]] = Load(c)
  /\ c.pc \in {"create", "fill"} /\ ~c.crypt =>
       \A x \in Worker : work[x].path = p /\ work[x].pc = "fill" => work[x].out # c.in
  /\ c.pc \in {"unlink", "commit"} => Whole(data[dir[c.id]], p, encrypt)
  /\ c.pc = "unlink" /\ dir[p] # 0 => data[dir[c.id]] = Sealed(data[dir[p]], encrypt)

(* A restore between its steps; its blob may be deleted under its hands. *)
GiveOK(c, p) ==
  /\ c.pc \in {"rename", "read"} /\ dir[c.id] # 0 => Whole(data[dir[c.id]], p, c.crypt)
  /\ c.pc \in {"create", "fill"} =>
       /\ Good(Load(c), p)
       /\ dir[c.id] # 0 => data[dir[c.id]] = Sealed(Load(c), c.crypt)
       /\ dir[c.id] = 0 => Load(c).v \in released \cup {0}
       /\ ~c.crypt => c.in # dir[p]
  /\ c.pc = "fill" => dir[p] # 0 /\ c.out = dir[p] /\ data[dir[p]] = Torn
  /\ c.pc \in {"unlink", "commit"} => dir[p] # 0
  /\ c.pc = "unlink" /\ dir[c.id] # 0 => data[dir[c.id]] = Sealed(data[dir[p]], c.crypt)

Alone(w) == \A x \in Worker : work[x].path = work[w].path => x = w

CallClean(w, p) ==
  /\ work[w].op = "Quarantine" => TakeOK(work[w], p)
  /\ work[w].op = "Restore" => Alone(w) /\ GiveOK(work[w], p)

CleanOK(p) ==
  /\ FileOK(p)
  /\ \A i \in Id : BlobOK(i, p)
  /\ \A w \in Worker : work[w].path = p => CallClean(w, p)

PathsOK == \A p \in Path \ contested : CleanOK(p)
---------------------------------------------------------------------------
(* Ids.                                                                    *)

(* The records of the calls: what a step does to the one it is about, and  *)
(* that it leaves the others alone.                                        *)
LEMMA CallChanged ==
  ASSUME Shape, NEW w \in Worker, NEW c, work' = [work EXCEPT ![w] = c]
  PROVE  work'[w] = c /\ \A x \in Worker \ {w} : work'[x] = work[x]
  BY DEF Shape, TypeOK

LEMMA GotoChanged ==
  ASSUME Shape, NEW w \in Worker, NEW pc, Goto(w, pc)
  PROVE  /\ \A x \in Worker \ {w} : work'[x] = work[x]
         /\ work'[w].pc = pc /\ work'[w].op = work[w].op /\ work'[w].id = work[w].id
         /\ work'[w].path = work[w].path /\ work'[w].crypt = work[w].crypt
         /\ work'[w].buf = work[w].buf /\ work'[w].in = work[w].in /\ work'[w].out = work[w].out
  BY DEF Shape, TypeOK, Work, Goto

LEMMA ReturnChanged ==
  ASSUME Shape, NEW w \in Worker, Return(w)
  PROVE  work'[w] = Idle /\ \A x \in Worker \ {w} : work'[x] = work[x]
  BY DEF Shape, TypeOK, Return

LEMMA IdleFields ==
  /\ Idle.pc = "idle" /\ Idle.op = "none" /\ Idle.id = 0 /\ Idle.path = NoPath
  /\ Idle.crypt = FALSE /\ Idle.buf = Torn /\ Idle.in = 0 /\ Idle.out = 0
  BY DEF Idle, Call

(* A call that a step is not about keeps what it knows of its id, if its   *)
(* own blob is left alone and a row only goes away.                        *)
LEMMA OtherIds ==
  ASSUME Shape, IdsOK, NEW x \in Worker, work'[x] = work[x], uuids' >= uuids, uuids' \in Nat,
         \A y \in Worker : work'[y].id \in {work[y].id, 0} \/ work'[y].id # work[x].id,
         work[x].op = "Quarantine" =>
           dir'[work[x].id] = dir[work[x].id] /\ ~Listed(work[x].id)' /\ work[x].id \notin struck',
         struck \subseteq struck',
         work[x].op \in {"Restore", "Delete"} =>
           /\ dir'[work[x].id] # 0 =>
                dir[work[x].id] # 0 /\ (Listed(work[x].id)' \/ work[x].id \in struck')
           /\ Listed(work[x].id)' => rows'[work[x].id] = rows[work[x].id]
  PROVE  CallIds(x)'
<1>1. CallIds(x) /\ work[x] \in Work
  BY DEF IdsOK, Shape, TypeOK
<1>2. work'[x].pc # "idle" => work'[x].id \in 1 .. uuids'
  BY <1>1 DEF CallIds, Shape, TypeOK
<1>3. ASSUME work[x].op = "Quarantine" PROVE TakeIds(x)'
  <2>1. TakeIds(x) /\ work[x].id # 0
    BY <1>1, <1>3, IdleFields DEF CallIds
  <2>. QED
    BY <1>3, <2>1 DEF TakeIds
<1>4. ASSUME work[x].op \in {"Restore", "Delete"} PROVE GiveIds(work[x])'
  <2>1. GiveIds(work[x])
    BY <1>1, <1>4 DEF CallIds
  <2>2. Listed(work[x].id)' => Listed(work[x].id)
    BY <1>4 DEF Listed
  <2>. QED
    BY <1>4, <2>1, <2>2 DEF GiveIds
<1>. QED
  BY <1>1, <1>2, <1>3, <1>4 DEF CallIds

LEMMA IdsInit == Init => IdsOK
  BY IdleFields DEF Init, IdsOK, GivesAgree, CallIds, Listed, Name

LEMMA IdsNext == ASSUME Shape, IdsOK, [Next]_vars PROVE IdsOK'
<1> USE DEF daemon, files, history
<1>. /\ uuids \in 0 .. MaxUuid /\ MaxUuid \in Nat /\ Id = 1 .. MaxUuid
     /\ \A x \in Worker : work[x].id \in Nat /\ CallIds(x)
  BY BoundAssumption DEF Shape, TypeOK, Work, IdsOK, Id
<1>n. \A p \in Path : p \notin Nat
  BY NameAssumption
<1>d. dir \in [Name -> 0 .. MaxInode] /\ rows \in [Id -> Row]
  BY DEF Shape, TypeOK
<1>a. ASSUME \A x \in Worker : work'[x].op = "Restore" => /\ work[x].op = "Restore"
                                                         /\ work'[x].path = work[x].path
                                                         /\ work'[x].id = work[x].id
      PROVE  GivesAgree'
  BY <1>a DEF GivesAgree, IdsOK
<1>1. ASSUME UNCHANGED <<dir, rows, work, uuids, struck>> PROVE IdsOK'
  BY <1>1, <1>a DEF IdsOK, CallIds, TakeIds, GiveIds, Listed
<1>2. CASE Boot \/ GenerateKey \/ SaveKey \/ UNCHANGED vars
  BY <1>1, <1>2 DEF Boot, GenerateKey, SaveKey, vars
<1>3. CASE Crash
  <2>1. \A w \in Worker : work'[w] = Idle
    BY <1>3 DEF Crash
  <2>2. \A w \in Worker : CallIds(w)'
    BY <2>1, IdleFields DEF CallIds
  <2>3. struck' \subseteq 1 .. uuids
    BY <1>3 DEF Crash, IdsOK, CallIds
  <2>. QED
    BY <1>3, <1>a, <2>1, <2>2, <2>3, IdleFields DEF Crash, IdsOK, Listed
<1>4. ASSUME NEW p \in Path, NEW o \in Inode, UserWrite(p, o) PROVE IdsOK'
  <2>1. \A i \in Id : dir'[i] = dir[i]
    BY <1>4, <1>n, <1>d DEF UserWrite, Name
  <2>2. UNCHANGED <<rows, work, uuids, struck>>
    BY <1>4 DEF UserWrite
  <2>3. \A x \in Worker : work[x].op # "none" => work[x].id \in Id
    BY IdleFields DEF CallIds
  <2>4. ASSUME NEW x \in Worker PROVE CallIds(x)'
    BY <2>1, <2>2, <2>3 DEF CallIds, TakeIds, GiveIds, Listed
  <2>. QED
    BY <1>a, <2>1, <2>2, <2>4 DEF IdsOK, Listed
<1>5. ASSUME NEW w \in Worker, NEW p \in Path, BeginQuarantine(w, p) PROVE IdsOK'
  <2> DEFINE b == encrypt /\ key # 0
             pc == IF b THEN "read" ELSE "rename"
             c == Call("Quarantine", uuids + 1, p, b, pc)
  <2>1. work' = [work EXCEPT ![w] = c] /\ UNCHANGED <<dir, rows, struck>> /\ uuids' = uuids + 1
    BY <1>5 DEF BeginQuarantine, NewId
  <2>2. /\ c.op = "Quarantine" /\ c.id = uuids + 1 /\ c.pc \in {"read", "rename"}
    BY DEF Call
  <2>. HIDE DEF c
  <2>3. work'[w] = c /\ \A x \in Worker \ {w} : work'[x] = work[x]
    BY <2>1, CallChanged
  <2>4. uuids + 1 \in Id /\ work[w] = Idle
    BY <1>5 DEF BeginQuarantine
  <2>5. \A x \in Worker : work[x].id \in 0 .. uuids
    BY IdleFields DEF CallIds
  <2>6. ASSUME NEW x \in Worker \ {w} PROVE CallIds(x)'
    <3>1. \A y \in Worker : work'[y].id \in {work[y].id, 0} \/ work'[y].id # work[x].id
      BY <2>2, <2>3, <2>5
    <3>. QED
      BY <2>1, <2>3, <3>1, OtherIds DEF CallIds, TakeIds, GiveIds, Listed
  <2>7. CallIds(w)'
    <3>1. dir[uuids + 1] = 0 /\ ~Listed(uuids + 1) /\ uuids + 1 \notin struck
      BY <2>4 DEF IdsOK
    <3>. QED
      BY <2>1, <2>2, <2>3, <2>5, <3>1 DEF CallIds, TakeIds, Listed
  <2>. QED
    BY <1>a, <2>1, <2>2, <2>3, <2>6, <2>7 DEF IdsOK, Listed
<1>6. ASSUME NEW w \in Worker, \A x \in Worker \ {w} : work'[x] = work[x],
             work'[w].op \in {"Restore", "Delete"}, work'[w].id \in Id, work'[w].pc \in {"read", "rename", "unlink"},
             work'[w].op = "Restore" => work'[w].path = rows[work'[w].id].path,
             work'[w].op = "Delete" => work'[w].path = NoPath /\ work'[w].in = 0 /\ work'[w].out = 0,
             rows[work'[w].id] # NoRow,
             UNCHANGED <<dir, rows, struck, uuids>>
      PROVE  IdsOK'
  <2>1. work'[w].id \in 1 .. uuids
    BY <1>6 DEF IdsOK, Listed
  <2>2. ASSUME NEW x \in Worker \ {w} PROVE CallIds(x)'
    <3>1. CASE work[x].op = "Quarantine"
      BY <1>6, <3>1 DEF CallIds, TakeIds, Listed
    <3>2. CASE work[x].op # "Quarantine"
      BY <1>6, <3>2 DEF CallIds, GiveIds, Listed
    <3>. QED
      BY <3>1, <3>2
  <2>3. CallIds(w)'
    BY <1>6, <2>1 DEF CallIds, GiveIds, Listed
  <2>. QED
    <3>1. GivesAgree'
      <4>1. \A x \in Worker \ {w} :
              work[x].op = "Restore" /\ work[x].id = work'[w].id => work[x].path = rows[work'[w].id].path
        BY <1>6 DEF CallIds, GiveIds, Listed
      <4>. QED
        BY <1>6, <4>1 DEF GivesAgree, IdsOK
    <3>. QED
      BY <1>6, <2>2, <2>3, <3>1 DEF IdsOK, Listed
<1>7. ASSUME NEW w \in Worker, NEW i \in Id, BeginRestore(w, i) PROVE IdsOK'
  <2> DEFINE b == rows[i].enc /\ key # 0
             c == Call("Restore", i, rows[i].path, b, IF b THEN "read" ELSE "rename")
  <2>1. work' = [work EXCEPT ![w] = c] /\ UNCHANGED <<dir, rows, struck, uuids>> /\ Listed(i)
    BY <1>7 DEF BeginRestore
  <2>2. c.op = "Restore" /\ c.id = i /\ c.pc \in {"read", "rename"} /\ c.path = rows[i].path
    BY DEF Call
  <2>. HIDE DEF c
  <2>3. work'[w] = c /\ \A x \in Worker \ {w} : work'[x] = work[x]
    BY <2>1, CallChanged
  <2>. QED
    BY <1>6, <2>1, <2>2, <2>3 DEF Listed
<1>8. ASSUME NEW w \in Worker, NEW i \in Id, BeginDelete(w, i) PROVE IdsOK'
  <2> DEFINE c == Call("Delete", i, NoPath, FALSE, "unlink")
  <2>1. work' = [work EXCEPT ![w] = c] /\ UNCHANGED <<dir, rows, struck, uuids>> /\ Listed(i)
    BY <1>8 DEF BeginDelete
  <2>2. c.op = "Delete" /\ c.id = i /\ c.pc = "unlink" /\ c.path = NoPath /\ c.in = 0 /\ c.out = 0
    BY DEF Call
  <2>. HIDE DEF c
  <2>3. work'[w] = c /\ \A x \in Worker \ {w} : work'[x] = work[x]
    BY <2>1, CallChanged
  <2>. QED
    BY <1>6, <2>1, <2>2, <2>3 DEF Listed
<1>9. ASSUME NEW w \in Worker, work[w].pc # "idle", CallIds(w)',
             \A x \in Worker \ {w} : work'[x] = work[x], work'[w].id \in {work[w].id, 0},
             \A i \in Id \ {work[w].id} : dir'[i] = dir[i],
             work[w].op # "Quarantine" => dir'[work[w].id] \in {dir[work[w].id], 0},
             UNCHANGED <<rows, uuids>>, struck \subseteq struck', struck' \subseteq struck \cup {work[w].id},
             work[w].op = "Quarantine" => struck' = struck,
             work'[w].op = "Restore" => work[w].op = "Restore" /\ work'[w].path = work[w].path
                                        /\ work'[w].id = work[w].id
      PROVE  IdsOK'
  <2>1. work[w].id \in 1 .. uuids /\ work[w].op # "none"
    BY <1>9 DEF CallIds
  <2>2. ASSUME NEW x \in Worker \ {w} PROVE CallIds(x)'
    <3>1. work[x].op # "none" => work[x].id \in Id
      BY IdleFields DEF CallIds
    <3>2. work[x].op = "Quarantine" => work[w].id # work[x].id
      BY DEF CallIds, TakeIds
    <3>3. work[w].op = "Quarantine" => work[w].id # work[x].id
      BY DEF CallIds, TakeIds
    <3>4. \A y \in Worker : work'[y].id \in {work[y].id, 0} \/ work'[y].id # work[x].id
      BY <1>9
    <3>5. work[x].op = "Quarantine" =>
            dir'[work[x].id] = dir[work[x].id] /\ ~Listed(work[x].id)' /\ work[x].id \notin struck'
      BY <1>9, <3>1, <3>2 DEF CallIds, TakeIds, Listed
    <3>6. work[x].op \in {"Restore", "Delete"} =>
            /\ dir'[work[x].id] # 0 =>
                 dir[work[x].id] # 0 /\ (Listed(work[x].id)' \/ work[x].id \in struck')
            /\ Listed(work[x].id)' => rows'[work[x].id] = rows[work[x].id]
      BY <1>9, <3>1, <3>3 DEF CallIds, GiveIds, Listed
    <3>. QED
      BY <1>9, <3>4, <3>5, <3>6, OtherIds
  <2>3. \A i \in Id : i > uuids => dir'[i] = 0 /\ ~Listed(i)'
    BY <1>9, <2>1 DEF IdsOK, Listed
  <2>. QED
    <3>1. GivesAgree'
      BY <1>9, <1>a
    <3>2. struck' \subseteq 1 .. uuids
      BY <1>9, <2>1 DEF IdsOK
    <3>. QED
      BY <1>9, <2>2, <2>3, <3>1, <3>2 DEF IdsOK
<1>10. ASSUME NEW w \in Worker, work[w].pc # "idle", Return(w), UNCHANGED <<dir, rows, struck, uuids>>
       PROVE  IdsOK'
  BY <1>9, <1>10, ReturnChanged, IdleFields DEF CallIds
<1>11. ASSUME NEW w \in Worker, Rename(w) PROVE IdsOK'
  <2>1. /\ work[w].pc = "rename" /\ work[w].op \in {"Quarantine", "Restore"}
        /\ work[w].path \in Path /\ work[w].id \in Id
    BY <1>11 DEF Rename, Shape, CallOK
  <2>2. CASE dir[Src(work[w])] # 0 /\ work[w].path \in Local
    <3>1. /\ dir' = [dir EXCEPT ![Dst(work[w])] = dir[Src(work[w])], ![Src(work[w])] = 0]
          /\ Goto(w, "commit") /\ UNCHANGED <<rows, struck, uuids>>
      BY <1>11, <2>2 DEF Rename
    <3>2. CASE work[w].op = "Quarantine"
      <4>1. dir'[work[w].id] # 0 /\ \A i \in Id \ {work[w].id} : dir'[i] = dir[i]
        BY <1>n, <1>d, <2>1, <2>2, <3>1, <3>2 DEF Src, Dst, Name
      <4>2. CallIds(w)'
        BY <2>1, <3>1, <3>2, <4>1, GotoChanged DEF CallIds, TakeIds, Listed
      <4>. QED
        BY <1>9, <2>1, <3>1, <3>2, <4>1, <4>2, GotoChanged
    <3>3. CASE work[w].op = "Restore"
      <4>1. dir'[work[w].id] = 0 /\ \A i \in Id \ {work[w].id} : dir'[i] = dir[i]
        <5>1. PICK d, i, p, v : d = work[w].id /\ i = dir /\ p = work[w].path /\ v = dir[work[w].id]
          OBVIOUS
        <5>2. dir' = [i EXCEPT ![p] = v, ![d] = 0]
          BY <3>1, <3>3, <5>1 DEF Src, Dst
        <5>3. d \in Id /\ p \notin Id /\ d \in DOMAIN i /\ \A k \in Id : k \in DOMAIN i
          BY <1>n, <1>d, <2>1, <5>1 DEF Name
        <5>. QED
          BY ONLY <5>1, <5>2, <5>3
      <4>2. CallIds(w)'
        BY <2>1, <3>1, <3>3, <4>1, GotoChanged DEF CallIds, GiveIds, Listed
      <4>. QED
        BY <1>9, <2>1, <3>1, <4>1, <4>2, GotoChanged
    <3>. QED
      BY <2>1, <3>2, <3>3
  <2>3. CASE ~(dir[Src(work[w])] # 0 /\ work[w].path \in Local)
    <3>1. Goto(w, "read") /\ UNCHANGED <<dir, rows, struck, uuids>>
      BY <1>11, <2>3 DEF Rename
    <3>2. CallIds(w)'
      BY <2>1, <3>1, GotoChanged DEF CallIds, TakeIds, GiveIds, Listed
    <3>. QED
      BY <1>9, <2>1, <3>1, <3>2, GotoChanged
  <2>. QED
    BY <2>2, <2>3
<1>12. ASSUME NEW w \in Worker, ReadSource(w) PROVE IdsOK'
  <2> DEFINE i == IF work[w].crypt THEN 0 ELSE dir[Src(work[w])]
             b == Taken(work[w], data[dir[Src(work[w])]])
             c == [work[w] EXCEPT !.pc = "create", !.in = i, !.buf = b]
  <2>1. work' = [work EXCEPT ![w] = c] /\ UNCHANGED <<dir, rows, struck, uuids>> /\ work[w].pc = "read"
    BY <1>12 DEF ReadSource
  <2>2. c.pc = "create" /\ c.op = work[w].op /\ c.id = work[w].id /\ c.path = work[w].path
    BY DEF Shape, TypeOK, Work
  <2>3. work[w].op \in {"Quarantine", "Restore"}
    BY <2>1 DEF Shape, CallOK
  <2>. HIDE DEF c
  <2>4. work'[w] = c /\ \A x \in Worker \ {w} : work'[x] = work[x]
    BY <2>1, CallChanged
  <2>5. CallIds(w)'
    BY <2>1, <2>2, <2>3, <2>4 DEF CallIds, TakeIds, GiveIds, Listed
  <2>. QED
    BY <1>9, <2>1, <2>2, <2>4, <2>5
<1>13. ASSUME NEW w \in Worker, NEW o \in Inode, CreateTarget(w, o) PROVE IdsOK'
  <2> DEFINE c == [work[w] EXCEPT !.pc = "fill", !.out = o]
  <2>1. /\ work' = [work EXCEPT ![w] = c] /\ UNCHANGED <<rows, struck, uuids>>
        /\ work[w].pc = "create" /\ dir' = [dir EXCEPT ![Dst(work[w])] = o]
    BY <1>13 DEF CreateTarget
  <2>2. c.pc = "fill" /\ c.out = o /\ c.op = work[w].op /\ c.id = work[w].id /\ c.path = work[w].path
    BY DEF Shape, TypeOK, Work
  <2>3. work[w].op \in {"Quarantine", "Restore"} /\ work[w].path \in Path /\ work[w].id \in Id
    BY <2>1 DEF Shape, CallOK
  <2>. HIDE DEF c
  <2>4. work'[w] = c /\ \A x \in Worker \ {w} : work'[x] = work[x]
    BY <2>1, CallChanged
  <2>5. /\ \A i \in Id \ {work[w].id} : dir'[i] = dir[i]
        /\ work[w].op = "Quarantine" => dir'[work[w].id] = o
        /\ work[w].op = "Restore" => dir'[work[w].id] = dir[work[w].id]
    BY <1>n, <1>d, <2>1, <2>3 DEF Dst, Name
  <2>6. CallIds(w)'
    BY <2>1, <2>2, <2>3, <2>4, <2>5 DEF CallIds, TakeIds, GiveIds, Listed, Inode
  <2>. QED
    BY <1>9, <2>1, <2>2, <2>3, <2>4, <2>5, <2>6
<1>14. ASSUME NEW w \in Worker, FillTarget(w) PROVE IdsOK'
  <2> DEFINE c == Call(work[w].op, work[w].id, work[w].path, work[w].crypt, "unlink")
  <2>1. work' = [work EXCEPT ![w] = c] /\ UNCHANGED <<dir, rows, struck, uuids>> /\ work[w].pc = "fill"
    BY <1>14 DEF FillTarget, Done
  <2>2. c.pc = "unlink" /\ c.op = work[w].op /\ c.id = work[w].id /\ c.path = work[w].path
    BY DEF Call
  <2>3. work[w].op \in {"Quarantine", "Restore"}
    BY <2>1 DEF Shape, CallOK
  <2>. HIDE DEF c
  <2>4. work'[w] = c /\ \A x \in Worker \ {w} : work'[x] = work[x]
    BY <2>1, CallChanged
  <2>5. CallIds(w)'
    BY <2>1, <2>2, <2>3, <2>4 DEF CallIds, TakeIds, GiveIds, Listed
  <2>. QED
    BY <1>9, <2>1, <2>2, <2>4, <2>5
<1>15. ASSUME NEW w \in Worker, ReadFails(w) \/ FillFails(w) PROVE IdsOK'
  BY <1>10, <1>15 DEF ReadFails, FillFails
<1>16. ASSUME NEW w \in Worker, Unlink(w) PROVE IdsOK'
  <2>1. /\ work[w].pc = "unlink" /\ work[w].op \in {"Quarantine", "Restore", "Delete"}
        /\ work[w].op = "Quarantine" => work[w].path \in Path
        /\ work[w].id \in Id /\ UNCHANGED <<rows, struck, uuids>>
        /\ dir' = [dir EXCEPT ![Src(work[w])] = 0]
        /\ Goto(w, "commit") \/ Return(w)
    BY <1>16 DEF Unlink, Shape, TypeOK, Work, CallOK, CallIds
  <2>2. /\ \A i \in Id \ {work[w].id} : dir'[i] = dir[i]
        /\ work[w].op = "Quarantine" => dir'[work[w].id] = dir[work[w].id]
        /\ work[w].op # "Quarantine" => dir'[work[w].id] = 0
    BY <1>n, <1>d, <2>1 DEF Src, Name
  <2>3. CASE Goto(w, "commit")
    <3>1. CallIds(w)'
      BY <2>1, <2>2, <2>3, GotoChanged DEF CallIds, TakeIds, GiveIds, Listed
    <3>. QED
      BY <1>9, <2>1, <2>2, <2>3, <3>1, GotoChanged
  <2>4. CASE Return(w)
    <3>1. CallIds(w)'
      BY <2>4, ReturnChanged, IdleFields DEF CallIds
    <3>. QED
      BY <1>9, <2>1, <2>2, <2>4, <3>1, ReturnChanged, IdleFields
  <2>. QED
    BY <2>1, <2>3, <2>4
<1>20. ASSUME NEW w \in Worker, UnlinkFails(w) PROVE IdsOK'
  <2>1. /\ work[w].pc = "unlink" /\ work[w].op \in {"Quarantine", "Restore", "Delete"}
        /\ work[w].id \in Id /\ UNCHANGED <<dir, rows, uuids>>
        /\ Goto(w, "commit") \/ Return(w)
        /\ struck' = struck \/ (work[w].op # "Quarantine" /\ struck' = struck \cup {work[w].id})
    BY <1>20 DEF UnlinkFails, Shape, TypeOK, Work, CallOK, CallIds
  <2>2. CASE Goto(w, "commit")
    <3>1. work[w].op # "Quarantine" => work[w].id \in struck'
      BY <1>20, <2>1, <2>2, GotoChanged, ReturnChanged, IdleFields DEF UnlinkFails
    <3>2. CallIds(w)'
      BY <2>1, <2>2, <3>1, GotoChanged DEF CallIds, TakeIds, GiveIds, Listed
    <3>. QED
      BY <1>9, <2>1, <2>2, <3>2, GotoChanged
  <2>3. CASE Return(w)
    <3>1. CallIds(w)'
      BY <2>3, ReturnChanged, IdleFields DEF CallIds
    <3>. QED
      BY <1>9, <2>1, <2>3, <3>1, ReturnChanged, IdleFields
  <2>. QED
    BY <2>1, <2>2, <2>3
<1>17. ASSUME NEW w \in Worker, Commit(w) PROVE IdsOK'
  <2>1. /\ work[w].pc = "commit" /\ work[w].op \in {"Quarantine", "Restore", "Delete"}
        /\ work[w].id \in 1 .. uuids /\ UNCHANGED <<dir, struck, uuids>> /\ Return(w)
        /\ rows' = [rows EXCEPT ![work[w].id] =
                      IF work[w].op = "Quarantine" THEN RowOf(work[w]) ELSE NoRow]
    BY <1>17 DEF Commit, Shape, TypeOK, Work, CallOK, CallIds
  <2>2. work'[w] = Idle /\ \A x \in Worker \ {w} : work'[x] = work[x]
    BY <2>1, ReturnChanged
  <2>3. /\ \A i \in Id \ {work[w].id} : rows'[i] = rows[i]
        /\ work[w].op # "Quarantine" => rows'[work[w].id] = NoRow
    BY <1>d, <2>1
  <2>4. ASSUME NEW x \in Worker \ {w} PROVE CallIds(x)'
    <3>1. work[x].op # "none" => work[x].id \in Id
      BY IdleFields DEF CallIds
    <3>2. work[x].op = "Quarantine" => work[w].id # work[x].id
      BY DEF CallIds, TakeIds
    <3>3. work[w].op = "Quarantine" => work[w].id # work[x].id
      BY <2>1 DEF CallIds, TakeIds
    <3>4. work[w].op # "Quarantine" => dir[work[w].id] = 0 \/ work[w].id \in struck
      BY <2>1 DEF CallIds, GiveIds
    <3>5. \A y \in Worker : work'[y].id \in {work[y].id, 0} \/ work'[y].id # work[x].id
      BY <2>2, IdleFields
    <3>6. work[x].op = "Quarantine" =>
            dir'[work[x].id] = dir[work[x].id] /\ ~Listed(work[x].id)' /\ work[x].id \notin struck'
      BY <2>1, <2>2, <2>3, <3>1, <3>2 DEF CallIds, TakeIds, Listed
    <3>7. work[x].op \in {"Restore", "Delete"} =>
            /\ dir'[work[x].id] # 0 =>
                 dir[work[x].id] # 0 /\ (Listed(work[x].id)' \/ work[x].id \in struck')
            /\ Listed(work[x].id)' => rows'[work[x].id] = rows[work[x].id]
      BY <2>1, <2>2, <2>3, <3>1, <3>3, <3>4 DEF CallIds, GiveIds, Listed
    <3>. QED
      BY <2>1, <2>2, <3>5, <3>6, <3>7, OtherIds
  <2>5. CallIds(w)'
    BY <2>2, IdleFields DEF CallIds
  <2>6. \A i \in Id : i > uuids => dir'[i] = 0 /\ ~Listed(i)'
    BY <2>1, <2>3 DEF IdsOK, Listed
  <2>. QED
    BY <1>a, <2>1, <2>2, <2>4, <2>5, <2>6, IdleFields DEF IdsOK
<1>18. ASSUME NEW w \in Worker, CommitFails(w) PROVE IdsOK'
  <2>1. /\ work[w].pc = "commit" /\ work[w].id \in 1 .. uuids /\ UNCHANGED <<dir, rows, uuids>>
        /\ Return(w) /\ struck' = struck \cup {work[w].id}
    BY <1>18 DEF CommitFails, CallIds
  <2>2. work'[w] = Idle /\ \A x \in Worker \ {w} : work'[x] = work[x]
    BY <2>1, ReturnChanged
  <2>3. ASSUME NEW x \in Worker \ {w} PROVE CallIds(x)'
    <3>1. work[x].op = "Quarantine" => work[w].id # work[x].id
      BY DEF CallIds, TakeIds
    <3>2. \A y \in Worker : work'[y].id \in {work[y].id, 0} \/ work'[y].id # work[x].id
      BY <2>2, IdleFields
    <3>. QED
      BY <2>1, <2>2, <3>1, <3>2, OtherIds DEF CallIds, TakeIds, GiveIds, Listed
  <2>4. CallIds(w)'
    BY <2>2, IdleFields DEF CallIds
  <2>. QED
    BY <1>a, <2>1, <2>2, <2>3, <2>4, IdleFields DEF IdsOK, Listed
<1>. QED
  BY <1>2, <1>3, <1>4, <1>5, <1>7, <1>8, <1>11, <1>12, <1>13, <1>14, <1>15, <1>16, <1>17,
     <1>18, <1>20 DEF Next, Step

---------------------------------------------------------------------------
(* What the actions do, without the EXCEPTs.                               *)

LEMMA Basics ==
  ASSUME Shape, IdsOK
  PROVE  /\ dir \in [Name -> 0 .. MaxInode] /\ data \in [Inode -> Data] /\ rows \in [Id -> Row]
         /\ \A p \in Path : p \notin Id /\ p \in Name /\ p # NoPath
         /\ \A i \in Id : i \in Name
         /\ Id = 1 .. MaxUuid /\ uuids \in 0 .. MaxUuid /\ MaxUuid \in Nat
         /\ \A w \in Worker :
              /\ work[w] \in Work /\ CallOK(work[w]) /\ CallIds(w)
              /\ work[w].op # "none" => work[w].id \in Id /\ work[w].pc # "idle"
              /\ work[w].op \in {"none", "Quarantine", "Restore", "Delete"}
              /\ work[w].op \in {"Quarantine", "Restore"} <=> work[w].path \in Path
         /\ 0 \notin Inode /\ Inode \subseteq Nat
<1>1. \A w \in Worker :
        /\ work[w].op # "none" => work[w].id \in Id /\ work[w].pc # "idle"
        /\ work[w].op \in {"Quarantine", "Restore"} <=> work[w].path \in Path
  <2> SUFFICES ASSUME NEW w \in Worker
      PROVE  /\ work[w].op # "none" => work[w].id \in Id /\ work[w].pc # "idle"
             /\ work[w].op \in {"Quarantine", "Restore"} <=> work[w].path \in Path
    OBVIOUS
  <2>1. work[w] \in Work /\ CallOK(work[w]) /\ CallIds(w)
    BY DEF Shape, TypeOK, IdsOK
  <2>2. work[w].pc = "idle" => work[w].op = "none" /\ work[w].path = NoPath
    BY <2>1, IdleFields DEF CallIds
  <2>3. work[w].op = "Delete" => work[w].path = NoPath
    BY <2>1 DEF CallIds, GiveIds
  <2>4. work[w].op \in {"none", "Quarantine", "Restore", "Delete"}
    BY <2>1 DEF Work
  <2>5. work[w].op = "none" => work[w].pc = "idle"
    BY <2>1 DEF CallIds
  <2>. QED
    BY <2>1, <2>2, <2>3, <2>4, <2>5, PathAssumption DEF CallOK
<1>2. \A p \in Path : p \notin Id /\ p \in Name /\ p # NoPath
  BY NameAssumption, PathAssumption, BoundAssumption DEF Name, Id
<1>3. \A w \in Worker : work[w] \in Work /\ work[w].op \in {"none", "Quarantine", "Restore", "Delete"}
  BY DEF Shape, TypeOK, Work
<1>. QED
  BY <1>1, <1>2, <1>3, BoundAssumption DEF Shape, TypeOK, IdsOK, Id, Inode, Name

(* What still has a name or is open keeps what was written to it. *)
LEMMA StoreKeeps ==
  ASSUME NEW d, Store(d)
  PROVE  /\ \A n \in Name : dir'[n] \in Inode => data'[dir'[n]] = d[dir'[n]]
         /\ \A w \in Worker : /\ work'[w].in \in Inode => data'[work'[w].in] = d[work'[w].in]
                              /\ work'[w].out \in Inode => data'[work'[w].out] = d[work'[w].out]
  BY DEF Store, Free

LEMMA RenameDoes ==
  ASSUME Shape, IdsOK, NEW w \in Worker, Rename(w),
         dir[Src(work[w])] # 0, work[w].path \in Local
  PROVE  /\ work[w].path \in Path /\ work[w].id \in Id /\ work[w].op \in {"Quarantine", "Restore"}
         /\ work[w].op = "Quarantine" =>
              /\ dir'[work[w].id] = dir[work[w].path] /\ dir'[work[w].path] = 0
              /\ dir[work[w].path] # 0 /\ dir[work[w].id] = 0
              /\ released' = released
         /\ work[w].op = "Restore" =>
              /\ dir'[work[w].path] = dir[work[w].id] /\ dir'[work[w].id] = 0
              /\ dir[work[w].id] # 0
              /\ released' = released \cup (Held(work[w].path) \ Held(work[w].id))
         /\ \A n \in Name \ {work[w].path, work[w].id} : dir'[n] = dir[n]
         /\ Goto(w, "commit") /\ Store(data) /\ work[w].pc = "rename"
         /\ UNCHANGED <<rows, daemon, uuids, born, contested, halfway, struck>>
<1>1. /\ work[w].pc = "rename" /\ work[w].op \in {"Quarantine", "Restore"}
      /\ work[w].path \in Path /\ work[w].id \in Id
  BY DEF Rename, Shape, CallOK
<1>2. /\ dir' = [dir EXCEPT ![Dst(work[w])] = dir[Src(work[w])], ![Src(work[w])] = 0]
      /\ released' = released \cup (Held(Dst(work[w])) \ Held(Src(work[w])))
      /\ Goto(w, "commit") /\ Store(data)
      /\ UNCHANGED <<rows, daemon, uuids, born, contested, halfway, struck>>
  BY DEF Rename
<1>3. dir \in [Name -> 0 .. MaxInode] /\ work[w].path # work[w].id
      /\ work[w].path \in Name /\ work[w].id \in Name
  BY <1>1, Basics
<1>4. CASE work[w].op = "Quarantine"
  <2>1. Src(work[w]) = work[w].path /\ Dst(work[w]) = work[w].id
    BY <1>4 DEF Src, Dst
  <2>2. dir[work[w].id] = 0
    BY <1>1, <1>4, Basics DEF CallIds, TakeIds
  <2>3. Held(work[w].id) = {}
    BY <2>2 DEF Held
  <2>4. released' = released
    BY <1>2, <2>1, <2>3
  <2>. QED
    BY <1>1, <1>2, <1>3, <1>4, <2>1, <2>2, <2>4
<1>5. CASE work[w].op = "Restore"
  <2>1. Src(work[w]) = work[w].id /\ Dst(work[w]) = work[w].path
    BY <1>5 DEF Src, Dst
  <2>. QED
    BY <1>1, <1>2, <1>3, <1>5, <2>1
<1>. QED
  BY <1>1, <1>4, <1>5

LEMMA ReadDoes ==
  ASSUME Shape, IdsOK, NEW w \in Worker, ReadSource(w)
  PROVE  /\ work[w].pc = "read" /\ work[w].op \in {"Quarantine", "Restore"}
         /\ work[w].path \in Path /\ work[w].id \in Id
         /\ work'[w].pc = "create" /\ work'[w].op = work[w].op /\ work'[w].id = work[w].id
         /\ work'[w].path = work[w].path /\ work'[w].crypt = work[w].crypt
         /\ work'[w].out = work[w].out
         /\ dir[Src(work[w])] \in Inode
         /\ work[w].crypt => work'[w].in = 0
         /\ ~work[w].crypt => work'[w].in = dir[Src(work[w])] /\ work'[w].buf = Torn
         /\ work[w].crypt /\ work[w].op = "Quarantine" => work'[w].buf = data[dir[work[w].path]]
         /\ work[w].crypt /\ work[w].op = "Restore" =>
              /\ work'[w].buf = Open(data[dir[work[w].id]]) /\ Opens(data[dir[work[w].id]], key)
         /\ \A x \in Worker \ {w} : work'[x] = work[x]
         /\ UNCHANGED <<files, rows, daemon, uuids, history>>
<1> DEFINE i == IF work[w].crypt THEN 0 ELSE dir[Src(work[w])]
           b == Taken(work[w], data[dir[Src(work[w])]])
           c == [work[w] EXCEPT !.pc = "create", !.in = i, !.buf = b]
<1>1. /\ work' = [work EXCEPT ![w] = c] /\ work[w].pc = "read" /\ Readable(work[w])
      /\ UNCHANGED <<files, rows, daemon, uuids, history>>
  BY DEF ReadSource
<1>2. /\ c.pc = "create" /\ c.op = work[w].op /\ c.id = work[w].id /\ c.path = work[w].path
      /\ c.crypt = work[w].crypt /\ c.out = work[w].out /\ c.in = i /\ c.buf = b
  BY DEF Shape, TypeOK, Work
<1>3. /\ work[w].op \in {"Quarantine", "Restore"} /\ work[w].path \in Path /\ work[w].id \in Id
  BY <1>1 DEF Shape, CallOK
<1>. HIDE DEF c
<1>4. work'[w] = c /\ \A x \in Worker \ {w} : work'[x] = work[x]
  BY <1>1, CallChanged
<1>5. /\ dir[Src(work[w])] \in Inode
      /\ work[w].op = "Quarantine" => Src(work[w]) = work[w].path
      /\ work[w].op = "Restore" => Src(work[w]) = work[w].id
  BY <1>1, <1>3, Basics DEF Readable, Src, Inode
<1>6. /\ work[w].crypt => i = 0
      /\ ~work[w].crypt => i = dir[Src(work[w])] /\ b = Torn
      /\ work[w].crypt /\ work[w].op = "Quarantine" => b = data[dir[work[w].path]]
      /\ work[w].crypt /\ work[w].op = "Restore" =>
              /\ b = Open(data[dir[work[w].id]]) /\ Opens(data[dir[work[w].id]], key)
  BY <1>1, <1>5 DEF Taken, Readable
<1>. HIDE DEF i, b
<1>. QED
  BY <1>1, <1>2, <1>3, <1>4, <1>5, <1>6

LEMMA CreateDoes ==
  ASSUME Shape, IdsOK, NEW w \in Worker, NEW o \in Inode, CreateTarget(w, o)
  PROVE  /\ work[w].pc = "create" /\ work[w].op \in {"Quarantine", "Restore"}
         /\ work[w].path \in Path /\ work[w].id \in Id
         /\ work'[w].pc = "fill" /\ work'[w].op = work[w].op /\ work'[w].id = work[w].id
         /\ work'[w].path = work[w].path /\ work'[w].crypt = work[w].crypt
         /\ work'[w].buf = work[w].buf /\ work'[w].in = work[w].in /\ work'[w].out = o
         /\ work[w].op = "Quarantine" =>
              /\ dir'[work[w].id] = o /\ Free(o) /\ dir[work[w].id] = 0 /\ released' = released
              /\ \A n \in Name \ {work[w].id} : dir'[n] = dir[n]
         /\ work[w].op = "Restore" =>
              /\ dir'[work[w].path] = o /\ (IF dir[work[w].path] = 0 THEN Free(o) ELSE o = dir[work[w].path])
              /\ \A n \in Name \ {work[w].path} : dir'[n] = dir[n]
              /\ released' = released \cup (Held(work[w].path) \ {Load(work[w]).v})
         /\ \A x \in Worker \ {w} : work'[x] = work[x]
         /\ Store([data EXCEPT ![o] = Torn])
         /\ UNCHANGED <<rows, daemon, uuids, crashes, born, contested, halfway, struck>>
<1> DEFINE c == [work[w] EXCEPT !.pc = "fill", !.out = o]
           m == IF work[w].crypt THEN {work[w].buf.v} ELSE {data[work[w].in].v}
<1>1. /\ work' = [work EXCEPT ![w] = c] /\ work[w].pc = "create"
      /\ dir' = [dir EXCEPT ![Dst(work[w])] = o] /\ Opened(Dst(work[w]), o)
      /\ released' = released \cup (Held(Dst(work[w])) \ m)
      /\ Store([data EXCEPT ![o] = Torn])
      /\ UNCHANGED <<rows, daemon, uuids, crashes, born, contested, halfway, struck>>
  BY DEF CreateTarget
<1>2. /\ c.pc = "fill" /\ c.op = work[w].op /\ c.id = work[w].id /\ c.path = work[w].path
      /\ c.crypt = work[w].crypt /\ c.buf = work[w].buf /\ c.in = work[w].in /\ c.out = o
  BY DEF Shape, TypeOK, Work
<1>3. /\ work[w].op \in {"Quarantine", "Restore"} /\ work[w].path \in Path /\ work[w].id \in Id
  BY <1>1 DEF Shape, CallOK
<1>4. dir \in [Name -> 0 .. MaxInode] /\ work[w].path \in Name /\ work[w].id \in Name
  BY <1>3, Basics
<1>. HIDE DEF c
<1>5. work'[w] = c /\ \A x \in Worker \ {w} : work'[x] = work[x]
  BY <1>1, CallChanged
<1>6. m = {Load(work[w]).v}
  BY DEF Load
<1>. HIDE DEF m
<1>7. CASE work[w].op = "Quarantine"
  <2>1. Dst(work[w]) = work[w].id
    BY <1>7 DEF Dst
  <2>2. dir[work[w].id] = 0
    BY <1>1, <1>3, <1>7, Basics DEF CallIds, TakeIds
  <2>3. Held(work[w].id) = {}
    BY <2>2 DEF Held
  <2>4. released' = released
    BY <1>1, <2>1, <2>3
  <2>. QED
    BY <1>1, <1>2, <1>3, <1>4, <1>5, <1>7, <2>1, <2>2, <2>4 DEF Opened
<1>8. CASE work[w].op = "Restore"
  <2>1. Dst(work[w]) = work[w].path
    BY <1>8 DEF Dst
  <2>. QED
    BY <1>1, <1>2, <1>3, <1>4, <1>5, <1>6, <1>8, <2>1 DEF Opened
<1>. QED
  BY <1>3, <1>7, <1>8

LEMMA FillDoes ==
  ASSUME Shape, IdsOK, NEW w \in Worker, FillTarget(w)
  PROVE  /\ work[w].pc = "fill" /\ work[w].op \in {"Quarantine", "Restore"}
         /\ work[w].path \in Path /\ work[w].id \in Id /\ work[w].out \in Inode
         /\ work'[w].pc = "unlink" /\ work'[w].op = work[w].op /\ work'[w].id = work[w].id
         /\ work'[w].path = work[w].path /\ work'[w].crypt = work[w].crypt
         /\ work'[w].buf = Torn /\ work'[w].in = 0 /\ work'[w].out = 0
         /\ \A x \in Worker \ {w} : work'[x] = work[x]
         /\ Store([data EXCEPT ![work[w].out] = Payload(work[w])])
         /\ UNCHANGED <<dir, rows, daemon, uuids, crashes, history>>
<1> DEFINE c == Call(work[w].op, work[w].id, work[w].path, work[w].crypt, "unlink")
<1>1. /\ work' = [work EXCEPT ![w] = c] /\ work[w].pc = "fill"
      /\ Store([data EXCEPT ![work[w].out] = Payload(work[w])])
      /\ UNCHANGED <<dir, rows, daemon, uuids, crashes, history>>
  BY DEF FillTarget, Done
<1>2. /\ c.pc = "unlink" /\ c.op = work[w].op /\ c.id = work[w].id /\ c.path = work[w].path
      /\ c.crypt = work[w].crypt /\ c.buf = Torn /\ c.in = 0 /\ c.out = 0
  BY DEF Call
<1>3. /\ work[w].op \in {"Quarantine", "Restore"} /\ work[w].path \in Path /\ work[w].id \in Id
      /\ work[w].out \in Inode
  BY <1>1 DEF Shape, CallOK
<1>. HIDE DEF c
<1>4. work'[w] = c /\ \A x \in Worker \ {w} : work'[x] = work[x]
  BY <1>1, CallChanged
<1>. QED
  BY <1>1, <1>2, <1>3, <1>4

LEMMA UnlinkDoes ==
  ASSUME Shape, IdsOK, NEW w \in Worker, Unlink(w)
  PROVE  /\ work[w].pc = "unlink" /\ work[w].op \in {"Quarantine", "Restore", "Delete"}
         /\ work[w].id \in Id
         /\ work[w].op = "Quarantine" =>
              /\ work[w].path \in Path /\ dir'[work[w].path] = 0 /\ released' = released
              /\ \A n \in Name \ {work[w].path} : dir'[n] = dir[n]
         /\ work[w].op # "Quarantine" =>
              /\ dir'[work[w].id] = 0
              /\ \A n \in Name \ {work[w].id} : dir'[n] = dir[n]
         /\ work[w].op = "Restore" => released' = released
         /\ work[w].op = "Delete" => released' = released \cup Held(work[w].id)
         /\ IF work[w].crypt /\ dir[Src(work[w])] = 0 THEN Return(w) ELSE Goto(w, "commit")
         /\ Store(data)
         /\ UNCHANGED <<rows, daemon, uuids, crashes, born, contested, halfway, struck>>
<1>1. /\ work[w].pc = "unlink" /\ Store(data)
      /\ dir' = [dir EXCEPT ![Src(work[w])] = 0]
      /\ released' = IF work[w].op = "Delete" THEN released \cup Held(Src(work[w])) ELSE released
      /\ IF work[w].crypt /\ dir[Src(work[w])] = 0 THEN Return(w) ELSE Goto(w, "commit")
      /\ UNCHANGED <<rows, daemon, uuids, crashes, born, contested, halfway, struck>>
  BY DEF Unlink
<1>2. /\ work[w].op \in {"Quarantine", "Restore", "Delete"} /\ work[w].id \in Id
      /\ work[w].op = "Quarantine" => work[w].path \in Path
  BY <1>1, Basics DEF CallIds, CallOK
<1>3. /\ dir \in [Name -> 0 .. MaxInode] /\ work[w].id \in Name
      /\ work[w].op = "Quarantine" => work[w].path \in Name
  BY <1>2, Basics
<1>4. /\ work[w].op = "Quarantine" => Src(work[w]) = work[w].path
      /\ work[w].op # "Quarantine" => Src(work[w]) = work[w].id
  BY DEF Src
<1>5. work[w].op = "Quarantine" =>
        /\ work[w].path \in Path /\ dir'[work[w].path] = 0 /\ released' = released
        /\ \A n \in Name \ {work[w].path} : dir'[n] = dir[n]
  BY <1>1, <1>2, <1>3, <1>4
<1>6. work[w].op # "Quarantine" =>
        dir'[work[w].id] = 0 /\ \A n \in Name \ {work[w].id} : dir'[n] = dir[n]
  BY <1>1, <1>2, <1>3, <1>4
<1>7. /\ work[w].op = "Restore" => released' = released
      /\ work[w].op = "Delete" => released' = released \cup Held(work[w].id)
  BY <1>1, <1>4
<1>. QED
  BY <1>1, <1>2, <1>5, <1>6, <1>7

LEMMA CommitDoes ==
  ASSUME Shape, IdsOK, NEW w \in Worker, Commit(w)
  PROVE  /\ work[w].pc = "commit" /\ work[w].op \in {"Quarantine", "Restore", "Delete"}
         /\ work[w].id \in Id
         /\ work[w].op = "Quarantine" =>
              /\ rows'[work[w].id].path = work[w].path /\ rows'[work[w].id].enc = encrypt
              /\ work[w].path \in Path /\ rows'[work[w].id] # NoRow
         /\ work[w].op # "Quarantine" =>
              rows'[work[w].id] = NoRow /\ (dir[work[w].id] = 0 \/ work[w].id \in struck)
         /\ \A i \in Id \ {work[w].id} : rows'[i] = rows[i]
         /\ work'[w] = Idle /\ \A x \in Worker \ {w} : work'[x] = work[x]
         /\ UNCHANGED <<files, daemon, uuids, crashes, history>>
<1>1. /\ work[w].pc = "commit" /\ Return(w)
      /\ rows' = [rows EXCEPT ![work[w].id] =
                    IF work[w].op = "Quarantine" THEN RowOf(work[w]) ELSE NoRow]
      /\ UNCHANGED <<files, daemon, uuids, crashes, history>>
  BY DEF Commit
<1>2. /\ work[w].op \in {"Quarantine", "Restore", "Delete"} /\ work[w].id \in Id
      /\ work[w].op = "Quarantine" => work[w].path \in Path /\ work[w].path # NoPath
      /\ rows \in [Id -> Row]
  BY <1>1, Basics DEF CallIds
<1>3. work[w].op # "Quarantine" => dir[work[w].id] = 0 \/ work[w].id \in struck
  BY <1>1, <1>2, Basics DEF CallIds, GiveIds
<1>4. work'[w] = Idle /\ \A x \in Worker \ {w} : work'[x] = work[x]
  BY <1>1, ReturnChanged
<1>5. /\ RowOf(work[w]).path = work[w].path /\ RowOf(work[w]).enc = encrypt
      /\ NoRow.path = NoPath
  BY DEF RowOf, NoRow
<1>6. \A i \in Id \ {work[w].id} : rows'[i] = rows[i]
  BY <1>1, <1>2
<1>7. rows'[work[w].id] = IF work[w].op = "Quarantine" THEN RowOf(work[w]) ELSE NoRow
  BY <1>1, <1>2
<1>. QED
  BY <1>1, <1>2, <1>3, <1>4, <1>5, <1>6, <1>7

LEMMA WriteDoes ==
  ASSUME Shape, IdsOK, NEW p \in Path, NEW o \in Inode, UserWrite(p, o)
  PROVE  /\ born' = Append(born, p) /\ Len(born) + 1 \in 1 .. MaxVersion
         /\ born \in Seq(Path)
         /\ dir'[p] = o /\ IF dir[p] = 0 THEN Free(o) ELSE o = dir[p]
         /\ \A n \in Name \ {p} : dir'[n] = dir[n]
         /\ data'[o] = Plain(Len(born) + 1) /\ \A u \in Inode \ {o} : data'[u] = data[u]
         /\ released' = released \cup Held(p)
         /\ UNCHANGED <<rows, daemon, work, uuids, crashes, halfway, struck>>
         /\ contested \subseteq contested'
         /\ p \notin contested' => \A w \in Worker : work[w].path # p
<1>1. dir \in [Name -> 0 .. MaxInode] /\ p \in Name /\ data \in [Inode -> Data]
  BY Basics
<1>2. p \notin contested' => \A w \in Worker : work[w].path # p
  <2>1. \A w \in Worker : work[w].path = p => work[w].op \in {"Quarantine", "Restore"}
    BY Basics
  <2>. QED
    BY <2>1 DEF UserWrite, Contend, Busy
<1>3. Len(born) + 1 \in 1 .. MaxVersion /\ born \in Seq(Path)
  BY BoundAssumption DEF UserWrite, Shape, TypeOK
<1>4. contested \subseteq contested'
  BY DEF UserWrite, Contend
<1>5. /\ born' = Append(born, p) /\ Opened(p, o)
      /\ dir' = [dir EXCEPT ![p] = o] /\ data' = [data EXCEPT ![o] = Plain(Len(born) + 1)]
      /\ released' = released \cup Held(p)
      /\ UNCHANGED <<rows, daemon, work, uuids, crashes, halfway, struck>>
  BY DEF UserWrite
<1>6. dir'[p] = o /\ \A n \in Name \ {p} : dir'[n] = dir[n]
  BY <1>1, <1>5
<1>7. data'[o] = Plain(Len(born) + 1) /\ \A u \in Inode \ {o} : data'[u] = data[u]
  BY <1>1, <1>5
<1>8. IF dir[p] = 0 THEN Free(o) ELSE o = dir[p]
  BY <1>5 DEF Opened
<1>. QED
  BY <1>2, <1>3, <1>4, <1>5, <1>6, <1>7, <1>8

LEMMA TakeBegins ==
  ASSUME Shape, IdsOK, NEW w \in Worker, NEW p \in Path, BeginQuarantine(w, p)
  PROVE  /\ phase = "up" /\ work[w] = Idle /\ dir[p] # 0
         /\ work'[w].op = "Quarantine" /\ work'[w].id = uuids + 1 /\ work'[w].path = p
         /\ work'[w].crypt = (encrypt /\ key # 0) /\ work'[w].buf = Torn
         /\ work'[w].pc = IF encrypt /\ key # 0 THEN "read" ELSE "rename"
         /\ work'[w].in = 0 /\ work'[w].out = 0
         /\ uuids + 1 \in Id /\ dir[uuids + 1] = 0 /\ ~Listed(uuids + 1)
         /\ \A x \in Worker \ {w} : work'[x] = work[x]
         /\ UNCHANGED <<files, rows, daemon, crashes, born, released, halfway, struck>>
         /\ contested \subseteq contested'
         /\ p \notin contested' => \A x \in Worker : work[x].path = p => work[x].op # "Restore"
<1> DEFINE b == encrypt /\ key # 0
           c == Call("Quarantine", uuids + 1, p, b, IF b THEN "read" ELSE "rename")
<1>1. /\ work' = [work EXCEPT ![w] = c] /\ Contend(p, {"Restore"})
      /\ phase = "up" /\ work[w] = Idle /\ dir[p] # 0 /\ uuids < MaxUuid
      /\ UNCHANGED <<files, rows, daemon, crashes, born, released, halfway, struck>>
  BY DEF BeginQuarantine, NewId
<1>2. /\ c.op = "Quarantine" /\ c.id = uuids + 1 /\ c.path = p /\ c.crypt = b /\ c.buf = Torn
      /\ c.pc = (IF b THEN "read" ELSE "rename") /\ c.in = 0 /\ c.out = 0
  BY DEF Call
<1>. HIDE DEF c
<1>3. work'[w] = c /\ \A x \in Worker \ {w} : work'[x] = work[x]
  BY <1>1, CallChanged
<1>4. uuids + 1 \in Id /\ dir[uuids + 1] = 0 /\ ~Listed(uuids + 1)
  <2>1. uuids + 1 \in Id /\ uuids + 1 > uuids
    BY <1>1, Basics
  <2>. QED
    BY <2>1 DEF IdsOK
<1>5. /\ contested \subseteq contested'
      /\ p \notin contested' => \A x \in Worker : work[x].path = p => work[x].op # "Restore"
  BY <1>1 DEF Contend, Busy
<1>. QED
  BY <1>1, <1>2, <1>3, <1>4, <1>5

LEMMA GiveBegins ==
  ASSUME Shape, IdsOK, NEW w \in Worker, NEW i \in Id, BeginRestore(w, i)
  PROVE  /\ phase = "up" /\ work[w] = Idle /\ Listed(i) /\ rows[i].path \in Path
         /\ work'[w].op = "Restore" /\ work'[w].id = i /\ work'[w].path = rows[i].path
         /\ work'[w].crypt = (rows[i].enc /\ key # 0) /\ work'[w].buf = Torn
         /\ work'[w].pc = IF rows[i].enc /\ key # 0 THEN "read" ELSE "rename"
         /\ work'[w].in = 0 /\ work'[w].out = 0
         /\ \A x \in Worker \ {w} : work'[x] = work[x]
         /\ UNCHANGED <<files, rows, daemon, uuids, crashes, born, released, halfway, struck>>
         /\ contested \subseteq contested'
         /\ rows[i].path \notin contested' => \A x \in Worker : work[x].path # rows[i].path
<1> DEFINE b == rows[i].enc /\ key # 0
           c == Call("Restore", i, rows[i].path, b, IF b THEN "read" ELSE "rename")
<1>1. /\ work' = [work EXCEPT ![w] = c] /\ Contend(rows[i].path, {"Quarantine", "Restore"})
      /\ phase = "up" /\ work[w] = Idle /\ Listed(i)
      /\ UNCHANGED <<files, rows, daemon, uuids, crashes, born, released, halfway, struck>>
  BY DEF BeginRestore
<1>2. /\ c.op = "Restore" /\ c.id = i /\ c.path = rows[i].path /\ c.crypt = b /\ c.buf = Torn
      /\ c.pc = (IF b THEN "read" ELSE "rename") /\ c.in = 0 /\ c.out = 0
  BY DEF Call
<1>. HIDE DEF c
<1>3. work'[w] = c /\ \A x \in Worker \ {w} : work'[x] = work[x]
  BY <1>1, CallChanged
<1>4. rows[i].path \in Path
  BY <1>1 DEF Shape, RowsOK
<1>5. /\ contested \subseteq contested'
      /\ rows[i].path \notin contested' => \A x \in Worker : work[x].path # rows[i].path
  <2>1. \A x \in Worker : work[x].path = rows[i].path => work[x].op \in {"Quarantine", "Restore"}
    BY <1>4, Basics
  <2>. QED
    BY <1>1, <2>1 DEF Contend, Busy
<1>. QED
  BY <1>1, <1>2, <1>3, <1>4, <1>5

LEMMA DeleteBegins ==
  ASSUME Shape, IdsOK, NEW w \in Worker, NEW i \in Id, BeginDelete(w, i)
  PROVE  /\ work[w] = Idle /\ Listed(i)
         /\ work'[w].op = "Delete" /\ work'[w].id = i /\ work'[w].path = NoPath
         /\ work'[w].buf = Torn /\ work'[w].pc = "unlink" /\ work'[w].in = 0 /\ work'[w].out = 0
         /\ \A x \in Worker \ {w} : work'[x] = work[x]
         /\ UNCHANGED <<files, rows, daemon, uuids, crashes, history>>
<1> DEFINE c == Call("Delete", i, NoPath, FALSE, "unlink")
<1>1. /\ work' = [work EXCEPT ![w] = c] /\ work[w] = Idle /\ Listed(i)
      /\ UNCHANGED <<files, rows, daemon, uuids, crashes, history>>
  BY DEF BeginDelete
<1>2. /\ c.op = "Delete" /\ c.id = i /\ c.path = NoPath /\ c.buf = Torn
      /\ c.pc = "unlink" /\ c.in = 0 /\ c.out = 0
  BY DEF Call
<1>. HIDE DEF c
<1>3. work'[w] = c /\ \A x \in Worker \ {w} : work'[x] = work[x]
  BY <1>1, CallChanged
<1>. QED
  BY <1>1, <1>2, <1>3

LEMMA CrashDoes ==
  ASSUME Shape, IdsOK, Crash
  PROVE  /\ \A w \in Worker : work'[w] = Idle
         /\ struck' = struck \cup {work[w].id : w \in {x \in Worker : work[x].pc = "commit"}}
         /\ halfway' = halfway \cup
              {work[w].path : w \in {x \in Worker : work[x].op = "Restore" /\ work[x].pc = "fill"}}
         /\ MayDisable = FALSE => encrypt' \in {encrypt, TRUE}
         /\ Store(data) /\ phase' = "down"
         /\ UNCHANGED <<dir, rows, keyFile, minted, uuids, born, released, contested>>
  BY DEF Crash, HalfDone

---------------------------------------------------------------------------
(* The configuration.                                                      *)

LEMMA EncInit == Init => EncOK
  BY IdleFields DEF Init, EncOK, EncCall, Listed

LEMMA EncNext ==
  ASSUME MayDisable = FALSE, Shape, IdsOK, EncOK, [Next]_vars
  PROVE  EncOK'
<1> USE DEF daemon, files, history
<1>1. ASSUME UNCHANGED <<rows, work, phase, key, encrypt>> PROVE EncOK'
  BY <1>1 DEF EncOK, EncCall, Listed
<1>2. CASE Boot
  <2>1. phase' = "up" /\ (encrypt <=> key' # 0) /\ UNCHANGED <<rows, work, encrypt>>
    BY <1>2 DEF Boot
  <2>. QED
    BY <2>1 DEF EncOK, EncCall, Listed
<1>3. CASE GenerateKey
  BY <1>3 DEF GenerateKey, EncOK, EncCall, Listed
<1>4. CASE SaveKey
  <2>1. /\ phase' = "up" /\ key' # 0 /\ encrypt /\ UNCHANGED <<rows, work, encrypt>>
    BY <1>4 DEF SaveKey, EncOK, Shape, KeyOK
  <2>. QED
    BY <2>1 DEF EncOK, EncCall, Listed
<1>5. CASE Crash
  BY <1>5, CrashDoes, IdleFields DEF EncOK, EncCall, Listed
<1>6. ASSUME NEW p \in Path, NEW o \in Inode, UserWrite(p, o) PROVE EncOK'
  BY <1>1, <1>6, WriteDoes
<1>7. ASSUME NEW w \in Worker, \A x \in Worker \ {w} : work'[x] = work[x], EncCall(work[w])',
             UNCHANGED <<rows, phase, key, encrypt>>
      PROVE  EncOK'
  BY <1>7 DEF EncOK, EncCall, Listed
<1>8. ASSUME NEW w \in Worker, NEW p \in Path, BeginQuarantine(w, p) PROVE EncOK'
  <2>2. encrypt <=> key # 0
    BY <1>8, TakeBegins DEF EncOK
  <2>3. encrypt \in BOOLEAN /\ encrypt' = encrypt
    BY <1>8, TakeBegins DEF Shape, TypeOK
  <2>4. /\ work'[w].op = "Quarantine" /\ work'[w].crypt = (encrypt /\ key # 0)
        /\ work'[w].pc = IF encrypt /\ key # 0 THEN "read" ELSE "rename"
    BY <1>8, TakeBegins
  <2>5. work'[w].crypt = encrypt' /\ (work'[w].pc = "rename" => ~work'[w].crypt)
    BY <2>2, <2>3, <2>4
  <2>1. EncCall(work[w])'
    BY <2>4, <2>5 DEF EncCall
  <2>. QED
    BY <1>7, <1>8, <2>1, TakeBegins
<1>9. ASSUME NEW w \in Worker, NEW i \in Id, BeginRestore(w, i) PROVE EncOK'
  <2>2. Listed(i) /\ rows[i].enc \in BOOLEAN /\ rows' = rows /\ (rows[i].enc => key # 0)
    <3>1. phase = "up" /\ Listed(i) /\ rows' = rows
      BY <1>9, GiveBegins
    <3>2. rows[i].enc \in BOOLEAN
      BY Basics DEF Row
    <3>. QED
      BY <3>1, <3>2 DEF EncOK
  <2>3. /\ work'[w].op = "Restore" /\ work'[w].id = i /\ work'[w].crypt = (rows[i].enc /\ key # 0)
        /\ work'[w].pc = IF rows[i].enc /\ key # 0 THEN "read" ELSE "rename"
    BY <1>9, GiveBegins
  <2>4. work'[w].crypt = rows'[i].enc /\ (work'[w].pc = "rename" => ~work'[w].crypt)
    BY <2>2, <2>3
  <2>1. EncCall(work[w])'
    BY <2>3, <2>4 DEF EncCall
  <2>. QED
    BY <1>7, <1>9, <2>1, GiveBegins
<1>10. ASSUME NEW w \in Worker, NEW i \in Id, BeginDelete(w, i) PROVE EncOK'
  <2>1. EncCall(work[w])'
    BY <1>10, DeleteBegins DEF EncCall
  <2>. QED
    BY <1>7, <1>10, <2>1, DeleteBegins
<1>11. ASSUME NEW w \in Worker, NEW pc \in {"read", "create", "fill", "unlink", "commit"},
              \A x \in Worker \ {w} : work'[x] = work[x],
              \/ work'[w] = Idle
              \/ /\ work'[w].pc = pc /\ work'[w].op = work[w].op /\ work'[w].id = work[w].id
                 /\ work'[w].crypt = work[w].crypt,
              UNCHANGED <<rows, phase, key, encrypt>>
       PROVE  EncOK'
  <2>1. EncCall(work[w])'
    BY <1>11, IdleFields DEF EncOK, EncCall, Listed
  <2>. QED
    BY <1>7, <1>11, <2>1
<1>12. ASSUME NEW w \in Worker, Rename(w) PROVE EncOK'
  <2>1. UNCHANGED <<rows, phase, key, encrypt>> /\ (Goto(w, "commit") \/ Goto(w, "read"))
    BY <1>12 DEF Rename
  <2>. QED
    BY <1>11, <2>1, GotoChanged
<1>13. ASSUME NEW w \in Worker, ReadSource(w) PROVE EncOK'
  BY <1>11, <1>13, ReadDoes
<1>14. ASSUME NEW w \in Worker, NEW o \in Inode, CreateTarget(w, o) PROVE EncOK'
  BY <1>11, <1>14, CreateDoes
<1>15. ASSUME NEW w \in Worker, FillTarget(w) PROVE EncOK'
  BY <1>11, <1>15, FillDoes
<1>16. ASSUME NEW w \in Worker, ReadFails(w) \/ FillFails(w) \/ CommitFails(w) PROVE EncOK'
  <2>1. UNCHANGED <<rows, phase, key, encrypt>> /\ Return(w)
    BY <1>16 DEF ReadFails, FillFails, CommitFails
  <2>. QED
    BY <1>11, <2>1, ReturnChanged
<1>17. ASSUME NEW w \in Worker, Unlink(w) PROVE EncOK'
  <2>1. UNCHANGED <<rows, phase, key, encrypt>> /\ (Goto(w, "commit") \/ Return(w))
    BY <1>17 DEF Unlink
  <2>. QED
    BY <1>11, <2>1, GotoChanged, ReturnChanged
<1>20. ASSUME NEW w \in Worker, UnlinkFails(w) PROVE EncOK'
  <2>1. UNCHANGED <<rows, phase, key, encrypt>> /\ (Goto(w, "commit") \/ Return(w))
    BY <1>20 DEF UnlinkFails
  <2>. QED
    BY <1>11, <2>1, GotoChanged, ReturnChanged
<1>18. ASSUME NEW w \in Worker, Commit(w) PROVE EncOK'
  <2>1. /\ UNCHANGED <<phase, key, encrypt>> /\ work'[w] = Idle
        /\ \A x \in Worker \ {w} : work'[x] = work[x]
        /\ \A i \in Id : Listed(i)' => \/ rows'[i] = rows[i]
                                       \/ /\ i = work[w].id /\ rows'[i].enc = encrypt
                                          /\ work[w].op = "Quarantine"
    BY <1>18, CommitDoes DEF Listed
  <2>2. ASSUME NEW x \in Worker PROVE EncCall(work[x])'
    <3>1. CASE x = w
      BY <2>1, <3>1, IdleFields DEF EncCall
    <3>2. CASE x # w
      <4>1. work[w].op = "Quarantine" => work[x].id # work[w].id
        BY <3>2 DEF IdsOK, CallIds, TakeIds
      <4>2. work[x].op = "Restore" => work[x].id \in Id
        BY Basics
      <4>. QED
        BY <2>1, <3>2, <4>1, <4>2 DEF EncOK, EncCall, Listed
    <3>. QED
      BY <3>1, <3>2
  <2>3. \A i \in Id : Listed(i)' /\ rows'[i].enc => encrypt
    BY <2>1 DEF EncOK, Listed
  <2>. QED
    BY <2>1, <2>2, <2>3 DEF EncOK
<1>19. CASE UNCHANGED vars
  BY <1>1, <1>19 DEF vars
<1>. QED
  BY <1>2, <1>3, <1>4, <1>5, <1>6, <1>8, <1>9, <1>10, <1>12, <1>13, <1>14, <1>15, <1>16,
     <1>17, <1>18, <1>19, <1>20 DEF Next, Step

---------------------------------------------------------------------------
(* The versions of two files never mix, whatever calls overlap.            *)

LEMMA OfStored ==
  ASSUME Shape, IdsOK, NEW d, Store(d), NEW o \in Inode, NEW p \in Path, Of(o, p)',
         \A w \in Worker : work'[w].path \in Path => work'[w].id \in Id
  PROVE  data'[o] = d[o]
  BY StoreKeeps, Basics DEF Of, Name

LEMMA NotFree ==
  ASSUME Shape, IdsOK, NEW o \in Inode, NEW p \in Path, Of(o, p)
  PROVE  ~Free(o)
<1>1. CASE dir[p] = o
  BY <1>1, Basics DEF Free
<1>2. CASE \E i \in Id : dir[i] = o
  BY <1>2, Basics DEF Free
<1>3. CASE \E w \in Worker : o \in {work[w].in, work[w].out}
  BY <1>3 DEF Free
<1>4. CASE \E w \in Worker : work[w].path = p /\ dir[work[w].id] = o
  <2>1. PICK w \in Worker : work[w].path = p /\ dir[work[w].id] = o
    BY <1>4
  <2>2. work[w].id \in Name
    BY <2>1, Basics
  <2>. QED
    BY <2>1, <2>2 DEF Free
<1>. QED
  BY <1>1, <1>2, <1>3, <1>4 DEF Of

(* No step but a write or a truncation gives a file an inode or a content. *)
LEMMA LineSame ==
  ASSUME LineOK, Named', Buffers', born' = born,
         \A o \in Inode, p \in Path : Of(o, p)' => Of(o, p) /\ data'[o] = data[o]
  PROVE  LineOK'
  BY DEF LineOK, Apart, Contents, BornAt

(* A step that leaves names and rows alone, and the buffer empty or as it  *)
(* was, and opens no file. *)
LEMMA LineCall ==
  ASSUME Shape, IdsOK, LineOK, NEW w \in Worker,
         \A x \in Worker \ {w} : work'[x] = work[x], UNCHANGED <<dir, rows, born>>,
         work'[w].in \in {work[w].in, 0}, work'[w].out \in {work[w].out, 0},
         work'[w].buf \in {work[w].buf, Torn},
         work'[w].path \in Path =>
           \/ work'[w].path = work[w].path /\ work'[w].op = work[w].op /\ work'[w].id = work[w].id
           \/ /\ work'[w].in = 0 /\ work'[w].out = 0 /\ work'[w].buf = Torn
              /\ \/ dir[work'[w].id] = 0
                 \/ Listed(work'[w].id) /\ rows[work'[w].id].path = work'[w].path,
         Store(data) \/ data' = data,
         work'[w].path \in Path => work'[w].id \in Id
  PROVE  LineOK'
<1>1. Named'
  BY DEF LineOK, Named
<1>2. Buffers'
  BY DEF LineOK, Buffers, BornAt, Torn
<1>3. \A o \in Inode, p \in Path : Of(o, p)' => Of(o, p)
  <2> SUFFICES ASSUME NEW o \in Inode, NEW p \in Path, Of(o, p)' PROVE Of(o, p)
    OBVIOUS
  <2>1. CASE dir'[p] = o
    BY <2>1 DEF Of
  <2>2. CASE \E i \in Id : dir'[i] = o /\ Listed(i)' /\ rows'[i].path = p
    BY <2>2 DEF Of, Listed
  <2>3. ASSUME NEW x \in Worker, work'[x].path = p,
               \/ o \in {work'[x].in, work'[x].out}
               \/ dir'[work'[x].id] = o
        PROVE  Of(o, p)
    <3>1. CASE x # w
      BY <2>3, <3>1 DEF Of
    <3>2. CASE x = w
      BY <2>3, <3>2, Basics DEF Of
    <3>. QED
      BY <3>1, <3>2
  <2>. QED
    BY <2>1, <2>2, <2>3 DEF Of
<1>4. \A x \in Worker : work'[x].path \in Path => work'[x].id \in Id
  BY Basics
<1>5. \A o \in Inode, p \in Path : Of(o, p)' => data'[o] = data[o]
  BY <1>4, OfStored
<1>. QED
  BY <1>1, <1>2, <1>3, <1>5, LineSame

LEMMA LineInit == Init => LineOK
  BY IdleFields, BoundAssumption
  DEF Init, LineOK, Named, Apart, Contents, Buffers, Of, BornAt, Torn, Inode, Listed, Name

LEMMA LineRename ==
  ASSUME Shape, IdsOK, LineOK, NEW w \in Worker, Rename(w),
         dir[Src(work[w])] # 0, work[w].path \in Local
  PROVE  LineOK'
<1> DEFINE p == work[w].path
           i == work[w].id
<1>1. /\ p \in Path /\ i \in Id /\ work[w].op \in {"Quarantine", "Restore"} /\ work[w].pc = "rename"
      /\ work[w].op = "Quarantine" => dir'[i] = dir[p] /\ dir'[p] = 0 /\ dir[p] # 0 /\ dir[i] = 0
      /\ work[w].op = "Restore" => dir'[p] = dir[i] /\ dir'[i] = 0 /\ dir[i] # 0
      /\ \A n \in Name \ {p, i} : dir'[n] = dir[n]
      /\ Goto(w, "commit") /\ Store(data) /\ rows' = rows /\ born' = born
  BY RenameDoes
<1>2. p \in Name /\ i \in Name /\ p # i
  BY <1>1, Basics
<1>3. /\ \A x \in Worker : /\ work'[x].op = work[x].op /\ work'[x].id = work[x].id
                           /\ work'[x].path = work[x].path /\ work'[x].buf = work[x].buf
                           /\ work'[x].in = work[x].in /\ work'[x].out = work[x].out
  BY <1>1, GotoChanged
<1>5. Named'
  <2> SUFFICES ASSUME NEW m \in Name, NEW n \in Name, dir'[m] = dir'[n], dir'[m] # 0 PROVE m = n
    BY DEF Named
  <2>. HIDE DEF p, i
  <2>1. CASE work[w].op = "Quarantine"
    BY <1>1, <1>2, <2>1 DEF LineOK, Named
  <2>2. CASE work[w].op = "Restore"
    BY <1>1, <1>2, <2>2 DEF LineOK, Named
  <2>. QED
    BY <1>1, <2>1, <2>2
<1>6. Buffers'
  BY <1>1, <1>3 DEF LineOK, Buffers, BornAt
<1>7. \A o \in Inode, q \in Path : Of(o, q)' => Of(o, q)
  <2> SUFFICES ASSUME NEW o \in Inode, NEW q \in Path, Of(o, q)' PROVE Of(o, q)
    OBVIOUS
  <2>0. o # 0 /\ q \in Name /\ \A j \in Id : j \in Name
    BY Basics
  <2>1. CASE dir'[q] = o
    <3>1. CASE q = p /\ work[w].op = "Restore"
      <4>1. dir[i] = o
        BY <1>1, <2>1, <3>1
      <4>. QED
        BY <1>1, <3>1, <4>1 DEF Of
    <3>2. CASE q = p /\ work[w].op = "Quarantine"
      BY <1>1, <2>0, <2>1, <3>2
    <3>3. CASE q # p
      <4>1. q # i
        BY <1>1, Basics
      <4>. QED
        BY <1>1, <2>0, <2>1, <3>3, <4>1 DEF Of
    <3>. QED
      BY <1>1, <3>1, <3>2, <3>3
  <2>2. ASSUME NEW j \in Id, dir'[j] = o, Listed(j)', rows'[j].path = q PROVE Of(o, q)
    <3>1. Listed(j) /\ rows[j].path = q
      BY <1>1, <2>2 DEF Listed
    <3>2. CASE j = i /\ work[w].op = "Quarantine"
      BY <3>1, <3>2, Basics DEF CallIds, TakeIds
    <3>3. CASE j = i /\ work[w].op = "Restore"
      BY <1>1, <2>0, <2>2, <3>3
    <3>4. CASE j # i
      <4>1. dir[j] = o
        BY <1>1, <2>0, <2>2, <3>4, Basics
      <4>. QED
        BY <3>1, <4>1 DEF Of
    <3>. QED
      BY <1>1, <3>2, <3>3, <3>4
  <2>3. ASSUME NEW x \in Worker, work'[x].path = q, o \in {work'[x].in, work'[x].out} PROVE Of(o, q)
    BY <1>3, <2>3 DEF Of
  <2>4. ASSUME NEW x \in Worker, work'[x].path = q, dir'[work'[x].id] = o PROVE Of(o, q)
    <3>1. work[x].path = q /\ dir'[work[x].id] = o /\ work[x].id \in Id
      BY <1>3, <2>4, Basics
    <3>2. CASE x = w
      <4>1. work[w].op = "Quarantine" /\ dir[p] = o /\ q = p
        BY <1>1, <2>0, <3>1, <3>2
      <4>. QED
        BY <4>1 DEF Of
    <3>3. CASE x # w
      <4>1. work[x].id # i
        BY <1>1, <2>0, <3>1, <3>3, Basics DEF CallIds, TakeIds
      <4>2. dir[work[x].id] = o
        BY <1>1, <2>0, <3>1, <4>1, Basics
      <4>. QED
        BY <3>1, <4>2 DEF Of
    <3>. QED
      BY <3>2, <3>3
  <2>. QED
    BY <2>1, <2>2, <2>3, <2>4 DEF Of
<1>8. \A x \in Worker : work'[x].path \in Path => work'[x].id \in Id
  BY <1>3, Basics
<1>9. \A o \in Inode, q \in Path : Of(o, q)' => data'[o] = data[o]
  BY <1>1, <1>8, OfStored
<1>. QED
  BY <1>1, <1>5, <1>6, <1>7, <1>9, LineSame

LEMMA LineRead ==
  ASSUME Shape, IdsOK, LineOK, NEW w \in Worker, ReadSource(w)
  PROVE  LineOK'
<1> DEFINE p == work[w].path
           i == work[w].id
           s == dir[Src(work[w])]
<1>1. /\ work[w].op \in {"Quarantine", "Restore"} /\ p \in Path /\ i \in Id
      /\ work'[w].op = work[w].op /\ work'[w].id = i
      /\ work'[w].path = p /\ work'[w].out = work[w].out
      /\ s \in Inode
      /\ work[w].crypt => work'[w].in = 0
      /\ ~work[w].crypt => work'[w].in = s /\ work'[w].buf = Torn
      /\ work[w].crypt /\ work[w].op = "Quarantine" => work'[w].buf = data[dir[p]]
      /\ work[w].crypt /\ work[w].op = "Restore" => work'[w].buf = Open(data[dir[i]])
      /\ \A x \in Worker \ {w} : work'[x] = work[x]
      /\ UNCHANGED <<files, rows, daemon, uuids, history>>
  BY ReadDoes
<1>2. /\ work[w].op = "Quarantine" => s = dir[p]
      /\ work[w].op = "Restore" => s = dir[i]
  BY DEF Src
<1>3. Of(s, p)
  <2>1. CASE work[w].op = "Quarantine"
    BY <1>2, <2>1 DEF Of
  <2>2. CASE work[w].op = "Restore"
    BY <1>2, <2>2 DEF Of
  <2>. QED
    BY <1>1, <2>1, <2>2
<1>. HIDE DEF s
<1>4. Named' /\ born' = born /\ data' = data
  BY <1>1 DEF LineOK, Named, files, history
<1>5. Buffers'
  <2>1. BornAt(data[s].v, p)
    BY <1>1, <1>3 DEF LineOK, Contents
  <2>2. Open(data[s]).v = data[s].v
    <3>1. data[s] \in Data
      BY <1>1, Basics
    <3>. QED
      BY <3>1 DEF Open, Data
  <2>3. work'[w].buf.v \in {0, data[s].v}
    BY <1>1, <1>2, <2>2 DEF Torn
  <2>4. BornAt(work[w].buf.v, work[w].path)'
    BY <1>1, <1>4, <2>1, <2>3 DEF BornAt
  <2>5. ASSUME NEW x \in Worker \ {w}, work[x].path \in Path PROVE BornAt(work[x].buf.v, work[x].path)'
    BY <1>1, <1>4, <2>5 DEF LineOK, Buffers, BornAt
  <2>. QED
    BY <1>1, <2>4, <2>5 DEF Buffers
<1>6. work'[w].in \in {0, s}
  BY <1>1
<1>7. \A o \in Inode, q \in Path : Of(o, q)' => Of(o, q)
  <2> SUFFICES ASSUME NEW o \in Inode, NEW q \in Path, Of(o, q)' PROVE Of(o, q)
    OBVIOUS
  <2>0. o # 0
    BY Basics
  <2>1. UNCHANGED <<dir, rows>>
    BY <1>1 DEF files
  <2>2. CASE dir'[q] = o \/ \E j \in Id : dir'[j] = o /\ Listed(j)' /\ rows'[j].path = q
    BY <2>1, <2>2 DEF Of, Listed
  <2>3. ASSUME NEW x \in Worker, work'[x].path = q,
               \/ o \in {work'[x].in, work'[x].out}
               \/ dir'[work'[x].id] = o
        PROVE  Of(o, q)
    <3>1. CASE x # w
      BY <1>1, <2>1, <2>3, <3>1 DEF Of
    <3>2. CASE x = w
      <4>1. q = p
        BY <1>1, <2>3, <3>2
      <4>2. o \in {work'[w].in, work'[w].out} => o = s \/ o = work[w].out
        BY <1>1, <1>6, <2>0
      <4>3. dir'[work'[w].id] = o => dir[i] = o
        BY <1>1, <2>1
      <4>4. o = s \/ o = work[w].out \/ dir[i] = o
        BY <2>3, <3>2, <4>2, <4>3
      <4>. QED
        BY <1>3, <4>1, <4>4 DEF Of
    <3>. QED
      BY <3>1, <3>2
  <2>. QED
    BY <2>2, <2>3 DEF Of
<1>. QED
  BY <1>4, <1>5, <1>7, LineSame

(* A step that opens or fills the inode o for the file p. *)
LEMMA LineNew ==
  ASSUME Shape, IdsOK, LineOK, NEW o \in Inode, NEW p \in Path, Free(o) \/ Of(o, p),
         Named', Buffers', BornAt(data[o].v, p)',
         \A v \in Nat, q \in Path : BornAt(v, q) => BornAt(v, q)',
         \A u \in Inode, q \in Path :
           Of(u, q)' => /\ Of(u, q) \/ (u = o /\ q = p)
                        /\ u = o \/ data'[u] = data[u]
  PROVE  LineOK'
<1>1. \A q \in Path : Of(o, q)' => q = p
  BY NotFree DEF LineOK, Apart
<1>2. Apart'
  <2> SUFFICES ASSUME NEW u \in Inode, NEW q \in Path, NEW r \in Path, Of(u, q)', Of(u, r)' PROVE q = r
    BY DEF Apart
  <2>1. CASE u = o
    BY <1>1, <2>1
  <2>2. CASE u # o
    BY <2>2 DEF LineOK, Apart
  <2>. QED
    BY <2>1, <2>2
<1>3. Contents'
  <2> SUFFICES ASSUME NEW u \in Inode, NEW q \in Path, Of(u, q)' PROVE BornAt(data[u].v, q)'
    BY DEF Contents
  <2>1. CASE u = o
    BY <1>1, <2>1
  <2>2. CASE u # o
    <3>1. BornAt(data[u].v, q) /\ data'[u] = data[u]
      BY <2>2 DEF LineOK, Contents
    <3>2. data[u].v \in Nat
      BY Basics DEF Data
    <3>3. BornAt(data[u].v, q)' <=> (data[u].v # 0 => data[u].v \in DOMAIN born' /\ born'[data[u].v] = q)
      BY <3>1 DEF BornAt
    <3>. QED
      BY <3>1, <3>2, <3>3 DEF BornAt
  <2>. QED
    BY <2>1, <2>2
<1>. QED
  BY <1>2, <1>3 DEF LineOK

LEMMA LineCreate ==
  ASSUME Shape, IdsOK, LineOK, NEW w \in Worker, NEW o \in Inode, CreateTarget(w, o)
  PROVE  LineOK'
<1> DEFINE p == work[w].path
           i == work[w].id
<1>1. /\ work[w].op \in {"Quarantine", "Restore"} /\ p \in Path /\ i \in Id
      /\ work'[w].op = work[w].op /\ work'[w].id = i /\ work'[w].path = p
      /\ work'[w].buf = work[w].buf /\ work'[w].in = work[w].in /\ work'[w].out = o
      /\ work[w].op = "Quarantine" =>
              /\ dir'[i] = o /\ Free(o) /\ dir[i] = 0
              /\ \A n \in Name \ {i} : dir'[n] = dir[n]
      /\ work[w].op = "Restore" =>
              /\ dir'[p] = o /\ (IF dir[p] = 0 THEN Free(o) ELSE o = dir[p])
              /\ \A n \in Name \ {p} : dir'[n] = dir[n]
      /\ \A x \in Worker \ {w} : work'[x] = work[x]
      /\ Store([data EXCEPT ![o] = Torn]) /\ rows' = rows /\ born' = born
  BY CreateDoes
<1>2. p \in Name /\ i \in Name /\ p # i /\ o # 0
  BY <1>1, Basics
<1>3. Free(o) \/ Of(o, p)
  BY <1>1 DEF Of
<1>4. Named'
  <2> SUFFICES ASSUME NEW m \in Name, NEW n \in Name, dir'[m] = dir'[n], dir'[m] # 0 PROVE m = n
    BY DEF Named
  <2>1. CASE work[w].op = "Quarantine"
    BY <1>1, <2>1 DEF LineOK, Named, Free
  <2>2. CASE work[w].op = "Restore"
    BY <1>1, <1>2, <2>2 DEF LineOK, Named, Free
  <2>. QED
    BY <1>1, <2>1, <2>2
<1>5. Buffers'
  BY <1>1 DEF LineOK, Buffers, BornAt
<1>6. \A x \in Worker : work'[x].path \in Path => work'[x].id \in Id
  BY <1>1, Basics
<1>7. \A u \in Inode, q \in Path : Of(u, q)' => u = o \/ data'[u] = data[u]
  <2>1. PICK d : d = [data EXCEPT ![o] = Torn] /\ Store(d)
    BY <1>1
  <2>2. \A u \in Inode : u # o => d[u] = data[u]
    BY <2>1, Basics
  <2>. QED
    BY <1>6, <2>1, <2>2, OfStored
<1>8. BornAt(data[o].v, p)'
  <2>1. PICK d : d = [data EXCEPT ![o] = Torn] /\ Store(d)
    BY <1>1
  <2>2. data'[o] = d[o]
    BY <1>1, <2>1 DEF Store, Free
  <2>3. data'[o].v = 0
    BY <2>1, <2>2, Basics DEF Torn
  <2>. QED
    BY <2>3 DEF BornAt
<1>9. ASSUME NEW u \in Inode, NEW q \in Path, Of(u, q)' PROVE Of(u, q) \/ (u = o /\ q = p)
  <2>1. CASE dir'[q] = u
    BY <1>1, <2>1, Basics DEF Of
  <2>2. ASSUME NEW j \in Id, dir'[j] = u, Listed(j)', rows'[j].path = q PROVE Of(u, q)
    <3>1. Listed(j) /\ rows[j].path = q
      BY <1>1, <2>2 DEF Listed
    <3>2. work[w].op = "Quarantine" => j # i
      BY <3>1, Basics DEF CallIds, TakeIds
    <3>3. dir[j] = u
      BY <1>1, <2>2, <3>2, Basics
    <3>. QED
      BY <3>1, <3>3 DEF Of
  <2>3. ASSUME NEW x \in Worker, work'[x].path = q,
               \/ u \in {work'[x].in, work'[x].out}
               \/ dir'[work'[x].id] = u
        PROVE  Of(u, q) \/ (u = o /\ q = p)
    <3>1. CASE x # w
      <4>1. work'[x] = work[x]
        BY <1>1, <3>1
      <4>2. work[x].id \in Id /\ (work[w].op = "Quarantine" => work[x].id # i)
        BY <2>3, <3>1, <4>1, Basics DEF CallIds, TakeIds
      <4>3. dir'[work[x].id] = dir[work[x].id]
        BY <1>1, <4>2, Basics
      <4>. QED
        BY <2>3, <4>1, <4>3 DEF Of
    <3>2. CASE x = w
      <4>1. q = p
        BY <1>1, <2>3, <3>2
      <4>2. u = o \/ u = work[w].in \/ dir[i] = u
        <5>1. work'[w].in = work[w].in /\ work'[w].out = o /\ work'[w].id = i
          BY <1>1
        <5>2. dir'[i] = u => u = o \/ dir[i] = u
          BY <1>1, <1>2
        <5>. QED
          BY <2>3, <3>2, <5>1, <5>2
      <4>. QED
        BY <4>1, <4>2 DEF Of
    <3>. QED
      BY <3>1, <3>2
  <2>. QED
    BY <1>9, <2>1, <2>2, <2>3 DEF Of
<1>. QED
  BY <1>1, <1>3, <1>4, <1>5, <1>7, <1>8, <1>9, LineNew DEF BornAt

LEMMA LineFill ==
  ASSUME Shape, IdsOK, LineOK, NEW w \in Worker, FillTarget(w)
  PROVE  LineOK'
<1>0. PICK p \in Path, o \in Inode : p = work[w].path /\ o = work[w].out
  BY FillDoes
<1>1. /\ work[w].op \in {"Quarantine", "Restore"} /\ work[w].pc = "fill"
      /\ work'[w].op = work[w].op /\ work'[w].id = work[w].id /\ work'[w].path = p
      /\ work'[w].buf = Torn /\ work'[w].in = 0 /\ work'[w].out = 0
      /\ \A x \in Worker \ {w} : work'[x] = work[x]
      /\ Store([data EXCEPT ![o] = Payload(work[w])])
      /\ UNCHANGED <<dir, rows, born>>
  BY <1>0, FillDoes DEF history
<1>2. Of(o, p)
  BY <1>0, <1>1 DEF Of
<1>3. Named'
  BY <1>1 DEF LineOK, Named
<1>4. Buffers'
  BY <1>1 DEF LineOK, Buffers, BornAt, Torn
<1>5. \A x \in Worker : work'[x].path \in Path => work'[x].id \in Id
  BY <1>1, Basics
<1>6. PICK d : /\ Store(d) /\ d[o] = Payload(work[w])
               /\ \A u \in Inode : u # o => d[u] = data[u]
  <2>1. PICK d : d = [data EXCEPT ![o] = Payload(work[w])] /\ Store(d)
    BY <1>1
  <2>2. d[o] = Payload(work[w]) /\ \A u \in Inode : u # o => d[u] = data[u]
    BY <2>1, Basics
  <2>. QED
    BY <2>1, <2>2
<1>7. \A u \in Inode, q \in Path : Of(u, q)' => u = o \/ data'[u] = data[u]
  BY <1>5, <1>6, OfStored
<1>8. BornAt(Payload(work[w]).v, p)
  <2>1. CASE ~work[w].crypt
    <3>1. work[w].in \in Inode
      BY <1>0, <1>1, <2>1, Basics DEF CallOK
    <3>2. Of(work[w].in, p)
      BY <1>0, <1>1 DEF Of
    <3>3. Payload(work[w]) = data[work[w].in]
      BY <2>1 DEF Payload
    <3>. QED
      BY <1>0, <1>1, <3>1, <3>2, <3>3 DEF LineOK, Contents
  <2>2. CASE work[w].crypt
    <3>1. work[w].buf \in Data
      BY Basics DEF Work
    <3>2. Payload(work[w]).v = work[w].buf.v
      BY <2>2, <3>1 DEF Payload, Seal, Data
    <3>. QED
      BY <1>0, <1>1, <3>2 DEF LineOK, Buffers
  <2>. QED
    BY <2>1, <2>2
<1>9. \A u \in Inode, q \in Path : Of(u, q)' => Of(u, q)
  <2> SUFFICES ASSUME NEW u \in Inode, NEW q \in Path, Of(u, q)' PROVE Of(u, q)
    OBVIOUS
  <2>1. CASE dir'[q] = u \/ \E j \in Id : dir'[j] = u /\ Listed(j)' /\ rows'[j].path = q
    BY <1>0, <1>1, <2>1 DEF Of, Listed
  <2>2. ASSUME NEW x \in Worker, work'[x].path = q,
               \/ u \in {work'[x].in, work'[x].out}
               \/ dir'[work'[x].id] = u
        PROVE  Of(u, q)
    <3>1. CASE x # w
      BY <1>0, <1>1, <2>2, <3>1 DEF Of
    <3>2. CASE x = w
      BY <1>0, <1>1, <2>2, <3>2, Basics DEF Of
    <3>. QED
      BY <3>1, <3>2
  <2>. QED
    BY <2>1, <2>2 DEF Of
<1>10. CASE \E q \in Path : Of(o, q)'
  <2>1. data'[o] = Payload(work[w])
    BY <1>5, <1>6, <1>10, OfStored
  <2>2. (data'[o]).v = Payload(work[w]).v
    BY <2>1
  <2>. QED
    BY <1>1, <1>2, <1>3, <1>4, <1>7, <1>8, <1>9, <2>2, LineNew DEF BornAt
<1>11. CASE \A q \in Path : ~Of(o, q)'
  BY <1>1, <1>3, <1>4, <1>7, <1>9, <1>11, LineSame
<1>. QED
  BY <1>10, <1>11

LEMMA LineUnlink ==
  ASSUME Shape, IdsOK, LineOK, NEW w \in Worker, Unlink(w)
  PROVE  LineOK'
<1>1. PICK n \in Name : dir'[n] = 0 /\ \A m \in Name \ {n} : dir'[m] = dir[m]
  BY UnlinkDoes, Basics
<1>2. Store(data) /\ rows' = rows /\ born' = born /\ (Goto(w, "commit") \/ Return(w))
  BY UnlinkDoes
<1>3. \A x \in Worker : \/ work'[x].path = NoPath /\ work'[x].op = "none"
                        \/ /\ work'[x].op = work[x].op /\ work'[x].id = work[x].id
                           /\ work'[x].path = work[x].path /\ work'[x].buf = work[x].buf
                           /\ work'[x].in = work[x].in /\ work'[x].out = work[x].out
  BY <1>2, GotoChanged, ReturnChanged, IdleFields
<1>4. Named'
  BY <1>1 DEF LineOK, Named
<1>5. Buffers'
  BY <1>2, <1>3, PathAssumption DEF LineOK, Buffers, BornAt
<1>6. \A o \in Inode, q \in Path : Of(o, q)' => Of(o, q)
  <2> SUFFICES ASSUME NEW o \in Inode, NEW q \in Path, Of(o, q)' PROVE Of(o, q)
    OBVIOUS
  <2>0. \A m \in Name : dir'[m] = o => dir[m] = o
    BY <1>1, Basics
  <2>1. CASE dir'[q] = o
    BY <2>0, <2>1, Basics DEF Of
  <2>2. CASE \E j \in Id : dir'[j] = o /\ Listed(j)' /\ rows'[j].path = q
    BY <1>2, <2>0, <2>2, Basics DEF Of, Listed
  <2>3. ASSUME NEW x \in Worker, work'[x].path = q,
               \/ o \in {work'[x].in, work'[x].out}
               \/ dir'[work'[x].id] = o
        PROVE  Of(o, q)
    <3>1. /\ work'[x].op = work[x].op /\ work'[x].id = work[x].id /\ work[x].path = q
          /\ work'[x].in = work[x].in /\ work'[x].out = work[x].out
      BY <1>3, <2>3, PathAssumption
    <3>2. work[x].id \in Name
      BY <3>1, Basics
    <3>. QED
      BY <2>0, <2>3, <3>1, <3>2 DEF Of
  <2>. QED
    BY <2>1, <2>2, <2>3 DEF Of
<1>7. \A x \in Worker : work'[x].path \in Path => work'[x].id \in Id
  BY <1>3, Basics
<1>8. \A o \in Inode, q \in Path : Of(o, q)' => data'[o] = data[o]
  BY <1>2, <1>7, OfStored
<1>. QED
  BY <1>2, <1>4, <1>5, <1>6, <1>8, LineSame

LEMMA LineCommit ==
  ASSUME Shape, IdsOK, LineOK, NEW w \in Worker, Commit(w)
  PROVE  LineOK'
<1>1. /\ work[w].op = "Quarantine" =>
           rows'[work[w].id].path = work[w].path /\ rows'[work[w].id] # NoRow
      /\ work[w].op # "Quarantine" => rows'[work[w].id] = NoRow
      /\ \A i \in Id \ {work[w].id} : rows'[i] = rows[i]
      /\ work'[w] = Idle /\ \A x \in Worker \ {w} : work'[x] = work[x]
      /\ UNCHANGED <<dir, data, born>>
  BY CommitDoes DEF files, history
<1>2. Named'
  BY <1>1 DEF LineOK, Named
<1>3. Buffers'
  BY <1>1, IdleFields, PathAssumption DEF LineOK, Buffers, BornAt
<1>4. \A o \in Inode, q \in Path : Of(o, q)' => Of(o, q)
  <2> SUFFICES ASSUME NEW o \in Inode, NEW q \in Path, Of(o, q)' PROVE Of(o, q)
    OBVIOUS
  <2>1. CASE dir'[q] = o
    BY <1>1, <2>1 DEF Of
  <2>2. ASSUME NEW j \in Id, dir'[j] = o, Listed(j)', rows'[j].path = q PROVE Of(o, q)
    <3>1. CASE j = work[w].id
      <4>1. work[w].op = "Quarantine" /\ work[w].path = q /\ dir[work[w].id] = o
        BY <1>1, <2>2, <3>1 DEF Listed
      <4>. QED
        BY <4>1 DEF Of
    <3>2. CASE j # work[w].id
      BY <1>1, <2>2, <3>2 DEF Of, Listed
    <3>. QED
      BY <3>1, <3>2
  <2>3. ASSUME NEW x \in Worker, work'[x].path = q,
               \/ o \in {work'[x].in, work'[x].out}
               \/ dir'[work'[x].id] = o
        PROVE  Of(o, q)
    <3>1. x # w
      BY <1>1, <2>3, IdleFields, PathAssumption
    <3>. QED
      BY <1>1, <2>3, <3>1 DEF Of
  <2>. QED
    BY <2>1, <2>2, <2>3 DEF Of
<1>. QED
  BY <1>1, <1>2, <1>3, <1>4, LineSame

LEMMA LineCrash ==
  ASSUME Shape, IdsOK, LineOK, Crash
  PROVE  LineOK'
<1>1. (\A w \in Worker : work'[w] = Idle) /\ Store(data) /\ UNCHANGED <<dir, rows, born>>
  BY CrashDoes
<1>2. Named'
  BY <1>1 DEF LineOK, Named
<1>3. Buffers'
  BY <1>1, IdleFields, PathAssumption DEF Buffers
<1>4. \A o \in Inode, q \in Path : Of(o, q)' => Of(o, q)
  BY <1>1, IdleFields, PathAssumption DEF Of, Listed
<1>5. \A o \in Inode, q \in Path : Of(o, q)' => data'[o] = data[o]
  <2>1. \A x \in Worker : work'[x].path \in Path => work'[x].id \in Id
    BY <1>1, IdleFields, PathAssumption
  <2>. QED
    BY <1>1, <2>1, OfStored
<1>. QED
  BY <1>1, <1>2, <1>3, <1>4, <1>5, LineSame

LEMMA BornStays ==
  ASSUME Shape, NEW p \in Path, born' = Append(born, p)
  PROVE  /\ \A v, q : BornAt(v, q) => BornAt(v, q)'
         /\ Len(born) + 1 \in DOMAIN born' /\ born'[Len(born) + 1] = p
<1>1. /\ born \in Seq(Path) /\ Len(born) \in Nat /\ DOMAIN born = 1 .. Len(born)
      /\ DOMAIN born' = 1 .. (Len(born) + 1) /\ born'[Len(born) + 1] = p
      /\ \A v \in 1 .. Len(born) : born'[v] = born[v]
  BY DEF Shape, TypeOK
<1>2. ASSUME NEW v, NEW q, BornAt(v, q) PROVE BornAt(v, q)'
  BY <1>1, <1>2 DEF BornAt
<1>3. Len(born) + 1 \in DOMAIN born' /\ born'[Len(born) + 1] = p
  BY <1>1
<1>. QED
  BY <1>2, <1>3

LEMMA LineWrite ==
  ASSUME Shape, IdsOK, LineOK, NEW p \in Path, NEW o \in Inode, UserWrite(p, o)
  PROVE  LineOK'
<1>1. /\ born' = Append(born, p)
      /\ dir'[p] = o /\ IF dir[p] = 0 THEN Free(o) ELSE o = dir[p]
      /\ \A n \in Name \ {p} : dir'[n] = dir[n]
      /\ data'[o] = Plain(Len(born) + 1) /\ \A u \in Inode \ {o} : data'[u] = data[u]
      /\ UNCHANGED <<rows, work>>
  BY WriteDoes
<1>2. Free(o) \/ Of(o, p)
  BY <1>1 DEF Of
<1>3. Named'
  <2> SUFFICES ASSUME NEW m \in Name, NEW n \in Name, dir'[m] = dir'[n], dir'[m] # 0 PROVE m = n
    BY DEF Named
  <2>. QED
    BY <1>1, Basics DEF LineOK, Named, Free
<1>4. Buffers'
  BY <1>1, BornStays DEF LineOK, Buffers
<1>5. BornAt(data[o].v, p)'
  BY <1>1, BornStays DEF Plain, BornAt
<1>6. ASSUME NEW u \in Inode, NEW q \in Path, Of(u, q)' PROVE Of(u, q) \/ (u = o /\ q = p)
  <2>1. CASE dir'[q] = u
    BY <1>1, <2>1, Basics DEF Of
  <2>2. CASE \E j \in Id : dir'[j] = u /\ Listed(j)' /\ rows'[j].path = q
    BY <1>1, <2>2, Basics DEF Of, Listed
  <2>3. CASE \E w \in Worker : /\ work'[w].path = q
                               /\ \/ u \in {work'[w].in, work'[w].out}
                                  \/ dir'[work'[w].id] = u
    <3>1. \A w \in Worker : work[w].path = q => dir'[work[w].id] = dir[work[w].id]
      BY <1>1, Basics
    <3>. QED
      BY <1>1, <2>3, <3>1 DEF Of
  <2>. QED
    BY <1>6, <2>1, <2>2, <2>3 DEF Of
<1>. QED
  BY <1>1, <1>2, <1>3, <1>4, <1>5, <1>6, BornStays, LineNew

LEMMA LineNext == ASSUME Shape, IdsOK, LineOK, [Next]_vars PROVE LineOK'
<1> USE DEF daemon, files, history
<1>1. ASSUME UNCHANGED <<dir, data, rows, work, born>> PROVE LineOK'
  BY <1>1 DEF LineOK, Named, Apart, Contents, Buffers, Of, BornAt, Listed
<1>2. CASE Boot \/ GenerateKey \/ SaveKey \/ UNCHANGED vars
  BY <1>1, <1>2 DEF Boot, GenerateKey, SaveKey, vars
<1>3. ASSUME NEW w \in Worker, NEW p \in Path, BeginQuarantine(w, p) PROVE LineOK'
  BY <1>3, TakeBegins, LineCall
<1>4. ASSUME NEW w \in Worker, NEW i \in Id, BeginRestore(w, i) PROVE LineOK'
  BY <1>4, GiveBegins, LineCall
<1>5. ASSUME NEW w \in Worker, NEW i \in Id, BeginDelete(w, i) PROVE LineOK'
  BY <1>5, DeleteBegins, LineCall, PathAssumption
<1>9. ASSUME NEW w \in Worker, UnlinkFails(w) PROVE LineOK'
  <2>1. Goto(w, "commit") \/ Return(w)
    BY <1>9 DEF UnlinkFails
  <2>2. UNCHANGED <<dir, data, rows, born>>
    BY <1>9 DEF UnlinkFails
  <2>3. CASE Goto(w, "commit")
    BY <2>2, <2>3, GotoChanged, Basics, LineCall
  <2>4. CASE Return(w)
    BY <2>2, <2>4, ReturnChanged, IdleFields, PathAssumption, LineCall
  <2>. QED
    BY <2>1, <2>3, <2>4
<1>6. ASSUME NEW w \in Worker, ReadFails(w) \/ FillFails(w) \/ CommitFails(w) PROVE LineOK'
  <2>1. Return(w) /\ UNCHANGED <<dir, rows, born>> /\ (Store(data) \/ data' = data)
    BY <1>6 DEF ReadFails, FillFails, CommitFails
  <2>. QED
    BY <2>1, ReturnChanged, IdleFields, PathAssumption, LineCall
<1>7. ASSUME NEW w \in Worker, Rename(w) PROVE LineOK'
  <2>1. CASE dir[Src(work[w])] # 0 /\ work[w].path \in Local
    BY <1>7, <2>1, LineRename
  <2>2. CASE ~(dir[Src(work[w])] # 0 /\ work[w].path \in Local)
    <3>1. Goto(w, "read") /\ UNCHANGED <<dir, rows, born>> /\ Store(data)
      BY <1>7, <2>2 DEF Rename
    <3>. QED
      BY <3>1, GotoChanged, Basics, LineCall
  <2>. QED
    BY <2>1, <2>2
<1>8. ASSUME NEW w \in Worker, \/ ReadSource(w) \/ (\E o \in Inode : CreateTarget(w, o))
                               \/ FillTarget(w) \/ Unlink(w) \/ Commit(w)
      PROVE  LineOK'
  BY <1>8, LineRead, LineCreate, LineFill, LineUnlink, LineCommit
<1>. QED
  BY <1>2, <1>3, <1>4, <1>5, <1>6, <1>7, <1>8, <1>9, LineCrash, LineWrite DEF Next, Step

---------------------------------------------------------------------------
(* Contents.                                                               *)

LEMMA PlainTyped ==
  ASSUME NEW v \in 0 .. MaxVersion
  PROVE  Plain(v) \in Data /\ Plain(v).v = v /\ Plain(v).seal = <<>>
  BY DEF Plain, Data

LEMMA SealPlain ==
  ASSUME NEW v, NEW k
  PROVE  /\ Seal(Plain(v), k) = [v |-> v, seal |-> <<k>>]
         /\ Open(Seal(Plain(v), k)) = Plain(v)
<1>1. Append(<< >>, k) = <<k>> /\ Len(<<k>>) = 1
  OBVIOUS
<1>2. Seal(Plain(v), k) = [v |-> v, seal |-> <<k>>]
  BY <1>1 DEF Seal, Plain
<1>3. SubSeq(<<k>>, 1, 0) = << >>
  OBVIOUS
<1>4. Open([v |-> v, seal |-> <<k>>]) = [v |-> v, seal |-> SubSeq(<<k>>, 1, Len(<<k>>) - 1)]
  BY DEF Open
<1>5. Len(<<k>>) - 1 = 0
  BY <1>1
<1>6. Open([v |-> v, seal |-> <<k>>]) = Plain(v)
  BY <1>3, <1>4, <1>5 DEF Plain
<1>. QED
  BY <1>2, <1>6

LEMMA SealedPlain ==
  ASSUME NEW v, NEW e \in BOOLEAN
  PROVE  Sealed(Plain(v), e).v = v
<1>1. Plain(v).v = v /\ \A k : Seal(Plain(v), k).v = v
  BY DEF Seal, Plain
<1>. QED
  BY <1>1 DEF Sealed

(* With no key on disk nothing is sealed. *)
LEMMA SealedNeedsKey ==
  ASSUME NEW v, Seal(Plain(v), keyFile) \in Data
  PROVE  keyFile # 0
<1>0. [v |-> v, seal |-> <<keyFile>>] \in Data
  BY SealPlain
<1>1. <<keyFile>> \in Seq(1 .. MaxKey)
  BY <1>0 DEF Data
<1>2. 1 \in DOMAIN <<keyFile>> /\ <<keyFile>>[1] = keyFile
  OBVIOUS
<1>3. keyFile \in 1 .. MaxKey
  BY <1>1, <1>2, ElementTyped
<1>. QED
  BY <1>3

(* What most steps have in common. *)
Grows ==
  /\ halfway \subseteq halfway' /\ released \subseteq released' /\ struck \subseteq struck'
  /\ UNCHANGED <<keyFile, encrypt>>
  /\ \A v, q : BornAt(v, q) => BornAt(v, q)'

LEMMA WasStays == Grows => \A v, p : Was(v, p) => Was(v, p)'
  BY DEF Grows, Was

---------------------------------------------------------------------------
(* A step about another path: what belongs to p stays as it is, but for a  *)
(* blob that is deleted on request.                                        *)
LEMMA FileStays ==
  ASSUME NEW p \in Path, FileOK(p), Grows, dir'[p] \in {dir[p], 0},
         dir'[p] # 0 => data'[dir[p]] = data[dir[p]],
         Filling(p) => Filling(p)'
  PROVE  FileOK(p)'
  BY WasStays DEF FileOK, Good

LEMMA BlobStays ==
  ASSUME NEW p \in Path, NEW i \in Id, BlobOK(i, p), Grows,
         Listed(i)' /\ rows'[i].path = p =>
           /\ Listed(i) /\ rows'[i] = rows[i]
           /\ dir'[i] = dir[i] \/ (dir'[i] = 0 /\ Committing(i)')
           /\ dir'[i] # 0 => data'[dir[i]] = data[dir[i]]
           /\ Committing(i) => Committing(i)' \/ i \in struck'
  PROVE  BlobOK(i, p)'
<1> SUFFICES ASSUME Listed(i)', rows'[i].path = p
    PROVE  /\ dir'[i] # 0 => Whole(data[dir[i]], p, rows[i].enc)'
           /\ dir'[i] = 0 => Committing(i)' \/ i \in struck'
  BY DEF BlobOK
<1>1. /\ Listed(i) /\ rows[i].path = p /\ rows'[i] = rows[i]
      /\ dir'[i] = dir[i] \/ (dir'[i] = 0 /\ Committing(i)')
      /\ dir'[i] # 0 => data'[dir[i]] = data[dir[i]]
      /\ Committing(i) => Committing(i)' \/ i \in struck'
  OBVIOUS
<1>2. ASSUME dir'[i] # 0 PROVE Whole(data[dir[i]], p, rows[i].enc)'
  <2>1. PICK v \in 0 .. MaxVersion : Was(v, p) /\ data[dir[i]] = Sealed(Plain(v), rows[i].enc)
    BY <1>1, <1>2 DEF BlobOK, Whole
  <2>2. Was(v, p)'
    BY <2>1, WasStays
  <2>3. data'[dir'[i]] = Sealed(Plain(v), rows[i].enc)'
    BY <1>1, <1>2, <2>1 DEF Sealed, Seal, Plain, Grows
  <2>. QED
    BY <2>2, <2>3 DEF Whole
<1>3. ASSUME dir'[i] = 0 PROVE Committing(i)' \/ i \in struck'
  BY <1>1, <1>3 DEF BlobOK, Grows
<1>. QED
  BY <1>2, <1>3

LEMMA TakeStays ==
  ASSUME NEW p \in Path, NEW w \in Worker, TakeOK(work[w], p), Grows,
         work'[w] = work[w],
         dir'[p] \in {dir[p], 0},
         dir'[p] # 0 => data'[dir[p]] = data[dir[p]],
         ~work[w].crypt /\ work[w].pc \in {"create", "fill"} =>
           data'[work[w].in] = data[work[w].in],
         work[w].pc \in {"unlink", "commit"} =>
           dir'[work[w].id] = dir[work[w].id] /\ data'[dir[work[w].id]] = data[dir[work[w].id]],
         ~work[w].crypt /\ work[w].pc \in {"create", "fill"} =>
           \A x \in Worker : work'[x].path = p /\ work'[x].pc = "fill" =>
             work'[x] = work[x] \/ work'[x].out # work[w].in
  PROVE  TakeOK(work[w], p)'
<1>1. ASSUME work[w].pc \in {"create", "fill"}
      PROVE  Good(Load(work[w]), p)' /\ (dir'[p] # 0 => data'[dir'[p]] = Load(work[w])')
  <2>1. Load(work[w])' = Load(work[w])
    BY <1>1 DEF Load
  <2>2. Good(Load(work[w]), p) /\ (dir[p] # 0 => data[dir[p]] = Load(work[w]))
    BY <1>1 DEF TakeOK
  <2>3. Good(Load(work[w]), p)'
    BY <2>1, <2>2, WasStays DEF Good
  <2>. QED
    BY <2>1, <2>2, <2>3
<1>2. ASSUME work[w].pc \in {"create", "fill"}, ~work[w].crypt,
             NEW x \in Worker, work'[x].path = p, work'[x].pc = "fill"
      PROVE  work'[x].out # work[w].in
  BY <1>2 DEF TakeOK
<1>3. ASSUME work[w].pc \in {"unlink", "commit"}
      PROVE  Whole(data[dir[work[w].id]], p, encrypt)'
  <2>1. PICK v \in 0 .. MaxVersion : Was(v, p) /\ data[dir[work[w].id]] = Sealed(Plain(v), encrypt)
    BY <1>3 DEF TakeOK, Whole
  <2>2. Was(v, p)'
    BY <2>1, WasStays
  <2>3. data'[dir'[work'[w].id]] = Sealed(Plain(v), encrypt)'
    BY <1>3, <2>1 DEF Sealed, Seal, Plain, Grows
  <2>. QED
    BY <2>2, <2>3 DEF Whole
<1>4. ASSUME work[w].pc = "unlink", dir'[p] # 0
      PROVE  data'[dir'[work[w].id]] = Sealed(data[dir[p]], encrypt)'
  <2>1. data[dir[work[w].id]] = Sealed(data[dir[p]], encrypt)
    BY <1>4 DEF TakeOK
  <2>. QED
    BY <1>4, <2>1 DEF Sealed, Seal, Grows
<1>. QED
  BY <1>1, <1>2, <1>3, <1>4 DEF TakeOK

LEMMA GiveStays ==
  ASSUME NEW p \in Path, NEW w \in Worker, GiveOK(work[w], p), Grows,
         work'[w] = work[w], dir'[p] = dir[p],
         dir[p] # 0 => data'[dir[p]] = data[dir[p]],
         ~work[w].crypt /\ work[w].pc \in {"create", "fill"} =>
           data'[work[w].in] = data[work[w].in],
         \/ /\ dir'[work[w].id] = dir[work[w].id]
            /\ dir[work[w].id] # 0 => data'[dir[work[w].id]] = data[dir[work[w].id]]
         \/ dir'[work[w].id] = 0 /\ data[dir[work[w].id]].v \in released' \cup {0},
         work[w].crypt \in BOOLEAN
  PROVE  GiveOK(work[w], p)'
<1>1. ASSUME work[w].pc \in {"create", "fill"}
      PROVE  /\ Good(Load(work[w]), p)'
             /\ dir'[work[w].id] # 0 => data'[dir'[work[w].id]] = Sealed(Load(work[w]), work[w].crypt)'
             /\ dir'[work[w].id] = 0 => Load(work[w])'.v \in released' \cup {0}
  <2>1. Load(work[w])' = Load(work[w])
    BY <1>1 DEF Load
  <2>2. Good(Load(work[w]), p)
    BY <1>1 DEF GiveOK
  <2>3. Good(Load(work[w]), p)'
    BY <2>1, <2>2, WasStays DEF Good
  <2>4. /\ dir[work[w].id] # 0 => data[dir[work[w].id]] = Sealed(Load(work[w]), work[w].crypt)
        /\ dir[work[w].id] = 0 => Load(work[w]).v \in released \cup {0}
    BY <1>1 DEF GiveOK
  <2>5. PICK v : Load(work[w]) = Plain(v)
    BY <2>2 DEF Good
  <2>6. Sealed(Load(work[w]), work[w].crypt).v = Load(work[w]).v
    BY <2>5, SealedPlain DEF Plain
  <2>7. Sealed(Load(work[w]), work[w].crypt)' = Sealed(Load(work[w]), work[w].crypt)
    BY <2>1 DEF Sealed, Seal, Grows
  <2>8. dir'[work[w].id] # 0 => data'[dir'[work[w].id]] = Sealed(Load(work[w]), work[w].crypt)'
    BY <2>4, <2>7
  <2>9. dir'[work[w].id] = 0 => Load(work[w])'.v \in released' \cup {0}
    BY <2>1, <2>4, <2>6 DEF Grows
  <2>. QED
    BY <2>3, <2>8, <2>9
<1>2. ASSUME work[w].pc \in {"create", "fill"}, ~work[w].crypt PROVE work[w].in # dir'[p]
  BY <1>2 DEF GiveOK
<1>3. work[w].pc = "fill" => dir'[p] # 0 /\ work[w].out = dir'[p] /\ data'[dir'[p]] = Torn
  BY DEF GiveOK
<1>4. work[w].pc \in {"unlink", "commit"} => dir'[p] # 0
  BY DEF GiveOK
<1>5. ASSUME work[w].pc = "unlink", dir'[work[w].id] # 0
      PROVE  data'[dir'[work[w].id]] = Sealed(data[dir[p]], work[w].crypt)'
  <2>1. data[dir[work[w].id]] = Sealed(data[dir[p]], work[w].crypt) /\ dir[p] # 0
    BY <1>5 DEF GiveOK
  <2>. QED
    BY <1>5, <2>1 DEF Sealed, Seal, Grows
<1>6. ASSUME work[w].pc \in {"rename", "read"}, dir'[work[w].id] # 0
      PROVE  Whole(data[dir[work[w].id]], p, work[w].crypt)'
  <2>1. PICK v \in 0 .. MaxVersion :
          Was(v, p) /\ data[dir[work[w].id]] = Sealed(Plain(v), work[w].crypt)
    BY <1>6 DEF GiveOK, Whole
  <2>2. Was(v, p)'
    BY <2>1, WasStays
  <2>3. data'[dir'[work'[w].id]] = Sealed(Plain(v), work[w].crypt)'
    BY <1>6, <2>1 DEF Sealed, Seal, Plain, Grows
  <2>. QED
    BY <2>2, <2>3 DEF Whole
<1>. QED
  BY <1>1, <1>2, <1>3, <1>4, <1>5, <1>6 DEF GiveOK

(* The ids whose blob is one of p: what is listed for it, and what a       *)
(* restore has in its hands. *)
Blobs(p) == {i \in Id : \/ Listed(i) /\ rows[i].path = p
                        \/ \E x \in Worker : /\ work[x].op = "Restore"
                                              /\ work[x].path = p /\ work[x].id = i}

LEMMA Elsewhere ==
  ASSUME Shape, IdsOK, IdsOK', NEW p \in Path, CleanOK(p), Grows,
         dir'[p] = dir[p],
         \A u \in Inode : Of(u, p) /\ Of(u, p)' => data'[u] = data[u],
         \A x \in Worker : work[x].path = p \/ work'[x].path = p => work'[x] = work[x],
         \A x \in Worker : work[x].path = p /\ work[x].op = "Quarantine" =>
           dir'[work[x].id] = dir[work[x].id],
         \A i \in Blobs(p) :
           /\ Listed(i)' => /\ rows'[i] = rows[i]
                            /\ Committing(i) => Committing(i)' \/ i \in struck'
           /\ \/ dir'[i] = dir[i]
              \/ dir'[i] = 0 /\ data[dir[i]].v \in released' \cup {0} /\ Committing(i)',
         \A i \in Id : Listed(i)' /\ rows'[i].path = p => Listed(i) /\ rows[i].path = p
  PROVE  CleanOK(p)'
<1>1. FileOK(p)'
  <2>1. dir'[p] # 0 => data'[dir[p]] = data[dir[p]]
    <3>1. dir[p] # 0 => dir[p] \in Inode
      BY Basics DEF Inode
    <3>2. Of(dir[p], p) /\ (dir'[p] = dir[p] => Of(dir[p], p)')
      BY DEF Of
    <3>. QED
      BY <3>1, <3>2
  <2>2. Filling(p) => Filling(p)'
    BY DEF Filling
  <2>3. FileOK(p)
    BY DEF CleanOK
  <2>. QED
    BY <2>1, <2>2, <2>3, FileStays
<1>2. ASSUME NEW i \in Id PROVE BlobOK(i, p)'
  <2>1. ASSUME Listed(i)', rows'[i].path = p
        PROVE  /\ Listed(i) /\ rows'[i] = rows[i]
               /\ dir'[i] = dir[i] \/ (dir'[i] = 0 /\ Committing(i)')
               /\ dir'[i] # 0 => data'[dir[i]] = data[dir[i]]
               /\ Committing(i) => Committing(i)' \/ i \in struck'
    <3>1. Listed(i) /\ rows[i].path = p /\ i \in Blobs(p)
      BY <2>1 DEF Blobs
    <3>2. dir[i] # 0 => dir[i] \in Inode
      BY Basics DEF Inode
    <3>3. dir'[i] = dir[i] => Of(dir[i], p) /\ Of(dir[i], p)'
      BY <2>1, <3>1 DEF Of
    <3>. QED
      BY <2>1, <3>1, <3>2, <3>3
  <2>2. BlobOK(i, p)
    BY DEF CleanOK
  <2>. QED
    BY <2>1, <2>2, BlobStays
<1>3. ASSUME NEW x \in Worker, work'[x].path = p PROVE CallClean(x, p)'
  <2>1. work'[x] = work[x] /\ work[x].path = p /\ CallClean(x, p)
    BY <1>3 DEF CleanOK
  <2>2. CallOK(work[x]) /\ CallIds(x) /\ CallIds(x)' /\ work[x] \in Work
    BY Basics DEF IdsOK
  <2>3. ~work[x].crypt /\ work[x].pc \in {"create", "fill"} =>
           data'[work[x].in] = data[work[x].in]
    <3>1. ~work[x].crypt /\ work[x].pc \in {"create", "fill"} => work[x].in \in Inode
      BY <2>2 DEF CallOK
    <3>2. Of(work[x].in, p)
      BY <2>1 DEF Of
    <3>3. \A o : o = work[x].in => Of(o, p)'
      BY <2>1 DEF Of
    <3>. QED
      BY <3>1, <3>2, <3>3
  <2>4. dir'[p] # 0 => data'[dir[p]] = data[dir[p]]
    <3>1. dir[p] # 0 => dir[p] \in Inode
      BY Basics DEF Inode
    <3>2. \A o : o = dir[p] => Of(o, p) /\ Of(o, p)'
      BY DEF Of
    <3>. QED
      BY <3>1, <3>2
  <2>5. ASSUME work[x].op = "Quarantine" PROVE TakeOK(work[x], p)'
    <3>1. TakeOK(work[x], p) /\ work[x].id \in Id
      BY <2>1, <2>5, Basics DEF CallClean
    <3>2. work[x].pc \in {"unlink", "commit"} =>
            dir'[work[x].id] = dir[work[x].id] /\ data'[dir[work[x].id]] = data[dir[work[x].id]]
      <4>1. work[x].pc \in {"unlink", "commit"} => dir[work[x].id] \in Inode
        BY <2>2, <2>5, <3>1, Basics DEF CallIds, TakeIds, Inode
      <4>2. dir'[work[x].id] = dir[work[x].id]
        BY <2>1, <2>5
      <4>3. \A o : o = dir[work[x].id] => Of(o, p) /\ Of(o, p)'
        BY <2>1, <2>5, <4>2 DEF Of
      <4>. QED
        BY <4>1, <4>2, <4>3
    <3>3. \A y \in Worker : work'[y].path = p /\ work'[y].pc = "fill" =>
            work'[y] = work[y] \/ work'[y].out # work[x].in
      OBVIOUS
    <3>. QED
      BY <2>1, <2>3, <2>4, <3>1, <3>2, <3>3, TakeStays
  <2>6. ASSUME work[x].op = "Restore" PROVE Alone(x)' /\ GiveOK(work[x], p)'
    <3>1. Alone(x) /\ GiveOK(work[x], p) /\ work[x].id \in Id
      BY <2>1, <2>2, <2>6, Basics DEF CallClean, CallIds
    <3>2. Alone(x)'
      BY <2>1, <3>1 DEF Alone
    <3>3. \/ /\ dir'[work[x].id] = dir[work[x].id]
             /\ dir[work[x].id] # 0 => data'[dir[work[x].id]] = data[dir[work[x].id]]
          \/ dir'[work[x].id] = 0 /\ data[dir[work[x].id]].v \in released' \cup {0}
      <4>1. work[x].id \in Blobs(p)
        BY <2>1, <2>6, <3>1 DEF Blobs
      <4>2. CASE dir'[work[x].id] = dir[work[x].id] /\ dir[work[x].id] # 0
        <5>1. dir[work[x].id] \in Inode
          BY <3>1, <4>2, Basics DEF Inode
        <5>2. \A o : o = dir[work[x].id] => Of(o, p) /\ Of(o, p)'
          BY <2>1, <4>2 DEF Of
        <5>. QED
          BY <4>2, <5>1, <5>2
      <4>. QED
        BY <4>1, <4>2
    <3>4. work[x].crypt \in BOOLEAN
      BY <2>2 DEF Work
    <3>. QED
      BY <2>1, <2>3, <2>4, <3>1, <3>2, <3>3, <3>4, GiveStays
  <2>. QED
    BY <2>1, <2>5, <2>6 DEF CallClean
<1>. QED
  BY <1>1, <1>2, <1>3 DEF CleanOK

(* A step of a call on another path, or of a delete. *)
LEMMA ElseCall ==
  ASSUME Shape, IdsOK, IdsOK', NEW p \in Path, CleanOK(p), Grows, NEW w \in Worker,
         work[w].path # p, work'[w].path # p, \A x \in Worker \ {w} : work'[x] = work[x],
         dir'[p] = dir[p],
         \A u \in Inode : Of(u, p) /\ Of(u, p)' => data'[u] = data[u],
         \A i \in Id \ {work[w].id} : dir'[i] = dir[i] /\ rows'[i] = rows[i],
         work[w].id \in Id /\ rows'[work[w].id] # NoRow =>
           rows'[work[w].id] = rows[work[w].id] \/ rows'[work[w].id].path # p,
         work[w].op = "Delete" =>
           /\ \/ dir'[work[w].id] = dir[work[w].id]
              \/ /\ dir'[work[w].id] = 0 /\ data[dir[work[w].id]].v \in released' \cup {0}
                 /\ work'[w].id = work[w].id /\ work'[w].pc = "commit"
           /\ rows'[work[w].id] # NoRow => rows'[work[w].id] = rows[work[w].id]
           /\ work[w].pc = "commit" => rows'[work[w].id] = NoRow \/ work[w].id \in struck'
  PROVE  CleanOK(p)'
<1>1. \A x \in Worker : CallIds(x) /\ (work[x].op # "none" => work[x].id \in Id)
  BY Basics
<1>2. ASSUME NEW i \in Blobs(p)
      PROVE  i # work[w].id \/ work[w].op = "Delete"
  <2>0. CASE work[w].op \in {"Quarantine", "Restore"} /\ i = work[w].id
    <3>1. CallIds(w)
      BY <1>1
    <3>2. CASE Listed(i) /\ rows[i].path = p
      BY <2>0, <3>1, <3>2 DEF CallIds, TakeIds, GiveIds
    <3>3. ASSUME NEW x \in Worker, work[x].op = "Restore", work[x].path = p, work[x].id = i
          PROVE  FALSE
      BY <2>0, <3>1, <3>3 DEF CallIds, TakeIds, IdsOK, GivesAgree
    <3>. QED
      BY <3>2, <3>3 DEF Blobs
  <2>1. CallIds(w) /\ work[w].op \in {"none", "Quarantine", "Restore", "Delete"}
    BY Basics
  <2>2. work[w].op = "none" => work[w].id = 0 /\ 0 \notin Id
    BY <2>1, Basics, IdleFields DEF CallIds
  <2>. QED
    BY <1>2, <2>0, <2>1, <2>2 DEF Blobs
<1>3. ASSUME NEW x \in Worker, work[x].path = p, work[x].op = "Quarantine"
      PROVE  dir'[work[x].id] = dir[work[x].id]
  <2>1. x # w /\ TakeIds(x) /\ work[x].id \in Id
    BY <1>1, <1>3 DEF CallIds
  <2>2. work[w].id # work[x].id
    BY <2>1 DEF TakeIds
  <2>. QED
    BY <2>1, <2>2
<1>4. ASSUME NEW i \in Blobs(p)
      PROVE  /\ Listed(i)' => /\ rows'[i] = rows[i]
                              /\ Committing(i) => Committing(i)' \/ i \in struck'
             /\ \/ dir'[i] = dir[i]
                \/ dir'[i] = 0 /\ data[dir[i]].v \in released' \cup {0} /\ Committing(i)'
  <2>1. CASE i # work[w].id
    <3>1. Committing(i) => Committing(i)'
      BY <2>1 DEF Committing
    <3>. QED
      BY <1>4, <2>1, <3>1 DEF Blobs
  <2>2. CASE i = work[w].id
    <3>1. work[w].op = "Delete"
      BY <1>2, <1>4, <2>2
    <3>2. \/ dir'[i] = dir[i]
          \/ dir'[i] = 0 /\ data[dir[i]].v \in released' \cup {0} /\ Committing(i)'
      BY <2>2, <3>1 DEF Committing
    <3>3. ASSUME Listed(i)', Committing(i) PROVE Committing(i)' \/ i \in struck'
      <4>1. PICK x \in Worker : work[x].pc = "commit" /\ work[x].id = i
        BY <3>3 DEF Committing
      <4>2. CASE x = w
        BY <2>2, <3>1, <3>3, <4>1, <4>2 DEF Listed, Grows
      <4>3. CASE x # w
        BY <4>1, <4>3 DEF Committing
      <4>. QED
        BY <4>2, <4>3
    <3>4. Listed(i)' => rows'[i] = rows[i]
      BY <2>2, <3>1 DEF Listed
    <3>. QED
      BY <3>2, <3>3, <3>4
  <2>. QED
    BY <2>1, <2>2
<1>5. ASSUME NEW i \in Id, Listed(i)', rows'[i].path = p PROVE Listed(i) /\ rows[i].path = p
  <2>1. rows'[i] = rows[i]
    BY <1>5 DEF Listed
  <2>. QED
    BY <1>5, <2>1 DEF Listed
<1>6. \A x \in Worker : work[x].path = p \/ work'[x].path = p => work'[x] = work[x]
  OBVIOUS
<1>. QED
  BY <1>3, <1>4, <1>5, <1>6, Elsewhere

(* A step of a quarantine of p: only other quarantines of it are under way. *)
LEMMA TakeHere ==
  ASSUME Shape, IdsOK, LineOK, NEW p \in Path, CleanOK(p), Grows, NEW w \in Worker,
         \A x \in Worker : work[x].path = p => work[x].op = "Quarantine",
         \A x \in Worker \ {w} : work'[x] = work[x],
         dir'[p] \in {dir[p], 0},
         \A i \in Id \ {work[w].id} : dir'[i] = dir[i] /\ rows'[i] = rows[i],
         \A u \in Inode : /\ Of(u, p) /\ (work[w].pc = "fill" => u # work[w].out)
                          /\ \/ \E n \in Name : dir'[n] = u
                             \/ \E x \in Worker : work'[x].in = u
                          => data'[u] = data[u],
         work[w].op \in {"none", "Quarantine"},
         work'[w].pc = "fill" => Free(work'[w].out),
         \A i \in Id : i = work[w].id => BlobOK(i, p)',
         work'[w].path = p => work'[w].op = "Quarantine" /\ TakeOK(work[w], p)'
  PROVE  CleanOK(p)'
<1>1. /\ CallIds(w) /\ work[w].pc = "fill" => work[w].op = "Quarantine"
      /\ dir \in [Name -> 0 .. MaxInode] /\ p \in Name
  BY Basics, IdleFields DEF CallIds
<1>2. work[w].pc = "fill" => work[w].out = dir[work[w].id] /\ work[w].id \in Id
  BY <1>1, Basics DEF CallIds, TakeIds
<1>3. ASSUME NEW n \in Name, n # work[w].id, dir[n] # 0, Of(dir[n], p), dir'[n] = dir[n]
      PROVE  data'[dir[n]] = data[dir[n]]
  <2>1. dir[n] \in Inode
    BY <1>3, <1>1 DEF Inode
  <2>2. work[w].pc = "fill" => dir[n] # work[w].out
    BY <1>2, <1>3, Basics DEF LineOK, Named
  <2>. QED
    BY <1>3, <2>1, <2>2
<1>4. FileOK(p)'
  <2>1. dir'[p] # 0 => data'[dir[p]] = data[dir[p]]
    <3>1. Of(dir[p], p) /\ (work[w].op = "Quarantine" => p # work[w].id)
      BY <1>1, Basics DEF Of
    <3>2. p # work[w].id
      BY <3>1, <1>1, Basics, IdleFields, NameAssumption DEF CallIds
    <3>. QED
      BY <1>1, <1>3, <3>1, <3>2
  <2>2. ~Filling(p) /\ FileOK(p)
    BY DEF Filling, CleanOK
  <2>. QED
    BY <2>1, <2>2, FileStays
<1>5. ASSUME NEW i \in Id, i # work[w].id PROVE BlobOK(i, p)'
  <2>1. dir'[i] = dir[i] /\ rows'[i] = rows[i] /\ BlobOK(i, p)
    BY <1>5 DEF CleanOK
  <2>2. Committing(i) => Committing(i)'
    BY <1>5 DEF Committing
  <2>3. ASSUME Listed(i)', rows'[i].path = p
        PROVE  Listed(i) /\ (dir'[i] # 0 => data'[dir[i]] = data[dir[i]])
    <3>1. Listed(i) /\ rows[i].path = p
      BY <2>1, <2>3 DEF Listed
    <3>2. Of(dir[i], p)
      BY <3>1 DEF Of
    <3>. QED
      BY <1>3, <1>5, <2>1, <3>1, <3>2, Basics
  <2>. QED
    BY <2>1, <2>2, <2>3, BlobStays
<1>6. ASSUME NEW x \in Worker, x # w, work'[x].path = p PROVE CallClean(x, p)'
  <2>1. work'[x] = work[x] /\ work[x].op = "Quarantine" /\ TakeOK(work[x], p) /\ work[x].path = p
    BY <1>6 DEF CleanOK, CallClean
  <2>2. TakeIds(x) /\ work[x].id \in Id /\ CallOK(work[x])
    BY <2>1, Basics DEF CallIds
  <2>3. work[x].id # work[w].id
    BY <1>6, <2>2 DEF TakeIds
  <2>4. dir'[p] # 0 => data'[dir[p]] = data[dir[p]]
    <3>1. Of(dir[p], p)
      BY DEF Of
    <3>2. p # work[w].id
      BY <1>1, Basics, IdleFields, NameAssumption DEF CallIds
    <3>. QED
      BY <1>1, <1>3, <3>1, <3>2
  <2>5. ASSUME ~work[x].crypt, work[x].pc \in {"create", "fill"}
        PROVE  data'[work[x].in] = data[work[x].in]
    <3>1. work[x].in \in Inode /\ Of(work[x].in, p)
      BY <2>1, <2>2, <2>5 DEF CallOK, Of
    <3>2. work[w].pc = "fill" => work[x].in # work[w].out
      <4>1. CASE work[w].path = p
        BY <2>1, <2>5, <4>1 DEF TakeOK
      <4>2. CASE work[w].path # p
        <5>1. ASSUME work[w].pc = "fill" PROVE work[w].path \in Path /\ Of(work[w].out, work[w].path) /\ work[w].out \in Inode
          BY <1>1, <5>1, Basics DEF Of, CallOK
        <5>. QED
          BY <3>1, <4>2, <5>1 DEF LineOK, Apart
      <4>. QED
        BY <4>1, <4>2
    <3>3. \E y \in Worker : work'[y].in = work[x].in
      BY <2>1
    <3>. QED
      BY <3>1, <3>2, <3>3
  <2>6. ASSUME work[x].pc \in {"unlink", "commit"}
        PROVE  dir'[work[x].id] = dir[work[x].id] /\ data'[dir[work[x].id]] = data[dir[work[x].id]]
    <3>1. dir'[work[x].id] = dir[work[x].id] /\ dir[work[x].id] # 0 /\ work[x].id \in Name
      BY <2>2, <2>3, <2>6, Basics DEF TakeIds
    <3>2. Of(dir[work[x].id], p)
      BY <2>1 DEF Of
    <3>. QED
      BY <1>3, <2>3, <3>1, <3>2
  <2>7. ASSUME ~work[x].crypt, work[x].pc \in {"create", "fill"},
               NEW y \in Worker, work'[y].path = p, work'[y].pc = "fill"
        PROVE  work'[y] = work[y] \/ work'[y].out # work[x].in
    <3>1. CASE y # w
      BY <3>1
    <3>2. CASE y = w
      BY <2>7, <3>2 DEF Free
    <3>. QED
      BY <3>1, <3>2
  <2>8. TakeOK(work[x], p)'
    BY <2>1, <2>4, <2>5, <2>6, <2>7, TakeStays
  <2>. QED
    BY <2>1, <2>8 DEF CallClean
<1>7. work'[w].path = p => CallClean(w, p)'
  BY DEF CallClean
<1>8. \A i \in Id : BlobOK(i, p)'
  BY <1>5
<1>. QED
  BY <1>4, <1>6, <1>7, <1>8 DEF CleanOK

(* A step of a restore to p, which is alone there. *)
LEMMA GiveHere ==
  ASSUME Shape, IdsOK, NEW p \in Path, CleanOK(p), Grows, NEW w \in Worker,
         \A x \in Worker \ {w} : work[x].path # p /\ work'[x] = work[x],
         \A i \in Id \ {work[w].id} : /\ dir'[i] = dir[i] /\ rows'[i] = rows[i]
                                      /\ Listed(i) /\ rows[i].path = p /\ dir[i] # 0 =>
                                           data'[dir[i]] = data[dir[i]],
         FileOK(p)', \A i \in Id : i = work[w].id => BlobOK(i, p)',
         work'[w].path = p => work'[w].op = "Restore" /\ GiveOK(work[w], p)'
  PROVE  CleanOK(p)'
<1>1. ASSUME NEW i \in Id, i # work[w].id PROVE BlobOK(i, p)'
  <2>1. dir'[i] = dir[i] /\ rows'[i] = rows[i] /\ BlobOK(i, p)
    BY <1>1 DEF CleanOK
  <2>2. Committing(i) => Committing(i)'
    BY <1>1 DEF Committing
  <2>3. ASSUME Listed(i)', rows'[i].path = p
        PROVE  Listed(i) /\ (dir'[i] # 0 => data'[dir[i]] = data[dir[i]])
    BY <1>1, <2>1, <2>3 DEF Listed
  <2>. QED
    BY <2>1, <2>2, <2>3, BlobStays
<1>2. \A i \in Id : BlobOK(i, p)'
  BY <1>1
<1>3. \A x \in Worker : work'[x].path = p => x = w
  OBVIOUS
<1>4. work'[w].path = p => CallClean(w, p)'
  BY <1>3 DEF CallClean, Alone
<1>. QED
  BY <1>2, <1>3, <1>4 DEF CleanOK

---------------------------------------------------------------------------
(* Clean paths, action by action.                                          *)

LEMMA GrowsSame ==
  ASSUME halfway \subseteq halfway', released \subseteq released', struck \subseteq struck',
         UNCHANGED <<keyFile, encrypt, born>>
  PROVE  Grows
  BY DEF Grows, BornAt

LEMMA PathsInit == Init => PathsOK
<1> SUFFICES ASSUME Init, NEW p \in Path PROVE CleanOK(p)
  BY DEF PathsOK
<1>1. dir[p] = 0 /\ (\A i \in Id : ~Listed(i)) /\ \A w \in Worker : work[w].path # p
  BY IdleFields, PathAssumption DEF Init, Name, Listed
<1>. QED
  BY <1>1 DEF CleanOK, FileOK, BlobOK

(* Nothing that counts changes. *)
LEMMA PathSame ==
  ASSUME NEW p \in Path, CleanOK(p),
         UNCHANGED <<files, rows, keyFile, encrypt, work, born, halfway, released, struck>>
  PROVE  CleanOK(p)'
<1>1. FileOK(p)'
  BY DEF CleanOK, FileOK, Filling, Good, Was, BornAt, files
<1>2. \A i \in Id : BlobOK(i, p)'
  BY DEF CleanOK, BlobOK, Whole, Sealed, Was, BornAt, Listed, Committing, files
<1>3. ASSUME NEW w \in Worker, work[w].path = p PROVE CallClean(w, p)'
  <2>1. CallClean(w, p)
    BY <1>3 DEF CleanOK
  <2>. QED
    BY <2>1 DEF CallClean, TakeOK, GiveOK, Alone, Load, Good, Whole, Sealed, Was, BornAt, files
<1>. QED
  BY <1>1, <1>2, <1>3 DEF CleanOK

LEMMA PathTake ==
  ASSUME Shape, IdsOK, IdsOK', LineOK, NEW p \in Path, CleanOK(p), p \notin contested',
         NEW w \in Worker, NEW q \in Path, BeginQuarantine(w, q)
  PROVE  CleanOK(p)'
<1>1. /\ work[w] = Idle /\ work'[w].op = "Quarantine" /\ work'[w].path = q
      /\ work'[w].pc \in {"read", "rename"}
      /\ \A x \in Worker \ {w} : work'[x] = work[x]
      /\ UNCHANGED <<dir, data, rows, released, halfway, struck, keyFile, encrypt, born>>
      /\ q \notin contested' => \A x \in Worker : work[x].path = q => work[x].op # "Restore"
  BY TakeBegins DEF files, daemon
<1>2. Grows
  BY <1>1, GrowsSame
<1>3. work[w].id = 0 /\ work[w].path = NoPath /\ work[w].op = "none" /\ work[w].pc = "idle" /\ 0 \notin Id
  BY <1>1, IdleFields, Basics
<1>4. CASE q # p
  BY <1>1, <1>2, <1>3, <1>4, PathAssumption, ElseCall
<1>5. CASE q = p
  <2>1. \A x \in Worker : work[x].path = p => work[x].op = "Quarantine"
    BY <1>1, <1>5, Basics
  <2>2. TakeOK(work[w], p)'
    BY <1>1 DEF TakeOK
  <2>. QED
    BY <1>1, <1>2, <1>3, <2>1, <2>2, TakeHere
<1>. QED
  BY <1>4, <1>5

LEMMA PathGive ==
  ASSUME Shape, IdsOK, IdsOK', EncOK, LineOK, NEW p \in Path, CleanOK(p), p \notin contested',
         NEW w \in Worker, NEW j \in Id, BeginRestore(w, j)
  PROVE  CleanOK(p)'
<1>1. /\ work[w] = Idle /\ work'[w].op = "Restore" /\ work'[w].path = rows[j].path
      /\ work'[w].pc \in {"read", "rename"} /\ work'[w].id = j /\ Listed(j) /\ phase = "up"
      /\ work'[w].crypt = (rows[j].enc /\ key # 0)
      /\ \A x \in Worker \ {w} : work'[x] = work[x]
      /\ UNCHANGED <<dir, data, rows, released, halfway, struck, keyFile, encrypt, born>>
      /\ rows[j].path \notin contested' => \A x \in Worker : work[x].path # rows[j].path
  BY GiveBegins DEF files, daemon
<1>2. Grows
  BY <1>1, GrowsSame
<1>3. work[w].id = 0 /\ work[w].path = NoPath /\ work[w].op = "none" /\ work[w].pc = "idle" /\ 0 \notin Id
  BY <1>1, IdleFields, Basics
<1>4. CASE rows[j].path # p
  BY <1>1, <1>2, <1>3, <1>4, PathAssumption, ElseCall
<1>5. CASE rows[j].path = p
  <2>1. \A x \in Worker : work[x].path # p
    BY <1>1, <1>5
  <2>2. GiveOK(work[w], p)'
    <3>1. work'[w].crypt = rows[j].enc
      BY <1>1, Basics DEF EncOK, Row
    <3>2. dir[j] # 0 => Whole(data[dir[j]], p, rows[j].enc)
      BY <1>1, <1>5 DEF CleanOK, BlobOK
    <3>3. \A e : Whole(data[dir[j]], p, e) => Whole(data[dir[j]], p, e)'
      BY <1>1, <1>2, WasStays DEF Whole, Sealed, Seal
    <3>. QED
      BY <1>1, <3>1, <3>2, <3>3 DEF GiveOK
  <2>3. FileOK(p)'
    <3>1. Filling(p) => Filling(p)'
      BY <2>1 DEF Filling
    <3>. QED
      BY <1>1, <1>2, <3>1, FileStays DEF CleanOK
  <2>. QED
    BY <1>1, <1>2, <1>3, <2>1, <2>2, <2>3, GiveHere
<1>. QED
  BY <1>4, <1>5

LEMMA PathDelete ==
  ASSUME Shape, IdsOK, IdsOK', LineOK, NEW p \in Path, CleanOK(p),
         NEW w \in Worker, NEW j \in Id, BeginDelete(w, j)
  PROVE  CleanOK(p)'
<1>1. /\ work[w] = Idle /\ work'[w].path = NoPath
      /\ \A x \in Worker \ {w} : work'[x] = work[x]
      /\ UNCHANGED <<dir, data, rows, released, halfway, struck, keyFile, encrypt, born>>
  BY DeleteBegins DEF files, daemon, history
<1>2. Grows
  BY <1>1, GrowsSame
<1>3. work[w].id = 0 /\ work[w].path = NoPath /\ work[w].op = "none" /\ work[w].pc = "idle" /\ 0 \notin Id
  BY <1>1, IdleFields, Basics
<1>. QED
  BY <1>1, <1>2, <1>3, PathAssumption, ElseCall

(* Two calls of which one is a restore do not share a clean path. *)
LEMMA OnlyTakes ==
  ASSUME Shape, IdsOK, NEW p \in Path, CleanOK(p), NEW w \in Worker, work[w].path = p
  PROVE  /\ work[w].op = "Quarantine" =>
              \A x \in Worker : work[x].path = p => work[x].op = "Quarantine"
         /\ work[w].op = "Restore" => \A x \in Worker \ {w} : work[x].path # p
         /\ work[w].op \in {"Quarantine", "Restore"}
<1>1. \A x \in Worker : work[x].path = p => CallClean(x, p) /\ work[x].op \in {"Quarantine", "Restore"}
  BY Basics DEF CleanOK
<1>2. \A x \in Worker : work[x].path = p /\ work[x].op = "Restore" => Alone(x)
  BY <1>1 DEF CallClean
<1>. QED
  BY <1>1, <1>2 DEF Alone

LEMMA TornPlain == 0 \in 0 .. MaxVersion /\ Plain(0) = Torn
  BY BoundAssumption DEF Plain, Torn

(* A step that stores nothing new keeps what still belongs to a path. *)
LEMMA OfKept ==
  ASSUME Shape, IdsOK, IdsOK', Shape', Store(data) \/ data' = data, NEW p \in Path
  PROVE  /\ \A u \in Inode : Of(u, p)' => data'[u] = data[u]
         /\ \A u \in Inode : \/ \E n \in Name : dir'[n] = u
                             \/ \E x \in Worker : work'[x].in = u \/ work'[x].out = u
                           => data'[u] = data[u]
<1>1. \A w \in Worker : work'[w].path \in Path => work'[w].id \in Id
  BY IdleFields, PathAssumption DEF IdsOK, CallIds, Shape, CallOK
<1>2. ASSUME NEW u \in Inode, Of(u, p)' PROVE data'[u] = data[u]
  BY <1>1, <1>2, OfStored
<1>. QED
  BY <1>2, StoreKeeps

LEMMA PathFails ==
  ASSUME Shape, Shape', IdsOK, IdsOK', LineOK, NEW p \in Path, CleanOK(p),
         NEW w \in Worker, ReadFails(w) \/ FillFails(w) \/ CommitFails(w)
  PROVE  CleanOK(p)'
<1>1. /\ Return(w) /\ work[w].pc \in {"read", "create", "fill", "commit"}
      /\ Store(data) \/ data' = data
      /\ work[w].pc = "fill" => HalfDone({w})
      /\ work[w].pc = "commit" => struck' = struck \cup {work[w].id}
      /\ halfway \subseteq halfway' /\ struck \subseteq struck'
      /\ UNCHANGED <<dir, rows, released, keyFile, encrypt, born>>
  BY DEF ReadFails, FillFails, CommitFails, files, daemon, history, HalfDone
<1>2. Grows
  BY <1>1, GrowsSame
<1>3. /\ work'[w].path = NoPath /\ NoPath # p
      /\ \A x \in Worker \ {w} : work'[x] = work[x]
  BY <1>1, ReturnChanged, IdleFields, PathAssumption
<1>4. /\ \A u \in Inode : Of(u, p)' => data'[u] = data[u]
      /\ \A u \in Inode : \/ \E n \in Name : dir'[n] = u
                          \/ \E x \in Worker : work'[x].in = u
                        => data'[u] = data[u]
  BY <1>1, OfKept
<1>5. CASE work[w].path # p
  <2>1. work[w].pc = "commit" => work[w].id \in struck'
    BY <1>1
  <2>. QED
    BY <1>1, <1>2, <1>3, <1>4, <1>5, <2>1, ElseCall
<1>6. CASE work[w].path = p /\ work[w].op = "Quarantine"
  <2>1. \A i \in Id : i = work[w].id => BlobOK(i, p)'
    BY <1>1, <1>6, Basics DEF CallIds, TakeIds, BlobOK, Listed
  <2>2. \A x \in Worker : work[x].path = p => work[x].op = "Quarantine"
    BY <1>6, OnlyTakes
  <2>3. work'[w].pc # "fill"
    BY <1>1, ReturnChanged, IdleFields
  <2>. QED
    BY <1>1, <1>2, <1>3, <1>4, <1>6, <2>1, <2>2, <2>3, TakeHere
<1>7. CASE work[w].path = p /\ work[w].op = "Restore"
  <2>1. \A x \in Worker \ {w} : work[x].path # p
    BY <1>7, OnlyTakes
  <2>2. dir[p] # 0 => dir[p] \in Inode /\ data'[dir[p]] = data[dir[p]]
    <3>1. p \in Name /\ dir[p] # 0 => dir[p] \in Inode
      BY Basics DEF Inode
    <3>. QED
      BY <1>1, <1>4, <3>1, Basics
  <2>3. FileOK(p)'
    <3>1. CASE work[w].pc = "fill"
      <4>1. p \in halfway'
        BY <1>1, <1>7, <3>1 DEF HalfDone
      <4>2. Good(Torn, p)'
        BY <4>1, TornPlain DEF Good, Was, BornAt
      <4>3. data[dir[p]] = Torn
        BY <1>7, <3>1 DEF CleanOK, CallClean, GiveOK
      <4>. QED
        BY <1>1, <2>2, <4>2, <4>3 DEF FileOK
    <3>2. CASE work[w].pc # "fill"
      <4>1. ~Filling(p)
        BY <2>1, <3>2 DEF Filling
      <4>. QED
        BY <1>1, <1>2, <2>2, <4>1, FileStays DEF CleanOK
    <3>. QED
      BY <3>1, <3>2
  <2>4. ASSUME NEW i \in Id PROVE /\ dir'[i] = dir[i] /\ rows'[i] = rows[i] /\ (Listed(i)' <=> Listed(i))
                                  /\ dir[i] # 0 => data'[dir[i]] = data[dir[i]]
    <3>1. i \in Name /\ dir[i] # 0 => dir[i] \in Inode
      BY Basics DEF Inode
    <3>2. i \in Name
      BY Basics
    <3>. QED
      BY <1>1, <1>4, <3>1, <3>2 DEF Listed
  <2>5. ASSUME NEW i \in Id, i = work[w].id PROVE BlobOK(i, p)'
    <3>1. ASSUME Committing(i) PROVE Committing(i)' \/ i \in struck'
      <4>1. PICK x \in Worker : work[x].pc = "commit" /\ work[x].id = i
        BY <3>1 DEF Committing
      <4>2. CASE x = w
        BY <1>1, <4>1, <4>2
      <4>3. CASE x # w
        BY <1>3, <4>1, <4>3 DEF Committing
      <4>. QED
        BY <4>2, <4>3
    <3>. QED
      BY <1>2, <2>4, <3>1, BlobStays DEF CleanOK
  <2>. QED
    BY <1>1, <1>2, <1>3, <2>1, <2>3, <2>4, <2>5, GiveHere
<1>. QED
  BY <1>5, <1>6, <1>7, OnlyTakes

LEMMA PathSave ==
  ASSUME Shape, IdsOK, NEW p \in Path, CleanOK(p), SaveKey
  PROVE  CleanOK(p)'
<1>1. /\ phase = "keygen" /\ keyFile = 0
      /\ UNCHANGED <<dir, data, rows, work, born, released, halfway, struck>>
  BY DEF SaveKey, Shape, KeyOK, files, history
<1>2. \A w \in Worker : work[w].path # p
  BY <1>1, Basics, IdleFields, PathAssumption DEF CallOK, CallIds
<1>3. FileOK(p)'
  BY <1>1 DEF CleanOK, FileOK, Filling, Good, Was, BornAt
<1>4. ASSUME NEW i \in Id, Listed(i)', rows'[i].path = p PROVE BlobOK(i, p)'
  <2>1. BlobOK(i, p) /\ Listed(i) /\ rows[i].path = p /\ rows[i].enc \in BOOLEAN
    BY <1>1, <1>4, Basics DEF CleanOK, Listed, Row
  <2>2. ASSUME dir[i] # 0 PROVE Whole(data[dir[i]], p, rows[i].enc)'
    <3>1. PICK v \in 0 .. MaxVersion : Was(v, p) /\ data[dir[i]] = Sealed(Plain(v), rows[i].enc)
      BY <2>1, <2>2 DEF BlobOK, Whole
    <3>2. data[dir[i]] \in Data
      BY <2>2, Basics DEF Inode
    <3>3. ~rows[i].enc
      BY <1>1, <3>1, <3>2, SealedNeedsKey DEF Sealed
    <3>4. Was(v, p)' /\ data'[dir'[i]] = Plain(v) /\ rows'[i].enc = rows[i].enc
      BY <1>1, <3>1, <3>3 DEF Was, BornAt, Sealed
    <3>5. data'[dir'[i]] = Sealed(Plain(v), rows[i].enc)'
      BY <3>3, <3>4 DEF Sealed
    <3>. QED
      BY <3>4, <3>5 DEF Whole
  <2>3. dir[i] = 0 => (Committing(i) \/ i \in struck)'
    BY <1>1, <2>1 DEF BlobOK, Committing
  <2>. QED
    BY <1>1, <2>2, <2>3 DEF BlobOK
<1>5. \A i \in Id : BlobOK(i, p)'
  BY <1>4 DEF BlobOK
<1>. QED
  BY <1>1, <1>2, <1>3, <1>5 DEF CleanOK

LEMMA PathCrash ==
  ASSUME Shape, Shape', IdsOK, IdsOK', NEW p \in Path, CleanOK(p), Crash
  PROVE  CleanOK(p)'
<1>1. /\ \A w \in Worker : work'[w].path # p /\ work'[w].op # "Restore"
      /\ struck' = struck \cup {work[w].id : w \in {x \in Worker : work[x].pc = "commit"}}
      /\ halfway' = halfway \cup
           {work[w].path : w \in {x \in Worker : work[x].op = "Restore" /\ work[x].pc = "fill"}}
      /\ Store(data) /\ UNCHANGED <<dir, rows, keyFile, born, released>>
  BY CrashDoes, IdleFields, PathAssumption
<1>2. \A v : Was(v, p) => Was(v, p)'
  BY <1>1 DEF Was, BornAt
<1>3. \A n \in Name : dir[n] # 0 => data'[dir[n]] = data[dir[n]]
  <2>1. \A n \in Name : dir[n] # 0 => dir[n] \in Inode
    BY Basics DEF Inode
  <2>. QED
    BY <1>1, <2>1, StoreKeeps
<1>4. ASSUME dir[p] # 0 PROVE Good(data[dir[p]], p)'
  <2>1. data'[dir'[p]] = data[dir[p]]
    BY <1>1, <1>3, <1>4, Basics
  <2>2. CASE Filling(p)
    <3>1. PICK w \in Worker : work[w].op = "Restore" /\ work[w].path = p /\ work[w].pc = "fill"
      BY <2>2 DEF Filling
    <3>2. data[dir[p]] = Torn
      BY <3>1 DEF CleanOK, CallClean, GiveOK
    <3>3. p \in halfway'
      BY <1>1, <3>1
    <3>. QED
      BY <2>1, <3>2, <3>3, TornPlain DEF Good, Was, BornAt
  <2>3. CASE ~Filling(p)
    BY <1>2, <1>4, <2>1, <2>3 DEF CleanOK, FileOK, Good
  <2>. QED
    BY <2>2, <2>3
<1>5. ASSUME NEW i \in Id PROVE BlobOK(i, p)'
  <2>1. BlobOK(i, p) /\ i \in Name
    BY Basics DEF CleanOK
  <2>2. ASSUME Listed(i), rows[i].path = p, dir[i] # 0 PROVE Whole(data[dir[i]], p, rows[i].enc)'
    <3>1. PICK v \in 0 .. MaxVersion : Was(v, p) /\ data[dir[i]] = Sealed(Plain(v), rows[i].enc)
      BY <2>1, <2>2 DEF BlobOK, Whole
    <3>2. data'[dir'[i]] = Sealed(Plain(v), rows[i].enc)'
      BY <1>1, <1>3, <2>1, <2>2, <3>1 DEF Sealed, Seal, Plain
    <3>3. Was(v, p)'
      BY <1>2, <3>1
    <3>. QED
      BY <3>2, <3>3 DEF Whole
  <2>3. ASSUME Listed(i), rows[i].path = p, dir[i] = 0 PROVE i \in struck'
    BY <1>1, <2>1, <2>3 DEF BlobOK, Committing
  <2>. QED
    BY <1>1, <2>2, <2>3 DEF BlobOK, Listed
<1>. QED
  BY <1>1, <1>4, <1>5 DEF CleanOK, FileOK

LEMMA PathWrite ==
  ASSUME Shape, IdsOK, IdsOK', LineOK, NEW p \in Path, CleanOK(p), p \notin contested',
         NEW q \in Path, NEW o \in Inode, UserWrite(q, o)
  PROVE  CleanOK(p)'
<1>1. /\ Len(born) + 1 \in 1 .. MaxVersion
      /\ dir'[q] = o /\ IF dir[q] = 0 THEN Free(o) ELSE o = dir[q]
      /\ \A n \in Name \ {q} : dir'[n] = dir[n]
      /\ data'[o] = Plain(Len(born) + 1) /\ \A u \in Inode \ {o} : data'[u] = data[u]
      /\ released \subseteq released'
      /\ UNCHANGED <<rows, keyFile, encrypt, work, halfway, struck>>
      /\ q \notin contested' => \A w \in Worker : work[w].path # q
      /\ q \in Name /\ \A i \in Id : i \in Name /\ i # q
  BY WriteDoes, Basics DEF daemon
<1>2. /\ \A v, r : BornAt(v, r) => BornAt(v, r)'
      /\ Len(born) + 1 \in DOMAIN born' /\ born'[Len(born) + 1] = q
  BY WriteDoes, BornStays
<1>3. Grows
  BY <1>1, <1>2 DEF Grows
<1>4. CASE q # p
  <2>1. ASSUME NEW u \in Inode, Of(u, p) PROVE u # o
    <3>1. CASE dir[q] = 0
      BY <1>1, <2>1, <3>1, NotFree
    <3>2. CASE dir[q] # 0
      BY <1>1, <1>4, <2>1, <3>2 DEF Of, LineOK, Apart
    <3>. QED
      BY <3>1, <3>2
  <2>2. \A i \in Id : dir'[i] = dir[i] /\ rows'[i] = rows[i] /\ (Listed(i)' <=> Listed(i))
    BY <1>1 DEF Listed
  <2>3. \A i \in Id : Committing(i) => Committing(i)'
    BY <1>1 DEF Committing
  <2>4. \A x \in Worker : work[x].op = "Quarantine" => dir'[work[x].id] = dir[work[x].id]
    BY <2>2, Basics
  <2>5. dir'[p] = dir[p]
    BY <1>1, <1>4, Basics
  <2>6. \A u \in Inode : Of(u, p) /\ Of(u, p)' => data'[u] = data[u]
    BY <1>1, <2>1
  <2>. QED
    BY <1>1, <1>3, <2>2, <2>3, <2>4, <2>5, <2>6, Elsewhere DEF Blobs
<1>5. CASE q = p
  <2>1. \A w \in Worker : work[w].path # p
    BY <1>1, <1>5
  <2>2. FileOK(p)'
    <3>. PICK n : n = Len(born) + 1
      OBVIOUS
    <3>1. Was(n, p)'
      BY <1>1, <1>2, <1>5 DEF Was, BornAt
    <3>2. \A v \in 0 .. MaxVersion : Was(v, p)' /\ data'[o] = Plain(v) => Good(data[dir[p]], p)'
      BY <1>1, <1>5 DEF Good
    <3>. QED
      BY <1>1, <3>1, <3>2 DEF FileOK
  <2>3. ASSUME NEW i \in Id PROVE BlobOK(i, p)'
    <3>1. dir'[i] = dir[i] /\ rows'[i] = rows[i]
      BY <1>1
    <3>2. dir[i] # 0 => dir[i] \in Inode /\ dir[i] # o
      <4>1. dir[i] # 0 => dir[i] \in Inode
        BY <1>1, Basics DEF Inode
      <4>2. CASE dir[q] = 0
        BY <1>1, <4>1, <4>2 DEF Free
      <4>3. CASE dir[q] # 0
        BY <1>1, <4>1, <4>3 DEF LineOK, Named
      <4>. QED
        BY <4>1, <4>2, <4>3
    <3>3. Committing(i) => Committing(i)'
      BY <1>1 DEF Committing
    <3>. QED
      BY <1>1, <1>3, <3>1, <3>2, <3>3, BlobStays DEF CleanOK, Listed
  <2>. QED
    BY <1>1, <2>1, <2>2, <2>3 DEF CleanOK
<1>. QED
  BY <1>4, <1>5

LEMMA PathRename ==
  ASSUME Shape, Shape', IdsOK, IdsOK', EncOK, LineOK, NEW p \in Path, CleanOK(p),
         NEW w \in Worker, Rename(w)
  PROVE  CleanOK(p)'
<1>1. /\ work[w].pc = "rename" /\ work[w].op \in {"Quarantine", "Restore"}
      /\ work[w].path \in Path /\ work[w].id \in Id /\ ~work[w].crypt
      /\ work[w].op = "Quarantine" => ~encrypt
      /\ work[w].op = "Restore" /\ Listed(work[w].id) => ~rows[work[w].id].enc
  <2>1. work[w].pc = "rename" /\ CallOK(work[w]) /\ EncCall(work[w])
    BY Basics DEF Rename, EncOK
  <2>. QED
    BY <2>1 DEF CallOK, EncCall
<1>2. /\ Store(data) /\ released \subseteq released'
      /\ UNCHANGED <<rows, keyFile, encrypt, born, halfway, struck>>
  BY DEF Rename, daemon
<1>3. Grows
  BY <1>2, GrowsSame
<1>4. /\ \A u \in Inode : Of(u, p)' => data'[u] = data[u]
      /\ \A u \in Inode : \/ \E n \in Name : dir'[n] = u
                          \/ \E x \in Worker : work'[x].in = u
                        => data'[u] = data[u]
  BY <1>2, OfKept
<1>5. /\ \A n \in Name : dir[n] # 0 => dir[n] \in Inode
      /\ p \in Name /\ \A i \in Id : i \in Name /\ i # p
  BY Basics DEF Inode
<1>6. ASSUME work[w].path = p, work[w].op = "Quarantine"
      PROVE  /\ \A x \in Worker : work[x].path = p => work[x].op = "Quarantine"
             /\ ~Filling(p) /\ ~Listed(work[w].id)
             /\ \A i \in Id : i = work[w].id => BlobOK(i, p)'
  <2>1. \A x \in Worker : work[x].path = p => work[x].op = "Quarantine"
    BY <1>6, OnlyTakes
  <2>2. ~Listed(work[w].id)
    BY <1>6, Basics DEF CallIds, TakeIds
  <2>. QED
    BY <1>2, <2>1, <2>2 DEF Filling, BlobOK, Listed
<1>7. ASSUME work[w].path = p, work[w].op = "Restore"
      PROVE  (\A x \in Worker \ {w} : work[x].path # p) /\ ~Filling(p)
  <2>1. \A x \in Worker \ {w} : work[x].path # p
    BY <1>7, OnlyTakes
  <2>. QED
    BY <1>1, <2>1 DEF Filling
<1>8. CASE dir[Src(work[w])] # 0 /\ work[w].path \in Local
  <2>1. /\ work[w].op = "Quarantine" =>
             /\ dir'[work[w].id] = dir[work[w].path] /\ dir'[work[w].path] = 0
             /\ dir[work[w].path] # 0
        /\ work[w].op = "Restore" =>
             /\ dir'[work[w].path] = dir[work[w].id] /\ dir'[work[w].id] = 0
             /\ dir[work[w].id] # 0
        /\ \A n \in Name \ {work[w].path, work[w].id} : dir'[n] = dir[n]
        /\ Goto(w, "commit")
    BY <1>8, RenameDoes
  <2>2. /\ \A x \in Worker \ {w} : work'[x] = work[x]
        /\ work'[w].pc = "commit" /\ work'[w].op = work[w].op /\ work'[w].id = work[w].id
        /\ work'[w].path = work[w].path
    BY <2>1, GotoChanged
  <2>3. \A i \in Id \ {work[w].id} : dir'[i] = dir[i] /\ rows'[i] = rows[i]
    BY <1>1, <1>2, <2>1, Basics
  <2>4. CASE work[w].path # p
    <3>1. dir'[p] = dir[p]
      BY <1>1, <1>5, <2>1, <2>4
    <3>. QED
      BY <1>1, <1>2, <1>3, <1>4, <2>2, <2>3, <2>4, <3>1, ElseCall
  <2>5. CASE work[w].path = p /\ work[w].op = "Quarantine"
    <3>1. PICK v \in 0 .. MaxVersion : Was(v, p) /\ data[dir[p]] = Plain(v)
      BY <1>6, <2>1, <2>5 DEF CleanOK, FileOK, Good
    <3>2. Was(v, p)'
      BY <1>3, <3>1, WasStays
    <3>3. dir'[work'[w].id] = dir[p] /\ data'[dir[p]] = data[dir[p]]
      BY <1>1, <1>4, <1>5, <2>1, <2>2, <2>5
    <3>4. data'[dir'[work'[w].id]] = Sealed(Plain(v), encrypt)'
      BY <1>1, <1>2, <2>5, <3>1, <3>3 DEF Sealed
    <3>5. TakeOK(work[w], p)'
      BY <2>2, <3>2, <3>4 DEF TakeOK, Whole
    <3>. QED
      BY <1>1, <1>3, <1>4, <1>6, <2>1, <2>2, <2>3, <2>5, <3>5, TakeHere
  <2>6. CASE work[w].path = p /\ work[w].op = "Restore"
    <3>1. GiveOK(work[w], p) /\ dir[work[w].id] # 0
      BY <2>1, <2>6 DEF CleanOK, CallClean
    <3>2. PICK v \in 0 .. MaxVersion : Was(v, p) /\ data[dir[work[w].id]] = Sealed(Plain(v), FALSE)
      BY <1>1, <3>1, Basics DEF GiveOK, Whole, Work
    <3>3. data'[dir'[p]] = Plain(v) /\ dir'[p] # 0
      BY <1>1, <1>4, <1>5, <2>1, <2>6, <3>1, <3>2 DEF Sealed
    <3>4. Was(v, p)'
      BY <1>3, <3>2, WasStays
    <3>5. FileOK(p)'
      BY <3>3, <3>4 DEF FileOK, Good
    <3>6. \A i \in Id : i = work[w].id => BlobOK(i, p)'
      BY <2>1, <2>2, <2>6 DEF BlobOK, Committing
    <3>7. GiveOK(work[w], p)'
      BY <2>2, <3>3 DEF GiveOK
    <3>8. \A i \in Id : dir'[i] # 0 => data'[dir'[i]] = data[dir'[i]]
      <4>1. ASSUME NEW i \in Id, dir'[i] # 0 PROVE data'[dir'[i]] = data[dir'[i]]
        <5>1. i # work[w].id
          BY <2>1, <2>6, <4>1
        <5>2. dir'[i] \in Inode
          BY <1>5, <2>3, <4>1, <5>1
        <5>. QED
          BY <1>4, <1>5, <5>2
      <4>. QED
        BY <4>1
    <3>. QED
      BY <1>3, <1>7, <2>2, <2>3, <2>6, <3>5, <3>6, <3>7, <3>8, GiveHere
  <2>. QED
    BY <1>1, <2>4, <2>5, <2>6
<1>9. CASE ~(dir[Src(work[w])] # 0 /\ work[w].path \in Local)
  <2>1. Goto(w, "read") /\ dir' = dir
    BY <1>9 DEF Rename
  <2>2. /\ \A x \in Worker \ {w} : work'[x] = work[x]
        /\ work'[w].pc = "read" /\ work'[w].op = work[w].op /\ work'[w].id = work[w].id
        /\ work'[w].path = work[w].path /\ work'[w].crypt = work[w].crypt
    BY <2>1, GotoChanged
  <2>3. \A n \in Name : dir[n] # 0 => data'[dir[n]] = data[dir[n]]
    BY <1>4, <1>5, <2>1
  <2>4. CASE work[w].path # p
    BY <1>1, <1>2, <1>3, <1>4, <2>1, <2>2, <2>4, ElseCall
  <2>5. CASE work[w].path = p /\ work[w].op = "Quarantine"
    <3>1. TakeOK(work[w], p)'
      BY <2>2 DEF TakeOK
    <3>. QED
      BY <1>1, <1>2, <1>3, <1>4, <1>6, <2>1, <2>2, <2>5, <3>1, TakeHere
  <2>6. CASE work[w].path = p /\ work[w].op = "Restore"
    <3>0. dir[work[w].id] # 0 => Whole(data[dir[work[w].id]], p, work[w].crypt)
      BY <1>1, <2>6 DEF CleanOK, CallClean, GiveOK
    <3>4. \A d, e : Whole(d, p, e) => Whole(d, p, e)'
      BY <1>2, <1>3, WasStays DEF Whole, Sealed, Seal
    <3>9. dir[work[w].id] # 0 => data'[dir[work[w].id]] = data[dir[work[w].id]]
      BY <1>1, <1>5, <2>3
    <3>1. GiveOK(work[w], p)'
      BY <2>1, <2>2, <3>0, <3>4, <3>9 DEF GiveOK, Whole, Sealed
    <3>2. FileOK(p)'
      BY <1>3, <1>5, <1>7, <2>1, <2>3, <2>6, FileStays DEF CleanOK
    <3>3. ASSUME NEW i \in Id PROVE BlobOK(i, p)'
      <4>1. Committing(i) => Committing(i)'
        BY <1>1, <2>2 DEF Committing
      <4>. QED
        BY <1>2, <1>3, <1>5, <2>1, <2>3, <4>1, BlobStays DEF CleanOK, Listed
    <3>. QED
      BY <1>2, <1>3, <1>5, <1>7, <2>1, <2>2, <2>3, <2>6, <3>1, <3>2, <3>3, GiveHere
  <2>. QED
    BY <1>1, <2>4, <2>5, <2>6
<1>. QED
  BY <1>8, <1>9

LEMMA PathRead ==
  ASSUME Shape, Shape', IdsOK, IdsOK', EncOK, LineOK, NEW p \in Path, CleanOK(p),
         NEW w \in Worker, ReadSource(w)
  PROVE  CleanOK(p)'
<1>1. /\ work[w].pc = "read" /\ work[w].op \in {"Quarantine", "Restore"}
      /\ work[w].path \in Path /\ work[w].id \in Id /\ work[w].crypt \in BOOLEAN
      /\ work[w].op = "Restore" /\ Listed(work[w].id) => work[w].crypt = rows[work[w].id].enc
  BY ReadDoes, Basics DEF EncOK, EncCall, Work
<1>2. /\ work'[w].pc = "create" /\ work'[w].op = work[w].op /\ work'[w].id = work[w].id
      /\ work'[w].path = work[w].path /\ work'[w].crypt = work[w].crypt
      /\ dir[Src(work[w])] \in Inode
      /\ ~work[w].crypt => work'[w].in = dir[Src(work[w])]
      /\ work[w].crypt /\ work[w].op = "Quarantine" => work'[w].buf = data[dir[work[w].path]]
      /\ work[w].crypt /\ work[w].op = "Restore" => work'[w].buf = Open(data[dir[work[w].id]])
      /\ \A x \in Worker \ {w} : work'[x] = work[x]
      /\ UNCHANGED <<dir, data, rows, keyFile, encrypt, born, released, halfway, struck>>
  BY ReadDoes DEF files, daemon, history
<1>3. Grows
  BY <1>2, GrowsSame
<1>4. p \in Name /\ \A i \in Id : i \in Name /\ i # p
  BY Basics
<1>5. CASE work[w].path # p
  BY <1>1, <1>2, <1>3, <1>5, ElseCall
<1>6. CASE work[w].path = p /\ work[w].op = "Quarantine"
  <2>1. \A x \in Worker : work[x].path = p => work[x].op = "Quarantine"
    BY <1>6, OnlyTakes
  <2>2. dir[p] \in Inode
    BY <1>2, <1>6 DEF Src
  <2>3. PICK v \in 0 .. MaxVersion : Was(v, p) /\ data[dir[p]] = Plain(v)
    BY <2>1, <2>2, Basics DEF CleanOK, FileOK, Good, Filling
  <2>4. Was(v, p)'
    BY <1>3, <2>3, WasStays
  <2>5. Load(work[w])' = data[dir[p]]
    BY <1>2, <1>6 DEF Load, Src
  <2>6. ASSUME NEW x \in Worker, work'[x].path = p, work'[x].pc = "fill" PROVE work'[x].out # dir[p]
    <3>1. work'[x] = work[x] /\ work[x].pc = "fill"
      BY <1>2, <2>6
    <3>2. TakeIds(x) /\ work[x].id \in Id
      BY <2>1, <2>6, <3>1, Basics DEF CallIds
    <3>. QED
      BY <1>4, <2>2, <2>6, <3>1, <3>2, Basics DEF TakeIds, LineOK, Named
  <2>7. TakeOK(work[w], p)'
    <3>1. Good(Load(work[w]), p)'
      BY <2>3, <2>4, <2>5 DEF Good
    <3>. QED
      BY <1>2, <1>6, <2>5, <2>6, <3>1 DEF TakeOK, Src
  <2>8. \A i \in Id : i = work[w].id => BlobOK(i, p)'
    BY <1>2, <1>6, Basics DEF CallIds, TakeIds, BlobOK, Listed
  <2>. QED
    BY <1>1, <1>2, <1>3, <1>6, <2>1, <2>7, <2>8, TakeHere
<1>7. CASE work[w].path = p /\ work[w].op = "Restore"
  <2>1. \A x \in Worker \ {w} : work[x].path # p
    BY <1>7, OnlyTakes
  <2>2. ~Filling(p)
    BY <1>1, <2>1 DEF Filling
  <2>3. FileOK(p)'
    BY <1>2, <1>3, <2>2, FileStays DEF CleanOK
  <2>4. ASSUME NEW i \in Id PROVE BlobOK(i, p)'
    <3>1. Committing(i) => Committing(i)'
      BY <1>1, <1>2 DEF Committing
    <3>. QED
      BY <1>2, <1>3, <3>1, BlobStays DEF CleanOK, Listed
  <2>5. dir[work[w].id] \in Inode
    BY <1>2, <1>7 DEF Src
  <2>7. PICK v \in 0 .. MaxVersion :
          Was(v, p) /\ data[dir[work[w].id]] = Sealed(Plain(v), work[w].crypt)
    BY <1>1, <1>7, <2>5, Basics DEF CleanOK, CallClean, GiveOK, Whole
  <2>8. Was(v, p)'
    BY <1>3, <2>7, WasStays
  <2>9. Load(work[w])' = Plain(v)
    <3>1. CASE work[w].crypt
      BY <1>2, <1>7, <2>7, <3>1, SealPlain DEF Load, Sealed
    <3>2. CASE ~work[w].crypt
      BY <1>2, <1>7, <2>7, <3>2 DEF Load, Sealed, Src
    <3>. QED
      BY <3>1, <3>2
  <2>10. Good(Load(work[w]), p)'
    BY <2>7, <2>8, <2>9 DEF Good
  <2>11. data'[dir'[work'[w].id]] = Sealed(Load(work[w]), work[w].crypt)'
    BY <1>2, <2>7, <2>9 DEF Sealed, Seal
  <2>12. ~work[w].crypt => work'[w].in # dir[p]
    BY <1>1, <1>2, <1>4, <1>7, <2>5, Basics DEF Src, LineOK, Named
  <2>13. GiveOK(work[w], p)'
    BY <1>2, <2>5, <2>10, <2>11, <2>12, Basics DEF GiveOK
  <2>. QED
    BY <1>2, <1>3, <1>7, <2>1, <2>3, <2>4, <2>13, GiveHere
<1>. QED
  BY <1>1, <1>5, <1>6, <1>7

LEMMA PathCreate ==
  ASSUME Shape, Shape', IdsOK, IdsOK', EncOK, LineOK, NEW p \in Path, CleanOK(p),
         NEW w \in Worker, NEW o \in Inode, CreateTarget(w, o)
  PROVE  CleanOK(p)'
<1>1. /\ work[w].pc = "create" /\ work[w].op \in {"Quarantine", "Restore"}
      /\ work[w].path \in Path /\ work[w].id \in Id /\ work[w].crypt \in BOOLEAN
      /\ ~work[w].crypt => work[w].in \in Inode
  BY CreateDoes, Basics DEF Work, CallOK
<1>2. /\ work'[w].pc = "fill" /\ work'[w].op = work[w].op /\ work'[w].id = work[w].id
      /\ work'[w].path = work[w].path /\ work'[w].crypt = work[w].crypt
      /\ work'[w].buf = work[w].buf /\ work'[w].in = work[w].in /\ work'[w].out = o
      /\ work[w].op = "Quarantine" =>
           /\ dir'[work[w].id] = o /\ Free(o)
           /\ \A n \in Name \ {work[w].id} : dir'[n] = dir[n]
      /\ work[w].op = "Restore" =>
           /\ dir'[work[w].path] = o
           /\ IF dir[work[w].path] = 0 THEN Free(o) ELSE o = dir[work[w].path]
           /\ \A n \in Name \ {work[w].path} : dir'[n] = dir[n]
      /\ released \subseteq released'
      /\ \A x \in Worker \ {w} : work'[x] = work[x]
      /\ UNCHANGED <<rows, keyFile, encrypt, born, halfway, struck>>
  BY CreateDoes DEF daemon
<1>3. Grows
  BY <1>2, GrowsSame
<1>4. /\ p \in Name /\ p \in Path /\ \A i \in Id : i \in Name /\ i # p
      /\ \A q \in Path : q \notin Id /\ q \in Name
      /\ \A n \in Name : dir[n] # 0 => dir[n] \in Inode
      /\ 0 \notin Inode
  BY Basics DEF Inode
<1>5. PICK d : d = [data EXCEPT ![o] = Torn] /\ Store(d)
  BY CreateDoes
<1>6. d[o] = Torn /\ \A u \in Inode : u # o => d[u] = data[u]
  BY <1>5, Basics
<1>7. /\ \A n \in Name : dir'[n] \in Inode => data'[dir'[n]] = d[dir'[n]]
      /\ \A x \in Worker : work'[x].in \in Inode => data'[work'[x].in] = d[work'[x].in]
  BY <1>5, StoreKeeps
<1>8. ~work[w].crypt => ~Free(work[w].in)
  BY DEF Free
<1>9. CASE work[w].path # p
  <2>1. ASSUME NEW u \in Inode, Of(u, p) PROVE u # o
    <3>1. CASE Free(o)
      BY <2>1, <3>1, NotFree
    <3>2. CASE o = dir[work[w].path]
      BY <1>1, <1>9, <2>1, <3>2 DEF Of, LineOK, Apart
    <3>. QED
      BY <1>1, <1>2, <3>1, <3>2
  <2>2. \A u \in Inode : Of(u, p)' => data'[u] = d[u]
    <3>1. \A x \in Worker : work'[x].path \in Path => work'[x].id \in Id
      BY <1>1, <1>2, Basics
    <3>. QED
      BY <1>5, <3>1, OfStored
  <2>3. dir'[p] = dir[p] /\ \A i \in Id \ {work[w].id} : dir'[i] = dir[i]
    BY <1>1, <1>2, <1>4, <1>9
  <2>. QED
    BY <1>1, <1>2, <1>3, <1>6, <1>9, <2>1, <2>2, <2>3, ElseCall
<1>10. CASE work[w].path = p /\ work[w].op = "Quarantine"
  <2>1. \A x \in Worker : work[x].path = p => work[x].op = "Quarantine"
    BY <1>10, OnlyTakes
  <2>2. \A i \in Id : i = work[w].id => BlobOK(i, p)'
    BY <1>2, <1>10, Basics DEF CallIds, TakeIds, BlobOK, Listed
  <2>3. \A u \in Inode : Of(u, p) => u # o
    BY <1>2, <1>10, NotFree
  <2>4. TakeOK(work[w], p)
    BY <1>10 DEF CleanOK, CallClean
  <2>5. Load(work[w])' = Load(work[w])
    BY <1>1, <1>2, <1>6, <1>7, <1>8, <1>10 DEF Load
  <2>6. Good(Load(work[w]), p)'
    BY <1>1, <1>3, <2>4, <2>5, WasStays DEF TakeOK, Good
  <2>7. dir'[p] # 0 => data'[dir'[p]] = Load(work[w])'
    <3>1. dir'[p] = dir[p] /\ Of(dir[p], p)
      BY <1>1, <1>2, <1>4, <1>10 DEF Of
    <3>. QED
      BY <1>1, <1>4, <1>6, <1>7, <2>3, <2>4, <2>5, <3>1 DEF TakeOK
  <2>8. ASSUME ~work[w].crypt, NEW x \in Worker, work'[x].path = p, work'[x].pc = "fill"
        PROVE  work'[x].out # work[w].in
    <3>1. CASE x = w
      BY <1>2, <1>8, <1>10, <2>8, <3>1
    <3>2. CASE x # w
      BY <1>1, <1>2, <2>4, <2>8, <3>2 DEF TakeOK
    <3>. QED
      BY <3>1, <3>2
  <2>9. TakeOK(work[w], p)'
    BY <1>2, <2>6, <2>7, <2>8 DEF TakeOK
  <2>10. \A u \in Inode : /\ Of(u, p)
                          /\ \/ \E n \in Name : dir'[n] = u
                             \/ \E x \in Worker : work'[x].in = u
                          => data'[u] = data[u]
    BY <1>6, <1>7, <2>3
  <2>11. dir'[p] = dir[p] /\ \A i \in Id \ {work[w].id} : dir'[i] = dir[i]
    BY <1>1, <1>2, <1>4, <1>10
  <2>. QED
    BY <1>1, <1>2, <1>3, <1>10, <2>1, <2>2, <2>9, <2>10, <2>11, TakeHere
<1>11. CASE work[w].path = p /\ work[w].op = "Restore"
  <2>1. \A x \in Worker \ {w} : work[x].path # p
    BY <1>11, OnlyTakes
  <2>2. dir'[p] = o /\ o # 0 /\ \A i \in Id : dir'[i] = dir[i]
    BY <1>2, <1>4, <1>11
  <2>3. ASSUME NEW i \in Id, dir[i] # 0 PROVE data'[dir[i]] = data[dir[i]]
    <3>1. dir[i] # o
      BY <1>2, <1>4, <1>11, <2>3 DEF Free, LineOK, Named
    <3>. QED
      BY <1>4, <1>6, <1>7, <2>2, <2>3, <3>1
  <2>4. FileOK(p)'
    BY <1>2, <1>11 DEF FileOK, Filling
  <2>5. ASSUME NEW i \in Id PROVE BlobOK(i, p)'
    <3>1. Committing(i) => Committing(i)'
      BY <1>1, <1>2 DEF Committing
    <3>. QED
      BY <1>2, <1>3, <2>2, <2>3, <3>1, BlobStays DEF CleanOK, Listed
  <2>6. GiveOK(work[w], p)
    BY <1>11 DEF CleanOK, CallClean
  <2>7. ~work[w].crypt => work[w].in # o
    BY <1>1, <1>2, <1>8, <1>11, <2>6 DEF GiveOK
  <2>8. Load(work[w])' = Load(work[w])
    BY <1>1, <1>2, <1>6, <1>7, <2>7 DEF Load
  <2>9. PICK v \in 0 .. MaxVersion : Was(v, p) /\ Load(work[w]) = Plain(v)
    BY <1>1, <2>6 DEF GiveOK, Good
  <2>10. Good(Load(work[w]), p)'
    BY <1>3, <2>8, <2>9, WasStays DEF Good
  <2>11. Sealed(Load(work[w]), work[w].crypt)' = Sealed(Load(work[w]), work[w].crypt)
    BY <1>2, <2>8 DEF Sealed, Seal
  <2>12. /\ dir'[work[w].id] # 0 => data'[dir'[work[w].id]] = Sealed(Load(work[w]), work[w].crypt)'
         /\ dir'[work[w].id] = 0 => Load(work[w])'.v \in released' \cup {0}
    BY <1>1, <1>2, <2>2, <2>3, <2>6, <2>8, <2>11 DEF GiveOK
  <2>13. data'[o] = Torn
    BY <1>4, <1>6, <1>7, <2>2
  <2>14. GiveOK(work[w], p)'
    BY <1>2, <2>2, <2>7, <2>10, <2>12, <2>13 DEF GiveOK
  <2>. QED
    BY <1>2, <1>3, <1>11, <2>1, <2>2, <2>3, <2>4, <2>5, <2>14, GiveHere
<1>. QED
  BY <1>1, <1>9, <1>10, <1>11

LEMMA PathFill ==
  ASSUME Shape, Shape', IdsOK, IdsOK', EncOK, LineOK, NEW p \in Path, CleanOK(p),
         NEW w \in Worker, FillTarget(w)
  PROVE  CleanOK(p)'
<1>1. /\ work[w].pc = "fill" /\ work[w].op \in {"Quarantine", "Restore"}
      /\ work[w].path \in Path /\ work[w].id \in Id /\ work[w].out \in Inode
      /\ work[w].crypt \in BOOLEAN /\ (work[w].crypt => key = keyFile)
      /\ work[w].op = "Quarantine" => work[w].crypt = encrypt
  BY FillDoes, Basics DEF Work, CallOK, EncOK, EncCall, Shape, KeyOK
<1>2. /\ work'[w].pc = "unlink" /\ work'[w].op = work[w].op /\ work'[w].id = work[w].id
      /\ work'[w].path = work[w].path /\ work'[w].crypt = work[w].crypt
      /\ \A x \in Worker \ {w} : work'[x] = work[x]
      /\ UNCHANGED <<dir, rows, keyFile, encrypt, born, halfway, struck, released>>
  BY FillDoes DEF daemon, history
<1>3. Grows
  BY <1>2, GrowsSame
<1>4. /\ p \in Name /\ \A i \in Id : i \in Name /\ i # p
      /\ \A n \in Name : dir[n] # 0 => dir[n] \in Inode
      /\ 0 \notin Inode
  BY Basics DEF Inode
<1>5. PICK d : d = [data EXCEPT ![work[w].out] = Payload(work[w])] /\ Store(d)
  BY FillDoes
<1>6. d[work[w].out] = Payload(work[w]) /\ \A u \in Inode : u # work[w].out => d[u] = data[u]
  BY <1>1, <1>5, Basics
<1>7. /\ \A n \in Name : dir'[n] \in Inode => data'[dir'[n]] = d[dir'[n]]
      /\ \A x \in Worker : work'[x].in \in Inode => data'[work'[x].in] = d[work'[x].in]
  BY <1>5, StoreKeeps
<1>8. ASSUME NEW i \in Id PROVE Committing(i) => Committing(i)'
  BY <1>1, <1>2 DEF Committing
<1>9. CASE work[w].path # p
  <2>1. \A u \in Inode : Of(u, p) => u # work[w].out
    BY <1>1, <1>9 DEF Of, LineOK, Apart
  <2>2. \A u \in Inode : Of(u, p)' => data'[u] = d[u]
    <3>1. \A x \in Worker : work'[x].path \in Path => work'[x].id \in Id
      BY <1>1, <1>2, Basics
    <3>. QED
      BY <1>5, <3>1, OfStored
  <2>. QED
    BY <1>1, <1>2, <1>3, <1>6, <1>9, <2>1, <2>2, ElseCall
<1>10. CASE work[w].path = p /\ work[w].op = "Quarantine"
  <2>1. \A x \in Worker : work[x].path = p => work[x].op = "Quarantine"
    BY <1>10, OnlyTakes
  <2>2. /\ \A i \in Id : i = work[w].id => BlobOK(i, p)'
        /\ work[w].out = dir[work[w].id]
    BY <1>1, <1>2, <1>10, Basics DEF CallIds, TakeIds, BlobOK, Listed
  <2>3. TakeOK(work[w], p)
    BY <1>10 DEF CleanOK, CallClean
  <2>4. PICK v \in 0 .. MaxVersion : Was(v, p) /\ Load(work[w]) = Plain(v)
    BY <1>1, <2>3 DEF TakeOK, Good
  <2>5. Was(v, p)'
    BY <1>3, <2>4, WasStays
  <2>6. data'[dir[work[w].id]] = Sealed(Plain(v), encrypt)
    <3>1. Payload(work[w]) = IF work[w].crypt THEN Seal(work[w].buf, key) ELSE data[work[w].in]
      BY <1>10 DEF Payload
    <3>2. CASE work[w].crypt
      <4>1. Payload(work[w]) = Seal(Plain(v), keyFile)
        BY <1>1, <2>4, <3>1, <3>2 DEF Load
      <4>2. data'[dir[work[w].id]] = Payload(work[w])
        BY <1>1, <1>2, <1>4, <1>6, <1>7, <2>2
      <4>3. encrypt
        BY <1>1, <1>10, <3>2
      <4>. QED
        BY <4>1, <4>2, <4>3 DEF Sealed
    <3>3. CASE ~work[w].crypt
      BY <1>1, <1>2, <1>4, <1>6, <1>7, <1>10, <2>2, <2>4, <3>1, <3>3 DEF Load, Sealed
    <3>. QED
      BY <3>2, <3>3
  <2>7. data'[dir'[work'[w].id]] = Sealed(Plain(v), encrypt)'
    BY <1>2, <2>6 DEF Sealed, Seal
  <2>8. dir[p] # 0 => data'[dir[p]] = Plain(v)
    <3>1. dir[p] # 0 => dir[p] # work[w].out /\ dir[p] \in Inode
      BY <1>1, <1>4, <2>2 DEF LineOK, Named
    <3>. QED
      BY <1>1, <1>2, <1>4, <1>6, <1>7, <2>3, <2>4, <3>1 DEF TakeOK
  <2>9. TakeOK(work[w], p)'
    <3>1. Whole(data[dir[work[w].id]], p, encrypt)'
      BY <2>5, <2>7 DEF Whole
    <3>2. dir'[p] # 0 => data'[dir'[work'[w].id]] = Sealed(data[dir[p]], encrypt)'
      BY <1>2, <2>7, <2>8 DEF Sealed, Seal
    <3>. QED
      BY <1>2, <3>1, <3>2 DEF TakeOK
  <2>. QED
    BY <1>1, <1>2, <1>3, <1>6, <1>7, <1>10, <2>1, <2>2, <2>9, TakeHere
<1>11. CASE work[w].path = p /\ work[w].op = "Restore"
  <2>1. \A x \in Worker \ {w} : work[x].path # p
    BY <1>11, OnlyTakes
  <2>2. GiveOK(work[w], p)
    BY <1>11 DEF CleanOK, CallClean
  <2>3. work[w].out = dir[p] /\ dir[p] # 0
    BY <1>1, <2>2 DEF GiveOK
  <2>4. ASSUME NEW i \in Id, dir[i] # 0 PROVE data'[dir[i]] = data[dir[i]]
    <3>1. dir[i] # dir[p]
      BY <1>4, <2>4 DEF LineOK, Named
    <3>. QED
      BY <1>2, <1>4, <1>6, <1>7, <2>3, <2>4, <3>1
  <2>5. PICK v \in 0 .. MaxVersion : Was(v, p) /\ Load(work[w]) = Plain(v)
    BY <1>1, <2>2 DEF GiveOK, Good
  <2>6. Was(v, p)'
    BY <1>3, <2>5, WasStays
  <2>7. data'[dir[p]] = Plain(v)
    <3>1. Payload(work[w]) = Load(work[w])
      BY <1>11 DEF Payload, Load
    <3>. QED
      BY <1>2, <1>4, <1>6, <1>7, <2>3, <2>5, <3>1
  <2>8. FileOK(p)'
    BY <1>2, <2>6, <2>7 DEF FileOK, Good
  <2>9. \A i \in Id : BlobOK(i, p)'
    BY <1>2, <1>3, <1>8, <2>4, BlobStays DEF CleanOK, Listed
  <2>10. dir[work[w].id] # 0 => data'[dir[work[w].id]] = Sealed(Plain(v), work[w].crypt)
    BY <1>1, <2>2, <2>4, <2>5 DEF GiveOK
  <2>11. dir'[work'[w].id] # 0 => data'[dir'[work'[w].id]] = Sealed(data[dir[p]], work[w].crypt)'
    BY <1>2, <2>7, <2>10 DEF Sealed, Seal
  <2>12. GiveOK(work[w], p)'
    BY <1>2, <2>3, <2>11 DEF GiveOK
  <2>. QED
    BY <1>2, <1>3, <1>11, <2>1, <2>4, <2>8, <2>9, <2>12, GiveHere
<1>. QED
  BY <1>1, <1>9, <1>10, <1>11

LEMMA PathUnlink ==
  ASSUME Shape, Shape', IdsOK, IdsOK', EncOK, LineOK, NEW p \in Path, CleanOK(p),
         NEW w \in Worker, Unlink(w)
  PROVE  CleanOK(p)'
<1>1. /\ work[w].pc = "unlink" /\ work[w].op \in {"Quarantine", "Restore", "Delete"}
      /\ work[w].id \in Id
  BY UnlinkDoes
<1>2. /\ work[w].op = "Quarantine" =>
           /\ work[w].path \in Path /\ dir'[work[w].path] = 0
           /\ \A n \in Name \ {work[w].path} : dir'[n] = dir[n]
      /\ work[w].op # "Quarantine" =>
           /\ dir'[work[w].id] = 0
           /\ \A n \in Name \ {work[w].id} : dir'[n] = dir[n]
      /\ work[w].op \in {"Quarantine", "Restore"} => released' = released
      /\ work[w].op = "Delete" => released' = released \cup Held(work[w].id)
      /\ released \subseteq released'
      /\ Store(data)
      /\ UNCHANGED <<rows, keyFile, encrypt, born, halfway, struck>>
  BY UnlinkDoes DEF daemon
<1>3. Grows
  BY <1>2, GrowsSame
<1>4. /\ p \in Name /\ \A i \in Id : i \in Name /\ i # p
      /\ \A n \in Name : dir[n] # 0 => dir[n] \in Inode
      /\ 0 \notin Inode
  BY Basics DEF Inode
<1>5. /\ \A u \in Inode : Of(u, p)' => data'[u] = data[u]
      /\ \A u \in Inode : \/ \E n \in Name : dir'[n] = u
                          \/ \E x \in Worker : work'[x].in = u
                        => data'[u] = data[u]
  BY <1>2, OfKept
<1>6. /\ \A x \in Worker \ {w} : work'[x] = work[x]
      /\ \/ work'[w] = Idle /\ work[w].crypt /\ dir[Src(work[w])] = 0
         \/ /\ work'[w].pc = "commit" /\ work'[w].op = work[w].op /\ work'[w].id = work[w].id
            /\ work'[w].path = work[w].path
      /\ work'[w].path \in {work[w].path, NoPath} /\ NoPath # p /\ work'[w].pc # "fill"
  <2>1. IF work[w].crypt /\ dir[Src(work[w])] = 0 THEN Return(w) ELSE Goto(w, "commit")
    BY UnlinkDoes
  <2>2. CASE work[w].crypt /\ dir[Src(work[w])] = 0
    BY <2>1, <2>2, ReturnChanged, IdleFields, PathAssumption
  <2>3. CASE ~(work[w].crypt /\ dir[Src(work[w])] = 0)
    BY <2>1, <2>3, GotoChanged, PathAssumption
  <2>. QED
    BY <2>2, <2>3
<1>7. CASE work[w].path # p
  <2>1. dir'[p] = dir[p] /\ \A i \in Id \ {work[w].id} : dir'[i] = dir[i]
    BY <1>1, <1>2, <1>4, <1>7, Basics
  <2>2. ASSUME work[w].op = "Delete"
        PROVE  \/ dir'[work[w].id] = dir[work[w].id]
               \/ /\ dir'[work[w].id] = 0 /\ data[dir[work[w].id]].v \in released' \cup {0}
                  /\ work'[w].id = work[w].id /\ work'[w].pc = "commit"
    <3>1. dir'[work[w].id] = 0 /\ Src(work[w]) = work[w].id
      BY <1>2, <2>2 DEF Src
    <3>2. CASE dir[work[w].id] = 0
      BY <3>1, <3>2
    <3>3. CASE dir[work[w].id] # 0
      BY <1>2, <1>6, <2>2, <3>1, <3>3 DEF Held
    <3>. QED
      BY <3>2, <3>3
  <2>. QED
    BY <1>1, <1>2, <1>3, <1>5, <1>6, <1>7, <2>1, <2>2, ElseCall
<1>8. CASE work[w].path = p /\ work[w].op = "Quarantine"
  <2>1. \A x \in Worker : work[x].path = p => work[x].op = "Quarantine"
    BY <1>8, OnlyTakes
  <2>2. /\ \A i \in Id : i = work[w].id => BlobOK(i, p)'
        /\ dir[work[w].id] # 0
    BY <1>1, <1>2, <1>8, Basics DEF CallIds, TakeIds, BlobOK, Listed
  <2>3. dir'[p] = 0 /\ \A i \in Id : dir'[i] = dir[i]
    BY <1>2, <1>4, <1>8
  <2>4. ASSUME work'[w].path = p PROVE work'[w].op = "Quarantine" /\ TakeOK(work[w], p)'
    <3>1. work'[w].pc = "commit" /\ work'[w].op = "Quarantine" /\ work'[w].id = work[w].id
      BY <1>6, <1>8, <2>4, IdleFields
    <3>2. PICK v \in 0 .. MaxVersion : Was(v, p) /\ data[dir[work[w].id]] = Sealed(Plain(v), encrypt)
      BY <1>1, <1>8 DEF CleanOK, CallClean, TakeOK, Whole
    <3>3. Was(v, p)'
      BY <1>3, <3>2, WasStays
    <3>4. data'[dir'[work'[w].id]] = Sealed(Plain(v), encrypt)'
      BY <1>1, <1>2, <1>4, <1>5, <2>2, <2>3, <3>1, <3>2 DEF Sealed, Seal
    <3>. QED
      BY <3>1, <3>3, <3>4 DEF TakeOK, Whole
  <2>. QED
    BY <1>1, <1>2, <1>3, <1>5, <1>6, <1>8, <2>1, <2>2, <2>3, <2>4, TakeHere
<1>9. CASE work[w].path = p /\ work[w].op = "Restore"
  <2>1. \A x \in Worker \ {w} : work[x].path # p
    BY <1>9, OnlyTakes
  <2>2. ~Filling(p)
    BY <1>1, <2>1 DEF Filling
  <2>3. dir[p] # 0 /\ dir'[p] = dir[p] /\ \A i \in Id \ {work[w].id} : dir'[i] = dir[i]
    BY <1>1, <1>2, <1>4, <1>9 DEF CleanOK, CallClean, GiveOK
  <2>4. FileOK(p)'
    BY <1>3, <1>4, <1>5, <2>2, <2>3, FileStays DEF CleanOK
  <2>5. ASSUME NEW i \in Id, i = work[w].id PROVE BlobOK(i, p)'
    <3>1. dir'[i] = 0
      BY <1>2, <1>9, <2>5
    <3>2. CASE work'[w].pc = "commit" /\ work'[w].id = work[w].id
      BY <2>5, <3>1, <3>2 DEF BlobOK, Committing
    <3>3. CASE dir[Src(work[w])] = 0
      <4>1. dir[i] = 0
        BY <1>9, <2>5, <3>3 DEF Src
      <4>2. Committing(i) => Committing(i)'
        BY <1>1, <1>6 DEF Committing
      <4>. QED
        BY <1>2, <1>3, <3>1, <4>1, <4>2, BlobStays DEF CleanOK, Listed
    <3>. QED
      BY <1>6, <3>2, <3>3
  <2>6. work'[w].path = p => work'[w].op = "Restore" /\ GiveOK(work[w], p)'
    BY <1>6, <1>9, <2>3, IdleFields DEF GiveOK
  <2>7. \A i \in Id \ {work[w].id} : dir[i] # 0 => data'[dir[i]] = data[dir[i]]
    BY <1>4, <1>5, <2>3
  <2>. QED
    BY <1>2, <1>3, <1>6, <1>9, <2>1, <2>3, <2>4, <2>5, <2>6, <2>7, GiveHere
<1>. QED
  BY <1>1, <1>7, <1>8, <1>9, Basics

LEMMA PathStuck ==
  ASSUME Shape, Shape', IdsOK, IdsOK', EncOK, LineOK, NEW p \in Path, CleanOK(p),
         NEW w \in Worker, UnlinkFails(w)
  PROVE  CleanOK(p)'
<1>1. /\ work[w].pc = "unlink" /\ struck \subseteq struck'
      /\ UNCHANGED <<dir, data, rows, released, keyFile, encrypt, born, halfway>>
  BY DEF UnlinkFails, files, daemon
<1>2. Grows
  BY <1>1, GrowsSame
<1>3. /\ \A x \in Worker \ {w} : work'[x] = work[x]
      /\ \/ work'[w] = Idle
         \/ /\ work'[w].pc = "commit" /\ work'[w].op = work[w].op /\ work'[w].id = work[w].id
            /\ work'[w].path = work[w].path
      /\ work'[w].path \in {work[w].path, NoPath} /\ NoPath # p /\ work'[w].pc # "fill"
  <2>1. Return(w) \/ Goto(w, "commit")
    BY DEF UnlinkFails
  <2>. QED
    BY <2>1, GotoChanged, ReturnChanged, IdleFields, PathAssumption
<1>4. \A d, e : Whole(d, p, e) => Whole(d, p, e)'
  BY <1>1, <1>2, WasStays DEF Whole, Sealed, Seal
<1>5. CASE work[w].path # p
  BY <1>1, <1>2, <1>3, <1>5, ElseCall
<1>6. CASE work[w].path = p /\ work[w].op = "Quarantine"
  <2>1. \A x \in Worker : work[x].path = p => work[x].op = "Quarantine"
    BY <1>6, OnlyTakes
  <2>2. \A i \in Id : i = work[w].id => BlobOK(i, p)'
    BY <1>1, <1>6, Basics DEF CallIds, TakeIds, BlobOK, Listed
  <2>3. Whole(data[dir[work[w].id]], p, encrypt)
    BY <1>1, <1>6 DEF CleanOK, CallClean, TakeOK
  <2>4. work'[w].path = p => work'[w].op = "Quarantine" /\ TakeOK(work[w], p)'
    BY <1>1, <1>3, <1>4, <1>6, <2>3, IdleFields DEF TakeOK, Whole, Sealed
  <2>. QED
    BY <1>1, <1>2, <1>3, <1>6, <2>1, <2>2, <2>4, TakeHere
<1>7. CASE work[w].path = p /\ work[w].op = "Restore"
  <2>1. \A x \in Worker \ {w} : work[x].path # p
    BY <1>7, OnlyTakes
  <2>2. FileOK(p)'
    <3>1. ~Filling(p)
      BY <1>1, <2>1 DEF Filling
    <3>. QED
      BY <1>1, <1>2, <3>1, FileStays DEF CleanOK
  <2>3. ASSUME NEW i \in Id PROVE BlobOK(i, p)'
    <3>1. Committing(i) => Committing(i)'
      BY <1>1, <1>3 DEF Committing
    <3>. QED
      BY <1>1, <1>2, <3>1, BlobStays DEF CleanOK, Listed
  <2>4. work'[w].path = p => work'[w].op = "Restore" /\ GiveOK(work[w], p)'
    BY <1>1, <1>3, <1>7, IdleFields DEF CleanOK, CallClean, GiveOK
  <2>. QED
    BY <1>1, <1>2, <1>3, <1>7, <2>1, <2>2, <2>3, <2>4, GiveHere
<1>. QED
  BY <1>5, <1>6, <1>7, OnlyTakes

LEMMA PathCommit ==
  ASSUME Shape, Shape', IdsOK, IdsOK', EncOK, LineOK, NEW p \in Path, CleanOK(p),
         NEW w \in Worker, Commit(w)
  PROVE  CleanOK(p)'
<1>1. /\ work[w].pc = "commit" /\ work[w].op \in {"Quarantine", "Restore", "Delete"}
      /\ work[w].id \in Id
      /\ work[w].op = "Quarantine" =>
           /\ rows'[work[w].id].path = work[w].path /\ rows'[work[w].id].enc = encrypt
           /\ work[w].path \in Path
      /\ work[w].op # "Quarantine" => rows'[work[w].id] = NoRow
      /\ \A i \in Id \ {work[w].id} : rows'[i] = rows[i]
      /\ work'[w] = Idle /\ \A x \in Worker \ {w} : work'[x] = work[x]
      /\ UNCHANGED <<dir, data, keyFile, encrypt, born, released, halfway, struck>>
  BY CommitDoes DEF files, daemon, history
<1>2. Grows
  BY <1>1, GrowsSame
<1>3. work'[w].path # p /\ work'[w].pc # "fill"
  BY <1>1, IdleFields, PathAssumption
<1>4. CASE work[w].path # p
  BY <1>1, <1>2, <1>3, <1>4, ElseCall
<1>5. CASE work[w].path = p /\ work[w].op = "Quarantine"
  <2>1. \A x \in Worker : work[x].path = p => work[x].op = "Quarantine"
    BY <1>5, OnlyTakes
  <2>2. ASSUME NEW i \in Id, i = work[w].id PROVE BlobOK(i, p)'
    <3>1. dir'[i] # 0 /\ dir'[i] = dir[i] /\ rows'[i].enc = encrypt
      BY <1>1, <1>5, <2>2, Basics DEF CallIds, TakeIds
    <3>2. PICK v \in 0 .. MaxVersion : Was(v, p) /\ data[dir[i]] = Sealed(Plain(v), encrypt)
      BY <1>1, <1>5, <2>2 DEF CleanOK, CallClean, TakeOK, Whole
    <3>3. Was(v, p)'
      BY <1>2, <3>2, WasStays
    <3>4. data'[dir'[i]] = Sealed(Plain(v), rows[i].enc)'
      BY <1>1, <3>1, <3>2 DEF Sealed, Seal
    <3>. QED
      BY <3>1, <3>3, <3>4 DEF BlobOK, Whole
  <2>. QED
    BY <1>1, <1>2, <1>3, <1>5, <2>1, <2>2, TakeHere
<1>6. CASE work[w].path = p /\ work[w].op = "Restore"
  <2>1. \A x \in Worker \ {w} : work[x].path # p
    BY <1>6, OnlyTakes
  <2>2. ~Filling(p)
    BY <1>1, <2>1 DEF Filling
  <2>3. FileOK(p)'
    BY <1>1, <1>2, <2>2, FileStays DEF CleanOK
  <2>4. \A i \in Id : i = work[w].id => BlobOK(i, p)'
    BY <1>1, <1>6 DEF BlobOK, Listed
  <2>. QED
    BY <1>1, <1>2, <1>3, <1>6, <2>1, <2>3, <2>4, GiveHere
<1>. QED
  BY <1>1, <1>4, <1>5, <1>6, Basics

LEMMA PathsNext ==
  ASSUME KeyReadFails = FALSE, Shape, Shape', IdsOK, IdsOK', EncOK, LineOK, PathsOK, [Next]_vars
  PROVE  PathsOK'
<1> SUFFICES ASSUME NEW p \in Path, p \notin contested' PROVE CleanOK(p)'
  BY DEF PathsOK
<1>1. contested \subseteq contested'
  BY DEF Next, Step, Boot, GenerateKey, SaveKey, Crash, UserWrite, BeginQuarantine, BeginRestore,
         BeginDelete, Contend, Rename, ReadSource, ReadFails, CreateTarget, FillTarget, FillFails,
         Unlink, UnlinkFails, Commit, CommitFails, vars, history
<1>2. CleanOK(p)
  BY <1>1 DEF PathsOK
<1>3. CASE Boot \/ GenerateKey \/ UNCHANGED vars
  BY <1>2, <1>3, PathSame DEF Boot, GenerateKey, KeyLost, vars, files, history, daemon
<1>4. ASSUME NEW w \in Worker, Step(w) PROVE CleanOK(p)'
  BY <1>2, <1>4, PathTake, PathGive, PathDelete, PathRename, PathRead, PathFails, PathCreate,
     PathFill, PathUnlink, PathStuck, PathCommit DEF Step
<1>5. ASSUME NEW q \in Path, NEW o \in Inode, UserWrite(q, o) PROVE CleanOK(p)'
  BY <1>2, <1>5, PathWrite
<1>. QED
  BY <1>2, <1>3, <1>4, <1>5, PathSave, PathCrash DEF Next

---------------------------------------------------------------------------
(* Nothing is lost.                                                        *)

Home(v)    == dir[born[v]] # 0 /\ data[dir[born[v]]] = Plain(v)
Blob(v, i) == dir[i] # 0 /\ data[dir[i]] \in {Plain(v), Seal(Plain(v), keyFile)}
Safe(i)    == Listed(i) \/ Committing(i) \/ i \in struck

Found(v) ==
  v \in released \/ born[v] \in contested \/ Home(v) \/ \E i \in Id : Blob(v, i) /\ Safe(i)

LEMMA AccountedFound == Accounted <=> \A v \in DOMAIN born : Found(v)
  BY DEF Accounted, Found, Home, Blob, Safe

LEMMA BornTyped ==
  ASSUME Shape, NEW v \in DOMAIN born
  PROVE  /\ v \in 1 .. MaxVersion /\ v \in 0 .. MaxVersion /\ v # 0
         /\ born[v] \in Path /\ BornAt(v, born[v])
<1>1. born \in Seq(Path) /\ Len(born) <= MaxVersion /\ MaxVersion \in Nat
  BY BoundAssumption DEF Shape, TypeOK
<1>2. v \in 1 .. Len(born) /\ born[v] \in Path /\ Len(born) \in Nat
  BY <1>1, ElementTyped
<1>. QED
  BY <1>1, <1>2 DEF BornAt

(* The version in a blob. *)
LEMMA BlobVersion ==
  ASSUME NEW v, NEW i, Blob(v, i)
  PROVE  data[dir[i]].v = v
<1>1. Plain(v).v = v /\ Seal(Plain(v), keyFile) = [v |-> v, seal |-> <<keyFile>>]
  BY SealPlain DEF Plain
<1>. QED
  BY <1>1 DEF Blob

LEMMA FoundKept ==
  ASSUME Shape, IdsOK, NEW v, Found(v), dir' = dir,
         UNCHANGED <<born, keyFile>>, released \subseteq released', contested \subseteq contested',
         born[v] \in Path,
         \A n \in Name : dir[n] # 0 => data'[dir[n]] = data[dir[n]],
         \A i \in Id : Safe(i) /\ dir[i] # 0 => Safe(i)'
  PROVE  Found(v)'
<1>1. born[v] \in Name /\ \A i \in Id : i \in Name
  BY Basics
<1>2. Home(v) => Home(v)'
  BY <1>1 DEF Home
<1>3. \A i \in Id : Blob(v, i) => Blob(v, i)' /\ dir[i] # 0
  BY <1>1 DEF Blob, Seal, Plain
<1>. QED
  BY <1>2, <1>3 DEF Found

(* The steps that leave the names alone. *)
(* The steps that move no file. *)
Still(w) ==
  \/ \E p \in Path : BeginQuarantine(w, p)
  \/ \E i \in Id : BeginRestore(w, i)
  \/ \E i \in Id : BeginDelete(w, i)
  \/ ReadSource(w) \/ ReadFails(w) \/ FillFails(w) \/ UnlinkFails(w) \/ Commit(w)
  \/ CommitFails(w)
  \/ Rename(w) /\ ~(dir[Src(work[w])] # 0 /\ work[w].path \in Local)

LEMMA FoundQuiet ==
  ASSUME Shape, Shape', IdsOK, IdsOK', NEW v \in DOMAIN born, Found(v), NEW w \in Worker,
         Still(w)
  PROVE  Found(v)'
<1>1. /\ dir' = dir
      /\ Store(data) \/ data' = data
      /\ UNCHANGED <<born, keyFile>>
      /\ released \subseteq released' /\ contested \subseteq contested' /\ struck \subseteq struck'
  BY DEF Still, BeginQuarantine, BeginRestore, BeginDelete, Contend, ReadSource, ReadFails,
         FillFails, UnlinkFails, Commit, CommitFails, Rename, files, daemon, history
<1>2. \A n \in Name : dir[n] # 0 => data'[dir[n]] = data[dir[n]]
  <2>1. \A n \in Name : dir[n] # 0 => dir[n] \in Inode
    BY Basics DEF Inode
  <2>. QED
    BY <1>1, <2>1, StoreKeeps
<1>3. \A x \in Worker \ {w} : work'[x] = work[x]
  <2>1. CASE \/ \E p \in Path : BeginQuarantine(w, p)
             \/ \E i \in Id : BeginRestore(w, i) \/ BeginDelete(w, i)
    BY <2>1, TakeBegins, GiveBegins, DeleteBegins
  <2>2. CASE \/ ReadSource(w) \/ ReadFails(w) \/ FillFails(w) \/ UnlinkFails(w) \/ Commit(w)
             \/ CommitFails(w)
             \/ Rename(w) /\ ~(dir[Src(work[w])] # 0 /\ work[w].path \in Local)
    BY <2>2, ReadDoes, CommitDoes, ReturnChanged, GotoChanged
    DEF ReadFails, FillFails, UnlinkFails, CommitFails, Rename
  <2>. QED
    BY <2>1, <2>2 DEF Still
<1>4. ASSUME work[w].pc # "commit" PROVE rows' = rows
  BY <1>4 DEF Still, BeginQuarantine, BeginRestore, BeginDelete, ReadSource, ReadFails, FillFails,
         UnlinkFails, Commit, CommitFails, Rename
<1>5. ASSUME NEW i \in Id, Safe(i), dir[i] # 0 PROVE Safe(i)'
  <2>1. CASE work[w].pc # "commit"
    <3>1. Committing(i) => Committing(i)'
      BY <1>3, <2>1 DEF Committing
    <3>. QED
      BY <1>1, <1>4, <1>5, <2>1, <3>1 DEF Safe, Listed
  <2>2. CASE CommitFails(w)
    <3>1. struck' = struck \cup {work[w].id} /\ rows' = rows
      BY <2>2 DEF CommitFails
    <3>2. Committing(i) => Committing(i)' \/ i \in struck'
      BY <1>3, <3>1 DEF Committing
    <3>. QED
      BY <1>1, <1>5, <3>1, <3>2 DEF Safe, Listed
  <2>3. CASE Commit(w)
    <3>1. /\ work[w].op = "Quarantine" => rows'[work[w].id] # NoRow
          /\ work[w].op # "Quarantine" => dir[work[w].id] = 0 \/ work[w].id \in struck
          /\ \A j \in Id \ {work[w].id} : rows'[j] = rows[j]
      BY <2>3, CommitDoes
    <3>2. CASE i = work[w].id
      BY <1>1, <1>5, <3>1, <3>2 DEF Safe, Listed
    <3>3. CASE i # work[w].id
      <4>1. Committing(i) => Committing(i)'
        BY <1>3, <3>3 DEF Committing
      <4>. QED
        BY <1>1, <1>5, <3>1, <3>3, <4>1 DEF Safe, Listed
    <3>. QED
      BY <3>2, <3>3
  <2>4. work[w].pc = "commit" => Commit(w) \/ CommitFails(w)
    BY IdleFields DEF Still, BeginQuarantine, BeginRestore, BeginDelete, ReadSource, ReadFails,
                      FillFails, UnlinkFails, Rename
  <2>. QED
    BY <2>1, <2>2, <2>3, <2>4
<1>. QED
  BY <1>1, <1>2, <1>5, BornTyped, FoundKept

LEMMA FoundCrash ==
  ASSUME Shape, IdsOK, NEW v \in DOMAIN born, Found(v), Crash
  PROVE  Found(v)'
<1>1. /\ struck' = struck \cup {work[w].id : w \in {x \in Worker : work[x].pc = "commit"}}
      /\ Store(data) /\ UNCHANGED <<dir, rows, keyFile, born, released, contested>>
  BY CrashDoes
<1>2. \A n \in Name : dir[n] # 0 => data'[dir[n]] = data[dir[n]]
  <2>1. \A n \in Name : dir[n] # 0 => dir[n] \in Inode
    BY Basics DEF Inode
  <2>. QED
    BY <1>1, <2>1, StoreKeeps
<1>3. \A i \in Id : Safe(i) => Safe(i)'
  BY <1>1 DEF Safe, Committing, Listed
<1>. QED
  BY <1>1, <1>2, <1>3, BornTyped, FoundKept

LEMMA FoundSave ==
  ASSUME Shape, IdsOK, NEW v \in DOMAIN born, Found(v), SaveKey
  PROVE  Found(v)'
<1>1. /\ keyFile = 0
      /\ UNCHANGED <<dir, data, rows, work, born, released, contested, struck>>
  BY DEF SaveKey, Shape, KeyOK, files, history
<1>2. ASSUME NEW i \in Id, Blob(v, i) PROVE Blob(v, i)'
  <2>1. data[dir[i]] \in Data
    BY <1>2, Basics DEF Blob, Inode
  <2>2. data[dir[i]] = Plain(v)
    BY <1>1, <1>2, <2>1, SealedNeedsKey DEF Blob
  <2>. QED
    BY <1>1, <1>2, <2>2 DEF Blob, Plain
<1>3. \A i \in Id : Safe(i) => Safe(i)'
  BY <1>1 DEF Safe, Listed, Committing
<1>4. Home(v) => Home(v)'
  BY <1>1 DEF Home
<1>. QED
  BY <1>1, <1>2, <1>3, <1>4 DEF Found

(* What a version is found in belongs to the path it was written to. *)
LEMMA FoundLine ==
  ASSUME Shape, IdsOK, LineOK, NEW v \in DOMAIN born, NEW o \in Inode, NEW q \in Path, Of(o, q),
         data[o].v = v
  PROVE  q = born[v]
  BY BornTyped DEF LineOK, Contents, BornAt

LEMMA FoundRename ==
  ASSUME Shape, IdsOK, EncOK, LineOK, PathsOK, NEW v \in DOMAIN born, Found(v),
         NEW w \in Worker, Rename(w), dir[Src(work[w])] # 0, work[w].path \in Local
  PROVE  Found(v)'
<1>1. /\ work[w].path \in Path /\ work[w].id \in Id /\ work[w].op \in {"Quarantine", "Restore"}
      /\ work[w].op = "Quarantine" =>
           /\ dir'[work[w].id] = dir[work[w].path] /\ dir'[work[w].path] = 0
           /\ dir[work[w].path] # 0 /\ dir[work[w].id] = 0
      /\ work[w].op = "Restore" =>
           /\ dir'[work[w].path] = dir[work[w].id] /\ dir'[work[w].id] = 0
           /\ dir[work[w].id] # 0
           /\ released' = released \cup (Held(work[w].path) \ Held(work[w].id))
      /\ \A n \in Name \ {work[w].path, work[w].id} : dir'[n] = dir[n]
      /\ Goto(w, "commit") /\ Store(data) /\ work[w].pc = "rename"
      /\ released \subseteq released'
      /\ UNCHANGED <<rows, keyFile, born, contested, struck>>
  BY RenameDoes DEF daemon
<1>2. /\ \A x \in Worker \ {w} : work'[x] = work[x]
      /\ work'[w].pc = "commit" /\ work'[w].id = work[w].id
  BY <1>1, GotoChanged
<1>3. /\ \A n \in Name : dir[n] # 0 => dir[n] \in Inode
      /\ \A n \in Name : dir'[n] \in Inode => data'[dir'[n]] = data[dir'[n]]
      /\ \A i \in Id : i \in Name /\ i \notin Path
      /\ \A q \in Path : q \in Name
  <2>1. \A n \in Name : dir'[n] \in Inode => data'[dir'[n]] = data[dir'[n]]
    BY <1>1, StoreKeeps
  <2>. QED
    BY <2>1, Basics DEF Inode
<1>4. born[v] \in Path /\ v # 0
  BY BornTyped
<1>5. \A i \in Id : Safe(i) => Safe(i)'
  BY <1>1, <1>2 DEF Safe, Listed, Committing
<1>6. ASSUME work[w].op = "Restore", work[w].path \notin contested
      PROVE  \E u : data[dir[work[w].id]] = Plain(u)
  <2>1. GiveOK(work[w], work[w].path)
    BY <1>1, <1>6 DEF PathsOK, CleanOK, CallClean
  <2>2. work[w].crypt = FALSE
    BY <1>1, Basics DEF EncOK, EncCall, Work
  <2>. QED
    BY <1>1, <1>6, <2>1, <2>2 DEF GiveOK, Whole, Sealed
<1>7. ASSUME work[w].op = "Restore", data[dir[work[w].id]].v = v, born[v] \notin contested
      PROVE  Home(v)'
  <2>2. work[w].path = born[v]
    <3>1. Of(dir[work[w].id], work[w].path) /\ dir[work[w].id] \in Inode
      BY <1>1, <1>3, <1>7 DEF Of
    <3>. QED
      BY <1>1, <1>7, <3>1, FoundLine
  <2>3. data[dir[work[w].id]] = Plain(v)
    <3>1. PICK u : data[dir[work[w].id]] = Plain(u)
      BY <1>6, <1>7, <2>2
    <3>2. u = v
      BY <1>7, <3>1 DEF Plain
    <3>. QED
      BY <3>1, <3>2
  <2>. QED
    BY <1>1, <1>3, <1>7, <2>2, <2>3 DEF Home
<1>8. CASE Home(v) /\ born[v] \notin contested
  <2>1. CASE work[w].path # born[v]
    BY <1>1, <1>3, <1>4, <1>8, <2>1 DEF Home, Found
  <2>2. CASE work[w].path = born[v] /\ work[w].op = "Quarantine"
    <3>1. Blob(v, work[w].id)'
      BY <1>1, <1>2, <1>3, <1>8, <2>2 DEF Home, Blob
    <3>2. \A i \in Id : i = work[w].id => Safe(i)'
      BY <1>2 DEF Safe, Committing
    <3>. QED
      BY <1>1, <1>2, <3>1, <3>2 DEF Found
  <2>3. CASE work[w].path = born[v] /\ work[w].op = "Restore"
    <3>1. v \in Held(work[w].path)
      BY <1>4, <1>8, <2>3 DEF Home, Held, Plain
    <3>2. CASE v \in Held(work[w].id)
      BY <1>1, <1>7, <1>8, <2>3, <3>2 DEF Held, Found
    <3>3. CASE v \notin Held(work[w].id)
      BY <1>1, <2>3, <3>1, <3>3 DEF Found
    <3>. QED
      BY <3>2, <3>3
  <2>. QED
    BY <1>1, <2>1, <2>2, <2>3
<1>9. ASSUME NEW i \in Id, Blob(v, i), Safe(i), born[v] \notin contested PROVE Found(v)'
  <2>1. CASE i # work[w].id
    <3>1. Blob(v, i)'
      BY <1>1, <1>3, <1>9, <2>1 DEF Blob, Seal, Plain
    <3>. QED
      BY <1>5, <1>9, <3>1 DEF Found
  <2>2. CASE i = work[w].id
    BY <1>1, <1>7, <1>9, <2>2, BlobVersion DEF Found, Blob
  <2>. QED
    BY <2>1, <2>2
<1>. QED
  BY <1>1, <1>8, <1>9 DEF Found

(* A file that is not the one opened or written to stays as it is. *)
LEMMA FoundElse ==
  ASSUME Shape, Shape', IdsOK, NEW v \in DOMAIN born, Found(v),
         born' = born \/ born'[v] = born[v], keyFile' = keyFile,
         released \subseteq released', contested \subseteq contested',
         \A i \in Id : Blob(v, i) /\ Safe(i) /\ born[v] \notin contested =>
           Found(v)' \/ (dir'[i] = dir[i] /\ data'[dir[i]] = data[dir[i]] /\ Safe(i)'),
         Home(v) /\ born[v] \notin contested =>
           Found(v)' \/ (dir'[born[v]] = dir[born[v]] /\ data'[dir[born[v]]] = data[dir[born[v]]])
  PROVE  Found(v)'
<1>1. born'[v] = born[v]
  OBVIOUS
<1>2. ASSUME NEW i \in Id, Blob(v, i), dir'[i] = dir[i], data'[dir[i]] = data[dir[i]] PROVE Blob(v, i)'
  BY <1>2 DEF Blob, Seal, Plain
<1>3. ASSUME Home(v), dir'[born[v]] = dir[born[v]], data'[dir[born[v]]] = data[dir[born[v]]]
      PROVE  Home(v)'
  BY <1>1, <1>3 DEF Home
<1>. QED
  BY <1>1, <1>2, <1>3 DEF Found

LEMMA FoundWrite ==
  ASSUME Shape, Shape', IdsOK, LineOK, NEW v \in DOMAIN born, Found(v),
         NEW q \in Path, NEW o \in Inode, UserWrite(q, o)
  PROVE  Found(v)'
<1>1. /\ born' = Append(born, q) /\ born \in Seq(Path)
      /\ dir'[q] = o /\ IF dir[q] = 0 THEN Free(o) ELSE o = dir[q]
      /\ \A n \in Name \ {q} : dir'[n] = dir[n]
      /\ \A u \in Inode \ {o} : data'[u] = data[u]
      /\ released' = released \cup Held(q)
      /\ UNCHANGED <<rows, keyFile, work, struck>>
      /\ contested \subseteq contested'
  BY WriteDoes DEF daemon
<1>2. born'[v] = born[v]
  BY <1>1, ElementTyped
<1>3. /\ \A n \in Name : dir[n] # 0 => dir[n] \in Inode
      /\ \A i \in Id : i \in Name /\ i # q
      /\ q \in Name /\ born[v] \in Name /\ v # 0
  BY Basics, BornTyped DEF Inode
<1>4. ASSUME NEW n \in Name, n # q, dir[n] # 0 PROVE dir'[n] = dir[n] /\ data'[dir[n]] = data[dir[n]]
  <2>1. dir[n] # o
    BY <1>1, <1>3, <1>4 DEF Free, LineOK, Named
  <2>. QED
    BY <1>1, <1>3, <1>4, <2>1
<1>5. \A i \in Id : Safe(i) => Safe(i)'
  BY <1>1 DEF Safe, Listed, Committing
<1>6. Home(v) /\ born[v] = q => v \in released'
  BY <1>1, <1>3 DEF Home, Held, Plain
<1>. QED
  BY <1>1, <1>2, <1>3, <1>4, <1>5, <1>6, FoundElse DEF Home, Blob, Found

LEMMA FoundCreate ==
  ASSUME Shape, Shape', IdsOK, LineOK, PathsOK, NEW v \in DOMAIN born, Found(v),
         NEW w \in Worker, NEW o \in Inode, CreateTarget(w, o)
  PROVE  Found(v)'
<1>1. /\ work[w].pc = "create" /\ work[w].op \in {"Quarantine", "Restore"}
      /\ work[w].path \in Path /\ work[w].id \in Id
      /\ work'[w].pc = "fill"
      /\ work[w].op = "Quarantine" =>
           /\ dir'[work[w].id] = o /\ Free(o) /\ dir[work[w].id] = 0
           /\ \A n \in Name \ {work[w].id} : dir'[n] = dir[n]
      /\ work[w].op = "Restore" =>
           /\ dir'[work[w].path] = o
           /\ IF dir[work[w].path] = 0 THEN Free(o) ELSE o = dir[work[w].path]
           /\ \A n \in Name \ {work[w].path} : dir'[n] = dir[n]
           /\ released' = released \cup (Held(work[w].path) \ {Load(work[w]).v})
      /\ released \subseteq released'
      /\ \A x \in Worker \ {w} : work'[x] = work[x]
      /\ UNCHANGED <<rows, keyFile, born, contested, struck>>
  BY CreateDoes DEF daemon
<1>2. /\ \A n \in Name : dir[n] # 0 => dir[n] \in Inode
      /\ \A i \in Id : i \in Name /\ i \notin Path
      /\ \A q \in Path : q \in Name
      /\ born[v] \in Path /\ v # 0
  BY Basics, BornTyped DEF Inode
<1>3. PICK d : d = [data EXCEPT ![o] = Torn] /\ Store(d)
  BY CreateDoes
<1>4. \A u \in Inode : u # o => d[u] = data[u]
  BY <1>3, Basics
<1>5. ASSUME NEW n \in Name, dir[n] # 0, work[w].op = "Restore" => n # work[w].path
      PROVE  dir'[n] = dir[n] /\ data'[dir[n]] = data[dir[n]]
  <2>1. dir[n] # o
    BY <1>1, <1>2, <1>5 DEF Free, LineOK, Named
  <2>2. dir'[n] = dir[n]
    BY <1>1, <1>5
  <2>3. data'[dir'[n]] = d[dir'[n]]
    BY <1>2, <1>3, <1>5, <2>2, StoreKeeps
  <2>. QED
    BY <1>2, <1>4, <1>5, <2>1, <2>2, <2>3
<1>6. \A i \in Id : Safe(i) => Safe(i)'
  BY <1>1 DEF Safe, Listed, Committing
<1>7. ASSUME Home(v), born[v] \notin contested, work[w].op = "Restore", work[w].path = born[v]
      PROVE  Found(v)'
  <2>1. GiveOK(work[w], born[v]) /\ GiveIds(work[w])
    BY <1>2, <1>7, Basics DEF PathsOK, CleanOK, CallClean, CallIds
  <2>2. v \in Held(born[v])
    BY <1>2, <1>7 DEF Home, Held, Plain
  <2>3. CASE Load(work[w]).v # v
    BY <1>1, <1>7, <2>2, <2>3 DEF Found
  <2>4. CASE Load(work[w]).v = v /\ dir[work[w].id] = 0
    BY <1>1, <1>2, <2>1, <2>4 DEF GiveOK, Found
  <2>5. CASE Load(work[w]).v = v /\ dir[work[w].id] # 0
    <3>1. PICK u : Load(work[w]) = Plain(u)
      BY <1>1, <2>1 DEF GiveOK, Good
    <3>2. u = v
      BY <2>5, <3>1 DEF Plain
    <3>3. Blob(v, work[w].id)
      BY <1>1, <2>1, <2>5, <3>1, <3>2 DEF GiveOK, Blob, Sealed
    <3>4. Safe(work[w].id)
      BY <2>1, <2>5 DEF GiveIds, Safe
    <3>5. dir'[work[w].id] = dir[work[w].id] /\ data'[dir[work[w].id]] = data[dir[work[w].id]]
      BY <1>1, <1>2, <1>5, <2>5
    <3>6. \A i \in Id : i = work[w].id => Blob(v, i)' /\ Safe(i)'
      BY <1>1, <1>6, <3>3, <3>4, <3>5 DEF Blob, Seal, Plain
    <3>. QED
      BY <1>1, <3>6 DEF Found
  <2>. QED
    BY <2>3, <2>4, <2>5
<1>8. \A i \in Id : Blob(v, i) /\ Safe(i) =>
        dir'[i] = dir[i] /\ data'[dir[i]] = data[dir[i]] /\ Safe(i)'
  BY <1>1, <1>2, <1>5, <1>6 DEF Blob
<1>9. Home(v) /\ born[v] \notin contested =>
        Found(v)' \/ (dir'[born[v]] = dir[born[v]] /\ data'[dir[born[v]]] = data[dir[born[v]]])
  BY <1>1, <1>2, <1>5, <1>7 DEF Home
<1>. QED
  BY <1>1, <1>8, <1>9, FoundElse

LEMMA FoundFill ==
  ASSUME Shape, Shape', IdsOK, LineOK, PathsOK, NEW v \in DOMAIN born, Found(v),
         NEW w \in Worker, FillTarget(w)
  PROVE  Found(v)'
<1>1. /\ work[w].pc = "fill" /\ work[w].op \in {"Quarantine", "Restore"}
      /\ work[w].path \in Path /\ work[w].id \in Id /\ work[w].out \in Inode
      /\ work'[w].pc = "unlink"
      /\ \A x \in Worker \ {w} : work'[x] = work[x]
      /\ UNCHANGED <<dir, rows, keyFile, born, contested, struck, released>>
  BY FillDoes DEF daemon, history
<1>2. /\ \A n \in Name : dir[n] # 0 => dir[n] \in Inode
      /\ \A i \in Id : i \in Name /\ i \notin Path
      /\ \A q \in Path : q \in Name
      /\ born[v] \in Path /\ v # 0
  BY Basics, BornTyped DEF Inode
<1>3. PICK d : d = [data EXCEPT ![work[w].out] = Payload(work[w])] /\ Store(d)
  BY FillDoes
<1>4. \A u \in Inode : u # work[w].out => d[u] = data[u]
  BY <1>3, Basics
<1>5. ASSUME NEW n \in Name, dir[n] # 0, dir[n] # work[w].out
      PROVE  data'[dir[n]] = data[dir[n]]
  <2>2. dir'[n] = dir[n] /\ dir'[n] \in Inode
    BY <1>1, <1>2, <1>5
  <2>1. data'[dir'[n]] = d[dir'[n]]
    BY <1>3, <2>2, StoreKeeps
  <2>. QED
    BY <1>1, <1>2, <1>4, <1>5, <2>1
<1>6. \A i \in Id : Safe(i) => Safe(i)'
  BY <1>1 DEF Safe, Listed, Committing
<1>7. ASSUME data[work[w].out].v = v, born[v] \notin contested
      PROVE  /\ work[w].op = "Quarantine" /\ work[w].out = dir[work[w].id]
             /\ ~Safe(work[w].id)
  <2>1. Of(work[w].out, work[w].path)
    BY <1>1 DEF Of
  <2>2. work[w].path = born[v]
    BY <1>1, <1>7, <2>1, FoundLine
  <2>3. work[w].op # "Restore"
    <3>1. ASSUME work[w].op = "Restore" PROVE data[work[w].out] = Torn
      BY <1>1, <1>2, <1>7, <2>2, <3>1 DEF PathsOK, CleanOK, CallClean, GiveOK
    <3>. QED
      BY <1>2, <1>7, <3>1 DEF Torn
  <2>4. TakeIds(w)
    BY <1>1, <2>3, Basics DEF CallIds
  <2>. QED
    BY <1>1, <2>3, <2>4 DEF TakeIds, Safe, Committing
<1>8. ASSUME NEW i \in Id, Blob(v, i), Safe(i), born[v] \notin contested PROVE dir[i] # work[w].out
  <2>1. data[dir[i]].v = v
    BY <1>8, BlobVersion
  <2>2. dir[i] = work[w].out => i = work[w].id
    BY <1>1, <1>2, <1>7, <1>8, <2>1 DEF Blob, LineOK, Named
  <2>. QED
    BY <1>7, <1>8, <2>1, <2>2
<1>9. ASSUME Home(v), born[v] \notin contested PROVE dir[born[v]] # work[w].out
  <2>1. data[dir[born[v]]].v = v
    BY <1>9 DEF Home, Plain
  <2>. QED
    BY <1>1, <1>2, <1>7, <1>9, <2>1 DEF Home, LineOK, Named
<1>. QED
  BY <1>1, <1>2, <1>5, <1>6, <1>8, <1>9, FoundElse DEF Blob, Home

LEMMA FoundUnlink ==
  ASSUME Shape, Shape', IdsOK, EncOK, LineOK, PathsOK, NEW v \in DOMAIN born, Found(v),
         NEW w \in Worker, Unlink(w)
  PROVE  Found(v)'
<1>1. /\ work[w].pc = "unlink" /\ work[w].op \in {"Quarantine", "Restore", "Delete"}
      /\ work[w].id \in Id
      /\ work[w].op = "Quarantine" =>
           /\ work[w].path \in Path /\ dir'[work[w].path] = 0
           /\ \A n \in Name \ {work[w].path} : dir'[n] = dir[n]
      /\ work[w].op # "Quarantine" =>
           /\ dir'[work[w].id] = 0
           /\ \A n \in Name \ {work[w].id} : dir'[n] = dir[n]
      /\ work[w].op = "Delete" => released' = released \cup Held(work[w].id)
      /\ released \subseteq released'
      /\ IF work[w].crypt /\ dir[Src(work[w])] = 0 THEN Return(w) ELSE Goto(w, "commit")
      /\ Store(data)
      /\ UNCHANGED <<rows, keyFile, born, contested, struck>>
  BY UnlinkDoes DEF daemon
<1>2. /\ \A n \in Name : dir[n] # 0 => dir[n] \in Inode
      /\ \A i \in Id : i \in Name /\ i \notin Path
      /\ \A q \in Path : q \in Name
      /\ born[v] \in Path /\ v # 0
  BY Basics, BornTyped DEF Inode
<1>3. ASSUME NEW n \in Name, dir[n] # 0, dir'[n] = dir[n] PROVE data'[dir[n]] = data[dir[n]]
  BY <1>1, <1>2, <1>3, StoreKeeps
<1>4. \A x \in Worker \ {w} : work'[x] = work[x]
  BY <1>1, GotoChanged, ReturnChanged
<1>5. \A i \in Id : Safe(i) => Safe(i)'
  BY <1>1, <1>4 DEF Safe, Listed, Committing
<1>6. ASSUME NEW i \in Id, Blob(v, i), Safe(i), i = work[w].id, work[w].op # "Quarantine",
             born[v] \notin contested
      PROVE  Found(v)'
  <2>1. dir[i] # 0 /\ data[dir[i]].v = v
    BY <1>6, BlobVersion DEF Blob
  <2>2. CASE work[w].op = "Delete"
    <3>1. v \in Held(work[w].id)
      BY <1>2, <1>6, <2>1 DEF Held
    <3>. QED
      BY <1>1, <2>2, <3>1 DEF Found
  <2>3. CASE work[w].op = "Restore"
    <3>1. work[w].path \in Path
      BY <2>3, Basics
    <3>2. work[w].path = born[v]
      <4>1. Of(dir[i], work[w].path)
        BY <1>6 DEF Of
      <4>. QED
        BY <1>2, <2>1, <3>1, <4>1, FoundLine
    <3>3. CleanOK(born[v]) /\ CallClean(w, born[v])
      BY <1>2, <1>6, <3>2 DEF PathsOK, CleanOK
    <3>4. Alone(w) /\ GiveOK(work[w], born[v])
      BY <2>3, <3>3 DEF CallClean
    <3>5. dir[born[v]] # 0 /\ data[dir[i]] = Sealed(data[dir[born[v]]], work[w].crypt)
      BY <1>1, <1>6, <2>1, <3>4 DEF GiveOK
    <3>6. ~Filling(born[v])
      BY <1>1, <3>2, <3>4 DEF Filling, Alone
    <3>7. PICK u : data[dir[born[v]]] = Plain(u)
      BY <3>3, <3>5, <3>6 DEF CleanOK, FileOK, Good
    <3>8. u = v
      BY <2>1, <3>5, <3>7, SealedPlain, Basics DEF Work
    <3>9. dir'[born[v]] = dir[born[v]] /\ data'[dir[born[v]]] = data[dir[born[v]]]
      BY <1>1, <1>2, <1>3, <2>3, <3>5
    <3>10. Home(v)'
      BY <1>1, <3>5, <3>7, <3>8, <3>9 DEF Home
    <3>. QED
      BY <3>10 DEF Found
  <2>. QED
    BY <1>1, <1>6, <2>2, <2>3
<1>7. ASSUME Home(v), born[v] \notin contested, work[w].op = "Quarantine", work[w].path = born[v]
      PROVE  Found(v)'
  <2>1. TakeIds(w) /\ TakeOK(work[w], born[v])
    BY <1>1, <1>2, <1>7, Basics DEF CallIds, PathsOK, CleanOK, CallClean
  <2>2. dir[work[w].id] # 0 /\ data[dir[work[w].id]] = Sealed(Plain(v), encrypt)
    BY <1>1, <1>7, <2>1 DEF TakeIds, TakeOK, Home
  <2>3. dir'[work[w].id] = dir[work[w].id] /\ data'[dir[work[w].id]] = data[dir[work[w].id]]
    BY <1>1, <1>2, <1>3, <1>7, <2>2
  <2>4. work'[w].pc = "commit" /\ work'[w].id = work[w].id
    <3>1. Goto(w, "commit")
      BY <1>1, <1>7 DEF Src, Home
    <3>. QED
      BY <3>1, GotoChanged
  <2>5. \A i \in Id : i = work[w].id => Blob(v, i)' /\ Safe(i)'
    BY <1>1, <2>2, <2>3, <2>4 DEF Blob, Safe, Committing, Sealed, Seal, Plain
  <2>. QED
    BY <1>1, <2>5 DEF Found
<1>8. ASSUME NEW i \in Id, Blob(v, i), Safe(i), born[v] \notin contested
      PROVE  Found(v)' \/ (dir'[i] = dir[i] /\ data'[dir[i]] = data[dir[i]] /\ Safe(i)')
  <2>1. CASE work[w].op = "Quarantine" \/ i # work[w].id
    <3>1. dir'[i] = dir[i]
      BY <1>1, <1>2, <2>1
    <3>. QED
      BY <1>2, <1>3, <1>5, <1>8, <3>1 DEF Blob
  <2>2. CASE work[w].op # "Quarantine" /\ i = work[w].id
    BY <1>6, <1>8, <2>2
  <2>. QED
    BY <2>1, <2>2
<1>9. ASSUME Home(v), born[v] \notin contested
      PROVE  Found(v)' \/ (dir'[born[v]] = dir[born[v]] /\ data'[dir[born[v]]] = data[dir[born[v]]])
  <2>1. CASE work[w].op = "Quarantine" /\ work[w].path = born[v]
    BY <1>7, <1>9, <2>1
  <2>2. CASE ~(work[w].op = "Quarantine" /\ work[w].path = born[v])
    <3>1. dir'[born[v]] = dir[born[v]]
      BY <1>1, <1>2, <2>2
    <3>. QED
      BY <1>2, <1>3, <1>9, <3>1 DEF Home
  <2>. QED
    BY <2>1, <2>2
<1>. QED
  BY <1>1, <1>8, <1>9, FoundElse

LEMMA AccountedNext ==
  ASSUME KeyReadFails = FALSE, Shape, Shape', IdsOK, IdsOK', EncOK, LineOK, PathsOK, Accounted,
         [Next]_vars
  PROVE  Accounted'
<1>1. \A v \in DOMAIN born : Found(v)
  BY AccountedFound
<1>2. ASSUME NEW v \in DOMAIN born PROVE Found(v)'
  <2>1. Found(v) /\ born[v] \in Path
    BY <1>1, BornTyped
  <2>2. CASE Boot \/ GenerateKey \/ UNCHANGED vars
    <3>1. UNCHANGED <<dir, data, rows, work, keyFile, born, released, contested, struck>>
      BY <2>2 DEF Boot, GenerateKey, KeyLost, vars, files, history, daemon
    <3>2. \A i \in Id : Safe(i) => Safe(i)'
      BY <3>1 DEF Safe, Listed, Committing
    <3>. QED
      BY <2>1, <3>1, <3>2, FoundKept
  <2>3. ASSUME NEW w \in Worker, Step(w) PROVE Found(v)'
    <3>1. CASE Rename(w)
      BY <2>1, <3>1, FoundRename, FoundQuiet DEF Still
    <3>2. CASE Still(w)
      BY <2>1, <3>2, FoundQuiet
    <3>3. ASSUME NEW o \in Inode, CreateTarget(w, o) PROVE Found(v)'
      BY <2>1, <3>3, FoundCreate
    <3>4. CASE FillTarget(w)
      BY <2>1, <3>4, FoundFill
    <3>5. CASE Unlink(w)
      BY <2>1, <3>5, FoundUnlink
    <3>6. Step(w) => \/ Rename(w) \/ Still(w) \/ FillTarget(w) \/ Unlink(w)
                     \/ \E o \in Inode : CreateTarget(w, o)
      BY DEF Step, Still
    <3>. QED
      BY <2>3, <3>1, <3>2, <3>3, <3>4, <3>5, <3>6
  <2>4. ASSUME NEW q \in Path, NEW o \in Inode, UserWrite(q, o) PROVE Found(v)'
    BY <2>1, <2>4, FoundWrite
  <2>. QED
    BY <2>1, <2>2, <2>3, <2>4, FoundSave, FoundCrash DEF Next
<1>3. ASSUME NEW v \in DOMAIN born', v \notin DOMAIN born PROVE Found(v)'
  <2>1. CASE born' = born
    BY <1>3, <2>1
  <2>2. ASSUME NEW q \in Path, NEW o \in Inode, UserWrite(q, o) PROVE Found(v)'
    <3>1. /\ born' = Append(born, q) /\ born \in Seq(Path)
          /\ dir'[q] = o /\ data'[o] = Plain(Len(born) + 1)
      BY <2>2, WriteDoes
    <3>2. v = Len(born) + 1 /\ born'[v] = q
      BY <1>3, <3>1
    <3>3. Home(v)'
      BY <3>1, <3>2, Basics DEF Home, Plain
    <3>. QED
      BY <3>3 DEF Found
  <2>3. (\E q \in Path, o \in Inode : UserWrite(q, o)) \/ born' = born
    BY DEF Next, Step, Boot, GenerateKey, SaveKey, Crash, BeginQuarantine, BeginRestore,
           BeginDelete, Rename, ReadSource, ReadFails, CreateTarget, FillTarget, FillFails,
           Unlink, UnlinkFails, Commit, CommitFails, vars, history
  <2>. QED
    BY <2>1, <2>2, <2>3
<1>4. \A v \in DOMAIN born' : Found(v)'
  BY <1>2, <1>3
<1>. QED
  BY <1>4 DEF Accounted, Found, Home, Blob, Safe

---------------------------------------------------------------------------
(* The theorems.                                                           *)

Custody == Shape /\ IdsOK /\ EncOK /\ LineOK /\ PathsOK /\ Accounted

LEMMA CustodyInit == Init => Custody
<1>1. Init => Accounted
  BY DEF Init, Accounted
<1>. QED
  BY <1>1, ShapeInit, IdsInit, EncInit, LineInit, PathsInit DEF Custody

LEMMA CustodyNext ==
  ASSUME KeyReadFails = FALSE, MayDisable = FALSE
  PROVE  Custody /\ [Next]_vars => Custody'
<1> SUFFICES ASSUME Custody, [Next]_vars PROVE Custody'
  OBVIOUS
<1>1. Shape /\ IdsOK /\ EncOK /\ LineOK /\ PathsOK /\ Accounted
  BY DEF Custody
<1>2. Shape'
  BY <1>1, ShapeNext
<1>3. IdsOK' /\ EncOK' /\ LineOK'
  BY <1>1, IdsNext, EncNext, LineNext
<1>4. PathsOK' /\ Accounted'
  BY <1>1, <1>2, <1>3, PathsNext, AccountedNext
<1>. QED
  BY <1>2, <1>3, <1>4 DEF Custody

LEMMA CustodyListed == Custody => ListedIntact
<1> SUFFICES ASSUME Custody, NEW i \in Id, Listed(i), rows[i].path \notin contested
    PROVE  Intact(i) \/ Committing(i) \/ i \in struck
  BY DEF ListedIntact
<1>1. rows[i].path \in Path /\ BlobOK(i, rows[i].path) /\ rows[i].enc \in BOOLEAN
  BY DEF Custody, PathsOK, CleanOK, Shape, TypeOK, Row, RowsOK
<1>2. CASE dir[i] = 0
  BY <1>1, <1>2 DEF BlobOK
<1>3. CASE dir[i] # 0
  <2>1. PICK v : Was(v, rows[i].path) /\ data[dir[i]] = Sealed(Plain(v), rows[i].enc)
    BY <1>1, <1>3 DEF BlobOK, Whole
  <2>2. data[dir[i]].v = v
    BY <1>1, <2>1, SealedPlain
  <2>3. data[dir[i]].seal = IF rows[i].enc THEN <<keyFile>> ELSE <<>>
    <3>1. CASE rows[i].enc
      <4>1. data[dir[i]] = [v |-> v, seal |-> <<keyFile>>]
        BY <2>1, <3>1, SealPlain DEF Sealed
      <4>. QED
        BY <3>1, <4>1
    <3>2. CASE ~rows[i].enc
      BY <2>1, <3>2 DEF Sealed, Plain
    <3>. QED
      BY <3>1, <3>2
  <2>. QED
    BY <1>3, <2>1, <2>2, <2>3 DEF Was, Intact
<1>. QED
  BY <1>2, <1>3

LEMMA CustodyRestored == Custody => RestoredReadable
<1> SUFFICES ASSUME Custody, NEW w \in Worker, work[w].op = "Restore", work[w].pc = "commit",
                    work[w].path \notin contested
    PROVE  /\ dir[work[w].path] # 0
           /\ \/ \E v \in DOMAIN born : /\ born[v] = work[w].path
                                        /\ data[dir[work[w].path]] = Plain(v)
              \/ work[w].path \in halfway /\ data[dir[work[w].path]] = Torn
  BY DEF RestoredReadable
<1>1. work[w].path \in Path /\ CleanOK(work[w].path)
  BY Basics DEF Custody, PathsOK
<1>2. Alone(w) /\ GiveOK(work[w], work[w].path)
  BY <1>1 DEF CleanOK, CallClean
<1>3. dir[work[w].path] # 0 /\ ~Filling(work[w].path)
  BY <1>2 DEF GiveOK, Alone, Filling
<1>4. PICK v : Was(v, work[w].path) /\ data[dir[work[w].path]] = Plain(v)
  BY <1>1, <1>3 DEF CleanOK, FileOK, Good
<1>. QED
  BY <1>3, <1>4, TornPlain DEF Was, BornAt

(* Whatever quarantines, restores and deletes overlap, wherever the daemon *)
(* dies and whichever write or statement fails: a version the user wrote   *)
(* and did not replace or delete is at its path or in a blob that opens    *)
(* with the key on disk, unless activities overlapped on its path.  The    *)
(* daemon is not configured from encrypt = true to false, which loses      *)
(* files (run quarantine_disable), and an intact key file can be read.     *)
THEOREM NothingIsLost ==
  KeyReadFails = FALSE /\ MayDisable = FALSE => (Spec => []Accounted)
<1>. SUFFICES ASSUME KeyReadFails = FALSE, MayDisable = FALSE PROVE Spec => []Accounted
  OBVIOUS
<1>1. Custody /\ [Next]_vars => Custody'
  BY CustodyNext
<1>2. Custody => Accounted
  BY DEF Custody
<1>. QED
  BY CustodyInit, <1>1, <1>2, PTL DEF Spec

(* Under the same two conditions, whatever List shows can be restored as   *)
(* its row says: its blob is whole, unless the statement that ends a       *)
(* restore or a delete is under way or was lost.                           *)
THEOREM ListedIsIntact ==
  KeyReadFails = FALSE /\ MayDisable = FALSE => (Spec => []ListedIntact)
<1>. SUFFICES ASSUME KeyReadFails = FALSE, MayDisable = FALSE PROVE Spec => []ListedIntact
  OBVIOUS
<1>1. Custody /\ [Next]_vars => Custody'
  BY CustodyNext
<1>. QED
  BY CustodyInit, CustodyListed, <1>1, PTL DEF Spec

(* Under the same two conditions, a restore that is about to drop its row  *)
(* has put a version of the file back at its path, in plain.               *)
THEOREM RestoredIsReadable ==
  KeyReadFails = FALSE /\ MayDisable = FALSE => (Spec => []RestoredReadable)
<1>. SUFFICES ASSUME KeyReadFails = FALSE, MayDisable = FALSE PROVE Spec => []RestoredReadable
  OBVIOUS
<1>1. Custody /\ [Next]_vars => Custody'
  BY CustodyNext
<1>. QED
  BY CustodyInit, CustodyRestored, <1>1, PTL DEF Spec

(* Whatever calls overlap on a path, in any order, with any configuration  *)
(* and any lost key: no two names share a file, and the versions of one    *)
(* user file never end up at, in a blob of, or in the hands of a call on   *)
(* another one.  (Overlaps lose versions; they never mix them up.)         *)
THEOREM FilesNeverMix == Spec => [](Named /\ Apart /\ Contents)
<1>1. Init => Shape /\ IdsOK /\ LineOK
  BY ShapeInit, IdsInit, LineInit
<1>2. (Shape /\ IdsOK /\ LineOK) /\ [Next]_vars => (Shape /\ IdsOK /\ LineOK)'
  BY ShapeNext, IdsNext, LineNext
<1>3. Shape /\ IdsOK /\ LineOK => Named /\ Apart /\ Contents
  BY DEF LineOK
<1>. QED
  BY <1>1, <1>2, <1>3, PTL DEF Spec
---------------------------------------------------------------------------
(* The vault as its users see it.                                          *)

Hand(i) == UNION {Carried(work[w]) : w \in For(i)}
Asks(i) == \E w \in Worker : work[w].id = i /\ Droppable(work[w])

(* The moves of Vault, name by name and id by id. *)
Rest == \A i \in Id : Kept(i)' = Kept(i) /\ Hand(i)' = Hand(i) /\ (Asks(i)' <=> Asks(i))

Files == [p \in Path |-> File(p)]
Keeps == [i \in Id |-> Kept(i)]
Hands == [i \in Id |-> Hand(i)]
Asked == {i \in Id : Asks(i)}

LEMMA VaultLeave ==
  ASSUME born' = born, \A p \in Path : File(p)' = File(p), \A i \in Id : Kept(i)' = Kept(i),
         \A i \in Id : Hand(i)' \in {Hand(i), {}}, \A i \in Id : Asks(i)' => Asks(i)
  PROVE  V!Next
<1>1. Files' = Files /\ Keeps' = Keeps
  BY DEF Files, Keeps
<1>2. Hands' = [i \in Id |-> IF Hands'[i] = {} THEN {} ELSE Hands[i]]
  BY DEF Hands
<1>3. Asked' \subseteq Asked
  BY DEF Asked
<1>4. V!Leave
  BY <1>1, <1>2, <1>3 DEF V!Leave, Files, Keeps, Hands, Asked, Hand, Asks, For
<1>. QED
  BY <1>4 DEF V!Next

LEMMA VaultWrite ==
  ASSUME NEW p \in Path, born' = Append(born, p), Rest,
         File(p)' = {Len(born) + 1}, \A q \in Path \ {p} : File(q)' = File(q)
  PROVE  V!Next
<1>1. /\ Files' = [Files EXCEPT ![p] = {Len(born) + 1}]
      /\ Keeps' = Keeps /\ Hands' = Hands /\ Asked' = Asked
  BY DEF Rest, Files, Keeps, Hands, Asked
<1>2. {} \in SUBSET {i \in Id : Hands[i] = Files[p]}
  OBVIOUS
<1>3. Hands' = [i \in Id |-> IF i \in {} THEN Files'[p] ELSE Hands[i]]
  BY <1>1 DEF Hands
<1>4. V!Write(p)
  BY <1>1, <1>2, <1>3 DEF V!Write, Files, Keeps, Hands, Asked, Hand, Asks, For
<1>. QED
  BY <1>4 DEF V!Next

(* The steps of a call for i; of the rest of the vault nothing changes. *)
Elses(i) ==
  \A j \in Id \ {i} : Kept(j)' = Kept(j) /\ Hand(j)' = Hand(j) /\ (Asks(j)' <=> Asks(j))

LEMMA VaultPickUp ==
  ASSUME NEW i \in Id, NEW p \in Path, born' = born, \A q \in Path : File(q)' = File(q),
         Elses(i), Kept(i) = {}, Kept(i)' = {}, Hand(i)' = File(p), Asks(i)' <=> Asks(i)
  PROVE  V!Next
<1>1. /\ Files' = Files /\ Keeps' = Keeps /\ Asked' = Asked
      /\ Hands' = [Hands EXCEPT ![i] = Files[p]] /\ Keeps[i] = {}
  BY DEF Elses, Files, Keeps, Hands, Asked
<1>2. V!PickUp(i, p)
  BY <1>1 DEF V!PickUp, Files, Keeps, Hands, Asked, Hand, Asks, For
<1>. QED
  BY <1>2 DEF V!Next

LEMMA VaultTakeAway ==
  ASSUME NEW i \in Id, NEW p \in Path, born' = born,
         \A q \in Path \ {p} : File(q)' = File(q), File(p)' = {}, Elses(i),
         NEW S, S \in {Hand(i), File(p)}, S # {}, File(p) \in {{}, S},
         Kept(i) = {}, Kept(i)' = S, Hand(i)' = {}, Asks(i)' <=> Asks(i)
  PROVE  V!Next
<1>1. /\ Files' = [Files EXCEPT ![p] = {}] /\ Keeps' = [Keeps EXCEPT ![i] = S]
      /\ Hands' = [Hands EXCEPT ![i] = {}] /\ Asked' = Asked
      /\ Keeps[i] = {} /\ S \in {Hands[i], Files[p]} \ {{}} /\ Files[p] \in {{}, S}
  BY DEF Elses, Files, Keeps, Hands, Asked
<1>2. \E T \in {Hands[i], Files[p]} \ {{}} :
         Files[p] \in {{}, T} /\ Keeps' = [Keeps EXCEPT ![i] = T]
  BY <1>1
<1>3. V!TakeAway(i, p)
  <2> DEFINE keeps == [j \in Id |-> Kept(j)]
             hands == [j \in Id |-> UNION {Carried(work[w]) : w \in For(j)}]
             paths == [q \in Path |-> File(q)]
  <2>1. Files = paths /\ Keeps = keeps /\ Hands = hands
    BY DEF Files, Keeps, Hands, Hand
  <2>2. Files' = paths' /\ Keeps' = keeps' /\ Hands' = hands'
    BY DEF Files, Keeps, Hands, Hand
  <2>3. UNCHANGED {j \in Id : \E w \in For(j) : Droppable(work[w])}
    BY <1>1 DEF Asked, Asks, For
  <2>4. /\ paths' = [paths EXCEPT ![p] = {}] /\ keeps[i] = {}
        /\ hands' = [hands EXCEPT ![i] = {}]
    BY <1>1, <2>1, <2>2
  <2>5. \E T \in {hands[i], paths[p]} \ {{}} :
          paths[p] \in {{}, T} /\ keeps' = [keeps EXCEPT ![i] = T]
    BY <1>2, <2>1, <2>2
  <2>. QED
    BY <2>3, <2>4, <2>5, Zenon DEF V!TakeAway
<1>. QED
  BY <1>3 DEF V!Next

LEMMA VaultCopy ==
  ASSUME NEW i \in Id, NEW p \in Path, born' = born, \A q \in Path : File(q)' = File(q),
         Elses(i), Kept(i) = {}, Hand(i) # {}, File(p) = Hand(i),
         Kept(i)' = Hand(i), Hand(i)' = {}, Asks(i)' <=> Asks(i)
  PROVE  V!Next
<1>1. /\ Files' = Files /\ Keeps' = [Keeps EXCEPT ![i] = Hands[i]]
      /\ Hands' = [Hands EXCEPT ![i] = {}] /\ Asked' = Asked
      /\ Keeps[i] = {} /\ Hands[i] # {} /\ Files[p] = Hands[i]
  BY DEF Elses, Files, Keeps, Hands, Asked
<1>2. V!Copy(i, p)
  BY <1>1 DEF V!Copy, Files, Keeps, Hands, Asked, Hand, Asks, For
<1>. QED
  BY <1>2 DEF V!Next

LEMMA VaultLend ==
  ASSUME NEW i \in Id, born' = born, \A q \in Path : File(q)' = File(q),
         Elses(i), Kept(i)' = Kept(i), Hand(i)' = Kept(i), Asks(i)' <=> Asks(i)
  PROVE  V!Next
<1>1. /\ Files' = Files /\ Keeps' = Keeps /\ Asked' = Asked
      /\ Hands' = [Hands EXCEPT ![i] = Keeps[i]]
  BY DEF Elses, Files, Keeps, Hands, Asked
<1>2. V!Lend(i)
  BY <1>1 DEF V!Lend, Files, Keeps, Hands, Asked, Hand, Asks, For
<1>. QED
  BY <1>2 DEF V!Next

LEMMA VaultTruncate ==
  ASSUME NEW i \in Id, NEW p \in Path, born' = born, Rest,
         \A q \in Path \ {p} : File(q)' = File(q), File(p)' = {0},
         NEW v, Hand(i) = {v}, v # 0 => born[v] = p
  PROVE  V!Next
<1>1. /\ Files' = [Files EXCEPT ![p] = {0}]
      /\ Keeps' = Keeps /\ Hands' = Hands /\ Asked' = Asked
  BY DEF Rest, Files, Keeps, Hands, Asked
<1>2. V!From(Hands[i], p)
  BY DEF V!From, Hands
<1>3. V!Truncate(i, p)
  BY <1>1, <1>2 DEF V!Truncate, Files, Keeps, Hands, Asked, Hand, Asks, For
<1>. QED
  BY <1>3 DEF V!Next

LEMMA VaultPutBack ==
  ASSUME NEW i \in Id, NEW p \in Path, born' = born,
         \A q \in Path \ {p} : File(q)' = File(q), File(p)' \in {Hand(i), Kept(i)}, Elses(i),
         NEW v, File(p)' = {v}, v # 0 => born[v] = p,
         Kept(i)' \in {Kept(i), {}}, Hand(i)' = {}, Asks(i)'
  PROVE  V!Next
<1>1. /\ Files' = [Files EXCEPT ![p] = {v}] /\ {v} \in {Hands[i], Keeps[i]}
      /\ Keeps' \in {Keeps, [Keeps EXCEPT ![i] = {}]}
      /\ Hands' = [Hands EXCEPT ![i] = {}] /\ Asked' = Asked \cup {i}
  <2>1. Keeps' \in {Keeps, [Keeps EXCEPT ![i] = {}]}
    <3>1. CASE Kept(i)' = Kept(i)
      BY <3>1 DEF Elses, Keeps
    <3>2. CASE Kept(i)' = {}
      BY <3>2 DEF Elses, Keeps
    <3>. QED
      BY <3>1, <3>2
  <2>. QED
    BY <2>1 DEF Elses, Files, Keeps, Hands, Asked
<1>2. V!From({v}, p)
  BY DEF V!From
<1>3. V!PutBack(i, p)
  BY <1>1, <1>2, ZenonT(60) DEF V!PutBack, Files, Keeps, Hands, Asked, Hand, Asks, For
<1>. QED
  BY <1>3 DEF V!Next

LEMMA VaultAsk ==
  ASSUME NEW i \in Id, born' = born, \A q \in Path : File(q)' = File(q), Elses(i),
         Kept(i)' = Kept(i), Hand(i)' = Hand(i), Asks(i)'
  PROVE  V!Next
<1>1. Files' = Files /\ Keeps' = Keeps /\ Hands' = Hands /\ Asked' = Asked \cup {i}
  BY DEF Elses, Files, Keeps, Hands, Asked
<1>2. V!Ask(i)
  BY <1>1 DEF V!Ask, Files, Keeps, Hands, Asked, Hand, Asks, For
<1>. QED
  BY <1>2 DEF V!Next

LEMMA VaultDrop ==
  ASSUME NEW i \in Id, born' = born, \A q \in Path : File(q)' = File(q), Elses(i),
         Asks(i), Asks(i)', Hand(i)' = Hand(i), Kept(i)' = {}
  PROVE  V!Next
<1>1. /\ Files' = Files /\ Keeps' = [Keeps EXCEPT ![i] = {}] /\ Hands' = Hands
      /\ Asked' = Asked /\ i \in Asked
  BY DEF Elses, Files, Keeps, Hands, Asked
<1>2. V!Drop(i)
  BY <1>1 DEF V!Drop, Files, Keeps, Hands, Asked, Hand, Asks, For
<1>. QED
  BY <1>2 DEF V!Next

---------------------------------------------------------------------------
(* What a step leaves alone.                                               *)

(* Where no activities overlapped, all that is proved of a path is true.   *)
Ready == Custody /\ SealOK /\ contested = {}

LEMMA ReadyParts ==
  ASSUME Ready
  PROVE  /\ Shape /\ IdsOK /\ EncOK /\ LineOK /\ PathsOK /\ SealOK /\ GivesAgree
         /\ \A p \in Path : CleanOK(p)
  BY DEF Ready, Custody, PathsOK, IdsOK

(* A path holds nothing sealed. *)
InPlain == \A p \in Path : File(p) = At(p)

LEMMA FilesInPlain == Ready => InPlain
<1> SUFFICES ASSUME Ready, NEW p \in Path, dir[p] # 0 PROVE data[dir[p]].seal = <<>>
  BY DEF InPlain, File
<1>1. Shape /\ IdsOK /\ CleanOK(p)
  BY ReadyParts
<1>2. CASE Filling(p)
  <2>1. PICK w \in Worker : work[w].op = "Restore" /\ work[w].path = p /\ work[w].pc = "fill"
    BY <1>2 DEF Filling
  <2>2. data[dir[p]] = Torn
    BY <1>1, <2>1 DEF CleanOK, CallClean, GiveOK
  <2>. QED
    BY <2>2 DEF Torn
<1>3. CASE ~Filling(p)
  <2>1. PICK v \in 0 .. MaxVersion : data[dir[p]] = Plain(v)
    BY <1>1, <1>3 DEF CleanOK, FileOK, Good
  <2>. QED
    BY <2>1, PlainTyped
<1>. QED
  BY <1>2, <1>3

LEMMA FilesInPlainNext == Ready' => InPlain'
  BY FilesInPlain, PTL

LEMMA FileSame ==
  ASSUME NEW p \in Path, dir'[p] = dir[p], dir[p] # 0 => data'[dir[p]] = data[dir[p]]
  PROVE  File(p)' = File(p)
  BY DEF File, At

LEMMA KeptSame ==
  ASSUME NEW i \in Id, dir'[i] = dir[i], keyFile' = keyFile,
         dir[i] # 0 => data'[dir[i]] = data[dir[i]] /\ (Safe(i)' <=> Safe(i))
  PROVE  Kept(i)' = Kept(i)
<1>1. CASE dir[i] = 0
  BY <1>1 DEF Kept
<1>2. CASE dir[i] # 0
  BY <1>2 DEF Kept, Safe
<1>. QED
  BY <1>1, <1>2

LEMMA NotSafe ==
  ASSUME NEW i \in Id, ~Safe(i) \/ dir[i] = 0
  PROVE  Kept(i) = {}
  BY DEF Kept, Safe

LEMMA CarriedSame ==
  ASSUME NEW x \in Worker, work'[x] = work[x],
         work[x].pc \in {"create", "fill"} /\ ~work[x].crypt =>
           data'[work[x].in].v = data[work[x].in].v,
         work[x].pc = "unlink" /\ work[x].op = "Quarantine" =>
           /\ dir'[work[x].id] = dir[work[x].id]
           /\ dir[work[x].id] # 0 => data'[dir[work[x].id]].v = data[dir[work[x].id]].v
  PROVE  Carried(work[x])' = Carried(work[x])
  BY DEF Carried, At

LEMMA HandNone ==
  ASSUME NEW i, \A x \in Worker : work[x].id = i => Carried(work[x]) = {}
  PROVE  Hand(i) = {}
  BY DEF Hand, For

LEMMA HandOf ==
  ASSUME NEW i, NEW w \in Worker, work[w].id = i,
         \A x \in Worker \ {w} : work[x].id = i => Carried(work[x]) = {}
  PROVE  Hand(i) = Carried(work[w])
<1>1. \A v : v \in Hand(i) <=> \E x \in Worker : work[x].id = i /\ v \in Carried(work[x])
  BY DEF Hand, For
<1>. QED
  BY <1>1

LEMMA HandOfNext ==
  ASSUME NEW i, NEW w \in Worker, work'[w].id = i,
         \A x \in Worker \ {w} : work'[x].id = i => Carried(work[x])' = {}
  PROVE  Hand(i)' = Carried(work[w])'
<1>1. \A v : v \in Hand(i)' <=> \E x \in Worker : work'[x].id = i /\ v \in Carried(work[x])'
  BY DEF Hand, For
<1>. QED
  BY <1>1

LEMMA HandSame ==
  ASSUME NEW i,
         \A x \in Worker :
           \/ work'[x].id = work[x].id /\ Carried(work[x])' = Carried(work[x])
           \/ /\ work[x].id = i => Carried(work[x]) = {}
              /\ work'[x].id = i => Carried(work[x])' = {}
  PROVE  Hand(i)' = Hand(i)
<1>1. \A v : v \in Hand(i) <=> \E x \in Worker : work[x].id = i /\ v \in Carried(work[x])
  BY DEF Hand, For
<1>2. \A v : v \in Hand(i)' <=> \E x \in Worker : work'[x].id = i /\ v \in Carried(work[x])'
  BY DEF Hand, For
<1>3. \A x \in Worker : work[x].id = i => \A v \in Carried(work[x]) :
        work'[x].id = i /\ v \in Carried(work[x])'
  OBVIOUS
<1>4. \A x \in Worker : work'[x].id = i => \A v \in Carried(work[x])' :
        work[x].id = i /\ v \in Carried(work[x])
  OBVIOUS
<1>5. \A v : v \in Hand(i) <=> v \in Hand(i)'
  BY <1>1, <1>2, <1>3, <1>4
<1>. QED
  BY <1>5

(* The call whose blob an id is has it for itself, but for deletes.        *)
LEMMA Sole ==
  ASSUME Ready, NEW w \in Worker, work[w].op \in {"Quarantine", "Restore"}
  PROVE  /\ \A x \in Worker \ {w} : work[x].id = work[w].id =>
              /\ Carried(work[x]) = {}
              /\ work[w].op = "Restore" /\ work[x].op = "Delete"
         /\ Hand(work[w].id) = Carried(work[w])
<1>1. Shape /\ IdsOK /\ GivesAgree /\ work[w].path \in Path /\ work[w].id \in Id
  BY ReadyParts, Basics
<1>2. ASSUME NEW x \in Worker \ {w}, work[x].id = work[w].id
      PROVE  Carried(work[x]) = {} /\ work[w].op = "Restore" /\ work[x].op = "Delete"
  <2>1. work[x].op \in {"none", "Quarantine", "Restore", "Delete"} /\ CallIds(x) /\ CallIds(w)
    BY <1>1, Basics
  <2>2. work[x].op # "none"
    BY <1>1, <1>2, <2>1, IdleFields DEF CallIds, Id
  <2>3. work[w].op # "Quarantine" /\ work[x].op # "Quarantine"
    BY <1>2, <2>1 DEF CallIds, TakeIds
  <2>4. ASSUME work[x].op = "Restore" PROVE FALSE
    <3>1. work[x].path = work[w].path
      BY <1>1, <1>2, <2>3, <2>4 DEF GivesAgree
    <3>2. Alone(w)
      BY <1>1, <2>3, ReadyParts DEF CleanOK, CallClean
    <3>. QED
      BY <1>2, <3>1, <3>2 DEF Alone
  <2>5. work[x].op = "Delete" /\ CallOK(work[x])
    BY <1>1, <2>1, <2>2, <2>3, <2>4, Basics
  <2>6. Carried(work[x]) = {}
    BY <2>5 DEF Carried, CallOK
  <2>. QED
    BY <2>3, <2>5, <2>6
<1>3. Hand(work[w].id) = Carried(work[w])
  BY <1>2, HandOf
<1>. QED
  BY <1>2, <1>3

(* The other calls, and the ids that are not the step's.                   *)
LEMMA OthersCarry ==
  ASSUME Ready, NEW w \in Worker, \A x \in Worker \ {w} : work'[x] = work[x],
         \A x \in Worker \ {w} :
           work[x].pc \in {"create", "fill"} /\ ~work[x].crypt =>
             data'[work[x].in].v = data[work[x].in].v,
         \A j \in Id \ {work[w].id} :
           dir'[j] = dir[j] /\ (dir[j] # 0 => data'[dir[j]] = data[dir[j]])
  PROVE  \A x \in Worker \ {w} : Carried(work[x])' = Carried(work[x])
<1> SUFFICES ASSUME NEW x \in Worker \ {w} PROVE Carried(work[x])' = Carried(work[x])
  OBVIOUS
<1>1. Shape /\ IdsOK
  BY ReadyParts
<1>2. work[x].op = "Quarantine" => work[x].id \in Id \ {work[w].id}
  BY <1>1, Basics DEF CallIds, TakeIds
<1>. QED
  BY <1>2, CarriedSame

LEMMA OthersKept ==
  ASSUME NEW w \in Worker, NEW i, work[w].id \in {i, 0}, work'[w].id \in {i, 0},
         \A x \in Worker \ {w} : work'[x] = work[x] /\ Carried(work[x])' = Carried(work[x]),
         \A j \in Id \ {i} : /\ dir'[j] = dir[j] /\ rows'[j] = rows[j]
                             /\ dir[j] # 0 => data'[dir[j]] = data[dir[j]]
                             /\ j \in struck' <=> j \in struck,
         keyFile' = keyFile
  PROVE  Elses(i)
<1> SUFFICES ASSUME NEW j \in Id \ {i}
    PROVE  Kept(j)' = Kept(j) /\ Hand(j)' = Hand(j) /\ (Asks(j)' <=> Asks(j))
  BY DEF Elses
<1>1. j # 0 /\ work[w].id # j /\ work'[w].id # j
  BY DEF Id
<1>2. Safe(j)' <=> Safe(j)
  BY <1>1 DEF Safe, Listed, Committing
<1>3. Kept(j)' = Kept(j)
  BY <1>2, KeptSame
<1>4. Hand(j)' = Hand(j)
  BY <1>1, HandSame
<1>5. Asks(j)' <=> Asks(j)
  BY <1>1 DEF Asks, Droppable
<1>. QED
  BY <1>3, <1>4, <1>5

(* What a step that writes at most to the inode o does to the rest. *)
LEMMA StoredElse ==
  ASSUME Shape, IdsOK, Shape', NEW w \in Worker, \A x \in Worker \ {w} : work'[x] = work[x],
         NEW d, Store(d) \/ data' = d, NEW o, \A u \in Inode \ {o} : d[u] = data[u]
  PROVE  /\ \A n \in Name : dir'[n] = dir[n] /\ dir[n] # 0 /\ dir[n] # o =>
              data'[dir[n]] = data[dir[n]]
         /\ \A x \in Worker \ {w} : work[x].in \in Inode \ {o} =>
              data'[work[x].in] = data[work[x].in]
<1>1. \A n \in Name : dir[n] # 0 => dir[n] \in Inode
  BY Basics DEF Inode
<1>2. CASE data' = d
  BY <1>1, <1>2
<1>3. CASE Store(d)
  BY <1>1, <1>3, StoreKeeps
<1>. QED
  BY <1>2, <1>3

(* Steps that move no file, and after which a blob is as safe as before,   *)
(* are none of Vault's, or end a call.                                     *)
LEMMA Quiet ==
  ASSUME Ready, Shape', NEW w \in Worker, \A x \in Worker \ {w} : work'[x] = work[x],
         Store(data) \/ data' = data, dir' = dir, UNCHANGED <<born, keyFile>>
  PROVE  /\ \A p \in Path : File(p)' = File(p)
         /\ \A i \in Id : (dir[i] # 0 => (Safe(i)' <=> Safe(i))) => Kept(i)' = Kept(i)
         /\ \A x \in Worker \ {w} : Carried(work[x])' = Carried(work[x])
<1>1. Shape /\ IdsOK
  BY ReadyParts
<1>2. /\ \A n \in Name : dir[n] # 0 => data'[dir[n]] = data[dir[n]]
      /\ \A x \in Worker \ {w} : work[x].in \in Inode => data'[work[x].in] = data[work[x].in]
  <2>1. 0 \notin Inode
    BY <1>1, Basics
  <2>. QED
    BY <1>1, <2>1, StoredElse
<1>3. \A p \in Path : File(p)' = File(p)
  BY <1>1, <1>2, Basics, FileSame
<1>4. \A i \in Id : (dir[i] # 0 => (Safe(i)' <=> Safe(i))) => Kept(i)' = Kept(i)
  BY <1>1, <1>2, Basics, KeptSame
<1>5. \A x \in Worker \ {w} : Carried(work[x])' = Carried(work[x])
  <2>1. \A x \in Worker : work[x].pc \in {"create", "fill"} /\ ~work[x].crypt => work[x].in \in Inode
    BY <1>1, Basics DEF CallOK
  <2>. QED
    BY <1>1, <1>2, <2>1, Basics, OthersCarry
<1>. QED
  BY <1>3, <1>4, <1>5

(* ... as its own hands are empty before and after.                        *)
LEMMA QuietLeave ==
  ASSUME Ready, Shape', NEW w \in Worker, \A x \in Worker \ {w} : work'[x] = work[x],
         Store(data) \/ data' = data, dir' = dir, UNCHANGED <<born, keyFile>>,
         \A i \in Id : dir[i] # 0 => (Safe(i)' <=> Safe(i)),
         Carried(work[w])' = {},
         Carried(work[w]) = {} \/ work[w].op \in {"Quarantine", "Restore"},
         Droppable(work[w])' => Droppable(work[w]) /\ work'[w].id = work[w].id
  PROVE  V!Next
<1>1. /\ \A p \in Path : File(p)' = File(p)
      /\ \A i \in Id : Kept(i)' = Kept(i)
      /\ \A x \in Worker \ {w} : Carried(work[x])' = Carried(work[x])
  BY Quiet
<1>2. \A i \in Id : Asks(i)' => Asks(i)
  BY DEF Asks, Droppable
<1>3. ASSUME NEW i \in Id PROVE Hand(i)' \in {Hand(i), {}}
  <2>1. CASE Carried(work[w]) = {} \/ work[w].id # i
    <3>1. Hand(i)' = Hand(i)
      BY <1>1, <2>1, HandSame
    <3>. QED
      BY <3>1
  <2>2. CASE work[w].op \in {"Quarantine", "Restore"} /\ work[w].id = i
    <3>1. \A x \in Worker \ {w} : work[x].id = i => Carried(work[x]) = {}
      BY <2>2, Sole
    <3>2. \A v : v \in Hand(i)' <=> \E x \in Worker : work'[x].id = i /\ v \in Carried(work[x])'
      BY DEF Hand, For
    <3>3. \A v : v \notin Hand(i)'
      BY <1>1, <3>1, <3>2
    <3>. QED
      BY <3>3
  <2>. QED
    BY <2>1, <2>2
<1>. QED
  BY <1>1, <1>2, <1>3, VaultLeave

---------------------------------------------------------------------------
(* The steps, one by one.                                                  *)

LEMMA IdleCarries == ASSUME NEW w \in Worker, work[w] = Idle PROVE Carried(work[w]) = {}
  BY IdleFields DEF Carried

LEMMA IdleCarriesNext == ASSUME NEW w \in Worker, work'[w] = Idle PROVE Carried(work[w])' = {}
  BY IdleFields DEF Carried

LEMMA SafeElse ==
  ASSUME NEW w \in Worker, \A x \in Worker \ {w} : work'[x] = work[x], NEW i \in Id,
         rows'[i] = rows[i], i \in struck' <=> i \in struck,
         work[w].id = i => work[w].pc # "commit", work'[w].id = i => work'[w].pc # "commit"
  PROVE  Safe(i)' <=> Safe(i)
<1>1. Committing(i)' <=> Committing(i)
  BY DEF Committing
<1>. QED
  BY <1>1 DEF Safe, Listed

LEMMA VaultBegins ==
  ASSUME Ready, Shape', NEW w \in Worker,
         \/ \E p \in Path : BeginQuarantine(w, p)
         \/ \E i \in Id : BeginRestore(w, i)
  PROVE  V!Next
<1>1. Shape /\ IdsOK
  BY ReadyParts
<1>2. /\ work[w] = Idle /\ work'[w].op \in {"Quarantine", "Restore"}
      /\ work'[w].pc \in {"read", "rename"}
      /\ \A x \in Worker \ {w} : work'[x] = work[x]
      /\ UNCHANGED <<files, rows, daemon, born, struck>>
  BY <1>1, TakeBegins, GiveBegins
<1>3. Carried(work[w]) = {} /\ Carried(work[w])' = {} /\ ~Droppable(work[w])'
  BY <1>2, IdleCarries DEF Carried, Droppable
<1>4. \A i \in Id : Safe(i)' <=> Safe(i)
  BY <1>2, IdleFields, SafeElse
<1>. QED
  BY <1>2, <1>3, <1>4, QuietLeave DEF files, daemon

LEMMA VaultEnds ==
  ASSUME Ready, Shape', NEW w \in Worker,
         ReadFails(w) \/ FillFails(w) \/ CommitFails(w) \/ Commit(w)
  PROVE  V!Next
<1>1. Shape /\ IdsOK
  BY ReadyParts
<1>2. /\ work'[w] = Idle /\ \A x \in Worker \ {w} : work'[x] = work[x]
      /\ Store(data) \/ data' = data
      /\ UNCHANGED <<dir, born, keyFile>>
      /\ work[w].pc \in {"read", "create", "fill", "commit"}
      /\ ~Commit(w) => rows' = rows
  BY <1>1, ReturnChanged DEF ReadFails, FillFails, CommitFails, Commit, files, daemon, history
<1>3. Carried(work[w])' = {} /\ ~Droppable(work[w])'
  BY <1>2, IdleCarriesNext, IdleFields DEF Droppable
<1>4. Carried(work[w]) = {} \/ work[w].op \in {"Quarantine", "Restore"}
  <2>1. CASE work[w].pc \in {"create", "fill"}
    BY <1>1, <2>1, Basics DEF CallOK
  <2>2. CASE work[w].pc \notin {"create", "fill"}
    BY <1>2, <2>2 DEF Carried
  <2>. QED
    BY <2>1, <2>2
<1>5. ASSUME NEW i \in Id, dir[i] # 0 PROVE Safe(i)' <=> Safe(i)
  <2>1. work'[w].pc # "commit"
    BY <1>2, IdleFields
  <2>2. CASE ReadFails(w) \/ FillFails(w)
    <3>1. work[w].pc # "commit" /\ UNCHANGED <<rows, struck>>
      BY <2>2 DEF ReadFails, FillFails, history
    <3>. QED
      BY <1>2, <2>1, <3>1, SafeElse
  <2>3. CASE CommitFails(w)
    <3>1. struck' = struck \cup {work[w].id} /\ work[w].pc = "commit" /\ rows' = rows
      BY <2>3 DEF CommitFails
    <3>2. CASE i = work[w].id
      BY <3>1, <3>2 DEF Safe, Committing
    <3>3. CASE i # work[w].id
      BY <1>2, <2>1, <3>1, <3>3, SafeElse
    <3>. QED
      BY <3>2, <3>3
  <2>4. CASE Commit(w)
    <3>1. /\ work[w].op = "Quarantine" => rows'[work[w].id] # NoRow
          /\ work[w].op # "Quarantine" =>
               rows'[work[w].id] = NoRow /\ (dir[work[w].id] = 0 \/ work[w].id \in struck)
          /\ \A j \in Id \ {work[w].id} : rows'[j] = rows[j]
          /\ struck' = struck /\ work[w].pc = "commit"
      BY <1>1, <2>4, CommitDoes DEF history
    <3>2. CASE i = work[w].id
      BY <1>5, <3>1, <3>2 DEF Safe, Committing, Listed
    <3>3. CASE i # work[w].id
      BY <1>2, <2>1, <3>1, <3>3, SafeElse
    <3>. QED
      BY <3>2, <3>3
  <2>. QED
    BY <2>2, <2>3, <2>4
<1>. QED
  BY <1>2, <1>3, <1>4, <1>5, QuietLeave

LEMMA VaultDelete ==
  ASSUME Ready, Shape', NEW w \in Worker, NEW i \in Id, BeginDelete(w, i)
  PROVE  V!Next
<1>1. Shape /\ IdsOK
  BY ReadyParts
<1>2. /\ work[w] = Idle /\ work'[w].op = "Delete" /\ work'[w].pc = "unlink" /\ work'[w].id = i
      /\ \A x \in Worker \ {w} : work'[x] = work[x]
      /\ UNCHANGED <<dir, data, rows, keyFile, born, struck>>
  BY <1>1, DeleteBegins DEF files, daemon, history
<1>3. Carried(work[w]) = {} /\ Carried(work[w])' = {}
  BY <1>2, IdleCarries DEF Carried
<1>4. \A j \in Id : Safe(j)' <=> Safe(j)
  BY <1>2, IdleFields, SafeElse
<1>5. /\ \A p \in Path : File(p)' = File(p)
      /\ \A j \in Id : Kept(j)' = Kept(j)
      /\ \A x \in Worker \ {w} : Carried(work[x])' = Carried(work[x])
  BY <1>2, <1>4, Quiet
<1>6. \A j \in Id : Hand(j)' = Hand(j)
  BY <1>2, <1>3, <1>5, HandSame
<1>7. Asks(i)'
  BY <1>2 DEF Asks, Droppable
<1>8. \A j \in Id \ {i} : Asks(j)' <=> Asks(j)
  BY <1>2, IdleFields DEF Asks, Droppable, Id
<1>. QED
  BY <1>2, <1>5, <1>6, <1>7, <1>8, VaultAsk DEF Elses

LEMMA VaultRead ==
  ASSUME Ready, Shape', NEW w \in Worker, ReadSource(w)
  PROVE  V!Next
<1> SUFFICES ASSUME NEW i, NEW p, i = work[w].id, p = work[w].path PROVE V!Next
  OBVIOUS
<1>1. Shape /\ IdsOK
  BY ReadyParts
<1>2. /\ work[w].pc = "read" /\ work[w].op \in {"Quarantine", "Restore"} /\ p \in Path /\ i \in Id
      /\ work'[w].pc = "create" /\ work'[w].op = work[w].op /\ work'[w].id = i
      /\ work'[w].crypt = work[w].crypt /\ dir[Src(work[w])] \in Inode
      /\ ~work[w].crypt => work'[w].in = dir[Src(work[w])]
      /\ work[w].crypt /\ work[w].op = "Quarantine" => work'[w].buf = data[dir[p]]
      /\ work[w].crypt /\ work[w].op = "Restore" => work'[w].buf = Open(data[dir[i]])
      /\ \A x \in Worker \ {w} : work'[x] = work[x]
      /\ UNCHANGED <<dir, data, rows, keyFile, born, struck>>
  BY <1>1, ReadDoes DEF files, daemon, history
<1>3. \A j \in Id : Safe(j)' <=> Safe(j)
  BY <1>2, SafeElse
<1>4. /\ \A q \in Path : File(q)' = File(q)
      /\ \A j \in Id : Kept(j)' = Kept(j)
      /\ \A x \in Worker \ {w} : Carried(work[x])' = Carried(work[x])
  BY <1>2, <1>3, Quiet
<1>5. Elses(i)
  <2>1. \A j \in Id \ {i} : Hand(j)' = Hand(j)
    BY <1>2, <1>4, HandSame
  <2>2. \A j \in Id \ {i} : Asks(j)' <=> Asks(j)
    BY <1>2 DEF Asks, Droppable
  <2>. QED
    BY <1>4, <2>1, <2>2 DEF Elses
<1>6. Asks(i)' <=> Asks(i)
  BY <1>2 DEF Asks, Droppable
<1>7. Hand(i)' = Carried(work[w])'
  BY <1>2, <1>4, Sole, HandOfNext
<1>8. Carried(work[w])' = At(Src(work[w]))
  <2>1. data[dir[Src(work[w])]] \in Data
    BY <1>1, <1>2, Basics
  <2>2. dir[Src(work[w])] # 0
    BY <1>1, <1>2, Basics
  <2>3. CASE ~work[w].crypt
    BY <1>2, <2>2, <2>3 DEF Carried, At
  <2>4. CASE work[w].crypt
    <3>1. work'[w].buf.v = data[dir[Src(work[w])]].v
      BY <1>2, <2>1, <2>4 DEF Src, Open, Data
    <3>. QED
      BY <1>2, <2>2, <2>4, <3>1 DEF Carried, At
  <2>. QED
    BY <2>3, <2>4
<1>9. CASE work[w].op = "Quarantine"
  <2>1. At(Src(work[w])) = File(p)
    BY <1>2, <1>9, FilesInPlain DEF InPlain, Src
  <2>2. ~Listed(i) /\ i \notin struck /\ \A x \in Worker : work[x].id = i => x = w
    BY <1>1, <1>9, Basics DEF CallIds, TakeIds
  <2>3. Kept(i) = {}
    BY <1>2, <2>2, NotSafe DEF Safe, Committing
  <2>. QED
    BY <1>2, <1>4, <1>5, <1>6, <1>7, <1>8, <2>1, <2>3, VaultPickUp
<1>10. CASE work[w].op = "Restore"
  <2>1. dir[i] # 0
    BY <1>1, <1>2, <1>10, Basics DEF Src
  <2>2. Listed(i) \/ i \in struck
    BY <1>1, <1>10, <2>1, Basics DEF CallIds, GiveIds
  <2>3. Whole(data[dir[i]], p, work[w].crypt)
    BY <1>2, <1>10, <2>1, ReadyParts DEF CleanOK, CallClean, GiveOK
  <2>4. PICK v \in 0 .. MaxVersion : data[dir[i]] = Sealed(Plain(v), work[w].crypt)
    BY <2>3 DEF Whole
  <2>5. data[dir[i]].seal \in {<<>>, <<keyFile>>}
    BY <2>4, SealPlain, PlainTyped DEF Sealed
  <2>6. Kept(i) = At(i)
    BY <2>1, <2>2, <2>5 DEF Kept, At
  <2>. QED
    BY <1>2, <1>4, <1>5, <1>6, <1>7, <1>8, <1>10, <2>6, VaultLend DEF Src
<1>. QED
  BY <1>2, <1>9, <1>10

(* The call of w holds an open file, or none that others write to.         *)
LEMMA InOf ==
  ASSUME Shape, IdsOK, NEW x \in Worker, work[x].pc \in {"create", "fill"}, ~work[x].crypt
  PROVE  /\ work[x].in \in Inode /\ work[x].path \in Path
         /\ Of(work[x].in, work[x].path)
  BY Basics DEF CallOK, Of

LEMMA VaultRename ==
  ASSUME Ready, Ready', NEW w \in Worker, Rename(w)
  PROVE  V!Next
<1> SUFFICES ASSUME NEW i, NEW p, i = work[w].id, p = work[w].path PROVE V!Next
  OBVIOUS
<1>1. Shape /\ IdsOK /\ EncOK /\ LineOK /\ Shape' /\ IdsOK'
  BY ReadyParts DEF Ready, Custody
<1>2. CASE ~(dir[Src(work[w])] # 0 /\ work[w].path \in Local)
  <2>1. /\ Goto(w, "read") /\ work[w].pc = "rename" /\ dir' = dir /\ Store(data)
        /\ UNCHANGED <<rows, keyFile, born, struck>>
    BY <1>2 DEF Rename, daemon, history
  <2>2. /\ \A x \in Worker \ {w} : work'[x] = work[x]
        /\ work'[w].pc = "read" /\ work'[w].op = work[w].op /\ work'[w].id = i
    BY <1>1, <2>1, GotoChanged
  <2>3. \A j \in Id : Safe(j)' <=> Safe(j)
    BY <2>1, <2>2, SafeElse
  <2>4. Carried(work[w])' = {} /\ Carried(work[w]) = {}
    BY <2>1, <2>2 DEF Carried
  <2>5. Droppable(work[w])' => Droppable(work[w]) /\ work'[w].id = work[w].id
    BY <2>2 DEF Droppable
  <2>. QED
    BY <1>1, <2>1, <2>2, <2>3, <2>4, <2>5, QuietLeave
<1>3. CASE dir[Src(work[w])] # 0 /\ work[w].path \in Local
  <2>1. /\ p \in Path /\ i \in Id /\ work[w].op \in {"Quarantine", "Restore"}
        /\ work[w].op = "Quarantine" =>
             dir'[i] = dir[p] /\ dir'[p] = 0 /\ dir[p] # 0 /\ dir[i] = 0
        /\ work[w].op = "Restore" => dir'[p] = dir[i] /\ dir'[i] = 0 /\ dir[i] # 0
        /\ \A n \in Name \ {p, i} : dir'[n] = dir[n]
        /\ Goto(w, "commit") /\ Store(data) /\ work[w].pc = "rename"
        /\ UNCHANGED <<rows, keyFile, born, struck>>
    BY <1>1, <1>3, RenameDoes DEF daemon
  <2>2. /\ \A x \in Worker \ {w} : work'[x] = work[x]
        /\ work'[w].pc = "commit" /\ work'[w].op = work[w].op /\ work'[w].id = i
    BY <1>1, <2>1, GotoChanged
  <2>3. /\ \A n \in Name : dir'[n] = dir[n] /\ dir[n] # 0 => data'[dir[n]] = data[dir[n]]
        /\ \A n \in Name : dir'[n] # 0 => dir'[n] \in Inode /\ data'[dir'[n]] = data[dir'[n]]
        /\ \A x \in Worker \ {w} : work[x].in \in Inode => data'[work[x].in] = data[work[x].in]
    <3>1. \A n \in Name : dir'[n] # 0 => dir'[n] \in Inode
      BY <1>1 DEF Shape, TypeOK, Inode
    <3>2. 0 \notin Inode
      BY <1>1, Basics
    <3>. QED
      BY <1>1, <2>1, <2>2, <3>1, <3>2, StoreKeeps, StoredElse
  <2>4. \A q \in Path \ {p} : File(q)' = File(q)
    <3>1. \A q \in Path : q \in Name /\ q # i
      BY <1>1, <2>1, Basics
    <3>. QED
      BY <2>1, <2>3, <3>1, FileSame
  <2>5. \A j \in Id \ {i} : dir'[j] = dir[j] /\ (dir[j] # 0 => data'[dir[j]] = data[dir[j]])
    BY <1>1, <2>1, <2>3, Basics
  <2>6. \A x \in Worker \ {w} : Carried(work[x])' = Carried(work[x])
    BY <1>1, <2>2, <2>3, <2>5, InOf, OthersCarry
  <2>7. Elses(i)
    BY <2>1, <2>2, <2>5, <2>6, OthersKept
  <2>8. Hand(i) = {} /\ Hand(i)' = {}
    <3>1. Carried(work[w]) = {} /\ Carried(work[w])' = {}
      BY <2>1, <2>2 DEF Carried
    <3>2. \A x \in Worker \ {w} : work'[x].id = i => Carried(work[x])' = {}
      BY <2>1, <2>2, <2>6, Sole
    <3>. QED
      BY <2>1, <2>2, <3>1, <3>2, Sole, HandOfNext
  <2>9. Asks(i)' <=> Asks(i) \/ work[w].op = "Restore"
    BY <2>1, <2>2 DEF Asks, Droppable
  <2>10. CASE work[w].op = "Quarantine"
    <3>1. ~Listed(i) /\ i \notin struck /\ \A x \in Worker : work[x].id = i => x = w
      BY <1>1, <2>1, <2>10, Basics DEF CallIds, TakeIds
    <3>2. Kept(i) = {}
      BY <2>1, <3>1, NotSafe DEF Safe, Committing
    <3>3. File(p) = {data[dir[p]].v} /\ data[dir[p]].seal = <<>>
      <4>1. ~Filling(p)
        BY <1>1, <2>1, <2>10, ReadyParts, OnlyTakes DEF Filling
      <4>2. PICK v \in 0 .. MaxVersion : data[dir[p]] = Plain(v)
        BY <2>1, <2>10, <4>1, ReadyParts DEF CleanOK, FileOK, Good
      <4>. QED
        BY <2>1, <2>10, <4>2, PlainTyped DEF File, At
    <3>4. Kept(i)' = {data[dir[p]].v}
      <4>1. Committing(i)'
        BY <2>2 DEF Committing
      <4>2. data'[dir'[i]] = data[dir[p]] /\ dir'[i] # 0
        BY <1>1, <2>1, <2>3, <2>10, Basics
      <4>. QED
        BY <3>3, <4>1, <4>2 DEF Kept
    <3>5. File(p)' = {}
      BY <2>1, <2>10 DEF File, At
    <3>. QED
      BY <2>1, <2>4, <2>7, <2>8, <2>9, <2>10, <3>2, <3>3, <3>4, <3>5, VaultTakeAway
  <2>11. CASE work[w].op = "Restore"
    <3>1. Listed(i) \/ i \in struck
      BY <1>1, <2>1, <2>11, Basics DEF CallIds, GiveIds
    <3>2. ~work[w].crypt
      BY <1>1, <2>1 DEF EncOK, EncCall
    <3>8. Whole(data[dir[i]], p, work[w].crypt)
      BY <2>1, <2>11, ReadyParts DEF CleanOK, CallClean, GiveOK
    <3>3. PICK v \in 0 .. MaxVersion : Was(v, p) /\ data[dir[i]] = Plain(v)
      BY <3>2, <3>8 DEF Whole, Sealed
    <3>4. data[dir[i]].v = v /\ data[dir[i]].seal = <<>>
      BY <3>3, PlainTyped
    <3>5. Kept(i) = {v}
      BY <2>1, <2>11, <3>1, <3>4 DEF Kept
    <3>6. File(p)' = {v} /\ Kept(i)' = {}
      <4>1. data'[dir'[p]] = data[dir[i]] /\ dir'[p] # 0
        BY <1>1, <2>1, <2>3, <2>11, Basics
      <4>. QED
        BY <2>1, <2>11, <3>4, <4>1 DEF File, At, Kept
    <3>7. v # 0 => born[v] = p
      BY <3>3 DEF Was, BornAt
    <3>. QED
      BY <2>1, <2>4, <2>7, <2>8, <2>9, <2>11, <3>5, <3>6, <3>7, VaultPutBack
  <2>. QED
    BY <2>1, <2>10, <2>11
<1>. QED
  BY <1>2, <1>3

(* The inode a call opens for writing is in no other call's hands, and has *)
(* no other name.                                                          *)
LEMMA CreateAlone ==
  ASSUME Ready, NEW w \in Worker, NEW o \in Inode, CreateTarget(w, o)
  PROVE  /\ \A n \in Name : n # Dst(work[w]) => dir[n] # o
         /\ \A x \in Worker : work[x].pc \in {"create", "fill"} /\ ~work[x].crypt =>
              work[x].in # o
<1>1. Shape /\ IdsOK /\ LineOK
  BY ReadyParts
<1>2. /\ work[w].pc = "create" /\ work[w].op \in {"Quarantine", "Restore"} /\ work[w].path \in Path
      /\ work[w].id \in Id
      /\ work[w].op = "Quarantine" => Free(o)
      /\ work[w].op = "Restore" =>
           IF dir[work[w].path] = 0 THEN Free(o) ELSE o = dir[work[w].path]
  BY <1>1, CreateDoes
<1>3. CASE Free(o)
  BY <1>3 DEF Free
<1>4. CASE work[w].op = "Restore" /\ dir[work[w].path] = o /\ dir[work[w].path] # 0
  <2>1. \A n \in Name : n # Dst(work[w]) => dir[n] # o
    BY <1>1, <1>2, <1>4, Basics DEF LineOK, Named, Dst
  <2>2. ASSUME NEW x \in Worker, work[x].pc \in {"create", "fill"}, ~work[x].crypt, work[x].in = o
        PROVE  FALSE
    <3>1. Of(o, work[x].path) /\ Of(o, work[w].path) /\ work[x].path \in Path
      BY <1>1, <1>4, <2>2, InOf DEF Of
    <3>2. work[x].path = work[w].path
      BY <1>1, <1>2, <3>1 DEF LineOK, Apart
    <3>3. Alone(w) /\ GiveOK(work[w], work[w].path)
      BY <1>2, <1>4, ReadyParts DEF CleanOK, CallClean
    <3>4. x = w
      BY <3>2, <3>3 DEF Alone
    <3>. QED
      BY <1>2, <1>4, <2>2, <3>3, <3>4 DEF GiveOK
  <2>. QED
    BY <2>1, <2>2
<1>. QED
  BY <1>2, <1>3, <1>4

(* What a call that copies has read is a version of its path.              *)
LEMMA LoadOfPath ==
  ASSUME Ready, NEW w \in Worker, work[w].pc \in {"create", "fill"}
  PROVE  /\ work[w].op \in {"Quarantine", "Restore"} /\ work[w].path \in Path
         /\ Good(Load(work[w]), work[w].path)
         /\ Carried(work[w]) = {Load(work[w]).v}
<1>1. Shape /\ IdsOK
  BY ReadyParts
<1>2. work[w].op \in {"Quarantine", "Restore"} /\ work[w].path \in Path
  BY <1>1, Basics DEF CallOK
<1>3. Good(Load(work[w]), work[w].path)
  BY <1>2, ReadyParts DEF CleanOK, CallClean, TakeOK, GiveOK
<1>4. Carried(work[w]) = {Load(work[w]).v}
  BY DEF Carried, Load
<1>. QED
  BY <1>2, <1>3, <1>4

LEMMA VaultCreate ==
  ASSUME Ready, Ready', NEW w \in Worker, NEW o \in Inode, CreateTarget(w, o)
  PROVE  V!Next
<1> SUFFICES ASSUME NEW i, NEW p, i = work[w].id, p = work[w].path PROVE V!Next
  OBVIOUS
<1>1. Shape /\ IdsOK /\ LineOK /\ Shape' /\ IdsOK'
  BY ReadyParts DEF Ready, Custody
<1>2. /\ work[w].pc = "create" /\ work[w].op \in {"Quarantine", "Restore"} /\ p \in Path /\ i \in Id
      /\ work'[w].pc = "fill" /\ work'[w].op = work[w].op /\ work'[w].id = i
      /\ work'[w].crypt = work[w].crypt /\ work'[w].buf = work[w].buf /\ work'[w].in = work[w].in
      /\ work[w].op = "Quarantine" => dir'[i] = o /\ dir[i] = 0 /\ \A n \in Name \ {i} : dir'[n] = dir[n]
      /\ work[w].op = "Restore" => dir'[p] = o /\ \A n \in Name \ {p} : dir'[n] = dir[n]
      /\ \A x \in Worker \ {w} : work'[x] = work[x]
      /\ Store([data EXCEPT ![o] = Torn])
      /\ UNCHANGED <<rows, keyFile, born, struck>>
  BY <1>1, CreateDoes DEF daemon
<1>3. PICK d : d = [data EXCEPT ![o] = Torn] /\ Store(d)
  BY <1>2
<1>4. d[o] = Torn /\ \A u \in Inode \ {o} : d[u] = data[u]
  BY <1>1, <1>3, Basics
<1>5. /\ \A n \in Name : dir'[n] = dir[n] /\ dir[n] # 0 /\ dir[n] # o => data'[dir[n]] = data[dir[n]]
      /\ \A x \in Worker : work[x].pc \in {"create", "fill"} /\ ~work[x].crypt =>
           data'[work[x].in] = data[work[x].in]
      /\ \A n \in Name : dir'[n] = o => data'[o] = Torn
  <2>1. \A n \in Name : dir'[n] = dir[n] /\ dir[n] # 0 /\ dir[n] # o => data'[dir[n]] = data[dir[n]]
    <3>1. Store(d) \/ data' = d
      BY <1>3
    <3>. QED
      BY <1>1, <1>2, <1>4, <3>1, StoredElse
  <2>4. /\ \A n \in Name : dir'[n] \in Inode => data'[dir'[n]] = d[dir'[n]]
        /\ \A x \in Worker : work'[x].in \in Inode => data'[work'[x].in] = d[work'[x].in]
    BY <1>3, StoreKeeps
  <2>2. ASSUME NEW x \in Worker, work[x].pc \in {"create", "fill"}, ~work[x].crypt
        PROVE  data'[work[x].in] = data[work[x].in]
    <3>1. work[x].in \in Inode /\ work[x].in # o
      BY <1>1, <2>2, InOf, CreateAlone
    <3>2. work'[x].in = work[x].in
      BY <1>2
    <3>. QED
      BY <1>4, <2>4, <3>1, <3>2
  <2>3. \A n \in Name : dir'[n] = o => data'[o] = Torn
    BY <1>4, <2>4
  <2>. QED
    BY <2>1, <2>2, <2>3
<1>6. \A n \in Name : n # Dst(work[w]) => dir[n] # o
  BY CreateAlone
<1>7. \A j \in Id \ {i} : dir'[j] = dir[j] /\ (dir[j] # 0 => data'[dir[j]] = data[dir[j]])
  <2>1. \A j \in Id \ {i} : j \in Name /\ j # p /\ j # Dst(work[w])
    BY <1>1, <1>2, Basics DEF Dst
  <2>. QED
    BY <1>2, <1>5, <1>6, <2>1
<1>8. \A x \in Worker \ {w} : Carried(work[x])' = Carried(work[x])
  BY <1>2, <1>5, <1>7, OthersCarry
<1>9. Elses(i)
  BY <1>2, <1>7, <1>8, OthersKept
<1>10. Carried(work[w])' = Carried(work[w])
  BY <1>2, <1>5 DEF Carried
<1>11. Hand(i)' = Hand(i) /\ (Asks(i)' <=> Asks(i))
  <2>1. Hand(i)' = Hand(i)
    BY <1>2, <1>8, <1>10, HandSame
  <2>2. Asks(i)' <=> Asks(i)
    BY <1>2 DEF Asks, Droppable
  <2>. QED
    BY <2>1, <2>2
<1>12. \A j \in Id : Safe(j)' <=> Safe(j)
  BY <1>2, SafeElse
<1>13. CASE work[w].op = "Quarantine"
  <2>1. ~Safe(i)
    <3>1. ~Listed(i) /\ i \notin struck /\ \A x \in Worker : work[x].id = i => x = w
      BY <1>1, <1>2, <1>13, Basics DEF CallIds, TakeIds
    <3>. QED
      BY <1>2, <3>1 DEF Safe, Committing
  <2>2. Kept(i) = {} /\ Kept(i)' = {}
    BY <1>2, <1>12, <2>1 DEF Kept, Safe
  <2>3. \A q \in Path : File(q)' = File(q)
    <3>1. \A q \in Path : q \in Name /\ q # i /\ q # Dst(work[w])
      BY <1>1, <1>2, <1>13, Basics DEF Dst
    <3>. QED
      BY <1>2, <1>5, <1>6, <1>13, <3>1, FileSame
  <2>4. /\ \A j \in Id : Kept(j)' = Kept(j)
        /\ \A j \in Id : Hand(j)' \in {Hand(j), {}}
        /\ \A j \in Id : Asks(j)' => Asks(j)
    BY <1>9, <1>11, <2>2 DEF Elses
  <2>. QED
    BY <1>2, <2>3, <2>4, VaultLeave
<1>14. CASE work[w].op = "Restore"
  <2>1. i # Dst(work[w]) /\ i \in Name /\ i # p /\ p \in Name
    BY <1>1, <1>2, <1>14, Basics DEF Dst
  <2>2. dir'[i] = dir[i] /\ (dir[i] # 0 => data'[dir[i]] = data[dir[i]])
    BY <1>2, <1>5, <1>6, <1>14, <2>1
  <2>3. Kept(i)' = Kept(i)
    BY <1>2, <1>12, <2>2, KeptSame
  <2>4. Rest
    BY <1>9, <1>11, <2>3 DEF Rest, Elses
  <2>5. \A q \in Path \ {p} : File(q)' = File(q)
    <3>1. \A q \in Path \ {p} : q \in Name /\ q # i /\ q # Dst(work[w])
      BY <1>1, <1>2, <1>14, Basics DEF Dst
    <3>. QED
      BY <1>2, <1>5, <1>6, <1>14, <3>1, FileSame
  <2>6. File(p)' = {0}
    <3>1. dir'[p] = o /\ o # 0 /\ data'[o] = Torn
      BY <1>1, <1>2, <1>5, <1>14, <2>1, Basics
    <3>. QED
      BY <3>1 DEF File, At, Torn
  <2>7. PICK v \in 0 .. MaxVersion : Was(v, p) /\ Load(work[w]) = Plain(v)
    BY <1>2, LoadOfPath DEF Good
  <2>8. Hand(i) = {v} /\ (v # 0 => born[v] = p)
    <3>1. Carried(work[w]) = {v}
      BY <1>2, <2>7, LoadOfPath, PlainTyped
    <3>2. Hand(i) = {v}
      BY <1>2, <3>1, Sole
    <3>3. v # 0 => born[v] = p
      BY <2>7 DEF Was, BornAt
    <3>. QED
      BY <3>2, <3>3
  <2>. QED
    BY <1>2, <2>4, <2>5, <2>6, <2>8, VaultTruncate
<1>. QED
  BY <1>2, <1>13, <1>14

(* The inode a call fills is in no other call's hands, and has no other    *)
(* name than that of its target.                                           *)
LEMMA FillAlone ==
  ASSUME Ready, NEW w \in Worker, FillTarget(w)
  PROVE  /\ work[w].out = dir[Dst(work[w])] /\ work[w].out \in Inode
         /\ \A n \in Name : n # Dst(work[w]) => dir[n] # work[w].out
         /\ \A x \in Worker \ {w} : work[x].pc \in {"create", "fill"} /\ ~work[x].crypt =>
              work[x].in # work[w].out
<1>1. Shape /\ IdsOK /\ LineOK
  BY ReadyParts
<1>2. /\ work[w].pc = "fill" /\ work[w].op \in {"Quarantine", "Restore"}
      /\ work[w].path \in Path /\ work[w].id \in Id /\ work[w].out \in Inode
  BY <1>1, FillDoes
<1>3. CallClean(w, work[w].path)
  BY <1>2, ReadyParts DEF CleanOK
<1>4. work[w].out = dir[Dst(work[w])]
  <2>1. work[w].op = "Quarantine" => work[w].out = dir[work[w].id]
    BY <1>1, <1>2, Basics DEF CallIds, TakeIds
  <2>2. work[w].op = "Restore" => work[w].out = dir[work[w].path]
    BY <1>2, <1>3 DEF CallClean, GiveOK
  <2>. QED
    BY <1>2, <2>1, <2>2 DEF Dst
<1>5. \A n \in Name : n # Dst(work[w]) => dir[n] # work[w].out
  <2>1. Dst(work[w]) \in Name /\ 0 \notin Inode
    BY <1>1, <1>2, Basics DEF Dst
  <2>. QED
    BY <1>1, <1>2, <1>4, <2>1 DEF LineOK, Named
<1>6. ASSUME NEW x \in Worker \ {w}, work[x].pc \in {"create", "fill"}, ~work[x].crypt,
             work[x].in = work[w].out
      PROVE  FALSE
  <2>1. Of(work[w].out, work[x].path) /\ Of(work[w].out, work[w].path) /\ work[x].path \in Path
    BY <1>1, <1>6, InOf DEF Of
  <2>2. work[x].path = work[w].path
    BY <1>1, <1>2, <2>1 DEF LineOK, Apart
  <2>3. CallClean(x, work[w].path)
    BY <1>2, <2>2, ReadyParts DEF CleanOK
  <2>4. work[x].op \in {"Quarantine", "Restore"}
    BY <1>1, <2>1, Basics
  <2>5. ~(work[x].op = "Restore")
    BY <1>6, <2>2, <2>3 DEF CallClean, Alone
  <2>6. TakeOK(work[x], work[w].path)
    BY <2>3, <2>4, <2>5 DEF CallClean
  <2>. QED
    BY <1>2, <1>6, <2>6 DEF TakeOK
<1>. QED
  BY <1>2, <1>4, <1>5, <1>6

(* What is put into it is what the call carries. *)
LEMMA FillPayload ==
  ASSUME Shape, NEW w \in Worker, work[w].op \in {"Quarantine", "Restore"}
  PROVE  /\ Payload(work[w]).v = Load(work[w]).v
         /\ work[w].op = "Restore" => Payload(work[w]) = Load(work[w])
<1>1. work[w].buf \in Data
  BY DEF Shape, TypeOK, Work
<1>2. Seal(work[w].buf, key).v = work[w].buf.v
  BY <1>1 DEF Seal, Data
<1>. QED
  BY <1>2 DEF Payload, Load

LEMMA VaultFill ==
  ASSUME Ready, Ready', NEW w \in Worker, FillTarget(w)
  PROVE  V!Next
<1> SUFFICES ASSUME NEW i, NEW p, NEW o, i = work[w].id, p = work[w].path, o = work[w].out
    PROVE  V!Next
  OBVIOUS
<1>1. Shape /\ IdsOK /\ LineOK /\ Shape' /\ IdsOK'
  BY ReadyParts DEF Ready, Custody
<1>2. /\ work[w].pc = "fill" /\ work[w].op \in {"Quarantine", "Restore"} /\ p \in Path /\ i \in Id
      /\ work'[w].pc = "unlink" /\ work'[w].op = work[w].op /\ work'[w].id = i /\ o \in Inode
      /\ \A x \in Worker \ {w} : work'[x] = work[x]
      /\ Store([data EXCEPT ![o] = Payload(work[w])])
      /\ UNCHANGED <<dir, rows, keyFile, born, struck>>
  BY <1>1, FillDoes DEF daemon, history
<1>3. PICK d : d = [data EXCEPT ![o] = Payload(work[w])] /\ Store(d)
  BY <1>2
<1>4. d[o] = Payload(work[w]) /\ \A u \in Inode \ {o} : d[u] = data[u]
  BY <1>1, <1>2, <1>3, Basics
<1>5. /\ o = dir[Dst(work[w])] /\ \A n \in Name : n # Dst(work[w]) => dir[n] # o
      /\ \A x \in Worker \ {w} : work[x].pc \in {"create", "fill"} /\ ~work[x].crypt =>
           work[x].in # o
  BY FillAlone
<1>6. Dst(work[w]) = (IF work[w].op = "Quarantine" THEN i ELSE p) /\ i \in Name /\ p \in Name /\ i # p
  BY <1>1, <1>2, Basics DEF Dst
<1>7. /\ \A n \in Name : dir[n] # 0 /\ dir[n] # o => data'[dir[n]] = data[dir[n]]
      /\ \A x \in Worker \ {w} : work[x].pc \in {"create", "fill"} /\ ~work[x].crypt =>
           data'[work[x].in] = data[work[x].in]
      /\ data'[o] = Payload(work[w])
  <2>1. Store(d) \/ data' = d
    BY <1>3
  <2>2. /\ \A n \in Name : dir'[n] = dir[n] /\ dir[n] # 0 /\ dir[n] # o =>
             data'[dir[n]] = data[dir[n]]
        /\ \A x \in Worker \ {w} : work[x].in \in Inode \ {o} => data'[work[x].in] = data[work[x].in]
    BY <1>1, <1>2, <1>4, <2>1, StoredElse
  <2>3. \A x \in Worker \ {w} : work[x].pc \in {"create", "fill"} /\ ~work[x].crypt =>
           data'[work[x].in] = data[work[x].in]
    BY <1>1, <1>5, <2>2, InOf
  <2>4. \A n \in Name : dir'[n] \in Inode => data'[dir'[n]] = d[dir'[n]]
    BY <1>3, StoreKeeps
  <2>5. data'[o] = Payload(work[w])
    <3>1. \E n \in Name : dir'[n] = o
      BY <1>2, <1>5, <1>6
    <3>. QED
      BY <1>2, <1>4, <2>4, <3>1
  <2>. QED
    BY <1>2, <2>2, <2>3, <2>5
<1>8. \A j \in Id \ {i} : dir'[j] = dir[j] /\ (dir[j] # 0 => data'[dir[j]] = data[dir[j]])
  <2>1. \A j \in Id \ {i} : j \in Name /\ j # p
    BY <1>1, <1>2, Basics
  <2>. QED
    BY <1>2, <1>5, <1>6, <1>7, <2>1
<1>9. \A x \in Worker \ {w} : Carried(work[x])' = Carried(work[x])
  BY <1>2, <1>7, <1>8, OthersCarry
<1>10. Elses(i)
  BY <1>2, <1>8, <1>9, OthersKept
<1>11. \A j \in Id : Safe(j)' <=> Safe(j)
  BY <1>2, SafeElse
<1>12. /\ Payload(work[w]).v = Load(work[w]).v
       /\ work[w].op = "Restore" => Payload(work[w]) = Load(work[w])
       /\ Good(Load(work[w]), p) /\ Carried(work[w]) = {Load(work[w]).v}
  BY <1>1, <1>2, FillPayload, LoadOfPath
<1>13. CASE work[w].op = "Quarantine"
  <2>1. ~Safe(i)
    <3>1. ~Listed(i) /\ i \notin struck /\ \A x \in Worker : work[x].id = i => x = w
      BY <1>1, <1>2, <1>13, Basics DEF CallIds, TakeIds
    <3>. QED
      BY <1>2, <3>1 DEF Safe, Committing
  <2>2. Kept(i) = {} /\ Kept(i)' = {}
    BY <1>2, <1>11, <2>1 DEF Kept, Safe
  <2>3. \A q \in Path : File(q)' = File(q)
    <3>1. \A q \in Path : q \in Name /\ q # i
      BY <1>1, <1>2, Basics
    <3>. QED
      BY <1>2, <1>5, <1>6, <1>7, <1>13, <3>1, FileSame
  <2>4. Carried(work[w])' = Carried(work[w])
    <3>1. dir'[i] = o /\ o # 0 /\ data'[o].v = Load(work[w]).v
      BY <1>1, <1>2, <1>5, <1>6, <1>7, <1>12, <1>13, Basics
    <3>2. Carried(work[w])' = At(work[w].id)'
      BY <1>2, <1>13 DEF Carried
    <3>. QED
      BY <1>2, <1>12, <3>1, <3>2 DEF At
  <2>5. Hand(i)' = Hand(i)
    BY <1>2, <1>9, <2>4, HandSame
  <2>6. Asks(i)' => Asks(i)
    BY <1>2, <1>13 DEF Asks, Droppable
  <2>7. /\ \A j \in Id : Kept(j)' = Kept(j)
        /\ \A j \in Id : Hand(j)' \in {Hand(j), {}}
        /\ \A j \in Id : Asks(j)' => Asks(j)
    BY <1>10, <2>2, <2>5, <2>6 DEF Elses
  <2>. QED
    BY <1>2, <2>3, <2>7, VaultLeave
<1>14. CASE work[w].op = "Restore"
  <2>1. Kept(i)' = Kept(i)
    <3>1. dir'[i] = dir[i] /\ (dir[i] # 0 => data'[dir[i]] = data[dir[i]])
      BY <1>2, <1>5, <1>6, <1>7, <1>14
    <3>. QED
      BY <1>2, <1>11, <3>1, KeptSame
  <2>2. \A q \in Path \ {p} : File(q)' = File(q)
    <3>1. \A q \in Path : q \in Name
      BY <1>1, Basics
    <3>. QED
      BY <1>2, <1>5, <1>6, <1>7, <1>14, <3>1, FileSame
  <2>3. PICK v \in 0 .. MaxVersion : Was(v, p) /\ Load(work[w]) = Plain(v)
    BY <1>12 DEF Good
  <2>4. v # 0 => born[v] = p
    BY <2>3 DEF Was, BornAt
  <2>5. Hand(i) = {v}
    <3>1. Carried(work[w]) = {v}
      BY <1>12, <2>3, PlainTyped
    <3>. QED
      BY <1>2, <3>1, Sole
  <2>6. File(p)' = {v}
    <3>1. dir'[p] = o /\ o # 0 /\ data'[o] = Plain(v)
      BY <1>1, <1>2, <1>5, <1>6, <1>7, <1>12, <1>14, <2>3, Basics
    <3>. QED
      BY <3>1, PlainTyped DEF File, At, Plain
  <2>7. Hand(i)' = {}
    <3>1. \A x \in Worker \ {w} : work'[x].id = i => Carried(work[x])' = {}
      BY <1>2, <1>9, Sole
    <3>2. Carried(work[w])' = {}
      BY <1>2, <1>14 DEF Carried
    <3>. QED
      BY <1>2, <3>1, <3>2, HandOfNext
  <2>8. Asks(i)'
    BY <1>2, <1>14 DEF Asks, Droppable
  <2>. QED
    BY <1>2, <1>10, <2>1, <2>2, <2>4, <2>5, <2>6, <2>7, <2>8, VaultPutBack
<1>. QED
  BY <1>2, <1>13, <1>14

LEMMA VaultUnlink ==
  ASSUME Ready, Ready', NEW w \in Worker, Unlink(w)
  PROVE  V!Next
<1> SUFFICES ASSUME NEW i, NEW p, i = work[w].id, p = work[w].path PROVE V!Next
  OBVIOUS
<1>1. Shape /\ IdsOK /\ Shape' /\ IdsOK'
  BY ReadyParts DEF Ready, Custody
<1>2. /\ work[w].pc = "unlink" /\ work[w].op \in {"Quarantine", "Restore", "Delete"} /\ i \in Id
      /\ work[w].op = "Quarantine" =>
           p \in Path /\ dir'[p] = 0 /\ \A n \in Name \ {p} : dir'[n] = dir[n]
      /\ work[w].op # "Quarantine" => dir'[i] = 0 /\ \A n \in Name \ {i} : dir'[n] = dir[n]
      /\ IF work[w].crypt /\ dir[Src(work[w])] = 0 THEN Return(w) ELSE Goto(w, "commit")
      /\ Store(data)
      /\ UNCHANGED <<rows, keyFile, born, struck>>
  BY <1>1, UnlinkDoes DEF daemon
<1>3. CASE work[w].crypt /\ dir[Src(work[w])] = 0
  <2>1. Return(w)
    BY <1>2, <1>3
  <2>2. work'[w] = Idle /\ \A x \in Worker \ {w} : work'[x] = work[x]
    BY <1>1, <2>1, ReturnChanged
  <2>3. dir' = dir
    <3>1. dir \in [Name -> 0 .. MaxInode] /\ Src(work[w]) \in Name
      BY <1>1, <1>2, Basics DEF Src
    <3>2. dir' = [dir EXCEPT ![Src(work[w])] = 0]
      BY DEF Unlink
    <3>. QED
      BY <1>3, <3>1, <3>2
  <2>4. work'[w].pc = "idle" /\ work'[w].op = "none"
    BY <2>2, IdleFields
  <2>5. \A j \in Id : Safe(j)' <=> Safe(j)
    BY <1>2, <2>2, <2>4, SafeElse
  <2>6. Carried(work[w])' = {} /\ ~Droppable(work[w])'
    BY <2>4 DEF Carried, Droppable
  <2>7. Carried(work[w]) = {} \/ work[w].op \in {"Quarantine", "Restore"}
    BY <1>2 DEF Carried
  <2>. QED
    BY <1>1, <1>2, <2>2, <2>3, <2>5, <2>6, <2>7, QuietLeave
<1>4. CASE ~(work[w].crypt /\ dir[Src(work[w])] = 0)
  <2>1. Goto(w, "commit")
    BY <1>2, <1>4
  <2>2. /\ \A x \in Worker \ {w} : work'[x] = work[x]
        /\ work'[w].pc = "commit" /\ work'[w].op = work[w].op /\ work'[w].id = i
    BY <1>1, <2>1, GotoChanged
  <2>3. /\ \A n \in Name : dir'[n] = dir[n] /\ dir[n] # 0 => data'[dir[n]] = data[dir[n]]
        /\ \A x \in Worker \ {w} : work[x].in \in Inode => data'[work[x].in] = data[work[x].in]
    <3>1. 0 \notin Inode
      BY <1>1, Basics
    <3>2. \A u \in Inode \ {0} : data[u] = data[u]
      OBVIOUS
    <3>3. /\ \A n \in Name : dir'[n] = dir[n] /\ dir[n] # 0 /\ dir[n] # 0 =>
               data'[dir[n]] = data[dir[n]]
          /\ \A x \in Worker \ {w} : work[x].in \in Inode \ {0} =>
               data'[work[x].in] = data[work[x].in]
      <4>1. Store(data) \/ data' = data
        BY <1>2
      <4>. QED
        BY <1>1, <2>2, <3>2, <4>1, StoredElse
    <3>. QED
      BY <3>1, <3>3
  <2>4. \A j \in Id \ {i} : dir'[j] = dir[j] /\ (dir[j] # 0 => data'[dir[j]] = data[dir[j]])
    BY <1>1, <1>2, <2>3, Basics
  <2>5. \A x \in Worker \ {w} : Carried(work[x])' = Carried(work[x])
    BY <1>1, <2>2, <2>3, <2>4, InOf, OthersCarry
  <2>6. Elses(i)
    BY <1>2, <2>2, <2>4, <2>5, OthersKept
  <2>7. CASE work[w].op = "Quarantine"
    <3>1. /\ ~Listed(i) /\ i \notin struck /\ \A x \in Worker : work[x].id = i => x = w
          /\ dir[i] # 0
      BY <1>1, <1>2, <2>7, Basics DEF CallIds, TakeIds
    <3>2. Kept(i) = {}
      BY <1>2, <3>1, NotSafe DEF Safe, Committing
    <3>3. TakeOK(work[w], p)
      BY <1>2, <2>7, ReadyParts DEF CleanOK, CallClean
    <3>4. PICK v \in 0 .. MaxVersion : data[dir[i]] = Sealed(Plain(v), encrypt)
      BY <1>2, <3>3 DEF TakeOK, Whole
    <3>5. data[dir[i]].v = v /\ data[dir[i]].seal \in {<<>>, <<keyFile>>}
      BY <1>1, <3>4, PlainTyped, SealPlain DEF Sealed
    <3>6. Hand(i) = {v}
      <4>1. Carried(work[w]) = {v}
        BY <1>2, <2>7, <3>1, <3>5 DEF Carried, At
      <4>. QED
        BY <1>2, <2>7, <4>1, Sole
    <3>7. File(p) \in {{}, {v}}
      <4>1. CASE dir[p] = 0
        BY <4>1 DEF File, At
      <4>2. CASE dir[p] # 0
        <5>1. ~Filling(p)
          BY <1>1, <1>2, <2>7, ReadyParts, OnlyTakes DEF Filling
        <5>2. PICK u \in 0 .. MaxVersion : data[dir[p]] = Plain(u)
          BY <1>2, <2>7, <4>2, <5>1, ReadyParts DEF CleanOK, FileOK, Good
        <5>3. data[dir[i]] = Sealed(Plain(u), encrypt)
          BY <1>2, <3>3, <4>2, <5>2 DEF TakeOK
        <5>4. u = v
          BY <1>1, <3>5, <5>3, PlainTyped, SealPlain DEF Sealed
        <5>. QED
          BY <4>2, <5>2, <5>4, PlainTyped DEF File, At
      <4>. QED
        BY <4>1, <4>2
    <3>8. Kept(i)' = {v}
      <4>1. Committing(i)'
        BY <2>2 DEF Committing
      <4>2. dir'[i] = dir[i] /\ data'[dir[i]] = data[dir[i]]
        BY <1>1, <1>2, <2>3, <2>7, <3>1, Basics
      <4>. QED
        BY <1>2, <3>1, <3>5, <4>1, <4>2 DEF Kept
    <3>9. Hand(i)' = {}
      <4>1. \A x \in Worker \ {w} : work'[x].id # i
        BY <2>2, <3>1
      <4>2. Carried(work[w])' = {}
        BY <2>2 DEF Carried
      <4>. QED
        BY <2>2, <4>1, <4>2, HandOfNext
    <3>10. \A q \in Path \ {p} : File(q)' = File(q)
      <4>1. \A q \in Path : q \in Name
        BY <1>1, Basics
      <4>. QED
        BY <1>2, <2>3, <2>7, <4>1, FileSame
    <3>11. File(p)' = {} /\ (Asks(i)' <=> Asks(i))
      BY <1>2, <2>2, <2>7 DEF File, At, Asks, Droppable
    <3>. QED
      BY <1>2, <2>6, <2>7, <3>2, <3>6, <3>7, <3>8, <3>9, <3>10, <3>11, VaultTakeAway
  <2>8. CASE work[w].op # "Quarantine"
    <3>1. \A q \in Path : File(q)' = File(q)
      <4>1. \A q \in Path : q \in Name /\ q # i
        BY <1>1, <1>2, Basics
      <4>. QED
        BY <1>2, <2>3, <2>8, <4>1, FileSame
    <3>2. Asks(i) /\ Asks(i)'
      BY <1>2, <2>2, <2>8 DEF Asks, Droppable
    <3>3. Carried(work[w]) = {} /\ Carried(work[w])' = {}
      BY <1>2, <2>2, <2>8 DEF Carried
    <3>4. Hand(i)' = Hand(i)
      BY <2>2, <2>5, <3>3, HandSame
    <3>5. Kept(i)' = {}
      BY <1>2, <2>8 DEF Kept
    <3>. QED
      BY <1>2, <2>6, <3>1, <3>2, <3>4, <3>5, VaultDrop
  <2>. QED
    BY <2>7, <2>8
<1>. QED
  BY <1>3, <1>4

(* A source that cannot be unlinked: what an encrypting move has written   *)
(* is abandoned, a copying one lists its copy, and a restore or delete     *)
(* leaves the blob.                                                        *)
LEMMA VaultStuck ==
  ASSUME Ready, Ready', NEW w \in Worker, UnlinkFails(w)
  PROVE  V!Next
<1> SUFFICES ASSUME NEW i, NEW p, i = work[w].id, p = work[w].path PROVE V!Next
  OBVIOUS
<1>1. Shape /\ IdsOK /\ Shape' /\ IdsOK'
  BY ReadyParts DEF Ready, Custody
<1>2. /\ work[w].pc = "unlink" /\ dir[Src(work[w])] # 0
      /\ IF work[w].crypt THEN Return(w) ELSE Goto(w, "commit")
      /\ struck' = IF work[w].crypt \/ work[w].op = "Quarantine" THEN struck ELSE struck \cup {i}
      /\ UNCHANGED <<dir, data, rows, keyFile, born>>
  BY DEF UnlinkFails, files, daemon
<1>3. /\ work[w].op \in {"Quarantine", "Restore", "Delete"} /\ i \in Id
      /\ work[w].op = "Quarantine" => p \in Path
  BY <1>1, <1>2, Basics DEF CallIds
<1>4. /\ \A x \in Worker \ {w} : work'[x] = work[x]
      /\ IF work[w].crypt THEN work'[w] = Idle
         ELSE work'[w].pc = "commit" /\ work'[w].op = work[w].op /\ work'[w].id = i
  BY <1>1, <1>2, ReturnChanged, GotoChanged
<1>5. Carried(work[w])' = {}
  BY <1>4, IdleCarriesNext DEF Carried
<1>6. Carried(work[w]) = {} \/ work[w].op \in {"Quarantine", "Restore"}
  BY <1>2 DEF Carried
<1>7. CASE work[w].crypt
  <2>1. \A j \in Id : Safe(j)' <=> Safe(j)
    BY <1>2, <1>4, <1>7, IdleFields, SafeElse
  <2>2. ~Droppable(work[w])'
    BY <1>4, <1>7, IdleFields DEF Droppable
  <2>. QED
    BY <1>1, <1>2, <1>4, <1>5, <1>6, <2>1, <2>2, QuietLeave
<1>8. CASE ~work[w].crypt /\ work[w].op # "Quarantine"
  <2>1. ASSUME NEW j \in Id, dir[j] # 0 PROVE Safe(j)' <=> Safe(j)
    <3>1. CASE j = i
      <4>1. Listed(i) \/ i \in struck
        BY <1>1, <1>3, <1>8, <2>1, <3>1, Basics DEF CallIds, GiveIds
      <4>. QED
        BY <1>2, <1>8, <3>1, <4>1 DEF Safe
    <3>2. CASE j # i
      BY <1>2, <1>4, <1>8, <3>2, SafeElse
    <3>. QED
      BY <3>1, <3>2
  <2>2. Droppable(work[w]) /\ work'[w].id = work[w].id
    BY <1>2, <1>3, <1>4, <1>8 DEF Droppable
  <2>. QED
    BY <1>1, <1>2, <1>4, <1>5, <1>6, <2>1, <2>2, QuietLeave
<1>9. CASE ~work[w].crypt /\ work[w].op = "Quarantine"
  <2>1. /\ ~Listed(i) /\ i \notin struck /\ \A x \in Worker : work[x].id = i => x = w
        /\ dir[i] # 0
    BY <1>1, <1>2, <1>9, Basics DEF CallIds, TakeIds
  <2>2. Kept(i) = {}
    BY <1>2, <1>3, <2>1, NotSafe DEF Safe, Committing
  <2>3. TakeOK(work[w], p) /\ dir[p] # 0 /\ ~Filling(p)
    BY <1>1, <1>2, <1>3, <1>9, ReadyParts, OnlyTakes DEF CleanOK, CallClean, Src, Filling
  <2>4. PICK v \in 0 .. MaxVersion : data[dir[p]] = Plain(v)
    BY <1>3, <1>9, <2>3, ReadyParts DEF CleanOK, FileOK, Good
  <2>5. data[dir[i]] = Sealed(Plain(v), encrypt)
    BY <1>2, <2>3, <2>4 DEF TakeOK
  <2>6. data[dir[i]].v = v /\ data[dir[i]].seal \in {<<>>, <<keyFile>>}
    BY <1>1, <2>5, PlainTyped, SealPlain DEF Sealed
  <2>7. Hand(i) = {v}
    <3>1. Carried(work[w]) = {v}
      BY <1>2, <1>9, <2>1, <2>6 DEF Carried, At
    <3>. QED
      BY <1>9, <3>1, Sole
  <2>8. File(p) = {v}
    BY <2>3, <2>4, PlainTyped DEF File, At
  <2>9. Kept(i)' = {v}
    <3>1. Committing(i)'
      BY <1>4, <1>9 DEF Committing
    <3>. QED
      BY <1>2, <2>1, <2>6, <3>1 DEF Kept
  <2>10. Hand(i)' = {}
    <3>1. \A x \in Worker \ {w} : work'[x].id # i
      BY <1>4, <2>1
    <3>. QED
      BY <1>4, <1>5, <1>9, <3>1, HandOfNext
  <2>11. \A q \in Path : File(q)' = File(q)
    BY <1>2 DEF File, At
  <2>12. \A x \in Worker \ {w} : Carried(work[x])' = Carried(work[x])
    BY <1>2, <1>4 DEF Carried, At
  <2>13. Elses(i)
    BY <1>2, <1>4, <1>9, <2>12, OthersKept
  <2>14. Asks(i)' <=> Asks(i)
    BY <1>2, <1>4, <1>9 DEF Asks, Droppable
  <2>. QED
    BY <1>2, <1>3, <1>9, <2>2, <2>7, <2>8, <2>9, <2>10, <2>11, <2>13, <2>14, VaultCopy
<1>. QED
  BY <1>7, <1>8, <1>9

(* What the user writes is the newest version at the path, and nobody      *)
(* else's: no call has the file in its hands.                              *)
LEMMA VaultUserWrite ==
  ASSUME Ready, Ready', NEW p \in Path, NEW o \in Inode, UserWrite(p, o)
  PROVE  V!Next
<1>1. Shape /\ IdsOK /\ LineOK
  BY ReadyParts
<1>2. /\ born' = Append(born, p) /\ Len(born) + 1 \in 1 .. MaxVersion
      /\ dir'[p] = o /\ (IF dir[p] = 0 THEN Free(o) ELSE o = dir[p])
      /\ \A n \in Name \ {p} : dir'[n] = dir[n]
      /\ data'[o] = Plain(Len(born) + 1) /\ \A u \in Inode \ {o} : data'[u] = data[u]
      /\ UNCHANGED <<rows, keyFile, work, struck>>
      /\ p \notin contested' => \A w \in Worker : work[w].path # p
  BY <1>1, WriteDoes DEF daemon
<1>3. \A w \in Worker : work[w].path # p
  BY <1>2 DEF Ready
<1>4. /\ \A q \in Path : q \in Name
      /\ \A j \in Id : j \in Name /\ j # p
      /\ \A n \in Name : dir[n] # 0 => dir[n] \in Inode
      /\ 0 \notin Inode
  BY <1>1, Basics DEF Inode
<1>5. \A n \in Name \ {p} : dir[n] # o
  <2>1. CASE dir[p] = 0
    BY <1>2, <2>1 DEF Free
  <2>2. CASE dir[p] # 0
    BY <1>1, <1>2, <1>4, <2>2 DEF LineOK, Named
  <2>. QED
    BY <2>1, <2>2
<1>6. \A n \in Name \ {p} : dir'[n] = dir[n] /\ (dir[n] # 0 => data'[dir[n]] = data[dir[n]])
  BY <1>2, <1>4, <1>5
<1>7. ASSUME NEW x \in Worker, work[x].pc \in {"create", "fill"}, ~work[x].crypt
      PROVE  data'[work[x].in] = data[work[x].in]
  <2>1. work[x].in \in Inode /\ work[x].path \in Path /\ Of(work[x].in, work[x].path)
    BY <1>1, <1>7, InOf
  <2>2. work[x].in # o
    <3>1. CASE dir[p] = 0
      BY <1>2, <3>1 DEF Free
    <3>2. CASE dir[p] # 0
      <4>1. Of(o, p)
        BY <1>2, <3>2 DEF Of
      <4>. QED
        BY <1>1, <1>3, <2>1, <4>1 DEF LineOK, Apart
    <3>. QED
      BY <3>1, <3>2
  <2>. QED
    BY <1>2, <2>1, <2>2
<1>8. \A j \in Id : Safe(j)' <=> Safe(j)
  BY <1>2 DEF Safe, Committing, Listed
<1>9. \A j \in Id : Kept(j)' = Kept(j)
  BY <1>2, <1>4, <1>6, <1>8, KeptSame
<1>10. \A x \in Worker : Carried(work[x])' = Carried(work[x])
  <2> SUFFICES ASSUME NEW x \in Worker PROVE Carried(work[x])' = Carried(work[x])
    OBVIOUS
  <2>1. work[x].op = "Quarantine" => work[x].id \in Id
    BY <1>1, Basics
  <2>. QED
    BY <1>2, <1>4, <1>6, <1>7, <2>1, CarriedSame
<1>11. Rest
  <2>1. \A j \in Id : Hand(j)' = Hand(j)
    BY <1>2, <1>10, HandSame
  <2>2. \A j \in Id : Asks(j)' <=> Asks(j)
    BY <1>2 DEF Asks, Droppable
  <2>. QED
    BY <1>9, <2>1, <2>2 DEF Rest
<1>12. File(p)' = {Len(born) + 1}
  <2>1. dir'[p] = o /\ o # 0 /\ data'[o].v = Len(born) + 1 /\ data'[o].seal = <<>>
    BY <1>2, <1>4, PlainTyped
  <2>. QED
    BY <2>1 DEF File, At
<1>13. \A q \in Path \ {p} : File(q)' = File(q)
  BY <1>4, <1>6, FileSame
<1>. QED
  BY <1>2, <1>11, <1>12, <1>13, VaultWrite

(* The daemon starts, or stops: the calls let go, nothing else moves. *)
LEMMA VaultCrash ==
  ASSUME Ready, Ready', Crash
  PROVE  V!Next
<1>1. Shape /\ IdsOK
  BY ReadyParts
<1>2. /\ \A w \in Worker : work'[w] = Idle
      /\ struck' = struck \cup {work[w].id : w \in {x \in Worker : work[x].pc = "commit"}}
      /\ Store(data)
      /\ UNCHANGED <<dir, rows, keyFile, born>>
  BY <1>1, CrashDoes
<1>3. \A n \in Name : dir[n] # 0 => data'[dir[n]] = data[dir[n]]
  <2>1. \A n \in Name : dir[n] # 0 => dir'[n] = dir[n] /\ dir[n] \in Inode
    BY <1>1, <1>2, Basics DEF Inode
  <2>. QED
    BY <1>2, <2>1, StoreKeeps
<1>4. \A j \in Id : Safe(j)' <=> Safe(j)
  <2>1. \A w \in Worker : work'[w].pc = "idle"
    BY <1>2, IdleFields
  <2>. QED
    BY <1>2, <2>1 DEF Safe, Committing, Listed
<1>5. /\ \A q \in Path : q \in Name
      /\ \A j \in Id : j \in Name
  BY <1>1, Basics
<1>6. \A q \in Path : File(q)' = File(q)
  BY <1>2, <1>3, <1>5, FileSame
<1>7. \A j \in Id : Kept(j)' = Kept(j)
  BY <1>2, <1>3, <1>4, <1>5, KeptSame
<1>8. \A j \in Id : Hand(j)' = {}
  <2>1. \A w \in Worker : Carried(work[w])' = {}
    BY <1>2, IdleCarriesNext
  <2>. QED
    BY <2>1 DEF Hand, For
<1>9. \A j \in Id : ~Asks(j)'
  BY <1>2, IdleFields DEF Asks, Droppable
<1>. QED
  BY <1>2, <1>6, <1>7, <1>8, <1>9, VaultLeave

(* What is sealed with no key is not sealed. *)
LEMMA KeylessPlain ==
  ASSUME NEW d \in Data, SealedWith(d, 0)
  PROVE  d.seal = << >>
<1>1. d.seal \in Seq(1 .. MaxKey)
  BY DEF Data
<1>2. Len(d.seal) \in Nat /\ DOMAIN d.seal = 1 .. Len(d.seal)
  BY <1>1
<1>3. Len(d.seal) = 0
  <2>1. ASSUME Len(d.seal) # 0 PROVE FALSE
    <3>1. 1 \in DOMAIN d.seal
      BY <1>2, <2>1
    <3>2. d.seal[1] \in 1 .. MaxKey
      BY <1>1, <3>1, ElementTyped
    <3>3. d.seal[1] = 0
      BY <3>1 DEF SealedWith
    <3>. QED
      BY <3>2, <3>3
  <2>. QED
    BY <2>1
<1>. QED
  BY <1>1, <1>3

(* Starting the daemon: nothing of the vault moves, since no key that      *)
(* sealed something is replaced.                                           *)
LEMMA VaultStart ==
  ASSUME KeyReadFails = FALSE, Ready, Boot \/ GenerateKey \/ SaveKey
  PROVE  V!Next
<1>1. Shape /\ IdsOK /\ SealOK
  BY ReadyParts
<1>2. UNCHANGED <<dir, data, rows, work, born, struck>>
  BY DEF Boot, GenerateKey, SaveKey, files, history
<1>3. keyFile' = keyFile \/ (SaveKey /\ keyFile = 0)
  BY <1>1 DEF Boot, GenerateKey, KeyLost, SaveKey, Shape, KeyOK
<1>4. \A i \in Id : Kept(i)' = Kept(i)
  <2>1. CASE keyFile' = keyFile
    BY <1>2, <2>1 DEF Kept, Committing, Listed
  <2>2. CASE keyFile = 0
    <3>1. \A i \in Id : dir[i] # 0 => data[dir[i]].seal = << >>
      <4>1. \A i \in Id : dir[i] # 0 => data[dir[i]] \in Data /\ SealedWith(data[dir[i]], 0)
        BY <1>1, <2>2, Basics DEF SealOK, Inode
      <4>. QED
        BY <4>1, KeylessPlain
    <3>. QED
      BY <1>2, <3>1 DEF Kept, Committing, Listed
  <2>. QED
    BY <1>3, <2>1, <2>2
<1>5. \A q \in Path : File(q)' = File(q)
  BY <1>2 DEF File, At
<1>6. \A j \in Id : Hand(j)' = Hand(j)
  BY <1>2 DEF Hand, For, Carried, At
<1>7. \A j \in Id : Asks(j)' => Asks(j)
  BY <1>2 DEF Asks, Droppable
<1>. QED
  BY <1>2, <1>4, <1>5, <1>6, <1>7, VaultLeave

(* A step that touches nothing of Quarantine touches nothing of Vault. *)
LEMMA VaultStutter == UNCHANGED vars => UNCHANGED V!vars
<1> SUFFICES ASSUME UNCHANGED vars PROVE UNCHANGED V!vars
  OBVIOUS
<1>1. UNCHANGED <<dir, data, rows, keyFile, work, born, struck>>
  BY DEF vars, files, daemon, history
<1>. QED
  BY <1>1 DEF V!vars, File, At, Kept, Listed, Committing, Carried, For, Droppable

LEMMA VaultNext ==
  ASSUME KeyReadFails = FALSE
  PROVE  Ready /\ Ready' /\ [Next]_vars => [V!Next]_(V!vars)
<1> SUFFICES ASSUME Ready, Ready', [Next]_vars PROVE [V!Next]_(V!vars)
  OBVIOUS
<1>0. Shape'
  BY ReadyParts DEF Ready, Custody
<1>1. CASE UNCHANGED vars
  BY <1>1, VaultStutter
<1>2. CASE Boot \/ GenerateKey \/ SaveKey
  BY <1>2, VaultStart
<1>3. CASE Crash
  BY <1>3, VaultCrash
<1>4. ASSUME NEW p \in Path, NEW o \in Inode, UserWrite(p, o) PROVE V!Next
  BY <1>4, VaultUserWrite
<1>5. ASSUME NEW w \in Worker, Step(w) PROVE V!Next
  <2>1. CASE (\E p \in Path : BeginQuarantine(w, p)) \/ (\E i \in Id : BeginRestore(w, i))
    BY <1>0, <2>1, VaultBegins
  <2>2. ASSUME NEW i \in Id, BeginDelete(w, i) PROVE V!Next
    BY <1>0, <2>2, VaultDelete
  <2>3. CASE ReadFails(w) \/ FillFails(w) \/ CommitFails(w) \/ Commit(w)
    BY <1>0, <2>3, VaultEnds
  <2>4. CASE ReadSource(w)
    BY <1>0, <2>4, VaultRead
  <2>5. CASE Rename(w)
    BY <2>5, VaultRename
  <2>6. ASSUME NEW o \in Inode, CreateTarget(w, o) PROVE V!Next
    BY <2>6, VaultCreate
  <2>7. CASE FillTarget(w)
    BY <2>7, VaultFill
  <2>8. CASE Unlink(w)
    BY <2>8, VaultUnlink
  <2>9. CASE UnlinkFails(w)
    BY <2>9, VaultStuck
  <2>. QED
    BY <1>5, <2>1, <2>2, <2>3, <2>4, <2>5, <2>6, <2>7, <2>8, <2>9 DEF Step
<1>. QED
  BY <1>1, <1>2, <1>3, <1>4, <1>5 DEF Next

LEMMA VaultInit == Init => V!Init
<1> SUFFICES ASSUME Init PROVE V!Init
  OBVIOUS
<1>1. /\ \A n \in Name : dir[n] = 0
      /\ \A w \in Worker : work[w].pc = "idle" /\ work[w].op = "none"
      /\ born = << >>
  BY IdleFields DEF Init
<1>2. \A q \in Path : q \in Name
  BY DEF Name
<1>3. \A j \in Id : j \in Name
  BY DEF Name
<1>4. \A q \in Path : File(q) = {}
  BY <1>1, <1>2 DEF File, At
<1>5. \A j \in Id : Kept(j) = {}
  BY <1>1, <1>3 DEF Kept
<1>6. \A j \in Id : (UNION {Carried(work[w]) : w \in For(j)}) = {}
  <2>1. \A w \in Worker : Carried(work[w]) = {}
    BY <1>1 DEF Carried
  <2>2. \A j \in Id : Hand(j) = {}
    BY <2>1, HandNone
  <2>. QED
    BY <2>2 DEF Hand
<1>7. \A j \in Id : ~\E w \in For(j) : Droppable(work[w])
  BY <1>1 DEF Droppable, For
<1>. QED
  BY <1>1, <1>4, <1>5, <1>6, <1>7 DEF V!Init

---------------------------------------------------------------------------
(* Quarantine implements Vault: however many system calls a move takes,    *)
(* wherever it stops and whatever fails, the user sees it happen at once,  *)
(* a file leaves its path only into the custody of an id, and an id gives  *)
(* up exactly what it took, to the path it came from or on request.  Under *)
(* the same two conditions, and as long as no activities overlap on a path *)
(* (every behaviour up to its first overlap is one of those this is about, *)
(* since Spec may stop anywhere).                                          *)
THEOREM VaultIsImplemented ==
  KeyReadFails = FALSE /\ MayDisable = FALSE =>
    (Spec /\ [](contested = {}) => ImplementsVault)
<1>. SUFFICES ASSUME KeyReadFails = FALSE, MayDisable = FALSE
     PROVE  Spec /\ [](contested = {}) => ImplementsVault
  OBVIOUS
<1> DEFINE Sound == Custody /\ SealOK
<1>1. Init => Sound
  BY CustodyInit, SealInit
<1>2. Sound /\ [Next]_vars => Sound'
  <2> SUFFICES ASSUME Sound, [Next]_vars PROVE Sound'
    OBVIOUS
  <2>1. Shape /\ IdsOK
    BY DEF Custody
  <2>2. Custody'
    BY CustodyNext
  <2>3. SealOK'
    BY <2>1, SealNext
  <2>. QED
    BY <2>2, <2>3
<1>3. Sound /\ contested = {} => Ready
  BY DEF Ready
<1>4. Ready /\ Ready' /\ [Next]_vars => [V!Next]_(V!vars)
  BY VaultNext
<1>. HIDE DEF Sound
<1>5. Spec /\ [](contested = {}) => []Ready
  BY <1>1, <1>2, <1>3, PTL DEF Spec
<1>. QED
  BY <1>4, <1>5, VaultInit, PTL DEF Spec, ImplementsVault, V!Spec
===========================================================================
