------------------------- MODULE QuarantineProofs -------------------------
(***************************************************************************)
(* Proofs about Quarantine for any number of callers, paths, calls,        *)
(* crashes and key generations: the type invariant, and that no start of   *)
(* the daemon replaces a key that sealed a file (KeySafe).                 *)
(***************************************************************************)
EXTENDS Quarantine, TLAPS

(* What the calls under way rely on between two of their steps. *)
CallOK(c) ==
  /\ c.pc # "idle" => phase = "up" /\ c.id \in Id
  /\ c.op \in {"Quarantine", "Restore"} => c.path \in Path
  /\ c.pc \in {"rename", "read", "create", "fill"} => c.op \in {"Quarantine", "Restore"}
  /\ c.pc \in {"create", "fill"} /\ ~c.crypt => c.in \in Inode
  /\ c.pc = "fill" => c.out \in Inode
  /\ c.pc # "idle" /\ c.crypt => key # 0

RowsOK == \A i \in Id : Listed(i) => rows[i].path \in Path

(* The key in memory, and the key file while a new key is written to it. *)
KeyOK ==
  /\ key # 0 => phase = "up" /\ key = keyFile
  /\ phase = "keygen" => keyFile = 0 /\ minted # 0

(* Whatever is sealed, on disk or in a buffer, is sealed with the key file's. *)
SealedWith(d, k) == \A s \in DOMAIN d.seal : d.seal[s] = k
SealOK ==
  /\ \A i \in Inode : SealedWith(data[i], keyFile)
  /\ \A w \in Worker : SealedWith(work[w].buf, keyFile)

Shape == TypeOK /\ (\A w \in Worker : CallOK(work[w])) /\ RowsOK /\ KeyOK

---------------------------------------------------------------------------
(* Lemmas about the operators.                                             *)

LEMMA BlankTyped == Torn \in Data /\ Idle \in Work /\ NoRow \in Row
  BY BoundAssumption DEF Torn, Data, Idle, Call, Work, NoRow, Row

LEMMA SealTyped ==
  ASSUME NEW d \in Data, NEW k \in 1 .. MaxKey
  PROVE  /\ Seal(d, k) \in Data
         /\ SealedWith(d, k) => SealedWith(Seal(d, k), k)
<1> DEFINE a == Append(d.seal, k)
<1>1. d.seal \in Seq(1 .. MaxKey) /\ d = [v |-> d.v, seal |-> d.seal] /\ d.v \in 0 .. MaxVersion
  BY DEF Data
<1>2. a \in Seq(1 .. MaxKey) /\ Len(a) = Len(d.seal) + 1
  BY <1>1
<1>. HIDE DEF a
<1>3. Seal(d, k) \in Data /\ Seal(d, k).seal = a
  BY <1>2 DEF Seal, Data, a
<1>4. ASSUME SealedWith(d, k), NEW s \in DOMAIN a PROVE a[s] = k
  <2>1. s \in 1 .. Len(a)
    BY <1>2, <1>4
  <2>2. CASE s = Len(a)
    BY <1>1, <1>2, <2>2 DEF a
  <2>3. CASE s \in 1 .. Len(d.seal)
    BY <1>1, <1>4, <2>3 DEF SealedWith, a
  <2>. QED
    BY <1>1, <1>2, <2>1, <2>2, <2>3
<1>. QED
  BY <1>3, <1>4 DEF SealedWith

LEMMA OpenTyped ==
  ASSUME NEW d \in Data, NEW k, d.seal # <<>>
  PROVE  /\ Open(d) \in Data
         /\ SealedWith(d, k) => SealedWith(Open(d), k)
  BY DEF Open, Data, SealedWith

LEMMA HeldTyped ==
  ASSUME TypeOK, NEW n \in Name
  PROVE  Held(n) \subseteq 1 .. MaxVersion
  BY BoundAssumption DEF TypeOK, Held, Data, Inode

LEMMA StoreTyped ==
  ASSUME NEW d \in [Inode -> Data], Store(d)
  PROVE  data' \in [Inode -> Data]
  BY BlankTyped DEF Store

(* The ends of a move are names of files. *)
LEMMA NamesTyped ==
  ASSUME NEW c, CallOK(c), c.pc # "idle"
  PROVE  /\ Src(c) \in Name
         /\ c.op \in {"Quarantine", "Restore"} => Dst(c) \in Name
  BY DEF CallOK, Src, Dst, Name

---------------------------------------------------------------------------
(* A call that moves on, or a new one, keeps the table of calls in order.  *)
LEMMA CallStep ==
  ASSUME Shape, NEW w \in Worker, NEW c \in Work, CallOK(c),
         work' = [work EXCEPT ![w] = c], UNCHANGED <<phase, key>>
  PROVE  work' \in [Worker -> Work] /\ \A x \in Worker : CallOK(work[x])'
<1>1. work \in [Worker -> Work]
  BY DEF Shape, TypeOK
<1>2. ASSUME NEW x \in Worker PROVE CallOK(work[x])'
  <2>1. CASE x = w
    BY <1>1, <2>1 DEF CallOK
  <2>2. CASE x # w
    BY <1>1, <2>2 DEF Shape, CallOK
  <2>. QED
    BY <2>1, <2>2
<1>. QED
  BY <1>1, <1>2

LEMMA IdleOK == CallOK(Idle)
  BY DEF CallOK, Idle, Call

(* [work EXCEPT ![w].pc = pc] as the new record of the call. *)
LEMMA GotoStep ==
  ASSUME Shape, NEW w \in Worker, NEW pc \in {"read", "unlink", "commit"},
         work[w].pc # "idle",
         pc = "read" => work[w].op \in {"Quarantine", "Restore"},
         Goto(w, pc), UNCHANGED <<phase, key>>
  PROVE  work' \in [Worker -> Work] /\ \A x \in Worker : CallOK(work[x])'
<1> DEFINE c == [work[w] EXCEPT !.pc = pc]
<1>1. work[w] \in Work /\ CallOK(work[w])
  BY DEF Shape, TypeOK
<1>2. c \in Work /\ CallOK(c)
  BY <1>1 DEF Work, CallOK
<1>3. work' = [work EXCEPT ![w] = c]
  BY DEF Goto
<1>. HIDE DEF c
<1>. QED
  BY <1>2, <1>3, CallStep

LEMMA ReturnStep ==
  ASSUME Shape, NEW w \in Worker, Return(w), UNCHANGED <<phase, key>>
  PROVE  work' \in [Worker -> Work] /\ \A x \in Worker : CallOK(work[x])'
  BY CallStep, BlankTyped, IdleOK DEF Return

---------------------------------------------------------------------------
LEMMA ShapeInit == Init => Shape
  BY BlankTyped, BoundAssumption
  DEF Init, Shape, TypeOK, CallOK, RowsOK, KeyOK, Idle, Call, Torn, Listed, Inode, Id, Row

LEMMA ShapeNext == Shape /\ [Next]_vars => Shape'
<1> USE BoundAssumption, PathAssumption
<1> SUFFICES ASSUME Shape, [Next]_vars PROVE Shape'
  OBVIOUS
<1>1. CASE Boot
  BY <1>1 DEF Shape, TypeOK, CallOK, RowsOK, KeyOK, Listed, Boot, files, history
<1>2. CASE GenerateKey
  BY <1>2 DEF Shape, TypeOK, CallOK, RowsOK, KeyOK, Listed, GenerateKey, files, history
<1>3. CASE SaveKey
  BY <1>3 DEF Shape, TypeOK, CallOK, RowsOK, KeyOK, Listed, SaveKey, files, history
<1>4. CASE Crash
  <2>1. data' \in [Inode -> Data]
    BY <1>4, StoreTyped DEF Crash, Shape, TypeOK
  <2>2. work' \in [Worker -> Work] /\ \A w \in Worker : CallOK(work[w])'
    <3>1. work' = [w \in Worker |-> Idle]
      BY <1>4 DEF Crash
    <3>. QED
      BY <3>1, BlankTyped DEF CallOK, Idle, Call
  <2>3. halfway' \subseteq Path
    BY <1>4 DEF Crash, HalfDone, Shape, TypeOK, CallOK
  <2>4. struck' \subseteq Nat
    <3>1. \A w \in Worker : work[w].id \in Nat
      BY DEF Shape, TypeOK, Work
    <3>. QED
      BY <1>4, <3>1 DEF Crash, Shape, TypeOK
  <2>5. encrypt' \in BOOLEAN
    <3>1. (IF MayDisable THEN BOOLEAN ELSE {encrypt, TRUE}) \subseteq BOOLEAN
      BY FaultAssumption DEF Shape, TypeOK
    <3>. QED
      BY <1>4, <3>1 DEF Crash
  <2>6. crashes' \in 0 .. MaxCrash
    BY <1>4 DEF Crash, Shape, TypeOK
  <2>. QED
    BY <1>4, <2>1, <2>2, <2>3, <2>4, <2>5, <2>6 DEF Crash, Shape, TypeOK, RowsOK, KeyOK, Listed
<1>5. ASSUME NEW p \in Path, NEW o \in Inode, UserWrite(p, o) PROVE Shape'
  <2>1. Plain(Len(born) + 1) \in Data
    BY <1>5 DEF Shape, TypeOK, UserWrite, Plain, Data
  <2>2. released' \subseteq 1 .. MaxVersion
    BY <1>5, HeldTyped DEF Shape, TypeOK, UserWrite, Name
  <2>3. data' \in [Inode -> Data]
    BY <1>5, <2>1 DEF Shape, TypeOK, UserWrite
  <2>6. dir' \in [Name -> 0 .. MaxInode]
    <3>1. o \in 0 .. MaxInode /\ dir \in [Name -> 0 .. MaxInode]
      BY DEF Inode, Shape, TypeOK
    <3>. QED
      BY <1>5, <3>1 DEF UserWrite
  <2>4. born' \in Seq(Path) /\ Len(born') <= MaxVersion
    BY <1>5 DEF Shape, TypeOK, UserWrite
  <2>5. contested' \subseteq Path
    BY <1>5 DEF Shape, TypeOK, UserWrite, Contend
  <2>. QED
    BY <1>5, <2>2, <2>3, <2>4, <2>5, <2>6
    DEF Shape, TypeOK, CallOK, RowsOK, KeyOK, Listed, UserWrite, daemon
<1>6. ASSUME NEW w \in Worker, NEW p \in Path, BeginQuarantine(w, p) PROVE Shape'
  <2> DEFINE b == encrypt /\ key # 0
             pc == IF b THEN "read" ELSE "rename"
             c == Call("Quarantine", uuids + 1, p, b, pc)
  <2>1. work' = [work EXCEPT ![w] = c] /\ UNCHANGED <<phase, key>>
    BY <1>6 DEF BeginQuarantine, NewId, daemon
  <2>2. c \in Work /\ CallOK(c)
    <3>1. uuids + 1 \in Id /\ p \in Path /\ phase = "up"
      BY <1>6 DEF BeginQuarantine, Shape, TypeOK, RowsOK, Row, Id
    <3>2. b \in BOOLEAN /\ (b => key # 0) /\ pc \in {"read", "rename"}
      OBVIOUS
    <3>. HIDE DEF b, pc
    <3>3. c \in Work
      BY <3>1, <3>2, BlankTyped DEF Call, Work, Id
    <3>. QED
      BY <3>1, <3>2, <3>3 DEF Call, CallOK
  <2>. HIDE DEF c
  <2>3. work' \in [Worker -> Work] /\ \A y \in Worker : CallOK(work[y])'
    BY <2>1, <2>2, CallStep
  <2>. QED
    BY <1>6, <2>3 DEF Shape, TypeOK, RowsOK, KeyOK, Listed, BeginQuarantine, Contend, Row, Id, files, daemon, history
<1>7. ASSUME NEW w \in Worker, NEW i \in Id, BeginRestore(w, i) PROVE Shape'
  <2> DEFINE b == rows[i].enc /\ key # 0
             pc == IF b THEN "read" ELSE "rename"
             c == Call("Restore", i, rows[i].path, b, pc)
  <2>1. work' = [work EXCEPT ![w] = c] /\ UNCHANGED <<phase, key>>
    BY <1>7 DEF BeginRestore, daemon
  <2>2. c \in Work /\ CallOK(c)
    <3>1. i \in Id /\ rows[i].path \in Path /\ phase = "up"
      BY <1>7 DEF BeginRestore, Shape, TypeOK, RowsOK, Row, Id
    <3>2. b \in BOOLEAN /\ (b => key # 0) /\ pc \in {"read", "rename"}
      OBVIOUS
    <3>. HIDE DEF b, pc
    <3>3. c \in Work
      BY <3>1, <3>2, BlankTyped DEF Call, Work, Id
    <3>. QED
      BY <3>1, <3>2, <3>3 DEF Call, CallOK
  <2>. HIDE DEF c
  <2>3. work' \in [Worker -> Work] /\ \A y \in Worker : CallOK(work[y])'
    BY <2>1, <2>2, CallStep
  <2>. QED
    BY <1>7, <2>3 DEF Shape, TypeOK, RowsOK, KeyOK, Listed, BeginRestore, Contend, Row, Id, files, daemon, history
<1>8. ASSUME NEW w \in Worker, NEW i \in Id, BeginDelete(w, i) PROVE Shape'
  <2> DEFINE c == Call("Delete", i, NoPath, FALSE, "unlink")
  <2>1. work' = [work EXCEPT ![w] = c] /\ UNCHANGED <<phase, key>>
    BY <1>8 DEF BeginDelete, daemon
  <2>2. c \in Work /\ CallOK(c)
    BY <1>8, BlankTyped DEF BeginDelete, Call, Work, CallOK, Shape, TypeOK, RowsOK, Row, Id
  <2>. HIDE DEF c
  <2>3. work' \in [Worker -> Work] /\ \A y \in Worker : CallOK(work[y])'
    BY <2>1, <2>2, CallStep
  <2>. QED
    BY <1>8, <2>3 DEF Shape, TypeOK, RowsOK, KeyOK, Listed, BeginDelete, Contend, Row, Id, files, daemon, history
<1>9. ASSUME NEW w \in Worker, Rename(w) PROVE Shape'
  <2>1. CallOK(work[w]) /\ work[w] \in Work /\ work[w].pc # "idle"
    BY <1>9 DEF Shape, TypeOK, Rename
  <2>2. Src(work[w]) \in Name /\ Dst(work[w]) \in Name
    BY <1>9, <2>1, NamesTyped DEF Rename, CallOK
  <2>3. work' \in [Worker -> Work] /\ \A y \in Worker : CallOK(work[y])'
    BY <1>9, <2>1, GotoStep DEF Rename, CallOK, daemon
  <2>4. data' \in [Inode -> Data]
    BY <1>9, StoreTyped DEF Rename, Shape, TypeOK
  <2>5. dir' \in [Name -> 0 .. MaxInode]
    <3>1. dir \in [Name -> 0 .. MaxInode] /\ 0 \in 0 .. MaxInode
      BY DEF Shape, TypeOK
    <3>2. dir[Src(work[w])] \in 0 .. MaxInode
      BY <2>2, <3>1
    <3>3. [dir EXCEPT ![Dst(work[w])] = dir[Src(work[w])], ![Src(work[w])] = 0]
            \in [Name -> 0 .. MaxInode]
      BY <3>1, <3>2
    <3>. QED
      BY <1>9, <3>1, <3>3 DEF Rename
  <2>6. released' \subseteq 1 .. MaxVersion
    <3>1. \A n \in Name : Held(n) \subseteq 1 .. MaxVersion
      BY HeldTyped DEF Shape
    <3>. QED
      BY <1>9, <2>2, <3>1 DEF Rename, Shape, TypeOK
  <2>. QED
    BY <1>9, <2>3, <2>4, <2>5, <2>6 DEF Shape, TypeOK, RowsOK, KeyOK, Listed, Rename, daemon
<1>10. ASSUME NEW w \in Worker, ReadSource(w) PROVE Shape'
  <2>1. CallOK(work[w]) /\ work[w] \in Work /\ work[w].pc = "read"
    BY <1>10 DEF Shape, TypeOK, ReadSource
  <2>2. Src(work[w]) \in Name
    BY <2>1, NamesTyped
  <2> DEFINE d == data[dir[Src(work[w])]]
             b == Taken(work[w], d)
             i == IF work[w].crypt THEN 0 ELSE dir[Src(work[w])]
             c == [work[w] EXCEPT !.pc = "create", !.in = i, !.buf = b]
  <2>3. dir[Src(work[w])] \in Inode
    BY <1>10, <2>2 DEF ReadSource, Readable, Shape, TypeOK, Inode
  <2>4. d \in Data
    BY <2>3 DEF Shape, TypeOK
  <2>5. b \in Data
    <3>1. CASE ~work[w].crypt
      BY <3>1, BlankTyped DEF Taken
    <3>2. CASE work[w].crypt /\ work[w].op = "Restore"
      <4>1. d.seal # <<>>
        BY <1>10, <3>2 DEF ReadSource, Readable, Opens
      <4>. QED
        BY <2>4, <3>2, <4>1, OpenTyped DEF Taken
    <3>3. CASE work[w].crypt /\ work[w].op # "Restore"
      BY <2>4, <3>3 DEF Taken
    <3>. QED
      BY <3>1, <3>2, <3>3
  <2>6. i \in 0 .. MaxInode /\ (~work[w].crypt => i \in Inode)
    BY <2>3 DEF Inode
  <2>7. work' = [work EXCEPT ![w] = c]
    BY <1>10 DEF ReadSource
  <2>. HIDE DEF b, i
  <2>8. c \in Work /\ CallOK(c)
    <3>1. c \in Work
      BY <2>1, <2>5, <2>6 DEF Work
    <3>2. /\ c.pc = "create" /\ c.in = i /\ c.op = work[w].op /\ c.id = work[w].id
          /\ c.path = work[w].path /\ c.crypt = work[w].crypt
      BY <2>1 DEF Work
    <3>. QED
      BY <2>1, <2>6, <3>1, <3>2 DEF CallOK
  <2>. HIDE DEF c
  <2>9. work' \in [Worker -> Work] /\ \A y \in Worker : CallOK(work[y])'
    BY <1>10, <2>7, <2>8, CallStep DEF ReadSource, daemon
  <2>. QED
    BY <1>10, <2>9 DEF Shape, TypeOK, RowsOK, KeyOK, Listed, ReadSource, files, daemon, history
<1>11. ASSUME NEW w \in Worker, ReadFails(w) PROVE Shape'
  <2>1. work' \in [Worker -> Work] /\ \A y \in Worker : CallOK(work[y])'
    BY <1>11, ReturnStep DEF ReadFails, daemon
  <2>. QED
    BY <1>11, <2>1 DEF Shape, TypeOK, RowsOK, KeyOK, Listed, ReadFails, files, daemon, history
<1>12. ASSUME NEW w \in Worker, NEW o \in Inode, CreateTarget(w, o) PROVE Shape'
  <2>1. CallOK(work[w]) /\ work[w] \in Work /\ work[w].pc = "create"
    BY <1>12 DEF Shape, TypeOK, CreateTarget
  <2>2. Dst(work[w]) \in Name
    BY <2>1, NamesTyped DEF CallOK
  <2> DEFINE c == [work[w] EXCEPT !.pc = "fill", !.out = o]
  <2>3. c \in Work /\ CallOK(c)
    <3>1. c \in Work
      <4>1. o \in 0 .. MaxInode
        BY DEF Inode
      <4>. QED
        BY <2>1, <4>1 DEF Work
    <3>2. /\ c.pc = "fill" /\ c.out = o /\ c.in = work[w].in /\ c.op = work[w].op
          /\ c.id = work[w].id /\ c.path = work[w].path /\ c.crypt = work[w].crypt
      BY <2>1 DEF Work
    <3>. QED
      BY <2>1, <3>1, <3>2 DEF CallOK
  <2>4. work' = [work EXCEPT ![w] = c]
    BY <1>12 DEF CreateTarget
  <2>. HIDE DEF c
  <2>5. work' \in [Worker -> Work] /\ \A y \in Worker : CallOK(work[y])'
    BY <1>12, <2>3, <2>4, CallStep DEF CreateTarget, daemon
  <2>6. data' \in [Inode -> Data]
    <3>1. [data EXCEPT ![o] = Torn] \in [Inode -> Data]
      BY BlankTyped DEF Shape, TypeOK
    <3>. QED
      BY <1>12, <3>1, StoreTyped DEF CreateTarget
  <2>7. dir' \in [Name -> 0 .. MaxInode] /\ released' \subseteq 1 .. MaxVersion
    BY <1>12, <2>2, HeldTyped DEF CreateTarget, Shape, TypeOK, Inode
  <2>. QED
    BY <1>12, <2>5, <2>6, <2>7 DEF Shape, TypeOK, RowsOK, KeyOK, Listed, CreateTarget, daemon
<1>13. ASSUME NEW w \in Worker, FillTarget(w) PROVE Shape'
  <2>1. CallOK(work[w]) /\ work[w] \in Work /\ work[w].pc = "fill"
    BY <1>13 DEF Shape, TypeOK, FillTarget
  <2> DEFINE c == Call(work[w].op, work[w].id, work[w].path, work[w].crypt, "unlink")
  <2>2. c \in Work /\ CallOK(c)
    BY <2>1, BlankTyped DEF Call, Work, CallOK
  <2>3. work' = [work EXCEPT ![w] = c]
    BY <1>13 DEF FillTarget, Done
  <2>. HIDE DEF c
  <2>4. work' \in [Worker -> Work] /\ \A y \in Worker : CallOK(work[y])'
    BY <1>13, <2>2, <2>3, CallStep DEF FillTarget, daemon
  <2>5. Payload(work[w]) \in Data
    <3>1. CASE ~work[w].crypt
      <4>1. work[w].in \in Inode
        BY <2>1, <3>1 DEF CallOK
      <4>. QED
        BY <3>1, <4>1 DEF Payload, Shape, TypeOK
    <3>2. CASE work[w].crypt
      <4>1. work[w].buf \in Data /\ key \in 1 .. MaxKey
        BY <2>1, <3>2 DEF Work, CallOK, Shape, TypeOK
      <4>. QED
        BY <3>2, <4>1, SealTyped DEF Payload
    <3>. QED
      BY <3>1, <3>2
  <2>6. data' \in [Inode -> Data]
    <3>1. [data EXCEPT ![work[w].out] = Payload(work[w])] \in [Inode -> Data]
      BY <2>5 DEF Shape, TypeOK
    <3>. QED
      BY <1>13, <3>1, StoreTyped DEF FillTarget
  <2>. QED
    BY <1>13, <2>4, <2>6 DEF Shape, TypeOK, RowsOK, KeyOK, Listed, FillTarget, daemon, history
<1>14. ASSUME NEW w \in Worker, FillFails(w) PROVE Shape'
  <2>1. work' \in [Worker -> Work] /\ \A y \in Worker : CallOK(work[y])'
    BY <1>14, ReturnStep DEF FillFails, daemon
  <2>2. data' \in [Inode -> Data]
    BY <1>14, StoreTyped DEF FillFails, Shape, TypeOK
  <2>3. halfway' \subseteq Path
    BY <1>14 DEF FillFails, HalfDone, Shape, TypeOK, CallOK
  <2>. QED
    BY <1>14, <2>1, <2>2, <2>3 DEF Shape, TypeOK, RowsOK, KeyOK, Listed, FillFails, daemon
<1>15. ASSUME NEW w \in Worker, Unlink(w) PROVE Shape'
  <2>1. CallOK(work[w]) /\ work[w] \in Work /\ work[w].pc = "unlink"
    BY <1>15 DEF Shape, TypeOK, Unlink
  <2>2. Src(work[w]) \in Name
    BY <2>1, NamesTyped
  <2>3. work' \in [Worker -> Work] /\ \A y \in Worker : CallOK(work[y])'
    BY <1>15, <2>1, GotoStep, ReturnStep DEF Unlink, daemon
  <2>4. data' \in [Inode -> Data]
    BY <1>15, StoreTyped DEF Unlink, Shape, TypeOK
  <2>5. dir' \in [Name -> 0 .. MaxInode]
    BY <1>15, <2>2 DEF Unlink, Shape, TypeOK
  <2>6. released' \subseteq 1 .. MaxVersion
    <3>1. \A n \in Name : Held(n) \subseteq 1 .. MaxVersion
      BY HeldTyped DEF Shape
    <3>. QED
      BY <1>15, <2>2, <3>1 DEF Unlink, Shape, TypeOK
  <2>. QED
    BY <1>15, <2>3, <2>4, <2>5, <2>6 DEF Shape, TypeOK, RowsOK, KeyOK, Listed, Unlink, daemon
<1>16. ASSUME NEW w \in Worker, Commit(w) PROVE Shape'
  <2>1. CallOK(work[w]) /\ work[w] \in Work /\ work[w].pc = "commit"
    BY <1>16 DEF Shape, TypeOK, Commit
  <2>2. work' \in [Worker -> Work] /\ \A y \in Worker : CallOK(work[y])'
    BY <1>16, ReturnStep DEF Commit, daemon
  <2>3. rows' \in [Id -> Row] /\ RowsOK'
    BY <1>16, <2>1, BlankTyped DEF Commit, RowOf, CallOK, Row, RowsOK, Listed, Shape, TypeOK
  <2>. QED
    BY <1>16, <2>2, <2>3 DEF Shape, TypeOK, KeyOK, Commit, files, daemon, history
<1>17. ASSUME NEW w \in Worker, CommitFails(w) PROVE Shape'
  <2>1. work' \in [Worker -> Work] /\ \A y \in Worker : CallOK(work[y])'
    BY <1>17, ReturnStep DEF CommitFails, daemon
  <2>2. work[w].id \in Nat
    BY DEF Shape, TypeOK, Work
  <2>. QED
    BY <1>17, <2>1, <2>2 DEF Shape, TypeOK, RowsOK, KeyOK, Listed, CommitFails, files, daemon
<1>19. ASSUME NEW w \in Worker, UnlinkFails(w) PROVE Shape'
  <2>1. CallOK(work[w]) /\ work[w] \in Work /\ work[w].pc = "unlink" /\ work[w].id \in Nat
    BY <1>19 DEF Shape, TypeOK, UnlinkFails, Work
  <2>2. work' \in [Worker -> Work] /\ \A y \in Worker : CallOK(work[y])'
    BY <1>19, <2>1, GotoStep, ReturnStep DEF UnlinkFails, daemon
  <2>3. struck' \subseteq Nat
    BY <1>19, <2>1 DEF UnlinkFails, Shape, TypeOK
  <2>. QED
    BY <1>19, <2>2, <2>3 DEF Shape, TypeOK, RowsOK, KeyOK, Listed, UnlinkFails, files, daemon
<1>18. CASE UNCHANGED vars
  BY <1>18 DEF Shape, TypeOK, CallOK, RowsOK, KeyOK, Listed, vars, files, daemon, history
<1>. QED
  BY <1>1, <1>2, <1>3, <1>4, <1>5, <1>6, <1>7, <1>8, <1>9, <1>10, <1>11, <1>12,
     <1>13, <1>14, <1>15, <1>16, <1>17, <1>18, <1>19 DEF Next, Step

(* Every variable has the type the code gives it, in every reachable state. *)
THEOREM TypeCorrect == Spec => []TypeOK
<1>1. Spec => []Shape
  BY ShapeInit, ShapeNext, PTL DEF Spec
<1>2. Shape => TypeOK
  BY DEF Shape
<1>. QED
  BY <1>1, <1>2, PTL

---------------------------------------------------------------------------
(* KeySafe.  A key file that holds no key proves that nothing is sealed,   *)
(* which is why the one start that writes it can do no harm; every seal    *)
(* made later is made with the key New returned, which is on disk by then. *)

LEMMA BlankSealed == \A k : SealedWith(Torn, k) /\ \A v : SealedWith(Plain(v), k)
  BY DEF SealedWith, Torn, Plain

LEMMA ElementTyped ==
  ASSUME NEW S, NEW q \in Seq(S), NEW s \in DOMAIN q
  PROVE  q[s] \in S
<1>1. q \in [1 .. Len(q) -> S] /\ DOMAIN q = 1 .. Len(q)
  OBVIOUS
<1>. QED
  BY <1>1

LEMMA NothingSealed ==
  ASSUME NEW d \in Data, SealedWith(d, 0), NEW k
  PROVE  SealedWith(d, k)
<1>1. d.seal \in Seq(1 .. MaxKey)
  BY DEF Data
<1>2. ASSUME NEW s \in DOMAIN d.seal PROVE FALSE
  <2>1. d.seal[s] \in 1 .. MaxKey
    BY <1>1, <1>2, ElementTyped
  <2>2. d.seal[s] = 0
    BY <1>2 DEF SealedWith
  <2>. QED
    BY <2>1, <2>2
<1>. QED
  BY <1>2 DEF SealedWith

LEMMA StoreSealed ==
  ASSUME NEW d, \A o \in Inode : SealedWith(d[o], keyFile), Store(d), keyFile' = keyFile
  PROVE  \A o \in Inode : SealedWith(data'[o], keyFile')
  BY BlankSealed DEF Store

(* A step that touches one call keeps the other buffers as they are. *)
LEMMA BufferSealed ==
  ASSUME Shape, SealOK, NEW w \in Worker, NEW c, work' = [work EXCEPT ![w] = c],
         SealedWith(c.buf, keyFile), keyFile' = keyFile
  PROVE  \A x \in Worker : SealedWith(work'[x].buf, keyFile')
<1>1. work \in [Worker -> Work]
  BY DEF Shape, TypeOK
<1>. QED
  BY <1>1 DEF SealOK

(* So does a call that begins, has no more use of its buffer, or returns. *)
LEMMA CallSealed ==
  ASSUME Shape, SealOK, NEW w \in Worker, keyFile' = keyFile,
         NEW op, NEW i, NEW p, NEW crypt, NEW pc,
         work' = [work EXCEPT ![w] = Call(op, i, p, crypt, pc)]
  PROVE  \A x \in Worker : SealedWith(work'[x].buf, keyFile')
<1>1. Call(op, i, p, crypt, pc).buf = Torn
  BY DEF Call
<1>. QED
  BY <1>1, BufferSealed, BlankSealed

LEMMA SealInit == Init => SealOK
  BY BlankSealed DEF Init, SealOK, Idle, Call

LEMMA SealNext ==
  ASSUME KeyReadFails = FALSE, Shape, SealOK, [Next]_vars
  PROVE  SealOK'
<1> USE DEF daemon, files, history
<1>1. CASE Boot
  BY <1>1 DEF Boot, SealOK
<1>2. CASE GenerateKey
  BY <1>2 DEF GenerateKey, KeyLost, SealOK
<1>3. CASE SaveKey
  <2>1. keyFile = 0
    BY <1>3 DEF SaveKey, Shape, KeyOK
  <2>2. \A i \in Inode : data[i] \in Data
    BY DEF Shape, TypeOK
  <2>3. \A w \in Worker : work[w].buf \in Data
    BY DEF Shape, TypeOK, Work
  <2>. QED
    BY <1>3, <2>1, <2>2, <2>3, NothingSealed DEF SaveKey, SealOK
<1>4. CASE Crash
  <2>1. \A i \in Inode : SealedWith(data'[i], keyFile')
    BY <1>4, StoreSealed DEF Crash, SealOK
  <2>2. \A w \in Worker : SealedWith(work'[w].buf, keyFile')
    BY <1>4, BlankSealed DEF Crash, Idle, Call
  <2>. QED
    BY <2>1, <2>2 DEF SealOK
<1>5. ASSUME NEW p \in Path, NEW o \in Inode, UserWrite(p, o) PROVE SealOK'
  BY <1>5, BlankSealed DEF UserWrite, SealOK, Shape, TypeOK
<1>6. ASSUME NEW w \in Worker, NEW p \in Path, BeginQuarantine(w, p) PROVE SealOK'
  <2>1. \A x \in Worker : SealedWith(work'[x].buf, keyFile')
    BY <1>6, CallSealed DEF BeginQuarantine
  <2>. QED
    BY <1>6, <2>1 DEF BeginQuarantine, SealOK
<1>7. ASSUME NEW w \in Worker, NEW i \in Id, BeginRestore(w, i) PROVE SealOK'
  <2>1. \A x \in Worker : SealedWith(work'[x].buf, keyFile')
    BY <1>7, CallSealed DEF BeginRestore
  <2>. QED
    BY <1>7, <2>1 DEF BeginRestore, SealOK
<1>8. ASSUME NEW w \in Worker, NEW i \in Id, BeginDelete(w, i) PROVE SealOK'
  <2>1. \A x \in Worker : SealedWith(work'[x].buf, keyFile')
    BY <1>8, CallSealed DEF BeginDelete
  <2>. QED
    BY <1>8, <2>1 DEF BeginDelete, SealOK
<1>9. ASSUME NEW w \in Worker, NEW pc, Goto(w, pc) \/ Return(w), keyFile' = keyFile
      PROVE  \A x \in Worker : SealedWith(work'[x].buf, keyFile')
  <2>1. CASE Goto(w, pc)
    <3>1. \A x \in Worker : work'[x].buf = work[x].buf
      BY <2>1 DEF Goto, Shape, TypeOK, Work
    <3>. QED
      BY <1>9, <3>1 DEF SealOK
  <2>2. CASE Return(w)
    BY <1>9, <2>2, CallSealed DEF Return, Idle
  <2>. QED
    BY <1>9, <2>1, <2>2
<1>10. ASSUME NEW w \in Worker, Rename(w) PROVE SealOK'
  BY <1>10, <1>9, StoreSealed DEF Rename, SealOK
<1>11. ASSUME NEW w \in Worker, ReadSource(w) PROVE SealOK'
  <2> DEFINE d == data[dir[Src(work[w])]]
             b == Taken(work[w], d)
             i == IF work[w].crypt THEN 0 ELSE dir[Src(work[w])]
             c == [work[w] EXCEPT !.pc = "create", !.in = i, !.buf = b]
  <2>1. CallOK(work[w]) /\ work[w] \in Work /\ work[w].pc = "read"
    BY <1>11 DEF ReadSource, Shape, TypeOK
  <2>2. dir[Src(work[w])] \in Inode
    BY <1>11, <2>1, NamesTyped DEF ReadSource, Readable, Shape, TypeOK, Inode
  <2>3. d \in Data /\ SealedWith(d, keyFile)
    BY <2>2 DEF SealOK, Shape, TypeOK
  <2>4. SealedWith(b, keyFile)
    <3>1. CASE ~work[w].crypt
      BY <3>1, BlankSealed DEF Taken
    <3>2. CASE work[w].crypt /\ work[w].op = "Restore"
      <4>1. d.seal # <<>>
        BY <1>11, <3>2 DEF ReadSource, Readable, Opens
      <4>. QED
        BY <2>3, <3>2, <4>1, OpenTyped DEF Taken
    <3>3. CASE work[w].crypt /\ work[w].op # "Restore"
      BY <2>3, <3>3 DEF Taken
    <3>. QED
      BY <3>1, <3>2, <3>3
  <2>5. work' = [work EXCEPT ![w] = c] /\ keyFile' = keyFile
    BY <1>11 DEF ReadSource
  <2>. HIDE DEF b, i
  <2>6. c.buf = b
    BY <2>1 DEF Work
  <2>. HIDE DEF c
  <2>7. \A x \in Worker : SealedWith(work'[x].buf, keyFile')
    BY <2>4, <2>5, <2>6, BufferSealed
  <2>. QED
    BY <1>11, <2>7 DEF ReadSource, SealOK
<1>12. ASSUME NEW w \in Worker, ReadFails(w) PROVE SealOK'
  BY <1>12, <1>9 DEF ReadFails, SealOK
<1>13. ASSUME NEW w \in Worker, NEW o \in Inode, CreateTarget(w, o) PROVE SealOK'
  <2> DEFINE c == [work[w] EXCEPT !.pc = "fill", !.out = o]
  <2>1. c.buf = work[w].buf
    BY DEF Shape, TypeOK, Work
  <2>2. work' = [work EXCEPT ![w] = c]
    BY <1>13 DEF CreateTarget
  <2>. HIDE DEF c
  <2>3. \A x \in Worker : SealedWith(work'[x].buf, keyFile')
    BY <1>13, <2>1, <2>2, BufferSealed DEF CreateTarget, SealOK
  <2>4. \A i \in Inode : SealedWith([data EXCEPT ![o] = Torn][i], keyFile)
    BY BlankSealed DEF SealOK, Shape, TypeOK
  <2>. QED
    BY <1>13, <2>3, <2>4, StoreSealed DEF CreateTarget, SealOK
<1>14. ASSUME NEW w \in Worker, FillTarget(w) PROVE SealOK'
  <2>1. CallOK(work[w]) /\ work[w] \in Work /\ work[w].pc = "fill"
    BY <1>14 DEF Shape, TypeOK, FillTarget
  <2>2. SealedWith(Payload(work[w]), keyFile)
    <3>1. CASE ~work[w].crypt
      <4>1. work[w].in \in Inode
        BY <2>1, <3>1 DEF CallOK
      <4>. QED
        BY <3>1, <4>1 DEF Payload, SealOK
    <3>2. CASE work[w].crypt
      <4>1. work[w].buf \in Data /\ SealedWith(work[w].buf, keyFile)
        BY <2>1 DEF Work, SealOK
      <4>2. key = keyFile /\ key \in 1 .. MaxKey
        BY <2>1, <3>2 DEF CallOK, Shape, KeyOK, TypeOK
      <4>. QED
        BY <3>2, <4>1, <4>2, SealTyped DEF Payload
    <3>. QED
      BY <3>1, <3>2
  <2>3. \A i \in Inode :
          SealedWith([data EXCEPT ![work[w].out] = Payload(work[w])][i], keyFile)
    BY <2>2 DEF SealOK, Shape, TypeOK
  <2>4. \A x \in Worker : SealedWith(work'[x].buf, keyFile')
    BY <1>14, CallSealed DEF FillTarget, Done
  <2>. QED
    BY <1>14, <2>3, <2>4, StoreSealed DEF FillTarget, SealOK
<1>15. ASSUME NEW w \in Worker, FillFails(w) PROVE SealOK'
  BY <1>15, <1>9, StoreSealed DEF FillFails, SealOK
<1>16. ASSUME NEW w \in Worker, Unlink(w) PROVE SealOK'
  BY <1>16, <1>9, StoreSealed DEF Unlink, SealOK
<1>20. ASSUME NEW w \in Worker, UnlinkFails(w) PROVE SealOK'
  BY <1>20, <1>9 DEF UnlinkFails, files, SealOK
<1>17. ASSUME NEW w \in Worker, Commit(w) PROVE SealOK'
  BY <1>17, <1>9 DEF Commit, SealOK
<1>18. ASSUME NEW w \in Worker, CommitFails(w) PROVE SealOK'
  BY <1>18, <1>9 DEF CommitFails, SealOK
<1>19. CASE UNCHANGED vars
  BY <1>19 DEF vars, SealOK
<1>. QED
  BY <1>1, <1>2, <1>3, <1>4, <1>5, <1>6, <1>7, <1>8, <1>10, <1>11, <1>12, <1>13,
     <1>14, <1>15, <1>16, <1>17, <1>18, <1>19, <1>20 DEF Next, Step

(* As long as an intact key file can be read, no start of the daemon       *)
(* replaces a key that sealed a file, whatever crashes (one in the middle  *)
(* of writing the key included), reconfigurations and calls there are.     *)
THEOREM SealedFilesOpen == KeyReadFails = FALSE => (Spec => []KeySafe)
<1>. SUFFICES ASSUME KeyReadFails = FALSE PROVE Spec => []KeySafe
  OBVIOUS
<1>1. Init => Shape /\ SealOK
  BY ShapeInit, SealInit
<1>2. (Shape /\ SealOK) /\ [Next]_vars => (Shape /\ SealOK)'
  BY ShapeNext, SealNext
<1>3. Shape /\ SealOK => KeySafe
  BY DEF Shape, KeyOK, SealOK, SealedWith, KeySafe
<1>. QED
  BY <1>1, <1>2, <1>3, PTL DEF Spec
===========================================================================
