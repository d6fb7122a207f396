--------------------------- MODULE GeoBlockProofs ---------------------------
(***************************************************************************)
(* Proofs about GeoBlock for any number of ranges, countries and clients   *)
(* and any bounds: the type invariant, that nothing leaves that is not     *)
(* allowed (DenyInForce), that what is wanted is in force (WantedInForce), *)
(* and, with one blocked country, that its ranges are dropped between two  *)
(* refreshes (GeoInForce).                                                 *)
(***************************************************************************)
EXTENDS GeoBlock, FiniteSetTheorems, SequenceTheorems, WellFoundedInduction, TLAPS

---------------------------------------------------------------------------
(* The rules of a range.                                                   *)

Once(s, v) == \A i, j \in DOMAIN s : s[i] = v /\ s[j] = v => i = j

DropsFirst(s) == \A i, j \in DOMAIN s : s[i] = "ACCEPT" /\ s[j] = "DROP" => j < i

(* A set of verdicts in matching order: as a sequence it holds just these, *)
(* and a DROP comes first.                                                 *)
LEMMA InOrderIs ==
  ASSUME NEW S
  PROVE  /\ InMatchingOrder(S) \in Seq(Verdict)
         /\ ToSet(InMatchingOrder(S)) = S \cap Verdict
         /\ "DROP" \in S => InMatchingOrder(S) # <<>> /\ Head(InMatchingOrder(S)) = "DROP"
<1>1. PICK a, b, c : a = If("DROP", S) /\ b = If("ACCEPT", S) /\ c = If("CONFIGURED", S)
  OBVIOUS
<1>2. InMatchingOrder(S) = a \o b \o c
  BY <1>1 DEF InMatchingOrder
<1>3. a = (IF "DROP" \in S THEN <<"DROP">> ELSE <<>>)
  BY <1>1 DEF If
<1>4. b = (IF "ACCEPT" \in S THEN <<"ACCEPT">> ELSE <<>>)
  BY <1>1 DEF If
<1>5. c = (IF "CONFIGURED" \in S THEN <<"CONFIGURED">> ELSE <<>>)
  BY <1>1 DEF If
<1>6. a \in Seq(Verdict) /\ b \in Seq(Verdict) /\ c \in Seq(Verdict)
  <2>1. \A v \in Verdict : <<v>> \in Seq(Verdict)
    OBVIOUS
  <2>2. <<>> \in Seq(Verdict)
    OBVIOUS
  <2>3. "DROP" \in Verdict /\ "ACCEPT" \in Verdict /\ "CONFIGURED" \in Verdict
    BY DEF Verdict
  <2>. QED
    BY <1>3, <1>4, <1>5, <2>1, <2>2, <2>3
<1>7. PICK s : s = a \o b \o c
  OBVIOUS
<1>8. /\ s \in Seq(Verdict)
      /\ Len(s) = Len(a) + Len(b) + Len(c)
      /\ \A i \in 1..Len(s) : s[i] = IF i <= Len(a) THEN a[i]
                                     ELSE IF i <= Len(a) + Len(b) THEN b[i - Len(a)]
                                     ELSE c[i - Len(a) - Len(b)]
  BY <1>6, <1>7
<1>9. Len(a) = (IF "DROP" \in S THEN 1 ELSE 0) /\ (Len(a) = 1 => a[1] = "DROP")
  BY <1>3
<1>10. Len(b) = (IF "ACCEPT" \in S THEN 1 ELSE 0) /\ (Len(b) = 1 => b[1] = "ACCEPT")
  BY <1>4
<1>11. Len(c) = (IF "CONFIGURED" \in S THEN 1 ELSE 0) /\ (Len(c) = 1 => c[1] = "CONFIGURED")
  BY <1>5
<1>12. ASSUME NEW i \in 1..Len(s) PROVE s[i] \in S \cap Verdict
  BY <1>8, <1>9, <1>10, <1>11, <1>12 DEF Verdict
<1>13. ASSUME NEW v \in S \cap Verdict PROVE \E i \in 1..Len(s) : s[i] = v
  <2>1. CASE v = "DROP"
    BY <1>8, <1>9, <1>10, <1>11, <2>1
  <2>2. CASE v = "ACCEPT"
    <3>1. Len(a) + 1 \in 1..Len(s) /\ s[Len(a) + 1] = "ACCEPT"
      BY <1>8, <1>9, <1>10, <1>11, <1>13, <2>2
    <3>. QED
      BY <2>2, <3>1
  <2>3. CASE v = "CONFIGURED"
    <3>1. Len(s) \in 1..Len(s) /\ s[Len(s)] = "CONFIGURED"
      BY <1>8, <1>9, <1>10, <1>11, <1>13, <2>3
    <3>. QED
      BY <2>3, <3>1
  <2>. QED
    BY <1>13, <2>1, <2>2, <2>3 DEF Verdict
<1>14. DOMAIN s = 1..Len(s)
  BY <1>8
<1>15. ToSet(s) = S \cap Verdict
  BY <1>12, <1>13, <1>14 DEF ToSet
<1>16. "DROP" \in S => s # <<>> /\ Head(s) = "DROP"
  BY <1>8, <1>9, <1>10, <1>11
<1>. QED
  BY <1>2, <1>7, <1>8, <1>15, <1>16

LEMMA LeastOf ==
  ASSUME NEW I, I \subseteq Nat, I # {}
  PROVE  \E j \in I : \A i \in I : j <= i
<1>1. PICK j \in I : \A i \in I : ~(<<i, j>> \in OpToRel(<, Nat))
  BY NatLessThanWellFounded, WFMin, Zenon
<1>2. \A i \in I : ~(i < j)
  BY <1>1 DEF OpToRel
<1>. QED
  BY <1>2

(* The first occurrence of e is taken away, and nothing else.              *)
LEMMA RemoveFirstIs ==
  ASSUME NEW V, NEW s \in Seq(V), NEW e
  PROVE  /\ RemoveFirst(s, e) \in Seq(V)
         /\ \A v \in V : v # e => (v \in ToSet(RemoveFirst(s, e)) <=> v \in ToSet(s))
         /\ \A v \in V : Once(s, v) => Once(RemoveFirst(s, e), v)
         /\ Once(s, e) => e \notin ToSet(RemoveFirst(s, e))
         /\ DropsFirst(s) => DropsFirst(RemoveFirst(s, e))
<1>1. DOMAIN s = 1..Len(s) /\ Len(s) \in Nat
  OBVIOUS
<1>2. CASE ~\E i \in 1..Len(s) : s[i] = e
  <2>1. RemoveFirst(s, e) = s
    BY <1>2 DEF RemoveFirst
  <2>. QED
    BY <1>1, <1>2, <2>1 DEF ToSet
<1>3. CASE \E i \in 1..Len(s) : s[i] = e
  <2>1. PICK k : k = SelectInSeq(s, LAMBDA v : v = e)
    OBVIOUS
  <2>2. k \in 1..Len(s) /\ s[k] = e
    <3>1. PICK I : I = {i \in 1..Len(s) : s[i] = e}
      OBVIOUS
    <3>2. I # {} /\ I \subseteq Nat
      BY <1>1, <1>3, <3>1
    <3>3. PICK j \in I : \A i \in I : j <= i
      BY <3>2, LeastOf
    <3>4. Min(I) \in I
      BY <3>2, <3>3 DEF Min
    <3>5. k = Min(I)
      BY <2>1, <3>1, <3>2 DEF SelectInSeq
    <3>. QED
      BY <3>1, <3>4, <3>5
  <2>3. PICK t : t = RemoveAt(s, k)
    OBVIOUS
  <2>4. RemoveFirst(s, e) = t
    BY <1>3, <2>1, <2>3 DEF RemoveFirst
  <2>5. /\ t \in Seq(V) /\ Len(t) = Len(s) - 1 /\ DOMAIN t = 1..Len(t)
        /\ \A i \in 1..Len(t) : t[i] = IF i < k THEN s[i] ELSE s[i + 1]
    <3>1. PICK a, b : a = SubSeq(s, 1, k - 1) /\ b = SubSeq(s, k + 1, Len(s))
      OBVIOUS
    <3>2. a \in Seq(V) /\ Len(a) = k - 1 /\ \A i \in 1..(k - 1) : a[i] = s[i]
      BY <1>1, <2>2, <3>1
    <3>3. b \in Seq(V) /\ Len(b) = Len(s) - k /\ \A i \in 1..(Len(s) - k) : b[i] = s[i + k]
      <4>1. k + 1 \in Int /\ Len(s) \in Int /\ \A i \in (k + 1)..Len(s) : s[i] \in V
        BY <1>1, <2>2
      <4>2. /\ b \in Seq(V)
            /\ Len(b) = IF k + 1 <= Len(s) THEN Len(s) - (k + 1) + 1 ELSE 0
            /\ \A i \in 1..(Len(s) - (k + 1) + 1) : b[i] = s[k + 1 + i - 1]
        BY <3>1, <4>1, SubSeqProperties
      <4>3. Len(b) = Len(s) - k
        <5>1. PICK n : n = Len(s) /\ n \in Nat /\ k \in 1..n
          BY <1>1, <2>2
        <5>2. CASE k + 1 <= n
          BY <4>2, <5>1, <5>2
        <5>3. CASE k = n
          BY <4>2, <5>1, <5>3
        <5>. QED
          BY <5>1, <5>2, <5>3
      <4>4. ASSUME NEW i \in 1..(Len(s) - k) PROVE b[i] = s[i + k]
        <5>1. i \in 1..(Len(s) - (k + 1) + 1) /\ k + 1 + i - 1 = i + k
          BY <1>1, <2>2
        <5>. QED
          BY <4>2, <5>1
      <4>. QED
        BY <4>2, <4>3, <4>4
    <3>4. t = a \o b
      BY <2>3, <3>1 DEF RemoveAt
    <3>5. t \in Seq(V) /\ Len(t) = Len(a) + Len(b) /\ DOMAIN t = 1..Len(t)
      BY <3>2, <3>3, <3>4
    <3>6. Len(t) = Len(s) - 1 /\ Len(t) \in Nat
      BY <1>1, <2>2, <3>2, <3>3, <3>5
    <3>7. ASSUME NEW i \in 1..Len(t) PROVE t[i] = IF i < k THEN s[i] ELSE s[i + 1]
      <4>1. CASE i < k
        <5>1. i \in 1..Len(a) /\ i \in 1..(k - 1)
          BY <2>2, <3>2, <3>6, <4>1
        <5>2. t[i] = a[i]
          BY <3>2, <3>3, <3>4, <5>1
        <5>. QED
          BY <3>2, <4>1, <5>1, <5>2
      <4>2. CASE i >= k
        <5>1. PICK j : j = i - (k - 1)
          OBVIOUS
        <5>2. j \in 1..(Len(s) - k) /\ j + k = i + 1 /\ i = Len(a) + j
          BY <1>1, <2>2, <3>2, <3>6, <4>2, <5>1
        <5>3. t[i] = b[j]
          BY <3>2, <3>3, <3>4, <5>2
        <5>4. b[j] = s[j + k]
          BY <3>3, <5>2
        <5>. QED
          BY <2>2, <4>2, <5>2, <5>3, <5>4
      <4>. QED
        BY <2>2, <4>1, <4>2
    <3>. QED
      BY <3>5, <3>6, <3>7
  <2>6. ASSUME NEW v \in ToSet(t) PROVE v \in ToSet(s)
    BY <1>1, <2>2, <2>5, <2>6 DEF ToSet
  <2>7. ASSUME NEW v \in ToSet(s), v # e PROVE v \in ToSet(t)
    <3>1. PICK i \in 1..Len(s) : s[i] = v
      BY <1>1 DEF ToSet
    <3>2. i # k
      BY <2>2, <2>7, <3>1
    <3>3. CASE i < k
      <4>1. i \in 1..Len(t) /\ t[i] = v
        BY <1>1, <2>2, <2>5, <3>1, <3>3
      <4>. QED
        BY <2>5, <4>1 DEF ToSet
    <3>4. CASE i > k
      <4>1. i - 1 \in 1..Len(t) /\ t[i - 1] = v
        BY <1>1, <2>2, <2>5, <3>1, <3>4
      <4>. QED
        BY <2>5, <4>1 DEF ToSet
    <3>. QED
      BY <2>2, <3>2, <3>3, <3>4
  <2>8. ASSUME NEW v, Once(s, v), NEW i \in 1..Len(t), NEW j \in 1..Len(t), t[i] = v, t[j] = v
        PROVE  i = j
    <3>1. PICK m, n : m = (IF i < k THEN i ELSE i + 1) /\ n = IF j < k THEN j ELSE j + 1
      OBVIOUS
    <3>2. m \in 1..Len(s) /\ n \in 1..Len(s) /\ s[m] = v /\ s[n] = v
      BY <1>1, <2>2, <2>5, <2>8, <3>1
    <3>3. m = n
      BY <1>1, <2>8, <3>2 DEF Once
    <3>. QED
      BY <2>2, <3>1, <3>3
  <2>9. ASSUME Once(s, e), e \in ToSet(t) PROVE FALSE
    <3>1. PICK i \in 1..Len(t) : t[i] = e
      BY <2>5, <2>9 DEF ToSet
    <3>2. PICK m : m = IF i < k THEN i ELSE i + 1
      OBVIOUS
    <3>3. m \in 1..Len(s) /\ s[m] = e /\ m # k
      BY <1>1, <2>2, <2>5, <3>1, <3>2
    <3>. QED
      BY <1>1, <2>2, <2>9, <3>3 DEF Once
  <2>10. \A v : Once(s, v) => Once(t, v)
    BY <2>5, <2>8 DEF Once
  <2>11. ASSUME DropsFirst(s), NEW i \in 1..Len(t), NEW j \in 1..Len(t), t[i] = "ACCEPT", t[j] = "DROP"
         PROVE  j < i
    <3>1. PICK m, n : m = (IF i < k THEN i ELSE i + 1) /\ n = IF j < k THEN j ELSE j + 1
      OBVIOUS
    <3>2. m \in 1..Len(s) /\ n \in 1..Len(s) /\ s[m] = "ACCEPT" /\ s[n] = "DROP"
      BY <1>1, <2>2, <2>5, <2>11, <3>1
    <3>3. n < m
      BY <1>1, <2>11, <3>2 DEF DropsFirst
    <3>. QED
      BY <2>2, <3>1, <3>3
  <2>12. DropsFirst(s) => DropsFirst(t)
    BY <2>5, <2>11 DEF DropsFirst
  <2>. QED
    BY <2>4, <2>5, <2>6, <2>7, <2>9, <2>10, <2>12
<1>. QED
  BY <1>2, <1>3

(* What a command does to the rules of a range.                            *)
InOrder(s) == backend # "iptables" => s = InMatchingOrder(ToSet(s))

LEMMA InsertIs ==
  ASSUME NEW s \in Seq(Verdict), NEW v \in Verdict
  PROVE  /\ Insert(s, v) \in Seq(Verdict) /\ InOrder(Insert(s, v))
         /\ ToSet(Insert(s, v)) = ToSet(s) \cup {v}
         /\ backend = "iptables" =>
              \A u : Once(s, u) /\ (u = v => u \notin ToSet(s)) => Once(Insert(s, v), u)
         /\ backend = "iptables" /\ v # "ACCEPT" /\ DropsFirst(s) => DropsFirst(Insert(s, v))
<1>1. ToSet(s) \subseteq Verdict
  BY DEF ToSet
<1>2. CASE backend = "iptables"
  <2>1. PICK t : t = <<v>> \o s
    OBVIOUS
  <2>2. Insert(s, v) = t
    BY <1>2, <2>1 DEF Insert, Cons
  <2>3. /\ t \in Seq(Verdict) /\ Len(t) = Len(s) + 1 /\ DOMAIN t = 1..(Len(s) + 1) /\ t[1] = v
        /\ \A i \in 1..Len(s) : t[i + 1] = s[i]
    BY <2>1
  <2>4. DOMAIN s = 1..Len(s) /\ Len(s) \in Nat
    OBVIOUS
  <2>5. \A i \in DOMAIN t : i = 1 \/ (i - 1 \in DOMAIN s /\ t[i] = s[i - 1])
    <3>1. ASSUME NEW i \in DOMAIN t, i # 1 PROVE i - 1 \in DOMAIN s /\ t[i] = s[i - 1]
      <4>1. i - 1 \in 1..Len(s) /\ (i - 1) + 1 = i
        BY <2>3, <2>4, <3>1
      <4>. QED
        BY <2>3, <2>4, <4>1
    <3>. QED
      BY <3>1
  <2>6. ToSet(t) = ToSet(s) \cup {v}
    <3>1. ASSUME NEW u \in ToSet(s) PROVE u \in ToSet(t)
      <4>1. PICK i \in 1..Len(s) : s[i] = u
        BY <2>4 DEF ToSet
      <4>2. i + 1 \in DOMAIN t /\ t[i + 1] = u
        BY <2>3, <2>4, <4>1
      <4>. QED
        BY <4>2 DEF ToSet
    <3>2. v \in ToSet(t)
      BY <2>3, <2>4 DEF ToSet
    <3>3. ToSet(t) \subseteq ToSet(s) \cup {v}
      BY <2>3, <2>5 DEF ToSet
    <3>. QED
      BY <3>1, <3>2, <3>3
  <2>7. ASSUME NEW u, Once(s, u), u = v => u \notin ToSet(s) PROVE Once(t, u)
    <3> SUFFICES ASSUME NEW i \in DOMAIN t, NEW j \in DOMAIN t, t[i] = u, t[j] = u PROVE i = j
      BY DEF Once
    <3>1. CASE u = v
      BY <2>3, <2>5, <2>7, <3>1 DEF ToSet
    <3>2. CASE u # v
      <4>1. i - 1 \in DOMAIN s /\ j - 1 \in DOMAIN s /\ s[i - 1] = u /\ s[j - 1] = u
        BY <2>3, <2>5, <3>2
      <4>2. i - 1 = j - 1
        BY <2>7, <4>1 DEF Once
      <4>. QED
        BY <2>3, <2>4, <4>2
    <3>. QED
      BY <3>1, <3>2
  <2>8. ASSUME v # "ACCEPT", DropsFirst(s), NEW i \in DOMAIN t, NEW j \in DOMAIN t,
               t[i] = "ACCEPT", t[j] = "DROP"
        PROVE  j < i
    <3>1. i # 1 /\ i - 1 \in DOMAIN s /\ s[i - 1] = "ACCEPT"
      BY <2>3, <2>5, <2>8
    <3>2. CASE j = 1
      BY <2>3, <2>4, <3>1, <3>2
    <3>3. CASE j # 1
      <4>1. j - 1 \in DOMAIN s /\ s[j - 1] = "DROP"
        BY <2>5, <2>8, <3>3
      <4>2. j - 1 < i - 1
        BY <2>8, <3>1, <4>1 DEF DropsFirst
      <4>. QED
        BY <2>3, <2>4, <4>2
    <3>. QED
      BY <3>2, <3>3
  <2>9. v # "ACCEPT" /\ DropsFirst(s) => DropsFirst(t)
    BY <2>8 DEF DropsFirst
  <2>. QED
    BY <1>2, <2>2, <2>3, <2>6, <2>7, <2>9 DEF InOrder
<1>3. CASE backend # "iptables"
  <2>1. PICK S : S = ToSet(s) \cup {v}
    OBVIOUS
  <2>2. Insert(s, v) = InMatchingOrder(S) /\ S \cap Verdict = S
    BY <1>1, <1>3, <2>1 DEF Insert
  <2>. QED
    BY <1>3, <2>1, <2>2, InOrderIs DEF InOrder
<1>. QED
  BY <1>2, <1>3

LEMMA DeleteIs ==
  ASSUME NEW s \in Seq(Verdict), NEW v \in Verdict
  PROVE  /\ Delete(s, v) \in Seq(Verdict) /\ InOrder(Delete(s, v))
         /\ \A u \in Verdict : u # v => (u \in ToSet(Delete(s, v)) <=> u \in ToSet(s))
         /\ (backend = "iptables" => Once(s, v)) => v \notin ToSet(Delete(s, v))
         /\ backend = "iptables" => \A u \in Verdict : Once(s, u) => Once(Delete(s, v), u)
         /\ backend = "iptables" /\ DropsFirst(s) => DropsFirst(Delete(s, v))
<1>1. CASE backend = "iptables"
  <2>1. Delete(s, v) = RemoveFirst(s, v)
    BY <1>1 DEF Delete
  <2>. QED
    BY <1>1, <2>1, RemoveFirstIs DEF InOrder
<1>2. CASE backend # "iptables"
  <2>1. PICK S : S = ToSet(s) \ {v}
    OBVIOUS
  <2>2. Delete(s, v) = InMatchingOrder(S) /\ S \cap Verdict = S
    BY <1>2, <2>1 DEF Delete, ToSet
  <2>. QED
    BY <1>2, <2>1, <2>2, InOrderIs DEF InOrder
<1>. QED
  BY <1>1, <1>2

---------------------------------------------------------------------------
(* Types.                                                                  *)

Types == TypeOK /\ (geo.pc # "idle" => geo.left # <<>>)

LEMMA FewFail ==
  ASSUME NEW S \in SUBSET Cidr
  PROVE  IsFiniteSet(S) /\ Cardinality(S) \in Nat
<1>1. IsFiniteSet(S)
  BY RangeAssumption, FS_Subset
<1>. QED
  BY <1>1, FS_CardinalityType

LEMMA Empties ==
  /\ Empty \in [Cidr -> Seq(Verdict)] /\ <<>> \in Seq(Verdict)
  /\ <<"ACCEPT">> \in Seq(Verdict) /\ Idle \in Call
<1>1. <<>> \in Seq(Verdict)
  OBVIOUS
<1>2. <<"ACCEPT">> \in Seq(Verdict)
  <2>1. \A v \in Verdict : <<v>> \in Seq(Verdict)
    OBVIOUS
  <2>. QED
    BY <2>1 DEF Verdict
<1>3. Idle \in Call
  BY RangeAssumption DEF Idle, Call
<1>. QED
  BY <1>1, <1>2, <1>3 DEF Empty

LEMMA RestingOK == Resting \in Refresh /\ Resting.pc = "idle"
<1>1. <<>> \in Seq(Country)
  OBVIOUS
<1>. QED
  BY <1>1 DEF Resting, Refresh

LEMMA TypesInit == Init => Types
<1> SUFFICES ASSUME Init PROVE Types
  OBVIOUS
<1>1. geo \in Refresh /\ geo.pc = "idle"
  BY RestingOK DEF Init
<1>2. call \in [Client -> Call] /\ rules \in [Cidr -> Seq(Verdict)]
  BY Empties DEF Init, FwInit
<1>3. starts \in 0..MaxStarts /\ failures \in 0..MaxFailures
  BY LimitAssumption DEF Init, FwInit
<1>4. rows \subseteq Row /\ table \in {"absent", "loose", "open", "shut"}
  BY DEF Init, FwInit
<1>5. FwTypeOK
  BY <1>2, <1>3, <1>4 DEF Init, FwInit, FwTypeOK
<1>. QED
  BY <1>1, <1>5 DEF Types, TypeOK

(* Failures are counted. *)
LEMMA FailuresOK ==
  ASSUME failures \in 0..MaxFailures
  PROVE  /\ CommandFails \/ CommandRuns => failures' \in 0..MaxFailures
         /\ \A n \in Nat : Fails(n) => failures' \in 0..MaxFailures
  BY LimitAssumption DEF CommandFails, CommandRuns, Fails

LEMMA StartTypes == Types /\ StartUp => Types'
<1> SUFFICES ASSUME Types, StartUp PROVE Types'
  OBVIOUS
<1>1. ASSUME FwTypeOK' PROVE Types'
  BY <1>1 DEF StartUp, Types, TypeOK
<1>2. ASSUME Launch PROVE /\ starts' \in 0..MaxStarts /\ applied' \in BOOLEAN
                          /\ UNCHANGED <<backend, policy, rows, call>>
  <2>1. starts \in 0..MaxStarts
    BY DEF Types, TypeOK, FwTypeOK
  <2>2. starts' \in 0..MaxStarts
    BY <1>2, <2>1, LimitAssumption DEF Launch
  <2>. QED
    BY <1>2, <2>2 DEF Launch
<1>3. CASE Reset
  BY <1>1, <1>2, <1>3, Empties DEF Reset, Afresh, kernel, Types, TypeOK, FwTypeOK
<1>4. CASE ResetFails
  BY <1>1, <1>2, <1>4, Empties, LimitAssumption DEF ResetFails, Afresh, Types, TypeOK, FwTypeOK
<1>5. CASE Populate
  <2>1. PICK S \in SUBSET AllowIPs :
          /\ rules' = [c \in Cidr |-> IF c \in S THEN <<"ACCEPT">> ELSE <<>>]
          /\ unheard' = unheard \cup (AllowIPs \ S)
          /\ failures' = failures + Cardinality(AllowIPs \ S)
    BY <1>5 DEF Populate
  <2>2. Cardinality(AllowIPs \ S) \in Nat
    BY FewFail, RangeAssumption
  <2>3. failures' \in 0..MaxFailures
    BY <1>5, <2>1, <2>2, LimitAssumption DEF Populate, Types, TypeOK, FwTypeOK
  <2>4. rules' \in [Cidr -> Seq(Verdict)] /\ unheard' \subseteq Cidr
    BY <2>1, Empties, RangeAssumption DEF Types, TypeOK, FwTypeOK
  <2>. QED
    BY <1>1, <1>5, <2>3, <2>4 DEF Populate, Types, TypeOK, FwTypeOK
<1>6. CASE Close \/ CloseFails
  <2>1. failures' \in 0..MaxFailures
    BY <1>6, FailuresOK DEF Close, CloseFails, Types, TypeOK, FwTypeOK
  <2>. QED
    BY <1>1, <1>6, <2>1 DEF Close, CloseFails, kernel, past, Types, TypeOK, FwTypeOK
<1>7. CASE NetshPolicy
  <2>1. failures' \in 0..MaxFailures
    BY <1>7, FailuresOK DEF NetshPolicy, Types, TypeOK, FwTypeOK
  <2>2. unheard' \subseteq Cidr
    BY <1>7 DEF NetshPolicy, Types, TypeOK, FwTypeOK
  <2>. QED
    BY <1>1, <1>2, <1>7, <2>1, <2>2 DEF NetshPolicy, Types, TypeOK, FwTypeOK
<1>8. CASE NetshPopulate
  <2>1. PICK S \in SUBSET AllowIPs :
          /\ rules' = [c \in Cidr |-> CASE c \in S -> Insert(rules[c], "CONFIGURED")
                                       [] c \in AllowIPs \ S -> Delete(rules[c], "CONFIGURED")
                                       [] OTHER -> rules[c]]
          /\ unheard' = unheard \cup (AllowIPs \ S)
          /\ Fails(Cardinality(AllowIPs \ S))
    BY <1>8 DEF NetshPopulate
  <2>2. failures' \in 0..MaxFailures
    BY <2>1, FewFail, RangeAssumption, FailuresOK DEF Types, TypeOK, FwTypeOK
  <2>3. unheard' \subseteq Cidr
    BY <2>1, RangeAssumption DEF Types, TypeOK, FwTypeOK
  <2>4. ASSUME NEW c \in Cidr
        PROVE  rules[c] \in Seq(Verdict) /\ Insert(rules[c], "CONFIGURED") \in Seq(Verdict)
               /\ Delete(rules[c], "CONFIGURED") \in Seq(Verdict)
    <3>1. rules[c] \in Seq(Verdict) /\ "CONFIGURED" \in Verdict
      BY DEF Types, TypeOK, FwTypeOK, Verdict
    <3>. QED
      BY <3>1, InsertIs, DeleteIs
  <2>5. rules' \in [Cidr -> Seq(Verdict)]
    BY <2>1, <2>4
  <2>. QED
    BY <1>1, <1>8, <2>2, <2>3, <2>5 DEF NetshPopulate, Types, TypeOK, FwTypeOK
<1>. QED
  BY <1>3, <1>4, <1>5, <1>6, <1>7, <1>8 DEF StartUp

LEMMA EndTypes == Types /\ Ended /\ geo' = Resting => Types'
<1> SUFFICES ASSUME Types, Ended, geo' = Resting PROVE Types'
  OBVIOUS
<1>1. ASSUME FwTypeOK' PROVE Types'
  BY <1>1, RestingOK DEF Types, TypeOK
<1>2. [w \in Client |-> Idle] \in [Client -> Call]
  BY Empties
<1>3. Halfway \subseteq Cidr
  BY DEF Halfway, Types, TypeOK, FwTypeOK, Call
<1>4. CASE Stop
  BY <1>1, <1>2, <1>4, Empties, ModeAssumption DEF Stop, past, Types, TypeOK, FwTypeOK
<1>5. CASE Crash
  <2>1. unheard' \subseteq Cidr
    BY <1>3, <1>5 DEF Crash, Types, TypeOK, FwTypeOK
  <2>. QED
    BY <1>1, <1>2, <1>5, <2>1 DEF Crash, kernel, Types, TypeOK, FwTypeOK
<1>6. CASE NetshFlush
  <2>1. PICK N : N = {r.cidr : r \in rows}
    OBVIOUS
  <2>2. N \subseteq Cidr
    BY <2>1 DEF Types, TypeOK, FwTypeOK, Row
  <2>3. PICK T \in {"open", table}, A \in SUBSET N, G \in SUBSET N :
          /\ table' = T
          /\ rules' = [c \in Cidr |-> InMatchingOrder({v \in ToSet(rules[c]) :
                          \/ v = "CONFIGURED" \/ c \notin N
                          \/ v = "ACCEPT" /\ c \in A
                          \/ v = "DROP" /\ c \in G})]
          /\ unheard' = unheard \cup Halfway \cup A
          /\ Fails(Cardinality(A) + Cardinality(G) + IF T = "open" THEN 0 ELSE 1)
    BY <1>6, <2>1, ZenonT(60) DEF NetshFlush
  <2>4. failures' \in 0..MaxFailures
    <3>1. Cardinality(A) \in Nat /\ Cardinality(G) \in Nat
      BY <2>2, FewFail
    <3>2. Cardinality(A) + Cardinality(G) + (IF T = "open" THEN 0 ELSE 1) \in Nat
      BY <3>1
    <3>. QED
      BY <2>3, <3>2, FailuresOK DEF Types, TypeOK, FwTypeOK
  <2>5. unheard' \subseteq Cidr /\ table' \in {"absent", "loose", "open", "shut"}
    BY <1>3, <2>2, <2>3 DEF Types, TypeOK, FwTypeOK
  <2>6. rules' \in [Cidr -> Seq(Verdict)]
    BY <2>3, InOrderIs
  <2>. QED
    BY <1>1, <1>2, <1>6, <2>4, <2>5, <2>6 DEF NetshFlush, Types, TypeOK, FwTypeOK
<1>. QED
  BY <1>4, <1>5, <1>6 DEF Ended

(* The handlers. *)
LEMMA CallsTyped ==
  ASSUME call \in [Client -> Call], NEW w \in Client
  PROVE  /\ Return(w) => call' \in [Client -> Call]
         /\ \A pc \in {"insert", "purge"} : Goto(w, pc) => call' \in [Client -> Call]
<1>1. Return(w) => call' \in [Client -> Call]
  BY Empties DEF Return
<1>2. ASSUME NEW pc \in {"insert", "purge"}, Goto(w, pc) PROVE call' \in [Client -> Call]
  <2>1. PICK d, e : d = call[w] /\ e = [d EXCEPT !.pc = pc]
    OBVIOUS
  <2>2. d \in Call
    BY <2>1
  <2>3. e \in Call
    BY <2>1, <2>2 DEF Call
  <2>4. call' = [call EXCEPT ![w] = e]
    BY <1>2, <2>1 DEF Goto
  <2>. QED
    BY <2>3, <2>4
<1>. QED
  BY <1>1, <1>2

LEMMA HandlerTypes ==
  ASSUME Types, UNCHANGED geo, NEW w \in Client,
         \/ \E c \in Cidr : BeginAdd(w, c)
         \/ Command(w) \/ Lookup(w) \/ Statement(w)
  PROVE  Types'
<1>1. ASSUME FwTypeOK' PROVE Types'
  BY <1>1 DEF Types, TypeOK
<1>2. /\ backend \in Backends /\ rules \in [Cidr -> Seq(Verdict)] /\ rows \subseteq Row
      /\ call \in [Client -> Call] /\ failures \in 0..MaxFailures
      /\ wanted \subseteq Cidr /\ contested \subseteq Cidr /\ unheard \subseteq Cidr
  BY DEF Types, TypeOK, FwTypeOK
<1>3. call[w].cidr \in Cidr
  BY <1>2 DEF Call
<1>4. ASSUME NEW c \in Cidr, NEW pc \in {"add", "remove"}, Begin(w, c, pc) PROVE Types'
  <2>1. [pc |-> pc, cidr |-> c] \in Call
    BY DEF Call
  <2>2. call' \in [Client -> Call] /\ contested' \subseteq Cidr
    BY <1>2, <1>4, <2>1 DEF Begin
  <2>. QED
    BY <1>1, <1>4, <2>2 DEF Begin, kernel, setup, Types, TypeOK, FwTypeOK
<1>5. ASSUME Lookup(w) PROVE Types'
  <2>1. PICK r \in rows : BeginRemove(w, r)
    BY <1>5 DEF Lookup
  <2>2. r.cidr \in Cidr
    BY <1>2 DEF Row
  <2>. QED
    BY <1>4, <2>1, <2>2 DEF BeginRemove
<1>6. CASE Command(w)
  <2>1. failures' \in 0..MaxFailures
    BY <1>2, <1>6, FailuresOK DEF Command, AddRule, AddRuleFails, RemoveRule, RemoveRuleFails
  <2>2. call' \in [Client -> Call]
    BY <1>2, <1>6, CallsTyped DEF Command, AddRule, AddRuleFails, RemoveRule, RemoveRuleFails
  <2>3. PICK c : c = call[w].cidr
    OBVIOUS
  <2>4. rules' \in {rules, [rules EXCEPT ![c] = Insert(@, "ACCEPT")], [rules EXCEPT ![c] = Delete(@, "ACCEPT")]}
    BY <1>6, <2>3 DEF Command, AddRule, AddRuleFails, RemoveRule, RemoveRuleFails, kernel
  <2>5. rules' \in [Cidr -> Seq(Verdict)]
    <3>1. PICK s : s = rules[c] /\ s \in Seq(Verdict)
      BY <1>2, <1>3, <2>3
    <3>2. "ACCEPT" \in Verdict
      BY DEF Verdict
    <3>3. Insert(s, "ACCEPT") \in Seq(Verdict) /\ Delete(s, "ACCEPT") \in Seq(Verdict)
      BY <3>1, <3>2, InsertIs, DeleteIs
    <3>. QED
      BY <1>2, <2>4, <3>1, <3>3
  <2>6. unheard' \subseteq Cidr /\ UNCHANGED <<table, rows, setup, wanted, contested>>
    BY <1>2, <1>3, <1>6 DEF Command, AddRule, AddRuleFails, RemoveRule, RemoveRuleFails, kernel, past
  <2>. QED
    BY <1>1, <2>1, <2>2, <2>5, <2>6 DEF setup, Types, TypeOK, FwTypeOK
<1>7. CASE Statement(w)
  <2>1. failures' \in 0..MaxFailures
    <3>1. failures' = failures \/ Fails(1)
      BY <1>7 DEF Statement, InsertRow, PurgeRows, StatementFails
    <3>. QED
      BY <1>2, <3>1, FailuresOK
  <2>2. call' \in [Client -> Call]
    BY <1>2, <1>7, CallsTyped DEF Statement, InsertRow, PurgeRows, StatementFails
  <2>3. AllowRow(call[w].cidr) \in Row
    BY <1>3 DEF AllowRow, Row
  <2>4. rows' \subseteq Row
    BY <1>2, <1>7, <2>3 DEF Statement, InsertRow, PurgeRows, StatementFails
  <2>5. /\ wanted' \subseteq Cidr /\ unheard' \subseteq Cidr /\ UNCHANGED contested
        /\ UNCHANGED <<kernel, setup>>
    BY <1>2, <1>3, <1>7 DEF Statement, InsertRow, PurgeRows, StatementFails
  <2>. QED
    BY <1>1, <2>1, <2>2, <2>4, <2>5 DEF kernel, setup, Types, TypeOK, FwTypeOK
<1>. QED
  BY <1>4, <1>5, <1>6, <1>7 DEF BeginAdd

(* The refresh. *)
LEMMA GoOK ==
  ASSUME geo \in Refresh, geo.left # <<>>
  PROVE  /\ Next1(geo) \in Refresh /\ (Next1(geo).pc # "idle" => Next1(geo).left # <<>>)
         /\ Head(geo.left) \in Country
         /\ \A pc \in {"fetch", "clear", "flush", "block"}, T, X \in SUBSET Cidr :
              [pc |-> pc, left |-> geo.left, todo |-> T, tx |-> X] \in Refresh
         /\ geo = [pc |-> geo.pc, left |-> geo.left, todo |-> geo.todo, tx |-> geo.tx]
         /\ geo.todo \subseteq Cidr /\ geo.tx \subseteq Cidr
<1>1. geo.left \in Seq(Country) /\ geo.todo \subseteq Cidr /\ geo.tx \subseteq Cidr
  BY DEF Refresh
<1>2. Head(geo.left) \in Country
  BY <1>1
<1>3. CASE Len(geo.left) > 1
  <2>1. PICK t : t = Tail(geo.left)
    OBVIOUS
  <2>2. t \in Seq(Country) /\ Len(t) > 0 /\ t # <<>>
    <3>1. geo.left # <<>> /\ Len(geo.left) \in Nat
      BY <1>1
    <3>2. t \in Seq(Country) /\ Len(t) = Len(geo.left) - 1
      BY <1>1, <2>1, <3>1, HeadTailProperties
    <3>. QED
      BY <1>3, <3>1, <3>2
  <2>3. Next1(geo) = [pc |-> "fetch", left |-> t, todo |-> {}, tx |-> {}]
    BY <1>3, <2>1 DEF Next1, Resting
  <2>. QED
    BY <1>1, <1>2, <2>2, <2>3 DEF Refresh
<1>4. CASE ~(Len(geo.left) > 1)
  BY <1>1, <1>2, <1>4, RestingOK DEF Next1, Refresh
<1>. QED
  BY <1>3, <1>4

LEMMA AskOK ==
  ASSUME NEW g, g = [Resting EXCEPT !.pc = "fetch", !.left = Order]
  PROVE  /\ g = [pc |-> "fetch", left |-> Order, todo |-> {}, tx |-> {}]
         /\ g \in Refresh /\ g.left = Order /\ g.pc = "fetch" /\ Order # <<>>
<1>1. g = [pc |-> "fetch", left |-> Order, todo |-> {}, tx |-> {}]
  BY DEF Resting
<1>2. Order \in Seq(Country) /\ Order # <<>>
  BY OrderAssumption
<1>3. PICK o : o = Order /\ o \in Seq(Country)
  BY <1>2
<1>4. g \in Refresh
  BY <1>1, <1>3 DEF Refresh
<1>. QED
  BY <1>1, <1>2, <1>4

Clearing == ClearRows \/ ClearRowsFails

LEMMA GeoTypes ==
  ASSUME Types, ApplyCached \/ CronRefresh \/ FetchFails \/ GeoStep
  PROVE  Types'
<1>1. /\ rules \in [Cidr -> Seq(Verdict)] /\ rows \subseteq Row /\ failures \in 0..MaxFailures
      /\ unheard \subseteq Cidr /\ geo \in Refresh
  BY DEF Types, TypeOK, FwTypeOK
<1>2. \A c \in Cidr : /\ Insert(rules[c], "DROP") \in Seq(Verdict)
                      /\ Delete(rules[c], "DROP") \in Seq(Verdict)
  <2>1. "DROP" \in Verdict
    BY DEF Verdict
  <2>. QED
    BY <1>1, <2>1, InsertIs, DeleteIs
<1>3. CASE ApplyCached
  <2>1. PICK S \in SUBSET Cached :
          /\ table # "absent" => failures + Cardinality(Cached \ S) <= MaxFailures
          /\ failures' = IF table = "absent" THEN failures
                         ELSE failures + Cardinality(Cached \ S)
          /\ unheard' = unheard \cup (Cached \ S)
          /\ rules' = [c \in Cidr |-> IF c \in S THEN Insert(rules[c], "DROP") ELSE rules[c]]
    BY <1>3 DEF ApplyCached
  <2>2. Cached \subseteq Cidr
    BY <1>1 DEF Cached, GeoRows, Row
  <2>3. Cardinality(Cached \ S) \in Nat
    BY <2>2, FewFail
  <2>4. failures' \in 0..MaxFailures
    BY <1>1, <2>1, <2>3, LimitAssumption
  <2>5. geo' \in Refresh /\ (geo'.pc # "idle" => geo'.left # <<>>)
    BY <1>3, AskOK, RestingOK DEF ApplyCached
  <2>6. rules' \in [Cidr -> Seq(Verdict)] /\ unheard' \subseteq Cidr
    BY <1>1, <1>2, <2>1, <2>2
  <2>. QED
    BY <1>3, <2>4, <2>5, <2>6 DEF ApplyCached, Types, TypeOK, FwTypeOK
<1>4. CASE CronRefresh \/ FetchList \/ FetchFails
  <2>1. geo' \in Refresh /\ (geo'.pc # "idle" => geo'.left # <<>>)
    <3>1. CASE CronRefresh
      BY <3>1, AskOK DEF CronRefresh
    <3>2. CASE FetchFails
      BY <1>1, <3>2, GoOK DEF FetchFails, Types
    <3>3. CASE FetchList
      <4>1. geo.left # <<>> /\ Head(geo.left) \in Country
        BY <1>1, <3>3, GoOK DEF FetchList, Types
      <4>2. PICK L \in SUBSET Cidr : geo' = [geo EXCEPT !.pc = "clear", !.todo = L]
        BY <3>3, <4>1, FeedAssumption DEF FetchList
      <4>3. geo' = [pc |-> "clear", left |-> geo.left, todo |-> L, tx |-> geo.tx]
        BY <1>1, <4>2 DEF Refresh
      <4>. QED
        BY <1>1, <4>1, <4>3, GoOK
    <3>. QED
      BY <1>4, <3>1, <3>2, <3>3
  <2>2. UNCHANGED fwVars
    BY <1>4 DEF CronRefresh, FetchList, FetchFails
  <2>. QED
    BY <2>1, <2>2 DEF fwVars, kernel, setup, past, Types, TypeOK, FwTypeOK
<1>5. CASE Clearing \/ FlushGeoBlocks \/ CommitTx \/ \E c \in Cidr : BlockCIDR(c) \/ BlockFails(c)
  <2>1. geo.left # <<>> /\ geo.pc # "idle"
    BY <1>5 DEF Clearing, ClearRows, ClearRowsFails, FlushGeoBlocks, CommitTx, BlockCIDR, BlockFails, Types
  <2>2. geo' \in Refresh /\ (geo'.pc # "idle" => geo'.left # <<>>)
    <3>1. ASSUME NEW pc \in {"flush", "block"}, Go(pc)
          PROVE  geo' = [pc |-> pc, left |-> geo.left, todo |-> geo.todo, tx |-> geo.tx]
      BY <1>1, <3>1 DEF Go, Refresh
    <3>2. CASE Clearing \/ FlushGeoBlocks
      <4>1. PICK pc \in {"flush", "block"} : Go(pc)
        BY <3>2 DEF Clearing, ClearRows, ClearRowsFails, FlushGeoBlocks
      <4>2. geo' = [pc |-> pc, left |-> geo.left, todo |-> geo.todo, tx |-> geo.tx]
        BY <3>1, <4>1
      <4>3. geo.todo \in SUBSET Cidr /\ geo.tx \in SUBSET Cidr
        BY <1>1, <2>1, GoOK
      <4>. QED
        BY <1>1, <2>1, <4>2, <4>3, GoOK
    <3>3. CASE CommitTx
      BY <1>1, <2>1, <3>3, GoOK DEF CommitTx
    <3>4. ASSUME NEW c \in Cidr, BlockCIDR(c) \/ BlockFails(c)
          PROVE  \E X \in SUBSET Cidr : geo' = [pc |-> "block", left |-> geo.left, todo |-> geo.todo \ {c}, tx |-> X]
      <4>1. PICK T, X : T = geo.todo \ {c} /\ X = geo.tx \cup {c}
        OBVIOUS
      <4>2. X \in SUBSET Cidr /\ geo.tx \in SUBSET Cidr
        BY <1>1, <4>1 DEF Refresh
      <4>3. CASE BlockCIDR(c)
        <5>1. geo' = [geo EXCEPT !.todo = T, !.tx = X] /\ geo.pc = "block"
          BY <4>1, <4>3 DEF BlockCIDR
        <5>2. geo' = [pc |-> "block", left |-> geo.left, todo |-> T, tx |-> X]
          BY <1>1, <5>1 DEF Refresh
        <5>. QED
          BY <4>1, <4>2, <5>2
      <4>4. CASE BlockFails(c)
        <5>1. geo' = [geo EXCEPT !.todo = T] /\ geo.pc = "block"
          BY <4>1, <4>4 DEF BlockFails
        <5>2. geo' = [pc |-> "block", left |-> geo.left, todo |-> T, tx |-> geo.tx]
          BY <1>1, <5>1 DEF Refresh
        <5>. QED
          BY <4>1, <4>2, <5>2
      <4>. QED
        BY <3>4, <4>3, <4>4
    <3>5. ASSUME NEW c \in Cidr, BlockCIDR(c) \/ BlockFails(c)
          PROVE  geo' \in Refresh /\ (geo'.pc # "idle" => geo'.left # <<>>)
      <4>1. PICK X \in SUBSET Cidr :
              geo' = [pc |-> "block", left |-> geo.left, todo |-> geo.todo \ {c}, tx |-> X]
        BY <3>4, <3>5
      <4>2. geo.todo \ {c} \in SUBSET Cidr
        BY <1>1 DEF Refresh
      <4>. QED
        BY <1>1, <2>1, <4>1, <4>2, GoOK
    <3>. QED
      BY <1>5, <3>2, <3>3, <3>5
  <2>3. failures' \in 0..MaxFailures
    <3>1. CASE Clearing \/ \E c \in Cidr : BlockCIDR(c) \/ BlockFails(c)
      BY <1>1, <3>1, FailuresOK DEF Clearing, ClearRows, ClearRowsFails, BlockCIDR, BlockFails
    <3>2. CASE FlushGeoBlocks \/ CommitTx
      <4>1. Fails(0) \/ Fails(1)
        BY <3>2 DEF FlushGeoBlocks, CommitTx
      <4>. QED
        BY <1>1, <4>1, FailuresOK
    <3>. QED
      BY <1>5, <3>1, <3>2
  <2>4. rows' \subseteq Row
    <3>1. geo.tx \subseteq Cidr /\ Head(geo.left) \in Country
      BY <1>1, <2>1, GoOK
    <3>2. \A c \in geo.tx : GeoRow(c, Head(geo.left)) \in Row
      BY <3>1 DEF GeoRow, Row
    <3>3. CASE CommitTx
      BY <1>1, <3>2, <3>3 DEF CommitTx
    <3>4. CASE Clearing
      BY <1>1, <3>4 DEF Clearing, ClearRows, ClearRowsFails
    <3>. QED
      BY <1>1, <1>5, <3>3, <3>4 DEF FlushGeoBlocks, BlockCIDR, BlockFails
  <2>5. rules' \in [Cidr -> Seq(Verdict)]
    <3>1. CASE FlushGeoBlocks
      BY <1>1, <1>2, <3>1 DEF FlushGeoBlocks, Flushed
    <3>2. ASSUME NEW c \in Cidr, BlockCIDR(c) PROVE rules' \in [Cidr -> Seq(Verdict)]
      BY <1>1, <1>2, <3>2 DEF BlockCIDR
    <3>3. CASE Clearing \/ CommitTx \/ \E c \in Cidr : BlockFails(c)
      BY <1>1, <3>3 DEF Clearing, ClearRows, ClearRowsFails, CommitTx, BlockFails, kernel
    <3>. QED
      BY <1>5, <3>1, <3>2, <3>3
  <2>6. UNCHANGED <<table, setup, call, wanted, contested>>
    BY <1>5 DEF Clearing, ClearRows, ClearRowsFails, FlushGeoBlocks, CommitTx, BlockCIDR, BlockFails, kernel, past
  <2>7. unheard' \subseteq Cidr
    <3>1. CASE ClearRowsFails
      BY <1>1, <3>1 DEF ClearRowsFails, Row
    <3>2. CASE ClearRows \/ FlushGeoBlocks \/ CommitTx \/ \E c \in Cidr : BlockCIDR(c) \/ BlockFails(c)
      BY <1>1, <3>2 DEF ClearRows, FlushGeoBlocks, CommitTx, BlockCIDR, BlockFails, past
    <3>. QED
      BY <1>5, <3>1, <3>2 DEF Clearing
  <2>. QED
    BY <2>2, <2>3, <2>4, <2>5, <2>6, <2>7 DEF setup, Types, TypeOK, FwTypeOK
<1>. QED
  BY <1>3, <1>4, <1>5 DEF GeoStep, Clearing

LEMMA TypesNext == Types /\ [Next]_vars => Types'
<1>1. UNCHANGED vars /\ Types => Types'
  BY DEF vars, fwVars, kernel, setup, past, Types, TypeOK, FwTypeOK
<1>. QED
  BY <1>1, StartTypes, EndTypes, HandlerTypes, GeoTypes DEF Next

(* The rules, the table guard_rules, the calls and the refresh are of      *)
(* their types, and the bounds are kept.                                   *)
THEOREM TypeCorrect == Spec => []TypeOK
<1>1. Types => TypeOK
  BY DEF Types
<1>. QED
  BY <1>1, TypesInit, TypesNext, PTL DEF Spec

---------------------------------------------------------------------------
(* The phases of the daemon: what a report of rules_applied means, and     *)
(* that calls are answered while it is up only.                            *)

AllIdle == \A w \in Client : call[w] = Idle

PhaseOK ==
  /\ phase \in {"populate", "close"} =>
       policy = "deny" /\ (OnWindows => table = "shut" /\ phase = "populate")
  /\ phase \in {"geo", "up"} /\ applied =>
       policy = "deny" /\ (backend # "iptables" => table = "shut")
  /\ phase # "up" => AllIdle

LEMMA IdleIs == Idle.pc = "idle"
  BY DEF Idle

(* The steps of the daemon once it is up, but for its end. *)
Handler(w) == (\E c \in Cidr : BeginAdd(w, c)) \/ Command(w) \/ Lookup(w) \/ Statement(w)
Refreshing == CronRefresh \/ FetchFails \/ GeoStep

LEMMA UpSteps ==
  ASSUME Types, PhaseOK, Refreshing \/ \E w \in Client : Handler(w)
  PROVE  phase = "up" /\ UNCHANGED <<backend, policy, table, phase, applied, starts>>
<1>1. CASE Refreshing
  <2>1. phase = "up"
    BY <1>1 DEF Refreshing, GeoStep, CronRefresh, FetchFails, FetchList, ClearRows, ClearRowsFails,
                FlushGeoBlocks, BlockCIDR, BlockFails, CommitTx
  <2>2. UNCHANGED <<table, setup>>
    <3>1. CASE CronRefresh \/ FetchFails \/ FetchList
      BY <3>1 DEF CronRefresh, FetchFails, FetchList, fwVars, kernel
    <3>2. CASE Clearing \/ FlushGeoBlocks \/ CommitTx \/ \E c \in Cidr : BlockCIDR(c) \/ BlockFails(c)
      BY <3>2 DEF Clearing, ClearRows, ClearRowsFails, FlushGeoBlocks, BlockCIDR, BlockFails, CommitTx, kernel
    <3>. QED
      BY <1>1, <3>1, <3>2 DEF Refreshing, GeoStep, Clearing
  <2>. QED
    BY <2>1, <2>2 DEF setup
<1>2. ASSUME NEW w \in Client, Handler(w)
      PROVE  phase = "up" /\ UNCHANGED <<table, setup>>
  <2>1. CASE Command(w) \/ Statement(w)
    <3>1. call[w].pc # "idle" /\ UNCHANGED <<table, setup>>
      BY <2>1 DEF Command, AddRule, AddRuleFails, RemoveRule, RemoveRuleFails, Statement,
                  InsertRow, PurgeRows, StatementFails, kernel
    <3>. QED
      BY <3>1, IdleIs DEF PhaseOK, AllIdle
  <2>2. CASE Lookup(w) \/ \E c \in Cidr : BeginAdd(w, c)
    BY <2>2 DEF Lookup, BeginAdd, BeginRemove, Begin, kernel
  <2>. QED
    BY <1>2, <2>1, <2>2 DEF Handler
<1>. QED
  BY <1>1, <1>2 DEF setup

LEMMA PhaseNext == Types /\ PhaseOK /\ [Next]_vars => PhaseOK'
<1> SUFFICES ASSUME Types, PhaseOK, [Next]_vars PROVE PhaseOK'
  OBVIOUS
<1>1. CASE UNCHANGED vars
  BY <1>1 DEF vars, fwVars, kernel, setup, PhaseOK, AllIdle, OnWindows
<1>2. ASSUME Refreshing \/ \E w \in Client : Handler(w) PROVE PhaseOK'
  BY <1>2, UpSteps DEF PhaseOK, OnWindows
<1>3. CASE ApplyCached
  BY <1>3 DEF ApplyCached, PhaseOK, OnWindows
<1>4. CASE Ended
  <2>1. phase' = "down" /\ \A w \in Client : call'[w] = Idle
    BY <1>4 DEF Ended, Stop, NetshFlush, Crash
  <2>. QED
    BY <2>1 DEF PhaseOK, AllIdle
<1>5. CASE StartUp
  <2>1. AllIdle' /\ UNCHANGED <<backend, policy>>
    <3>1. phase # "up" /\ UNCHANGED <<backend, policy, call>>
      BY <1>5 DEF StartUp, Reset, ResetFails, Populate, Close, CloseFails, NetshPolicy, NetshPopulate,
                  Launch
    <3>. QED
      BY <3>1 DEF PhaseOK, AllIdle
  <2>2. CASE Reset \/ ResetFails \/ NetshPolicy
    BY <2>1, <2>2 DEF Reset, ResetFails, NetshPolicy, Launch, Afresh, PhaseOK, OnWindows
  <2>3. CASE Populate \/ Close \/ CloseFails \/ NetshPopulate
    BY <2>1, <2>3 DEF Populate, Close, CloseFails, NetshPopulate, PhaseOK, OnWindows
  <2>. QED
    BY <1>5, <2>2, <2>3 DEF StartUp
<1>. QED
  BY <1>1, <1>2, <1>3, <1>4, <1>5 DEF Next, Handler, Refreshing

LEMMA PhaseInit == Init => PhaseOK
  BY DEF Init, FwInit, PhaseOK, AllIdle

---------------------------------------------------------------------------
(* Rows and rules.  What is wanted has its row; only configured ranges     *)
(* have a rule of the configuration, of that name on Windows only; and     *)
(* sets are in matching order.                                             *)

RowsOK == \A c \in wanted : AllowRow(c) \in rows

RulesOK ==
  \A c \in Cidr : InOrder(rules[c]) /\ ("CONFIGURED" \in ToSet(rules[c]) => OnWindows /\ c \in AllowIPs)

LEMMA RowsNext == Types /\ RowsOK /\ [Next]_vars => RowsOK'
<1> SUFFICES ASSUME Types, RowsOK, [Next]_vars PROVE RowsOK'
  OBVIOUS
<1>1. ASSUME wanted' \subseteq wanted, rows \subseteq rows' PROVE RowsOK'
  BY <1>1 DEF RowsOK
<1>2. CASE UNCHANGED vars
  BY <1>1, <1>2 DEF vars, fwVars, past
<1>3. CASE StartUp \/ ApplyCached \/ Ended
  <2>1. CASE Reset \/ ResetFails \/ Populate \/ Close \/ CloseFails
    BY <1>1, <2>1 DEF Reset, ResetFails, Populate, Close, CloseFails, Launch, Afresh, past
  <2>2. CASE NetshPolicy \/ NetshPopulate \/ ApplyCached \/ NetshFlush
    BY <1>1, <2>2 DEF NetshPolicy, NetshPopulate, ApplyCached, NetshFlush, Launch
  <2>3. CASE Stop \/ Crash
    BY <1>1, <2>3 DEF Stop, Crash, past
  <2>. QED
    BY <1>3, <2>1, <2>2, <2>3 DEF StartUp, Ended
<1>4. CASE Refreshing
  <2>1. CASE ClearRows
    <3>1. rows' = {r \in rows : ~OfCountry(r)} /\ UNCHANGED wanted
      BY <2>1 DEF ClearRows, past
    <3>2. \A c \in wanted : ~OfCountry(AllowRow(c))
      BY DEF OfCountry, AllowRow
    <3>. QED
      BY <3>1, <3>2 DEF RowsOK
  <2>2. CASE CronRefresh \/ FetchFails \/ FetchList
    BY <1>1, <2>2 DEF CronRefresh, FetchFails, FetchList, fwVars, past
  <2>3. CASE ClearRowsFails \/ FlushGeoBlocks \/ CommitTx \/ \E c \in Cidr : BlockCIDR(c) \/ BlockFails(c)
    BY <1>1, <2>3 DEF ClearRowsFails, FlushGeoBlocks, CommitTx, BlockCIDR, BlockFails, past
  <2>. QED
    BY <1>4, <2>1, <2>2, <2>3 DEF Refreshing, GeoStep
<1>5. ASSUME NEW w \in Client, Handler(w) PROVE RowsOK'
  <2>1. CASE Command(w)
    BY <1>1, <2>1 DEF Command, AddRule, AddRuleFails, RemoveRule, RemoveRuleFails, past
  <2>2. CASE Lookup(w) \/ \E c \in Cidr : BeginAdd(w, c)
    BY <1>1, <2>2 DEF Lookup, BeginAdd, BeginRemove, Begin
  <2>3. CASE InsertRow(w) \/ StatementFails(w)
    BY <2>3 DEF InsertRow, StatementFails, RowsOK
  <2>4. CASE PurgeRows(w)
    <3>1. \A c : AllowRow(c).cidr = c
      BY DEF AllowRow
    <3>. QED
      BY <2>4, <3>1 DEF PurgeRows, RowsOK
  <2>. QED
    BY <1>5, <2>1, <2>2, <2>3, <2>4 DEF Handler, Statement
<1>. QED
  BY <1>2, <1>3, <1>4, <1>5 DEF Next, Handler, Refreshing

(* One range gets or loses a rule for an address that is not configured.   *)
LEMMA OneRule ==
  ASSUME NEW s \in Seq(Verdict), NEW v \in {"ACCEPT", "DROP"}, InOrder(s),
         NEW t \in {s, Insert(s, v), Delete(s, v)}
  PROVE  InOrder(t) /\ ("CONFIGURED" \in ToSet(t) => "CONFIGURED" \in ToSet(s))
<1>1. v \in Verdict /\ v # "CONFIGURED" /\ "CONFIGURED" \in Verdict
  BY DEF Verdict
<1>2. InOrder(Insert(s, v)) /\ ToSet(Insert(s, v)) = ToSet(s) \cup {v}
  BY <1>1, InsertIs
<1>3. InOrder(Delete(s, v)) /\ ("CONFIGURED" \in ToSet(Delete(s, v)) <=> "CONFIGURED" \in ToSet(s))
  BY <1>1, DeleteIs
<1>4. CASE t = s
  BY <1>4
<1>5. CASE t = Insert(s, v)
  <2>1. "CONFIGURED" \in ToSet(Insert(s, v)) <=> "CONFIGURED" \in ToSet(s)
    BY <1>1, <1>2
  <2>. QED
    BY <1>2, <1>5, <2>1
<1>6. CASE t = Delete(s, v)
  BY <1>3, <1>6
<1>. QED
  BY <1>4, <1>5, <1>6

LEMMA RulesNext == Types /\ RulesOK /\ [Next]_vars => RulesOK'
<1> SUFFICES ASSUME Types, RulesOK, [Next]_vars PROVE RulesOK'
  OBVIOUS
<1>1. UNCHANGED backend /\ rules \in [Cidr -> Seq(Verdict)]
  <2>. rules \in [Cidr -> Seq(Verdict)]
    BY DEF Types, TypeOK, FwTypeOK
  <2>1. ASSUME UNCHANGED vars PROVE UNCHANGED backend
    BY <2>1 DEF vars, fwVars, setup
  <2>2. ASSUME StartUp \/ ApplyCached \/ Ended PROVE UNCHANGED backend
    BY <2>2 DEF StartUp, Reset, ResetFails, Populate, Close, CloseFails, NetshPolicy, NetshPopulate,
                Launch, ApplyCached, Ended, Stop, NetshFlush, Crash
  <2>3. ASSUME CronRefresh \/ FetchFails \/ GeoStep PROVE UNCHANGED backend
    BY <2>3 DEF CronRefresh, FetchFails, GeoStep, FetchList, ClearRows, ClearRowsFails, FlushGeoBlocks,
                BlockCIDR, BlockFails, CommitTx, fwVars, setup
  <2>4. ASSUME NEW w \in Client, Handler(w) PROVE UNCHANGED backend
    BY <2>4 DEF Handler, BeginAdd, Command, AddRule, AddRuleFails, RemoveRule, RemoveRuleFails,
                Lookup, BeginRemove, Begin, Statement, InsertRow, PurgeRows, StatementFails, setup
  <2>. QED
    BY <2>1, <2>2, <2>3, <2>4 DEF Next, Handler
<1>2. ASSUME UNCHANGED rules PROVE RulesOK'
  BY <1>1, <1>2 DEF RulesOK, InOrder, OnWindows
<1>3. ASSUME NEW v \in {"ACCEPT", "DROP"},
             \A c \in Cidr : rules'[c] \in {rules[c], Insert(rules[c], v), Delete(rules[c], v)}
      PROVE  RulesOK'
  <2>1. ASSUME NEW c \in Cidr
        PROVE  InOrder(rules'[c]) /\ ("CONFIGURED" \in ToSet(rules'[c]) => "CONFIGURED" \in ToSet(rules[c]))
    BY <1>1, <1>3, OneRule DEF RulesOK
  <2>. QED
    BY <1>1, <2>1 DEF RulesOK, InOrder, OnWindows
<1>4. InMatchingOrder({}) = <<>> /\ InMatchingOrder({"ACCEPT"}) = <<"ACCEPT">>
  <2>1. If("DROP", {"ACCEPT"}) = <<>> /\ If("CONFIGURED", {"ACCEPT"}) = <<>> /\ If("ACCEPT", {"ACCEPT"}) = <<"ACCEPT">>
    BY DEF If
  <2>2. If("DROP", {}) = <<>> /\ If("CONFIGURED", {}) = <<>> /\ If("ACCEPT", {}) = <<>>
    BY DEF If
  <2>3. <<>> \o <<"ACCEPT">> \o <<>> = <<"ACCEPT">> /\ <<>> \o <<>> \o <<>> = <<>>
    OBVIOUS
  <2>. QED
    BY <2>1, <2>2, <2>3 DEF InMatchingOrder
<1>5. ToSet(<<>>) = {} /\ ToSet(<<"ACCEPT">>) = {"ACCEPT"}
  BY DEF ToSet
<1>6. InOrder(<<>>) /\ InOrder(<<"ACCEPT">>)
  BY <1>4, <1>5 DEF InOrder
<1>7. ASSUME \A c \in Cidr : rules'[c] \in {<<>>, <<"ACCEPT">>} PROVE RulesOK'
  BY <1>1, <1>5, <1>6, <1>7 DEF RulesOK, InOrder
<1>8. CASE UNCHANGED vars
  BY <1>2, <1>8 DEF vars, fwVars, kernel
<1>9. CASE StartUp
  <2>1. CASE Reset \/ ResetFails \/ Populate
    BY <1>2, <1>7, <2>1 DEF Reset, ResetFails, Populate, Empty, kernel
  <2>2. CASE Close \/ CloseFails \/ NetshPolicy
    BY <1>2, <2>2 DEF Close, CloseFails, NetshPolicy, kernel
  <2>3. CASE NetshPopulate
    <3>1. ASSUME NEW c \in Cidr
          PROVE  InOrder(rules'[c]) /\ ("CONFIGURED" \in ToSet(rules'[c]) => OnWindows /\ c \in AllowIPs)
      <4>1. PICK s : s = rules[c] /\ s \in Seq(Verdict) /\ "CONFIGURED" \in Verdict
        BY <1>1 DEF Verdict
      <4>2. /\ rules'[c] \in {s, Insert(s, "CONFIGURED"), Delete(s, "CONFIGURED")}
            /\ c \notin AllowIPs => rules'[c] = s
            /\ OnWindows
        BY <2>3, <4>1 DEF NetshPopulate
      <4>3. InOrder(s) /\ ("CONFIGURED" \in ToSet(s) => c \in AllowIPs)
        BY <4>1 DEF RulesOK
      <4>4. InOrder(Insert(s, "CONFIGURED")) /\ InOrder(Delete(s, "CONFIGURED"))
        BY <4>1, InsertIs, DeleteIs
      <4>. QED
        BY <4>2, <4>3, <4>4
    <3>. QED
      BY <1>1, <3>1 DEF RulesOK, InOrder, OnWindows
  <2>. QED
    BY <1>9, <2>1, <2>2, <2>3 DEF StartUp
<1>10. CASE ApplyCached
  BY <1>3, <1>10 DEF ApplyCached
<1>11. CASE Ended
  <2>1. CASE Stop
    BY <1>7, <2>1 DEF Stop, Empty
  <2>2. CASE Crash
    BY <1>2, <2>2 DEF Crash, kernel
  <2>3. CASE NetshFlush
    <3>1. ASSUME NEW c \in Cidr
          PROVE  InOrder(rules'[c]) /\ ("CONFIGURED" \in ToSet(rules'[c]) => OnWindows /\ c \in AllowIPs)
      <4>1. PICK s : s = rules[c] /\ s \in Seq(Verdict)
        BY <1>1
      <4>2. PICK S : S \subseteq ToSet(s) /\ rules'[c] = InMatchingOrder(S)
        BY <2>3, <4>1 DEF NetshFlush
      <4>3. S \cap Verdict = S
        BY <4>1, <4>2 DEF ToSet
      <4>. QED
        BY <4>1, <4>2, <4>3, InOrderIs DEF RulesOK, InOrder
    <3>. QED
      BY <1>1, <3>1 DEF RulesOK, InOrder, OnWindows
  <2>. QED
    BY <1>11, <2>1, <2>2, <2>3 DEF Ended
<1>12. CASE Refreshing
  <2>1. CASE FlushGeoBlocks
    BY <1>3, <2>1 DEF FlushGeoBlocks, Flushed
  <2>2. ASSUME NEW c \in Cidr, BlockCIDR(c) PROVE RulesOK'
    BY <1>1, <1>3, <2>2 DEF BlockCIDR
  <2>3. CASE CronRefresh \/ FetchFails \/ FetchList \/ Clearing \/ CommitTx \/ \E c \in Cidr : BlockFails(c)
    BY <1>2, <2>3 DEF CronRefresh, FetchFails, FetchList, Clearing, ClearRows, ClearRowsFails, CommitTx,
                      BlockFails, fwVars, kernel
  <2>. QED
    BY <1>12, <2>1, <2>2, <2>3 DEF Refreshing, GeoStep, Clearing
<1>13. ASSUME NEW w \in Client, Handler(w) PROVE RulesOK'
  <2>1. CASE AddRule(w) \/ RemoveRule(w)
    BY <1>1, <1>3, <2>1 DEF AddRule, RemoveRule
  <2>2. CASE AddRuleFails(w) \/ RemoveRuleFails(w) \/ Statement(w)
    BY <1>2, <2>2 DEF AddRuleFails, RemoveRuleFails, Statement, InsertRow, PurgeRows, StatementFails, kernel
  <2>3. CASE Lookup(w) \/ \E c \in Cidr : BeginAdd(w, c)
    BY <1>2, <2>3 DEF Lookup, BeginAdd, BeginRemove, Begin, kernel
  <2>. QED
    BY <1>13, <2>1, <2>2, <2>3 DEF Handler, Command
<1>. QED
  BY <1>8, <1>9, <1>10, <1>11, <1>12, <1>13 DEF Next, Handler, Refreshing

LEMMA RulesInit == Init => RowsOK /\ RulesOK
<1> SUFFICES ASSUME Init PROVE RowsOK /\ RulesOK
  OBVIOUS
<1>1. \A c \in Cidr : rules[c] = <<>>
  BY DEF Init, FwInit, Empty
<1>2. ToSet(<<>>) = {} /\ InMatchingOrder({}) = <<>>
  <2>1. If("DROP", {}) = <<>> /\ If("CONFIGURED", {}) = <<>> /\ If("ACCEPT", {}) = <<>>
    BY DEF If
  <2>2. <<>> \o <<>> \o <<>> = <<>>
    OBVIOUS
  <2>. QED
    BY <2>1, <2>2 DEF InMatchingOrder, ToSet
<1>. QED
  BY <1>1, <1>2 DEF Init, FwInit, RowsOK, RulesOK, InOrder

---------------------------------------------------------------------------
(* Every range no two calls have met on and no command failed on: whether  *)
(* it is accepted follows from what is wanted, what is configured, and how *)
(* far the one call on it has come; and in the chain of iptables a DROP    *)
(* precedes the ACCEPT that no call has put there.  On Linux this holds as *)
(* long as Apply has made the table; on Windows the rules outlive the      *)
(* daemon, and so does the invariant.                                      *)

Busy(w, c) == call[w].pc # "idle" /\ call[w].cidr = c
At(w, c, pc) == call[w].pc = pc /\ call[w].cidr = c
Accepts(c) == "ACCEPT" \in ToSet(rules[c])
Watching == OnWindows \/ (policy = "deny" /\ phase # "down")

RangeOK(c) ==
  /\ \A w, x \in Client : Busy(w, c) /\ Busy(x, c) => w = x
  /\ Watching =>
       /\ backend = "iptables" => Once(rules[c], "ACCEPT")
       /\ backend = "iptables" => \/ DropsFirst(rules[c]) \/ c \in wanted
                                  \/ \E w \in Client : At(w, c, "insert")
       /\ \A w \in Client : /\ At(w, c, "insert") => Accepts(c)
                            /\ At(w, c, "purge") => ~Accepts(c)
                            /\ At(w, c, "add") /\ backend = "iptables" => ~Accepts(c)
       /\ c \in wanted /\ (\A w \in Client : ~At(w, c, "purge")) => Accepts(c)
       /\ Accepts(c) => \/ c \in wanted \cup AllowIPs
                        \/ \E w \in Client : At(w, c, "insert")

RangesOK == \A c \in Cidr \ (contested \cup unheard) : RangeOK(c)

(* Nothing is wanted yet while Apply fills a new table. *)
FreshOK == ~OnWindows /\ phase = "populate" => wanted = {}

GuardOK == Types /\ PhaseOK /\ RowsOK /\ RulesOK /\ FreshOK /\ RangesOK

LEMMA FreshNext == Types /\ PhaseOK /\ FreshOK /\ [Next]_vars => FreshOK'
<1> SUFFICES ASSUME Types, PhaseOK, FreshOK, [Next]_vars PROVE FreshOK'
  OBVIOUS
<1>1. CASE UNCHANGED vars
  BY <1>1 DEF vars, fwVars, setup, past, FreshOK, OnWindows
<1>2. ASSUME Refreshing \/ \E w \in Client : Handler(w) PROVE FreshOK'
  <2>1. phase' = "up"
    BY <1>2, UpSteps
  <2>. QED
    BY <2>1 DEF FreshOK
<1>3. CASE ApplyCached \/ Ended
  BY <1>3 DEF ApplyCached, Ended, Stop, NetshFlush, Crash, FreshOK
<1>4. CASE StartUp
  <2>1. CASE Reset \/ ResetFails
    BY <2>1 DEF Reset, ResetFails, Afresh, FreshOK
  <2>2. CASE Populate \/ Close \/ CloseFails \/ NetshPopulate
    BY <2>2 DEF Populate, Close, CloseFails, NetshPopulate, FreshOK
  <2>3. CASE NetshPolicy
    BY <2>3 DEF NetshPolicy, Launch, FreshOK, OnWindows
  <2>. QED
    BY <1>4, <2>1, <2>2, <2>3 DEF StartUp
<1>. QED
  BY <1>1, <1>2, <1>3, <1>4 DEF Next, Handler, Refreshing

(* A range no call is on. *)
LEMMA IdleRange ==
  ASSUME NEW c \in Cidr, AllIdle',
         Watching' =>
           /\ backend' = "iptables" => Once(rules'[c], "ACCEPT") /\ DropsFirst(rules'[c])
           /\ c \in wanted' => "ACCEPT" \in ToSet(rules'[c])
           /\ "ACCEPT" \in ToSet(rules'[c]) => c \in wanted' \cup AllowIPs
  PROVE  RangeOK(c)'
<1>1. \A w \in Client : call'[w].pc = "idle"
  BY IdleIs DEF AllIdle
<1>2. \A w \in Client : ~Busy(w, c)'
  BY <1>1 DEF Busy
<1>3. \A w \in Client, pc \in {"insert", "purge", "add"} : ~At(w, c, pc)'
  BY <1>1 DEF At
<1>. QED
  BY <1>2, <1>3 DEF RangeOK, Accepts

LEMMA FromIdle ==
  ASSUME NEW c \in Cidr, AllIdle, RangeOK(c), Watching
  PROVE  /\ backend = "iptables" => Once(rules[c], "ACCEPT")
         /\ c \in wanted => "ACCEPT" \in ToSet(rules[c])
         /\ "ACCEPT" \in ToSet(rules[c]) => c \in wanted \cup AllowIPs
<1>1. \A w \in Client : call[w].pc = "idle"
  BY IdleIs DEF AllIdle
<1>2. \A w \in Client, pc \in {"insert", "purge"} : ~At(w, c, pc)
  BY <1>1 DEF At
<1>. QED
  BY <1>2 DEF RangeOK, Accepts

(* A range that a step does not touch, but for its DROP. *)
LEMMA RangeStays ==
  ASSUME NEW c \in Cidr, RangeOK(c), UNCHANGED backend, Watching' => Watching,
         "ACCEPT" \in ToSet(rules'[c]) <=> "ACCEPT" \in ToSet(rules[c]),
         backend = "iptables" /\ Once(rules[c], "ACCEPT") => Once(rules'[c], "ACCEPT"),
         backend = "iptables" /\ DropsFirst(rules[c]) => DropsFirst(rules'[c]),
         c \in wanted' <=> c \in wanted,
         \A w \in Client : \/ call'[w] = call[w]
                           \/ ~Busy(w, c) /\ ~Busy(w, c)'
  PROVE  RangeOK(c)'
<1>1. \A w \in Client : Busy(w, c)' <=> Busy(w, c)
  BY DEF Busy
<1>2. ASSUME NEW w \in Client, NEW pc \in {"insert", "purge", "add"}
      PROVE  At(w, c, pc)' <=> At(w, c, pc)
  <2>1. At(w, c, pc) => Busy(w, c)
    BY DEF At, Busy
  <2>2. At(w, c, pc)' => Busy(w, c)'
    BY DEF At, Busy
  <2>3. call'[w] = call[w] => (At(w, c, pc)' <=> At(w, c, pc))
    BY DEF At
  <2>. QED
    BY <2>1, <2>2, <2>3
<1>3. Accepts(c)' <=> Accepts(c)
  BY DEF Accepts
<1>. QED
  BY <1>1, <1>2, <1>3 DEF RangeOK

LEMMA DropsOnly ==
  ASSUME NEW s \in Seq(Verdict), NEW v \in {"DROP", "CONFIGURED"},
         NEW t \in {s, Insert(s, v), Delete(s, v)}
  PROVE  /\ "ACCEPT" \in ToSet(t) <=> "ACCEPT" \in ToSet(s)
         /\ backend = "iptables" /\ Once(s, "ACCEPT") => Once(t, "ACCEPT")
         /\ backend = "iptables" /\ DropsFirst(s) => DropsFirst(t)
<1>1. v \in Verdict /\ v # "ACCEPT" /\ "ACCEPT" \in Verdict
  BY DEF Verdict
<1>2. CASE t = s
  BY <1>2
<1>3. CASE t = Insert(s, v)
  <2>1. /\ ToSet(t) = ToSet(s) \cup {v}
        /\ backend = "iptables" =>
              \A u : Once(s, u) /\ (u = v => u \notin ToSet(s)) => Once(t, u)
        /\ backend = "iptables" /\ DropsFirst(s) => DropsFirst(t)
    BY <1>1, <1>3, InsertIs
  <2>. QED
    BY <1>1, <2>1
<1>4. CASE t = Delete(s, v)
  BY <1>1, <1>4, DeleteIs
<1>. QED
  BY <1>2, <1>3, <1>4

LEMMA StartRanges ==
  ASSUME Types, PhaseOK, FreshOK, RangesOK, StartUp
  PROVE  RangesOK'
<1> SUFFICES ASSUME NEW c \in Cidr, c \notin contested', c \notin unheard' PROVE RangeOK(c)'
  BY DEF RangesOK
<1>1. phase # "up" /\ AllIdle /\ AllIdle' /\ UNCHANGED <<backend, policy, call>>
  <2>1. phase # "up" /\ UNCHANGED <<backend, policy, call>>
    BY DEF StartUp, Reset, ResetFails, Populate, Close, CloseFails, NetshPolicy, NetshPopulate, Launch
  <2>. QED
    BY <2>1 DEF PhaseOK, AllIdle
<1>2. rules \in [Cidr -> Seq(Verdict)]
  BY DEF Types, TypeOK, FwTypeOK
<1>3. /\ ToSet(<<>>) = {} /\ Once(<<>>, "ACCEPT") /\ DropsFirst(<<>>)
      /\ ToSet(<<"ACCEPT">>) = {"ACCEPT"} /\ Once(<<"ACCEPT">>, "ACCEPT") /\ DropsFirst(<<"ACCEPT">>)
  BY DEF ToSet, Once, DropsFirst
<1>4. CASE Reset \/ ResetFails
  <2>1. wanted' = {} /\ ~OnWindows /\ (policy = "deny" => rules' = Empty)
    BY <1>4 DEF Reset, ResetFails, Afresh
  <2>2. Watching' => rules'[c] = <<>>
    BY <1>1, <2>1 DEF Watching, OnWindows, Empty
  <2>. QED
    BY <1>1, <1>3, <2>1, <2>2, IdleRange
<1>5. CASE Populate
  <2>1. PICK S \in SUBSET AllowIPs :
          /\ rules' = [d \in Cidr |-> IF d \in S THEN <<"ACCEPT">> ELSE <<>>]
          /\ unheard' = unheard \cup (AllowIPs \ S)
    BY <1>5 DEF Populate
  <2>2. wanted' = {}
    BY <1>5 DEF Populate, FreshOK
  <2>3. rules'[c] = (IF c \in S THEN <<"ACCEPT">> ELSE <<>>)
    BY <2>1
  <2>. QED
    BY <1>1, <1>3, <2>1, <2>2, <2>3, IdleRange
<1>6. CASE Close \/ CloseFails
  <2>1. UNCHANGED <<rules, wanted, contested, unheard>> /\ phase = "close"
    BY <1>6 DEF Close, CloseFails, kernel, past
  <2>2. Watching' => Watching
    BY <1>1, <2>1 DEF Watching, OnWindows
  <2>3. RangeOK(c)
    BY <2>1 DEF RangesOK
  <2>. QED
    BY <1>1, <2>1, <2>2, <2>3, RangeStays
<1>7. CASE NetshPolicy
  <2>1. /\ unheard' = {d \in unheard \cup contested : Contains(rules[d], "ACCEPT") # (d \in wanted)}
        /\ UNCHANGED <<rules, wanted>> /\ Watching
    BY <1>7 DEF NetshPolicy, Watching
  <2>2. backend # "iptables"
    BY <1>7 DEF NetshPolicy, OnWindows
  <2>3. CASE c \in unheard \cup contested
    <3>1. Contains(rules[c], "ACCEPT") <=> c \in wanted
      BY <2>1, <2>3 DEF Contains
    <3>2. Contains(rules[c], "ACCEPT") <=> "ACCEPT" \in ToSet(rules[c])
      <4>1. PICK s : s = rules[c] /\ s \in Seq(Verdict)
        BY <1>2
      <4>2. DOMAIN s = 1..Len(s)
        BY <4>1
      <4>3. Contains(s, "ACCEPT") <=> "ACCEPT" \in ToSet(s)
        BY <4>2 DEF Contains, ToSet
      <4>. QED
        BY <4>1, <4>3
    <3>. QED
      BY <1>1, <2>1, <2>2, <3>1, <3>2, IdleRange
  <2>4. CASE c \notin unheard \cup contested
    <3>1. RangeOK(c)
      BY <2>4 DEF RangesOK
    <3>. QED
      BY <1>1, <2>1, <2>2, <3>1, FromIdle, IdleRange
  <2>. QED
    BY <2>3, <2>4
<1>8. CASE NetshPopulate
  <2>1. PICK S \in SUBSET AllowIPs :
          /\ rules' = [d \in Cidr |-> CASE d \in S -> Insert(rules[d], "CONFIGURED")
                                       [] d \in AllowIPs \ S -> Delete(rules[d], "CONFIGURED")
                                       [] OTHER -> rules[d]]
          /\ unheard' = unheard \cup (AllowIPs \ S)
    BY <1>8 DEF NetshPopulate
  <2>2. UNCHANGED <<wanted, contested>> /\ Watching
    BY <1>8 DEF NetshPopulate, Watching
  <2>3. RangeOK(c)
    BY <2>1, <2>2 DEF RangesOK
  <2>4. PICK s, t : s = rules[c] /\ t = rules'[c] /\ s \in Seq(Verdict)
    BY <1>2
  <2>5. t \in {s, Insert(s, "CONFIGURED"), Delete(s, "CONFIGURED")}
    BY <2>1, <2>4
  <2>6. /\ "ACCEPT" \in ToSet(t) <=> "ACCEPT" \in ToSet(s)
        /\ backend = "iptables" /\ Once(s, "ACCEPT") => Once(t, "ACCEPT")
        /\ backend = "iptables" /\ DropsFirst(s) => DropsFirst(t)
    BY <2>4, <2>5, DropsOnly
  <2>. QED
    BY <1>1, <2>2, <2>3, <2>4, <2>6, RangeStays
<1>. QED
  BY <1>4, <1>5, <1>6, <1>7, <1>8 DEF StartUp

LEMMA EndRanges ==
  ASSUME Types, PhaseOK, RowsOK, RangesOK, Ended
  PROVE  RangesOK'
<1> SUFFICES ASSUME NEW c \in Cidr, c \notin contested', c \notin unheard' PROVE RangeOK(c)'
  BY DEF RangesOK
<1>1. AllIdle' /\ UNCHANGED backend /\ phase' = "down"
  BY DEF Ended, Stop, NetshFlush, Crash, AllIdle
<1>2. CASE ~OnWindows
  <2>1. ~Watching'
    BY <1>1, <1>2 DEF Watching, OnWindows
  <2>. QED
    BY <1>1, <2>1, IdleRange
<1>3. ASSUME OnWindows, c \notin unheard, c \notin contested, c \notin Halfway
      PROVE  /\ c \in wanted => "ACCEPT" \in ToSet(rules[c])
             /\ "ACCEPT" \in ToSet(rules[c]) => c \in wanted \cup AllowIPs
  <2>1. RangeOK(c) /\ Watching
    BY <1>3 DEF RangesOK, Watching
  <2>2. ASSUME NEW w \in Client PROVE ~At(w, c, "insert") /\ ~At(w, c, "purge")
    BY <1>3 DEF Halfway, At
  <2>. QED
    BY <2>1, <2>2 DEF RangeOK, Accepts
<1>4. CASE OnWindows /\ Crash
  <2>1. unheard' = unheard \cup Halfway /\ UNCHANGED <<rules, wanted, contested>>
    BY <1>4 DEF Crash, kernel
  <2>2. backend # "iptables"
    BY <1>4 DEF OnWindows
  <2>. QED
    BY <1>1, <1>3, <1>4, <2>1, <2>2, IdleRange
<1>5. CASE NetshFlush
  <2>1. PICK N : N = {r.cidr : r \in rows}
    OBVIOUS
  <2>2. PICK T \in {"open", table}, A \in SUBSET N, G \in SUBSET N :
          /\ table' = T
          /\ rules' = [d \in Cidr |-> InMatchingOrder({v \in ToSet(rules[d]) :
                          \/ v = "CONFIGURED" \/ d \notin N
                          \/ v = "ACCEPT" /\ d \in A
                          \/ v = "DROP" /\ d \in G})]
          /\ unheard' = unheard \cup Halfway \cup A
          /\ Fails(Cardinality(A) + Cardinality(G) + IF T = "open" THEN 0 ELSE 1)
    BY <1>5, <2>1, ZenonT(60) DEF NetshFlush
  <2>3. wanted' = {} /\ contested' = contested /\ backend # "iptables" /\ OnWindows
    BY <1>5 DEF NetshFlush, OnWindows
  <2>4. ASSUME "ACCEPT" \in ToSet(rules'[c]) PROVE c \in AllowIPs
    <3>1. PICK S : /\ S = {v \in ToSet(rules[c]) : \/ v = "CONFIGURED" \/ c \notin N
                                                   \/ v = "ACCEPT" /\ c \in A
                                                   \/ v = "DROP" /\ c \in G}
                   /\ rules'[c] = InMatchingOrder(S)
      BY <2>2
    <3>2. "ACCEPT" \in S
      BY <2>4, <3>1, InOrderIs
    <3>3. "ACCEPT" \in ToSet(rules[c]) /\ c \notin N
      BY <2>2, <3>1, <3>2
    <3>4. c \notin wanted
      <4>1. AllowRow(c).cidr = c
        BY DEF AllowRow
      <4>. QED
        BY <2>1, <3>3, <4>1 DEF RowsOK
    <3>. QED
      BY <1>3, <2>2, <2>3, <3>3, <3>4
  <2>. QED
    BY <1>1, <2>3, <2>4, IdleRange
<1>6. CASE Stop
  BY <1>2, <1>6 DEF Stop
<1>. QED
  BY <1>2, <1>4, <1>5, <1>6 DEF Ended

LEMMA GeoRanges ==
  ASSUME Types, PhaseOK, RangesOK, ApplyCached \/ Refreshing
  PROVE  RangesOK'
<1> SUFFICES ASSUME NEW c \in Cidr, c \notin contested', c \notin unheard' PROVE RangeOK(c)'
  BY DEF RangesOK
<1>1. /\ UNCHANGED <<backend, policy, call, wanted, contested>> /\ phase # "down"
      /\ unheard \subseteq unheard'
  <2>1. CASE ApplyCached
    BY <2>1 DEF ApplyCached
  <2>2. CASE Refreshing
    <3>1. phase = "up" /\ UNCHANGED <<backend, policy>>
      BY <2>2, UpSteps
    <3>2. UNCHANGED <<call, wanted, contested>> /\ unheard \subseteq unheard'
      <4>1. CASE CronRefresh \/ FetchFails \/ FetchList
        BY <4>1 DEF CronRefresh, FetchFails, FetchList, fwVars, past
      <4>2. CASE Clearing \/ FlushGeoBlocks \/ CommitTx \/ \E d \in Cidr : BlockCIDR(d) \/ BlockFails(d)
        BY <4>2 DEF Clearing, ClearRows, ClearRowsFails, FlushGeoBlocks, BlockCIDR, BlockFails, CommitTx, past
      <4>. QED
        BY <2>2, <4>1, <4>2 DEF Refreshing, GeoStep, Clearing
    <3>. QED
      BY <3>1, <3>2
  <2>. QED
    BY <2>1, <2>2
<1>2. PICK s, t : s = rules[c] /\ t = rules'[c] /\ s \in Seq(Verdict)
  BY DEF Types, TypeOK, FwTypeOK
<1>3. t \in {s, Insert(s, "DROP"), Delete(s, "DROP")}
  <2>. rules \in [Cidr -> Seq(Verdict)]
    BY DEF Types, TypeOK, FwTypeOK
  <2>1. CASE ApplyCached
    BY <1>2, <2>1 DEF ApplyCached
  <2>2. CASE FlushGeoBlocks
    BY <1>2, <2>2 DEF FlushGeoBlocks, Flushed
  <2>3. ASSUME NEW d \in Cidr, BlockCIDR(d) PROVE t \in {s, Insert(s, "DROP"), Delete(s, "DROP")}
    BY <1>2, <2>3 DEF BlockCIDR
  <2>4. CASE CronRefresh \/ FetchFails \/ FetchList \/ Clearing \/ CommitTx \/ \E d \in Cidr : BlockFails(d)
    BY <1>2, <2>4 DEF CronRefresh, FetchFails, FetchList, Clearing, ClearRows, ClearRowsFails, CommitTx,
                      BlockFails, fwVars, kernel
  <2>. QED
    BY <2>1, <2>2, <2>3, <2>4 DEF Refreshing, GeoStep, Clearing
<1>4. /\ "ACCEPT" \in ToSet(t) <=> "ACCEPT" \in ToSet(s)
      /\ backend = "iptables" /\ Once(s, "ACCEPT") => Once(t, "ACCEPT")
      /\ backend = "iptables" /\ DropsFirst(s) => DropsFirst(t)
  BY <1>2, <1>3, DropsOnly
<1>5. RangeOK(c) /\ (Watching' => Watching)
  BY <1>1 DEF RangesOK, Watching, OnWindows
<1>. QED
  BY <1>1, <1>2, <1>4, <1>5, RangeStays

(* A call that begins meets no other on its range, or the range is left    *)
(* out from now on.                                                        *)
LEMMA BeginRanges ==
  ASSUME Types, RangesOK, NEW w \in Client, NEW d \in Cidr, NEW pc \in {"add", "remove"},
         Begin(w, d, pc)
  PROVE  RangesOK'
<1> SUFFICES ASSUME NEW c \in Cidr, c \notin contested', c \notin unheard' PROVE RangeOK(c)'
  BY DEF RangesOK
<1>1. UNCHANGED <<rules, wanted, unheard, backend, policy, phase>> /\ phase = "up"
  BY DEF Begin, kernel, setup
<1>2. c \notin contested /\ RangeOK(c) /\ (Watching' => Watching)
  <2>1. c \notin contested /\ c \notin unheard
    BY <1>1 DEF Begin
  <2>. QED
    BY <1>1, <2>1 DEF RangesOK, Watching, OnWindows
<1>3. /\ call \in [Client -> Call] /\ call' = [call EXCEPT ![w] = [pc |-> pc, cidr |-> d]]
      /\ call[w].pc = "idle" /\ rules \in [Cidr -> Seq(Verdict)]
  BY IdleIs DEF Begin, Types, TypeOK, FwTypeOK
<1>4. CASE c # d
  <2>1. \A x \in Client : call'[x] = call[x] \/ (~Busy(x, c) /\ ~Busy(x, c)')
    BY <1>3, <1>4 DEF Busy
  <2>. QED
    BY <1>1, <1>2, <2>1, RangeStays
<1>5. CASE c = d
  <2>1. \A x \in Client : ~Busy(x, c)
    BY <1>2, <1>5 DEF Begin, Busy
  <2>2. pc = "add" /\ backend = "iptables" => ~Accepts(c)
    <3>1. pc = "add" /\ backend = "iptables" => ~Contains(rules[c], "ACCEPT")
      BY <1>2, <1>5 DEF Begin
    <3>2. PICK s : s = rules[c] /\ s \in Seq(Verdict)
      BY <1>3
    <3>3. DOMAIN s = 1..Len(s)
      BY <3>2
    <3>4. "ACCEPT" \in ToSet(s) => Contains(s, "ACCEPT")
      BY <3>3 DEF Contains, ToSet
    <3>. QED
      BY <3>1, <3>2, <3>4 DEF Accepts
  <2>3. \A x \in Client, p \in {"insert", "purge"} : ~At(x, c, p)
    BY <2>1 DEF Busy, At
  <2>4. ASSUME NEW x \in Client
        PROVE  /\ Busy(x, c)' => x = w
               /\ \A p \in {"insert", "purge"} : ~At(x, c, p)'
               /\ At(x, c, "add")' => pc = "add"
    <3>1. CASE x = w
      BY <1>3, <3>1 DEF Busy, At
    <3>2. CASE x # w
      <4>1. call'[x] = call[x]
        BY <1>3, <3>2
      <4>2. call[x].pc = "idle" \/ call[x].cidr # c
        BY <2>1 DEF Busy
      <4>. QED
        BY <4>1, <4>2 DEF Busy, At
    <3>. QED
      BY <3>1, <3>2
  <2>5. Accepts(c)' <=> Accepts(c)
    BY <1>1 DEF Accepts
  <2>. QED
    BY <1>1, <1>2, <2>2, <2>3, <2>4, <2>5 DEF RangeOK
<1>. QED
  BY <1>4, <1>5

(* A step of the only call on a range. *)
LEMMA CallRanges ==
  ASSUME Types, PhaseOK, RangesOK, NEW w \in Client, Command(w) \/ Statement(w)
  PROVE  RangesOK'
<1> SUFFICES ASSUME NEW c \in Cidr, c \notin contested', c \notin unheard' PROVE RangeOK(c)'
  BY DEF RangesOK
<1>1. UNCHANGED <<backend, policy, phase>> /\ phase = "up"
  BY UpSteps DEF Handler
<1>2. PICK d : d = call[w].cidr
  OBVIOUS
<1>3. /\ contested' = contested /\ unheard \subseteq unheard'
      /\ rules' \in {rules, [rules EXCEPT ![d] = Insert(@, "ACCEPT")],
                     [rules EXCEPT ![d] = Delete(@, "ACCEPT")]}
      /\ wanted' \in {wanted, wanted \cup {d}, wanted \ {d}}
  BY <1>2 DEF Command, AddRule, AddRuleFails, RemoveRule, RemoveRuleFails, Statement,
              InsertRow, PurgeRows, StatementFails, kernel, past
<1>4. RangeOK(c) /\ (Watching' <=> Watching)
  BY <1>1, <1>3 DEF RangesOK, Watching, OnWindows
<1>5. call \in [Client -> Call] /\ rules \in [Cidr -> Seq(Verdict)]
  BY DEF Types, TypeOK, FwTypeOK
<1>6. ASSUME Goto(w, "insert") PROVE call'[w].pc = "insert" /\ call'[w].cidr = d
  <2>1. PICK e : e = call[w] /\ e \in Call
    BY <1>5
  <2>2. call'[w] = [e EXCEPT !.pc = "insert"]
    BY <1>5, <1>6, <2>1 DEF Goto
  <2>. QED
    BY <1>2, <2>1, <2>2 DEF Call
<1>7. ASSUME Goto(w, "purge") PROVE call'[w].pc = "purge" /\ call'[w].cidr = d
  <2>1. PICK e : e = call[w] /\ e \in Call
    BY <1>5
  <2>2. call'[w] = [e EXCEPT !.pc = "purge"]
    BY <1>5, <1>7, <2>1 DEF Goto
  <2>. QED
    BY <1>2, <2>1, <2>2 DEF Call
<1>8. ASSUME Return(w) PROVE call'[w].pc = "idle"
  BY <1>5, <1>8, IdleIs DEF Return
<1>9. ASSUME NEW x \in Client, x # w PROVE call'[x] = call[x]
  <2>1. Goto(w, "insert") \/ Goto(w, "purge") \/ Return(w)
    BY DEF Command, AddRule, AddRuleFails, RemoveRule, RemoveRuleFails, Statement,
           InsertRow, PurgeRows, StatementFails
  <2>. QED
    BY <1>5, <1>9, <2>1 DEF Goto, Return
<1>10. Goto(w, "insert") \/ Goto(w, "purge") \/ Return(w)
  BY DEF Command, AddRule, AddRuleFails, RemoveRule, RemoveRuleFails, Statement,
         InsertRow, PurgeRows, StatementFails
<1>11. CASE c # d
  <2>1. ~Busy(w, c) /\ ~Busy(w, c)'
    BY <1>2, <1>6, <1>7, <1>8, <1>10, <1>11 DEF Busy
  <2>2. rules'[c] = rules[c] /\ (c \in wanted' <=> c \in wanted)
    BY <1>3, <1>5, <1>11
  <2>. QED
    BY <1>1, <1>4, <1>9, <2>1, <2>2, RangeStays
<1>12. CASE c = d
  <2>1. Busy(w, c)
    BY <1>2, <1>12 DEF Busy, Command, AddRule, AddRuleFails, RemoveRule, RemoveRuleFails, Statement,
                       InsertRow, PurgeRows, StatementFails
  <2>2. \A x \in Client : x # w => ~Busy(x, c) /\ ~Busy(x, c)'
    BY <1>4, <1>9, <2>1 DEF RangeOK, Busy
  <2>3. ASSUME NEW x \in Client, x # w, NEW p \in {"add", "insert", "purge"} PROVE ~At(x, c, p) /\ ~At(x, c, p)'
    BY <2>2, <2>3 DEF Busy, At
  <2>4. \A x, y \in Client : Busy(x, c)' /\ Busy(y, c)' => x = y
    BY <2>2
  <2>5. PICK s : s = rules[c] /\ s \in Seq(Verdict) /\ "ACCEPT" \in Verdict
    BY <1>5 DEF Verdict
  <2>6. CASE AddRule(w)
    <3>1. At(w, c, "add") /\ At(w, c, "insert")' /\ wanted' = wanted /\ rules'[c] = Insert(s, "ACCEPT")
      BY <1>2, <1>5, <1>6, <1>12, <2>5, <2>6 DEF AddRule, At, past
    <3>2. ~At(w, c, "purge")' /\ ~At(w, c, "add")'
      BY <3>1 DEF At
    <3>3. /\ Watching => (backend = "iptables" => Once(rules'[c], "ACCEPT"))
          /\ Accepts(c)'
      <4>1. /\ ToSet(Insert(s, "ACCEPT")) = ToSet(s) \cup {"ACCEPT"}
            /\ backend = "iptables" /\ Once(s, "ACCEPT") /\ "ACCEPT" \notin ToSet(s)
                 => Once(Insert(s, "ACCEPT"), "ACCEPT")
        BY <2>5, InsertIs
      <4>2. Watching /\ backend = "iptables" => Once(s, "ACCEPT") /\ "ACCEPT" \notin ToSet(s)
        BY <1>4, <2>5, <3>1 DEF RangeOK, Accepts
      <4>. QED
        BY <3>1, <4>1, <4>2 DEF Accepts
    <3>. QED
      BY <1>1, <1>4, <2>3, <2>4, <3>1, <3>2, <3>3 DEF RangeOK
  <2>7. CASE RemoveRule(w)
    <3>1. At(w, c, "remove") /\ At(w, c, "purge")' /\ rules'[c] = Delete(s, "ACCEPT")
      BY <1>2, <1>5, <1>7, <1>12, <2>5, <2>7 DEF RemoveRule, At
    <3>2. ~At(w, c, "insert")' /\ ~At(w, c, "add")'
      BY <3>1 DEF At
    <3>3. Watching => (backend = "iptables" => Once(rules'[c], "ACCEPT")) /\ ~Accepts(c)'
      <4>1. /\ (backend = "iptables" => Once(s, "ACCEPT")) => "ACCEPT" \notin ToSet(Delete(s, "ACCEPT"))
            /\ backend = "iptables" /\ Once(s, "ACCEPT") => Once(Delete(s, "ACCEPT"), "ACCEPT")
        BY <2>5, DeleteIs
      <4>2. Watching /\ backend = "iptables" => Once(s, "ACCEPT")
        BY <1>4, <2>5 DEF RangeOK
      <4>. QED
        BY <3>1, <4>1, <4>2 DEF Accepts
    <3>4. ~Accepts(c)' => DropsFirst(rules'[c])
      BY DEF Accepts, ToSet, DropsFirst
    <3>. QED
      BY <1>1, <1>4, <2>3, <2>4, <3>1, <3>2, <3>3, <3>4 DEF RangeOK
  <2>8. CASE RemoveRuleFails(w) \/ StatementFails(w)
    BY <1>2, <1>12, <2>8 DEF RemoveRuleFails, StatementFails
  <2>9. CASE AddRuleFails(w) \/ InsertRow(w) \/ PurgeRows(w)
    <3>1. rules' = rules /\ call'[w].pc = "idle"
      BY <1>8, <2>9 DEF AddRuleFails, InsertRow, PurgeRows, kernel
    <3>2. \A p \in {"add", "insert", "purge"} : ~At(w, c, p)'
      BY <3>1 DEF At
    <3>3. \A x \in Client, p \in {"add", "insert", "purge"} : ~At(x, c, p)'
      BY <2>3, <3>2
    <3>4. Accepts(c)' <=> Accepts(c)
      BY <3>1 DEF Accepts
    <3>5. ASSUME Watching
          PROVE  (c \in wanted' => Accepts(c)) /\ (Accepts(c) => c \in wanted' \cup AllowIPs)
      <4>1. CASE AddRuleFails(w)
        <5>1. At(w, c, "add") /\ wanted' = wanted
          BY <1>2, <1>12, <4>1 DEF AddRuleFails, At, past
        <5>2. ~At(w, c, "purge") /\ ~At(w, c, "insert")
          BY <5>1 DEF At
        <5>3. \A x \in Client : ~At(x, c, "purge") /\ ~At(x, c, "insert")
          BY <2>3, <5>2
        <5>. QED
          BY <1>4, <3>5, <5>1, <5>3 DEF RangeOK
      <4>2. CASE InsertRow(w)
        <5>1. At(w, c, "insert") /\ c \in wanted'
          BY <1>2, <1>12, <4>2 DEF InsertRow, At
        <5>. QED
          BY <1>4, <3>5, <5>1 DEF RangeOK
      <4>3. CASE PurgeRows(w)
        <5>1. At(w, c, "purge") /\ c \notin wanted'
          BY <1>2, <1>12, <4>3 DEF PurgeRows, At
        <5>. QED
          BY <1>4, <3>5, <5>1 DEF RangeOK
      <4>. QED
        BY <2>9, <4>1, <4>2, <4>3
    <3>6. Watching /\ backend = "iptables" => Once(rules'[c], "ACCEPT")
      BY <1>4, <3>1 DEF RangeOK
    <3>7. Watching /\ backend = "iptables" => DropsFirst(rules'[c]) \/ c \in wanted'
      <4>1. CASE AddRuleFails(w)
        <5>1. At(w, c, "add") /\ wanted' = wanted
          BY <1>2, <1>12, <4>1 DEF AddRuleFails, At, past
        <5>2. \A x \in Client : ~At(x, c, "insert")
          BY <2>3, <5>1 DEF At
        <5>. QED
          BY <1>4, <3>1, <5>1, <5>2 DEF RangeOK
      <4>2. CASE InsertRow(w)
        BY <1>2, <1>12, <4>2 DEF InsertRow
      <4>3. CASE PurgeRows(w)
        <5>1. At(w, c, "purge")
          BY <1>2, <1>12, <4>3 DEF PurgeRows, At
        <5>2. Watching => ~Accepts(c)
          BY <1>4, <5>1 DEF RangeOK
        <5>3. ~Accepts(c) => DropsFirst(rules[c])
          BY DEF Accepts, ToSet, DropsFirst
        <5>. QED
          BY <3>1, <5>2, <5>3
      <4>. QED
        BY <2>9, <4>1, <4>2, <4>3
    <3>. QED
      BY <1>1, <1>4, <2>4, <3>3, <3>4, <3>5, <3>6, <3>7 DEF RangeOK
  <2>. QED
    BY <2>6, <2>7, <2>8, <2>9 DEF Command, Statement
<1>. QED
  BY <1>11, <1>12

LEMMA GuardNext == GuardOK /\ [Next]_vars => GuardOK'
<1> SUFFICES ASSUME GuardOK, [Next]_vars PROVE GuardOK'
  OBVIOUS
<1>1. Types /\ PhaseOK /\ RowsOK /\ RulesOK /\ FreshOK /\ RangesOK
  BY DEF GuardOK
<1>2. Types' /\ PhaseOK' /\ RowsOK' /\ RulesOK' /\ FreshOK'
  BY <1>1, TypesNext, PhaseNext, RowsNext, RulesNext, FreshNext
<1>3. ASSUME UNCHANGED vars PROVE RangesOK'
  BY <1>1, <1>3 DEF vars, fwVars, kernel, setup, past, RangesOK, RangeOK, Busy, At, Accepts, Watching, OnWindows
<1>4. ASSUME NEW w \in Client, Handler(w) PROVE RangesOK'
  <2>1. CASE Lookup(w)
    <3>1. PICK r \in rows : BeginRemove(w, r)
      BY <2>1 DEF Lookup
    <3>2. r.cidr \in Cidr
      BY <1>1 DEF Types, TypeOK, FwTypeOK, Row
    <3>. QED
      BY <1>1, <3>1, <3>2, BeginRanges DEF BeginRemove
  <2>2. ASSUME NEW c \in Cidr, BeginAdd(w, c) PROVE RangesOK'
    BY <1>1, <2>2, BeginRanges DEF BeginAdd
  <2>. QED
    BY <1>1, <1>4, <2>1, <2>2, CallRanges DEF Handler
<1>5. RangesOK'
  BY <1>1, <1>3, <1>4, StartRanges, EndRanges, GeoRanges DEF Next, Handler, Refreshing
<1>. QED
  BY <1>2, <1>5 DEF GuardOK

LEMMA GuardInit == Init => GuardOK
<1> SUFFICES ASSUME Init PROVE GuardOK
  OBVIOUS
<1>1. Types /\ PhaseOK /\ RowsOK /\ RulesOK /\ FreshOK
  BY TypesInit, PhaseInit, RulesInit DEF Init, FwInit, FreshOK
<1>2. ASSUME NEW c \in Cidr PROVE RangeOK(c)
  <2>1. rules[c] = <<>> /\ wanted = {} /\ \A w \in Client : call[w].pc = "idle"
    BY IdleIs DEF Init, FwInit, Empty
  <2>2. ToSet(<<>>) = {} /\ Once(<<>>, "ACCEPT") /\ DropsFirst(<<>>)
    BY DEF ToSet, Once, DropsFirst
  <2>. QED
    BY <2>1, <2>2 DEF RangeOK, Busy, At, Accepts
<1>. QED
  BY <1>1, <1>2 DEF GuardOK, RangesOK

(* No packet leaves for a range that is neither configured nor wanted.     *)
THEOREM DenyHolds == Spec => []DenyInForce
<1>1. GuardOK => DenyInForce
  <2> SUFFICES ASSUME GuardOK,
                      NEW c \in Cidr, c \notin AllowIPs, c \notin wanted, c \notin contested, c \notin unheard,
                      phase = "up", applied, Quiet(c), backend # "iptables" \/ table = "shut"
               PROVE  ~Reachable(c)
    BY DEF DenyInForce, ClosedBut
  <2>1. table = "shut" /\ Watching
    BY DEF GuardOK, PhaseOK, Watching
  <2>2. \A w \in Client : ~At(w, c, "insert")
    BY DEF Quiet, At
  <2>3. "ACCEPT" \notin ToSet(rules[c]) /\ "CONFIGURED" \notin ToSet(rules[c])
    BY <2>1, <2>2 DEF GuardOK, RulesOK, RangesOK, RangeOK, Accepts
  <2>4. PICK s : s = rules[c] /\ s \in Seq(Verdict)
    BY DEF GuardOK, Types, TypeOK, FwTypeOK
  <2>5. s # <<>> => Head(s) = "DROP"
    <3>1. s # <<>> => Head(s) \in Verdict /\ Head(s) \in ToSet(s)
      BY <2>4 DEF ToSet
    <3>. QED
      BY <2>3, <2>4, <3>1 DEF Verdict
  <2>. QED
    BY <2>1, <2>4, <2>5 DEF Reachable, Decides
<1>. QED
  BY <1>1, GuardInit, GuardNext, PTL DEF Spec

(* A range allowed since the rules were last taken away is listed, and     *)
(* reachable unless it is dropped for its country.                         *)
THEOREM WantedHolds == Spec => []WantedInForce
<1>1. GuardOK => WantedInForce
  <2> SUFFICES ASSUME GuardOK, NEW c \in wanted, c \notin contested, c \notin unheard,
                      phase = "up", policy = "deny", Quiet(c)
               PROVE  AllowRow(c) \in rows /\ ("DROP" \in ToSet(rules[c]) \/ Reachable(c))
    BY DEF WantedInForce
  <2>1. c \in Cidr /\ Watching
    BY DEF GuardOK, Types, TypeOK, FwTypeOK, Watching
  <2>2. \A w \in Client : ~At(w, c, "purge")
    BY DEF Quiet, At
  <2>3. "ACCEPT" \in ToSet(rules[c])
    BY <2>1, <2>2 DEF GuardOK, RangesOK, RangeOK, Accepts
  <2>4. PICK s : s = rules[c] /\ s \in Seq(Verdict)
    BY <2>1 DEF GuardOK, Types, TypeOK, FwTypeOK
  <2>5. ASSUME "DROP" \notin ToSet(s) PROVE Decides(c) = "ACCEPT"
    <3>1. s # <<>>
      BY <2>3, <2>4 DEF ToSet
    <3>2. Head(s) \in ToSet(s)
      BY <2>4, <3>1 DEF ToSet
    <3>. QED
      BY <2>4, <2>5, <3>1, <3>2 DEF Decides
  <2>6. table \in {"absent", "loose", "open", "shut"}
    BY DEF GuardOK, Types, TypeOK, FwTypeOK
  <2>. QED
    BY <2>4, <2>5, <2>6 DEF Reachable, GuardOK, RowsOK
<1>. QED
  BY <1>1, GuardInit, GuardNext, PTL DEF Spec

---------------------------------------------------------------------------
(* The ranges of the blocked country.  A refresh deletes the rows of its   *)
(* country before it flushes, so that with one country nothing that is     *)
(* recorded is flushed, and what it records it has dropped.                *)

GeoOK ==
  /\ phase # "up" => geo = Resting
  /\ geo.pc # "block" => geo.tx = {}
  /\ geo.pc \in {"flush", "block"} => Cached \subseteq unheard
  /\ \A r \in GeoRows : r.cc \in Country
  /\ phase = "up" => \A c \in geo.tx \cup Cached : c \in unheard \/ "DROP" \in ToSet(rules[c])

CountryOK == Types /\ PhaseOK /\ RulesOK /\ GeoOK

LEMMA HandlerGeo ==
  ASSUME Types, PhaseOK, GeoOK, NEW w \in Client, Handler(w), UNCHANGED geo
  PROVE  GeoOK'
<1>1. phase = "up" /\ phase' = "up" /\ UNCHANGED backend
  BY UpSteps
<1>2. rules \in [Cidr -> Seq(Verdict)] /\ geo \in Refresh /\ rows \subseteq Row
  BY DEF Types, TypeOK, FwTypeOK
<1>3. /\ unheard \subseteq unheard'
      /\ \A r \in rows' : r \in rows \/ r.type = "ip"
  <2>1. CASE Lookup(w) \/ \E c \in Cidr : BeginAdd(w, c)
    BY <2>1 DEF Lookup, BeginAdd, BeginRemove, Begin
  <2>2. CASE Command(w)
    BY <2>2 DEF Command, AddRule, AddRuleFails, RemoveRule, RemoveRuleFails, past
  <2>3. CASE InsertRow(w) \/ StatementFails(w)
    BY <2>3 DEF InsertRow, StatementFails, AllowRow
  <2>4. CASE PurgeRows(w)
    BY <2>4 DEF PurgeRows
  <2>. QED
    BY <2>1, <2>2, <2>3, <2>4 DEF Handler, Statement
<1>4. GeoRows' \subseteq GeoRows
  BY <1>3 DEF GeoRows
<1>5. Cached' \subseteq Cached
  BY <1>4 DEF Cached
<1>6. \A c \in Cidr : rules'[c] \in {rules[c], Insert(rules[c], "ACCEPT"), Delete(rules[c], "ACCEPT")}
  <2>1. CASE AddRule(w) \/ RemoveRule(w)
    BY <1>2, <2>1 DEF AddRule, RemoveRule
  <2>2. CASE AddRuleFails(w) \/ RemoveRuleFails(w) \/ Statement(w)
    BY <2>2 DEF AddRuleFails, RemoveRuleFails, Statement, InsertRow, PurgeRows, StatementFails, kernel
  <2>3. CASE Lookup(w) \/ \E c \in Cidr : BeginAdd(w, c)
    BY <2>3 DEF Lookup, BeginAdd, BeginRemove, Begin, kernel
  <2>. QED
    BY <2>1, <2>2, <2>3 DEF Handler, Command
<1>7. ASSUME NEW c \in Cidr, "DROP" \in ToSet(rules[c]) PROVE "DROP" \in ToSet(rules'[c])
  <2>1. PICK s : s = rules[c] /\ s \in Seq(Verdict) /\ "ACCEPT" \in Verdict /\ "DROP" \in Verdict
    BY <1>2 DEF Verdict
  <2>2. "DROP" \in ToSet(Insert(s, "ACCEPT")) /\ "DROP" \in ToSet(Delete(s, "ACCEPT"))
    BY <1>7, <2>1, InsertIs, DeleteIs
  <2>. QED
    BY <1>6, <1>7, <2>1, <2>2
<1>8. geo.tx \subseteq Cidr /\ Cached \subseteq Cidr
  BY <1>2 DEF Refresh, Cached, GeoRows, Row
<1>9. \A c \in geo'.tx \cup Cached' : c \in unheard' \/ "DROP" \in ToSet(rules'[c])
  BY <1>1, <1>3, <1>5, <1>7, <1>8 DEF GeoOK
<1>. QED
  BY <1>1, <1>3, <1>4, <1>5, <1>9 DEF GeoOK

(* A step that asks for no list keeps the rest of the refresh. *)
LEMMA RefreshGeo ==
  ASSUME \A a, b \in Country : a = b, Types, PhaseOK, GeoOK, Refreshing
  PROVE  GeoOK'
<1>1. phase = "up" /\ phase' = "up" /\ UNCHANGED backend
  BY UpSteps
<1>2. rules \in [Cidr -> Seq(Verdict)] /\ geo \in Refresh /\ rows \subseteq Row
  BY DEF Types, TypeOK, FwTypeOK
<1>3. /\ geo.pc # "block" => geo.tx = {}
      /\ geo.pc \in {"flush", "block"} => Cached \subseteq unheard
      /\ \A r \in GeoRows : r.cc \in Country
      /\ \A c \in geo.tx \cup Cached : c \in unheard \/ "DROP" \in ToSet(rules[c])
  BY <1>1 DEF GeoOK
<1>4. geo = [pc |-> geo.pc, left |-> geo.left, todo |-> geo.todo, tx |-> geo.tx]
  BY <1>2 DEF Refresh
<1>5. Resting.tx = {} /\ Resting.pc = "idle"
  BY DEF Resting
<1>6. Next1(geo).tx = {} /\ Next1(geo).pc \in {"idle", "fetch"}
  BY DEF Next1, Resting
<1>7. CASE CronRefresh \/ FetchFails \/ FetchList
  <2>1. geo'.tx = {} /\ geo'.pc \notin {"flush", "block"}
    <3>1. CASE CronRefresh
      <4>1. geo' = [Resting EXCEPT !.pc = "fetch", !.left = Order]
        BY <3>1 DEF CronRefresh
      <4>2. geo' = [pc |-> "fetch", left |-> Order, todo |-> {}, tx |-> {}]
        BY <4>1 DEF Resting
      <4>. QED
        BY <4>2
    <3>2. CASE FetchFails
      BY <1>6, <3>2 DEF FetchFails
    <3>3. CASE FetchList
      <4>1. PICK L : geo' = [geo EXCEPT !.pc = "clear", !.todo = L]
        BY <3>3 DEF FetchList
      <4>2. geo' = [pc |-> "clear", left |-> geo.left, todo |-> L, tx |-> geo.tx]
        BY <1>4, <4>1
      <4>. QED
        BY <1>3, <3>3, <4>2 DEF FetchList
    <3>. QED
      BY <1>7, <3>1, <3>2, <3>3
  <2>2. UNCHANGED <<rows, rules, unheard>>
    BY <1>7 DEF CronRefresh, FetchFails, FetchList, fwVars, kernel, past
  <2>3. GeoRows' = GeoRows /\ Cached' = Cached
    BY <2>2 DEF GeoRows, Cached
  <2>. QED
    BY <1>1, <1>3, <2>1, <2>2, <2>3 DEF GeoOK
<1>8. CASE ClearRows
  <2>1. rows' = {r \in rows : ~OfCountry(r)} /\ geo.pc = "clear" /\ Go("flush")
    BY <1>8 DEF ClearRows
  <2>2. Head(geo.left) \in Country
    BY <1>2, <2>1, GoOK DEF Types
  <2>3. GeoRows' = {}
    BY <1>3, <2>1, <2>2 DEF GeoRows, OfCountry
  <2>4. Cached' = {}
    BY <2>3 DEF Cached
  <2>5. geo' = [pc |-> "flush", left |-> geo.left, todo |-> geo.todo, tx |-> geo.tx]
    BY <1>4, <2>1 DEF Go
  <2>. QED
    BY <1>1, <1>3, <2>1, <2>3, <2>4, <2>5 DEF GeoOK
<1>9. CASE ClearRowsFails \/ FlushGeoBlocks
  <2>1. rows' = rows /\ geo.pc \in {"clear", "flush"} /\ (Go("flush") \/ Go("block"))
    BY <1>9 DEF ClearRowsFails, FlushGeoBlocks
  <2>2. geo'.tx = {}
    <3>1. PICK pc : geo' = [geo EXCEPT !.pc = pc]
      BY <2>1 DEF Go
    <3>2. geo' = [pc |-> pc, left |-> geo.left, todo |-> geo.todo, tx |-> geo.tx]
      BY <1>4, <3>1
    <3>. QED
      BY <1>3, <2>1, <3>2
  <2>3. GeoRows' = GeoRows /\ Cached' = Cached
    BY <2>1 DEF GeoRows, Cached
  <2>4. Cached \subseteq unheard'
    <3>1. CASE ClearRowsFails
      <4>1. geo.pc = "clear" /\ unheard' = unheard \cup {r.cidr : r \in {x \in rows : OfCountry(x)}}
        BY <3>1 DEF ClearRowsFails
      <4>2. Head(geo.left) \in Country
        BY <1>2, <4>1, GoOK DEF Types
      <4>3. \A r \in GeoRows : r \in rows /\ OfCountry(r)
        BY <1>3, <4>2 DEF GeoRows, OfCountry
      <4>. QED
        BY <4>1, <4>3 DEF Cached
    <3>2. CASE FlushGeoBlocks
      BY <1>3, <3>2 DEF FlushGeoBlocks, past
    <3>. QED
      BY <1>9, <3>1, <3>2
  <2>. QED
    BY <1>1, <1>3, <2>2, <2>3, <2>4 DEF GeoOK
<1>10. ASSUME NEW d \in Cidr, BlockCIDR(d) \/ BlockFails(d) PROVE GeoOK'
  <2>1. geo.pc = "block" /\ UNCHANGED <<rows, unheard>>
    BY <1>10 DEF BlockCIDR, BlockFails, past
  <2>2. GeoRows' = GeoRows
    BY <2>1 DEF GeoRows
  <2>3. Cached' = Cached /\ Cached \subseteq unheard'
    BY <1>3, <2>1, <2>2 DEF Cached
  <2>4. CASE BlockCIDR(d)
    <3>1. PICK T, X : T = geo.todo \ {d} /\ X = geo.tx \cup {d}
      OBVIOUS
    <3>2. geo' = [geo EXCEPT !.todo = T, !.tx = X]
      BY <2>4, <3>1 DEF BlockCIDR
    <3>3. geo' = [pc |-> "block", left |-> geo.left, todo |-> T, tx |-> X]
      BY <1>4, <2>1, <3>2
    <3>4. PICK s : s = rules[d] /\ s \in Seq(Verdict) /\ "DROP" \in Verdict
      BY <1>2 DEF Verdict
    <3>5. "DROP" \in ToSet(Insert(s, "DROP"))
      BY <3>4, InsertIs
    <3>6. rules' = [rules EXCEPT ![d] = Insert(s, "DROP")]
      BY <2>4, <3>4 DEF BlockCIDR
    <3>7. \A c \in X : c \in unheard' \/ "DROP" \in ToSet(rules'[c])
      <4>1. ASSUME NEW c \in X PROVE c \in unheard' \/ "DROP" \in ToSet(rules'[c])
        <5>1. CASE c = d
          BY <1>2, <3>5, <3>6, <5>1
        <5>2. CASE c # d
          <6>1. rules'[c] = rules[c] /\ c \in geo.tx /\ c \in Cidr
            BY <1>2, <3>1, <3>6, <4>1, <5>2 DEF Refresh
          <6>. QED
            BY <1>3, <2>1, <6>1
        <5>. QED
          BY <5>1, <5>2
      <4>. QED
        BY <4>1
    <3>. QED
      BY <1>1, <1>3, <2>2, <2>3, <3>3, <3>7 DEF GeoOK
  <2>5. CASE BlockFails(d)
    <3>1. PICK T : T = geo.todo \ {d}
      OBVIOUS
    <3>2. geo' = [geo EXCEPT !.todo = T] /\ UNCHANGED rules
      BY <2>5, <3>1 DEF BlockFails, kernel
    <3>3. geo' = [pc |-> "block", left |-> geo.left, todo |-> T, tx |-> geo.tx]
      BY <1>4, <2>1, <3>2
    <3>. QED
      BY <1>1, <1>3, <2>1, <2>2, <2>3, <3>2, <3>3 DEF GeoOK
  <2>. QED
    BY <1>10, <2>4, <2>5
<1>11. CASE CommitTx
  <2>1. PICK h : h = Head(geo.left)
    OBVIOUS
  <2>2. /\ geo' = Next1(geo) /\ geo.pc = "block" /\ UNCHANGED <<rules, unheard>>
        /\ \A r \in rows' : r \in rows \/ \E c \in geo.tx : r = GeoRow(c, h)
    BY <1>11, <2>1 DEF CommitTx, kernel, past
  <2>3. h \in Country
    BY <1>2, <2>1, <2>2, GoOK DEF Types
  <2>4. ASSUME NEW r \in GeoRows' PROVE r.cc \in Country /\ r.cidr \in geo.tx \cup Cached
    BY <1>3, <2>2, <2>3, <2>4 DEF GeoRows, GeoRow, Cached
  <2>5. Cached' \subseteq geo.tx \cup Cached
    BY <2>4 DEF Cached
  <2>. QED
    BY <1>1, <1>3, <1>6, <2>2, <2>4, <2>5 DEF GeoOK
<1>. QED
  BY <1>7, <1>8, <1>9, <1>10, <1>11 DEF Refreshing, GeoStep

LEMMA CountryNext ==
  ASSUME \A a, b \in Country : a = b
  PROVE  CountryOK /\ [Next]_vars => CountryOK'
<1> SUFFICES ASSUME CountryOK, [Next]_vars PROVE CountryOK'
  OBVIOUS
<1>1. Types /\ PhaseOK /\ RulesOK /\ GeoOK
  BY DEF CountryOK
<1>2. Types' /\ PhaseOK' /\ RulesOK'
  BY <1>1, TypesNext, PhaseNext, RulesNext
<1>3. ASSUME UNCHANGED rows PROVE GeoRows' = GeoRows /\ Cached' = Cached
  BY <1>3 DEF GeoRows, Cached
<1>4. ASSUME UNCHANGED vars PROVE GeoOK'
  BY <1>1, <1>3, <1>4 DEF vars, fwVars, kernel, setup, past, GeoOK
<1>5. ASSUME StartUp PROVE GeoOK'
  <2>0. Resting.pc = "idle"
    BY DEF Resting
  <2>1. UNCHANGED <<rows, geo>> /\ phase # "up" /\ phase' # "up"
    BY <1>5 DEF StartUp, Reset, ResetFails, Populate, Close, CloseFails, NetshPolicy, NetshPopulate, Launch
  <2>. QED
    BY <1>1, <1>3, <2>0, <2>1 DEF GeoOK
<1>6. ASSUME Ended, geo' = Resting PROVE GeoOK'
  <2>1. UNCHANGED rows /\ phase' # "up"
    BY <1>6 DEF Ended, Stop, NetshFlush, Crash
  <2>2. Resting.tx = {} /\ Resting.pc = "idle"
    BY DEF Resting
  <2>. QED
    BY <1>1, <1>3, <1>6, <2>1, <2>2 DEF GeoOK
<1>7. ASSUME ApplyCached PROVE GeoOK'
  <2>1. UNCHANGED <<rows, backend>> /\ phase' = "up"
    BY <1>7 DEF ApplyCached
  <2>2. PICK S \in SUBSET Cached :
          /\ unheard' = unheard \cup (Cached \ S)
          /\ rules' = [c \in Cidr |-> IF c \in S THEN Insert(rules[c], "DROP") ELSE rules[c]]
    BY <1>7 DEF ApplyCached
  <2>3. geo'.tx = {} /\ geo'.pc \in {"fetch", "idle"}
    <3>1. Resting.tx = {} /\ Resting.pc = "idle"
      BY DEF Resting
    <3>. QED
      BY <1>7, <3>1, AskOK DEF ApplyCached
  <2>4. ASSUME NEW c \in Cached PROVE c \in unheard' \/ "DROP" \in ToSet(rules'[c])
    <3>1. c \in Cidr /\ rules \in [Cidr -> Seq(Verdict)]
      BY <1>1 DEF Types, TypeOK, FwTypeOK, Cached, GeoRows, Row
    <3>2. PICK s : s = rules[c] /\ s \in Seq(Verdict) /\ "DROP" \in Verdict
      BY <3>1 DEF Verdict
    <3>3. "DROP" \in ToSet(Insert(s, "DROP"))
      BY <3>2, InsertIs
    <3>. QED
      BY <2>2, <3>1, <3>2, <3>3
  <2>. QED
    BY <1>1, <1>3, <2>1, <2>3, <2>4 DEF GeoOK
<1>8. ASSUME NEW w \in Client, Handler(w), UNCHANGED geo PROVE GeoOK'
  BY <1>1, <1>8, HandlerGeo
<1>9. GeoOK'
  BY <1>1, <1>4, <1>5, <1>6, <1>7, <1>8, RefreshGeo DEF Next, Handler, Refreshing
<1>. QED
  BY <1>2, <1>9 DEF CountryOK

LEMMA CountryInit == Init => CountryOK
<1> SUFFICES ASSUME Init PROVE CountryOK
  OBVIOUS
<1>1. Types /\ PhaseOK /\ RulesOK
  BY TypesInit, PhaseInit, RulesInit
<1>2. geo = Resting /\ phase = "down" /\ GeoRows = {}
  BY DEF Init, FwInit, GeoRows
<1>3. Resting.tx = {} /\ Resting.pc = "idle"
  BY DEF Resting
<1>. QED
  BY <1>1, <1>2, <1>3 DEF CountryOK, GeoOK

(* With one blocked country, each of its recorded ranges is dropped        *)
(* whenever no refresh is under way, in spite of the configuration, and on *)
(* iptables unless a call has allowed it.  (With two countries it is not:  *)
(* the refresh of the second flushes what the first has blocked.)          *)
THEOREM CountryIsDropped ==
  ASSUME \A a, b \in Country : a = b
  PROVE  Spec => []GeoInForce
<1>1. GuardOK /\ CountryOK => GeoInForce
  <2> SUFFICES ASSUME GuardOK, CountryOK, NEW r \in GeoRows,
                      phase = "up", table = "shut", geo.pc = "idle", r.cidr \notin unheard
               PROVE  /\ "DROP" \in ToSet(rules[r.cidr])
                      /\ ~Reachable(r.cidr) \/ Overridden(r.cidr)
    BY DEF GeoInForce
  <2>1. PICK c : c = r.cidr /\ c \in Cidr /\ c \in Cached
    BY DEF CountryOK, Types, TypeOK, FwTypeOK, GeoRows, Row, Cached
  <2>2. "DROP" \in ToSet(rules[c])
    BY <2>1 DEF CountryOK, GeoOK
  <2>3. ASSUME backend # "iptables" PROVE ~Reachable(c)
    <3>1. rules[c] = InMatchingOrder(ToSet(rules[c]))
      BY <2>1, <2>3 DEF CountryOK, RulesOK, InOrder
    <3>2. rules[c] # <<>> /\ Head(rules[c]) = "DROP"
      BY <2>2, <3>1, InOrderIs
    <3>. QED
      BY <3>2 DEF Reachable, Decides
  <2>4. ASSUME backend = "iptables", ~Overridden(c) PROVE ~Reachable(c)
    <3>1. policy = "deny" /\ c \notin wanted \cup contested /\ \A w \in Client : ~At(w, c, "insert")
      BY <2>4 DEF Overridden, Quiet, At
    <3>2. RangeOK(c) /\ Watching /\ "CONFIGURED" \notin ToSet(rules[c])
      BY <2>1, <2>4, <3>1 DEF GuardOK, RangesOK, RulesOK, Watching, OnWindows
    <3>3. DropsFirst(rules[c])
      BY <2>4, <3>1, <3>2 DEF RangeOK
    <3>4. PICK s : s = rules[c] /\ s \in Seq(Verdict)
      BY <2>1 DEF GuardOK, Types, TypeOK, FwTypeOK
    <3>5. PICK j \in 1..Len(s) : s[j] = "DROP"
      BY <2>2, <3>4 DEF ToSet
    <3>6. s # <<>> /\ Head(s) = s[1] /\ 1 \in DOMAIN s /\ j \in DOMAIN s /\ Len(s) \in Nat
      BY <3>4, <3>5
    <3>7. Head(s) # "ACCEPT"
      <4>1. ~(j < 1)
        BY <3>5, <3>6
      <4>. QED
        BY <3>3, <3>4, <3>5, <3>6, <4>1 DEF DropsFirst
    <3>8. Head(s) # "CONFIGURED"
      BY <3>2, <3>4, <3>6 DEF ToSet
    <3>9. Head(s) \in Verdict
      BY <3>4, <3>6
    <3>10. Head(s) = "DROP"
      BY <3>7, <3>8, <3>9 DEF Verdict
    <3>. QED
      BY <2>4, <3>4, <3>6, <3>10 DEF Reachable, Decides
  <2>. QED
    BY <2>1, <2>2, <2>3, <2>4
<1>. QED
  BY <1>1, GuardInit, GuardNext, CountryInit, CountryNext, PTL DEF Spec
===========================================================================
