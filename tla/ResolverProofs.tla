-------------------------- MODULE ResolverProofs --------------------------
(***************************************************************************)
(* Proofs about Resolver for any names, feeds, addresses and numbers of    *)
(* queries: its type invariant and its four safety properties.  The        *)
(* conjuncts of the inductive invariant each speak of one part, the list,  *)
(* the queries, the lookups and the cache, and are shown one at a time.    *)
(***************************************************************************)
EXTENDS Resolver, TLAPS

FetchRec ==
  [pc : {"sleep", "get", "begin", "read"}]
    \cup [pc : {"commit"}, fresh : SUBSET Domains, tx : SUBSET Domains, lossy : BOOLEAN]
    \cup [pc : {"publish"}, fresh : SUBSET Domains]

Checking == [pc : {"names"}, names : SUBSET Host, ips : {{}}, ip : {None}, todo : SUBSET Host]
Asking   == [pc : {"ips"}, names : SUBSET Host, ips : SUBSET IP, ip : {None}, todo : SUBSET IP]
Missing  == [pc : {"miss"}, names : SUBSET Host, ips : SUBSET IP, ip : IP, todo : SUBSET IP]
Answered == [pc : {"answered"}, names : SUBSET Host, ips : SUBSET IP]
Silent   == [pc : {"idle", "refused", "servfail"}]
QueryRec == Silent \cup Checking \cup Asking \cup Missing \cup Answered

LookupRec == [pc : {"ask", "clear"}, ip : IP]
               \cup [pc : {"store"}, ip : IP, verdict : {"clean", "abusive"}]

Types ==
  /\ conn \in {"free", "fetch", "other"}
  /\ table \subseteq Domains /\ domains \subseteq Domains /\ steady \subseteq Domains
  /\ lossy \in BOOLEAN
  /\ fetch \in FetchRec
  /\ cache \in [IP -> {None, "clean", "abusive"}] /\ inProgress \subseteq IP
  /\ query \in [Query -> QueryRec] /\ known \in [Query -> SUBSET IP]
  /\ lookups \subseteq LookupRec

(* The steady names are in the table, in memory and in what is about to be *)
(* published, and without lost statements the three agree.                 *)
ListOK ==
  /\ steady \subseteq table /\ steady \subseteq domains
  /\ fetch.pc = "commit" /\ ~fetch.lossy => fetch.tx = fetch.fresh
  /\ fetch.pc = "publish" => steady \subseteq fetch.fresh /\ (~lossy => fetch.fresh = table)
  /\ ~lossy /\ fetch.pc # "publish" => domains = table

(* The questions a query has behind it were neither forbidden nor steady.  *)
Passed(r) == IF r.pc = "names" THEN r.names \ r.todo ELSE r.names
NamesOK ==
  \A q \in Query : query[q].pc \in {"names", "ips", "miss", "answered"} =>
    Passed(query[q]) \subseteq Allowed \ steady

(* Every lookup is registered, and no two have one address.                *)
LookupsOK == OneLookup /\ \A l \in lookups : l.ip \in inProgress

(* Addresses known to be bad are in the cache as such, and not among those *)
(* a query has behind it or is about to look up.                           *)
Cleared1(r) == CASE r.pc = "ips"  -> r.ips \ r.todo
                 [] r.pc = "miss" -> (r.ips \ r.todo) \cup {r.ip}
                 [] OTHER         -> r.ips
KnownOK ==
  \A q \in Query :
    /\ \A i \in known[q] : cache[i] = "abusive"
    /\ query[q].pc \in {"ips", "miss", "answered"} => Cleared1(query[q]) \cap known[q] = {}

IInv == Types /\ ListOK /\ NamesOK /\ LookupsOK /\ KnownOK

---------------------------------------------------------------------------
(* Types.                                                                  *)

LEMMA DomainsTyped == \A L \in SUBSET Host : ExtractDomain(L) \subseteq Domains
  BY NameAssumption DEF ExtractDomain, Domains

LEMMA RecordsTyped == Idle \in QueryRec /\ Asleep \in FetchRec
  BY DEF Idle, Asleep, QueryRec, Silent, FetchRec

LEMMA TypesInit == Init => Types
<1> SUFFICES ASSUME Init PROVE Types
  OBVIOUS
<1>1. fetch \in FetchRec
  BY DEF Init, FetchRec
<1>2. query \in [Query -> QueryRec] /\ known \in [Query -> SUBSET IP]
  BY RecordsTyped DEF Init
<1>3. cache \in [IP -> {None, "clean", "abusive"}] /\ inProgress \subseteq IP /\ lookups \subseteq LookupRec
  BY DEF Init
<1>4. conn = "free" /\ table \subseteq Domains /\ domains = table /\ steady = table /\ lossy = FALSE
  BY DEF Init
<1>. QED
  BY <1>1, <1>2, <1>3, <1>4 DEF Types

(* A query that moves on to a well-typed record. *)
LEMMA StepTyped ==
  ASSUME NEW q \in Query, NEW r \in QueryRec, query \in [Query -> QueryRec], Step(q, r)
  PROVE  query' \in [Query -> QueryRec]
  BY DEF Step

LEMMA TypesNext == Types /\ [Next]_vars => Types'
<1> SUFFICES ASSUME Types, [Next]_vars PROVE Types'
  OBVIOUS
<1> USE NameAssumption, QuestionsAssumption, FeedsAssumption, NoneAssumption
<1>1. CASE Wake \/ Get \/ GetFails
  BY <1>1, RecordsTyped DEF Wake, Get, GetFails, Types, FetchRec, abuse, asked
<1>2. CASE BeginTx
  <2>1. fetch \in [pc : {"sleep", "get", "begin", "read"}]
    BY <1>2 DEF BeginTx, Types, FetchRec
  <2>. QED
    BY <1>2, <2>1 DEF BeginTx, Types, FetchRec, abuse, asked
<1>3. CASE ReadList
  <2>1. PICK L \in Feeds : \E kept \in {{}, table}, lost \in SUBSET ExtractDomain(L) :
          fetch' = [pc |-> "commit", fresh |-> ExtractDomain(L),
                    tx |-> kept \cup (ExtractDomain(L) \ lost),
                    lossy |-> kept # {} \/ lost # {}]
    BY <1>3 DEF ReadList
  <2>2. PICK kept \in {{}, table}, lost \in SUBSET ExtractDomain(L) :
          fetch' = [pc |-> "commit", fresh |-> ExtractDomain(L),
                    tx |-> kept \cup (ExtractDomain(L) \ lost),
                    lossy |-> kept # {} \/ lost # {}]
    BY <2>1
  <2>3. ExtractDomain(L) \subseteq Domains /\ kept \subseteq Domains
    BY DomainsTyped DEF Types
  <2>4. fetch' \in FetchRec
    BY <2>2, <2>3 DEF FetchRec
  <2>. QED
    BY <1>3, <2>4 DEF ReadList, Types, abuse, asked
<1>4. CASE ReadFails
  BY <1>4, RecordsTyped DEF ReadFails, Types, abuse, asked
<1>5. CASE CommitTx
  <2>1. fetch \in [pc : {"commit"}, fresh : SUBSET Domains, tx : SUBSET Domains, lossy : BOOLEAN]
    BY <1>5 DEF CommitTx, Types, FetchRec
  <2>. QED
    BY <1>5, <2>1 DEF CommitTx, Types, FetchRec, abuse, asked
<1>6. CASE Publish
  BY <1>6, RecordsTyped DEF Publish, Types, FetchRec, abuse, asked
<1>7. CASE OtherTakes \/ OtherReturns
  BY <1>7 DEF OtherTakes, OtherReturns, Types, phishing, abuse, asked
<1>8. ASSUME NEW q \in Query, NEW N \in Questions, Arrive(q, N) PROVE Types'
  <2>1. [pc |-> "names", names |-> N, ips |-> {}, ip |-> None, todo |-> N] \in QueryRec
    BY DEF QueryRec, Checking
  <2>. QED
    BY <1>8, <2>1, StepTyped DEF Arrive, Types, phishing, abuse
<1>9. ASSUME NEW q \in Query, NEW n \in Host, CheckName(q, n) PROVE Types'
  <2>1. query[q] \in Checking
    BY <1>9 DEF CheckName, Types, QueryRec, Silent, Checking, Asking, Missing, Answered
  <2>2. [query[q] EXCEPT !.todo = @ \ {n}] \in QueryRec
    BY <2>1 DEF Checking, QueryRec
  <2>3. [pc |-> "refused"] \in QueryRec
    BY DEF QueryRec, Silent
  <2>. QED
    BY <1>9, <2>2, <2>3, StepTyped DEF CheckName, Refuse, Types, phishing, abuse
<1>10. ASSUME NEW q \in Query, Forward(q) PROVE Types'
  <2>1. query[q] \in Checking
    BY <1>10 DEF Forward, Types, QueryRec, Silent, Checking, Asking, Missing, Answered
  <2>2. ASSUME NEW S \in SUBSET IP
        PROVE  [query[q] EXCEPT !.pc = "ips", !.ips = S, !.todo = S] \in QueryRec
    BY <2>1 DEF Checking, Asking, QueryRec
  <2>3. [pc |-> "servfail"] \in QueryRec
    BY DEF QueryRec, Silent
  <2>. QED
    BY <1>10, <2>2, <2>3, StepTyped DEF Forward, Types, phishing, abuse
<1>11. ASSUME NEW q \in Query, NEW i \in IP, FromCache(q, i) \/ FromCacheFails(q, i)
       PROVE  Types'
  <2>1. query[q] \in Asking
    BY <1>11 DEF FromCache, FromCacheFails, Types, QueryRec, Silent, Checking, Asking, Missing, Answered
  <2>2. /\ [query[q] EXCEPT !.pc = "ips", !.ip = None, !.todo = @ \ {i}] \in QueryRec
        /\ [query[q] EXCEPT !.pc = "miss", !.ip = i] \in QueryRec
    BY <2>1 DEF Asking, Missing, QueryRec
  <2>3. [pc |-> "refused"] \in QueryRec
    BY DEF QueryRec, Silent
  <2>4. query' \in [Query -> QueryRec]
    BY <1>11, <2>2, <2>3, StepTyped DEF FromCache, FromCacheFails, Let, Miss, Refuse, Types
  <2>. QED
    BY <1>11, <2>4 DEF FromCache, FromCacheFails, Types, phishing, abuse
<1>12. ASSUME NEW q \in Query, LookUp(q) PROVE Types'
  <2>1. query[q] \in Missing
    BY <1>12 DEF LookUp, Types, QueryRec, Silent, Checking, Asking, Missing, Answered
  <2>2. [query[q] EXCEPT !.pc = "ips", !.ip = None, !.todo = @ \ {query[q].ip}] \in QueryRec
    BY <2>1 DEF Asking, Missing, QueryRec
  <2>3. query[q].ip \in IP /\ [pc |-> "ask", ip |-> query[q].ip] \in LookupRec
    BY <2>1 DEF Missing, LookupRec
  <2>4. query' \in [Query -> QueryRec]
    BY <1>12, <2>2, StepTyped DEF LookUp, Let, Types
  <2>. QED
    BY <1>12, <2>3, <2>4 DEF LookUp, Types, phishing
<1>13. ASSUME NEW q \in Query, Answer(q) PROVE Types'
  <2>1. query[q] \in Asking
    BY <1>13 DEF Answer, Types, QueryRec, Silent, Checking, Asking, Missing, Answered
  <2>2. [pc |-> "answered", names |-> query[q].names, ips |-> query[q].ips] \in QueryRec
    BY <2>1 DEF Asking, Answered, QueryRec
  <2>. QED
    BY <1>13, <2>2, StepTyped DEF Answer, Types, phishing, abuse
<1>14. ASSUME NEW q \in Query, Done(q) PROVE Types'
  BY <1>14, RecordsTyped, StepTyped DEF Done, Types, phishing, abuse
<1>15. ASSUME NEW l \in lookups, QueryAPI(l) \/ CacheResult(l) \/ CacheResultFails(l) \/ Clear(l)
       PROVE  Types'
  <2>1. l \in LookupRec /\ l.ip \in IP /\ Cleared(l) \in LookupRec
    BY DEF Types, LookupRec, Cleared
  <2>2. \A v \in {"clean", "abusive"} : [pc |-> "store", ip |-> l.ip, verdict |-> v] \in LookupRec
    BY <2>1 DEF LookupRec
  <2>3. l.pc = "store" => l.verdict \in {"clean", "abusive"}
    BY <2>1 DEF LookupRec
  <2>4. lookups' \subseteq LookupRec
    BY <1>15, <2>1, <2>2 DEF QueryAPI, CacheResult, CacheResultFails, Clear, Advance, Types
  <2>. QED
    BY <1>15, <2>1, <2>3, <2>4
    DEF QueryAPI, CacheResult, CacheResultFails, Clear, Forget, Types, phishing, asked
<1>16. ASSUME NEW i \in IP, Expire(i) PROVE Types'
  BY <1>16 DEF Expire, Forget, Types, phishing
<1>17. CASE Restart
  BY <1>17, RecordsTyped DEF Restart, Types, FetchRec
<1>18. CASE UNCHANGED vars
  BY <1>18 DEF Types, vars, phishing, abuse, asked
<1>. QED
  BY <1>1, <1>2, <1>3, <1>4, <1>5, <1>6, <1>7, <1>8, <1>9, <1>10, <1>11, <1>12, <1>13, <1>14,
     <1>15, <1>16, <1>17, <1>18
  DEF Next, Refresh, Serve, AskCache

LEMMA TypesInv == Spec => []Types
  BY TypesInit, TypesNext, PTL DEF Spec

---------------------------------------------------------------------------
(* The list.                                                               *)

LEMMA ListInit == Init => ListOK
  BY DEF Init, ListOK

LEMMA ListNext == Types /\ ListOK /\ [Next]_vars => ListOK'
<1> SUFFICES ASSUME Types, ListOK, [Next]_vars PROVE ListOK'
  OBVIOUS
<1>1. CASE Wake \/ Get \/ GetFails
  BY <1>1 DEF Wake, Get, GetFails, Asleep, ListOK
<1>2. CASE BeginTx
  <2>1. fetch \in [pc : {"sleep", "get", "begin", "read"}]
    BY <1>2 DEF BeginTx, Types, FetchRec
  <2>2. fetch'.pc = "read"
    BY <1>2, <2>1 DEF BeginTx
  <2>. QED
    BY <1>2, <2>2 DEF BeginTx, ListOK
<1>3. CASE ReadList
  <2>1. PICK L \in Feeds, kept \in {{}, table}, lost \in SUBSET Domains :
          /\ lost \subseteq ExtractDomain(L)
          /\ fetch' = [pc |-> "commit", fresh |-> ExtractDomain(L),
                       tx |-> kept \cup (ExtractDomain(L) \ lost),
                       lossy |-> kept # {} \/ lost # {}]
    BY <1>3, FeedsAssumption, DomainsTyped DEF ReadList
  <2>2. ~fetch'.lossy => fetch'.tx = fetch'.fresh
    BY <2>1
  <2>. QED
    BY <1>3, <2>1, <2>2 DEF ReadList, ListOK
<1>4. CASE ReadFails \/ Publish
  BY <1>4 DEF ReadFails, Publish, Asleep, ListOK
<1>5. CASE CommitTx
  BY <1>5 DEF CommitTx, ListOK
<1>6. CASE Restart
  BY <1>6 DEF Restart, ListOK
<1>7. CASE UNCHANGED phishing
  BY <1>7 DEF ListOK, phishing
<1>. QED
  BY <1>1, <1>2, <1>3, <1>4, <1>5, <1>6, <1>7
  DEF Next, vars, Refresh, Serve, AskCache, OtherTakes, OtherReturns, Arrive, CheckName, Forward,
      LookUp, Answer, FromCache, FromCacheFails, Done, QueryAPI, CacheResult, CacheResultFails,
      Clear, Expire

---------------------------------------------------------------------------
(* Questions.                                                              *)

LEMMA SteadyShrinks == Types /\ ListOK /\ [Next]_vars => steady' \subseteq steady
  BY DEF Next, vars, Refresh, Serve, AskCache, OtherTakes, OtherReturns, Arrive, CheckName, Forward,
      LookUp, Answer, FromCache, FromCacheFails, Done, QueryAPI, CacheResult, CacheResultFails,
      Clear, Expire, Wake, Get, GetFails, BeginTx, ReadList, ReadFails, CommitTx, Publish, Restart,
      phishing

(* The claim about one query. *)
NameOK(r, S) ==
  r.pc \in {"names", "ips", "miss", "answered"} => Passed(r) \subseteq Allowed \ S

LEMMA NameStep ==
  ASSUME Types, NamesOK, NEW q \in Query, NEW r, Step(q, r), NameOK(r, steady), steady' \subseteq steady
  PROVE  NamesOK'
<1>1. \A x \in Query : query'[x] = IF x = q THEN r ELSE query[x]
  BY DEF Step, Types
<1>2. \A x \in Query : NameOK(query'[x], steady)
  BY <1>1 DEF NamesOK, NameOK
<1>. QED
  BY <1>2 DEF NamesOK, NameOK

LEMMA NamesInit == Init => NamesOK
  BY DEF Init, NamesOK, Idle

LEMMA NamesNext == Types /\ ListOK /\ NamesOK /\ [Next]_vars => NamesOK'
<1> SUFFICES ASSUME Types, ListOK, NamesOK, [Next]_vars PROVE NamesOK'
  OBVIOUS
<1>0. steady' \subseteq steady
  BY SteadyShrinks
<1>1. ASSUME NEW q \in Query, NEW N \in Questions, Arrive(q, N) PROVE NamesOK'
  BY <1>0, <1>1, NameStep DEF Arrive, NameOK, Passed
<1>2. ASSUME NEW q \in Query, NEW n \in Host, CheckName(q, n) PROVE NamesOK'
  <2>1. query[q] \in Checking
    BY <1>2 DEF CheckName, Types, QueryRec, Silent, Checking, Asking, Missing, Answered
  <2>2. CASE Refused(n)
    BY <1>0, <1>2, <2>2, NameStep DEF CheckName, Refuse, NameOK
  <2>3. CASE ~Refused(n)
    <3> DEFINE r == [query[q] EXCEPT !.todo = @ \ {n}]
    <3>1. r.pc = "names" /\ r.names = query[q].names /\ r.todo = query[q].todo \ {n}
      BY <2>1 DEF Checking
    <3>2. Passed(r) \subseteq Passed(query[q]) \cup {n}
      BY <2>1, <3>1 DEF Passed, Checking
    <3>3. n \in Allowed \ steady
      BY <2>3 DEF Refused, DomainAllowed, IsPhishing, ListOK
    <3>4. NameOK(r, steady)
      BY <2>1, <3>1, <3>2, <3>3 DEF NameOK, NamesOK, Checking
    <3>5. Step(q, r)
      BY <1>2, <2>3 DEF CheckName
    <3>. HIDE DEF r
    <3>. QED
      BY <1>0, <3>4, <3>5, NameStep
  <2>. QED
    BY <2>2, <2>3
<1>3. ASSUME NEW q \in Query, Forward(q) PROVE NamesOK'
  <2>1. query[q] \in Checking
    BY <1>3 DEF Forward, Types, QueryRec, Silent, Checking, Asking, Missing, Answered
  <2>2. query[q].names \subseteq Allowed \ steady
    BY <1>3, <2>1 DEF Forward, NamesOK, Passed, Checking
  <2>3. ASSUME NEW S \in SUBSET IP
        PROVE  NameOK([query[q] EXCEPT !.pc = "ips", !.ips = S, !.todo = S], steady)
    BY <2>1, <2>2 DEF NameOK, Passed, Checking
  <2>4. NameOK([pc |-> "servfail"], steady)
    BY DEF NameOK
  <2>. QED
    BY <1>0, <1>3, <2>3, <2>4, NameStep DEF Forward
<1>4. ASSUME NEW q \in Query, NEW i \in IP, FromCache(q, i) \/ FromCacheFails(q, i)
      PROVE  NamesOK'
  <2>1. query[q] \in Asking
    BY <1>4 DEF FromCache, FromCacheFails, Types, QueryRec, Silent, Checking, Asking, Missing, Answered
  <2>2. /\ NameOK([query[q] EXCEPT !.pc = "ips", !.ip = None, !.todo = @ \ {i}], steady)
        /\ NameOK([query[q] EXCEPT !.pc = "miss", !.ip = i], steady)
    BY <2>1 DEF NameOK, NamesOK, Passed, Asking
  <2>3. NameOK([pc |-> "refused"], steady)
    BY DEF NameOK
  <2>. QED
    BY <1>0, <1>4, <2>2, <2>3, NameStep DEF FromCache, FromCacheFails, Let, Miss, Refuse
<1>5. ASSUME NEW q \in Query, LookUp(q) PROVE NamesOK'
  <2>1. query[q] \in Missing
    BY <1>5 DEF LookUp, Types, QueryRec, Silent, Checking, Asking, Missing, Answered
  <2>2. NameOK([query[q] EXCEPT !.pc = "ips", !.ip = None, !.todo = @ \ {query[q].ip}], steady)
    BY <2>1 DEF NameOK, NamesOK, Passed, Missing
  <2>. QED
    BY <1>0, <1>5, <2>2, NameStep DEF LookUp, Let
<1>6. ASSUME NEW q \in Query, Answer(q) PROVE NamesOK'
  <2>1. NameOK([pc |-> "answered", names |-> query[q].names, ips |-> query[q].ips], steady)
    BY <1>6 DEF Answer, NameOK, NamesOK, Passed
  <2>. QED
    BY <1>0, <1>6, <2>1, NameStep DEF Answer
<1>7. ASSUME NEW q \in Query, Done(q) PROVE NamesOK'
  BY <1>0, <1>7, NameStep DEF Done, Idle, NameOK
<1>8. CASE Restart
  BY <1>8 DEF Restart, Idle, NamesOK
<1>9. CASE UNCHANGED query
  BY <1>0, <1>9 DEF NamesOK
<1>. QED
  BY <1>1, <1>2, <1>3, <1>4, <1>5, <1>6, <1>7, <1>8, <1>9
  DEF Next, vars, Refresh, Serve, AskCache, asked, OtherTakes, OtherReturns, QueryAPI, CacheResult,
      CacheResultFails, Clear, Expire, Wake, Get, GetFails, BeginTx, ReadList, ReadFails, CommitTx,
      Publish

---------------------------------------------------------------------------
(* Lookups.                                                                *)

LEMMA LookupsInit == Init => LookupsOK
  BY DEF Init, LookupsOK, OneLookup

(* A lookup that moves on. *)
LEMMA LookupStep ==
  ASSUME LookupsOK, NEW l \in lookups, NEW k, k.ip = l.ip, Advance(l, {k}), inProgress' = inProgress
  PROVE  LookupsOK'
  BY DEF LookupsOK, OneLookup, Advance

LEMMA LookupsNext == Types /\ LookupsOK /\ [Next]_vars => LookupsOK'
<1> SUFFICES ASSUME Types, LookupsOK, [Next]_vars PROVE LookupsOK'
  OBVIOUS
<1>1. ASSUME NEW q \in Query, LookUp(q) PROVE LookupsOK'
  BY <1>1 DEF LookUp, LookupsOK, OneLookup
<1>2. ASSUME NEW l \in lookups, QueryAPI(l) \/ CacheResult(l) \/ CacheResultFails(l)
      PROVE  LookupsOK'
  <2>1. inProgress' = inProgress
    BY <1>2 DEF QueryAPI, CacheResult, CacheResultFails
  <2>2. Cleared(l).ip = l.ip
    BY DEF Cleared
  <2>3. \A v : [pc |-> "store", ip |-> l.ip, verdict |-> v].ip = l.ip
    OBVIOUS
  <2>. QED
    BY <1>2, <2>1, <2>2, <2>3, LookupStep DEF QueryAPI, CacheResult, CacheResultFails
<1>3. ASSUME NEW l \in lookups, Clear(l) PROVE LookupsOK'
  BY <1>3 DEF Clear, Advance, LookupsOK, OneLookup
<1>4. CASE Restart
  BY <1>4 DEF Restart, LookupsOK, OneLookup
<1>5. CASE UNCHANGED <<lookups, inProgress>>
  BY <1>5 DEF LookupsOK, OneLookup
<1>. QED
  BY <1>1, <1>2, <1>3, <1>4, <1>5
  DEF Next, vars, Refresh, Serve, AskCache, abuse, OtherTakes, OtherReturns, Arrive, CheckName,
      Forward, Answer, FromCache, FromCacheFails, Done, Expire, Wake, Get, GetFails, BeginTx,
      ReadList, ReadFails, CommitTx, Publish

---------------------------------------------------------------------------
(* Addresses.                                                              *)

(* The claims about one query: what is known of it, and where it stands.   *)
Sound(K) == \A i \in K : cache[i] = "abusive"
Apart(r, K) == r.pc \in {"ips", "miss", "answered"} => Cleared1(r) \cap K = {}

LEMMA KnownStep ==
  ASSUME Types, KnownOK, NEW q \in Query, NEW r, Step(q, r), NEW K \in SUBSET known[q],
         known' = [known EXCEPT ![q] = K], cache' = cache, Apart(r, K)
  PROVE  KnownOK'
<1>1. \A x \in Query : /\ query'[x] = IF x = q THEN r ELSE query[x]
                       /\ known'[x] = IF x = q THEN K ELSE known[x]
  BY DEF Step, Types
<1>2. \A x \in Query : Apart(query'[x], known'[x]) /\ Sound(known'[x])
  BY <1>1 DEF KnownOK, Apart, Sound
<1>. QED
  BY <1>2 DEF KnownOK, Apart, Sound

LEMMA KnownInit == Init => KnownOK
  BY DEF Init, KnownOK, Idle

LEMMA KnownNext == Types /\ KnownOK /\ [Next]_vars => KnownOK'
<1> SUFFICES ASSUME Types, KnownOK, [Next]_vars PROVE KnownOK'
  OBVIOUS
<1> USE NoneAssumption
<1>0. ASSUME NEW q \in Query, known' = known PROVE known' = [known EXCEPT ![q] = known[q]]
  BY <1>0 DEF Types
<1>1. ASSUME NEW q \in Query, NEW N \in Questions, Arrive(q, N) PROVE KnownOK'
  <2>1. \A x \in Query : /\ x # q => query'[x] = query[x] /\ known'[x] = known[x]
                         /\ query'[q].pc = "names" /\ Sound(known'[q])
    BY <1>1 DEF Arrive, Step, Types, Sound
  <2>. QED
    BY <1>1, <2>1 DEF Arrive, KnownOK, Sound, abuse
<1>2. ASSUME NEW q \in Query, NEW n \in Host, CheckName(q, n) PROVE KnownOK'
  <2>1. query[q] \in Checking
    BY <1>2 DEF CheckName, Types, QueryRec, Silent, Checking, Asking, Missing, Answered
  <2>2. PICK r : Step(q, r) /\ r.pc \in {"names", "refused"}
    BY <1>2, <2>1 DEF CheckName, Refuse, Checking
  <2>. QED
    BY <1>0, <1>2, <2>2, KnownStep DEF CheckName, abuse, Apart
<1>3. ASSUME NEW q \in Query, Forward(q) PROVE KnownOK'
  <2>1. query[q] \in Checking
    BY <1>3 DEF Forward, Types, QueryRec, Silent, Checking, Asking, Missing, Answered
  <2>2. ASSUME NEW S \in SUBSET IP
        PROVE  Apart([query[q] EXCEPT !.pc = "ips", !.ips = S, !.todo = S], known[q])
    BY <2>1 DEF Apart, Cleared1, Checking
  <2>3. Apart([pc |-> "servfail"], known[q])
    BY DEF Apart
  <2>. QED
    BY <1>0, <1>3, <2>2, <2>3, KnownStep DEF Forward, abuse
<1>4. ASSUME NEW q \in Query, NEW i \in IP, FromCache(q, i) PROVE KnownOK'
  <2>1. query[q] \in Asking /\ known[q] \subseteq IP
    BY <1>4 DEF FromCache, Types, QueryRec, Silent, Checking, Asking, Missing, Answered
  <2>2. (query[q].ips \ query[q].todo) \cap known[q] = {}
    BY <2>1 DEF KnownOK, Cleared1, Asking
  <2>3. CASE cache[i] = "abusive" /\ Refuse(q)
    BY <1>0, <1>4, <2>3, KnownStep DEF FromCache, abuse, Refuse, Apart
  <2>4. ASSUME cache[i] # "abusive" PROVE i \notin known[q]
    BY <2>4 DEF KnownOK
  <2>5. CASE cache[i] = "clean" /\ Let(q, i)
    <3>1. Apart([query[q] EXCEPT !.pc = "ips", !.ip = None, !.todo = @ \ {i}], known[q])
      BY <2>1, <2>2, <2>4, <2>5 DEF Apart, Cleared1, Asking
    <3>. QED
      BY <1>0, <1>4, <2>5, <3>1, KnownStep DEF FromCache, abuse, Let
  <2>6. CASE cache[i] = None /\ Miss(q, i)
    <3>1. Apart([query[q] EXCEPT !.pc = "miss", !.ip = i], known[q])
      BY <2>1, <2>2, <2>4, <2>6 DEF Apart, Cleared1, Asking
    <3>. QED
      BY <1>0, <1>4, <2>6, <3>1, KnownStep DEF FromCache, abuse, Miss
  <2>. QED
    BY <1>4, <2>3, <2>5, <2>6 DEF FromCache
<1>5. ASSUME NEW q \in Query, NEW i \in IP, FromCacheFails(q, i) PROVE KnownOK'
  <2>1. query[q] \in Asking
    BY <1>5 DEF FromCacheFails, Types, QueryRec, Silent, Checking, Asking, Missing, Answered
  <2>2. (query[q].ips \ query[q].todo) \cap known[q] = {}
    BY <2>1 DEF KnownOK, Cleared1, Asking
  <2>3. Apart([query[q] EXCEPT !.pc = "miss", !.ip = i], known[q] \ {i})
    BY <2>1, <2>2 DEF Apart, Cleared1, Asking
  <2>. QED
    BY <1>5, <2>3, KnownStep DEF FromCacheFails, abuse, Miss
<1>6. ASSUME NEW q \in Query, LookUp(q) PROVE KnownOK'
  <2>1. query[q] \in Missing
    BY <1>6 DEF LookUp, Types, QueryRec, Silent, Checking, Asking, Missing, Answered
  <2>2. Apart([query[q] EXCEPT !.pc = "ips", !.ip = None, !.todo = @ \ {query[q].ip}], known[q])
    BY <2>1 DEF KnownOK, Apart, Cleared1, Missing
  <2>. QED
    BY <1>0, <1>6, <2>2, KnownStep DEF LookUp, Let
<1>7. ASSUME NEW q \in Query, Answer(q) PROVE KnownOK'
  <2>1. query[q] \in Asking
    BY <1>7 DEF Answer, Types, QueryRec, Silent, Checking, Asking, Missing, Answered
  <2>2. Apart([pc |-> "answered", names |-> query[q].names, ips |-> query[q].ips], known[q])
    BY <1>7, <2>1 DEF Answer, KnownOK, Apart, Cleared1, Asking
  <2>. QED
    BY <1>0, <1>7, <2>2, KnownStep DEF Answer, abuse
<1>8. ASSUME NEW q \in Query, Done(q) PROVE KnownOK'
  BY <1>8, KnownStep DEF Done, Idle, Apart, abuse
<1>9. ASSUME NEW i, cache' = [cache EXCEPT ![i] = "clean"] \/ cache' = [cache EXCEPT ![i] = None],
             Forget(i), query' = query
      PROVE  KnownOK'
  <2>1. \A q \in Query : known'[q] = known[q] \ {i}
    BY <1>9 DEF Forget
  <2>2. \A k \in IP \ {i} : cache'[k] = cache[k]
    BY <1>9 DEF Types
  <2>3. \A q \in Query : known[q] \subseteq IP
    BY DEF Types
  <2>. QED
    BY <1>9, <2>1, <2>2, <2>3 DEF KnownOK
<1>10. ASSUME NEW l \in lookups, CacheResult(l) PROVE KnownOK'
  <2>1. l.verdict \in {"clean", "abusive"} /\ l.ip \in IP
    BY <1>10 DEF CacheResult, Types, LookupRec
  <2>2. CASE l.verdict = "clean"
    BY <1>9, <1>10, <2>2 DEF CacheResult
  <2>3. CASE l.verdict = "abusive"
    <3>1. known' = known /\ query' = query
      BY <1>10, <2>3 DEF CacheResult
    <3>2. \A k \in IP : cache[k] = "abusive" => cache'[k] = "abusive"
      BY <1>10, <2>1, <2>3 DEF CacheResult, Types
    <3>3. \A q \in Query : known[q] \subseteq IP
      BY DEF Types
    <3>. QED
      BY <3>1, <3>2, <3>3 DEF KnownOK
  <2>. QED
    BY <2>1, <2>2, <2>3
<1>11. ASSUME NEW i \in IP, Expire(i) PROVE KnownOK'
  BY <1>9, <1>11 DEF Expire
<1>12. CASE Restart
  BY <1>12 DEF Restart, Idle, KnownOK
<1>13. CASE UNCHANGED <<query, known, cache>>
  BY <1>13 DEF KnownOK
<1>. QED
  BY <1>1, <1>2, <1>3, <1>4, <1>5, <1>6, <1>7, <1>8, <1>10, <1>11, <1>12, <1>13
  DEF Next, vars, Refresh, Serve, AskCache, asked, abuse, OtherTakes, OtherReturns, QueryAPI,
      CacheResultFails, Clear, Wake, Get, GetFails, BeginTx, ReadList, ReadFails, CommitTx, Publish

---------------------------------------------------------------------------
(* The theorems.                                                           *)

LEMMA Inductive == Spec => []IInv
<1>1. Init => IInv
  BY TypesInit, ListInit, NamesInit, LookupsInit, KnownInit DEF IInv
<1>2. IInv /\ [Next]_vars => IInv'
  BY TypesNext, ListNext, NamesNext, LookupsNext, KnownNext DEF IInv
<1>. QED
  BY <1>1, <1>2, PTL DEF Spec

(* The variables have their types, whatever the constants.                 *)
THEOREM TypeCorrect == Spec => []TypeOK
<1>1. Types => TypeOK
  <2> SUFFICES ASSUME Types PROVE TypeOK
    OBVIOUS
  <2>1. fetch.pc \in {"sleep", "get", "begin", "read", "commit", "publish"}
    BY DEF Types, FetchRec
  <2>2. ASSUME NEW q \in Query, query[q].pc \in {"names", "ips"} PROVE query[q].ips \subseteq IP
    BY <2>2 DEF Types, QueryRec, Silent, Checking, Asking, Missing, Answered
  <2>3. \A l \in lookups : l.ip \in IP /\ l.pc \in {"ask", "store", "clear"}
    BY DEF Types, LookupRec
  <2>4. \A q \in Query : known[q] \subseteq IP
    BY DEF Types
  <2>. QED
    BY <2>1, <2>2, <2>3, <2>4 DEF TypeOK, Types
<1>. QED
  BY <1>1, TypesInv, PTL

(* No site that has been on every list is answered for, however refreshes, *)
(* failures, restarts and any number of queries interleave.                *)
THEOREM SteadySitesRefused == Spec => []SteadyRefused
<1>1. IInv => SteadyRefused
  BY DEF IInv, NamesOK, Passed, SteadyRefused
<1>. QED
  BY <1>1, Inductive, PTL

(* Memory and table agree but while a list is being published.             *)
THEOREM RestartLoadsTheSame == Spec => []RestartSame
<1>1. IInv => RestartSame
  BY DEF IInv, ListOK, RestartSame
<1>. QED
  BY <1>1, Inductive, PTL

(* However many queries ask, an address has at most one lookup under way.  *)
THEOREM LookupsDeduplicated == Spec => []OneLookup
<1>1. IInv => OneLookup
  BY DEF IInv, LookupsOK
<1>. QED
  BY <1>1, Inductive, PTL

(* An address known to be bad all along is in no answer.                   *)
THEOREM BadAddressesRefused == Spec => []KnownRefused
<1>1. IInv => KnownRefused
  BY DEF IInv, KnownOK, Cleared1, KnownRefused
<1>. QED
  BY <1>1, Inductive, PTL
===========================================================================
