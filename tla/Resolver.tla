------------------------------ MODULE Resolver ------------------------------
(***************************************************************************)
(* The DNS path of tpt-guard: internal/guard/dns.go answers every query in *)
(* a goroutine of its own, refusing what is not allowed, what is in the    *)
(* phishing list (threatfeed/phishing.go, a set in memory backed by a      *)
(* table) and what resolves to an address of bad repute                    *)
(* (threatfeed/abuseipdb.go, a cache in a table filled by asynchronous     *)
(* lookups).  The refresh of the list keeps a transaction open while it    *)
(* reads the feed, so it shares the one database connection with them.     *)
(*                                                                         *)
(* The last three variables are history.                                   *)
(***************************************************************************)
EXTENDS FiniteSets

CONSTANTS
  Host,      \* names
  Allowed,   \* names the policy lets through
  Strip,     \* name -> the name without "www."
  Feeds,     \* what the server of the feed may send: sets of names
  IP,        \* addresses
  Questions, \* bound: what a query may ask for, sets of names
  Query,     \* goroutines of dns.Server, each for one query after another
  None       \* no verdict

ASSUME NameAssumption == Allowed \subseteq Host /\ Strip \in [Host -> Host]
ASSUME QuestionsAssumption == Questions \subseteq SUBSET Host
ASSUME FeedsAssumption == Feeds \subseteq SUBSET Host
ASSUME NoneAssumption == None \notin {"clean", "abusive"}

VARIABLES
  conn,        \* who has the connection: "free", "fetch", "other"
  table,       \* phishing_domains
  domains,     \* PhishingFeed.domains
  fetch,       \* refreshLoop: pc, the new set, and what its transaction holds
  cache,       \* address -> verdict in threat_cache, None if absent or too old
  inProgress,  \* AbuseChecker.inProgress
  query,       \* goroutine -> its query
  lookups,     \* lookups under way (a set will do: see OneLookup)
  steady,      \* names in the table from the first start on and in every list since
  lossy,       \* some statement of the last transaction failed
  known        \* query -> addresses with a cached bad verdict ever since it began

phishing == <<table, domains, fetch, steady, lossy>>
abuse    == <<cache, inProgress, lookups>>
asked    == <<query, known>>
vars == <<conn, phishing, abuse, asked>>

Idle    == [pc |-> "idle"]
Asleep  == [pc |-> "sleep"]
Domains == {Strip[h] : h \in Host}

Init ==
  /\ conn = "free"
  /\ table \in SUBSET Domains /\ domains = table
  /\ fetch = [pc |-> "get"]
  /\ cache = [i \in IP |-> None] /\ inProgress = {}
  /\ query = [q \in Query |-> Idle]
  /\ lookups = {}
  /\ steady = table /\ lossy = FALSE
  /\ known = [q \in Query |-> {}]

---------------------------------------------------------------------------
(* PhishingFeed.  The list is always stale when refreshLoop wakes up: it   *)
(* has slept for the time to live of a list loaded before.                 *)

Wake ==
  /\ fetch.pc = "sleep"
  /\ fetch' = [pc |-> "get"]
  /\ UNCHANGED <<conn, table, domains, steady, lossy, abuse, asked>>

(* There is an answer, whatever its status. *)
Get ==
  /\ fetch.pc = "get"
  /\ fetch' = [pc |-> "begin"]
  /\ UNCHANGED <<conn, table, domains, steady, lossy, abuse, asked>>

GetFails ==
  /\ fetch.pc \in {"get", "begin"}
  /\ fetch' = Asleep
  /\ UNCHANGED <<conn, table, domains, steady, lossy, abuse, asked>>

BeginTx ==
  /\ fetch.pc = "begin" /\ conn = "free"
  /\ conn' = "fetch"
  /\ fetch' = [fetch EXCEPT !.pc = "read"]
  /\ UNCHANGED <<table, domains, steady, lossy, abuse, asked>>

ExtractDomainRaw(L) == L                              \* mutant
ExtractDomain(L) == {Strip[h] : h \in L}

(* The old rows are deleted and every line read becomes a name in memory   *)
(* and a row; the errors of these statements are not looked at.            *)
ReadList ==
  /\ fetch.pc = "read"
  /\ \E L \in Feeds :
       LET fresh == ExtractDomain(L)
       IN  \E kept \in {{}, table}, lost \in SUBSET fresh :
             fetch' = [pc |-> "commit", fresh |-> fresh, tx |-> kept \cup (fresh \ lost),
                       lossy |-> kept # {} \/ lost # {}]
  /\ UNCHANGED <<conn, table, domains, steady, lossy, abuse, asked>>

(* Mutant: the rows are committed as they are when the feed breaks off. *)
ReadFailsCommitted ==
  /\ fetch.pc \in {"read", "commit"}
  /\ conn' = "free"
  /\ table' = {}
  /\ fetch' = Asleep
  /\ UNCHANGED <<domains, steady, lossy, abuse, asked>>

(* Mutant: no rollback on an early return. *)
ReadFailsHeld ==
  /\ fetch.pc \in {"read", "commit"}
  /\ fetch' = Asleep
  /\ UNCHANGED <<conn, table, domains, steady, lossy, abuse, asked>>

(* The statement cannot be prepared, the feed breaks off (15 seconds), or  *)
(* the commit fails: everything is rolled back.                            *)
ReadFails ==
  /\ fetch.pc \in {"read", "commit"}
  /\ conn' = "free"
  /\ fetch' = Asleep
  /\ UNCHANGED <<table, domains, steady, lossy, abuse, asked>>

CommitTx ==
  /\ fetch.pc = "commit"
  /\ conn' = "free"
  /\ table' = fetch.tx
  /\ lossy' = fetch.lossy
  /\ steady' = steady \cap fetch.fresh \cap fetch.tx
  /\ fetch' = [pc |-> "publish", fresh |-> fetch.fresh]
  /\ UNCHANGED <<domains, abuse, asked>>

(* Mutant: the set in memory is extended, not replaced. *)
PublishAdded ==
  /\ fetch.pc = "publish"
  /\ domains' = domains \cup fetch.fresh
  /\ fetch' = Asleep
  /\ UNCHANGED <<conn, table, steady, lossy, abuse, asked>>

Publish ==
  /\ fetch.pc = "publish"
  /\ domains' = fetch.fresh
  /\ fetch' = Asleep
  /\ UNCHANGED <<conn, table, steady, lossy, abuse, asked>>

(* The country refresh and the REST handlers use the connection too. *)
OtherTakes ==
  /\ conn = "free" /\ conn' = "other"
  /\ UNCHANGED <<phishing, abuse, asked>>

OtherReturns ==
  /\ conn = "other" /\ conn' = "free"
  /\ UNCHANGED <<phishing, abuse, asked>>

---------------------------------------------------------------------------
(* DNSResolver.handle.                                                     *)

Replied == {"refused", "servfail", "answered"}
Step(q, r) == query' = [query EXCEPT ![q] = r]
Refuse(q) == Step(q, [pc |-> "refused"])      \* NXDOMAIN

(* A query with its questions arrives. *)
Arrive(q, N) ==
  /\ query[q].pc = "idle" /\ N # {}
  /\ Step(q, [pc |-> "names", names |-> N, ips |-> {}, ip |-> None, todo |-> N])
  /\ known' = [known EXCEPT ![q] = {i \in IP : cache[i] = "abusive"}]
  /\ UNCHANGED <<conn, phishing, abuse>>

DomainAllowed(n) == n \in Allowed
IsPhishing(n) == n \in domains
Refused(n) == ~DomainAllowed(n) \/ IsPhishing(n)

(* Mutant: one question is enough to let a query through. *)
CheckNameFirst(q, n) ==
  /\ query[q].pc = "names" /\ n \in query[q].todo
  /\ IF Refused(n) THEN Refuse(q) ELSE Step(q, [query[q] EXCEPT !.todo = {}])
  /\ UNCHANGED <<conn, phishing, abuse, known>>

CheckName(q, n) ==
  /\ query[q].pc = "names" /\ n \in query[q].todo
  /\ IF Refused(n) THEN Refuse(q) ELSE Step(q, [query[q] EXCEPT !.todo = @ \ {n}])
  /\ UNCHANGED <<conn, phishing, abuse, known>>

(* forwardUpstream, DoH first and then UDP: an answer with its addresses,  *)
(* or SERVFAIL.                                                            *)
Forward(q) ==
  /\ query[q].pc = "names" /\ query[q].todo = {}
  /\ \/ \E S \in SUBSET IP : Step(q, [query[q] EXCEPT !.pc = "ips", !.ips = S, !.todo = S])
     \/ Step(q, [pc |-> "servfail"])
  /\ UNCHANGED <<conn, phishing, abuse, known>>

(* IsAbusive: the row of the cache, ... *)
Let(q, i) == Step(q, [query[q] EXCEPT !.pc = "ips", !.ip = None, !.todo = @ \ {i}])
Miss(q, i) == Step(q, [query[q] EXCEPT !.pc = "miss", !.ip = i])

(* Mutant: an address being looked up is let through without a look at the *)
(* cache.                                                                  *)
FromCacheLate(q, i) ==
  /\ query[q].pc = "ips" /\ i \in query[q].todo /\ conn = "free"
  /\ \/ i \in inProgress /\ Let(q, i)
     \/ i \notin inProgress /\ cache[i] = "abusive" /\ Refuse(q)
     \/ i \notin inProgress /\ cache[i] = "clean" /\ Let(q, i)
     \/ i \notin inProgress /\ cache[i] = None /\ Miss(q, i)
  /\ UNCHANGED <<conn, phishing, abuse, known>>

FromCache(q, i) ==
  /\ query[q].pc = "ips" /\ i \in query[q].todo /\ conn = "free"
  /\ \/ cache[i] = "abusive" /\ Refuse(q)
     \/ cache[i] = "clean" /\ Let(q, i)
     \/ cache[i] = None /\ Miss(q, i)
  /\ UNCHANGED <<conn, phishing, abuse, known>>

(* ... a row that cannot be read counting as none, ... *)
FromCacheFails(q, i) ==
  /\ query[q].pc = "ips" /\ i \in query[q].todo /\ conn = "free"
  /\ Miss(q, i)
  /\ known' = [known EXCEPT ![q] = @ \ {i}]
  /\ UNCHANGED <<conn, phishing, abuse>>

(* Mutant: whether a lookup is in progress is not looked at. *)
LookUpAgain(q) ==
  /\ query[q].pc = "miss"
  /\ lookups' = lookups \cup {[pc |-> "ask", ip |-> query[q].ip]}
  /\ inProgress' = inProgress \cup {query[q].ip}
  /\ Let(q, query[q].ip)
  /\ UNCHANGED <<conn, phishing, cache, known>>

(* ... and a lookup, unless one is in progress; the address passes.        *)
LookUp(q) ==
  LET i == query[q].ip
  IN  /\ query[q].pc = "miss"
      /\ lookups' = IF i \in inProgress THEN lookups
                    ELSE lookups \cup {[pc |-> "ask", ip |-> i]}
      /\ inProgress' = inProgress \cup {i}
      /\ Let(q, i)
      /\ UNCHANGED <<conn, phishing, cache, known>>

Answer(q) ==
  /\ query[q].pc = "ips" /\ query[q].todo = {}
  /\ Step(q, [pc |-> "answered", names |-> query[q].names, ips |-> query[q].ips])
  /\ UNCHANGED <<conn, phishing, abuse, known>>

(* The goroutine ends. *)
Done(q) ==
  /\ query[q].pc \in Replied
  /\ Step(q, Idle) /\ known' = [known EXCEPT ![q] = {}]
  /\ UNCHANGED <<conn, phishing, abuse>>

---------------------------------------------------------------------------
(* The lookup.                                                             *)

Forget(i) == known' = [q \in Query |-> known[q] \ {i}]
Advance(l, S) == lookups' = (lookups \ {l}) \cup S
Cleared(l) == [pc |-> "clear", ip |-> l.ip]

(* queryAPI: a verdict, or an error. *)
QueryAPI(l) ==
  /\ l.pc = "ask"
  /\ \/ \E v \in {"clean", "abusive"} :
          Advance(l, {[pc |-> "store", ip |-> l.ip, verdict |-> v]})
     \/ Advance(l, {Cleared(l)})
  /\ UNCHANGED <<conn, phishing, cache, inProgress, asked>>

CacheResult(l) ==
  /\ l.pc = "store" /\ conn = "free"
  /\ cache' = [cache EXCEPT ![l.ip] = l.verdict]
  /\ IF l.verdict = "clean" THEN Forget(l.ip) ELSE UNCHANGED known
  /\ Advance(l, {Cleared(l)})
  /\ UNCHANGED <<conn, phishing, inProgress, query>>

(* The error of the statement is not looked at. *)
CacheResultFails(l) ==
  /\ l.pc = "store" /\ conn = "free"
  /\ Advance(l, {Cleared(l)})
  /\ UNCHANGED <<conn, phishing, cache, inProgress, asked>>

Clear(l) ==
  /\ l.pc = "clear"
  /\ inProgress' = inProgress \ {l.ip}
  /\ Advance(l, {})
  /\ UNCHANGED <<conn, phishing, cache, asked>>

(* A row is good for 24 hours. *)
Expire(i) ==
  /\ cache[i] # None
  /\ cache' = [cache EXCEPT ![i] = None]
  /\ Forget(i)
  /\ UNCHANGED <<conn, phishing, inProgress, lookups, query>>

---------------------------------------------------------------------------
(* The daemon dies and is started again: NewPhishingFeed loads the table   *)
(* before the resolver listens, or those of its rows that can be read, for *)
(* no error is looked at, and sets its refresh going.                      *)
Restart ==
  /\ conn' = "free"
  /\ \E S \in SUBSET table :
       /\ domains' = S /\ steady' = steady \ (table \ S)
       /\ lossy' = (lossy \/ S # table)
  /\ fetch' = [pc |-> "get"]
  /\ inProgress' = {}
  /\ query' = [q \in Query |-> Idle]
  /\ lookups' = {}
  /\ known' = [q \in Query |-> {}]
  /\ UNCHANGED <<table, cache>>

Refresh == Wake \/ Get \/ GetFails \/ ReadList \/ ReadFails \/ CommitTx \/ Publish

Serve(q) ==
  \/ \E n \in Host : CheckName(q, n)
  \/ Forward(q)
  \/ LookUp(q)
  \/ Answer(q)

AskCache(q) == \E i \in IP : FromCache(q, i) \/ FromCacheFails(q, i)

Next ==
  \/ Refresh \/ BeginTx
  \/ OtherTakes \/ OtherReturns
  \/ \E q \in Query : (\E N \in Questions : Arrive(q, N)) \/ Serve(q) \/ AskCache(q) \/ Done(q)
  \/ \E l \in lookups : QueryAPI(l) \/ CacheResult(l) \/ CacheResultFails(l) \/ Clear(l)
  \/ \E i \in IP : Expire(i)
  \/ Restart

Spec == Init /\ [][Next]_vars

(* The goroutine of a query runs on (upstream servers are given up after   *)
(* some seconds); so does the refresh, whose reading is cut off after 15   *)
(* seconds; whoever else has the connection returns it; and database/sql   *)
(* serves those who wait for it in order.                                  *)
Fairness ==
  /\ WF_vars(Refresh) /\ WF_vars(OtherReturns)
  /\ \A q \in Query : WF_vars(Serve(q)) /\ SF_vars(AskCache(q))

FairSpec == Spec /\ Fairness

---------------------------------------------------------------------------
(* Properties.                                                             *)

TypeOK ==
  /\ conn \in {"free", "fetch", "other"}
  /\ table \subseteq Domains /\ domains \subseteq Domains /\ steady \subseteq Domains
  /\ fetch.pc \in {"sleep", "get", "begin", "read", "commit", "publish"}
  /\ cache \in [IP -> {None, "clean", "abusive"}] /\ inProgress \subseteq IP
  /\ \A q \in Query : /\ query[q].pc \in {"names", "ips"} => query[q].ips \subseteq IP
                       /\ known[q] \subseteq IP
  /\ \A l \in lookups : l.ip \in IP /\ l.pc \in {"ask", "store", "clear"}

(* A phishing site that was in the table when guard was first started, and *)
(* in all that was loaded since (lists, and the rows a start could read),  *)
(* is never answered for: not during a refresh, not after one that failed  *)
(* half-way, not after a crash.  Nor is a query one of whose questions the *)
(* policy refuses.                                                         *)
SteadyRefused ==
  \A q \in Query :
    query[q].pc = "answered" => query[q].names \subseteq Allowed \ steady

(* What a restart would load is what is refused now, except between the    *)
(* commit of a list and its publication: failed and unfinished refreshes   *)
(* leave both alone.                                                       *)
RestartSame == ~lossy /\ fetch.pc # "publish" => domains = table

(* "deduplicate concurrent lookups": one address is looked up once at a    *)
(* time, however many queries resolve to it.                               *)
OneLookup == \A k, l \in lookups : k.ip = l.ip => k = l

(* "result available on next DNS query": an address whose bad verdict is   *)
(* in the cache while a query is served is not passed on to the client.    *)
KnownRefused ==
  \A q \in Query :
    query[q].pc = "answered" => query[q].ips \cap known[q] = {}

(* The transaction of a refresh makes queries wait, but each is answered   *)
(* (or the daemon dies).                                                   *)
QueryAnswered == \A q \in Query : query[q].pc # "idle" ~> query[q].pc \in Replied \cup {"idle"}
===========================================================================
