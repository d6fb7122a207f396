# tpt-av: a TLA+ model of the daemons

tpt-av is a small endpoint-protection suite in Go: `tpt-patrol` watches and
scans files and quarantines what a threat feed condemns, `tpt-guard` is an
outbound firewall with a filtering DNS resolver, `tpt-backup` copies files away
on a schedule. This directory models the parts of them that keep state and run
concurrently, checks the models with TLC and proves what matters most with
TLAPS. Paths below are relative to the repository.

## 1. Inventory

Three daemons, each one process with its own SQLite file opened by
`internal/db` with **one** connection (`SetMaxOpenConns(1)`): a statement waits
in the queue of `database/sql` while another, or a transaction, has it.

| component | state | operations | who calls it |
|---|---|---|---|
| `internal/quarantine` | the vault directory, the key file `.tpt-qkey`, table `quarantine` | `New`, `Quarantine`, `Restore`, `Delete`, `List`, `Get` | the logging goroutine of any scan or watcher event (`autoLogger.Write`), REST goroutines |
| `internal/guard/firewall*_linux.go`, `firewall_windows.go` | kernel rules (chain `TPT_GUARD`, table `tpt_guard`, or rules of netsh named `TPT_...`), table `guard_rules` | `Apply`, `AddAllow`, `RemoveAllow`, `BlockCIDR`, `FlushGeoBlocks`, `Flush` | `main`, REST goroutines, country blocking |
| `internal/guard/geoblock.go` | rows `geo_block` of `guard_rules`, a mutex | `Start`, `refresh` | `main`, cron, a goroutine at the start |
| `internal/guard/dns.go`, `internal/threatfeed/phishing.go`, `abuseipdb.go` | the phishing set and its table, `threat_cache`, lookups in progress | `handle`, `fetch`, `IsAbusive` | a goroutine per query, a refresh loop |
| `internal/patrol/baseline.go`, `scanner.go` | tables `file_baseline`, `folder_summary` | `runScan`, `RebuildBaseline` | cron, REST (each in a goroutine, nothing keeps them apart) |
| `internal/patrol/watcher.go` | the pending map under a mutex | `eventLoop`, `debounceLoop`, `processFile` | fsnotify, a ticker |
| `internal/threatfeed/client.go` | `threat_cache` | `Check` | a goroutine per deep scan |
| `internal/patrol/canary.go`, `ransomware.go`, `internal/netmon` | maps under a mutex | `Plant`, `Triggered`, `Record`, `evaluate`, `pruneExpired` | event loop, timers, tickers |
| `internal/alert` | last time of a mail per event type | `Send` | a goroutine per event |
| `internal/backup` | snapshot directories, objects in a bucket, table `backup_hashes` | `run`, `prune`, `UploadChanged` | cron, `-run` |
| `internal/events` | an append-only file shared by the daemons | `Write`, `ReadSince` | everything |
| `internal/api` | the token file shared by two daemons | `EnsureToken`, middleware | both `main`s |
| `tptctl events --tail` | the token it has read, the time `last` | `tailEvents` asks `GET /events?since=` every 2 seconds | the operator |

Stateless parts: YARA, ClamAV, heuristics, the DoH client, configuration, the other
commands of `tptctl`, tray and dashboard. `PROJECT.json` lists every part with its status.

**Interaction.** Watcher and scanner hash files, compare with the baseline, log
an event and start a deep scan; the deep scan asks the feed and logs
`threat_detected`; the logger writes the event, mails it, and on this one type
moves the file to the vault before it returns. In guard, REST calls, the country
refresh and the DNS path share the kernel's rules and the one connection.

**What is hard here.** No operation that spans a file, a command and a SQL
statement is atomic, and none is undone when a later part fails. Crashes fall
between any two of them. Scans, rebuilds and the watcher interleave freely. A
refresh keeps a transaction open over thousands of commands. Times are compared
by the second. Errors are mostly ignored. Log and token file are shared by processes
that know nothing of each other.

**What makes each component correct.**

* vault: nothing the user wrote is lost; what is listed can be restored; the key
  is never replaced while something is sealed with it;
* firewall: default deny once reported; a range the API has allowed is listed and let
  through, one it has removed is closed; a recorded country range is dropped;
* country blocking: it comes back after any failure, and the API never hangs;
* baseline: no stale record passes for clean; nothing is taken for good
  silently; a dirty folder is caught up with;
* watcher: the last write of a file is compared, if its event came and it can be read;
* feed: nothing is quarantined, or passed over, without a verdict; an outage is not
  remembered;
* detectors: every event of a canary, every burst and every beacon has its alert, and
  no other has; the directory always has a canary;
* mailer: mails of a type are a cooldown apart, and a lasting stream is not silenced;
* backup: a whole snapshot survives failures and pruning; what the next run
  would pass over is in the bucket;
* log: a tail prints what it asked for, each event once; a reader gets an answer;
* token: both daemons accept the one in the file;
* resolver: what is listed is refused across refreshes and restarts, an address
  is looked up once at a time, and a query is answered.

## 2. Modules

| module | models | proofs |
|---|---|---|
| `Vault` | what the vault promises: the abstract specification | |
| `Quarantine` | the vault; implements `Vault` | `QuarantineProofs`, `CustodyProofs` |
| `Firewall` | iptables and nftables, and the REST handlers on any backend | with `GeoBlock` |
| `FirewallWindows` | start and stop where the firewall is netsh; EXTENDS `Firewall` | with `GeoBlock` |
| `GeoBlock` | country blocking; EXTENDS `FirewallWindows` and is the whole of guard's rules | `GeoBlockProofs` |
| `Integrity` | baseline, scans, rebuilds, watcher | `IntegrityProofs` |
| `Backup` | snapshots, pruning, uploads, overlapping runs | `BackupProofs` |
| `Resolver` | the DNS handler, the phishing list, the lookups of addresses | `ResolverProofs` |
| `Response` | deep scans, the threat feed, the automatic quarantine, the mailer | with `Sensors` |
| `NetMon` | the connection monitor | with `Sensors` |
| `Sensors` | canaries, mass changes, the watcher's event loop; EXTENDS `Response` and `NetMon` | `SensorsProofs` |
| `Token` | the token file and the daemons that share it | with `Journal` |
| `EventLog` | the log file and `ReadSince` | with `Journal` |
| `Journal` | daemons, log and `tptctl events --tail` together; EXTENDS `Token` and `EventLog` | `JournalProofs` |
| `MCQuarantine`, `MCGeoBlock`, `MCIntegrity`, `MCBackup`, `MCResolver`, `MCSensors`, `MCJournal` | constants and symmetry for TLC | |

### Quarantine

A file is a name with an inode (`dir`, `data`), because the code mixes renames,
truncating opens and unlinks, which differ exactly in what they do to a file
somebody else has open. The content is the version of the user's data (0 when
torn) and the list of keys it is sealed with: sealing twice, or with a lost key,
is visible. A goroutine's call is a record with a program counter (`work`); each
system call and each statement is an action:

| code | actions |
|---|---|
| `New`, `loadOrGenerateKey` | `Boot`, `GenerateKey`, `SaveKey` |
| `Quarantine` | `BeginQuarantine`, then `Rename`, or `ReadSource` `CreateTarget` `FillTarget` `Unlink`, then `Commit` |
| `Restore` | `BeginRestore`, the same moves the other way, `Commit` |
| `Delete` | `BeginDelete`, `Unlink`, `Commit` |
| errors, returned or ignored | `ReadFails`, `FillFails`, `UnlinkFails`, `CommitFails`, and inside `Rename` and `Unlink` |
| environment | `Crash`, `UserWrite` |

The history variables say what may be excused: `released` (the user replaced or
deleted that version), `contested` (two activities overlapped on a path),
`halfway` and `struck` (a crash or an error fell between two steps). A property
excuses only the states its history names. Two quarantines of one path do not contend:
scan and watcher may both move a file, and all properties hold of it.

A file that cannot be removed (`UnlinkFails`: immutable, in use on Windows, on a mount
that has turned read-only) stays where it is. A sealing move returns the error and leaves a
blob without a row; the plain copy ignores it (quarantine.go:66) and writes the row, so
the threat is listed as quarantined and is still at its path. `Moved` says that this does
not happen and is refuted; nothing is lost by it, as the other properties show.

`Vault` is the same without inodes, keys, program counters, statements and crashes:
what is at each path, what is in custody under each id, what a call has in its hand.
A file leaves its path in the very step that puts it into custody, or is copied there
(`Copy`) when it cannot be removed; custody ends on request or when the version is back
where it came from, and no blob is replaced.
`ImplementsVault` maps to it: `File`, `Kept` (a blob is in custody from the rename, or
from the unlink of the source, or the attempt, and not only from its row on), `Carried` and
`Droppable`. A crash is `Leave`, most other steps are stutters. This is checked and proved
up to the first overlap of two activities on one path: after it, as `ListedIntact` and
`Accounted` show, one of the two may lose.

### Firewall, FirewallWindows and GeoBlock

Ranges do not overlap, so the rules of one range are a sequence: for iptables
the chain's rules for it in order, for nftables the sets it is in. `Reachable`
is the kernel's verdict. `Reset` to `Close` are `Apply`; `Begin...` to
`PurgeRows` the two handlers; in `GeoBlock` `ApplyCached` is `Start` and
`FetchList` `ClearRows` `FlushGeoBlocks` `BlockCIDR` `CommitTx` one country of a
refresh. `DbFree` is the single connection. Every command and every statement may fail,
as the code sees it: an error returned (`StatementFails`, `AddRuleFails`), or ignored
(`RemoveRuleFails`, `ClearRowsFails`, in the loop of `FlushGeoBlocks`, in `CommitTx`).

The histories on Linux begin anew at each start (`Afresh`), because the rules do: `wanted`
are the ranges that calls have allowed since. What the table still lists from before is
not put back by `Apply`, so it is closed, says `DenyInForce`, and `ListedInForce`, that
what is listed is in force, is refuted. `GeoInForce` says that recorded country ranges
are dropped and not reachable; on iptables with the exception of ranges a call has allowed
afterwards (`Overridden`), which is what `GeoFirst` is refuted by.

On Windows there is no table to throw away: rules persist, over a crash and over a
reboot, and are found again by name only. `NetshPolicy` and `NetshPopulate` are
`Apply`, `NetshFlush` is `Flush`, which deletes the rules that have the name of a row.
So the histories are not reset at a start. A range is excused (`unheard`) when a
command or statement about it failed or a call was cut off, until its rule and its row
agree again at some start. In the same way `contested` are the ranges on which two calls met
or which iptables was told to accept twice. `MaxCalls` bounds the REST calls under way at a time, by
backend (`Client` bounds the goroutines).

Seen on the way, and followed by the model: `FlushGeoBlocks` "removes all geo-block
DROP rules" (firewall_linux.go:122), "all TPT_GEO_ prefixed rules"
(firewall_windows.go:104), but with iptables and netsh it removes those of the recorded
ranges, and `fetchAndBlock` has deleted the rows of its country before it calls it
(geoblock.go:141): ranges that have left the list stay dropped (`FlushedAll`, refuted). If
that DELETE fails, the rows stay and their rules go: `unheard`. `Flush` on Windows
leaves the `TPT_ALLOW_<i>` of configured ranges and every rule without a row.

### Integrity

One folder both watched and baselined. `LookAt` is the stat (and, for a scan,
the row), `HashFile` the hash, `UpdateBaseline`, `Store` and `Summarise` the
writes; two jobs interleave file by file. `TakeEvent`, `Drain`, `ProcessFile`
and `Compare` are the watcher behind a queue of bounded length. The clock is
coarse, so a write may leave the time of modification as it was.

A file that is there and cannot be opened or read is passed over by a job
(`HashFileFails`) and by the watcher (`ProcessFileFails`), which has taken it out of
`w.pending` before. `missed` are the files with such a failure, or with an event that
the full queue dropped, until the watcher has read them again. `LastWriteSeen` leaves them
out; `EveryWriteSeen` does not, and is refuted.

### Backup

A run is a goroutine with a program counter, from `StartRun` (the directory named
after the minute) over `OpenCopy`, `FillCopy` for each file and `ListSnaps`,
`RemoveAll` of the pruning to `Walk`, `HashFile`, `ReadFile`, `PutObject`,
`Record` of the upload. `CopyFails`, `RemoveFails`, `HashFails`, `PutFails`,
`RecordFails` and `Crash` are the ways it ends early; a removal that fails, or is cut off
by the death of the process, leaves a part of the directory (`RemoveFails`). cron does not wait for the
run before (nor does `-run`, another process), so runs overlap. A hash is the
content, and an object is its content: `signV4` and `encrypt` are not modelled.
History: `complete` is what each file held while it was copied, `spoilt` the
minutes shared by two runs, `doubt` the files where the code makes no promise
(written between hash and read, uploaded twice at once, a lost answer).

Seen on the way: a rebuild, "from scratch" (scanner.go:69), deletes no row of a removed
file (baseline.go:84); `-run` is documented as "then exit" (main.go:19) but waits for a
signal.

### Resolver

`Wake` to `Publish` are the refresh of the phishing list: its transaction has the
connection from `BeginTx` to `CommitTx` or `ReadFails`, and the server's answer is
read in between. A query goes from `Arrive` over `CheckName` for each question and
`Forward` to `FromCache` for each address, which waits for the connection; a miss
leads to `LookUp`, which may start a lookup (`QueryAPI`, `CacheResult`, `Clear`).
`OtherTakes` and `OtherReturns` stand for the country refresh and the REST
handlers. `Restart` is the death of the daemon and its next start, which loads the
table before the resolver listens, or as many of its rows as it can read. `Strip` removes "www." from the lines of the
feed and, as in the code, from nothing else. The history variables are `steady`
(names on every list so far, and read at every start), `lossy` (ignored errors in the last transaction) and
`known` (addresses a query must refuse).

Two things the model follows although comments say otherwise: an error page counts as an (empty) list (phishing.go:65 "using
cached list"), and `www.evil.com` is not found when `evil.com` is listed
(phishing.go:156). The waiting itself is the third: abuseipdb.go:51 "don't block
DNS resolution".

### Response, NetMon, Sensors

A deep scan is a goroutine with a program counter: `StartDeepScan` (its file was
hashed), `FromCache`, `AskBazaar`, `AskTotal`, `CacheResult`, `Judge` (anything but
clean is logged), `Move` (`autoLogger.Write` goes on to the vault, a set here),
`Match` (YARA, ClamAV and the heuristics). `Logged` and `LogFails` are the two ends
of a write to the log: only the first starts a mailer, whose `Send` takes the lock
once. A verdict may change from one question to the next; `answers` is what the
feeds have said, `quiet` what passed as clean.

When no feed answers, or none is configured, the verdict is "unknown" and the file is
moved like any threat: `VaultJustified` allows for it (`outage`), so what it shows is
that nothing else is taken and that the outage is not cached.

`WriteCanary` and `Register` are the two halves of `Plant`, the first of which raises
two events in the directory that is watched; a write that fails may leave the file, and its
events, behind (`WriteCanaryFails`). `Touch` is everything fsnotify reports of a canary: it
is written, renamed, removed, or its mode changes. A `Read` raises no event, although "any
access" is to be an alert (canary.go:18): `AccessAlerted`, refuted. `TakeEvent` is one turn of `eventLoop`:
`Triggered` or `Record`. The model follows the code in that a canary triggers itself
when it is planted, so alerts and new canaries go on without end (`Canary` bounds
them). `early` marks a canary whose event was taken before `Register`: removed in that
gap it leaves the directory without a canary, and `CoverKept` excepts it.

`Stop` removes the canaries that are in the map; one that has raised an alert is not,
so it is left behind although `CleanupAll` "removes all canary files (called on
shutdown)" (canary.go:85), and as each alerts when it is planted this is the rule.
`Restart` forgets what the daemon keeps in memory, the cooldown included, and leaves
the canaries on disk; `IsCanary` still knows them by their prefix.

`Poll` is one tick of the connection monitor with an arbitrary set of connections. A
connection that simply stays open is sighted at every tick and counts as a beacon.

The process monitor calls `Check` too, but only for executables whose row in
`process_baseline` differs, and nothing writes that table.

### Token, EventLog, Journal

| code | actions |
|---|---|
| `main`, `EnsureToken` | `Start`, `ReadToken`, `OpenFile`, `FillFile` |
| `WrapMux`, `BearerMiddleware` | `Authorised`, a guard of `Poll` |
| `events.New`, `Logger.Write` | `New`, `BeginLine`, `EndLine`, `WriteFails` |
| `ReadSince` | `Open`, `DecodeLine`, `DecodeFails`, `EndOfFile` |
| `tailEvents`, `GET /events` | `StartTail`, `Poll`, `PrintAnswer` |
| environment | `Die` (a daemon), `Tick` |

A line is in the file in two pieces, because a write that crosses a page can be seen
half done by another process, and one that fails or whose process dies stays half done.
Under the kernel's lock of the file no other line comes in between, but the next line
follows a torn one without a break. `printed` and `due` are the histories: what the
tail has shown, and what was in the log, and new, when it asked. `raced` says that two
daemons found no token at the same time.

Seen on the way, and followed by the model:

* What is logged after the file was read and stamped before `last = time.Now()` is
  never shown by the tail, so `due` holds only what was there when it asked.
* East of Greenwich the time in the URL has a `+`, which the query decodes to a blank;
  the error of `time.Parse` is ignored (tpt-patrol/main.go:258) and the zero time asks
  for the whole log, so the tail prints everything anew every two seconds. `TailExact`
  excepts it (`zone`).
* Two daemons that find no token write one each (`raced`): the one that was faster then
  refuses the token in the file until it is restarted, and `TokenShared` excepts it.

## 3. Runs

| run | bounds | shows |
|---|---|---|
| `quarantine` | 2 goroutines, a local path and one on another filesystem, 2 quarantines, 2 versions, 2 keys, 1 crash, any read, write or removal failing, 2 calls left half done | `TypeOK` `KeySafe` `ListedIntact` `Accounted` `RestoredReadable` `ImplementsVault` |
| `quarantine_disable` | the same, with `encrypt` switched off | `RestoredReadable` fails: ciphertext is restored |
| `guard` | 2 clients (on netsh one call at a time), 2 ranges (one configured), 1 country whose list shrinks, three backends, both policies, 2 starts, 1 command or statement failing | `TypeOK` `DenyInForce` `WantedInForce` `GeoInForce` |
| `guard_live` | nftables, 1 client, 1 country with two possible lists, 2 starts, 1 failure | `CallsReturn` `GeoReturns` |
| `guard_countries` | nftables, 2 countries | `GeoInForce` fails: one set for all countries |
| `integrity` | 1 file, 2 jobs, 2 contents of one size, 2 writes, 2 seconds, a queue of 1 (so that it overflows), 1 failed hash or write | `TypeOK` `StampSound` `NothingSilent` `LastWriteSeen` |
| `integrity_live` | 2 files, 1 job, contents of two sizes, 1 write, 1 failed hash or write | `ScanCatchesUp` |
| `backup` | 2 overlapping runs, 2 files, 2 contents, local, cloud or both, 1 snapshot retained, 3 minutes, 1 or 2 writes (none when both are on), 1 failure or crash | `TypeOK` `CompleteWhole` `LastKept` `SkippedIsStored` `PruneKeepsNewest` |
| `resolver` | 1 goroutine of queries, a site with and without "www." of which one is allowed, another site, 3 lists (one of them empty), 1 address; no bound on queries, refreshes, failures and restarts | `TypeOK` `SteadyRefused` `RestartSame` `OneLookup` `KnownRefused` `QueryAnswered` |
| `sensors` | one of: 1 path, 2 contents, 2 deep scans, with both feeds and 1 write, or one feed and 2 writes, or none and no quarantine; 3 canaries, 2 touches; 6 changes in 5 ticks, threshold 2, window 2, cooldown 3; 5 polls of up to 2 connections, 1 or 2 ticks apart, threshold 3; 1 failure or restart | `TypeOK` `VaultJustified` `SilenceJustified` `AlertTold` `BeaconTold` `NewTold` `TouchAlerted` `CoverKept` `BurstAlerted` |
| `journal` | guard and patrol with a goroutine each that logs, 2 events, 2 tokens, 1 death, 1 line cut off, 2 answers, 3 moments | `TypeOK` `TokenShared` `TailExact` |
| `journal_torn` | the same without deaths, 1 answer | `ReadReturns` fails: a call of `ReadSince` that meets a torn line, or one being written, does not return |

Why the bounds suffice: every race in this code is between two goroutines over
one path, range or row, with at most one crash or failure in between; the bounds
give each of those and a second use of the same path, range or row afterwards.
`resolver` has one goroutine of queries, because its lookups already go on beside the
next query, and its five safety properties are proved for any number of them.
`quarantine` prunes states in which activities overlapped on a path
(`Uncontested`), and those in which more than two calls were left half done by crashes and
errors (`FewLeftHalf`); that is its constraint, `Explored`. Of its properties `TypeOK` and `KeySafe` speak of such a path and
the other three of the paths beside it: all five are proved without that constraint.
`ImplementsVault` alone is known, by the run and the proof, up to the first overlap
only. Deadlock is not checked: the user's writes, crashes and restarts are bounded, so
the models do come to rest.

**Fairness.** `guard_live`: a started daemon runs its start to the end, commands
return, cron fires (weak fairness); a statement waits in the FIFO queue of
`database/sql`, and a feed asked every week answers some time (strong fairness,
since both are enabled on and off). `integrity_live`: goroutines run on and cron
starts scans (weak fairness). `resolver`: a query's goroutine and the refresh run
on, because their requests have timeouts, and other users return the connection
(weak fairness); a statement that waits for it is served in order (strong).
`journal_torn`: a handler runs on and a line that was begun is completed (weak
fairness), so that the call does not fail to return for want of a turn. Nothing is
assumed of users, crashes or failures.

**What the failing runs say.** They are listed under `findings` with the comment
of the code they contradict. Each is a plain run of the code as it is.

**Refuted forms.** Where the code does less than a line of the repository says, a property
of the runs above claims what the code does, and its comment says what it leaves out. What
the line says is stated beside it, and has a configuration that is not among the runs, in
which TLC finds it violated (`tlc -config <configuration> <module>`):

| configuration | property | the line | what the code does instead |
|---|---|---|---|
| `MCQuarantineKey.cfg` | `KeySafe`, an intact key file may not be readable | "generates and saves a new random one if it does not exist" (quarantine.go:157) | any read error (line 164) leads to a new key over the one in use: what is sealed opens no more |
| `MCQuarantineStuck.cfg` | `Moved` | "Quarantine moves a file into the quarantine directory" (quarantine.go:49) | the copied file cannot be removed, the error is ignored (line 66): listed as quarantined, still at its path |
| `MCGeoBlockRestart.cfg` | `ListedInForce` | "List all whitelist rules" (tptctl/main.go:75), "current rules" (todo.md:75) | `Apply` empties the chain and puts back the configured ranges only (firewall_linux.go:65): after a restart the ranges of the API are listed and dropped |
| `MCGeoBlockOrder.cfg` | `GeoFirst` | "before ACCEPT rules" (firewall_linux.go:114) | `AddAllow` inserts in front of every rule (line 82): a range allowed later is reachable |
| `MCGeoBlockTwice.cfg` | `RemovedClosed` | "RemoveAllow deletes the ACCEPT rule for the given CIDR" (firewall_linux.go:98) | allowed twice and removed once, it is reachable, and no row is left to remove it by |
| `MCGeoBlockFlush.cfg` | `FlushedAll` | "removes all geo-block DROP rules" (firewall_linux.go:122) | the rows of the country are gone when the rules are looked up by them (geoblock.go:141): the rules stay |
| `MCIntegrityUnread.cfg` | `EveryWriteSeen` | "modify watched file → event appears" (todo.md:135) | a file that cannot be read when its turn comes has left `w.pending` (watcher.go:181): no event, no second try |
| `MCSensorsRead.cfg` | `AccessAlerted` | "Any access, rename, or deletion of a canary fires a critical alert" (canary.go:18) | `fsnotify.Add` (watcher.go:84) has no event for a read |

## 4. Proofs

A module of proofs EXTENDS the module it is about. A theorem holds for every value
of the constants that satisfies their named assumptions (bounds are natural numbers,
absent values are no real ones): any number of files, goroutines, clients, failures and
restarts, where a run has two or three. None but those of the vault has another
hypothesis, and `CountryIsDropped`, which is about one country. All invariants were
checked with TLC on the runs' instances before they were proved.

| module | properties of runs that it proves |
|---|---|
| `QuarantineProofs` | `TypeOK` `KeySafe` |
| `CustodyProofs` | `Accounted` `ListedIntact` `RestoredReadable` `ImplementsVault`, and that files never mix |
| `GeoBlockProofs` | `TypeOK` `DenyInForce` `WantedInForce`, and `GeoInForce` for one country |
| `IntegrityProofs` | `TypeOK` `StampSound` `NothingSilent` `LastWriteSeen` |
| `BackupProofs` | `TypeOK` `CompleteWhole` `LastKept` `SkippedIsStored` `PruneKeepsNewest` |
| `ResolverProofs` | `TypeOK` `SteadyRefused` `RestartSame` `OneLookup` `KnownRefused` |
| `SensorsProofs` | `TypeOK` `VaultJustified` `SilenceJustified` `AlertTold` `BeaconTold` `NewTold` `TouchAlerted` `CoverKept` `BurstAlerted` |
| `JournalProofs` | `TypeOK` `TokenShared` `TailExact` |

**QuarantineProofs.** `TypeOK` is not inductive: the type of a step's result depends
on what its program counter promises. `Shape` adds `CallOK` (which files a call at each
point has open, and that a call exists only while the daemon is up), `RowsOK`
(every listed id was handed out and has a user's path) and `KeyOK` (the key in
memory is the key on disk; before it is saved nothing runs). `KeySafe` needs,
beside `Shape`, `SealOK`: also what a goroutine has read and not yet written is
sealed with the key on disk only. The step from "no key file" to "a new key" is
the interesting one: with no key file nothing can be sealed, because every
sealed content names the key on disk. The theorem assumes that an intact key file can
be read, and that is not idle: otherwise `loadOrGenerateKey` overwrites the
key (`MCQuarantineKey.cfg`).

**CustodyProofs.** Two more parts hold whatever overlaps. `IdsOK`: the blob of a new id
is nobody else's before its row is there, and the blob of a restore is listed as long
as it exists. `LineOK`: every inode is of one user path, whether it is the file, a
listed blob or open in a call, and what it holds was born there; from it alone follows
`FilesNeverMix`: calls that overlap may lose a file, but never give out one as
another. `PathsOK` is about a path where nothing overlapped: the file is in plain
(`FileOK`), a listed blob is whole (`BlobOK`), a call between its steps holds what the
path and its blob hold (`TakeOK`, `GiveOK`), and a restore is alone there. A quarantine
is not: while its row is still to be inserted a restore cannot know the id, but the
user may write a new file, and this is why `TakeOK` speaks of the file only as long as
there is one. `EncOK` says which configuration rows and calls were made under.
`Accounted` is then inductive: each step that takes a version from one place (`Home`,
`Blob`) is shown to have put it into another before. Here too the hypotheses are those
of the run, and `quarantine_disable` shows what happens without `MayDisable = FALSE`.

The refinement comes last in the module. `Ready` is all of the above on a state where
nothing has overlapped yet, and one more invariant, `GivesAgree`: restores of an id
go to one path even when its row is gone. The lemmas `VaultWrite` to `VaultDrop` say, path by
path and id by id, which change of `File`, `Kept` and `Hand` is which move of `Vault`;
those from `VaultBegins` to `VaultStart` then take the actions of `Quarantine` one by one.
A quarantine's rename is `TakeAway`; when it copies instead, the read is `PickUp` and the
unlink `TakeAway`: what it holds is still what is at the path (`TakeOK`). If the unlink
fails it is `Copy` for a plain move, and `Leave` for a sealing one, which returns. A
restore's read is `Lend`, its truncating open `Truncate`, its write (or rename) `PutBack`, the
unlink `Drop`; a step that ends a call, or all of them, is `Leave`. A call alone has a
hand for its id (`Sole`), but for deletes, which hold nothing; and no inode that a step opens
or fills is in another hand (`CreateAlone`, `FillAlone`, from `LineOK`). The theorem
is about behaviours in which no activities overlap on a path; since `Spec` may stop at
any point, each other behaviour is covered up to its first overlap. Of what
comes after it `Accounted` and `FilesNeverMix` speak.

**GeoBlockProofs.** `PhaseOK` says what is in the kernel at each point of `Apply` and
`Flush`; `RangeOK` relates, for each range, configuration, row, rule, the calls under
way and the histories; `RulesOK` is the order in which iptables matches a range's rules,
a DROP of a country first; `GuardOK` the default deny and its absence. `CountryOK` follows a
refresh: which of the country's rows have been deleted, which ranges of the new list
have their rule, and that what was cut off is found again by the next start; and that
what a country drops is not reachable, by the order of `RulesOK`, until a call allows it.
`CountryIsDropped` assumes one country because with two it is false
(`guard_countries`). The facts about sequences of rules need an induction over their
length, which is stated for one fixed set of ranges (`WellFoundedInduction`).

**IntegrityProofs.** `Stamped(p, r)` is the heart: a record (a stat held by a job, an entry
waiting in the watcher, a row) with the time the file has now has the hash of
its content, unless the file was written twice in that second. It is kept by every step
because a write gives the file a time no record has, or marks it (`Dated`: a time that
is the present second makes the file `hot`). `TablesOK` adds that every hash in the
baseline was told of or stored by a rebuild; `WatchOK` (`FollowedUp`) that a file not
pending, not in a queue, not under comparison and not `missed` was compared as it is.

**BackupProofs.** `PruneOK`: behind what is still on the list of a pruning run there
are enough newer directories, whatever other runs add meanwhile; runs that overlap
remove from stale lists, and this is why the newest survive. `WholeOK`: what a run has
copied agrees with the history of what each file held; `LastOK` ties the two
(a complete snapshot is kept while runs do not overlap). `CloudInv`: at a file without
`doubt` at most one run is at work, and the row and the object agree.

**ResolverProofs.** The inductive invariant `IInv` has one part for each of the things that
interleave: `Types` (which fields a query, a lookup and the refresh have at each point),
`ListOK` (steady names are in the table, in memory and in what is about to be published,
so no order of commit, publication and restart loses one), `NamesOK` (the questions a
query has passed are not steady: `steady` only shrinks, so an early check stays
valid), `LookupsOK` (every lookup is registered in `inProgress`) and `KnownOK` (what
is known of an address agrees with the cache).

**SensorsProofs.** Each detector has its invariant, and the others leave it alone.
`FeedInv`: the verdict in a scan's hands and that in the cache were given by a feed for
that hash, or no feed answered this scan. `MailInv`: the last time of a type is that
of the last mail. `SeenInv`: an address is remembered with the last tick at which it was
seen. `WatchInv`: as many events of a canary were heard as were raised, less those
that wait in the queue, and the directory is covered by a canary in the map or by a
planting that is due.

`BurstInv` and `BeaconInv` tie a list that the code prunes to a history that nothing
prunes. `Suffix` is what both need: the list is the end of a history, and everything that
is left out is older than the cutoff. The history is that of all changes for a burst, whose
list is pruned by time alone, and of the sightings since the last alert for a beacon, whose
list is emptied by one. As the times ascend, pruning once more by a later cutoff leaves such an end
(`SuffixPruned`), the next time continues it (`SuffixGrows`), and a list that has reached
the threshold has the times the reference asks for (`SuffixFull`). That a beacon's list
disappears from its map with `pruneExpired` is harmless only because of `SeenInv`: an
address forgotten there was last seen longer ago than the minute that counts
(`NetAssumption`: `Minute <= SeenTTL`). The loops of the code, over the list of times
(`Newer`) and over a poll's connections (`Evaluate`), are recursive functions. Each is
unfolded from the existence of a function that satisfies its equation, which is an
induction over the set of lengths for which there is one (`UpTo`), so no library theorem
with an operator parameter is needed. `SensorsInv` joins all parts; with `Fitting` (which
verdict a scan has at which step) it implies `TypeOK`.

**JournalProofs.** `TokenInv`: a daemon that makes a token found none, so unless
two do so at once no daemon with a token to compare is up. `LinesOnce`: each event has
one line; `AnswerOK`: an answer has only completed lines before the place the reader is
at, newer than the question; `PrintedOK`: what the tail asked for is printed, in
the answer, or ahead of the reader.

**Only model-checked:**

* liveness (`CallsReturn`, `GeoReturns`, `ScanCatchesUp`, `QueryAnswered`,
  `ReadReturns`), which is out of the prover's reach;
* `GeoInForce` with more than one country, where it fails on nftables.

## 5. Not modelled, and why

* Power failures and unsynced writes: a crash here is the death of the process,
  what it wrote stays.
* Reads of a file in the middle of somebody's write: a user's write and a hash
  are one step each.
* Accesses that change nothing, but for reads of a canary (`Read`).
* How calls on one range that overlap should end (`contested`), what a second too coarse
  cannot tell (`fooled`), directories two runs shared (`spoilt`), events logged after a read
  (`due`), two daemons that make a token at once (`raced`): the models have these
  behaviours, the properties leave them out, and no document promises anything about them.
  The hazards of `PROJECT.json` say so one by one.
* `os.MkdirAll` errors, `rand.Read` errors and a failing `Get`: they return before
  anything is changed.
* Failing commands after nft's chain exists (the four rules) and the loopback and
  established rules: taken to succeed.
* Excluded paths and extensions, the scan window, ports, logging, mail contents.
* Windows but for `firewall_windows.go`, and of that the rules of single processes:
  the other files are the system calls of another platform around the logic modelled.
* The process monitor: it reads `/proc` and a table nothing writes, and keeps no state.
* `LoopbackCORS`, the read-only routes and the digest, which decide nothing that lasts.
* The stateless parts listed above.

## 6. Plan

Done: all the modules of section 2, and the proofs of section 4.

Next, in this order:

1. Proofs: an abstract specification that lets overlapping activities lose a version,
   and `Quarantine` shown to implement it after an overlap, too.
2. Model: a run of its own for the uploads that catch up; the divergences of the
   phishing list, where a failing run says more than this text.
