# A verification of the dnsmasq-DHCP add-on

This directory holds TLA+ models of the add-on, TLC configurations that check
them on small instances, and proofs that TLAPS checks for every value of the
constants. Paths below are relative to the repository; `uibackend.go` is
`backend/pkg/uibackend/uibackend.go`, `trackerdb.go` is
`backend/pkg/trackerdb/trackerdb.go`, `dnsmasq.go` is
`backend/pkg/dnsmasqwrapper/dnsmasq.go`, the *script* is
`rootfs/opt/bin/dnsmasq-dhcp-script.sh`, and `init.sh` is
`rootfs/etc/s6-overlay/s6-rc.d/dnsmasq-init/init.sh`.

- [The system](#the-system)
- [The modules](#the-modules)
- [What the runs check](#what-the-runs-check)
- [Fairness](#fairness)
- [What is proved](#what-is-proved)
- [Where the code and its documentation disagree](#where-the-code-and-its-documentation-disagree)
- [Plan](#plan)
- [Not modelled](#not-modelled)

## The system

One container. `s6` runs the one-shot `dnsmasq-init` (init.sh), then the
services `dnsmasq`, `backend` (Go), `nginx` and `log-helper`. dnsmasq writes
three things the add-on reads: the lease file `/data/dnsmasq.leases`, events
handed to the script, and the log `/tmp/dnsmasq.log`.

```
             lease file --inotify--> LeaseFeed --broadcastCh--> WebSocketHub --> browsers
            /                            \----dhcpClientData----/     ^
  dnsmasq --- events --> script --upsert--> trackerdb.sqlite3 --------+ past clients
            \                                    ^ purge (backend)
             log ------> LogTail --> stderr, counters
  init.sh: lease reset, start epoch, options.resolved.json, dnsmasq.conf
```

| component | state | operations | hard behaviour | correct means |
|---|---|---|---|---|
| lease feed (`uibackend.go` 465-550, 675-724, 843-859) | `dhcpClientData`, the update being debounced | baseline read, receive, debounce, recovery of empty updates, store, notify | the baseline is read before the watch is installed; dnsmasq truncates and rewrites the file; the debounce drops all updates but the newest; the notification waits for the broadcaster | the list ends up equal to the file |
| websocket hub (277-375) | `clients`, `clientsLock`, the message of a round | upgrade, greet, register, read loop, unregister; tick, receive, generate, write | a greeting generated before the registration, a message generated before the lock, writes without a deadline under the lock, failing upgrades, stalled and vanished browsers | every connected browser ends up with the current list, nobody waits forever |
| history (`trackerdb.go`, `uibackend.go` 195-247, 793-814) | table `dhcp_clients` | read past clients and annotate them, purge | purge in two statements beside the script's upserts; timestamps compared as text | recent traffic is on record, notes are true, only the old is purged |
| script | none of its own; reads `/data/startepoch` | filter by kind and age of the epoch, upsert | killed by restarts; startup events look like renewals; failed upserts | a row stands for real traffic of the run it names |
| log tail (`dnsmasq.go` 252-418) | file position, buffer, counters | read lines, truncate every 500 | dnsmasq appends meanwhile; partial line at EOF; failed truncations | lines in order, each once, none vanishing unaccounted |
| init.sh | `startepoch`, `options.resolved.json`, `dnsmasq.conf` | lease reset, epoch, interfaces, NTP and DNS servers | stopped or failing between two steps with files of an earlier start around; waits for interfaces up to 30 s after the epoch | dnsmasq runs on a configuration of this start, with the interfaces that existed when they were looked for; the epoch names the run |
| s6 services (`*/run`, `*/finish`) | up or down | start in order, restart on status 0 or 256, else halt | services restart without init.sh, whose files must still fit; the backend exits 0 on every error of `ListenAndServe` | everybody has the same epoch; the add-on comes up, again when what was in its way goes |
| DNS statistics (`dnsmasq.go` 93-230) | none | six questions in sequence, decoding | failures in the middle of the sequence | a failure costs its own figure and is reported |
| options (`config/addon_options.go`) | the options, by MAC and by IP | `LoadFromJSON`, `loadDnsAliases`, `parseDuration` | sequential validation with early returns, overflow, map order | accepted options are coherent |
| networks and pools (`config/ipnetworkinfo.go`, `ippool/`) | none | `IsValid`, `Contains`, `Size`, `HasValidIPs`, `HasValidGateway` | IPv4 in 16 bytes, sizes beyond 64 bits | equal to set membership and cardinality |
| enrichment and page (`uibackend.go` 386-463, 552-672) | none | names, tags, links, static-IP flag; `renderPage` | lookups by MAC and by IP that disagree | flags agree with the options |
| frontend (`frontend/libs/dnsmasq-dhcp.js`) | the tables, `config` | `setConfig`, `initAll`, `processWebSocketEvent`, no reconnection | messages before the tables exist; the two lists of a message are of different moments | the tables follow file and database, no client is in both |
| logger, log-helper, nginx, templates, styles, tests | - | - | - | see [Not modelled](#not-modelled) |

## The modules

| module | models | main correspondences |
|---|---|---|
| `WebSocketHub` | the hub, with its producer abstracted to a list and a pending notification | one action per step of `broadcastUpdatesToClients` and `handleWebSocketConn` that another goroutine can see; `clientsLock` names its holder, `"lost"` after a panic inside the critical section |
| `LeaseFeed` | lease file, watcher, `processLeaseUpdates` | `Truncate`/`WriteBack` and `ReadEvent` are dnsmasq and the library `WatchLeases` (external), the others the goroutine |
| `UiBackend` | `LeaseFeed` and `WebSocketHub` composed | shared `dhcpClientData`; `Broadcast` is the send on and the receive from `broadcastCh` in one step, as the channel is unbuffered |
| `LivePage` | `UiBackend` with the past clients of each message and the page that shows it | `ReadPastOfRound`, `ReadPastOfGreeting` and `ReadPastFails` are the query that `generateWebSocketMessage` makes after it has copied the list; `RenderPage`, `OpenWebSocket`, `InitAll` and `Show` are `renderPage` and the page's scripts |
| `Supervision` | the container: init.sh step by step, s6 and its services, the start of the backend | one action per command of init.sh that writes a file, `InitFails` at each of them, `StopContainer` anywhere; `LookFor` is one `[[ -e /sys/class/net/... ]]` of lines 80-86; `Run`, `Restart` and `Finish` are the run and finish scripts; `ReadOptions`, `ReadLeases`, `Serve` and `ListenAndServeFails` are `ListenAndServe` and what `main` makes of it |
| `DnsStats` | `GetDnsStats` | `AskCounter` is one of the five questions for a number, `AskServers` the last; a reply is what the server sends, or that it sends none |
| `MCDnsmasqWrapper` | the instance of `LogTail` and `DnsStats` for TLC | each runs with the other at rest: they share nothing |
| `TrackerDb` | dnsmasq's events, script, table, purge, epochs, restarts | `RunScript` is the part of the script up to its decision, `Upsert` the statement; `PurgeSelect` and `PurgeDelete` the two statements of the purge |
| `LogTail` | `WatchAndPrintDnsmasqLog` | one action per exit of `ReadString` and per step of the truncation |
| `IpPool` | `ippool/`, `HasValidIPs`, `HasValidGateway` | operators over addresses of `AddrBits` bits, of which a prefix is IPv4; `Addrs` adds the second spelling of an IPv4 address ("::ffff:" before it), which `netip.Addr` tells apart and the pool does not |
| `AddonOptions` | `LoadFromJSON` and the lookups | one action per entry of a list that is stored, one per entry that is refused; what was stored before a refusal stays |
| `ClientRegistry` | what the loading promises about clients, without indexes | `AddonOptions` implements it: `stored` is what either lookup can find, `Stage` what may still be added |
| `ClientMetadata` | the rows of the two tables (`uibackend.go` 205-231, 552-692) | an operator per helper, evaluated on every state the options can be in |
| `MCClientMetadata` | the instance of the three for TLC | |
| `*_proofs` | the theorems about the module they are named after; `DnsmasqWrapper_proofs` is about `LogTail` and `DnsStats`, `AddonOptions_proofs` also about `IpPool`, `ClientMetadata` and `ClientRegistry` | |

Abstractions. A websocket message is the list it was built from, in `LivePage`
with its past clients. In `Supervision` a file is reduced to what dnsmasq
depends on: whether this start has made it, and its list of interfaces; order and
repetition in that list are left out, and so is where `ip route get` leads, which
is any interface that exists. Interfaces come and go at any time. What keeps the
backend from serving is one variable, `obstacle`: the first thing that
`ListenAndServe` would fail on. That dnsmasq depends on dnsmasq-init and the
backend on dnsmasq is said by the names of empty files in `dependencies.d`; the
map can only point to the one-shot's `up` for it. Epochs are numbered, since a second passes between
two starts. bashio runs scripts with errexit (nginx-init, which does not want it,
turns it off), so a failing command ends init.sh; which commands fail is not
modelled, any may, which is more than the code does (the look at an interface, for
one, cannot fail). A lease list
is a set of MACs with the number of the write that produced it, so that an old
and a new list with equal clients are different. A lease-file read is one step,
the truncation that a reader may see is a write of its own. Time in `TrackerDb`
is a clock of ticks; a restart takes at least one. A log line is two pieces, its
head and its tail, so that a reader can find half a line; positions in the file
are counted in pieces of everything ever logged, which makes what the file, the
buffer and the reader have behind them intervals of numbers. `Seek(0)` on an
open regular file cannot fail and has no failing variant. Text in the options is
reduced to what the checks make of it: a label is malformed or not, a DNS name is
the sequence of its labels, and an entry whose MAC address, link template or
reserved address does not parse is `flawed`; one alias stands for the list of
them. Sizes and durations are added in integers that wrap at `MaxInt` and
`MaxDuration`, as int64 does.

History variables never occur in a guard. `missed` (a write between baseline
and watch), `late` (registered with an outdated greeting and nothing stored or
broadcast since), `lost` (an event or line known to be dropped) and `leaked` (a
row written for a lease read at startup) name the exceptions that the
properties declare; each exception is a window the code really has, and the
violation runs show those that contradict a promise. In `Supervision`,
`reachable` and `absent` say which interfaces existed, and which did not, all the
time from the start until init.sh had looked for them.

The lines "Faulty variant" define wrong versions of an action. They are no part
of any next-state relation: each one shows that a property notices such a bug.

## What the runs check

| run | module, cfg | shows |
|---|---|---|
| hub | `WebSocketHub` | Two browsers, two lists, failing upgrades allowed: `ClientsExclusion`, `NoGhosts`, `NoUpdateForgotten`, `EveryoneIsGreeted`, `ProducerGoesOn` |
| ui | `LivePage` | One browser, two writes of the lease file (a truncation and a write, or the end of a rewrite under way and a truncation), one change of the database or failing query, a page that loads meanwhile: `NoWriteForgotten`, `RestsCurrent`, `NoClientTwice`, the refinement `ImplementsHub`, and end to end `PageFollows`, which implies `FollowsLeaseFile`. Deadlock is checked. |
| ui_no_refresh | `UiBackend`, `UiNoRefresh.cfg` | *violation*: without the refresh the window of the greeting is permanent |
| ui_upgrade_fails | `UiBackend`, `UiUpgradeFails.cfg` | *violation*: a failed upgrade takes the lock |
| tracker | `TrackerDb` | One client, five ticks, two queued events: `TrafficIsRecorded`, `NotesAreTrue`, `PurgeOnlyOld`, `OldClientsAreForgotten` |
| tracker_startup | `TrackerDb`, `TrackerStartup.cfg` | *violation*: startup events recorded as traffic |
| tracker_timezone | `TrackerDb`, `TrackerTimezone.cfg` | *violation*: early purges east of Greenwich |
| log | `MCDnsmasqWrapper`, `LogTail.cfg` | Seven lines, a truncation due every two: `LinesAreSettled`, `AttemptsAreSpaced`, `LinesInOrder`, `LinesAreRead`; six questions, each with any of five replies: `FailuresAreLocal`, `FailuresAreReported` |
| log_truncation | `LogTail`, `LogTailTruncation.cfg` | *violation*: a truncation drops lines |
| options | `MCClientMetadata`, `ClientMetadata.cfg` | Every network of a 5-bit address space (8 IPv4 and 24 IPv6 addresses), lists of up to two entries: `IndexesAgree`, `BlockedAreNotConfigured`, `RefusesTheIncoherent`, `PoolsAreCoherent`, `SizeCountsThePool`, `TablesAgree` (of the static flag), `NamesAreInDomain`, the refinement `ImplementsRegistry`, `DurationIsExact` |
| options_static_flag | `MCClientMetadata`, `ClientMetadataStatic.cfg` | *violation*: the static flag of a current client depends on the address it leases |
| supervision | `Supervision` | Two starts, two interfaces and "auto", interfaces and obstacles that come and go, services that die: `ConfOfThisStart`, `EpochOfThisStart`, `EpochStands`, `AddonServes` |

Why these bounds. Two browsers are what it takes for one to hold the lock, or
stall, while another waits; the proofs cover any number. In `ui` one browser
and one MAC suffice for every interleaving of the four goroutines because
browsers meet each other only in the hub, which the run `hub` has with two;
a rewrite is two writes and so two updates, of which the second arrives at every
place of the first; the proofs take any number. A change of the database and a
query that fails are counted together. `TrackerDb`
treats clients independently, apart from the single script and the single
purge; with two MACs the state space passes two million states, so the run has
one and the proofs take any number. Five ticks let a client be seen, age past
`ForgetAfter = 2`, be purged and come back after a restart. Seven lines see
three truncations and lines on both sides of each. `CHECK_DEADLOCK FALSE` is
set where the loading has ended, where the program waits for browsers or for dnsmasq or where only a bound
on time or lines stops the model.

In `options` all checks of an entry look at one or two entries, so two per list
show each of them; the first network is any that can be written with 16 addresses
and 11 netmasks (one of them each that does not parse, and netmasks that are not
contiguous), and five bits let a range be at a boundary of its network, of the
private addresses, of its family and of `MaxInt`.

In `supervision` the second start meets whatever the first one left; a third adds
nothing, as everything that survives a stop is what a second one starts from. Two
interfaces and "auto" make lists of which some, all or none is missing;
`Configurable` has the four of them that differ by more than an exchange of the
two interfaces, the empty one and the one of all three aside, which add no step.
`OtherServices` is empty there: nginx and log-helper use none of these files, and
what they can do to the rest, end the container, `StopContainer` does at any
moment; the proofs take any other services. The
replies of the `log` run are those that `chaosTXTQuery` and its callers tell apart.

`MaxWrites`, `MaxChanges`, `MaxTime`, `MaxPending`, `MaxLines`, `MaxStarts` and
`MaxEntries` are the only numeric bounds, each in the guards of external actions or of the entries that are
read: they limit what the environment does, never what the code does. `Configurable` bounds
the lists of interfaces; the proofs take any. In
`AddonOptions`, `Candidates` limits the second network to `TypicalNetworks`, and
`Varied` the other lists to be read after at most one network, of those: no check
of a client or a host looks at the networks.

## Fairness

Goroutines that can run do run. Fairness is strong where the goroutine waits
for something that comes and goes: a Go mutex in starvation mode is handed to
the longest waiter, `select` picks among ready cases at random, and a blocked
write continues when the peer drains its socket. Without strong fairness on the
broadcaster, handlers could pass the lock among themselves forever. The ticker
is weakly fair. Of the world is assumed that a stalled peer drains its socket or
disappears (`PeersRecover`; TCP keepalive or the user sees to it): one that
stalls for ever does block the broadcaster, under `clientsLock` and without a
deadline (`uibackend.go:349`), and with it everybody, so `EveryoneIsGreeted` and
`ProducerGoesOn` say nothing of that case. It is assumed too that
dnsmasq fills the file it has truncated. In `TrackerDb` init.sh ends, the helper
runs its scripts, the purge runs again every five minutes
(`pastClientsCheckInterval`) and its `DELETE` does not fail forever, hence
strong fairness for it; a row whose MAC address or
timestamp does not parse would abort every purge, and is thereby assumed not to
exist. A page that is loading gets loaded. In `Supervision`
init.sh goes on (its wait is limited to 30 s), s6 starts what can be started and
runs the finish scripts, and the backend, which may be killed at any time, gets
each step of its start done if it is started again and again with nothing in its
way: strong fairness of a step that is enabled only without its obstacle. Nothing
is assumed of obstacles, which may stay for ever, nor of interfaces.
Nothing assumes that a browser connects, a client talks, the database changes or
a container starts.

## What is proved

TLAPS checks these for all values of the constants, under the modules' named
assumptions (types of the constants; the model values are no real values).

- `WebSocketHub_proofs`: `TypeCorrect`, `Exclusion`, `MapHasNoGhosts`,
  `UpdatesAreDelivered`. The inductive invariant has a part on structure (the
  lock's holder is exactly whoever stands in a critical section, the map
  contains exactly the handlers that registered and have not left, unless a
  failed write removed them) and a part on freshness (what a greeting or a round
  holds, where it stands). `NoUpdateForgotten` alone is not inductive: nothing
  in it says that a round that is being written still has its lock.
- `LeaseFeed_proofs`: `FeedTypeCorrect` and `WritesAreFollowed`.
  `NoWriteForgotten` is inductive together with the fact that nothing is on its
  way before the watch is installed.
- `UiBackend_proofs`: `BackendTypeCorrect`, and `BackendImplementsHub`, the refinement: every step of the
  composition is a step of the hub or leaves its variables alone. The feed's
  specification follows in the same way, so both components' theorems hold of
  the composition (`WritesReachBackend`), and `RestIsCurrent` combines them: at
  rest nothing is on its way, so file, list and browser agree.
- `LivePage_proofs`: `PageImplementsBackend` (the page adds to `UiBackend` without
  interfering, so that all theorems about it hold: `PageListsFollow`),
  `PageTypeCorrect` and `PageShowsNoClientTwice`. The invariant follows a message:
  its past clients are disjoint from its own list from the query on, they travel
  together, and a table is filled from one message only.
- `Supervision_proofs`: `SupervisionTypeCorrect`, `ConfCorrect`, `EpochCorrect` and
  `EpochStandsCorrect`, for any interfaces, services and number of starts. The
  invariant says where init.sh has to be for a service, a script or a pending mv
  to exist (`Order`), what the epoch file, the resolved options and the list of
  interfaces are after each of its steps (`Epochs`, `Current`, `Kept`, `Dropped`),
  the last two in terms of what has existed all the time until init.sh looked
  (`reachable`) and what has not existed in that time (`absent`), whatever comes
  and goes later.
  That dnsmasq has a current configuration follows from its last step; that it
  still has one after a crash in the next start follows from the order, since
  nothing is started then before init.sh is done.
- `TrackerDb_proofs`: `TrackerTypeCorrect`, `NotesCorrect`, and for any time
  zone `TrafficKept` and `PurgesByCutoff`: a client stays on record as long as it
  is recent by the cutoff of a purge, and only older ones go. The cutoff is off by
  `TzOffset`, so where local time is not ahead of UTC (`TzOffset <= 0`) the
  properties of the runs follow, `RecentTrafficRecorded` and `PurgesOnlyOld`; east
  of Greenwich the code breaks them (run tracker_timezone), by no more than the
  offset. The invariant adds that the running script carries the
  current epoch (a restart kills it before the epoch moves), that queued traffic
  and the script's are of the current run, that a purge's cutoff is old enough,
  and that rows tell the truth by epoch.
- `DnsmasqWrapper_proofs`: of the log tail `TailTypeCorrect`, `LinesAccounted`,
  `LinesOrdered`, `AttemptsSpaced`. The invariant is stated about one frontier,
  what the tail has behind it: lost lines reach at most half a line beyond it,
  and a line cut by it is lost. Of the statistics `StatsLocal` and
  `StatsReported`, for answers with any records, strings and fields; the
  invariant (`StatsInv`) says that the figures so far are those of the replies so
  far, in their order, and that without an error all of these succeeded; it rests
  on what a query makes of an answer (`QueryReturnsFirstTxt`).
- `AddonOptions_proofs`: `OptionsTypeCorrect`, `IndexesCorrect`,
  `BlockedCorrect`, `RefusalCorrect` and `TablesCorrect`, for lists of any length.
  That no blocked client has settings is inductive only with the order of the
  lists: nothing is blocked before the settings are all read. That exactly the
  incoherent is refused needs the indexes to be complete, so that looking an entry
  up is comparing it with all that were read before; `TablesCorrect`, on the static
  flag, follows from the agreement of the indexes alone.
  - `RegistryImplemented`, the refinement: each step of the loading is a step of
    `ClientRegistry` or leaves it alone. It takes the agreement of the indexes,
    by which a look-up under one key excludes a conflict under the other.
    `StoredWithoutConflicts` is what the registry gives in return.
  - `NamesCorrect`: the invariant (`NamesInv`) says of the stored names that they
    are valid and served, and that none is stored before the domain is settled. Of
    hostnames nothing is assumed, and so what is proved of the validity of their
    names is that it is the hostname's own.
  - `PoolsCorrect`: of a range only the two ends and the gateway are checked; that
    all between them are in the network is a fact about bits. Addresses with the
    same bits above the mask's zeros have everything between them share those bits
    (`SameBitsSameNetwork`, `BetweenSameBits`, `MaskedBits`), and a range has no
    address of the other family inside because the private IPv6 addresses,
    fc00::/7, lie above the IPv4 block: all that is assumed of `Private`, besides
    that its members are addresses. `SizeCorrect` counts: the sizes of disjoint ranges add up
    to the cardinality of their union, and nothing overflows on the way.
  - `DurationCorrect`: the sums on the way to a total that fits fit too, as they
    only grow; the sign comes last.

The recursive definitions in these modules (`Pow2`, `WrappedSums`, `Sums`) are
functions, not RECURSIVE operators. What they compute is proved by induction in
a form that takes no operator as a parameter: the numbers that have a property
are a set, which contains 0 and every successor of its members
(`InductionOverSets`, from the library's theorem on well-founded minima), and a
recursive function exists because its step stays in a set (`RecursionIsDefined`).

Only model-checked: the liveness properties (`EveryoneIsGreeted`,
`ProducerGoesOn`, `PageFollows`, `OldClientsAreForgotten`, `LinesAreRead`,
`AddonServes`), because the prover does not reason about fairness and `ENABLED`.
Every invariant and every action property that a passing run checks is a
theorem, of which `TrafficIsRecorded` and `PurgeOnlyOld` under the condition on
local time.

## Where the code and its documentation disagree

1. `uibackend.go:286`: the greeting is generated before the registration; with
   the refresh off the browser keeps an outdated list (README.md:64-65).
2. `uibackend.go:280`: a failed upgrade does not end the handler, which panics
   with `clientsLock` held; nobody is updated any more.
3. script line 54 and `init.sh:204`: the three seconds of the startup filter
   count from the epoch, not from dnsmasq's start; after a wait for interfaces
   or a restart of dnsmasq alone, leases from the file count as traffic
   (script 101-102, `doc.go` 18-19).
4. `trackerdb.go:196`: the cutoff is in local time and compared as text with
   UTC.
5. `dnsmasq.go:304`: lines that dnsmasq appends just before a truncation, and
   lines in the buffer, are dropped (`dnsmasq.go:252`).
6. `trackerdb.go:243`: the purge returns clients that were refreshed before the
   `DELETE` and so were not purged (line 186).
7. `types.go:114-115` calls past clients those that never got a lease since the
   last restart; the list contains every client without a current lease.
8. `uibackend.go:189`: the loop that replaces the hostname `*` changes copies.
9. `uibackend.go:684`: a current client has the static flag if its *address* is
   reserved for it, a past client if it has any reservation (line 211);
   `types.go:20-21` describes the second.
10. `addon_options.go:171`: with an empty `dns_domain` an alias gets a trailing
    dot and is no longer the RFC 1123 name that `DOCS.md:299` asks for. Whether
    `dns_domain` is a DNS name is not checked at all, so `NamesAreInDomain` is
    about valid domains.
11. `main.go:15` ignores every error that `ListenAndServe` returns: options that
    are refused (`uibackend.go:834`), a `config.yaml` (838) or lease file (844) that
    cannot be read, a port that is taken (876). The backend ends with status 0,
    which `backend/finish` answers with a restart, over and over; its line 3 says
    that it takes the add-on down when a service fails.
12. `init.sh:43` says that "auto" is left unchanged when it cannot be resolved; the
    next pass drops it as an interface that does not exist (80-89).
13. `init.sh:87`: with no interface left the list becomes `[""]`, while line 94
    logs `<none>`.
14. `init.sh:173`: the lease database is reset at *every* start of the container
    within five minutes of a reboot, leases given out since included
    (`DOCS.md:166-167`).
15. `init.sh:181`: `mv` fails when there is no lease file, and dnsmasq-init with it.
16. `dnsmasq.go:140`: an answer with no string, or several, counts as 0, although
    line 133 expects a single one.

1 to 5 and 9 are shown by the violation runs; the others were met while
modelling.

Two things no document promises, and the models do not either. A hostname from
the lease file or the database is shown in the DNS domain as it is
(`uibackend.go:592-598`), also if it is no valid label. An interface that vanishes
after init.sh has looked for it (80-86) stays in `dnsmasq.conf`, where a dnsmasq
that is started, or started again by `dnsmasq/finish:12`, refuses to start on it
(`init.sh:63`).

## Plan

Done: `WebSocketHub`, `LeaseFeed`, `UiBackend`, `LivePage`, `TrackerDb`, `LogTail`,
`DnsStats`, `IpPool`, `AddonOptions`, `ClientRegistry`, `ClientMetadata`,
`Supervision`, with their runs and proofs. What would add most next:

1. A contract of the epoch between init.sh and its readers, as a module that
   `TrackerDb` and `Supervision` both implement: the steps that the former takes
   at once (a restart ends the scripts, moves the epoch and may drop the leases)
   are separate steps of the latter, which `EpochStands` shows to be safe.
2. An abstract log for `LogTail` (lines are printed in order or declared lost)
   and the refinement proved from the frontier invariant.
3. The safety halves of the liveness properties as theorems: what a step has to
   be enabled for somebody who waits (nobody waits for a lock that no one holds).
4. A clock in `TrackerDb` that may step back.

## Not modelled

- The debounce's duration: an endless stream of lease-file writes less than the
  interval apart would postpone an update for as long as it lasts; the model's
  writes are finitely many.
- Data races in the sense of the Go memory model (`len(b.clients)` at line 341
  is read without the lock); the model gives such a read some value the map has
  at that moment.
- PIDs: `updateDnsmasqPIDs` is reduced to "found" or "not found", and the
  SIGUSR2 that follows a truncation has no effect on the model, since it makes
  dnsmasq open the same file again.
- Wall clocks that step back (an early boot before NTP).
- The options that are copied unchecked, the version that `addon_config.go`
  reads, the rendering of link templates and of the static figures of a page.
  Names of clients may repeat and nothing in the model depends on them being
  different.
- Of the frontend: the columns of the tables, the live indicator, theme, tabs and
  dialogs. Of init.sh: the values of the NTP and DNS servers, whose passes only
  rewrite the file.
- Two scripts at once: dnsmasq runs one at a time, and one that an earlier
  dnsmasq has left behind when s6 started another could overlap with the new
  one's. In both `Supervision` and `TrackerDb` a script may outlive its dnsmasq, but
  the next one waits for it.
- That the two spellings of an IPv4 address, in 4 bytes and in 16, mean one
  address: entries under both are accepted, in the code and in the model, and
  `RefusesTheIncoherent` takes them for two.
- When a process is killed in the middle of a write of the lease database: that is
  dnsmasq's own affair.
- The logger, log-helper, nginx and its ingress, the `tempio` templates, HTML
  and styles, translations, the build and the tests: output, configuration of
  third-party programs, or no part of the running system.
