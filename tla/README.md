# TLA+ models of yuhaiin

yuhaiin is a rule-based proxy: inbounds accept TCP streams and UDP packets, a
router picks an outbound node by host, address or process, resolvers (a FakeIP
pool among them) answer names, and a statistics store counts what went through.
Almost every part is a handful of goroutines around a map, a one-place channel
and a SQLite file. What is hard to test there is *when* things happen: a packet
that arrives while its source is being closed, a flush that overlaps another, a
process that dies between two statements. These modules model that.

Contents: [system](#the-system) · [modules](#modules-and-code) ·
[runs](#runs) · [bounds](#bounds) · [fairness](#fairness) ·
[proofs](#proofs) · [findings](#findings) · [deviations](#deviations-observed) ·
[not modelled](#what-is-not-modelled) · [plan](#plan)

## The system

Paths are below `src/pkg/`, those of `cmd/` below `src/`.

| part | state | operations | hard behaviour |
|---|---|---|---|
| UDP NAT table `net/nat/table.go` | map source → control, closed flag | Write, reaper tick, Close | create, reap and close the same control at once |
| UDP source `net/nat/source.go` | two bounded queues with one-place tokens, current socket, flags | WritePacket, runner, read loop and writer per socket, Close | lost wake-ups, pooled payloads, overlapping sockets |
| UDP addresses `net/nat/source.go` | dispatch and resolve caches, reverse map | write, mapAddr, parseAddr | replies that overtake their mapping, failed writes |
| Ring buffer `utils/ringbuffer` | slots, head, tail, full | Push, Pop, Peek, Clear | growing after a wrap, a limit that changes |
| Sync map `utils/syncmap` | entry, map of mutexes | LoadOrCreate, Delete | a mutex that is removed while others wait on it |
| Reverse LRU `utils/lru` | list, map, reverse map | Add, Load, ReverseLoad, Delete, expiry | a value that moves to another key |
| Pipe `net/pipe` | deadlines, done channels, waiting calls | Read, Write, Set…Deadline, Close, CloseWrite | a deadline moved while its timer fires |
| QUIC fragments `net/proxy/quic/frag.go` | split id, merges | Write, Split, Merge, sweep | loss, reordering, a limit that falls in the middle of a packet |
| FakeIP pool `net/dns/fakeip/sqlite.go` | rows, cursor (memory and saved), pending touches | GetFakeIPForDomain, GetDomainFromIP, touch worker, Close | two misses of one name, rolled-back cursors, crash |
| DNS transport `net/dns/resolver/udp.go` | waiters, queue, current socket | Do, write loop, reader per socket, Close | answers that race timeouts and closed sockets |
| DNS client `net/dns/resolver/dns.go`, `utils/singleflight` | cache with expired answers, flights | raw, background refresh, retry over TCP | a leader that fails or leaves |
| DNS packets `inbound/inbound.go`, `resolver/fakeip.go`, `net/dns/server` | channel, queue, permits, current server | HandlePacket, SetServer, workers, Close | servers replaced while packets are under way |
| Happy eyeballs `net/dialer/happyeyeballsv2.go` | list of addresses, attempts, shared permits | dial | late winners, everyone waiting for permits |
| Node set `node/set.go` | cached index, dials under way | setDo | parallel dials, late winners |
| Node runtime `node/{runtime,store}.go`, `store/node.go` | node rows, selection, tags; cached dialers | GetDialerByID, Save, ReplaceRemote, Remove, Use, tags, CloseNode, Close | cache against database |
| Inbounds `inbound/{contract_store,inbound,contract_listener}.go` | rows, running servers, interfaces | Save, Delete, Close | edits against Close, a port that is still bound |
| Resolvers `resolver/{resolver,fakeip}.go` | rows, configs, resolvers, bootstrap, FakeDNS | SaveContract, RemoveContract, Get, Apply | a lookup that stores what it made from the old config |
| Rules and lists `route/{rule,nested,list,downloader}.go` | stored and running versions, timers, host index, tickers | saves, timers, apply now, refresh | an activation overtaken by the next |
| Disk tries `net/trie/v2/{disk,cidr/disk}` | memory tree, segment files | Insert, Flush, compaction, Remove, Clear | a failing call or a crash between two files |
| Traffic totals `statistics/cache.go` | atomic counters, trigger flags; saved totals, hour rows | Add, sync worker, Close | bytes that arrive during a sync, failed saves, kill |
| Traffic by dimension `statistics/telemetry.go` | a counter per connection, rows | Register, Counter, timer flush, Remove, Close | three kinds of flush at once |
| Live connections `statistics/{statistic,notify,sqlite}.go` | handles, session rows, pending events, watchers | Conn, Remove, CloseConn, Notify, dump | two closers, events merged, late watchers |
| Update `update/service.go`, `cmd/yuhaiin/update_installer_*.go` | stage, files, service | Apply, the helper process | the helper killed between two renames |
| Start `migrate`, `legacy/migrate` | old and new tables, markers | the steps of a start, user edits | a start killed between a table and its marker |

How they interact: an inbound hands a UDP packet to the table, which finds or
creates its source (through the sync map); the source queues it in a ring
buffer, dials a node from the node runtime (perhaps through a set, by name
through the happy eyeballs dialer) and sends it to an address which the address
caches chose. A hijacked DNS packet goes to the DNS server instead. Every
connection made on the way is registered with live connections, counts its
bytes in both traffic components, and was possibly named by an address of the
FakeIP pool. What the user edits is stored first and then applied to what runs.

## Modules and code

A module has the variables of its component, one action per step that other
goroutines can see, and the history variables its properties need (marked
*history* where they are declared; no guard reads one, except where it bounds
the instance). Steps are cut at lock and channel operations, atomics, SQL
transactions, file operations and calls that may fail. A transaction, statement,
dial, download, rename or constructor whose error the code handles, logs or
ignores has a step or an outcome in which it fails, on the way back from another
failure too; only a failure that ends a call before it has changed anything is
left out. In the modules with durable state
(TotalCache, FakeIPPool, Connections, DiskTrie, Update, LegacyMigrate) the
process may die at any step. Where the code does not promise
something after a particular mishap, a history variable remembers that it
happened and the property exempts exactly that case. Operators marked `mutant`
are wrong variants of a step; nothing uses them except a test that a property
notices the difference.

- **TotalCache** (`TotalCacheProofs`): `Add`, `Check`, `Send`, `Mark` are
  AddDownload/AddUpload and trigger; `WLoad` … `WReset` the worker; `Cancel`,
  `Take`, `Save` are Close; `Restart` is a start after a kill or a Close. `kv`
  and `hourly` are the durable tables. Both directions are modelled, because a
  sync of one also writes the total of the other.
- **SourceControl** (`SourceControlProofs`): `Enter`, `Push`, `Notify`,
  `Return` are WritePacket and its caller's deferred DecRef; `R…` the runner;
  `L…` the read loop and `W…` the writer of each socket; `Call`, `Cancel`,
  `Drain…` are Close, called by the reaper, the owner of the table or the
  runner itself.
- **ReverseNAT**: the same file with the addresses: `Write…` are the branches
  of write, `Send` is WriteTo, `Map` and `Mark` mapAddr, `Receive` and
  `Deliver` the way of a reply. With UdpSkipResolveTarget a name is handled
  like an address.
- **NatTable** (`LifecycleProofs`): `Check`, `Lookup`, `WritePacket` are Write;
  `Tick` … `CloseIdle` the reaper; `CloseTable`, `CloseAll` Close. A control is
  reduced to what the table sees of SourceControl: whether its loop runs, stopped
  or has been idle for long, and whether it is closed. LoadOrCreate is one step:
  its constructor does not fail, and an entry is deleted only after a whole idle
  timeout, which no caller spends waiting for the mutex of the map. (Where
  entries are deleted at any time, in NodeRuntime and Resolvers, its steps are
  modelled.)
- **SyncMap** (`LifecycleProofs`): the steps of LoadOrCreate for one key, with
  `single`'s mutexes.
- **RingBuffer**, **BoundedQueue** (`LifecycleProofs`): the ring with its
  indices, and the queue it implements (`IsFifo`, by the mapping from slots to
  a sequence). Modules that use a ring buffer use a sequence.
- **ReverseLru**: ReverseSyncLru over the lru below it, one step per method.
- **Pipe** (`LifecycleProofs`): one direction of a pipe: `Read`, `Write`, `Lock`,
  `Handover`, `Acknowledged` are the rendezvous of a read and a write; `Set`,
  `SetWaits`, `Fire`, `Expire` are pipeDeadline and its timer.
- **QuicFrag** (`QuicFragProofs`): `Write` and `Resplit` are Split and its one
  retry, `Send`, `TooLarge`, `SendFails` the datagrams, `Receive` and `Fill` the
  two halves of Merge, `Sweep` the timer. A payload is an interval of the bytes
  of its packet.
- **FakeIPPool** (`FakeIPPoolProofs`): `Hit`, `Miss`, `Lock`, `Allocate` are GetFakeIPForDomain,
  `Flush…` the touch worker, `CloseBegin` Close, `Restart` a crash or a start.
  `entries` and `saved` are durable. A SELECT that fails is read as a missing
  row, as in the code.
- **DnsUDP**: `Do` … `ContextEnds` are a call, `Take` … `LoopStops` the
  goroutine that dials and writes, `Receive` … `ReaderCloses` a socket's reader.
- **DnsClient**: `Raw` and `Do` are the cache and the flight, `Query…` what the
  transport returns to a leader or to a refresh, `Joined` a follower.
- **DnsAgent**: the channel of Inbound, the agent that `SetServer` replaces,
  the queue of a server, its workers and its semaphore.
- **HappyEyeballs**: per call the two lookups, the loop that starts attempts
  and the attempts themselves; all calls share a weighted semaphore.
- **SetDo** (`RuntimeProofs`): caller, loop and dials of one setDo.
- **NodeRuntime** (`NodeRuntimeProofs`): `ReadNode`, `LoadOrCreate` and then the
  steps of the sync map below it are a getter: `GetMu` and `Inner` its mutex,
  `FindEntry`, `MakeDialer`, `MakeFails`, `LoadOrStore` what happens under it,
  `DropMu` its end. The editing calls are sequences of `Write`, `Delete`,
  `CloseProxy` in the order of each call; `CloseBegin`, `CloseStore`,
  `CloseAll` are Close.
- **Inbounds**: ContractStore writes the row, then `SaveContract`, `Listen`,
  `Store`, `Remove` change what runs, under the lock that Close does not take.
- **Resolvers**: the same for resolvers: `Get`, `GetMu`, `Lock`, `Make`,
  `Return` are a lookup with the mutex of the sync map, `Apply`, `CloseOld` an
  edit; the bootstrap resolver and FakeDNS besides.
- **RouteRules** (`RouteRulesProofs`): a rule or a list is saved, an activation
  scheduled, a timer fires and the matchers or the host index are built and
  swapped; `ApplyNow` does it at once. `Reads` is what getIter finds of a list:
  what is stored, or nothing when the store fails, which is only logged.
  **ListRefresh** (`RouteRulesProofs`): the ticker, a refresh with its downloads,
  saved settings, the GeoIP file.
- **DiskTrie**: both disk tries (`Flavors`): the memory tree, the segment files
  and the index of them; `Search` is the code's walk, `Answer` what the rules
  say.
- **Connections**: `StoreConn` … `pubNewConn` are storeConnection;
  `OwnerCloses`/`CloseConn` start a Remove, whose steps are `RemoveConn`,
  `RemoveInfo`, `pubRemoveConn`; `Snapshot` … `Register` are Notify; `Dump`,
  `Range`, `Send` the sender goroutine. `StoreInfo`, `RemoveInfo` and the
  clearing at a `Restart` are statements whose errors are only logged.
- **Telemetry** (`RuntimeProofs`): `Add` is Counter, `FlushTimer`, `Remove`, `FlushClose` begin
  a flush, whose steps are `Lock`, `Swap`, `Persist`.
- **Update**: `Apply` … `Start` are the service, `List` … `RestartFails` the
  helper process on each system, with the way back (`RemoveTarget`, `Restore`,
  `Restart`) whose errors the helper ignores, and `KickstartFails`, where launchd
  has the job but could not be told to run it.
- **LegacyMigrate**: the steps of a start in their order, each with its marker,
  and the user's edits between two starts. `Repair` lays an Android
  configuration over the first tables, writes them anew and takes the markers of
  some away.

The `MC…` modules give the constants for TLC. Most of them put several
components that share no state into one run: the variable `part` says which of
them a behaviour drives; the others have no state in it, or keep their initial
state.

## Runs

| run | drives | shows |
|---|---|---|
| `total_cache` | TotalCache | No byte is lost between the counters (`TotalsConserved`); what is saved never exceeds the traffic and covers the hour rows (`NeverOverCounted`), and never goes back (`TotalNeverGoesBack`); a clean Close saves everything, and the hours add up to it (`CloseSavesAll`), and returns (`CloseReturns`). |
| `source_control` | SourceControl | A payload goes back to the pool exactly when nobody holds the packet, and a source has one open socket at a time (`NothingHeldTwice`); a reply always finds its client's write-back (`RepliesHaveWriteBack`). |
| `source_control_live` | SourceControl | No queued packet is left without a wake-up (`NoLostWakeup`, `AcceptedIsHandled`); a closed source lets its goroutines and sockets go (`ClosedSourceStops`). |
| `endpoints` | FakeIPPool, Inbounds, Resolvers | One domain per address, within the window (`OneDomainPerAddress`); a pool with room takes no address away (`KeptWhileRoom`); what runs is what is stored, a port has one listener, the pool in use is open and nothing open is lost, but for the named races (`AppliedAsStored`). |
| `dialing` | DnsUDP, DnsClient, HappyEyeballs, SetDo, DnsAgent | A query fails for a reason (`QueryFailsWithCause`); no name stays marked as being asked for (`NothingStuck`); no connection and no permit is lost and there is no early error (`DialLosesNothing`); no released packet is read, permits come back, one server is open (`RequestsKept`); every call ends (`CallsEnd`). |
| `tables` | Connections, ReverseNAT, ReverseLru, QuicFrag | No session row outlives its connection unless a statement failed, watchers end up showing what is open and the unsigned length does not wrap (`ScreensAgree`); one target per destination, written addresses are mapped back, no reply is attributed to a foreign destination (`RepliesAttributed`); both maps of the cache are inverse (`InverseMaps`); packets arrive whole and at most once, and complete ones do arrive (`PacketsWhole`). |
| `runtime` | NodeRuntime, SetDo, Telemetry | An open dialer is lost, or outlives Close, only when another took its place after a deletion or a failure (`NoDialerLost`); cached dialers match their rows (`CacheFresh`); a dial through a set loses no connection and fails only when all nodes did (`SetLosesNothing`); every byte is in one place and a removed counter is empty (`BytesConserved`). |
| `lifecycle` | NatTable, SyncMap, Pipe, RingBuffer | Open controls are in the table or about to be closed, and Close closes those that existed (`ControlsKnown`); idle ones leave (`IdleIsReaped`); a value is made once and mutexes are freed (`MadeOnce`); writes are not torn (`WrittenTogether`); a deadline reaches the call that waits (`DeadlineReaches`); the ring is a bounded FIFO queue (`IsFifo`); calls end (`CallsEnd`). |
| `routing` | RouteRules, ListRefresh | What the API calls applied is applied (`ActivationTruthful`), what it announces comes (`AnnouncedComes`); the refresh timer stays alive and lists, settings and GeoIP in use are the stored ones (`RuntimeAsStored`). |
| `storage` | DiskTrie, Update, LegacyMigrate | A search finds what the rules say, wherever the finding below does not bite (`SearchesAgree`); flushed rules survive failures and crashes (`FlushedStays`); a working executable remains, and the service comes back unless the helper crashed, could not take its change back or could not start it (`UpdateIsSafe`); a start converts nothing twice and loses no edit, but for the finding below and the Android repair (`StartKeeps`). |
| `disk_trie_search` | DiskTrie | expects a violation of `SearchIsComplete`, see [findings](#findings) |
| `restart_keeps` | LegacyMigrate | expects a violation of `NewShapePreferred`, see [findings](#findings) |

Run one with `tlc -workers 2 -config MCTotalCache.cfg MCTotalCache`. Each takes
half a minute to three minutes on two cores.

## Bounds

- `total_cache`: two reporting goroutines, three bytes in all, threshold 1, one
  restart (750 000 states). Every interesting overlap involves one sync and two
  additions; a third byte lets a sync follow a restart.
- `source_control` (650 000 states): two packets and a queue of one, so that it
  fills; two sockets, one reply each, one tolerated write-back error (code: 13);
  the reaper and the runner close. `source_control_live` (185 000): a queue of
  two, which can hold a packet whose sender left no token; one socket, the owner
  closes.
- `endpoints` (730 000): three domains, two usable addresses of three, two
  callers, two points in time; two inbounds that may want one port, a transport
  that fails, two edits that may overlap and each meet Close; one resolver's
  name, two lookups and two edits, a config that works, another and a bad one.
  Two lookups are enough to lose a resolver: one waits for the mutex of an entry
  that an edit drops, the other comes after it.
- `dialing` (410 000): two calls of a question and two sockets in succession;
  three calls of the client (a leader, a follower and a late one); two dials that
  need three or four permits and have two; a set of three nodes; two packets with
  room for one in the channel and in the queue, two workers for one permit, one
  replacement, or two SetServer that meet.
- `tables` (1.4 million): two connections, one of them closed by both closers,
  one watcher (statements on the rows fail where nobody watches, since rows and
  watchers share only the table of handles); two real addresses, a dispatched
  destination and a domain that may share them, two replies queued; three keys
  and values for two places; two writers with packets of 2 and 8 over limits at
  which 8 takes two frames, two other frames, or too many.
- `runtime` (1.5 million): one node (nodes share nothing but Close), two getters,
  two editors with two edits between them, two dialers, two versions; a set of
  three nodes; two connections of two bytes.
- `lifecycle` (480 000): three handlers and two controls; three callers of the map
  (maker, waiter, newcomer); two writes of two bytes to two reads with room for
  one, deadlines set twice; a ring of one slot that doubles to four, with limits
  1 and 4.
- `routing` (2.0 million): one list, two editors of rules and one of the list, two
  versions; one call that saves settings while a timer and the API refresh.
- `storage` (1.1 million): three names (one below another, one with a wildcard in
  front) and two prefixes, segments merged at two, three segment ids; two calls
  of Apply on each system with a release appearing in between; three starts and
  two edits of the user.

Symmetry is used only over interchangeable model values and only in runs without
liveness properties. Deadlock checking is off where the system legitimately
stops: after Close, or when a bounded instance has used up its inputs.

## Fairness

Liveness assumes weak fairness of each goroutine's steps, which the Go
scheduler gives. In addition: `source_control_live` lets a read end in the end,
because each read and write renews a deadline that is never lifted, and
`MaxReplies` makes remotes fall silent; dials end, because newPacketConn has a
timeout. `lifecycle` assumes that the reaper's ticker fires and time passes, and
that the timer of a deadline fires; handlers are not forced to write. `dialing`
assumes that dials, lookups and queries return once their context has ended or
their timeout is over, and that a worker's task ends. `total_cache` forces
neither traffic nor Close nor a restart.

## Proofs

TLC shows a property on the instance above; the following hold for every value
of the constants. Each proof names an inductive invariant and has one step per
action.

| theorem | says | for every |
|---|---|---|
| `TotalCacheProofs!Conservation` | `Spec => [](TypeOK /\ TotalsConserved)` | set of goroutines, chunk sizes, threshold, number of restarts |
| `TotalCacheProofs!SavedIsReal` | `Spec => []NeverOverCounted` | the same |
| `TotalCacheProofs!CleanClose` | `Spec => []CloseSavesAll` | the same |
| `TotalCacheProofs!SavedGrows` | `Spec => TotalNeverGoesBack` (an action property) | the same |
| `SourceControlProofs!HeldOnce` | `Spec => []NothingHeldTwice` | number of packets, sockets, replies, closers; capacity of the queues |
| `SourceControlProofs!WokenUp` | `Spec => []NoLostWakeup` | the same |
| `SourceControlProofs!WriteBackStored` | `Spec => []RepliesHaveWriteBack` | the same |
| `NodeRuntimeProofs!DialersKept` | `Spec => []NoDialerLost` | number of nodes, dialers, getters, edits, versions |
| `NodeRuntimeProofs!DialersFresh` | `Spec => []CacheFresh` | the same |
| `RuntimeProofs!SetKeepsConns` | `MCSpec => []SetLosesNothing` | set of nodes |
| `RuntimeProofs!BytesCountedOnce` | `MCSpec => []BytesConserved` | number of connections and bytes |
| `RouteRulesProofs!AnnouncedIsSettled` | `Spec => []AnnouncedComes` | set of lists, number of versions and editors |
| `RouteRulesProofs!QuietIsApplied` | `Spec => []ActivationTruthful` | the same |
| `RouteRulesProofs!RefreshAsStored` | `MCSpec => []RuntimeAsStored` | number of calls that save settings and of timers, set of settings |
| `FakeIPPoolProofs!AddressesUnique` | `Spec => []OneDomainPerAddress` | size of the pool, set of domains and callers, times |
| `FakeIPPoolProofs!DomainsKeepAddresses` | `Spec => KeptWhileRoom` (an action property) | the same |
| `LifecycleProofs!ControlsAreKnown` | `MCSpec => []ControlsKnown` | number of handlers and controls |
| `LifecycleProofs!LoadOrCreateOnce` | `MCSpec => []MadeOnce` | set of callers |
| `LifecycleProofs!WritesStayTogether` | `MCSpec => []WrittenTogether` | number of readers and writers, length of a write, sizes of reads |
| `LifecycleProofs!DeadlinesReach` | `MCSpec => []DeadlineReaches` | the same |
| `LifecycleProofs!RingIsFifo` | `Spec => IsFifo` (refinement of BoundedQueue) | initial size, set of limits, set of values |
| `QuicFragProofs!Reassembly` | `Spec => []PacketsWhole` | number of writers and packets, packet lengths, limits, header size |

`MCSpec` drives one of several components (`part`) and takes the steps of its
specification; the sets and numbers it is given are constants here as well, so
the theorems about it are as general as those about `Spec`.

The assumptions are the named ASSUMEs of the modules (`TotalCacheConstants`,
`SourceControlConstants`, `NodeRuntimeConstants`, `RuntimeConstants`,
`RouteRulesConstants`, `RoutingConstants`, `FakeIPConstants`,
`LifecycleConstants`, `RingBufferConstants`, `FragAssumption`): that numbers are
numbers, that a bound is at least what the code starts with, that the nil values
are different from the real ones and that editors of rules and of lists are
different processes. TLC evaluates them in the runs.

**TotalCache.** `TotalsConserved` is not inductive. When the worker takes its
delta off `notSync`, the counter must still hold that much, although it was read
several steps before; and Close's final move must not overlap the worker's.
`Counting` therefore adds `DeltaHeld` (a delta being moved is at most what the
unsynced counter holds) and `WorkerGone` (Close moves on only when the worker has
returned). What is saved needs `Saving`, direction by direction (`Row`): the
total a sync is going to write is the synced one, and what it has read of the
other direction lies between the synced bytes and all bytes (`Reads`); no total
that is going to be written is behind the database (`NotBehind`); the hour rows
and the transaction under way make up what was synced, less what a failed save
has lost (`Hours`); Close takes at least what had been reported when it began
(`Closes`). The second half of `NeverOverCounted` and the order of the saved
totals fail once a start could not read them (`loadFailed`), which the properties
and the invariant say alike.

**SourceControl.** Each step is first reduced to what it does to the records
(the lemmas named `…Does`); `Types` and `RunnerHolds` (the runner has a packet
exactly where it needs one, and a socket that was dialed) serve all four parts of
the invariant, which do not need each other. `Refs`: the queue holds a packet at
most once, and besides its handler a packet is held by the queue or by the
runner, never by both. `Sockets`: a socket that is open is the one in use, or the
one that the runner has just dialed. `Wakeups`: the runner leaves its loop and
Close drains the queue only when the source is done. `WriteBacks`: as long as no
write-back function is stored, no socket is in use and nothing was written, so
there is nothing to reply to.

**NodeRuntime.** `Courses` says what an edit may hold where (dialers only while
it deletes; Save deletes after it has written; only Close's own record is ever
the one that closes all), `Calls` what a getter knows at each step, and that it
keeps Close from emptying the map while it has the read lock. `Apart` is about
the mutexes: as long as the entry of a node was neither deleted nor impossible
to make, all getters on their way to the constructor have the mutex that is in
the map of mutexes, no two of them make a dialer under one, and none makes one
when the entry is there. So a getter that finds another dialer in its place in
LoadOrStore is one of a node in `upset`, which is what `NoDialerLost` says of
`lost`. `Lost` is `NoOpenProxyLost` with `Holds` (the map and the calls hold
dialers that were made) and `Emptied`: what Close has passed in the map stays
empty, because a getter makes nothing once the flag of the store is set. This
gives the part of `NoDialerLost` about Close. `Fresh` is `CacheFresh` for states
in which calls are under way: outside `raced`, a getter's copy of a row is the
row, and a dialer in the map is made from the row or named in the list of a call
that is deleting.

**SetDo.** `SetKept`: one connection at most is given away, and to the caller;
what the loop has passed was tried; a context that ended with nothing given, and
not because of the caller's, has seen every node fail.

**Telemetry.** `OncePlaced` follows each byte from the counter into a flush and
from there into a row or a failed transaction; `LeftEmpty` says that nothing is
left in a counter once the last flush of its connection has emptied it, unless a
read came late.

**RouteRules.** Whatever is stored and not yet in use has somebody who is going
to apply it. `Applying` and `Coming` name them for rules and lists (an editor on
its way to the timer, the timer with the current version, a run that has not
read yet, or has read what is stored), `Clearing` and `Marking` those who are
going to look at the version once more and take the announcement back. The
index needs two parts: a list that is in it is as stored (`IndexFresh`), and a
list of the matchers is in it (`IndexFull`), which an application under way
spoils for a while.

**ListRefresh.** Only one refresh is at work (`OneRefresh`); what a call has read
of lists and settings is still so, unless the history says that it was overtaken
(`ListKept`, `CallsKeep`); the database is closed while its file is replaced
(`GeoKept`).

**FakeIPPool.** `Unique` is the property; a call that allocates is the only one,
and its domain has no row unless a SELECT failed (`Alone`). That MaxNum turns of
the cursor come to every address of the pool is shown by induction on the
natural numbers, from the well-foundedness of their order; that a pool with room
has a free one is a count: if every address had a row, the rows would be as many
as the addresses (`RowsCounted`).

**NatTable.** A control enters the table when it is made and leaves it only to
the reaper, which closes it: the property, with `TableNames`, is inductive.

**Pipe.** `Counted` says how many bytes of a Write were read at each step of the
rendezvous, `Once` and `InTurn` that the last byte read belongs to the Write
that holds the mutex; from these follows the order (`InOrder`). `NoneOpen` is
the deadlines: nobody waits on an open channel that the deadline has given up.

**SyncMap.** A mutex excludes only those who hold the same one, and there may be
two: an old one with waiters and a new one in the map. `MapSingle` says why one
value is made all the same: as long as there is no entry, all those on their way
to the constructor have the mutex that is in the map; afterwards nobody is on the
way.

**RingBuffer.** `Types => Turned` describes the slots counted from the head (they
are all the slots, and the tail is the first behind the elements), `Listed` the
sequence they stand for. Every step then maps to a step of the queue or leaves it
alone; growing needs that turning the ring keeps the sequence.

**QuicFrag.** Ids on the wire belong to one split each (`IdsDiffer`); a datagram
is under way or has arrived, once (`Sent`); the earlier of two splits of a packet
was given up with a frame unsent (`GivenUp`), so that it can never be completed;
a merge holds frames of one split, and its count is the number of its slots in
use (`Merging`), so that a full count means all frames: this is an argument about
cardinalities. `Kept` says where an arrived frame is, from which it follows that
a packet all of whose frames arrived was returned, unless the timer swept its
merge.

Only model-checked, and why:

- liveness (`CloseReturns`, `AcceptedIsHandled`, `ClosedSourceStops`, `CallsEnd`,
  `IdleIsReaped`): fairness and ENABLED are beyond this prover;
- `InverseMaps`, `SearchesAgree`, `FlushedStays`: they rest on SelectSeq and on
  folds over sequences and trees, of which nothing can be proved without an
  induction over data;
- `ScreensAgree`, `RepliesAttributed`, `AppliedAsStored`, `NothingStuck`,
  `DialLosesNothing`, `RequestsKept`, `QueryFailsWithCause`, `UpdateIsSafe`,
  `StartKeeps`: nothing but work stands in the way; see the [plan](#plan).

## Findings

1. *Compaction of the host trie* (`net/trie/v2/disk/compact.go:244`, run
   `disk_trie_search`). When a compaction adds a child to a node it writes the
   parent as `planNode{edgeCount: parent.edgeCount}` and drops the values of the
   parent's own rule; a rule at an inner node is not found any more.
   `net/trie/v2/disk/trie.go:140` says that Search returns all values. The CIDR
   twin writes the whole parent.
2. *Start* (`legacy/migrate/store.go:91` and `:251`, run `restart_keeps`). With
   the marker set, MigrateLegacyNodes still compares the numbers of rows in
   `nodes` and `nodes_v2` and builds the latter again when they differ, and
   MigrateLegacyRouteRules does the same with the rules. Once a user has added or
   deleted a node or a rule, the next start undoes it.
   docs/http-api-migration-design.md:623 says "on restart, prefer the new JSON
   shape".

## Deviations observed

Sequences found while modelling in which the code does less than its comments
or documents say, or than a reader would expect. The models contain them, unless
noted; the properties exempt them by name.

1. *Totals, threshold* (`statistics/cache.go:108`). trigger raises the flag after
   the worker took the signal. If the worker has finished by then and lowered it
   already, it stays raised, and no addition wakes the worker again before the
   process ends. Close still saves everything.
2. *Totals, hours* (`statistics/cache.go:84`). Close cancels the context under
   which the worker is saving. That transaction rolls back, the delta is taken
   off all the same, and its hour row is never written (`CloseSavesAll` exempts
   `lost`).
3. *Source, loopStopped* (`net/nat/source.go:382`). A writer that gives up closes
   its socket; the next socket's loop resets `loopStopped`; the first loop then
   ends and sets it. The field comment (`source.go:87`) says it tells whether
   the loop is stopped; the reaper relies on it.
4. *Source, replies* (`net/nat/source.go:412`). A writer that gives up has
   consumed the token and leaves queued replies until another reply arrives.
5. *Addresses* (`net/nat/source.go:335`). A domain's address is cached before its
   first write. If that write fails, mapAddr never runs for it (`unsent`).
6. *Sync map* (`utils/syncmap/syncmap.go:131`). After a constructor failed, or
   the entry it made was deleted, a waiter on the removed mutex and the maker of
   a new one may both construct; the value that loses LoadOrStore is not
   released. A dialer or a resolver dropped in this way stays open and nobody
   knows it (`upset` and `lost` in NodeRuntime and Resolvers).
7. *Table* (`net/nat/table.go:82`). A handler past the closed check creates a
   control after Close (`late`). A control blocked before its first dial never
   counts as stopped and is not reaped.
8. *Connections* (`statistics/statistic.go:197`). CloseConn may meet a connection
   whose session row is not yet written; the row then stays until the next start
   (`early`). docs/sqlite-storage-redesign.md:950 says it is removed. An INSERT,
   a DELETE or the clearing of the table at a start that fails is only logged,
   and the rows differ from the connections (`failed`).
9. *History* (`statistics/sqlite.go:159`). Push inserts and prunes nothing, while
   docs/sqlite-storage-redesign.md:704 wants the oldest rows pruned after
   inserts. The table is not in the model.
10. *Telemetry* (`statistics/telemetry.go:67`). A read that returns after the
    connection's last flush adds to a counter that nobody reads (`late`).
11. *Nodes* (`node/runtime.go:321`, `:99`). A getter that read a row before an
    edit, or runs between the two steps of ReplaceRemoteContractNodes, keeps a
    dialer of the old definition in the map (`raced`).
12. *Failed reads* (`statistics/cache.go:66`, `net/dns/fakeip/sqlite.go`). When
    the totals cannot be read at a start, counting begins at zero and the next
    save overwrites the larger total (`loadFailed`). A failed SELECT in the FakeIP
    pool counts as a missing row, so that a name may be given a second address
    and lose its first (`misread`).
13. *Tags* (`node/runtime.go:341`). Two tags that mirror each other are followed
    for ever. And the API saves tags in `node_tags_v2` while the runtime reads
    `node_tags` (`store/node.go:262`). Tags are not followed in the model.
14. *DNS transport* (`net/dns/resolver/udp.go:37`, `:142`). setMsg cancels the
    waiters before it stores the message, so a waiter may report a cancelled
    request although its answer is there; and the reader of an old socket that
    ends late closes the current one, whose queries then end by their timeout.
15. *DNS server* (`resolver/fakeip.go:253`, `inbound/inbound.go`). Overlapping
    calls of SetServer, or one that meets Close, leave a server open
    (`crossed`). Packets left in the channel or in a server's queue when it is
    closed are never released; the properties count the queue as their holder.
16. *Rules* (`route/rule.go:88`, `:111`). Two schedulings may cross between the
    version and the timer, so that the timer that stays armed applies nothing
    (`stale`); of two applications that overlap, the one that read the rules
    earlier may replace the newer matchers (`overlap`). An application that
    cannot read the rules changes nothing and is not repeated (`failed`).
17. *Lists* (`route/list.go:374`, `:473`). The timer's callback ends by
    arming whatever timer is current: if an edit made another, that one gets the
    old interval; if an edit or Close took it away, the callback panics
    (`crashed`). And a refresh writes back the lists and settings it read before
    its downloads, so that edits made meanwhile are overwritten. A list that
    cannot be read when it is parsed (`:610`, `:646`) is left out of the index,
    and one that is added to an index that is being replaced (`:618`) goes with
    it; both are at most logged (`dropped`).
18. *Merging segments* (`net/trie/v2/disk/compact.go:467`). The old segments are
    removed before the merged one gets its name; a crash in between leaves
    neither (`torn`).
19. *QUIC fragments* (`net/proxy/quic/frag.go`). A packet that needs more than
    255 frames, or meets a limit of 11 bytes or less, is dropped while Write
    reports success.
20. *Resolvers* (`resolver/resolver.go:107`, `:129`). A lookup that read the
    config before an edit stores the resolver it made from it (`unequal`). For a
    name that is not known, or whose constructor fails, the entry is nil and its
    use panics; the model ends the lookup there. RemoveContract drops the running
    resolver even if the row could not be deleted, and overlapping calls of
    ApplyBootstrap leave a resolver that is not the noted one. Two lookups may
    both make the resolver of a name, see 6 (`lost`).
21. *FakeDNS* (`resolver/fakeip.go:87`, `:117`). Overlapping applications leave a
    pool open, or the trie of one with the list of the other (`crossed`). The
    pool in use is open all the same.
22. *Inbounds* (`inbound/contract_listener.go:42`, `inbound/inbound.go:188`,
    `:255`). If a transport fails, the inner listener stays open and its port
    bound (`failed`); a disabled or failed inbound returns before the interfaces
    are refreshed (`outdated`); Close does not take the lock, and a server stored
    after it has passed stays open (`late`). A save or deletion of the row and
    the change of what runs are two steps (`unsynced`).
23. *Update* (`cmd/yuhaiin/update_installer_unix.go:148`). The errors of the way
    back are ignored: when the old executable cannot be renamed back it is left
    as the backup, with no service running (`mishap`). On macOS and Windows a
    helper may still be at work, or have left its backup, when the next one
    begins and removes that backup first (`overlapped`); systemd runs one at a
    time.
24. *Repair at a start* (`legacy/chore/sqlite_db.go:424`). On an old database
    beside an Android configuration blob the repair writes tables anew that may
    have been in use. The conversion of the backup's settings and the recovered
    transports are undone then, and their markers keep the next start from doing
    them again (`undone`).

## What is not modelled

`PROJECT.json` lists every component. Wire formats, handshakes, TUN packet
rewriting, operating-system calls, the HTTP layer and generated code have no
shared state for a model checker to explore. Inside the modelled parts: payloads
and wording; the content of rows beyond what is named above; sniffing and process
names; Store, Swap, CompareAndSwap and Clear of the sync map; history rows,
failed-dial rows and queries of the connection store; following mirror tags;
nested sets; the racing group and the stream transports of the DNS client; the
cache of preferred addresses of the dialer; process and CIDR lists; the
conversion of a row at a start; lookups that use a FakeIP pool while it is being
closed.

## Plan

Proofs, most important first: `RepliesAttributed` of ReverseNAT; `RequestsKept`
of DnsAgent; `ScreensAgree` of Connections; the parts of `AppliedAsStored` about
Resolvers. Models: NatTable over SyncMap's steps instead of an atomic
LoadOrCreate, and NatTable's control refined by SourceControl; tags and mirrors;
the racing group of resolvers.
