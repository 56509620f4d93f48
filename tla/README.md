# Verification of redis-in-go

TLA+ models of `redis-in-go`, a Redis server written in Go: one process, one
goroutine per connection, one shared `store.Store`, an optional append-only
file, and master/replica links. The models are translated from the code under
`src/`; TLC checks them on small instances, and TLAPS proves theorems about
them for every value of the constants.

Paths below are short: `store.go` is `src/internal/store/store.go`, `commands.go`
is `src/internal/commands/commands.go`, `replica.go` is
`src/internal/replica/replica.go`, `skiplist.go` is `src/internal/store/skiplist.go`,
`parser.go` is `src/internal/resp/parser.go`.

## 1. Inventory

| Component | State | Operations | What is hard | What makes it correct |
|---|---|---|---|---|
| Wait queues (`store.go`) | `s.mu`, `s.blockingClients`: per key a queue of one-slot channels | register, serve the first, take the whole queue, remove on timeout | the timer races the send; a send on a channel under `s.mu`; lists and streams share the map | no stale and no missing registration; no send that blocks |
| Lists (`store.go`, `commands.go`) | `s.elements` | RPUSH, LPUSH, BLPOP, LPOP, LLEN, LRANGE | BLPOP's hand-over; LPOP takes no lock | every pushed value is popped at most once and never lost |
| Streams, blocking reads (`store.go`) | `s.streams` | XADD, XREAD BLOCK on several keys | XADD notifies after the unlock | no lost wake-up; a waiter can be woken through every key it named |
| Streams, IDs and ranges (`store.go`) | `Stream.Entries` | ID generation and validation, XRANGE, XREAD | clock that jumps, overflow, IDs kept as text, binary search | IDs increase; a range returns what it should |
| Strings and transactions (`store.go`, `commands.go`) | `s.data` with versions and deadlines; each Handler's queue, watched keys, flags | SET, GET, INCR, WATCH, UNWATCH, MULTI, EXEC, DISCARD | lazy expiry resets versions; EXEC is not atomic; commands queued inside EXEC | EXEC runs only if the watched keys are unchanged; replies stay in step |
| Publish/subscribe (`commands.go`) | `PubSubServer.channels`, each Handler's `subs`, `IsSubscriberMode`, `sendChan` | SUBSCRIBE, UNSUBSCRIBE, PUBLISH, writer goroutine | messages are offered with the lock released; bounded queues; peers that go away | the count is right; order; nobody blocks the publisher |
| Replication (`commands.go`, `replica.go`) | `MasterNode`: `Replicas`, `GlobalOffset`, `AckChan`; the replica's offset | PSYNC, propagation, GETACK/ACK, WAIT | propagation under a read lock; one token channel for all WAITs; what arrives during a handshake | same order everywhere; WAIT counts those that have the write; WAIT returns |
| Append-only file (`aof.go`, `commands.go`) | the incremental file, each Handler's `aofBuffer`, `rebuildMutex`, `IsRebuildingState`, `IsDoneRebuilding` | log and flush before each write command, `RebuildState` by the first connection | the replay logs what it replays; a replayed BLPOP can block; log order is not execution order; failed writes, crashes | what was answered is there after a restart; nobody waits for the rebuild for ever |
| Sorted sets (`skiplist.go`, `store.go`) | per set: nodes with levels and spans, `length`, `dictionary` | ZADD, ZREM, ZCARD, ZSCORE, ZRANK, ZRANGE | spans that later insertions put right; a removal that leaves out a level; a copy that is not stored back | the levels are in order, ranks are positions, ranges are slices |
| Geo (`geo.go`) | that of the sorted sets | GEOADD, GEOPOS, GEODIST, GEOSEARCH | floating point | encoding round trip; the search finds every place within the radius |
| RESP parser and connection loop (`parser.go`, `commands.go`) | the bytes read and not consumed, the replica's offset | ParseCommand, HandleIncomingStream, TrackOffset | commands split over reads; only some errors are retried | the commands executed are those sent, however the bytes arrive |
| RDB parser (`rdbParser.go`) | a file, at start | parse | truncated file | - |
| Auth (`auth.go`, `commands.go`) | users shared by connections, flag per handler | AUTH, ACL | no lock | a flag only after the right password |
| Configuration, INFO, start-up | process-wide settings | CONFIG GET, INFO, `main` | - | - |

How they interact: `main` accepts connections, makes a `Handler` for each and
starts its loop and its pub/sub writer. A handler calls the shared `Store`
under `s.mu`, the shared `PubSubServer` under `p.mu`, and the shared
`MasterNode` under `m.Mu`. Blocking commands sleep on channels that other
handlers write to. A write command is propagated and logged first
(`HandleModifyingCmd`), then executed. EXEC calls the handlers of the queued
commands; so does `RebuildState`.

## 2. Modules

| Module | Models | State and actions |
|---|---|---|
| `Waiters` | what BLPOP and XREAD share | `mu`, `blockingClients`, the slot `buf` of each channel, each client's `pc`, `myChan`, `timed`; `StartWait`, `EndWait`, `Drain`, `TimerFires`, `Unregister` are parts of actions |
| `ListOps` | lists, on `Waiters` | RPUSH/LPUSH: `PushStores` (nobody waits), `PushServes`, `PushBlocks` + `PushResumes` (the channel is full); BLPOP: `BLPopNow`, `BLPopWaits`, `BLPopReceives`, `BLPopTimesOut`, `BLPopGivesUp`; LPOP, each access of the map a step: `LPopStarts`, `LPopChecks` (is there an entry), `LPopCompares`, `LPopCuts` (the length), `LPopReads` (one element), `LPopSlices`, `LPopStores`. `entries` are the keys that have an entry, as an empty list is not a missing one |
| `ListPromise` | the abstract blocking list | a queue of clients and an atomic hand-over, without channels, mutex and timers; refined by `ListOps` (`KeepsPromise`) |
| `StreamOps` | XADD and XREAD, on `Waiters` | `XAdd`, `XAddNotifies` (one channel), `XReadWaits`, `XReadReceives`, `XReadReplies`, `XReadTimesOut`, `XReadGivesUp` |
| `Store` | `ListOps` and `StreamOps` together | `INSTANCE`s of both over the same wait queues |
| `Transactions` | strings, versions, EXEC | one action per command; EXEC is `ExecStarts`, `ExecChecks` (one watched key), `ExecAborts`, `ExecRuns`, `ExecRunsNext` (one command), `ExecReplies` |
| `StreamIDs` | one stream's IDs, XRANGE, XREAD | `XAddGenerated`, `XAddExplicit`, `ClockJumps`; ranges are operators on `entries` |
| `PubSub` | pub/sub | `Subscribe`, `Unsubscribe`, `PublishSnapshot`, `PublishOffer` (one subscriber), `PublishReply`, `WriterTakes`, `WriterWrites`, `Close`, `HandlerEnds` |
| `Replication` | master and replicas | write: `WriteStarts`, `Propagates` (one replica), `ReadsOffset`, `AddsOffset`, `Executes`; WAIT: `WaitStarts`, `Broadcasts`, `SendsGetAck`, `WaitChecks`, `WaitWakes`, `WaitTimesOut`; link: `PsyncRegisters`, `PsyncAnswers`, `AckArrives`, `AckTokens`; replica: `Synchronizes`, `ReplicaWrites`, `ReplicaAcks`, `ReplicaServes`, and `TrackReads`, `TrackAdds` for its offset, which two handlers count in without a lock |
| `Aof` | the log, restarts, the rebuild | of the process `list`, `exists`, `waiters`, `done`, `rebuilder`, `data`; of a connection `pc`, `cmd`, `aofBuffer`, `slice`; and `file`, which outlives both. `Joins`, `JoinFails`, `Replays`, `ReplayEnds` (RebuildState), `Issues` (log), `Writes`, `WritesShort` (one record), `RPush`, `LPopReads`, `LPopStores` (an LPOP, without a lock), `PopsAtOnce` (a BLPOP that finds an element, an LPOP without the key), `Blocks`, `TimesOut`, `LinkConnects`, `Reconnects`, `ProcessCrashes`, `MachineCrashes` |
| `SortedSets` | the skip list and ZADD, ZREM, ZCARD, ZRANK, ZRANGE, FirstGE | nodes are numbers in the order they are made; `Insert` with every height, `Rescore`, `ZRem`; `Walk` is the descent all of them make, reads are operators |
| `Frames` | the parser and the loop of a connection | `wire`, `buf`, `loop`; `Sends`, `Reads` (any number of bytes), `Executes`, `ReadsOn`, `Ends`; `ParseCommand` is an operator on bytes |
| `ListOps_proofs`, `Aof_proofs`, `Replication_proofs`, `Store_proofs` | - | theorems about the module of that name |
| `StreamOps_proofs` | - | theorems about `StreamOps` and `StreamIDs` |
| `Keyspace_proofs` | - | theorems about `Transactions` and `SortedSets` |
| `Connection_proofs` | - | theorems about `PubSub` and `Frames`, the two halves of a connection |
| `SequenceFacts` | - | lemmas the proofs share: the least number of a set, functions defined by recursion on a number, what `RemoveFirst` leaves of a queue and how often it still holds a channel, sequences without duplicates, binary search, slices |
| `MC...` | - | values and symmetry for TLC |

**Granularity.** A critical section that cannot block is one step. Whatever the code
does outside a lock, or that another goroutine can interleave with, is a step of its
own: each access LPOP makes to the map without the lock (in `Aof`, where logs and not
lists are the subject, what it reads is one step and its store another), each channel
XADD notifies after the unlock, each subscriber PUBLISH offers to, each replica a write
is sent to, the read and the write of `GlobalOffset +=` and of `MasterReplOffset +=`,
each watched key EXEC compares, each command it runs, each record written to the log,
and the log and the execution of one command. A select with a ready channel and an
expired timer takes either branch.

**Undefined behaviour.** LPOP races with every other list command. The models
have the interleavings of its accesses, and the panic that the Go runtime's check
for concurrent map access may (but need not) raise. `raced` is set only when a command
changes what an LPOP of the same key relies on: the head of the list once it has settled
how many elements it takes, the whole list once it has cut the slice it stores. Other
writes do an LPOP no harm, and the properties say so. `LPOP k -1` panics without any
race, and `LPOP k 0` stores the list it read. The replica's offset is raced for by the
handler of the link and that of a client.

**Faulty twins.** Some modules define, before an operator, one or more wrong
versions of it (`SameQueue` before `Served`). No action uses them. They exist
for mutation: the wrong version is put in the place of the right one, and the
property named for it in `PROJECT.json` must then fail. Every property of every
passing run has such a mutation.

**Abstractions.** List values are distinct model values, so that a loss or a duplicate
can be told. A stream in `StreamOps` is the number of its entries and an ID is a
position, which `StreamIDs` justifies as long as IDs increase. A string value is a
number or not. Where the code counts the bytes of a command, `Replication` counts the
length of a write as 1, as if all writes were equally long, and every other command as
any multiple of it: a long one hides several writes. Absent map entries read as empty.
Replies are kept only where a property speaks of them.

In `Aof` all commands work on one list, and a command is its number: which bytes
stand for it is a matter of `Frames`, whose parser `RebuildState` uses too. The
file the manifest names is `file`; that it cannot be found or opened is
`OpenFails`. A record that was cut always ends the replay: what follows it
starts with `*`, which none of the parser's states takes for the rest of a record,
save when the cut argument was as long as to swallow whole records up to a line
end. `MachineCrashes` takes any number of records off the file's end, as the code
never syncs it, whatever `appendfsync` says. A connection that is still to come
counts as waiting for the rebuild. In `Frames` the digits of a length stand as one
byte, and a cut inside them is the same as one behind them.

## 3. Runs

`tlc -config <run>.cfg MC<Module>`; each takes less than five minutes on two
cores.

| Run | Instance | Properties and what they show |
|---|---|---|
| `list_wait` | 3 clients, 2 keys, 3 values, batches of 2, 4 waits, no LPOP | `PushNeverBlocks`, `QueueInv`: queues hold exactly the empty channels of the blocked clients, each once. `OnlyBatchStrands`: a client waits beside a non-empty list only after a push of several values. `KeepsPromise`: all of it refines an atomic hand-over |
| `list_race` | 2 clients, 1 key, 3 values, 2 waits, LPOP of -1, 0, 1 or 2 | `Conservation`, `PanicNeedsRace`: values are lost or doubled only when a command changed the list behind what an LPOP had read of it, and the process panics only then or for a negative count; a timeout that races a send loses nothing. `HandedValueArrives`: a value handed to a waiter is popped, unless the process panics |
| `stream_wait` | 3 clients, 2 keys, XREAD of one key or two, 1 entry each, 2 waits | `NoLostWakeup`, `WokenHasEntries`, `EntryReachesReader`: a blocked reader for which an entry exists has been woken or will be by a notification under way, is woken for nothing only by an ID beyond the end, and does return |
| `store_mixed` | 3 clients, 2 keys, 2 values, 1 entry, 2 waits, XREAD of one key, of two, of one twice | `RegisteredIsWaiting`: no channel is left behind in a queue. `StuckOnlyBehindXRead`: a push hangs with `s.mu` locked only behind an XREAD that named several keys (it does happen). `BLPopNeverDropsValue`, `OnePlace`: a value ends at one client, in one list, in one channel, or swallowed by an XREAD |
| `txn_expiry` | 2 clients, 1 key, 3 writes, TTLs, queues of 3 commands, with UNWATCH and MULTI at any place | `VersionCountsWrites`, `CheckSound`, `AbortJustified`: EXEC misses a write only across a deletion, and aborts only after a write. `OneResponsePerCommand`: the replies of EXEC stay in step, also with commands left over from the last one, queued by a MULTI among those that run, or run after an UNWATCH; nothing is collected outside EXEC |
| `stream_ids` | ints of -3..2, 5 entries, every request, every bound with a malformed one and `ms-*` among them, any clock | `IncreaseUntilOverflow`, `XRangeMatches`, `XReadMatches`: binary search over text IDs against a linear scan; XRANGE panics exactly when an entry is after the end and before the start; `-` to `+` returns everything |
| `stream_ids_increase` | ints of -4..3, 3 entries | violated: `IDsIncrease`, see section 4 |
| `pubsub` | 3 connections, 1 channel, queues of 2, 3 messages | `CountsWhoGotIt`, `LossNeedsBacklog`, `NeverOvertakes`: what PUBLISH replies is exact, only a subscriber that fell behind misses a message, and messages sent one after the other arrive in order |
| `repl_wait` | 2 clients, 1 replica, 2 writes, 2 WAITs, 1 command on the replica, twice as long as a write, GETACKs as long as a write, room for 1 token | `NoGap`, `OrderKept`, `OffsetCountsWrites`: what propagation guarantees to writes that do not overlap and to a replica whose handshake no write ran into. `WaitMissesAtMostCredit`, `NoOversleep`: how far WAIT can be wrong, and when it sleeps too long |
| `aof` | 2 clients and the link of a replica, 2 commands, 2 restarts, 1 failure (a file that does not open, a write cut short, a crash of the machine); or 3 commands of the clients, RPUSH and LPOP, and 1 restart | `AnsweredIsRestored`: an answered RPUSH is executed again by the process that rebuilt the state, unless its record was never written or stands behind a cut one. `LogDoubles`: after n restarts a command has at most 2^n records. `RestartRestores`: the first restart brings back the list, plus what was logged and not executed, if the first process executed one command after the other in the order of its log. `WaitingIsServed`: a connection waits for the rebuild for ever only behind a replayed BLPOP that blocks |
| `sorted_sets` | 3 members, 2 scores, 3 levels, 3 nodes | `LevelsInOrder`, `RankIsPosition`, `RangeIsSlice`, `SearchStartsRight`: against the members sorted by score and name, for all ranks and all bounds, with the exceptions listed in section 4 |
| `frames` | 3 commands sent, from a set with an empty argument and one that holds a line end; reads of 1 to 24 bytes | `InStep`: the commands executed are those sent, none is lost, doubled or misread, and the offset is the end of the last one. `CutsEndTheLoop`: which cuts end the connection's loop, and that no others do. `AllExecuted`: every command sent is executed unless there was such a cut |

`TypeOK` of a module is proved, or part of another property, where it is not a
property of its own.
Clients, the channels of waits, list values and replicas are interchangeable, and
the runs without liveness properties use that symmetry.

**Why the bounds are enough.** Three clients are what the list races take: one
that blocks, one that blocks behind it, one that pushes; two are enough to meet
in an LPOP. A batch of two is the smallest that leaves something over. Two keys
are the smallest XREAD with two queues. A wait needs a channel of its own, and
channels are not used again, so their number bounds the waits. `SendCap` and
`AckCap` are 256 and 100 in the code and 1 or 2 here, so that the queue is full
early. With three connections two publish at once while a third falls behind.
Two writes are the fewest that can be overtaken or overlap; with one replica a
second one that receives them in another order is not seen, but each replica is
held against the order of the answers. Three writes to a string are a write, a
deletion's aftermath, and a write that brings an old version back. The ints of
`StreamIDs` are few enough that every ID is tried and the overflow happens.
`MaxMessages`, `MaxWrites`, `MaxWaits`, `MaxLocal`, `MaxEntries`, `MaxQueue`,
`MaxCommands`, `MaxSent`, `MaxNodes` cap counters that are unbounded in the code: a
client then sends no more commands of that kind. A queue of three is one that EXEC
runs and that grows meanwhile: two commands, of which the first may be a MULTI or an
UNWATCH, and one that is queued while they run. Two commands of the log are an RPUSH and
the BLPOP or LPOP that meets it, or two handlers whose log and execution cross; three
are an RPUSH, an LPOP, and the RPUSH that overtakes it;
two restarts are the fewest after which a command is executed twice by one
process, and `MaxFaults` of one shows what a single failure can do. Three levels
have a bottom, a top, and one in between; three nodes are the fewest with one
before and one after a removed or inserted one. A read of 24 bytes takes a whole
command and part of the next, as 1024 do.

**Constraints.** Some instances leave out, by a constraint in the `MC` module, what the
properties cannot tell from what is left in. `list_race` takes values and channels in one
order (`InOneOrder`: a run with liveness cannot use the symmetry) and calls no LPOP once
a value was popped twice (`FewDoubles`), as two LPOPs could double values without end.
`txn_expiry` lets the other clients only read and write the key while a queue holds two
commands, and the last write the bound allows does not come then (`LongQueues`): longer
queues are about the handler that runs them. `aof` has a third command, an RPUSH
or an LPOP, only without failures and links and with one restart, and no link in the process after
two restarts if there was a failure (`FewCommands`). In `repl_wait` a client's
command at the replica moves when its offset is about to be reported or counted in, where
alone it makes a difference (`CountsFirst`), and does not come at all once two writes
have overlapped, where offsets mean nothing any more (`NoneOverlap`). The theorems of
section 5 know none of these constraints.

**Deadlock checking** is off in all runs: channels, values and commands run out,
a client of BLPOP 0 may wait for ever, and a store locked by a stuck push or a
process that panicked stops. That nobody waits who should not is what the
liveness properties, `PushNeverBlocks` and `StuckOnlyBehindXRead` say.

**Fairness.** Weak fairness of the steps of a command under way: the Go scheduler runs
goroutines that can run, timers fire, files get written. In `list_race` (`ListProgress`)
and `stream_wait` (`StreamProgress`) these are the steps of every client's command after
its call; in `aof` those of the clients' connections, each for itself, without `Issues`,
the failures and the crashes; in `frames` those of the reading loop. Nothing is assumed
of clients: no command has to be sent, no connection has to close or to stay.

## 4. Finding

`store.go:541`: for `*` XADD takes the last sequence number plus one, unchecked.
After the greatest int comes the least, so the new ID is smaller than the top
item, which for explicit IDs `store.go:565` refuses as "equal or smaller than the
target stream top item". Its text has two dashes, and `convertID` no longer
parses it. Run `stream_ids_increase`.

The models also contain behaviour that no document contradicts and that a
reader should know of; the properties say where its limits are:

- a push to a key on which an XREAD waits hands it the value, which is dropped,
  and may hang with `s.mu` locked (`Store`);
- LPOP without the lock loses or doubles values; on a list that exists and is empty it
  stores an empty one over what was pushed meanwhile; a negative count panics
  (`ListOps`);
- XRANGE panics when an entry is after its end and before its start, so also for a
  malformed end, which is read as 0-0 (`StreamIDs`);
- a push of several values serves one waiter and strands the others (`ListOps`);
- WATCH stops at the first missing key, and does not see a key deleted and
  written again (`Transactions`);
- a successful EXEC keeps its queue and watched keys (`Transactions`);
- subscriber mode is never left: after the last UNSUBSCRIBE the connection is still
  refused its commands (`commands.go:1110`; `PubSub`);
- every restart logs the log again, and from the second restart on commands are
  executed more than once; the link of a replica logs before the first client
  has the state rebuilt, and its commands are replayed at once (`Aof`);
- a logged BLPOP without timeout can block the replay, and with it every
  connection; a BLPOP that waited is replayed before the RPUSH that served it, and an
  RPUSH that an LPOP stored over is there again after the replay (`Aof`);
- behind a record that was cut the log is written on and never read (`Aof`);
- ZREM leaves a node of the top level linked there, and never lowers the stored
  length, so that ZCARD and ranges count removed members; ZADD of a member
  that exists leaves it where it stands; ZRANGE never reaches the last member by
  its own rank, and lists the empty name of the head of an emptied set
  (`SortedSets`);
- a read that ends inside a length line, between the parts of a command or inside
  the line end after an argument ends the loop: the connection stays open and is
  not read again (`Frames`);
- WAIT's target and the replicas' offsets do not count the same commands, both lose
  updates, and
  one WAIT may take the token of another, which then sleeps on without a
  timeout (`Replication`);
- a replica that registers while writes go on misses some of them, or mistakes
  one for the header of the RDB file (`Replication`).

## 5. Proofs

Each theorem holds for all sets of clients, keys, channels, values, connections or
replicas, and for all bounds and capacities, under the named assumptions on the
constants: that markers such as `Free`, `Empty` or `Nobody` are not members of
the sets they are told from, that bounds are numbers, and that sets whose size is
counted are finite (`BoundsAssumption` for the connections of `PubSub`,
`ReplicationAssumption` for the replicas). TLC evaluates the assumptions in each
run. Every action of every module is covered, and every safety invariant and action
property that a passing run checks is the statement of a theorem, so the runs on
small instances are examples of what the theorems say.

The proofs go one way throughout: an invariant of named parts, a lemma for each
action that it preserves them, and the theorem by temporal reasoning from the two.
Sets and sequences are handled by lemmas of their own (`SequenceFacts`). Where a
program computes by recursion - a binary search, the replay of a log, the removal
of a channel n times, the parse of n bulk strings, a walk along the pointers of a
skip list - the module has a recursive function, and an
argument by induction is one by a least counterexample (`LeastNumber`): the
function exists because its finite beginnings do (`RecursiveFunction`), two
functions with the same equations agree because there is no least number at
which they differ.

### Lists: `ListOps_proofs`

| Theorem | Statement |
|---|---|
| `QueuesConsistent` | `Spec => [](TypeOK /\ QueueInv)` |
| `TypesHold` | `Spec => []TypeOK` |
| `NoPushBlocks` | `Spec => []PushNeverBlocks` |
| `NoStaleRegistration` | `Spec => []RegisteredIsWaiting` |
| `WaitersStayReachable` | `Spec => []WaiterReachable` |
| `LPopsPanicByRaces` | `Spec => []PanicNeedsRace` |
| `ValuesConserved` | `Spec => []Conservation` |
| `StrandedByBatches` | `Spec => OnlyBatchStrands` |
| `ListKeepsPromise` | if `PopCounts = {}`: `Spec => KeepsPromise` |

None of `NoPushBlocks`, `NoStaleRegistration`, `WaitersStayReachable` is inductive.
That a push finds room in the first waiter's channel needs that a registered channel
is empty; that needs that filling it takes it off the queue (`RegisteredOnce`: it is
there once), that no other client fills or waits on it (`OneOwner`), that a client
has a channel exactly while it waits (`ChannelWhileWaiting`), and that a channel made
for a wait is new and empty (`NewIsEmpty`). `WaiterReachable` in turn needs that
removing a channel on a timeout removes no other. Their conjunction is `QueueInv`,
which `list_wait` checks too. `NoPushBlocks` is about the list commands alone: with
streams in the same queues it is false, as `store_mixed` shows.

`LPopInv` says what an LPOP has copied: a prefix of the list, as long as nobody
changed the list behind it (`~raced`); from the moment it has settled how many elements
it takes, the list has as many, unless the count is negative. Before that moment
nothing that happens to the list does it harm. That no value is lost or doubled is stated by
its places (`PlacesInv`): the elements of the lists, the slots of the channels, what
was popped and what was never pushed are apart from each other, and each value is at
one place of one list. Every step moves values from one place to another.

`ListKeepsPromise` is the refinement: every step of `ListOps` maps to a step of
`ListPromise` or a stutter. The queue of channels maps to the queue of the clients
that own them; a channel belongs to one client (`OneOwner`), so that
`CHOOSE` finds that client (`OwnersUnique`, `OwnersAre`). A `BLPopGivesUp` that
finds a value in its channel is an ordinary receive; one that finds none is the
timeout of the abstract list. The hypothesis `PopCounts = {}`, nobody calls LPOP,
is the one under which `list_wait` checks it: LPOP takes values without `s.mu`, and no
atomic specification has the outcomes of that race.

### Streams: `StreamOps_proofs`

| Theorem | Statement |
|---|---|
| `StreamInvariant` | `Spec => [](TypeOK /\ StreamInv)` |
| `NoWakeupIsLost` | `Spec => []NoLostWakeup` |
| `WokenReadersReply` | `Spec => []WokenHasEntries` |
| `IDsIncreaseUntilOverflow` | `IDsSpec => []IncreaseUntilOverflow` |
| `XRangeFindsTheRange` | `IDsSpec => []XRangeMatches` |
| `XReadFindsTheRest` | `IDsSpec => []XReadMatches` |

The heart of `StreamInv` is `ReachedOrReachable`: a waiting reader has something in its
channel, or an XADD under way has its channel among those still to notify, or it is in
the queue of every key it named and none of them has an entry for it. XADD empties a
whole queue at once, so the step from the third case to the second is one step for all
its readers. `WakeupTells` is the converse: whoever is or will be woken has an entry,
unless it asked beyond the end (`ahead`).

A position of `StreamOps` stands for an ID of `StreamIDs`, and what the one assumes the
other has to provide; so its theorems are in the same module, under
`StreamIDsAssumption` (the greatest int is at least 1; the markers `Star` and
`Malformed` are not IDs). `IDInv` adds to `IncreaseUntilOverflow` that no time is
negative, so that an ID survives being printed and parsed, and that no ID is `0-0`. The
searches are correct in sorted entries (`SearchFinds`); the range they cut is the linear
scan's (`EntriesAtSlice`). The theorem is about every pair of bounds and says which make
XRANGE panic: those with an entry after the end and before the start (`Outside`), where
a bound that is refused counts as `0-0`. Like `XReadFindsTheRest` it needs that no
sequence number has overflowed, for then the entries are no longer sorted.

### Lists and streams together: `Store_proofs`

| Theorem | Statement |
|---|---|
| `StoreInvariant` | `Spec => [](StoreTypeOK /\ StoreInv)` |
| `NobodyLeavesItsChannel` | `Spec => []RegisteredIsWaiting` |
| `PushesStuckBehindXRead` | `Spec => []StuckOnlyBehindXRead` |
| `HandedToBLPopIsRead` | `Spec => []BLPopNeverDropsValue` |
| `EachValueInOnePlace` | `Spec => []OnePlace` |

The invariants of the two modules do not carry over: an XREAD on two keys is
registered twice with one channel, so that a registered channel need not be empty.
`AsNamed` counts: a channel is in a queue at most as often as its client named the
key. `SingleIsEmpty` is what is left of the old fact, for clients that registered once,
and `Locked` says that a push holds `s.mu` over a step only behind an XREAD that
registered more than once. `OnePlace` follows from `PlacesInv`, in which every value
has one of the places list, channel, push under way, popped, lost.

### Transactions: `Keyspace_proofs`

| Theorem | Statement |
|---|---|
| `TransactionTypesHold` | `Spec => []TypeOK` |
| `VersionsCount` | `Spec => []VersionCountsWrites` |
| `ExecMissesNoWrite` | `Spec => CheckSound` |
| `AbortNeedsWrite` | `Spec => AbortJustified` |
| `OneReplyPerCommand` | `Spec => []OneResponsePerCommand` |

It uses `TransactionsAssumption`: WATCH is called with lists of keys, a TTL is given
or not, and the bounds are numbers. The inductive invariant is
`TypeOK /\ WatchInv`. `VersionCountsWrites` is inductive only together with
`CountsGrow`: a deletion ends the life of a key for good because the count of
deletions never comes back to what a client saw. It says nothing of a key that was
deleted since, so that an abort is justified needs `QuietKeepsVersion`: while nobody
writes the key its version is the recorded one or 0, and `Changed` takes 0 for no
change. `ComparesWatched` ties the keys EXEC still has to compare to those that are
watched. The lemmas say that a step leaves an entry alone, writes it or deletes it
(`StoreCommandStep`, `ExecuteStep`), that a handler keeps or forgets what it watches
(`KeepOrForget`), that the counts survive both (`CountsKept`), and that only the
steps of its own EXEC move a client that compares (`ExecMoves`).

### Sorted sets: `Keyspace_proofs`

| Theorem | Statement |
|---|---|
| `SkipListInvariant` | `SortedSpec => []SortedInv` |
| `LevelsStayInOrder` | `SortedSpec => []LevelsInOrder` |
| `RanksAreRight` | `SortedSpec => []RankIsPosition` |
| `RangesAreSlices` | `SortedSpec => []RangeIsSlice` |
| `SearchesStartRight` | `SortedSpec => []SearchStartsRight` |

They hold for any members, any scores and any number of levels and
nodes. None of the four properties is inductive: they speak of answers, and answers are
computed by walks. `SortedInv` speaks of pointers instead. The pointers of each level,
from the head to `Nil`, lead through the members whose nodes reach it, in the order of
score and name (`InScoreOrder`), and the span of a pointer is the difference of
the places of its two ends (`SpansRight`). What removals leave wrong is part of it:
`Counted` says how far the stored length is off; `InSomeOrder`, that level 0 is a chain
of all members as long as nothing was removed, in some order even after a ZADD
that moved a member in the dictionary only; the histories `reordered`, `topRemoved` and
`topCrossed` say from when on the rest is given up.

`Walk` is a function that calls itself along pointers; that it exists, and ends, needs that
the pointers lead to ever greater numbers in some numbering (`DownAlong`), which the
places in the order are. What it does is said once, for every test at which a level
is left: what holds at the start and is kept by every step holds at the end of every
level (`WalkKeeps`). From that, the walk of an insertion ends on each level right before
the members that come later (`InsertWalk`), and that of a removal right before the node
(`RemoveWalk`). Each answer is then a fact about the order: a rank is a place
(`PositionIs`), a range is what stands between two places (`ElementIs`, `StartOfTail`).

### Publish/subscribe: `Connection_proofs`

| Theorem | Statement |
|---|---|
| `PubSubInvariant` | `Spec => []Inv` |
| `ReplyCountsReceivers` | `Spec => []CountsWhoGotIt` |
| `OrderOfAnswersKept` | `Spec => []NeverOvertakes` |
| `LossIsBacklog` | `Spec => []LossNeedsBacklog` |

The count of a PUBLISH at work is the number of connections that were queued its
message (`JobCounts`); it is one per connection because a connection whose turn is still
to come has not got it (`LeftHasNot`) and nobody publishes the same message twice
(`JobsApart`). When the answer is given, no turn is left. The order needs that what a
message found answered stays answered (`EarlierAnswered`). That a loss needs a full queue
is not inductive, as a queue that was full may have been emptied since: `MissedBehind` says
instead that at least `SendCap` messages were queued that were not answered when the lost
one started, and `ChanIsSuffix` that the queue always holds the newest of them.

### The loop of a connection: `Connection_proofs`

| Theorem | Statement |
|---|---|
| `FramesInvariant` | `FramesSpec => []FramesInv` |
| `CommandsStayInStep` | `FramesSpec => []InStep` |
| `OtherCutsEndTheLoop` | `FramesSpec => []CutsEndTheLoop` |

They hold for any commands, with any bytes in their arguments, any number of them and
any size of a read. `FramesInv` is the conjunction of the two properties and the types,
with one addition: a loop that does not read has something in its buffer. That the
commands executed are those sent needs that the parser, on a buffer that begins like a
command, returns that command or an error, and never a shorter one: a line end inside an
argument is not taken for one that ends a part. That needs the layout of an encoded
command, byte by byte (`CommandLayout`, `BulkIs`), and what the parser makes of it when
it is cut at each place: `NextBulkIs` for one bulk string, `BulksAre` for all of them up
to the first that is not there, `ParseIs` for the error that remains. Which error it is
decides between reading on and the end of the loop, which is `CutsEndTheLoop`.
`BufferBegins` gives the parser's hypothesis: the buffer goes on where the executed
commands end, so it is empty or begins like the next one (`StreamNext`).

### Replication: `Replication_proofs`

| Theorem | Statement |
|---|---|
| `ReplicationInvariant` | `Spec => []Inv` |
| `WritesKeepOrder` | `Spec => []OrderKept` |
| `EveryAnsweredWriteComes` | `Spec => []NoGap` |
| `GlobalOffsetCounts` | `Spec => []OffsetCountsWrites` |
| `SleepsForAReason` | `Spec => []NoOversleep` |
| `WaitClaimsLittle` | `Spec => []WaitMissesAtMostCredit` |

The order of a replica is that of its log followed by its connection
(`PipelineOrdered`): moving a write from one to the other changes nothing, and a write
that is appended is not among those another one in the pipeline had found answered.
`EveryWriteComes` follows each write to each replica in step: done, in the connection, or
the replica's turn is to come. `OneByOne` says what holds as long as no two
writes overlap: a write finds all earlier ones answered, and `GlobalOffset` is
their number. The offset of a replica is at most the writes it executed plus its credit, and no
ACK, on its way or recorded, claims more than was true when it was sent (`Reports`).
Two handlers count in that offset, each in two steps, and may undo each other: `Counted`
says that neither the offset, nor what a handler has read of it, with all that is still
to be counted, is more than that sum. An update that is lost makes it less.
From that, a replica WAIT counted has as many writes as WAIT asked for, less its credit
(`ClaimsBacked`); that it has the same ones, and not only as many, takes the order of
writes one by one (`Initial`).

### Append-only file: `Aof_proofs`

| Theorem | Statement |
|---|---|
| `LogInvHolds` | `Spec => []LogInv` |
| `AnsweredComesBack` | `Spec => []AnsweredIsRestored` |
| `ClientsWaitForRebuild` | `Spec => []Quiet`: until the state is rebuilt a client's connection does nothing but wait, unless it is the one that rebuilds |
| `RestoreInvHolds` | `Spec => []RestoreInv` |
| `FirstRestartRestores` | `Spec => []RestartRestores` |
| `DoublesInvHolds` | `Spec => []DoublesInv` |
| `RestartsDoubleAtMost` | `Spec => []LogDoubles` |

The inductive invariant `LogInv` follows an answered RPUSH through its places.
`Kept`: it has a record in the file, or in a buffer, or is in
`lost`; a command on its way to execution is there too. `Replaying`: while a client
rebuilds, everything answered is executed by this process already, or among the
records still to be replayed, or the command at hand, or excused. `Quiet` says why
nothing is answered meanwhile; `Handlers` and `Queue` say who holds
`rebuildMutex`, which command a handler is at and that a blocked connection
waits exactly once for a BLPOP. That a cut record hides what follows has its own
lemmas (`CutStays`, `TailReads`, `NothingLeft`): appending to the file never makes an
unreadable record readable.

`FirstRestartRestores` compares two runs over the log. `After(log, s, ids)` is the list
that the commands `ids` make of `s`; it can be taken apart at the last command
(`AfterOneMore`) and at the first (`AfterFirst`). In the first process, the file makes of
the empty list what the commands logged and not executed make of the present one
(`LogMakesList`): a record written adds a command at the end of both, a command executed
in order takes the first from the right and changes nothing on the left. An LPOP between
its two steps is about to store the tail of the list as it is (`PopInv`): that is where
exactness ends if another command changes the list first. In the second
process, what is still to be replayed makes of the list what the crash left
(`InRebuild`). That a link may log meanwhile without disturbing it needs
that the file is read before, or that exactness ends (`LinksFresh`, part of `Known`;
`AllOld`).

`RestartsDoubleAtMost` is about numbers: a command has at most 2^n records after n
restarts. That is not inductive, as a record still in a buffer, or read and not
replayed, is one to come. `CopiedBound` therefore counts all three, records of the file,
records read and occurrences in a buffer, for each connection; until the log is read
(`Unread`) the sum is bounded by the power before, and reading doubles it at most, as
the clients' buffers are empty by then (`Quiet`) and what a link has in its buffer has
no record yet (`LinksFirst`). A write moves a command from the one buffer that has it
(`HolderOnce`) to the file, so that no sum outgrows that of its holder. `ExecutedBound`
does the same for executions: those of this process, those it is at, and those it has
read and not yet come to. A command that a link logs before the log is read is executed
once more by the same process, which is why its bound is the greater one. `Power` counts
the subsets of 1..n, from which the laws of powers follow that the provers do not know
(`PowerDoubles`).

### Only model-checked

- `HandedValueArrives`, `EntryReachesReader`, `WaitingIsServed`, `AllExecuted`:
  liveness under fairness is out of the prover's reach.
- `IDsIncrease`, which is violated; `IDsIncreaseUntilOverflow` is what holds instead.

## 6. Not modelled

- LLEN, LRANGE, TYPE, KEYS, CONFIG, INFO, ECHO, PING: they change nothing.
- `SetWithAbsoluteExpiry` (only the RDB loader calls it), the value INCR
  computes, the field values of streams.
- Queued commands other than the string commands, UNWATCH and MULTI.
- WATCH of several keys at once: `Transactions` has it and the theorems hold for it,
  but the run watches one key at a time, so that keys compared one after the other
  are not exercised.
- Writes of different lengths in replication.
- In replication: the PING and REPLCONF exchange before PSYNC, a replica that dies or
  stops reading, the failing write commands.
- That the writer goroutine of pub/sub empties its queue, and that a WAIT whose
  replicas have all answered comes to an end: no run checks these.
- In the append-only file: the other commands (ZADD, ZREM and GEOADD are not
  logged at all, the commands of an EXEC are logged one by one), `Init`, which
  makes directory and manifest before the first connection, and a server with
  `appendonly` off, for which each write command tries to open a file that does
  not exist.
- Malformed input to the parser. The empty command, `*0`, makes `handleCommands` panic
  (`commands.go:1092`); `Frames` has no such command.
- Scores that are not numbers: ZADD takes NaN, which is in no order; `Scores` are
  integers.
- Geo: trigonometry and the interleaving of floating-point coordinates are out of
  TLC's reach. Its state is that of the sorted sets; the start of its search,
  `FirstGE`, is in `SortedSets`.
  Read, not checked: `cellArea` takes the grid number of the longitude from the bits
  of the latitude (`geo.go:151`) and leaves the minimum out of `maxLon`
  (`geo.go:160`), and `GeoSearchRadius` passes latitude and longitude to
  `GeoSearchGetNeighborCells` in the other order (`skiplist.go:195`).
- The RDB parser: a sequential decoder of a file read once, before the first
  connection.
- Authentication: one flag per connection, set by comparing a hash; a model would
  restate the guards of AUTH.
- Configuration and start-up keep no state worth a model.

## 7. Plan

Done, in the order of how much of the system hangs on it: `Waiters`, `ListOps`,
`ListPromise`; `StreamOps` and `Store`; `Transactions`; `StreamIDs`; `PubSub`;
`Replication`; `Aof`; `SortedSets`; `Frames`. Left:

1. `Replication`: a replica that dies, and a connection that is full.
2. `Transactions`: the value INCR computes.

Theorems: every safety invariant and action property of the passing runs is proved
(section 5). A change to a module that makes an invariant fail shows first in the run,
then in the lemma of the action that breaks it.
