# Verification of the market replication system

TLA+ models, TLC runs and TLAPS proofs for the system in `src/`: a core service
that owns market states and suspends markets with a circuit breaker, and
replicas that follow it over an SSE stream and serve reads.

## 1. The system

| Component | Source | State | Operations | Correct when |
|---|---|---|---|---|
| Event log | `internal/core/event_store.go`, `internal/domain/event.go` | table `event_log`, keyed by `seq` | `Insert`, `EventsFromSeq`, `LastSeq` | numbered 1..n, each row written once |
| Core service | `internal/core/service.go` | `lastSeq`, `markets`, `signalWindow`, `replicas`, all under `mu` | `IngestSignal`, `ClearSignals`, `evaluateAll` (tick), `Snapshot` | the map is the result of the log; a snapshot pairs a map with its number |
| Breaker | `internal/domain/breaker.go`, `state.go` | none (pure) | `ApplyBreaker` | suspends at a threshold, reopens only after the cooldown and below both |
| SSE hub | `internal/core/sse_hub.go` | one buffered channel per subscriber, under `h.mu` | `Subscribe`, unsubscribe, `Broadcast` | never waits; a slow subscriber is cut off, never left with a hole |
| Stream handler | `internal/core/http.go` | `nextSeq`, the rows read, per request | `handleStream` | writes from `from_seq` on, without gap or repetition |
| Replica loop, what it applies | `internal/replica/service.go` | `markets`, `history`, `lastAppliedSeq`, `coreLastSeq`, `bootstrapped` | bootstrap, stream, apply, refresh on a gap | shows the events up to `lastAppliedSeq`, ends up current |
| Replica loop, its control | the same: `Start`, `consumeStream`, `startIdleMonitor`, `waitBackoff` | `connected`, `lastError`, `reconnectAttempts`, the monitor's timer and channels | attempt, fail, wait, time out, stop | paced by its failures, tells idle from shutdown, reports what is so |
| Replica store | `internal/replica/store.go` | `applied_events`, `consumer_checkpoint` | `CommitAppliedEvent`, `IsEventApplied`, `SetCheckpoint` | the id and the checkpoint move together |
| Replica health | `internal/core/replica_health.go`, `reportHeartbeats` of the replica | last heartbeat per replica, `Service.replicas` | report, record, classify by age | healthy only if recently so, offline when silent or not connected |
| Replica API, wiring, demo, benchmark | `internal/replica/http.go`, `cmd/*` | none | read-only views, start-up | see section 8 |

How they interact: a tick takes `Service.mu`, evaluates every market, and for a
changed one inserts a row, broadcasts the event to the hub and updates the map.
Stream handlers, one goroutine per client, never take `Service.mu`: they read
the table and their channel. Clients of `/internal/events` and of the scenarios take
the lock once per signal, so that ticks run between them. A replica calls `/snapshot` (which does take the
lock), then `/stream?from_seq=n`, and applies frames in one goroutine; a second one
watches for a silent stream and cancels it. A third posts the replica's `Status` to
core on a ticker; core stores it under the lock, and the tick and each
`/replicas/status` classify what is stored.

What is hard: the handler's subscription, backlog read and live channel
interleave with the tick; a row is visible before it is broadcast and before the
map has it; a slow client is evicted with events still in its channel; inserts
and commits fail, or report an error after taking effect; a snapshot is stale
when it is installed; core restarts with an empty log, replicas restart with or
without their store; heartbeats are lost, or recorded after their successors; an idle
timeout ends a stream by the cancellation that also means shutdown. `PROJECT.json` lists each hazard at its line.

## 2. Modules

| Module | What it is |
|---|---|
| `EventLog` | events, rows, and what it means that a map of markets is the result of some rows |
| `CoreStream` | core's tick and emission, the hub, `handleStream` and its client: one action per step |
| `CoreStreamProofs` | TLAPS proofs about `CoreStream` |
| `ReplicatedMarkets` | the abstract specification: each replica shows a prefix of one sequence of events |
| `Replication` | `CoreStream` with the replica loop as its client; refinement of `ReplicatedMarkets` |
| `ReplicationProofs` | TLAPS proofs about `Replication`: its properties and the refinement |
| `Breaker` | `ApplyBreaker` and the replica's validation of what comes of it |
| `BreakerProofs` | TLAPS proofs about `Breaker` |
| `CoreService` | the write path of `CoreStream` with what it computes: clock, signal windows, the spike scenario, the tick with `Breaker` |
| `Induction` | TLAPS proofs: induction over numbers and sequences, existence and uniqueness of recursive functions |
| `WindowProofs` | TLAPS proofs about what `Since` and `Total` of `CoreService` compute |
| `CoreServiceProofs` | TLAPS proofs about `CoreService` |
| `ReplicaLoop` | the loop's control against a core that sends any lines or none: failures, delays, idle monitor, status, shutdown |
| `ReplicaLoopProofs` | TLAPS proofs about `ReplicaLoop` |
| `ReplicaHealth` | the reporters' heartbeats, core's records of them and the health derived from their age |
| `ReplicaHealthProofs` | TLAPS proofs about `ReplicaHealth` |
| `MCCoreStream`, `MCReplication`, `MCCoreService` | the instances for TLC |

`Replication` EXTENDS `CoreStream` and conjoins its actions: `Connect` is
`OpenStream` with `from = applied + 1`, reading a frame is `Deliver`, leaving a
stream for whatever reason is `CloseStream`. Every step of `Replication` is so a
step or a stutter of the stream model with a client that behaves like a replica.

`CoreService` EXTENDS `Breaker` and takes `CoreStream` as an INSTANCE with
`States <- MarketState`, `OpenState <- NewMarket` and no clients. Its `Evaluate`
conjoins pruning and the breaker with `EvaluateUnchanged`, `EvaluateAndPersist`,
`PersistFails` or `PersistUncertain` of `CoreStream`: the states that `CoreStream`
chooses freely are here those of the breaker.

`ReplicaLoop` and `Replication` are two views of one loop. `Replication` has one
replica's data with every interleaving of core and its handler, and all failures of
a stream as one step to the head of the loop. `ReplicaLoop` drops the data, and has
what lies between that step and the head. They meet in `connected`: `Replication`
takes it for `rpc = "stream"`, and `ReplicaLoop` shows that it is so
(`ConnectedOnlyOnStream`). `ReplicaHealth` takes `connected` and `lastAppliedSeq` as
changing at any moment and follows what core is told of them.

### State and code

| Variable | Code |
|---|---|
| `log`, `epoch` | rows of `event_log`; lives of the core process (the log is in memory, `cmd/core/main.go:22`) |
| `lastSeq`, `markets` | `Service.lastSeq`, `Service.markets` |
| `tick` | the markets `evaluateAll` has still to visit; not empty means `Service.mu` is held |
| `emit` | the event between `store.Insert` and `hub.Broadcast` |
| `phase`, `next`, `pend`, `chan`, `open` | a request's place in `handleStream`, `nextSeq`, rows read and not written, its channel, its registration in the hub |
| `wire` | frames written by core and not read by the client |
| `rpc`, `snap` | where the replica's `Start` loop is, the snapshot it has received |
| `bootstrapped`, `applied`, `coreLast`, `view`, `hist` | the replica's memory |
| `ids`, `ckpt` | `applied_events`, `consumer_checkpoint` |
| `now`, `tickNow` | the clock; the argument of the last `evaluateAll` |
| `window`, `spike` | `Service.signalWindow`; how many signals `runSpikeScenario` has still to send |
| `rows` | the columns `event_type` and `market_id` of the log, with the tick's time and the payload |

| `pc` | `ReplicaLoop`: where `Start` is, down to `consumeStream` and `waitBackoff` |
| `connected`, `lastError`, `attempts` | `Service.connected`, `.lastError`, `.reconnectAttempts` |
| `delay`, `round` | `exponentialBackoffDuration`, one doubling a step; then the delay with its jitter |
| `lines`, `body` | what the scanner has yet to read; how the response body ended |
| `monitor`, `timer`, `idleReset`, `idleErr`, `cancelled` | the goroutine of `startIdleMonitor`, its timer, its two channels of one, the stream's context |
| `due`, `post` | `ReplicaHealth`: the ticker of `reportHeartbeats`, the post it waits for |
| `flight`, `handling` | requests on their way; heartbeats whose handler has read the clock and waits for `mu` |
| `record`, `tickAt` | `Service.replicas`; when core's ticker fires, or fired for a tick that waits |

`received` is history: every signal of a market since its window was last cleared.
So are `failures` and `owed` of `ReplicaLoop`, `calmSince`, `startedAt`, `coreSince` and
`disturbances` of `ReplicaHealth`, and its `has` and `former`: the numbers of core's
rows that a replica has really applied, and the replicas whose number still counts
events of a former core. No process knows them; the true lag is computed from them.

### Abstractions

* A market state is a member of `States`. The tick may produce any state other
  than the present one in `CoreStream` and `Replication`; `CoreService` computes it.
  A tick that finds an equal state emits nothing.
* A market state of `Breaker` has status, bets, liability, end of cooldown and
  reason. The stake is a third sum that no decision reads; an event for a change of
  the stake alone is left out with it. The time of the last transition changes only
  with the status. The empty reason is `"NONE"`.
* Times are integers of any unit. A call reads the clock before it has the lock, and
  a tick's time is that of the ticker: both may be up to `Skew` behind the clock,
  calls in any order, ticks not before the one before. The clock never goes back.
* The random event id is the pair (epoch, seq), which is unique as the UUID is.
* The table is a set of rows; a reader takes them in ascending order by taking
  the least one, as `ORDER BY seq` gives them.
* `Broadcast` includes the update of the map: both happen under `Service.mu`,
  and only readers under that lock see the map.
* Commit and memory update of one event are one action, as are `SetCheckpoint`
  and the swap of memory: a crash between them leaves what a crash after them
  leaves, because memory is lost.
* `StreamFails` is one action for a lost connection, the idle timeout, a frame
  that does not decode, and a store that refuses a read or a commit: `Start`
  treats them alike (`internal/replica/service.go:162`).
* `ReplicaLoop` counts time in ticks while it reads, and takes the wait for a delay
  as one step: durations, integers that wrap at `HalfRange`, are compared with each
  other and never with ticks. The jitter is in percent and the division truncates.
  A line is a comment, an event that goes well, one that shows a gap, or one that
  is bad in any way. Variables local to an attempt are reset when it is over. A
  monitor left over from an earlier stream has its own channels and a context that
  is done, so that it can only return, and is left out.
* `ReplicaHealth` has one clock, which waits for work that is due: requests arrive
  or are lost within `MaxDelay`, nobody waits for `mu` longer than `MaxWait`, a post
  ends within `PostTimeout`. This is `NothingDue`; its properties are therefore
  safety properties, with deadlines. `MaxWait` is below the tick interval, so that
  a ticker of one slot loses no tick.
* A handler whose client is gone is removed at once. The handler in the code may
  linger until its context is done; `Broadcast` does not wait for it, so that no
  one can tell.

### Faults

`FaultKinds` names the faults of an instance, `MaxFaults` bounds their number.
`insertFails` (the database refuses the row; with a shared-cache database a
reader's table lock does so), `insertUncertain` (an error is reported and the row
is there), `readFails` (`EventsFromSeq` errors), `snapshotFails`,
`checkpointFails`, `connectionLost`, `replicaRestart`, `coreRestart`,
`commitUncertain` (an error is reported and the transaction is committed). The
two uncertain ones are what `database/sql` allows a driver to do; the code re-reads
`LastSeq` after a failed insert and dedupes by id for them, and only they make the
gap fill of the handler, the duplicate branch and the gap branch of the replica
reachable with this core.

## 3. Runs

| Run | Question | Result |
|---|---|---|
| `core_stream` | do two clients of any behaviour get exactly the log, through failed inserts and reads, eviction and a restart? | yes |
| `core_stream_faults` | do the numbering and the frames survive inserts that store their row and report an error, and a second fault? | yes |
| `replication` | does a replica that crashes and loses connections show exactly the events up to its number, implement `ReplicatedMarkets`, and end up connected and current? | yes |
| `replication_uncertain_commit` | what does an uncertain commit do? | at worst one event behind, with the lag reported, until the next event |
| `replication_faults` | what survives any two faults of every kind, uncertain ones and restarts of core included? | contiguous histories, no going back |
| `core_signals` | do calls and ticks with times that overtake one another keep exactly the signals of the window, does a spike always suspend, and do suspensions and reopenings alternate, over a failed insert or a restart? | yes |
| `market_recovers` | does a market always reopen, after signals of the future and any two faults? | yes |
| `replica_loop` | is the loop paced by its failures, stopped by shutdown alone, truthful in its status, and does it leave a silent stream? | yes |
| `replica_health` | is a replica called healthy only if it recently was, offline once silent, and judged right when undisturbed, and is its lag not below what it misses? | yes, but for a replica that has just restarted, and for the lag under a restarted core |
| `core_restart` | is a surviving replica synchronized after a restart of core? | no, see section 6 |
| `uncertain_insert` | does `lastSeq` stay put when an insert fails? | no, see section 6 |
| `gap_uncounted` | is every event that a replica reads counted in its lag? | no, see section 6 |

### Bounds

Two markets, so that events of different markets interleave, one known from the
start and one created later; two states, since only equality matters; three
events, enough for a snapshot, a backlog and a live event, or for a lost, a
skipped and a gapped one; channels of one and wires of one or two, so that eviction
and back-pressure happen with three events; one fault with two clients and two
faults with one, so that a fault can hit the recovery from another.
`from_seq` is below, at and beyond the end of the log. Two replicas share nothing but the hub, which
`core_stream` checks with two clients; `Replication` runs with one replica.

`CoreService` runs with one market: nothing in a window or in the breaker is shared
between markets, and the log they share is the subject of `CoreStream`; the theorems
hold for any number. Limits are two and signals are one or two, so that one signal
or two reach one limit, the other or both, or take liability back; `Window` is 1 and
`Cooldown` 2, so that a signal can leave the window during the cooldown and each
boundary is hit exactly; timestamps are the clock's or two units ahead.
`core_signals` has `Skew` 1, a signal of liability up to time 3, and a spike of two
bets that must both count; it runs up to time 4, enough for two
suspensions with a reopening between them. In `market_recovers` `MaxTime` is the last call's time plus
offset, window and cooldown, the moment from which the clock decides nothing any
more; ticks go on. `MaxSeq` is 20 and is never reached there.

`replica_loop` has a first delay of 16, a cap of 80 and durations that wrap at 128:
16, 32, 64, then the cap, where doubling 64 would overflow; five attempts go two
beyond it. Jitters are the least, none, and the greatest. The idle timeout is 4
ticks, against one of keepalive and two of latency, so that a line may be read and
the timer reset in the very tick before the timer fires; with three unread lines the
reset channel of one drops resets.
`replica_health` has one replica, as records share nothing but the lock; one tick for
a request and one for the lock, thresholds just above the oldest record that an
undisturbed replica can have (`OldestRecord`), a post timeout equal to the delay, so
that a post given up is recorded after its successor, and two disturbances, such as
a restart and a lost heartbeat. Time 12 is past `Settle` after a disturbance, and
past the time after which a silent replica must be offline.

Symmetry over clients is used in `core_stream` only, which has no liveness.

### Fairness

`FairSpec` assumes that goroutines run: a tick that has begun goes on, a handler
that can act acts, the replica's loop goes on. Fetching a snapshot is strongly
fair: it needs the read lock, which every tick takes away again, and a Go RWMutex
lets the readers that wait in before the next writer. New events, ticks and
faults have no fairness; `MaxSeq` and `MaxFaults` make them finite, so that
`Converges` speaks of the time after the last of them. `SFairSpec` assumes that time
passes, that the ticker keeps delivering the present time, and that a tick that has
begun goes on (it runs under the lock in one goroutine); clients need do nothing.
`Recovers` needs the tick to prune by itself, and a failed insert to be tried again
by a later tick. `LFairSpec` assumes that the loop and the monitor run and time
passes. A request for a snapshot ends, because it has a timeout. One for a stream
has none (its client has no timeout, `internal/replica/service.go:74`), and is fair
only once the context is done. Of core nothing is assumed but that it writes
while it keeps a stream alive. `ReplicaHealth` has no fairness and needs none.
Deadlock is checked in all runs: a tick of core or a request can always begin, and a
loop that has stopped has `Stopped`, a step that changes nothing.

## 4. Properties

* `LogGapFree`, `StateMatchesLog`: numbering and the map against the log.
* `FramesGapFree`, `NoEventMissed`, `ShownIsDurable`: each stream is a run of
  consecutive rows, nothing from `nextSeq` on is lost, nothing is shown before it
  is a row.
* `ReplicaConsistent`, `HistoryContiguous`, `AppliedNeverBack`: what a replica
  shows is the result of the events up to `lastAppliedSeq`, each applied once.
* `SynchronizedWhenQuiet`, `LagIsReported`: with nothing under way the replica is
  current, or says that it is not. Current means: every market in core's state. A
  market that core knows and that has never had an event is the one thing it may
  lack, since no frame tells of it; it never has a market that core has not.
* `ImplementsReplicatedMarkets`: the refinement, with `truth <- log`,
  `pos <- applied`, `shown <- view`. A crash maps to `Forget`, an installed
  snapshot and an applied event map to `Show`.
* `NoSignalLost`: pruning by calls and ticks whose times overtake one another keeps
  every signal of the present window and none that has not come.
* `SpikeSuspends`: the separate signals of a spike cannot be missed by the tick that
  follows them.
* `StatesCoherent`, `TransitionsAlternate`: an open market is below both limits and
  carries nothing of a suspension, each stored event passes the replica's
  validation, and the log tells one life of each market.
* `StopsOnlyOnShutdown`, `KeptAliveNeverIdle`, `SilentStreamLeft`, `ShutdownStops`: the
  idle timeout ends silent streams and only these, and is never taken for the
  shutdown whose cancellation it borrows, over all interleavings of lines, timer,
  reset and cancellation.
* `NoHammering`, `PacedByFailures`: a failure is followed by a wait or a snapshot, and
  the wait is that of the number of failures in a row, without overflow.
* `ConnectedOnlyOnStream`, `ErrorIsLastFailure`: what `Status` and heartbeats say.
* `HealthyMeansRecent`, `SilentGoesOffline`, `UndisturbedIsJudgedRight`,
  `LagNotUnderstated`: what `/replicas/status` says of a replica is so, up to stated
  delays, with heartbeats lost, late, or recorded out of order. The lag shown, which
  is computed from two numbers and cut off at zero, is compared with the number of
  core's events that the replica has really not applied. It may fall short in two
  cases only: for as long as a heartbeat of the replica's former process counts as
  recent, and while the replica's number is that of a former core.
* `Converges`, `ConvergesOrReportsLag`, `Recovers`: liveness.

Each property has a mutant of the code's behaviour that violates it, defined next
to the definition it changes.

## 5. Proofs

`CoreStreamProofs` proves, for every set of markets, states and clients, every
capacity and every bound, from `EventLogAssumption` and `CoreStreamAssumption`:

| Theorem | Statement |
|---|---|
| `TypeCorrect` | `Spec => []TypeOK` |
| `LogAlwaysGapFree` | `Spec => []LogGapFree` |
| `StreamsGapFree` | `Spec => []FramesGapFree` |
| `DurableBeforeShown` | `Spec => []ShownIsDurable` |
| `NothingMissed` | `Spec => []NoEventMissed` |
| `MapMatchesLog` | `Spec => []StateMatchesLog` |

The inductive invariant is `TypeOK /\ LogInv /\ StreamInv`. `LogInv` adds to the
numbering that an event under way is the last row: this is why the map may be
updated after the broadcast. `StreamInv` adds that the rows a handler has read
are a run that begins at `nextSeq` (so that writing the least one cannot jump),
that every event in a channel is a row (so that a gap fill reaches it), and that
the frames of a handler that is there are of the present life of core.
`NothingMissed` and `MapMatchesLog` add one more conjunct each, under the
condition that no insert is uncertain; the properties state that condition.

`ReplicationProofs`, for every set of markets, states and replicas and every bound,
from the same assumptions and `ReplicationAssumption`:

| Theorem | Statement |
|---|---|
| `RTypeCorrect` | `RSpec => []RTypeOK` |
| `NeverBack` | `RSpec => AppliedNeverBack` |
| `HistoriesContiguous` | `RSpec => []HistoryContiguous` |
| `ReplicasConsistent` | `OneLife => (RSpec => []ReplicaConsistent)` |
| `LagIsTrue` | `OneLife => (RSpec => []LagIsReported)` |
| `SynchronizedAtRest` | `OneLife /\ Certain => (RSpec => []SynchronizedWhenQuiet)` |
| `ReplicationImplements` | `OneLife /\ Certain => (RSpec => ImplementsReplicatedMarkets)` |

`OneLife` says that `FaultKinds` has neither `coreRestart` nor `insertUncertain`,
`Certain` that it has no `commitUncertain`. They are needed: run `core_restart` shows
a quiet replica that is not synchronized after a restart of core, and a replica whose
store committed one event more than it remembers stays one behind until the next.

Every step of `RNext` is a `StreamStep`, a step of core, of a handler or of a client
that asks for any `from_seq`, so that the invariants of `CoreStreamProofs` hold here
without a second proof. On top of them there are three. `LifeInv`: in one life the
log has `lastSeq` rows, numbered, and each market with an event has a latest one.
`ShowInv`: what a replica shows, and every snapshot response on its way, is the
result of a prefix of the log. For a snapshot this is `MapInv` at a moment when the
lock is free and so no event is under way (`FetchSnapshot` waits for `tick = {}`), and for an event it
is that the frame is the row numbered `applied + 1`. `FollowInv`: the last frame read
is the one numbered `applied`, or one more when that one is skipped because the store
has it; the store is at most that one event ahead of memory; a stream is open only in
the two locations that read it. A quiet replica has an empty wire, channel and
backlog, so `NoEventMissed` makes `nextSeq` the end of the log and `FollowInv` gives
the rest. `KnownInv`, for `SynchronizedAtRest`: no key leaves core's map in one life, and
neither a replica nor a snapshot on its way has a market that core has not, because
an event is only emitted for a market of the map. For the refinement, persisting an event is `Commit`, an installed snapshot
and an applied event are `Show`, a restart of a replica is `Forget`, and every other
step a stutter.

`BreakerProofs`, from `BreakerAssumption` (limits and cooldown are positive), for all
integers, and `CoreServiceProofs`, from these and `CoreServiceAssumption`, for every
set of markets, window, signals, offsets, skew and faults:

| Theorem | Statement |
|---|---|
| `EvaluationCoherent` | an evaluation keeps `Coherent`, and its event is `ValidForReplica` |
| `TransitionShape` | what each event type says of the states and the cooldown |
| `HotIsSuspended` | sums at a limit leave the market suspended, whatever it was |
| `STypeCorrect` | `SSpec => []STypeOK` |
| `NeverLost` | `SSpec => []NoSignalLost` |
| `SpikeNeverMissed` | `Undisputed => (SSpec => SpikeSuspends)` |
| `AlwaysCoherent` | `SSpec => []StatesCoherent` |
| `LivesAlternate` | `SSpec => []TransitionsAlternate` |
| `ServiceImplementsStream` | `SSpec => Spec`, the `Spec` of `CoreStream` |

`StatesCoherent` is inductive together with `KindInv`, which says of what kind the
values are that an evaluation reads: `EvaluationCoherent` does the step.
`TransitionsAlternate` speaks of the log only and is not inductive: `LifeInv` adds
that the state of each market, or the state of its event under way, is suspended
exactly if the last transition among its rows is a suspension, and until `Cooldown`
after it (`Fits`). `EvaluationContinues` is one evaluation, `AppendKeeps` says that
a new row changes nothing for the others.

`Undisputed` says that no signal takes bets back and that `insertUncertain` is not
among the faults. Both are needed: a signal with negative bets can pull the sum below
the limit again, and an insert that stored its row and reported an error makes the
next one fail without a further fault, which is what `SpikeSuspends` lets a tick off for.

Windows are sequences of any length, so what a window keeps and what its sum is are
inductions over data. The library's induction theorems take a predicate as a parameter and cannot
be instantiated here; `Induction` does the same with sets. `SetInduction`: a set that has
0 and with each number the next one has all numbers, because `<` on the numbers is well-founded and a
least number outside would have a predecessor inside. From it, `AppendInduction` for
sequences, and `RecursionExists` and `RecursionUnique`, by which a recursive function
that a definition chooses is the one its equations describe. `WindowProofs` unfolds
`Since` and `Total` so, and derives that pruning twice is pruning once, that it keeps
exactly the points from a time on, in their order, and that the sum of some points is
at most that of all, when none is negative.

`NeverLost` carries `Complete`: the part of a window from the oldest time on that a call
or a tick may still have read is that part of everything received. A call or a tick
prunes with a time of its own, at most the clock, so that what it drops is outside of the window for good.
`SpikeNeverMissed` carries `SpikeInv`: as long as a whole spike is in the window,
the points not older than it have its bets, one signal after the other (`Covers`), so
that an evaluation finds the limit reached, and `HotIsSuspended` does the rest. No
signal can come between computing an event and publishing it, since calls wait for the
lock a tick holds: the event under way of a market whose spike is due already suspends it.

`ServiceImplementsStream` takes from `KindInv`
that the state an evaluation computes is one that `CoreStream` may choose.

`ReplicaLoopProofs`, from `ReplicaLoopAssumption` (first delay and cap positive and
ordered, a delay of one and a half caps still a duration, jitter between 50 and 149
percent), for every value of the constants:

| Theorem | Statement |
|---|---|
| `LTypeCorrect` | `LSpec => []LTypeOK`, with it: each delay is between `Millisecond` and `Cap` |
| `StopsForShutdown` | `LSpec => []StopsOnlyOnShutdown` |
| `ConnectedIsTrue` | `LSpec => []ConnectedOnlyOnStream` |
| `ErrorIsTrue` | `LSpec => []ErrorIsLastFailure` |
| `NeverHammers` | `LSpec => []NoHammering` |
| `WaitsArePaced` | `LSpec => []PacedByFailures` |
| `KeptAlive` | `LSpec => []KeptAliveNeverIdle` |

`CauseInv` is inductive: a result `canceled` without a shutdown can only be that of a
stream whose monitor has cancelled it, and then the idle error is already there; what
a failure owes is owed until a wait ends or a snapshot is installed. `BackoffInv`, for
`WaitsArePaced`: the counted attempts are the failures in a row, and each round of the
doubling has reached `Ideal` of its number. `Ideal` doubles without a cap and cuts once;
`IdealDoubles` shows that the code, which cuts in every round, computes the same, and
`DoubledIdeal` that no round overflows. `PaceInv`,
for `KeptAlive`, says how old the timer may be: the ticks since it was set are at most
those since the reset it has not taken, those the line behind it was unread, and those
core was quiet before.

`ReplicaHealthProofs`, from `ReplicaHealthAssumption`:

| Theorem | Statement |
|---|---|
| `HTypeCorrect` | `HSpec => []HTypeOK` |
| `HealthyIsRecent` | `HSpec => []HealthyMeansRecent` |
| `SilentIsOffline` | `HSpec => []SilentGoesOffline` |
| `LagIsNotUnderstated` | `HSpec => []LagNotUnderstated` |
| `JudgedRightForever` | `HSpec => []UndisturbedIsJudgedRight` |

The invariant says of every heartbeat, in flight, in a handler or recorded, that it
was read from the replica's state at its time and arrived within `MaxDelay` (`AgeInv`),
of the tick that it is never later than `MaxWait` (`TickInv`), and of every record that
is not offline that no tick since has found it old (`SilenceInv`). `LagIsNotUnderstated`
rests on `HasInv`: a replica whose number is not a former core's has every row
up to it, so that at most the rows above it are missing, and a heartbeat of its present
process names no greater number.

For `JudgedRightForever` the reporter has to be followed from one post to the next.
From its second heartbeat on, a replica sends one in any `Spread` consecutive ticks, where
`Spread` is one less than interval and timeout together; its ticker and its post tell
for which ticks `t` this has happened, or will in time, for `t .. t + Spread - 1` (`Posted`). `CoverInv`:
since the last disturbance each such heartbeat is on its way or waits for the lock, or
the record was made by something that had the lock after it was sent (`Heard`). Long
enough after the disturbance the first two are past their deadlines, so that the record is young,
its heartbeat was sent after the disturbance, and says what is still so (`FreshInv`). The proof showed that
with no delays at all the property does not hold at `Settle` itself, but only after it: the
first heartbeat of a process may be sent in the tick of a disturbance, before it, and
the next one comes exactly `Settle` later. `UndisturbedIsJudgedRight` says `>` for this reason.

All safety properties of the passing runs are proved, under the conditions stated
above. Liveness (`Converges`, `ConvergesOrReportsLag`, `Recovers`, `SilentStreamLeft`,
`ShutdownStops`) is checked by TLC only: the provers have no rule for fairness that
reaches it.

## 6. Findings

* `core_restart`. `Start` "keeps the replica synchronized"
  (`internal/replica/service.go:123`) and "Sequence mismatch is treated as a gap"
  (`README.md:59`). After core restarts, its numbers begin at 1 again. A replica
  reconnects from its own `lastAppliedSeq + 1`; core accepts any `from_seq` and
  skips smaller events, so that no mismatch is ever seen. The replica is
  connected, reports no lag, and shows the previous life's markets.
* `uncertain_insert`. "If core persistence fails, authoritative state and `lastSeq` do
  not advance" (`README.md:56`). After a failed insert `lastSeq` is read from the table
  again (`internal/core/service.go:286`). When the row is there after all, it
  advances, while the map and the subscribers do not hear of the event. That the
  numbering survives this is `LogGapFree`; the frames do by the gap fill.
* `gap_uncounted`. `updateCoreLastSeq` "tracks the highest sequence observed from core"
  (`internal/replica/service.go:382`), but an event that shows a gap is not counted:
  `processEvent` returns before. Until a refresh succeeds the replica is two events
  behind and reports one.

## 7. Plan

The components of section 1 are modelled, and what the passing runs check of their
safety is proved. What is left: that a replica under `ReplicaLoop` and one under
`Replication` agree in more than `connected`, and lemmas that would let
`SpikeNeverMissed` do without the exclusion of uncertain inserts, once its property is
stated for two faults.

## 8. Not modelled

Of core: a clock that is set back, sums beyond int64, the stake and the time of the
last transition; that a restart of core forgets suspensions and windows is modelled
and no property speaks of it. Of a heartbeat: the fields core only copies
(`core_last_seq`, `last_sync_at`) and two replicas that report under one id. Of the
replica's validation: empty ids and numbers, which core never sends. A core that
accepts a connection and never sends headers: the loop waits for it, since the
client of the stream has no timeout; `StreamAccepted` and `StreamRefused` have no
fairness for this reason and no property promises more. Encoding and routing, the
read-only views of the replica (copies under a lock), the environment variables and
the shutdown of the HTTP servers in `cmd/*`; the demo and the benchmark, which are
clients of the system; `internal/shared`, which writes JSON. SQLite is modelled by
the three statements the code sends to it, with failures as said in section 2.
