# as-cache: TLA+ specifications and proofs

`as-cache` is a Go cache that runs several eviction policies side by side. One
of them, the *active* policy, holds real values and serves requests; the others
are *shadows*, miniature copies fed zero values for a sample of the keys. At the
end of every epoch a bandit sees how all of them did and names the next active
policy; a switch migrates data cold, warm or gradually. A fleet of such caches
can share one bandit through a store (memory, Redis or Valkey).

This directory models the parts of that program whose correctness depends on
interleavings, on the order of steps inside a critical section, on failures, or
on long sequences of calls. TLC checks the models on small instances; TLAPS
proves the central ones for every instance.

Contents: [inventory](#inventory), [modules](#modules-and-their-code),
[runs](#runs), [disagreements](#where-code-and-comments-disagree),
[proofs](#proofs), [limits](#what-is-not-modelled), [plan](#plan).

## Inventory

| Component | Source | State | Operations |
|---|---|---|---|
| adaptive cache | `cache.go`, `wrapper.go`, `models.go` | active policy, policies with hit and miss counters, sampled counters of the active policy, running totals; one RWMutex | Get (read lock, or write lock in a window), Add, Remove, Purge, Resize, Stats, reads |
| migration | `migration.go`, `shadow.go` | gradual window: source, queue of keys, set of keys still eligible; full and miniature capacity per policy | migrateData, promoteLocked, drainOneKey, closeMigrationLocked, demoteLocked, switchLocked |
| epochs and switching | `epoch.go`, `stability.go` | epoch number, last switch, evidence of the last report, request counter | countRequest, runEpoch, selectPolicyLocked, allowSwitchLocked, the ticker goroutine, Close |
| settings | `settings.go` | constants | validation, NewAdaptiveCache |
| sampling | `sampling.go` | sampling rate, hash seed | admit, scaledCapacity, shadowCapacity |
| advice | `advice.go` | what each policy measured in its present role | Advice |
| policy contract | `interfaces.go` | contents, capacity | Add, Get, Remove, Purge, Resize, ... |
| LFU | `lfu/` | entries, frequency buckets, minFreq, eviction buffer | all methods, callbacks |
| random eviction | `policies/random.go` | map, key slice, index | all methods |
| TTL policy | `policies/ttl.go` | an LRU, a deadline per entry | all methods, lazy expiry |
| adapted caches | `policies/adapt.go`, `adapters.go` | a wrapped foreign cache, the configured size | all methods, rebuild and replay on Resize |
| ARC, W-TinyLFU | `policies/arc/`, `policies/tinylfu/` | a third-party cache | all methods |
| distributed bandit | `bandit/distributed.go`, `coordinate.go`, `config.go`, `snapshot.go` | buffered counts, regime, selection, fallback flag, last error, last sync, timer | RecordEpoch, SelectPolicy, the coordination goroutine, Close |
| pooling and sampling of evidence | `bandit/window.go`, `thompson.go`, `sample.go` | none | aggregate, pick |
| regime fingerprint | `bandit/fingerprint.go` | none | scopedNamespace |
| store | `bandit/store.go`, `memstore.go`, `bandit/redis/` | counters, leadership claim and decision per namespace and bucket, each with an expiry | Sync, Window, Decide |
| metrics, benches, examples, site | `metrics/`, `bench/`, `benchclient/`, `examples/`, `site/` | none that matters | |

How they interact. Callers call the cache from any number of goroutines. The
cache calls its policies under its own lock; the policies have locks too, and
the LFU calls its eviction callback after unlocking. The epoch runs either on a
background goroutine (a ticker) or on the goroutine of the Get that completes
`EpochRequests` requests, and holds the write lock throughout; in it the cache
calls the bandit (RecordEpoch, SelectPolicy). The distributed bandit only
buffers and answers from memory there; its own goroutine talks to the store.

What is hard to test here:

* A Get is several steps: lookup under the read lock, the count of its result
  after the lock is released, the request counter after that, and in a gradual
  window a second pass under the write lock, with anything in between.
* A gradual window has three sources of truth for a key (active policy, source,
  queue), and the shadow pass of every Add overwrites the source's real value
  with a zero value.
* A switch changes capacity, contents, the active policy and the old one's
  values, in an order on which callers' answers depend.
* Counters are reset and folded into totals while Gets are in flight.
* Replicas meet in buckets of the store's clock; claims, counters and decisions
  expire; calls fail before or after taking effect; caches are resized during a
  round; replicas restart.
* The LFU's `minFreq` and the random policy's index are caches of other state; an
  expired TTL entry still holds a slot; an adapted cache whose rebuild fails goes
  on with an instance built for another size.
* Close waits for a goroutine that may be waiting for a lock, and other calls of
  Close overlap with the one that waits; an epoch holds the cache's lock while it takes the bandit's; a store may be away when any of this
  happens.

`PROJECT.json` lists each hazard at its line, with the property that watches it.

## Modules and their code

| Module | Models | Uses |
|---|---|---|
| `PolicyOps` | what Add, Remove, Purge and Resize do to a policy's contents, whoever it evicts | |
| `PolicyContract` | abstract specification: one policy as its user sees it | `PolicyOps` |
| `AdaptiveCache` | cache, migration, epochs, switching, advice | `PolicyOps`; instantiates `PolicyContract` |
| `AdaptiveCacheProofs` | theorems about it: types, values, counts; roles, capacities, windows, switches, evidence | `AdaptiveCache`, `PolicyLemmas` |
| `PolicyParams`, `TTLParams` | constants common to the policies below, and those of the TTL policy | `PolicyOps` |
| `KeyQueue` | the queues of keys inside hashicorp's caches | `PolicyOps` |
| `LFU` | `lfu/simplelfu`, its lists and the `lfu` wrapper | `PolicyParams`; implements `PolicyContract` |
| `RandomCache` | `policies/random.go` | `PolicyParams`; implements `PolicyContract` |
| `TTLCache` | `policies/ttl.go` over hashicorp's LRU | `TTLParams`, `KeyQueue`; implements `PolicyContract` |
| `AdaptedCache` | `policies/adapt.go` over hashicorp's 2Q | `PolicyParams`, `KeyQueue`; implements `PolicyContract` |
| `BucketStore` | the store's calls, as functions of its contents | |
| `Fleet` | replicas of the distributed bandit around one store | `BucketStore` |
| `Lifecycle` | goroutines, locks and Close of one cache and its bandit | |
| `LFUProofs`, `RandomCacheProofs`, `TTLCacheProofs`, `AdaptedCacheProofs` | theorems about the four policies | the policy, `PolicyLemmas` |
| `FleetProofs` | theorems about the fleet, and the sums they need | `Fleet` |
| `LifecycleProofs` | theorems about locks and Close | `Lifecycle` |
| `PolicyLemmas` | lemmas about the operators of `PolicyOps` and `KeyQueue`, and induction on naturals | `KeyQueue` |
| `MCAdaptiveCache`, `MCFleet`, `MCLifecycle` | model values and symmetry sets for TLC | the module they are named after |
| `MCPolicies` | the four policies side by side, one of them driven per behaviour | extends `LFU`, instantiates the other three |

A definition whose comment starts with `Fault:` is a deliberately wrong form of
the definition after it. Nothing uses it; `PROJECT.json` lists it as a mutant,
and putting it in place of the right form makes TLC report the property it is
listed for. Each checked property has one.

### AdaptiveCache

One action is one critical section of the RWMutex, or one atomic operation
outside it. `Add`, `Remove`, `Purge`, `Resize` and an epoch (`Tick` on the
ticker's goroutine, `RequestEpoch` on a Get's) are one action each. A Get is a
little state machine per goroutine (`pc`): `GetFast`, then `RecordSample` for a
sampled key, then `CountRequest`, and for the Get that reaches the limit
`SubtractLimit` and `RequestEpoch`; or `GetBlocked` and `GetSlow` in a window.

`GetFast` is one action although several Gets hold the read lock at once. That
loses nothing: under the read lock nothing but lookups happens, they do not
change contents, counters are atomic, and writers are kept out.

A policy is a record `[data, cap, stats]`. Which entry a policy evicts is left
open, so operations that may evict yield sets of outcomes, and every property
holds for LRU, LFU, random and any other order. An arm in `Lossy` may also turn
a newcomer away or drop an entry at any time (TTL expiry, W-TinyLFU). The
bandit is the caller's code and may answer anything, `Undefined` standing for a
policy the cache does not hold. The order of the gradual queue is the source's
`Keys()` order, so any queued key may be next.

Sampling: the hash of keys is the constant set `Sampled`; rates are exact
fractions. The code computes with floats, and `ceil(0.07 * 100)` is 8 there: a
miniature can be one entry larger than in the model. A hit-rate comparison is
cross-multiplied.

Resize validates nothing, so sizes from 0 are considered: a policy of capacity 0
holds nothing. Negative sizes, which policies treat each in its own way, are not.

An epoch writes `epochStats` and `allowSwitchLocked` then reads it, in one critical
section; `AllowSwitch` is given the value `ReportStats` leaves there. An epoch that is
skipped (`EpochSkipped`) clears it and keeps the active policy, and the arms'
counters go on: evidence adds up from report to report.

`Advice()` returns what each policy measured in its present role (`Measured`);
sorting the reports and naming the best is left out.

Ghost variables: `latest` (last value added per key), `served` (what callers
were told), `carried` (Gets between lookup and count at the last report), `duty`
(what each policy answered to sampled Gets since it took its role). A switch ends
the duty of both policies. A Get that was looked up before a switch and is counted
after it goes to the new active policy's account, as `recordActiveSample` runs
outside the lock and reads no policy; `duty` says so explicitly.

### The policies: LFU, RandomCache, TTLCache, AdaptedCache

Each action is one method with the policy's lock held, and each module is shown
to implement `PolicyContract`. `Rejects` lets an Add turn its own entry away and
`Lossy` lets entries go at any time; they are set per policy. Since refinement
allows stuttering, and so an Add that does nothing, other properties say what
the operations return and report.

LFU: the doubly linked lists are sequences, the map of buckets a function from
frequencies; `called` holds what the callback is told after the unlock.

RandomCache: `items`, `keys` and `index` as in the code; the victim is any slot.

TTLCache: what callers see (`Live`, `KeysResult`, `LenResult`) is derived from
the LRU and the clock, and it is this view that implements the contract. The LRU
underneath keeps expired entries and is external.

AdaptedCache: 2Q is external, modelled from the library's documented behaviour
because the wrapper's results depend on it: which sizes it can be built for
(its ghost queue must hold one key), that Keys() lists the frequent queue first,
and that a key it remembers as a ghost is stored as frequent. `Resize` to a size
2Q rejects keeps the old instance, and from then on `EnforceCapacity` does the
work.

### BucketStore and Fleet

`BucketStore` gives each call as a function from the store's contents to the new
contents; a call is atomic (MemStore's mutex, Redis' scripts). Redis reads a
window in a pipeline, which is not atomic; it is one step here too, because the
buckets it reads are closed (`ReadsAreFinal` says that nothing is added to them
any more). Entries expire by the store's clock. The unit of time is the millisecond
in which the stores number their buckets, and an epoch is a whole number of them:
truncating a shorter one to 0 and clamping it to 1 is not modelled. `Fleet` gives every replica the state of `Distributed` and a
coordination round with one action per round trip: `StartSync` (drain), `SyncOk`,
`ReadWindow`, `Decide`, `ApplyResult`, and a failure action beside each,
including `SyncReplyLost` and the second disjunct of `DecideFails`, in which the
store acted and the replica does not know. Between those actions the cache
reports, others run rounds, and the clock moves. `Restart` loses all a replica
has in memory.

`Kind` says which store it is. The two differ in what a count of zero does (the
Redis client drops it, MemStore creates an entry that reads back as evidence)
and in the instant of expiry.

Abstractions: counts are numbers of Gets per arm and role, hits and misses
together, and an arm in the buffer may have measured none; the Thompson draw is
any arm with pooled counts; a namespace is a regime (capacity), as if the
hash were injective; all replicas have the same arms and coordination epoch;
the replica's clock runs at the rate of the store's; a timer may fire any time
after the shortest jittered interval; `SyncTimeout` is any positive time, as in the
configuration. A call after the timeout can only fail, and a failure
takes one of `MaxFaults`. A round keeps what Sync told it (`told`), and a leader
whose Window or Decide fails goes on to applyResult with that.

### Lifecycle

Who waits for whom. A goroutine is its program counter: callers, the ticker of
`runAdaptiveSelect`, the coordination goroutine and goroutines that call Close.
What operations compute is left to the other modules; here an operation is the
locks it takes, the calls it makes and the branches between them. The cache's
lock is a `sync.RWMutex`: a writer that waits (`Announce`) holds back new readers,
which go in when it unlocks. The bandit's is a `sync.Mutex`, taken in a step of
its own (`LockBandit`). Policies' own locks, and the local Thompson bandit's, are
leaves taken and released within one of these steps.

Close is made of what it is made of in the code. The Once of each object is its
done flag and the mutex its function runs under: `CloseOnce` gets the mutex and
cancels the context, `CloseQueues` is a call that finds the mutex taken and waits
for it, `CloseAgain` one that finds the Once done. The WaitGroup is a counter that
the goroutine's deferred Done takes to zero when its select picks the cancelled
context (`Stop`), and `CloseReturns` is wg.Wait returning, with which the Once is
done. That an overlapping Close does not return early is therefore a conclusion:
in the fault `CloseOnceIsAFlag` the Once sets its flag before it runs the function,
and it does return early.

A call of the store returns
(`CallOk`) or fails (`CallFails`: the store is away until `SyncTimeout`, or Close
cancelled the context). `stale` abstracts the clock: whether `FallbackAfter` has
passed since the last sync, TRUE for a replica that never synced.

## Runs

`tlc -config <run>.cfg <MC module>` with the module of `PROJECT.json`.

| Run | Shows | Bounds | Distinct states |
|---|---|---|---|
| `migration` | callers read the last value written or miss; shadows hold no values and no unsampled keys; a key that may still be promoted is current; a window is gone after one epoch; with Resize at any moment each policy has the capacity of its role | warm and gradual; 2 policies of sizes 3 and 2 (one lossy), miniatures of half the size, 3 keys, 2 values, Resize to 0, 1 and 3, 1 Get, 3 epochs | 353,101 (up to symmetry) |
| `evidence` | Stats() counts every answer once; no sampled Get is lost or counted twice; a switch rests on evidence gathered since the last report; Advice shows exactly what each policy measured in its present role; types | 2 goroutines, 4 Gets, request epochs of 2 and 2 ticker epochs, all stability gates on | 910,783 |
| `observe` | in ObserveOnly mode the cache implements `PolicyContract` of its first policy | 3 keys, Resize, gradual | 9,856 |
| `policies` | LFU: buckets and minFreq describe the entries, evictions follow Keys() and are all reported. Random: slots, index and map agree, results are true. TTL: an entry is visible for exactly its lifetime. Adapted 2Q: inferred reports are true while the last rebuild succeeded. All four implement the contract | 3 keys, 2 values, sizes 0 to 3, LFU frequencies up to 3, lifetimes 0 (none) and 2, 5 ticks | 30,698 |
| `fleet` | one leader and one decision per bucket; decisions rest on complete, final windows that hold evidence; fallback only when no round was completed for `FallbackAfter` | leader mode, Redis, 2 replicas, buckets of 3 ticks, jitter 1, 6 ticks, reports of 0 or 1 Get, 1 fault | 1,415,667 |
| `shared` | replicas that draw for a bucket have read the same final evidence; a report counts at most once and only in its own regime | shared-posterior mode, MemStore, shadow evidence, 2 replicas, 2 capacities, buckets of 3 ticks, 4 ticks, 1 fault | 1,725,349 |
| `lifecycle` | every call of the cache, every epoch and every Close ends; no Close returns before the goroutine it stops; locks are held only inside operations that need them, and an epoch that reports to the bandit has the cache to itself; an outage ends in fallback, recovery ends it | 1 caller, ticker, coordination goroutine, 2 goroutines closing the cache and 1 the bandit, no other bound | 63,156 |
| `request_clock`, `adapted_add`, `last_error`, `next_sync`, `idle_fleet` | expected violations, below | | |

Why the bounds are enough to be interesting. Three keys with capacities
3 and 2, miniatures of 2 and 1, and a Resize to 1 or 0 make every kind of eviction,
including that of a key waiting in the window, and leave one key outside the sample. Three epochs allow a switch
into a window, its forced closing, and a switch back. Capacities of different
size make a switch change capacity both ways. With request epochs of 2 and two
goroutines, both clocks can run an epoch at one boundary, and Gets straddle
reports. In the fleet, 6 ticks of 3-tick buckets, a jitter of 1 and a window of 1
give a bucket with evidence, two rounds of one replica inside one bucket, a bucket
decided on that evidence, and a leader slow enough to be
overtaken; a two-replica fleet has the leader/follower pair all agreement
properties are about; one fault reaches every failure path alone. `SyncTimeout` is
an epoch there, its default; that a longer one can make a reader find expired
buckets (the last disjunct of `ReadsAreFinal`) takes a clock of 11 ticks and a
timeout of 6, and is left to the proof. Among the
policies, three keys and sizes 0 to 3 make every method meet an empty, a full
and a resized cache, 1 is a size 2Q cannot be built for,
and 5 ticks are enough for an entry to be stored, overwritten, read and to
expire while it still holds a slot. `Lifecycle` has no counters: with one caller
the writers that compete for the cache's lock are caller and ticker, and two
overlapping calls of Close are what its Once is about. The proofs
remove the bounds for every safety property of these runs.

Named bounds: `MaxRequests`, `MaxEpochs`, `MaxFreq`, `MaxTime`, `MaxReports`,
`MaxFaults`. `MaxRequests` and `MaxEpochs` bound Gets and ticker epochs, in
their guards. Deadlock is checked in all runs but the fleet's, where behaviours
end because the bounded clock does. Symmetry is used on values, keys and
replicas that the constants do not distinguish, never with a liveness property.

Fairness. The safety specifications assume none. `Lifecycle!Fairness` assumes:

* weak fairness of what a goroutine can do by itself (`Progress`, `RoundStep`,
  and `CloseGoesOn` for the calls of Close that have begun): the Go scheduler runs
  every runnable goroutine;
* strong fairness of taking a lock (`Waits`): a `sync.Mutex`, which also queues
  the writers of a `sync.RWMutex`, hands over to a waiter that has waited for a
  millisecond, so a lock released again and again is got in the end;
* strong fairness of a select taking a cancelled context (`Stop`): the choice
  among ready cases is random, and the context stays ready. Weak fairness would
  not do, as the select is left and entered again for every tick;
* weak fairness of the ticker, the timer and the clock. A call of the store is
  part of `RoundStep`: it ends by `SyncTimeout` if not by an answer, which the
  `Store` interface demands ("must respect the context").

Nothing makes a caller call, a closer close, or the store come back; the two
properties of fallback and recovery say what follows if the store stays away, or
stays.

## Where code and comments disagree

* **`request_clock`** (`epoch.go:43`). The comment says exactly one caller per
  epoch sees the counter equal to the limit. The increment and the subtraction
  are two atomic operations: `EpochRequests` other Gets counting in between
  leave the counter at the limit after the subtraction, the equality is never
  met again, and request-driven epochs stop. The run shows it with a limit of 2;
  it needs as many Gets in that gap as the limit, so it is a matter of small
  limits and descheduled goroutines.
* **`adapted_add`** (`policies/adapt.go:96`). "Add stores a value, reporting
  whether storing it evicted another entry." After a Resize(1), for which 2Q
  cannot be rebuilt, the wrapper trims the old instance by removing the first of
  Keys(), which is the frequent queue. An Add of a key 2Q remembers as a ghost
  goes to that queue, is removed at once, and reports an eviction.
  `AdaptedIsAPolicy` says what does hold: the capacity is respected in every
  state, and an Add stores its entry as long as the last rebuild succeeded.
* **`last_error`** (`bandit/coordinate.go:84`). `Snapshot.LastError` is "empty if
  the last round trip succeeded"; a failed Window or Decide is recorded and then
  wiped by applyResult in the same round, together with the fallback flag, and
  `lastSync` is refreshed.
* **`next_sync`** (`bandit/coordinate.go:214-217`). A replica that found no
  decision is promised it "on the next sync", but Sync looks up the current
  bucket only. A follower that syncs just behind its leader misses the decision:
  its next sync asks for the next bucket's. The run shows one miss; a follower to
  which it happens in every bucket never sees a decision.
* **`idle_fleet`** (`bandit/memstore.go:113`). "Backing it with a different store
  never changes the selection behaviour." Reports without a single Get are
  buffered and sent. Redis drops zero deltas; MemStore keeps them, aggregate
  pools them, and the leader draws among arms nobody measured. `fleet` shows that
  with Redis a decision always has evidence behind it.

A remark on a comment that is nearly true: `epoch.go:167` says no arm is judged
on more evidence than another. The active policy's sampled result is counted
after the read lock is released (`cache.go:155`), so a report can find the
shadows one Get ahead. `EvidenceBalance` states it exactly: the difference is the
number of Gets in flight, and nothing is lost.

## Proofs

`tlapm <module>.tla` checks the theorems of a module. They hold for every value
of the constants that the assumptions below allow: any number of policies, keys,
goroutines or replicas, any capacities, any bound on time, reports and faults.

| Module | Theorem | Establishes |
|---|---|---|
| `AdaptiveCacheProofs` | `TypeCorrect` | `TypeOK`: fields keep their types; no counter becomes negative |
| | `Freshness` | `ServesLatest`: a Get returns the last value added, or misses |
| | `WindowSafe` | `PendingKeysAreCurrent`: promotion cannot overwrite or revive anything |
| | `StatsExact` | `StatsAreCumulative`: Stats() equals what callers were told |
| | `ShadowsAreBlank` | `ShadowsHoldNoValues`: shadows hold zero values of sampled keys only |
| | `CapacitiesFit` | `CapacityFollowsRole`: full or miniature capacity by role, never exceeded |
| | `WindowsClose` | `WindowIsShort`: a window is open only while a key is eligible, for one epoch |
| | `EvidenceIsBalanced` | `EvidenceBalance`: shadows and active policy are judged on the same Gets |
| | `SwitchesAreEarned` | `SwitchOnFreshEvidence`: margin, evidence since the last report, cooldown |
| | `AdviceMeasuresTheRole` | `AdviceIsOfThisRole`: Advice shows what a policy answered in its present role, no more and no less |
| | `ObserveOnlyRefines` | `ObserveOnlyIsSinglePolicy`: refinement of `PolicyContract` when `ObserveOnly` |
| `FleetProofs` | `OneLeader` | `OneLeaderPerBucket` |
| | `FleetFollowsOneDecision` | `FleetAgrees`: one decision per bucket |
| | `FallbacksAreEarned` | `FallbackIsEarned`: alone only when no round was completed for `FallbackAfter` |
| | `EvidenceIsFinal` | `ReadsAreFinal`: what was read is all the store ever took; for a `SyncTimeout` beyond an epoch, or an expired bucket as nothing |
| | `DrawsAreEarned` | `DecidesOnEvidence`, for `Kind = "redis"` (`idle_fleet` shows it false of MemStore) |
| | `ReportsCountOnce` | `EvidenceCountsOnce`: no report counts twice |
| `LifecycleProofs` | `ClosedMeansStopped` | `StoppedWhenClosed`: no Close, overlapping or later, returns before the goroutine has stopped |
| | `LocksFollowOperations` | `LocksAreOwned`: no lock outlives its operation, and a reporting epoch has the cache to itself |
| `RandomCacheProofs` | `SlotsStayMatched` | `SlotsMatchEntries`: map, slots and index agree |
| | `ReportsAreTrue` | `ResultsAreTrue`: operations report what left |
| | `RandomRefinesContract` | `RandomIsAPolicy`: refinement of `PolicyContract` |
| `LFUProofs` | `BucketsStayMatched` | `BucketsMatchEntries`: buckets and minFreq describe the entries |
| | `CallbacksAreExact` | `ReportsWhatLeft`: callbacks are made for what left, then and there |
| | `KeysOrderIsKept` | `EvictsInKeysOrder`: evictions take the beginning of Keys(), however many they are |
| | `LFURefinesContract` | `LFUIsAPolicy`: refinement of `PolicyContract` |
| `TTLCacheProofs` | `ServedForItsLifetime` | `ExpiresOnTime`: an entry is visible for exactly its lifetime |
| | `TTLRefinesContract` | `TTLIsAPolicy`: refinement of `PolicyContract`; Peek, Keys and Len agree |
| `AdaptedCacheProofs` | `InferencesAreTrue` | `ReportsAreInferred`: what the wrapper infers is what left the cache |
| | `AdaptedRefinesContract` | `AdaptedIsAPolicy`: refinement of `PolicyContract`, and Add stores its entry while in step |

The theorems about `RandomCache`, `TTLCache` and `AdaptedCache` are about the
definitions of those modules; the run `policies` checks the same ones through the
instances `R`, `T` and `A` of `MCPolicies`.

### Assumptions

TLC evaluates all of them in the runs.

* `AdaptiveCache`: `PolicyAssumption` (the first arm is an arm, goroutines are
  finitely many), `ValueAssumption` (the zero value and "no entry" are not values
  callers store), `SettingsAssumption` (what `Settings` validation enforces;
  sizes for Resize are naturals, 0 included; capacities have a least element), `ClockAssumption` (some clock ends epochs),
  `SamplerAssumption` (rate 1 admits every key).
* `Fleet`: `FleetAssumption` (what the bandit's configuration enforces; finitely
  many replicas). `SyncTimeout` may be longer than a coordination epoch, which the
  configuration accepts.
* `Lifecycle`: `GoroutineAssumption` and `CloseAssumption` (goroutines are
  distinct and every closer closes one thing).
* Policies: `ParamsAssumption` (a positive initial size, sizes from 0, and "no
  entry" is neither key nor value). Sets of keys may be infinite: that a cache
  holds finitely many is part of the invariants. `FreqAssumption` makes the bound
  `MaxFreq` a natural; `TTLAssumption` makes lifetimes integers, since `NewTTLCache`
  accepts any, and one of zero or less means that nothing expires.

The named bounds (`MaxRequests`, `MaxTime`, ...) are arbitrary naturals.

### Inductive invariants

`AdaptiveCacheProofs`:

    Inv == TypeOK /\ Good(activePolicy, arms, migration, latest)
                  /\ StatsAreCumulative /\ WaitingHasKey

`ServesLatest` alone is not inductive: a promotion copies from the source, so
the source must be current for keys still eligible, and the key must be absent
from the active policy, or an older copy would replace a newer one. `Good` joins
the two, with the fact that an open window has a source other than the active
policy. It takes the state as arguments, because an Add or a slow Get goes
through intermediate states (shadow pass, drain, closing) inside one action: the
lemmas `CloseLeads`, `PromoteLeads`, `DrainLeads`, `MigrateOnAddLeads`,
`MigrateOnRemoveLeads` and `SwitchFacts` show that each such step leads from
good to good, and each action's lemma (`AddInv`, `GetSlowInv`, `EpochInv`, ...)
chains them. `WaitingHasKey` says a Get waiting for the write lock has a key.

In its second half, `RolesInv` adds to `Inv` that every policy plays its role
(`Stage`: the active policy and a window's source have full capacity, all others
are blank miniatures, and nobody exceeds its capacity), that an open window is
that of the switch one epoch ago and has work left, that what the active policy has
sampled plus the Gets in flight covers what the last report carried over, and
`AdviceIsOfThisRole`. `ShadowsHoldNoValues` needs the
capacities because a demotion purges and shrinks in one go; `EvidenceBalance`
needs the part about Gets in flight so that its subtraction stays in the naturals.
`Sized` says that a policy's miniature has capacity 0 exactly when its full size is 0.
`AdviceIsOfThisRole` is an account per policy: reported plus not yet reported plus
in flight. Each action moves an amount within it (a report: `AdviceReported`), adds
the same to both sides (a Get: `AdviceCounts`), or leaves it (`AdviceKept`); a switch
starts both policies' accounts again. The source of a gradual window is the
exception, for which only "at most" holds: it counts Gets as a shadow while it is
drained, and its demotion drops those counts.

`FleetProofs`:

    FleetInv == TypeInv /\ Claimed /\ OneVoice /\ ReadsUndecided /\ FallbackIsEarned
                /\ Kept /\ BucketKnown /\ WindowIsPast /\ ReadsAreFinal
                /\ PositiveCounts /\ DrawsOnEvidence

Agreement rests on a chain: a bucket is won once, and the claim stands in the
store until the bucket is over (`Claimed`); who leads it is alone, and nothing is
stored, carried or applied for that bucket before it decides; afterwards all that
is stored, carried and applied is one decision (`OneVoice`). Finality rests on time: counters of a
bucket stand, whole, until the window they belong to is two epochs old (`Kept`),
and a round reads buckets before its own, which the store's clock has left
(`WindowIsPast`, `BucketKnown`). A round that started in a bucket and ends within
`SyncTimeout` of an epoch or less is over by then; a longer one need not be. `ReportsCountOnce` has an invariant of its own, `Accounted`: what
the store published of an arm plus what replicas still hold, buffered or being
sent, is at most what was reported. It is a sum over replicas; the first
lemmas of the module supply sums over a finite set by way of a numbering.

`LifecycleProofs`: `LifeInv == PlacesOK /\ LocksOK /\ LocksAreOwned /\ CloseOK`. The
program counter determines the locks held. `CloseOK` is what makes
`StoppedWhenClosed` inductive: a WaitGroup's counter is 0 exactly when its goroutine
has stopped, a Once is done only when that counter is 0, and a call has returned
only from a Once that is done. A stopped goroutine holds no lock by `LocksAreOwned`.

`RandomCacheProofs` and `LFUProofs`: `Sound(c)` says what the structures are (for
the LFU: `Linked`, each bucket holds exactly the keys of its frequency, once, and
is not empty, and `minFreq` is the least), and the invariant adds that the buffer
is empty and the capacity respected. `Sound` takes the state as an argument, as
operations pass through several states: room is made, then the entry goes in; a
Resize evicts round after round. For the last, `EvictsExist` and `EvictManySheds`
(`EvictionsShrink`) show by induction that the recursive function of the model
exists and what it yields after n rounds. `KeysOrderIsKept` adds that frequencies
stay within the bound of the model (`Capped`) and rests on `KeysBegin`: what Keys()
lists is the entry evictOldest takes, followed by what it lists once that is gone.

`TTLCacheProofs`: `TTLInv` says that the order of the LRU lists its entries, each
once (`Sound`), that they are at most `size`, and that every deadline is the one the
ghost `stored` and the lifetime give (`Dated`). Without the last, `ExpiresOnTime`
would not follow, as the code compares the clock with the deadline only; it also
gives `Len()` its shortcut, since without a lifetime no entry has a deadline. The
refinement goes through what callers see: an Add may evict entries that had
already expired, and then the visible contents lose fewer entries than the LRU.

`AdaptedCacheProofs`: `AdaptedInv` says that the three queues of 2Q list disjoint
sets of keys, that recent and frequent keys together are the residents and that no
resident is a ghost (`Sound`); that the instance in use is one that can be built
and has room for the configured size (`size <= cache.cap`), which holds because the
sizes 2Q rejects are smaller than those it accepts; and that at most `size` entries
are held. Disjointness is needed because keys move between the queues: without it
an eviction could list a ghost twice, and the queues' lengths would not count the
residents, which is what the wrapper infers evictions from. Recursive functions are
run through by induction: `EnforceCapacity` (each round removes one resident until
the size is reached), the replay of `Resize` (after j rounds the new instance holds
at most the first j keys, with their values, as many as fit), and, for both caches,
`Among` of `KeyQueue`: of a queue that lists a set it lists the members wanted.

### Only model-checked

* Liveness: `CallsReturn`, `CloseEnds`, `OutageEndsInFallback`,
  `RecoveryEndsFallback`. Fairness and `ENABLED` are out of the prover's reach.
* The five expected violations, which are counterexamples.

Every safety property that a passing run checks is the subject of a theorem.

Induction is done with sets of naturals (`NatSetInduction`): the
library's induction theorems take operators, which the backends cannot
instantiate. Recursive functions are handled through it, `RECURSIVE` operators
cannot be, and no module uses them.

## What is not modelled

* ARC and W-TinyLFU. ARC is hashicorp's cache in the same `AdaptedCache` wrapper.
  otter evicts on its own schedule, may hold more than its maximum for a while
  and has an approximate `Len`, so there is no state for a contract to be about;
  in `AdaptiveCache` a lossy arm stands for it.
* Whether the capacity gate (`Len` equal to `Cap`) ever opens for a TTL arm: its
  `Len` counts unexpired entries only, so that depends on traffic against
  lifetime.
* Floating-point arithmetic: rates, weights of a window, posterior sampling.
* Key hashing (`sampling.go`), regime hashing, key layout and parsing of replies
  in `bandit/redis`. The coordination epoch is not part of the fingerprint, so
  replicas configured with different epochs share a namespace and number its
  buckets differently; the model has one epoch for all.
* The branch of applyResult that rejects a decision naming an unknown policy,
  which cannot be taken when all replicas have the same arms; the snapshot's
  counters; `RecordStats`, which the cache never calls.
* Policies given to NewAdaptiveCache with entries already in them.
* Metrics, benchmarks, load client, examples and site: no state that matters.

## Plan

Done: all modules above; proofs of every safety property that the runs check, the
refinements included; liveness of locks, Close, fallback and recovery by model
checking.

Left for modelling, if it is worth it: window aggregation (decay and caps) as
rational arithmetic against a reference definition; replicas with different arms
or coordination epochs, and with them the rejected decisions of applyResult.
