---------------------------- MODULE AdaptiveCache ----------------------------
(***************************************************************************)
(* The adaptive cache (cache.go, epoch.go, migration.go, shadow.go,        *)
(* stability.go, advice.go): several eviction policies, one of them active *)
(* and serving real values, the others shadows fed zero values for the     *)
(* sampled keys, a bandit that picks the next active policy at the end of  *)
(* an epoch, and the cold, warm or gradual migration a switch performs.    *)
(*                                                                         *)
(* One action is one critical section of the RWMutex or one atomic         *)
(* operation outside it.  A Get is therefore several actions of its        *)
(* goroutine; Add, Remove, Purge, Resize and an epoch are one action each. *)
(*                                                                         *)
(* A definition whose comment starts with "Fault:" is a deliberately wrong *)
(* form of the definition after it, a mistake the code could contain.      *)
(* Nothing uses it; it is there to show that a property would notice.      *)
(***************************************************************************)
EXTENDS PolicyOps

CONSTANTS
  Policies,              \* the arms the cache was built with
  First,                 \* the arm that is active at construction
  Undefined,             \* the PolicyType that names no arm
  Values,                \* the real values callers store
  Zero,                  \* the zero value shadows are fed
  Sampled,               \* the keys the sampler admits
  Lossy,                 \* arms that may drop an entry unasked (TTL, W-TinyLFU)
  Threads,               \* goroutines calling Get
  InitialCap,            \* Cap() of every arm as the caller built it
  RateNum, RateDen,      \* ShadowSampleRate as a fraction
  MinShadowCapacity,     \* floor on a miniature's capacity
  Sizes,                 \* arguments of Resize
  Strategies,            \* values Settings.MigrationStrategy may have
  ObserveOnly,           \* Settings.ObserveOnly
  EvictPartial,          \* Settings.EvictPartialCapacityFilling
  HasTicker,             \* Settings.EpochDuration > 0
  EpochRequests,         \* Settings.EpochRequests (0 = off)
  SwitchCooldownEpochs,  \* Settings.SwitchCooldownEpochs (0 = off)
  MinEpochRequests,      \* Settings.MinEpochRequests (0 = off)
  MinImprovement,        \* Settings.MinHitRateImprovement, in percent (0 = off)
  MaxRequests,           \* bound: Gets served in one behaviour
  MaxEpochs              \* bound: epochs the ticker starts in one behaviour

ASSUME PolicyAssumption ==
  /\ First \in Policies /\ Undefined \notin Policies
  /\ Lossy \subseteq Policies
  /\ IsFiniteSet(Threads)

ASSUME ValueAssumption ==
  /\ None \notin Values /\ Zero \notin Values /\ Zero # None
  /\ Sampled \subseteq Keys /\ None \notin Keys

ASSUME SettingsAssumption ==
  /\ InitialCap \in [Policies -> Nat \ {0}]
  /\ Sizes \subseteq Nat
  /\ RateNum \in Nat \ {0} /\ RateDen \in Nat \ {0} /\ RateNum <= RateDen
  /\ MinShadowCapacity \in Nat \ {0}
  /\ Strategies \subseteq {"cold", "warm", "gradual"}
  /\ ObserveOnly \in BOOLEAN /\ EvictPartial \in BOOLEAN
  /\ HasTicker \in BOOLEAN
  /\ EpochRequests \in Nat /\ SwitchCooldownEpochs \in Nat
  /\ MinEpochRequests \in Nat /\ MinImprovement \in Nat
  /\ MaxRequests \in Nat /\ MaxEpochs \in Nat

\* NewAdaptiveCache refuses a cache whose epochs nothing ends.
ASSUME ClockAssumption == HasTicker \/ EpochRequests > 0

VARIABLES
  strategy,         \* Settings.MigrationStrategy, fixed at construction
  activePolicy,     \* the arm serving requests
  arms,             \* per arm: its contents, its capacity, its counters
  nominalCap,       \* full capacity of every arm
  shadowCap,        \* miniature capacity of every arm
  migration,        \* the gradual window: migrating, from, keys, realKeys
  activeSampled,    \* activeSampledHits and activeSampledMisses
  globalStats,      \* counts folded up to the last reporting epoch
  epochStats,       \* per arm, what the last report covered, or NoStats
  tenureStats,      \* per arm, what it measured in its current role, or NoStats
  reportingEpochs,  \* epochs that reported
  lastSwitchEpoch,  \* epoch of the last switch
  epochID,          \* epochs run
  epochRequests,    \* Gets counted since the last request-driven epoch
  pc,               \* per goroutine: where its Get is
  want,             \* per goroutine: the key of a Get waiting for the lock
  latest,           \* ghost: the value last Added per key and not removed since
  served,           \* ghost: hits and misses returned to callers
  carried,          \* ghost: Gets between lookup and count at the last report
  duty              \* ghost: per arm, what it answered in its current role

armVars     == <<activePolicy, arms, nominalCap, shadowCap, migration>>
statVars    == <<activeSampled, globalStats, epochStats, tenureStats,
                 reportingEpochs, carried>>
epochVars   == <<lastSwitchEpoch, epochID>>
threadVars  == <<epochRequests, pc, want>>
vars        == <<strategy, armVars, statVars, epochVars, threadVars, latest, served,
                 duty>>

----------------------------------------------------------------------------
(* The state's shape *)

Stats == [hits : Nat, misses : Nat]

\* One policy: its contents, Cap() and the counters of its CacheWrapper.
Arms == [data : [Keys -> Values \cup {Zero, None}], cap : Nat, stats : Stats]

\* The gradual window: migrating, migrateFrom, migrationKeys, migrationRealKeys.
Windows ==
  [migrating : BOOLEAN, from : Policies \cup {Undefined},
   keys : SUBSET Keys, realKeys : SUBSET Keys]

----------------------------------------------------------------------------
(* Counters *)

NoCount  == [hits |-> 0, misses |-> 0]
NoStats  == [hits |-> -1, misses |-> -1]
Total(s) == s.hits + s.misses

\* One more hit or miss.
Counted(s, hit) ==
  [hits   |-> IF hit THEN s.hits + 1 ELSE s.hits,
   misses |-> IF hit THEN s.misses ELSE s.misses + 1]

Plus(s, t) == [hits |-> s.hits + t.hits, misses |-> s.misses + t.misses]

----------------------------------------------------------------------------
(* Capacities of shadows *)

\* ceil(num * n / den)
CeilScale(n, num, den) == (num * n + den - 1) \div den

\* scaledCapacity: the miniature that goes with a cache of size n at the rate
\* num/den, with no floor.
ScaledCapacity(n, num, den) ==
  IF n <= 0 \/ num >= den THEN n
  ELSE LET c == CeilScale(n, num, den)
       IN  IF c < 1 THEN 1 ELSE IF c > n THEN n ELSE c

\* shadowCapacity: the same with the floor MinShadowCapacity.
ShadowCapacity(n, num, den) ==
  IF n <= 0 \/ num >= den THEN n
  ELSE LET c == CeilScale(n, num, den)
           floored == IF c < MinShadowCapacity THEN MinShadowCapacity ELSE c
       IN  IF floored >= n THEN n ELSE floored

\* The smallest nominal capacity, from which one rate is derived for all arms.
MinNominal ==
  CHOOSE n \in {InitialCap[p] : p \in Policies} :
    \A p \in Policies : n <= InitialCap[p]

\* The effective sampling rate <<num, den>>: raised when the smallest miniature
\* would fall below the floor, and 1 when that makes it full size.
EffectiveRate ==
  LET c == CeilScale(MinNominal, RateNum, RateDen)
  IN  IF \/ RateNum >= RateDen
         \/ (IF c < MinShadowCapacity THEN MinShadowCapacity ELSE c) >= MinNominal
      THEN <<1, 1>>
      ELSE IF c < MinShadowCapacity
           THEN <<MinShadowCapacity, MinNominal>>
           ELSE <<RateNum, RateDen>>

\* A sampler at rate 1 admits every key.
ASSUME SamplerAssumption == EffectiveRate = <<1, 1>> => Sampled = Keys

----------------------------------------------------------------------------
(* Operations on arms.  An arm is [data, cap, stats]; s is a function from  *)
(* arms' names to arms; operations with eviction yield sets of outcomes.    *)

\* The arms s with a in the place of arm p.
Put(s, p, a) == [q \in Policies |-> IF q = p THEN a ELSE s[q]]

\* CacheWrapper.Get: count the result; the contents do not change.
Lookup(a, k) == [a EXCEPT !.stats = Counted(@, a.data[k] # None)]

\* Policy.Add on arm p.  A policy of capacity 0 holds nothing.
Adds(p, a, k, v) ==
  IF a.cap = 0 THEN {[a EXCEPT !.data = Empty]}
  ELSE {[a EXCEPT !.data = d] :
          d \in AddOutcomes(a.data, a.cap, k, v, p \in Lossy)}

\* CacheWrapper.Resize.
Resizes(a, n) ==
  {[a EXCEPT !.data = d, !.cap = n] : d \in ResizeOutcomes(a.data, n)}

\* Every way to pick one outcome per arm.
Choices(Outcomes(_)) ==
  {s \in [Policies -> UNION {Outcomes(p) : p \in Policies}] :
     \A p \in Policies : s[p] \in Outcomes(p)}

\* Fault: the shadow pass ignores the sample.
ShadowGetsUnsampled(k) ==
  [p \in Policies |-> IF p # activePolicy THEN Lookup(arms[p], k) ELSE arms[p]]

\* The shadow pass of a Get: every arm but the active one, sampled keys only.
ShadowGets(k) ==
  [p \in Policies |-> IF p # activePolicy /\ k \in Sampled
                      THEN Lookup(arms[p], k) ELSE arms[p]]

\* The shadow pass of an Add: the same arms, the zero value.
ShadowAdds(k) ==
  LET Outcomes(p) == IF p # activePolicy /\ k \in Sampled
                     THEN Adds(p, arms[p], k, Zero) ELSE {arms[p]}
  IN  Choices(Outcomes)

\* Fault: keys outside the sample stay behind.
DemotedUnfiltered(p, a) ==
  LET zeroed == [k \in Keys |-> IF a.data[k] # None THEN Zero ELSE None]
  IN  Resizes([a EXCEPT !.data = zeroed, !.stats = NoCount], shadowCap[p])

\* demoteLocked: values are dropped, unsampled keys too, the arm shrinks to its
\* miniature capacity and forgets its counters.
Demoted(p, a) ==
  LET zeroed == [k \in Keys |-> IF a.data[k] # None /\ k \in Sampled
                                THEN Zero ELSE None]
      blank  == [a EXCEPT !.data = zeroed, !.stats = NoCount]
  IN  IF shadowCap[p] > 0 THEN Resizes(blank, shadowCap[p]) ELSE {blank}

----------------------------------------------------------------------------
(* The gradual migration window.  Its operations take the arms s and the    *)
(* window m and yield the set of possible [arms, migration] afterwards.     *)

\* clearMigrationState.
NoMigration ==
  [migrating |-> FALSE, from |-> Undefined, keys |-> {}, realKeys |-> {}]

After(s, m) == [arms |-> s, migration |-> m]

\* closeMigrationLocked: clear the window and demote its source.
CloseMigration(s, m) ==
  IF m.migrating /\ m.from # Undefined /\ m.from # activePolicy
  THEN {After(Put(s, m.from, d), NoMigration) :
          d \in Demoted(m.from, s[m.from])}
  ELSE {After(s, NoMigration)}

\* Copy key k from the window's source into the active arm.
Transfers(s, m, k) ==
  {Put(s, activePolicy, a) :
     a \in Adds(activePolicy, s[activePolicy], k, s[m.from].data[k])}

\* Keep the window open while some key is still eligible.
KeepOrClose(s, m) ==
  IF m.realKeys = {} THEN CloseMigration(s, m) ELSE {After(s, m)}

\* promoteLocked: move k into the active arm if it is still eligible and the
\* source still holds it.
PromoteKey(s, m, k) ==
  LET moved == IF k \in m.realKeys /\ s[m.from].data[k] # None
               THEN Transfers(s, m, k) ELSE {s}
  IN  UNION {KeepOrClose(t, [m EXCEPT !.realKeys = @ \ {k}]) : t \in moved}

\* The eligible keys of the queue that the source still holds.
LiveKeys(s, m) == {k \in m.keys \cap m.realKeys : s[m.from].data[k] # None}

\* drainOneKey's last round: the keys of popped have left the queue, k the last
\* of them, and k moves.
DrainKey(s, m, k, popped) ==
  UNION {KeepOrClose(t, [m EXCEPT !.keys = @ \ popped, !.realKeys = @ \ popped]) :
           t \in Transfers(s, m, k)}

\* drainOneKey: pop queued keys until one that is eligible and still in the
\* source has been moved.  The queue's order is the source's Keys() order, so
\* any pending key may come next; the keys popped before it were ineligible or
\* gone.  A queue with no such key empties and closes the window.
DrainOneKey(s, m) ==
  LET live == LiveKeys(s, m)
  IN  IF live = {}
      THEN CloseMigration(s, m)
      ELSE UNION {UNION {DrainKey(s, m, k, skipped \cup {k}) :
                           skipped \in SUBSET (m.keys \ live)} : k \in live}

\* Fault: the key being written stays eligible.
MigrateOnAddStale(s, m, k) ==
  IF ~m.migrating THEN {After(s, m)} ELSE DrainOneKey(s, m)

\* The window's part of Add: the key written is no longer eligible, and one
\* more pending key moves.
MigrateOnAdd(s, m, k) ==
  LET left == [m EXCEPT !.realKeys = @ \ {k}]
  IN  IF ~m.migrating THEN {After(s, m)}
      ELSE IF left.realKeys = {} THEN CloseMigration(s, left)
      ELSE DrainOneKey(s, left)

\* The window's part of Remove.
MigrateOnRemove(s, m, k) ==
  IF ~m.migrating THEN {After(s, m)}
  ELSE KeepOrClose(s, [m EXCEPT !.realKeys = @ \ {k}])

----------------------------------------------------------------------------
(* Switching policies *)

\* Fault: the target goes into service with the contents it had as a shadow.
MigrateDataUnpurged(s, from, to) == {After(s, NoMigration)}

\* migrateData: the target is purged of its zero values; a warm migration then
\* copies as much of the source as fits, a gradual one opens the window unless
\* the source is empty, and a cold one, the default, is done.
MigrateData(s, from, to) ==
  LET purged == Put(s, to, [s[to] EXCEPT !.data = Empty])
      queue  == Held(s[from].data)
  IN  IF strategy = "warm"
      THEN {After(Put(s, to, [s[to] EXCEPT !.data = d]), NoMigration) :
              d \in ResizeOutcomes(s[from].data, s[to].cap)}
      ELSE IF strategy = "gradual" /\ queue # {}
      THEN {After(purged, [migrating |-> TRUE, from |-> from,
                           keys |-> queue, realKeys |-> queue])}
      ELSE {After(purged, NoMigration)}

\* Fault: the incoming policy keeps its miniature capacity.
AtShadowCapacity(s, p) == s

\* promoteLockedCapacity: full capacity before the target is migrated into.
\* MigrateData purges it next, so what a Resize evicts does not matter.
AtFullCapacity(s, p) ==
  IF nominalCap[p] > 0 /\ s[p].cap # nominalCap[p]
  THEN Put(s, p, [s[p] EXCEPT !.cap = nominalCap[p]]) ELSE s

\* switchLocked (its closeMigrationLocked finds no window: runEpoch closed it).
\* The demotion of the source waits for the window, if one opens.
SwitchLocked(s, from, to) ==
  UNION {IF o.migration.migrating THEN {o}
         ELSE {After(Put(o.arms, from, d), o.migration) :
                 d \in Demoted(from, o.arms[from])} :
           o \in MigrateData(AtFullCapacity(s, to), from, to)}

\* hitRate(s) is s.hits / Weight(s): 0 when nothing was observed.
Weight(s) == IF Total(s) = 0 THEN 1 ELSE Total(s)

\* hitRate(c) - hitRate(a) >= MinImprovement / 100, without fractions.
ImprovesEnough(c, a) ==
  100 * (c.hits * Weight(a) - a.hits * Weight(c))
    >= MinImprovement * Weight(a) * Weight(c)

\* Fault: only the active policy's evidence is checked for volume.
AllowSwitchActiveOnly(candidate, es) ==
  \/ MinImprovement = 0 /\ SwitchCooldownEpochs = 0 /\ MinEpochRequests = 0
  \/ /\ epochID - lastSwitchEpoch >= SwitchCooldownEpochs
     /\ es[activePolicy] # NoStats /\ es[candidate] # NoStats
     /\ Total(es[activePolicy]) >= MinEpochRequests

\* allowSwitchLocked, given the evidence es of the epoch just measured.
AllowSwitch(candidate, es) ==
  \/ MinImprovement = 0 /\ SwitchCooldownEpochs = 0 /\ MinEpochRequests = 0
  \/ /\ SwitchCooldownEpochs > 0 =>
           epochID - lastSwitchEpoch >= SwitchCooldownEpochs
     /\ es[activePolicy] # NoStats /\ es[candidate] # NoStats
     /\ MinEpochRequests > 0 =>
           /\ Total(es[activePolicy]) >= MinEpochRequests
           /\ Total(es[candidate]) >= MinEpochRequests
     /\ MinImprovement > 0 => ImprovesEnough(es[candidate], es[activePolicy])

----------------------------------------------------------------------------
(* Epochs.  runEpoch is one critical section: close the window, measure and  *)
(* report, ask the bandit, switch.  The bandit is caller-supplied code: its  *)
(* answer may be any arm, or Undefined for a policy the cache does not hold. *)

InFlight == {t \in Threads : pc[t] \in {"hit", "miss"}}

\* Their results, which recordActiveSample has yet to count.
Uncounted == [hits   |-> Cardinality({t \in Threads : pc[t] = "hit"}),
              misses |-> Cardinality({t \in Threads : pc[t] = "miss"})]

\* The capacity gate of selectPolicyLocked.
CapacityGated(s) ==
  /\ ~ObserveOnly /\ ~EvictPartial
  /\ Cardinality(Held(s[activePolicy].data)) # s[activePolicy].cap

\* The evidence reported for every arm: sampled Gets only, for the active arm
\* too.
Reported(s) ==
  [p \in Policies |-> IF p = activePolicy THEN activeSampled ELSE s[p].stats]

\* Fault: a missing entry is added to as if it were there.
TenuredBlindly(es) == [p \in Policies |-> Plus(tenureStats[p], es[p])]

\* tenureStats after a report of es.
Tenured(es) ==
  [p \in Policies |-> IF tenureStats[p] = NoStats THEN es[p]
                      ELSE Plus(tenureStats[p], es[p])]

ResetAll(s) == [p \in Policies |-> [s[p] EXCEPT !.stats = NoCount]]

\* Fault: the sampled counters, not the full ones, go into the totals.
ReportStatsSampled(s) ==
  /\ reportingEpochs' = reportingEpochs + 1
  /\ globalStats' = Plus(globalStats, activeSampled)
  /\ activeSampled' = NoCount
  /\ epochStats' = Reported(s)
  /\ carried' = Cardinality(InFlight)

\* The reporting part of selectPolicyLocked, on the arms s.  The gates that come
\* after it read what it leaves in epochStats.
ReportStats(s) ==
  /\ reportingEpochs' = reportingEpochs + 1
  /\ globalStats' = Plus(globalStats, s[activePolicy].stats)
  /\ activeSampled' = NoCount
  /\ epochStats' = Reported(s)
  /\ carried' = Cardinality(InFlight)

\* An epoch that the capacity gate keeps from measuring anything.
EpochSkipped ==
  \E o \in CloseMigration(arms, migration) :
    /\ CapacityGated(o.arms)
    /\ arms' = o.arms /\ migration' = o.migration
    /\ epochStats' = [p \in Policies |-> NoStats]
    /\ epochID' = epochID + 1
    /\ UNCHANGED <<activePolicy, nominalCap, shadowCap, activeSampled,
                   globalStats, tenureStats, reportingEpochs, carried,
                   lastSwitchEpoch, duty>>

\* Fault: ObserveOnly is forgotten.
SwitchesAnyway(choice, es) ==
  /\ choice # activePolicy /\ choice \in Policies
  /\ AllowSwitch(choice, es)

\* Whether the bandit's choice leads to a switch.
Switches(choice, es) ==
  /\ ~ObserveOnly /\ choice # activePolicy /\ choice \in Policies
  /\ AllowSwitch(choice, es)

\* Fault: the window survives the epoch.
EpochHeldOpen(choice) ==
  /\ ~CapacityGated(arms)
  /\ ReportStats(arms)
  /\ ~Switches(choice, epochStats')
  /\ tenureStats' = Tenured(Reported(arms))
  /\ arms' = ResetAll(arms)
  /\ epochID' = epochID + 1
  /\ UNCHANGED <<activePolicy, nominalCap, shadowCap, migration, lastSwitchEpoch, duty>>

\* An epoch that reports and keeps the active policy.
EpochHeld(choice) ==
  \E o \in CloseMigration(arms, migration) :
    /\ ~CapacityGated(o.arms)
    /\ ReportStats(o.arms)
    /\ ~Switches(choice, epochStats')
    /\ tenureStats' = Tenured(Reported(o.arms))
    /\ arms' = ResetAll(o.arms) /\ migration' = o.migration
    /\ epochID' = epochID + 1
    /\ UNCHANGED <<activePolicy, nominalCap, shadowCap, lastSwitchEpoch, duty>>

\* Fault: the outgoing policy keeps what it measured while active.
EpochSwitchedKeepsTenure(choice) ==
  \E o \in CloseMigration(arms, migration) :
    /\ ~CapacityGated(o.arms)
    /\ ReportStats(o.arms)
    /\ Switches(choice, epochStats')
    /\ tenureStats' = [Tenured(Reported(o.arms)) EXCEPT ![choice] = NoStats]
    /\ \E w \in SwitchLocked(ResetAll(o.arms), activePolicy, choice) :
          arms' = w.arms /\ migration' = w.migration
    /\ activePolicy' = choice
    /\ duty' = [duty EXCEPT ![activePolicy] = NoCount, ![choice] = Uncounted]
    /\ lastSwitchEpoch' = epochID
    /\ epochID' = epochID + 1
    /\ UNCHANGED <<nominalCap, shadowCap>>

\* An epoch that reports and switches to choice.
EpochSwitched(choice) ==
  \E o \in CloseMigration(arms, migration) :
    /\ ~CapacityGated(o.arms)
    /\ ReportStats(o.arms)
    /\ Switches(choice, epochStats')
    /\ tenureStats' = [Tenured(Reported(o.arms)) EXCEPT
                         ![activePolicy] = NoStats, ![choice] = NoStats]
    /\ \E w \in SwitchLocked(ResetAll(o.arms), activePolicy, choice) :
          arms' = w.arms /\ migration' = w.migration
    /\ activePolicy' = choice
    /\ duty' = [duty EXCEPT ![activePolicy] = NoCount, ![choice] = Uncounted]
    /\ lastSwitchEpoch' = epochID
    /\ epochID' = epochID + 1
    /\ UNCHANGED <<nominalCap, shadowCap>>

RunEpoch ==
  \/ EpochSkipped
  \/ \E choice \in Policies \cup {Undefined} :
       EpochHeld(choice) \/ EpochSwitched(choice)

----------------------------------------------------------------------------
(* Get *)

\* What the arms have answered in their roles after a Get of key k, a hit or not
\* in the active arm.
Answered(k, hit) ==
  [p \in Policies |->
     IF k \notin Sampled THEN duty[p]
     ELSE Counted(duty[p], IF p = activePolicy THEN hit ELSE arms[p].data[k] # None)]

\* Where a Get goes once its result is counted: countRequest returns at once
\* when request-driven epochs are off.
Counting == IF EpochRequests > 0 THEN "count" ELSE "idle"

\* get() under the read lock, no window open.  The result is counted for the
\* bandit only after the lock is released.
GetFast(t, k) ==
  LET s   == ShadowGets(k)
      hit == arms[activePolicy].data[k] # None
  IN  /\ pc[t] = "idle" /\ ~migration.migrating
      /\ Total(served) < MaxRequests
      /\ arms' = Put(s, activePolicy, Lookup(s[activePolicy], k))
      /\ served' = Counted(served, hit) /\ duty' = Answered(k, hit)
      /\ pc' = [pc EXCEPT ![t] = IF k \notin Sampled THEN Counting
                                 ELSE IF hit THEN "hit" ELSE "miss"]
      /\ UNCHANGED <<activePolicy, nominalCap, shadowCap, migration, statVars,
                     epochVars, epochRequests, want, latest>>

\* get() finds a window open and gives the read lock back.
GetBlocked(t, k) ==
  /\ pc[t] = "idle" /\ migration.migrating
  /\ Total(served) < MaxRequests
  /\ pc' = [pc EXCEPT ![t] = "slow"]
  /\ want' = [want EXCEPT ![t] = k]
  /\ UNCHANGED <<armVars, statVars, epochVars, epochRequests, latest, served, duty>>

\* recordActiveSample of a Get that took the fast path.
RecordSample(t) ==
  /\ pc[t] \in {"hit", "miss"}
  /\ activeSampled' = Counted(activeSampled, pc[t] = "hit")
  /\ pc' = [pc EXCEPT ![t] = Counting]
  /\ UNCHANGED <<armVars, globalStats, epochStats, tenureStats, reportingEpochs,
                 carried, epochVars, epochRequests, want, latest, served, duty>>

\* get() under the write lock: shadow pass, promotion if the window is still
\* open, lookup and count.
GetSlow(t) ==
  LET k == want[t]
      outcomes == IF migration.migrating
                  THEN PromoteKey(ShadowGets(k), migration, k)
                  ELSE {After(ShadowGets(k), migration)}
  IN  /\ pc[t] = "slow"
      /\ \E o \in outcomes :
           LET hit == o.arms[activePolicy].data[k] # None
           IN  /\ arms' = Put(o.arms, activePolicy,
                               Lookup(o.arms[activePolicy], k))
               /\ migration' = o.migration
               /\ served' = Counted(served, hit) /\ duty' = Answered(k, hit)
               /\ activeSampled' = IF k \in Sampled
                                   THEN Counted(activeSampled, hit)
                                   ELSE activeSampled
      /\ pc' = [pc EXCEPT ![t] = Counting]
      /\ want' = [want EXCEPT ![t] = None]
      /\ UNCHANGED <<activePolicy, nominalCap, shadowCap, globalStats, epochStats,
                     tenureStats, reportingEpochs, carried, epochVars,
                     epochRequests, latest>>

\* countRequest, first atomic operation: only the Get that makes the counter
\* equal to the limit goes on.
CountRequest(t) ==
  /\ pc[t] = "count"
  /\ epochRequests' = epochRequests + 1
  /\ pc' = [pc EXCEPT ![t] =
              IF epochRequests + 1 = EpochRequests THEN "cross" ELSE "idle"]
  /\ UNCHANGED <<armVars, statVars, epochVars, want, latest, served, duty>>

\* countRequest, second atomic operation.
SubtractLimit(t) ==
  /\ pc[t] = "cross"
  /\ epochRequests' = epochRequests - EpochRequests
  /\ pc' = [pc EXCEPT ![t] = "epoch"]
  /\ UNCHANGED <<armVars, statVars, epochVars, want, latest, served, duty>>

\* The epoch the Nth Get runs on its own goroutine.
RequestEpoch(t) ==
  /\ pc[t] = "epoch"
  /\ RunEpoch
  /\ pc' = [pc EXCEPT ![t] = "idle"]
  /\ UNCHANGED <<epochRequests, want, latest, served>>

----------------------------------------------------------------------------
(* The other operations, and the clock *)

\* The epoch the ticker starts on the background goroutine.
Tick ==
  /\ HasTicker /\ epochID < MaxEpochs
  /\ RunEpoch
  /\ UNCHANGED <<threadVars, latest, served>>

Add(k, v) ==
  /\ \E s \in ShadowAdds(k) : \E o \in MigrateOnAdd(s, migration, k) :
       \E a \in Adds(activePolicy, o.arms[activePolicy], k, v) :
         /\ arms' = Put(o.arms, activePolicy, a)
         /\ migration' = o.migration
  /\ latest' = [latest EXCEPT ![k] = v]
  /\ UNCHANGED <<activePolicy, nominalCap, shadowCap, statVars, epochVars,
                 threadVars, served, duty>>

Remove(k) ==
  LET dropped(p, s) == [s[p] EXCEPT !.data = Without(@, k)]
      shadows == [p \in Policies |-> IF p = activePolicy THEN arms[p]
                                     ELSE dropped(p, arms)]
  IN  /\ \E o \in MigrateOnRemove(shadows, migration, k) :
           /\ arms' = Put(o.arms, activePolicy,
                           dropped(activePolicy, o.arms))
           /\ migration' = o.migration
      /\ latest' = [latest EXCEPT ![k] = None]
      /\ UNCHANGED <<activePolicy, nominalCap, shadowCap, statVars, epochVars,
                     threadVars, served, duty>>

Purge ==
  LET purged == [p \in Policies |-> [arms[p] EXCEPT !.data = Empty]]
  IN  /\ \E o \in CloseMigration(purged, migration) :
           arms' = o.arms /\ migration' = o.migration
      /\ latest' = [k \in Keys |-> None]
      /\ UNCHANGED <<activePolicy, nominalCap, shadowCap, statVars, epochVars,
                     threadVars, served, duty>>

\* Fault: the source of an open window is resized like any shadow.
ResizeSourceToo(n) ==
  LET small == ScaledCapacity(n, EffectiveRate[1], EffectiveRate[2])
      Outcomes(p) == Resizes(arms[p], IF p = activePolicy THEN n ELSE small)
  IN  /\ nominalCap' = [p \in Policies |-> n]
      /\ shadowCap' = [p \in Policies |-> small]
      /\ arms' \in Choices(Outcomes)
      /\ UNCHANGED <<activePolicy, migration, statVars, epochVars, threadVars,
                     latest, served, duty>>

\* Resize: the active arm and the source of an open window keep full size.
Resize(n) ==
  LET small == ScaledCapacity(n, EffectiveRate[1], EffectiveRate[2])
      target(p) == IF p = activePolicy \/ (migration.migrating /\ p = migration.from)
                   THEN n ELSE small
      Outcomes(p) == Resizes(arms[p], target(p))
  IN  /\ nominalCap' = [p \in Policies |-> n]
      /\ shadowCap' = [p \in Policies |-> small]
      /\ arms' \in Choices(Outcomes)
      /\ UNCHANGED <<activePolicy, migration, statVars, epochVars, threadVars,
                     latest, served, duty>>

\* A lossy arm drops an entry on its own: expiry in TTLCache, the asynchronous
\* eviction of W-TinyLFU.
Expire(p, k) ==
  /\ arms[p].data[k] # None
  /\ arms' = Put(arms, p, [arms[p] EXCEPT !.data = Without(@, k)])
  /\ UNCHANGED <<activePolicy, nominalCap, shadowCap, migration, statVars,
                 epochVars, threadVars, latest, served, duty>>

----------------------------------------------------------------------------
(* initShadowDutyLocked: the arms are built empty, and every one but the     *)
(* first is put on shadow duty.                                              *)

InitialShadowCap ==
  [p \in Policies |->
     ShadowCapacity(InitialCap[p], EffectiveRate[1], EffectiveRate[2])]

Init ==
  /\ strategy \in Strategies
  /\ activePolicy = First
  /\ nominalCap = InitialCap /\ shadowCap = InitialShadowCap
  /\ arms = [p \in Policies |->
               [data |-> Empty,
                cap |-> IF p = First THEN InitialCap[p] ELSE InitialShadowCap[p],
                stats |-> NoCount]]
  /\ migration = NoMigration
  /\ activeSampled = NoCount /\ globalStats = NoCount
  /\ epochStats = [p \in Policies |-> NoStats]
  /\ tenureStats = [p \in Policies |-> NoStats]
  /\ reportingEpochs = 0 /\ lastSwitchEpoch = 0 /\ epochID = 0
  /\ epochRequests = 0
  /\ pc = [t \in Threads |-> "idle"] /\ want = [t \in Threads |-> None]
  /\ latest = [k \in Keys |-> None] /\ served = NoCount /\ carried = 0
  /\ duty = [p \in Policies |-> NoCount]

Step ==
  \/ \E t \in Threads, k \in Keys : GetFast(t, k) \/ GetBlocked(t, k)
  \/ \E t \in Threads : \/ RecordSample(t) \/ GetSlow(t) \/ CountRequest(t)
                        \/ SubtractLimit(t) \/ RequestEpoch(t)
  \/ \E k \in Keys, v \in Values : Add(k, v)
  \/ \E k \in Keys : Remove(k)
  \/ Purge
  \/ \E n \in Sizes : Resize(n)
  \/ \E p \in Lossy, k \in Keys : Expire(p, k)
  \/ Tick

Next == Step /\ UNCHANGED strategy

Spec == Init /\ [][Next]_vars

----------------------------------------------------------------------------
(* What callers see *)

\* Stats().
StatsResult == Plus(globalStats, arms[activePolicy].stats)

\* Advice(): the arms with a measurement in their current role, and that
\* measurement.  (Sorting them by hit rate is left out.)
AdviceReports == {p \in Policies : tenureStats[p] # NoStats}
Measured(p) == IF p \in AdviceReports THEN tenureStats[p] ELSE NoCount

----------------------------------------------------------------------------
(* Properties *)

\* Type invariant: the fields of AdaptiveCache (cache.go) hold values of their
\* Go types, and the counters stay non-negative.
TypeOK ==
  /\ activePolicy \in Policies
  /\ arms \in [Policies -> Arms]
  /\ nominalCap \in [Policies -> Nat] /\ shadowCap \in [Policies -> Nat]
  /\ migration \in Windows
  /\ activeSampled \in Stats /\ globalStats \in Stats
  /\ epochStats \in [Policies -> Stats \cup {NoStats}]
  /\ tenureStats \in [Policies -> Stats \cup {NoStats}]
  /\ reportingEpochs \in Nat /\ lastSwitchEpoch \in Nat /\ epochID \in Nat
  /\ epochRequests \in Int
  /\ pc \in [Threads -> {"idle", "hit", "miss", "slow", "count", "cross", "epoch"}]
  /\ want \in [Threads -> Keys \cup {None}]
  /\ latest \in [Keys -> Values \cup {None}]
  /\ served \in Stats /\ carried \in Nat
  /\ duty \in [Policies -> Stats]

\* A Get returns the value last Added for its key, or misses: whatever was
\* switched, migrated, promoted or drained in between, the active policy never
\* holds a shadow's zero value, an overwritten value, or one that was removed.
ServesLatest ==
  \A k \in Keys : arms[activePolicy].data[k] \in {None, latest[k]}

\* The arms that neither serve nor feed an open window.
Shadows ==
  Policies \ ({activePolicy} \cup (IF migration.migrating
                                  THEN {migration.from} ELSE {}))

\* A policy on shadow duty holds no real value and no key outside the sample
\* (demoteLocked, and the shadow passes of Get and Add).
ShadowsHoldNoValues ==
  \A p \in Shadows, k \in Keys :
    arms[p].data[k] \in IF k \in Sampled THEN {None, Zero} ELSE {None}

\* A key still eligible in the gradual window is current in the source (or
\* gone from it), and the active policy holds nothing for it: promoting it,
\* from Get or from drainOneKey, never overwrites a newer value.
PendingKeysAreCurrent ==
  \A k \in migration.realKeys :
    /\ arms[migration.from].data[k] \in {None, latest[k]}
    /\ arms[activePolicy].data[k] = None

\* A gradual window is open only while some key is eligible, drains another
\* policy than the active one, and lasts at most one epoch: it belongs to the
\* switch made at the end of the previous epoch (runEpoch).
WindowIsShort ==
  IF migration.migrating
  THEN /\ migration.realKeys # {} /\ migration.realKeys \subseteq migration.keys
       /\ migration.from \in Policies \ {activePolicy}
       /\ epochID = lastSwitchEpoch + 1
  ELSE migration = NoMigration

\* Every policy runs at the capacity of its role and stays within it: the
\* active one and the source of an open window at full size, a shadow as a
\* miniature, through switches, Resize and windows that close late.
CapacityFollowsRole ==
  \A p \in Policies :
    /\ arms[p].cap = IF p \in Shadows THEN shadowCap[p] ELSE nominalCap[p]
    /\ Cardinality(Held(arms[p].data)) <= arms[p].cap

\* Stats() counts every Get the cache answered exactly once, across reports,
\* switches and resets of the per-policy counters.
StatsAreCumulative == StatsResult = served

\* Since the last report a shadow has counted no sampled Get more than the
\* active policy has or will once the Gets in flight are counted, leaving out
\* those that were in flight at that report already; and none fewer, except
\* the source of a gradual window, whose counters its demotion resets.
EvidenceBalance ==
  \A p \in Policies \ {activePolicy} :
    LET expected == Total(activeSampled) + Cardinality(InFlight) - carried
    IN  /\ Total(arms[p].stats) <= expected
        /\ strategy # "gradual" => Total(arms[p].stats) = expected

\* The active policy changes only in an epoch that reported, to a policy that
\* had measured enough Gets since the report before, as had the active one, and
\* only when enough epochs have passed since the last switch
\* (selectPolicyLocked's gate and allowSwitchLocked).
SwitchOnFreshEvidence ==
  [][activePolicy' # activePolicy =>
       /\ reportingEpochs' = reportingEpochs + 1
       /\ Total(activeSampled) >= MinEpochRequests
       /\ Total(arms[activePolicy'].stats) >= MinEpochRequests
       /\ epochID - lastSwitchEpoch >= SwitchCooldownEpochs
       /\ MinImprovement > 0 =>
            ImprovesEnough(arms[activePolicy'].stats, activeSampled)]_vars

\* What Advice shows of a policy, with what is yet to be reported, is what the
\* policy answered to sampled Gets since it took its role, hit by hit and miss by
\* miss: nothing from an earlier role, nothing twice, and nothing lost in an epoch
\* that was skipped.  Gets that were looked up before a switch and are counted
\* after it count for the newcomer (recordActiveSample runs outside the lock); the
\* source of a gradual window loses what it counted before its demotion.
AdviceIsOfThisRole ==
  \A p \in Policies :
    LET known == Plus(Measured(p), IF p = activePolicy THEN Plus(activeSampled, Uncounted)
                                   ELSE arms[p].stats)
    IN  /\ known.hits <= duty[p].hits /\ known.misses <= duty[p].misses
        /\ (p = activePolicy \/ strategy # "gradual") => known = duty[p]

\* One policy on its own, as the callers of this cache would see it.
SinglePolicy ==
  INSTANCE PolicyContract WITH
    data <- arms[First].data, cap <- arms[First].cap,
    Rejects <- First \in Lossy, Lossy <- First \in Lossy

\* In ObserveOnly mode the cache "behaves exactly like the single policy you
\* gave it first" (settings.go): what its callers can read from it evolves as
\* that policy's contents would on the same calls, whatever the bandit answers.
ObserveOnlyIsSinglePolicy == SinglePolicy!Spec

\* What countRequest's comment promises: exactly one Get per EpochRequests Gets
\* runs an epoch, so between calls the counter is below the limit and the next
\* epoch will come.
RequestClockKeepsRunning ==
  (\A t \in Threads : pc[t] = "idle") => epochRequests < EpochRequests

=============================================================================
