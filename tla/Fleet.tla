-------------------------------- MODULE Fleet --------------------------------
(***************************************************************************)
(* A fleet of caches that share one distributed bandit (distributed.go,    *)
(* coordinate.go): every replica buffers what its cache reports, and a     *)
(* coordination goroutine publishes it once per coordination epoch, leads  *)
(* or follows the bucket it landed in, and falls back to its own evidence  *)
(* when the store stays away.                                              *)
(*                                                                         *)
(* A coordination round is one action per round trip: drain, Sync, Window, *)
(* Decide, apply.  In between, the cache reports, other replicas run their *)
(* rounds and the clock moves.  A call to the store may fail before it     *)
(* does anything, or after (the reply is lost).                            *)
(***************************************************************************)
EXTENDS BucketStore, FiniteSets

CONSTANTS
  Replicas,
  Capacities,     \* capacities a cache may report: the regimes, one namespace each
  NoShape,        \* no report has arrived yet
  Evidence,       \* "all" or "shadow": the roles that are pooled
  Jitter,         \* spread of the sync interval, in ticks
  SyncTimeout,    \* length of a round at most, in ticks
  FallbackAfter,  \* silence after which a replica decides alone, in ticks
  MaxTime,        \* bound: ticks of the clock
  Gets,           \* Gets an arm may have measured in one report
  MaxReports,     \* bound: reports per regime
  MaxFaults       \* bound: failed calls and restarts

\* What validate enforces, and the defaults it fills in: a zero jitter becomes
\* DefaultJitter, a zero window DefaultWindow, and shadow-only evidence is refused
\* under a leader.
ValidConfig ==
  /\ Evidence \in {"all", "shadow"} /\ (Mode = "leader" => Evidence = "all")
  /\ Jitter \in Nat \ {0} /\ 2 * Jitter < CoordinationEpoch
  /\ SyncTimeout \in Nat /\ FallbackAfter \in Nat

ASSUME FleetAssumption ==
  /\ ValidConfig /\ IsFiniteSet(Replicas)
  /\ NoShape \notin Capacities /\ Gets \subseteq Nat
  /\ MaxTime \in Nat /\ MaxReports \in Nat /\ MaxFaults \in Nat


VARIABLES
  now,        \* the store's clock
  store,      \* what the store holds
  shape,      \* per replica: the regime of its reports, and so its namespace
  pending,    \* per replica: counts reported and not yet drained
  round,      \* per replica: the coordination round it is in
  due,        \* per replica: when its timer fires
  selection,  \* per replica: what SelectPolicy returns
  fallback,   \* per replica: state.fallback
  lastErr,    \* per replica: whether state.lastErr is set
  lastSync,   \* per replica: state.lastSync, or -1
  faults,     \* calls failed and replicas restarted
  source,     \* ghost: per replica, where its selection comes from
  tripOk,     \* ghost: per replica, whether its last round trip succeeded
  waiting,    \* ghost: per replica, the last bucket synced if it had no decision
  reports,    \* reports per regime
  made,       \* ghost: counts reported per regime
  published,  \* ghost: counts the store ever took per namespace and bucket
  led,        \* ghost: how often a bucket was won
  applied     \* ghost: decisions applied per bucket

cacheVars == <<shape, pending, reports, made>>
stateVars == <<selection, fallback, lastErr, lastSync, source, tripOk, waiting>>
storeVars == <<store, published, led>>
vars == <<now, storeVars, cacheVars, round, due, stateVars, applied, faults>>

Buckets == 0 .. BucketAt(MaxTime)
Places == Capacities \X Buckets

Idle ==
  [step |-> "idle", ns |-> NoShape, counts |-> NoCounts, bucket |-> 0,
   read |-> FALSE, window |-> EmptyMap, told |-> Undefined, choice |-> Undefined,
   started |-> 0]

----------------------------------------------------------------------------
(* The cache's side *)

\* One report of n Gets: every arm, the active one in its own role.
Report(active, n) ==
  [k \in {<<p, IF p = active THEN "active" ELSE "shadow">> : p \in Policies} |-> n]

\* Fault: counts of the old regime stay in the buffer.
BufferKept(r, g) == pending[r]

\* What the buffer holds when a report of regime g arrives.
Buffer(r, g) == IF shape[r] = g THEN pending[r] ELSE NoCounts

\* RecordEpoch.
RecordEpoch(r, active, g, n) ==
  /\ reports[g] < MaxReports
  /\ reports' = [reports EXCEPT ![g] = @ + 1]
  /\ shape' = [shape EXCEPT ![r] = g]
  /\ pending' = [pending EXCEPT ![r] = AddCounts(Buffer(r, g), Report(active, n))]
  /\ made' = [made EXCEPT ![g] = AddCounts(@, Report(active, n))]
  /\ UNCHANGED <<now, storeVars, round, due, stateVars, applied, faults>>

----------------------------------------------------------------------------
(* The coordination goroutine *)

\* nextInterval: the shortest the jitter allows, after which the timer may fire
\* at any time, as a longer interval or a late goroutine would have it.
NextRound(r) == due' = [due EXCEPT ![r] = now + CoordinationEpoch - Jitter]

\* The timer fires before the first report.
SyncNothing(r) ==
  /\ round[r].step = "idle" /\ now >= due[r] /\ shape[r] = NoShape
  /\ NextRound(r)
  /\ UNCHANGED <<now, storeVars, cacheVars, round, stateVars, applied, faults>>

\* drain's effect on the buffer.
Drain(r) == pending' = [pending EXCEPT ![r] = NoCounts]

\* sync begins.
StartSync(r) ==
  /\ round[r].step = "idle" /\ now >= due[r] /\ shape[r] # NoShape
  /\ Drain(r)
  /\ round' = [round EXCEPT ![r] = [Idle EXCEPT !.step = "sync", !.ns = shape[r],
                                      !.counts = pending[r], !.started = now]]
  /\ UNCHANGED <<now, storeVars, shape, reports, made, due, stateVars, applied, faults>>

\* The round's context has not run out.
InTime(r) == now <= round[r].started + SyncTimeout

\* The place r's counts go to now.
Place(r) == <<round[r].ns, BucketAt(now)>>

\* Store.Sync happens in the store.
StoreSync(r) ==
  LET x == Place(r)
      live == Expired(store, now)
  IN  /\ store' = Synced(store, x, r, round[r].counts, now)
      /\ published' = [published EXCEPT ![x] = AddCounts(@, Sent(round[r].counts))]
      /\ led' = IF Claims(live, x) THEN [led EXCEPT ![x] = @ + 1] ELSE led

\* One more fault.
Fault == faults < MaxFaults /\ faults' = faults + 1

\* Fault: no grace period.
StaleAlways(r) == TRUE

\* The store has been away for too long, or was never there.
Stale(r) == lastSync[r] = -1 \/ now - lastSync[r] > FallbackAfter

\* The local bandit's SelectPolicy: it samples every arm it has seen, which are
\* all of them since a round starts only after a report, and any may win.
LocalDraws == Policies

\* recordFailure.
RecordFailure(r) ==
  /\ tripOk' = [tripOk EXCEPT ![r] = FALSE]
  /\ lastErr' = [lastErr EXCEPT ![r] = TRUE]
  /\ IF Stale(r)
     THEN /\ fallback' = [fallback EXCEPT ![r] = TRUE]
          /\ \E p \in LocalDraws : selection' = [selection EXCEPT ![r] = p]
          /\ source' = [source EXCEPT ![r] = "local"]
     ELSE UNCHANGED <<fallback, selection, source>>
  /\ UNCHANGED <<lastSync, waiting>>

\* Sync answers: shared-posterior replicas and the bucket's leader go on to
\* read the window, followers apply the bucket's decision.
SyncOk(r) ==
  LET x == Place(r)
      reply == SyncReply(Expired(store, now), x)
  IN  /\ round[r].step = "sync" /\ InTime(r)
      /\ StoreSync(r)
      /\ tripOk' = [tripOk EXCEPT ![r] = TRUE]
      /\ round' = [round EXCEPT
                     ![r].step = IF reply.leader \/ Mode = "shared" THEN "read" ELSE "apply",
                     ![r].counts = NoCounts, ![r].bucket = reply.bucket,
                     ![r].told = IF Mode = "shared" THEN Undefined ELSE reply.decision,
                     ![r].choice = IF Mode = "shared" THEN Undefined
                                   ELSE reply.decision]
      /\ UNCHANGED <<now, cacheVars, due, selection, fallback, lastErr, lastSync,
                     source, waiting, applied, faults>>

\* Sync fails before the store sees it.
SyncFails(r) ==
  /\ round[r].step = "sync"
  /\ Fault /\ RecordFailure(r)
  /\ round' = [round EXCEPT ![r] = Idle]
  /\ NextRound(r)
  /\ UNCHANGED <<now, storeVars, cacheVars, applied>>

\* Sync takes effect in the store but its reply is lost.
SyncReplyLost(r) ==
  /\ round[r].step = "sync" /\ InTime(r)
  /\ StoreSync(r)
  /\ Fault /\ RecordFailure(r)
  /\ round' = [round EXCEPT ![r] = Idle]
  /\ NextRound(r)
  /\ UNCHANGED <<now, cacheVars, applied>>

\* Fault: the bucket still being written is read too.
ReadRangeOpen(b) == <<b - Window + 1, b>>

\* The buckets readPooled reads: they end one short of the current one.
ReadRange(b) == <<b - Window, b - 1>>

\* aggregate: the arms a window has counts for, be they zero.
Pooled(w) ==
  {p \in Policies : \E b \in DOMAIN w, role \in Roles :
     /\ <<p, role>> \in DOMAIN w[b]
     /\ Evidence = "shadow" => role = "shadow"}

\* draw: every pooled arm is sampled, so any may win; without one there is no draw.
Draws(w) == IF Pooled(w) = {} THEN {Undefined} ELSE Pooled(w)

\* Window answers, and an arm is drawn.  A leader publishes the draw; a
\* shared-posterior replica applies it.  A leader without one keeps what Sync
\* told it.
ReadWindow(r) ==
  LET range == ReadRange(round[r].bucket)
      w == WindowCounts(store, round[r].ns, range[1], range[2], now)
  IN  /\ round[r].step = "read" /\ InTime(r)
      /\ tripOk' = [tripOk EXCEPT ![r] = TRUE]
      /\ store' = Expired(store, now)
      /\ \E p \in Draws(w) :
           round' = [round EXCEPT
                       ![r].read = TRUE, ![r].window = w,
                       ![r].choice = IF p = Undefined THEN @ ELSE p,
                       ![r].step = IF p = Undefined \/ Mode = "shared"
                                   THEN "apply" ELSE "decide"]
      /\ UNCHANGED <<now, published, led, cacheVars, due, selection, fallback,
                     lastErr, lastSync, source, waiting, applied, faults>>

\* Window fails: the failure is recorded, and the round goes on without a
\* decision of its own.
ReadFails(r) ==
  /\ round[r].step = "read"
  /\ Fault /\ RecordFailure(r)
  /\ round' = [round EXCEPT ![r].step = "apply"]
  /\ UNCHANGED <<now, storeVars, cacheVars, due, applied>>

\* Decide answers with the decision in force.
Decide(r) ==
  LET x == <<round[r].ns, round[r].bucket>>
  IN  /\ round[r].step = "decide" /\ InTime(r)
      /\ store' = Decided(store, x, round[r].choice, now)
      /\ round' = [round EXCEPT ![r].step = "apply",
                                ![r].choice = DecisionFor(store', x)]
      /\ tripOk' = [tripOk EXCEPT ![r] = TRUE]
      /\ UNCHANGED <<now, published, led, cacheVars, due, selection, fallback,
                     lastErr, lastSync, source, waiting, applied, faults>>

\* Decide fails, before or after the store took the decision: what Sync told the
\* leader stands.
DecideFails(r) ==
  /\ round[r].step = "decide"
  /\ \/ UNCHANGED store
     \/ /\ InTime(r)
        /\ store' = Decided(store, <<round[r].ns, round[r].bucket>>,
                            round[r].choice, now)
  /\ Fault /\ RecordFailure(r)
  /\ round' = [round EXCEPT ![r].step = "apply", ![r].choice = round[r].told]
  /\ UNCHANGED <<now, published, led, cacheVars, due, applied>>

\* applyResult, and the end of the round.
ApplyResult(r) ==
  LET d == round[r].choice
      x == <<round[r].ns, round[r].bucket>>
      known == shape[r] # NoShape /\ d \in Policies
  IN  /\ round[r].step = "apply"
      /\ lastSync' = [lastSync EXCEPT ![r] = now]
      /\ lastErr' = [lastErr EXCEPT ![r] = FALSE]
      /\ fallback' = [fallback EXCEPT ![r] = FALSE]
      /\ waiting' = [waiting EXCEPT ![r] = IF d = Undefined THEN {x} ELSE {}]
      /\ IF known
         THEN /\ selection' = [selection EXCEPT ![r] = d]
              /\ source' = [source EXCEPT ![r] = "fleet"]
              /\ applied' = [applied EXCEPT ![x] = @ \cup {d}]
         ELSE UNCHANGED <<selection, source, applied>>
      /\ round' = [round EXCEPT ![r] = Idle]
      /\ NextRound(r)
      /\ UNCHANGED <<now, storeVars, cacheVars, tripOk, faults>>

----------------------------------------------------------------------------

\* A replica's process dies and comes back: NewDistributed, and everything it
\* held in memory is gone.
Restart(r) ==
  /\ Fault
  /\ shape' = [shape EXCEPT ![r] = NoShape]
  /\ pending' = [pending EXCEPT ![r] = NoCounts]
  /\ round' = [round EXCEPT ![r] = Idle]
  /\ NextRound(r)
  /\ selection' = [selection EXCEPT ![r] = Undefined]
  /\ fallback' = [fallback EXCEPT ![r] = FALSE]
  /\ lastErr' = [lastErr EXCEPT ![r] = FALSE]
  /\ lastSync' = [lastSync EXCEPT ![r] = -1]
  /\ source' = [source EXCEPT ![r] = "none"]
  /\ tripOk' = [tripOk EXCEPT ![r] = TRUE]
  /\ waiting' = [waiting EXCEPT ![r] = {}]
  /\ UNCHANGED <<now, storeVars, reports, made, applied>>

Tick ==
  /\ now < MaxTime
  /\ now' = now + 1
  /\ UNCHANGED <<storeVars, cacheVars, round, due, stateVars, applied, faults>>

Init ==
  /\ now = 0 /\ store = NewStore
  /\ shape = [r \in Replicas |-> NoShape]
  /\ pending = [r \in Replicas |-> NoCounts]
  /\ round = [r \in Replicas |-> Idle]
  /\ due = [r \in Replicas |-> CoordinationEpoch - Jitter]
  /\ selection = [r \in Replicas |-> Undefined]
  /\ fallback = [r \in Replicas |-> FALSE] /\ lastErr = [r \in Replicas |-> FALSE]
  /\ lastSync = [r \in Replicas |-> -1]
  /\ source = [r \in Replicas |-> "none"] /\ tripOk = [r \in Replicas |-> TRUE]
  /\ waiting = [r \in Replicas |-> {}]
  /\ reports = [g \in Capacities |-> 0]
  /\ made = [g \in Capacities |-> NoCounts]
  /\ published = [x \in Places |-> NoCounts] /\ led = [x \in Places |-> 0]
  /\ applied = [x \in Places |-> {}] /\ faults = 0

Next ==
  \/ \E r \in Replicas, p \in Policies, g \in Capacities, n \in Gets :
       RecordEpoch(r, p, g, n)
  \/ \E r \in Replicas : \/ SyncNothing(r) \/ StartSync(r)
                         \/ SyncOk(r) \/ SyncFails(r) \/ SyncReplyLost(r)
                         \/ ReadWindow(r) \/ ReadFails(r)
                         \/ Decide(r) \/ DecideFails(r)
                         \/ ApplyResult(r) \/ Restart(r)
  \/ Tick

Spec == Init /\ [][Next]_vars

----------------------------------------------------------------------------
(* Properties *)

\* "At most one replica per bucket ever sees true" (store.go, SyncResult.Leader):
\* a claim outlives its bucket, however late the others sync.
OneLeaderPerBucket == \A x \in Places : led[x] <= 1

\* The fleet follows one decision per bucket: leader and followers of a bucket
\* apply the same policy, though replies get lost, leaders restart before or
\* after deciding, and decisions expire.
FleetAgrees == Mode = "leader" => \A x \in Places : Cardinality(applied[x]) <= 1

\* Counts published in a namespace, all buckets together.
PublishedIn(g, k) ==
  LET upTo[b \in Buckets] ==
        GetsOf(published[<<g, b>>], k) + (IF b = 0 THEN 0 ELSE upTo[b - 1])
  IN  upTo[BucketAt(MaxTime)]

\* A report counts at most once, and only among reports of its own regime: what
\* a namespace received is at most what caches measured under that regime, with
\* lost replies, restarts and a Resize while a round is under way.
EvidenceCountsOnce ==
  \A g \in Capacities, k \in ArmKeys : PublishedIn(g, k) <= GetsOf(made[g], k)

\* Whoever decides on a bucket has read all the evidence of the buckets before
\* it, and that evidence is final: none of it has expired when a slow leader
\* reads it, and nothing is added to it afterwards.  Where SyncTimeout is longer
\* than an epoch, a reader that comes two epochs after its bucket began may find
\* a bucket expired, and then sees nothing of it, never a part.
ReadsAreFinal ==
  \A r \in Replicas :
    LET b == round[r].bucket
        seen(c) == IF c \in DOMAIN round[r].window THEN round[r].window[c] ELSE NoCounts
    IN  round[r].read =>
          \A c \in ((b - Window .. b - 1) \cap Buckets) \cup DOMAIN round[r].window :
            \/ seen(c) = published[<<round[r].ns, c>>]
            \/ /\ SyncTimeout > CoordinationEpoch /\ now >= (b + 2) * CoordinationEpoch
               /\ c \notin DOMAIN round[r].window

\* What leadBucket's and the stores' comments promise: an arm is drawn, for the
\* fleet or for the replica itself, only from a window in which some replica
\* measured a Get; an idle fleet decides nothing and stays where it is.
DecidesOnEvidence ==
  \A r \in Replicas :
    (round[r].read /\ round[r].choice # Undefined) =>
      \E b \in DOMAIN round[r].window :
        \E k \in DOMAIN round[r].window[b] : round[r].window[b][k] > 0

\* A replica reports a fallback only when it has completed no round for longer
\* than FallbackAfter, and then its selection is its own.
FallbackIsEarned ==
  \A r \in Replicas : fallback[r] =>
    /\ source[r] = "local" /\ lastErr[r]
    /\ lastSync[r] = -1 \/ now - lastSync[r] > FallbackAfter

\* What Snapshot.LastError promises: it is empty if the last round trip
\* succeeded, and the most recent failure otherwise.
LastErrorIsVisible ==
  \A r \in Replicas : round[r].step = "idle" => (lastErr[r] <=> ~tripOk[r])

\* What applyResult's comment promises of a round that found no decision: once
\* the leader has published it, the next sync finds it.
NextSyncFindsDecision ==
  [][\A r \in Replicas :
       round[r].step = "sync" /\ round'[r].step = "apply"
       /\ round'[r].choice = Undefined
         => \A x \in waiting[r] : x \notin DOMAIN store.decisions]_vars

=============================================================================
