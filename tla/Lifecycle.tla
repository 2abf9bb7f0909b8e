------------------------------ MODULE Lifecycle ------------------------------
(***************************************************************************)
(* Who waits for whom: the goroutines around one adaptive cache and its    *)
(* distributed bandit, the locks they take and how they are stopped        *)
(* (cache.go, epoch.go, bandit/distributed.go, bandit/coordinate.go).      *)
(* What the operations compute is in AdaptiveCache and Fleet; here an      *)
(* operation is its locks, its calls into the bandit or the store, and     *)
(* what it may wait for.                                                   *)
(*                                                                         *)
(* The cache's lock is a sync.RWMutex and the bandit's a sync.Mutex, both  *)
(* modelled from what the Go memory model and their documentation promise: *)
(* a waiting writer holds back new readers, the readers it held back go    *)
(* before the next writer, and no waiter starves.  So are the sync.Once    *)
(* and the WaitGroup of each Close: a Once is its done flag and the mutex  *)
(* its function runs under, a WaitGroup its counter.                       *)
(***************************************************************************)
EXTENDS Naturals

CONSTANTS
  Callers,      \* goroutines calling the cache
  Closers,      \* goroutines calling Close
  Closes,       \* per closer: what it closes, "cache" or "bandit"
  Ticker,       \* the goroutine of runAdaptiveSelect
  Coordinator,  \* the goroutine of coordinate
  Nobody        \* holder of a free lock

ASSUME GoroutineAssumption ==
  /\ Ticker # Coordinator
  /\ Ticker \notin Callers \cup Closers /\ Coordinator \notin Callers \cup Closers
  /\ Callers \cap Closers = {}
  /\ Nobody \notin Callers \cup Closers \cup {Ticker, Coordinator}

ASSUME CloseAssumption == Closes \in [Closers -> {"cache", "bandit"}]

VARIABLES
  pc,         \* per goroutine: where it is
  mu,         \* AdaptiveCache.mu: its writer, its readers, the readers held back
  dmu,        \* Distributed.mu: its holder
  haveShape,  \* whether a report has reached the bandit
  stale,      \* whether the last sync is longer ago than FallbackAfter
  fallback,   \* state.fallback
  store,      \* whether the store answers: "up" or "down"
  once,       \* per object: the Once of its Close, its done flag and its mutex
  cancelled,  \* per object: whether the context of its goroutine is cancelled
  wg          \* per object: the counter of its WaitGroup

lockVars == <<mu, dmu>>
banditVars == <<haveShape, stale, fallback>>
closeVars == <<once, cancelled, wg>>
vars == <<pc, lockVars, banditVars, store, closeVars>>

Objects == {"cache", "bandit"}
Goroutine == [o \in Objects |-> IF o = "cache" THEN Ticker ELSE Coordinator]
Goroutines == Callers \cup {Ticker}   \* those that take the cache's lock

\* Where a goroutine is between two operations.
Home(g) == IF g \in Callers THEN "idle" ELSE "select"

Goto(g, label) == pc' = [pc EXCEPT ![g] = label]

----------------------------------------------------------------------------
(* The locks *)

\* RLock: a reader that arrives behind a writer is held back.
RLock(g) ==
  mu' = IF mu.writer = Nobody THEN [mu EXCEPT !.readers = @ \cup {g}]
        ELSE [mu EXCEPT !.parked = @ \cup {g}]

RUnlock(g) == mu' = [mu EXCEPT !.readers = @ \ {g}]

\* Lock, first half: writers queue, and the first of them holds back readers.
Announce(g) ==
  /\ pc[g] \in {"slow", "write", "epoch"} /\ mu.writer = Nobody
  /\ mu' = [mu EXCEPT !.writer = g]
  /\ UNCHANGED <<pc, dmu, banditVars, store, closeVars>>

\* Lock, second half: the readers that were there first have left.
Exclusive(g) == mu.writer = g /\ mu.readers = {}

\* Unlock: the readers held back go in.
Unlock == mu' = [writer |-> Nobody, readers |-> mu.parked, parked |-> {}]

\* The bandit's lock.
LockBandit(g) ==
  /\ pc[g] \in {"record", "drain", "lead", "fleet", "apply", "failed", "unread"}
  /\ dmu = Nobody
  /\ dmu' = g
  /\ UNCHANGED <<pc, mu, banditVars, store, closeVars>>

----------------------------------------------------------------------------
(* Callers of the cache *)

\* Get, and the operations that only read (Peek, Contains, Len, Stats, ...).
CallRead(g) ==
  /\ pc[g] = "idle" /\ Goto(g, "read") /\ RLock(g)
  /\ UNCHANGED <<dmu, banditVars, store, closeVars>>

\* Add, Remove, Purge and Resize.
CallWrite(g) ==
  /\ pc[g] = "idle" /\ Goto(g, "write")
  /\ UNCHANGED <<lockVars, banditVars, store, closeVars>>

\* Fault: a Get that finds a window open asks for the write lock while it still
\* holds the read lock.
ReadUpgrades(g) ==
  /\ pc[g] = "read" /\ g \in mu.readers
  /\ \/ Goto(g, "slow") /\ UNCHANGED mu
     \/ RUnlock(g) /\ (Goto(g, "count") \/ Goto(g, "idle"))
  /\ UNCHANGED <<dmu, banditVars, store, closeVars>>

\* The read lock is given back: a Get that found a window open asks for the
\* write lock, another counts its request, the other operations are done.
ReadDone(g) ==
  /\ pc[g] = "read" /\ g \in mu.readers
  /\ RUnlock(g)
  /\ \E next \in {"slow", "count", "idle"} : Goto(g, next)
  /\ UNCHANGED <<dmu, banditVars, store, closeVars>>

\* An operation under the write lock.
WriteDone(g) ==
  /\ pc[g] \in {"slow", "write"} /\ Exclusive(g)
  /\ Unlock
  /\ Goto(g, IF pc[g] = "slow" THEN "count" ELSE "idle")
  /\ UNCHANGED <<dmu, banditVars, store, closeVars>>

\* countRequest: the Get that completes an epoch runs it.
CountRequest(g) ==
  /\ pc[g] = "count"
  /\ Goto(g, "idle") \/ Goto(g, "epoch")
  /\ UNCHANGED <<lockVars, banditVars, store, closeVars>>

----------------------------------------------------------------------------
(* Epochs *)

\* runAdaptiveSelect: a tick arrives.
Tick ==
  /\ pc[Ticker] = "select" /\ Goto(Ticker, "epoch")
  /\ UNCHANGED <<lockVars, banditVars, store, closeVars>>

\* runEpoch under the write lock: an epoch below its capacity gate reports
\* nothing, the others go to the bandit.
RunEpoch(g) ==
  /\ pc[g] = "epoch" /\ Exclusive(g)
  /\ \/ Unlock /\ Goto(g, Home(g))
     \/ Goto(g, "record") /\ UNCHANGED mu
  /\ UNCHANGED <<dmu, banditVars, store, closeVars>>

\* RecordEpoch under the bandit's lock, then SelectPolicy, which takes none,
\* the switch and the end of the epoch.
RecordEpoch(g) ==
  /\ pc[g] = "record" /\ dmu = g
  /\ dmu' = Nobody /\ haveShape' = TRUE
  /\ Unlock /\ Goto(g, Home(g))
  /\ UNCHANGED <<stale, fallback, store, closeVars>>

----------------------------------------------------------------------------
(* The coordination goroutine *)

\* coordinate: the timer fires.
TimerFires ==
  /\ pc[Coordinator] = "select" /\ Goto(Coordinator, "drain")
  /\ UNCHANGED <<lockVars, banditVars, store, closeVars>>

\* drain.
Drain ==
  /\ pc[Coordinator] = "drain" /\ dmu = Coordinator
  /\ dmu' = Nobody
  /\ Goto(Coordinator, IF haveShape THEN "sync" ELSE "select")
  /\ UNCHANGED <<mu, banditVars, store, closeVars>>

\* What follows a call that succeeded: a follower applies the decision, the
\* leader of a bucket reads the window, and decides if that holds evidence.
Onwards(call) ==
  CASE call = "sync"   -> {"apply", "lead", "window"}
    [] call = "window" -> {"fleet"}
    [] call = "decide" -> {"apply"}

\* A call to the store returns.
CallOk ==
  /\ pc[Coordinator] \in {"sync", "window", "decide"} /\ store = "up"
  /\ \E next \in Onwards(pc[Coordinator]) : Goto(Coordinator, next)
  /\ UNCHANGED <<lockVars, banditVars, store, closeVars>>

\* A call fails: the store is away until SyncTimeout ends, or Close cancelled
\* the context.
CallFails ==
  /\ pc[Coordinator] \in {"sync", "window", "decide"}
  /\ store = "down" \/ cancelled["bandit"]
  /\ Goto(Coordinator, IF pc[Coordinator] = "sync" THEN "failed" ELSE "unread")
  /\ UNCHANGED <<lockVars, banditVars, store, closeVars>>

\* leadBucket counts the leadership; recordFleet keeps what was read, and a
\* window without evidence ends in no decision.
Note ==
  /\ pc[Coordinator] \in {"lead", "fleet"} /\ dmu = Coordinator
  /\ dmu' = Nobody
  /\ IF pc[Coordinator] = "lead" THEN Goto(Coordinator, "window")
     ELSE Goto(Coordinator, "decide") \/ Goto(Coordinator, "apply")
  /\ UNCHANGED <<mu, banditVars, store, closeVars>>

\* Fault: sync does not return after a failed Sync.
RecordFailureGoesOn ==
  /\ pc[Coordinator] \in {"failed", "unread"} /\ dmu = Coordinator
  /\ dmu' = Nobody
  /\ fallback' = (fallback \/ stale)
  /\ Goto(Coordinator, "apply")
  /\ UNCHANGED <<mu, haveShape, stale, store, closeVars>>

\* recordFailure: after a failed Sync the round is over, after a failed Window
\* or Decide it goes on to applyResult.
RecordFailure ==
  /\ pc[Coordinator] \in {"failed", "unread"} /\ dmu = Coordinator
  /\ dmu' = Nobody
  /\ fallback' = (fallback \/ stale)
  /\ Goto(Coordinator, IF pc[Coordinator] = "failed" THEN "select" ELSE "apply")
  /\ UNCHANGED <<mu, haveShape, stale, store, closeVars>>

\* Fault: a round without a decision leaves the replica on its own.
ApplyKeepsFallback ==
  /\ pc[Coordinator] = "apply" /\ dmu = Coordinator
  /\ dmu' = Nobody /\ stale' = FALSE
  /\ fallback' \in {FALSE, fallback}
  /\ Goto(Coordinator, "select")
  /\ UNCHANGED <<mu, haveShape, store, closeVars>>

\* applyResult.
ApplyResult ==
  /\ pc[Coordinator] = "apply" /\ dmu = Coordinator
  /\ dmu' = Nobody /\ stale' = FALSE /\ fallback' = FALSE
  /\ Goto(Coordinator, "select")
  /\ UNCHANGED <<mu, haveShape, store, closeVars>>

----------------------------------------------------------------------------
(* Close *)

\* A goroutine's select takes the cancelled context; the deferred wg.Done is the
\* last thing it does.
Stop(o) ==
  /\ pc[Goroutine[o]] = "select" /\ cancelled[o]
  /\ wg' = [wg EXCEPT ![o] = @ - 1]
  /\ Goto(Goroutine[o], "stopped")
  /\ UNCHANGED <<lockVars, banditVars, store, once, cancelled>>

\* Fault: a Once that is a flag, set by the call that then runs the function.
CloseOnceIsAFlag(x) ==
  LET o == Closes[x]
  IN  /\ pc[x] \in {"idle", "queued"} /\ ~once[o].done /\ once[o].mutex = Nobody
      /\ once' = [once EXCEPT ![o] = [done |-> TRUE, mutex |-> x]]
      /\ cancelled' = [cancelled EXCEPT ![o] = TRUE]
      /\ Goto(x, "wait")
      /\ UNCHANGED <<lockVars, banditVars, store, wg>>

\* Fault: Close holds the cache's lock while it waits for the goroutine.
CloseUnderLock(x) ==
  LET o == Closes[x]
  IN  /\ pc[x] \in {"idle", "queued"} /\ ~once[o].done /\ once[o].mutex = Nobody
      /\ once' = [once EXCEPT ![o].mutex = x]
      /\ cancelled' = [cancelled EXCEPT ![o] = TRUE]
      /\ mu.writer = Nobody
      /\ mu' = [mu EXCEPT !.writer = IF o = "cache" THEN x ELSE Nobody]
      /\ Goto(x, "wait")
      /\ UNCHANGED <<dmu, banditVars, store, wg>>

\* Close, Once.Do: the call that gets the mutex of a Once that is not done runs
\* its function, which cancels the context and then waits.
CloseOnce(x) ==
  LET o == Closes[x]
  IN  /\ pc[x] \in {"idle", "queued"} /\ ~once[o].done /\ once[o].mutex = Nobody
      /\ once' = [once EXCEPT ![o].mutex = x]
      /\ cancelled' = [cancelled EXCEPT ![o] = TRUE]
      /\ Goto(x, "wait")
      /\ UNCHANGED <<lockVars, banditVars, store, wg>>

\* A call that comes while the function runs queues on the mutex.
CloseQueues(x) ==
  /\ pc[x] = "idle" /\ ~once[Closes[x]].done /\ once[Closes[x]].mutex # Nobody
  /\ Goto(x, "queued")
  /\ UNCHANGED <<lockVars, banditVars, store, closeVars>>

\* A call that finds the Once done, at once or when it gets the mutex, returns.
CloseAgain(x) ==
  /\ pc[x] \in {"idle", "queued"} /\ once[Closes[x]].done
  /\ Goto(x, "closed")
  /\ UNCHANGED <<lockVars, banditVars, store, closeVars>>

\* wg.Wait returns; with that the function of the Once is done and its mutex free.
CloseReturns(x) ==
  /\ pc[x] = "wait" /\ wg[Closes[x]] = 0
  /\ once' = [once EXCEPT ![Closes[x]] = [done |-> TRUE, mutex |-> Nobody]]
  /\ Goto(x, "closed")
  /\ UNCHANGED <<lockVars, banditVars, store, cancelled, wg>>

----------------------------------------------------------------------------
(* The world *)

\* The store goes away or comes back.
StoreChanges ==
  /\ store' \in {"up", "down"} \ {store}
  /\ UNCHANGED <<pc, lockVars, banditVars, closeVars>>

\* FallbackAfter passes without a sync.
GoStale ==
  /\ ~stale /\ stale' = TRUE
  /\ UNCHANGED <<pc, lockVars, haveShape, fallback, store, closeVars>>

Init ==
  /\ pc = [g \in Goroutines \cup Closers \cup {Coordinator} |->
             IF g \in {Ticker, Coordinator} THEN "select" ELSE "idle"]
  /\ mu = [writer |-> Nobody, readers |-> {}, parked |-> {}] /\ dmu = Nobody
  /\ haveShape = FALSE /\ stale = TRUE /\ fallback = FALSE
  /\ store \in {"up", "down"}
  /\ once = [o \in Objects |-> [done |-> FALSE, mutex |-> Nobody]]
  /\ cancelled = [o \in Objects |-> FALSE] /\ wg = [o \in Objects |-> 1]

\* What a goroutine in the cache does by itself, and what it may have to wait for.
Progress(g) ==
  \/ ReadDone(g) \/ WriteDone(g) \/ CountRequest(g) \/ RunEpoch(g) \/ RecordEpoch(g)
Waits(g) == Announce(g) \/ LockBandit(g)

\* What the coordination goroutine does by itself.
RoundStep ==
  TimerFires \/ Drain \/ CallOk \/ CallFails \/ Note \/ RecordFailure \/ ApplyResult

\* A call of Close, and what it does once it has to wait.
Close(x) == CloseOnce(x) \/ CloseQueues(x) \/ CloseAgain(x) \/ CloseReturns(x)
CloseGoesOn(x) == pc[x] # "idle" /\ Close(x)

Next ==
  \/ \E g \in Callers : CallRead(g) \/ CallWrite(g)
  \/ \E g \in Goroutines : Progress(g)
  \/ \E g \in Goroutines \cup {Coordinator} : Waits(g)
  \/ Tick \/ RoundStep
  \/ \E x \in Closers : Close(x)
  \/ \E o \in Objects : Stop(o)
  \/ StoreChanges \/ GoStale

\* A goroutine that can go on does.  A lock that is released again and again is
\* got in the end (sync.Mutex hands over to a waiter after a millisecond), and a
\* select that finds the cancelled context ready again and again takes it (it
\* picks at random).  Ticker and timer keep firing and time passes.  A call to the
\* store ends, by SyncTimeout if not by an answer: the Store interface demands
\* that its calls respect their context.
\* Nothing makes a caller call, a closer close, or the store come back.
Fairness ==
  /\ \A g \in Goroutines : WF_vars(Progress(g)) /\ SF_vars(Waits(g))
  /\ WF_vars(RoundStep) /\ SF_vars(Waits(Coordinator))
  /\ WF_vars(Tick) /\ WF_vars(GoStale)
  /\ \A o \in Objects : SF_vars(Stop(o))
  /\ WF_vars(\E x \in Closers : CloseGoesOn(x))

Spec == Init /\ [][Next]_vars /\ Fairness

----------------------------------------------------------------------------
(* Properties *)

\* Every call of the cache returns and every epoch ends, though the store may be
\* away, Close may be waiting and other callers keep taking the lock: an epoch
\* holds the cache's write lock while it takes the bandit's, and a Get gives up
\* one lock before it asks for the next (interfaces.go, Bandit; countRequest).
CallsReturn == \A g \in Goroutines : pc[g] # Home(g) ~> pc[g] \in {Home(g), "stopped"}

\* Close returns: for the cache though the goroutine it waits for may be waiting
\* for the cache's lock or the bandit's, for the bandit though a round trip may
\* be under way, and for a call that overlaps with another too.  (A closer calls
\* once, so a call that never returned would keep this false for ever.)
CloseEnds == []<>(\A x \in Closers : pc[x] \in {"idle", "closed"})

\* "Every call returns nil after the goroutine has stopped" (cache.go, Close):
\* also the calls that overlap with the one that runs the function of the Once,
\* and those that come when it is done.  What is closed holds none of the locks
\* and takes none again.
StoppedWhenClosed ==
  \A x \in Closers : pc[x] = "closed" =>
    LET g == Goroutine[Closes[x]]
    IN  pc[g] = "stopped" /\ mu.writer # g /\ g \notin mu.readers \cup mu.parked
                          /\ dmu # g

\* Who holds which lock, and where: a goroutine holds the cache's lock, or waits for it,
\* only inside an operation that needs it, so that it keeps none when it returns, asks
\* for the next one or is stopped; and an epoch that waits for the bandit has the cache
\* to itself (get, runEpoch, RecordEpoch).
LocksAreOwned ==
  /\ \A g \in mu.readers \cup mu.parked : pc[g] = "read"
  /\ mu.writer # Nobody => pc[mu.writer] \in {"slow", "write", "epoch", "record"}
  /\ dmu # Nobody =>
       pc[dmu] \in {"record", "drain", "lead", "fleet", "apply", "failed", "unread"}
  /\ \A g \in Goroutines : pc[g] = "record" => Exclusive(g)

\* Once the store is away for good a replica with evidence of its own ends up
\* deciding alone, and stays so (recordFailure, FallbackAfter).
OutageEndsInFallback ==
  (<>[](store = "down" /\ ~cancelled["bandit"]) /\ <>haveShape) => <>[]fallback

\* Once the store is back for good a replica returns to the fleet (applyResult).
RecoveryEndsFallback == <>[](store = "up" /\ ~cancelled["bandit"]) => <>[]~fallback

=============================================================================
