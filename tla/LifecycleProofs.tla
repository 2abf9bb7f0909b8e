--------------------------- MODULE LifecycleProofs ---------------------------
(***************************************************************************)
(* Machine-checked proofs about Lifecycle, for every number of callers and *)
(* of calls to Close.  They are about safety; that calls and Close return  *)
(* rests on fairness and is left to TLC.                                   *)
(***************************************************************************)
EXTENDS Lifecycle, TLAPS

----------------------------------------------------------------------------
(* The inductive invariant *)

Procs == Goroutines \cup Closers \cup {Coordinator}

\* The labels where a goroutine needs the bandit's lock.
BanditLabels == {"record", "drain", "lead", "fleet", "apply", "failed", "unread"}

CallerLabels == {"idle", "read", "slow", "write", "count", "epoch", "record"}
TickerLabels == {"select", "epoch", "record", "stopped"}
CoordinatorLabels ==
  {"select", "drain", "sync", "window", "decide", "lead", "fleet", "apply", "failed",
   "unread", "stopped"}
CloserLabels == {"idle", "queued", "wait", "closed"}

\* Where each goroutine may be.
PlacesOK ==
  /\ pc = [g \in Procs |-> pc[g]]
  /\ \A g \in Callers : pc[g] \in CallerLabels
  /\ pc[Ticker] \in TickerLabels
  /\ pc[Coordinator] \in CoordinatorLabels
  /\ \A x \in Closers : pc[x] \in CloserLabels

\* The locks' shape; no reader waits while it reads.
LocksOK ==
  /\ mu \in [writer : Goroutines \cup {Nobody}, readers : SUBSET Goroutines,
             parked : SUBSET Goroutines]
  /\ dmu \in Goroutines \cup {Coordinator, Nobody}
  /\ mu.readers \cap mu.parked = {}

\* What a Once and a WaitGroup know: the counter says whether the goroutine is still
\* there, the Once is done only when it is not, and a Close has returned only when the
\* Once is done.
CloseOK ==
  /\ once \in [Objects -> [done : BOOLEAN, mutex : Closers \cup {Nobody}]]
  /\ wg \in [Objects -> Nat] /\ cancelled \in [Objects -> BOOLEAN]
  /\ \A o \in Objects : wg[o] = IF pc[Goroutine[o]] = "stopped" THEN 0 ELSE 1
  /\ \A o \in Objects : once[o].done => wg[o] = 0
  /\ \A x \in Closers : pc[x] = "closed" => once[Closes[x]].done

LifeInv == PlacesOK /\ LocksOK /\ LocksAreOwned /\ CloseOK

----------------------------------------------------------------------------
(* The steps *)

\* The processes are what they seem.
LEMMA ProcFacts ==
  /\ \A g \in Callers : g \in Procs /\ g \in Goroutines /\ g # Ticker
                        /\ g # Coordinator /\ g \notin Closers /\ g # Nobody
  /\ Ticker \in Procs /\ Ticker \in Goroutines /\ Ticker \notin Callers
  /\ Ticker # Coordinator /\ Ticker \notin Closers /\ Ticker # Nobody
  /\ Coordinator \in Procs /\ Coordinator \notin Goroutines
  /\ Coordinator \notin Closers /\ Coordinator # Nobody
  /\ \A x \in Closers : x \in Procs /\ x \notin Goroutines /\ x # Coordinator
  /\ \A g \in Goroutines : g \in Callers \/ g = Ticker
BY GoroutineAssumption DEF Procs, Goroutines

\* What Close waits for.
LEMMA GoroutineFacts ==
  ASSUME NEW x \in Closers
  PROVE  Closes[x] \in Objects /\ Goroutine[Closes[x]] \in {Ticker, Coordinator}
<1>1. Closes[x] \in Objects
  BY CloseAssumption DEF Objects
<1> QED
  BY <1>1 DEF Goroutine

\* The two goroutines are two.
LEMMA ObjectFacts ==
  /\ \A o \in Objects : Goroutine[o] \in {Ticker, Coordinator}
  /\ \A o, q \in Objects : Goroutine[o] = Goroutine[q] => o = q
BY GoroutineAssumption DEF Objects, Goroutine

\* A goroutine moves from one label to another.
LEMMA Moved ==
  ASSUME PlacesOK, NEW g \in Procs, NEW l, Goto(g, l)
  PROVE  /\ pc' = [h \in Procs |-> pc'[h]]
         /\ pc'[g] = l /\ \A h \in Procs : h # g => pc'[h] = pc[h]
BY DEF PlacesOK, Goto

LEMMA LifeInit == Init => LifeInv
<1> SUFFICES ASSUME Init PROVE LifeInv
  OBVIOUS
<1>1. pc = [g \in Procs |-> IF g \in {Ticker, Coordinator} THEN "select" ELSE "idle"]
  BY DEF Init, Procs
<1>2. PlacesOK
  BY <1>1, ProcFacts
     DEF PlacesOK, CallerLabels, TickerLabels, CoordinatorLabels, CloserLabels
<1>3. LocksOK
  BY DEF Init, LocksOK
<1>4. LocksAreOwned
  BY <1>1, ProcFacts DEF Init, LocksAreOwned
<1>5. CloseOK
  <2>1. \A o \in Objects : pc[Goroutine[o]] = "select"
    BY <1>1, ObjectFacts, ProcFacts
  <2>2. \A x \in Closers : pc[x] = "idle"
    BY <1>1, ProcFacts
  <2> QED
    BY <2>1, <2>2 DEF Init, CloseOK
<1> QED
  BY <1>2, <1>3, <1>4, <1>5 DEF LifeInv

\* A goroutine that neither stops nor returns from Close leaves Once and WaitGroup right.
LEMMA CloseKept ==
  ASSUME LifeInv, NEW g \in Procs, NEW l, Goto(g, l), UNCHANGED closeVars,
         pc[g] # "stopped", l # "stopped", l # "closed"
  PROVE  CloseOK'
<1>1. /\ pc'[g] = l /\ \A h \in Procs : h # g => pc'[h] = pc[h]
  BY Moved DEF LifeInv
<1>2. once' = once /\ wg' = wg /\ cancelled' = cancelled
  BY DEF closeVars
<1>3. \A o \in Objects : pc'[Goroutine[o]] = "stopped" <=> pc[Goroutine[o]] = "stopped"
  BY <1>1, ObjectFacts, ProcFacts
<1>4. \A x \in Closers : pc'[x] = "closed" => pc[x] = "closed"
  BY <1>1, ProcFacts
<1> QED
  BY <1>2, <1>3, <1>4 DEF LifeInv, CloseOK

\* A goroutine that holds no lock moves, and takes none.
LEMMA PureMove ==
  ASSUME LifeInv, NEW g \in Procs, NEW l, Goto(g, l), UNCHANGED lockVars,
         pc[g] \notin {"read", "slow", "write", "epoch"} \cup BanditLabels, l # "record"
  PROVE  LocksOK' /\ LocksAreOwned'
<1>1. /\ pc'[g] = l /\ \A h \in Procs : h # g => pc'[h] = pc[h]
  BY Moved DEF LifeInv
<1>2. mu' = mu /\ dmu' = dmu
  BY DEF lockVars
<1>3. LocksOK'
  BY <1>2 DEF LifeInv, LocksOK
<1>4. /\ mu.readers \subseteq Procs /\ mu.parked \subseteq Procs
      /\ mu.writer # Nobody => mu.writer \in Procs
      /\ dmu # Nobody => dmu \in Procs
  BY DEF LifeInv, LocksOK, Procs
<1>5. g \notin mu.readers \cup mu.parked /\ (mu.writer # Nobody => g # mu.writer)
      /\ (dmu # Nobody => g # dmu)
  BY DEF LifeInv, LocksAreOwned, BanditLabels
<1>6. LocksAreOwned'
  BY <1>1, <1>2, <1>4, <1>5, ProcFacts DEF LifeInv, LocksAreOwned, Exclusive, Procs
<1> QED
  BY <1>3, <1>6

\* The cache's lock changes hands, with the bandit's where it is or let go by g, which
\* moves to l and holds the cache's lock, if at all, in the way l says.
LEMMA LockMove ==
  ASSUME LifeInv, NEW g \in Goroutines, NEW l, Goto(g, l), LocksOK',
         dmu' = dmu \/ dmu' = Nobody,
         dmu' # g, dmu = g => dmu' = Nobody,
         \A h \in mu'.readers \cup mu'.parked :
           IF h = g THEN l = "read" ELSE h \in mu.readers \cup mu.parked,
         \/ mu'.writer = Nobody
         \/ mu'.writer = g /\ l = "record"
         \/ mu'.writer = mu.writer /\ mu.writer # g,
         l = "record" => mu'.writer = g /\ mu'.readers = {},
         \A h \in Goroutines : h # g /\ pc[h] = "record" =>
           mu'.writer = mu.writer /\ mu'.readers = mu.readers
  PROVE  LocksAreOwned'
<1>1. /\ pc'[g] = l /\ \A h \in Procs : h # g => pc'[h] = pc[h]
  BY Moved, ProcFacts DEF LifeInv
<1>2. /\ mu'.readers \subseteq Procs /\ mu'.parked \subseteq Procs
      /\ mu'.writer # Nobody => mu'.writer \in Procs
      /\ dmu' # Nobody => dmu' \in Procs
  BY DEF LocksOK, Procs
<1>3. \A h \in mu'.readers \cup mu'.parked : pc'[h] = "read"
  BY <1>1, <1>2 DEF LifeInv, LocksAreOwned
<1>4. mu'.writer # Nobody => pc'[mu'.writer] \in {"slow", "write", "epoch", "record"}
  BY <1>1, <1>2 DEF LifeInv, LocksAreOwned
<1>5. dmu' # Nobody => pc'[dmu'] \in BanditLabels
  BY <1>1, <1>2 DEF LifeInv, LocksAreOwned, BanditLabels
<1>6. \A h \in Goroutines : pc'[h] = "record" => mu'.writer = h /\ mu'.readers = {}
  BY <1>1, ProcFacts DEF LifeInv, LocksAreOwned, Exclusive, Procs
<1> QED
  BY <1>3, <1>4, <1>5, <1>6 DEF LocksAreOwned, Exclusive, BanditLabels

\* A goroutine that has the cache to itself gives it up, with the bandit's lock if it
\* holds that too.
LEMMA UnlockMove ==
  ASSUME LifeInv, NEW g \in Goroutines, NEW l, Goto(g, l), Exclusive(g), Unlock,
         pc[g] # "read", l # "record", l # "read",
         (dmu' = dmu /\ dmu # g) \/ dmu' = Nobody
  PROVE  LocksOK' /\ LocksAreOwned'
<1>1. g # Nobody
  BY ProcFacts
<1>2. /\ mu.writer = g /\ mu.readers = {}
      /\ mu'.writer = Nobody /\ mu'.readers = mu.parked /\ mu'.parked = {}
  BY DEF Exclusive, Unlock
<1>3. g \notin mu.parked
  BY DEF LifeInv, LocksAreOwned
<1>4. LocksOK'
  BY <1>2 DEF LifeInv, LocksOK, Unlock
<1>5. \A h \in Goroutines : h # g => pc[h] # "record"
  BY <1>2 DEF LifeInv, LocksAreOwned, Exclusive
<1> QED
  BY <1>1, <1>2, <1>3, <1>4, <1>5, LockMove

\* A goroutine moves within its labels.
LEMMA MovePlaces ==
  ASSUME LifeInv, NEW g \in Procs, NEW l, Goto(g, l),
         g \in Callers => l \in CallerLabels, g = Ticker => l \in TickerLabels,
         g = Coordinator => l \in CoordinatorLabels, g \in Closers => l \in CloserLabels
  PROVE  PlacesOK'
<1>1. /\ pc' = [h \in Procs |-> pc'[h]]
      /\ pc'[g] = l /\ \A h \in Procs : h # g => pc'[h] = pc[h]
  BY Moved DEF LifeInv
<1> QED
  BY <1>1, ProcFacts DEF LifeInv, PlacesOK

\* A goroutine asks for the cache's write lock.
LEMMA AnnounceStep ==
  ASSUME LifeInv, NEW g \in Goroutines, Announce(g)
  PROVE  LifeInv'
<1>1. /\ UNCHANGED <<pc, dmu, once, cancelled, wg>> /\ mu.writer = Nobody
      /\ mu' = [mu EXCEPT !.writer = g] /\ pc[g] \in {"slow", "write", "epoch"}
  BY DEF Announce, closeVars
<1>2. PlacesOK'
  BY <1>1 DEF LifeInv, PlacesOK
<1>3. LocksOK'
  BY <1>1 DEF LifeInv, LocksOK
<1>4. /\ mu'.writer = g /\ mu'.readers = mu.readers /\ mu'.parked = mu.parked
  BY <1>1 DEF LifeInv, LocksOK
<1>5. \A h \in Goroutines : pc[h] # "record"
  BY <1>1, ProcFacts DEF LifeInv, LocksAreOwned, Exclusive
<1>6. LocksAreOwned'
  BY <1>1, <1>4, <1>5 DEF LifeInv, LocksAreOwned, Exclusive
<1>7. CloseOK'
  BY <1>1 DEF LifeInv, CloseOK
<1> QED
  BY <1>2, <1>3, <1>6, <1>7 DEF LifeInv

\* A goroutine gets the bandit's lock.
LEMMA BanditLockStep ==
  ASSUME LifeInv, NEW g \in Goroutines \cup {Coordinator}, LockBandit(g)
  PROVE  LifeInv'
<1>1. UNCHANGED <<pc, mu, once, cancelled, wg>> /\ dmu' = g /\ pc[g] \in BanditLabels
  BY DEF LockBandit, BanditLabels, closeVars
<1>2. PlacesOK'
  BY <1>1 DEF LifeInv, PlacesOK
<1>3. LocksOK'
  BY <1>1 DEF LifeInv, LocksOK
<1>4. LocksAreOwned'
  BY <1>1 DEF LifeInv, LocksAreOwned, Exclusive, BanditLabels
<1>5. CloseOK'
  BY <1>1 DEF LifeInv, CloseOK
<1> QED
  BY <1>2, <1>3, <1>4, <1>5 DEF LifeInv

\* Callers and the ticker.
LEMMA GoroutineStep ==
  ASSUME LifeInv, NEW g \in Goroutines,
         (g \in Callers /\ (CallRead(g) \/ CallWrite(g))) \/ Progress(g)
         \/ (g = Ticker /\ Tick)
  PROVE  LifeInv'
<1>1. /\ g \in Procs /\ g # Coordinator /\ g \notin Closers /\ g # Nobody
      /\ g \in Callers \/ g = Ticker
      /\ pc[Ticker] \in TickerLabels /\ (g \in Callers => g # Ticker)
  BY ProcFacts DEF LifeInv, PlacesOK
<1>2. PICK l : Goto(g, l)
  BY DEF CallRead, CallWrite, Progress, ReadDone, WriteDone, CountRequest, RunEpoch,
         RecordEpoch, Tick
<1>3. /\ pc'[g] = l /\ \A h \in Procs : h # g => pc'[h] = pc[h]
  BY <1>1, <1>2, Moved DEF LifeInv
<1>4. pc[g] \in {"idle", "read", "slow", "write", "count", "epoch", "record", "select"}
  BY <1>1 DEF CallRead, CallWrite, Progress, ReadDone, WriteDone, CountRequest, RunEpoch,
         RecordEpoch, Tick
<1>5. PlacesOK'
  <2>1. g \in Callers => l \in CallerLabels
    BY <1>1, <1>3, Moved
       DEF CallRead, CallWrite, Progress, ReadDone, WriteDone, CountRequest, RunEpoch,
           RecordEpoch, Tick, Goto, CallerLabels, Home, LifeInv, PlacesOK
  <2>2. g = Ticker => l \in TickerLabels
    BY <1>1, <1>3, ProcFacts
       DEF CallRead, CallWrite, Progress, ReadDone, WriteDone, CountRequest, RunEpoch,
           RecordEpoch, Tick, Goto, TickerLabels, Home, LifeInv, PlacesOK
  <2> QED
    BY <1>1, <1>2, <2>1, <2>2, MovePlaces
<1>6. CloseOK'
  <2>1. UNCHANGED closeVars
    BY DEF CallRead, CallWrite, Progress, ReadDone, WriteDone, CountRequest, RunEpoch,
           RecordEpoch, Tick
  <2>2. l # "stopped" /\ l # "closed"
    BY <1>1, <1>3
       DEF CallRead, CallWrite, Progress, ReadDone, WriteDone, CountRequest, RunEpoch,
           RecordEpoch, Tick, Goto, Home, LifeInv, PlacesOK
  <2> QED
    BY <1>1, <1>2, <1>4, <2>1, <2>2, CloseKept
<1>7. LocksOK' /\ LocksAreOwned'
  <2>1. CASE CallWrite(g) \/ CountRequest(g) \/ (g = Ticker /\ Tick)
    <3>1. /\ UNCHANGED lockVars /\ pc[g] \in {"idle", "count", "select"}
          /\ l \in {"write", "idle", "epoch"}
      BY <1>1, <1>3, <2>1 DEF CallWrite, CountRequest, Tick, Goto, LifeInv, PlacesOK
    <3> QED
      BY <1>1, <1>2, <3>1, PureMove DEF BanditLabels
  <2>2. CASE CallRead(g)
    <3>1. pc[g] = "idle" /\ dmu' = dmu /\ RLock(g) /\ l = "read"
      BY <1>1, <1>3, <2>2 DEF CallRead, Goto, LifeInv, PlacesOK
    <3>2. dmu # g /\ mu.writer # g /\ g \notin mu.readers \cup mu.parked
      BY <1>1, <3>1 DEF LifeInv, LocksAreOwned
    <3>3. /\ mu'.writer = mu.writer
          /\ IF mu.writer = Nobody
               THEN mu'.readers = mu.readers \cup {g} /\ mu'.parked = mu.parked
               ELSE mu'.readers = mu.readers /\ mu'.parked = mu.parked \cup {g}
          /\ mu' \in [writer : Goroutines \cup {Nobody}, readers : SUBSET Goroutines,
                      parked : SUBSET Goroutines]
      BY <3>1 DEF RLock, LifeInv, LocksOK
    <3>4. LocksOK'
      BY <3>1, <3>2, <3>3 DEF LifeInv, LocksOK
    <3>5. \A h \in Goroutines : pc[h] = "record" => mu.writer # Nobody
      BY ProcFacts DEF LifeInv, LocksAreOwned, Exclusive
    <3> QED
      BY <1>2, <3>1, <3>2, <3>3, <3>4, <3>5, LockMove
  <2>3. CASE ReadDone(g)
    <3>1. /\ pc[g] = "read" /\ g \in mu.readers /\ dmu' = dmu /\ RUnlock(g)
          /\ l \in {"slow", "count", "idle"}
      BY <1>1, <1>3, <2>3 DEF ReadDone, Goto, LifeInv, PlacesOK
    <3>2. dmu # g /\ mu.writer # g /\ g \notin mu.parked
      BY <1>1, <3>1 DEF LifeInv, LocksOK, LocksAreOwned
    <3>3. /\ mu'.writer = mu.writer /\ mu'.readers = mu.readers \ {g}
          /\ mu'.parked = mu.parked
          /\ mu' \in [writer : Goroutines \cup {Nobody}, readers : SUBSET Goroutines,
                      parked : SUBSET Goroutines]
      BY <3>1 DEF RUnlock, LifeInv, LocksOK
    <3>4. LocksOK'
      BY <3>1, <3>2, <3>3 DEF LifeInv, LocksOK
    <3>5. \A h \in Goroutines : pc[h] # "record"
      BY <3>1 DEF LifeInv, LocksAreOwned, Exclusive
    <3> QED
      BY <1>2, <3>1, <3>2, <3>3, <3>4, <3>5, LockMove
  <2>4. CASE WriteDone(g)
    <3>1. /\ pc[g] \in {"slow", "write"} /\ Exclusive(g) /\ dmu' = dmu /\ Unlock
          /\ l \in {"count", "idle"}
      BY <1>1, <1>3, <2>4 DEF WriteDone, Goto, LifeInv, PlacesOK
    <3>2. dmu # g
      BY <1>1, <3>1 DEF LifeInv, LocksAreOwned
    <3> QED
      BY <1>1, <1>2, <1>4, <3>1, <3>2, UnlockMove
  <2>5. CASE RunEpoch(g)
    <3>1. pc[g] = "epoch" /\ Exclusive(g) /\ dmu' = dmu
      BY <2>5 DEF RunEpoch
    <3>2. dmu # g /\ g \notin mu.parked /\ g \notin mu.readers
      BY <1>1, <3>1 DEF LifeInv, LocksAreOwned
    <3>3. CASE Unlock /\ Goto(g, Home(g))
      <4>1. Home(g) # "record" /\ Home(g) # "read"
        BY DEF Home
      <4> QED
        BY <1>1, <1>3, <3>1, <3>2, <3>3, <4>1, UnlockMove
    <3>4. CASE Goto(g, "record") /\ UNCHANGED mu
      <4>1. LocksOK'
        BY <3>1, <3>4 DEF LifeInv, LocksOK
      <4>2. /\ mu'.writer = g /\ mu'.readers = {} /\ mu'.parked = mu.parked
            /\ mu'.writer = mu.writer /\ mu'.readers = mu.readers
        BY <3>1, <3>4 DEF Exclusive
      <4> QED
        BY <3>1, <3>2, <3>4, <4>1, <4>2, LockMove
    <3> QED
      BY <2>5, <3>3, <3>4 DEF RunEpoch
  <2>6. CASE RecordEpoch(g)
    <3>1. /\ pc[g] = "record" /\ dmu' = Nobody /\ Unlock /\ Goto(g, Home(g))
      BY <2>6 DEF RecordEpoch
    <3>2. Exclusive(g)
      BY <3>1 DEF LifeInv, LocksAreOwned
    <3>3. Home(g) # "record" /\ Home(g) # "read"
      BY DEF Home
    <3> QED
      BY <1>1, <3>1, <3>2, <3>3, UnlockMove
  <2> QED
    BY <2>1, <2>2, <2>3, <2>4, <2>5, <2>6 DEF Progress
<1> QED
  BY <1>5, <1>6, <1>7 DEF LifeInv

\* The coordination goroutine.
LEMMA CoordinatorStep ==
  ASSUME LifeInv, RoundStep
  PROVE  LifeInv'
<1> DEFINE g == Coordinator
<1>1. /\ g \in Procs /\ g \notin Goroutines /\ g \notin Callers /\ g # Ticker
      /\ g \notin Closers /\ g # Nobody
  BY ProcFacts
<1>2. PICK l \in CoordinatorLabels : Goto(g, l) /\ l # "record" /\ l # "stopped"
  BY DEF RoundStep, TimerFires, Drain, CallOk, CallFails, Note, RecordFailure, ApplyResult,
         Onwards, CoordinatorLabels
<1>3. /\ pc'[g] = l /\ \A h \in Procs : h # g => pc'[h] = pc[h]
  BY <1>1, <1>2, Moved DEF LifeInv
<1>4. pc[g] # "stopped" /\ pc[g] # "record" /\ mu' = mu
  BY DEF RoundStep, TimerFires, Drain, CallOk, CallFails, Note, RecordFailure, ApplyResult,
         lockVars
<1>5. PlacesOK'
  BY <1>1, <1>2, MovePlaces
<1>6. CloseOK'
  <2>1. UNCHANGED closeVars
    BY DEF RoundStep, TimerFires, Drain, CallOk, CallFails, Note, RecordFailure, ApplyResult
  <2> QED
    BY <1>1, <1>2, <1>4, <2>1, CloseKept DEF CoordinatorLabels
<1>7. \/ dmu' = Nobody
      \/ dmu' = dmu /\ pc[g] \in {"select", "sync", "window", "decide"}
  BY DEF RoundStep, TimerFires, Drain, CallOk, CallFails, Note, RecordFailure, ApplyResult,
         lockVars
<1>8. CASE dmu' = dmu /\ pc[g] \in {"select", "sync", "window", "decide"}
  <2>1. pc[g] \notin {"read", "slow", "write", "epoch"} \cup BanditLabels
    BY <1>8 DEF BanditLabels
  <2>2. LocksOK' /\ LocksAreOwned'
    BY <1>1, <1>2, <1>4, <1>8, <2>1, PureMove DEF lockVars
  <2> QED
    BY <1>5, <1>6, <2>2 DEF LifeInv
<1>9. CASE dmu' = Nobody
  <2>1. LocksOK'
    BY <1>4, <1>9 DEF LifeInv, LocksOK
  <2>2. /\ mu.readers \subseteq Goroutines /\ mu.parked \subseteq Goroutines
        /\ mu.writer # Nobody => mu.writer \in Goroutines
        /\ Goroutines \subseteq Procs
    BY DEF LifeInv, LocksOK, Procs
  <2>3. \A h \in Goroutines : pc'[h] = pc[h]
    BY <1>1, <1>3, <2>2
  <2>4. LocksAreOwned'
    BY <1>4, <1>9, <2>2, <2>3 DEF LifeInv, LocksAreOwned, Exclusive
  <2> QED
    BY <1>5, <1>6, <2>1, <2>4 DEF LifeInv
<1> QED
  BY <1>7, <1>8, <1>9

\* Close is called, waits and returns.
LEMMA CloserStep ==
  ASSUME LifeInv, NEW x \in Closers, Close(x)
  PROVE  LifeInv'
<1>1. /\ x \in Procs /\ x \notin Goroutines /\ x \notin Callers /\ x # Ticker
      /\ x # Coordinator
  BY ProcFacts
<1>2. /\ UNCHANGED lockVars /\ wg' = wg /\ pc[x] \in {"idle", "queued", "wait"}
      /\ cancelled' \in {cancelled, [cancelled EXCEPT ![Closes[x]] = TRUE]}
  BY DEF Close, CloseOnce, CloseQueues, CloseAgain, CloseReturns, closeVars
<1>3. PICK l \in CloserLabels :
        /\ Goto(x, l) /\ l # "record" /\ l # "stopped" /\ l # "idle"
        /\ \/ l # "closed" /\ once' = once
           \/ l # "closed" /\ once' = [once EXCEPT ![Closes[x]].mutex = x]
           \/ once' = once /\ once[Closes[x]].done
           \/ /\ wg[Closes[x]] = 0
              /\ once' = [once EXCEPT ![Closes[x]] = [done |-> TRUE, mutex |-> Nobody]]
  BY DEF Close, CloseOnce, CloseQueues, CloseAgain, CloseReturns, CloserLabels, closeVars
<1>4. PlacesOK'
  BY <1>1, <1>3, MovePlaces
<1>5. LocksOK' /\ LocksAreOwned'
  BY <1>1, <1>2, <1>3, PureMove DEF BanditLabels
<1>6. /\ pc'[x] = l /\ \A h \in Procs : h # x => pc'[h] = pc[h]
  BY <1>1, <1>3, Moved DEF LifeInv
<1>7. CloseOK'
  <2>1. Closes[x] \in Objects /\ \A y \in Closers : Closes[y] \in Objects
    BY GoroutineFacts
  <2>2. /\ once' \in [Objects -> [done : BOOLEAN, mutex : Closers \cup {Nobody}]]
        /\ cancelled' \in [Objects -> BOOLEAN] /\ wg' \in [Objects -> Nat]
    <3> DEFINE Onces == [done : BOOLEAN, mutex : Closers \cup {Nobody}]
    <3>1. once' \in [Objects -> Onces]
      <4>1. once \in [Objects -> Onces] /\ once[Closes[x]] \in Onces
        BY <2>1 DEF LifeInv, CloseOK
      <4>2. [once[Closes[x]] EXCEPT !.mutex = x] \in Onces
        BY <4>1
      <4>3. [done |-> TRUE, mutex |-> Nobody] \in Onces
        OBVIOUS
      <4> HIDE DEF Onces
      <4> QED
        BY <1>3, <2>1, <4>1, <4>2, <4>3
    <3>2. cancelled' \in [Objects -> BOOLEAN]
      BY <1>2, <2>1 DEF LifeInv, CloseOK
    <3> QED
      BY <1>2, <3>1, <3>2 DEF LifeInv, CloseOK
  <2>3. \A o \in Objects : pc'[Goroutine[o]] = pc[Goroutine[o]]
    BY <1>6, ObjectFacts, ProcFacts
  <2>4. \A o \in Objects : once[o].done => once'[o].done
    BY <1>3, <2>1 DEF LifeInv, CloseOK
  <2>5. \A o \in Objects : once'[o].done => once[o].done \/ wg[o] = 0
    BY <1>3, <2>1 DEF LifeInv, CloseOK
  <2>6. l = "closed" => once'[Closes[x]].done
    BY <1>3, <2>1 DEF LifeInv, CloseOK
  <2>7. \A y \in Closers : pc'[y] = "closed" => once'[Closes[y]].done
    BY <1>6, <2>1, <2>4, <2>6, ProcFacts DEF LifeInv, CloseOK
  <2> QED
    BY <1>2, <2>2, <2>3, <2>5, <2>7 DEF LifeInv, CloseOK
<1> QED
  BY <1>4, <1>5, <1>7 DEF LifeInv

\* A goroutine takes the cancelled context.
LEMMA StopStep ==
  ASSUME LifeInv, NEW o \in Objects, Stop(o)
  PROVE  LifeInv'
<1> DEFINE g == Goroutine[o]
<1>1. g \in {Ticker, Coordinator}
  BY DEF Objects, Goroutine
<1>2. /\ g \in Procs /\ g \notin Callers /\ g \notin Closers
  BY <1>1, ProcFacts
<1>3. /\ UNCHANGED lockVars /\ pc[g] = "select" /\ Goto(g, "stopped")
      /\ UNCHANGED <<once, cancelled>> /\ wg' = [wg EXCEPT ![o] = @ - 1]
  BY DEF Stop
<1>4. \A q \in Objects : q # o => Goroutine[q] # g
  BY ObjectFacts
<1>5. wg[o] = 1 /\ g = Goroutine[o]
  BY <1>3 DEF LifeInv, CloseOK
<1> HIDE DEF g
<1>6. PlacesOK'
  BY <1>2, <1>3, MovePlaces DEF TickerLabels, CoordinatorLabels
<1>7. /\ pc'[g] = "stopped" /\ \A h \in Procs : h # g => pc'[h] = pc[h]
  BY <1>2, <1>3, Moved DEF LifeInv
<1>8. CloseOK'
  <2>1. /\ wg' \in [Objects -> Nat] /\ wg'[o] = 0
        /\ \A q \in Objects : q # o => wg'[q] = wg[q]
    BY <1>3, <1>5 DEF LifeInv, CloseOK
  <2>2. \A q \in Objects : q # o => pc'[Goroutine[q]] = pc[Goroutine[q]]
    BY <1>4, <1>7, ObjectFacts, ProcFacts
  <2>3. \A x \in Closers : pc'[x] = pc[x]
    BY <1>2, <1>7, ProcFacts
  <2>4. \A q \in Objects : wg'[q] = IF pc'[Goroutine[q]] = "stopped" THEN 0 ELSE 1
    BY <1>5, <1>7, <2>1, <2>2 DEF LifeInv, CloseOK
  <2> QED
    BY <1>3, <2>1, <2>3, <2>4 DEF LifeInv, CloseOK
<1>9. LocksOK' /\ LocksAreOwned'
  BY <1>2, <1>3, PureMove DEF BanditLabels
<1> QED
  BY <1>6, <1>8, <1>9 DEF LifeInv

\* Every step keeps the invariant.
LEMMA LifeStep == LifeInv /\ [Next]_vars => LifeInv'
<1> SUFFICES ASSUME LifeInv, [Next]_vars PROVE LifeInv'
  OBVIOUS
<1>1. ASSUME NEW g \in Callers, CallRead(g) \/ CallWrite(g) PROVE LifeInv'
  BY <1>1, GoroutineStep DEF Goroutines
<1>2. ASSUME NEW g \in Goroutines, Progress(g) PROVE LifeInv'
  BY <1>2, GoroutineStep
<1>3. ASSUME NEW g \in Goroutines \cup {Coordinator}, Waits(g) PROVE LifeInv'
  <2>1. CASE LockBandit(g)
    BY <2>1, BanditLockStep
  <2>2. CASE Announce(g)
    <3>1. g \in Goroutines
      BY <2>2 DEF Announce, LifeInv, PlacesOK, CoordinatorLabels
    <3> QED
      BY <2>2, <3>1, AnnounceStep
  <2> QED
    BY <1>3, <2>1, <2>2 DEF Waits
<1>4. CASE Tick
  BY <1>4, GoroutineStep DEF Goroutines
<1>5. CASE RoundStep
  BY <1>5, CoordinatorStep
<1>6. ASSUME NEW x \in Closers, Close(x) PROVE LifeInv'
  BY <1>6, CloserStep
<1>7. ASSUME NEW o \in Objects, Stop(o) PROVE LifeInv'
  BY <1>7, StopStep
<1>8. CASE StoreChanges \/ GoStale \/ UNCHANGED vars
  <2>1. UNCHANGED <<pc, mu, dmu, once, cancelled, wg>>
    BY <1>8 DEF StoreChanges, GoStale, vars, lockVars, closeVars
  <2> QED
    BY <2>1 DEF LifeInv, PlacesOK, LocksOK, LocksAreOwned, Exclusive, CloseOK
<1> QED
  BY <1>1, <1>2, <1>3, <1>4, <1>5, <1>6, <1>7, <1>8 DEF Next

\* The invariant holds throughout.
LEMMA LifeHolds == Spec => []LifeInv
BY LifeInit, LifeStep, PTL DEF Spec

----------------------------------------------------------------------------
(* The theorems *)

\* Close (cache.go, bandit/distributed.go) returns only after the goroutine it stops has
\* stopped and holds no lock, whichever of any number of overlapping calls it is and
\* whichever way it takes through the Once: StoppedWhenClosed.
THEOREM ClosedMeansStopped == Spec => []StoppedWhenClosed
<1>1. ASSUME LifeInv PROVE StoppedWhenClosed
  <2> SUFFICES ASSUME NEW x \in Closers, pc[x] = "closed", NEW g, g = Goroutine[Closes[x]]
               PROVE  /\ pc[g] = "stopped" /\ mu.writer # g
                      /\ g \notin mu.readers \cup mu.parked /\ dmu # g
    BY DEF StoppedWhenClosed
  <2>1. Closes[x] \in Objects /\ g # Nobody
    BY GoroutineFacts, ProcFacts
  <2>2. pc[g] = "stopped"
    BY <1>1, <2>1 DEF LifeInv, CloseOK
  <2> QED
    BY <1>1, <2>1, <2>2 DEF LifeInv, LocksAreOwned
<1> QED
  BY <1>1, LifeHolds, PTL

\* Whatever the interleaving of calls, epochs and rounds, a goroutine holds a lock only
\* inside an operation that needs it, and an epoch that reports to the bandit has the
\* cache to itself: LocksAreOwned (get, runEpoch, RecordEpoch, drain, applyResult).
THEOREM LocksFollowOperations == Spec => []LocksAreOwned
<1>1. LifeInv => LocksAreOwned
  BY DEF LifeInv
<1> QED
  BY <1>1, LifeHolds, PTL

=============================================================================
