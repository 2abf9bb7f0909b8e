----------------------------- MODULE AdaptedCache -----------------------------
(***************************************************************************)
(* AdaptedCache (policies/adapt.go) around hashicorp's 2Q, as NewTwoQueue  *)
(* builds it (policies/adapters.go): the wrapper that turns a cache with   *)
(* neither eviction reports nor a Resize into a Cacher.  Every method      *)
(* holds the wrapper's mutex, so an operation is one action.               *)
(***************************************************************************)
EXTENDS PolicyParams, KeyQueue

VARIABLES
  cache,        \* the 2Q instance in use
  size,         \* the capacity Cap() reports
  result        \* entries the last operation says it removed

vars == <<cache, size, result>>

----------------------------------------------------------------------------
(* The 2Q cache: a recent and a frequent queue, both oldest first, and a   *)
(* queue of ghosts, keys lately evicted from the recent one.               *)

\* The capacity of the ghost queue.  An LRU of capacity 0 cannot be built.
GhostSize(n) == n \div 2
Buildable(n) == GhostSize(n) > 0

\* lru.New2Q(n).
Build(n) == [data |-> Empty, recent |-> <<>>, frequent |-> <<>>, ghosts |-> <<>>,
             cap |-> n]

\* Len().
Length(c) == Cardinality(Held(c.data))

\* Keys(): the frequent queue, then the recent one.
QKeys(c) == c.frequent \o c.recent

\* Remove(k): a key lives in one of the three queues at most.
QRemove(c, k) ==
  [c EXCEPT !.data = Without(@, k), !.frequent = Unqueued(@, k),
            !.recent = Unqueued(@, k), !.ghosts = Unqueued(@, k)]

\* The oldest recent key becomes a ghost, and the oldest ghost may be forgotten.
EvictRecent(c) ==
  LET k == Head(c.recent)
      g == Append(Unqueued(c.ghosts, k), k)
  IN  [c EXCEPT !.data = Without(@, k), !.recent = Tail(@),
                !.ghosts = IF Len(g) > GhostSize(c.cap) THEN Tail(g) ELSE g]

\* ensureSpace: a full cache evicts from the recent queue if that is over its
\* quarter (or at it, for a key that is no ghost), else from the frequent one.
EnsureSpace(c, ghost) ==
  LET quarter == c.cap \div 4
      recents == Len(c.recent)
  IN  IF Length(c) < c.cap THEN c
      ELSE IF recents > 0 /\ (recents > quarter \/ (recents = quarter /\ ~ghost))
           THEN EvictRecent(c)
           ELSE [c EXCEPT !.data = Without(@, Head(c.frequent)), !.frequent = Tail(@)]

\* The key goes to the young end of the frequent queue, with value v.
MakeFrequent(c, k, v) ==
  [c EXCEPT !.data[k] = v, !.recent = Unqueued(@, k), !.ghosts = Unqueued(@, k),
            !.frequent = Append(Unqueued(@, k), k)]

\* Add(k, v): a second access, or one that finds a ghost, makes a key frequent.
QAdd(c, k, v) ==
  IF c.data[k] # None THEN MakeFrequent(c, k, v)
  ELSE IF InQueue(c.ghosts, k) THEN MakeFrequent(EnsureSpace(c, TRUE), k, v)
  ELSE LET d == EnsureSpace(c, FALSE)
       IN  [d EXCEPT !.data[k] = v, !.recent = Append(@, k)]

----------------------------------------------------------------------------
(* The wrapper *)

\* Fault: the wrapper leaves its capacity to the cache underneath.
EnforceNothing(c, n) == c

\* enforceCapacityLocked: the first of Keys() goes until n are left.
EnforceCapacity(c, n) ==
  LET after[i \in 0 .. Length(c)] ==
        IF i = 0 THEN c
        ELSE LET d == after[i - 1]
             IN  IF Length(d) > n THEN QRemove(d, Head(QKeys(d))) ELSE d
  IN  after[Length(c)]

\* Fault: storing over a resident key counts as an eviction too.
AddCountsOverwrites(k, v) ==
  /\ size > 0
  /\ result' = IF Length(cache) >= size THEN 1 ELSE 0
  /\ cache' = EnforceCapacity(QAdd(cache, k, v), size)
  /\ UNCHANGED size

\* Add: whether it evicted is inferred before the insert.
Add(k, v) ==
  /\ \/ size <= 0 /\ UNCHANGED cache /\ result' = 0
     \/ /\ size > 0
        /\ result' = IF cache.data[k] = None /\ Length(cache) >= size THEN 1 ELSE 0
        /\ cache' = EnforceCapacity(QAdd(cache, k, v), size)
  /\ UNCHANGED size

\* Get: a read makes the key frequent.
Get(k) ==
  /\ cache.data[k] # None
  /\ cache' = MakeFrequent(cache, k, cache.data[k])
  /\ UNCHANGED <<size, result>>

Remove(k) ==
  /\ result' = IF cache.data[k] # None THEN 1 ELSE 0
  /\ cache' = QRemove(cache, k)
  /\ UNCHANGED size

Purge ==
  /\ cache' = Build(cache.cap)
  /\ UNCHANGED <<size, result>>

\* The entries of the old instance replayed into one of capacity n, in the order
\* of Keys().
Replayed(c, n) ==
  LET keys == QKeys(c)
      after[i \in 0 .. Len(keys)] ==
        IF i = 0 THEN Build(n) ELSE QAdd(after[i - 1], keys[i], c.data[keys[i]])
  IN  after[Len(keys)]

\* Resize: rebuild and replay; an instance that cannot be built leaves the old
\* one in use, trimmed to the new capacity.
Resize(n) ==
  LET next == IF n = size THEN cache
              ELSE IF n = 0 THEN Build(cache.cap)
              ELSE IF Buildable(n) THEN Replayed(cache, n)
              ELSE EnforceCapacity(cache, n)
  IN  /\ size' = n /\ cache' = next
      /\ result' = Length(cache) - Length(next)

Init ==
  /\ Buildable(InitialSize)
  /\ cache = Build(InitialSize) /\ size = InitialSize /\ result = 0

Next ==
  \/ \E k \in Keys, v \in Values : Add(k, v)
  \/ \E k \in Keys : Get(k) \/ Remove(k)
  \/ Purge
  \/ \E n \in Sizes : Resize(n)

Spec == Init /\ [][Next]_vars

----------------------------------------------------------------------------
(* Properties *)

\* The instance in use has the capacity the wrapper reports.
InStep == size = cache.cap

\* Entries that left the cache in a step.
Gone == Held(cache.data) \ Held(cache.data)'

\* What AdaptedCache reports is what happened, as long as the last rebuild
\* succeeded: Add, Remove and Resize return how many residents left, although the
\* cache underneath reports nothing and Resize replaces it wholesale.
ReportsAreInferred ==
  [][\/ InStep /\ \E k \in Keys, v \in Values : Add(k, v)
     \/ \E k \in Keys : Remove(k)
     \/ \E n \in Sizes : Resize(n)
     => result' = Cardinality(Gone)]_vars

\* What the comment of Add says in every state: Add stores the value, and says
\* that it evicted exactly when another entry left.
AddStoresAndReports ==
  [][\A k \in Keys, v \in Values :
       (Add(k, v) /\ size > 0) => /\ cache'.data[k] = v
                                  /\ result' = Cardinality(Gone)]_vars

Contract ==
  INSTANCE PolicyContract WITH data <- cache.data, cap <- size,
                               Rejects <- TRUE, Lossy <- FALSE

\* The adapted 2Q is an eviction policy that holds at most Cap entries at any
\* time, also while an instance built for more is in use because a rebuild
\* failed; then, and only then, an Add may turn its own entry away.
AdaptedIsAPolicy ==
  /\ Contract!Spec
  /\ [][\A k \in Keys, v \in Values :
          (Add(k, v) /\ InStep) => cache'.data[k] = v]_vars

=============================================================================
