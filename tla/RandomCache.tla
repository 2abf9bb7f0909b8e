----------------------------- MODULE RandomCache -----------------------------
(***************************************************************************)
(* The random-eviction policy (policies/random.go): a map, a slice of its  *)
(* keys and an index from key to slot, so that drawing a victim and        *)
(* removing a key take constant time.  Every method holds the mutex.       *)
(***************************************************************************)
EXTENDS PolicyParams, Sequences

VARIABLES
  cache,        \* data, keys and index
  size,         \* capacity
  result        \* entries the last operation says it removed

vars == <<cache, size, result>>

----------------------------------------------------------------------------

\* trackLocked, then the store of the value.
Tracked(c, k, v) ==
  [data |-> [c.data EXCEPT ![k] = v], keys |-> Append(c.keys, k),
   index |-> [c.index EXCEPT ![k] = Len(c.keys) + 1]]

\* Fault: the key that moved keeps its old index.
UntrackedForgetsMove(c, k) ==
  LET last == Len(c.keys)
  IN  [keys  |-> SubSeq([c.keys EXCEPT ![c.index[k]] = c.keys[last]], 1, last - 1),
       index |-> [c.index EXCEPT ![k] = 0]]

\* untrackLocked: the last key moves into the freed slot.
Untracked(c, k) ==
  LET slot  == c.index[k]
      last  == Len(c.keys)
      moved == c.keys[last]
  IN  IF slot = 0 THEN [keys |-> c.keys, index |-> c.index]
      ELSE [keys  |-> SubSeq([c.keys EXCEPT ![slot] = moved], 1, last - 1),
            index |-> [c.index EXCEPT ![moved] = slot, ![k] = 0]]

\* removeLocked.
Removed(c, k) ==
  LET u == Untracked(c, k)
  IN  IF c.data[k] = None THEN c
      ELSE [data |-> Without(c.data, k), keys |-> u.keys, index |-> u.index]

\* n random removals, one drawn slot after the other.
Evictions(c, n) ==
  LET after[i \in 0 .. n] ==
        IF i = 0 THEN {c}
        ELSE UNION {{Removed(d, d.keys[j]) : j \in DOMAIN d.keys} : d \in after[i - 1]}
  IN  after[n]

\* Fault: one entry too many stays.
ExcessOffByOne(c, n) == IF Len(c.keys) > n + 1 THEN Len(c.keys) - n - 1 ELSE 0

\* How many keys are over n.
Excess(c, n) == IF Len(c.keys) > n THEN Len(c.keys) - n ELSE 0

----------------------------------------------------------------------------

\* Fault: room is made after the new entry is in.
AddThenEvict(k, v) ==
  /\ size > 0 /\ UNCHANGED size
  /\ LET c == IF cache.data[k] # None THEN [cache EXCEPT !.data[k] = v]
              ELSE Tracked(cache, k, v)
     IN  cache' \in Evictions(c, Excess(c, size)) /\ result' = Excess(c, size)

\* Add: room is made first, among the residents.  It reports whether it evicted.
Add(k, v) ==
  LET excess == Excess(cache, size - 1)
  IN  /\ UNCHANGED size
      /\ \/ /\ cache.data[k] # None
            /\ cache' = [cache EXCEPT !.data[k] = v] /\ result' = 0
         \/ /\ cache.data[k] = None /\ size <= 0
            /\ UNCHANGED cache /\ result' = 0
         \/ /\ cache.data[k] = None /\ size > 0
            /\ \E c \in Evictions(cache, excess) : cache' = Tracked(c, k, v)
            /\ result' = IF excess > 0 THEN 1 ELSE 0

\* Remove reports whether the key was there.
Remove(k) ==
  /\ cache' = Removed(cache, k)
  /\ result' = IF cache.data[k] # None THEN 1 ELSE 0
  /\ UNCHANGED size

Purge ==
  /\ cache' = [data |-> Empty, keys |-> <<>>, index |-> [k \in Keys |-> 0]]
  /\ UNCHANGED <<size, result>>

\* Resize, with evictLocked, which counts its evictions.
Resize(n) ==
  /\ size' = n
  /\ cache' \in Evictions(cache, Excess(cache, n))
  /\ result' = Excess(cache, n)

Init ==
  /\ cache = [data |-> Empty, keys |-> <<>>, index |-> [k \in Keys |-> 0]]
  /\ size = InitialSize /\ result = 0

Next ==
  \/ \E k \in Keys, v \in Values : Add(k, v)
  \/ \E k \in Keys : Remove(k)
  \/ Purge
  \/ \E n \in Sizes : Resize(n)

Spec == Init /\ [][Next]_vars

----------------------------------------------------------------------------
(* Properties *)

\* The three structures describe one set of keys: slot and index are inverse to
\* each other, and every tracked key has a value.  A victim drawn from keys is
\* then a resident entry, and evictLocked's loop makes progress.
SlotsMatchEntries ==
  /\ \A i \in DOMAIN cache.keys : /\ cache.data[cache.keys[i]] # None
                                  /\ cache.index[cache.keys[i]] = i
  /\ \A k \in Held(cache.data) : /\ cache.index[k] \in DOMAIN cache.keys
                                 /\ cache.keys[cache.index[k]] = k
  /\ \A k \in Keys \ Held(cache.data) : cache.index[k] = 0

\* Add, Remove and Resize report how many entries left the cache: an Add that
\* says it evicted something dropped one resident, never the entry it was given.
ResultsAreTrue ==
  [][\/ \E k \in Keys, v \in Values : Add(k, v)
     \/ \E k \in Keys : Remove(k)
     \/ \E n \in Sizes : Resize(n)
     => result' = Cardinality(Held(cache.data) \ Held(cache'.data))]_vars

Contract ==
  INSTANCE PolicyContract WITH data <- cache.data, cap <- size, Rejects <- FALSE,
                              Lossy <- FALSE

\* RandomCache is an eviction policy: it evicts only to make room, no more than
\* it must, changes no value it was not given, and stays within its capacity.
RandomIsAPolicy == Contract!Spec

=============================================================================
