------------------------------- MODULE TTLCache -------------------------------
(***************************************************************************)
(* The TTL policy (policies/ttl.go): an LRU whose entries carry a deadline.*)
(* Expiry is lazy: an expired entry keeps its slot, and its place in the   *)
(* order of eviction, until it is read, overwritten or evicted, but no     *)
(* method shows it.  The LRU underneath is hashicorp's; every method holds *)
(* the mutex, so an operation is one action, and time passes between them. *)
(***************************************************************************)
EXTENDS TTLParams, KeyQueue

VARIABLES
  lru,          \* the LRU: entries, their deadlines (0 = none), their order;
                \* and, a ghost, when each was stored
  size,         \* capacity
  ttl,          \* lifetime of an entry
  now           \* the clock

vars == <<lru, size, ttl, now>>

----------------------------------------------------------------------------
(* hashicorp's LRU *)

EmptyLRU == [data |-> Empty, order |-> <<>>, deadline |-> [k \in Keys |-> 0],
             stored |-> [k \in Keys |-> 0]]

LRURemove(c, k) ==
  [c EXCEPT !.data = Without(@, k), !.order = Unqueued(@, k),
            !.deadline[k] = 0, !.stored[k] = 0]

\* Oldest entries are evicted until n remain.
LRUTrim(c, n) ==
  LET after[i \in 0 .. Len(c.order)] ==
        IF i = 0 THEN c
        ELSE LET d == after[i - 1]
             IN  IF Len(d.order) > n THEN LRURemove(d, Head(d.order)) ELSE d
  IN  after[Len(c.order)]

\* A read moves the entry to the young end.
LRUTouch(c, k) ==
  [c EXCEPT !.order = Append(Unqueued(@, k), k)]

\* Add: the new entry is young, and an insert may evict the oldest.
LRUAdd(c, n, k, v, deadline) ==
  LRUTrim([LRUTouch(c, k) EXCEPT !.data[k] = v, !.deadline[k] = deadline,
                                 !.stored[k] = now], n)

----------------------------------------------------------------------------

\* expired, for the entry of k.
Expired(k) == lru.deadline[k] # 0 /\ now > lru.deadline[k]

\* deadline.
Deadline == IF ttl <= 0 THEN 0 ELSE now + ttl

\* What Peek and Contains tell of every key.
Live == [k \in Keys |-> IF Expired(k) THEN None ELSE lru.data[k]]

\* Keys(), and Values() in the same order: the oldest first.
KeysResult == Among(lru.order, {k \in Keys : ~Expired(k)})

\* Len().
LenResult == IF ttl <= 0 THEN Len(lru.order) ELSE Len(KeysResult)

\* Fault: a cache of no capacity stores into the LRU under it.
AddToZero(k, v) ==
  /\ lru' = LRUAdd(lru, IF size > 0 THEN size ELSE 1, k, v, Deadline)
  /\ UNCHANGED <<size, ttl, now>>

Add(k, v) ==
  /\ \/ size <= 0 /\ UNCHANGED lru
     \/ size > 0 /\ lru' = LRUAdd(lru, size, k, v, Deadline)
  /\ UNCHANGED <<size, ttl, now>>

\* Fault: a read renews the deadline.
GetRenews(k) ==
  /\ lru.data[k] # None
  /\ lru' = IF Expired(k) THEN LRURemove(lru, k)
            ELSE [LRUTouch(lru, k) EXCEPT !.deadline[k] = Deadline]
  /\ UNCHANGED <<size, ttl, now>>

\* Get: an expired entry is dropped and reported as a miss.
Get(k) ==
  /\ lru.data[k] # None
  /\ lru' = IF Expired(k) THEN LRURemove(lru, k) ELSE LRUTouch(lru, k)
  /\ UNCHANGED <<size, ttl, now>>

\* Remove reports an expired entry as absent, but drops it like any other.
Remove(k) ==
  /\ lru' = LRURemove(lru, k)
  /\ UNCHANGED <<size, ttl, now>>

Purge ==
  /\ lru' = EmptyLRU
  /\ UNCHANGED <<size, ttl, now>>

\* Resize: 0 means empty, and never unlimited.
Resize(n) ==
  /\ size' = n
  /\ lru' = IF n = 0 THEN EmptyLRU ELSE LRUTrim(lru, n)
  /\ UNCHANGED <<ttl, now>>

\* Time passes.
Tick ==
  /\ now < MaxTime /\ now' = now + 1
  /\ UNCHANGED <<lru, size, ttl>>

Init ==
  /\ lru = EmptyLRU /\ size = InitialSize /\ ttl \in TTLs
  /\ now = 1

Next ==
  \/ \E k \in Keys, v \in Values : Add(k, v)
  \/ \E k \in Keys : Get(k) \/ Remove(k)
  \/ Purge
  \/ \E n \in Sizes : Resize(n)
  \/ Tick

Spec == Init /\ [][Next]_vars

----------------------------------------------------------------------------
(* Properties *)

\* An entry is served for exactly its lifetime: reads and the clock take it out
\* of sight when, and only when, more than ttl has passed since it was last
\* stored, so overwriting renews it and reading does not, and with no ttl it
\* never expires (expired, deadline, Get).
ExpiresOnTime ==
  [][(Tick \/ \E k \in Keys : Get(k)) =>
       \A k \in Held(Live) :
         k \in Held(Live)' <=> (ttl > 0 => now' - lru.stored[k] <= ttl)]_vars

Contract ==
  INSTANCE PolicyContract WITH data <- Live, cap <- size,
                               Rejects <- FALSE, Lossy <- TRUE

\* Seen through its methods the TTL cache is an eviction policy that may lose
\* entries to the clock: an entry that has gone stays gone until it is Added
\* again, no value changes unasked, and at most Cap entries are visible.  Peek,
\* Keys and Len agree on which, also in the shortcut Len takes without a ttl.
TTLIsAPolicy ==
  /\ Contract!Spec
  /\ [](Cardinality(Held(Live)) = LenResult /\ Len(KeysResult) = LenResult)

=============================================================================
