--------------------------------- MODULE LFU ---------------------------------
(***************************************************************************)
(* The LFU policy: the frequency buckets of lfu/simplelfu and the locked   *)
(* wrapper lfu.Cache, with its buffer of evicted entries and the eviction  *)
(* callbacks it makes once the lock is released.                           *)
(*                                                                         *)
(* Every method of lfu.Cache holds its lock for all it does to the cache,  *)
(* so an operation is one action.  The callbacks are the caller's code and *)
(* touch nothing here; "called" is what the last operation reports.        *)
(***************************************************************************)
EXTENDS PolicyParams, Sequences

CONSTANT
  MaxFreq       \* bound: accesses counted per entry

ASSUME FreqAssumption == MaxFreq \in Nat

VARIABLES
  lfu,          \* items, frequency buckets, minFreq and the evicted buffer
  size,         \* capacity
  called        \* eviction callbacks of the last operation

vars == <<lfu, size, called>>

----------------------------------------------------------------------------
(* Buckets.  A state c of the LFU is a record: data and freq are the entries *)
(* (freq 0 where there is none), lists the buckets that exist, front first,  *)
(* evicted the wrapper's evictedKeys and evictedVals.                        *)

\* bucket.Remove(ent): what was behind the entry moves up.
Unlinked(s, k) ==
  LET slot == CHOOSE i \in DOMAIN s : s[i] = k
  IN  [i \in 1 .. Len(s) - 1 |-> IF i < slot THEN s[i] ELSE s[i + 1]]

\* delete(evictList, f).
WithoutBucket(lists, f) == [g \in DOMAIN lists \ {f} |-> lists[g]]

\* PushFront on bucket f, made first if it does not exist.
Pushed(lists, f, k) ==
  [g \in DOMAIN lists \cup {f} |->
     IF g # f THEN lists[g]
     ELSE <<k>> \o (IF f \in DOMAIN lists THEN lists[f] ELSE <<>>)]

\* recomputeMinFreq.
LeastOf(freqs) ==
  IF freqs = {} THEN 0 ELSE CHOOSE f \in freqs : \A g \in freqs : f <= g

\* Fault: the minimum is not moved along with the entry.
UpdateFreqKeepsMin(c, k) ==
  LET f    == c.freq[k]
      rest == Unlinked(c.lists[f], k)
      left == IF rest = <<>> THEN WithoutBucket(c.lists, f)
              ELSE [c.lists EXCEPT ![f] = rest]
  IN  [c EXCEPT !.freq[k] = f + 1, !.lists = Pushed(left, f + 1, k)]

\* updateFreq: move the entry to the next bucket.
UpdateFreq(c, k) ==
  LET f    == c.freq[k]
      rest == Unlinked(c.lists[f], k)
      left == IF rest = <<>> THEN WithoutBucket(c.lists, f)
              ELSE [c.lists EXCEPT ![f] = rest]
  IN  [c EXCEPT !.freq[k] = f + 1, !.lists = Pushed(left, f + 1, k),
                !.minFreq = IF rest = <<>> /\ @ = f THEN f + 1 ELSE @]

\* detach: unlink the entry and repair minFreq when its bucket disappears.
Detach(c, k) ==
  LET f    == c.freq[k]
      rest == Unlinked(c.lists[f], k)
      left == WithoutBucket(c.lists, f)
  IN  IF f \notin DOMAIN c.lists THEN c
      ELSE IF rest # <<>> THEN [c EXCEPT !.lists[f] = rest]
      ELSE [c EXCEPT !.lists = left,
                     !.minFreq = IF @ = f THEN LeastOf(DOMAIN left) ELSE @]

\* removeElement, and the tail of evictOldest: the entry goes, and onEvict puts
\* it into the wrapper's buffer.
Dropped(c, k) ==
  LET d == Detach(c, k)
  IN  [d EXCEPT !.data[k] = None, !.freq[k] = 0,
                !.evicted = Append(@, <<k, c.data[k]>>)]

\* Fault: the newest entry of the bucket is taken for the oldest.
OldestIsFront(c) ==
  IF Held(c.data) = {} \/ c.minFreq \notin DOMAIN c.lists THEN None
  ELSE Head(c.lists[c.minFreq])

\* oldest: the back of the bucket minFreq points at, or None.
Oldest(c) ==
  IF Held(c.data) = {} \/ c.minFreq \notin DOMAIN c.lists THEN None
  ELSE LET bucket == c.lists[c.minFreq] IN bucket[Len(bucket)]

\* evictOldest.
EvictOldest(c) == IF Oldest(c) = None THEN c ELSE Dropped(c, Oldest(c))

\* n rounds of evictOldest.
EvictMany(c, n) ==
  LET after[i \in 0 .. n] == IF i = 0 THEN c ELSE EvictOldest(after[i - 1])
  IN  after[n]

\* The end of Add for a key that is not there.
Inserted(c, k, v) ==
  [c EXCEPT !.data[k] = v, !.freq[k] = 1, !.lists = Pushed(@, 1, k), !.minFreq = 1]

----------------------------------------------------------------------------
(* The wrapper's methods *)

\* Report the first buffered entry if the operation says it evicted one.
ReportOne(c, happened) ==
  /\ called' = IF happened THEN {c.evicted[1]} ELSE {}
  /\ lfu' = IF happened THEN [c EXCEPT !.evicted = <<>>] ELSE c

\* Report all buffered entries.
ReportAll(c) ==
  /\ called' = {c.evicted[i] : i \in DOMAIN c.evicted}
  /\ lfu' = [c EXCEPT !.evicted = <<>>]

\* Fault: a cache of no capacity is not recognised.
AddToZero(k, v) ==
  LET full == Cardinality(Held(lfu.data)) > 0 /\ Cardinality(Held(lfu.data)) >= size
      room == IF full THEN EvictOldest(lfu) ELSE lfu
  IN  /\ lfu.freq[k] < MaxFreq /\ UNCHANGED size
      /\ IF lfu.data[k] # None
         THEN ReportOne(UpdateFreq([lfu EXCEPT !.data[k] = v], k), FALSE)
         ELSE ReportOne(Inserted(room, k, v), full)

Add(k, v) ==
  LET held == Cardinality(Held(lfu.data))
      full == held > 0 /\ held >= size /\ Oldest(lfu) # None
      room == IF full THEN EvictOldest(lfu) ELSE lfu
  IN  /\ lfu.freq[k] < MaxFreq
      /\ UNCHANGED size
      /\ \/ size <= 0 /\ ReportOne(lfu, FALSE)
         \/ /\ size > 0 /\ lfu.data[k] # None
            /\ ReportOne(UpdateFreq([lfu EXCEPT !.data[k] = v], k), FALSE)
         \/ /\ size > 0 /\ lfu.data[k] = None
            /\ ReportOne(Inserted(room, k, v), full)

\* ContainsOrAdd and PeekOrAdd: an Add only if the key is not there.
AddIfAbsent(k, v) == lfu.data[k] = None /\ Add(k, v)

Get(k) ==
  /\ lfu.data[k] # None /\ lfu.freq[k] < MaxFreq
  /\ ReportOne(UpdateFreq(lfu, k), FALSE)
  /\ UNCHANGED size

Remove(k) ==
  /\ LET present == lfu.data[k] # None
     IN  ReportOne(IF present THEN Dropped(lfu, k) ELSE lfu, present)
  /\ UNCHANGED size

RemoveOldest ==
  /\ ReportOne(EvictOldest(lfu), Oldest(lfu) # None)
  /\ UNCHANGED size

\* Purge reports the entries in the map's order, which is any order.
Purge ==
  /\ called' = {<<k, lfu.data[k]>> : k \in Held(lfu.data)}
  /\ lfu' = [data |-> Empty, freq |-> [k \in Keys |-> 0], lists |-> <<>>,
             minFreq |-> 0, evicted |-> <<>>]
  /\ UNCHANGED size

\* Fault: only the first of several evictions is reported.
ResizeReportsOne(n) ==
  LET over == Cardinality(Held(lfu.data)) - n
  IN  /\ ReportOne(EvictMany(lfu, IF over < 0 THEN 0 ELSE over), over > 0)
      /\ size' = n

Resize(n) ==
  LET over == Cardinality(Held(lfu.data)) - n
  IN  /\ ReportAll(EvictMany(lfu, IF over < 0 THEN 0 ELSE over))
      /\ size' = n

Init ==
  /\ lfu = [data |-> Empty, freq |-> [k \in Keys |-> 0], lists |-> <<>>,
            minFreq |-> 0, evicted |-> <<>>]
  /\ size = InitialSize
  /\ called = {}

Next ==
  \/ \E k \in Keys, v \in Values : Add(k, v) \/ AddIfAbsent(k, v)
  \/ \E k \in Keys : Get(k) \/ Remove(k)
  \/ RemoveOldest
  \/ Purge
  \/ \E n \in Sizes : Resize(n)

Spec == Init /\ [][Next]_vars

----------------------------------------------------------------------------
(* What callers see *)

Reversed(s) == [i \in 1 .. Len(s) |-> s[Len(s) + 1 - i]]

\* Keys(): the buckets by rising frequency, each from back to front.
KeysResult ==
  LET upTo[f \in 0 .. MaxFreq] ==
        IF f = 0 THEN <<>>
        ELSE upTo[f - 1] \o (IF f \in DOMAIN lfu.lists
                             THEN Reversed(lfu.lists[f]) ELSE <<>>)
  IN  upTo[MaxFreq]

----------------------------------------------------------------------------
(* Properties *)

\* What detach's comment calls its invariant: every bucket that exists holds an
\* entry, minFreq points at the smallest of them whenever the cache holds
\* anything, and buckets and entries agree: each entry is in the bucket of its
\* frequency, once, and nothing else is in a bucket.
BucketsMatchEntries ==
  /\ \A f \in DOMAIN lfu.lists :
       /\ lfu.lists[f] # <<>>
       /\ \A i \in DOMAIN lfu.lists[f] : lfu.freq[lfu.lists[f][i]] = f
       /\ \A i, j \in DOMAIN lfu.lists[f] : lfu.lists[f][i] = lfu.lists[f][j] => i = j
  /\ \A k \in Held(lfu.data) :
       /\ lfu.freq[k] \in DOMAIN lfu.lists
       /\ \E i \in DOMAIN lfu.lists[lfu.freq[k]] : lfu.lists[lfu.freq[k]][i] = k
  /\ \A k \in Keys : lfu.data[k] = None <=> lfu.freq[k] = 0
  /\ 0 \notin DOMAIN lfu.lists
  /\ Held(lfu.data) # {} => lfu.minFreq = LeastOf(DOMAIN lfu.lists)

\* Every entry that leaves the cache is reported to the eviction callback by the
\* operation that dropped it, with its last value, and nothing else is: nothing
\* waits in evictedKeys for a later operation to report in its place.
ReportsWhatLeft ==
  [][/\ called' = {<<k, lfu.data[k]>> : k \in Held(lfu.data) \ Held(lfu'.data)}
     /\ lfu'.evicted = <<>>]_vars

\* Keys() lists the entries in the order in which they would be evicted: what
\* Add, RemoveOldest and Resize evict is a prefix of it.  A migration reads
\* Keys() as that order.
EvictsInKeysOrder ==
  [][\/ RemoveOldest \/ (\E n \in Sizes : Resize(n))
     \/ (\E k \in Keys, v \in Values : Add(k, v))
     => LET left == Held(lfu.data) \ Held(lfu'.data)
        IN  left = {KeysResult[i] : i \in 1 .. Cardinality(left)}]_vars

Contract ==
  INSTANCE PolicyContract WITH data <- lfu.data, cap <- size, Rejects <- FALSE,
                              Lossy <- FALSE

\* The LFU is an eviction policy: it evicts only to make room, never what was
\* just added, never more than needed, and holds at most its capacity.
LFUIsAPolicy == Contract!Spec

=============================================================================
