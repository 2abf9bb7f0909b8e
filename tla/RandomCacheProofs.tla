-------------------------- MODULE RandomCacheProofs --------------------------
(***************************************************************************)
(* Machine-checked proofs about RandomCache, for every set of keys and     *)
(* values and every capacity: its slots and its index stay inverse to each *)
(* other, what it reports is what left, and it implements the contract of  *)
(* an eviction policy.                                                     *)
(***************************************************************************)
EXTENDS RandomCache, PolicyLemmas, FunctionTheorems, SequenceTheorems

----------------------------------------------------------------------------
(* The inductive invariant *)

\* The shape of the three structures.
Shaped(c) ==
  /\ c = [data |-> c.data, keys |-> c.keys, index |-> c.index]
  /\ IsContents(c.data) /\ c.keys \in Seq(Keys) /\ c.index \in [Keys -> Nat]

\* Slots and index are inverse to each other, and the tracked keys are the held ones.
Paired(c) ==
  /\ \A i \in 1 .. Len(c.keys) : c.data[c.keys[i]] # None /\ c.index[c.keys[i]] = i
  /\ \A k \in Keys : IF c.data[k] = None THEN c.index[k] = 0
                     ELSE c.index[k] \in 1 .. Len(c.keys) /\ c.keys[c.index[k]] = k

Sound(c) == Shaped(c) /\ Paired(c)

RandomInv == Sound(cache) /\ size \in Nat /\ Len(cache.keys) <= size

----------------------------------------------------------------------------
(* The operators *)

\* As many entries as slots.
LEMMA SlotsCount ==
  ASSUME NEW c, Sound(c)
  PROVE  /\ IsFiniteSet(Held(c.data)) /\ Cardinality(Held(c.data)) = Len(c.keys)
         /\ Len(c.keys) \in Nat
<1> DEFINE n == Len(c.keys)
           F == [i \in 1 .. n |-> c.keys[i]]
<1>1. n \in Nat /\ \A i \in 1 .. n : c.keys[i] \in Keys
  BY DEF Sound, Shaped
<1>2. F \in [1 .. n -> Held(c.data)]
  BY <1>1 DEF Sound, Paired, Held
<1>3. \A a, b \in 1 .. n : F[a] = F[b] => a = b
  BY <1>1 DEF Sound, Paired
<1>4. \A t \in Held(c.data) : \E s \in 1 .. n : F[s] = t
  BY <1>1 DEF Sound, Paired, Held
<1> HIDE DEF F, n
<1>5. F \in Bijection(1 .. n, Held(c.data))
  BY <1>2, <1>3, <1>4, Fun_IsBij
<1>6. ExistsBijection(1 .. n, Held(c.data))
  BY <1>5, Fun_ExistsBij
<1>7. IsFiniteSet(Held(c.data)) /\ Cardinality(Held(c.data)) = n
  BY <1>1, <1>6, FS_NatBijection, FS_CountingElements
<1> QED
  BY <1>1, <1>7 DEF n

\* removeLocked drops the entry and keeps the structures inverse to each other, also when
\* the key removed is the one in the last slot.
LEMMA RemovedFacts ==
  ASSUME NEW c, Sound(c), NEW k \in Keys, c.data[k] # None, NEW d, d = Removed(c, k)
  PROVE  Sound(d) /\ d.data = Without(c.data, k) /\ Len(d.keys) = Len(c.keys) - 1
<1> DEFINE slot == c.index[k]
           last == Len(c.keys)
           moved == c.keys[last]
           s == [c.keys EXCEPT ![slot] = moved]
<1>1. last \in Nat /\ slot \in 1 .. last /\ c.keys[slot] = k
  BY DEF Sound, Shaped, Paired
<1>2. last \in 1 .. last /\ moved \in Keys
  BY <1>1 DEF Sound, Shaped
<1>3. s \in Seq(Keys) /\ Len(s) = last
      /\ \A i \in 1 .. last : s[i] = IF i = slot THEN moved ELSE c.keys[i]
  BY <1>1, <1>2, ExceptSeq DEF Sound, Shaped
<1>4. /\ d = [data |-> Without(c.data, k), keys |-> SubSeq(s, 1, last - 1),
              index |-> [c.index EXCEPT ![moved] = slot, ![k] = 0]]
  <2> DEFINE f == [c.index EXCEPT ![moved] = slot, ![k] = 0]
             u == Untracked(c, k)
  <2>1. u = [keys |-> SubSeq(s, 1, last - 1), index |-> f]
    BY <1>1 DEF Untracked
  <2>2. d = [data |-> Without(c.data, k), keys |-> u.keys, index |-> u.index]
    BY DEF Removed
  <2> HIDE DEF f, u, s, last
  <2>3. u.keys = SubSeq(s, 1, last - 1) /\ u.index = f
    BY <2>1
  <2> QED
    BY <2>2, <2>3 DEF f
<1> HIDE DEF s
<1>5. /\ d.keys \in Seq(Keys) /\ Len(d.keys) = last - 1
      /\ \A i \in 1 .. last - 1 : d.keys[i] = s[i]
  <2>1. \A i \in 1 .. last - 1 : s[i] \in Keys
    BY <1>1, <1>3
  <2> QED
    BY <1>1, <1>4, <2>1, SubSeqProperties
<1>6. /\ d.data = Without(c.data, k) /\ IsContents(d.data)
      /\ d.data[k] = None /\ \A h \in Keys : h # k => d.data[h] = c.data[h]
  <2>1. IsContents(c.data)
    BY DEF Sound, Shaped
  <2> QED
    BY <1>4, <2>1, HeldFacts DEF Without, IsContents
<1>7. /\ d.index \in [Keys -> Nat] /\ d.index[k] = 0
      /\ moved # k => d.index[moved] = slot
      /\ \A h \in Keys : h # k /\ h # moved => d.index[h] = c.index[h]
  BY <1>1, <1>2, <1>4 DEF Sound, Shaped
<1>8. Shaped(d)
  BY <1>4, <1>5, <1>6, <1>7 DEF Shaped
<1>9. /\ \A i \in 1 .. last : /\ c.keys[i] \in Keys /\ c.data[c.keys[i]] # None
                             /\ c.index[c.keys[i]] = i
  BY DEF Sound, Shaped, Paired
<1> HIDE DEF slot, last, moved
<1>10. ASSUME NEW i \in 1 .. Len(d.keys)
       PROVE  d.data[d.keys[i]] # None /\ d.index[d.keys[i]] = i
  <2>1. i \in 1 .. last - 1 /\ i \in 1 .. last /\ i # last
    BY <1>1, <1>5
  <2>2. CASE i = slot
    <3>1. d.keys[i] = moved /\ moved # k
      BY <1>1, <1>2, <1>3, <1>5, <1>9, <2>1, <2>2 DEF moved
    <3> QED
      BY <1>2, <1>6, <1>7, <1>9, <2>2, <3>1 DEF moved
  <2>3. CASE i # slot
    <3>1. d.keys[i] = c.keys[i]
      BY <1>3, <1>5, <2>1, <2>3
    <3>2. c.keys[i] # k /\ c.keys[i] # moved
      BY <1>1, <1>2, <1>9, <2>1, <2>3 DEF moved
    <3> QED
      BY <1>6, <1>7, <1>9, <2>1, <3>1, <3>2
  <2> QED
    BY <2>2, <2>3
<1>11. ASSUME NEW h \in Keys
       PROVE  IF d.data[h] = None THEN d.index[h] = 0
              ELSE d.index[h] \in 1 .. Len(d.keys) /\ d.keys[d.index[h]] = h
  <2>1. IF c.data[h] = None THEN c.index[h] = 0
        ELSE c.index[h] \in 1 .. last /\ c.keys[c.index[h]] = h
    BY DEF Sound, Paired, last
  <2>2. CASE h = k
    BY <1>6, <1>7, <2>2
  <2>3. CASE h # k /\ h = moved
    <3>1. slot # last
      BY <1>1, <2>3 DEF moved
    <3>2. slot \in 1 .. last - 1
      BY <1>1, <3>1
    <3>3. d.index[h] = slot /\ d.keys[slot] = h /\ d.data[h] # None
      BY <1>1, <1>2, <1>3, <1>5, <1>6, <1>7, <1>9, <2>3, <3>2 DEF moved
    <3> QED
      BY <1>5, <3>2, <3>3
  <2>4. CASE h # k /\ h # moved
    <3>1. d.index[h] = c.index[h] /\ d.data[h] = c.data[h]
      BY <1>6, <1>7, <2>4
    <3>2. c.data[h] # None => c.index[h] # last /\ c.index[h] # slot
      BY <1>1, <2>1, <2>4 DEF moved
    <3>3. c.data[h] # None => /\ c.index[h] \in 1 .. last - 1
                             /\ d.keys[c.index[h]] = c.keys[c.index[h]]
      BY <1>1, <1>3, <1>5, <2>1, <3>2
    <3> QED
      BY <1>5, <2>1, <3>1, <3>3
  <2> QED
    BY <2>2, <2>3, <2>4
<1>12. Paired(d)
  BY <1>10, <1>11 DEF Paired
<1> QED
  BY <1>5, <1>6, <1>8, <1>12 DEF Sound, last

\* trackLocked and the store of the value add a slot.
LEMMA TrackedFacts ==
  ASSUME NEW c, Sound(c), NEW k \in Keys, c.data[k] = None, NEW v, v # None,
         NEW d, d = Tracked(c, k, v)
  PROVE  Sound(d) /\ d.data = [c.data EXCEPT ![k] = v] /\ Len(d.keys) = Len(c.keys) + 1
<1> DEFINE n == Len(c.keys)
<1>1. /\ n \in Nat /\ IsContents(c.data)
      /\ \A i \in 1 .. n : /\ c.keys[i] \in Keys /\ c.data[c.keys[i]] # None
                           /\ c.index[c.keys[i]] = i
  BY DEF Sound, Shaped, Paired
<1>2. d = [data |-> [c.data EXCEPT ![k] = v], keys |-> Append(c.keys, k),
           index |-> [c.index EXCEPT ![k] = n + 1]]
  BY DEF Tracked
<1>3. /\ d.keys \in Seq(Keys) /\ Len(d.keys) = n + 1
      /\ \A i \in 1 .. n : d.keys[i] = c.keys[i]
      /\ d.keys[n + 1] = k
  BY <1>2, AppendProperties DEF Sound, Shaped
<1>4. /\ d.data = [c.data EXCEPT ![k] = v] /\ IsContents(d.data)
      /\ d.data[k] = v /\ \A h \in Keys : h # k => d.data[h] = c.data[h]
  BY <1>1, <1>2, HeldFacts DEF IsContents
<1>5. /\ d.index \in [Keys -> Nat] /\ d.index[k] = n + 1
      /\ \A h \in Keys : h # k => d.index[h] = c.index[h]
  BY <1>1, <1>2 DEF Sound, Shaped
<1>6. Shaped(d)
  BY <1>2, <1>3, <1>4, <1>5 DEF Shaped
<1>7. ASSUME NEW i \in 1 .. Len(d.keys)
      PROVE  d.data[d.keys[i]] # None /\ d.index[d.keys[i]] = i
  <2>1. CASE i = n + 1
    BY <1>3, <1>4, <1>5, <2>1
  <2>2. CASE i # n + 1
    <3>1. i \in 1 .. n
      BY <1>1, <1>3, <2>2
    <3>2. c.keys[i] \in Keys /\ c.keys[i] # k /\ d.keys[i] = c.keys[i]
      BY <1>1, <1>3, <3>1
    <3> QED
      BY <1>1, <1>4, <1>5, <3>1, <3>2
  <2> QED
    BY <2>1, <2>2
<1>8. ASSUME NEW h \in Keys
      PROVE  IF d.data[h] = None THEN d.index[h] = 0
             ELSE d.index[h] \in 1 .. Len(d.keys) /\ d.keys[d.index[h]] = h
  <2>1. CASE h = k
    BY <1>1, <1>3, <1>4, <1>5, <2>1
  <2>2. CASE h # k
    <3>1. IF c.data[h] = None THEN c.index[h] = 0
          ELSE c.index[h] \in 1 .. n /\ c.keys[c.index[h]] = h
      BY DEF Sound, Paired
    <3>2. d.index[h] = c.index[h] /\ d.data[h] = c.data[h]
      BY <1>4, <1>5, <2>2
    <3> HIDE DEF n
    <3>3. c.index[h] \in 1 .. n => c.index[h] \in 1 .. n + 1
      BY <1>1
    <3> QED
      BY <1>3, <3>1, <3>2, <3>3
  <2> QED
    BY <2>1, <2>2
<1>9. Paired(d)
  BY <1>7, <1>8 DEF Paired
<1> QED
  BY <1>3, <1>4, <1>6, <1>9 DEF Sound

\* f is the function of the outcomes of up to n random removals.
EvictsUp(f, c, n) ==
  f = [i \in 0 .. n |->
         IF i = 0 THEN {c}
         ELSE UNION {{Removed(d, d.keys[j]) : j \in DOMAIN d.keys} : d \in f[i - 1]}]

LEMMA EvictsExist ==
  ASSUME NEW c, NEW n \in Nat
  PROVE  \E f : EvictsUp(f, c, n)
<1> DEFINE G(S) == UNION {{Removed(d, d.keys[j]) : j \in DOMAIN d.keys} : d \in S}
           S == {m \in Nat : \E f : EvictsUp(f, c, m)}
<1>1. 0 \in S
  <2> DEFINE f == [i \in 0 .. 0 |-> {c}]
  <2>1. EvictsUp(f, c, 0)
    BY DEF EvictsUp
  <2> QED
    BY <2>1
<1>2. ASSUME NEW m \in Nat, m \in S PROVE m + 1 \in S
  <2>1. PICK f : EvictsUp(f, c, m)
    BY <1>2
  <2> DEFINE g == [i \in 0 .. m + 1 |-> IF i = m + 1 THEN G(f[m]) ELSE f[i]]
  <2>2. \A i \in 0 .. m : f[i] = IF i = 0 THEN {c} ELSE G(f[i - 1])
    BY <2>1 DEF EvictsUp
  <2> HIDE DEF G
  <2>3. ASSUME NEW i \in 0 .. m + 1
        PROVE  g[i] = IF i = 0 THEN {c} ELSE G(g[i - 1])
    <3>1. CASE i = m + 1
      <4>1. i # 0 /\ m \in 0 .. m + 1 /\ m # m + 1
        BY <3>1
      <4>2. g[i] = G(f[m])
        BY <3>1
      <4>3. g[m] = f[m]
        BY <4>1
      <4>4. i - 1 = m
        BY <3>1
      <4> HIDE DEF g
      <4> QED
        BY <4>1, <4>2, <4>3, <4>4
    <3>2. CASE i # m + 1
      <4>1. i \in 0 .. m /\ (i # 0 => i - 1 \in 0 .. m + 1 /\ i - 1 # m + 1)
        BY <3>2
      <4>2. g[i] = f[i]
        BY <3>2
      <4>3. i # 0 => g[i - 1] = f[i - 1]
        BY <4>1
      <4> HIDE DEF g
      <4> QED
        BY <2>2, <4>1, <4>2, <4>3
    <3> QED
      BY <3>1, <3>2
  <2>4. g = [i \in 0 .. m + 1 |-> g[i]]
    OBVIOUS
  <2> HIDE DEF g
  <2>5. g = [i \in 0 .. m + 1 |-> IF i = 0 THEN {c} ELSE G(g[i - 1])]
    BY <2>3, <2>4
  <2>6. EvictsUp(g, c, m + 1)
    BY <2>5 DEF EvictsUp, G
  <2> QED
    BY <2>6
<1> HIDE DEF S
<1>3. n \in S
  BY <1>1, <1>2, NatSetInduction
<1> QED
  BY <1>3 DEF S

\* d is c with n entries gone.
Shrunk(c, d, n) ==
  /\ Sound(d) /\ Len(d.keys) + n = Len(c.keys)
  /\ Held(d.data) \subseteq Held(c.data) /\ d.data = Keep(c.data, Held(d.data))

\* The first removal of Evictions finds c itself, the others what the one before left.
LEMMA EvictionsUnfold ==
  ASSUME NEW c, NEW n \in Nat
  PROVE  \E f : EvictsUp(f, c, n) /\ Evictions(c, n) = f[n]
<1> DEFINE f == CHOOSE f : EvictsUp(f, c, n)
<1>1. EvictsUp(f, c, n)
  BY EvictsExist
<1>2. Evictions(c, n) = f[n]
  BY DEF Evictions, EvictsUp
<1> QED
  BY <1>1, <1>2

\* n random removals take n entries and change no other.
LEMMA EvictionsShrink ==
  ASSUME NEW c, Sound(c), NEW n \in Nat, NEW d \in Evictions(c, n)
  PROVE  Shrunk(c, d, n)
<1>1. PICK f : EvictsUp(f, c, n) /\ Evictions(c, n) = f[n]
  BY EvictionsUnfold
<1> DEFINE S == {m \in Nat : m <= n => \A e \in f[m] : Shrunk(c, e, m)}
<1>2. /\ f[0] = {c}
      /\ \A m \in Nat : m + 1 <= n =>
           \A e \in f[m + 1] : \E b \in f[m] : \E j \in DOMAIN b.keys :
             e = Removed(b, b.keys[j])
  <2>1. \A i \in 0 .. n : f[i] = IF i = 0 THEN {c}
          ELSE UNION {{Removed(b, b.keys[j]) : j \in DOMAIN b.keys} : b \in f[i - 1]}
    BY <1>1 DEF EvictsUp
  <2>2. f[0] = {c}
    <3>1. 0 \in 0 .. n
      OBVIOUS
    <3> QED
      BY <2>1, <3>1
  <2>3. ASSUME NEW m \in Nat, m + 1 <= n, NEW e \in f[m + 1]
        PROVE  \E b \in f[m] : \E j \in DOMAIN b.keys : e = Removed(b, b.keys[j])
    <3>1. m + 1 \in 0 .. n /\ m + 1 # 0 /\ (m + 1) - 1 = m
      BY <2>3
    <3>2. f[m + 1] = UNION {{Removed(b, b.keys[j]) : j \in DOMAIN b.keys} : b \in f[m]}
      BY <2>1, <3>1
    <3> QED
      BY <3>2
  <2> QED
    BY <2>2, <2>3
<1>3. 0 \in S
  <2>1. IsContents(c.data) /\ Len(c.keys) \in Nat
    BY SlotsCount DEF Sound, Shaped
  <2>2. c.data = Keep(c.data, Held(c.data))
    BY <2>1 DEF IsContents, Keep, Held
  <2> QED
    BY <1>2, <2>1, <2>2 DEF Shrunk
<1>4. ASSUME NEW m \in Nat, m \in S PROVE m + 1 \in S
  <2> SUFFICES ASSUME m + 1 <= n, NEW e \in f[m + 1] PROVE Shrunk(c, e, m + 1)
    OBVIOUS
  <2>1. PICK b \in f[m] : \E j \in DOMAIN b.keys : e = Removed(b, b.keys[j])
    BY <1>2
  <2>2. PICK j \in DOMAIN b.keys : e = Removed(b, b.keys[j])
    BY <2>1
  <2>3. Shrunk(c, b, m)
    BY <1>4
  <2>4. PICK k \in Keys : b.data[k] # None /\ e = Removed(b, k)
    <3>1. b.keys \in Seq(Keys) /\ Sound(b)
      BY <2>3 DEF Shrunk, Sound, Shaped
    <3>2. j \in 1 .. Len(b.keys) /\ b.keys[j] \in Keys
      BY <3>1
    <3>3. b.data[b.keys[j]] # None
      BY <3>1, <3>2 DEF Sound, Paired
    <3> QED
      BY <2>2, <3>2, <3>3
  <2>5. Sound(e) /\ e.data = Without(b.data, k) /\ Len(e.keys) = Len(b.keys) - 1
    BY <2>3, <2>4, RemovedFacts DEF Shrunk
  <2>6. Len(b.keys) \in Nat /\ Len(c.keys) \in Nat /\ IsContents(b.data)
    BY <2>3, SlotsCount DEF Shrunk, Sound, Shaped
  <2>7. Held(e.data) = Held(b.data) \ {k}
    BY <2>5, <2>6, HeldFacts
  <2>8. e.data = Keep(c.data, Held(e.data))
    <3>1. IsContents(c.data) /\ b.data = Keep(c.data, Held(b.data))
      BY <2>3 DEF Shrunk, Sound, Shaped
    <3>2. e.data = [h \in Keys |-> IF h = k THEN None ELSE b.data[h]]
      BY <2>5, <2>6 DEF Without, IsContents
    <3>3. \A h \in Keys : b.data[h] = IF h \in Held(b.data) THEN c.data[h] ELSE None
      BY <3>1 DEF Keep
    <3>4. \A h \in Keys : (IF h = k THEN None ELSE b.data[h])
                          = (IF h \in Held(e.data) THEN c.data[h] ELSE None)
      BY <2>7, <3>3
    <3> QED
      BY <3>2, <3>4 DEF Keep
  <2>9. Len(e.keys) + (m + 1) = Len(c.keys)
    <3>1. Len(b.keys) + m = Len(c.keys)
      BY <2>3 DEF Shrunk
    <3>2. \A x, y, z \in Int : x + m = y /\ z = x - 1 => z + (m + 1) = y
      OBVIOUS
    <3>3. Len(b.keys) \in Int /\ Len(c.keys) \in Int /\ Len(e.keys) \in Int
      BY <2>5, <2>6
    <3> QED
      BY <2>5, <3>1, <3>2, <3>3, Zenon
  <2>10. Held(e.data) \subseteq Held(c.data)
    BY <2>3, <2>7 DEF Shrunk
  <2> QED
    BY <2>5, <2>8, <2>9, <2>10 DEF Shrunk
<1> HIDE DEF S
<1>5. n \in S
  BY <1>3, <1>4, NatSetInduction
<1> QED
  BY <1>1, <1>5 DEF S

\* What is gone after n removals is n entries.
LEMMA ShrunkCount ==
  ASSUME NEW c, Sound(c), NEW n \in Nat, NEW d, Shrunk(c, d, n)
  PROVE  Cardinality(Held(c.data) \ Held(d.data)) = n
<1>1. /\ IsFiniteSet(Held(c.data)) /\ Cardinality(Held(c.data)) = Len(c.keys)
      /\ Cardinality(Held(d.data)) = Len(d.keys)
      /\ Len(c.keys) \in Nat /\ Len(d.keys) \in Nat
  BY SlotsCount DEF Shrunk
<1>2. Held(c.data) \cap Held(d.data) = Held(d.data)
  BY DEF Shrunk
<1>3. Cardinality(Held(c.data) \ Held(d.data)) =
        Cardinality(Held(c.data)) - Cardinality(Held(d.data))
  <2> DEFINE A == Held(c.data)
             B == Held(d.data)
  <2>1. IsFiniteSet(A) /\ A \cap B = B
    BY <1>1, <1>2
  <2> HIDE DEF A, B
  <2>2. Cardinality(A \ B) = Cardinality(A) - Cardinality(A \cap B)
    BY <2>1, FS_Difference
  <2> QED
    BY <2>1, <2>2 DEF A, B
<1> QED
  BY <1>1, <1>3 DEF Shrunk

\* One removal takes one resident.
LEMMA ShrunkByOne ==
  ASSUME NEW c, Sound(c), NEW d, Shrunk(c, d, 1)
  PROVE  \E x \in Held(c.data) : d.data = Without(c.data, x)
<1> DEFINE G == Held(c.data) \ Held(d.data)
<1>1. IsFiniteSet(G) /\ Cardinality(G) = 1
  <2>1. IsFiniteSet(Held(c.data)) /\ G \in SUBSET Held(c.data)
    BY SlotsCount
  <2> QED
    BY <2>1, FS_Subset, ShrunkCount
<1> HIDE DEF G
<1>2. G # {}
  BY <1>1, FS_EmptySet
<1>3. PICK x : x \in G
  BY <1>2
<1>4. G = {x}
  BY <1>1, <1>3, FS_Singleton
<1>5. x \in Held(c.data) /\ Held(d.data) = Held(c.data) \ {x}
  BY <1>4 DEF G, Shrunk
<1>6. d.data = Keep(c.data, Held(d.data)) /\ IsContents(c.data)
  BY DEF Shrunk, Sound, Shaped
<1>7. d.data = Without(c.data, x)
  <2>1. \A h \in Keys : (IF h \in Held(d.data) THEN c.data[h] ELSE None)
                        = (IF h = x THEN None ELSE c.data[h])
    BY <1>5 DEF Held
  <2>2. Without(c.data, x) = [h \in Keys |-> IF h = x THEN None ELSE c.data[h]]
    BY <1>6 DEF Without, IsContents
  <2> QED
    BY <1>6, <2>1, <2>2 DEF Keep
<1> QED
  BY <1>5, <1>7

----------------------------------------------------------------------------
(* The steps *)

\* The contract's view of one operation: what it sees of the cache is the contents.
LEMMA ContractFacts ==
  /\ Contract!Left = {cache.data} /\ Contract!Empty = Empty
  /\ \A c, k : Contract!Without(c, k) = Without(c, k)
  /\ \A c, n, k, v : Contract!AddOutcomes(c, n, k, v, FALSE) = AddOutcomes(c, n, k, v, FALSE)
  /\ \A c, n : Contract!ResizeOutcomes(c, n) = ResizeOutcomes(c, n)
<1>1. /\ \A c, k : Contract!Without(c, k) = Without(c, k)
      /\ \A c : Contract!Held(c) = Held(c)
      /\ \A c, S : Contract!Keep(c, S) = Keep(c, S)
      /\ Contract!Empty = Empty
  BY DEF Contract!Without, Without, Contract!Held, Held, Contract!Keep, Keep,
         Contract!Empty, Empty
<1>2. Contract!Left = {cache.data}
  BY DEF Contract!Left
<1>3. \A c, n, k, v : Contract!AddOutcomes(c, n, k, v, FALSE) = AddOutcomes(c, n, k, v, FALSE)
  BY DEF Contract!AddOutcomes, AddOutcomes, Contract!Held, Held, Contract!Without, Without,
         Contract!Cardinality, Cardinality
<1>4. \A c, n : Contract!ResizeOutcomes(c, n) = ResizeOutcomes(c, n)
  BY DEF Contract!ResizeOutcomes, ResizeOutcomes, Contract!Held, Held, Contract!Keep, Keep,
         Contract!Cardinality, Cardinality
<1> QED
  BY <1>1, <1>2, <1>3, <1>4

\* What a step of the operations must show: the invariant again, a step of the contract
\* and a true report.
Kept == RandomInv' /\ [Contract!Next]_(Contract!vars)
Told == result' = Cardinality(Held(cache.data) \ Held(cache'.data))

LEMMA RandomAdd ==
  ASSUME RandomInv, NEW k \in Keys, NEW v \in Values, Add(k, v)
  PROVE  Kept /\ Told
<1> DEFINE excess == Excess(cache, size - 1)
           with == [cache.data EXCEPT ![k] = v]
<1>1. /\ Sound(cache) /\ size \in Nat /\ size' = size /\ v # None
      /\ IsContents(cache.data) /\ Len(cache.keys) <= size
  BY ParamsAssumption DEF RandomInv, Add, Sound, Shaped
<1>2. /\ Len(cache.keys) \in Nat /\ IsFiniteSet(Held(cache.data))
      /\ Cardinality(Held(cache.data)) = Len(cache.keys)
  BY <1>1, SlotsCount
<1>3. IsContents(with) /\ Held(with) = Held(cache.data) \cup {k}
      /\ with[k] = v /\ \A h \in Keys : h # k => with[h] = cache.data[h]
  BY <1>1 DEF IsContents, Held
<1>4. ASSUME cache'.data \in AddOutcomes(cache.data, size, k, v, FALSE)
      PROVE  [Contract!Next]_(Contract!vars)
  <2>1. Contract!Add(k, v)
    BY <1>1, <1>4, ContractFacts DEF Contract!Add
  <2> QED
    BY <2>1 DEF Contract!Next
<1>5. CASE cache.data[k] # None
  <2>1. cache' = [cache EXCEPT !.data[k] = v] /\ result' = 0
    BY <1>5 DEF Add
  <2>2. /\ cache'.data = with /\ cache'.keys = cache.keys /\ cache'.index = cache.index
        /\ cache' = [data |-> with, keys |-> cache.keys, index |-> cache.index]
    BY <1>1, <2>1 DEF Sound, Shaped
  <2> HIDE DEF with
  <2>3. Shaped(cache')
    BY <1>1, <1>3, <2>2 DEF Sound, Shaped
  <2>4. \A h \in Keys : with[h] = None <=> cache.data[h] = None
    BY <1>1, <1>3, <1>5
  <2>5. Paired(cache')
    <3>1. \A i \in 1 .. Len(cache.keys) : cache.keys[i] \in Keys
      BY <1>1 DEF Sound, Shaped
    <3> QED
      BY <1>1, <2>2, <2>4, <3>1 DEF Sound, Paired
  <2>6. RandomInv'
    BY <1>1, <2>2, <2>3, <2>5 DEF RandomInv, Sound
  <2>7. Held(cache.data) \ Held(cache'.data) = {}
    BY <1>3, <2>2
  <2>8. cache'.data \in AddOutcomes(cache.data, size, k, v, FALSE)
    BY <1>5, <2>2 DEF AddOutcomes, Held, with
  <2> QED
    BY <1>4, <2>1, <2>6, <2>7, <2>8, FS_EmptySet DEF Kept, Told
<1>6. CASE cache.data[k] = None /\ size <= 0
  <2>1. cache' = cache /\ result' = 0
    BY <1>1, <1>6 DEF Add
  <2>2. Held(cache.data) \ Held(cache'.data) = {}
    BY <2>1
  <2> QED
    BY <1>1, <2>1, <2>2, FS_EmptySet DEF Kept, Told, RandomInv, Contract!vars
<1>7. CASE cache.data[k] = None /\ size > 0
  <2>1. /\ \E c \in Evictions(cache, excess) : cache' = Tracked(c, k, v)
        /\ result' = IF excess > 0 THEN 1 ELSE 0
    BY <1>1, <1>7 DEF Add
  <2>2. PICK c \in Evictions(cache, excess) : cache' = Tracked(c, k, v)
    BY <2>1
  <2>3. excess = IF Len(cache.keys) = size THEN 1 ELSE 0
    BY <1>1, <1>2, <1>7 DEF Excess
  <2>4. Shrunk(cache, c, excess)
    BY <1>1, <2>3, EvictionsShrink
  <2>5. Sound(c) /\ c.data[k] = None /\ Len(c.keys) \in Nat
        /\ Len(c.keys) + excess = Len(cache.keys)
        /\ Held(c.data) \subseteq Held(cache.data) /\ IsContents(c.data)
    <3>1. Sound(c) /\ Len(c.keys) \in Nat /\ IsContents(c.data)
          /\ Len(c.keys) + excess = Len(cache.keys)
          /\ Held(c.data) \subseteq Held(cache.data)
      BY <2>4, SlotsCount DEF Shrunk, Sound, Shaped
    <3>2. k \notin Held(cache.data)
      BY <1>7 DEF Held
    <3> QED
      BY <3>1, <3>2 DEF Held
  <2>6. /\ Sound(cache)' /\ cache'.data = [c.data EXCEPT ![k] = v]
        /\ Len(cache'.keys) = Len(c.keys) + 1
    BY <1>1, <2>2, <2>5, TrackedFacts
  <2> HIDE DEF excess
  <2>7. Len(cache'.keys) <= size
    <3>1. \A a, b, z \in Nat : a + z = b /\ b <= size /\ z = (IF b = size THEN 1 ELSE 0)
                                => a + 1 <= size
      BY <1>1
    <3>2. excess \in Nat
      BY <2>3
    <3> QED
      BY <1>1, <1>2, <2>3, <2>5, <2>6, <3>1, <3>2
  <2>8. RandomInv'
    BY <1>1, <2>6, <2>7 DEF RandomInv
  <2>9. k \notin Held(cache.data) /\ Held(cache'.data) = Held(c.data) \cup {k}
    BY <1>1, <1>7, <2>5, <2>6 DEF Held, IsContents
  <2>10. Told
    <3>1. Held(cache.data) \ Held(cache'.data) = Held(cache.data) \ Held(c.data)
      BY <2>9
    <3>2. Cardinality(Held(cache.data) \ Held(c.data)) = excess
      BY <1>1, <2>3, <2>4, ShrunkCount
    <3>3. result' = excess
      BY <2>1, <2>3
    <3> QED
      BY <3>1, <3>2, <3>3 DEF Told
  <2>11. cache'.data \in AddOutcomes(cache.data, size, k, v, FALSE)
    <3>1. CASE Len(cache.keys) # size
      <4>1. Cardinality(Held(cache.data)) < size
        BY <1>1, <1>2, <3>1
      <4>2. AddOutcomes(cache.data, size, k, v, FALSE) = {with}
        BY <4>1 DEF AddOutcomes
      <4>3. Held(c.data) = Held(cache.data)
        <5>1. Cardinality(Held(c.data)) = Cardinality(Held(cache.data))
          BY <1>2, <2>3, <2>5, <3>1, SlotsCount
        <5>2. Held(c.data) \in SUBSET Held(cache.data)
          BY <2>5
        <5> QED
          BY <1>2, <5>1, <5>2, FS_Subset
      <4>4. c.data = cache.data
        BY <1>1, <2>4, <4>3 DEF Shrunk, Keep, IsContents, Held
      <4> QED
        BY <2>6, <4>2, <4>4
    <3>2. CASE Len(cache.keys) = size
      <4>1. PICK x \in Held(cache.data) : c.data = Without(cache.data, x)
        BY <1>1, <2>3, <2>4, <3>2, ShrunkByOne
      <4>2. x # k
        BY <2>9
      <4>3. AddOutcomes(cache.data, size, k, v, FALSE)
              = {Without(with, y) : y \in Held(cache.data)}
        <5>1. ~(Cardinality(Held(cache.data)) < size)
          BY <1>1, <1>2, <3>2
        <5> QED
          BY <2>9, <5>1 DEF AddOutcomes
      <4>4. cache'.data = Without(with, x)
        <5>1. cache'.data = [[cache.data EXCEPT ![x] = None] EXCEPT ![k] = v]
          BY <2>6, <4>1 DEF Without
        <5>2. Without(with, x) = [[cache.data EXCEPT ![k] = v] EXCEPT ![x] = None]
          BY DEF Without
        <5> QED
          BY <1>1, <4>2, <5>1, <5>2 DEF IsContents
      <4> QED
        BY <4>3, <4>4
    <3> QED
      BY <3>1, <3>2
  <2> QED
    BY <1>4, <2>8, <2>10, <2>11 DEF Kept
<1> QED
  BY <1>1, <1>5, <1>6, <1>7

LEMMA RandomRemove ==
  ASSUME RandomInv, NEW k \in Keys, Remove(k)
  PROVE  Kept /\ Told
<1>1. /\ Sound(cache) /\ size \in Nat /\ size' = size /\ Len(cache.keys) <= size
      /\ IsContents(cache.data) /\ Len(cache.keys) \in Nat
      /\ cache' = Removed(cache, k)
      /\ result' = IF cache.data[k] # None THEN 1 ELSE 0
  BY SlotsCount DEF RandomInv, Remove, Sound, Shaped
<1>2. CASE cache.data[k] = None
  <2>1. cache' = cache /\ result' = 0
    BY <1>1, <1>2 DEF Removed
  <2>2. Held(cache.data) \ Held(cache'.data) = {}
    BY <2>1
  <2> QED
    BY <1>1, <2>1, <2>2, FS_EmptySet DEF Kept, Told, RandomInv, Contract!vars
<1>3. CASE cache.data[k] # None
  <2>1. /\ Sound(cache)' /\ cache'.data = Without(cache.data, k)
        /\ Len(cache'.keys) = Len(cache.keys) - 1
    BY <1>1, <1>3, RemovedFacts
  <2>2. RandomInv'
    BY <1>1, <2>1 DEF RandomInv
  <2>3. Contract!Remove(k)
    BY <1>1, <2>1, ContractFacts DEF Contract!Remove
  <2>4. Held(cache.data) \ Held(cache'.data) = {k}
    <3>1. Held(cache'.data) = Held(cache.data) \ {k}
      BY <1>1, <2>1, HeldFacts
    <3>2. k \in Held(cache.data)
      BY <1>3 DEF Held
    <3> QED
      BY <3>1, <3>2
  <2>5. Told
    BY <1>1, <1>3, <2>4, FS_Singleton DEF Told
  <2> QED
    BY <2>2, <2>3, <2>5 DEF Kept, Contract!Next
<1> QED
  BY <1>2, <1>3

\* An empty cache is sound.
LEMMA EmptyCache ==
  ASSUME NEW c, c = [data |-> Empty, keys |-> <<>>, index |-> [k \in Keys |-> 0]]
  PROVE  Sound(c) /\ c.data = Empty /\ Len(c.keys) = 0
<1>1. /\ c.data = Empty /\ c.keys = <<>> /\ c.index = [k \in Keys |-> 0]
      /\ Len(c.keys) = 0 /\ c.keys \in Seq(Keys)
  OBVIOUS
<1>2. Shaped(c)
  BY <1>1, EmptyFacts DEF Shaped
<1>3. Paired(c)
  BY <1>1 DEF Paired, Empty
<1> QED
  BY <1>1, <1>2, <1>3 DEF Sound

LEMMA RandomPurge ==
  ASSUME RandomInv, Purge
  PROVE  Kept
<1>1. /\ cache' = [data |-> Empty, keys |-> <<>>, index |-> [k \in Keys |-> 0]]
      /\ size' = size /\ size \in Nat
  BY DEF Purge, RandomInv
<1>2. Sound(cache)' /\ cache'.data = Empty /\ Len(cache'.keys) = 0
  BY <1>1, EmptyCache
<1>3. RandomInv'
  BY <1>1, <1>2 DEF RandomInv
<1>4. Contract!Purge
  BY <1>1, <1>2, ContractFacts DEF Contract!Purge
<1> QED
  BY <1>3, <1>4 DEF Kept, Contract!Next

LEMMA RandomResize ==
  ASSUME RandomInv, NEW n \in Sizes, Resize(n)
  PROVE  Kept /\ Told
<1> DEFINE excess == Excess(cache, n)
<1>1. /\ Sound(cache) /\ size' = n /\ n \in Nat /\ IsContents(cache.data)
      /\ cache' \in Evictions(cache, excess) /\ result' = excess
  BY ParamsAssumption DEF RandomInv, Resize, Sound, Shaped
<1>2. /\ Len(cache.keys) \in Nat /\ IsFiniteSet(Held(cache.data))
      /\ Cardinality(Held(cache.data)) = Len(cache.keys)
  BY <1>1, SlotsCount
<1>3. /\ excess \in Nat
      /\ excess = IF Len(cache.keys) > n THEN Len(cache.keys) - n ELSE 0
  BY <1>1, <1>2 DEF Excess
<1>4. Shrunk(cache, cache', excess)
  BY <1>1, <1>3, EvictionsShrink
<1>5. Told
  BY <1>1, <1>3, <1>4, ShrunkCount DEF Told
<1>6. /\ Sound(cache)' /\ Len(cache'.keys) + excess = Len(cache.keys)
      /\ Held(cache'.data) \subseteq Held(cache.data)
      /\ cache'.data = Keep(cache.data, Held(cache'.data))
  BY <1>4 DEF Shrunk
<1>7. /\ Len(cache'.keys) \in Nat /\ IsFiniteSet(Held(cache'.data))
      /\ Cardinality(Held(cache'.data)) = Len(cache'.keys)
  BY <1>6, SlotsCount
<1> HIDE DEF excess
<1>8. Len(cache'.keys) = IF Len(cache.keys) > n THEN n ELSE Len(cache.keys)
  <2>1. \A a, b, z \in Nat : a + z = b /\ z = (IF b > n THEN b - n ELSE 0)
                              => a = IF b > n THEN n ELSE b
    BY <1>1
  <2> QED
    BY <1>2, <1>3, <1>6, <1>7, <2>1
<1>9. RandomInv'
  BY <1>1, <1>2, <1>6, <1>8 DEF RandomInv
<1>10. cache'.data \in ResizeOutcomes(cache.data, n)
  <2>1. CASE Len(cache.keys) <= n
    <3>1. Cardinality(Held(cache'.data)) = Cardinality(Held(cache.data))
      BY <1>1, <1>2, <1>7, <1>8, <2>1
    <3>2. Held(cache'.data) \in SUBSET Held(cache.data)
      BY <1>6
    <3>3. Held(cache'.data) = Held(cache.data)
      BY <1>2, <3>1, <3>2, FS_Subset
    <3>4. cache'.data = cache.data
      BY <1>1, <1>6, <3>3 DEF Keep, IsContents, Held
    <3> QED
      BY <1>2, <2>1, <3>4 DEF ResizeOutcomes
  <2>2. CASE ~(Len(cache.keys) <= n)
    <3>1. Cardinality(Held(cache'.data)) = n
      BY <1>1, <1>2, <1>7, <1>8, <2>2
    <3> QED
      BY <1>2, <1>6, <2>2, <3>1 DEF ResizeOutcomes
  <2> QED
    BY <2>1, <2>2
<1>11. Contract!Resize(n)
  BY <1>1, <1>10, ContractFacts DEF Contract!Resize
<1> QED
  BY <1>5, <1>9, <1>11 DEF Kept, Contract!Next

LEMMA RandomInit == Init => RandomInv /\ Contract!Init
<1> SUFFICES ASSUME Init PROVE RandomInv /\ Contract!Init
  OBVIOUS
<1>1. Sound(cache) /\ cache.data = Empty /\ Len(cache.keys) = 0
  BY EmptyCache DEF Init
<1>2. size \in Nat \ {0}
  BY ParamsAssumption DEF Init
<1> QED
  BY <1>1, <1>2, ContractFacts DEF RandomInv, Contract!Init

\* Every step keeps the invariant and is one of the contract's.
LEMMA RandomStep == RandomInv /\ [Next]_vars => Kept
<1> SUFFICES ASSUME RandomInv, [Next]_vars PROVE Kept
  OBVIOUS
<1>1. ASSUME NEW k \in Keys, NEW v \in Values, Add(k, v) PROVE Kept
  BY <1>1, RandomAdd
<1>2. ASSUME NEW k \in Keys, Remove(k) PROVE Kept
  BY <1>2, RandomRemove
<1>3. CASE Purge
  BY <1>3, RandomPurge
<1>4. ASSUME NEW n \in Sizes, Resize(n) PROVE Kept
  BY <1>4, RandomResize
<1>5. CASE UNCHANGED vars
  BY <1>5 DEF vars, Kept, RandomInv, Contract!vars
<1> QED
  BY <1>1, <1>2, <1>3, <1>4, <1>5 DEF Next

----------------------------------------------------------------------------
(* The theorems *)

LEMMA RandomHolds == Spec => []RandomInv
<1>1. RandomInv /\ [Next]_vars => RandomInv'
  BY RandomStep DEF Kept
<1> QED
  BY <1>1, RandomInit, PTL DEF Spec

\* However entries come and go, data, keys and index (policies/random.go) describe one set
\* of keys: trackLocked and untrackLocked keep slot and index inverse to each other.
THEOREM SlotsStayMatched == Spec => []SlotsMatchEntries
<1>1. RandomInv => SlotsMatchEntries
  <2> SUFFICES ASSUME RandomInv PROVE SlotsMatchEntries
    OBVIOUS
  <2>1. DOMAIN cache.keys = 1 .. Len(cache.keys)
    BY DEF RandomInv, Sound, Shaped
  <2> QED
    BY <2>1 DEF RandomInv, Sound, Paired, SlotsMatchEntries, Held
<1> QED
  BY <1>1, RandomHolds, PTL

\* Add, Remove and Resize report how many entries left: ResultsAreTrue.
THEOREM ReportsAreTrue == Spec => ResultsAreTrue
<1>1. RandomInv /\ [Next]_vars =>
        [\/ \E k \in Keys, v \in Values : Add(k, v)
         \/ \E k \in Keys : Remove(k)
         \/ \E n \in Sizes : Resize(n)
         => result' = Cardinality(Held(cache.data) \ Held(cache'.data))]_vars
  BY RandomAdd, RandomRemove, RandomResize DEF Told
<1> QED
  BY <1>1, RandomHolds, PTL DEF Spec, ResultsAreTrue

\* RandomCache implements the contract of an eviction policy, whatever the capacities and
\* the keys: it evicts only to make room, never the entry it was given, and never holds
\* more than its capacity.
THEOREM RandomRefinesContract == Spec => RandomIsAPolicy
<1>1. RandomInv /\ [Next]_vars => [Contract!Next]_(Contract!vars)
  BY RandomStep DEF Kept
<1> QED
  BY <1>1, RandomInit, RandomHolds, PTL DEF Spec, RandomIsAPolicy, Contract!Spec

=============================================================================
