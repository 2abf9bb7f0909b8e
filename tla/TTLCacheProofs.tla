---------------------------- MODULE TTLCacheProofs ----------------------------
(***************************************************************************)
(* Machine-checked proofs about TTLCache, for every set of keys, values    *)
(* and lifetimes and every capacity: an entry is served for exactly its    *)
(* lifetime, and the cache implements the contract of an eviction policy   *)
(* that may lose entries to the clock.                                     *)
(***************************************************************************)
EXTENDS TTLCache, PolicyLemmas

----------------------------------------------------------------------------
(* The inductive invariant *)

\* The order lists the entries, each once.
Sound(c) ==
  /\ c = [data |-> c.data, order |-> c.order, deadline |-> c.deadline,
          stored |-> c.stored]
  /\ IsContents(c.data) /\ Lists(c.order, Held(c.data))
  /\ c.deadline \in [Keys -> Int] /\ c.stored \in [Keys -> Nat]

\* At instant n every entry has the deadline a lifetime of t gives it.
Dated(c, t, n) ==
  \A k \in Held(c.data) :
    c.stored[k] <= n /\ c.deadline[k] = IF t <= 0 THEN 0 ELSE c.stored[k] + t

TTLInv ==
  /\ Sound(lru) /\ Dated(lru, ttl, now) /\ Len(lru.order) <= size
  /\ size \in Nat /\ ttl \in Int /\ now \in Nat

----------------------------------------------------------------------------
(* The LRU *)

\* d is c with some entries gone.
Fewer(c, d) ==
  /\ Sound(d) /\ Held(d.data) \subseteq Held(c.data)
  /\ \A k \in Held(d.data) : /\ d.data[k] = c.data[k] /\ d.deadline[k] = c.deadline[k]
                             /\ d.stored[k] = c.stored[k]

LEMMA FewerTransitive ==
  ASSUME NEW a, NEW b, NEW c, Fewer(a, b), Fewer(b, c)
  PROVE  Fewer(a, c)
BY DEF Fewer

LEMMA FewerDated ==
  ASSUME NEW c, NEW d, Fewer(c, d), NEW t, NEW n, Dated(c, t, n)
  PROVE  Dated(d, t, n)
BY DEF Fewer, Dated

LEMMA EmptySound ==
  /\ Sound(EmptyLRU) /\ EmptyLRU.data = Empty /\ Held(EmptyLRU.data) = {}
  /\ Len(EmptyLRU.order) = 0
<1>1. /\ EmptyLRU.data = Empty /\ EmptyLRU.order = <<>>
      /\ EmptyLRU.deadline = [k \in Keys |-> 0] /\ EmptyLRU.stored = [k \in Keys |-> 0]
      /\ EmptyLRU = [data |-> EmptyLRU.data, order |-> EmptyLRU.order,
                     deadline |-> EmptyLRU.deadline, stored |-> EmptyLRU.stored]
  BY DEF EmptyLRU
<1> QED
  BY <1>1, EmptyFacts, ListsEmpty DEF Sound

\* Removing a key takes its entry out, and nothing else.
LEMMA RemoveFacts ==
  ASSUME NEW c, Sound(c), NEW k \in Keys, NEW d, d = LRURemove(c, k)
  PROVE  /\ Fewer(c, d) /\ d.data = Without(c.data, k) /\ Held(d.data) = Held(c.data) \ {k}
         /\ d.order = Unqueued(c.order, k)
<1>1. d = [data |-> Without(c.data, k), order |-> Unqueued(c.order, k),
           deadline |-> [c.deadline EXCEPT ![k] = 0], stored |-> [c.stored EXCEPT ![k] = 0]]
  BY DEF LRURemove, Sound
<1>2. /\ d.data = Without(c.data, k) /\ d.order = Unqueued(c.order, k)
      /\ d.deadline = [c.deadline EXCEPT ![k] = 0] /\ d.stored = [c.stored EXCEPT ![k] = 0]
      /\ d = [data |-> d.data, order |-> d.order, deadline |-> d.deadline,
              stored |-> d.stored]
  BY <1>1
<1>3. IsContents(d.data) /\ Held(d.data) = Held(c.data) \ {k}
  BY <1>2, HeldFacts DEF Sound
<1>4. Lists(d.order, Held(d.data))
  BY <1>2, <1>3, UnqueuedLists DEF Sound
<1>5. d.deadline \in [Keys -> Int] /\ d.stored \in [Keys -> Nat]
  BY <1>2 DEF Sound
<1>6. \A h \in Keys : h # k => /\ d.data[h] = c.data[h] /\ d.deadline[h] = c.deadline[h]
                               /\ d.stored[h] = c.stored[h]
  BY <1>2 DEF Sound, IsContents, Without
<1>7. \A h \in Held(d.data) : h \in Keys /\ h # k
  BY <1>3 DEF Held
<1> QED
  BY <1>2, <1>3, <1>4, <1>5, <1>6, <1>7 DEF Sound, Fewer

\* A read of a resident key changes the order only.
LEMMA TouchFacts ==
  ASSUME NEW c, Sound(c), NEW k \in Held(c.data), NEW d, d = LRUTouch(c, k)
  PROVE  /\ Sound(d) /\ d.data = c.data /\ d.deadline = c.deadline /\ d.stored = c.stored
         /\ Len(d.order) = Len(c.order)
<1> DEFINE q == Unqueued(c.order, k)
<1>1. d = [data |-> c.data, order |-> Append(q, k), deadline |-> c.deadline,
           stored |-> c.stored]
  BY DEF LRUTouch, Sound
<1>2. /\ d.data = c.data /\ d.order = Append(q, k)
      /\ d.deadline = c.deadline /\ d.stored = c.stored
      /\ d = [data |-> d.data, order |-> d.order, deadline |-> d.deadline,
              stored |-> d.stored]
  BY <1>1
<1>3. k \in Keys
  BY DEF Held
<1>4. Lists(q, Held(c.data) \ {k})
  BY UnqueuedLists DEF Sound
<1> HIDE DEF q
<1>5. Lists(Append(q, k), (Held(c.data) \ {k}) \cup {k})
  BY <1>3, <1>4, ListsAppend
<1>6. (Held(c.data) \ {k}) \cup {k} = Held(c.data)
  OBVIOUS
<1>7. Lists(d.order, Held(d.data)) /\ Lists(c.order, Held(d.data))
  BY <1>2, <1>5, <1>6 DEF Sound
<1>8. Len(d.order) = Len(c.order)
  <2>1. Cardinality(Held(d.data)) = Len(d.order)
    BY <1>7, ListsCount
  <2>2. Cardinality(Held(d.data)) = Len(c.order)
    BY <1>7, ListsCount
  <2> QED
    BY <2>1, <2>2
<1> QED
  BY <1>2, <1>7, <1>8 DEF Sound

\* c with v stored under k at instant n, until t.
Stored(c, k, v, t, n) ==
  [LRUTouch(c, k) EXCEPT !.data[k] = v, !.deadline[k] = t, !.stored[k] = n]

\* In d the entry of k is the youngest, with its deadline, and the others are those of c.
Stores(c, d, k, v, t, n) ==
  /\ Sound(d) /\ Youngest(d.order, k) /\ Held(d.data) = Held(c.data) \cup {k}
  /\ d.data[k] = v /\ d.deadline[k] = t /\ d.stored[k] = n
  /\ \A h \in Keys : h # k => /\ d.data[h] = c.data[h] /\ d.stored[h] = c.stored[h]
                              /\ d.deadline[h] = c.deadline[h]

LEMMA StoreFacts ==
  ASSUME NEW c, Sound(c), NEW k \in Keys, NEW v, v # None, NEW t \in Int, NEW n \in Nat,
         NEW d, d = Stored(c, k, v, t, n)
  PROVE  Stores(c, d, k, v, t, n)
<1> DEFINE q == Append(Unqueued(c.order, k), k)
           D == [c.data EXCEPT ![k] = v]
           E == [c.deadline EXCEPT ![k] = t]
           F == [c.stored EXCEPT ![k] = n]
<1>1. d = [data |-> D, order |-> q, deadline |-> E, stored |-> F]
  BY DEF Stored, LRUTouch, Sound
<1>2. /\ IsContents(D) /\ D[k] = v /\ \A h \in Keys : h # k => D[h] = c.data[h]
      /\ E \in [Keys -> Int] /\ E[k] = t /\ \A h \in Keys : h # k => E[h] = c.deadline[h]
      /\ F \in [Keys -> Nat] /\ F[k] = n /\ \A h \in Keys : h # k => F[h] = c.stored[h]
  <2>1. IsContents(c.data) /\ c.deadline \in [Keys -> Int] /\ c.stored \in [Keys -> Nat]
    BY DEF Sound
  <2>2. IsContents(D) /\ D[k] = v /\ \A h \in Keys : h # k => D[h] = c.data[h]
    BY <2>1 DEF IsContents
  <2>3. E \in [Keys -> Int] /\ E[k] = t /\ \A h \in Keys : h # k => E[h] = c.deadline[h]
    BY <2>1
  <2>4. F \in [Keys -> Nat] /\ F[k] = n /\ \A h \in Keys : h # k => F[h] = c.stored[h]
    BY <2>1
  <2> QED
    BY <2>2, <2>3, <2>4
<1>3. Lists(q, (Held(c.data) \ {k}) \cup {k}) /\ Youngest(q, k)
  <2> DEFINE r == Unqueued(c.order, k)
  <2>1. Lists(r, Held(c.data) \ {k})
    BY UnqueuedLists DEF Sound
  <2> HIDE DEF r
  <2>2. Lists(Append(r, k), (Held(c.data) \ {k}) \cup {k}) /\ Youngest(Append(r, k), k)
    BY <2>1, ListsAppend
  <2> QED
    BY <2>2 DEF r
<1> HIDE DEF q, D, E, F
<1>4. /\ d.data = D /\ d.order = q /\ d.deadline = E /\ d.stored = F
      /\ d = [data |-> d.data, order |-> d.order, deadline |-> d.deadline,
              stored |-> d.stored]
  BY <1>1
<1>5. Held(D) = Held(c.data) \cup {k} /\ (Held(c.data) \ {k}) \cup {k} = Held(c.data) \cup {k}
  BY <1>2 DEF Held
<1>6. Lists(q, Held(D))
  BY <1>3, <1>5
<1> QED
  BY <1>2, <1>3, <1>4, <1>5, <1>6 DEF Sound, Stores

\* One round of LRUTrim.
TrimRound(c, n) == IF Len(c.order) > n THEN LRURemove(c, Head(c.order)) ELSE c

\* f is the function of what m rounds of LRUTrim leave.
TrimUp(f, c, n, m) == f = [i \in 0 .. m |-> IF i = 0 THEN c ELSE TrimRound(f[i - 1], n)]

LEMMA TrimExists ==
  ASSUME NEW c, NEW n, NEW m \in Nat
  PROVE  \E f : TrimUp(f, c, n, m)
<1> DEFINE T == {j \in Nat : \E f : TrimUp(f, c, n, j)}
<1>1. 0 \in T
  <2> DEFINE f == [i \in 0 .. 0 |-> c]
  <2>1. TrimUp(f, c, n, 0)
    BY DEF TrimUp
  <2> QED
    BY <2>1
<1>2. ASSUME NEW j \in Nat, j \in T PROVE j + 1 \in T
  <2>1. PICK f : TrimUp(f, c, n, j)
    BY <1>2
  <2> DEFINE g == [i \in 0 .. j + 1 |-> IF i = j + 1 THEN TrimRound(f[j], n) ELSE f[i]]
  <2>2. \A i \in 0 .. j : f[i] = IF i = 0 THEN c ELSE TrimRound(f[i - 1], n)
    BY <2>1 DEF TrimUp
  <2>3. ASSUME NEW i \in 0 .. j + 1
        PROVE  g[i] = IF i = 0 THEN c ELSE TrimRound(g[i - 1], n)
    <3>1. CASE i = j + 1
      <4>1. i # 0 /\ j \in 0 .. j + 1 /\ j # j + 1 /\ i - 1 = j
        BY <3>1
      <4>2. g[i] = TrimRound(f[j], n)
        BY <3>1
      <4>3. g[j] = f[j]
        BY <4>1
      <4> HIDE DEF g
      <4> QED
        BY <4>1, <4>2, <4>3
    <3>2. CASE i # j + 1
      <4>1. i \in 0 .. j /\ (i # 0 => i - 1 \in 0 .. j + 1 /\ i - 1 # j + 1)
        BY <3>2
      <4>2. g[i] = f[i]
        BY <3>2
      <4>3. i # 0 => g[i - 1] = f[i - 1]
        BY <4>1
      <4> HIDE DEF g
      <4> QED
        BY <2>2, <4>1, <4>2, <4>3
    <3> QED
      BY <3>1, <3>2
  <2>4. g = [i \in 0 .. j + 1 |-> g[i]]
    OBVIOUS
  <2> HIDE DEF g
  <2>5. TrimUp(g, c, n, j + 1)
    BY <2>3, <2>4 DEF TrimUp
  <2> QED
    BY <2>5
<1> HIDE DEF T
<1>3. m \in T
  BY <1>1, <1>2, NatSetInduction
<1> QED
  BY <1>3 DEF T

\* LRUTrim is as many rounds as there are entries.
LEMMA TrimUnfold ==
  ASSUME NEW c, NEW n, Len(c.order) \in Nat
  PROVE  \E f : TrimUp(f, c, n, Len(c.order)) /\ LRUTrim(c, n) = f[Len(c.order)]
<1> DEFINE f == CHOOSE f : TrimUp(f, c, n, Len(c.order))
<1>1. TrimUp(f, c, n, Len(c.order))
  BY TrimExists
<1>2. LRUTrim(c, n) = f[Len(c.order)]
  BY DEF LRUTrim, TrimUp, TrimRound
<1> QED
  BY <1>1, <1>2

\* d is what j rounds of trimming c to n entries may leave.
Trimming(c, d, n, j) ==
  /\ Fewer(c, d) /\ (Len(d.order) <= n \/ Len(d.order) + j <= Len(c.order))
  /\ \A k \in Keys : n > 0 /\ Youngest(c.order, k) => Youngest(d.order, k)

LEMMA TrimRoundFacts ==
  ASSUME NEW c, Sound(c), NEW d, NEW n \in Nat, NEW j \in Nat, Trimming(c, d, n, j)
  PROVE  Trimming(c, TrimRound(d, n), n, j + 1)
<1> DEFINE e == TrimRound(d, n)
<1>1. Sound(d) /\ Fewer(c, d)
  BY DEF Trimming, Fewer
<1>2. /\ Lists(d.order, Held(d.data)) /\ Lists(c.order, Held(c.data))
      /\ Len(d.order) \in Nat /\ Len(c.order) \in Nat
  BY <1>1, ListsCount DEF Sound
<1>3. CASE ~(Len(d.order) > n)
  <2>1. e = d /\ Len(d.order) <= n
    BY <1>2, <1>3 DEF TrimRound
  <2> QED
    BY <2>1 DEF Trimming
<1>4. CASE Len(d.order) > n
  <2> DEFINE k == Head(d.order)
  <2>1. e = LRURemove(d, k)
    BY <1>4 DEF TrimRound
  <2>2. k \in Held(d.data) /\ k \in Keys /\ k = d.order[1]
    <3>0. Len(d.order) > 0
      BY <1>2, <1>4
    <3>1. k \in Held(d.data)
      BY <1>2, <3>0, ListsTail
    <3>2. k = d.order[1]
      <4>1. d.order \in Seq(Keys) /\ d.order # <<>>
        BY <1>2, <1>4, EmptySeq DEF Lists
      <4> QED
        BY <4>1, HeadTailProperties
    <3> QED
      BY <3>1, <3>2 DEF Held
  <2> HIDE DEF e, k
  <2>3. /\ Fewer(d, e) /\ Held(e.data) = Held(d.data) \ {k}
        /\ e.order = Unqueued(d.order, k)
    BY <1>1, <2>1, <2>2, RemoveFacts
  <2>4. Fewer(c, e)
    BY <1>1, <2>3, FewerTransitive
  <2>5. Len(e.order) = Len(d.order) - 1 /\ Len(e.order) \in Nat
    <3>1. Lists(e.order, Held(e.data))
      BY <2>3 DEF Fewer, Sound
    <3>2. Cardinality(Held(e.data)) = Len(e.order) /\ Len(e.order) \in Nat
      BY <3>1, ListsCount
    <3>3. IsFiniteSet(Held(d.data)) /\ Cardinality(Held(d.data)) = Len(d.order)
      BY <1>2, ListsCount
    <3>4. Cardinality(Held(d.data) \ {k}) = Cardinality(Held(d.data)) - 1
      BY <2>2, <3>3, FS_RemoveElement
    <3> QED
      BY <2>3, <3>2, <3>3, <3>4
  <2>6. Len(e.order) + (j + 1) <= Len(c.order)
    <3>1. Len(d.order) + j <= Len(c.order)
      BY <1>2, <1>4 DEF Trimming
    <3>2. \A x, y, z \in Nat : x + j <= y /\ z = x - 1 => z + (j + 1) <= y
      OBVIOUS
    <3> QED
      BY <1>2, <2>5, <3>1, <3>2, Zenon
  <2>7. ASSUME NEW h \in Keys, n > 0, Youngest(c.order, h) PROVE Youngest(e.order, h)
    <3>1. Youngest(d.order, h)
      BY <2>7 DEF Trimming
    <3>2. h # k
      <4>1. 1 \in 1 .. Len(d.order) /\ Len(d.order) \in 1 .. Len(d.order) /\ Len(d.order) # 1
        <5>1. Len(d.order) \in Nat /\ Len(d.order) > n /\ n > 0
          BY <1>2, <1>4, <2>7
        <5>2. \A x \in Nat : x > n /\ n > 0 => 1 \in 1 .. x /\ x \in 1 .. x /\ x # 1
          OBVIOUS
        <5> QED
          BY <5>1, <5>2, Zenon
      <4>2. d.order[Len(d.order)] # d.order[1]
        BY <1>2, <4>1 DEF Lists
      <4> QED
        BY <2>2, <3>1, <4>2 DEF Youngest
    <3> QED
      BY <1>2, <2>3, <3>1, <3>2, UnqueuedLists
  <2>8. Trimming(c, e, n, j + 1)
    BY <2>4, <2>6, <2>7 DEF Trimming
  <2> QED
    BY <2>8 DEF e
<1> QED
  BY <1>3, <1>4

\* LRUTrim leaves at most n entries; the youngest stays when any may.
LEMMA TrimFacts ==
  ASSUME NEW c, Sound(c), NEW n \in Nat, NEW d, d = LRUTrim(c, n)
  PROVE  /\ Fewer(c, d) /\ Len(d.order) <= n
         /\ \A k \in Keys : n > 0 /\ Youngest(c.order, k) => Youngest(d.order, k)
<1> DEFINE N == Len(c.order)
<1>1. N \in Nat
  BY ListsCount DEF Sound
<1>2. PICK f : TrimUp(f, c, n, N) /\ d = f[N]
  BY <1>1, TrimUnfold
<1> HIDE DEF N
<1>3. /\ f[0] = c
      /\ \A j \in Nat : j + 1 <= N => f[j + 1] = TrimRound(f[j], n)
  <2>1. \A i \in 0 .. N : f[i] = IF i = 0 THEN c ELSE TrimRound(f[i - 1], n)
    BY <1>2 DEF TrimUp
  <2>2. 0 \in 0 .. N /\ \A j \in Nat : j + 1 <= N =>
                          j + 1 \in 0 .. N /\ j + 1 # 0 /\ (j + 1) - 1 = j
    BY <1>1
  <2> QED
    BY <2>1, <2>2
<1> DEFINE U == {j \in Nat : j <= N => Trimming(c, f[j], n, j)}
<1>4. 0 \in U
  <2>1. Fewer(c, c) /\ Len(c.order) + 0 <= Len(c.order)
    BY <1>1 DEF Fewer, N
  <2>2. Trimming(c, c, n, 0)
    BY <2>1 DEF Trimming
  <2> QED
    BY <1>3, <2>2
<1>5. ASSUME NEW j \in Nat, j \in U PROVE j + 1 \in U
  <2> SUFFICES ASSUME j + 1 <= N PROVE Trimming(c, f[j + 1], n, j + 1)
    OBVIOUS
  <2>1. Trimming(c, f[j], n, j)
    BY <1>1, <1>5
  <2>2. Trimming(c, TrimRound(f[j], n), n, j + 1)
    BY <2>1, TrimRoundFacts
  <2> QED
    BY <1>3, <2>2
<1> HIDE DEF U
<1>6. N \in U
  BY <1>1, <1>4, <1>5, NatSetInduction
<1>7. Trimming(c, d, n, N)
  BY <1>1, <1>2, <1>6 DEF U
<1>8. Len(d.order) \in Nat
  BY <1>7, ListsCount DEF Trimming, Fewer, Sound
<1>9. Len(d.order) <= n
  <2>1. Len(d.order) <= n \/ Len(d.order) + N <= N
    BY <1>7 DEF Trimming, N
  <2> QED
    BY <1>1, <1>8, <2>1
<1> QED
  BY <1>7, <1>9 DEF Trimming

----------------------------------------------------------------------------
(* What the methods show *)

\* The entry of k in c is expired at instant n.
Late(c, n, k) == c.deadline[k] # 0 /\ n > c.deadline[k]

\* What Peek shows of c at instant n.
Seen(c, n) == [k \in Keys |-> IF Late(c, n, k) THEN None ELSE c.data[k]]

LEMMA LiveIsSeen == Live = Seen(lru, now) /\ Live' = Seen(lru', now')
BY DEF Live, Seen, Expired, Late

LEMMA SeenFacts ==
  ASSUME NEW c, Sound(c), NEW n
  PROVE  /\ IsContents(Seen(c, n))
         /\ \A k \in Keys : Seen(c, n)[k] = IF Late(c, n, k) THEN None ELSE c.data[k]
         /\ \A k \in Keys : k \in Held(Seen(c, n)) <=> k \in Held(c.data) /\ ~Late(c, n, k)
         /\ Held(Seen(c, n)) \subseteq Held(c.data)
BY DEF IsContents, Seen, Held

\* With nothing stored nothing is seen.
LEMMA SeenEmpty ==
  ASSUME NEW n
  PROVE  Seen(EmptyLRU, n) = Empty
BY EmptySound DEF Seen, Empty

\* The contents d are the contents c with some entries gone.
Lost(c, d) == Held(d) \subseteq Held(c) /\ d = Keep(c, Held(d))

\* Of fewer entries fewer are seen, and of entries as they were nothing is seen that was
\* not seen before.
LEMMA FewerSeen ==
  ASSUME NEW c, Sound(c), NEW d, Fewer(c, d), NEW n
  PROVE  Lost(Seen(c, n), Seen(d, n))
<1> DEFINE a == Seen(c, n)
           b == Seen(d, n)
<1>1. Sound(d)
  BY DEF Fewer
<1>2. ASSUME NEW k \in Held(b) PROVE k \in Held(a) /\ b[k] = a[k] /\ k \in Keys
  <2>1. k \in Keys /\ k \in Held(d.data) /\ ~Late(d, n, k) /\ b[k] = d.data[k]
    BY <1>1, <1>2, SeenFacts DEF Held
  <2>2. k \in Held(c.data) /\ d.data[k] = c.data[k] /\ ~Late(c, n, k)
    BY <2>1 DEF Fewer, Late
  <2> QED
    BY <2>1, <2>2, SeenFacts
<1>3. IsContents(b) /\ \A k \in Keys : k \notin Held(b) => b[k] = None
  BY <1>1, SeenFacts DEF Held
<1> HIDE DEF a, b
<1>4. \A k \in Keys : b[k] = IF k \in Held(b) THEN a[k] ELSE None
  BY <1>2, <1>3
<1>5. b = Keep(a, Held(b))
  BY <1>3, <1>4 DEF IsContents, Keep
<1> QED
  BY <1>2, <1>5 DEF Lost, a, b

\* Time takes entries out of sight, and brings none back.
LEMMA LaterSeen ==
  ASSUME NEW c, Sound(c), NEW m \in Nat, NEW n \in Nat, m <= n
  PROVE  Lost(Seen(c, m), Seen(c, n))
<1> DEFINE a == Seen(c, m)
           b == Seen(c, n)
<1>1. ASSUME NEW k \in Held(b) PROVE k \in Held(a) /\ b[k] = a[k] /\ k \in Keys
  <2>1. k \in Keys /\ k \in Held(c.data) /\ ~Late(c, n, k) /\ b[k] = c.data[k]
    BY <1>1, SeenFacts DEF Held
  <2>2. ~Late(c, m, k)
    <3>1. c.deadline[k] \in Int
      BY <2>1 DEF Sound
    <3> QED
      BY <2>1, <3>1 DEF Late
  <2> QED
    BY <2>1, <2>2, SeenFacts
<1>2. IsContents(b) /\ \A k \in Keys : k \notin Held(b) => b[k] = None
  BY SeenFacts DEF Held
<1> HIDE DEF a, b
<1>3. \A k \in Keys : b[k] = IF k \in Held(b) THEN a[k] ELSE None
  BY <1>1, <1>2
<1>4. b = Keep(a, Held(b))
  BY <1>2, <1>3 DEF IsContents, Keep
<1> QED
  BY <1>1, <1>4 DEF Lost, a, b

\* Removing an expired entry shows nowhere; removing another one takes it out of sight.
LEMMA RemoveSeen ==
  ASSUME NEW c, Sound(c), NEW k \in Keys, NEW d, d = LRURemove(c, k), NEW n
  PROVE  Seen(d, n) = Without(Seen(c, n), k)
<1>1. Fewer(c, d) /\ d.data = Without(c.data, k)
  BY RemoveFacts
<1>2. d.deadline = [c.deadline EXCEPT ![k] = 0] /\ IsContents(c.data)
      /\ c.deadline \in [Keys -> Int]
  BY DEF LRURemove, Sound
<1>3. \A h \in Keys : h # k => d.data[h] = c.data[h] /\ d.deadline[h] = c.deadline[h]
  BY <1>1, <1>2 DEF Without, IsContents
<1>4. d.data[k] = None
  BY <1>1, <1>2 DEF Without, IsContents
<1>5. \A h \in Keys : (IF Late(d, n, h) THEN None ELSE d.data[h])
                      = IF h = k THEN None ELSE Seen(c, n)[h]
  BY <1>3, <1>4 DEF Late, Seen
<1>6. Without(Seen(c, n), k) = [h \in Keys |-> IF h = k THEN None ELSE Seen(c, n)[h]]
  BY DEF Without, Seen
<1>7. Seen(d, n) = [h \in Keys |-> IF Late(d, n, h) THEN None ELSE d.data[h]]
  BY DEF Seen
<1> HIDE DEF Seen
<1> QED
  BY <1>5, <1>6, <1>7

----------------------------------------------------------------------------
(* The steps *)

\* The contract's view: its contents are the entries that are seen.
LEMMA ContractFacts ==
  /\ Contract!Left = {Keep(Live, S) : S \in SUBSET Held(Live)} /\ Contract!Empty = Empty
  /\ \A c, k : Contract!Without(c, k) = Without(c, k)
  /\ \A c, n, k, v : Contract!AddOutcomes(c, n, k, v, FALSE) = AddOutcomes(c, n, k, v, FALSE)
  /\ \A c, n : Contract!ResizeOutcomes(c, n) = ResizeOutcomes(c, n)
<1>1. /\ \A c, k : Contract!Without(c, k) = Without(c, k)
      /\ \A c : Contract!Held(c) = Held(c)
      /\ \A c, S : Contract!Keep(c, S) = Keep(c, S)
      /\ Contract!Empty = Empty
  BY DEF Contract!Without, Without, Contract!Held, Held, Contract!Keep, Keep,
         Contract!Empty, Empty
<1>2. Contract!Left = {Keep(Live, S) : S \in SUBSET Held(Live)}
  BY <1>1 DEF Contract!Left
<1>3. \A c, n, k, v : Contract!AddOutcomes(c, n, k, v, FALSE) = AddOutcomes(c, n, k, v, FALSE)
  BY DEF Contract!AddOutcomes, AddOutcomes, Contract!Held, Held, Contract!Without, Without,
         Contract!Cardinality, Cardinality
<1>4. \A c, n : Contract!ResizeOutcomes(c, n) = ResizeOutcomes(c, n)
  BY DEF Contract!ResizeOutcomes, ResizeOutcomes, Contract!Held, Held, Contract!Keep, Keep,
         Contract!Cardinality, Cardinality
<1> QED
  BY <1>1, <1>2, <1>3, <1>4

\* What a step of the operations must show: the invariant again and a step of the contract.
Kept == TTLInv' /\ [Contract!Next]_(Contract!vars)

\* What remains in sight is one of the contents the contract's Left allows.
LEMMA LostIsLeft ==
  ASSUME NEW d, Lost(Live, d)
  PROVE  d \in Contract!Left
BY ContractFacts DEF Lost

\* A step that only takes entries out of sight.
LEMMA LostIsExpiry ==
  ASSUME Lost(Live, Live'), UNCHANGED size
  PROVE  [Contract!Next]_(Contract!vars)
<1>1. Live' \in Contract!Left
  <2> DEFINE d == Live'
  <2>1. Lost(Live, d)
    OBVIOUS
  <2> HIDE DEF d
  <2>2. d \in Contract!Left
    BY <2>1, LostIsLeft
  <2> QED
    BY <2>2 DEF d
<1> QED
  BY <1>1 DEF Contract!Next, Contract!Expire

LEMMA TTLAdd ==
  ASSUME TTLInv, NEW k \in Keys, NEW v \in Values, Add(k, v)
  PROVE  Kept
<1>1. CASE size <= 0
  <2>1. UNCHANGED <<lru, size, ttl, now>>
    BY <1>1 DEF Add, TTLInv
  <2>2. Live' = Live
    BY <2>1, LiveIsSeen
  <2> QED
    BY <2>1, <2>2 DEF Kept, TTLInv, Contract!vars
<1>2. CASE size > 0
  <2> DEFINE c == Stored(lru, k, v, Deadline, now)
             d == LRUTrim(c, size)
             L == Seen(lru, now)
             M == Seen(d, now)
             S == Held(M) \ {k}
  <2>1. /\ Sound(lru) /\ Dated(lru, ttl, now) /\ size \in Nat /\ ttl \in Int /\ now \in Nat
        /\ v # None
    BY ParamsAssumption DEF TTLInv
  <2>2. lru' = d /\ UNCHANGED <<size, ttl, now>>
    BY <1>2, <2>1 DEF Add, LRUAdd, Stored
  <2>3. Deadline \in Int /\ Deadline = IF ttl <= 0 THEN 0 ELSE now + ttl
    BY <2>1 DEF Deadline
  <2> DEFINE x == Deadline
  <2>3a. c = Stored(lru, k, v, x, now) /\ x \in Int
    BY <2>3
  <2> HIDE DEF c, d, x
  <2>4. /\ Sound(c) /\ Youngest(c.order, k) /\ Held(c.data) = Held(lru.data) \cup {k}
        /\ c.data[k] = v /\ c.deadline[k] = Deadline /\ c.stored[k] = now
        /\ \A h \in Keys : h # k =>
             /\ c.data[h] = lru.data[h] /\ c.stored[h] = lru.stored[h]
             /\ c.deadline[h] = lru.deadline[h]
    <3>1. Stores(lru, c, k, v, x, now)
      BY <2>1, <2>3a, StoreFacts
    <3> QED
      BY <3>1 DEF x, Stores
  <2>5. Dated(c, ttl, now)
    <3>1. ASSUME NEW h \in Held(c.data), h # k
          PROVE  c.stored[h] <= now /\ c.deadline[h] = IF ttl <= 0 THEN 0 ELSE c.stored[h] + ttl
      BY <2>1, <2>4, <3>1 DEF Dated, Held
    <3> QED
      BY <2>1, <2>3, <2>4, <3>1 DEF Dated
  <2>6. Fewer(c, d) /\ Len(d.order) <= size /\ Youngest(d.order, k)
    BY <1>2, <2>1, <2>4, TrimFacts DEF d
  <2>7. Sound(d) /\ Dated(d, ttl, now)
    BY <2>5, <2>6, FewerDated DEF Fewer
  <2>8. TTLInv'
    BY <2>1, <2>2, <2>6, <2>7 DEF TTLInv
  <2>9. k \in Held(d.data) /\ d.data[k] = v /\ d.deadline[k] = Deadline
    <3>1. Lists(d.order, Held(d.data)) /\ Len(d.order) \in Nat
      BY <2>7, ListsCount DEF Sound
    <3>2. Len(d.order) \in 1 .. Len(d.order) /\ d.order[Len(d.order)] = k
      BY <2>6, <3>1 DEF Youngest
    <3>3. k \in Held(d.data)
      BY <3>1, <3>2 DEF Lists
    <3> QED
      BY <2>4, <2>6, <3>3 DEF Fewer
  <2>10. ~Late(d, now, k)
    BY <2>1, <2>3, <2>9 DEF Late
  <2>11. k \in Held(M) /\ M[k] = v /\ IsContents(M)
    BY <2>7, <2>9, <2>10, SeenFacts
  <2>12. ASSUME NEW h \in S PROVE h \in Held(L) /\ M[h] = L[h] /\ h \in Keys /\ h # k
    <3>1. h \in Keys /\ h # k /\ h \in Held(d.data) /\ ~Late(d, now, h) /\ M[h] = d.data[h]
      BY <2>7, <2>12, SeenFacts DEF Held
    <3>2. /\ h \in Held(lru.data) /\ d.data[h] = lru.data[h]
          /\ d.deadline[h] = lru.deadline[h]
      BY <2>4, <2>6, <3>1 DEF Fewer
    <3>3. ~Late(lru, now, h)
      BY <3>1, <3>2 DEF Late
    <3> QED
      BY <2>1, <3>1, <3>2, <3>3, SeenFacts
  <2>13. IsFiniteSet(S) /\ Cardinality(S) < size
    <3>1. IsFiniteSet(Held(d.data)) /\ Cardinality(Held(d.data)) = Len(d.order)
          /\ Len(d.order) \in Nat
      BY <2>7, ListsCount DEF Sound
    <3>2. Held(M) \subseteq Held(d.data)
      BY <2>7, SeenFacts
    <3>3. /\ IsFiniteSet(Held(M)) /\ Cardinality(Held(M)) <= Len(d.order)
          /\ Cardinality(Held(M)) \in Nat
      BY <3>1, <3>2, FS_Subset, FS_CardinalityType
    <3>4. IsFiniteSet(S) /\ Cardinality(S) = Cardinality(Held(M)) - 1
      BY <2>11, <3>3, FS_RemoveElement
    <3> QED
      BY <2>1, <2>6, <3>1, <3>3, <3>4
  <2> DEFINE a == Keep(L, S)
  <2>14. IsContents(L)
    BY <2>1, SeenFacts
  <2>15. \A h \in Keys : h \notin Held(M) => M[h] = None
    BY DEF Held
  <2> HIDE DEF L, M, S
  <2>16. IsContents(a) /\ Held(a) = S
    <3>1. IsContents(a) /\ Held(a) = Held(L) \cap S
      BY <2>14, HeldFacts
    <3> QED
      BY <2>12, <3>1
  <2>17. \A h \in Keys : M[h] = IF h = k THEN v ELSE a[h]
    <3>1. \A h \in Keys : a[h] = IF h \in S THEN L[h] ELSE None
      BY DEF Keep
    <3>2. \A h \in Keys : h # k => (h \in S <=> h \in Held(M))
      BY DEF S
    <3> QED
      BY <2>11, <2>12, <2>15, <3>1, <3>2
  <2>18. M = [a EXCEPT ![k] = v]
    BY <2>11, <2>16, <2>17 DEF IsContents
  <2>19. k \notin Held(a) /\ Cardinality(Held(a)) < size
    BY <2>12, <2>13, <2>16
  <2> HIDE DEF a
  <2>20. M \in AddOutcomes(a, size, k, v, FALSE)
    BY <2>18, <2>19 DEF AddOutcomes
  <2>21. Live = L /\ Live' = M
    BY <2>2, LiveIsSeen DEF L, M
  <2>22. a \in Contract!Left
    BY <2>12, <2>21, ContractFacts DEF a
  <2>23. Contract!Add(k, v)
    BY <2>2, <2>20, <2>21, <2>22, ContractFacts DEF Contract!Add
  <2> QED
    BY <2>8, <2>23 DEF Kept, Contract!Next
<1> QED
  BY <1>1, <1>2 DEF TTLInv

\* What Get leaves is what it found, seen through the methods.
LEMMA TTLGet ==
  ASSUME TTLInv, NEW k \in Keys, Get(k)
  PROVE  Kept /\ Live' = Live
<1>1. /\ Sound(lru) /\ Dated(lru, ttl, now) /\ size \in Nat /\ ttl \in Int /\ now \in Nat
      /\ Len(lru.order) <= size /\ k \in Held(lru.data)
      /\ UNCHANGED <<size, ttl, now>>
  BY DEF TTLInv, Get, Held
<1> DEFINE d == lru'
<1>2. CASE Expired(k)
  <2>1. d = LRURemove(lru, k)
    BY <1>2 DEF Get
  <2> HIDE DEF d
  <2>2. /\ Fewer(lru, d) /\ Held(d.data) = Held(lru.data) \ {k}
        /\ Seen(d, now) = Without(Seen(lru, now), k)
    BY <1>1, <2>1, RemoveFacts, RemoveSeen
  <2>3. Without(Seen(lru, now), k) = Seen(lru, now)
    <3>1. Seen(lru, now)[k] = None /\ IsContents(Seen(lru, now))
      BY <1>1, <1>2, SeenFacts DEF Expired, Late
    <3> QED
      BY <3>1 DEF Without, IsContents
  <2>4. Dated(d, ttl, now) /\ Sound(d)
    BY <1>1, <2>2, FewerDated DEF Fewer
  <2>5. Len(d.order) <= size
    <3>1. /\ IsFiniteSet(Held(lru.data)) /\ Cardinality(Held(lru.data)) = Len(lru.order)
          /\ Len(lru.order) \in Nat
      BY <1>1, ListsCount DEF Sound
    <3>2. Cardinality(Held(d.data)) = Len(d.order) /\ Len(d.order) \in Nat
      BY <2>4, ListsCount DEF Sound
    <3>3. Cardinality(Held(d.data)) <= Cardinality(Held(lru.data))
      BY <2>2, <3>1, FS_Subset
    <3> QED
      BY <1>1, <3>1, <3>2, <3>3
  <2> QED
    BY <1>1, <2>2, <2>3, <2>4, <2>5, LiveIsSeen DEF d, Kept, TTLInv, Contract!vars
<1>3. CASE ~Expired(k)
  <2>1. d = LRUTouch(lru, k)
    BY <1>3 DEF Get
  <2> HIDE DEF d
  <2>2. /\ Sound(d) /\ d.data = lru.data /\ d.deadline = lru.deadline
        /\ d.stored = lru.stored /\ Len(d.order) = Len(lru.order)
    BY <1>1, <2>1, TouchFacts
  <2>3. Seen(d, now) = Seen(lru, now) /\ Dated(d, ttl, now)
    BY <1>1, <2>2 DEF Seen, Late, Dated
  <2> QED
    BY <1>1, <2>2, <2>3, LiveIsSeen DEF d, Kept, TTLInv, Contract!vars
<1> QED
  BY <1>2, <1>3

LEMMA TTLRemove ==
  ASSUME TTLInv, NEW k \in Keys, Remove(k)
  PROVE  Kept
<1>1. /\ Sound(lru) /\ Dated(lru, ttl, now) /\ size \in Nat /\ ttl \in Int /\ now \in Nat
      /\ Len(lru.order) <= size /\ UNCHANGED <<size, ttl, now>>
  BY DEF TTLInv, Remove
<1> DEFINE d == lru'
<1>2. d = LRURemove(lru, k)
  BY DEF Remove
<1> HIDE DEF d
<1>3. /\ Fewer(lru, d) /\ Held(d.data) = Held(lru.data) \ {k}
      /\ Seen(d, now) = Without(Seen(lru, now), k)
  BY <1>1, <1>2, RemoveFacts, RemoveSeen
<1>4. Dated(d, ttl, now) /\ Sound(d)
  BY <1>1, <1>3, FewerDated DEF Fewer
<1>5. Len(d.order) <= size
  <2>1. /\ IsFiniteSet(Held(lru.data)) /\ Cardinality(Held(lru.data)) = Len(lru.order)
        /\ Len(lru.order) \in Nat
    BY <1>1, ListsCount DEF Sound
  <2>2. Cardinality(Held(d.data)) = Len(d.order) /\ Len(d.order) \in Nat
    BY <1>4, ListsCount DEF Sound
  <2>3. Cardinality(Held(d.data)) <= Cardinality(Held(lru.data))
    BY <1>3, <2>1, FS_Subset
  <2> QED
    BY <1>1, <2>1, <2>2, <2>3
<1>6. TTLInv'
  BY <1>1, <1>4, <1>5 DEF d, TTLInv
<1>7. Contract!Remove(k)
  BY <1>1, <1>3, LiveIsSeen, ContractFacts DEF d, Contract!Remove
<1> QED
  BY <1>6, <1>7 DEF Kept, Contract!Next

LEMMA TTLPurge ==
  ASSUME TTLInv, Purge
  PROVE  Kept
<1>1. lru' = EmptyLRU /\ UNCHANGED <<size, ttl, now>>
  BY DEF Purge
<1>2. TTLInv'
  BY <1>1, EmptySound DEF TTLInv, Dated
<1>3. Contract!Purge
  BY <1>1, LiveIsSeen, SeenEmpty, ContractFacts DEF Contract!Purge
<1> QED
  BY <1>2, <1>3 DEF Kept, Contract!Next

LEMMA TTLResize ==
  ASSUME TTLInv, NEW n \in Sizes, Resize(n)
  PROVE  Kept
<1>1. /\ Sound(lru) /\ Dated(lru, ttl, now) /\ ttl \in Int /\ now \in Nat
      /\ size' = n /\ n \in Nat /\ UNCHANGED <<ttl, now>>
  BY ParamsAssumption DEF TTLInv, Resize
<1> DEFINE d == lru'
<1>2. d = IF n = 0 THEN EmptyLRU ELSE LRUTrim(lru, n)
  BY DEF Resize
<1> HIDE DEF d
<1>3. Fewer(lru, d) /\ Len(d.order) <= n
  <2>1. Fewer(lru, EmptyLRU) /\ Len(EmptyLRU.order) = 0
    BY EmptySound DEF Fewer
  <2>2. n # 0 => Fewer(lru, d) /\ Len(d.order) <= n
    BY <1>1, <1>2, TrimFacts
  <2> QED
    BY <1>1, <1>2, <2>1, <2>2
<1>4. Sound(d) /\ Dated(d, ttl, now)
  BY <1>1, <1>3, FewerDated DEF Fewer
<1>5. TTLInv'
  BY <1>1, <1>3, <1>4 DEF d, TTLInv
<1> DEFINE M == Seen(d, now)
<1>6. Lost(Seen(lru, now), M)
  BY <1>1, <1>3, FewerSeen
<1>7. Cardinality(Held(M)) <= n
  <2>1. /\ IsFiniteSet(Held(d.data)) /\ Cardinality(Held(d.data)) = Len(d.order)
        /\ Len(d.order) \in Nat
    BY <1>4, ListsCount DEF Sound
  <2>2. Held(M) \subseteq Held(d.data)
    BY <1>4, SeenFacts
  <2>3. Cardinality(Held(M)) <= Len(d.order) /\ Cardinality(Held(M)) \in Nat
    BY <2>1, <2>2, FS_Subset, FS_CardinalityType
  <2> QED
    BY <1>1, <1>3, <2>1, <2>3
<1>8. Live = Seen(lru, now) /\ Live' = M
  BY <1>1, LiveIsSeen DEF d
<1> HIDE DEF M
<1>9. M \in ResizeOutcomes(M, n)
  BY <1>7 DEF ResizeOutcomes
<1>10. M \in Contract!Left
  BY <1>6, <1>8, LostIsLeft
<1>11. Contract!Resize(n)
  BY <1>1, <1>8, <1>9, <1>10, ContractFacts DEF Contract!Resize
<1> QED
  BY <1>5, <1>11 DEF Kept, Contract!Next

LEMMA TTLTick ==
  ASSUME TTLInv, Tick
  PROVE  Kept
<1>1. /\ Sound(lru) /\ Dated(lru, ttl, now) /\ size \in Nat /\ ttl \in Int /\ now \in Nat
      /\ Len(lru.order) <= size /\ now' = now + 1 /\ UNCHANGED <<lru, size, ttl>>
  BY DEF TTLInv, Tick
<1>2. Dated(lru, ttl, now + 1)
  <2>1. ASSUME NEW k \in Held(lru.data) PROVE lru.stored[k] <= now + 1
    <3>1. lru.stored[k] \in Nat /\ lru.stored[k] <= now
      BY <1>1 DEF Sound, Dated, Held
    <3> QED
      BY <1>1, <3>1
  <2> QED
    BY <1>1, <2>1 DEF Dated
<1>3. TTLInv'
  BY <1>1, <1>2 DEF TTLInv
<1>4. Lost(Seen(lru, now), Seen(lru, now + 1))
  <2> DEFINE m == now
             n == now + 1
  <2>1. m \in Nat /\ n \in Nat /\ m <= n
    BY <1>1
  <2> HIDE DEF m, n
  <2>2. Lost(Seen(lru, m), Seen(lru, n))
    BY <1>1, <2>1, LaterSeen
  <2> QED
    BY <2>2 DEF m, n
<1>5. Lost(Live, Live')
  BY <1>1, <1>4, LiveIsSeen
<1> QED
  BY <1>1, <1>3, <1>5, LostIsExpiry DEF Kept

LEMMA TTLInit == Init => TTLInv /\ Contract!Init
<1> SUFFICES ASSUME Init PROVE TTLInv /\ Contract!Init
  OBVIOUS
<1>1. /\ lru = EmptyLRU /\ size \in Nat \ {0} /\ ttl \in Int /\ now = 1
  BY ParamsAssumption, TTLAssumption DEF Init
<1>2. TTLInv
  BY <1>1, EmptySound DEF TTLInv, Dated
<1> QED
  BY <1>1, <1>2, LiveIsSeen, SeenEmpty, ContractFacts DEF Contract!Init

\* Every step keeps the invariant and is one of the contract's.
LEMMA TTLStep == TTLInv /\ [Next]_vars => Kept
<1> SUFFICES ASSUME TTLInv, [Next]_vars PROVE Kept
  OBVIOUS
<1>1. ASSUME NEW k \in Keys, NEW v \in Values, Add(k, v) PROVE Kept
  BY <1>1, TTLAdd
<1>2. ASSUME NEW k \in Keys, Get(k) PROVE Kept
  BY <1>2, TTLGet
<1>3. ASSUME NEW k \in Keys, Remove(k) PROVE Kept
  BY <1>3, TTLRemove
<1>4. CASE Purge
  BY <1>4, TTLPurge
<1>5. ASSUME NEW n \in Sizes, Resize(n) PROVE Kept
  BY <1>5, TTLResize
<1>6. CASE Tick
  BY <1>6, TTLTick
<1>7. CASE UNCHANGED vars
  <2>1. Live' = Live
    BY <1>7, LiveIsSeen DEF vars
  <2> QED
    BY <1>7, <2>1 DEF vars, Kept, TTLInv, Contract!vars
<1> QED
  BY <1>1, <1>2, <1>3, <1>4, <1>5, <1>6, <1>7 DEF Next

----------------------------------------------------------------------------
(* The theorems *)

LEMMA TTLHolds == Spec => []TTLInv
<1>1. TTLInv /\ [Next]_vars => TTLInv'
  BY TTLStep DEF Kept
<1> QED
  BY <1>1, TTLInit, PTL DEF Spec

\* Whether an entry that has been seen is seen after a read or a tick.
LEMMA SeenUntil ==
  ASSUME NEW c, Sound(c), NEW t \in Int, NEW n \in Nat, Dated(c, t, n), NEW m \in Nat,
         NEW k \in Held(c.data)
  PROVE  ~Late(c, m, k) <=> (t > 0 => m - c.stored[k] <= t)
<1>1. c.stored[k] \in Nat /\ c.deadline[k] = IF t <= 0 THEN 0 ELSE c.stored[k] + t
  BY DEF Sound, Dated, Held
<1> DEFINE s == c.stored[k]
<1>2. Late(c, m, k) <=> (IF t <= 0 THEN 0 ELSE s + t) # 0 /\ m > IF t <= 0 THEN 0 ELSE s + t
  BY <1>1 DEF Late
<1>3. s \in Nat
  BY <1>1
<1> HIDE DEF s
<1>4. (t > 0 => m - s <= t)
      <=> ~((IF t <= 0 THEN 0 ELSE s + t) # 0 /\ m > IF t <= 0 THEN 0 ELSE s + t)
  BY <1>3
<1> QED
  BY <1>2, <1>4 DEF s

\* An entry is served for exactly its lifetime (expired, deadline and Get in
\* policies/ttl.go), whatever the lifetime, the capacity and the moments of reads.
THEOREM ServedForItsLifetime == Spec => ExpiresOnTime
<1>1. ASSUME TTLInv, Tick, NEW k \in Held(Live)
      PROVE  k \in Held(Live)' <=> (ttl > 0 => now' - lru.stored[k] <= ttl)
  <2>1. /\ Sound(lru) /\ Dated(lru, ttl, now) /\ ttl \in Int /\ now \in Nat
        /\ now' = now + 1 /\ lru' = lru /\ now + 1 \in Nat
    BY <1>1 DEF TTLInv, Tick
  <2>2. k \in Keys /\ k \in Held(lru.data)
    BY <1>1, <2>1, LiveIsSeen, SeenFacts DEF Held
  <2> DEFINE m == now + 1
  <2>3. m \in Nat /\ now' = m
    BY <2>1
  <2>4. Held(Live)' = Held(Seen(lru, m))
    BY <2>1, LiveIsSeen DEF Held
  <2> HIDE DEF m
  <2>5. k \in Held(Seen(lru, m)) <=> ~Late(lru, m, k)
    BY <2>1, <2>2, SeenFacts
  <2>6. ~Late(lru, m, k) <=> (ttl > 0 => m - lru.stored[k] <= ttl)
    BY <2>1, <2>2, <2>3, SeenUntil
  <2> QED
    BY <2>3, <2>4, <2>5, <2>6
<1>2. ASSUME TTLInv, NEW h \in Keys, Get(h), NEW k \in Held(Live)
      PROVE  k \in Held(Live)' <=> (ttl > 0 => now' - lru.stored[k] <= ttl)
  <2>1. /\ Sound(lru) /\ Dated(lru, ttl, now) /\ ttl \in Int /\ now \in Nat /\ now' = now
    BY <1>2 DEF TTLInv, Get
  <2>2. Live' = Live
    BY <1>2, TTLGet
  <2>3. Held(Live)' = Held(Live)
    BY <2>2 DEF Held
  <2>4. k \in Keys /\ k \in Held(lru.data) /\ ~Late(lru, now, k)
    BY <1>2, <2>1, LiveIsSeen, SeenFacts DEF Held
  <2>5. ~Late(lru, now, k) <=> (ttl > 0 => now - lru.stored[k] <= ttl)
    BY <2>1, <2>4, SeenUntil
  <2> QED
    BY <1>2, <2>1, <2>3, <2>4, <2>5
<1>3. TTLInv /\ [Next]_vars =>
        [(Tick \/ \E k \in Keys : Get(k)) =>
           \A k \in Held(Live) :
             k \in Held(Live)' <=> (ttl > 0 => now' - lru.stored[k] <= ttl)]_vars
  BY <1>1, <1>2
<1> QED
  BY <1>3, TTLHolds, PTL DEF Spec, ExpiresOnTime

\* Keys and Len tell of the entries Peek shows.
LEMMA ShownTogether ==
  TTLInv => Cardinality(Held(Live)) = LenResult /\ Len(KeysResult) = LenResult
<1> SUFFICES ASSUME TTLInv
             PROVE  Cardinality(Held(Live)) = LenResult /\ Len(KeysResult) = LenResult
  OBVIOUS
<1> DEFINE S == {k \in Keys : ~Expired(k)}
<1>1. Sound(lru) /\ Dated(lru, ttl, now) /\ ttl \in Int /\ Lists(lru.order, Held(lru.data))
  BY DEF TTLInv, Sound
<1>2. Held(Live) = Held(lru.data) \cap S
  BY <1>1, LiveIsSeen, SeenFacts DEF Held, Expired, Late
<1>3. KeysResult = Among(lru.order, S)
  BY DEF KeysResult
<1> HIDE DEF S
<1>4. Lists(Among(lru.order, S), Held(lru.data) \cap S)
  BY <1>1, AmongLists
<1>5. Cardinality(Held(Live)) = Len(KeysResult)
  BY <1>2, <1>3, <1>4, ListsCount
<1>6. CASE ttl <= 0
  <2>1. Held(lru.data) \subseteq S
    BY <1>1, <1>6 DEF S, Dated, Expired, Held
  <2>2. Held(Live) = Held(lru.data)
    BY <1>2, <2>1
  <2>3. Cardinality(Held(lru.data)) = Len(lru.order)
    BY <1>1, ListsCount
  <2> QED
    BY <1>5, <1>6, <2>2, <2>3 DEF LenResult
<1>7. CASE ~(ttl <= 0)
  BY <1>5, <1>7 DEF LenResult
<1> QED
  BY <1>6, <1>7

\* Seen through its methods, the TTL cache implements the contract of an eviction policy
\* that may lose entries at any time, and Peek, Keys and Len (policies/ttl.go) agree on
\* what it holds.
THEOREM TTLRefinesContract == Spec => TTLIsAPolicy
<1>1. TTLInv /\ [Next]_vars => [Contract!Next]_(Contract!vars)
  BY TTLStep DEF Kept
<1>2. Spec => Contract!Spec
  BY <1>1, TTLInit, TTLHolds, PTL DEF Spec, Contract!Spec
<1>3. Spec => [](Cardinality(Held(Live)) = LenResult /\ Len(KeysResult) = LenResult)
  BY ShownTogether, TTLHolds, PTL
<1> QED
  BY <1>2, <1>3 DEF TTLIsAPolicy

=============================================================================
