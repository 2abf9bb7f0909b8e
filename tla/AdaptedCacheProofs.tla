-------------------------- MODULE AdaptedCacheProofs --------------------------
(***************************************************************************)
(* Machine-checked proofs about AdaptedCache, for every set of keys and    *)
(* values and every capacity: what the wrapper infers about evictions is   *)
(* true, and the adapted 2Q implements the contract of an eviction policy  *)
(* that may turn entries away.                                             *)
(***************************************************************************)
EXTENDS AdaptedCache, PolicyLemmas

----------------------------------------------------------------------------
(* The inductive invariant *)

\* The three queues list R, F and G: the residents are in one of the first two, and no
\* resident is a ghost.
Queued(c, R, F, G) ==
  /\ Lists(c.recent, R) /\ Lists(c.frequent, F) /\ Lists(c.ghosts, G)
  /\ R \cap F = {} /\ R \cup F = Held(c.data) /\ G \cap Held(c.data) = {}

Sound(c) ==
  /\ c = [data |-> c.data, recent |-> c.recent, frequent |-> c.frequent,
          ghosts |-> c.ghosts, cap |-> c.cap]
  /\ IsContents(c.data) /\ c.cap \in Nat
  /\ \E R, F, G : Queued(c, R, F, G)

\* An instance that could be built, within its capacity.
Fits(c) == Sound(c) /\ Buildable(c.cap) /\ Length(c) <= c.cap

AdaptedInv ==
  /\ Fits(cache) /\ size \in Nat /\ size <= cache.cap /\ Length(cache) <= size

----------------------------------------------------------------------------
(* The 2Q cache *)

LEMMA SoundCount ==
  ASSUME NEW c, Sound(c)
  PROVE  IsFiniteSet(Held(c.data)) /\ Length(c) \in Nat
<1>1. PICK R, F, G : Queued(c, R, F, G)
  BY DEF Sound
<1>2. IsFiniteSet(R) /\ IsFiniteSet(F)
  BY <1>1, ListsCount DEF Queued
<1>3. IsFiniteSet(R \cup F)
  BY <1>2, FS_Union
<1> QED
  BY <1>1, <1>3, FS_CardinalityType DEF Queued, Length

\* Keys() lists the residents.
LEMMA KeysListed ==
  ASSUME NEW c, Sound(c)
  PROVE  /\ Lists(QKeys(c), Held(c.data)) /\ Len(QKeys(c)) = Length(c)
         /\ Len(QKeys(c)) \in Nat
<1>1. PICK R, F, G : Queued(c, R, F, G)
  BY DEF Sound
<1>2. F \cap R = {} /\ F \cup R = Held(c.data)
  BY <1>1 DEF Queued
<1>3. Lists(QKeys(c), F \cup R)
  BY <1>1, <1>2, ListsConcat DEF Queued, QKeys
<1>4. Lists(QKeys(c), Held(c.data))
  BY <1>2, <1>3
<1> QED
  BY <1>4, ListsCount DEF Length

LEMMA BuildFacts ==
  ASSUME NEW n \in Nat
  PROVE  /\ Sound(Build(n)) /\ Build(n).cap = n /\ Build(n).data = Empty
         /\ Length(Build(n)) = 0
<1> DEFINE c == Build(n)
<1>1. /\ c.data = Empty /\ c.recent = <<>> /\ c.frequent = <<>> /\ c.ghosts = <<>>
      /\ c.cap = n
      /\ c = [data |-> c.data, recent |-> c.recent, frequent |-> c.frequent,
              ghosts |-> c.ghosts, cap |-> c.cap]
  BY DEF Build
<1> HIDE DEF c
<1>2. Held(c.data) = {} /\ IsContents(c.data)
  BY <1>1, EmptyFacts
<1>3. Queued(c, {}, {}, {})
  BY <1>1, <1>2, ListsEmpty DEF Queued
<1>4. Sound(c)
  BY <1>1, <1>2, <1>3 DEF Sound
<1> QED
  BY <1>1, <1>2, <1>4, FS_EmptySet DEF Length, c

\* Remove drops the key from every queue.
LEMMA QRemoveFacts ==
  ASSUME NEW c, Sound(c), NEW k \in Keys, NEW d, d = QRemove(c, k)
  PROVE  Sound(d) /\ d.cap = c.cap /\ d.data = Without(c.data, k)
<1> DEFINE D == Without(c.data, k)
           f == Unqueued(c.frequent, k)
           r == Unqueued(c.recent, k)
           g == Unqueued(c.ghosts, k)
<1>1. d = [data |-> D, recent |-> r, frequent |-> f, ghosts |-> g, cap |-> c.cap]
  BY DEF QRemove, Sound
<1>2. PICK R, F, G : Queued(c, R, F, G)
  BY DEF Sound
<1>3. Lists(r, R \ {k}) /\ Lists(f, F \ {k}) /\ Lists(g, G \ {k})
  BY <1>2, UnqueuedLists DEF Queued
<1>4. IsContents(D) /\ Held(D) = Held(c.data) \ {k} /\ c.cap \in Nat
  BY HeldFacts DEF Sound
<1> HIDE DEF D, f, r, g
<1>5. /\ d.data = D /\ d.recent = r /\ d.frequent = f /\ d.ghosts = g /\ d.cap = c.cap
      /\ d = [data |-> d.data, recent |-> d.recent, frequent |-> d.frequent,
              ghosts |-> d.ghosts, cap |-> d.cap]
  BY <1>1
<1>6. Queued(d, R \ {k}, F \ {k}, G \ {k})
  BY <1>2, <1>3, <1>4, <1>5 DEF Queued
<1>7. Sound(d)
  BY <1>4, <1>5, <1>6 DEF Sound
<1> QED
  BY <1>5, <1>7 DEF D

\* A key that becomes frequent is in no other queue.
LEMMA MakeFrequentFacts ==
  ASSUME NEW c, Sound(c), NEW k \in Keys, NEW v, v # None, NEW d, d = MakeFrequent(c, k, v)
  PROVE  Sound(d) /\ d.cap = c.cap /\ d.data = [c.data EXCEPT ![k] = v]
<1> DEFINE D == [c.data EXCEPT ![k] = v]
           u == Unqueued(c.frequent, k)
           f == Append(u, k)
           r == Unqueued(c.recent, k)
           g == Unqueued(c.ghosts, k)
<1>1. d = [data |-> D, recent |-> r, frequent |-> f, ghosts |-> g, cap |-> c.cap]
  BY DEF MakeFrequent, Sound
<1>2. PICK R, F, G : Queued(c, R, F, G)
  BY DEF Sound
<1>3. Lists(r, R \ {k}) /\ Lists(u, F \ {k}) /\ Lists(g, G \ {k})
  BY <1>2, UnqueuedLists DEF Queued
<1>4. IsContents(D) /\ Held(D) = Held(c.data) \cup {k} /\ c.cap \in Nat
  BY DEF Sound, IsContents, Held
<1> HIDE DEF D, u, r, g
<1>5. Lists(f, (F \ {k}) \cup {k})
  BY <1>3, ListsAppend
<1> HIDE DEF f
<1>6. /\ d.data = D /\ d.recent = r /\ d.frequent = f /\ d.ghosts = g /\ d.cap = c.cap
      /\ d = [data |-> d.data, recent |-> d.recent, frequent |-> d.frequent,
              ghosts |-> d.ghosts, cap |-> d.cap]
  BY <1>1
<1>7. Queued(d, R \ {k}, (F \ {k}) \cup {k}, G \ {k})
  BY <1>2, <1>3, <1>4, <1>5, <1>6 DEF Queued
<1>8. Sound(d)
  BY <1>4, <1>6, <1>7 DEF Sound
<1> QED
  BY <1>6, <1>8 DEF D

\* A newcomer that is no ghost becomes recent.
MakeRecent(c, k, v) == [c EXCEPT !.data[k] = v, !.recent = Append(@, k)]

LEMMA MakeRecentFacts ==
  ASSUME NEW c, Sound(c), NEW k \in Keys, c.data[k] = None, ~InQueue(c.ghosts, k),
         NEW v, v # None, NEW d, d = MakeRecent(c, k, v)
  PROVE  Sound(d) /\ d.cap = c.cap /\ d.data = [c.data EXCEPT ![k] = v]
<1> DEFINE D == [c.data EXCEPT ![k] = v]
           r == Append(c.recent, k)
<1>1. d = [data |-> D, recent |-> r, frequent |-> c.frequent, ghosts |-> c.ghosts,
           cap |-> c.cap]
  BY DEF MakeRecent, Sound
<1>2. PICK R, F, G : Queued(c, R, F, G)
  BY DEF Sound
<1>3. k \notin R /\ k \notin F
  BY <1>2 DEF Queued, Held
<1>4. k \notin G
  BY <1>2 DEF Queued, Lists, InQueue
<1>5. IsContents(D) /\ Held(D) = Held(c.data) \cup {k} /\ c.cap \in Nat
  BY DEF Sound, IsContents, Held
<1>6. Lists(r, R \cup {k})
  BY <1>2, <1>3, ListsAppend DEF Queued
<1> HIDE DEF D, r
<1>7. /\ d.data = D /\ d.recent = r /\ d.frequent = c.frequent /\ d.ghosts = c.ghosts
      /\ d.cap = c.cap
      /\ d = [data |-> d.data, recent |-> d.recent, frequent |-> d.frequent,
              ghosts |-> d.ghosts, cap |-> d.cap]
  BY <1>1
<1>8. Queued(d, R \cup {k}, F, G)
  BY <1>2, <1>3, <1>4, <1>5, <1>6, <1>7 DEF Queued
<1>9. Sound(d)
  BY <1>5, <1>7, <1>8 DEF Sound
<1> QED
  BY <1>7, <1>9 DEF D

\* d is c without one resident, who alone may have become a ghost.
OneLess(c, d) ==
  /\ Sound(d) /\ d.cap = c.cap
  /\ \E x \in Held(c.data) : d.data = Without(c.data, x)
  /\ \A k \in Keys : InQueue(d.ghosts, k) => InQueue(c.ghosts, k) \/ k \in Held(c.data)

LEMMA EvictRecentFacts ==
  ASSUME NEW c, Sound(c), Len(c.recent) > 0, NEW d, d = EvictRecent(c)
  PROVE  OneLess(c, d)
<1> DEFINE k == Head(c.recent)
           D == Without(c.data, k)
           r == Tail(c.recent)
           u == Unqueued(c.ghosts, k)
           a == Append(u, k)
           g == IF Len(a) > GhostSize(c.cap) THEN Tail(a) ELSE a
<1>1. d = [data |-> D, recent |-> r, frequent |-> c.frequent, ghosts |-> g,
           cap |-> c.cap]
  BY DEF EvictRecent, Sound
<1>2. PICK R, F, G : Queued(c, R, F, G)
  BY DEF Sound
<1>3. k \in R /\ Lists(r, R \ {k})
  BY <1>2, ListsTail DEF Queued
<1>4. k \in Held(c.data) /\ k \in Keys /\ k \notin F /\ k \notin G
  BY <1>2, <1>3 DEF Queued, Held
<1>5. IsContents(D) /\ Held(D) = Held(c.data) \ {k} /\ c.cap \in Nat
  BY HeldFacts DEF Sound
<1> HIDE DEF k, D, r
<1>6. Lists(u, G \ {k})
  BY <1>2, UnqueuedLists DEF Queued
<1> HIDE DEF u
<1>7. Lists(a, (G \ {k}) \cup {k}) /\ Len(a) = Len(u) + 1 /\ Len(u) \in Nat
  BY <1>4, <1>6, ListsAppend, ListsCount
<1> HIDE DEF a
<1>8. \E H : Lists(g, H) /\ H \subseteq G \cup {k}
  <2>1. Len(a) > 0
    BY <1>7
  <2>2. Lists(Tail(a), ((G \ {k}) \cup {k}) \ {Head(a)})
    BY <1>7, <2>1, ListsTail
  <2>3. CASE Len(a) > GhostSize(c.cap)
    BY <2>2, <2>3
  <2>4. CASE ~(Len(a) > GhostSize(c.cap))
    BY <1>7, <2>4
  <2> QED
    BY <2>3, <2>4
<1>9. PICK H : Lists(g, H) /\ H \subseteq G \cup {k}
  BY <1>8
<1> HIDE DEF g
<1>10. /\ d.data = D /\ d.recent = r /\ d.frequent = c.frequent /\ d.ghosts = g
       /\ d.cap = c.cap
       /\ d = [data |-> d.data, recent |-> d.recent, frequent |-> d.frequent,
               ghosts |-> d.ghosts, cap |-> d.cap]
  BY <1>1
<1>11. Queued(d, R \ {k}, F, H)
  <2>1. Lists(d.recent, R \ {k}) /\ Lists(d.frequent, F) /\ Lists(d.ghosts, H)
    BY <1>2, <1>3, <1>9, <1>10 DEF Queued
  <2>2. (R \ {k}) \cap F = {} /\ (R \ {k}) \cup F = Held(d.data) /\ H \cap Held(d.data) = {}
    BY <1>2, <1>3, <1>4, <1>5, <1>9, <1>10 DEF Queued
  <2> QED
    BY <2>1, <2>2 DEF Queued
<1>12. Sound(d)
  BY <1>5, <1>10, <1>11 DEF Sound
<1>13. ASSUME NEW h \in Keys, InQueue(d.ghosts, h)
       PROVE  InQueue(c.ghosts, h) \/ h \in Held(c.data)
  <2>1. h \in H
    BY <1>9, <1>10, <1>13 DEF Lists, InQueue
  <2>2. h \in G \/ h = k
    BY <1>9, <2>1
  <2>3. h \in G => InQueue(c.ghosts, h)
    BY <1>2 DEF Queued, Lists, InQueue
  <2> QED
    BY <1>4, <2>2, <2>3
<1> QED
  BY <1>4, <1>10, <1>12, <1>13 DEF OneLess, D

\* The oldest frequent key is forgotten altogether.
EvictFrequent(c) ==
  [c EXCEPT !.data = Without(@, Head(c.frequent)), !.frequent = Tail(@)]

LEMMA EvictFrequentFacts ==
  ASSUME NEW c, Sound(c), Len(c.frequent) > 0, NEW d, d = EvictFrequent(c)
  PROVE  OneLess(c, d)
<1> DEFINE k == Head(c.frequent)
           D == Without(c.data, k)
           f == Tail(c.frequent)
<1>1. d = [data |-> D, recent |-> c.recent, frequent |-> f, ghosts |-> c.ghosts,
           cap |-> c.cap]
  BY DEF EvictFrequent, Sound
<1>2. PICK R, F, G : Queued(c, R, F, G)
  BY DEF Sound
<1>3. k \in F /\ Lists(f, F \ {k})
  BY <1>2, ListsTail DEF Queued
<1>4. k \in Held(c.data) /\ k \in Keys /\ k \notin R /\ k \notin G
  BY <1>2, <1>3 DEF Queued, Held
<1>5. IsContents(D) /\ Held(D) = Held(c.data) \ {k} /\ c.cap \in Nat
  BY HeldFacts DEF Sound
<1> HIDE DEF k, D, f
<1>6. /\ d.data = D /\ d.recent = c.recent /\ d.frequent = f /\ d.ghosts = c.ghosts
      /\ d.cap = c.cap
      /\ d = [data |-> d.data, recent |-> d.recent, frequent |-> d.frequent,
              ghosts |-> d.ghosts, cap |-> d.cap]
  BY <1>1
<1>7. Queued(d, R, F \ {k}, G)
  <2>1. Lists(d.recent, R) /\ Lists(d.frequent, F \ {k}) /\ Lists(d.ghosts, G)
    BY <1>2, <1>3, <1>6 DEF Queued
  <2>2. R \cap (F \ {k}) = {} /\ R \cup (F \ {k}) = Held(d.data) /\ G \cap Held(d.data) = {}
    BY <1>2, <1>3, <1>4, <1>5, <1>6 DEF Queued
  <2> QED
    BY <2>1, <2>2 DEF Queued
<1>8. Sound(d)
  BY <1>5, <1>6, <1>7 DEF Sound
<1> QED
  BY <1>4, <1>6, <1>8 DEF OneLess, D

\* ensureSpace evicts one resident from a full cache: the queue it turns to has one.
LEMMA EnsureSpaceFacts ==
  ASSUME NEW c, Fits(c), NEW ghost, NEW d, d = EnsureSpace(c, ghost)
  PROVE  IF Length(c) < c.cap THEN d = c ELSE OneLess(c, d)
<1> DEFINE m == c.cap
           quarter == m \div 4
           recents == Len(c.recent)
<1>1. CASE Length(c) < m
  BY <1>1 DEF EnsureSpace
<1>2. CASE ~(Length(c) < m)
  <2>1. PICK R, F, G : Queued(c, R, F, G)
    BY DEF Fits, Sound
  <2>2. /\ IsFiniteSet(R) /\ Cardinality(R) = recents /\ recents \in Nat
        /\ IsFiniteSet(F) /\ Cardinality(F) = Len(c.frequent) /\ Len(c.frequent) \in Nat
    BY <2>1, ListsCount DEF Queued
  <2>3. m \in Nat /\ m \div 2 > 0 /\ Length(c) = m
    BY <1>2, SoundCount DEF Fits, Sound, Buildable, GhostSize
  <2>4. recents + Len(c.frequent) = m
    <3>1. Cardinality(R \cup F) = Cardinality(R) + Cardinality(F) - Cardinality({})
      BY <2>1, <2>2, FS_Union DEF Queued
    <3>2. Cardinality(Held(c.data)) = m /\ R \cup F = Held(c.data) /\ Cardinality({}) = 0
      BY <2>1, <2>3, FS_EmptySet DEF Queued, Length
    <3> DEFINE x == Cardinality(R)
               y == Cardinality(F)
    <3>3. m = x + y - 0 /\ x \in Nat /\ y \in Nat /\ recents = x /\ Len(c.frequent) = y
      BY <2>2, <3>1, <3>2
    <3> HIDE DEF x, y, m, recents
    <3>4. x + y = m
      BY <3>3
    <3> QED
      BY <3>3, <3>4
  <2>5. CASE recents > 0 /\ (recents > quarter \/ (recents = quarter /\ ~ghost))
    <3>1. d = EvictRecent(c)
      BY <1>2, <2>5 DEF EnsureSpace
    <3> QED
      BY <1>2, <2>5, <3>1, EvictRecentFacts DEF Fits
  <2>6. CASE ~(recents > 0 /\ (recents > quarter \/ (recents = quarter /\ ~ghost)))
    <3>1. d = EvictFrequent(c)
      BY <1>2, <2>6 DEF EnsureSpace, EvictFrequent
    <3>2. Len(c.frequent) > 0
      <4> DEFINE fr == Len(c.frequent)
      <4>1. recents = 0 \/ recents <= quarter
        <5>1. quarter \in Int /\ recents \in Nat
          BY <2>2, <2>3
        <5> HIDE DEF quarter, recents
        <5> QED
          BY <2>6, <5>1
      <4>2. fr \in Nat /\ recents \in Nat /\ m \in Nat /\ recents + fr = m /\ m \div 2 > 0
        BY <2>2, <2>3, <2>4
      <4> HIDE DEF fr, recents, m
      <4>3. quarter < m /\ m > 0 /\ quarter \in Nat
        BY <4>2
      <4> HIDE DEF quarter
      <4>4. fr > 0
        BY <4>1, <4>2, <4>3
      <4> QED
        BY <4>4 DEF fr
    <3> QED
      BY <1>2, <3>1, <3>2, EvictFrequentFacts DEF Fits
  <2> QED
    BY <2>5, <2>6
<1> QED
  BY <1>1, <1>2

\* Add is that of a policy which evicts only to make room.
Added(c, d, k, v) ==
  Fits(d) /\ d.cap = c.cap /\ d.data \in AddOutcomes(c.data, c.cap, k, v, FALSE)

LEMMA QAddFacts ==
  ASSUME NEW c, Fits(c), NEW k \in Keys, NEW v, v # None, NEW d, d = QAdd(c, k, v)
  PROVE  Added(c, d, k, v)
<1> DEFINE with == [c.data EXCEPT ![k] = v]
<1>1. /\ Sound(c) /\ IsContents(c.data) /\ c.cap \in Nat /\ Buildable(c.cap)
      /\ AtMost(c.data, c.cap)
  BY SoundCount DEF Fits, Sound, AtMost, Length
<1>2. SUFFICES Sound(d) /\ d.cap = c.cap /\ d.data \in AddOutcomes(c.data, c.cap, k, v, FALSE)
  <2>1. ASSUME Sound(d), d.cap = c.cap, d.data \in AddOutcomes(c.data, c.cap, k, v, FALSE)
        PROVE  Length(d) <= d.cap
    BY <1>1, <2>1, AddAtMost DEF AtMost, Length
  <2> QED
    BY <1>1, <2>1 DEF Added, Fits
<1>3. CASE c.data[k] # None
  <2>1. d = MakeFrequent(c, k, v)
    BY <1>3 DEF QAdd
  <2>2. Sound(d) /\ d.cap = c.cap /\ d.data = with
    BY <1>1, <2>1, MakeFrequentFacts
  <2>3. with \in AddOutcomes(c.data, c.cap, k, v, FALSE)
    BY <1>3 DEF AddOutcomes, Held
  <2> QED
    BY <2>2, <2>3
<1>4. CASE c.data[k] = None
  <2> DEFINE ghost == InQueue(c.ghosts, k)
             e == EnsureSpace(c, ghost)
  <2>1. IF Length(c) < c.cap THEN e = c ELSE OneLess(c, e)
    BY EnsureSpaceFacts
  <2>2. d = IF ghost THEN MakeFrequent(e, k, v) ELSE MakeRecent(e, k, v)
    <3>1. CASE ghost
      <4>1. ghost = TRUE
        BY <3>1 DEF InQueue
      <4>2. d = MakeFrequent(EnsureSpace(c, TRUE), k, v)
        BY <1>4, <3>1 DEF QAdd
      <4> QED
        BY <3>1, <4>1, <4>2
    <3>2. CASE ~ghost
      <4>1. ghost = FALSE
        BY <3>2 DEF InQueue
      <4>2. d = MakeRecent(EnsureSpace(c, FALSE), k, v)
        BY <1>4, <3>2 DEF QAdd, MakeRecent
      <4> QED
        BY <3>2, <4>1, <4>2
    <3> QED
      BY <3>1, <3>2
  <2> HIDE DEF e
  <2>3. k \notin Held(c.data)
    BY <1>4 DEF Held
  <2>4. /\ Sound(e) /\ e.cap = c.cap /\ e.data[k] = None
        /\ InQueue(e.ghosts, k) => ghost
    <3>1. CASE Length(c) < c.cap
      BY <1>1, <1>4, <2>1, <3>1
    <3>2. CASE ~(Length(c) < c.cap)
      <4>1. PICK x \in Held(c.data) : e.data = Without(c.data, x)
        BY <2>1, <3>2 DEF OneLess
      <4>2. e.data[k] = None
        BY <1>1, <1>4, <4>1 DEF Without, IsContents
      <4>3. Sound(e) /\ e.cap = c.cap /\ (InQueue(e.ghosts, k) => ghost)
        BY <2>1, <2>3, <3>2 DEF OneLess
      <4> QED
        BY <4>2, <4>3
    <3> QED
      BY <3>1, <3>2
  <2>5. Sound(d) /\ d.cap = e.cap /\ d.data = [e.data EXCEPT ![k] = v]
    <3>1. CASE ghost
      BY <2>2, <2>4, <3>1, MakeFrequentFacts
    <3>2. CASE ~ghost
      BY <2>2, <2>4, <3>2, MakeRecentFacts
    <3> QED
      BY <3>1, <3>2
  <2>6. d.data \in AddOutcomes(c.data, c.cap, k, v, FALSE)
    <3>1. CASE Length(c) < c.cap
      BY <2>1, <2>5, <3>1 DEF AddOutcomes, Length
    <3>2. CASE ~(Length(c) < c.cap)
      <4>1. PICK x \in Held(c.data) : e.data = Without(c.data, x)
        BY <2>1, <3>2 DEF OneLess
      <4>2. x # k
        BY <2>3
      <4>3. d.data = Without(with, x)
        <5>1. [Without(c.data, x) EXCEPT ![k] = v] = Without(with, x)
          BY <1>1, <4>2 DEF Without, IsContents
        <5> QED
          BY <2>5, <4>1, <5>1
      <4> HIDE DEF with
      <4>4. AddOutcomes(c.data, c.cap, k, v, FALSE) = {Without(with, y) : y \in Held(c.data)}
        BY <2>3, <3>2 DEF AddOutcomes, Length, with
      <4> QED
        BY <4>3, <4>4
    <3> QED
      BY <3>1, <3>2
  <2> QED
    BY <2>4, <2>5, <2>6
<1> QED
  BY <1>3, <1>4

----------------------------------------------------------------------------
(* Trimming and replaying *)

\* One round of enforceCapacityLocked.
EnforceRound(c, n) == IF Length(c) > n THEN QRemove(c, Head(QKeys(c))) ELSE c

\* f is the function of what m rounds of EnforceCapacity leave.
EnforceUp(f, c, n, m) ==
  f = [i \in 0 .. m |-> IF i = 0 THEN c ELSE EnforceRound(f[i - 1], n)]

LEMMA EnforceExists ==
  ASSUME NEW c, NEW n, NEW m \in Nat
  PROVE  \E f : EnforceUp(f, c, n, m)
<1> DEFINE T == {j \in Nat : \E f : EnforceUp(f, c, n, j)}
<1>1. 0 \in T
  <2> DEFINE f == [i \in 0 .. 0 |-> c]
  <2>1. EnforceUp(f, c, n, 0)
    BY DEF EnforceUp
  <2> QED
    BY <2>1
<1>2. ASSUME NEW j \in Nat, j \in T PROVE j + 1 \in T
  <2>1. PICK f : EnforceUp(f, c, n, j)
    BY <1>2
  <2> DEFINE g == [i \in 0 .. j + 1 |-> IF i = j + 1 THEN EnforceRound(f[j], n) ELSE f[i]]
  <2>2. \A i \in 0 .. j : f[i] = IF i = 0 THEN c ELSE EnforceRound(f[i - 1], n)
    BY <2>1 DEF EnforceUp
  <2>3. ASSUME NEW i \in 0 .. j + 1
        PROVE  g[i] = IF i = 0 THEN c ELSE EnforceRound(g[i - 1], n)
    <3>1. CASE i = j + 1
      <4>1. i # 0 /\ j \in 0 .. j + 1 /\ j # j + 1 /\ i - 1 = j
        BY <3>1
      <4>2. g[i] = EnforceRound(f[j], n)
        BY <3>1
      <4>3. g[j] = f[j]
        BY <4>1
      <4> HIDE DEF g
      <4> QED
        BY <3>1, <4>1, <4>2, <4>3
    <3>2. CASE i # j + 1
      <4>1. i \in 0 .. j /\ (i # 0 => i - 1 \in 0 .. j + 1 /\ i - 1 # j + 1)
        BY <3>2
      <4>2. g[i] = f[i]
        BY <3>2
      <4>3. i # 0 => g[i - 1] = f[i - 1]
        BY <4>1
      <4> HIDE DEF g
      <4> QED
        BY <2>2, <4>1, <4>2, <4>3
    <3> QED
      BY <3>1, <3>2
  <2>4. g = [i \in 0 .. j + 1 |-> g[i]]
    OBVIOUS
  <2> HIDE DEF g
  <2>5. EnforceUp(g, c, n, j + 1)
    BY <2>3, <2>4 DEF EnforceUp
  <2> QED
    BY <2>5
<1> HIDE DEF T
<1>3. m \in T
  BY <1>1, <1>2, NatSetInduction
<1> QED
  BY <1>3 DEF T

\* EnforceCapacity is as many rounds as there are entries.
LEMMA EnforceUnfold ==
  ASSUME NEW c, NEW n, Length(c) \in Nat
  PROVE  \E f : EnforceUp(f, c, n, Length(c)) /\ EnforceCapacity(c, n) = f[Length(c)]
<1> DEFINE f == CHOOSE f : EnforceUp(f, c, n, Length(c))
<1>1. EnforceUp(f, c, n, Length(c))
  BY EnforceExists
<1>2. EnforceCapacity(c, n) = f[Length(c)]
  BY DEF EnforceCapacity, EnforceUp, EnforceRound
<1> QED
  BY <1>1, <1>2

\* d is c with some residents gone.
Retains(c, d) ==
  /\ Sound(d) /\ Held(d.data) \subseteq Held(c.data)
  /\ \A h \in Held(d.data) : d.data[h] = c.data[h]

\* d is what j rounds of trimming c to n entries may leave.
Trimming(c, d, n, j) ==
  /\ Retains(c, d) /\ d.cap = c.cap
  /\ Length(c) <= n => d = c
  /\ Length(c) > n => /\ Length(d) >= n
                      /\ Length(d) <= n \/ Length(d) + j <= Length(c)

LEMMA EnforceRoundFacts ==
  ASSUME NEW c, Sound(c), NEW d, NEW n \in Nat, NEW j \in Nat, Trimming(c, d, n, j)
  PROVE  Trimming(c, EnforceRound(d, n), n, j + 1)
<1> DEFINE e == EnforceRound(d, n)
<1>1. Sound(d) /\ Length(c) \in Nat /\ Length(d) \in Nat /\ IsFiniteSet(Held(d.data))
  BY SoundCount DEF Trimming, Retains
<1>2. CASE ~(Length(d) > n)
  <2>1. e = d /\ Length(d) <= n
    BY <1>1, <1>2 DEF EnforceRound
  <2> QED
    BY <2>1 DEF Trimming
<1>3. CASE Length(d) > n
  <2> DEFINE k == Head(QKeys(d))
  <2>1. e = QRemove(d, k)
    BY <1>3 DEF EnforceRound
  <2>2. k \in Held(d.data)
    <3>1. Lists(QKeys(d), Held(d.data)) /\ Len(QKeys(d)) = Length(d)
      BY <1>1, KeysListed
    <3>2. Len(QKeys(d)) > 0
      BY <1>1, <1>3, <3>1
    <3> QED
      BY <3>1, <3>2, ListsTail
  <2>3. k \in Keys
    BY <2>2 DEF Held
  <2> HIDE DEF e, k
  <2>4. Sound(e) /\ e.cap = d.cap /\ e.data = Without(d.data, k)
    BY <1>1, <2>1, <2>3, QRemoveFacts
  <2>5. /\ Held(e.data) = Held(d.data) \ {k}
        /\ \A h \in Held(e.data) : e.data[h] = d.data[h]
    <3>1. IsContents(d.data)
      BY <1>1 DEF Sound
    <3>2. Held(e.data) = Held(d.data) \ {k}
      BY <2>4, <3>1, HeldFacts
    <3>3. \A h \in Keys : h # k => e.data[h] = d.data[h]
      BY <2>4, <3>1 DEF Without, IsContents
    <3> QED
      BY <3>2, <3>3 DEF Held
  <2>6. Length(e) = Length(d) - 1 /\ Length(e) \in Nat
    <3>1. Cardinality(Held(d.data) \ {k}) = Cardinality(Held(d.data)) - 1
      BY <1>1, <2>2, FS_RemoveElement
    <3> QED
      BY <2>4, <2>5, <3>1, SoundCount DEF Length
  <2>7. Retains(c, e) /\ e.cap = c.cap
    BY <2>4, <2>5 DEF Trimming, Retains
  <2>8. Length(c) > n
    <3>1. Length(c) <= n => FALSE
      BY <1>3, <1>1 DEF Trimming
    <3> QED
      BY <1>1, <3>1
  <2>9. Length(d) + j <= Length(c)
    BY <1>1, <1>3, <2>8 DEF Trimming
  <2>10. Length(e) >= n /\ Length(e) + (j + 1) <= Length(c)
    <3> DEFINE x == Length(d)
               y == Length(e)
               z == Length(c)
    <3>1. /\ x \in Nat /\ y \in Nat /\ z \in Nat /\ y = x - 1 /\ x + j <= z /\ x > n
      BY <1>1, <1>3, <2>6, <2>9
    <3> HIDE DEF x, y, z
    <3>2. y >= n /\ y + (j + 1) <= z
      BY <3>1
    <3> QED
      BY <3>2 DEF x, y, z
  <2>11. Trimming(c, e, n, j + 1)
    <3>1. ~(Length(c) <= n)
      BY <1>1, <2>8
    <3> QED
      BY <2>7, <2>10, <3>1 DEF Trimming
  <2> QED
    BY <2>11 DEF e
<1> QED
  BY <1>2, <1>3

\* EnforceCapacity leaves a cache within n as it is, and of a fuller one n entries.
LEMMA EnforceFacts ==
  ASSUME NEW c, Sound(c), NEW n \in Nat, NEW d, d = EnforceCapacity(c, n)
  PROVE  /\ Retains(c, d) /\ d.cap = c.cap
         /\ Length(c) <= n => d = c
         /\ Length(c) > n => Length(d) = n
<1> DEFINE N == Length(c)
<1>1. N \in Nat
  BY SoundCount
<1>2. PICK f : EnforceUp(f, c, n, N) /\ d = f[N]
  BY <1>1, EnforceUnfold
<1>3. Trimming(c, c, n, 0)
  BY <1>1 DEF Trimming, Retains
<1> HIDE DEF N
<1>4. /\ f[0] = c
      /\ \A j \in Nat : j + 1 <= N => f[j + 1] = EnforceRound(f[j], n)
  <2>1. \A i \in 0 .. N : f[i] = IF i = 0 THEN c ELSE EnforceRound(f[i - 1], n)
    BY <1>2 DEF EnforceUp
  <2>2. 0 \in 0 .. N /\ \A j \in Nat : j + 1 <= N =>
                          j + 1 \in 0 .. N /\ j + 1 # 0 /\ (j + 1) - 1 = j
    BY <1>1
  <2> QED
    BY <2>1, <2>2
<1> DEFINE U == {j \in Nat : j <= N => Trimming(c, f[j], n, j)}
<1>5. 0 \in U
  BY <1>3, <1>4
<1>6. ASSUME NEW j \in Nat, j \in U PROVE j + 1 \in U
  <2> SUFFICES ASSUME j + 1 <= N PROVE Trimming(c, f[j + 1], n, j + 1)
    OBVIOUS
  <2>1. Trimming(c, f[j], n, j)
    BY <1>1, <1>6
  <2>2. Trimming(c, EnforceRound(f[j], n), n, j + 1)
    BY <2>1, EnforceRoundFacts
  <2> QED
    BY <1>4, <2>2
<1> HIDE DEF U
<1>7. N \in U
  BY <1>1, <1>5, <1>6, NatSetInduction
<1>8. Trimming(c, d, n, N)
  BY <1>1, <1>2, <1>7 DEF U
<1>9. Length(d) \in Nat
  BY <1>8, SoundCount DEF Trimming, Retains
<1>10. ASSUME Length(c) > n PROVE Length(d) = n
  <2>1. Length(d) >= n /\ (Length(d) <= n \/ Length(d) + N <= N)
    BY <1>8, <1>10 DEF Trimming, N
  <2> QED
    BY <1>1, <1>9, <2>1
<1> QED
  BY <1>8, <1>10 DEF Trimming

\* One entry replayed into the rebuilt cache.
ReplayRound(d, c, k) == QAdd(d, k, c.data[k])

\* f is the function of what replaying the first m keys leaves.
ReplayUp(f, c, n, m) ==
  f = [i \in 0 .. m |-> IF i = 0 THEN Build(n) ELSE ReplayRound(f[i - 1], c, QKeys(c)[i])]

LEMMA ReplayExists ==
  ASSUME NEW c, NEW n, NEW m \in Nat
  PROVE  \E f : ReplayUp(f, c, n, m)
<1> DEFINE T == {j \in Nat : \E f : ReplayUp(f, c, n, j)}
<1>1. 0 \in T
  <2> DEFINE f == [i \in 0 .. 0 |-> Build(n)]
  <2>1. ReplayUp(f, c, n, 0)
    BY DEF ReplayUp
  <2> QED
    BY <2>1
<1>2. ASSUME NEW j \in Nat, j \in T PROVE j + 1 \in T
  <2>1. PICK f : ReplayUp(f, c, n, j)
    BY <1>2
  <2> DEFINE g == [i \in 0 .. j + 1 |-> IF i = j + 1 THEN ReplayRound(f[j], c, QKeys(c)[j + 1]) ELSE f[i]]
  <2>2. \A i \in 0 .. j : f[i] = IF i = 0 THEN Build(n) ELSE ReplayRound(f[i - 1], c, QKeys(c)[i])
    BY <2>1 DEF ReplayUp
  <2>3. ASSUME NEW i \in 0 .. j + 1
        PROVE  g[i] = IF i = 0 THEN Build(n) ELSE ReplayRound(g[i - 1], c, QKeys(c)[i])
    <3>1. CASE i = j + 1
      <4>1. i # 0 /\ j \in 0 .. j + 1 /\ j # j + 1 /\ i - 1 = j
        BY <3>1
      <4>2. g[i] = ReplayRound(f[j], c, QKeys(c)[j + 1])
        BY <3>1
      <4>3. g[j] = f[j]
        BY <4>1
      <4> HIDE DEF g
      <4> QED
        BY <3>1, <4>1, <4>2, <4>3
    <3>2. CASE i # j + 1
      <4>1. i \in 0 .. j /\ (i # 0 => i - 1 \in 0 .. j + 1 /\ i - 1 # j + 1)
        BY <3>2
      <4>2. g[i] = f[i]
        BY <3>2
      <4>3. i # 0 => g[i - 1] = f[i - 1]
        BY <4>1
      <4> HIDE DEF g
      <4> QED
        BY <2>2, <4>1, <4>2, <4>3
    <3> QED
      BY <3>1, <3>2
  <2>4. g = [i \in 0 .. j + 1 |-> g[i]]
    OBVIOUS
  <2> HIDE DEF g
  <2>5. ReplayUp(g, c, n, j + 1)
    BY <2>3, <2>4 DEF ReplayUp
  <2> QED
    BY <2>5
<1> HIDE DEF T
<1>3. m \in T
  BY <1>1, <1>2, NatSetInduction
<1> QED
  BY <1>3 DEF T

\* Replayed takes the keys one by one.
LEMMA ReplayUnfold ==
  ASSUME NEW c, NEW n, Len(QKeys(c)) \in Nat
  PROVE  \E f : ReplayUp(f, c, n, Len(QKeys(c))) /\ Replayed(c, n) = f[Len(QKeys(c))]
<1> DEFINE f == CHOOSE f : ReplayUp(f, c, n, Len(QKeys(c)))
<1>1. ReplayUp(f, c, n, Len(QKeys(c)))
  BY ReplayExists
<1>2. Replayed(c, n) = f[Len(QKeys(c))]
  BY DEF Replayed, ReplayUp, ReplayRound
<1> QED
  BY <1>1, <1>2

\* d is what a cache of capacity n holds after the first j keys of c have been replayed:
\* as many of them as fit.
Replaying(c, d, n, j) ==
  /\ Fits(d) /\ d.cap = n /\ Held(d.data) \subseteq FirstKeys(QKeys(c), j)
  /\ \A h \in Held(d.data) : d.data[h] = c.data[h]
  /\ Length(d) = IF j <= n THEN j ELSE n

LEMMA ReplayRoundFacts ==
  ASSUME NEW c, Sound(c), NEW n \in Nat, NEW j \in Nat, j + 1 <= Len(QKeys(c)),
         NEW d, Replaying(c, d, n, j)
  PROVE  Replaying(c, ReplayRound(d, c, QKeys(c)[j + 1]), n, j + 1)
<1> DEFINE q == QKeys(c)
           k == q[j + 1]
           v == c.data[k]
           e == ReplayRound(d, c, k)
<1>1. Lists(q, Held(c.data)) /\ Len(q) \in Nat
  BY KeysListed
<1>2. /\ j + 1 \in 1 .. Len(q) /\ \A i \in 1 .. j : i \in 1 .. Len(q) /\ i # j + 1
  <2> DEFINE m == Len(q)
  <2>1. m \in Nat /\ j + 1 <= m
    BY <1>1
  <2> HIDE DEF m
  <2>2. j + 1 \in 1 .. m /\ \A i \in 1 .. j : i \in 1 .. m /\ i # j + 1
    BY <2>1
  <2> QED
    BY <2>2 DEF m
<1> HIDE DEF q
<1>3. k \in Keys /\ k \in Held(c.data) /\ k \notin FirstKeys(q, j)
  BY <1>1, <1>2 DEF Lists, FirstKeys
<1>4. FirstKeys(q, j + 1) = FirstKeys(q, j) \cup {k}
  <2>1. 1 .. j + 1 = (1 .. j) \cup {j + 1}
    OBVIOUS
  <2> QED
    BY <2>1 DEF FirstKeys
<1> HIDE DEF k
<1>5. v # None
  BY <1>3 DEF Held
<1>6. Fits(d) /\ d.cap = n /\ Held(d.data) \subseteq FirstKeys(q, j)
      /\ (\A h \in Held(d.data) : d.data[h] = c.data[h])
      /\ Length(d) = IF j <= n THEN j ELSE n
  BY DEF Replaying, q
<1>7. k \notin Held(d.data)
  BY <1>3, <1>6
<1>8. e = QAdd(d, k, v)
  BY DEF ReplayRound
<1> HIDE DEF e, v
<1>9. Added(d, e, k, v)
  BY <1>3, <1>5, <1>6, <1>8, QAddFacts
<1>10. Joined(d.data, e.data, n, k, v)
  <2>1. IsContents(d.data) /\ IsFiniteSet(Held(d.data))
    BY <1>6, SoundCount DEF Fits, Sound
  <2>2. e.data \in AddOutcomes(d.data, n, k, v, FALSE)
    BY <1>6, <1>9 DEF Added
  <2> QED
    BY <1>3, <1>5, <1>7, <2>1, <2>2, AddNewcomer
<1>11. Held(e.data) \subseteq FirstKeys(q, j + 1)
  BY <1>4, <1>6, <1>10 DEF Joined
<1>12. \A h \in Held(e.data) : e.data[h] = c.data[h]
  <2>1. ASSUME NEW h \in Held(e.data), h # k PROVE e.data[h] = c.data[h]
    BY <1>6, <1>10, <2>1 DEF Joined
  <2> QED
    BY <1>10, <2>1 DEF Joined, v
<1>13. Length(e) = IF j + 1 <= n THEN j + 1 ELSE n
  <2> DEFINE x == Length(d)
             y == Length(e)
  <2>1. x \in Nat /\ x = (IF j <= n THEN j ELSE n) /\ y = IF x < n THEN x + 1 ELSE x
    BY <1>6, <1>10, SoundCount DEF Joined, Length, Fits
  <2> HIDE DEF x, y
  <2>2. y = IF j + 1 <= n THEN j + 1 ELSE n
    BY <2>1
  <2> QED
    BY <2>2 DEF y
<1>14. Replaying(c, e, n, j + 1)
  BY <1>6, <1>9, <1>11, <1>12, <1>13 DEF Replaying, Added, q
<1> QED
  BY <1>14 DEF e, k, q

\* Replaying the entries into an instance of capacity n keeps as many as fit.
LEMMA ReplayedFacts ==
  ASSUME NEW c, Sound(c), NEW n \in Nat, Buildable(n), NEW d, d = Replayed(c, n)
  PROVE  /\ Retains(c, d) /\ Fits(d) /\ d.cap = n
         /\ Length(d) = IF Length(c) <= n THEN Length(c) ELSE n
<1> DEFINE N == Len(QKeys(c))
<1>1. N \in Nat /\ N = Length(c) /\ Lists(QKeys(c), Held(c.data))
  BY KeysListed
<1>2. PICK f : ReplayUp(f, c, n, N) /\ d = f[N]
  BY <1>1, ReplayUnfold
<1> DEFINE q == QKeys(c)
<1> HIDE DEF q
<1>3. /\ f[0] = Build(n)
      /\ \A j \in Nat : j + 1 <= N => f[j + 1] = ReplayRound(f[j], c, q[j + 1])
  <2> HIDE DEF N
  <2>1. \A i \in 0 .. N : f[i] = IF i = 0 THEN Build(n) ELSE ReplayRound(f[i - 1], c, q[i])
    BY <1>2 DEF ReplayUp, q
  <2>2. 0 \in 0 .. N /\ \A j \in Nat : j + 1 <= N =>
                          j + 1 \in 0 .. N /\ j + 1 # 0 /\ (j + 1) - 1 = j
    BY <1>1
  <2> QED
    BY <2>1, <2>2
<1> DEFINE U == {j \in Nat : j <= N => Replaying(c, f[j], n, j)}
<1>4. 0 \in U
  <2>1. /\ Sound(Build(n)) /\ Build(n).cap = n /\ Build(n).data = Empty
        /\ Length(Build(n)) = 0
    BY BuildFacts
  <2>2. Held(Build(n).data) = {}
    BY <2>1, EmptyFacts
  <2>3. Replaying(c, Build(n), n, 0)
    BY <2>1, <2>2 DEF Replaying, Fits
  <2> QED
    BY <1>3, <2>3
<1>5. ASSUME NEW j \in Nat, j \in U PROVE j + 1 \in U
  <2> SUFFICES ASSUME j + 1 <= N PROVE Replaying(c, f[j + 1], n, j + 1)
    OBVIOUS
  <2>1. Replaying(c, f[j], n, j)
    BY <1>1, <1>5
  <2>2. Replaying(c, ReplayRound(f[j], c, q[j + 1]), n, j + 1)
    BY <2>1, ReplayRoundFacts DEF q
  <2>3. f[j + 1] = ReplayRound(f[j], c, q[j + 1])
    BY <1>3
  <2> QED
    BY <2>2, <2>3
<1> HIDE DEF U, N
<1>6. N \in U
  BY <1>1, <1>4, <1>5, NatSetInduction
<1>7. Replaying(c, d, n, N)
  BY <1>1, <1>2, <1>6 DEF U
<1>8. FirstKeys(QKeys(c), N) \subseteq Held(c.data)
  BY <1>1 DEF Lists, FirstKeys, N
<1>9. Retains(c, d)
  BY <1>7, <1>8 DEF Replaying, Retains, Fits
<1> QED
  BY <1>1, <1>7, <1>9 DEF Replaying

\* What is retained of the contents is one of the outcomes of Resize.
LEMMA RetainsIsResize ==
  ASSUME NEW c, Sound(c), NEW n \in Nat, NEW d, Retains(c, d),
         Length(d) = IF Length(c) <= n THEN Length(c) ELSE n
  PROVE  /\ d.data \in ResizeOutcomes(c.data, n)
         /\ Length(c) - Length(d) = Cardinality(Held(c.data) \ Held(d.data))
<1>1. /\ IsFiniteSet(Held(c.data)) /\ Length(c) \in Nat /\ Length(d) \in Nat
      /\ IsContents(c.data) /\ IsContents(d.data)
      /\ Held(d.data) \subseteq Held(c.data)
  BY SoundCount DEF Retains, Sound
<1>2. d.data = Keep(c.data, Held(d.data))
  <2>1. \A h \in Keys : h \notin Held(d.data) => d.data[h] = None
    BY DEF Held
  <2>2. \A h \in Keys : d.data[h] = IF h \in Held(d.data) THEN c.data[h] ELSE None
    BY <2>1 DEF Retains
  <2> QED
    BY <1>1, <2>2 DEF Keep, IsContents
<1>3. d.data \in ResizeOutcomes(c.data, n)
  <2>1. CASE Length(c) <= n
    <3>1. Cardinality(Held(d.data)) = Cardinality(Held(c.data))
      BY <2>1 DEF Length
    <3>2. Held(d.data) = Held(c.data)
      BY <1>1, <3>1, FS_Subset
    <3>3. Keep(c.data, Held(c.data)) = c.data
      <4>1. \A h \in Keys : c.data[h] = IF h \in Held(c.data) THEN c.data[h] ELSE None
        BY DEF Held
      <4> QED
        BY <1>1, <4>1 DEF Keep, IsContents
    <3> QED
      BY <1>2, <2>1, <3>2, <3>3 DEF ResizeOutcomes, Length
  <2>2. CASE ~(Length(c) <= n)
    <3>1. Cardinality(Held(d.data)) = n
      BY <2>2 DEF Length
    <3> QED
      BY <1>1, <1>2, <2>2, <3>1 DEF ResizeOutcomes, Length
  <2> QED
    BY <2>1, <2>2
<1>4. Length(c) - Length(d) = Cardinality(Held(c.data) \ Held(d.data))
  BY <1>1, GoneCount DEF Length
<1> QED
  BY <1>3, <1>4

\* What the wrapper's Add makes of an instance c when it reports the capacity n; in step
\* with the instance it never turns the newcomer away.
Stores(c, d, n, k, v) ==
  /\ Fits(d) /\ d.cap = c.cap /\ Length(d) <= n
  /\ d.data \in AddOutcomes(c.data, n, k, v, TRUE)
  /\ n = c.cap =>
       /\ d.data[k] = v
       /\ Cardinality(Held(c.data) \ Held(d.data)) =
            IF c.data[k] = None /\ Length(c) >= n THEN 1 ELSE 0

LEMMA StoreFacts ==
  ASSUME NEW c, Fits(c), NEW n \in Nat, Length(c) <= n, n <= c.cap,
         NEW k \in Keys, NEW v, v # None, NEW d, d = EnforceCapacity(QAdd(c, k, v), n)
  PROVE  Stores(c, d, n, k, v)
<1> DEFINE e == QAdd(c, k, v)
           with == [c.data EXCEPT ![k] = v]
<1>1. Added(c, e, k, v) /\ d = EnforceCapacity(e, n)
  BY QAddFacts
<1> HIDE DEF e
<1>2. /\ Sound(c) /\ IsContents(c.data) /\ c.cap \in Nat /\ Length(c) \in Nat
      /\ IsFiniteSet(Held(c.data)) /\ Buildable(c.cap)
      /\ Sound(e) /\ IsContents(e.data) /\ e.cap = c.cap /\ Length(e) \in Nat
      /\ IsFiniteSet(Held(e.data)) /\ Length(e) <= c.cap
      /\ e.data \in AddOutcomes(c.data, c.cap, k, v, FALSE)
  BY <1>1, SoundCount DEF Added, Fits, Sound
<1>3. /\ Retains(e, d) /\ d.cap = c.cap
      /\ Length(e) <= n => d = e
      /\ Length(e) > n => Length(d) = n
  BY <1>1, <1>2, EnforceFacts
<1>4. /\ IsContents(with) /\ Held(with) = Held(c.data) \cup {k} /\ with[k] = v
  BY <1>2 DEF IsContents, Held
<1>5. Fits(d) /\ Length(d) <= n
  <2>1. Sound(d) /\ Length(d) \in Nat
    BY <1>3, SoundCount DEF Retains
  <2>2. Length(d) <= n
    BY <1>2, <1>3, <2>1
  <2>3. Length(d) <= c.cap
    BY <1>2, <2>1, <2>2
  <2> QED
    BY <1>2, <1>3, <2>1, <2>2, <2>3 DEF Fits
<1>6. CASE c.data[k] # None
  <2>1. k \in Held(c.data) /\ Held(with) = Held(c.data)
    BY <1>4, <1>6 DEF Held
  <2>2. e.data = with
    BY <1>2, <2>1 DEF AddOutcomes
  <2>3. Length(e) = Length(c)
    BY <2>1, <2>2 DEF Length
  <2>4. d = e
    BY <1>3, <2>3
  <2>5. d.data \in AddOutcomes(c.data, n, k, v, TRUE)
    BY <2>1, <2>2, <2>4 DEF AddOutcomes
  <2>6. Held(c.data) \ Held(d.data) = {}
    BY <2>1, <2>2, <2>4
  <2> QED
    BY <1>3, <1>4, <1>5, <1>6, <2>2, <2>4, <2>5, <2>6, FS_EmptySet DEF Stores
<1>7. CASE c.data[k] = None
  <2>1. k \notin Held(c.data)
    BY <1>7 DEF Held
  <2>2. Joined(c.data, e.data, c.cap, k, v)
    BY <1>2, <2>1, AddNewcomer
  <2>3. CASE Length(c) < n
    <3>1. Length(c) < c.cap
      BY <1>2, <2>3
    <3>2. e.data = with
      BY <1>2, <3>1 DEF AddOutcomes, Length
    <3>3. Length(e) = Length(c) + 1 /\ Held(c.data) \ Held(e.data) = {}
      BY <2>2, <3>1 DEF Joined, Length
    <3>4. d = e
      BY <1>2, <1>3, <2>3, <3>3
    <3>5. d.data \in AddOutcomes(c.data, n, k, v, TRUE)
      BY <2>3, <3>2, <3>4 DEF AddOutcomes, Length
    <3>6. ~(Length(c) >= n) /\ Cardinality(Held(c.data) \ Held(d.data)) = 0
      BY <1>2, <2>3, <3>3, <3>4, FS_EmptySet
    <3> QED
      BY <1>3, <1>4, <1>5, <3>2, <3>4, <3>5, <3>6 DEF Stores
  <2>4. CASE ~(Length(c) < n)
    <3> HIDE DEF with
    <3>1. Length(c) = n
      BY <1>2, <2>4
    <3>2. AddOutcomes(c.data, n, k, v, TRUE) = {Without(with, x) : x \in Held(with)}
      BY <2>1, <2>4 DEF AddOutcomes, Length, with
    <3>3. CASE n = c.cap
      <4>1. PICK x \in Held(c.data) : e.data = Without(with, x)
        BY <1>2, <2>1, <2>4, <3>3 DEF AddOutcomes, Length, with
      <4>2. Length(e) = Length(c)
        BY <2>2, <2>4, <3>3 DEF Joined, Length
      <4>3. d = e
        BY <1>3, <4>2
      <4>4. d.data \in AddOutcomes(c.data, n, k, v, TRUE)
        BY <1>4, <3>2, <4>1, <4>3
      <4>5. d.data[k] = v /\ Cardinality(Held(c.data) \ Held(d.data)) = 1
        BY <2>2, <2>4, <3>3, <4>3, FS_Singleton DEF Joined, Length
      <4>6. Length(c) >= n
        BY <1>2, <3>1
      <4> QED
        BY <1>3, <1>5, <1>7, <4>4, <4>5, <4>6 DEF Stores
    <3>4. CASE n # c.cap
      <4>1. Length(c) < c.cap
        BY <1>2, <3>1, <3>4
      <4>2. e.data = with
        BY <1>2, <4>1 DEF AddOutcomes, Length, with
      <4>3. Length(e) = n + 1
        BY <2>2, <3>1, <4>1 DEF Joined, Length
      <4>4. Length(d) = n
        <5>1. Length(e) > n
          BY <4>3
        <5> QED
          BY <1>3, <5>1
      <4> DEFINE A == Held(with)
                 B == Held(d.data)
      <4>5. /\ IsFiniteSet(A) /\ B \subseteq A /\ Cardinality(A) = n + 1 /\ Cardinality(B) = n
        BY <1>2, <1>3, <4>2, <4>3, <4>4 DEF Retains, Length
      <4>6. PICK x : A \ B = {x}
        <5> HIDE DEF A, B
        <5>1. IsFiniteSet(A \ B)
          BY <4>5, FS_Difference
        <5>2. Cardinality(A \ B) = Cardinality(A) - Cardinality(B)
          BY <4>5, GoneCount
        <5>3. Cardinality(A \ B) = 1
          BY <4>5, <5>2
        <5> QED
          BY <5>1, <5>3, FS_Singleton
      <4>7. x \in A /\ B = A \ {x}
        BY <4>5, <4>6
      <4>8. d.data = Without(with, x)
        <5>1. IsContents(d.data) /\ \A h \in Held(d.data) : d.data[h] = with[h]
          BY <1>3, <4>2 DEF Retains, Sound
        <5>2. \A h \in Keys : h \notin Held(d.data) => d.data[h] = None
          BY DEF Held
        <5>3. \A h \in Keys : h \notin Held(with) => with[h] = None
          BY DEF Held
        <5>4. \A h \in Keys : d.data[h] = IF h = x THEN None ELSE with[h]
          BY <4>7, <5>1, <5>2, <5>3
        <5>5. Without(with, x) = [h \in Keys |-> IF h = x THEN None ELSE with[h]]
          BY <1>4 DEF Without, IsContents
        <5> QED
          BY <5>1, <5>4, <5>5 DEF IsContents
      <4>9. d.data \in AddOutcomes(c.data, n, k, v, TRUE)
        BY <3>2, <4>7, <4>8
      <4> QED
        BY <1>3, <1>5, <3>4, <4>9 DEF Stores
    <3> QED
      BY <3>3, <3>4
  <2> QED
    BY <2>3, <2>4
<1> QED
  BY <1>6, <1>7

----------------------------------------------------------------------------
(* The steps *)

\* The contract's view of one operation: what it sees of the cache is the contents.
LEMMA ContractFacts ==
  /\ Contract!Left = {cache.data} /\ Contract!Empty = Empty
  /\ \A c, k : Contract!Without(c, k) = Without(c, k)
  /\ \A c, n, k, v : Contract!AddOutcomes(c, n, k, v, TRUE) = AddOutcomes(c, n, k, v, TRUE)
  /\ \A c, n : Contract!ResizeOutcomes(c, n) = ResizeOutcomes(c, n)
<1>1. /\ \A c, k : Contract!Without(c, k) = Without(c, k)
      /\ \A c : Contract!Held(c) = Held(c)
      /\ \A c, S : Contract!Keep(c, S) = Keep(c, S)
      /\ Contract!Empty = Empty
  BY DEF Contract!Without, Without, Contract!Held, Held, Contract!Keep, Keep,
         Contract!Empty, Empty
<1>2. Contract!Left = {cache.data}
  BY DEF Contract!Left
<1>3. \A c, n, k, v : Contract!AddOutcomes(c, n, k, v, TRUE) = AddOutcomes(c, n, k, v, TRUE)
  BY DEF Contract!AddOutcomes, AddOutcomes, Contract!Held, Held, Contract!Without, Without,
         Contract!Cardinality, Cardinality
<1>4. \A c, n : Contract!ResizeOutcomes(c, n) = ResizeOutcomes(c, n)
  BY DEF Contract!ResizeOutcomes, ResizeOutcomes, Contract!Held, Held, Contract!Keep, Keep,
         Contract!Cardinality, Cardinality
<1> QED
  BY <1>1, <1>2, <1>3, <1>4

\* What a step of the operations must show: the invariant again, a step of the contract
\* and a true report.
Kept == AdaptedInv' /\ [Contract!Next]_(Contract!vars)
Told == result' = Cardinality(Gone)

LEMMA AdaptedAdd ==
  ASSUME AdaptedInv, NEW k \in Keys, NEW v \in Values, Add(k, v)
  PROVE  Kept /\ (InStep => Told /\ cache'.data[k] = v)
<1>1. /\ Fits(cache) /\ size \in Nat /\ size <= cache.cap /\ Length(cache) <= size
      /\ v # None /\ size' = size /\ cache.cap \in Nat /\ cache.cap \div 2 > 0
  BY ParamsAssumption DEF AdaptedInv, Add, Fits, Sound, Buildable, GhostSize
<1>2. CASE size <= 0
  <2>1. cache' = cache
    BY <1>1, <1>2 DEF Add
  <2>2. ~InStep
    BY <1>1, <1>2 DEF InStep
  <2> QED
    BY <1>1, <2>1, <2>2 DEF Kept, AdaptedInv, Contract!vars
<1>3. CASE size > 0
  <2> DEFINE d == cache'
  <2>1. /\ d = EnforceCapacity(QAdd(cache, k, v), size)
        /\ result' = IF cache.data[k] = None /\ Length(cache) >= size THEN 1 ELSE 0
    BY <1>1, <1>3 DEF Add
  <2> HIDE DEF d
  <2>2. Stores(cache, d, size, k, v)
    BY <1>1, <2>1, StoreFacts
  <2>3. AdaptedInv'
    BY <1>1, <2>2 DEF Stores, AdaptedInv, d, Length, Held
  <2>4. Contract!Add(k, v)
    BY <1>1, <2>2, ContractFacts DEF Stores, Contract!Add, d
  <2>5. ASSUME InStep PROVE Told /\ d.data[k] = v
    <3>1. Gone = Held(cache.data) \ Held(d.data)
      BY DEF Gone, Held, d
    <3> QED
      BY <2>1, <2>2, <2>5, <3>1 DEF Stores, InStep, Told
  <2> QED
    BY <2>3, <2>4, <2>5 DEF Kept, Contract!Next, d
<1> QED
  BY <1>1, <1>2, <1>3

LEMMA AdaptedGet ==
  ASSUME AdaptedInv, NEW k \in Keys, Get(k)
  PROVE  Kept
<1> DEFINE d == cache'
           v == cache.data[k]
<1>1. /\ Fits(cache) /\ Sound(cache) /\ size \in Nat /\ size <= cache.cap
      /\ Length(cache) <= size /\ v # None /\ size' = size /\ IsContents(cache.data)
  BY DEF AdaptedInv, Get, Fits, Sound
<1>2. d = MakeFrequent(cache, k, v)
  BY DEF Get
<1>3. [cache.data EXCEPT ![k] = v] = cache.data
  BY <1>1 DEF IsContents
<1> HIDE DEF d, v
<1>4. Sound(d) /\ d.cap = cache.cap /\ d.data = [cache.data EXCEPT ![k] = v]
  BY <1>1, <1>2, MakeFrequentFacts
<1>5. d.data = cache.data
  BY <1>3, <1>4
<1>6. AdaptedInv'
  BY <1>1, <1>4, <1>5 DEF AdaptedInv, Fits, Length, Held, d
<1> QED
  BY <1>1, <1>5, <1>6 DEF Kept, Contract!vars, d

LEMMA AdaptedRemove ==
  ASSUME AdaptedInv, NEW k \in Keys, Remove(k)
  PROVE  Kept /\ Told
<1> DEFINE d == cache'
<1>1. /\ Fits(cache) /\ Sound(cache) /\ size \in Nat /\ size <= cache.cap
      /\ Length(cache) <= size /\ size' = size /\ IsContents(cache.data)
      /\ cache.cap \in Nat
      /\ result' = IF cache.data[k] # None THEN 1 ELSE 0
  BY DEF AdaptedInv, Remove, Fits, Sound
<1>2. d = QRemove(cache, k)
  BY DEF Remove
<1> HIDE DEF d
<1>3. Sound(d) /\ d.cap = cache.cap /\ d.data = Without(cache.data, k)
  BY <1>1, <1>2, QRemoveFacts
<1>4. Held(d.data) = Held(cache.data) \ {k} /\ IsFiniteSet(Held(cache.data))
  BY <1>1, <1>3, HeldFacts, SoundCount
<1>5. Length(d) <= Length(cache) /\ Length(d) \in Nat /\ Length(cache) \in Nat
  BY <1>1, <1>3, <1>4, FS_Subset, SoundCount DEF Length
<1>6. AdaptedInv'
  BY <1>1, <1>3, <1>5 DEF AdaptedInv, Fits, Length, Held, d
<1>7. Contract!Remove(k)
  BY <1>1, <1>3, ContractFacts DEF Contract!Remove, d
<1>8. Told
  <2>1. Gone = IF cache.data[k] # None THEN {k} ELSE {}
    <3>1. Gone = Held(cache.data) \ Held(d.data)
      BY DEF Gone, Held, d
    <3> QED
      BY <1>4, <3>1 DEF Held
  <2>2. Cardinality(Gone) = IF cache.data[k] # None THEN 1 ELSE 0
    BY <2>1, FS_EmptySet, FS_Singleton
  <2> QED
    BY <1>1, <2>2 DEF Told
<1> QED
  BY <1>6, <1>7, <1>8 DEF Kept, Contract!Next

LEMMA AdaptedPurge ==
  ASSUME AdaptedInv, Purge
  PROVE  Kept
<1> DEFINE d == cache'
<1>1. /\ Fits(cache) /\ size \in Nat /\ size <= cache.cap /\ cache.cap \in Nat
      /\ Buildable(cache.cap) /\ size' = size /\ d = Build(cache.cap)
  BY DEF AdaptedInv, Purge, Fits, Sound
<1> HIDE DEF d
<1>2. Sound(d) /\ d.cap = cache.cap /\ d.data = Empty /\ Length(d) = 0
  BY <1>1, BuildFacts
<1>3. AdaptedInv'
  BY <1>1, <1>2 DEF AdaptedInv, Fits, Length, Held, d
<1>4. Contract!Purge
  BY <1>1, <1>2, ContractFacts DEF Contract!Purge, d
<1> QED
  BY <1>3, <1>4 DEF Kept, Contract!Next

\* What Resize leaves of an instance c that reports the capacity m.
LEMMA NextInstance ==
  ASSUME NEW c, Fits(c), NEW m \in Nat, m <= c.cap, Length(c) <= m, NEW n \in Nat,
         NEW d, d = IF n = m THEN c
                    ELSE IF n = 0 THEN Build(c.cap)
                    ELSE IF Buildable(n) THEN Replayed(c, n)
                    ELSE EnforceCapacity(c, n)
  PROVE  /\ Fits(d) /\ n <= d.cap /\ Retains(c, d)
         /\ Length(d) = IF Length(c) <= n THEN Length(c) ELSE n
<1>1. Sound(c) /\ c.cap \in Nat /\ Buildable(c.cap) /\ Length(c) \in Nat
  BY SoundCount DEF Fits, Sound
<1>2. CASE n = m
  <2>1. d = c /\ Retains(c, c)
    BY <1>1, <1>2 DEF Retains
  <2> QED
    BY <1>2, <2>1
<1>3. CASE n # m /\ n = 0
  <2>1. d = Build(c.cap)
    BY <1>3
  <2>2. Sound(d) /\ d.cap = c.cap /\ d.data = Empty /\ Length(d) = 0
    BY <1>1, <2>1, BuildFacts
  <2>3. Held(d.data) = {}
    BY <2>2, EmptyFacts
  <2>4. Retains(c, d)
    BY <2>2, <2>3 DEF Retains
  <2>5. Fits(d) /\ n <= d.cap
    BY <1>1, <1>3, <2>2 DEF Fits
  <2>6. Length(d) = IF Length(c) <= n THEN Length(c) ELSE n
    BY <1>1, <1>3, <2>2
  <2> QED
    BY <2>4, <2>5, <2>6
<1>4. CASE n # m /\ n # 0 /\ Buildable(n)
  <2>1. d = Replayed(c, n)
    BY <1>4
  <2>2. /\ Retains(c, d) /\ Fits(d) /\ d.cap = n
        /\ Length(d) = IF Length(c) <= n THEN Length(c) ELSE n
    BY <1>1, <1>4, <2>1, ReplayedFacts
  <2> QED
    BY <2>2
<1>5. CASE n # m /\ n # 0 /\ ~Buildable(n)
  <2>1. d = EnforceCapacity(c, n)
    BY <1>5
  <2>2. /\ Retains(c, d) /\ d.cap = c.cap
        /\ Length(c) <= n => d = c
        /\ Length(c) > n => Length(d) = n
    BY <1>1, <2>1, EnforceFacts
  <2>3. n <= c.cap
    <3>1. ~(n \div 2 > 0) /\ c.cap \div 2 > 0
      BY <1>1, <1>5 DEF Buildable, GhostSize
    <3> DEFINE x == c.cap
    <3>2. x \in Nat /\ x \div 2 > 0
      BY <1>1, <3>1
    <3> HIDE DEF x
    <3>3. n <= 1 /\ x >= 1
      BY <3>1, <3>2
    <3> QED
      BY <3>2, <3>3 DEF x
  <2>4. Length(d) = IF Length(c) <= n THEN Length(c) ELSE n
    BY <1>1, <2>2
  <2>5. Length(d) <= d.cap
    BY <1>1, <2>2, <2>3, <2>4
  <2>6. Fits(d)
    BY <1>1, <2>2, <2>5 DEF Fits, Retains
  <2> QED
    BY <2>2, <2>3, <2>4, <2>6
<1> QED
  BY <1>2, <1>3, <1>4, <1>5

LEMMA AdaptedResize ==
  ASSUME AdaptedInv, NEW n \in Sizes, Resize(n)
  PROVE  Kept /\ Told
<1> DEFINE d == cache'
<1>1. /\ Fits(cache) /\ Sound(cache) /\ size \in Nat /\ size <= cache.cap
      /\ Length(cache) <= size /\ size' = n /\ n \in Nat
  BY ParamsAssumption DEF AdaptedInv, Resize, Fits
<1>2. /\ d = IF n = size THEN cache
             ELSE IF n = 0 THEN Build(cache.cap)
             ELSE IF Buildable(n) THEN Replayed(cache, n)
             ELSE EnforceCapacity(cache, n)
      /\ result' = Length(cache) - Length(d)
  BY DEF Resize
<1> HIDE DEF d
<1>3. /\ Fits(d) /\ n <= d.cap /\ Retains(cache, d)
      /\ Length(d) = IF Length(cache) <= n THEN Length(cache) ELSE n
  BY <1>1, <1>2, NextInstance
<1>4. /\ d.data \in ResizeOutcomes(cache.data, n)
      /\ Length(cache) - Length(d) = Cardinality(Held(cache.data) \ Held(d.data))
  BY <1>1, <1>3, RetainsIsResize
<1>5. Length(d) <= n
  BY <1>1, <1>3, SoundCount
<1>6. AdaptedInv'
  BY <1>1, <1>3, <1>5 DEF AdaptedInv, Length, Held, d
<1>7. Contract!Resize(n)
  BY <1>1, <1>4, ContractFacts DEF Contract!Resize, d
<1>8. Told
  BY <1>2, <1>4 DEF Told, Gone, Held, d
<1> QED
  BY <1>6, <1>7, <1>8 DEF Kept, Contract!Next

LEMMA AdaptedInit == Init => AdaptedInv /\ Contract!Init
<1> SUFFICES ASSUME Init PROVE AdaptedInv /\ Contract!Init
  OBVIOUS
<1>1. /\ size = InitialSize /\ size \in Nat \ {0} /\ cache = Build(InitialSize)
      /\ Buildable(InitialSize)
  BY ParamsAssumption DEF Init
<1>2. /\ Sound(cache) /\ cache.cap = InitialSize /\ cache.data = Empty
      /\ Length(cache) = 0
  BY <1>1, BuildFacts
<1>3. AdaptedInv
  BY <1>1, <1>2 DEF AdaptedInv, Fits
<1> QED
  BY <1>1, <1>2, <1>3, ContractFacts DEF Contract!Init

\* Every step keeps the invariant and is one of the contract's.
LEMMA AdaptedStep == AdaptedInv /\ [Next]_vars => Kept
<1> SUFFICES ASSUME AdaptedInv, [Next]_vars PROVE Kept
  OBVIOUS
<1>1. ASSUME NEW k \in Keys, NEW v \in Values, Add(k, v) PROVE Kept
  BY <1>1, AdaptedAdd
<1>2. ASSUME NEW k \in Keys, Get(k) PROVE Kept
  BY <1>2, AdaptedGet
<1>3. ASSUME NEW k \in Keys, Remove(k) PROVE Kept
  BY <1>3, AdaptedRemove
<1>4. CASE Purge
  BY <1>4, AdaptedPurge
<1>5. ASSUME NEW n \in Sizes, Resize(n) PROVE Kept
  BY <1>5, AdaptedResize
<1>6. CASE UNCHANGED vars
  BY <1>6 DEF vars, Kept, AdaptedInv, Contract!vars, Length, Held
<1> QED
  BY <1>1, <1>2, <1>3, <1>4, <1>5, <1>6 DEF Next

----------------------------------------------------------------------------
(* The theorems *)

LEMMA AdaptedHolds == Spec => []AdaptedInv
<1>1. AdaptedInv /\ [Next]_vars => AdaptedInv'
  BY AdaptedStep DEF Kept
<1> QED
  BY <1>1, AdaptedInit, PTL DEF Spec

\* What the wrapper infers is what happened: Add (as long as the last rebuild succeeded),
\* Remove and Resize (policies/adapt.go) report how many residents left, although the cache
\* underneath reports nothing and Resize replaces it wholesale.
THEOREM InferencesAreTrue == Spec => ReportsAreInferred
<1>1. AdaptedInv /\ [Next]_vars =>
        [\/ InStep /\ \E k \in Keys, v \in Values : Add(k, v)
         \/ \E k \in Keys : Remove(k)
         \/ \E n \in Sizes : Resize(n)
         => result' = Cardinality(Gone)]_vars
  BY AdaptedAdd, AdaptedRemove, AdaptedResize DEF Told
<1> QED
  BY <1>1, AdaptedHolds, PTL DEF Spec, ReportsAreInferred

\* The adapted 2Q implements the contract of an eviction policy, whatever the capacities
\* and the keys, also while an instance built for more is in use because a rebuild failed;
\* in step with its instance, Add (policies/adapt.go) never turns its own entry away.
THEOREM AdaptedRefinesContract == Spec => AdaptedIsAPolicy
<1>1. AdaptedInv /\ [Next]_vars => [Contract!Next]_(Contract!vars)
  BY AdaptedStep DEF Kept
<1>2. Spec => Contract!Spec
  BY <1>1, AdaptedInit, AdaptedHolds, PTL DEF Spec, Contract!Spec
<1>3. AdaptedInv /\ [Next]_vars =>
        [\A k \in Keys, v \in Values : (Add(k, v) /\ InStep) => cache'.data[k] = v]_vars
  BY AdaptedAdd
<1>4. Spec => [][\A k \in Keys, v \in Values :
                   (Add(k, v) /\ InStep) => cache'.data[k] = v]_vars
  BY <1>3, AdaptedHolds, PTL DEF Spec
<1> QED
  BY <1>2, <1>4 DEF AdaptedIsAPolicy

=============================================================================
