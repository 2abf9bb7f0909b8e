----------------------------- MODULE PolicyLemmas -----------------------------
(***************************************************************************)
(* Facts about the operators of PolicyOps and about queues of keys that    *)
(* proofs about policies share.                                            *)
(***************************************************************************)
EXTENDS KeyQueue, FiniteSetTheorems, FunctionTheorems, SequenceTheorems, TLAPS

----------------------------------------------------------------------------
(* Induction *)

\* A set of naturals has a least element.
LEMMA LeastNatural ==
  ASSUME NEW S \in SUBSET Nat, S # {}
  PROVE  \E n \in S : \A m \in S : n <= m
<1> DEFINE R == OpToRel(<, Nat)
<1>1. IsWellFoundedOn(R, Nat)
  BY NatLessThanWellFounded
<1>2. \A x, y \in Nat : x < y => <<x, y>> \in R
  BY DEF OpToRel
<1> HIDE DEF R
<1>3. PICK x \in S : \A y \in S : ~(<<y, x>> \in R)
  BY <1>1, WFMin
<1>4. ASSUME NEW m \in S PROVE x <= m
  <2>1. x \in Nat /\ m \in Nat
    OBVIOUS
  <2>2. ~(m < x)
    BY <1>2, <1>3, <2>1, Zenon
  <2> QED
    BY <2>1, <2>2
<1> QED
  BY <1>4

\* Induction, for what can be said as membership in a set.
LEMMA NatSetInduction ==
  ASSUME NEW S, 0 \in S, \A n \in Nat : n \in S => n + 1 \in S
  PROVE  Nat \subseteq S
<1> DEFINE T == Nat \ S
<1>1. CASE T # {}
  <2>1. PICK n \in T : \A m \in T : n <= m
    BY <1>1, LeastNatural
  <2>2. n - 1 \in Nat /\ n - 1 \in S
    BY <2>1
  <2> QED
    BY <2>1, <2>2
<1> QED
  BY <1>1

----------------------------------------------------------------------------
(* Contents *)

\* The contents c as a function of the keys.
IsContents(c) == c = [k \in Keys |-> c[k]]

\* The contents c are finitely many entries, at most n.
AtMost(c, n) == IsFiniteSet(Held(c)) /\ Cardinality(Held(c)) <= n

\* Dropping a key, keeping some.
LEMMA HeldFacts ==
  ASSUME NEW c, IsContents(c)
  PROVE  /\ \A k : IsContents(Without(c, k)) /\ Held(Without(c, k)) = Held(c) \ {k}
         /\ \A S : IsContents(Keep(c, S)) /\ Held(Keep(c, S)) = Held(c) \cap S
         /\ \A k, v : IsContents([c EXCEPT ![k] = v])
BY DEF IsContents, Without, Keep, Held

\* An empty policy holds nothing.
LEMMA EmptyFacts ==
  /\ IsContents(Empty) /\ Held(Empty) = {} /\ \A n \in Nat : AtMost(Empty, n)
<1>1. IsContents(Empty) /\ Held(Empty) = {}
  BY DEF Empty, Held, IsContents
<1> QED
  BY <1>1, FS_EmptySet DEF AtMost

\* Losing entries keeps contents within bounds.
LEMMA LossAtMost ==
  ASSUME NEW c, NEW n \in Nat, AtMost(c, n), NEW d, Held(d) \subseteq Held(c)
  PROVE  AtMost(d, n)
<1>1. Held(d) \in SUBSET Held(c)
  OBVIOUS
<1>2. /\ IsFiniteSet(Held(d)) /\ Cardinality(Held(d)) <= Cardinality(Held(c))
      /\ Cardinality(Held(d)) \in Nat /\ Cardinality(Held(c)) \in Nat
  BY <1>1, FS_Subset, FS_CardinalityType DEF AtMost
<1> QED
  BY <1>2 DEF AtMost

\* Add never leaves more than the capacity.
LEMMA AddAtMost ==
  ASSUME NEW c, IsContents(c), NEW n \in Nat, AtMost(c, n),
         NEW k \in Keys, NEW v, NEW rejects, NEW d \in AddOutcomes(c, n, k, v, rejects)
  PROVE  IsContents(d) /\ AtMost(d, n)
<1> DEFINE with == [c EXCEPT ![k] = v]
           N == Cardinality(Held(c))
<1>1. /\ IsContents(with)
      /\ Held(with) \subseteq Held(c) \cup {k}
  BY DEF IsContents, Held
<1>2. /\ IsFiniteSet(Held(c)) /\ N \in Nat /\ N <= n
      /\ IsFiniteSet(Held(c) \cup {k})
      /\ Cardinality(Held(c) \cup {k}) = IF k \in Held(c) THEN N ELSE N + 1
  BY FS_AddElement, FS_CardinalityType DEF AtMost
<1> HIDE DEF with
<1>3. CASE k \in Held(c) \/ N < n
  <2>1. d = with
    BY <1>3 DEF AddOutcomes, with
  <2>2. /\ IsFiniteSet(Held(d))
        /\ Cardinality(Held(d)) <= Cardinality(Held(c) \cup {k})
        /\ Cardinality(Held(d)) \in Nat
    BY <1>1, <1>2, <2>1, FS_Subset, FS_CardinalityType
  <2> QED
    BY <1>1, <1>2, <1>3, <2>1, <2>2 DEF AtMost
<1>4. CASE ~(k \in Held(c) \/ N < n)
  <2>1. PICK x \in Held(c) \cup {k} : d = Without(with, x)
    BY <1>1, <1>4 DEF AddOutcomes, with
  <2>2. IsContents(d) /\ Held(d) \subseteq (Held(c) \cup {k}) \ {x}
    BY <1>1, <2>1, HeldFacts
  <2>3. /\ IsFiniteSet((Held(c) \cup {k}) \ {x})
        /\ Cardinality((Held(c) \cup {k}) \ {x}) = N
    <3> DEFINE H == Held(c) \cup {k}
    <3>1. x \in H /\ IsFiniteSet(H) /\ Cardinality(H) = N + 1
      BY <1>2, <1>4, <2>1
    <3> HIDE DEF H
    <3>2. IsFiniteSet(H \ {x}) /\ Cardinality(H \ {x}) = Cardinality(H) - 1
      BY <3>1, FS_RemoveElement
    <3> QED
      BY <1>2, <3>1, <3>2 DEF H
  <2>4. /\ IsFiniteSet(Held(d)) /\ Cardinality(Held(d)) <= N
    BY <2>2, <2>3, FS_Subset
  <2>5. Cardinality(Held(d)) \in Nat
    BY <2>4, FS_CardinalityType
  <2> QED
    BY <1>2, <2>2, <2>4, <2>5 DEF AtMost
<1> QED
  BY <1>3, <1>4

\* What is gone when T is left of S.
LEMMA GoneCount ==
  ASSUME NEW S, IsFiniteSet(S), NEW T, T \subseteq S
  PROVE  Cardinality(S \ T) = Cardinality(S) - Cardinality(T)
<1>1. S \cap T = T
  OBVIOUS
<1>2. Cardinality(S \ T) = Cardinality(S) - Cardinality(S \cap T)
  BY FS_Difference
<1> QED
  BY <1>1, <1>2

\* The contents d are c, with room for n, after v has come under the new key k.
Joined(c, d, n, k, v) ==
  /\ k \in Held(d) /\ d[k] = v /\ Held(d) \subseteq Held(c) \cup {k}
  /\ \A h \in Held(d) : h # k => d[h] = c[h]
  /\ IF Cardinality(Held(c)) < n
     THEN Cardinality(Held(d)) = Cardinality(Held(c)) + 1 /\ Held(c) \ Held(d) = {}
     ELSE Cardinality(Held(d)) = Cardinality(Held(c)) /\ \E x : Held(c) \ Held(d) = {x}

\* A newcomer that is not turned away takes free room, or the place of one resident.
LEMMA AddNewcomer ==
  ASSUME NEW c, IsContents(c), NEW n \in Nat, IsFiniteSet(Held(c)),
         NEW k \in Keys, k \notin Held(c), NEW v, v # None,
         NEW d \in AddOutcomes(c, n, k, v, FALSE)
  PROVE  Joined(c, d, n, k, v)
<1> DEFINE with == [c EXCEPT ![k] = v]
           N == Cardinality(Held(c))
<1>1. /\ IsContents(with) /\ Held(with) = Held(c) \cup {k} /\ with[k] = v
      /\ \A h \in Keys : h # k => with[h] = c[h]
  BY DEF IsContents, Held
<1>2. /\ N \in Nat /\ IsFiniteSet(Held(c) \cup {k})
      /\ Cardinality(Held(c) \cup {k}) = N + 1
  BY FS_AddElement, FS_CardinalityType
<1> HIDE DEF with
<1>3. CASE N < n
  <2>1. d = with
    BY <1>3 DEF AddOutcomes, with
  <2>2. \A h \in Held(d) : h \in Keys
    BY DEF Held
  <2> QED
    BY <1>1, <1>2, <1>3, <2>1, <2>2 DEF Joined
<1>4. CASE ~(N < n)
  <2>1. PICK x \in Held(c) : d = Without(with, x)
    BY <1>4 DEF AddOutcomes, with
  <2>2. IsContents(d) /\ Held(d) = (Held(c) \cup {k}) \ {x} /\ x # k /\ x \in Keys
    BY <1>1, <2>1, HeldFacts DEF Held
  <2>3. \A h \in Keys : h # x => d[h] = with[h]
    BY <1>1, <2>1 DEF Without, IsContents
  <2>4. Held(c) \ Held(d) = {x}
    BY <2>1, <2>2
  <2>5. Cardinality(Held(d)) = N
    <3> DEFINE H == Held(c) \cup {k}
    <3>1. x \in H /\ IsFiniteSet(H) /\ Cardinality(H) = N + 1
      BY <1>2
    <3> HIDE DEF H
    <3>2. Cardinality(H \ {x}) = Cardinality(H) - 1
      BY <3>1, FS_RemoveElement
    <3> QED
      BY <1>2, <2>2, <3>1, <3>2 DEF H
  <2>6. \A h \in Held(d) : h \in Keys /\ h # x
    BY <2>2 DEF Held
  <2>7. /\ k \in Held(d) /\ d[k] = v /\ Held(d) \subseteq Held(c) \cup {k}
        /\ \A h \in Held(d) : h # k => d[h] = c[h]
    BY <1>1, <2>2, <2>3, <2>6
  <2> QED
    BY <1>4, <2>4, <2>5, <2>7 DEF Joined
<1> QED
  BY <1>3, <1>4

\* Resize leaves at most the new capacity.
LEMMA ResizeAtMost ==
  ASSUME NEW c, IsContents(c), IsFiniteSet(Held(c)), NEW n \in Nat,
         NEW d \in ResizeOutcomes(c, n)
  PROVE  IsContents(d) /\ AtMost(d, n)
<1>1. CASE Cardinality(Held(c)) <= n
  BY <1>1 DEF ResizeOutcomes, AtMost
<1>2. CASE ~(Cardinality(Held(c)) <= n)
  <2>1. PICK S \in SUBSET Held(c) : Cardinality(S) = n /\ d = Keep(c, S)
    BY <1>2 DEF ResizeOutcomes
  <2>2. IsContents(d) /\ Held(d) = S
    BY <2>1, HeldFacts
  <2>3. IsFiniteSet(S)
    BY FS_Subset
  <2> QED
    BY <2>1, <2>2, <2>3 DEF AtMost
<1> QED
  BY <1>1, <1>2

----------------------------------------------------------------------------
(* Queues *)

\* The queue q lists every key of S once, and no other.
Lists(q, S) ==
  /\ q \in Seq(Keys) /\ S \subseteq Keys
  /\ \A i, j \in 1 .. Len(q) : q[i] = q[j] => i = j
  /\ \A k \in Keys : k \in S <=> \E i \in 1 .. Len(q) : q[i] = k

\* The youngest key of the queue q is k.
Youngest(q, k) == Len(q) > 0 /\ q[Len(q)] = k

LEMMA ListsEmpty == Lists(<<>>, {}) /\ Len(<<>>) = 0
BY EmptySeq DEF Lists

\* A queue is as long as the set it lists.
LEMMA ListsCount ==
  ASSUME NEW q, NEW S, Lists(q, S)
  PROVE  IsFiniteSet(S) /\ Cardinality(S) = Len(q) /\ Len(q) \in Nat
<1> DEFINE n == Len(q)
           F == [i \in 1 .. n |-> q[i]]
<1>1. n \in Nat /\ \A i \in 1 .. n : q[i] \in Keys
  BY DEF Lists
<1>2. F \in [1 .. n -> S]
  BY <1>1 DEF Lists
<1>3. \A a, b \in 1 .. n : F[a] = F[b] => a = b
  BY <1>1 DEF Lists
<1>4. \A t \in S : \E s \in 1 .. n : F[s] = t
  BY <1>1 DEF Lists
<1> HIDE DEF F, n
<1>5. F \in Bijection(1 .. n, S)
  BY <1>2, <1>3, <1>4, Fun_IsBij
<1>6. ExistsBijection(1 .. n, S)
  BY <1>5, Fun_ExistsBij
<1>7. IsFiniteSet(S) /\ Cardinality(S) = n
  BY <1>1, <1>6, FS_NatBijection, FS_CountingElements
<1> QED
  BY <1>1, <1>7 DEF n

\* A key that is not in the queue joins it as the youngest.
LEMMA ListsAppend ==
  ASSUME NEW q, NEW S, Lists(q, S), NEW k \in Keys, k \notin S
  PROVE  /\ Lists(Append(q, k), S \cup {k}) /\ Len(Append(q, k)) = Len(q) + 1
         /\ Youngest(Append(q, k), k)
<1> DEFINE r == Append(q, k)
           n == Len(q)
<1>1. /\ n \in Nat /\ \A i \in 1 .. n : q[i] \in Keys /\ q[i] \in S
  BY DEF Lists
<1>2. /\ r \in Seq(Keys) /\ Len(r) = n + 1 /\ r[n + 1] = k
      /\ \A i \in 1 .. n : r[i] = q[i]
  BY AppendProperties DEF Lists
<1> HIDE DEF r
<1>3. \A i \in 1 .. n + 1 : i \in 1 .. n \/ i = n + 1
  BY <1>1
<1>4. n + 1 \in 1 .. n + 1 /\ \A i \in 1 .. n : i \in 1 .. n + 1
  BY <1>1
<1>5. ASSUME NEW i \in 1 .. n + 1, NEW j \in 1 .. n + 1, r[i] = r[j] PROVE i = j
  <2>1. i \in 1 .. n /\ j \in 1 .. n => i = j
    BY <1>2, <1>5 DEF Lists
  <2> QED
    BY <1>1, <1>2, <1>3, <1>5, <2>1
<1>6. ASSUME NEW h \in Keys
      PROVE  h \in S \cup {k} <=> \E i \in 1 .. n + 1 : r[i] = h
  <2>1. h \in S <=> \E i \in 1 .. n : q[i] = h
    BY DEF Lists
  <2> QED
    BY <1>2, <1>3, <1>4, <2>1
<1> HIDE DEF n
<1>7. Lists(r, S \cup {k})
  BY <1>2, <1>5, <1>6 DEF Lists
<1> QED
  BY <1>1, <1>2, <1>7 DEF r, n, Youngest

\* f is the function Among computes over the first n keys of q.
AmongUp(f, q, S, n) ==
  f = [i \in 0 .. n |->
         IF i = 0 THEN <<>>
         ELSE IF q[i] \in S THEN Append(f[i - 1], q[i]) ELSE f[i - 1]]

LEMMA AmongExists ==
  ASSUME NEW q, NEW S, NEW n \in Nat
  PROVE  \E f : AmongUp(f, q, S, n)
<1> DEFINE G(i, r) == IF q[i] \in S THEN Append(r, q[i]) ELSE r
           T == {m \in Nat : \E f : AmongUp(f, q, S, m)}
<1>1. 0 \in T
  <2> DEFINE f == [i \in 0 .. 0 |-> <<>>]
  <2>1. AmongUp(f, q, S, 0)
    BY DEF AmongUp
  <2> QED
    BY <2>1
<1>2. ASSUME NEW m \in Nat, m \in T PROVE m + 1 \in T
  <2>1. PICK f : AmongUp(f, q, S, m)
    BY <1>2
  <2> DEFINE g == [i \in 0 .. m + 1 |-> IF i = m + 1 THEN G(i, f[m]) ELSE f[i]]
  <2>2. \A i \in 0 .. m : f[i] = IF i = 0 THEN <<>> ELSE G(i, f[i - 1])
    BY <2>1 DEF AmongUp
  <2> HIDE DEF G
  <2>3. ASSUME NEW i \in 0 .. m + 1
        PROVE  g[i] = IF i = 0 THEN <<>> ELSE G(i, g[i - 1])
    <3>1. CASE i = m + 1
      <4>1. i # 0 /\ m \in 0 .. m + 1 /\ m # m + 1
        BY <3>1
      <4>2. g[i] = G(i, f[m])
        BY <3>1
      <4>3. g[m] = f[m]
        BY <4>1
      <4>4. i - 1 = m
        BY <3>1
      <4> HIDE DEF g
      <4> QED
        BY <4>1, <4>2, <4>3, <4>4
    <3>2. CASE i # m + 1
      <4>1. i \in 0 .. m /\ (i # 0 => i - 1 \in 0 .. m + 1 /\ i - 1 # m + 1)
        BY <3>2
      <4>2. g[i] = f[i]
        BY <3>2
      <4>3. i # 0 => g[i - 1] = f[i - 1]
        BY <4>1
      <4> HIDE DEF g
      <4> QED
        BY <2>2, <4>1, <4>2, <4>3
    <3> QED
      BY <3>1, <3>2
  <2>4. g = [i \in 0 .. m + 1 |-> g[i]]
    OBVIOUS
  <2> HIDE DEF g
  <2>5. g = [i \in 0 .. m + 1 |-> IF i = 0 THEN <<>> ELSE G(i, g[i - 1])]
    BY <2>3, <2>4
  <2>6. AmongUp(g, q, S, m + 1)
    BY <2>5 DEF AmongUp, G
  <2> QED
    BY <2>6
<1> HIDE DEF T
<1>3. n \in T
  BY <1>1, <1>2, NatSetInduction
<1> QED
  BY <1>3 DEF T

\* f takes the keys of q that are in S one by one.
Filters(f, q, S) ==
  /\ f[0] = <<>>
  /\ \A m \in Nat : m + 1 <= Len(q) =>
       f[m + 1] = IF q[m + 1] \in S THEN Append(f[m], q[m + 1]) ELSE f[m]

LEMMA AmongUnfold ==
  ASSUME NEW q, NEW S, Len(q) \in Nat
  PROVE  \E f : Among(q, S) = f[Len(q)] /\ Filters(f, q, S)
<1> DEFINE n == Len(q)
           f == CHOOSE f : AmongUp(f, q, S, n)
<1>1. AmongUp(f, q, S, n)
  BY AmongExists
<1>2. Among(q, S) = f[n]
  BY DEF Among, AmongUp
<1> HIDE DEF f, n
<1>3. \A i \in 0 .. n : f[i] = IF i = 0 THEN <<>>
        ELSE IF q[i] \in S THEN Append(f[i - 1], q[i]) ELSE f[i - 1]
  BY <1>1 DEF AmongUp
<1>4. f[0] = <<>>
  <2>1. 0 \in 0 .. n
    BY DEF n
  <2> QED
    BY <1>3, <2>1
<1>5. ASSUME NEW m \in Nat, m + 1 <= n
      PROVE  f[m + 1] = IF q[m + 1] \in S THEN Append(f[m], q[m + 1]) ELSE f[m]
  <2>1. m + 1 \in 0 .. n /\ m + 1 # 0 /\ (m + 1) - 1 = m
    BY <1>5 DEF n
  <2> QED
    BY <1>3, <2>1
<1> QED
  BY <1>2, <1>4, <1>5 DEF n, Filters

\* The first m keys of q.
FirstKeys(q, m) == {q[i] : i \in 1 .. m}

\* What is left of a queue lists what is left of its keys, and its youngest key is still
\* the youngest if it is left.
LEMMA AmongLists ==
  ASSUME NEW q, NEW T, Lists(q, T), NEW S
  PROVE  /\ Lists(Among(q, S), T \cap S)
         /\ \A k \in S : Youngest(q, k) => Youngest(Among(q, S), k)
<1> DEFINE n == Len(q)
<1>1. n \in Nat /\ \A i \in 1 .. n : q[i] \in Keys
  BY DEF Lists
<1>2. PICK f : Among(q, S) = f[Len(q)] /\ Filters(f, q, S)
  BY <1>1, AmongUnfold
<1>3. /\ Among(q, S) = f[n] /\ f[0] = <<>>
       /\ \A m \in Nat : m + 1 <= n =>
            f[m + 1] = IF q[m + 1] \in S THEN Append(f[m], q[m + 1]) ELSE f[m]
  BY <1>2 DEF Filters
<1> HIDE DEF n
<1> DEFINE U == {m \in Nat : m <= n => Lists(f[m], FirstKeys(q, m) \cap S)}
<1>4. 0 \in U
  <2>1. FirstKeys(q, 0) \cap S = {}
    BY DEF FirstKeys
  <2> QED
    BY <1>3, <2>1, ListsEmpty
<1>5. ASSUME NEW m \in Nat, m + 1 <= n
      PROVE  /\ q[m + 1] \in Keys /\ q[m + 1] \notin FirstKeys(q, m)
             /\ FirstKeys(q, m + 1) = FirstKeys(q, m) \cup {q[m + 1]}
  <2>1. m + 1 \in 1 .. n /\ \A i \in 1 .. m : i \in 1 .. n /\ i # m + 1
    BY <1>1, <1>5
  <2>2. 1 .. m + 1 = (1 .. m) \cup {m + 1}
    OBVIOUS
  <2>3. q[m + 1] \notin FirstKeys(q, m)
    BY <2>1 DEF Lists, FirstKeys, n
  <2>4. FirstKeys(q, m + 1) = FirstKeys(q, m) \cup {q[m + 1]}
    BY <2>2 DEF FirstKeys
  <2> QED
    BY <1>1, <2>1, <2>3, <2>4
<1>6. ASSUME NEW m \in Nat, m \in U PROVE m + 1 \in U
  <2> SUFFICES ASSUME m + 1 <= n
               PROVE  Lists(f[m + 1], FirstKeys(q, m + 1) \cap S)
    OBVIOUS
  <2> DEFINE A == FirstKeys(q, m) \cap S
             B == FirstKeys(q, m + 1) \cap S
             k == q[m + 1]
  <2>1. Lists(f[m], A)
    BY <1>1, <1>6
  <2>2. k \in Keys /\ k \notin A /\ B = IF k \in S THEN A \cup {k} ELSE A
    BY <1>5
  <2>3. f[m + 1] = IF k \in S THEN Append(f[m], k) ELSE f[m]
    BY <1>3
  <2> HIDE DEF A, B, k
  <2>4. Lists(Append(f[m], k), A \cup {k})
    BY <2>1, <2>2, ListsAppend
  <2>5. Lists(f[m + 1], B)
    BY <2>1, <2>2, <2>3, <2>4
  <2> QED
    BY <2>5 DEF B
<1> HIDE DEF U
<1>7. \A m \in Nat : m <= n => Lists(f[m], FirstKeys(q, m) \cap S)
  <2>1. Nat \subseteq U
    BY <1>4, <1>6, NatSetInduction
  <2> QED
    BY <2>1 DEF U
<1>8. FirstKeys(q, n) = T
  BY <1>1 DEF Lists, FirstKeys, n
<1>9. Lists(Among(q, S), T \cap S)
  <2>1. Lists(f[n], FirstKeys(q, n) \cap S)
    <3>1. n \in Nat /\ n <= n
      BY <1>1
    <3> QED
      BY <1>7, <3>1
  <2> QED
    BY <1>3, <1>8, <2>1
<1>10. ASSUME NEW k \in S, Youngest(q, k) PROVE Youngest(Among(q, S), k)
  <2> DEFINE m == n - 1
  <2>1. m \in Nat /\ m + 1 = n /\ m <= n /\ q[n] = k /\ m + 1 <= n
    BY <1>1, <1>10 DEF Youngest, n
  <2> HIDE DEF m
  <2>2. f[n] = Append(f[m], k)
    BY <1>3, <2>1
  <2>3. f[m] \in Seq(Keys) /\ k \in Keys
    BY <1>1, <1>5, <1>7, <2>1 DEF Lists
  <2>4. Len(f[n]) = Len(f[m]) + 1 /\ f[n][Len(f[m]) + 1] = k /\ Len(f[m]) \in Nat
    BY <2>2, <2>3, AppendProperties
  <2> QED
    BY <1>3, <2>4 DEF Youngest
<1> QED
  BY <1>9, <1>10

\* Taking one key out of a queue.
LEMMA UnqueuedLists ==
  ASSUME NEW q, NEW T, Lists(q, T), NEW k
  PROVE  /\ Lists(Unqueued(q, k), T \ {k})
         /\ \A h \in Keys : h # k /\ Youngest(q, h) => Youngest(Unqueued(q, k), h)
<1> DEFINE S == Keys \ {k}
<1>1. T \cap S = T \ {k} /\ Unqueued(q, k) = Among(q, S)
  BY DEF Lists, Unqueued
<1> HIDE DEF S
<1>2. /\ Lists(Among(q, S), T \cap S)
      /\ \A h \in S : Youngest(q, h) => Youngest(Among(q, S), h)
  BY AmongLists
<1> QED
  BY <1>1, <1>2 DEF S

\* Taking the oldest key out of a queue.
LEMMA ListsTail ==
  ASSUME NEW q, NEW S, Lists(q, S), Len(q) > 0
  PROVE  Head(q) \in S /\ Lists(Tail(q), S \ {Head(q)}) /\ Len(Tail(q)) = Len(q) - 1
<1> DEFINE n == Len(q)
           r == Tail(q)
<1>1. /\ n \in Nat /\ n > 0 /\ q \in Seq(Keys) /\ q # <<>>
  BY EmptySeq DEF Lists
<1>2. /\ r \in Seq(Keys) /\ Len(r) = n - 1 /\ Head(q) = q[1]
      /\ \A i \in 1 .. n - 1 : r[i] = q[i + 1]
  BY <1>1, HeadTailProperties
<1> HIDE DEF r, n
<1>3. /\ 1 \in 1 .. n /\ \A i \in 1 .. n - 1 : i + 1 \in 1 .. n /\ i + 1 # 1
      /\ \A i \in 1 .. n : i = 1 \/ (i - 1 \in 1 .. n - 1 /\ (i - 1) + 1 = i)
  BY <1>1
<1>4. /\ \A i, j \in 1 .. n : q[i] = q[j] => i = j
      /\ \A k \in Keys : k \in S <=> \E i \in 1 .. n : q[i] = k
      /\ S \subseteq Keys /\ \A i \in 1 .. n : q[i] \in Keys
  BY <1>1 DEF Lists, n
<1>5. Head(q) \in S
  BY <1>2, <1>3, <1>4
<1>6. ASSUME NEW i \in 1 .. n - 1, NEW j \in 1 .. n - 1, r[i] = r[j] PROVE i = j
  <2>1. i + 1 = j + 1
    BY <1>2, <1>3, <1>4, <1>6
  <2> QED
    BY <1>1, <2>1
<1>7. ASSUME NEW k \in Keys
      PROVE  k \in S \ {Head(q)} <=> \E i \in 1 .. n - 1 : r[i] = k
  <2>1. ASSUME k \in S, k # Head(q) PROVE \E i \in 1 .. n - 1 : r[i] = k
    <3>1. PICK i \in 1 .. n : q[i] = k
      BY <1>4, <2>1
    <3>2. i - 1 \in 1 .. n - 1 /\ (i - 1) + 1 = i
      BY <1>2, <1>3, <2>1, <3>1
    <3>3. r[i - 1] = k
      BY <1>2, <3>1, <3>2
    <3> QED
      BY <3>2, <3>3
  <2>2. ASSUME NEW i \in 1 .. n - 1, r[i] = k PROVE k \in S /\ k # Head(q)
    <3>1. q[i + 1] = k /\ i + 1 \in 1 .. n /\ i + 1 # 1
      BY <1>2, <1>3, <2>2
    <3> QED
      BY <1>2, <1>3, <1>4, <3>1
  <2> QED
    BY <2>1, <2>2
<1>8. Lists(r, S \ {Head(q)})
  BY <1>2, <1>4, <1>6, <1>7 DEF Lists
<1> QED
  BY <1>2, <1>5, <1>8 DEF r, n

\* Two queues with no key in common, one after the other.
LEMMA ListsConcat ==
  ASSUME NEW q, NEW S, Lists(q, S), NEW r, NEW T, Lists(r, T), S \cap T = {}
  PROVE  Lists(q \o r, S \cup T)
<1> DEFINE m == Len(q)
           n == Len(r)
           s == q \o r
<1>1. /\ m \in Nat /\ n \in Nat /\ S \subseteq Keys /\ T \subseteq Keys
      /\ \A i \in 1 .. m : q[i] \in S
      /\ \A i \in 1 .. n : r[i] \in T
      /\ \A i, j \in 1 .. m : q[i] = q[j] => i = j
      /\ \A i, j \in 1 .. n : r[i] = r[j] => i = j
      /\ \A k \in S : \E i \in 1 .. m : q[i] = k
      /\ \A k \in T : \E i \in 1 .. n : r[i] = k
  BY DEF Lists
<1>2. /\ s \in Seq(Keys) /\ Len(s) = m + n
      /\ \A i \in 1 .. m + n : s[i] = IF i <= m THEN q[i] ELSE r[i - m]
  BY ConcatProperties DEF Lists
<1> HIDE DEF m, n, s
<1>3. /\ \A i \in 1 .. m + n : i <= m => i \in 1 .. m /\ s[i] = q[i]
      /\ \A i \in 1 .. m + n : ~(i <= m) => i - m \in 1 .. n /\ s[i] = r[i - m]
      /\ \A i \in 1 .. m : i \in 1 .. m + n /\ s[i] = q[i]
      /\ \A i \in 1 .. n : i + m \in 1 .. m + n /\ s[i + m] = r[i]
  <2>1. \A i \in 1 .. n : i + m \in 1 .. m + n /\ ~(i + m <= m) /\ (i + m) - m = i
    BY <1>1
  <2> QED
    BY <1>1, <1>2, <2>1
<1>4. ASSUME NEW i \in 1 .. m + n, NEW j \in 1 .. m + n, s[i] = s[j] PROVE i = j
  <2>1. CASE i <= m /\ j <= m
    BY <1>1, <1>3, <1>4, <2>1
  <2>2. CASE ~(i <= m) /\ ~(j <= m)
    <3>1. i - m = j - m
      BY <1>1, <1>3, <1>4, <2>2
    <3> QED
      BY <1>1, <3>1
  <2>3. ASSUME NEW a \in 1 .. m + n, NEW b \in 1 .. m + n, a <= m, ~(b <= m), s[a] = s[b]
        PROVE  FALSE
    <3>1. s[a] \in S /\ s[b] \in T
      BY <1>1, <1>3, <2>3
    <3> QED
      BY <2>3, <3>1
  <2> QED
    BY <1>4, <2>1, <2>2, <2>3
<1>5. ASSUME NEW k \in Keys
      PROVE  k \in S \cup T <=> \E i \in 1 .. m + n : s[i] = k
  <2>1. ASSUME k \in S PROVE \E i \in 1 .. m + n : s[i] = k
    BY <1>1, <1>3, <2>1
  <2>2. ASSUME k \in T PROVE \E i \in 1 .. m + n : s[i] = k
    BY <1>1, <1>3, <2>2
  <2>3. ASSUME NEW i \in 1 .. m + n, s[i] = k PROVE k \in S \cup T
    BY <1>1, <1>3, <2>3
  <2> QED
    BY <2>1, <2>2, <2>3
<1>6. Lists(s, S \cup T)
  BY <1>1, <1>2, <1>4, <1>5 DEF Lists
<1> QED
  BY <1>6 DEF s

=============================================================================
