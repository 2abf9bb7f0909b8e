------------------------------ MODULE LFUProofs ------------------------------
(***************************************************************************)
(* Machine-checked proofs about LFU, for every set of keys and values and  *)
(* every capacity: buckets, frequencies and minFreq describe the entries,  *)
(* every entry that leaves is reported by the operation that dropped it,   *)
(* and the LFU implements the contract of an eviction policy.              *)
(***************************************************************************)
EXTENDS LFU, PolicyLemmas, SequenceTheorems

----------------------------------------------------------------------------
(* The inductive invariant *)

\* The entries of a bucket, and that none is there twice.
In(s) == {s[i] : i \in 1 .. Len(s)}
Once(s) == \A i, j \in 1 .. Len(s) : s[i] = s[j] => i = j

\* A map as a function of its keys.
IsMap(m) == m = [f \in DOMAIN m |-> m[f]]

\* The shape of the structures.
Shaped(c) ==
  /\ c = [data |-> c.data, freq |-> c.freq, lists |-> c.lists, minFreq |-> c.minFreq,
          evicted |-> c.evicted]
  /\ IsContents(c.data) /\ c.freq \in [Keys -> Nat] /\ c.minFreq \in Nat
  /\ IsMap(c.lists)

\* The buckets hold the keys of H, each once, by frequency; none is empty.
Linked(lists, freq, H) ==
  /\ DOMAIN lists \subseteq Nat \ {0}
  /\ \A f \in DOMAIN lists : /\ lists[f] \in Seq(Keys) /\ Once(lists[f])
                             /\ In(lists[f]) = {k \in H : freq[k] = f}
                             /\ \E k \in H : freq[k] = f
  /\ \A k \in H : freq[k] \in DOMAIN lists

\* The entry k of frequency g is out of its bucket, which goes if it was the last.
TakenOut(left, lists, g, k) ==
  LET rest == Unlinked(lists[g], k)
  IN  /\ DOMAIN left = IF rest = <<>> THEN DOMAIN lists \ {g} ELSE DOMAIN lists
      /\ \A f \in DOMAIN left : left[f] = IF f = g THEN rest ELSE lists[f]

\* The keys without k, and frequencies that give k the frequency f.
Less(G, H, k) == k \in H /\ G = H \ {k}
IsFreq(f) == f \in Nat \ {0}
Gives(to, freq, H, k, f) == to[k] = f /\ \A h \in H : to[h] = freq[h]

IsLeast(m, S) == m \in S /\ \A n \in S : m <= n

Sound(c) ==
  /\ Shaped(c) /\ Linked(c.lists, c.freq, Held(c.data))
  /\ \A k \in Keys : c.data[k] = None <=> c.freq[k] = 0
  /\ Held(c.data) # {} => IsLeast(c.minFreq, DOMAIN c.lists)
  /\ IsFiniteSet(Held(c.data))

LFUInv ==
  /\ Sound(lfu) /\ lfu.evicted = <<>>
  /\ size \in Nat /\ Cardinality(Held(lfu.data)) <= size

----------------------------------------------------------------------------
(* Buckets *)

LEMMA LeastFacts ==
  ASSUME NEW S \in SUBSET Nat
  PROVE  /\ \A m \in S : IsLeast(m, S) => LeastOf(S) = m
         /\ S # {} => IsLeast(LeastOf(S), S)
<1>1. S # {} => IsLeast(LeastOf(S), S)
  <2> SUFFICES ASSUME S # {} PROVE IsLeast(LeastOf(S), S)
    OBVIOUS
  <2>1. \E n \in S : \A m \in S : n <= m
    BY LeastNatural
  <2>2. LeastOf(S) = CHOOSE f \in S : \A g \in S : f <= g
    BY DEF LeastOf
  <2> QED
    BY <2>1, <2>2 DEF IsLeast
<1>2. ASSUME NEW m \in S, IsLeast(m, S) PROVE LeastOf(S) = m
  <2>1. IsLeast(LeastOf(S), S)
    BY <1>1
  <2>2. m \in Nat /\ LeastOf(S) \in Nat /\ m <= LeastOf(S) /\ LeastOf(S) <= m
    BY <1>2, <2>1 DEF IsLeast
  <2> QED
    BY <2>2
<1> QED
  BY <1>1, <1>2

\* bucket.Remove takes one entry out and keeps the others.
LEMMA UnlinkedFacts ==
  ASSUME NEW s \in Seq(Keys), Once(s), NEW k \in In(s), NEW u, u = Unlinked(s, k)
  PROVE  /\ u \in Seq(Keys) /\ Once(u) /\ In(u) = In(s) \ {k}
         /\ u = <<>> <=> In(s) = {k}
<1> DEFINE n == Len(s)
           slot == CHOOSE i \in DOMAIN s : s[i] = k
<1>1. n \in Nat /\ DOMAIN s = 1 .. n /\ \A i \in 1 .. n : s[i] \in Keys
  OBVIOUS
<1>2. slot \in 1 .. n /\ s[slot] = k
  BY <1>1 DEF In
<1>3. u = [i \in 1 .. n - 1 |-> IF i < slot THEN s[i] ELSE s[i + 1]]
  BY DEF Unlinked
<1> HIDE DEF n, slot
<1>4. n - 1 \in Nat
  BY <1>1, <1>2
<1>5. \A i \in 1 .. n - 1 : u[i] = IF i < slot THEN s[i] ELSE s[i + 1]
  BY <1>3
<1>6. \A i \in 1 .. n - 1 : i \in 1 .. n /\ i + 1 \in 1 .. n
  BY <1>1
<1>7. u \in [1 .. n - 1 -> Keys]
  BY <1>1, <1>3, <1>6
<1>8. u \in Seq(Keys) /\ Len(u) = n - 1
  BY <1>4, <1>7
<1>9. Once(u)
  <2> SUFFICES ASSUME NEW i \in 1 .. n - 1, NEW j \in 1 .. n - 1, u[i] = u[j]
               PROVE  i = j
    BY <1>8 DEF Once
  <2> DEFINE a == IF i < slot THEN i ELSE i + 1
             b == IF j < slot THEN j ELSE j + 1
  <2>1. s[a] = s[b] /\ a \in 1 .. n /\ b \in 1 .. n
    BY <1>5, <1>6
  <2>2. a = b
    BY <2>1 DEF Once, n
  <2> QED
    BY <1>1, <1>2, <2>2
<1>10. In(u) \subseteq In(s) \ {k}
  <2> SUFFICES ASSUME NEW i \in 1 .. n - 1 PROVE u[i] \in In(s) \ {k}
    BY <1>8 DEF In
  <2> DEFINE a == IF i < slot THEN i ELSE i + 1
  <2>1. u[i] = s[a] /\ a \in 1 .. n /\ a # slot
    BY <1>1, <1>2, <1>5, <1>6
  <2> HIDE DEF a
  <2>2. s[a] \in In(s)
    BY <2>1 DEF In, n
  <2>3. s[a] # k
    BY <1>2, <2>1 DEF Once, n
  <2> QED
    BY <2>1, <2>2, <2>3
<1>11. In(s) \ {k} \subseteq In(u)
  <2> SUFFICES ASSUME NEW a \in 1 .. n, s[a] # k PROVE s[a] \in In(u)
    BY DEF In, n
  <2>1. a # slot
    BY <1>2
  <2> DEFINE i == IF a < slot THEN a ELSE a - 1
  <2>2. i \in 1 .. n - 1 /\ (a < slot => i = a /\ i < slot)
        /\ (~(a < slot) => i + 1 = a /\ ~(i < slot))
    BY <1>1, <1>2, <2>1
  <2> HIDE DEF i
  <2>3. u[i] = s[a]
    BY <1>5, <2>2
  <2> QED
    BY <1>8, <2>2, <2>3 DEF In
<1>12. u = <<>> <=> In(s) = {k}
  <2>1. u = <<>> => In(u) = {}
    BY DEF In
  <2>2. u # <<>> => u[1] \in In(u)
    BY <1>8 DEF In
  <2> QED
    BY <1>10, <1>11, <2>1, <2>2
<1> QED
  BY <1>8, <1>9, <1>10, <1>11, <1>12

\* An entry is taken out of its bucket, which goes if it was the last there.
LEMMA UnlinkLinks ==
  ASSUME NEW lists, NEW freq, NEW H, Linked(lists, freq, H), NEW k, NEW G, Less(G, H, k),
         NEW left, NEW g, g = freq[k], TakenOut(left, lists, g, k)
  PROVE  Linked(left, freq, G)
<1> DEFINE rest == Unlinked(lists[g], k)
<1>0. k \in H /\ G = H \ {k}
  BY DEF Less
<1>1. /\ g \in DOMAIN lists /\ lists[g] \in Seq(Keys) /\ Once(lists[g])
      /\ k \in In(lists[g]) /\ In(lists[g]) = {h \in H : freq[h] = g}
  BY <1>0 DEF Linked
<1>2. /\ rest \in Seq(Keys) /\ Once(rest) /\ In(rest) = In(lists[g]) \ {k}
      /\ rest = <<>> <=> In(lists[g]) = {k}
  BY <1>1, UnlinkedFacts
<1>3. /\ DOMAIN left = IF rest = <<>> THEN DOMAIN lists \ {g} ELSE DOMAIN lists
      /\ \A f \in DOMAIN left : left[f] = IF f = g THEN rest ELSE lists[f]
  BY DEF TakenOut
<1> HIDE DEF rest
<1>4. g \in DOMAIN left => In(rest) # {}
  <2>1. g \in DOMAIN left => rest # <<>>
    BY <1>3
  <2> QED
    BY <1>1, <1>2, <2>1
<1>5. ASSUME NEW f \in DOMAIN left
      PROVE  /\ left[f] \in Seq(Keys) /\ Once(left[f])
             /\ In(left[f]) = {h \in H \ {k} : freq[h] = f}
             /\ \E h \in H \ {k} : freq[h] = f
  <2>1. CASE f = g
    <3>1. left[f] = rest /\ In(rest) = {h \in H \ {k} : freq[h] = f}
      BY <1>1, <1>2, <1>3, <2>1
    <3> QED
      BY <1>2, <1>4, <2>1, <3>1
  <2>2. CASE f # g
    <3>1. left[f] = lists[f] /\ f \in DOMAIN lists
      BY <1>3, <2>2
    <3>2. /\ lists[f] \in Seq(Keys) /\ Once(lists[f])
          /\ In(lists[f]) = {h \in H : freq[h] = f} /\ \E h \in H : freq[h] = f
      BY <3>1 DEF Linked
    <3>3. freq[k] # f
      BY <2>2
    <3> QED
      BY <3>1, <3>2, <3>3
  <2> QED
    BY <2>1, <2>2
<1>6. ASSUME NEW h \in H \ {k} PROVE freq[h] \in DOMAIN left
  <2>1. freq[h] \in DOMAIN lists
    BY DEF Linked
  <2>2. freq[h] = g => h \in In(rest)
    BY <1>1, <1>2
  <2>3. freq[h] = g => rest # <<>>
    BY <2>2 DEF In
  <2> QED
    BY <1>3, <2>1, <2>3
<1>7. DOMAIN left \subseteq Nat \ {0}
  BY <1>3 DEF Linked
<1>8. Linked(left, freq, H \ {k})
  BY <1>5, <1>6, <1>7 DEF Linked
<1> QED
  BY <1>0, <1>8

\* PushFront puts an entry into the bucket of its new frequency.
LEMMA PushLinks ==
  ASSUME NEW lists, NEW freq, NEW H, Linked(lists, freq, H),
         NEW k, k \in Keys, NEW G, Less(H, G, k), NEW f, IsFreq(f),
         NEW to, Gives(to, freq, H, k, f), NEW new, new = Pushed(lists, f, k)
  PROVE  /\ Linked(new, to, G)
         /\ IsMap(new)
         /\ DOMAIN new = DOMAIN lists \cup {f}
<1>0. /\ k \notin H /\ G = H \cup {k} /\ f \in Nat \ {0}
      /\ to[k] = f /\ \A h \in H : to[h] = freq[h]
  BY DEF Less, IsFreq, Gives
<1> DEFINE old == IF f \in DOMAIN lists THEN lists[f] ELSE <<>>
           s == <<k>> \o old
<1>1. /\ DOMAIN new = DOMAIN lists \cup {f} /\ IsMap(new)
      /\ new[f] = s /\ \A g \in DOMAIN lists : g # f => new[g] = lists[g]
  BY DEF Pushed, IsMap
<1>2. old \in Seq(Keys) /\ Once(old) /\ In(old) = {h \in H : freq[h] = f}
  <2>1. CASE f \in DOMAIN lists
    BY <2>1 DEF Linked
  <2>2. CASE f \notin DOMAIN lists
    <3>1. old = <<>>
      BY <2>2
    <3>2. \A h \in H : freq[h] # f
      BY <2>2 DEF Linked
    <3>3. Once(<<>>) /\ In(<<>>) = {}
      BY DEF Once, In
    <3>4. {h \in H : freq[h] = f} = {} /\ <<>> \in Seq(Keys)
      BY <3>2
    <3> HIDE DEF old
    <3> QED
      BY <3>1, <3>3, <3>4
  <2> QED
    BY <2>1, <2>2
<1> HIDE DEF old
<1>3. /\ s \in Seq(Keys) /\ Len(s) = Len(old) + 1 /\ s[1] = k /\ Len(old) \in Nat
      /\ \A i \in 1 .. Len(old) : s[i + 1] = old[i]
  <2>1. <<k>> \in Seq(Keys) /\ Len(<<k>>) = 1
    OBVIOUS
  <2> QED
    BY <1>2, <2>1, ConcatProperties
<1> HIDE DEF s
<1>4. \A i \in 1 .. Len(s) : i = 1 \/ (i - 1 \in 1 .. Len(old) /\ s[i] = old[i - 1])
  <2> SUFFICES ASSUME NEW i \in 1 .. Len(s), i # 1
               PROVE  i - 1 \in 1 .. Len(old) /\ s[i] = old[i - 1]
    OBVIOUS
  <2>1. i - 1 \in 1 .. Len(old) /\ (i - 1) + 1 = i
    BY <1>3
  <2> QED
    BY <1>3, <2>1
<1>5. In(s) = In(old) \cup {k}
  <2>1. In(s) \subseteq In(old) \cup {k}
    BY <1>3, <1>4 DEF In
  <2>2. k \in In(s)
    BY <1>3 DEF In
  <2>3. In(old) \subseteq In(s)
    <3> SUFFICES ASSUME NEW i \in 1 .. Len(old) PROVE old[i] \in In(s)
      BY DEF In
    <3>1. i + 1 \in 1 .. Len(s)
      BY <1>3
    <3> QED
      BY <1>3, <3>1 DEF In
  <2> QED
    BY <2>1, <2>2, <2>3
<1>6. k \notin In(old)
  BY <1>0, <1>2
<1>7. Once(s)
  <2> SUFFICES ASSUME NEW i \in 1 .. Len(s), NEW j \in 1 .. Len(s), s[i] = s[j]
               PROVE  i = j
    BY DEF Once
  <2>1. \A a \in 1 .. Len(s) : a # 1 => s[a] \in In(old)
    BY <1>4 DEF In
  <2>2. CASE i = 1 \/ j = 1
    BY <1>3, <1>6, <2>1, <2>2
  <2>3. CASE i # 1 /\ j # 1
    <3>1. i - 1 \in 1 .. Len(old) /\ j - 1 \in 1 .. Len(old) /\ old[i - 1] = old[j - 1]
      BY <1>4, <2>3
    <3>2. i - 1 = j - 1
      BY <1>2, <3>1 DEF Once
    <3> QED
      BY <1>3, <3>2
  <2> QED
    BY <2>2, <2>3
<1>8. ASSUME NEW g \in DOMAIN new
      PROVE  /\ new[g] \in Seq(Keys) /\ Once(new[g])
             /\ In(new[g]) = {h \in H \cup {k} : to[h] = g}
             /\ \E h \in H \cup {k} : to[h] = g
  <2>1. CASE g = f
    <3>1. {h \in H \cup {k} : to[h] = g} = {h \in H : freq[h] = f} \cup {k}
      BY <1>0, <2>1
    <3> QED
      BY <1>0, <1>1, <1>2, <1>3, <1>5, <1>7, <2>1, <3>1
  <2>2. CASE g # f
    <3>1. new[g] = lists[g] /\ g \in DOMAIN lists
      BY <1>1, <2>2
    <3>2. /\ lists[g] \in Seq(Keys) /\ Once(lists[g])
          /\ In(lists[g]) = {h \in H : freq[h] = g} /\ \E h \in H : freq[h] = g
      BY <3>1 DEF Linked
    <3>3. {h \in H \cup {k} : to[h] = g} = {h \in H : freq[h] = g}
      BY <1>0, <2>2
    <3> QED
      BY <3>1, <3>2, <3>3
  <2> QED
    BY <2>1, <2>2
<1>9. ASSUME NEW h \in H \cup {k} PROVE to[h] \in DOMAIN new
  BY <1>0, <1>1 DEF Linked
<1>10. DOMAIN new \subseteq Nat \ {0}
  BY <1>0, <1>1 DEF Linked
<1>11. Linked(new, to, H \cup {k})
  BY <1>8, <1>9, <1>10 DEF Linked
<1> QED
  BY <1>0, <1>1, <1>11

\* Linked looks at the frequencies of the linked keys only.
LEMMA LinkedAgrees ==
  ASSUME NEW lists, NEW freq, NEW H, Linked(lists, freq, H),
         NEW to, \A h \in H : to[h] = freq[h]
  PROVE  Linked(lists, to, H)
<1>1. \A f : {h \in H : to[h] = f} = {h \in H : freq[h] = f}
  OBVIOUS
<1> QED
  BY <1>1 DEF Linked

----------------------------------------------------------------------------
(* The operations of simplelfu *)

\* Where the entry k is.
LEMMA EntryFacts ==
  ASSUME NEW c, Sound(c), NEW k \in Held(c.data)
  PROVE  /\ k \in Keys /\ c.freq[k] \in Nat \ {0} /\ c.freq[k] \in DOMAIN c.lists
         /\ IsContents(c.data) /\ c.freq \in [Keys -> Nat]
         /\ Held(c.data) \in SUBSET Keys /\ DOMAIN c.lists \subseteq Nat \ {0}
         /\ IsLeast(c.minFreq, DOMAIN c.lists) /\ c.minFreq \in Nat
BY DEF Sound, Shaped, Linked, Held

\* updateFreq moves an entry one bucket up, and minFreq with it if need be.
LEMMA UpdateFreqFacts ==
  ASSUME NEW c, Sound(c), NEW k \in Held(c.data), NEW d, d = UpdateFreq(c, k)
  PROVE  Sound(d) /\ d.data = c.data /\ d.evicted = c.evicted
<1> DEFINE f == c.freq[k]
           H == Held(c.data)
           G == H \ {k}
           rest == Unlinked(c.lists[f], k)
           left == IF rest = <<>> THEN WithoutBucket(c.lists, f)
                   ELSE [c.lists EXCEPT ![f] = rest]
           new == Pushed(left, f + 1, k)
           to == [c.freq EXCEPT ![k] = f + 1]
           min == IF rest = <<>> /\ c.minFreq = f THEN f + 1 ELSE c.minFreq
<1>1. /\ k \in Keys /\ f \in Nat \ {0} /\ f \in DOMAIN c.lists
      /\ IsContents(c.data) /\ c.freq \in [Keys -> Nat]
      /\ H \in SUBSET Keys /\ DOMAIN c.lists \subseteq Nat \ {0}
      /\ IsLeast(c.minFreq, DOMAIN c.lists) /\ c.minFreq \in Nat
  BY EntryFacts
<1>2. d = [data |-> c.data, freq |-> to, lists |-> new, minFreq |-> min,
           evicted |-> c.evicted]
  BY DEF UpdateFreq, Sound, Shaped
<1>3. Linked(c.lists, c.freq, H) /\ IsMap(c.lists)
  BY DEF Sound, Shaped
<1> HIDE DEF G, H, rest
<1>4. /\ Linked(left, c.freq, G) /\ IsMap(left)
      /\ DOMAIN left = IF rest = <<>> THEN DOMAIN c.lists \ {f} ELSE DOMAIN c.lists
  <2>1. k \in H /\ rest = Unlinked(c.lists[c.freq[k]], k) /\ G = H \ {k}
    BY DEF G, H, rest
  <2>2. /\ DOMAIN left = IF rest = <<>> THEN DOMAIN c.lists \ {f} ELSE DOMAIN c.lists
        /\ \A g \in DOMAIN left : left[g] = IF g = f THEN rest ELSE c.lists[g]
        /\ IsMap(left)
    BY <1>1, <1>3 DEF WithoutBucket, IsMap
  <2>3. TakenOut(left, c.lists, f, k) /\ Less(G, H, k) /\ f = c.freq[k]
    BY <2>1, <2>2 DEF TakenOut, Less
  <2> HIDE DEF left, f
  <2>4. Linked(left, c.freq, G)
    BY <1>3, <2>3, UnlinkLinks
  <2> QED
    BY <2>2, <2>4
<1> HIDE DEF left
<1>5. to \in [Keys -> Nat] /\ to[k] = f + 1 /\ \A h \in Keys : h # k => to[h] = c.freq[h]
  BY <1>1
<1> HIDE DEF to
<1>6. /\ Linked(new, to, H) /\ IsMap(new) /\ DOMAIN new = DOMAIN left \cup {f + 1}
  <2>1. /\ G \in SUBSET Keys /\ f + 1 \in Nat \ {0} /\ k \notin G /\ H = G \cup {k}
        /\ \A h \in G : to[h] = c.freq[h]
    BY <1>1, <1>5 DEF G, H
  <2> DEFINE up == f + 1
  <2>2. new = Pushed(left, up, k)
    OBVIOUS
  <2>3. Less(G, H, k) /\ IsFreq(up) /\ Gives(to, c.freq, G, k, up)
    BY <1>5, <2>1 DEF Less, IsFreq, Gives
  <2> HIDE DEF new, up
  <2>4. k \in Keys /\ Linked(left, c.freq, G)
    BY <1>1, <1>4
  <2>5. Linked(new, to, H) /\ IsMap(new) /\ DOMAIN new = DOMAIN left \cup {up}
    BY <2>2, <2>3, <2>4, PushLinks
  <2> QED
    BY <2>5 DEF up
<1> HIDE DEF new
<1>8. IsLeast(min, DOMAIN new)
  <2> HIDE DEF f
  <2>1. \A g \in DOMAIN c.lists : g \in Nat /\ c.minFreq <= g
    BY <1>1 DEF IsLeast
  <2>2. c.minFreq \in DOMAIN c.lists
    BY <1>1 DEF IsLeast
  <2>3. CASE rest = <<>> /\ c.minFreq = f
    BY <1>1, <1>4, <1>6, <2>1, <2>2, <2>3 DEF IsLeast
  <2>4. CASE ~(rest = <<>> /\ c.minFreq = f)
    BY <1>1, <1>4, <1>6, <2>1, <2>2, <2>4 DEF IsLeast
  <2> QED
    BY <2>3, <2>4
<1>9. min \in Nat
  BY <1>1
<1> HIDE DEF min
<1>10. Shaped(d)
  BY <1>1, <1>2, <1>5, <1>6, <1>9 DEF Shaped
<1>11. \A h \in Keys : d.data[h] = None <=> d.freq[h] = 0
  <2>1. c.data[k] # None
    BY DEF Held
  <2> QED
    BY <1>1, <1>2, <1>5, <2>1 DEF Sound
<1>12. Linked(d.lists, d.freq, Held(d.data))
  BY <1>2, <1>6 DEF H
<1> QED
  BY <1>2, <1>8, <1>10, <1>11, <1>12 DEF Sound

\* removeElement and evictOldest drop an entry, and onEvict buffers it.
LEMMA DroppedPlaces ==
  ASSUME NEW c, Sound(c), NEW k \in Held(c.data), NEW d, d = Dropped(c, k)
  PROVE  /\ Sound(d) /\ d.data = Without(c.data, k)
         /\ d.evicted = Append(c.evicted, <<k, c.data[k]>>)
         /\ TakenOut(d.lists, c.lists, c.freq[k], k)
         /\ \A h \in Keys : d.freq[h] = IF h = k THEN 0 ELSE c.freq[h]
<1> DEFINE f == c.freq[k]
           H == Held(c.data)
           G == H \ {k}
           rest == Unlinked(c.lists[f], k)
           left == IF rest = <<>> THEN WithoutBucket(c.lists, f)
                   ELSE [c.lists EXCEPT ![f] = rest]
           to == [c.freq EXCEPT ![k] = 0]
           min == IF rest = <<>> /\ c.minFreq = f THEN LeastOf(DOMAIN left) ELSE c.minFreq
           e == Detach(c, k)
<1>1. /\ k \in Keys /\ f \in Nat \ {0} /\ f \in DOMAIN c.lists
      /\ IsContents(c.data) /\ c.freq \in [Keys -> Nat]
      /\ H \in SUBSET Keys /\ DOMAIN c.lists \subseteq Nat \ {0}
      /\ IsLeast(c.minFreq, DOMAIN c.lists) /\ c.minFreq \in Nat
  BY EntryFacts
<1>2. e = [data |-> c.data, freq |-> c.freq, lists |-> left, minFreq |-> min,
           evicted |-> c.evicted]
  BY <1>1 DEF Detach, Sound, Shaped
<1> HIDE DEF e, min
<1>3. d = [data |-> Without(c.data, k), freq |-> to, lists |-> left, minFreq |-> min,
           evicted |-> Append(c.evicted, <<k, c.data[k]>>)]
  <2>1. d = [e EXCEPT !.data[k] = None, !.freq[k] = 0,
                      !.evicted = Append(@, <<k, c.data[k]>>)]
    BY DEF Dropped, e
  <2> QED
    BY <1>2, <2>1 DEF Without
<1>4. Linked(c.lists, c.freq, H) /\ IsMap(c.lists)
  BY DEF Sound, Shaped
<1> HIDE DEF G, H, rest
<1>5. /\ Linked(left, c.freq, G) /\ IsMap(left) /\ TakenOut(left, c.lists, c.freq[k], k)
      /\ DOMAIN left = IF rest = <<>> THEN DOMAIN c.lists \ {f} ELSE DOMAIN c.lists
  <2>1. k \in H /\ rest = Unlinked(c.lists[c.freq[k]], k) /\ G = H \ {k}
    BY DEF G, H, rest
  <2>2. /\ DOMAIN left = IF rest = <<>> THEN DOMAIN c.lists \ {f} ELSE DOMAIN c.lists
        /\ \A g \in DOMAIN left : left[g] = IF g = f THEN rest ELSE c.lists[g]
        /\ IsMap(left)
    BY <1>1, <1>4 DEF WithoutBucket, IsMap
  <2>3. TakenOut(left, c.lists, f, k) /\ Less(G, H, k) /\ f = c.freq[k]
    BY <2>1, <2>2 DEF TakenOut, Less
  <2> HIDE DEF left, f
  <2>4. Linked(left, c.freq, G)
    BY <1>4, <2>3, UnlinkLinks
  <2> QED
    BY <2>2, <2>3, <2>4 DEF f
<1> HIDE DEF left
<1>6. to \in [Keys -> Nat] /\ to[k] = 0 /\ \A h \in Keys : h # k => to[h] = c.freq[h]
  BY <1>1
<1> HIDE DEF to
<1>7. Linked(left, to, G)
  <2>1. \A h \in G : to[h] = c.freq[h]
    BY <1>1, <1>6 DEF G
  <2> QED
    BY <1>5, <2>1, LinkedAgrees
<1>8. DOMAIN left \in SUBSET Nat
  BY <1>1, <1>5
<1>9. G # {} => IsLeast(min, DOMAIN left)
  <2> SUFFICES ASSUME G # {} PROVE IsLeast(min, DOMAIN left)
    OBVIOUS
  <2>1. DOMAIN left # {}
    BY <1>5 DEF Linked
  <2>2. CASE rest = <<>> /\ c.minFreq = f
    BY <1>8, <2>1, <2>2, LeastFacts DEF min
  <2>3. CASE ~(rest = <<>> /\ c.minFreq = f)
    <3>1. min = c.minFreq
      BY <2>3 DEF min
    <3> HIDE DEF f
    <3> QED
      BY <1>1, <1>5, <2>3, <3>1 DEF IsLeast
  <2> QED
    BY <2>2, <2>3
<1>10. min \in Nat
  <2>1. LeastOf(DOMAIN left) \in Nat
    <3>1. CASE DOMAIN left = {}
      BY <3>1 DEF LeastOf
    <3>2. CASE DOMAIN left # {}
      BY <1>8, <3>2, LeastFacts DEF IsLeast
    <3> QED
      BY <3>1, <3>2
  <2> QED
    BY <1>1, <2>1 DEF min
<1>11. IsContents(Without(c.data, k)) /\ Held(Without(c.data, k)) = G
  BY <1>1, HeldFacts DEF G, H
<1>12. Shaped(d)
  BY <1>3, <1>5, <1>6, <1>10, <1>11 DEF Shaped
<1>13. \A h \in Keys : d.data[h] = None <=> d.freq[h] = 0
  BY <1>1, <1>3, <1>6 DEF Sound, Without, IsContents
<1>14. IsFiniteSet(G)
  BY FS_RemoveElement DEF Sound, G, H
<1>15. /\ d.data = Without(c.data, k) /\ d.freq = to /\ d.lists = left /\ d.minFreq = min
       /\ d.evicted = Append(c.evicted, <<k, c.data[k]>>)
  BY <1>3
<1> QED
  BY <1>5, <1>6, <1>7, <1>9, <1>11, <1>12, <1>13, <1>14, <1>15 DEF Sound

LEMMA DroppedFacts ==
  ASSUME NEW c, Sound(c), NEW k \in Held(c.data), NEW d, d = Dropped(c, k)
  PROVE  /\ Sound(d) /\ d.data = Without(c.data, k)
         /\ d.evicted = Append(c.evicted, <<k, c.data[k]>>)
BY DroppedPlaces

\* oldest names an entry if there is one.
LEMMA OldestFacts ==
  ASSUME NEW c, Sound(c)
  PROVE  IF Held(c.data) = {} THEN Oldest(c) = None
         ELSE Oldest(c) \in Held(c.data) /\ Oldest(c) # None
<1>1. CASE Held(c.data) = {}
  BY <1>1 DEF Oldest
<1>2. CASE Held(c.data) # {}
  <2> DEFINE b == c.lists[c.minFreq]
  <2>1. c.minFreq \in DOMAIN c.lists
    BY <1>2 DEF Sound, IsLeast
  <2>2. b \in Seq(Keys) /\ In(b) = {k \in Held(c.data) : c.freq[k] = c.minFreq} /\ In(b) # {}
    <3>1. Linked(c.lists, c.freq, Held(c.data))
      BY DEF Sound
    <3>2. /\ b \in Seq(Keys) /\ In(b) = {k \in Held(c.data) : c.freq[k] = c.minFreq}
          /\ \E k \in Held(c.data) : c.freq[k] = c.minFreq
      BY <2>1, <3>1 DEF Linked
    <3> QED
      BY <3>2
  <2>3. Oldest(c) = b[Len(b)]
    BY <1>2, <2>1 DEF Oldest
  <2> HIDE DEF b
  <2>4. Len(b) \in Nat /\ Len(b) # 0
    BY <2>2 DEF In
  <2>5. b[Len(b)] \in In(b)
    BY <2>4 DEF In
  <2>6. Oldest(c) \in Held(c.data)
    BY <2>2, <2>3, <2>5
  <2> QED
    BY <1>2, <2>6, ParamsAssumption DEF Held
<1> QED
  BY <1>1, <1>2

\* The end of Add for a new key.
LEMMA InsertedFacts ==
  ASSUME NEW c, Sound(c), NEW k \in Keys, c.data[k] = None, NEW v, v # None,
         NEW d, d = Inserted(c, k, v)
  PROVE  Sound(d) /\ d.data = [c.data EXCEPT ![k] = v] /\ d.evicted = c.evicted
<1> DEFINE H == Held(c.data)
           G == H \cup {k}
           to == [c.freq EXCEPT ![k] = 1]
           new == Pushed(c.lists, 1, k)
           with == [c.data EXCEPT ![k] = v]
<1>1. /\ IsContents(c.data) /\ c.freq \in [Keys -> Nat] /\ Linked(c.lists, c.freq, H)
      /\ H \in SUBSET Keys /\ IsFiniteSet(H)
      /\ k \notin H
  BY DEF Sound, Shaped, Held
<1>2. d = [data |-> with, freq |-> to, lists |-> new, minFreq |-> 1, evicted |-> c.evicted]
  BY DEF Inserted, Sound, Shaped
<1>3. /\ IsContents(with) /\ Held(with) = G /\ with[k] = v
      /\ \A h \in Keys : h # k => with[h] = c.data[h]
  BY <1>1 DEF IsContents, Held
<1>4. to \in [Keys -> Nat] /\ to[k] = 1 /\ \A h \in Keys : h # k => to[h] = c.freq[h]
  BY <1>1
<1>9. IsFiniteSet(G)
  BY <1>1, FS_AddElement
<1>10. G = H \cup {k}
  OBVIOUS
<1> HIDE DEF G, H, to, with
<1>5. /\ Linked(new, to, G) /\ IsMap(new)
      /\ DOMAIN new = DOMAIN c.lists \cup {1}
  <2>1. 1 \in Nat \ {0} /\ \A h \in H : to[h] = c.freq[h]
    BY <1>1, <1>4
  <2> DEFINE one == 1
  <2>2. new = Pushed(c.lists, one, k)
    OBVIOUS
  <2>3. Less(H, G, k) /\ IsFreq(one) /\ Gives(to, c.freq, H, k, one)
    BY <1>1, <1>4, <1>10, <2>1 DEF Less, IsFreq, Gives
  <2>4. k \in Keys /\ Linked(c.lists, c.freq, H)
    BY <1>1
  <2> HIDE DEF new, one
  <2>5. Linked(new, to, G) /\ IsMap(new) /\ DOMAIN new = DOMAIN c.lists \cup {one}
    BY <2>2, <2>3, <2>4, PushLinks
  <2> QED
    BY <2>5 DEF one
<1> HIDE DEF new
<1>6. IsLeast(1, DOMAIN new)
  BY <1>5 DEF IsLeast, Linked
<1>7. Shaped(d)
  BY <1>2, <1>3, <1>4, <1>5 DEF Shaped
<1>8. \A h \in Keys : d.data[h] = None <=> d.freq[h] = 0
  BY <1>2, <1>3, <1>4 DEF Sound
<1> QED
  BY <1>2, <1>3, <1>5, <1>6, <1>7, <1>8, <1>9 DEF Sound, with

\* An entry overwritten in place.
Overwritten(d, c, k, v) == d = [c EXCEPT !.data[k] = v]

LEMMA StoredFacts ==
  ASSUME NEW c, Sound(c), NEW k \in Held(c.data), NEW v, v # None,
         NEW d, Overwritten(d, c, k, v)
  PROVE  /\ Sound(d) /\ d.data = [c.data EXCEPT ![k] = v] /\ d.evicted = c.evicted
         /\ Held(d.data) = Held(c.data)
<1> DEFINE with == [c.data EXCEPT ![k] = v]
<1>1. /\ d = [data |-> with, freq |-> c.freq, lists |-> c.lists, minFreq |-> c.minFreq,
              evicted |-> c.evicted]
      /\ IsContents(c.data) /\ k \in Keys /\ c.data[k] # None
  BY DEF Sound, Shaped, Held, Overwritten
<1>2. /\ IsContents(with) /\ with[k] = v /\ \A h \in Keys : h # k => with[h] = c.data[h]
      /\ Held(with) = Held(c.data)
  BY <1>1 DEF IsContents, Held
<1>3. /\ d.data = with /\ d.freq = c.freq /\ d.lists = c.lists /\ d.minFreq = c.minFreq
      /\ d.evicted = c.evicted
  BY <1>1
<1> HIDE DEF with
<1>4. Shaped(d)
  BY <1>1, <1>2, <1>3 DEF Sound, Shaped
<1>5. \A h \in Keys : d.data[h] = None <=> d.freq[h] = 0
  BY <1>1, <1>2, <1>3 DEF Sound
<1>6. Sound(d)
  BY <1>2, <1>3, <1>4, <1>5 DEF Sound
<1> QED
  BY <1>2, <1>3, <1>6 DEF with

\* An emptied buffer.
LEMMA ClearedFacts ==
  ASSUME NEW c, Sound(c), NEW d, d = [c EXCEPT !.evicted = <<>>]
  PROVE  Sound(d) /\ d.data = c.data /\ d.evicted = <<>>
<1>1. d = [data |-> c.data, freq |-> c.freq, lists |-> c.lists, minFreq |-> c.minFreq,
           evicted |-> <<>>]
  BY DEF Sound, Shaped
<1>2. /\ d.data = c.data /\ d.freq = c.freq /\ d.lists = c.lists /\ d.minFreq = c.minFreq
      /\ d.evicted = <<>>
  BY <1>1
<1>3. Shaped(d)
  BY <1>1, <1>2 DEF Sound, Shaped
<1> QED
  BY <1>2, <1>3 DEF Sound

\* An empty cache is sound.
LEMMA EmptyCache ==
  ASSUME NEW c, c = [data |-> Empty, freq |-> [k \in Keys |-> 0], lists |-> <<>>,
                     minFreq |-> 0, evicted |-> <<>>]
  PROVE  /\ Sound(c) /\ c.data = Empty /\ c.evicted = <<>>
         /\ IsContents(c.data) /\ Held(c.data) = {} /\ Cardinality(Held(c.data)) = 0
<1>1. /\ c.data = Empty /\ c.freq = [k \in Keys |-> 0] /\ c.lists = <<>> /\ c.minFreq = 0
      /\ c.evicted = <<>> /\ Held(c.data) = {} /\ IsContents(c.data)
  BY EmptyFacts
<1>2. DOMAIN c.lists = {} /\ IsMap(c.lists)
  <2>1. <<>> = [f \in {} |-> <<>>[f]] /\ DOMAIN <<>> = {}
    OBVIOUS
  <2> QED
    BY <1>1, <2>1 DEF IsMap
<1>3. Shaped(c)
  BY <1>1, <1>2 DEF Shaped
<1>4. Linked(c.lists, c.freq, Held(c.data))
  BY <1>1, <1>2 DEF Linked
<1>5. \A k \in Keys : c.data[k] = None <=> c.freq[k] = 0
  BY <1>1 DEF Empty
<1>6. IsFiniteSet(Held(c.data)) /\ Cardinality(Held(c.data)) = 0
  BY <1>1, FS_EmptySet
<1> QED
  BY <1>1, <1>3, <1>4, <1>5, <1>6 DEF Sound

----------------------------------------------------------------------------
(* Several evictions *)

\* f is the function of the states after up to n rounds of evictOldest.
EvictsUp(f, c, n) ==
  f = [i \in 0 .. n |-> IF i = 0 THEN c ELSE EvictOldest(f[i - 1])]

LEMMA EvictsExist ==
  ASSUME NEW c, NEW n \in Nat
  PROVE  \E f : EvictsUp(f, c, n)
<1> DEFINE S == {m \in Nat : \E f : EvictsUp(f, c, m)}
<1>1. 0 \in S
  <2> DEFINE f == [i \in 0 .. 0 |-> c]
  <2>1. EvictsUp(f, c, 0)
    BY DEF EvictsUp
  <2> QED
    BY <2>1
<1>2. ASSUME NEW m \in Nat, m \in S PROVE m + 1 \in S
  <2>1. PICK f : EvictsUp(f, c, m)
    BY <1>2
  <2> DEFINE g == [i \in 0 .. m + 1 |-> IF i = m + 1 THEN EvictOldest(f[m]) ELSE f[i]]
  <2>2. \A i \in 0 .. m : f[i] = IF i = 0 THEN c ELSE EvictOldest(f[i - 1])
    BY <2>1 DEF EvictsUp
  <2>3. ASSUME NEW i \in 0 .. m + 1
        PROVE  g[i] = IF i = 0 THEN c ELSE EvictOldest(g[i - 1])
    <3>1. CASE i = m + 1
      <4>1. i # 0 /\ m \in 0 .. m + 1 /\ m # m + 1
        BY <3>1
      <4>2. g[i] = EvictOldest(f[m])
        BY <3>1
      <4>3. g[m] = f[m]
        BY <4>1
      <4>4. i - 1 = m
        BY <3>1
      <4> HIDE DEF g
      <4> QED
        BY <4>1, <4>2, <4>3, <4>4
    <3>2. CASE i # m + 1
      <4>1. i \in 0 .. m /\ (i # 0 => i - 1 \in 0 .. m + 1 /\ i - 1 # m + 1)
        BY <3>2
      <4>2. g[i] = f[i]
        BY <3>2
      <4>3. i # 0 => g[i - 1] = f[i - 1]
        BY <4>1
      <4> HIDE DEF g
      <4> QED
        BY <2>2, <4>1, <4>2, <4>3
    <3> QED
      BY <3>1, <3>2
  <2>4. g = [i \in 0 .. m + 1 |-> g[i]]
    OBVIOUS
  <2> HIDE DEF g
  <2>5. g = [i \in 0 .. m + 1 |-> IF i = 0 THEN c ELSE EvictOldest(g[i - 1])]
    BY <2>3, <2>4
  <2>6. EvictsUp(g, c, m + 1)
    BY <2>5 DEF EvictsUp
  <2> QED
    BY <2>6
<1> HIDE DEF S
<1>3. n \in S
  BY <1>1, <1>2, NatSetInduction
<1> QED
  BY <1>3 DEF S

\* evictOldest takes an entry whenever there is one.
LEMMA EvictOldestFacts ==
  ASSUME NEW c, Sound(c), Held(c.data) # {}
  PROVE  \E x \in Held(c.data) : EvictOldest(c) = Dropped(c, x) /\ Oldest(c) = x /\ x # None
BY OldestFacts DEF EvictOldest

\* The entries of c among the keys of S, and what a buffer holds.
Entries(c, S) == {<<k, c.data[k]>> : k \in S}
Buffered(d) == {d.evicted[i] : i \in DOMAIN d.evicted}

\* d is c with n entries gone, all of them in the buffer.
Shed(c, d, n) ==
  /\ Sound(d) /\ Cardinality(Held(d.data)) + n = Cardinality(Held(c.data))
  /\ Held(d.data) \subseteq Held(c.data) /\ d.data = Keep(c.data, Held(d.data))
  /\ d.evicted \in Seq(Entries(c, Keys))
  /\ Buffered(d) = Entries(c, Held(c.data) \ Held(d.data))

\* f holds the states of the rounds from c on.
Rounds(f, c, n) ==
  f[0] = c /\ \A m \in Nat : m + 1 <= n => f[m + 1] = EvictOldest(f[m])

LEMMA EvictManyRounds ==
  ASSUME NEW c, NEW n \in Nat
  PROVE  \E f : Rounds(f, c, n) /\ EvictMany(c, n) = f[n]
<1> DEFINE f == CHOOSE f : EvictsUp(f, c, n)
<1>1. EvictsUp(f, c, n)
  BY EvictsExist
<1>2. EvictMany(c, n) = f[n]
  BY DEF EvictMany, EvictsUp
<1> HIDE DEF f
<1>3. \A i \in 0 .. n : f[i] = IF i = 0 THEN c ELSE EvictOldest(f[i - 1])
  BY <1>1 DEF EvictsUp
<1>4. f[0] = c
  <2>1. 0 \in 0 .. n
    OBVIOUS
  <2> QED
    BY <1>3, <2>1
<1>5. ASSUME NEW m \in Nat, m + 1 <= n PROVE f[m + 1] = EvictOldest(f[m])
  <2>1. m + 1 \in 0 .. n /\ m + 1 # 0 /\ (m + 1) - 1 = m
    BY <1>5
  <2> QED
    BY <1>3, <2>1
<1> QED
  BY <1>2, <1>4, <1>5 DEF Rounds

LEMMA RoundsShed ==
  ASSUME NEW c, Sound(c), c.evicted = <<>>, NEW n \in Nat, n <= Cardinality(Held(c.data)),
         NEW f, Rounds(f, c, n), NEW a \in Nat, a <= n
  PROVE  Shed(c, f[a], a)
<1> DEFINE S == {m \in Nat : m <= n => Shed(c, f[m], m)}
<1>3. f[0] = c /\ \A m \in Nat : m + 1 <= n => f[m + 1] = EvictOldest(f[m])
  BY DEF Rounds
<1>4. IsContents(c.data) /\ IsFiniteSet(Held(c.data)) /\ Cardinality(Held(c.data)) \in Nat
  BY FS_CardinalityType DEF Sound, Shaped
<1>5. 0 \in S
  <2>1. c.data = Keep(c.data, Held(c.data))
    BY <1>4 DEF IsContents, Keep, Held
  <2>2. c.evicted \in Seq(Entries(c, Keys)) /\ Buffered(c) = {}
    BY DEF Buffered
  <2>3. Entries(c, Held(c.data) \ Held(c.data)) = {}
    BY DEF Entries
  <2>4. Shed(c, c, 0)
    <3>1. Buffered(c) = Entries(c, Held(c.data) \ Held(c.data))
      BY <2>2, <2>3
    <3>2. Cardinality(Held(c.data)) + 0 = Cardinality(Held(c.data))
      BY <1>4
    <3> QED
      BY <2>1, <2>2, <3>1, <3>2, Zenon DEF Shed
  <2> QED
    BY <1>3, <2>4
<1>6. ASSUME NEW m \in Nat, m \in S PROVE m + 1 \in S
  <2> SUFFICES ASSUME m + 1 <= n PROVE Shed(c, f[m + 1], m + 1)
    OBVIOUS
  <2> DEFINE b == f[m]
             e == f[m + 1]
             A == Held(c.data)
             B == Held(b.data)
  <2>1. Shed(c, b, m) /\ e = EvictOldest(b)
    BY <1>3, <1>6
  <2> HIDE DEF b, e
  <2>2. /\ Sound(b) /\ IsContents(b.data) /\ IsFiniteSet(B) /\ Cardinality(B) \in Nat
        /\ Cardinality(B) + m = Cardinality(A) /\ B \subseteq A
        /\ b.data = Keep(c.data, B) /\ b.evicted \in Seq(Entries(c, Keys))
        /\ Buffered(b) = Entries(c, A \ B)
    BY <2>1, FS_CardinalityType DEF Shed, Sound, Shaped
  <2>3. B # {}
    <3>1. Cardinality(B) # 0
      BY <1>4, <2>2
    <3> QED
      BY <3>1, FS_EmptySet
  <2>4. PICK x \in B : e = Dropped(b, x)
    BY <2>1, <2>2, <2>3, EvictOldestFacts
  <2>5. /\ Sound(e) /\ e.data = Without(b.data, x)
        /\ e.evicted = Append(b.evicted, <<x, b.data[x]>>)
    BY <2>2, <2>4, DroppedFacts
  <2>6. Held(e.data) = B \ {x}
    BY <2>2, <2>5, HeldFacts
  <2>7. x \in Keys /\ b.data[x] = c.data[x]
    BY <2>2 DEF Keep, Held
  <2>8. e.data = Keep(c.data, Held(e.data))
    <3>1. e.data = [h \in Keys |-> IF h = x THEN None ELSE b.data[h]]
      BY <2>2, <2>5 DEF Without, IsContents
    <3>2. \A h \in Keys : b.data[h] = IF h \in B THEN c.data[h] ELSE None
      BY <2>2 DEF Keep
    <3>3. \A h \in Keys : (IF h = x THEN None ELSE b.data[h])
                          = (IF h \in Held(e.data) THEN c.data[h] ELSE None)
      BY <2>6, <3>2
    <3> QED
      BY <3>1, <3>3 DEF Keep
  <2> HIDE DEF A, B
  <2>9. Cardinality(B \ {x}) = Cardinality(B) - 1
    BY <2>2, FS_RemoveElement
  <2>10. Cardinality(Held(e.data)) + (m + 1) = Cardinality(A)
    BY <1>4, <2>2, <2>6, <2>9 DEF A
  <2>11. /\ e.evicted \in Seq(Entries(c, Keys))
         /\ Buffered(e) = Buffered(b) \cup {<<x, c.data[x]>>}
    <3> DEFINE T == Entries(c, Keys)
               s == b.evicted
               p == <<x, c.data[x]>>
               r == e.evicted
    <3>1. p \in T
      BY <2>7 DEF Entries
    <3>2. s \in Seq(T) /\ r = Append(s, p)
      BY <2>2, <2>5, <2>7
    <3> HIDE DEF T, s, p, r
    <3>3. /\ r \in Seq(T) /\ DOMAIN r = 1 .. Len(s) + 1 /\ r[Len(s) + 1] = p
          /\ \A i \in 1 .. Len(s) : r[i] = s[i]
          /\ DOMAIN s = 1 .. Len(s) /\ Len(s) \in Nat
      BY <3>1, <3>2, AppendProperties
    <3>4. {r[i] : i \in DOMAIN r} = {s[i] : i \in DOMAIN s} \cup {p}
      <4>1. \A i \in DOMAIN r : i = Len(s) + 1 \/ i \in DOMAIN s
        BY <3>3
      <4>2. \A i \in DOMAIN s : i \in DOMAIN r /\ r[i] = s[i]
        BY <3>3
      <4>3. Len(s) + 1 \in DOMAIN r
        BY <3>3
      <4>4. \A y \in {r[i] : i \in DOMAIN r} : y \in {s[i] : i \in DOMAIN s} \cup {p}
        BY <3>3, <4>1, <4>2
      <4>5. \A y \in {s[i] : i \in DOMAIN s} \cup {p} : y \in {r[i] : i \in DOMAIN r}
        BY <3>3, <4>2, <4>3
      <4> QED
        BY <4>4, <4>5
    <3> QED
      BY <3>3, <3>4 DEF T, s, p, r, Buffered
  <2>12. Buffered(e) = Entries(c, A \ Held(e.data))
    <3>1. A \ (B \ {x}) = (A \ B) \cup {x}
      BY <2>2
    <3>2. \A T : Entries(c, T \cup {x}) = Entries(c, T) \cup {<<x, c.data[x]>>}
      BY DEF Entries
    <3> QED
      BY <2>2, <2>6, <2>11, <3>1, <3>2
  <2>13. Held(e.data) \subseteq Held(c.data)
    BY <2>2, <2>6 DEF A
  <2> QED
    BY <2>5, <2>8, <2>10, <2>11, <2>12, <2>13 DEF Shed, A, e
<1> HIDE DEF S
<1>7. a \in S
  BY <1>5, <1>6, NatSetInduction
<1> QED
  BY <1>7 DEF S

LEMMA EvictManySheds ==
  ASSUME NEW c, Sound(c), c.evicted = <<>>, NEW n \in Nat, n <= Cardinality(Held(c.data)),
         NEW z, z = EvictMany(c, n)
  PROVE  Shed(c, z, n)
BY EvictManyRounds, RoundsShed

----------------------------------------------------------------------------
(* The order of Keys() *)

\* What Keys() lists of the bucket f.
Part(lists, f) == IF f \in DOMAIN lists THEN Reversed(lists[f]) ELSE <<>>

\* u holds what Keys() has listed after the buckets up to each frequency.
ListsUp(u, lists, n) ==
  u = [f \in 0 .. n |-> IF f = 0 THEN <<>> ELSE u[f - 1] \o Part(lists, f)]

\* All that Keys() lists.
KeysOf(lists) == (CHOOSE u : ListsUp(u, lists, MaxFreq))[MaxFreq]

\* The frequencies are within the bound.
Capped(c) == \A k \in Keys : c.freq[k] <= MaxFreq

LEMMA ListsExist ==
  ASSUME NEW lists, NEW n \in Nat
  PROVE  \E u : ListsUp(u, lists, n)
<1> DEFINE S == {m \in Nat : \E u : ListsUp(u, lists, m)}
<1>1. 0 \in S
  <2> DEFINE u == [f \in 0 .. 0 |-> <<>>]
  <2>1. ListsUp(u, lists, 0)
    BY DEF ListsUp
  <2> QED
    BY <2>1
<1>2. ASSUME NEW m \in Nat, m \in S PROVE m + 1 \in S
  <2>1. PICK u : ListsUp(u, lists, m)
    BY <1>2
  <2> DEFINE g == [i \in 0 .. m + 1 |-> IF i = m + 1 THEN u[m] \o Part(lists, m + 1) ELSE u[i]]
  <2>2. \A i \in 0 .. m : u[i] = IF i = 0 THEN <<>> ELSE u[i - 1] \o Part(lists, i)
    BY <2>1 DEF ListsUp
  <2>3. ASSUME NEW i \in 0 .. m + 1
        PROVE  g[i] = IF i = 0 THEN <<>> ELSE g[i - 1] \o Part(lists, i)
    <3>1. CASE i = m + 1
      <4>1. i # 0 /\ m \in 0 .. m + 1 /\ m # m + 1
        BY <3>1
      <4>2. g[i] = u[m] \o Part(lists, i)
        BY <3>1
      <4>3. g[m] = u[m]
        BY <4>1
      <4>4. i - 1 = m
        BY <3>1
      <4> HIDE DEF g
      <4> QED
        BY <4>1, <4>2, <4>3, <4>4
    <3>2. CASE i # m + 1
      <4>1. i \in 0 .. m /\ (i # 0 => i - 1 \in 0 .. m + 1 /\ i - 1 # m + 1)
        BY <3>2
      <4>2. g[i] = u[i]
        BY <3>2
      <4>3. i # 0 => g[i - 1] = u[i - 1]
        BY <4>1
      <4> HIDE DEF g
      <4> QED
        BY <2>2, <4>1, <4>2, <4>3
    <3> QED
      BY <3>1, <3>2
  <2>4. g = [i \in 0 .. m + 1 |-> g[i]]
    OBVIOUS
  <2> HIDE DEF g
  <2>5. g = [i \in 0 .. m + 1 |-> IF i = 0 THEN <<>> ELSE g[i - 1] \o Part(lists, i)]
    BY <2>3, <2>4
  <2>6. ListsUp(g, lists, m + 1)
    BY <2>5 DEF ListsUp
  <2> QED
    BY <2>6
<1> HIDE DEF S
<1>3. n \in S
  BY <1>1, <1>2, NatSetInduction
<1> QED
  BY <1>3 DEF S

\* Keys() walks the buckets one by one.
Walks(u, lists) ==
  /\ u[0] = <<>>
  /\ \A m \in Nat : m + 1 <= MaxFreq => u[m + 1] = u[m] \o Part(lists, m + 1)

LEMMA KeysOfWalks ==
  ASSUME NEW lists
  PROVE  \E u : Walks(u, lists) /\ KeysOf(lists) = u[MaxFreq]
<1> DEFINE u == CHOOSE u : ListsUp(u, lists, MaxFreq)
<1>1. ListsUp(u, lists, MaxFreq)
  BY FreqAssumption, ListsExist
<1>2. KeysOf(lists) = u[MaxFreq]
  BY DEF KeysOf
<1> HIDE DEF u
<1>3. \A i \in 0 .. MaxFreq : u[i] = IF i = 0 THEN <<>> ELSE u[i - 1] \o Part(lists, i)
  BY <1>1 DEF ListsUp
<1>4. u[0] = <<>>
  <2>1. 0 \in 0 .. MaxFreq
    BY FreqAssumption
  <2> QED
    BY <1>3, <2>1
<1>5. ASSUME NEW m \in Nat, m + 1 <= MaxFreq PROVE u[m + 1] = u[m] \o Part(lists, m + 1)
  <2>1. m + 1 \in 0 .. MaxFreq /\ m + 1 # 0 /\ (m + 1) - 1 = m
    BY <1>5, FreqAssumption
  <2> QED
    BY <1>3, <2>1
<1> QED
  BY <1>2, <1>4, <1>5 DEF Walks

LEMMA KeysResultIs == KeysResult = KeysOf(lfu.lists)
BY DEF KeysResult, KeysOf, ListsUp, Part

LEMMA ReversedFacts ==
  ASSUME NEW s \in Seq(Keys)
  PROVE  /\ Reversed(s) \in Seq(Keys) /\ Len(Reversed(s)) = Len(s)
         /\ \A i \in 1 .. Len(s) : Reversed(s)[i] = s[Len(s) + 1 - i]
<1> DEFINE n == Len(s)
           r == Reversed(s)
<1>1. n \in Nat /\ \A i \in 1 .. n : s[i] \in Keys
  OBVIOUS
<1>2. r = [i \in 1 .. n |-> s[n + 1 - i]]
  BY DEF Reversed
<1> HIDE DEF n, r
<1>3. \A i \in 1 .. n : n + 1 - i \in 1 .. n
  BY <1>1
<1>4. r \in [1 .. n -> Keys]
  BY <1>1, <1>2, <1>3
<1>5. r \in Seq(Keys) /\ Len(r) = n
  BY <1>1, <1>4
<1> QED
  BY <1>2, <1>5 DEF n, r

\* The back of a bucket is listed first, and the rest after it.
LEMMA ReversedLast ==
  ASSUME NEW s, s \in Seq(Keys), Once(s), s # <<>>, NEW k, k = s[Len(s)],
         NEW rest, rest = Unlinked(s, k)
  PROVE  /\ rest \in Seq(Keys) /\ k \in Keys
         /\ Reversed(s) = <<k>> \o Reversed(rest)
<1> DEFINE n == Len(s)
           slot == CHOOSE i \in DOMAIN s : s[i] = k
<1>1. n \in Nat \ {0} /\ DOMAIN s = 1 .. n /\ \A i \in 1 .. n : s[i] \in Keys
  BY EmptySeq
<1>2. slot = n
  <2>1. n \in DOMAIN s /\ s[n] = k
    BY <1>1
  <2>2. slot \in 1 .. n /\ s[slot] = k
    BY <1>1, <2>1
  <2> QED
    BY <1>1, <2>1, <2>2 DEF Once
<1>3. rest = [i \in 1 .. n - 1 |-> IF i < slot THEN s[i] ELSE s[i + 1]]
  BY DEF Unlinked
<1>4. k \in Keys
  BY <1>1
<1>5. k = s[n]
  OBVIOUS
<1> HIDE DEF n, slot
<1>6. n - 1 \in Nat /\ \A i \in 1 .. n - 1 : i \in 1 .. n /\ i < n
  BY <1>1
<1>7. \A i \in 1 .. n - 1 : rest[i] = s[i]
  BY <1>2, <1>3, <1>6
<1>8. rest \in [1 .. n - 1 -> Keys]
  BY <1>1, <1>2, <1>3, <1>6
<1>9. rest \in Seq(Keys) /\ Len(rest) = n - 1
  BY <1>6, <1>8
<1> DEFINE a == Reversed(s)
           b == Reversed(rest)
           z == <<k>> \o b
<1>10. /\ a \in Seq(Keys) /\ Len(a) = n /\ \A i \in 1 .. n : a[i] = s[n + 1 - i]
  BY ReversedFacts DEF n
<1>11. /\ b \in Seq(Keys) /\ Len(b) = n - 1
       /\ \A i \in 1 .. n - 1 : b[i] = rest[n - i]
  <2>1. /\ b \in Seq(Keys) /\ Len(b) = Len(rest)
        /\ \A i \in 1 .. Len(rest) : b[i] = rest[Len(rest) + 1 - i]
    BY <1>9, ReversedFacts
  <2> HIDE DEF b
  <2>2. \A i \in 1 .. n - 1 : (n - 1) + 1 - i = n - i
    BY <1>1
  <2> QED
    BY <1>9, <2>1, <2>2
<1> HIDE DEF a, b
<1>12. /\ z \in Seq(Keys) /\ Len(z) = n /\ z[1] = k
       /\ \A i \in 1 .. n : i # 1 => z[i] = b[i - 1]
  <2>1. <<k>> \in Seq(Keys) /\ Len(<<k>>) = 1
    BY <1>4
  <2> QED
    BY <1>1, <1>11, <2>1, ConcatProperties
<1> HIDE DEF z
<1>13. ASSUME NEW i \in 1 .. n PROVE a[i] = z[i]
  <2>1. CASE i = 1
    <3>1. n + 1 - i = n
      BY <1>1, <2>1
    <3> QED
      BY <1>5, <1>10, <1>12, <2>1, <3>1
  <2>2. CASE i # 1
    <3>1. i - 1 \in 1 .. n - 1 /\ n - (i - 1) = n + 1 - i /\ n + 1 - i \in 1 .. n - 1
      BY <1>1, <2>2
    <3>2. z[i] = b[i - 1] /\ b[i - 1] = rest[n - (i - 1)]
      BY <1>11, <1>12, <2>2, <3>1
    <3>3. rest[n + 1 - i] = s[n + 1 - i]
      BY <1>7, <3>1
    <3> QED
      BY <1>10, <3>1, <3>2, <3>3
  <2> QED
    BY <2>1, <2>2
<1>14. a = z
  BY <1>10, <1>12, <1>13, SeqEqual
<1> QED
  BY <1>4, <1>9, <1>14 DEF a, b, z

\* a is what one walk has listed up to bucket m, b what another has that lacks x in
\* bucket g.
Ahead(a, b, x, m, g) ==
  b \in Seq(Keys) /\ IF m < g THEN a = <<>> /\ b = <<>> ELSE a = <<x>> \o b

LEMMA AheadStep ==
  ASSUME NEW a, NEW b, NEW x \in Keys, NEW m \in Nat, NEW g \in Nat, Ahead(a, b, x, m, g),
         NEW n \in Nat, n = m + 1, NEW P \in Seq(Keys), NEW Q,
         n < g => Q = <<>>, n # g => Q = P, n = g => Q = <<x>> \o P
  PROVE  Ahead(a \o Q, b \o P, x, n, g)
<1>1. b \in Seq(Keys) /\ <<x>> \in Seq(Keys) /\ <<>> \in Seq(Keys)
  BY DEF Ahead
<1>2. b \o P \in Seq(Keys)
  BY <1>1, ConcatProperties
<1>3. CASE n < g
  <2>1. a = <<>> /\ b = <<>> /\ Q = <<>> /\ P = <<>>
    BY <1>3 DEF Ahead
  <2>2. <<>> \o <<>> = <<>>
    BY <1>1, ConcatEmptySeq
  <2> QED
    BY <1>2, <1>3, <2>1, <2>2 DEF Ahead
<1>4. CASE n = g
  <2>1. a = <<>> /\ b = <<>> /\ Q = <<x>> \o P
    BY <1>4 DEF Ahead
  <2>2. <<x>> \o P \in Seq(Keys)
    BY <1>1, ConcatProperties
  <2>3. <<>> \o P = P /\ <<>> \o Q = Q
    BY <2>1, <2>2, ConcatEmptySeq
  <2>4. ~(n < g)
    BY <1>4
  <2> QED
    BY <1>2, <2>1, <2>3, <2>4 DEF Ahead
<1>5. CASE n > g
  <2>1. ~(m < g) /\ n # g /\ ~(n < g)
    BY <1>5
  <2>2. a = <<x>> \o b /\ Q = P
    BY <2>1 DEF Ahead
  <2>3. (<<x>> \o b) \o P = <<x>> \o (b \o P)
    BY <1>1, ConcatAssociative
  <2>4. a \o Q = <<x>> \o (b \o P)
    BY <2>2, <2>3
  <2> QED
    BY <1>2, <2>1, <2>4 DEF Ahead
<1> QED
  BY <1>3, <1>4, <1>5

\* A and B have the same buckets, but for the entry x that A's bucket g lists first.
Differ(A, B, x, g) ==
  /\ \A f \in Nat : /\ Part(B, f) \in Seq(Keys)
                    /\ f < g => Part(A, f) = <<>>
                    /\ f # g => Part(A, f) = Part(B, f)
  /\ Part(A, g) = <<x>> \o Part(B, g)

LEMMA WalkBegins ==
  ASSUME NEW A, NEW B, NEW u, Walks(u, A), NEW w, Walks(w, B), NEW x, x \in Keys,
         NEW g, IsFreq(g), g <= MaxFreq, Differ(A, B, x, g)
  PROVE  w[MaxFreq] \in Seq(Keys) /\ u[MaxFreq] = <<x>> \o w[MaxFreq]
<1> DEFINE S == {m \in Nat : m <= MaxFreq => Ahead(u[m], w[m], x, m, g)}
<1>1. g \in Nat /\ 0 < g
  BY DEF IsFreq
<1>2. 0 \in S
  <2>1. u[0] = <<>> /\ w[0] = <<>> /\ <<>> \in Seq(Keys)
    BY DEF Walks
  <2>2. Ahead(u[0], w[0], x, 0, g)
    BY <1>1, <2>1 DEF Ahead
  <2> QED
    BY <2>2
<1>3. ASSUME NEW m \in Nat, m \in S PROVE m + 1 \in S
  <2> DEFINE n == m + 1
  <2> SUFFICES ASSUME n <= MaxFreq PROVE Ahead(u[n], w[n], x, n, g)
    OBVIOUS
  <2>1. n \in Nat /\ m <= MaxFreq /\ n = m + 1
    BY FreqAssumption
  <2>2. Ahead(u[m], w[m], x, m, g)
    BY <1>3, <2>1
  <2>3. u[n] = u[m] \o Part(A, n) /\ w[n] = w[m] \o Part(B, n)
    BY DEF Walks
  <2> HIDE DEF n
  <2>4. /\ Part(B, n) \in Seq(Keys)
        /\ n < g => Part(A, n) = <<>>
        /\ n # g => Part(A, n) = Part(B, n)
        /\ n = g => Part(A, n) = <<x>> \o Part(B, n)
    BY <2>1 DEF Differ
  <2>5. Ahead(u[m] \o Part(A, n), w[m] \o Part(B, n), x, n, g)
    BY <1>1, <2>1, <2>2, <2>4, AheadStep
  <2> QED
    BY <2>3, <2>5
<1> HIDE DEF S
<1>4. MaxFreq \in S
  BY <1>2, <1>3, FreqAssumption, NatSetInduction
<1>5. Ahead(u[MaxFreq], w[MaxFreq], x, MaxFreq, g) /\ ~(MaxFreq < g)
  BY <1>1, <1>4, FreqAssumption DEF S
<1> QED
  BY <1>5 DEF Ahead

\* Keys() begins with what evictOldest takes, and goes on with what it lists afterwards.
LEMMA KeysBegin ==
  ASSUME NEW c, Sound(c), Capped(c), Held(c.data) # {}, NEW x, x = Oldest(c),
         NEW d, d = Dropped(c, x)
  PROVE  /\ x \in Keys /\ KeysOf(d.lists) \in Seq(Keys)
         /\ KeysOf(c.lists) = <<x>> \o KeysOf(d.lists)
<1> DEFINE A == c.lists
           B == d.lists
           g == c.minFreq
           b == A[g]
           rest == Unlinked(b, x)
<1>1. /\ Linked(A, c.freq, Held(c.data)) /\ IsLeast(g, DOMAIN A) /\ x \in Held(c.data)
      /\ x \in Keys
  BY OldestFacts DEF Sound, Held
<1>2. /\ g \in DOMAIN A /\ g \in Nat \ {0} /\ \A f \in DOMAIN A : f \in Nat /\ g <= f
      /\ b \in Seq(Keys) /\ Once(b)
      /\ In(b) = {k \in Held(c.data) : c.freq[k] = g} /\ \E k \in Held(c.data) : c.freq[k] = g
  BY <1>1 DEF IsLeast, Linked
<1>3. b # <<>>
  BY <1>2 DEF In
<1>4. x = b[Len(b)]
  BY <1>2 DEF Oldest
<1>5. c.freq[x] = g
  <2>1. Len(b) \in Nat \ {0}
    BY <1>2, <1>3, EmptySeq
  <2>2. x \in In(b)
    BY <1>4, <2>1 DEF In
  <2> QED
    BY <1>2, <2>2
<1>6. g <= MaxFreq
  BY <1>1, <1>5 DEF Capped
<1>7. Sound(d) /\ TakenOut(B, A, g, x)
  BY <1>1, <1>5, DroppedPlaces
<1>8. Linked(B, d.freq, Held(d.data))
  BY <1>7 DEF Sound
<1>9. /\ DOMAIN B = IF rest = <<>> THEN DOMAIN A \ {g} ELSE DOMAIN A
      /\ \A f \in DOMAIN B : B[f] = IF f = g THEN rest ELSE A[f]
  BY <1>7 DEF TakenOut
<1>10. rest \in Seq(Keys) /\ Reversed(b) = <<x>> \o Reversed(rest)
  BY <1>2, <1>3, <1>4, ReversedLast
<1> HIDE DEF A, B, g, b, rest
<1>11. ASSUME NEW f \in Nat PROVE Part(B, f) \in Seq(Keys)
  <2>1. f \in DOMAIN B => B[f] \in Seq(Keys)
    BY <1>8 DEF Linked
  <2> QED
    BY <2>1, ReversedFacts DEF Part
<1>12. ASSUME NEW f \in Nat, f < g PROVE Part(A, f) = <<>>
  BY <1>2, <1>12 DEF Part
<1>13. ASSUME NEW f \in Nat, f # g PROVE Part(A, f) = Part(B, f)
  BY <1>9, <1>13 DEF Part
<1>14. Part(A, g) = <<x>> \o Part(B, g)
  <2>1. Part(A, g) = Reversed(b)
    BY <1>2 DEF Part, b
  <2>2. Part(B, g) = Reversed(rest)
    <3>1. CASE rest # <<>>
      BY <1>2, <1>9, <3>1 DEF Part
    <3>2. CASE rest = <<>>
      <4>1. Part(B, g) = <<>>
        BY <1>9, <3>2 DEF Part
      <4>2. Reversed(<<>>) = <<>>
        <5>1. <<>> \in Seq(Keys) /\ Len(<<>>) = 0
          OBVIOUS
        <5>2. Reversed(<<>>) \in Seq(Keys) /\ Len(Reversed(<<>>)) = 0
          BY <5>1, ReversedFacts
        <5> QED
          BY <5>2, EmptySeq
      <4> QED
        BY <3>2, <4>1, <4>2
    <3> QED
      BY <3>1, <3>2
  <2> QED
    BY <1>10, <2>1, <2>2
<1>15. PICK u : Walks(u, A) /\ KeysOf(A) = u[MaxFreq]
  BY KeysOfWalks
<1>16. PICK w : Walks(w, B) /\ KeysOf(B) = w[MaxFreq]
  BY KeysOfWalks
<1>17. w[MaxFreq] \in Seq(Keys) /\ u[MaxFreq] = <<x>> \o w[MaxFreq]
  <2>1. Differ(A, B, x, g) /\ IsFreq(g)
    BY <1>2, <1>11, <1>12, <1>13, <1>14 DEF Differ, IsFreq
  <2> QED
    BY <1>1, <1>6, <1>15, <1>16, <2>1, WalkBegins
<1> QED
  BY <1>1, <1>15, <1>16, <1>17 DEF A, B

\* e is c after m rounds: gone are the first m entries of Keys(), in that order.
InOrder(c, e, m) ==
  /\ Capped(e)
  /\ Held(c.data) \ Held(e.data) = {KeysOf(c.lists)[i] : i \in 1 .. m}
  /\ Held(e.data) # {} =>
       \A i \in 1 .. Len(KeysOf(e.lists)) : KeysOf(c.lists)[m + i] = KeysOf(e.lists)[i]

\* Dropping an entry raises no frequency.
LEMMA DroppedCaps ==
  ASSUME NEW c, Sound(c), Capped(c), NEW k \in Held(c.data), NEW d, d = Dropped(c, k)
  PROVE  Capped(d)
<1>1. \A h \in Keys : d.freq[h] = IF h = k THEN 0 ELSE c.freq[h]
  BY DroppedPlaces
<1> QED
  BY <1>1, FreqAssumption DEF Capped

LEMMA RoundsInOrder ==
  ASSUME NEW c, Sound(c), Capped(c), c.evicted = <<>>,
         NEW n \in Nat, n <= Cardinality(Held(c.data)),
         NEW f, Rounds(f, c, n), NEW a \in Nat, a <= n
  PROVE  InOrder(c, f[a], a)
<1> DEFINE K == KeysOf(c.lists)
           S == {m \in Nat : m <= n => InOrder(c, f[m], m)}
<1>1. f[0] = c /\ \A m \in Nat : m + 1 <= n => f[m + 1] = EvictOldest(f[m])
  BY DEF Rounds
<1>2. Cardinality(Held(c.data)) \in Nat
  BY FS_CardinalityType DEF Sound
<1>3. 0 \in S
  <2>1. Held(c.data) \ Held(c.data) = {K[i] : i \in 1 .. 0}
    OBVIOUS
  <2>2. \A i \in 1 .. Len(K) : K[0 + i] = K[i]
    OBVIOUS
  <2>3. InOrder(c, c, 0)
    BY <2>1, <2>2 DEF InOrder
  <2> QED
    BY <1>1, <2>3
<1>4. ASSUME NEW m \in Nat, m \in S PROVE m + 1 \in S
  <2> SUFFICES ASSUME m + 1 <= n PROVE InOrder(c, f[m + 1], m + 1)
    OBVIOUS
  <2> DEFINE b == f[m]
             e == f[m + 1]
             L == KeysOf(b.lists)
             M == KeysOf(e.lists)
  <2>1. InOrder(c, b, m) /\ e = EvictOldest(b)
    BY <1>1, <1>4
  <2>2. Shed(c, b, m)
    BY RoundsShed
  <2> HIDE DEF b, e
  <2>3. Sound(b) /\ Capped(b) /\ Held(b.data) \subseteq Held(c.data) /\ Held(b.data) # {}
    <3>1. Sound(b) /\ Cardinality(Held(b.data)) + m = Cardinality(Held(c.data))
      BY <2>2 DEF Shed
    <3>2. Cardinality(Held(b.data)) \in Nat
      BY <3>1, FS_CardinalityType DEF Sound
    <3>3. Cardinality(Held(b.data)) # 0
      BY <1>2, <3>1, <3>2
    <3> QED
      BY <2>1, <2>2, <3>1, <3>3, FS_EmptySet DEF Shed, InOrder
  <2>4. PICK x \in Held(b.data) : e = Dropped(b, x) /\ Oldest(b) = x
    BY <2>1, <2>3, EvictOldestFacts
  <2>5. x \in Keys /\ M \in Seq(Keys) /\ L = <<x>> \o M
    BY <2>3, <2>4, KeysBegin, ZenonT(40)
  <2>6. Capped(e)
    BY <2>3, <2>4, DroppedCaps
  <2>7. Held(e.data) = Held(b.data) \ {x}
    <3>1. e.data = Without(b.data, x) /\ IsContents(b.data)
      BY <2>3, <2>4, DroppedFacts DEF Sound, Shaped
    <3> QED
      BY <3>1, HeldFacts
  <2> HIDE DEF K, L, M
  <2>8. /\ Held(c.data) \ Held(b.data) = {K[i] : i \in 1 .. m}
        /\ \A i \in 1 .. Len(L) : K[m + i] = L[i]
    BY <2>1, <2>3 DEF InOrder, K, L
  <2>9. /\ Len(M) \in Nat /\ Len(L) = Len(M) + 1 /\ L[1] = x
        /\ \A i \in 1 .. Len(M) : L[i + 1] = M[i]
    <3>1. <<x>> \in Seq(Keys) /\ Len(<<x>>) = 1
      BY <2>5
    <3> QED
      BY <2>5, <3>1, ConcatProperties
  <2>10. K[m + 1] = x
    BY <2>8, <2>9
  <2>11. Held(c.data) \ Held(e.data) = {K[i] : i \in 1 .. m + 1}
    <3>1. Held(c.data) \ Held(e.data) = (Held(c.data) \ Held(b.data)) \cup {x}
      BY <2>3, <2>7
    <3>2. 1 .. m + 1 = (1 .. m) \cup {m + 1}
      OBVIOUS
    <3>3. {K[i] : i \in (1 .. m) \cup {m + 1}} = {K[i] : i \in 1 .. m} \cup {K[m + 1]}
      OBVIOUS
    <3> QED
      BY <2>8, <2>10, <3>1, <3>2, <3>3
  <2>12. ASSUME NEW i \in 1 .. Len(M) PROVE K[(m + 1) + i] = M[i]
    <3>1. i + 1 \in 1 .. Len(L) /\ m + (i + 1) = (m + 1) + i
      BY <2>9
    <3> QED
      BY <2>8, <2>9, <3>1
  <2> QED
    BY <2>6, <2>11, <2>12 DEF InOrder, K, M, e
<1> HIDE DEF S
<1>5. a \in S
  BY <1>3, <1>4, NatSetInduction
<1> QED
  BY <1>5 DEF S

----------------------------------------------------------------------------
(* The steps *)

\* The contract's view of one operation: what it sees of the cache is the contents.
LEMMA ContractFacts ==
  /\ Contract!Left = {lfu.data} /\ Contract!Empty = Empty
  /\ \A c, k : Contract!Without(c, k) = Without(c, k)
  /\ \A c, n, k, v : Contract!AddOutcomes(c, n, k, v, FALSE) = AddOutcomes(c, n, k, v, FALSE)
  /\ \A c, n : Contract!ResizeOutcomes(c, n) = ResizeOutcomes(c, n)
<1>1. /\ \A c, k : Contract!Without(c, k) = Without(c, k)
      /\ Contract!Empty = Empty /\ Contract!Left = {lfu.data}
  BY DEF Contract!Without, Without, Contract!Empty, Empty, Contract!Left
<1>2. \A c, n, k, v : Contract!AddOutcomes(c, n, k, v, FALSE) = AddOutcomes(c, n, k, v, FALSE)
  BY DEF Contract!AddOutcomes, AddOutcomes, Contract!Held, Held, Contract!Without, Without,
         Contract!Cardinality, Cardinality
<1>3. \A c, n : Contract!ResizeOutcomes(c, n) = ResizeOutcomes(c, n)
  BY DEF Contract!ResizeOutcomes, ResizeOutcomes, Contract!Held, Held, Contract!Keep, Keep,
         Contract!Cardinality, Cardinality
<1> QED
  BY <1>1, <1>2, <1>3

\* What every operation must show: the invariant again, a step of the contract, and the
\* callbacks for what left.
Kept == LFUInv' /\ [Contract!Next]_(Contract!vars)
Told == called' = Entries(lfu, Held(lfu.data) \ Held(lfu'.data))

\* What leaves, if anything, is what oldest named.
FrontGoes ==
  LET left == Held(lfu.data) \ Held(lfu'.data)
  IN  left = {} \/ (Held(lfu.data) # {} /\ left = {Oldest(lfu)})

LEMMA InvFacts ==
  ASSUME LFUInv
  PROVE  /\ Sound(lfu) /\ lfu.evicted = <<>> /\ size \in Nat /\ IsContents(lfu.data)
         /\ IsFiniteSet(Held(lfu.data)) /\ Cardinality(Held(lfu.data)) \in Nat
         /\ Cardinality(Held(lfu.data)) <= size
BY FS_CardinalityType DEF LFUInv, Sound, Shaped

\* An operation that changes nothing but orders and frequencies.
LEMMA SameContents ==
  ASSUME LFUInv, Sound(lfu'), lfu'.data = lfu.data, lfu'.evicted = <<>>,
         size' = size, called' = {}
  PROVE  Kept /\ Told /\ FrontGoes
<1>1. Held(lfu.data) \ Held(lfu'.data) = {}
  OBVIOUS
<1>2. Entries(lfu, {}) = {}
  BY DEF Entries
<1>3. LFUInv'
  BY InvFacts DEF LFUInv
<1>4. UNCHANGED Contract!vars
  BY DEF Contract!vars
<1> QED
  BY <1>1, <1>2, <1>3, <1>4 DEF Kept, Told, FrontGoes

\* Taking out one entry: Remove of a key that is there, and RemoveOldest.
LEMMA OneDropped ==
  ASSUME LFUInv, NEW k \in Held(lfu.data), NEW d, d = Dropped(lfu, k),
         ReportOne(d, TRUE), size' = size
  PROVE  Kept /\ Told /\ Held(lfu.data) \ Held(lfu'.data) = {k}
<1>1. /\ Sound(lfu) /\ lfu.evicted = <<>> /\ size \in Nat /\ IsContents(lfu.data)
      /\ IsFiniteSet(Held(lfu.data)) /\ Cardinality(Held(lfu.data)) \in Nat
      /\ Cardinality(Held(lfu.data)) <= size
  BY InvFacts
<1>2. /\ Sound(d) /\ d.data = Without(lfu.data, k)
      /\ d.evicted = Append(lfu.evicted, <<k, lfu.data[k]>>)
  BY <1>1, DroppedFacts
<1>3. d.evicted[1] = <<k, lfu.data[k]>>
  BY <1>1, <1>2
<1>4. lfu' = [d EXCEPT !.evicted = <<>>] /\ called' = {<<k, lfu.data[k]>>}
  BY <1>3 DEF ReportOne
<1>5. Sound(lfu') /\ lfu'.data = Without(lfu.data, k) /\ lfu'.evicted = <<>>
  BY <1>2, <1>4, ClearedFacts
<1>6. Held(lfu'.data) = Held(lfu.data) \ {k}
  BY <1>1, <1>5, HeldFacts
<1>7. Cardinality(Held(lfu.data) \ {k}) = Cardinality(Held(lfu.data)) - 1
  BY <1>1, FS_RemoveElement
<1>8. LFUInv'
  BY <1>1, <1>5, <1>6, <1>7 DEF LFUInv
<1>9. Told
  <2>1. Held(lfu.data) \ Held(lfu'.data) = {k}
    BY <1>6
  <2>2. Entries(lfu, {k}) = {<<k, lfu.data[k]>>}
    BY DEF Entries
  <2> QED
    BY <1>4, <2>1, <2>2 DEF Told
<1>10. k \in Keys /\ Contract!Remove(k)
  BY <1>5, ContractFacts DEF Contract!Remove, Held
<1> QED
  BY <1>6, <1>8, <1>9, <1>10 DEF Kept, Contract!Next

LEMMA LFUGet ==
  ASSUME LFUInv, NEW k \in Keys, Get(k)
  PROVE  Kept /\ Told
<1>1. /\ Sound(lfu) /\ lfu.evicted = <<>> /\ k \in Held(lfu.data)
      /\ lfu' = UpdateFreq(lfu, k) /\ called' = {} /\ size' = size
  BY InvFacts DEF Get, ReportOne, Held
<1>2. Sound(lfu') /\ lfu'.data = lfu.data /\ lfu'.evicted = lfu.evicted
  BY <1>1, UpdateFreqFacts
<1> QED
  BY <1>1, <1>2, SameContents

LEMMA LFURemove ==
  ASSUME LFUInv, NEW k \in Keys, Remove(k)
  PROVE  Kept /\ Told
<1>1. CASE lfu.data[k] = None
  <2>1. lfu' = lfu /\ called' = {} /\ size' = size
    BY <1>1 DEF Remove, ReportOne
  <2> QED
    BY <2>1, InvFacts, SameContents
<1>2. CASE lfu.data[k] # None
  <2>1. k \in Held(lfu.data) /\ ReportOne(Dropped(lfu, k), TRUE) /\ size' = size
    BY <1>2 DEF Remove, Held
  <2> QED
    BY <2>1, OneDropped
<1> QED
  BY <1>1, <1>2

LEMMA LFURemoveOldest ==
  ASSUME LFUInv, RemoveOldest
  PROVE  Kept /\ Told /\ FrontGoes
<1>1. Sound(lfu) /\ size' = size
  BY InvFacts DEF RemoveOldest
<1>2. CASE Held(lfu.data) = {}
  <2>1. Oldest(lfu) = None
    BY <1>1, <1>2, OldestFacts
  <2>2. lfu' = lfu /\ called' = {}
    BY <2>1 DEF RemoveOldest, ReportOne, EvictOldest
  <2> QED
    BY <1>1, <2>2, InvFacts, SameContents
<1>3. CASE Held(lfu.data) # {}
  <2>1. PICK x \in Held(lfu.data) :
          EvictOldest(lfu) = Dropped(lfu, x) /\ Oldest(lfu) = x /\ x # None
    BY <1>1, <1>3, EvictOldestFacts
  <2>2. ReportOne(Dropped(lfu, x), TRUE)
    BY <2>1 DEF RemoveOldest
  <2> QED
    BY <1>1, <2>1, <2>2, OneDropped DEF FrontGoes
<1> QED
  BY <1>2, <1>3

LEMMA LFUPurge ==
  ASSUME LFUInv, Purge
  PROVE  Kept /\ Told
<1>1. /\ lfu' = [data |-> Empty, freq |-> [k \in Keys |-> 0], lists |-> <<>>,
                 minFreq |-> 0, evicted |-> <<>>]
      /\ size' = size /\ size \in Nat
      /\ called' = {<<k, lfu.data[k]>> : k \in Held(lfu.data)}
  BY InvFacts DEF Purge
<1>2. /\ Sound(lfu') /\ lfu'.data = Empty /\ lfu'.evicted = <<>>
      /\ Held(lfu'.data) = {} /\ Cardinality(Held(lfu'.data)) = 0
  BY <1>1, EmptyCache
<1>3. LFUInv'
  BY <1>1, <1>2 DEF LFUInv
<1>4. Told
  <2>1. Held(lfu.data) \ Held(lfu'.data) = Held(lfu.data)
    BY <1>2
  <2>2. called' = Entries(lfu, Held(lfu.data))
    BY <1>1 DEF Entries
  <2> QED
    BY <2>1, <2>2 DEF Told
<1>5. Contract!Purge
  BY <1>1, <1>2, ContractFacts DEF Contract!Purge
<1> QED
  BY <1>3, <1>4, <1>5 DEF Kept, Contract!Next

LEMMA LFUResize ==
  ASSUME LFUInv, NEW n \in Sizes, Resize(n)
  PROVE  Kept /\ Told
<1> DEFINE H == Held(lfu.data)
           over == IF Cardinality(H) - n < 0 THEN 0 ELSE Cardinality(H) - n
           d == EvictMany(lfu, over)
<1>1. /\ Sound(lfu) /\ lfu.evicted = <<>> /\ IsContents(lfu.data)
      /\ IsFiniteSet(H) /\ Cardinality(H) \in Nat /\ n \in Nat
  BY InvFacts, ParamsAssumption
<1>2. size' = n /\ lfu' = [d EXCEPT !.evicted = <<>>] /\ called' = Buffered(d)
  BY DEF Resize, ReportAll, Buffered
<1>3. over \in Nat /\ over <= Cardinality(H)
  BY <1>1
<1>4. Shed(lfu, d, over)
  BY <1>1, <1>3, EvictManySheds
<1> HIDE DEF d
<1>5. Sound(lfu') /\ lfu'.data = d.data /\ lfu'.evicted = <<>>
  BY <1>2, <1>4, ClearedFacts DEF Shed
<1> DEFINE B == Held(lfu'.data)
<1>6. /\ Cardinality(B) + over = Cardinality(H) /\ B \subseteq H
      /\ lfu'.data = Keep(lfu.data, B) /\ Buffered(d) = Entries(lfu, H \ B)
  BY <1>4, <1>5 DEF Shed
<1>7. Cardinality(B) \in Nat
  BY <1>1, <1>6, FS_Subset, FS_CardinalityType
<1>8. Told
  BY <1>2, <1>6 DEF Told
<1> HIDE DEF B, H
<1>9. Cardinality(B) = IF Cardinality(H) > n THEN n ELSE Cardinality(H)
  BY <1>1, <1>6, <1>7
<1>10. LFUInv'
  <2>1. Cardinality(B) <= n
    BY <1>1, <1>9
  <2> QED
    BY <1>1, <1>2, <1>5, <2>1 DEF LFUInv, B
<1>11. lfu'.data \in ResizeOutcomes(lfu.data, n)
  <2>1. CASE Cardinality(H) <= n
    <3>1. B = H
      <4>1. Cardinality(B) = Cardinality(H) /\ B \in SUBSET H
        BY <1>1, <1>6, <1>9, <2>1
      <4> QED
        BY <1>1, <4>1, FS_Subset
    <3>2. lfu'.data = lfu.data
      BY <1>1, <1>6, <3>1 DEF Keep, IsContents, Held, H
    <3> QED
      BY <2>1, <3>2 DEF ResizeOutcomes, H
  <2>2. CASE ~(Cardinality(H) <= n)
    <3>1. Cardinality(B) = n /\ B \in SUBSET H
      BY <1>1, <1>6, <1>9, <2>2
    <3> QED
      BY <1>6, <2>2, <3>1 DEF ResizeOutcomes, H
  <2> QED
    BY <2>1, <2>2
<1>12. Contract!Resize(n)
  BY <1>2, <1>11, ContractFacts DEF Contract!Resize
<1> QED
  BY <1>8, <1>10, <1>12 DEF Kept, Contract!Next

\* Add of a key that is not there, after room has been made.
LEMMA LFUInsert ==
  ASSUME LFUInv, NEW k \in Keys, NEW v \in Values, Add(k, v), size > 0, lfu.data[k] = None
  PROVE  Kept /\ Told /\ FrontGoes
<1> DEFINE H == Held(lfu.data)
           with == [lfu.data EXCEPT ![k] = v]
           full == Cardinality(H) > 0 /\ Cardinality(H) >= size /\ Oldest(lfu) # None
           room == IF full THEN EvictOldest(lfu) ELSE lfu
           d == Inserted(room, k, v)
<1>1. /\ Sound(lfu) /\ lfu.evicted = <<>> /\ size \in Nat /\ IsContents(lfu.data)
      /\ IsFiniteSet(H) /\ Cardinality(H) \in Nat /\ Cardinality(H) <= size
      /\ v # None /\ size' = size /\ k \notin H
  BY InvFacts, ParamsAssumption DEF Add, Held
<1>2. ReportOne(d, full)
  <2>1. ~(size <= 0)
    BY <1>1
  <2> QED
    BY <2>1, Zenon DEF Add
<1>3. ASSUME lfu'.data \in AddOutcomes(lfu.data, size, k, v, FALSE)
      PROVE  [Contract!Next]_(Contract!vars)
  <2>1. Contract!Add(k, v)
    BY <1>1, <1>3, ContractFacts DEF Contract!Add
  <2> QED
    BY <2>1 DEF Contract!Next
<1>4. /\ IsContents(with) /\ Held(with) = H \cup {k}
  BY <1>1 DEF IsContents, Held
<1> HIDE DEF d
<1>5. CASE Cardinality(H) < size
  <2>1. ~full
    BY <1>1, <1>5
  <2>2. d = Inserted(lfu, k, v) /\ lfu' = d /\ called' = {}
    BY <1>2, <2>1 DEF d, ReportOne
  <2>3. Sound(lfu') /\ lfu'.data = with /\ lfu'.evicted = <<>>
    BY <1>1, <2>2, InsertedFacts
  <2>4. Cardinality(Held(lfu'.data)) <= size
    <3>1. Cardinality(H \cup {k}) = Cardinality(H) + 1
      BY <1>1, FS_AddElement
    <3>2. Held(lfu'.data) = H \cup {k}
      BY <1>4, <2>3
    <3> HIDE DEF H
    <3> QED
      BY <1>1, <1>5, <3>1, <3>2
  <2>5. LFUInv'
    BY <1>1, <2>3, <2>4 DEF LFUInv
  <2>6. Told /\ FrontGoes
    <3>1. H \ Held(lfu'.data) = {}
      BY <1>4, <2>3
    <3> QED
      BY <2>2, <3>1 DEF Told, Entries, FrontGoes
  <2>7. lfu'.data \in AddOutcomes(lfu.data, size, k, v, FALSE)
    BY <1>5, <2>3 DEF AddOutcomes
  <2> QED
    BY <1>3, <2>5, <2>6, <2>7 DEF Kept
<1>6. CASE ~(Cardinality(H) < size)
  <2>1. Cardinality(H) = size /\ Cardinality(H) > 0
    BY <1>1, <1>6
  <2>2. H # {}
    BY <2>1, FS_EmptySet
  <2>3. PICK x \in H : EvictOldest(lfu) = Dropped(lfu, x) /\ Oldest(lfu) = x /\ x # None
    BY <1>1, <2>2, EvictOldestFacts
  <2>4. full
    BY <1>1, <2>1, <2>3
  <2> DEFINE r == Dropped(lfu, x)
  <2>5. d = Inserted(r, k, v) /\ lfu' = [d EXCEPT !.evicted = <<>>] /\ called' = {d.evicted[1]}
    BY <1>2, <2>3, <2>4 DEF d, ReportOne
  <2>6. /\ Sound(r) /\ r.data = Without(lfu.data, x)
        /\ r.evicted = Append(lfu.evicted, <<x, lfu.data[x]>>)
    BY <1>1, DroppedFacts
  <2> HIDE DEF r
  <2>7. r.data[k] = None /\ r.evicted[1] = <<x, lfu.data[x]>>
    BY <1>1, <2>6 DEF Without, IsContents
  <2>8. Sound(d) /\ d.data = [r.data EXCEPT ![k] = v] /\ d.evicted = r.evicted
    BY <1>1, <2>5, <2>6, <2>7, InsertedFacts
  <2>9. Sound(lfu') /\ lfu'.data = d.data /\ lfu'.evicted = <<>>
    BY <2>5, <2>8, ClearedFacts
  <2>10. x # k
    BY <1>1
  <2>11. lfu'.data = Without(with, x)
    <3>1. lfu'.data = [[lfu.data EXCEPT ![x] = None] EXCEPT ![k] = v]
      BY <2>6, <2>8, <2>9 DEF Without
    <3>2. Without(with, x) = [[lfu.data EXCEPT ![k] = v] EXCEPT ![x] = None]
      BY DEF Without
    <3> QED
      BY <1>1, <2>10, <3>1, <3>2 DEF IsContents
  <2>12. Held(lfu'.data) = (H \cup {k}) \ {x}
    BY <1>4, <2>11, HeldFacts
  <2> HIDE DEF H
  <2>13. Cardinality((H \cup {k}) \ {x}) = Cardinality(H)
    <3> DEFINE J == H \cup {k}
    <3>1. IsFiniteSet(J) /\ Cardinality(J) = Cardinality(H) + 1 /\ x \in J
      BY <1>1, FS_AddElement
    <3> HIDE DEF J
    <3>2. Cardinality(J \ {x}) = Cardinality(J) - 1
      BY <3>1, FS_RemoveElement
    <3> QED
      BY <1>1, <3>1, <3>2 DEF J
  <2>14. LFUInv'
    BY <1>1, <2>9, <2>12, <2>13 DEF LFUInv
  <2>15. Told /\ FrontGoes
    <3>1. H \ Held(lfu'.data) = {x}
      BY <1>1, <2>12
    <3>2. Entries(lfu, {x}) = {<<x, lfu.data[x]>>}
      BY DEF Entries
    <3> QED
      BY <2>2, <2>3, <2>5, <2>7, <2>8, <3>1, <3>2 DEF Told, H, FrontGoes
  <2>16. lfu'.data \in AddOutcomes(lfu.data, size, k, v, FALSE)
    <3>1. AddOutcomes(lfu.data, size, k, v, FALSE) = {Without(with, y) : y \in H}
      BY <1>1, <1>6 DEF AddOutcomes, H
    <3> QED
      BY <2>11, <3>1
  <2> QED
    BY <1>3, <2>14, <2>15, <2>16 DEF Kept
<1> QED
  BY <1>5, <1>6

LEMMA LFUAdd ==
  ASSUME LFUInv, NEW k \in Keys, NEW v \in Values, Add(k, v)
  PROVE  Kept /\ Told /\ FrontGoes
<1>1. /\ Sound(lfu) /\ lfu.evicted = <<>> /\ size \in Nat /\ IsContents(lfu.data)
      /\ Cardinality(Held(lfu.data)) <= size /\ v # None /\ size' = size
  BY InvFacts, ParamsAssumption DEF Add
<1>2. CASE size <= 0
  <2>1. lfu' = lfu /\ called' = {}
    BY <1>1, <1>2 DEF Add, ReportOne
  <2> QED
    BY <1>1, <2>1, SameContents
<1>3. CASE size > 0 /\ lfu.data[k] # None
  <2> DEFINE c == [lfu EXCEPT !.data[k] = v]
  <2>0. Overwritten(c, lfu, k, v)
    BY DEF Overwritten
  <2>1. k \in Held(lfu.data) /\ lfu' = UpdateFreq(c, k) /\ called' = {}
    BY <1>1, <1>3 DEF Add, ReportOne, Held
  <2> HIDE DEF c
  <2>2. /\ Sound(c) /\ c.data = [lfu.data EXCEPT ![k] = v] /\ c.evicted = <<>>
        /\ Held(c.data) = Held(lfu.data)
    BY <1>1, <2>0, <2>1, StoredFacts
  <2>3. Sound(lfu') /\ lfu'.data = c.data /\ lfu'.evicted = c.evicted
    BY <2>1, <2>2, UpdateFreqFacts
  <2>4. LFUInv'
    BY <1>1, <2>2, <2>3 DEF LFUInv
  <2>5. Told /\ FrontGoes
    <3>1. Held(lfu.data) \ Held(lfu'.data) = {}
      BY <2>2, <2>3
    <3> QED
      BY <2>1, <3>1 DEF Told, Entries, FrontGoes
  <2>6. Contract!Add(k, v)
    <3>1. lfu'.data \in AddOutcomes(lfu.data, size, k, v, FALSE)
      BY <2>1, <2>2, <2>3 DEF AddOutcomes
    <3> QED
      BY <1>1, <3>1, ContractFacts DEF Contract!Add
  <2> QED
    BY <2>4, <2>5, <2>6 DEF Kept, Contract!Next
<1>4. CASE size > 0 /\ lfu.data[k] = None
  BY <1>4, LFUInsert
<1> QED
  BY <1>1, <1>2, <1>3, <1>4

LEMMA LFUInit == Init => LFUInv /\ Contract!Init
<1> SUFFICES ASSUME Init PROVE LFUInv /\ Contract!Init
  OBVIOUS
<1>1. /\ Sound(lfu) /\ lfu.data = Empty /\ lfu.evicted = <<>>
      /\ Cardinality(Held(lfu.data)) = 0
  BY EmptyCache DEF Init
<1>2. size \in Nat \ {0}
  BY ParamsAssumption DEF Init
<1> QED
  BY <1>1, <1>2, ContractFacts DEF LFUInv, Contract!Init

\* Every operation keeps the invariant, is a step of the contract and reports what left.
LEMMA LFUStep == LFUInv /\ Next => Kept /\ Told
<1> SUFFICES ASSUME LFUInv, Next PROVE Kept /\ Told
  OBVIOUS
<1>1. ASSUME NEW k \in Keys, NEW v \in Values, Add(k, v) \/ AddIfAbsent(k, v)
      PROVE  Kept /\ Told
  BY <1>1, LFUAdd DEF AddIfAbsent
<1>2. ASSUME NEW k \in Keys, Get(k) \/ Remove(k) PROVE Kept /\ Told
  BY <1>2, LFUGet, LFURemove
<1>3. CASE RemoveOldest
  BY <1>3, LFURemoveOldest
<1>4. CASE Purge
  BY <1>4, LFUPurge
<1>5. ASSUME NEW n \in Sizes, Resize(n) PROVE Kept /\ Told
  BY <1>5, LFUResize
<1> QED
  BY <1>1, <1>2, <1>3, <1>4, <1>5 DEF Next

LEMMA LFUHolds == Spec => []LFUInv
<1>1. LFUInv /\ UNCHANGED vars => LFUInv'
  BY DEF LFUInv, vars
<1>2. LFUInv /\ [Next]_vars => LFUInv'
  BY <1>1, LFUStep DEF Kept
<1> QED
  BY <1>2, LFUInit, PTL DEF Spec

----------------------------------------------------------------------------
(* The theorems *)

\* The buckets of simplelfu describe the entries: every entry is in the bucket of its
\* frequency, once, no bucket is empty, and minFreq is the least of them, so that
\* evictOldest always finds the entry to take.
THEOREM BucketsStayMatched == Spec => []BucketsMatchEntries
<1>1. LFUInv => BucketsMatchEntries
  <2> SUFFICES ASSUME LFUInv PROVE BucketsMatchEntries
    OBVIOUS
  <2> DEFINE H == Held(lfu.data)
  <2>1. /\ Linked(lfu.lists, lfu.freq, H) /\ DOMAIN lfu.lists \in SUBSET Nat
        /\ \A k \in Keys : lfu.data[k] = None <=> lfu.freq[k] = 0
        /\ H # {} => IsLeast(lfu.minFreq, DOMAIN lfu.lists)
    BY DEF LFUInv, Sound, Linked
  <2> HIDE DEF H
  <2>2. ASSUME NEW f \in DOMAIN lfu.lists
        PROVE  LET s == lfu.lists[f]
               IN  /\ s # <<>> /\ \A i \in DOMAIN s : lfu.freq[s[i]] = f
                   /\ \A i, j \in DOMAIN s : s[i] = s[j] => i = j
    <3> DEFINE s == lfu.lists[f]
    <3>1. /\ s \in Seq(Keys) /\ Once(s) /\ In(s) = {k \in H : lfu.freq[k] = f}
          /\ \E k \in H : lfu.freq[k] = f
      BY <2>1 DEF Linked
    <3> HIDE DEF s
    <3>2. DOMAIN s = 1 .. Len(s)
      BY <3>1
    <3>3. s # <<>>
      BY <3>1 DEF In
    <3>4. \A i \in DOMAIN s : s[i] \in In(s)
      BY <3>2 DEF In
    <3>5. \A i, j \in DOMAIN s : s[i] = s[j] => i = j
      BY <3>1, <3>2 DEF Once
    <3> QED
      BY <3>1, <3>3, <3>4, <3>5 DEF s
  <2>3. ASSUME NEW k \in H
        PROVE  /\ lfu.freq[k] \in DOMAIN lfu.lists
               /\ \E i \in DOMAIN lfu.lists[lfu.freq[k]] : lfu.lists[lfu.freq[k]][i] = k
    <3> DEFINE s == lfu.lists[lfu.freq[k]]
    <3>1. lfu.freq[k] \in DOMAIN lfu.lists /\ s \in Seq(Keys) /\ k \in In(s)
      BY <2>1 DEF Linked
    <3> HIDE DEF s
    <3>2. \E i \in DOMAIN s : s[i] = k
      BY <3>1 DEF In
    <3> QED
      BY <3>1, <3>2 DEF s
  <2>4. 0 \notin DOMAIN lfu.lists
    BY <2>1 DEF Linked
  <2>5. H # {} => lfu.minFreq = LeastOf(DOMAIN lfu.lists)
    BY <2>1, LeastFacts DEF IsLeast
  <2> QED
    BY <2>1, <2>2, <2>3, <2>4, <2>5 DEF BucketsMatchEntries, H
<1> QED
  BY <1>1, LFUHolds, PTL

\* The wrapper's callbacks are exact: what leaves in an operation is what that operation
\* reports, with its last value, and evictedKeys is empty again when it returns.
THEOREM CallbacksAreExact == Spec => ReportsWhatLeft
<1>1. LFUInv /\ [Next]_vars =>
        [/\ called' = {<<k, lfu.data[k]>> : k \in Held(lfu.data) \ Held(lfu'.data)}
         /\ lfu'.evicted = <<>>]_vars
  BY LFUStep DEF Told, Kept, LFUInv, Entries
<1> QED
  BY <1>1, LFUHolds, PTL DEF Spec, ReportsWhatLeft

\* The LFU implements the contract of an eviction policy, whatever the keys and capacities.
THEOREM LFURefinesContract == Spec => LFUIsAPolicy
<1>1. LFUInv /\ [Next]_vars => [Contract!Next]_(Contract!vars)
  <2>1. CASE UNCHANGED vars
    BY <2>1 DEF vars, Contract!vars
  <2> QED
    BY <2>1, LFUStep DEF Kept
<1> QED
  BY <1>1, LFUInit, LFUHolds, PTL DEF Spec, LFUIsAPolicy, Contract!Spec

----------------------------------------------------------------------------
(* Evictions follow Keys() *)

\* No operation counts past the bound.
LEMMA UpdateFreqCaps ==
  ASSUME NEW c, Sound(c), Capped(c), NEW k \in Held(c.data), c.freq[k] < MaxFreq,
         NEW d, d = UpdateFreq(c, k)
  PROVE  Capped(d)
<1>1. d.freq = [c.freq EXCEPT ![k] = c.freq[k] + 1] /\ c.freq \in [Keys -> Nat]
  BY DEF UpdateFreq, Sound, Shaped
<1>2. \A h \in Keys : d.freq[h] = IF h = k THEN c.freq[k] + 1 ELSE c.freq[h]
  BY <1>1
<1>3. c.freq[k] + 1 <= MaxFreq
  BY <1>1, FreqAssumption DEF Held
<1> QED
  BY <1>2, <1>3 DEF Capped

LEMMA InsertedCaps ==
  ASSUME NEW c, Sound(c), Capped(c), NEW k \in Keys, 0 < MaxFreq, NEW v,
         NEW d, d = Inserted(c, k, v)
  PROVE  Capped(d)
<1>1. d.freq = [c.freq EXCEPT ![k] = 1] /\ c.freq \in [Keys -> Nat]
  BY DEF Inserted, Sound, Shaped
<1>2. \A h \in Keys : d.freq[h] = IF h = k THEN 1 ELSE c.freq[h]
  BY <1>1
<1> QED
  BY <1>2, FreqAssumption DEF Capped

\* Capped looks at the frequencies only.
LEMMA SameCaps ==
  ASSUME NEW c, Capped(c), NEW d, d.freq = c.freq
  PROVE  Capped(d)
BY DEF Capped

LEMMA ReportedCaps ==
  ASSUME NEW c, Sound(c), Capped(c), lfu' = c \/ lfu' = [c EXCEPT !.evicted = <<>>]
  PROVE  Capped(lfu')
<1>1. [c EXCEPT !.evicted = <<>>].freq = c.freq
  BY DEF Sound, Shaped
<1>2. lfu'.freq = c.freq
  BY <1>1
<1> QED
  BY <1>2 DEF Capped

LEMMA EvictManyInOrder ==
  ASSUME NEW c, Sound(c), Capped(c), c.evicted = <<>>,
         NEW n \in Nat, n <= Cardinality(Held(c.data)), NEW z, z = EvictMany(c, n)
  PROVE  InOrder(c, z, n)
BY EvictManyRounds, RoundsInOrder

LEMMA AddCaps ==
  ASSUME LFUInv, Capped(lfu), NEW k \in Keys, NEW v \in Values, Add(k, v)
  PROVE  Capped(lfu')
<1>1. /\ Sound(lfu) /\ size \in Nat /\ v # None /\ lfu.freq[k] \in Nat /\ lfu.freq[k] < MaxFreq
  BY InvFacts, ParamsAssumption DEF Add, Sound, Shaped
<1>2. 0 < MaxFreq
  BY <1>1, FreqAssumption
<1>3. CASE size <= 0
  <2>1. lfu' = lfu
    BY <1>1, <1>3 DEF Add, ReportOne
  <2> QED
    BY <2>1
<1>4. CASE size > 0 /\ lfu.data[k] # None
  <2> DEFINE c == [lfu EXCEPT !.data[k] = v]
  <2>1. k \in Held(lfu.data) /\ lfu' = UpdateFreq(c, k)
    BY <1>1, <1>4 DEF Add, ReportOne, Held
  <2>2. c.freq = lfu.freq
    BY <1>1 DEF Sound, Shaped
  <2>3. Overwritten(c, lfu, k, v)
    BY DEF Overwritten
  <2> HIDE DEF c
  <2>4. Sound(c) /\ Held(c.data) = Held(lfu.data)
    <3>1. Sound(lfu) /\ v # None /\ k \in Held(lfu.data)
      BY <1>1, <2>1
    <3>2. /\ Sound(c) /\ c.data = [lfu.data EXCEPT ![k] = v] /\ c.evicted = lfu.evicted
          /\ Held(c.data) = Held(lfu.data)
      BY <2>3, <3>1, StoredFacts
    <3> QED
      BY <3>2
  <2>5. Capped(c) /\ c.freq[k] < MaxFreq /\ k \in Held(c.data)
    BY <1>1, <2>1, <2>2, <2>4 DEF Capped
  <2> QED
    BY <2>1, <2>4, <2>5, UpdateFreqCaps
<1>5. CASE size > 0 /\ lfu.data[k] = None
  <2> DEFINE held == Cardinality(Held(lfu.data))
             full == held > 0 /\ held >= size /\ Oldest(lfu) # None
             room == IF full THEN EvictOldest(lfu) ELSE lfu
             d == Inserted(room, k, v)
  <2>1. ReportOne(d, full)
    <3>1. ~(size <= 0)
      BY <1>1, <1>5
    <3> QED
      BY <1>5, <3>1, Zenon DEF Add
  <2> HIDE DEF full
  <2>2. Sound(room) /\ Capped(room) /\ room.data[k] = None
    <3>1. CASE Held(lfu.data) = {}
      <4>1. Oldest(lfu) = None
        BY <1>1, <3>1, OldestFacts
      <4>2. room = lfu
        BY <4>1 DEF full
      <4> QED
        BY <1>1, <1>5, <4>2
    <3>2. CASE Held(lfu.data) # {}
      <4>1. PICK x \in Held(lfu.data) : EvictOldest(lfu) = Dropped(lfu, x)
        BY <1>1, <3>2, EvictOldestFacts
      <4> DEFINE e == Dropped(lfu, x)
      <4>2. Sound(e) /\ Capped(e) /\ e.data = Without(lfu.data, x)
        BY <1>1, DroppedFacts, DroppedCaps
      <4> HIDE DEF e
      <4>3. e.data[k] = None
        BY <1>5, <4>2, InvFacts DEF Without, IsContents
      <4>4. room = e \/ room = lfu
        BY <4>1 DEF e
      <4> HIDE DEF room
      <4> QED
        BY <1>1, <1>5, <4>2, <4>3, <4>4
    <3> QED
      BY <3>1, <3>2
  <2> HIDE DEF room
  <2>3. Sound(d) /\ Capped(d)
    BY <1>1, <1>2, <2>2, InsertedFacts, InsertedCaps
  <2> HIDE DEF d
  <2>4. lfu' = d \/ lfu' = [d EXCEPT !.evicted = <<>>]
    BY <2>1 DEF ReportOne
  <2> QED
    BY <2>3, <2>4, ReportedCaps
<1> QED
  BY <1>1, <1>3, <1>4, <1>5

\* What Resize evicts is a beginning of Keys().
LEMMA ResizeInOrder ==
  ASSUME LFUInv, Capped(lfu), NEW n \in Sizes, Resize(n)
  PROVE  /\ Capped(lfu')
         /\ LET left == Held(lfu.data) \ Held(lfu'.data)
            IN  left = {KeysResult[i] : i \in 1 .. Cardinality(left)}
<1> DEFINE H == Held(lfu.data)
           over == IF Cardinality(H) - n < 0 THEN 0 ELSE Cardinality(H) - n
           d == EvictMany(lfu, over)
           left == H \ Held(lfu'.data)
<1>1. /\ Sound(lfu) /\ lfu.evicted = <<>> /\ IsFiniteSet(H) /\ Cardinality(H) \in Nat
      /\ n \in Nat
  BY InvFacts, ParamsAssumption
<1>2. lfu' = [d EXCEPT !.evicted = <<>>]
  BY DEF Resize, ReportAll
<1>3. over \in Nat /\ over <= Cardinality(H)
  BY <1>1
<1> HIDE DEF over
<1>4. Shed(lfu, d, over) /\ InOrder(lfu, d, over)
  BY <1>1, <1>3, EvictManySheds, EvictManyInOrder
<1> HIDE DEF d
<1>5. Sound(d) /\ Capped(d)
  BY <1>4 DEF Shed, InOrder
<1>6. Capped(lfu') /\ lfu'.data = d.data
  BY <1>2, <1>5, ReportedCaps, ClearedFacts
<1>7. left = {KeysResult[i] : i \in 1 .. over}
  BY <1>4, <1>6, KeysResultIs DEF InOrder
<1>8. Cardinality(left) = over
  <2> DEFINE B == Held(d.data)
  <2>1. B \subseteq H /\ Cardinality(B) + over = Cardinality(H) /\ left = H \ B
    BY <1>4, <1>6 DEF Shed
  <2>2. H \cap B = B
    BY <2>1
  <2> HIDE DEF H, B, left
  <2>3. Cardinality(B) \in Nat
    BY <1>1, <2>1, FS_Subset, FS_CardinalityType
  <2>4. Cardinality(H \ B) = Cardinality(H) - Cardinality(H \cap B)
    BY <1>1, FS_Difference
  <2>5. Cardinality(left) = Cardinality(H) - Cardinality(B)
    BY <2>1, <2>2, <2>4
  <2>6. Cardinality(B) + over = Cardinality(H)
    BY <2>1
  <2> QED
    BY <1>1, <1>3, <2>3, <2>5, <2>6
<1> QED
  BY <1>6, <1>7, <1>8

\* What oldest names is the beginning of Keys().
LEMMA FrontInOrder ==
  ASSUME LFUInv, Capped(lfu), FrontGoes
  PROVE  LET left == Held(lfu.data) \ Held(lfu'.data)
         IN  left = {KeysResult[i] : i \in 1 .. Cardinality(left)}
<1> DEFINE left == Held(lfu.data) \ Held(lfu'.data)
<1>1. CASE left = {}
  <2>1. Cardinality(left) = 0
    BY <1>1, FS_EmptySet
  <2> QED
    BY <1>1, <2>1
<1>2. CASE Held(lfu.data) # {} /\ left = {Oldest(lfu)}
  <2> DEFINE x == Oldest(lfu)
             e == Dropped(lfu, x)
             M == KeysOf(e.lists)
  <2>1. Cardinality(left) = 1
    BY <1>2, FS_Singleton
  <2>2. x \in Keys /\ M \in Seq(Keys) /\ KeysOf(lfu.lists) = <<x>> \o M
    BY <1>2, InvFacts, KeysBegin, ZenonT(40)
  <2> HIDE DEF x, M
  <2>3. (<<x>> \o M)[1] = x
    <3>1. <<x>> \in Seq(Keys) /\ Len(<<x>>) = 1 /\ Len(M) \in Nat
      BY <2>2
    <3> QED
      BY <2>2, <3>1, ConcatProperties
  <2>4. KeysResult[1] = x
    BY <2>2, <2>3, KeysResultIs
  <2>5. 1 .. 1 = {1}
    OBVIOUS
  <2> QED
    BY <1>2, <2>1, <2>4, <2>5 DEF x
<1> QED
  BY <1>1, <1>2 DEF FrontGoes

LEMMA CapsStep ==
  ASSUME LFUInv, Capped(lfu), Next
  PROVE  Capped(lfu')
<1>1. Sound(lfu)
  BY InvFacts
<1>2. ASSUME NEW k \in Keys, NEW v \in Values, Add(k, v) \/ AddIfAbsent(k, v)
      PROVE  Capped(lfu')
  BY <1>2, AddCaps DEF AddIfAbsent
<1>3. ASSUME NEW k \in Keys, Get(k) PROVE Capped(lfu')
  <2>1. k \in Held(lfu.data) /\ lfu' = UpdateFreq(lfu, k) /\ lfu.freq[k] < MaxFreq
    BY <1>3 DEF Get, ReportOne, Held
  <2> QED
    BY <1>1, <2>1, UpdateFreqCaps
<1>4. ASSUME NEW k \in Held(lfu.data), NEW h, ReportOne(Dropped(lfu, k), h)
      PROVE  Capped(lfu')
  <2> DEFINE d == Dropped(lfu, k)
  <2>1. Sound(d) /\ Capped(d)
    BY <1>1, DroppedFacts, DroppedCaps
  <2>2. lfu' = d \/ lfu' = [d EXCEPT !.evicted = <<>>]
    BY <1>4 DEF ReportOne
  <2> HIDE DEF d
  <2> QED
    BY <2>1, <2>2, ReportedCaps
<1>5. ASSUME NEW h, ReportOne(lfu, h) PROVE Capped(lfu')
  BY <1>1, <1>5, ReportedCaps DEF ReportOne
<1>6. ASSUME NEW k \in Keys, Remove(k) PROVE Capped(lfu')
  <2>1. CASE lfu.data[k] # None
    <3>1. k \in Held(lfu.data) /\ ReportOne(Dropped(lfu, k), TRUE)
      BY <1>6, <2>1 DEF Remove, Held
    <3> QED
      BY <1>4, <3>1
  <2>2. CASE lfu.data[k] = None
    <3>1. ReportOne(lfu, FALSE)
      BY <1>6, <2>2 DEF Remove
    <3> QED
      BY <1>5, <3>1
  <2> QED
    BY <2>1, <2>2
<1>7. CASE RemoveOldest
  <2>1. CASE Held(lfu.data) = {}
    <3>1. Oldest(lfu) = None
      BY <1>1, <2>1, OldestFacts
    <3>2. ReportOne(lfu, FALSE)
      BY <1>7, <3>1 DEF RemoveOldest, EvictOldest
    <3> QED
      BY <1>5, <3>2
  <2>2. CASE Held(lfu.data) # {}
    <3>1. PICK x \in Held(lfu.data) : EvictOldest(lfu) = Dropped(lfu, x) /\ Oldest(lfu) # None
      BY <1>1, <2>2, EvictOldestFacts
    <3>2. ReportOne(Dropped(lfu, x), TRUE)
      BY <1>7, <3>1 DEF RemoveOldest
    <3> QED
      BY <1>4, <3>2
  <2> QED
    BY <2>1, <2>2
<1>8. CASE Purge
  <2>1. lfu'.freq = [k \in Keys |-> 0]
    BY <1>8 DEF Purge
  <2> QED
    BY <2>1, FreqAssumption DEF Capped
<1>9. ASSUME NEW n \in Sizes, Resize(n) PROVE Capped(lfu')
  BY <1>9, ResizeInOrder
<1> QED
  BY <1>2, <1>3, <1>6, <1>7, <1>8, <1>9 DEF Next

LEMMA CapsHold == Spec => []Capped(lfu)
<1>1. Init => Capped(lfu)
  <2> SUFFICES ASSUME Init PROVE Capped(lfu)
    OBVIOUS
  <2>1. lfu.freq = [k \in Keys |-> 0]
    BY DEF Init
  <2> QED
    BY <2>1, FreqAssumption DEF Capped
<1>2. LFUInv /\ Capped(lfu) /\ [Next]_vars => Capped(lfu)'
  BY CapsStep DEF vars, Capped
<1> QED
  BY <1>1, <1>2, LFUHolds, PTL DEF Spec

\* Keys() is the order of evictions: what Add, RemoveOldest and Resize evict, however many
\* entries that is, is a beginning of what Keys() listed before.
THEOREM KeysOrderIsKept == Spec => EvictsInKeysOrder
<1>1. LFUInv /\ Capped(lfu) /\ [Next]_vars =>
        [\/ RemoveOldest \/ (\E n \in Sizes : Resize(n))
         \/ (\E k \in Keys, v \in Values : Add(k, v))
         => LET left == Held(lfu.data) \ Held(lfu'.data)
            IN  left = {KeysResult[i] : i \in 1 .. Cardinality(left)}]_vars
  <2> DEFINE left == Held(lfu.data) \ Held(lfu'.data)
             Ordered == left = {KeysResult[i] : i \in 1 .. Cardinality(left)}
  <2> SUFFICES ASSUME LFUInv, Capped(lfu),
                      \/ RemoveOldest \/ (\E n \in Sizes : Resize(n))
                      \/ (\E k \in Keys, v \in Values : Add(k, v))
               PROVE  Ordered
    OBVIOUS
  <2>1. CASE RemoveOldest
    BY <2>1, LFURemoveOldest, FrontInOrder
  <2>2. ASSUME NEW n \in Sizes, Resize(n) PROVE Ordered
    BY <2>2, ResizeInOrder
  <2>3. ASSUME NEW k \in Keys, NEW v \in Values, Add(k, v) PROVE Ordered
    BY <2>3, LFUAdd, FrontInOrder
  <2> HIDE DEF Ordered
  <2> QED
    BY <2>1, <2>2, <2>3
<1> QED
  BY <1>1, LFUHolds, CapsHold, PTL DEF Spec, EvictsInKeysOrder

=============================================================================
