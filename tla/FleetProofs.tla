----------------------------- MODULE FleetProofs -----------------------------
(***************************************************************************)
(* Machine-checked proofs about Fleet, for every number of replicas, every *)
(* length of bucket, window, jitter and timeout that validate accepts, and *)
(* every number of faults.                                                 *)
(***************************************************************************)
EXTENDS Fleet, FiniteSetTheorems, TLAPS

----------------------------------------------------------------------------
(* Induction *)

\* A set of naturals has a least element.
LEMMA LeastNatural ==
  ASSUME NEW S \in SUBSET Nat, S # {}
  PROVE  \E n \in S : \A m \in S : n <= m
<1> DEFINE R == OpToRel(<, Nat)
<1>1. IsWellFoundedOn(R, Nat)
  BY NatLessThanWellFounded
<1>2. \A x, y \in Nat : x < y => <<x, y>> \in R
  BY DEF OpToRel
<1> HIDE DEF R
<1>3. PICK x \in S : \A y \in S : ~(<<y, x>> \in R)
  BY <1>1, WFMin
<1>4. ASSUME NEW m \in S PROVE x <= m
  <2>1. x \in Nat /\ m \in Nat
    OBVIOUS
  <2>2. ~(m < x)
    BY <1>2, <1>3, <2>1, Zenon
  <2> QED
    BY <2>1, <2>2
<1> QED
  BY <1>4

\* Induction, for what can be said as membership in a set.
LEMMA NatSetInduction ==
  ASSUME NEW S, 0 \in S, \A n \in Nat : n \in S => n + 1 \in S
  PROVE  Nat \subseteq S
<1> DEFINE T == Nat \ S
<1>1. CASE T # {}
  <2>1. PICK n \in T : \A m \in T : n <= m
    BY <1>1, LeastNatural
  <2>2. n - 1 \in Nat /\ n - 1 \in S
    BY <2>1
  <2> QED
    BY <2>1, <2>2
<1> QED
  BY <1>1

----------------------------------------------------------------------------
(* Sums *)

\* f is the function of partial sums of h up to n.
SumsUp(f, h, n) ==
  f = [i \in 0 .. n |-> h[i] + (IF i = 0 THEN 0 ELSE f[i - 1])]

\* h[0] + ... + h[n].
SumTo(h, n) == (CHOOSE f : SumsUp(f, h, n))[n]

LEMMA SumsExist ==
  ASSUME NEW h, NEW n \in Nat
  PROVE  \E f : SumsUp(f, h, n)
<1> DEFINE S == {m \in Nat : \E f : SumsUp(f, h, m)}
<1>1. 0 \in S
  <2> DEFINE f == [i \in 0 .. 0 |-> h[i] + 0]
  <2>1. SumsUp(f, h, 0)
    BY DEF SumsUp
  <2> QED
    BY <2>1
<1>2. ASSUME NEW m \in Nat, m \in S PROVE m + 1 \in S
  <2>1. PICK f : SumsUp(f, h, m)
    BY <1>2
  <2> DEFINE g == [i \in 0 .. m + 1 |-> IF i = m + 1 THEN h[i] + f[m] ELSE f[i]]
  <2>2. SumsUp(g, h, m + 1)
    <3>1. \A i \in 0 .. m : f[i] = h[i] + (IF i = 0 THEN 0 ELSE f[i - 1])
      BY <2>1 DEF SumsUp
    <3>2. ASSUME NEW i \in 0 .. m + 1
          PROVE  g[i] = h[i] + (IF i = 0 THEN 0 ELSE g[i - 1])
      BY <3>1
    <3> HIDE DEF g
    <3>3. g = [i \in 0 .. m + 1 |-> g[i]]
      BY DEF g
    <3>4. g = [i \in 0 .. m + 1 |-> h[i] + (IF i = 0 THEN 0 ELSE g[i - 1])]
      BY <3>2, <3>3
    <3> QED
      BY <3>4 DEF SumsUp
  <2> HIDE DEF g
  <2> QED
    BY <2>2
<1> HIDE DEF S
<1>3. n \in S
  BY <1>1, <1>2, NatSetInduction
<1> QED
  BY <1>3 DEF S

\* Partial sums are integers, and natural if the summands are.
LEMMA SumsTyped ==
  ASSUME NEW h, NEW n \in Nat, NEW f, SumsUp(f, h, n), \A i \in 0 .. n : h[i] \in Int
  PROVE  /\ \A i \in 0 .. n : f[i] \in Int
         /\ (\A i \in 0 .. n : h[i] >= 0) => \A i \in 0 .. n : f[i] >= 0
<1> DEFINE S == {m \in Nat : m <= n =>
                   /\ f[m] \in Int
                   /\ (\A i \in 0 .. n : h[i] >= 0) => f[m] >= 0}
<1>1. \A i \in 0 .. n : f[i] = h[i] + (IF i = 0 THEN 0 ELSE f[i - 1])
  BY DEF SumsUp
<1>2. 0 \in S
  BY <1>1
<1>3. ASSUME NEW m \in Nat, m \in S PROVE m + 1 \in S
  <2>1. CASE m + 1 <= n
    <3>1. m + 1 \in 0 .. n /\ m <= n /\ f[m + 1] = h[m + 1] + f[m]
      BY <1>1, <2>1
    <3>2. h[m + 1] \in Int /\ f[m] \in Int
          /\ ((\A i \in 0 .. n : h[i] >= 0) => f[m] >= 0 /\ h[m + 1] >= 0)
      BY <1>3, <3>1
    <3> QED
      BY <3>1, <3>2
  <2> QED
    BY <2>1
<1> HIDE DEF S
<1>4. Nat \subseteq S
  BY <1>2, <1>3, NatSetInduction
<1> QED
  BY <1>4 DEF S

\* If one summand changes, the partial sums from there on change by as much.
LEMMA SumsShift ==
  ASSUME NEW h, NEW g, NEW n \in Nat, NEW f, NEW e, SumsUp(f, h, n), SumsUp(e, g, n),
         \A i \in 0 .. n : h[i] \in Int /\ g[i] \in Int,
         NEW j \in 0 .. n, \A i \in 0 .. n : i # j => g[i] = h[i]
  PROVE  e[n] = f[n] + (g[j] - h[j])
<1> DEFINE d == g[j] - h[j]
           S == {m \in Nat : m <= n => e[m] = f[m] + (IF j <= m THEN d ELSE 0)}
<1>1. /\ \A i \in 0 .. n : f[i] = h[i] + (IF i = 0 THEN 0 ELSE f[i - 1])
      /\ \A i \in 0 .. n : e[i] = g[i] + (IF i = 0 THEN 0 ELSE e[i - 1])
  BY DEF SumsUp
<1>2. \A i \in 0 .. n : f[i] \in Int /\ e[i] \in Int
  BY SumsTyped
<1>3. d \in Int /\ g[j] = h[j] + d
  OBVIOUS
<1>4. 0 \in S
  BY <1>1, <1>2, <1>3
<1>5. ASSUME NEW m \in Nat, m \in S PROVE m + 1 \in S
  <2>1. CASE m + 1 <= n
    <3>1. /\ m + 1 \in 0 .. n /\ m \in 0 .. n
          /\ f[m + 1] = h[m + 1] + f[m] /\ e[m + 1] = g[m + 1] + e[m]
      BY <1>1, <2>1
    <3>2. e[m] = f[m] + (IF j <= m THEN d ELSE 0)
      BY <1>5, <3>1
    <3>3. /\ h[m + 1] \in Int /\ g[m + 1] \in Int /\ f[m] \in Int /\ e[m] \in Int
      BY <1>2, <3>1
    <3> HIDE DEF d
    <3>4. CASE j = m + 1
      BY <1>3, <3>1, <3>2, <3>3, <3>4
    <3>5. CASE j # m + 1
      <4>1. g[m + 1] = h[m + 1]
        BY <3>1, <3>5
      <4> QED
        BY <1>3, <3>1, <3>2, <3>3, <3>5, <4>1
    <3> QED
      BY <3>4, <3>5
  <2> QED
    BY <2>1
<1> HIDE DEF S
<1>6. n \in S
  BY <1>4, <1>5, NatSetInduction
<1> QED
  BY <1>6 DEF S

\* Any function of partial sums ends in the sum.
LEMMA SumIs ==
  ASSUME NEW h, NEW n \in Nat, NEW f, SumsUp(f, h, n), \A i \in 0 .. n : h[i] \in Int
  PROVE  SumTo(h, n) = f[n]
<1> DEFINE e == CHOOSE e : SumsUp(e, h, n)
<1>1. SumsUp(e, h, n)
  BY SumsExist
<1>2. SumTo(h, n) = e[n]
  BY DEF SumTo
<1> HIDE DEF e
<1>3. 0 \in 0 .. n /\ h[0] \in Int
  OBVIOUS
<1>4. e[n] = f[n] + (h[0] - h[0])
  BY <1>1, <1>3, SumsShift
<1>5. f[n] \in Int
  BY SumsTyped
<1> QED
  BY <1>2, <1>3, <1>4, <1>5

\* A sum of integers is one, and natural if its summands are.
LEMMA SumTyped ==
  ASSUME NEW h, NEW n \in Nat, \A i \in 0 .. n : h[i] \in Int
  PROVE  /\ SumTo(h, n) \in Int
         /\ (\A i \in 0 .. n : h[i] >= 0) => SumTo(h, n) >= 0
<1>1. PICK f : SumsUp(f, h, n)
  BY SumsExist
<1>2. SumTo(h, n) = f[n]
  BY <1>1, SumIs
<1>3. n \in 0 .. n
  OBVIOUS
<1> QED
  BY <1>1, <1>2, <1>3, SumsTyped

\* One summand changes.
LEMMA SumShift ==
  ASSUME NEW h, NEW g, NEW n \in Nat, NEW j \in 0 .. n,
         \A i \in 0 .. n : h[i] \in Int /\ g[i] \in Int,
         \A i \in 0 .. n : i # j => g[i] = h[i]
  PROVE  SumTo(g, n) = SumTo(h, n) + (g[j] - h[j])
<1>1. PICK f : SumsUp(f, h, n)
  BY SumsExist
<1>2. PICK e : SumsUp(e, g, n)
  BY SumsExist
<1>3. SumTo(h, n) = f[n] /\ SumTo(g, n) = e[n]
  BY <1>1, <1>2, SumIs
<1> QED
  BY <1>1, <1>2, <1>3, SumsShift

\* Nothing adds up to nothing.
LEMMA SumZero ==
  ASSUME NEW h, NEW n \in Nat, \A i \in 0 .. n : h[i] = 0
  PROVE  SumTo(h, n) = 0
<1> DEFINE f == [i \in 0 .. n |-> 0]
<1>1. SumsUp(f, h, n)
  BY DEF SumsUp
<1>2. f[n] = 0
  OBVIOUS
<1> HIDE DEF f
<1> QED
  BY <1>1, <1>2, SumIs

----------------------------------------------------------------------------
(* Time and buckets *)

\* The bucket of an instant, and the instants of a bucket.
LEMMA BucketFacts ==
  ASSUME NEW t \in Nat
  PROVE  /\ BucketAt(t) \in Nat
         /\ BucketAt(t) * CoordinationEpoch <= t
         /\ t < BucketAt(t) * CoordinationEpoch + CoordinationEpoch
<1> DEFINE E == CoordinationEpoch
<1>1. E \in Nat \ {0}
  BY StoreAssumption
<1> HIDE DEF E
<1>2. t \div E \in Nat /\ (t \div E) * E <= t /\ t < (t \div E) * E + E
  BY <1>1
<1> QED
  BY <1>2 DEF BucketAt, E

\* Buckets that are d or more apart are at least d epochs apart.
LEMMA EpochsApart ==
  ASSUME NEW a \in Int, NEW b \in Int, a <= b
  PROVE  a * CoordinationEpoch <= b * CoordinationEpoch
<1> DEFINE E == CoordinationEpoch
           d == b - a
<1>1. E \in Nat /\ d \in Nat /\ b = a + d
  BY StoreAssumption
<1> HIDE DEF E, d
<1>2. d * E \in Nat /\ (a + d) * E = a * E + d * E
  BY <1>1
<1>3. a * E \in Int
  BY <1>1
<1> QED
  BY <1>1, <1>2, <1>3 DEF E

\* Time does not go back to an earlier bucket.
LEMMA BucketsRise ==
  ASSUME NEW s \in Nat, NEW t \in Nat, s <= t
  PROVE  BucketAt(s) <= BucketAt(t)
<1> DEFINE E == CoordinationEpoch
           a == BucketAt(s)
           b == BucketAt(t)
<1>1. /\ a \in Nat /\ b \in Nat /\ E \in Nat \ {0}
      /\ a * E <= s /\ t < b * E + E
  BY BucketFacts, StoreAssumption
<1>2. b + 1 <= a => (b + 1) * E <= a * E
  BY <1>1, EpochsApart
<1> HIDE DEF E, a, b
<1>3. (b + 1) * E = b * E + E /\ a * E \in Int /\ b * E \in Int
  BY <1>1
<1>4. a <= b
  BY <1>1, <1>2, <1>3
<1> QED
  BY <1>4 DEF a, b

----------------------------------------------------------------------------
(* The state's shape *)

CountMaps == UNION {[S -> Nat] : S \in SUBSET ArmKeys}

\* What a Window call may answer.
Windows == UNION {[S -> CountMaps] : S \in SUBSET Buckets}

\* The tables of a store.
Table(V) == UNION {[S -> V] : S \in SUBSET Places}
CountEntries    == [arms : CountMaps, expires : Nat]
LeaderEntries   == [value : Replicas, expires : Nat]
DecisionEntries == [value : Policies, expires : Nat]

Stores ==
  [counts : Table(CountEntries), leaders : Table(LeaderEntries),
   decisions : Table(DecisionEntries)]

Rounds ==
  [step : {"idle", "sync", "read", "decide", "apply"},
   ns : Capacities \cup {NoShape}, counts : CountMaps, bucket : Buckets,
   read : BOOLEAN, window : Windows, told : Policies \cup {Undefined},
   choice : Policies \cup {Undefined}, started : Nat]

\* The place a round is about once it knows its bucket.
PlaceOf(r) == <<round[r].ns, round[r].bucket>>

\* What a round knows at each of its steps.
RoundOK(r) ==
  /\ round[r].step # "idle" => round[r].ns \in Capacities
  /\ round[r].step \in {"idle", "sync", "read"} => ~round[r].read
  /\ round[r].step = "decide" => round[r].choice \in Policies /\ Mode = "leader"
  /\ round[r].started <= now

\* The type invariant of the fleet.
TypeInv ==
  /\ now \in 0 .. MaxTime
  /\ store \in Stores
  /\ shape \in [Replicas -> Capacities \cup {NoShape}]
  /\ pending \in [Replicas -> CountMaps]
  /\ round \in [Replicas -> Rounds]
  /\ lastSync \in [Replicas -> Int]
  /\ fallback \in [Replicas -> BOOLEAN] /\ lastErr \in [Replicas -> BOOLEAN]
  /\ source \in [Replicas -> {"none", "local", "fleet"}]
  /\ published \in [Places -> CountMaps]
  /\ led \in [Places -> Nat]
  /\ applied \in [Places -> SUBSET Policies]
  /\ \A r \in Replicas : RoundOK(r)

\* A count map by its graph.
LEMMA CountMapIntro ==
  ASSUME NEW D \in SUBSET ArmKeys, NEW c, c = [k \in D |-> c[k]],
         \A k \in D : c[k] \in Nat
  PROVE  c \in CountMaps
BY DEF CountMaps

\* A count map, and what it counts.
LEMMA CountMapFacts ==
  ASSUME NEW c \in CountMaps
  PROVE  /\ DOMAIN c \subseteq ArmKeys /\ c = [k \in DOMAIN c |-> c[k]]
         /\ \A k \in DOMAIN c : c[k] \in Nat
         /\ \A k : GetsOf(c, k) \in Nat
BY DEF CountMaps, GetsOf

\* Sums of counts.
LEMMA AddCountsFacts ==
  ASSUME NEW c \in CountMaps, NEW d \in CountMaps
  PROVE  /\ AddCounts(c, d) \in CountMaps
         /\ AddCounts(NoCounts, d) = d /\ AddCounts(c, NoCounts) = c
<1>1. \A k : GetsOf(c, k) + GetsOf(d, k) \in Nat
  BY CountMapFacts
<1>2. DOMAIN c \cup DOMAIN d \in SUBSET ArmKeys
  BY CountMapFacts
<1>3. AddCounts(c, d) \in CountMaps
  BY <1>1, <1>2, CountMapIntro DEF AddCounts
<1>4. ASSUME NEW e \in CountMaps
      PROVE  AddCounts(NoCounts, e) = e /\ AddCounts(e, NoCounts) = e
  <2>1. /\ e = [k \in DOMAIN e |-> e[k]] /\ \A k \in DOMAIN e : e[k] \in Nat
    BY CountMapFacts
  <2> QED
    BY <2>1 DEF AddCounts, NoCounts, EmptyMap, GetsOf
<1> QED
  BY <1>3, <1>4

\* What is sent to the store.
LEMMA SentFacts ==
  ASSUME NEW c \in CountMaps
  PROVE  /\ Sent(c) \in CountMaps
         /\ Kind = "redis" => \A k \in DOMAIN Sent(c) : Sent(c)[k] > 0
<1>1. /\ DOMAIN c \subseteq ArmKeys /\ \A k \in DOMAIN c : c[k] \in Nat
  BY CountMapFacts
<1>2. {j \in DOMAIN c : Kind = "redis" => c[j] # 0} \in SUBSET ArmKeys
  BY <1>1
<1>3. Sent(c) \in CountMaps
  BY <1>1, <1>2, CountMapIntro DEF Sent
<1> QED
  BY <1>1, <1>3 DEF Sent

\* The empty maps.
LEMMA EmptyFacts ==
  /\ NoCounts \in CountMaps /\ EmptyMap \in Windows
  /\ \A V : EmptyMap \in Table(V)
  /\ DOMAIN EmptyMap = {} /\ DOMAIN NoCounts = {}
  /\ Undefined \notin Policies
<1>1. DOMAIN EmptyMap = {} /\ NoCounts = EmptyMap
  BY DEF NoCounts, EmptyMap
<1>2. ASSUME NEW V PROVE EmptyMap \in [{} -> V]
  BY DEF EmptyMap
<1>3. {} \in SUBSET ArmKeys /\ {} \in SUBSET Buckets /\ {} \in SUBSET Places
  OBVIOUS
<1>4. NoCounts \in CountMaps
  BY <1>1, <1>2, <1>3 DEF CountMaps
<1>5. EmptyMap \in Windows
  BY <1>2, <1>3 DEF Windows
<1>6. ASSUME NEW V PROVE EmptyMap \in Table(V)
  BY <1>2, <1>3 DEF Table
<1> QED
  BY <1>1, <1>4, <1>5, <1>6, StoreAssumption

\* A round at rest.
LEMMA IdleFacts ==
  /\ Idle \in Rounds /\ Idle.step = "idle" /\ ~Idle.read /\ Idle.started = 0
  /\ Idle.choice = Undefined /\ Idle.window = EmptyMap /\ Idle.counts = NoCounts
<1>1. 0 \in Buckets
  <2>1. MaxTime \in Nat
    BY FleetAssumption
  <2>2. BucketAt(MaxTime) \in Nat
    BY <2>1, BucketFacts
  <2> QED
    BY <2>2 DEF Buckets
<1> QED
  BY <1>1, EmptyFacts DEF Idle, Rounds

\* The bucket of the present.
LEMMA PresentBucket ==
  ASSUME TypeInv
  PROVE  BucketAt(now) \in Buckets /\ now \in Nat /\ MaxTime \in Nat
<1>1. now \in Nat /\ MaxTime \in Nat /\ now <= MaxTime
  BY FleetAssumption DEF TypeInv
<1> QED
  BY <1>1, BucketFacts, BucketsRise DEF Buckets

----------------------------------------------------------------------------
(* Tables *)

\* A table by its graph.
LEMMA TableIntro ==
  ASSUME NEW V, NEW D \in SUBSET Places, NEW f, f = [x \in D |-> f[x]],
         \A x \in D : f[x] \in V
  PROVE  f \in Table(V)
BY DEF Table

LEMMA TableFacts ==
  ASSUME NEW V, NEW f \in Table(V)
  PROVE  /\ DOMAIN f \subseteq Places /\ f = [x \in DOMAIN f |-> f[x]]
         /\ \A x \in DOMAIN f : f[x] \in V
BY DEF Table

\* Expiry drops what is over, and nothing else.
LEMMA UnexpiredFacts ==
  ASSUME NEW V, NEW f \in Table(V), NEW t \in Nat,
         \A x \in DOMAIN f : f[x].expires \in Nat
  PROVE  /\ Unexpired(f, t) \in Table(V)
         /\ DOMAIN Unexpired(f, t) \subseteq DOMAIN f
         /\ \A x \in DOMAIN Unexpired(f, t) : Unexpired(f, t)[x] = f[x]
         /\ \A x \in DOMAIN f \ DOMAIN Unexpired(f, t) : f[x].expires <= t
<1> DEFINE D == {y \in DOMAIN f : t < f[y].expires + (IF Kind = "mem" THEN 1 ELSE 0)}
<1>1. Unexpired(f, t) = [x \in D |-> f[x]]
  BY DEF Unexpired
<1>2. D \subseteq DOMAIN f /\ \A x \in DOMAIN f \ D : f[x].expires <= t
  OBVIOUS
<1> HIDE DEF D
<1>3. D \in SUBSET Places /\ \A x \in D : f[x] \in V
  BY <1>2, TableFacts
<1>4. /\ DOMAIN Unexpired(f, t) = D /\ \A x \in D : Unexpired(f, t)[x] = f[x]
  BY <1>1
<1>5. Unexpired(f, t) \in Table(V)
  <2> DEFINE u == Unexpired(f, t)
  <2>1. u = [x \in D |-> u[x]] /\ \A x \in D : u[x] \in V
    BY <1>1, <1>3
  <2> HIDE DEF u
  <2>2. u \in [D -> V]
    BY <2>1
  <2>3. u \in Table(V)
    BY <1>3, <2>2 DEF Table
  <2> QED
    BY <2>3 DEF u
<1> QED
  BY <1>2, <1>4, <1>5

\* Writing one entry.
LEMMA WithFacts ==
  ASSUME NEW V, NEW f \in Table(V), NEW x \in Places, NEW v \in V
  PROVE  /\ With(f, x, v) \in Table(V)
         /\ DOMAIN With(f, x, v) = DOMAIN f \cup {x}
         /\ With(f, x, v)[x] = v
         /\ \A y \in DOMAIN f : y # x => With(f, x, v)[y] = f[y]
<1>1. DOMAIN f \cup {x} \in SUBSET Places /\ \A y \in DOMAIN f : f[y] \in V
  BY TableFacts
<1>2. With(f, x, v) \in Table(V)
  BY <1>1, TableIntro DEF With
<1> QED
  BY <1>2 DEF With

\* The tables of a store have entries with a natural expiry.
LEMMA StoreFacts ==
  ASSUME NEW s \in Stores
  PROVE  /\ s.counts \in Table(CountEntries) /\ s.leaders \in Table(LeaderEntries)
         /\ s.decisions \in Table(DecisionEntries)
         /\ \A x \in DOMAIN s.counts : s.counts[x].expires \in Nat
         /\ \A x \in DOMAIN s.leaders : s.leaders[x].expires \in Nat
         /\ \A x \in DOMAIN s.decisions : s.decisions[x].expires \in Nat
<1>1. /\ s.counts \in Table(CountEntries) /\ s.leaders \in Table(LeaderEntries)
      /\ s.decisions \in Table(DecisionEntries)
  BY DEF Stores
<1>2. \A x \in DOMAIN s.counts : s.counts[x] \in CountEntries
  BY <1>1, TableFacts
<1>3. \A x \in DOMAIN s.leaders : s.leaders[x] \in LeaderEntries
  BY <1>1, TableFacts
<1>4. \A x \in DOMAIN s.decisions : s.decisions[x] \in DecisionEntries
  BY <1>1, TableFacts
<1> QED
  BY <1>1, <1>2, <1>3, <1>4 DEF CountEntries, LeaderEntries, DecisionEntries

\* Expiry keeps a store a store.
LEMMA ExpiredFacts ==
  ASSUME NEW s \in Stores, NEW t \in Nat
  PROVE  /\ Expired(s, t) \in Stores
         /\ Expired(s, t).counts = Unexpired(s.counts, t)
         /\ Expired(s, t).leaders = Unexpired(s.leaders, t)
         /\ Expired(s, t).decisions = Unexpired(s.decisions, t)
<1>1. Unexpired(s.counts, t) \in Table(CountEntries)
  BY StoreFacts, UnexpiredFacts
<1>2. Unexpired(s.leaders, t) \in Table(LeaderEntries)
  BY StoreFacts, UnexpiredFacts
<1>3. Unexpired(s.decisions, t) \in Table(DecisionEntries)
  BY StoreFacts, UnexpiredFacts
<1> QED
  BY <1>1, <1>2, <1>3 DEF Expired, Stores

\* Publishing writes the counters of one place.
LEMMA PublishedFacts ==
  ASSUME NEW s \in Stores, NEW t \in Nat, NEW x \in Places, NEW c \in CountMaps
  PROVE  /\ Published(s, x, c, t) \in Stores
         /\ Published(s, x, c, t).leaders = s.leaders
         /\ Published(s, x, c, t).decisions = s.decisions
<1> DEFINE old == IF x \in DOMAIN s.counts THEN s.counts[x].arms ELSE NoCounts
           e == [arms |-> AddCounts(old, c), expires |-> t + CounterTTL]
<1>1. old \in CountMaps
  <2>1. CASE x \in DOMAIN s.counts
    <3>1. s.counts[x] \in CountEntries
      BY <2>1, StoreFacts, TableFacts
    <3> QED
      BY <2>1, <3>1 DEF CountEntries
  <2>2. CASE x \notin DOMAIN s.counts
    BY <2>2, EmptyFacts
  <2> QED
    BY <2>1, <2>2
<1>2. AddCounts(old, c) \in CountMaps
  BY <1>1, AddCountsFacts
<1>3. t + CounterTTL \in Nat
  <2>1. (Window + 2) * CoordinationEpoch \in Nat
    BY StoreAssumption
  <2> QED
    BY <2>1 DEF CounterTTL
<1>4. e \in CountEntries
  BY <1>2, <1>3 DEF CountEntries
<1> HIDE DEF e
<1>5. With(s.counts, x, e) \in Table(CountEntries)
  BY <1>4, StoreFacts, WithFacts
<1>6. Published(s, x, c, t) = IF c = NoCounts THEN s
                              ELSE [s EXCEPT !.counts = With(s.counts, x, e)]
  BY DEF Published, e
<1> QED
  BY <1>5, <1>6 DEF Stores

\* A Sync writes the counters and at most the claim of its place.
LEMMA SyncedFacts ==
  ASSUME NEW s \in Stores, NEW t \in Nat, NEW x \in Places, NEW n \in Replicas,
         NEW c \in CountMaps
  PROVE  /\ Synced(s, x, n, c, t) \in Stores
         /\ Synced(s, x, n, c, t).counts
              = Published(Expired(s, t), x, Sent(c), t).counts
         /\ Synced(s, x, n, c, t).decisions = Unexpired(s.decisions, t)
         /\ Synced(s, x, n, c, t).leaders
              = IF Claims(Expired(s, t), x)
                THEN With(Unexpired(s.leaders, t), x,
                          [value |-> n, expires |-> t + LeaderTTL])
                ELSE Unexpired(s.leaders, t)
<1> DEFINE l == Published(Expired(s, t), x, Sent(c), t)
           e == [value |-> n, expires |-> t + LeaderTTL]
<1>1. /\ l \in Stores /\ l.leaders = Unexpired(s.leaders, t)
      /\ l.decisions = Unexpired(s.decisions, t)
  BY ExpiredFacts, SentFacts, PublishedFacts
<1>2. e \in LeaderEntries
  <2>1. 2 * CoordinationEpoch \in Nat
    BY StoreAssumption
  <2> QED
    BY <2>1 DEF LeaderEntries, LeaderTTL
<1>3. Claims(l, x) <=> Claims(Expired(s, t), x)
  BY <1>1, ExpiredFacts DEF Claims
<1>4. Synced(s, x, n, c, t) = IF Claims(l, x)
                              THEN [l EXCEPT !.leaders = With(l.leaders, x, e)] ELSE l
  BY DEF Synced
<1> HIDE DEF l, e
<1>5. With(l.leaders, x, e) \in Table(LeaderEntries)
  BY <1>1, <1>2, StoreFacts, WithFacts
<1>6. /\ Synced(s, x, n, c, t) \in Stores
      /\ Synced(s, x, n, c, t).counts = l.counts
      /\ Synced(s, x, n, c, t).decisions = l.decisions
      /\ Synced(s, x, n, c, t).leaders
           = IF Claims(l, x) THEN With(l.leaders, x, e) ELSE l.leaders
  BY <1>1, <1>4, <1>5 DEF Stores
<1> QED
  BY <1>1, <1>3, <1>6 DEF l, e

\* A Decide writes at most the decision of its place.
LEMMA DecidedFacts ==
  ASSUME NEW s \in Stores, NEW t \in Nat, NEW x \in Places, NEW p \in Policies
  PROVE  /\ Decided(s, x, p, t) \in Stores
         /\ Decided(s, x, p, t).counts = Unexpired(s.counts, t)
         /\ Decided(s, x, p, t).leaders = Unexpired(s.leaders, t)
         /\ Decided(s, x, p, t).decisions
              = IF x \in DOMAIN Unexpired(s.decisions, t)
                THEN Unexpired(s.decisions, t)
                ELSE With(Unexpired(s.decisions, t), x,
                          [value |-> p, expires |-> t + DecisionTTL])
<1> DEFINE l == Expired(s, t)
           e == [value |-> p, expires |-> t + DecisionTTL]
<1>1. /\ l \in Stores /\ l.leaders = Unexpired(s.leaders, t)
      /\ l.decisions = Unexpired(s.decisions, t)
      /\ l.counts = Unexpired(s.counts, t)
  BY ExpiredFacts
<1>2. e \in DecisionEntries
  <2>1. 3 * CoordinationEpoch \in Nat
    BY StoreAssumption
  <2> QED
    BY <2>1 DEF DecisionEntries, DecisionTTL
<1>3. Decided(s, x, p, t) = IF x \in DOMAIN l.decisions THEN l
                            ELSE [l EXCEPT !.decisions = With(l.decisions, x, e)]
  BY DEF Decided
<1> HIDE DEF l, e
<1>4. With(l.decisions, x, e) \in Table(DecisionEntries)
  BY <1>1, <1>2, StoreFacts, WithFacts
<1>5. /\ Decided(s, x, p, t) \in Stores
      /\ Decided(s, x, p, t).counts = l.counts
      /\ Decided(s, x, p, t).leaders = l.leaders
      /\ Decided(s, x, p, t).decisions
           = IF x \in DOMAIN l.decisions THEN l.decisions ELSE With(l.decisions, x, e)
  BY <1>1, <1>3, <1>4 DEF Stores
<1> QED
  BY <1>1, <1>5 DEF e

----------------------------------------------------------------------------
(* The invariants *)

\* A bucket is won once, and the claim stands until the bucket is over.
Claimed ==
  \A x \in Places :
    /\ led[x] <= 1
    /\ led[x] = 1 =>
         \/ BucketAt(now) > x[2]
         \/ /\ x \in DOMAIN store.leaders
            /\ store.leaders[x].expires >= (x[2] + 2) * CoordinationEpoch

\* r leads the place x and has not yet published a decision.
Leads(r, x) == round[r].step \in {"read", "decide"} /\ PlaceOf(r) = x

\* d is a decision on x: applied, stored, or on its way to being applied.
Stored(x, d) == x \in DOMAIN store.decisions /\ store.decisions[x].value = d
Carries(r, x, d) == round[r].step = "apply" /\ PlaceOf(r) = x /\ round[r].choice = d
Speaks(x, d) == d \in applied[x] \/ Stored(x, d) \/ \E r \in Replicas : Carries(r, x, d)

\* A leader is alone and speaks first; after that a bucket has one decision.
OneVoice ==
  Mode = "leader" =>
    /\ \A r \in Replicas, x \in Places : Leads(r, x) =>
         /\ led[x] = 1
         /\ \A s \in Replicas : Leads(s, x) => s = r
         /\ \A d \in Policies : ~Speaks(x, d)
    /\ \A x \in Places, d \in Policies : Speaks(x, d) =>
         /\ led[x] = 1
         /\ \A e \in Policies : Speaks(x, e) => e = d

\* A round that is about to read has no decision, and one that leads was told none.
ReadsUndecided ==
  \A r \in Replicas :
    /\ round[r].step = "read" => round[r].choice = Undefined
    /\ round[r].step \in {"read", "decide"} => round[r].told = Undefined

\* The time from which counters published for bucket b may be gone.
GoneAt(b) == (b + Window + 2) * CoordinationEpoch

\* The store holds what was published, until no leader can want it.
Kept ==
  \A x \in Places :
    IF x \in DOMAIN store.counts
    THEN store.counts[x].arms = published[x] /\ store.counts[x].expires >= GoneAt(x[2])
    ELSE published[x] = NoCounts \/ now >= GoneAt(x[2])

\* A round past its Sync is about a bucket that has begun, and it started before
\* that bucket was over.
BucketKnown ==
  \A r \in Replicas : round[r].step \in {"read", "decide", "apply"} =>
    /\ round[r].bucket <= BucketAt(now)
    /\ round[r].started < (round[r].bucket + 1) * CoordinationEpoch

\* A round that has read, read buckets before its own.
WindowIsPast ==
  \A r \in Replicas : round[r].read =>
    /\ round[r].step \in {"decide", "apply"}
    /\ DOMAIN round[r].window \subseteq round[r].bucket - Window .. round[r].bucket - 1

\* A Redis store holds no zero counts.
PositiveCounts ==
  Kind = "redis" =>
    \A x \in DOMAIN store.counts : \A k \in DOMAIN store.counts[x].arms :
      store.counts[x].arms[k] > 0

\* Under a Redis store every draw rests on a Get.
DrawsOnEvidence == Kind = "redis" => DecidesOnEvidence

\* The inductive invariant.
FleetInv ==
  /\ TypeInv /\ Claimed /\ OneVoice /\ ReadsUndecided /\ FallbackIsEarned
  /\ Kept /\ BucketKnown /\ WindowIsPast /\ ReadsAreFinal
  /\ PositiveCounts /\ DrawsOnEvidence

----------------------------------------------------------------------------
(* Types *)

\* What Window answers.
LEMMA WindowFacts ==
  ASSUME NEW s \in Stores, NEW ns \in Capacities, NEW a \in Int, NEW b \in Int,
         NEW t \in Nat
  PROVE  /\ WindowCounts(s, ns, a, b, t) \in Windows
         /\ DOMAIN WindowCounts(s, ns, a, b, t) \subseteq a .. b
         /\ \A c \in a .. b : c \in DOMAIN WindowCounts(s, ns, a, b, t)
                                <=> <<ns, c>> \in DOMAIN Unexpired(s.counts, t)
         /\ \A c \in DOMAIN WindowCounts(s, ns, a, b, t) :
              /\ <<ns, c>> \in DOMAIN s.counts
              /\ WindowCounts(s, ns, a, b, t)[c] = s.counts[<<ns, c>>].arms
<1> DEFINE live == Unexpired(s.counts, t)
           D == {c \in a .. b : <<ns, c>> \in DOMAIN live}
           w == WindowCounts(s, ns, a, b, t)
<1>1. w = [c \in D |-> live[<<ns, c>>].arms]
  BY ExpiredFacts DEF WindowCounts
<1>2. /\ live \in Table(CountEntries) /\ DOMAIN live \subseteq DOMAIN s.counts
      /\ \A x \in DOMAIN live : live[x] = s.counts[x]
  BY StoreFacts, UnexpiredFacts
<1>3. \A x \in DOMAIN live : live[x].arms \in CountMaps
  <2>1. \A x \in DOMAIN live : live[x] \in CountEntries
    BY <1>2, TableFacts
  <2> QED
    BY <2>1 DEF CountEntries
<1>4. DOMAIN live \subseteq Capacities \X Buckets
  BY <1>2, TableFacts DEF Places
<1>5. D \in SUBSET Buckets
  BY <1>4
<1>6. \A c \in D : live[<<ns, c>>].arms \in CountMaps
  BY <1>3
<1> HIDE DEF live, w
<1>7. w \in [D -> CountMaps]
  BY <1>1, <1>6
<1>8. w \in Windows
  BY <1>5, <1>7 DEF Windows
<1>9. DOMAIN w = D /\ \A c \in D : w[c] = s.counts[<<ns, c>>].arms
                                   /\ <<ns, c>> \in DOMAIN s.counts
  BY <1>1, <1>2
<1> QED
  BY <1>8, <1>9 DEF live, w

\* A report counts Gets of arms.
LEMMA ReportFacts ==
  ASSUME NEW p \in Policies, NEW n \in Gets
  PROVE  Report(p, n) \in CountMaps
<1> DEFINE D == {<<q, IF q = p THEN "active" ELSE "shadow">> : q \in Policies}
<1>1. D \in SUBSET ArmKeys
  BY DEF ArmKeys, Roles
<1>2. n \in Nat
  BY FleetAssumption
<1>3. Report(p, n) = [k \in D |-> n]
  BY DEF Report
<1> HIDE DEF D
<1>4. Report(p, n) \in [D -> Nat]
  BY <1>2, <1>3
<1> QED
  BY <1>1, <1>4 DEF CountMaps

\* Places of rounds.
LEMMA PlaceFacts ==
  ASSUME TypeInv, NEW r \in Replicas, round[r].step # "idle"
  PROVE  /\ Place(r) \in Places /\ Place(r)[1] = round[r].ns
         /\ Place(r)[2] = BucketAt(now)
         /\ PlaceOf(r) \in Places /\ PlaceOf(r)[1] = round[r].ns
         /\ PlaceOf(r)[2] = round[r].bucket
         /\ round[r].ns \in Capacities /\ round[r].bucket \in Buckets
         /\ round[r].bucket \in Nat /\ round[r].counts \in CountMaps
<1>1. /\ round[r].ns \in Capacities /\ round[r].bucket \in Buckets
      /\ round[r].counts \in CountMaps
  BY DEF TypeInv, RoundOK, Rounds
<1>2. BucketAt(now) \in Buckets
  BY PresentBucket
<1> QED
  BY <1>1, <1>2 DEF Place, PlaceOf, Places, Buckets

\* recordFailure's effect on what TypeInv is about.
LEMMA FailureTypes ==
  ASSUME TypeInv, NEW r \in Replicas, RecordFailure(r)
  PROVE  /\ lastSync' = lastSync
         /\ fallback' \in [Replicas -> BOOLEAN] /\ lastErr' \in [Replicas -> BOOLEAN]
         /\ source' \in [Replicas -> {"none", "local", "fleet"}]
BY DEF TypeInv, RecordFailure

LEMMA InitTypes == Init => TypeInv
<1> SUFFICES ASSUME Init PROVE TypeInv
  OBVIOUS
<1>1. store \in Stores
  BY EmptyFacts DEF Init, NewStore, Stores
<1>2. now \in 0 .. MaxTime
  BY FleetAssumption DEF Init
<1>3. round \in [Replicas -> Rounds] /\ \A r \in Replicas : round[r] = Idle
  BY IdleFacts DEF Init
<1>4. \A r \in Replicas : RoundOK(r)
  BY <1>3, IdleFacts DEF Init, RoundOK
<1>5. pending \in [Replicas -> CountMaps] /\ published \in [Places -> CountMaps]
  BY EmptyFacts DEF Init
<1> QED
  BY <1>1, <1>2, <1>3, <1>4, <1>5 DEF Init, TypeInv

\* A round changed in one replica keeps the others' facts.
LEMMA RoundTypes ==
  ASSUME TypeInv, NEW r \in Replicas, NEW v \in Rounds,
         round' = [round EXCEPT ![r] = v], now' = now,
         v.step # "idle" => v.ns \in Capacities,
         v.step \in {"idle", "sync", "read"} => ~v.read,
         v.step = "decide" => v.choice \in Policies /\ Mode = "leader",
         v.started <= now
  PROVE  /\ round' \in [Replicas -> Rounds] /\ round'[r] = v
         /\ \A s \in Replicas : s # r => round'[s] = round[s]
         /\ \A s \in Replicas : RoundOK(s)'
<1>1. /\ round' \in [Replicas -> Rounds] /\ round'[r] = v
      /\ \A s \in Replicas : s # r => round'[s] = round[s]
  BY DEF TypeInv
<1>2. RoundOK(r)'
  BY <1>1 DEF RoundOK
<1>3. ASSUME NEW s \in Replicas, s # r PROVE RoundOK(s)'
  BY <1>1, <1>3 DEF RoundOK, TypeInv
<1> QED
  BY <1>1, <1>2, <1>3

\* What StoreSync leaves.
LEMMA StoreSyncTypes ==
  ASSUME TypeInv, NEW r \in Replicas, round[r].step = "sync", StoreSync(r)
  PROVE  /\ store' \in Stores /\ published' \in [Places -> CountMaps]
         /\ led' \in [Places -> Nat]
<1> DEFINE x == Place(r)
           c == round[r].counts
<1>1. x \in Places /\ c \in CountMaps /\ now \in Nat /\ store \in Stores
  BY PlaceFacts, PresentBucket DEF TypeInv
<1>2. /\ store' = Synced(store, x, r, c, now)
      /\ published' = [published EXCEPT ![x] = AddCounts(@, Sent(c))]
      /\ led' = IF Claims(Expired(store, now), x) THEN [led EXCEPT ![x] = @ + 1] ELSE led
  BY DEF StoreSync
<1> HIDE DEF x, c
<1>3. store' \in Stores
  BY <1>1, <1>2, SyncedFacts
<1>4. AddCounts(published[x], Sent(c)) \in CountMaps
  BY <1>1, SentFacts, AddCountsFacts DEF TypeInv
<1>5. published' \in [Places -> CountMaps]
  BY <1>1, <1>2, <1>4 DEF TypeInv
<1>6. led' \in [Places -> Nat]
  BY <1>1, <1>2 DEF TypeInv
<1> QED
  BY <1>3, <1>5, <1>6

\* RecordEpoch.
LEMMA RecordTypes ==
  ASSUME TypeInv, NEW r \in Replicas, NEW p \in Policies, NEW g \in Capacities,
         NEW n \in Gets, RecordEpoch(r, p, g, n)
  PROVE  TypeInv'
<1>1. Report(p, n) \in CountMaps
  BY ReportFacts
<1>2. Buffer(r, g) \in CountMaps
  BY EmptyFacts DEF Buffer, TypeInv
<1>3. AddCounts(Buffer(r, g), Report(p, n)) \in CountMaps
  BY <1>1, <1>2, AddCountsFacts
<1>4. pending' \in [Replicas -> CountMaps]
  BY <1>3 DEF RecordEpoch, TypeInv
<1>5. shape' \in [Replicas -> Capacities \cup {NoShape}]
  BY DEF RecordEpoch, TypeInv
<1>6. UNCHANGED <<now, store, round, lastSync, fallback, lastErr, source, published,
                  led, applied>>
  BY DEF RecordEpoch, storeVars, stateVars
<1> QED
  BY <1>4, <1>5, <1>6 DEF TypeInv, RoundOK

\* A round begins.
LEMMA StartFacts ==
  ASSUME TypeInv, NEW r \in Replicas, StartSync(r)
  PROVE  /\ TypeInv'
         /\ round'[r].step = "sync" /\ ~round'[r].read /\ round'[r].choice = Undefined
         /\ \A s \in Replicas : s # r => round'[s] = round[s]
<1> DEFINE v == [Idle EXCEPT !.step = "sync", !.ns = shape[r],
                             !.counts = pending[r], !.started = now]
<1>1. /\ v \in Rounds /\ v.step = "sync" /\ v.ns = shape[r] /\ ~v.read
      /\ v.started = now /\ v.choice = Undefined
  BY IdleFacts, PresentBucket DEF Rounds, TypeInv
<1>2. shape[r] \in Capacities /\ now \in Nat
  BY PresentBucket DEF StartSync, TypeInv
<1>3. /\ round' = [round EXCEPT ![r] = v]
      /\ UNCHANGED <<now, store, shape, lastSync, fallback, lastErr, source, published,
                     led, applied>>
  BY DEF StartSync, storeVars, stateVars
<1>4. pending' \in [Replicas -> CountMaps]
  BY EmptyFacts DEF StartSync, Drain, TypeInv
<1> HIDE DEF v
<1>5. /\ round' \in [Replicas -> Rounds] /\ round'[r] = v
      /\ \A s \in Replicas : s # r => round'[s] = round[s]
      /\ \A s \in Replicas : RoundOK(s)'
  <2>1. v.ns \in Capacities /\ v.started <= now /\ v.step # "decide" /\ now' = now
    BY <1>1, <1>2, <1>3
  <2> QED
    BY <1>1, <1>3, <2>1, RoundTypes
<1>6. TypeInv'
  BY <1>3, <1>4, <1>5 DEF TypeInv
<1> QED
  BY <1>1, <1>5, <1>6

\* Sync answers.
LEMMA SyncOkFacts ==
  ASSUME TypeInv, NEW r \in Replicas, SyncOk(r)
  PROVE  /\ TypeInv'
         /\ round'[r].step = IF Claims(Expired(store, now), Place(r)) \/ Mode = "shared"
                             THEN "read" ELSE "apply"
         /\ round'[r].ns = round[r].ns /\ round'[r].bucket = BucketAt(now)
         /\ round'[r].started = round[r].started /\ ~round'[r].read
         /\ round'[r].choice = IF Mode = "shared" THEN Undefined
                               ELSE DecisionFor(Expired(store, now), Place(r))
         /\ round'[r].told = round'[r].choice
         /\ \A s \in Replicas : s # r => round'[s] = round[s]
<1> DEFINE x == Place(r)
           l == Expired(store, now)
           v == [round[r] EXCEPT !.step = IF Claims(l, x) \/ Mode = "shared"
                                          THEN "read" ELSE "apply",
                                 !.counts = NoCounts, !.bucket = x[2],
                                 !.told = IF Mode = "shared" THEN Undefined
                                          ELSE DecisionFor(l, x),
                                 !.choice = IF Mode = "shared" THEN Undefined
                                            ELSE DecisionFor(l, x)]
<1>1. round[r].step = "sync"
  BY DEF SyncOk
<1>2. /\ x \in Places /\ x[2] = BucketAt(now) /\ x[2] \in Buckets
      /\ round[r].ns \in Capacities
  BY <1>1, PlaceFacts, PresentBucket
<1>3. l \in Stores
  BY ExpiredFacts, PresentBucket DEF TypeInv
<1>4. DecisionFor(l, x) \in Policies \cup {Undefined}
  <2>1. ASSUME x \in DOMAIN l.decisions PROVE l.decisions[x] \in DecisionEntries
    BY <1>3, <2>1, StoreFacts, TableFacts
  <2> QED
    BY <2>1 DEF DecisionFor, DecisionEntries
<1>5. round[r] \in Rounds /\ ~round[r].read /\ round[r].started <= now
  BY <1>1 DEF TypeInv, RoundOK
<1>6. round' = [round EXCEPT ![r] = v]
  BY <1>5 DEF SyncOk, SyncReply, TypeInv
<1>7. /\ v \in Rounds
      /\ v.step = IF Claims(l, x) \/ Mode = "shared" THEN "read" ELSE "apply"
      /\ v.ns = round[r].ns /\ v.bucket = BucketAt(now)
      /\ v.started = round[r].started /\ v.read = round[r].read
      /\ v.choice = IF Mode = "shared" THEN Undefined ELSE DecisionFor(l, x)
      /\ v.told = v.choice
  BY <1>2, <1>4, <1>5, EmptyFacts DEF Rounds
<1> HIDE DEF v
<1>8. /\ UNCHANGED <<now, shape, pending, lastSync, fallback, lastErr, source, applied>>
      /\ StoreSync(r)
  BY DEF SyncOk, cacheVars
<1>9. /\ round' \in [Replicas -> Rounds] /\ round'[r] = v
      /\ \A s \in Replicas : s # r => round'[s] = round[s]
      /\ \A s \in Replicas : RoundOK(s)'
  BY <1>2, <1>5, <1>6, <1>7, <1>8, RoundTypes
<1>10. /\ store' \in Stores /\ published' \in [Places -> CountMaps]
       /\ led' \in [Places -> Nat]
  BY <1>1, <1>8, StoreSyncTypes
<1>11. TypeInv'
  BY <1>8, <1>9, <1>10 DEF TypeInv
<1> QED
  BY <1>5, <1>7, <1>9, <1>11

\* A round that fails or ends.
LEMMA EndTypes ==
  ASSUME TypeInv, NEW r \in Replicas, round' = [round EXCEPT ![r] = Idle], now' = now
  PROVE  /\ round' \in [Replicas -> Rounds] /\ round'[r] = Idle
         /\ \A s \in Replicas : s # r => round'[s] = round[s]
         /\ \A s \in Replicas : RoundOK(s)'
<1>1. 0 <= now
  BY PresentBucket
<1> QED
  BY <1>1, IdleFacts, RoundTypes

\* Sync fails, in the store or after it.
LEMMA SyncFailsFacts ==
  ASSUME TypeInv, NEW r \in Replicas, SyncFails(r) \/ SyncReplyLost(r)
  PROVE  /\ TypeInv' /\ round'[r] = Idle
         /\ \A s \in Replicas : s # r => round'[s] = round[s]
<1>1. /\ round' = [round EXCEPT ![r] = Idle]
      /\ UNCHANGED <<now, shape, pending, applied>>
      /\ RecordFailure(r) /\ round[r].step = "sync"
      /\ UNCHANGED storeVars \/ StoreSync(r)
  BY DEF SyncFails, SyncReplyLost, cacheVars
<1>2. /\ store' \in Stores /\ published' \in [Places -> CountMaps]
      /\ led' \in [Places -> Nat]
  <2>1. CASE StoreSync(r)
    BY <1>1, <2>1, StoreSyncTypes
  <2>2. CASE UNCHANGED storeVars
    BY <2>2 DEF storeVars, TypeInv
  <2> QED
    BY <1>1, <2>1, <2>2
<1>3. /\ round' \in [Replicas -> Rounds] /\ round'[r] = Idle
      /\ \A s \in Replicas : s # r => round'[s] = round[s]
      /\ \A s \in Replicas : RoundOK(s)'
  BY <1>1, EndTypes
<1>4. TypeInv'
  BY <1>1, <1>2, <1>3, FailureTypes DEF TypeInv
<1> QED
  BY <1>3, <1>4

\* Window answers.
LEMMA ReadFacts ==
  ASSUME TypeInv, NEW r \in Replicas, ReadWindow(r)
  PROVE  /\ TypeInv' /\ round[r].step = "read"
         /\ \E p \in Policies \cup {Undefined} :
              LET w == WindowCounts(store, round[r].ns, round[r].bucket - Window,
                                    round[r].bucket - 1, now)
              IN  /\ p \in Draws(w)
                  /\ round'[r].window = w /\ round'[r].read
                  /\ round'[r].ns = round[r].ns /\ round'[r].bucket = round[r].bucket
                  /\ round'[r].started = round[r].started
                  /\ round'[r].told = round[r].told
                  /\ round'[r].choice = IF p = Undefined THEN round[r].choice ELSE p
                  /\ round'[r].step = IF p = Undefined \/ Mode = "shared"
                                      THEN "apply" ELSE "decide"
         /\ \A s \in Replicas : s # r => round'[s] = round[s]
<1> DEFINE b == round[r].bucket
           w == WindowCounts(store, round[r].ns, b - Window, b - 1, now)
<1>1. round[r].step = "read"
  BY DEF ReadWindow
<1>2. /\ round[r].ns \in Capacities /\ b \in Nat /\ now \in Nat /\ store \in Stores
      /\ b - Window \in Int /\ b - 1 \in Int
  BY <1>1, PlaceFacts, PresentBucket, StoreAssumption DEF TypeInv
<1>3. w \in Windows
  BY <1>2, WindowFacts
<1>4. PICK p \in Draws(w) :
        round' = [round EXCEPT
                    ![r].read = TRUE, ![r].window = w,
                    ![r].choice = IF p = Undefined THEN @ ELSE p,
                    ![r].step = IF p = Undefined \/ Mode = "shared"
                                THEN "apply" ELSE "decide"]
  BY DEF ReadWindow, ReadRange
<1>5. /\ UNCHANGED <<now, shape, pending, lastSync, fallback, lastErr, source, applied,
                     published, led>>
      /\ store' = Expired(store, now)
  BY DEF ReadWindow, cacheVars
<1>6. p \in Policies \cup {Undefined}
  BY <1>4 DEF Draws, Pooled
<1>7. round[r] \in Rounds /\ round[r].started <= now
  BY DEF TypeInv, RoundOK
<1> HIDE DEF w
<1> DEFINE v == [round[r] EXCEPT !.read = TRUE, !.window = w,
                                 !.choice = IF p = Undefined THEN @ ELSE p,
                                 !.step = IF p = Undefined \/ Mode = "shared"
                                          THEN "apply" ELSE "decide"]
<1>8. /\ v \in Rounds /\ v.window = w /\ v.read /\ v.ns = round[r].ns
      /\ v.bucket = round[r].bucket /\ v.started = round[r].started
      /\ v.told = round[r].told
      /\ v.choice = IF p = Undefined THEN round[r].choice ELSE p
      /\ v.step = IF p = Undefined \/ Mode = "shared" THEN "apply" ELSE "decide"
  BY <1>3, <1>6, <1>7 DEF Rounds
<1>9. round' = [round EXCEPT ![r] = v]
  BY <1>4, <1>7 DEF TypeInv
<1> HIDE DEF v
<1>10. v.step = "decide" => v.choice \in Policies /\ Mode = "leader"
  BY <1>6, <1>8, StoreAssumption
<1>11. /\ round' \in [Replicas -> Rounds] /\ round'[r] = v
       /\ \A s \in Replicas : s # r => round'[s] = round[s]
       /\ \A s \in Replicas : RoundOK(s)'
  <2>1. v.ns \in Capacities /\ v.started <= now /\ v.step \in {"apply", "decide"}
    BY <1>2, <1>7, <1>8
  <2> QED
    BY <1>5, <1>8, <1>9, <1>10, <2>1, RoundTypes
<1>12. store' \in Stores
  BY <1>2, <1>5, ExpiredFacts
<1>13. TypeInv'
  BY <1>5, <1>11, <1>12 DEF TypeInv
<1>14. \E q \in Policies \cup {Undefined} :
         /\ q \in Draws(w)
         /\ round'[r].window = w /\ round'[r].read
         /\ round'[r].ns = round[r].ns /\ round'[r].bucket = round[r].bucket
         /\ round'[r].started = round[r].started
         /\ round'[r].told = round[r].told
         /\ round'[r].choice = IF q = Undefined THEN round[r].choice ELSE q
         /\ round'[r].step = IF q = Undefined \/ Mode = "shared" THEN "apply" ELSE "decide"
  BY <1>4, <1>6, <1>8, <1>11
<1> QED
  BY <1>1, <1>11, <1>13, <1>14 DEF w

\* A round that goes on to its end with the choice c.
GoesOn(r, c) ==
  /\ round[r].step \in {"read", "decide"}
  /\ round'[r].step = "apply" /\ round'[r].choice = c
  /\ round'[r].read = round[r].read /\ round'[r].window = round[r].window
  /\ round'[r].ns = round[r].ns /\ round'[r].bucket = round[r].bucket
  /\ round'[r].started = round[r].started
  /\ \A s \in Replicas : s # r => round'[s] = round[s]

LEMMA GoesOnIntro ==
  ASSUME TypeInv, NEW r \in Replicas, NEW c \in Policies \cup {Undefined},
         round[r].step \in {"read", "decide"}, now' = now,
         round' = [round EXCEPT ![r].step = "apply", ![r].choice = c]
  PROVE  /\ GoesOn(r, c) /\ round' \in [Replicas -> Rounds]
         /\ \A s \in Replicas : RoundOK(s)'
<1> DEFINE v == [round[r] EXCEPT !.step = "apply", !.choice = c]
<1>1. /\ round[r] \in Rounds /\ round[r].started <= now
      /\ round[r].ns \in Capacities
  BY DEF TypeInv, RoundOK
<1>2. /\ v \in Rounds /\ v.window = round[r].window /\ v.read = round[r].read
      /\ v.ns = round[r].ns /\ v.bucket = round[r].bucket
      /\ v.started = round[r].started /\ v.choice = c /\ v.step = "apply"
  BY <1>1 DEF Rounds
<1>3. round' = [round EXCEPT ![r] = v]
  BY <1>1 DEF TypeInv
<1> HIDE DEF v
<1>4. /\ round' \in [Replicas -> Rounds] /\ round'[r] = v
      /\ \A s \in Replicas : s # r => round'[s] = round[s]
      /\ \A s \in Replicas : RoundOK(s)'
  <2>1. v.ns \in Capacities /\ v.started <= now
    BY <1>1, <1>2
  <2> QED
    BY <1>2, <1>3, <2>1, RoundTypes
<1> QED
  BY <1>2, <1>4 DEF GoesOn

\* Window fails.
LEMMA ReadFailsFacts ==
  ASSUME TypeInv, NEW r \in Replicas, ReadFails(r)
  PROVE  TypeInv' /\ GoesOn(r, round[r].choice) /\ round[r].step = "read"
<1>1. /\ round[r].step = "read" /\ RecordFailure(r)
      /\ round' = [round EXCEPT ![r].step = "apply"]
      /\ UNCHANGED <<now, store, published, led, shape, pending, applied>>
  BY DEF ReadFails, storeVars, cacheVars
<1>2. round[r] \in Rounds /\ round[r].choice \in Policies \cup {Undefined}
  BY DEF TypeInv, Rounds
<1>3. round' = [round EXCEPT ![r].step = "apply", ![r].choice = round[r].choice]
  BY <1>1, <1>2 DEF TypeInv, Rounds
<1>4. /\ GoesOn(r, round[r].choice) /\ round' \in [Replicas -> Rounds]
      /\ \A s \in Replicas : RoundOK(s)'
  BY <1>1, <1>2, <1>3, GoesOnIntro
<1>5. TypeInv'
  BY <1>1, <1>4, FailureTypes DEF TypeInv
<1> QED
  BY <1>1, <1>4, <1>5

\* Decide answers.
LEMMA DecideFacts ==
  ASSUME TypeInv, NEW r \in Replicas, Decide(r)
  PROVE  /\ TypeInv' /\ GoesOn(r, DecisionFor(store', PlaceOf(r)))
         /\ round[r].step = "decide" /\ round[r].choice \in Policies
         /\ store' = Decided(store, PlaceOf(r), round[r].choice, now)
<1> DEFINE x == PlaceOf(r)
<1>1. /\ round[r].step = "decide"
      /\ store' = Decided(store, x, round[r].choice, now)
      /\ round' = [round EXCEPT ![r].step = "apply", ![r].choice = DecisionFor(store', x)]
      /\ UNCHANGED <<now, published, led, shape, pending, applied, lastSync, fallback,
                     lastErr, source>>
  BY DEF Decide, cacheVars, PlaceOf
<1>2. x \in Places /\ now \in Nat /\ store \in Stores
  BY <1>1, PlaceFacts, PresentBucket DEF TypeInv
<1>3. round[r].choice \in Policies
  BY <1>1 DEF TypeInv, RoundOK
<1>4. store' \in Stores
  BY <1>1, <1>2, <1>3, DecidedFacts
<1>5. DecisionFor(store', x) \in Policies \cup {Undefined}
  <2>1. ASSUME x \in DOMAIN store'.decisions
        PROVE  store'.decisions[x] \in DecisionEntries
    BY <1>4, <2>1, StoreFacts, TableFacts
  <2> QED
    BY <2>1 DEF DecisionFor, DecisionEntries
<1> HIDE DEF x
<1>6. /\ GoesOn(r, DecisionFor(store', x)) /\ round' \in [Replicas -> Rounds]
      /\ \A s \in Replicas : RoundOK(s)'
  BY <1>1, <1>5, GoesOnIntro
<1>7. TypeInv'
  BY <1>1, <1>4, <1>6 DEF TypeInv
<1> QED
  BY <1>1, <1>3, <1>6, <1>7 DEF x

\* Decide fails, in the store or after it.
LEMMA DecideFailsFacts ==
  ASSUME TypeInv, NEW r \in Replicas, DecideFails(r)
  PROVE  /\ TypeInv' /\ GoesOn(r, round[r].told)
         /\ round[r].step = "decide" /\ round[r].choice \in Policies
         /\ \/ store' = store
            \/ store' = Decided(store, PlaceOf(r), round[r].choice, now)
<1> DEFINE x == PlaceOf(r)
<1>1. /\ round[r].step = "decide" /\ RecordFailure(r)
      /\ store' = store \/ store' = Decided(store, x, round[r].choice, now)
      /\ round' = [round EXCEPT ![r].step = "apply", ![r].choice = round[r].told]
      /\ UNCHANGED <<now, published, led, shape, pending, applied>>
  BY DEF DecideFails, cacheVars, PlaceOf
<1>2. x \in Places /\ now \in Nat /\ store \in Stores
  BY <1>1, PlaceFacts, PresentBucket DEF TypeInv
<1>3. round[r].choice \in Policies /\ round[r].told \in Policies \cup {Undefined}
  BY <1>1 DEF TypeInv, RoundOK, Rounds
<1>4. store' \in Stores
  BY <1>1, <1>2, <1>3, DecidedFacts, ZenonT(30)
<1>5. /\ GoesOn(r, round[r].told) /\ round' \in [Replicas -> Rounds]
      /\ \A s \in Replicas : RoundOK(s)'
  BY <1>1, <1>3, GoesOnIntro
<1>6. TypeInv'
  BY <1>1, <1>4, <1>5, FailureTypes DEF TypeInv
<1> QED
  BY <1>1, <1>3, <1>5, <1>6 DEF x

\* A round ends.
LEMMA ApplyFacts ==
  ASSUME TypeInv, NEW r \in Replicas, ApplyResult(r)
  PROVE  /\ TypeInv' /\ round[r].step = "apply" /\ round'[r] = Idle
         /\ \A s \in Replicas : s # r => round'[s] = round[s]
         /\ \/ applied' = applied
            \/ /\ round[r].choice \in Policies
               /\ applied' = [applied EXCEPT ![PlaceOf(r)] = @ \cup {round[r].choice}]
<1>1. /\ round[r].step = "apply" /\ round' = [round EXCEPT ![r] = Idle]
      /\ UNCHANGED <<now, store, published, led, shape, pending>>
      /\ lastSync' = [lastSync EXCEPT ![r] = now]
      /\ lastErr' = [lastErr EXCEPT ![r] = FALSE]
      /\ fallback' = [fallback EXCEPT ![r] = FALSE]
      /\ \/ applied' = applied /\ source' = source
         \/ /\ round[r].choice \in Policies
            /\ applied' = [applied EXCEPT ![PlaceOf(r)] = @ \cup {round[r].choice}]
            /\ source' = [source EXCEPT ![r] = "fleet"]
  BY DEF ApplyResult, storeVars, cacheVars, PlaceOf
<1>2. PlaceOf(r) \in Places /\ now \in Nat
  BY <1>1, PlaceFacts, PresentBucket
<1>3. applied' \in [Places -> SUBSET Policies]
  BY <1>1, <1>2 DEF TypeInv
<1>4. source' \in [Replicas -> {"none", "local", "fleet"}]
  BY <1>1 DEF TypeInv
<1>5. /\ lastErr' \in [Replicas -> BOOLEAN] /\ fallback' \in [Replicas -> BOOLEAN]
      /\ lastSync' \in [Replicas -> Int]
  BY <1>1, <1>2 DEF TypeInv
<1>6. /\ round' \in [Replicas -> Rounds] /\ round'[r] = Idle
      /\ \A s \in Replicas : s # r => round'[s] = round[s]
      /\ \A s \in Replicas : RoundOK(s)'
  BY <1>1, EndTypes
<1>7. TypeInv'
  BY <1>1, <1>3, <1>4, <1>5, <1>6 DEF TypeInv
<1> QED
  BY <1>1, <1>6, <1>7

\* A replica restarts.
LEMMA RestartFacts ==
  ASSUME TypeInv, NEW r \in Replicas, Restart(r)
  PROVE  /\ TypeInv' /\ round'[r] = Idle
         /\ \A s \in Replicas : s # r => round'[s] = round[s]
<1>1. /\ round' = [round EXCEPT ![r] = Idle]
      /\ UNCHANGED <<now, store, published, led, applied>>
      /\ shape' \in [Replicas -> Capacities \cup {NoShape}]
      /\ lastSync' \in [Replicas -> Int]
      /\ fallback' \in [Replicas -> BOOLEAN] /\ lastErr' \in [Replicas -> BOOLEAN]
      /\ source' \in [Replicas -> {"none", "local", "fleet"}]
  BY DEF Restart, storeVars, TypeInv
<1>2. pending' \in [Replicas -> CountMaps]
  BY EmptyFacts DEF Restart, TypeInv
<1>3. /\ round' \in [Replicas -> Rounds] /\ round'[r] = Idle
      /\ \A s \in Replicas : s # r => round'[s] = round[s]
      /\ \A s \in Replicas : RoundOK(s)'
  BY <1>1, EndTypes
<1>4. TypeInv'
  BY <1>1, <1>2, <1>3 DEF TypeInv
<1> QED
  BY <1>3, <1>4

\* The clock moves, or nothing TypeInv is about does.
LEMMA QuietTypes ==
  ASSUME TypeInv, Tick \/ (\E r \in Replicas : SyncNothing(r)) \/ UNCHANGED vars
  PROVE  TypeInv'
<1>1. /\ UNCHANGED <<store, shape, pending, round, lastSync, fallback, lastErr, source,
                     published, led, applied>>
      /\ now' \in 0 .. MaxTime /\ now <= now'
  BY FleetAssumption
     DEF Tick, SyncNothing, vars, storeVars, cacheVars, stateVars, TypeInv
<1>2. \A r \in Replicas : RoundOK(r)'
  <2>1. now \in Int /\ now' \in Int /\ now <= now'
    BY <1>1 DEF TypeInv
  <2>2. \A r \in Replicas : round[r].started \in Int
    BY DEF TypeInv, Rounds
  <2> QED
    BY <1>1, <2>1, <2>2 DEF RoundOK, TypeInv
<1> QED
  BY <1>1, <1>2 DEF TypeInv

LEMMA TypeStep == TypeInv /\ [Next]_vars => TypeInv'
<1> SUFFICES ASSUME TypeInv, [Next]_vars PROVE TypeInv'
  OBVIOUS
<1> QED
  BY RecordTypes, StartFacts, SyncOkFacts, SyncFailsFacts, ReadFacts, ReadFailsFacts,
     DecideFacts, DecideFailsFacts, ApplyFacts, RestartFacts, QuietTypes DEF Next

----------------------------------------------------------------------------
(* What a step does to the store *)

\* An instant after a bucket is in a later one.
LEMMA LaterBucket ==
  ASSUME NEW t \in Nat, NEW b \in Nat, (b + 1) * CoordinationEpoch <= t
  PROVE  BucketAt(t) > b
<1> DEFINE E == CoordinationEpoch
           a == BucketAt(t)
<1>1. a \in Nat /\ E \in Nat /\ t < a * E + E
  BY BucketFacts, StoreAssumption
<1>2. a <= b => (a + 1) * E <= (b + 1) * E
  BY <1>1, EpochsApart
<1> HIDE DEF E, a
<1>3. (a + 1) * E = a * E + E /\ a * E \in Int /\ (b + 1) * E \in Int
  BY <1>1
<1>4. (b + 1) * E <= t
  BY DEF E
<1>5. a > b
  BY <1>1, <1>2, <1>3, <1>4
<1> QED
  BY <1>5 DEF a

\* Expiry of one table, or none.
AtMostExpired(f, g) == g = f \/ g = Unexpired(f, now)

\* A step either is a Sync, or drops expired entries at most, or publishes the
\* decision of a replica that was about to.
LEMMA StoreSteps ==
  ASSUME TypeInv, [Next]_vars
  PROVE  \/ \E r \in Replicas :
              /\ SyncOk(r) \/ SyncReplyLost(r)
              /\ round[r].step = "sync" /\ InTime(r) /\ StoreSync(r) /\ now' = now
         \/ /\ published' = published /\ led' = led
            /\ AtMostExpired(store.counts, store'.counts)
            /\ AtMostExpired(store.leaders, store'.leaders)
            /\ \/ AtMostExpired(store.decisions, store'.decisions)
               \/ \E r \in Replicas :
                    /\ Decide(r) \/ DecideFails(r)
                    /\ round[r].step = "decide" /\ round[r].choice \in Policies
                    /\ store' = Decided(store, PlaceOf(r), round[r].choice, now)
<1> DEFINE Sync == \E r \in Replicas :
              /\ SyncOk(r) \/ SyncReplyLost(r)
              /\ round[r].step = "sync" /\ InTime(r) /\ StoreSync(r) /\ now' = now
           Same == published' = published /\ led' = led /\ store' = store
           Drop == published' = published /\ led' = led /\ store' = Expired(store, now)
           Dec == /\ published' = published /\ led' = led
                  /\ \E r \in Replicas :
                    /\ Decide(r) \/ DecideFails(r)
                    /\ round[r].step = "decide" /\ round[r].choice \in Policies
                    /\ store' = Decided(store, PlaceOf(r), round[r].choice, now)
<1>1. Sync \/ Same \/ Drop \/ Dec
  <2>1. ASSUME NEW r \in Replicas, SyncOk(r) \/ SyncReplyLost(r) PROVE Sync
    BY <2>1 DEF SyncOk, SyncReplyLost
  <2>2. ASSUME NEW r \in Replicas, SyncNothing(r) \/ StartSync(r) \/ SyncFails(r)
               \/ ReadFails(r) \/ ApplyResult(r) \/ Restart(r)
        PROVE  Same
    BY <2>2 DEF SyncNothing, StartSync, SyncFails, ReadFails, ApplyResult, Restart,
                storeVars
  <2>3. ASSUME NEW r \in Replicas, ReadWindow(r) PROVE Drop
    BY <2>3 DEF ReadWindow
  <2>4. ASSUME NEW r \in Replicas, Decide(r) PROVE Dec
    BY <2>4, DecideFacts DEF Decide
  <2>5. ASSUME NEW r \in Replicas, DecideFails(r) PROVE Same \/ Dec
    <3>1. published' = published /\ led' = led
      BY <2>5 DEF DecideFails
    <3>2. CASE store' = store
      BY <3>1, <3>2
    <3>3. CASE store' = Decided(store, PlaceOf(r), round[r].choice, now)
      BY <2>5, <3>1, <3>3, DecideFailsFacts
    <3> QED
      BY <2>5, <3>2, <3>3, DecideFailsFacts
  <2>6. ASSUME NEW r \in Replicas, NEW p \in Policies, NEW g \in Capacities,
               NEW n \in Gets, RecordEpoch(r, p, g, n)
        PROVE  Same
    BY <2>6 DEF RecordEpoch, storeVars
  <2>7. CASE Tick \/ UNCHANGED vars
    BY <2>7 DEF Tick, vars, storeVars
  <2> HIDE DEF Sync, Same, Drop, Dec
  <2> QED
    BY <2>1, <2>2, <2>3, <2>4, <2>5, <2>6, <2>7 DEF Next
<1>2. store \in Stores /\ now \in Nat
  BY PresentBucket DEF TypeInv
<1>3. CASE Same
  BY <1>3 DEF AtMostExpired
<1>4. CASE Drop
  BY <1>2, <1>4, ExpiredFacts DEF AtMostExpired
<1>5. CASE Dec
  <2>1. PICK r \in Replicas :
          /\ Decide(r) \/ DecideFails(r)
          /\ round[r].step = "decide" /\ round[r].choice \in Policies
          /\ store' = Decided(store, PlaceOf(r), round[r].choice, now)
    BY <1>5
  <2>2. PlaceOf(r) \in Places
    BY <2>1, PlaceFacts
  <2>3. store'.counts = Unexpired(store.counts, now)
        /\ store'.leaders = Unexpired(store.leaders, now)
    BY <1>2, <2>1, <2>2, DecidedFacts
  <2> QED
    BY <1>5, <2>1, <2>3 DEF AtMostExpired
<1> QED
  BY <1>1, <1>3, <1>4, <1>5

\* The clock only moves forward.
LEMMA ClockRises ==
  ASSUME TypeInv, [Next]_vars
  PROVE  /\ now \in Nat /\ now' \in Nat /\ now <= now'
         /\ BucketAt(now) \in Nat /\ BucketAt(now') \in Nat
         /\ BucketAt(now) <= BucketAt(now')
<1>1. now \in Nat /\ now' \in Nat
  BY TypeStep DEF TypeInv
<1>2. now' = now \/ now' = now + 1
  BY ZenonT(30) DEF Next, vars, RecordEpoch, SyncNothing, StartSync, SyncOk, SyncFails,
         SyncReplyLost, ReadWindow, ReadFails, Decide, DecideFails, ApplyResult,
         Restart, Tick
<1>3. now <= now'
  BY <1>1, <1>2
<1> QED
  BY <1>1, <1>3, BucketFacts, BucketsRise

\* What of a table outlives a step that drops at most expired entries.
LEMMA KeptFacts ==
  ASSUME TypeInv, NEW V, NEW f \in Table(V), NEW g, AtMostExpired(f, g),
         \A x \in DOMAIN f : f[x].expires \in Nat
  PROVE  /\ g \in Table(V) /\ DOMAIN g \subseteq DOMAIN f
         /\ \A x \in DOMAIN g : g[x] = f[x]
         /\ \A x \in DOMAIN f \ DOMAIN g : f[x].expires <= now
<1>1. now \in Nat
  BY PresentBucket
<1>2. CASE g = f
  BY <1>2
<1>3. CASE g = Unexpired(f, now)
  BY <1>1, <1>3, UnexpiredFacts
<1> QED
  BY <1>2, <1>3 DEF AtMostExpired

----------------------------------------------------------------------------
(* One leader per bucket *)

\* A claim is in the store until its bucket is over.
LEMMA ClaimStands ==
  ASSUME TypeInv, Claimed, NEW x \in Places, led[x] = 1, NEW g,
         AtMostExpired(store.leaders, g)
  PROVE  \/ BucketAt(now) > x[2]
         \/ x \in DOMAIN g /\ g[x].expires >= (x[2] + 2) * CoordinationEpoch
<1>1. /\ store.leaders \in Table(LeaderEntries)
      /\ \A y \in DOMAIN store.leaders : store.leaders[y].expires \in Nat
  BY StoreFacts DEF TypeInv
<1>2. /\ \A y \in DOMAIN g : g[y] = store.leaders[y]
      /\ \A y \in DOMAIN store.leaders \ DOMAIN g : store.leaders[y].expires <= now
  BY <1>1, KeptFacts
<1>3. CASE BucketAt(now) > x[2]
  BY <1>3
<1>4. CASE /\ x \in DOMAIN store.leaders
           /\ store.leaders[x].expires >= (x[2] + 2) * CoordinationEpoch
  <2>1. CASE x \in DOMAIN g
    BY <1>2, <1>4, <2>1
  <2>2. CASE x \notin DOMAIN g
    <3>1. store.leaders[x].expires <= now /\ now \in Nat
          /\ store.leaders[x].expires \in Nat
      BY <1>1, <1>2, <1>4, <2>2, PresentBucket
    <3>2. x[2] \in Nat
      BY DEF Places, Buckets
    <3>3. (x[2] + 1) * CoordinationEpoch <= (x[2] + 2) * CoordinationEpoch
      BY <3>2, EpochsApart
    <3> DEFINE a == (x[2] + 1) * CoordinationEpoch
               b == (x[2] + 2) * CoordinationEpoch
    <3>4. a \in Int /\ b \in Int
      BY <3>2, StoreAssumption
    <3>5. a <= b /\ b <= store.leaders[x].expires
      BY <1>4, <3>1, <3>3, <3>4
    <3> HIDE DEF a, b
    <3>6. a <= now
      BY <3>1, <3>4, <3>5
    <3> QED
      BY <3>1, <3>2, <3>6, LaterBucket DEF a
  <2> QED
    BY <2>1, <2>2
<1> QED
  BY <1>3, <1>4 DEF Claimed

LEMMA ClaimedStep ==
  ASSUME TypeInv, Claimed, [Next]_vars
  PROVE  Claimed'
<1> SUFFICES ASSUME NEW y \in Places
             PROVE  /\ led'[y] <= 1
                    /\ led'[y] = 1 =>
                         \/ BucketAt(now') > y[2]
                         \/ /\ y \in DOMAIN store'.leaders
                            /\ store'.leaders[y].expires >= (y[2] + 2) * CoordinationEpoch
  BY DEF Claimed
<1>1. led[y] \in Nat /\ led[y] <= 1 /\ y[2] \in Nat
  BY DEF TypeInv, Claimed, Places, Buckets
<1>2. /\ now \in Nat /\ now' \in Nat /\ BucketAt(now) \in Nat /\ BucketAt(now') \in Nat
      /\ BucketAt(now) <= BucketAt(now')
  BY ClockRises
<1>3. CASE led' = led /\ AtMostExpired(store.leaders, store'.leaders)
  BY <1>1, <1>2, <1>3, ClaimStands
<1>4. ASSUME NEW r \in Replicas, round[r].step = "sync", StoreSync(r), now' = now
      PROVE  /\ led'[y] <= 1
             /\ led'[y] = 1 =>
                  \/ BucketAt(now') > y[2]
                  \/ /\ y \in DOMAIN store'.leaders
                     /\ store'.leaders[y].expires >= (y[2] + 2) * CoordinationEpoch
  <2> DEFINE x == Place(r)
             old == Unexpired(store.leaders, now)
  <2>1. /\ x \in Places /\ x[2] = BucketAt(now) /\ round[r].counts \in CountMaps
        /\ store \in Stores
    BY <1>4, PlaceFacts DEF TypeInv
  <2>2. /\ store'.leaders = IF Claims(Expired(store, now), x)
                            THEN With(old, x, [value |-> r, expires |-> now + LeaderTTL])
                            ELSE old
        /\ led' = IF Claims(Expired(store, now), x) THEN [led EXCEPT ![x] = @ + 1]
                  ELSE led
    BY <1>2, <1>4, <2>1, SyncedFacts DEF StoreSync
  <2>3. Claims(Expired(store, now), x) <=> Mode = "leader" /\ x \notin DOMAIN old
    BY <1>2, <2>1, ExpiredFacts DEF Claims
  <2>4. AtMostExpired(store.leaders, old) /\ old \in Table(LeaderEntries)
    BY <1>2, <2>1, StoreFacts, UnexpiredFacts DEF AtMostExpired
  <2>5. now + LeaderTTL \in Nat /\ now + LeaderTTL >= (x[2] + 2) * CoordinationEpoch
    <3> DEFINE E == CoordinationEpoch
               b == BucketAt(now)
    <3>1. b \in Nat /\ b * E <= now /\ E \in Nat
      BY <1>2, BucketFacts, StoreAssumption
    <3>2. x[2] = b /\ LeaderTTL = 2 * E
      BY <2>1 DEF LeaderTTL
    <3> HIDE DEF E, b, x
    <3>3. (b + 2) * E = b * E + 2 * E /\ b * E \in Int /\ 2 * E \in Nat
      BY <3>1
    <3>4. now + 2 * E \in Nat /\ now + 2 * E >= (b + 2) * E
      BY <1>2, <3>1, <3>3
    <3> QED
      BY <3>2, <3>4 DEF E
  <2> HIDE DEF x, old
  <2>6. CASE Claims(Expired(store, now), x) /\ y = x
    <3>1. led[y] # 1
      BY <1>2, <2>1, <2>3, <2>4, <2>6, ClaimStands
    <3>2. led'[y] = 1
      BY <1>1, <2>2, <2>6, <3>1 DEF TypeInv
    <3> DEFINE e == [value |-> r, expires |-> now + LeaderTTL]
    <3>3. e \in LeaderEntries /\ e.expires = now + LeaderTTL
      BY <2>5 DEF LeaderEntries
    <3> HIDE DEF e
    <3>4. y \in DOMAIN With(old, x, e) /\ With(old, x, e)[y] = e
      BY <2>6 DEF With
    <3>5. store'.leaders = With(old, x, e)
      BY <2>2, <2>6 DEF e
    <3> QED
      BY <2>5, <2>6, <3>2, <3>3, <3>4, <3>5
  <2>7. CASE ~(Claims(Expired(store, now), x) /\ y = x)
    <3>1. led'[y] = led[y]
      BY <2>2, <2>7 DEF TypeInv
    <3>2. y \in DOMAIN old => y \in DOMAIN store'.leaders /\ store'.leaders[y] = old[y]
      BY <2>2, <2>7 DEF With
    <3> QED
      BY <1>1, <1>4, <2>4, <3>1, <3>2, ClaimStands
  <2> QED
    BY <2>6, <2>7
<1> QED
  BY <1>3, <1>4, StoreSteps

----------------------------------------------------------------------------
(* One decision per bucket *)

\* Nobody starts to lead or to speak.
LEMMA VoiceQuiet ==
  ASSUME OneVoice, Mode = "leader",
         \A y \in Places : led[y] = 1 => led'[y] = 1,
         \A s \in Replicas, y \in Places : Leads(s, y)' => Leads(s, y),
         \A y \in Places, d \in Policies : Speaks(y, d)' => Speaks(y, d)
  PROVE  OneVoice'
BY DEF OneVoice

\* A replica wins the bucket x.
LEMMA VoiceClaim ==
  ASSUME OneVoice, Mode = "leader", NEW r \in Replicas, NEW x \in Places,
         led[x] # 1, led'[x] = 1,
         \A y \in Places : led[y] = 1 => led'[y] = 1,
         \A s \in Replicas, y \in Places :
           Leads(s, y)' => Leads(s, y) \/ (s = r /\ y = x),
         \A y \in Places, d \in Policies : Speaks(y, d)' => Speaks(y, d)
  PROVE  OneVoice'
BY DEF OneVoice

\* The leader of x publishes p.
LEMMA VoiceDecides ==
  ASSUME OneVoice, Mode = "leader", NEW r \in Replicas, NEW x \in Places,
         NEW p \in Policies, Leads(r, x), led' = led,
         \A s \in Replicas, y \in Places : Leads(s, y)' => Leads(s, y) /\ s # r,
         \A y \in Places, d \in Policies :
           Speaks(y, d)' => Speaks(y, d) \/ (y = x /\ d = p)
  PROVE  OneVoice'
BY DEF OneVoice

\* Decisions only disappear from a store.
LEMMA StoredShrinks ==
  ASSUME TypeInv, AtMostExpired(store.decisions, store'.decisions), NEW y, NEW d,
         Stored(y, d)'
  PROVE  Stored(y, d)
<1>1. /\ store.decisions \in Table(DecisionEntries)
      /\ \A x \in DOMAIN store.decisions : store.decisions[x].expires \in Nat
  BY StoreFacts DEF TypeInv
<1>2. /\ DOMAIN store'.decisions \subseteq DOMAIN store.decisions
      /\ \A x \in DOMAIN store'.decisions : store'.decisions[x] = store.decisions[x]
  BY <1>1, KeptFacts
<1> QED
  BY <1>2 DEF Stored

\* A Decide stores at most the decision it was given.
LEMMA StoredGrows ==
  ASSUME TypeInv, NEW x \in Places, NEW p \in Policies,
         store' = Decided(store, x, p, now), NEW y, NEW d, Stored(y, d)'
  PROVE  Stored(y, d) \/ (y = x /\ d = p)
<1> DEFINE old == Unexpired(store.decisions, now)
           e == [value |-> p, expires |-> now + DecisionTTL]
<1>1. /\ store.decisions \in Table(DecisionEntries)
      /\ \A z \in DOMAIN store.decisions : store.decisions[z].expires \in Nat
      /\ store \in Stores /\ now \in Nat
  BY StoreFacts, PresentBucket DEF TypeInv
<1>2. /\ DOMAIN old \subseteq DOMAIN store.decisions
      /\ \A z \in DOMAIN old : old[z] = store.decisions[z]
  BY <1>1, UnexpiredFacts
<1>3. store'.decisions = IF x \in DOMAIN old THEN old ELSE With(old, x, e)
  BY <1>1, DecidedFacts
<1>4. e.value = p
  OBVIOUS
<1> HIDE DEF old, e
<1>5. y \in DOMAIN store'.decisions => y \in DOMAIN old \/ y = x
  BY <1>3 DEF With
<1>6. y \in DOMAIN old => store'.decisions[y] = old[y]
  BY <1>3 DEF With
<1>7. y \notin DOMAIN old /\ y = x => store'.decisions[y] = e
  BY <1>3 DEF With
<1> QED
  BY <1>2, <1>4, <1>5, <1>6, <1>7 DEF Stored

\* A decision spoken of after a step was spoken of before, if nothing new was
\* applied, stored or carried.
LEMMA SpeaksAs ==
  ASSUME NEW y \in Places, NEW d, Speaks(y, d)',
         d \in applied'[y] => Speaks(y, d),
         Stored(y, d)' => Speaks(y, d),
         \A s \in Replicas : Carries(s, y, d)' => Speaks(y, d)
  PROVE  Speaks(y, d)
BY DEF Speaks

\* Rounds that did not change lead and carry what they did.
LEMMA SameRound ==
  ASSUME NEW s \in Replicas, round'[s] = round[s]
  PROVE  \A y, d : /\ Leads(s, y)' => Leads(s, y)
                   /\ Carries(s, y, d)' => Speaks(y, d)
BY DEF Leads, Carries, Speaks, PlaceOf

LEMMA VoiceStep ==
  ASSUME TypeInv, Claimed, ReadsUndecided, OneVoice, [Next]_vars
  PROVE  OneVoice'
<1> SUFFICES ASSUME Mode = "leader" PROVE OneVoice'
  BY DEF OneVoice
<1>1. now \in Nat /\ store \in Stores /\ TypeInv'
  BY PresentBucket, TypeStep DEF TypeInv
<1>2. \A y \in Places, d \in Policies : d \in applied[y] \/ Stored(y, d) => Speaks(y, d)
  BY DEF Speaks
<1>q. ASSUME led' = led, applied' = applied,
             AtMostExpired(store.decisions, store'.decisions),
             NEW r \in Replicas, \A s \in Replicas : s # r => round'[s] = round[s],
             \A y \in Places : Leads(r, y)' => Leads(r, y),
             \A y \in Places, d \in Policies : Carries(r, y, d)' => Speaks(y, d)
      PROVE  OneVoice'
  <2>1. \A s \in Replicas, y \in Places : Leads(s, y)' => Leads(s, y)
    BY <1>q, SameRound
  <2>2. ASSUME NEW y \in Places, NEW d \in Policies, Speaks(y, d)' PROVE Speaks(y, d)
    <3>1. \A s \in Replicas : Carries(s, y, d)' => Speaks(y, d)
      BY <1>q, SameRound
    <3>2. Stored(y, d)' => Speaks(y, d)
      BY <1>q, <1>2, StoredShrinks
    <3> QED
      BY <1>q, <1>2, <2>2, <3>1, <3>2, SpeaksAs
  <2> QED
    BY <1>q, <2>1, <2>2, VoiceQuiet
<1>3. ASSUME UNCHANGED <<led, applied, store, round>> PROVE OneVoice'
  BY <1>3 DEF OneVoice, Leads, Speaks, Stored, Carries, PlaceOf
<1>4. ASSUME NEW r \in Replicas, StartSync(r) \/ SyncFails(r) \/ Restart(r)
      PROVE  OneVoice'
  <2>1. /\ UNCHANGED <<led, applied, store>>
        /\ \A s \in Replicas : s # r => round'[s] = round[s]
        /\ round'[r].step \in {"idle", "sync"}
    BY <1>4, StartFacts, SyncFailsFacts, RestartFacts, IdleFacts
       DEF StartSync, SyncFails, Restart, storeVars
  <2>2. \A y, d : ~Leads(r, y)' /\ ~Carries(r, y, d)'
    BY <2>1 DEF Leads, Carries
  <2> QED
    BY <1>q, <2>1, <2>2 DEF AtMostExpired
<1>5. ASSUME NEW r \in Replicas, ReadFails(r) PROVE OneVoice'
  <2>1. UNCHANGED <<led, applied, store>> /\ GoesOn(r, round[r].choice)
        /\ round[r].step = "read"
    BY <1>5, ReadFailsFacts DEF ReadFails, storeVars
  <2>2. round'[r].step = "apply" /\ round'[r].choice = Undefined
        /\ \A s \in Replicas : s # r => round'[s] = round[s]
    BY <2>1 DEF GoesOn, ReadsUndecided
  <2>3. \A y : ~Leads(r, y)' /\ \A d \in Policies : ~Carries(r, y, d)'
    BY <2>2, EmptyFacts DEF Leads, Carries
  <2> QED
    BY <1>q, <2>1, <2>2, <2>3 DEF AtMostExpired
<1>6. ASSUME NEW r \in Replicas, ReadWindow(r) PROVE OneVoice'
  <2>1. PICK p \in Policies \cup {Undefined} :
          /\ round'[r].ns = round[r].ns /\ round'[r].bucket = round[r].bucket
          /\ round'[r].choice = IF p = Undefined THEN round[r].choice ELSE p
          /\ round'[r].step = IF p = Undefined \/ Mode = "shared"
                              THEN "apply" ELSE "decide"
    BY <1>6, ReadFacts
  <2>2. /\ round[r].step = "read" /\ round[r].choice = Undefined
        /\ \A s \in Replicas : s # r => round'[s] = round[s]
    BY <1>6, ReadFacts DEF ReadsUndecided
  <2>3. /\ led' = led /\ applied' = applied
        /\ AtMostExpired(store.decisions, store'.decisions)
    <3>1. led' = led /\ applied' = applied /\ store' = Expired(store, now)
      BY <1>6 DEF ReadWindow
    <3> QED
      BY <1>1, <3>1, ExpiredFacts DEF AtMostExpired
  <2>4. \A y : Leads(r, y)' => Leads(r, y)
    BY <2>1, <2>2 DEF Leads, PlaceOf
  <2>5. \A y, d : d \in Policies => ~Carries(r, y, d)'
    BY <2>1, <2>2, EmptyFacts DEF Carries
  <2> QED
    BY <1>q, <2>2, <2>3, <2>4, <2>5
<1>7. ASSUME NEW r \in Replicas, ApplyResult(r) PROVE OneVoice'
  <2>1. /\ round[r].step = "apply" /\ round'[r] = Idle
        /\ \A s \in Replicas : s # r => round'[s] = round[s]
        /\ \/ applied' = applied
           \/ /\ round[r].choice \in Policies
              /\ applied' = [applied EXCEPT ![PlaceOf(r)] = @ \cup {round[r].choice}]
    BY <1>7, ApplyFacts
  <2>2. led' = led /\ store' = store
    BY <1>7 DEF ApplyResult, storeVars
  <2>3. \A y, d : ~Leads(r, y)' /\ ~Carries(r, y, d)'
    BY <2>1, IdleFacts DEF Leads, Carries
  <2>4. ASSUME NEW y \in Places, NEW d \in Policies, d \in applied'[y]
        PROVE  Speaks(y, d)
    <3>1. d \in applied[y] \/ Carries(r, y, d)
      BY <2>1, <2>4 DEF Carries, TypeInv
    <3> QED
      BY <3>1 DEF Speaks
  <2>5. ASSUME NEW y \in Places, NEW d \in Policies, Speaks(y, d)' PROVE Speaks(y, d)
    <3>1. \A s \in Replicas : Carries(s, y, d)' => Speaks(y, d)
      BY <2>1, <2>3, SameRound
    <3>2. Stored(y, d)' => Speaks(y, d)
      BY <1>2, <2>2 DEF Stored
    <3> QED
      BY <2>4, <2>5, <3>1, <3>2, SpeaksAs
  <2>6. \A s \in Replicas, y \in Places : Leads(s, y)' => Leads(s, y)
    BY <2>1, <2>3, SameRound
  <2> QED
    BY <2>2, <2>5, <2>6, VoiceQuiet
<1>8. ASSUME NEW r \in Replicas, Decide(r) \/ DecideFails(r) PROVE OneVoice'
  <2> DEFINE x == PlaceOf(r)
             p == round[r].choice
  <2>1. /\ led' = led /\ applied' = applied
    BY <1>8 DEF Decide, DecideFails
  <2>2. /\ round[r].step = "decide" /\ p \in Policies
        /\ \/ store' = store /\ GoesOn(r, Undefined)
           \/ /\ store' = Decided(store, x, p, now)
              /\ GoesOn(r, Undefined) \/ GoesOn(r, DecisionFor(store', x))
    BY <1>8, DecideFacts, DecideFailsFacts DEF ReadsUndecided
  <2>3. /\ x \in Places /\ Leads(r, x)
    BY <2>2, PlaceFacts DEF Leads
  <2> HIDE DEF x, p
  <2>4. /\ round'[r].step = "apply" /\ PlaceOf(r)' = x
        /\ \A s \in Replicas : s # r => round'[s] = round[s]
        /\ round'[r].choice \in Policies =>
             /\ store' = Decided(store, x, p, now)
             /\ round'[r].choice = DecisionFor(store', x)
    BY <2>2, EmptyFacts DEF GoesOn, PlaceOf, x
  <2>5. ASSUME NEW y \in Places, NEW d \in Policies, Stored(y, d)'
        PROVE  Speaks(y, d) \/ (y = x /\ d = p)
    <3>1. CASE store' = store
      BY <1>2, <2>5, <3>1 DEF Stored
    <3>2. CASE store' = Decided(store, x, p, now)
      BY <1>2, <2>2, <2>3, <2>5, <3>2, StoredGrows
    <3> QED
      BY <2>2, <3>1, <3>2
  <2>6. ASSUME NEW y \in Places, NEW d \in Policies, Carries(r, y, d)'
        PROVE  Speaks(y, d) \/ (y = x /\ d = p)
    <3>1. y = x /\ d = round'[r].choice
      BY <2>4, <2>6 DEF Carries
    <3>2. Stored(y, d)'
      BY <2>4, <3>1, EmptyFacts DEF Stored, DecisionFor
    <3> QED
      BY <2>5, <3>2
  <2>7. ASSUME NEW y \in Places, NEW d \in Policies, Speaks(y, d)'
        PROVE  Speaks(y, d) \/ (y = x /\ d = p)
    <3>1. \A s \in Replicas : s # r /\ Carries(s, y, d)' => Speaks(y, d)
      BY <2>4, SameRound
    <3> QED
      BY <1>2, <2>1, <2>5, <2>6, <2>7, <3>1 DEF Speaks
  <2>8. \A s \in Replicas, y \in Places : Leads(s, y)' => Leads(s, y) /\ s # r
    <3>1. \A y : ~Leads(r, y)'
      BY <2>4 DEF Leads
    <3> QED
      BY <2>4, <3>1, SameRound
  <2> QED
    BY <2>1, <2>2, <2>3, <2>7, <2>8, VoiceDecides
<1>9. ASSUME NEW r \in Replicas, SyncOk(r) \/ SyncReplyLost(r) PROVE OneVoice'
  <2> DEFINE x == Place(r)
             live == Expired(store, now)
  <2>1. /\ round[r].step = "sync" /\ StoreSync(r) /\ applied' = applied /\ now' = now
        /\ \A s \in Replicas : s # r => round'[s] = round[s]
    BY <1>9, SyncOkFacts, SyncFailsFacts DEF SyncOk, SyncReplyLost
  <2>2. x \in Places /\ x[2] = BucketAt(now) /\ round[r].counts \in CountMaps
        /\ x[1] = round[r].ns
    BY <2>1, PlaceFacts
  <2>3. led' = IF Claims(live, x) THEN [led EXCEPT ![x] = @ + 1] ELSE led
    BY <2>1 DEF StoreSync
  <2>4. AtMostExpired(store.decisions, store'.decisions)
    BY <1>1, <2>1, <2>2, SyncedFacts DEF StoreSync, AtMostExpired
  <2>5. Claims(live, x) => led[x] # 1
    <3>1. AtMostExpired(store.leaders, live.leaders)
      BY <1>1, ExpiredFacts DEF AtMostExpired
    <3>2. BucketAt(now) \in Nat
      BY <1>1, BucketFacts
    <3> QED
      BY <2>2, <3>1, <3>2, ClaimStands DEF Claims
  <2>6. live.decisions = Unexpired(store.decisions, now)
    BY <1>1, ExpiredFacts
  <2> HIDE DEF x, live
  <2>7. \A y \in Places : led[y] = 1 => led'[y] = 1
    BY <2>2, <2>3, <2>5 DEF TypeInv
  <2>8. Claims(live, x) => led'[x] = 1
    <3>1. led[x] \in Nat /\ led[x] <= 1
      BY <2>2 DEF TypeInv, Claimed
    <3> QED
      BY <2>2, <2>3, <2>5, <3>1 DEF TypeInv
  <2>9. ASSUME NEW d \in Policies, DecisionFor(live, x) = d PROVE Speaks(x, d)
    <3>1. /\ store.decisions \in Table(DecisionEntries)
          /\ \A y \in DOMAIN store.decisions : store.decisions[y].expires \in Nat
      BY <1>1, StoreFacts
    <3>2. /\ DOMAIN live.decisions \subseteq DOMAIN store.decisions
          /\ \A y \in DOMAIN live.decisions : live.decisions[y] = store.decisions[y]
      BY <1>1, <2>6, <3>1, UnexpiredFacts
    <3>3. Stored(x, d)
      BY <2>9, <3>2, EmptyFacts DEF DecisionFor, Stored
    <3> QED
      BY <2>2, <3>3 DEF Speaks
  <2>10. /\ \A y : Leads(r, y)' => Claims(live, x) /\ y = x
         /\ \A y \in Places, d \in Policies : Carries(r, y, d)' => Speaks(y, d)
    <3>1. CASE SyncReplyLost(r)
      <4>1. round'[r] = Idle
        BY <3>1, SyncFailsFacts
      <4> QED
        BY <4>1, IdleFacts DEF Leads, Carries
    <3>2. CASE SyncOk(r)
      <4>1. /\ round'[r].step = IF Claims(live, x) \/ Mode = "shared"
                                THEN "read" ELSE "apply"
            /\ round'[r].ns = round[r].ns /\ round'[r].bucket = BucketAt(now)
            /\ round'[r].choice = IF Mode = "shared" THEN Undefined
                                  ELSE DecisionFor(live, x)
        BY <3>2, SyncOkFacts DEF x, live
      <4>2. PlaceOf(r)' = x
        BY <4>1 DEF PlaceOf, Place, x
      <4> QED
        BY <2>9, <4>1, <4>2 DEF Leads, Carries
    <3> QED
      BY <1>9, <3>1, <3>2
  <2>11. ASSUME NEW y \in Places, NEW d \in Policies, Speaks(y, d)' PROVE Speaks(y, d)
    <3>1. \A s \in Replicas : Carries(s, y, d)' => Speaks(y, d)
      BY <2>1, <2>10, SameRound
    <3>2. Stored(y, d)' => Speaks(y, d)
      BY <1>2, <2>4, StoredShrinks
    <3> QED
      BY <1>2, <2>1, <2>11, <3>1, <3>2, SpeaksAs
  <2>12. \A s \in Replicas, y \in Places :
           Leads(s, y)' => Leads(s, y) \/ (Claims(live, x) /\ s = r /\ y = x)
    BY <2>1, <2>10, SameRound
  <2>13. CASE Claims(live, x)
    BY <2>2, <2>5, <2>7, <2>8, <2>11, <2>12, <2>13, VoiceClaim
  <2>14. CASE ~Claims(live, x)
    BY <2>7, <2>11, <2>12, <2>14, VoiceQuiet
  <2> QED
    BY <2>13, <2>14
<1>10. ASSUME Tick \/ UNCHANGED vars \/ (\E r \in Replicas : SyncNothing(r))
              \/ \E r \in Replicas, p \in Policies, g \in Capacities, n \in Gets :
                   RecordEpoch(r, p, g, n)
       PROVE  UNCHANGED <<led, applied, store, round>>
  BY <1>10 DEF Tick, vars, SyncNothing, RecordEpoch, storeVars
<1> QED
  BY <1>3, <1>4, <1>5, <1>6, <1>7, <1>8, <1>9, <1>10 DEF Next

----------------------------------------------------------------------------
(* Fallback *)

\* A fallback that stays is as stale as before, or staler.
LEMMA FallbackStep ==
  ASSUME TypeInv, FallbackIsEarned, [Next]_vars
  PROVE  FallbackIsEarned'
<1>1. now \in Nat /\ now' \in Nat /\ now <= now' /\ FallbackAfter \in Nat
  BY ClockRises, FleetAssumption DEF ValidConfig
<1> SUFFICES ASSUME NEW s \in Replicas, fallback'[s]
             PROVE  /\ source'[s] = "local" /\ lastErr'[s]
                    /\ lastSync'[s] = -1 \/ now' - lastSync'[s] > FallbackAfter
  BY DEF FallbackIsEarned
<1>2. lastSync[s] \in Int
  BY DEF TypeInv
<1>3. ASSUME UNCHANGED <<source, lastErr, lastSync, fallback>>
      PROVE  /\ source'[s] = "local" /\ lastErr'[s]
             /\ lastSync'[s] = -1 \/ now' - lastSync'[s] > FallbackAfter
  BY <1>1, <1>2, <1>3 DEF FallbackIsEarned
<1>4. ASSUME NEW r \in Replicas, RecordFailure(r), now' = now
      PROVE  /\ source'[s] = "local" /\ lastErr'[s]
             /\ lastSync'[s] = -1 \/ now' - lastSync'[s] > FallbackAfter
  <2>1. lastSync' = lastSync /\ lastErr' = [lastErr EXCEPT ![r] = TRUE]
    BY <1>4 DEF RecordFailure
  <2>2. CASE s = r /\ Stale(r)
    <3>1. source' = [source EXCEPT ![r] = "local"]
      BY <1>4, <2>2 DEF RecordFailure
    <3> QED
      BY <1>4, <2>1, <2>2, <3>1 DEF Stale, TypeInv
  <2>3. CASE ~(s = r /\ Stale(r))
    <3>1. fallback'[s] = fallback[s] /\ source'[s] = source[s]
      BY <1>4, <2>3 DEF RecordFailure, TypeInv
    <3>2. lastErr'[s] = (s = r \/ lastErr[s])
      BY <2>1 DEF TypeInv
    <3> QED
      BY <1>4, <2>1, <3>1, <3>2 DEF FallbackIsEarned
  <2> QED
    BY <2>2, <2>3
<1>5. ASSUME NEW r \in Replicas, ApplyResult(r) \/ Restart(r)
      PROVE  /\ source'[s] = "local" /\ lastErr'[s]
             /\ lastSync'[s] = -1 \/ now' - lastSync'[s] > FallbackAfter
  <2>1. fallback' = [fallback EXCEPT ![r] = FALSE] /\ now' = now
    BY <1>5 DEF ApplyResult, Restart
  <2>2. s # r
    BY <2>1 DEF TypeInv
  <2>3. /\ fallback'[s] = fallback[s] /\ source'[s] = source[s]
        /\ lastErr'[s] = lastErr[s] /\ lastSync'[s] = lastSync[s]
    BY <1>5, <2>2 DEF ApplyResult, Restart, TypeInv
  <2> QED
    BY <2>1, <2>3 DEF FallbackIsEarned
<1>6. ASSUME NEW r \in Replicas, SyncNothing(r) \/ StartSync(r) \/ SyncOk(r)
             \/ ReadWindow(r) \/ Decide(r)
      PROVE  UNCHANGED <<source, lastErr, lastSync, fallback>>
  BY <1>6 DEF SyncNothing, StartSync, SyncOk, ReadWindow, Decide, stateVars
<1>7. ASSUME NEW r \in Replicas,
             SyncFails(r) \/ SyncReplyLost(r) \/ ReadFails(r) \/ DecideFails(r)
      PROVE  RecordFailure(r) /\ now' = now
  BY <1>7 DEF SyncFails, SyncReplyLost, ReadFails, DecideFails
<1>8. ASSUME Tick \/ UNCHANGED vars
             \/ \E r \in Replicas, p \in Policies, g \in Capacities, n \in Gets :
                  RecordEpoch(r, p, g, n)
      PROVE  UNCHANGED <<source, lastErr, lastSync, fallback>>
  BY <1>8 DEF Tick, vars, RecordEpoch, stateVars
<1> QED
  BY <1>3, <1>4, <1>5, <1>6, <1>7, <1>8 DEF Next

----------------------------------------------------------------------------
(* What a step does to a round *)

LEMMA RoundSteps ==
  ASSUME TypeInv, [Next]_vars, NEW s \in Replicas
  PROVE  \/ round'[s] = round[s]
         \/ round'[s].step \in {"idle", "sync"} /\ ~round'[s].read
         \/ SyncOk(s)
         \/ ReadWindow(s)
         \/ \E c \in Policies \cup {Undefined} :
              GoesOn(s, c) /\ (c # Undefined => round[s].choice # Undefined)
<1> DEFINE Goal ==
             \/ round'[s] = round[s]
             \/ round'[s].step \in {"idle", "sync"} /\ ~round'[s].read
             \/ SyncOk(s)
             \/ ReadWindow(s)
             \/ \E c \in Policies \cup {Undefined} :
                  GoesOn(s, c) /\ (c # Undefined => round[s].choice # Undefined)
<1>1. ASSUME NEW r \in Replicas, StartSync(r) \/ SyncFails(r) \/ SyncReplyLost(r)
             \/ ApplyResult(r) \/ Restart(r)
      PROVE  Goal
  BY <1>1, StartFacts, SyncFailsFacts, ApplyFacts, RestartFacts, IdleFacts
<1>2. ASSUME NEW r \in Replicas, SyncOk(r) PROVE Goal
  BY <1>2, SyncOkFacts
<1>3. ASSUME NEW r \in Replicas, ReadWindow(r) PROVE Goal
  BY <1>3, ReadFacts
<1>4. ASSUME NEW r \in Replicas, ReadFails(r) PROVE Goal
  <2>1. round[r].choice \in Policies \cup {Undefined}
    BY DEF TypeInv, Rounds
  <2>2. GoesOn(r, round[r].choice)
    BY <1>4, ReadFailsFacts
  <2>3. s # r => round'[s] = round[s]
    BY <2>2 DEF GoesOn
  <2> QED
    BY <2>1, <2>2, <2>3
<1>5. ASSUME NEW r \in Replicas, Decide(r) PROVE Goal
  <2> DEFINE c == DecisionFor(store', PlaceOf(r))
  <2>1. GoesOn(r, c) /\ TypeInv' /\ round[r].choice \in Policies
    BY <1>5, DecideFacts
  <2>2. c \in Policies \cup {Undefined}
    BY <2>1 DEF GoesOn, TypeInv, Rounds
  <2> HIDE DEF c
  <2>3. s # r => round'[s] = round[s]
    BY <2>1 DEF GoesOn
  <2> QED
    BY <2>1, <2>2, <2>3, EmptyFacts
<1>6. ASSUME NEW r \in Replicas, DecideFails(r) PROVE Goal
  <2>1. /\ GoesOn(r, round[r].told) /\ round[r].choice # Undefined
        /\ round[r].told \in Policies \cup {Undefined}
    BY <1>6, DecideFailsFacts, EmptyFacts DEF TypeInv, Rounds
  <2>2. s # r => round'[s] = round[s]
    BY <2>1 DEF GoesOn
  <2> QED
    BY <2>1, <2>2
<1>7. ASSUME Tick \/ UNCHANGED vars \/ (\E r \in Replicas : SyncNothing(r))
             \/ \E r \in Replicas, p \in Policies, g \in Capacities, n \in Gets :
                  RecordEpoch(r, p, g, n)
       PROVE  round' = round
  BY <1>7 DEF Tick, vars, SyncNothing, RecordEpoch
<1> HIDE DEF Goal
<1>8. Goal
  <2>1. round' = round => Goal
    BY DEF Goal
  <2> QED
    BY <1>1, <1>2, <1>3, <1>4, <1>5, <1>6, <1>7, <2>1 DEF Next
<1> QED
  BY <1>8 DEF Goal

\* The leader of a bucket finds it undecided.
LEMMA UndecidedStep ==
  ASSUME TypeInv, Claimed, OneVoice, ReadsUndecided, [Next]_vars
  PROVE  ReadsUndecided'
<1> SUFFICES ASSUME NEW s \in Replicas, round'[s].step \in {"read", "decide"}
             PROVE  /\ round'[s].step = "read" => round'[s].choice = Undefined
                    /\ round'[s].told = Undefined
  BY DEF ReadsUndecided
<1>1. CASE round'[s] = round[s]
  BY <1>1 DEF ReadsUndecided
<1>2. CASE SyncOk(s)
  <2> DEFINE x == Place(s)
             live == Expired(store, now)
  <2>1. /\ Claims(live, x) \/ Mode = "shared"
        /\ round'[s].choice = IF Mode = "shared" THEN Undefined ELSE DecisionFor(live, x)
        /\ round'[s].step = IF Claims(live, x) \/ Mode = "shared" THEN "read" ELSE "apply"
        /\ round'[s].told = round'[s].choice
    BY <1>2, SyncOkFacts
  <2>2. CASE Mode = "leader"
    <3>1. Claims(live, x) /\ x \in Places /\ x[2] = BucketAt(now) /\ now \in Nat
          /\ store \in Stores
      BY <1>2, <2>1, <2>2, PlaceFacts, PresentBucket DEF SyncOk, TypeInv
    <3>2. live \in Stores /\ live.decisions = Unexpired(store.decisions, now)
          /\ AtMostExpired(store.leaders, live.leaders)
      BY <3>1, ExpiredFacts DEF AtMostExpired
    <3>3. led[x] # 1
      BY <3>1, <3>2, BucketFacts, ClaimStands DEF Claims
    <3> HIDE DEF x, live
    <3>4. ASSUME x \in DOMAIN live.decisions PROVE FALSE
      <4>1. /\ x \in DOMAIN store.decisions
            /\ live.decisions[x] = store.decisions[x]
        BY <3>1, <3>2, <3>4, StoreFacts, UnexpiredFacts
      <4>2. store.decisions[x] \in DecisionEntries
        BY <3>1, <4>1, StoreFacts, TableFacts
      <4>3. store.decisions[x].value \in Policies
        BY <4>2 DEF DecisionEntries
      <4>4. Speaks(x, store.decisions[x].value)
        BY <4>1 DEF Speaks, Stored
      <4> QED
        BY <2>2, <3>1, <3>3, <4>3, <4>4 DEF OneVoice
    <3>5. DecisionFor(live, x) = Undefined
      BY <3>4 DEF DecisionFor
    <3> QED
      BY <2>1, <2>2, <3>5
  <2> QED
    BY <2>1, <2>2, StoreAssumption
<1>3. CASE ReadWindow(s)
  <2>1. round'[s].step \in {"apply", "decide"} /\ round'[s].told = round[s].told
        /\ round[s].step = "read"
    BY <1>3, ReadFacts
  <2> QED
    BY <2>1 DEF ReadsUndecided
<1>4. CASE \E c \in Policies \cup {Undefined} : GoesOn(s, c)
  BY <1>4 DEF GoesOn
<1> QED
  BY <1>1, <1>2, <1>3, <1>4, RoundSteps

----------------------------------------------------------------------------
(* Evidence stays until it is read *)

\* Arithmetic of expiry: counters written in bucket b outlive GoneAt(b), which is
\* not before the end of the bucket that comes Window buckets later.
LEMMA ExpiryFacts ==
  ASSUME NEW b \in Nat
  PROVE  /\ GoneAt(b) \in Nat
         /\ CounterTTL \in Nat
         /\ \A t \in Nat : BucketAt(t) = b => t + CounterTTL >= GoneAt(b) /\ t < GoneAt(b)
         /\ \A c \in Nat : c <= b + Window => (c + 2) * CoordinationEpoch <= GoneAt(b)
<1> DEFINE E == CoordinationEpoch
           W == Window
<1>1. E \in Nat /\ W \in Nat
  BY StoreAssumption
<1>2. GoneAt(b) = (b + W + 2) * E /\ CounterTTL = (W + 2) * E
  BY DEF GoneAt, CounterTTL
<1>3. \A c \in Nat : c <= b + Window => (c + 2) * CoordinationEpoch <= GoneAt(b)
  <2>1. ASSUME NEW c \in Nat, c <= b + Window PROVE (c + 2) * E <= (b + W + 2) * E
    <3>1. c + 2 \in Int /\ b + W + 2 \in Int /\ c + 2 <= b + W + 2
      BY <1>1, <2>1
    <3> QED
      BY <3>1, EpochsApart
  <2> QED
    BY <1>2, <2>1
<1>4. \A t \in Nat : BucketAt(t) = b => b * E <= t /\ t < b * E + E
  BY BucketFacts
<1> HIDE DEF E, W
<1>5. /\ (b + W + 2) * E = b * E + (W + 2) * E /\ b * E \in Nat
      /\ (W + 2) * E \in Nat /\ E <= (W + 2) * E
  <2>1. W * E \in Nat /\ (W + 2) * E = W * E + 2 * E /\ b * E \in Nat
    BY <1>1
  <2>2. (b + W + 2) * E = b * E + (W + 2) * E
    BY <1>1
  <2> QED
    BY <1>1, <2>1, <2>2
<1>6. \A t \in Nat : BucketAt(t) = b => /\ t + (W + 2) * E >= b * E + (W + 2) * E
                                        /\ t < b * E + (W + 2) * E
  BY <1>1, <1>4, <1>5
<1>7. b * E + (W + 2) * E \in Nat
  BY <1>5
<1> QED
  BY <1>2, <1>3, <1>5, <1>6, <1>7

\* What Kept says of a place, with g for the store's counters.
KeptAt(g, x) ==
  IF x \in DOMAIN g
  THEN g[x].arms = published[x] /\ g[x].expires >= GoneAt(x[2])
  ELSE published[x] = NoCounts \/ now >= GoneAt(x[2])

LEMMA KeptLive ==
  ASSUME TypeInv, Kept, NEW x \in Places, NEW g, AtMostExpired(store.counts, g)
  PROVE  KeptAt(g, x)
<1>1. /\ store.counts \in Table(CountEntries) /\ now \in Nat
      /\ \A y \in DOMAIN store.counts : store.counts[y].expires \in Nat
  BY StoreFacts, PresentBucket DEF TypeInv
<1>2. /\ DOMAIN g \subseteq DOMAIN store.counts
      /\ \A y \in DOMAIN g : g[y] = store.counts[y]
      /\ \A y \in DOMAIN store.counts \ DOMAIN g : store.counts[y].expires <= now
  BY <1>1, KeptFacts
<1>3. KeptAt(store.counts, x)
  BY DEF Kept, KeptAt
<1>4. x[2] \in Nat
  BY DEF Places, Buckets
<1>5. GoneAt(x[2]) \in Nat
  BY <1>4, ExpiryFacts
<1>6. CASE x \in DOMAIN g
  BY <1>2, <1>3, <1>6 DEF KeptAt
<1>7. CASE x \notin DOMAIN g /\ x \in DOMAIN store.counts
  <2>1. store.counts[x].expires \in Nat /\ store.counts[x].expires <= now
    BY <1>1, <1>2, <1>7
  <2>2. store.counts[x].expires >= GoneAt(x[2])
    BY <1>3, <1>7 DEF KeptAt
  <2>3. now >= GoneAt(x[2])
    BY <1>1, <1>5, <2>1, <2>2
  <2> QED
    BY <1>7, <2>3 DEF KeptAt
<1>8. CASE x \notin DOMAIN g /\ x \notin DOMAIN store.counts
  BY <1>3, <1>8 DEF KeptAt
<1> QED
  BY <1>6, <1>7, <1>8

\* What a Sync does to the counters.
LEMMA SyncCounts ==
  ASSUME TypeInv, NEW r \in Replicas, round[r].step = "sync", StoreSync(r)
  PROVE  LET x == Place(r)
             old == Unexpired(store.counts, now)
             c == Sent(round[r].counts)
             before == IF x \in DOMAIN old THEN old[x].arms ELSE NoCounts
         IN  /\ x \in Places /\ x[2] = BucketAt(now) /\ c \in CountMaps
             /\ before \in CountMaps
             /\ published' = [published EXCEPT ![x] = AddCounts(@, c)]
             /\ store'.counts = IF c = NoCounts THEN old
                                ELSE With(old, x, [arms |-> AddCounts(before, c),
                                                   expires |-> now + CounterTTL])
<1> DEFINE x == Place(r)
           old == Unexpired(store.counts, now)
           c == Sent(round[r].counts)
           before == IF x \in DOMAIN old THEN old[x].arms ELSE NoCounts
           live == Expired(store, now)
<1>1. /\ x \in Places /\ x[2] = BucketAt(now) /\ round[r].counts \in CountMaps
      /\ store \in Stores /\ now \in Nat
  BY PlaceFacts, PresentBucket DEF TypeInv
<1>2. c \in CountMaps
  BY <1>1, SentFacts
<1>3. live \in Stores /\ live.counts = old
  BY <1>1, ExpiredFacts
<1>4. before \in CountMaps
  <2>1. ASSUME x \in DOMAIN old PROVE old[x] \in CountEntries
    BY <1>1, <2>1, StoreFacts, UnexpiredFacts, TableFacts
  <2> QED
    BY <2>1, EmptyFacts DEF CountEntries
<1>5. /\ store'.counts = Published(live, x, c, now).counts
      /\ published' = [published EXCEPT ![x] = AddCounts(@, c)]
  BY <1>1, SyncedFacts DEF StoreSync
<1>6. Published(live, x, c, now)
        = IF c = NoCounts THEN live
          ELSE [live EXCEPT !.counts = With(live.counts, x,
                                            [arms |-> AddCounts(before, c),
                                             expires |-> now + CounterTTL])]
  BY <1>3 DEF Published
<1> HIDE DEF x, old, c, before, live
<1>7. store'.counts = IF c = NoCounts THEN old
                      ELSE With(old, x, [arms |-> AddCounts(before, c),
                                         expires |-> now + CounterTTL])
  BY <1>3, <1>5, <1>6 DEF Stores
<1> QED
  BY <1>1, <1>2, <1>4, <1>5, <1>7 DEF x, old, c, before

LEMMA KeptStep ==
  ASSUME TypeInv, Kept, [Next]_vars
  PROVE  Kept'
<1>1. now \in Nat /\ now' \in Nat /\ now <= now' /\ TypeInv'
  BY ClockRises, TypeStep
<1> SUFFICES ASSUME NEW y \in Places
             PROVE  IF y \in DOMAIN store'.counts
                    THEN /\ store'.counts[y].arms = published'[y]
                         /\ store'.counts[y].expires >= GoneAt(y[2])
                    ELSE published'[y] = NoCounts \/ now' >= GoneAt(y[2])
  BY DEF Kept, GoneAt
<1>2. y[2] \in Nat
  BY DEF Places, Buckets
<1>3. GoneAt(y[2]) \in Nat
  BY <1>2, ExpiryFacts
<1>4. CASE published' = published /\ AtMostExpired(store.counts, store'.counts)
  BY <1>1, <1>3, <1>4, KeptLive DEF KeptAt
<1>5. ASSUME NEW r \in Replicas, round[r].step = "sync", StoreSync(r), now' = now
      PROVE  IF y \in DOMAIN store'.counts
             THEN /\ store'.counts[y].arms = published'[y]
                  /\ store'.counts[y].expires >= GoneAt(y[2])
             ELSE published'[y] = NoCounts \/ now' >= GoneAt(y[2])
  <2> DEFINE x == Place(r)
             old == Unexpired(store.counts, now)
             c == Sent(round[r].counts)
             before == IF x \in DOMAIN old THEN old[x].arms ELSE NoCounts
             e == [arms |-> AddCounts(before, c), expires |-> now + CounterTTL]
  <2>1. /\ x \in Places /\ x[2] = BucketAt(now) /\ c \in CountMaps
        /\ before \in CountMaps
        /\ published' = [published EXCEPT ![x] = AddCounts(@, c)]
        /\ store'.counts = IF c = NoCounts THEN old ELSE With(old, x, e)
    BY <1>5, SyncCounts
  <2>2. AtMostExpired(store.counts, old)
    BY DEF AtMostExpired
  <2>3. KeptAt(old, y) /\ KeptAt(old, x)
    BY <2>1, <2>2, KeptLive
  <2>4. e.arms = AddCounts(before, c) /\ e.expires = now + CounterTTL
    OBVIOUS
  <2>5. published[x] = before
    <3>1. x[2] \in Nat /\ now < GoneAt(x[2]) /\ GoneAt(x[2]) \in Nat
      BY <1>1, <2>1, BucketFacts, ExpiryFacts
    <3> HIDE DEF x, old
    <3> QED
      BY <1>1, <2>3, <3>1 DEF KeptAt
  <2>6. now + CounterTTL >= GoneAt(x[2])
    BY <1>1, <2>1, BucketFacts, ExpiryFacts
  <2> HIDE DEF x, old, c, before, e
  <2>7. published \in [Places -> CountMaps]
    BY DEF TypeInv
  <2>8. CASE y # x
    <3>1. published'[y] = published[y]
      BY <2>1, <2>7, <2>8
    <3>2. /\ y \in DOMAIN store'.counts <=> y \in DOMAIN old
          /\ y \in DOMAIN old => store'.counts[y] = old[y]
      BY <2>1, <2>8 DEF With
    <3> QED
      BY <1>5, <2>3, <3>1, <3>2 DEF KeptAt
  <2>9. CASE y = x /\ c = NoCounts
    <3>1. published'[y] = published[y]
      BY <2>1, <2>5, <2>7, <2>9, AddCountsFacts
    <3> QED
      BY <1>5, <2>1, <2>3, <2>9, <3>1 DEF KeptAt
  <2>10. CASE y = x /\ c # NoCounts
    <3>1. published'[y] = AddCounts(before, c)
      BY <2>1, <2>5, <2>7, <2>10
    <3>2. y \in DOMAIN store'.counts /\ store'.counts[y] = e
      BY <2>1, <2>10 DEF With
    <3> QED
      BY <2>4, <2>6, <2>10, <3>1, <3>2
  <2> QED
    BY <2>8, <2>9, <2>10
<1> QED
  BY <1>4, <1>5, StoreSteps

----------------------------------------------------------------------------
(* What a round has read *)

LEMMA BucketKnownStep ==
  ASSUME TypeInv, BucketKnown, [Next]_vars
  PROVE  BucketKnown'
<1> SUFFICES ASSUME NEW s \in Replicas, round'[s].step \in {"read", "decide", "apply"}
             PROVE  /\ round'[s].bucket <= BucketAt(now')
                    /\ round'[s].started < (round'[s].bucket + 1) * CoordinationEpoch
  BY DEF BucketKnown
<1>1. /\ BucketAt(now) \in Nat /\ BucketAt(now') \in Nat /\ now \in Nat
      /\ BucketAt(now) <= BucketAt(now')
  BY ClockRises
<1>2. round[s].bucket \in Nat
  BY DEF TypeInv, Rounds, Buckets
<1>3. ASSUME round[s].step \in {"read", "decide", "apply"},
             round'[s].bucket = round[s].bucket, round'[s].started = round[s].started
      PROVE  /\ round'[s].bucket <= BucketAt(now')
             /\ round'[s].started < (round'[s].bucket + 1) * CoordinationEpoch
  BY <1>1, <1>2, <1>3 DEF BucketKnown
<1>4. CASE SyncOk(s)
  <2>1. /\ round'[s].bucket = BucketAt(now) /\ round'[s].started = round[s].started
        /\ round[s].started <= now /\ round[s].started \in Nat
    BY <1>4, SyncOkFacts DEF TypeInv, RoundOK, Rounds
  <2> DEFINE b == BucketAt(now)
             E == CoordinationEpoch
  <2>2. now < b * E + E /\ E \in Nat /\ b \in Nat
    BY <1>1, BucketFacts, StoreAssumption
  <2>3. round'[s].started \in Nat /\ round'[s].started <= now
    BY <2>1
  <2>4. round'[s].bucket = b /\ b <= BucketAt(now')
    BY <1>1, <2>1
  <2> HIDE DEF b, E
  <2>5. (b + 1) * E = b * E + E /\ b * E \in Nat
    BY <2>2
  <2>6. round'[s].started < (b + 1) * E
    BY <1>1, <2>2, <2>3, <2>5
  <2> QED
    BY <2>4, <2>6 DEF E
<1>5. CASE round'[s] = round[s]
  BY <1>3, <1>5
<1>6. CASE ReadWindow(s)
  <2>1. /\ round[s].step = "read" /\ round'[s].bucket = round[s].bucket
        /\ round'[s].started = round[s].started
    BY <1>6, ReadFacts
  <2> QED
    BY <1>3, <2>1
<1>7. ASSUME NEW c, GoesOn(s, c)
      PROVE  /\ round'[s].bucket <= BucketAt(now')
             /\ round'[s].started < (round'[s].bucket + 1) * CoordinationEpoch
  BY <1>3, <1>7 DEF GoesOn
<1> QED
  BY <1>4, <1>5, <1>6, <1>7, RoundSteps

\* What ReadWindow's answer is, with the names the later proofs use.
LEMMA ReadAnswer ==
  ASSUME TypeInv, NEW r \in Replicas, ReadWindow(r)
  PROVE  LET b == round[r].bucket
             ns == round[r].ns
             w == round'[r].window
         IN  /\ round'[r].bucket = b /\ round'[r].ns = ns
             /\ round'[r].step \in {"decide", "apply"}
             /\ ns \in Capacities /\ b \in Nat
             /\ w \in Windows /\ DOMAIN w \subseteq b - Window .. b - 1
             /\ \A c \in b - Window .. b - 1 :
                  c \in DOMAIN w <=> <<ns, c>> \in DOMAIN Unexpired(store.counts, now)
             /\ \A c \in DOMAIN w : /\ <<ns, c>> \in DOMAIN store.counts
                                    /\ w[c] = store.counts[<<ns, c>>].arms
<1> DEFINE b == round[r].bucket
           ns == round[r].ns
           w == WindowCounts(store, ns, b - Window, b - 1, now)
<1>1. /\ round[r].step = "read"
      /\ round'[r].window = w /\ round'[r].bucket = b /\ round'[r].ns = ns
      /\ round'[r].step \in {"decide", "apply"}
  BY ReadFacts
<1>2. /\ ns \in Capacities /\ b \in Nat /\ now \in Nat /\ store \in Stores
      /\ b - Window \in Int /\ b - 1 \in Int
  BY <1>1, PlaceFacts, PresentBucket, StoreAssumption DEF TypeInv
<1>3. /\ w \in Windows /\ DOMAIN w \subseteq b - Window .. b - 1
      /\ \A c \in b - Window .. b - 1 :
           c \in DOMAIN w <=> <<ns, c>> \in DOMAIN Unexpired(store.counts, now)
      /\ \A c \in DOMAIN w : /\ <<ns, c>> \in DOMAIN store.counts
                             /\ w[c] = store.counts[<<ns, c>>].arms
  BY <1>2, WindowFacts
<1> HIDE DEF w
<1> QED
  BY <1>1, <1>2, <1>3

\* A round that has read after a step, and did not read in it, had read before.
LEMMA ReadBefore ==
  ASSUME TypeInv, WindowIsPast, [Next]_vars, NEW s \in Replicas, round'[s].read,
         ~ReadWindow(s)
  PROVE  /\ round[s].read /\ round'[s].window = round[s].window
         /\ round'[s].bucket = round[s].bucket /\ round'[s].ns = round[s].ns
         /\ round'[s].step \in {"decide", "apply"}
         /\ round[s].step \in {"decide", "apply"}
         /\ round'[s].choice # Undefined => round[s].choice # Undefined
<1>1. ~SyncOk(s)
  BY SyncOkFacts
<1>2. CASE round'[s] = round[s]
  BY <1>2 DEF WindowIsPast
<1>3. ASSUME NEW c, GoesOn(s, c), c # Undefined => round[s].choice # Undefined
      PROVE  /\ round[s].read /\ round'[s].window = round[s].window
             /\ round'[s].bucket = round[s].bucket /\ round'[s].ns = round[s].ns
             /\ round'[s].step \in {"decide", "apply"}
             /\ round[s].step \in {"decide", "apply"}
             /\ round'[s].choice # Undefined => round[s].choice # Undefined
  BY <1>3 DEF GoesOn, WindowIsPast
<1> QED
  BY <1>1, <1>2, <1>3, RoundSteps

LEMMA WindowIsPastStep ==
  ASSUME TypeInv, WindowIsPast, [Next]_vars
  PROVE  WindowIsPast'
<1> SUFFICES ASSUME NEW s \in Replicas, round'[s].read
             PROVE  /\ round'[s].step \in {"decide", "apply"}
                    /\ DOMAIN round'[s].window
                         \subseteq round'[s].bucket - Window .. round'[s].bucket - 1
  BY DEF WindowIsPast
<1>1. CASE ReadWindow(s)
  BY <1>1, ReadAnswer
<1>2. CASE ~ReadWindow(s)
  BY <1>2, ReadBefore DEF WindowIsPast
<1> QED
  BY <1>1, <1>2

\* A round has read what was published in the buckets before its own, and what was
\* published there stays as it is.
LEMMA FinalStep ==
  ASSUME TypeInv, Kept, BucketKnown, WindowIsPast, ReadsAreFinal, [Next]_vars
  PROVE  ReadsAreFinal'
<1> SUFFICES ASSUME NEW s \in Replicas, round'[s].read,
                    NEW c \in ((round'[s].bucket - Window .. round'[s].bucket - 1)
                                 \cap Buckets) \cup DOMAIN round'[s].window
             PROVE  \/ (IF c \in DOMAIN round'[s].window THEN round'[s].window[c]
                        ELSE NoCounts) = published'[<<round'[s].ns, c>>]
                    \/ /\ SyncTimeout > CoordinationEpoch
                       /\ now' >= (round'[s].bucket + 2) * CoordinationEpoch
                       /\ c \notin DOMAIN round'[s].window
  BY DEF ReadsAreFinal
<1>1. /\ now \in Nat /\ BucketAt(now) \in Nat /\ TypeInv'
      /\ now' \in Nat /\ now <= now'
  BY ClockRises, TypeStep
<1>2. c \in round'[s].bucket - Window .. round'[s].bucket - 1
  BY WindowIsPastStep DEF WindowIsPast
<1>3. c \in Buckets
  <2>1. round'[s].window \in Windows
    BY <1>1 DEF TypeInv, Rounds
  <2>2. DOMAIN round'[s].window \subseteq Buckets
    BY <2>1 DEF Windows
  <2> QED
    BY <2>2
<1>4. c \in Nat
  BY <1>3 DEF Buckets
<1>5. CASE ReadWindow(s)
  <2> DEFINE b == round[s].bucket
             ns == round[s].ns
             w == round'[s].window
             old == Unexpired(store.counts, now)
             x == <<ns, c>>
  <2>1. /\ round'[s].bucket = b /\ round'[s].ns = ns
        /\ ns \in Capacities /\ b \in Nat
        /\ \A a \in b - Window .. b - 1 : a \in DOMAIN w <=> <<ns, a>> \in DOMAIN old
        /\ \A a \in DOMAIN w : /\ <<ns, a>> \in DOMAIN store.counts
                               /\ w[a] = store.counts[<<ns, a>>].arms
    BY <1>5, ReadAnswer
  <2>2. c \in b - Window .. b - 1 /\ Window \in Nat
    BY <1>2, <2>1, StoreAssumption
  <2>3. x \in Places /\ x[2] = c
    BY <1>3, <2>1 DEF Places
  <2>4. KeptAt(store.counts, x) /\ KeptAt(old, x)
    BY <2>3, KeptLive DEF AtMostExpired
  <2>5. \/ now < GoneAt(c)
        \/ SyncTimeout > CoordinationEpoch /\ now >= (b + 2) * CoordinationEpoch
    <3> DEFINE E == CoordinationEpoch
               t == round[s].started
    <3>1. /\ t \in Nat /\ t < (b + 1) * E /\ now <= t + SyncTimeout /\ E \in Nat
          /\ SyncTimeout \in Nat
      BY <1>5, FleetAssumption, StoreAssumption
         DEF ReadWindow, InTime, BucketKnown, TypeInv, Rounds, ValidConfig
    <3>2. b <= c + Window
      BY <1>4, <2>1, <2>2
    <3>3. (b + 2) * E <= GoneAt(c) /\ GoneAt(c) \in Nat
      BY <1>4, <2>1, <3>2, ExpiryFacts
    <3> HIDE DEF E, t, b
    <3>4. b \in Nat
      BY <2>1 DEF b
    <3>5. (b + 2) * E = b * E + 2 * E /\ (b + 1) * E = b * E + E /\ b * E \in Nat
      BY <3>1, <3>4
    <3>6. now < GoneAt(c) \/ (SyncTimeout > E /\ now >= (b + 2) * E)
      BY <1>1, <3>1, <3>3, <3>5
    <3> QED
      BY <3>6 DEF E
  <2>6. GoneAt(c) \in Nat
    BY <1>4, ExpiryFacts
  <2>7. published' = published
    BY <1>5 DEF ReadWindow
  <2> HIDE DEF b, w, old, x
  <2>8. CASE c \in DOMAIN w
    <3>1. x \in DOMAIN store.counts /\ w[c] = store.counts[x].arms
      BY <2>1, <2>8 DEF x
    <3>2. w[c] = published[x]
      BY <2>4, <3>1 DEF KeptAt
    <3> QED
      BY <2>1, <2>7, <2>8, <3>2 DEF w, x
  <2>9. CASE c \notin DOMAIN w
    <3>1. x \notin DOMAIN old
      BY <2>1, <2>2, <2>9 DEF x
    <3>2. CASE now < GoneAt(c)
      <4>1. published[x] = NoCounts
        BY <1>1, <2>3, <2>4, <2>6, <3>1, <3>2 DEF KeptAt
      <4> QED
        BY <2>1, <2>7, <2>9, <4>1 DEF w, x
    <3>3. CASE SyncTimeout > CoordinationEpoch /\ now >= (b + 2) * CoordinationEpoch
      <4>1. now' = now
        BY <1>5 DEF ReadWindow
      <4> QED
        BY <2>1, <2>9, <3>3, <4>1 DEF w, b
    <3> QED
      BY <2>5, <3>2, <3>3
  <2> QED
    BY <2>8, <2>9
<1>6. CASE ~ReadWindow(s)
  <2>1. /\ round[s].read /\ round'[s].window = round[s].window
        /\ round'[s].bucket = round[s].bucket /\ round'[s].ns = round[s].ns
        /\ round[s].step \in {"decide", "apply"}
    BY <1>6, ReadBefore
  <2> DEFINE x == <<round[s].ns, c>>
  <2>2. \/ (IF c \in DOMAIN round[s].window THEN round[s].window[c]
            ELSE NoCounts) = published[x]
        \/ /\ SyncTimeout > CoordinationEpoch
           /\ now >= (round[s].bucket + 2) * CoordinationEpoch
           /\ c \notin DOMAIN round[s].window
    BY <2>1 DEF ReadsAreFinal
  <2>3. /\ x \in Places /\ x[2] = c /\ round[s].bucket \in Nat
        /\ round[s].bucket <= BucketAt(now)
    BY <1>3, <2>1, PlaceFacts DEF Places, BucketKnown
  <2>4. c < BucketAt(now)
    BY <1>1, <1>2, <1>4, <2>1, <2>3
  <2>5. published'[x] = published[x]
    <3>1. CASE published' = published
      BY <3>1
    <3>2. ASSUME NEW r \in Replicas, round[r].step = "sync", StoreSync(r)
          PROVE  published'[x] = published[x]
      <4>1. /\ Place(r)[2] = BucketAt(now) /\ Place(r) \in Places
            /\ published' = [published EXCEPT
                               ![Place(r)] = AddCounts(@, Sent(round[r].counts))]
        BY <3>2, PlaceFacts DEF StoreSync
      <4>2. Place(r) # x
        BY <1>1, <1>4, <2>3, <2>4, <4>1
      <4> QED
        BY <2>3, <4>1, <4>2 DEF TypeInv
    <3> QED
      BY <3>1, <3>2, StoreSteps
  <2>6. (round[s].bucket + 2) * CoordinationEpoch \in Nat
    BY <2>3, StoreAssumption
  <2> QED
    BY <1>1, <2>1, <2>2, <2>5, <2>6
<1> QED
  BY <1>5, <1>6

----------------------------------------------------------------------------
(* Draws rest on evidence *)

LEMMA PositiveStep ==
  ASSUME TypeInv, PositiveCounts, [Next]_vars
  PROVE  PositiveCounts'
<1> SUFFICES ASSUME Kind = "redis", NEW y \in DOMAIN store'.counts,
                    NEW k \in DOMAIN store'.counts[y].arms
             PROVE  store'.counts[y].arms[k] > 0
  BY DEF PositiveCounts
<1>1. /\ store.counts \in Table(CountEntries) /\ now \in Nat
      /\ \A x \in DOMAIN store.counts : store.counts[x].expires \in Nat
  BY StoreFacts, PresentBucket DEF TypeInv
<1>2. CASE AtMostExpired(store.counts, store'.counts)
  <2>1. y \in DOMAIN store.counts /\ store'.counts[y] = store.counts[y]
    BY <1>1, <1>2, KeptFacts
  <2> QED
    BY <2>1 DEF PositiveCounts
<1>3. ASSUME NEW r \in Replicas, round[r].step = "sync", StoreSync(r)
      PROVE  store'.counts[y].arms[k] > 0
  <2> DEFINE x == Place(r)
             old == Unexpired(store.counts, now)
             c == Sent(round[r].counts)
             before == IF x \in DOMAIN old THEN old[x].arms ELSE NoCounts
             e == [arms |-> AddCounts(before, c), expires |-> now + CounterTTL]
  <2>1. /\ c \in CountMaps /\ before \in CountMaps
        /\ store'.counts = IF c = NoCounts THEN old ELSE With(old, x, e)
    BY <1>3, SyncCounts
  <2>2. \A j \in DOMAIN c : c[j] > 0
    BY <1>3, PlaceFacts, SentFacts
  <2>3. /\ DOMAIN old \subseteq DOMAIN store.counts
        /\ \A z \in DOMAIN old : old[z] = store.counts[z]
    BY <1>1, UnexpiredFacts
  <2>4. \A j \in DOMAIN before : before[j] > 0
    BY <2>3, EmptyFacts DEF PositiveCounts
  <2>5. e.arms = AddCounts(before, c)
    OBVIOUS
  <2> HIDE DEF x, old, c, before, e
  <2>6. /\ \A j \in DOMAIN c : c[j] \in Nat
        /\ \A j \in DOMAIN before : before[j] \in Nat
    BY <2>1, CountMapFacts
  <2>7. \A j \in DOMAIN AddCounts(before, c) : AddCounts(before, c)[j] > 0
    BY <2>2, <2>4, <2>6 DEF AddCounts, GetsOf
  <2>8. CASE c # NoCounts /\ y = x
    <3>1. store'.counts[y] = e
      BY <2>1, <2>8 DEF With
    <3> QED
      BY <2>5, <2>7, <3>1
  <2>9. CASE ~(c # NoCounts /\ y = x)
    <3>1. y \in DOMAIN old /\ store'.counts[y] = old[y]
      BY <2>1, <2>9 DEF With
    <3> QED
      BY <2>3, <3>1 DEF PositiveCounts
  <2> QED
    BY <2>8, <2>9
<1> QED
  BY <1>2, <1>3, StoreSteps

LEMMA DrawsStep ==
  ASSUME TypeInv, ReadsUndecided, WindowIsPast, PositiveCounts, DrawsOnEvidence,
         [Next]_vars
  PROVE  DrawsOnEvidence'
<1> SUFFICES ASSUME Kind = "redis", NEW s \in Replicas, round'[s].read,
                    round'[s].choice # Undefined
             PROVE  \E b \in DOMAIN round'[s].window :
                      \E k \in DOMAIN round'[s].window[b] : round'[s].window[b][k] > 0
  BY DEF DrawsOnEvidence, DecidesOnEvidence
<1>1. CASE ~ReadWindow(s)
  <2>1. /\ round[s].read /\ round'[s].window = round[s].window
        /\ round[s].choice # Undefined
    BY <1>1, ReadBefore
  <2> QED
    BY <2>1 DEF DrawsOnEvidence, DecidesOnEvidence
<1>2. CASE ReadWindow(s)
  <2> DEFINE w == round'[s].window
  <2>1. PICK p \in Policies \cup {Undefined} :
          /\ p \in Draws(w)
          /\ round'[s].choice = IF p = Undefined THEN round[s].choice ELSE p
    BY <1>2, ReadFacts
  <2>2. round[s].choice = Undefined
    BY <1>2 DEF ReadWindow, ReadsUndecided
  <2>3. p \in Pooled(w)
    BY <2>1, <2>2 DEF Draws
  <2>4. PICK b \in DOMAIN w, role \in Roles : <<p, role>> \in DOMAIN w[b]
    BY <2>3 DEF Pooled
  <2>5. /\ <<round[s].ns, b>> \in DOMAIN store.counts
        /\ w[b] = store.counts[<<round[s].ns, b>>].arms
    BY <1>2, ReadAnswer
  <2>6. w[b][<<p, role>>] > 0
    BY <2>4, <2>5 DEF PositiveCounts
  <2> QED
    BY <2>4, <2>6
<1> QED
  BY <1>1, <1>2

----------------------------------------------------------------------------
(* The theorems *)

LEMMA FleetInit == Init => FleetInv
<1> SUFFICES ASSUME Init PROVE FleetInv
  OBVIOUS
<1>1. TypeInv
  BY InitTypes
<1>2. /\ now = 0 /\ store = NewStore /\ \A x \in Places : led[x] = 0
      /\ \A x \in Places : applied[x] = {} /\ published[x] = NoCounts
      /\ \A r \in Replicas : round[r] = Idle /\ fallback[r] = FALSE
  BY DEF Init
<1>3. DOMAIN store.counts = {} /\ DOMAIN store.leaders = {} /\ DOMAIN store.decisions = {}
  BY <1>2, EmptyFacts DEF NewStore
<1>4. \A r \in Replicas : round[r].step = "idle" /\ ~round[r].read
  BY <1>2, IdleFacts
<1>5. Claimed /\ ReadsUndecided /\ FallbackIsEarned /\ BucketKnown /\ WindowIsPast
  BY <1>2, <1>4 DEF Claimed, ReadsUndecided, FallbackIsEarned, BucketKnown, WindowIsPast
<1>6. OneVoice
  BY <1>2, <1>3, <1>4 DEF OneVoice, Leads, Speaks, Stored, Carries
<1>7. Kept /\ PositiveCounts
  BY <1>2, <1>3 DEF Kept, PositiveCounts
<1>8. ReadsAreFinal /\ DrawsOnEvidence
  BY <1>4 DEF ReadsAreFinal, DrawsOnEvidence, DecidesOnEvidence
<1> QED
  BY <1>1, <1>5, <1>6, <1>7, <1>8 DEF FleetInv

LEMMA FleetStep == FleetInv /\ [Next]_vars => FleetInv'
BY TypeStep, ClaimedStep, VoiceStep, UndecidedStep, FallbackStep, KeptStep,
   BucketKnownStep, WindowIsPastStep, FinalStep, PositiveStep, DrawsStep DEF FleetInv

LEMMA FleetHolds == Spec => []FleetInv
BY FleetInit, FleetStep, PTL DEF Spec

\* However late replicas sync and however often they restart, at most one of them is
\* told that it leads a bucket: Claims never succeeds twice for a place.
THEOREM OneLeader == Spec => []OneLeaderPerBucket
<1>1. FleetInv => OneLeaderPerBucket
  BY DEF FleetInv, Claimed, OneLeaderPerBucket
<1> QED
  BY <1>1, FleetHolds, PTL

\* Under a leader the replicas that apply a decision in a bucket all apply the same
\* one, for any number of lost replies, restarts and expiries between its publication
\* and its application.
THEOREM FleetFollowsOneDecision == Spec => []FleetAgrees
<1>1. FleetInv => FleetAgrees
  <2> SUFFICES ASSUME FleetInv, Mode = "leader", NEW x \in Places
               PROVE  Cardinality(applied[x]) <= 1
    BY DEF FleetAgrees
  <2>1. applied[x] \subseteq Policies
    BY DEF FleetInv, TypeInv
  <2>2. \A d \in applied[x], e \in applied[x] : d = e
    BY <2>1 DEF FleetInv, OneVoice, Speaks
  <2>3. CASE applied[x] = {}
    BY <2>3, FS_EmptySet
  <2>4. ASSUME NEW d \in applied[x] PROVE Cardinality(applied[x]) <= 1
    <3>1. applied[x] = {d}
      BY <2>2
    <3>2. Cardinality({d}) = 1
      BY FS_Singleton
    <3> QED
      BY <3>1, <3>2
  <2> QED
    BY <2>3, <2>4
<1> QED
  BY <1>1, FleetHolds, PTL

\* A replica falls back to its own evidence only after completing no round for longer than
\* FallbackAfter, and while it reports a fallback its selection is its own.
THEOREM FallbacksAreEarned == Spec => []FallbackIsEarned
<1>1. FleetInv => FallbackIsEarned
  BY DEF FleetInv
<1> QED
  BY <1>1, FleetHolds, PTL

\* Whoever decides on a bucket has read exactly what the store ever took for the Window
\* buckets before it: nothing is published to a bucket that is over, and CounterTTL
\* outlasts every reader while SyncTimeout is at most an epoch, its default.  A longer
\* SyncTimeout, which validate accepts, lets a reader come two epochs or more after its
\* bucket began: it may miss whole buckets, but what it reads is still complete.
THEOREM EvidenceIsFinal == Spec => []ReadsAreFinal
<1>1. FleetInv => ReadsAreFinal
  BY DEF FleetInv
<1> QED
  BY <1>1, FleetHolds, PTL

\* Behind a Redis or Valkey store, which drops zero counts, an arm is drawn only from
\* a window in which some replica measured a Get.  (The in-memory store keeps zero
\* counts, and the run idle_fleet shows that it draws from them.)
THEOREM DrawsAreEarned ==
  ASSUME Kind = "redis"
  PROVE  Spec => []DecidesOnEvidence
<1>1. FleetInv => DecidesOnEvidence
  BY DEF FleetInv, DrawsOnEvidence
<1> QED
  BY <1>1, FleetHolds, PTL

----------------------------------------------------------------------------
(* A report counts at most once.  The evidence of a regime is in a         *)
(* replica's buffer, in its round, or published in some bucket; a step     *)
(* moves it from one to the next or loses it; only a report adds to it.    *)

\* What replica r holds of arm k for the regime g, in its buffer and in its round.
Buffered(r, g, k) == IF shape[r] = g THEN GetsOf(pending[r], k) ELSE 0
Sending(r, g, k) == IF round[r].ns = g THEN GetsOf(round[r].counts, k) ELSE 0
Holds(r, g, k) == Buffered(r, g, k) + Sending(r, g, k)

\* The replicas, numbered.
Numbering == CHOOSE f : f \in Bijection(1 .. Cardinality(Replicas), Replicas)

\* What all replicas hold.
Shares(g, k) ==
  [i \in 0 .. Cardinality(Replicas) |-> IF i = 0 THEN 0 ELSE Holds(Numbering[i], g, k)]
Held(g, k) == SumTo(Shares(g, k), Cardinality(Replicas))

\* What is published and what is held was made.
Accounted ==
  /\ made \in [Capacities -> CountMaps]
  /\ \A g \in Capacities, k \in ArmKeys :
       PublishedIn(g, k) + Held(g, k) <= GetsOf(made[g], k)

----------------------------------------------------------------------------
(* The operators *)

LEMMA GetsOfSums ==
  ASSUME NEW c \in CountMaps, NEW d \in CountMaps, NEW k
  PROVE  GetsOf(AddCounts(c, d), k) = GetsOf(c, k) + GetsOf(d, k)
<1>1. /\ \A j \in DOMAIN c : c[j] \in Nat
      /\ \A j \in DOMAIN d : d[j] \in Nat
  BY CountMapFacts
<1> QED
  BY <1>1 DEF AddCounts, GetsOf

LEMMA GetsOfSent ==
  ASSUME NEW c \in CountMaps, NEW k
  PROVE  GetsOf(Sent(c), k) = GetsOf(c, k)
BY DEF Sent, GetsOf

LEMMA GetsOfNone ==
  ASSUME NEW k
  PROVE  GetsOf(NoCounts, k) = 0
BY EmptyFacts DEF GetsOf

LEMMA NumberingFacts ==
  /\ Cardinality(Replicas) \in Nat
  /\ Numbering \in [1 .. Cardinality(Replicas) -> Replicas]
  /\ \A i, j \in 1 .. Cardinality(Replicas) : Numbering[i] = Numbering[j] => i = j
  /\ \A r \in Replicas : \E i \in 1 .. Cardinality(Replicas) : Numbering[i] = r
<1>1. IsFiniteSet(Replicas)
  BY FleetAssumption
<1>2. Cardinality(Replicas) \in Nat
      /\ \E f : f \in Bijection(1 .. Cardinality(Replicas), Replicas)
  <2>1. Cardinality(Replicas) \in Nat
    BY <1>1, FS_CardinalityType
  <2>2. ExistsBijection(1 .. Cardinality(Replicas), Replicas)
    BY <1>1, FS_CardinalityType
  <2> QED
    BY <2>1, <2>2 DEF ExistsBijection
<1>3. Numbering \in Bijection(1 .. Cardinality(Replicas), Replicas)
  BY <1>2 DEF Numbering
<1> QED
  BY <1>2, <1>3 DEF Bijection, Injection, IsInjective, Surjection

\* What a replica holds is natural.
LEMMA HoldsFacts ==
  ASSUME TypeInv, NEW r \in Replicas, NEW g, NEW k
  PROVE  /\ Buffered(r, g, k) \in Nat /\ Sending(r, g, k) \in Nat
         /\ Holds(r, g, k) \in Nat
<1>1. pending[r] \in CountMaps /\ round[r].counts \in CountMaps
  BY DEF TypeInv, Rounds
<1>2. GetsOf(pending[r], k) \in Nat /\ GetsOf(round[r].counts, k) \in Nat
  BY <1>1, CountMapFacts
<1> QED
  BY <1>2 DEF Buffered, Sending, Holds

\* The same after a step.
LEMMA HoldsNext ==
  ASSUME TypeInv', NEW r \in Replicas, NEW g, NEW k
  PROVE  Holds(r, g, k)' \in Nat
<1>1. pending'[r] \in CountMaps /\ round'[r].counts \in CountMaps
  BY DEF TypeInv, Rounds
<1>2. GetsOf(pending'[r], k) \in Nat /\ GetsOf(round'[r].counts, k) \in Nat
  BY <1>1, CountMapFacts
<1> QED
  BY <1>2 DEF Buffered, Sending, Holds

\* What all hold, when one replica's share changes.
LEMMA HeldShift ==
  ASSUME TypeInv, TypeInv', NEW r \in Replicas, NEW g, NEW k,
         \A s \in Replicas : s # r => Holds(s, g, k)' = Holds(s, g, k)
  PROVE  /\ Held(g, k) \in Nat /\ Held(g, k)' \in Nat
         /\ Held(g, k)' = Held(g, k) + (Holds(r, g, k)' - Holds(r, g, k))
<1> DEFINE n == Cardinality(Replicas)
           h == Shares(g, k)
           e == [i \in 0 .. n |-> IF i = 0 THEN 0 ELSE Holds(Numbering[i], g, k)']
<1>1. /\ n \in Nat /\ Numbering \in [1 .. n -> Replicas]
      /\ \A i, j \in 1 .. n : Numbering[i] = Numbering[j] => i = j
      /\ \E i \in 1 .. n : Numbering[i] = r
  BY NumberingFacts
<1>2. /\ \A s \in Replicas : Holds(s, g, k) \in Nat
      /\ \A s \in Replicas : Holds(s, g, k)' \in Nat
  BY HoldsFacts, HoldsNext
<1>3. Shares(g, k)' = e
  BY DEF Shares
<1>4. h = [i \in 0 .. n |-> IF i = 0 THEN 0 ELSE Holds(Numbering[i], g, k)]
  BY DEF Shares
<1>5. PICK j \in 1 .. n : Numbering[j] = r
  BY <1>1
<1>6. \A i \in 1 .. n : Numbering[i] \in Replicas
  BY <1>1
<1>7. \A i \in 0 .. n : h[i] \in Nat /\ e[i] \in Nat
  BY <1>1, <1>2, <1>4, <1>6
<1>8. \A i \in 0 .. n : i # j => e[i] = h[i]
  <2>1. ASSUME NEW i \in 1 .. n, i # j PROVE Numbering[i] # r
    BY <1>1, <1>5, <2>1
  <2> QED
    BY <1>1, <1>4, <1>6, <2>1
<1>9. e[j] = Holds(r, g, k)' /\ h[j] = Holds(r, g, k) /\ j \in 0 .. n
  BY <1>1, <1>4, <1>5
<1>10. Held(g, k) = SumTo(h, n) /\ Held(g, k)' = SumTo(e, n)
  BY <1>3 DEF Held
<1> HIDE DEF n, h, e
<1>11. \A i \in 0 .. n : h[i] \in Int /\ e[i] \in Int /\ h[i] >= 0 /\ e[i] >= 0
  BY <1>7
<1>12. SumTo(e, n) = SumTo(h, n) + (e[j] - h[j])
  BY <1>1, <1>8, <1>9, <1>11, SumShift
<1>13. SumTo(h, n) \in Int /\ SumTo(h, n) >= 0
  BY <1>1, <1>11, SumTyped
<1>14. SumTo(e, n) \in Int /\ SumTo(e, n) >= 0
  BY <1>1, <1>11, SumTyped
<1> QED
  BY <1>9, <1>10, <1>12, <1>13, <1>14

\* PublishedIn is the sum over the buckets.
Total(P, g, k) ==
  LET upTo[b \in Buckets] ==
        GetsOf(P[<<g, b>>], k) + (IF b = 0 THEN 0 ELSE upTo[b - 1])
  IN  upTo[BucketAt(MaxTime)]

LEMMA TotalIs ==
  ASSUME NEW P \in [Places -> CountMaps], NEW g \in Capacities, NEW k
  PROVE  LET h == [b \in Buckets |-> GetsOf(P[<<g, b>>], k)]
         IN  /\ \A b \in Buckets : h[b] \in Nat
             /\ Total(P, g, k) = SumTo(h, BucketAt(MaxTime))
<1> DEFINE n == BucketAt(MaxTime)
           h == [b \in Buckets |-> GetsOf(P[<<g, b>>], k)]
           F(f) == f = [b \in Buckets |-> GetsOf(P[<<g, b>>], k)
                                            + (IF b = 0 THEN 0 ELSE f[b - 1])]
           u == CHOOSE f : F(f)
<1>1. n \in Nat /\ Buckets = 0 .. n
  <2>1. MaxTime \in Nat
    BY FleetAssumption
  <2> QED
    BY <2>1, BucketFacts DEF Buckets
<1>2. \A b \in Buckets : h[b] \in Nat
  <2>1. \A b \in Buckets : <<g, b>> \in Places
    BY DEF Places
  <2>2. \A b \in Buckets : P[<<g, b>>] \in CountMaps
    BY <2>1
  <2> QED
    BY <2>2, CountMapFacts
<1>3. \A f : F(f) <=> SumsUp(f, h, n)
  <2>1. ASSUME NEW f
        PROVE  [b \in Buckets |-> GetsOf(P[<<g, b>>], k) + (IF b = 0 THEN 0 ELSE f[b - 1])]
                 = [b \in 0 .. n |-> h[b] + (IF b = 0 THEN 0 ELSE f[b - 1])]
    BY <1>1
  <2> QED
    BY <2>1 DEF SumsUp
<1>4. Total(P, g, k) = u[n]
  BY DEF Total
<1> HIDE DEF h, n, F
<1>5. \E f : F(f)
  BY <1>1, <1>3, SumsExist
<1>6. F(u)
  BY <1>5
<1> HIDE DEF u
<1>7. SumTo(h, n) = u[n]
  BY <1>1, <1>2, <1>3, <1>6, SumIs
<1> QED
  BY <1>2, <1>4, <1>7 DEF h, n

LEMMA PublishedIs ==
  \A g, k : PublishedIn(g, k) = Total(published, g, k)
            /\ PublishedIn(g, k)' = Total(published', g, k)
BY DEF PublishedIn, Total

LEMMA TotalTyped ==
  ASSUME NEW P \in [Places -> CountMaps], NEW g \in Capacities, NEW k
  PROVE  Total(P, g, k) \in Nat
<1> DEFINE h == [b \in Buckets |-> GetsOf(P[<<g, b>>], k)]
           n == BucketAt(MaxTime)
<1>1. /\ \A b \in Buckets : h[b] \in Nat
      /\ Total(P, g, k) = SumTo(h, n)
  BY TotalIs
<1>2. n \in Nat /\ Buckets = 0 .. n
  <2>1. MaxTime \in Nat
    BY FleetAssumption
  <2> QED
    BY <2>1, BucketFacts DEF Buckets
<1> HIDE DEF h, n
<1>3. \A i \in 0 .. n : h[i] \in Int /\ h[i] >= 0
  BY <1>1, <1>2
<1>4. SumTo(h, n) \in Int /\ SumTo(h, n) >= 0
  BY <1>2, <1>3, SumTyped
<1> QED
  BY <1>1, <1>4

\* What is published, when one place gets more.
LEMMA TotalShift ==
  ASSUME NEW P \in [Places -> CountMaps], NEW x \in Places, NEW c \in CountMaps,
         NEW g \in Capacities, NEW k, NEW Q \in [Places -> CountMaps],
         Q[x] = AddCounts(P[x], c), \A y \in Places : y # x => Q[y] = P[y]
  PROVE  Total(Q, g, k) = Total(P, g, k) + (IF x[1] = g THEN GetsOf(c, k) ELSE 0)
<1> DEFINE n == BucketAt(MaxTime)
           h == [b \in Buckets |-> GetsOf(P[<<g, b>>], k)]
           e == [b \in Buckets |-> GetsOf(Q[<<g, b>>], k)]
           j == x[2]
<1>1. P[x] \in CountMaps
  OBVIOUS
<1>2. Q[x] = AddCounts(P[x], c) /\ \A y \in Places : y # x => Q[y] = P[y]
  OBVIOUS
<1>3. n \in Nat /\ Buckets = 0 .. n
  <2>1. MaxTime \in Nat
    BY FleetAssumption
  <2> QED
    BY <2>1, BucketFacts DEF Buckets
<1>4. /\ \A b \in Buckets : h[b] \in Nat
      /\ Total(P, g, k) = SumTo(h, n)
  BY TotalIs
<1>5. /\ \A b \in Buckets : e[b] \in Nat
      /\ Total(Q, g, k) = SumTo(e, n)
  BY <1>2, TotalIs
<1>6. j \in Buckets /\ x = <<x[1], j>>
  BY DEF Places
<1>7. \A b \in Buckets : b # j => e[b] = h[b]
  <2>1. ASSUME NEW b \in Buckets, b # j PROVE <<g, b>> \in Places /\ <<g, b>> # x
    BY <1>6, <2>1 DEF Places
  <2> QED
    BY <1>2, <2>1
<1>8. e[j] = h[j] + (IF x[1] = g THEN GetsOf(c, k) ELSE 0)
  <2>1. CASE x[1] = g
    <3>1. <<g, j>> = x
      BY <1>6, <2>1
    <3>2. GetsOf(Q[x], k) = GetsOf(P[x], k) + GetsOf(c, k)
      BY <1>1, <1>2, GetsOfSums
    <3> QED
      BY <1>6, <2>1, <3>1, <3>2
  <2>2. CASE x[1] # g
    <3>1. <<g, j>> \in Places /\ <<g, j>> # x
      BY <1>6, <2>2 DEF Places
    <3>2. e[j] = h[j]
      BY <1>2, <1>6, <3>1
    <3> QED
      BY <1>4, <1>6, <2>2, <3>2
  <2> QED
    BY <2>1, <2>2
<1>9. GetsOf(c, k) \in Nat
  BY CountMapFacts
<1> HIDE DEF h, e, n, j
<1>10. \A i \in 0 .. n : h[i] \in Int /\ e[i] \in Int /\ h[i] >= 0
  BY <1>3, <1>4, <1>5
<1>11. SumTo(e, n) = SumTo(h, n) + (e[j] - h[j])
  BY <1>3, <1>6, <1>7, <1>10, SumShift
<1>12. SumTo(h, n) \in Int /\ SumTo(h, n) >= 0 /\ h[j] \in Int
  BY <1>3, <1>6, <1>10, SumTyped
<1> QED
  BY <1>4, <1>5, <1>8, <1>9, <1>11, <1>12

----------------------------------------------------------------------------
(* The steps *)

\* A step in which one replica's share changes, and what is held or published grows
\* by no more than what is made.
LEMMA Balanced ==
  ASSUME TypeInv, TypeInv', Accounted, NEW r \in Replicas,
         made' \in [Capacities -> CountMaps],
         \A s \in Replicas, g \in Capacities, k \in ArmKeys :
           s # r => Holds(s, g, k)' = Holds(s, g, k),
         \A g \in Capacities, k \in ArmKeys :
           PublishedIn(g, k)' + Holds(r, g, k)' + GetsOf(made[g], k)
             <= PublishedIn(g, k) + Holds(r, g, k) + GetsOf(made'[g], k)
  PROVE  Accounted'
<1> SUFFICES ASSUME NEW g \in Capacities, NEW k \in ArmKeys
             PROVE  PublishedIn(g, k)' + Held(g, k)' <= GetsOf(made'[g], k)
  BY DEF Accounted
<1>1. /\ Held(g, k) \in Nat /\ Held(g, k)' \in Nat
      /\ Held(g, k)' = Held(g, k) + (Holds(r, g, k)' - Holds(r, g, k))
  BY HeldShift
<1>2. GetsOf(made[g], k) \in Nat /\ GetsOf(made'[g], k) \in Nat
  <2>1. made[g] \in CountMaps /\ made'[g] \in CountMaps
    BY DEF Accounted
  <2> QED
    BY <2>1, CountMapFacts
<1>3. PublishedIn(g, k) \in Nat /\ PublishedIn(g, k)' \in Nat
  <2>1. published \in [Places -> CountMaps] /\ published' \in [Places -> CountMaps]
    BY DEF TypeInv
  <2> QED
    BY <2>1, TotalTyped, PublishedIs
<1>4. Holds(r, g, k) \in Nat /\ Holds(r, g, k)' \in Nat
  BY HoldsFacts, HoldsNext
<1>5. /\ PublishedIn(g, k) + Held(g, k) <= GetsOf(made[g], k)
      /\ PublishedIn(g, k)' + Holds(r, g, k)' + GetsOf(made[g], k)
           <= PublishedIn(g, k) + Holds(r, g, k) + GetsOf(made'[g], k)
  BY DEF Accounted
<1> QED
  BY <1>1, <1>2, <1>3, <1>4, <1>5

\* A step that publishes nothing and makes nothing, and in which one replica's share
\* does not grow.
LEMMA Shrinks ==
  ASSUME TypeInv, TypeInv', Accounted, NEW r \in Replicas,
         made' = made, published' = published,
         \A s \in Replicas : s # r => /\ shape'[s] = shape[s] /\ pending'[s] = pending[s]
                                      /\ round'[s] = round[s],
         \A g \in Capacities, k \in ArmKeys : Holds(r, g, k)' <= Holds(r, g, k)
  PROVE  Accounted'
<1>1. \A s \in Replicas, g \in Capacities, k \in ArmKeys :
        s # r => Holds(s, g, k)' = Holds(s, g, k)
  BY DEF Holds, Buffered, Sending
<1>2. ASSUME NEW g \in Capacities, NEW k \in ArmKeys
      PROVE  PublishedIn(g, k)' + Holds(r, g, k)' + GetsOf(made[g], k)
               <= PublishedIn(g, k) + Holds(r, g, k) + GetsOf(made'[g], k)
  <2>1. PublishedIn(g, k)' = PublishedIn(g, k)
    BY PublishedIs
  <2>2. PublishedIn(g, k) \in Nat
    <3>1. published \in [Places -> CountMaps]
      BY DEF TypeInv
    <3> QED
      BY <3>1, TotalTyped, PublishedIs
  <2>3. made[g] \in CountMaps
    BY DEF Accounted
  <2>4. GetsOf(made[g], k) \in Nat /\ GetsOf(made'[g], k) = GetsOf(made[g], k)
    BY <2>3, CountMapFacts
  <2>5. Holds(r, g, k) \in Nat /\ Holds(r, g, k)' \in Nat
    BY HoldsFacts, HoldsNext
  <2>6. Holds(r, g, k)' <= Holds(r, g, k)
    OBVIOUS
  <2> QED
    BY <2>1, <2>2, <2>4, <2>5, <2>6
<1>3. made' \in [Capacities -> CountMaps]
  BY DEF Accounted
<1> QED
  BY <1>1, <1>2, <1>3, Balanced

\* A report adds to one buffer what it adds to what was made; counts of another
\* regime are dropped.
LEMMA RecordAccounted ==
  ASSUME TypeInv, TypeInv', Accounted, NEW r \in Replicas, NEW p \in Policies,
         NEW a \in Capacities, NEW n \in Gets, RecordEpoch(r, p, a, n)
  PROVE  Accounted'
<1> DEFINE c == Report(p, n)
           old == Buffer(r, a)
<1>1. c \in CountMaps
  BY ReportFacts
<1>2. old \in CountMaps
  BY EmptyFacts DEF Buffer, TypeInv
<1>3. /\ made' = [made EXCEPT ![a] = AddCounts(@, c)]
      /\ shape' = [shape EXCEPT ![r] = a]
      /\ pending' = [pending EXCEPT ![r] = AddCounts(old, c)]
      /\ published' = published /\ round' = round
  BY DEF RecordEpoch, storeVars
<1>4. \A k : Buffered(r, a, k) = GetsOf(old, k)
  BY GetsOfNone DEF Buffer, Buffered
<1> HIDE DEF c, old
<1>5. made \in [Capacities -> CountMaps]
  BY DEF Accounted
<1>6. AddCounts(made[a], c) \in CountMaps
  BY <1>1, <1>5, AddCountsFacts
<1>7. made' \in [Capacities -> CountMaps]
  BY <1>3, <1>5, <1>6
<1>8. \A s \in Replicas, g \in Capacities, k \in ArmKeys :
        s # r => Holds(s, g, k)' = Holds(s, g, k)
  BY <1>3 DEF Holds, Buffered, Sending, TypeInv
<1>9. shape'[r] = a /\ pending'[r] = AddCounts(old, c)
  BY <1>3 DEF TypeInv
<1>10. ASSUME NEW g \in Capacities, NEW k \in ArmKeys
       PROVE  PublishedIn(g, k)' + Holds(r, g, k)' + GetsOf(made[g], k)
                <= PublishedIn(g, k) + Holds(r, g, k) + GetsOf(made'[g], k)
  <2>1. PublishedIn(g, k)' = PublishedIn(g, k) /\ PublishedIn(g, k) \in Nat
    <3>1. published \in [Places -> CountMaps]
      BY DEF TypeInv
    <3> QED
      BY <1>3, <3>1, TotalTyped, PublishedIs
  <2>2. Buffered(r, g, k) \in Nat /\ Sending(r, g, k) \in Nat
    BY HoldsFacts
  <2>3. Sending(r, g, k)' = Sending(r, g, k)
    BY <1>3 DEF Sending
  <2>4. GetsOf(c, k) \in Nat /\ GetsOf(old, k) \in Nat
        /\ GetsOf(AddCounts(old, c), k) = GetsOf(old, k) + GetsOf(c, k)
    BY <1>1, <1>2, CountMapFacts, GetsOfSums
  <2>5. made[g] \in CountMaps /\ GetsOf(made[g], k) \in Nat
    BY <1>5, CountMapFacts
  <2>6. CASE g = a
    <3>1. Buffered(r, g, k)' = Buffered(r, g, k) + GetsOf(c, k)
      BY <1>4, <1>9, <2>4, <2>6 DEF Buffered
    <3>2. GetsOf(made'[g], k) = GetsOf(made[g], k) + GetsOf(c, k)
      BY <1>1, <1>3, <1>5, <2>5, <2>6, GetsOfSums
    <3> QED
      BY <2>1, <2>2, <2>3, <2>4, <2>5, <3>1, <3>2 DEF Holds
  <2>7. CASE g # a
    <3>1. Buffered(r, g, k)' = 0
      BY <1>9, <2>7 DEF Buffered
    <3>2. GetsOf(made'[g], k) = GetsOf(made[g], k)
      BY <1>3, <1>5, <2>7
    <3> QED
      BY <2>1, <2>2, <2>3, <2>5, <3>1, <3>2 DEF Holds
  <2> QED
    BY <2>6, <2>7
<1> QED
  BY <1>7, <1>8, <1>10, Balanced

\* A round takes what the buffer held.
LEMMA StartAccounted ==
  ASSUME TypeInv, TypeInv', Accounted, NEW r \in Replicas, StartSync(r)
  PROVE  Accounted'
<1>1. /\ made' = made /\ published' = published /\ shape' = shape
      /\ pending' = [pending EXCEPT ![r] = NoCounts]
      /\ round' = [round EXCEPT ![r] = [Idle EXCEPT !.step = "sync", !.ns = shape[r],
                                          !.counts = pending[r], !.started = now]]
  BY DEF StartSync, Drain, storeVars
<1>2. \A s \in Replicas : s # r => /\ shape'[s] = shape[s] /\ pending'[s] = pending[s]
                                   /\ round'[s] = round[s]
  BY <1>1 DEF TypeInv
<1>3. /\ pending'[r] = NoCounts
      /\ round'[r].ns = shape[r] /\ round'[r].counts = pending[r]
  BY <1>1 DEF TypeInv, Idle
<1>4. ASSUME NEW g \in Capacities, NEW k \in ArmKeys
      PROVE  Holds(r, g, k)' <= Holds(r, g, k)
  <2>1. Buffered(r, g, k)' = 0
    BY <1>3, GetsOfNone DEF Buffered
  <2>2. Sending(r, g, k)' = Buffered(r, g, k)
    BY <1>3 DEF Sending, Buffered
  <2>3. Buffered(r, g, k) \in Nat /\ Sending(r, g, k) \in Nat
    BY HoldsFacts
  <2> QED
    BY <2>1, <2>2, <2>3 DEF Holds
<1> QED
  BY <1>1, <1>2, <1>4, Shrinks

\* A Sync moves a round's counts to the store, be its reply lost or not.
LEMMA SyncAccounted ==
  ASSUME TypeInv, TypeInv', Accounted, NEW r \in Replicas,
         SyncOk(r) \/ SyncReplyLost(r)
  PROVE  Accounted'
<1> DEFINE x == Place(r)
           c == round[r].counts
<1>1. /\ round[r].step = "sync" /\ StoreSync(r)
      /\ made' = made /\ shape' = shape /\ pending' = pending
  BY DEF SyncOk, SyncReplyLost, cacheVars
<1>2. /\ x \in Places /\ x[1] = round[r].ns /\ c \in CountMaps
  BY <1>1, PlaceFacts
<1>3. published' = [published EXCEPT ![x] = AddCounts(@, Sent(c))]
  BY <1>1 DEF StoreSync
<1>4. round'[r].counts = NoCounts /\ \A s \in Replicas : s # r => round'[s] = round[s]
  <2>1. CASE SyncReplyLost(r)
    BY <2>1, SyncFailsFacts, IdleFacts
  <2>2. CASE SyncOk(r)
    <3>1. round[r] \in Rounds
      BY DEF TypeInv
    <3>2. round'[r].counts = NoCounts
      BY <2>2, <3>1 DEF SyncOk, TypeInv, Rounds
    <3> QED
      BY <2>2, <3>2, SyncOkFacts
  <2> QED
    BY <2>1, <2>2
<1> HIDE DEF x, c
<1>5. Sent(c) \in CountMaps
  BY <1>2, SentFacts
<1>6. made' \in [Capacities -> CountMaps]
  BY <1>1 DEF Accounted
<1>7. \A s \in Replicas, g \in Capacities, k \in ArmKeys :
        s # r => Holds(s, g, k)' = Holds(s, g, k)
  BY <1>1, <1>4 DEF Holds, Buffered, Sending
<1>8. ASSUME NEW g \in Capacities, NEW k \in ArmKeys
      PROVE  PublishedIn(g, k)' + Holds(r, g, k)' + GetsOf(made[g], k)
               <= PublishedIn(g, k) + Holds(r, g, k) + GetsOf(made'[g], k)
  <2>1. published \in [Places -> CountMaps]
    BY DEF TypeInv
  <2>2. GetsOf(Sent(c), k) = GetsOf(c, k) /\ GetsOf(c, k) \in Nat
    BY <1>2, GetsOfSent, CountMapFacts
  <2>3. /\ PublishedIn(g, k) \in Nat
        /\ PublishedIn(g, k)'
             = PublishedIn(g, k) + (IF x[1] = g THEN GetsOf(Sent(c), k) ELSE 0)
    <3>1. published' \in [Places -> CountMaps]
      BY DEF TypeInv
    <3>2. /\ published'[x] = AddCounts(published[x], Sent(c))
          /\ \A y \in Places : y # x => published'[y] = published[y]
      BY <1>2, <1>3, <2>1
    <3>3. Total(published', g, k)
            = Total(published, g, k) + (IF x[1] = g THEN GetsOf(Sent(c), k) ELSE 0)
      BY <1>2, <1>5, <2>1, <3>1, <3>2, TotalShift
    <3>4. Total(published, g, k) \in Nat
      BY <2>1, TotalTyped
    <3> QED
      BY <3>3, <3>4, PublishedIs
  <2>4. Sending(r, g, k) = IF x[1] = g THEN GetsOf(c, k) ELSE 0
    BY <1>2 DEF Sending, c
  <2>5. Sending(r, g, k)' = 0
    BY <1>4, GetsOfNone DEF Sending
  <2>6. Buffered(r, g, k)' = Buffered(r, g, k) /\ Buffered(r, g, k) \in Nat
    BY <1>1, HoldsFacts DEF Buffered
  <2>7. made[g] \in CountMaps
    BY DEF Accounted
  <2>8. GetsOf(made[g], k) \in Nat /\ GetsOf(made'[g], k) = GetsOf(made[g], k)
    BY <1>1, <2>7, CountMapFacts
  <2> QED
    BY <2>2, <2>3, <2>4, <2>5, <2>6, <2>8 DEF Holds
<1> QED
  BY <1>6, <1>7, <1>8, Balanced

\* Every other step keeps a replica's share or drops it.
LEMMA OtherAccounted ==
  ASSUME TypeInv, TypeInv', Accounted, NEW r \in Replicas,
         SyncNothing(r) \/ SyncFails(r) \/ ReadWindow(r) \/ ReadFails(r) \/ Decide(r)
         \/ DecideFails(r) \/ ApplyResult(r) \/ Restart(r)
  PROVE  Accounted'
<1>1. made' = made /\ published' = published
  BY DEF SyncNothing, SyncFails, ReadWindow, ReadFails, Decide, DecideFails, ApplyResult,
         Restart, storeVars, cacheVars
<1>2. /\ \A s \in Replicas : s # r => shape'[s] = shape[s] /\ pending'[s] = pending[s]
      /\ \/ shape'[r] = shape[r] /\ pending'[r] = pending[r]
         \/ pending'[r] = NoCounts
  BY ZenonT(30) DEF SyncNothing, SyncFails, ReadWindow, ReadFails, Decide, DecideFails, ApplyResult,
         Restart, storeVars, cacheVars, TypeInv
<1>3. /\ \A s \in Replicas : s # r => round'[s] = round[s]
      /\ \/ round'[r].ns = round[r].ns /\ round'[r].counts = round[r].counts
         \/ round'[r].counts = NoCounts
  <2>1. round[r] \in Rounds /\ round \in [Replicas -> Rounds]
    BY DEF TypeInv
  <2>2. CASE SyncNothing(r)
    BY <2>2 DEF SyncNothing
  <2>3. CASE SyncFails(r) \/ ApplyResult(r) \/ Restart(r)
    BY <2>3, SyncFailsFacts, ApplyFacts, RestartFacts, IdleFacts
  <2>4. CASE ReadWindow(r)
    <3> DEFINE range == ReadRange(round[r].bucket)
               w == WindowCounts(store, round[r].ns, range[1], range[2], now)
    <3>1. PICK p \in Draws(w) : round' = [round EXCEPT
                       ![r].read = TRUE, ![r].window = w,
                       ![r].choice = IF p = Undefined THEN @ ELSE p,
                       ![r].step = IF p = Undefined \/ Mode = "shared"
                                   THEN "apply" ELSE "decide"]
      BY <2>4 DEF ReadWindow
    <3> HIDE DEF w
    <3> QED
      BY <2>1, <3>1 DEF Rounds
  <2>5. CASE ReadFails(r)
    BY <2>1, <2>5 DEF ReadFails, Rounds
  <2>6. CASE Decide(r) \/ DecideFails(r)
    <3>1. PICK c : round' = [round EXCEPT ![r].step = "apply", ![r].choice = c]
      BY <2>6 DEF Decide, DecideFails
    <3> QED
      BY <2>1, <3>1 DEF Rounds
  <2> QED
    BY <2>2, <2>3, <2>4, <2>5, <2>6
<1>4. ASSUME NEW g \in Capacities, NEW k \in ArmKeys
      PROVE  Holds(r, g, k)' <= Holds(r, g, k)
  <2>1. Buffered(r, g, k) \in Nat /\ Sending(r, g, k) \in Nat
    BY HoldsFacts
  <2>2. Buffered(r, g, k)' = Buffered(r, g, k) \/ Buffered(r, g, k)' = 0
    BY <1>2, GetsOfNone DEF Buffered
  <2>3. Sending(r, g, k)' = Sending(r, g, k) \/ Sending(r, g, k)' = 0
    BY <1>3, GetsOfNone DEF Sending
  <2> QED
    BY <2>1, <2>2, <2>3 DEF Holds
<1> QED
  BY <1>1, <1>2, <1>3, <1>4, Shrinks

LEMMA AccountedInit == Init => Accounted
<1> SUFFICES ASSUME Init PROVE Accounted
  OBVIOUS
<1>1. made \in [Capacities -> CountMaps] /\ \A g \in Capacities : made[g] = NoCounts
  BY EmptyFacts DEF Init
<1>2. ASSUME NEW g \in Capacities, NEW k \in ArmKeys
      PROVE  PublishedIn(g, k) + Held(g, k) <= GetsOf(made[g], k)
  <2>1. Held(g, k) = 0
    <3>1. \A r \in Replicas : Holds(r, g, k) = 0
      BY GetsOfNone, IdleFacts DEF Init, Holds, Buffered, Sending
    <3>2. \A i \in 0 .. Cardinality(Replicas) : Shares(g, k)[i] = 0
      BY <3>1, NumberingFacts DEF Shares
    <3> QED
      BY <3>2, NumberingFacts, SumZero DEF Held
  <2>2. PublishedIn(g, k) = 0
    <3> DEFINE h == [b \in Buckets |-> GetsOf(published[<<g, b>>], k)]
               n == BucketAt(MaxTime)
    <3>1. published \in [Places -> CountMaps]
      BY EmptyFacts DEF Init
    <3>2. Total(published, g, k) = SumTo(h, n)
      BY <3>1, TotalIs
    <3>3. n \in Nat /\ Buckets = 0 .. n
      <4>1. MaxTime \in Nat
        BY FleetAssumption
      <4> QED
        BY <4>1, BucketFacts DEF Buckets
    <3>4. \A b \in Buckets : <<g, b>> \in Places
      BY DEF Places
    <3>5. \A b \in Buckets : h[b] = 0
      BY <3>4, GetsOfNone DEF Init
    <3> HIDE DEF h, n
    <3>6. SumTo(h, n) = 0
      BY <3>3, <3>5, SumZero
    <3> QED
      BY <3>2, <3>6, PublishedIs
  <2>3. GetsOf(made[g], k) = 0
    BY <1>1, GetsOfNone
  <2> QED
    BY <2>1, <2>2, <2>3
<1> QED
  BY <1>1, <1>2 DEF Accounted

LEMMA AccountedStep == TypeInv /\ Accounted /\ [Next]_vars => Accounted'
<1> SUFFICES ASSUME TypeInv, Accounted, [Next]_vars PROVE Accounted'
  OBVIOUS
<1>1. TypeInv'
  BY TypeStep
<1>2. CASE UNCHANGED vars \/ Tick
  <2>1. UNCHANGED <<made, published, shape, pending, round>>
    BY <1>2 DEF vars, Tick, storeVars, cacheVars
  <2>2. \A g, k : Held(g, k)' = Held(g, k)
    BY <2>1 DEF Held, Shares, Holds, Buffered, Sending
  <2>3. \A g, k : PublishedIn(g, k)' = PublishedIn(g, k)
    BY <2>1, PublishedIs
  <2> QED
    BY <2>1, <2>2, <2>3 DEF Accounted
<1> QED
  BY <1>1, <1>2, RecordAccounted, StartAccounted, SyncAccounted, OtherAccounted DEF Next

\* A report counts at most once, in the namespace of its own regime: what the store
\* ever took for a regime, all buckets together, is at most what caches measured under
\* it, whatever replies are lost, replicas restarted or caches resized in mid-round.
THEOREM ReportsCountOnce == Spec => []EvidenceCountsOnce
<1>1. Init => TypeInv /\ Accounted
  BY InitTypes, AccountedInit
<1>2. TypeInv /\ Accounted /\ [Next]_vars => (TypeInv /\ Accounted)'
  BY TypeStep, AccountedStep
<1>3. TypeInv /\ Accounted => EvidenceCountsOnce
  <2> SUFFICES ASSUME TypeInv, Accounted, NEW g \in Capacities, NEW k \in ArmKeys
               PROVE  PublishedIn(g, k) <= GetsOf(made[g], k)
    BY DEF EvidenceCountsOnce
  <2>1. Held(g, k) \in Nat
    <3> DEFINE n == Cardinality(Replicas)
    <3>1. \A r \in Replicas : Holds(r, g, k) \in Nat
      BY HoldsFacts
    <3>2. n \in Nat /\ \A i \in 1 .. n : Numbering[i] \in Replicas
      BY NumberingFacts
    <3>3. \A i \in 0 .. n : Shares(g, k)[i] \in Nat
      BY <3>1, <3>2 DEF Shares
    <3> DEFINE h == Shares(g, k)
    <3>4. Held(g, k) = SumTo(h, n)
      BY DEF Held
    <3> HIDE DEF n, h
    <3>5. \A i \in 0 .. n : h[i] \in Int /\ h[i] >= 0
      BY <3>3 DEF h
    <3>6. SumTo(h, n) \in Int /\ SumTo(h, n) >= 0
      BY <3>2, <3>5, SumTyped
    <3> QED
      BY <3>4, <3>6
  <2>2. published \in [Places -> CountMaps] /\ made[g] \in CountMaps
    BY DEF TypeInv, Accounted
  <2>3. PublishedIn(g, k) \in Nat
    BY <2>2, TotalTyped, PublishedIs
  <2>4. GetsOf(made[g], k) \in Nat
    BY <2>2, CountMapFacts
  <2>5. PublishedIn(g, k) + Held(g, k) <= GetsOf(made[g], k)
    BY DEF Accounted
  <2> QED
    BY <2>1, <2>3, <2>4, <2>5
<1> QED
  BY <1>1, <1>2, <1>3, PTL DEF Spec

=============================================================================
