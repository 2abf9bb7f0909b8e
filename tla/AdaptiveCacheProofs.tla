------------------------- MODULE AdaptiveCacheProofs -------------------------
(***************************************************************************)
(* Machine-checked proofs about AdaptiveCache, for every set of policies,  *)
(* keys, values, goroutines and settings: first what its operations do and *)
(* the invariants of the lock and of the arms' contents, then what the     *)
(* role of an arm means for its contents, its capacity and its counters,   *)
(* how long a window lasts, and on which evidence the active policy        *)
(* changes.                                                                *)
(***************************************************************************)
EXTENDS AdaptiveCache, PolicyLemmas

----------------------------------------------------------------------------
(* Policies' operations on contents *)

\* The contents of an arm.
Contents == [Keys -> Values \cup {Zero, None}]

\* Resize keeps entries or evicts them.
LEMMA ResizeFacts ==
  ASSUME NEW c \in Contents, NEW n, NEW d \in ResizeOutcomes(c, n)
  PROVE  /\ d \in Contents
         /\ \A j \in Keys : d[j] \in {None, c[j]}
BY DEF Contents, ResizeOutcomes, Keep

----------------------------------------------------------------------------
(* Operations on arms *)

\* Contents of an arm.
LEMMA ArmFacts ==
  ASSUME NEW a \in Arms
  PROVE  a.data \in Contents /\ a.cap \in Nat /\ a.stats \in Stats
BY DEF Arms, Contents

\* Add stores the value under its key or drops it, and changes no other entry
\* except by evicting it.
LEMMA AddsFacts ==
  ASSUME NEW p \in Policies, NEW a \in Arms, NEW k \in Keys,
         NEW v \in Values \cup {Zero, None}, NEW b \in Adds(p, a, k, v)
  PROVE  /\ b \in Arms /\ b.stats = a.stats
         /\ b.data[k] \in {None, v}
         /\ \A j \in Keys : j # k => b.data[j] \in {None, a.data[j]}
<1>1. CASE a.cap = 0
  <2>1. b = [a EXCEPT !.data = Empty]
    BY <1>1 DEF Adds
  <2>2. b \in Arms /\ b.stats = a.stats /\ b.data = Empty
    BY <2>1 DEF Arms, Empty
  <2> QED
    BY <2>2 DEF Empty
<1>2. CASE a.cap # 0
  <2>1. PICK d \in AddOutcomes(a.data, a.cap, k, v, p \in Lossy) :
          b = [a EXCEPT !.data = d]
    BY <1>2 DEF Adds
  <2>2. a.data \in Contents
    BY ArmFacts
  <2>3. /\ d \in Contents
        /\ d[k] \in {None, v}
        /\ \A j \in Keys : j # k => d[j] \in {None, a.data[j]}
    BY <2>1, <2>2 DEF AddOutcomes, Without, Contents
  <2>4. b.data = d /\ b.stats = a.stats /\ b \in Arms
    BY <2>1, <2>3 DEF Arms, Contents
  <2> QED
    BY <2>3, <2>4
<1> QED
  BY <1>1, <1>2

\* CacheWrapper.Resize keeps entries or evicts them, and leaves the counters.
LEMMA ResizesFacts ==
  ASSUME NEW a \in Arms, NEW n \in Nat, NEW b \in Resizes(a, n)
  PROVE  /\ b \in Arms /\ b.stats = a.stats /\ b.cap = n
         /\ \A j \in Keys : b.data[j] \in {None, a.data[j]}
<1>1. PICK d \in ResizeOutcomes(a.data, n) : b = [a EXCEPT !.data = d, !.cap = n]
  BY DEF Resizes
<1>2. d \in Contents /\ \A j \in Keys : d[j] \in {None, a.data[j]}
  BY <1>1, ArmFacts, ResizeFacts
<1>3. b.data = d /\ b.stats = a.stats /\ b.cap = n /\ b \in Arms
  BY <1>1, <1>2 DEF Arms, Contents
<1> QED
  BY <1>2, <1>3

\* A demoted policy holds no value, no unsampled key and no counts.
LEMMA DemotedFacts ==
  ASSUME shadowCap \in [Policies -> Nat], NEW p \in Policies, NEW a \in Arms,
         NEW b \in Demoted(p, a)
  PROVE  /\ b \in Arms /\ b.stats = NoCount
         /\ \A j \in Keys : b.data[j] \in IF j \in Sampled THEN {None, Zero}
                                                           ELSE {None}
<1> DEFINE zeroed == [k \in Keys |-> IF a.data[k] # None /\ k \in Sampled
                                     THEN Zero ELSE None]
           blank  == [a EXCEPT !.data = zeroed, !.stats = NoCount]
<1>1. /\ blank \in Arms /\ blank.data = zeroed /\ blank.stats = NoCount
  BY DEF Arms, Stats, NoCount
<1>2. b \in Resizes(blank, shadowCap[p]) \/ b = blank
  BY DEF Demoted
<1>3. CASE b = blank
  BY <1>1, <1>3
<1>4. CASE b \in Resizes(blank, shadowCap[p])
  <2>1. shadowCap[p] \in Nat
    OBVIOUS
  <2>2. /\ b \in Arms /\ b.stats = NoCount
        /\ \A j \in Keys : b.data[j] \in {None, zeroed[j]}
    <3> HIDE DEF blank, zeroed
    <3> QED BY <1>1, <1>4, <2>1, ResizesFacts
  <2> QED
    BY <2>2
<1> QED
  BY <1>2, <1>3, <1>4

\* Looking a key up changes nothing but the counters.
LEMMA LookupFacts ==
  ASSUME NEW a \in Arms, NEW k
  PROVE  Lookup(a, k) \in Arms /\ Lookup(a, k).data = a.data
BY DEF Lookup, Arms, Stats, Counted

----------------------------------------------------------------------------
(* Operations on all arms, and the window *)

\* All the arms.
ArmMap == [Policies -> Arms]

\* Replacing one arm leaves the others alone.
LEMMA PutFacts ==
  ASSUME NEW s \in ArmMap, NEW p \in Policies, NEW a \in Arms
  PROVE  /\ Put(s, p, a) \in ArmMap
         /\ Put(s, p, a)[p] = a
         /\ \A q \in Policies : q # p => Put(s, p, a)[q] = s[q]
BY DEF Put, ArmMap

\* The shadow pass of Get touches counters of shadows only.
LEMMA ShadowGetsFacts ==
  ASSUME arms \in ArmMap, NEW k
  PROVE  /\ ShadowGets(k) \in ArmMap
         /\ ShadowGets(k)[activePolicy] = arms[activePolicy] \/ activePolicy \notin Policies
         /\ \A p \in Policies : ShadowGets(k)[p].data = arms[p].data
BY LookupFacts DEF ShadowGets, ArmMap

\* The shadow pass of Add leaves the active policy alone, and changes no entry of
\* another arm but the one written and those it evicts.
LEMMA ShadowAddsFacts ==
  ASSUME arms \in ArmMap, activePolicy \in Policies, NEW k \in Keys,
         NEW s \in ShadowAdds(k)
  PROVE  /\ s \in ArmMap
         /\ s[activePolicy] = arms[activePolicy]
         /\ \A p \in Policies : \A j \in Keys :
              j # k => s[p].data[j] \in {None, arms[p].data[j]}
<1>1. /\ s = [p \in Policies |-> s[p]]
      /\ \A p \in Policies :
           s[p] \in IF p # activePolicy /\ k \in Sampled
                    THEN Adds(p, arms[p], k, Zero) ELSE {arms[p]}
  BY DEF ShadowAdds, Choices
<1>2. ASSUME NEW p \in Policies
      PROVE  /\ s[p] \in Arms
             /\ p = activePolicy => s[p] = arms[p]
             /\ \A j \in Keys : j # k => s[p].data[j] \in {None, arms[p].data[j]}
  <2>1. arms[p] \in Arms
    BY DEF ArmMap
  <2>2. CASE p # activePolicy /\ k \in Sampled
    <3>1. s[p] \in Adds(p, arms[p], k, Zero)
      BY <1>1, <2>2
    <3>2. Zero \in Values \cup {Zero, None}
      OBVIOUS
    <3>3. /\ s[p] \in Arms
          /\ \A j \in Keys : j # k => s[p].data[j] \in {None, arms[p].data[j]}
      BY <2>1, <3>1, <3>2, AddsFacts
    <3> QED
      BY <2>2, <3>3
  <2>3. CASE ~(p # activePolicy /\ k \in Sampled)
    BY <1>1, <2>1, <2>3
  <2> QED
    BY <2>2, <2>3
<1> QED
  BY <1>1, <1>2 DEF ArmMap

\* What closing the window does: only its source changes.
LEMMA CloseFacts ==
  ASSUME shadowCap \in [Policies -> Nat], NEW s \in ArmMap, NEW m \in Windows,
         NEW o \in CloseMigration(s, m)
  PROVE  /\ o.arms \in ArmMap /\ o.migration = NoMigration
         /\ \A p \in Policies : p = activePolicy => o.arms[p] = s[p]
         /\ \A p \in Policies :
              \/ o.arms[p] = s[p]
              \/ /\ p = m.from /\ o.arms[p].stats = NoCount
                 /\ \A j \in Keys : o.arms[p].data[j] \in
                      IF j \in Sampled THEN {None, Zero} ELSE {None}
<1>1. CASE m.migrating /\ m.from # Undefined /\ m.from # activePolicy
  <2>1. m.from \in Policies
    BY <1>1 DEF Windows
  <2>2. PICK d \in Demoted(m.from, s[m.from]) :
          o = After(Put(s, m.from, d), NoMigration)
    BY <1>1 DEF CloseMigration
  <2>3. s[m.from] \in Arms
    BY <2>1 DEF ArmMap
  <2>4. /\ d \in Arms /\ d.stats = NoCount
        /\ \A j \in Keys : d.data[j] \in IF j \in Sampled THEN {None, Zero}
                                                          ELSE {None}
    BY <2>1, <2>2, <2>3, DemotedFacts
  <2>5. o.arms = Put(s, m.from, d) /\ o.migration = NoMigration
    BY <2>2 DEF After
  <2> QED
    BY <1>1, <2>1, <2>4, <2>5, PutFacts
<1>2. CASE ~(m.migrating /\ m.from # Undefined /\ m.from # activePolicy)
  BY <1>2 DEF CloseMigration, After
<1> QED
  BY <1>1, <1>2

----------------------------------------------------------------------------
(* The inductive core.  The arms s, with the window m, are good for the      *)
(* values L the callers last stored: the active policy serves nothing else,  *)
(* and a key the window may still promote has nothing else to promote.       *)

Good(act, s, m, L) ==
  /\ s \in ArmMap /\ m \in Windows
  /\ m.migrating => m.from \in Policies \ {act}
  /\ ~m.migrating => m.realKeys = {}
  /\ \A k \in Keys : s[act].data[k] \in {None, L[k]}
  /\ \A k \in m.realKeys : /\ s[m.from].data[k] \in {None, L[k]}
                           /\ s[act].data[k] = None

\* The ghost's type.
Latest == [Keys -> Values \cup {None}]

\* An operation of the window that keeps them good, leaves the active policy's
\* counters alone and makes no key eligible.
Leads(s, m, L, o) ==
  /\ Good(activePolicy, o.arms, o.migration, L)
  /\ o.arms[activePolicy].stats = s[activePolicy].stats
  /\ o.migration.realKeys \subseteq m.realKeys

\* A cleared window is a window.
LEMMA NoMigrationFacts ==
  NoMigration \in Windows /\ NoMigration.realKeys = {} /\ ~NoMigration.migrating
BY DEF NoMigration, Windows

\* closeMigrationLocked keeps arms and window good.
LEMMA CloseLeads ==
  ASSUME activePolicy \in Policies, shadowCap \in [Policies -> Nat],
         NEW s, NEW m, NEW L, Good(activePolicy, s, m, L), NEW o \in CloseMigration(s, m)
  PROVE  Leads(s, m, L, o)
<1>1. s \in ArmMap /\ m \in Windows
  BY DEF Good
<1>2. /\ o.arms \in ArmMap /\ o.migration = NoMigration
      /\ o.arms[activePolicy] = s[activePolicy]
  BY <1>1, CloseFacts
<1> QED
  BY <1>2, NoMigrationFacts DEF Good, Leads

\* So does keeping the window open while a key is eligible.
LEMMA KeepOrCloseLeads ==
  ASSUME activePolicy \in Policies, shadowCap \in [Policies -> Nat],
         NEW s, NEW m, NEW L, Good(activePolicy, s, m, L), NEW o \in KeepOrClose(s, m)
  PROVE  Leads(s, m, L, o)
<1>1. CASE m.realKeys = {}
  BY <1>1, CloseLeads DEF KeepOrClose
<1>2. CASE m.realKeys # {}
  <2>1. o.arms = s /\ o.migration = m
    BY <1>2 DEF KeepOrClose, After
  <2> QED
    BY <2>1 DEF Leads
<1> QED
  BY <1>1, <1>2

\* Keys may stop being eligible.
LEMMA ShrinkGood ==
  ASSUME NEW s, NEW m, NEW L, Good(activePolicy, s, m, L), NEW n \in Windows,
         n.migrating = m.migrating, n.from = m.from,
         n.realKeys \subseteq m.realKeys
  PROVE  Good(activePolicy, s, n, L)
BY DEF Good

\* Moving an eligible key that the source still holds, which then stops being
\* eligible.
LEMMA TransferGood ==
  ASSUME activePolicy \in Policies,
         NEW s, NEW m, NEW L \in Latest, Good(activePolicy, s, m, L),
         NEW k \in m.realKeys, NEW t \in Transfers(s, m, k),
         NEW n \in Windows, n.migrating = m.migrating, n.from = m.from,
         n.realKeys \subseteq m.realKeys \ {k}
  PROVE  Good(activePolicy, t, n, L) /\ t[activePolicy].stats = s[activePolicy].stats
<1>1. /\ s \in ArmMap /\ m \in Windows /\ m.migrating /\ k \in Keys
      /\ m.from \in Policies /\ m.from # activePolicy
  BY DEF Good, Windows
<1>2. /\ s[activePolicy] \in Arms /\ s[m.from] \in Arms
      /\ s[m.from].data[k] \in {None, L[k]}
      /\ s[m.from].data[k] \in Values \cup {Zero, None}
  BY <1>1 DEF Good, ArmMap, Arms
<1>3. PICK a \in Adds(activePolicy, s[activePolicy], k, s[m.from].data[k]) :
        t = Put(s, activePolicy, a)
  BY DEF Transfers
<1>4. /\ a \in Arms /\ a.stats = s[activePolicy].stats
      /\ a.data[k] \in {None, s[m.from].data[k]}
      /\ \A j \in Keys : j # k => a.data[j] \in {None, s[activePolicy].data[j]}
  BY <1>1, <1>2, <1>3, AddsFacts
<1>5. /\ t \in ArmMap /\ t[activePolicy] = a
      /\ t[m.from] = s[m.from]
  BY <1>1, <1>3, <1>4, PutFacts
<1>6. \A j \in Keys : a.data[j] \in {None, L[j]}
  BY <1>2, <1>4 DEF Good
<1>7. \A j \in n.realKeys : a.data[j] = None /\ s[m.from].data[j] \in {None, L[j]}
  BY <1>1, <1>4 DEF Good, Windows
<1> QED
  BY <1>1, <1>4, <1>5, <1>6, <1>7 DEF Good

\* promoteLocked keeps arms and window good.
LEMMA PromoteLeads ==
  ASSUME activePolicy \in Policies, shadowCap \in [Policies -> Nat],
         NEW s, NEW m, NEW L \in Latest, Good(activePolicy, s, m, L),
         NEW k \in Keys, NEW o \in PromoteKey(s, m, k)
  PROVE  Leads(s, m, L, o)
<1> DEFINE n == [m EXCEPT !.realKeys = @ \ {k}]
<1>1. PICK t : /\ o \in KeepOrClose(t, n)
               /\ t \in IF k \in m.realKeys /\ s[m.from].data[k] # None
                        THEN Transfers(s, m, k) ELSE {s}
  BY DEF PromoteKey
<1>2. /\ n \in Windows /\ n.migrating = m.migrating /\ n.from = m.from
      /\ n.realKeys = m.realKeys \ {k}
  BY DEF Windows, Good
<1> HIDE DEF n
<1>3. Good(activePolicy, t, n, L) /\ t[activePolicy].stats = s[activePolicy].stats
  <2>1. CASE k \in m.realKeys /\ s[m.from].data[k] # None
    BY <1>1, <1>2, <2>1, TransferGood
  <2>2. CASE ~(k \in m.realKeys /\ s[m.from].data[k] # None)
    BY <1>1, <1>2, <2>2, ShrinkGood
  <2> QED
    BY <2>1, <2>2
<1>4. Leads(t, n, L, o)
  BY <1>1, <1>3, KeepOrCloseLeads
<1> QED
  BY <1>2, <1>3, <1>4 DEF Leads

\* The last round of drainOneKey keeps arms and window good.
LEMMA DrainKeyLeads ==
  ASSUME activePolicy \in Policies, shadowCap \in [Policies -> Nat],
         NEW s, NEW m, NEW L \in Latest, Good(activePolicy, s, m, L),
         NEW k \in m.realKeys, NEW popped, k \in popped,
         NEW o \in DrainKey(s, m, k, popped)
  PROVE  Leads(s, m, L, o)
<1> DEFINE n == [m EXCEPT !.keys = @ \ popped, !.realKeys = @ \ popped]
<1>1. PICK t \in Transfers(s, m, k) : o \in KeepOrClose(t, n)
  BY DEF DrainKey
<1>2. /\ n \in Windows /\ n.migrating = m.migrating /\ n.from = m.from
      /\ n.realKeys \subseteq m.realKeys \ {k}
  BY DEF Windows, Good
<1> HIDE DEF n
<1>3. Good(activePolicy, t, n, L) /\ t[activePolicy].stats = s[activePolicy].stats
  BY <1>1, <1>2, TransferGood
<1>4. Leads(t, n, L, o)
  BY <1>1, <1>3, KeepOrCloseLeads
<1> QED
  BY <1>2, <1>3, <1>4 DEF Leads

\* drainOneKey keeps arms and window good, whatever it skips on the way.
LEMMA DrainLeads ==
  ASSUME activePolicy \in Policies, shadowCap \in [Policies -> Nat],
         NEW s, NEW m, NEW L \in Latest, Good(activePolicy, s, m, L),
         NEW o \in DrainOneKey(s, m)
  PROVE  Leads(s, m, L, o)
<1>1. CASE LiveKeys(s, m) = {}
  BY <1>1, CloseLeads DEF DrainOneKey
<1>2. CASE LiveKeys(s, m) # {}
  <2> DEFINE Via(k) == {DrainKey(s, m, k, skipped \cup {k}) :
                          skipped \in SUBSET (m.keys \ LiveKeys(s, m))}
  <2>3. o \in UNION {UNION Via(k) : k \in LiveKeys(s, m)}
    BY <1>2 DEF DrainOneKey
  <2>4. PICK k \in LiveKeys(s, m) : o \in UNION Via(k)
    <3> HIDE DEF Via
    <3> QED BY <2>3
  <2>1. PICK skipped \in SUBSET (m.keys \ LiveKeys(s, m)) :
          o \in DrainKey(s, m, k, skipped \cup {k})
    BY <2>4
  <2>2. k \in m.realKeys /\ k \in skipped \cup {k}
    BY DEF LiveKeys
  <2> QED
    BY <2>1, <2>2, DrainKeyLeads
<1> QED
  BY <1>1, <1>2

\* The window's part of Add, on arms that the shadow pass may have left with a
\* zero value under the key being written.
LEMMA MigrateOnAddLeads ==
  ASSUME activePolicy \in Policies, shadowCap \in [Policies -> Nat],
         NEW s, NEW m \in Windows, NEW L \in Latest, NEW k \in Keys,
         Good(activePolicy, s, [m EXCEPT !.realKeys = @ \ {k}], L),
         ~m.migrating => m.realKeys = {},
         NEW o \in MigrateOnAdd(s, m, k)
  PROVE  Leads(s, m, L, o) /\ k \notin o.migration.realKeys
<1> DEFINE left == [m EXCEPT !.realKeys = @ \ {k}]
<1>1. /\ left \in Windows /\ left.migrating = m.migrating /\ left.from = m.from
      /\ left.realKeys = m.realKeys \ {k}
  BY DEF Windows
<1>2. CASE ~m.migrating
  <2>1. o.arms = s /\ o.migration = m /\ m.realKeys = {}
    BY <1>2 DEF MigrateOnAdd, After
  <2>2. Good(activePolicy, s, m, L)
    BY <1>1, <1>2, <2>1 DEF Good
  <2> QED
    BY <2>1, <2>2 DEF Leads
<1>3. CASE m.migrating
  <2>1. o \in CloseMigration(s, left) \/ o \in DrainOneKey(s, left)
    BY <1>3 DEF MigrateOnAdd
  <2> HIDE DEF left
  <2>2. Good(activePolicy, s, left, L)
    BY DEF left
  <2>3. Leads(s, left, L, o)
    BY <2>1, <2>2, CloseLeads, DrainLeads
  <2> QED
    BY <1>1, <2>3 DEF Leads
<1> QED
  BY <1>2, <1>3

\* The window's part of Remove, on arms that have lost the key already.
LEMMA MigrateOnRemoveLeads ==
  ASSUME activePolicy \in Policies, shadowCap \in [Policies -> Nat],
         NEW s, NEW m, NEW L, NEW k \in Keys, Good(activePolicy, s, m, L),
         NEW o \in MigrateOnRemove(s, m, k)
  PROVE  Leads(s, m, L, o) /\ k \notin o.migration.realKeys
<1> DEFINE left == [m EXCEPT !.realKeys = @ \ {k}]
<1>1. /\ left \in Windows /\ left.migrating = m.migrating /\ left.from = m.from
      /\ left.realKeys = m.realKeys \ {k}
  BY DEF Windows, Good
<1>2. CASE ~m.migrating
  BY <1>2 DEF MigrateOnRemove, After, Leads, Good
<1>3. CASE m.migrating
  <2>1. o \in KeepOrClose(s, left)
    BY <1>3 DEF MigrateOnRemove
  <2> HIDE DEF left
  <2>2. Good(activePolicy, s, left, L)
    BY <1>1, ShrinkGood
  <2>3. Leads(s, left, L, o)
    BY <2>1, <2>2, KeepOrCloseLeads
  <2> QED
    BY <1>1, <2>3 DEF Leads
<1> QED
  BY <1>2, <1>3

----------------------------------------------------------------------------
(* Switching *)

\* The policy switched to serves only what the policy it replaces served, and a
\* window that opens is about those values.
LEMMA SwitchFacts ==
  ASSUME nominalCap \in [Policies -> Nat], shadowCap \in [Policies -> Nat],
         NEW s \in ArmMap, NEW from \in Policies, NEW to \in Policies, from # to,
         NEW L \in Latest,
         \A k \in Keys : s[from].data[k] \in {None, L[k]},
         NEW w \in SwitchLocked(s, from, to)
  PROVE  Good(to, w.arms, w.migration, L) /\ w.arms[to].stats = s[to].stats
<1> DEFINE r == AtFullCapacity(s, to)
<1>1. /\ r \in ArmMap /\ r[from] = s[from] /\ r[to].stats = s[to].stats
      /\ r[to].cap \in Nat
  <2>1. [s[to] EXCEPT !.cap = nominalCap[to]] \in Arms
    BY DEF ArmMap, Arms
  <2>2. CASE r = s
    BY <2>2 DEF ArmMap, Arms
  <2>3. CASE r = Put(s, to, [s[to] EXCEPT !.cap = nominalCap[to]])
    BY <2>1, <2>3 DEF ArmMap, Arms, Put
  <2> QED
    BY <2>2, <2>3 DEF AtFullCapacity
<1> HIDE DEF r
<1>2. PICK o \in MigrateData(r, from, to) :
        w \in IF o.migration.migrating THEN {o}
              ELSE {After(Put(o.arms, from, d), o.migration) :
                      d \in Demoted(from, o.arms[from])}
  BY DEF SwitchLocked, r
<1>3. /\ Good(to, o.arms, o.migration, L)
      /\ o.arms[from] = r[from] /\ o.arms[to].stats = r[to].stats
  <2> DEFINE Filled(d) == Put(r, to, [r[to] EXCEPT !.data = d])
  <2>1. ASSUME NEW d \in Contents, \A k \in Keys : d[k] \in {None, L[k]}
        PROVE  /\ Filled(d) \in ArmMap /\ Filled(d)[from] = r[from]
               /\ Filled(d)[to].stats = r[to].stats
               /\ Filled(d)[to].data = d
    <3>1. /\ [r[to] EXCEPT !.data = d] \in Arms
          /\ [r[to] EXCEPT !.data = d].data = d
          /\ [r[to] EXCEPT !.data = d].stats = r[to].stats
      BY <1>1 DEF ArmMap, Arms, Contents
    <3> DEFINE b == [r[to] EXCEPT !.data = d]
    <3> HIDE DEF b
    <3>2. b \in Arms /\ b.data = d /\ b.stats = r[to].stats
      BY <3>1 DEF b
    <3>3. /\ Put(r, to, b) \in ArmMap /\ Put(r, to, b)[to] = b
          /\ Put(r, to, b)[from] = r[from]
      BY <1>1, <3>2, PutFacts
    <3>4. Filled(d) = Put(r, to, b)
      BY DEF b
    <3> QED
      BY <3>2, <3>3, <3>4
  <2>2. Empty \in Contents /\ \A k \in Keys : Empty[k] = None
    BY DEF Empty, Contents
  <2>3. CASE \E d \in Contents : /\ \A k \in Keys : d[k] \in {None, L[k]}
                                /\ o = After(Filled(d), NoMigration)
    <3>1. PICK d \in Contents : /\ \A k \in Keys : d[k] \in {None, L[k]}
                                /\ o = After(Filled(d), NoMigration)
      BY <2>3
    <3>2. o.arms = Filled(d) /\ o.migration = NoMigration
      BY <3>1 DEF After
    <3> HIDE DEF Filled
    <3> QED
      BY <2>1, <3>1, <3>2, NoMigrationFacts DEF Good
  <2>4. CASE /\ Held(r[from].data) # {}
             /\ o = After(Filled(Empty),
                          [migrating |-> TRUE, from |-> from,
                           keys |-> Held(r[from].data),
                           realKeys |-> Held(r[from].data)])
    <3>1. /\ o.arms = Filled(Empty)
          /\ o.migration \in Windows /\ o.migration.migrating
          /\ o.migration.from = from
          /\ o.migration.realKeys \subseteq Keys
      BY <2>4 DEF After, Windows, Held
    <3> HIDE DEF Filled
    <3> QED
      BY <1>1, <2>1, <2>2, <3>1 DEF Good
  <2>5. CASE strategy = "warm"
    <3>1. PICK d \in ResizeOutcomes(r[from].data, r[to].cap) :
            o = After(Filled(d), NoMigration)
      BY <2>5 DEF MigrateData
    <3>2. r[from].data \in Contents
      BY <1>1 DEF ArmMap, Arms, Contents
    <3>3. d \in Contents /\ \A k \in Keys : d[k] \in {None, L[k]}
      BY <1>1, <3>1, <3>2, ResizeFacts
    <3> QED
      BY <2>3, <3>1, <3>3
  <2>6. CASE strategy # "warm"
    <3>1. \/ o = After(Filled(Empty), NoMigration)
          \/ /\ Held(r[from].data) # {}
             /\ o = After(Filled(Empty),
                          [migrating |-> TRUE, from |-> from,
                           keys |-> Held(r[from].data),
                           realKeys |-> Held(r[from].data)])
      BY <2>6 DEF MigrateData
    <3> QED
      BY <2>2, <2>3, <2>4, <3>1
  <2> QED
    BY <2>5, <2>6
<1>4. CASE o.migration.migrating
  BY <1>1, <1>2, <1>3, <1>4
<1>5. CASE ~o.migration.migrating
  <2>1. PICK d \in Demoted(from, o.arms[from]) :
          w = After(Put(o.arms, from, d), o.migration)
    BY <1>2, <1>5
  <2>2. o.arms \in ArmMap /\ o.arms[from] \in Arms
    BY <1>3 DEF Good, ArmMap
  <2>3. d \in Arms
    BY <2>1, <2>2, DemotedFacts
  <2>4. /\ w.arms \in ArmMap /\ w.arms[to] = o.arms[to]
        /\ w.migration = o.migration
    BY <2>1, <2>2, <2>3, PutFacts DEF After
  <2> QED
    BY <1>1, <1>3, <1>5, <2>4 DEF Good
<1> QED
  BY <1>4, <1>5

----------------------------------------------------------------------------
(* Capacities and counters *)

\* Capacities are naturals, whatever the sampling rate.
LEMMA CapacityTypes ==
  /\ InitialShadowCap \in [Policies -> Nat]
  /\ \A n \in Sizes : n \in Nat /\ ScaledCapacity(n, EffectiveRate[1], EffectiveRate[2]) \in Nat
<1>1. MinNominal \in Nat \ {0}
  <2>1. \E n \in {InitialCap[p] : p \in Policies} :
          \A p \in Policies : n <= InitialCap[p]
    <3> DEFINE S == {InitialCap[p] : p \in Policies}
    <3>1. S \in SUBSET Nat /\ S # {}
      BY SettingsAssumption, PolicyAssumption
    <3>2. \E n \in S : \A m \in S : n <= m
      <4> HIDE DEF S
      <4> QED BY <3>1, LeastNatural
    <3> QED
      BY <3>2
  <2>2. MinNominal \in {InitialCap[p] : p \in Policies}
    BY <2>1 DEF MinNominal
  <2> QED
    BY <2>2, SettingsAssumption
<1>2. EffectiveRate[1] \in Nat \ {0} /\ EffectiveRate[2] \in Nat \ {0}
  BY <1>1, SettingsAssumption DEF EffectiveRate
<1>3. ASSUME NEW n \in Nat, NEW num \in Nat, NEW den \in Nat \ {0}
      PROVE  CeilScale(n, num, den) \in Int
  <2>1. num * n + den - 1 \in Int
    OBVIOUS
  <2> DEFINE z == num * n + den - 1
  <2> HIDE DEF z
  <2>2. z \in Int => z \div den \in Int
    OBVIOUS
  <2> QED
    BY <2>1, <2>2 DEF CeilScale, z
<1>4. ASSUME NEW n \in Nat, NEW num \in Nat, NEW den \in Nat \ {0}
      PROVE  ScaledCapacity(n, num, den) \in Nat /\ ShadowCapacity(n, num, den) \in Nat
  <2>1. CeilScale(n, num, den) \in Int
    BY <1>3
  <2> QED
    BY <2>1, SettingsAssumption DEF ScaledCapacity, ShadowCapacity
<1>5. \A p \in Policies : InitialCap[p] \in Nat
  BY SettingsAssumption
<1>6. \A n \in Sizes : n \in Nat
  BY SettingsAssumption
<1> QED
  BY <1>2, <1>4, <1>5, <1>6 DEF InitialShadowCap

\* Arithmetic of counters.
LEMMA CountFacts ==
  /\ NoCount \in Stats
  /\ \A s \in Stats, hit \in BOOLEAN : Counted(s, hit) \in Stats
  /\ \A s, t \in Stats : Plus(s, t) \in Stats
  /\ \A s \in Stats : Plus(s, NoCount) = s
BY DEF NoCount, Stats, Counted, Plus

\* The Gets in flight can be counted, hits and misses apart.
LEMMA UncountedType == Uncounted \in Stats
<1> DEFINE H == {t \in Threads : pc[t] = "hit"}
           M == {t \in Threads : pc[t] = "miss"}
<1>1. H \in SUBSET Threads /\ M \in SUBSET Threads /\ IsFiniteSet(Threads)
  BY PolicyAssumption
<1>2. Uncounted = [hits |-> Cardinality(H), misses |-> Cardinality(M)]
  BY DEF Uncounted
<1> HIDE DEF H, M
<1>3. Cardinality(H) \in Nat /\ Cardinality(M) \in Nat
  BY <1>1, FS_Subset, FS_CardinalityType
<1> QED
  BY <1>2, <1>3 DEF Stats

\* The same of the next state.
LEMMA UncountedTypeNext == Uncounted' \in Stats
<1> DEFINE H == {t \in Threads : pc'[t] = "hit"}
           M == {t \in Threads : pc'[t] = "miss"}
<1>1. H \in SUBSET Threads /\ M \in SUBSET Threads /\ IsFiniteSet(Threads)
  BY PolicyAssumption
<1>2. Uncounted' = [hits |-> Cardinality(H), misses |-> Cardinality(M)]
  BY DEF Uncounted
<1> HIDE DEF H, M
<1>3. Cardinality(H) \in Nat /\ Cardinality(M) \in Nat
  BY <1>1, FS_Subset, FS_CardinalityType
<1> QED
  BY <1>2, <1>3 DEF Stats

\* What the arms have answered stays a pair of counts.
LEMMA AnsweredType ==
  ASSUME duty \in [Policies -> Stats], NEW k, NEW hit \in BOOLEAN
  PROVE  Answered(k, hit) \in [Policies -> Stats]
<1>1. ASSUME NEW p \in Policies
      PROVE  Counted(duty[p], IF p = activePolicy THEN hit ELSE arms[p].data[k] # None) \in Stats
  <2>1. (IF p = activePolicy THEN hit ELSE arms[p].data[k] # None) \in BOOLEAN
    OBVIOUS
  <2> QED
    BY <2>1, CountFacts
<1> QED
  BY <1>1 DEF Answered

\* One more answer counted by the active policy is one more in the totals.
LEMMA CountOnce ==
  ASSUME NEW s \in Stats, NEW t \in Stats, NEW hit \in BOOLEAN
  PROVE  Plus(s, Counted(t, hit)) = Counted(Plus(s, t), hit)
BY DEF Stats, Counted, Plus

----------------------------------------------------------------------------
(* The inductive invariant *)

\* A Get waiting for the write lock knows its key.
WaitingHasKey == \A t \in Threads : pc[t] = "slow" => want[t] \in Keys

\* The inductive invariant.
Inv ==
  /\ TypeOK
  /\ Good(activePolicy, arms, migration, latest)
  /\ StatsAreCumulative
  /\ WaitingHasKey

USE DEF ArmMap, Latest

\* The invariant holds once NewAdaptiveCache returns.
LEMMA InitInv == Init => Inv
<1> SUFFICES ASSUME Init PROVE Inv
  OBVIOUS
<1>1. Empty \in [Keys -> Values \cup {Zero, None}] /\ \A k \in Keys : Empty[k] = None
  BY DEF Empty
<1>2. arms \in ArmMap /\ arms[activePolicy].data = Empty /\ arms[activePolicy].stats = NoCount
  BY <1>1, CapacityTypes, CountFacts, PolicyAssumption, SettingsAssumption
  DEF Init, Arms
<1>3. Good(activePolicy, arms, migration, latest)
  BY <1>1, <1>2, NoMigrationFacts DEF Init, Good
<1>4. TypeOK
  <2>1. nominalCap \in [Policies -> Nat] /\ shadowCap \in [Policies -> Nat]
    BY CapacityTypes, SettingsAssumption DEF Init
  <2>2. /\ activeSampled \in Stats /\ globalStats \in Stats /\ served \in Stats
        /\ duty \in [Policies -> Stats]
    BY CountFacts DEF Init
  <2> QED
    BY <1>2, <2>1, <2>2, NoMigrationFacts, PolicyAssumption DEF Init, TypeOK
<1>5. StatsAreCumulative
  BY <1>2, CountFacts DEF Init, StatsAreCumulative, StatsResult
<1>6. WaitingHasKey
  BY DEF Init, WaitingHasKey
<1> QED
  BY <1>3, <1>4, <1>5, <1>6 DEF Inv

\* The fast path of Get: contents stay, one answer is counted.
LEMMA GetFastInv ==
  ASSUME Inv, NEW t \in Threads, NEW k \in Keys, GetFast(t, k)
  PROVE  Inv'
<1> DEFINE s == ShadowGets(k)
           hit == arms[activePolicy].data[k] # None
           b == Lookup(s[activePolicy], k)
<1>1. /\ activePolicy \in Policies /\ arms \in ArmMap
      /\ arms[activePolicy] \in Arms /\ arms[activePolicy].stats \in Stats
      /\ globalStats \in Stats
  BY DEF Inv, TypeOK, Arms
<1>2. /\ s \in ArmMap /\ s[activePolicy] = arms[activePolicy]
      /\ \A p \in Policies : s[p].data = arms[p].data
  BY <1>1, ShadowGetsFacts
<1>3. /\ b \in Arms /\ b.data = arms[activePolicy].data
      /\ b.stats = Counted(arms[activePolicy].stats, hit)
  <2>1. b = Lookup(arms[activePolicy], k)
    BY <1>2
  <2>2. b.stats = Counted(arms[activePolicy].stats, hit)
    BY <1>1, <2>1 DEF Lookup, Arms
  <2> QED
    BY <1>1, <2>1, <2>2, LookupFacts
<1>4. /\ arms' \in ArmMap /\ arms'[activePolicy] = b
      /\ activePolicy' = activePolicy /\ migration' = migration
      /\ latest' = latest /\ globalStats' = globalStats
      /\ served' = Counted(served, hit)
  <2>1. arms' = Put(s, activePolicy, b)
    BY DEF GetFast
  <2> HIDE DEF s, b
  <2>2. arms' \in ArmMap /\ arms'[activePolicy] = b
    BY <1>1, <1>2, <1>3, <2>1, PutFacts
  <2> QED
    BY <2>2 DEF GetFast, statVars
<1> HIDE DEF s, b
<1>5. Good(activePolicy, arms, migration, latest)'
  <2>1. migration.realKeys = {} /\ ~migration.migrating
    BY DEF Inv, Good, GetFast
  <2> QED
    BY <1>3, <1>4, <2>1 DEF Inv, Good
<1>6. StatsAreCumulative'
  BY <1>1, <1>3, <1>4, CountOnce DEF Inv, StatsAreCumulative, StatsResult
<1>7. TypeOK'
  <2>1. served' \in Stats /\ duty' \in [Policies -> Stats]
    BY <1>4, CountFacts, AnsweredType DEF Inv, TypeOK, GetFast
  <2>2. pc' \in [Threads -> {"idle", "hit", "miss", "slow", "count", "cross", "epoch"}]
    BY DEF Inv, TypeOK, GetFast, Counting
  <2> QED
    BY <1>4, <2>1, <2>2 DEF Inv, TypeOK, GetFast, statVars, epochVars
<1>8. WaitingHasKey'
  BY DEF Inv, TypeOK, WaitingHasKey, GetFast, Counting
<1> QED
  BY <1>5, <1>6, <1>7, <1>8 DEF Inv

\* Steps of a Get outside the lock leave the arms alone.
LEMMA ThreadStepInv ==
  ASSUME Inv, NEW t \in Threads,
         \/ \E k \in Keys : GetBlocked(t, k)
         \/ RecordSample(t) \/ CountRequest(t) \/ SubtractLimit(t)
  PROVE  Inv'
<1>1. UNCHANGED <<activePolicy, arms, nominalCap, shadowCap, migration, latest,
                  served, globalStats, epochStats, tenureStats, reportingEpochs,
                  carried, lastSwitchEpoch, epochID, duty>>
  BY DEF GetBlocked, RecordSample, CountRequest, SubtractLimit,
         armVars, statVars, epochVars
<1>2. activeSampled' \in Stats
  BY CountFacts DEF Inv, TypeOK, GetBlocked, RecordSample, CountRequest,
                    SubtractLimit, statVars
<1>3. epochRequests' \in Int /\ want' \in [Threads -> Keys \cup {None}]
  BY SettingsAssumption
  DEF Inv, TypeOK, GetBlocked, RecordSample, CountRequest, SubtractLimit
<1>4. pc' \in [Threads -> {"idle", "hit", "miss", "slow", "count", "cross", "epoch"}]
  BY DEF Inv, TypeOK, GetBlocked, RecordSample, CountRequest, SubtractLimit, Counting
<1>5. TypeOK'
  BY <1>1, <1>2, <1>3, <1>4 DEF Inv, TypeOK
<1>6. Good(activePolicy, arms, migration, latest)' /\ StatsAreCumulative'
  BY <1>1 DEF Inv, Good, StatsAreCumulative, StatsResult
<1>7. WaitingHasKey'
  BY DEF Inv, TypeOK, WaitingHasKey, GetBlocked, RecordSample, CountRequest,
         SubtractLimit, Counting
<1> QED
  BY <1>5, <1>6, <1>7 DEF Inv

\* The slow path of Get.
LEMMA GetSlowInv ==
  ASSUME Inv, NEW t \in Threads, GetSlow(t)
  PROVE  Inv'
<1> DEFINE k == want[t]
           s == ShadowGets(k)
<1>1. /\ activePolicy \in Policies /\ arms \in ArmMap
      /\ shadowCap \in [Policies -> Nat] /\ latest \in Latest
      /\ arms[activePolicy] \in Arms /\ arms[activePolicy].stats \in Stats
      /\ globalStats \in Stats /\ k \in Keys
      /\ Good(activePolicy, arms, migration, latest)
  BY DEF Inv, TypeOK, Arms, WaitingHasKey, GetSlow
<1>2. /\ s \in ArmMap /\ s[activePolicy] = arms[activePolicy]
      /\ \A p \in Policies : s[p].data = arms[p].data
  BY <1>1, ShadowGetsFacts
<1>3. Good(activePolicy, s, migration, latest)
  BY <1>1, <1>2 DEF Good
<1>4. PICK o : /\ o \in IF migration.migrating THEN PromoteKey(s, migration, k)
                        ELSE {After(s, migration)}
               /\ arms' = Put(o.arms, activePolicy, Lookup(o.arms[activePolicy], k))
               /\ migration' = o.migration
               /\ served' = Counted(served, o.arms[activePolicy].data[k] # None)
               /\ duty' = Answered(k, o.arms[activePolicy].data[k] # None)
               /\ activeSampled' =
                    IF k \in Sampled
                    THEN Counted(activeSampled, o.arms[activePolicy].data[k] # None)
                    ELSE activeSampled
  BY DEF GetSlow
<1> HIDE DEF s, k
<1>5. Leads(s, migration, latest, o)
  <2>1. CASE migration.migrating
    BY <1>1, <1>3, <1>4, <2>1, PromoteLeads
  <2>2. CASE ~migration.migrating
    <3>1. o.arms = s /\ o.migration = migration
      BY <1>4, <2>2 DEF After
    <3> QED
      BY <1>3, <3>1 DEF Leads
  <2> QED
    BY <2>1, <2>2
<1> DEFINE a == o.arms[activePolicy]
           b == Lookup(a, k)
           hit == a.data[k] # None
<1>6. /\ a \in Arms /\ a.stats = arms[activePolicy].stats
      /\ o.arms \in ArmMap
  BY <1>1, <1>2, <1>5 DEF Leads, Good
<1>7. /\ b \in Arms /\ b.data = a.data
      /\ b.stats = Counted(arms[activePolicy].stats, hit)
  <2>1. b.stats = Counted(a.stats, hit)
    BY <1>6 DEF Lookup, Arms
  <2> QED
    BY <1>6, <2>1, LookupFacts
<1>8. /\ arms' = Put(o.arms, activePolicy, b) /\ migration' = o.migration
      /\ served' = Counted(served, hit)
      /\ activeSampled' = activeSampled \/ activeSampled' = Counted(activeSampled, hit)
      /\ activePolicy' = activePolicy /\ latest' = latest
      /\ globalStats' = globalStats
  BY <1>4 DEF GetSlow
<1> HIDE DEF a, b
<1>9. /\ arms' \in ArmMap /\ arms'[activePolicy] = b
      /\ \A p \in Policies : p # activePolicy => arms'[p] = o.arms[p]
  BY <1>1, <1>6, <1>7, <1>8, PutFacts
<1>10. Good(activePolicy, arms, migration, latest)'
  <2>1. Good(activePolicy, o.arms, o.migration, latest)
    BY <1>5 DEF Leads
  <2>2. \A p \in Policies : arms'[p].data = o.arms[p].data
    BY <1>7, <1>9 DEF a
  <2>3. o.migration.migrating => o.migration.from \in Policies
    BY <2>1 DEF Good
  <2>4. \A j \in o.migration.realKeys : o.migration.from \in Policies
    BY <2>1 DEF Good
  <2> QED
    BY <1>1, <1>8, <1>9, <2>1, <2>2, <2>3, <2>4 DEF Good
<1>11. StatsAreCumulative'
  BY <1>1, <1>7, <1>8, <1>9, CountOnce, ZenonT(40) DEF Inv, StatsAreCumulative, StatsResult
<1>12. TypeOK'
  <2>1. served' \in Stats /\ activeSampled' \in Stats
    BY <1>8, CountFacts DEF Inv, TypeOK
  <2>4. duty' \in [Policies -> Stats]
    BY <1>4, AnsweredType DEF Inv, TypeOK
  <2>2. /\ pc' \in [Threads -> {"idle", "hit", "miss", "slow", "count", "cross", "epoch"}]
        /\ want' \in [Threads -> Keys \cup {None}]
    BY DEF Inv, TypeOK, GetSlow, Counting
  <2>3. migration' \in Windows
    BY <1>10 DEF Good
  <2> QED
    BY <1>9, <2>1, <2>2, <2>3, <2>4 DEF Inv, TypeOK, GetSlow, epochVars
<1>13. WaitingHasKey'
  BY DEF Inv, TypeOK, WaitingHasKey, GetSlow, Counting
<1> QED
  BY <1>10, <1>11, <1>12, <1>13 DEF Inv

\* What every operation on the contents shares: it leaves the goroutines and
\* the counters of the cache alone.
Untouched ==
  UNCHANGED <<activePolicy, activeSampled, globalStats, epochStats, tenureStats,
              reportingEpochs, carried, lastSwitchEpoch, epochID, epochRequests,
              pc, want, served, duty>>

\* An operation that leaves arms and window good, and the active policy's counters
\* alone, preserves the invariant.
LEMMA ContentsInv ==
  ASSUME Inv, Untouched, latest' \in Latest,
         nominalCap' \in [Policies -> Nat], shadowCap' \in [Policies -> Nat],
         Good(activePolicy, arms', migration', latest'),
         arms'[activePolicy].stats = arms[activePolicy].stats
  PROVE  Inv'
<1>1. Good(activePolicy, arms, migration, latest)'
  BY DEF Untouched, Good
<1>2. arms' \in ArmMap /\ migration' \in Windows
  BY DEF Good
<1>3. TypeOK'
  BY <1>2 DEF Inv, TypeOK, Untouched
<1>4. StatsAreCumulative' /\ WaitingHasKey'
  BY DEF Inv, Untouched, StatsAreCumulative, StatsResult, WaitingHasKey
<1> QED
  BY <1>1, <1>3, <1>4 DEF Inv

\* Add preserves the invariant, in a window and out of one.
LEMMA AddInv ==
  ASSUME Inv, NEW k \in Keys, NEW v \in Values, Add(k, v)
  PROVE  Inv'
<1>1. /\ activePolicy \in Policies /\ arms \in ArmMap /\ migration \in Windows
      /\ shadowCap \in [Policies -> Nat] /\ nominalCap \in [Policies -> Nat]
      /\ latest \in Latest
      /\ Good(activePolicy, arms, migration, latest)
  BY DEF Inv, TypeOK
<1>2. PICK s \in ShadowAdds(k) : \E o \in MigrateOnAdd(s, migration, k) :
        \E a \in Adds(activePolicy, o.arms[activePolicy], k, v) :
          arms' = Put(o.arms, activePolicy, a) /\ migration' = o.migration
  BY DEF Add
<1>3. PICK o \in MigrateOnAdd(s, migration, k) :
        \E a \in Adds(activePolicy, o.arms[activePolicy], k, v) :
          arms' = Put(o.arms, activePolicy, a) /\ migration' = o.migration
  BY <1>2
<1>4. PICK a \in Adds(activePolicy, o.arms[activePolicy], k, v) :
          arms' = Put(o.arms, activePolicy, a) /\ migration' = o.migration
  BY <1>3
<1>5. /\ s \in ArmMap /\ s[activePolicy] = arms[activePolicy]
      /\ \A p \in Policies : \A j \in Keys :
           j # k => s[p].data[j] \in {None, arms[p].data[j]}
  BY <1>1, ShadowAddsFacts
<1>6. Good(activePolicy, s, [migration EXCEPT !.realKeys = @ \ {k}], latest)
  <2> DEFINE n == [migration EXCEPT !.realKeys = @ \ {k}]
  <2>1. /\ n \in Windows /\ n.migrating = migration.migrating
        /\ n.from = migration.from /\ n.realKeys = migration.realKeys \ {k}
        /\ n.realKeys \subseteq Keys
    BY <1>1 DEF Windows
  <2> HIDE DEF n
  <2>2. \A j \in n.realKeys : /\ migration.from \in Policies
                             /\ s[migration.from].data[j] \in {None, latest[j]}
                             /\ s[activePolicy].data[j] = None
    BY <1>1, <1>5, <2>1 DEF Good
  <2>3. Good(activePolicy, s, n, latest)
    BY <1>1, <1>5, <2>1, <2>2 DEF Good
  <2> QED
    BY <2>3 DEF n
<1>7. ~migration.migrating => migration.realKeys = {}
  BY <1>1 DEF Good
<1>8. Leads(s, migration, latest, o) /\ k \notin o.migration.realKeys
  BY <1>1, <1>6, <1>7, MigrateOnAddLeads
<1>9. /\ o.arms \in ArmMap /\ o.arms[activePolicy] \in Arms
      /\ Good(activePolicy, o.arms, o.migration, latest)
      /\ o.arms[activePolicy].stats = arms[activePolicy].stats
  BY <1>1, <1>5, <1>8 DEF Leads, Good
<1>10. /\ a \in Arms /\ a.stats = arms[activePolicy].stats
       /\ a.data[k] \in {None, v}
       /\ \A j \in Keys : j # k => a.data[j] \in {None, o.arms[activePolicy].data[j]}
  BY <1>1, <1>4, <1>9, AddsFacts
<1>11. /\ arms' \in ArmMap /\ arms'[activePolicy] = a
       /\ \A q \in Policies : q # activePolicy => arms'[q] = o.arms[q]
  BY <1>1, <1>4, <1>9, <1>10, PutFacts
<1>12. /\ latest' \in Latest /\ latest'[k] = v
       /\ \A j \in Keys : j # k => latest'[j] = latest[j]
  BY <1>1 DEF Add
<1>13. Good(activePolicy, arms', migration', latest')
  <2>1. \A j \in o.migration.realKeys :
          /\ j \in Keys /\ j # k
          /\ o.migration.from \in Policies /\ o.migration.from # activePolicy
    BY <1>8, <1>9 DEF Good, Windows
  <2>2. \A j \in Keys : a.data[j] \in {None, latest'[j]}
    BY <1>9, <1>10, <1>12 DEF Good
  <2>3. \A j \in o.migration.realKeys :
          /\ arms'[o.migration.from].data[j] \in {None, latest'[j]}
          /\ a.data[j] = None
    BY <1>9, <1>10, <1>11, <1>12, <2>1 DEF Good
  <2> QED
    BY <1>4, <1>9, <1>11, <2>2, <2>3 DEF Good
<1>14. Untouched /\ nominalCap' = nominalCap /\ shadowCap' = shadowCap
  BY DEF Add, Untouched, statVars, epochVars, threadVars
<1> QED
  BY <1>1, <1>10, <1>11, <1>12, <1>13, <1>14, ContentsInv

\* An arm without key k.
Dropped(a, k) == [a EXCEPT !.data = Without(@, k)]

\* An arm that loses a key loses nothing else.
LEMMA DroppedFacts ==
  ASSUME NEW k \in Keys, NEW a \in Arms
  PROVE  /\ Dropped(a, k) \in Arms /\ Dropped(a, k).stats = a.stats
         /\ Dropped(a, k).data[k] = None
         /\ \A j \in Keys : j # k => Dropped(a, k).data[j] = a.data[j]
BY DEF Arms, Without, Dropped

\* Remove preserves the invariant.
LEMMA RemoveInv ==
  ASSUME Inv, NEW k \in Keys, Remove(k)
  PROVE  Inv'
<1> DEFINE shadows == [p \in Policies |->
                         IF p = activePolicy THEN arms[p]
                         ELSE Dropped(arms[p], k)]
<1>1. /\ activePolicy \in Policies /\ arms \in ArmMap /\ migration \in Windows
      /\ shadowCap \in [Policies -> Nat] /\ nominalCap \in [Policies -> Nat]
      /\ latest \in Latest
      /\ Good(activePolicy, arms, migration, latest)
  BY DEF Inv, TypeOK
<1>3. /\ shadows \in ArmMap /\ shadows[activePolicy] = arms[activePolicy]
      /\ \A p \in Policies, j \in Keys :
           shadows[p].data[j] \in {None, arms[p].data[j]}
  <2>1. ASSUME NEW p \in Policies
        PROVE  /\ shadows[p] \in Arms
               /\ \A j \in Keys : shadows[p].data[j] \in {None, arms[p].data[j]}
    <3>1. arms[p] \in Arms
      BY <1>1 DEF ArmMap
    <3>2. CASE p = activePolicy
      BY <3>1, <3>2
    <3>3. CASE p # activePolicy
      BY <3>1, <3>3, DroppedFacts
    <3> QED
      BY <3>2, <3>3
  <2>2. shadows = [p \in Policies |-> shadows[p]]
    OBVIOUS
  <2>3. shadows[activePolicy] = arms[activePolicy]
    BY <1>1
  <2> HIDE DEF shadows
  <2>4. shadows \in ArmMap
    BY <2>1, <2>2 DEF ArmMap
  <2> QED
    BY <2>1, <2>3, <2>4
<1>4. Good(activePolicy, shadows, migration, latest)
  <2>1. \A j \in migration.realKeys : j \in Keys /\ migration.from \in Policies
    BY <1>1 DEF Good, Windows
  <2> HIDE DEF shadows
  <2> QED
    BY <1>1, <1>3, <2>1 DEF Good
<1>5. PICK o \in MigrateOnRemove(shadows, migration, k) :
        /\ arms' = Put(o.arms, activePolicy, Dropped(o.arms[activePolicy], k))
        /\ migration' = o.migration
  BY DEF Remove, Dropped
<1> HIDE DEF shadows
<1>6. Leads(shadows, migration, latest, o) /\ k \notin o.migration.realKeys
  BY <1>1, <1>4, MigrateOnRemoveLeads
<1>7. /\ o.arms \in ArmMap /\ o.arms[activePolicy] \in Arms
      /\ Good(activePolicy, o.arms, o.migration, latest)
      /\ o.arms[activePolicy].stats = arms[activePolicy].stats
  BY <1>1, <1>3, <1>6 DEF Leads, Good
<1>8. PICK b \in Arms :
        /\ arms' = Put(o.arms, activePolicy, b)
        /\ b.stats = arms[activePolicy].stats /\ b.data[k] = None
        /\ \A j \in Keys : j # k => b.data[j] = o.arms[activePolicy].data[j]
  <2>1. Dropped(o.arms[activePolicy], k) \in Arms
    BY <1>7, DroppedFacts
  <2> QED
    BY <1>5, <1>7, <2>1, DroppedFacts
<1>10. /\ arms' \in ArmMap /\ arms'[activePolicy] = b
       /\ \A q \in Policies : q # activePolicy => arms'[q] = o.arms[q]
  BY <1>1, <1>7, <1>8 DEF Put
<1>11. /\ latest' \in Latest /\ latest'[k] = None
       /\ \A j \in Keys : j # k => latest'[j] = latest[j]
  BY <1>1 DEF Remove
<1>12. Good(activePolicy, arms', migration', latest')
  <2>1. \A j \in o.migration.realKeys :
          /\ j \in Keys /\ j # k
          /\ o.migration.from \in Policies /\ o.migration.from # activePolicy
    BY <1>6, <1>7 DEF Good, Windows
  <2>2. \A j \in Keys : b.data[j] \in {None, latest'[j]}
    BY <1>7, <1>8, <1>11 DEF Good
  <2>3. \A j \in o.migration.realKeys :
          /\ arms'[o.migration.from].data[j] \in {None, latest'[j]}
          /\ b.data[j] = None
    BY <1>7, <1>8, <1>10, <1>11, <2>1 DEF Good
  <2> QED
    BY <1>5, <1>7, <1>10, <2>2, <2>3 DEF Good
<1>13. Untouched /\ nominalCap' = nominalCap /\ shadowCap' = shadowCap
  BY DEF Remove, Untouched, statVars, epochVars, threadVars
<1> QED
  BY <1>1, <1>8, <1>10, <1>11, <1>12, <1>13, ContentsInv

\* Purge preserves the invariant.
LEMMA PurgeInv ==
  ASSUME Inv, Purge
  PROVE  Inv'
<1> DEFINE purged == [p \in Policies |-> [arms[p] EXCEPT !.data = Empty]]
<1>1. /\ activePolicy \in Policies /\ arms \in ArmMap /\ migration \in Windows
      /\ shadowCap \in [Policies -> Nat] /\ nominalCap \in [Policies -> Nat]
      /\ Good(activePolicy, arms, migration, latest)
  BY DEF Inv, TypeOK
<1>2. /\ purged \in ArmMap
      /\ \A p \in Policies, j \in Keys : purged[p].data[j] = None
      /\ purged[activePolicy].stats = arms[activePolicy].stats
  BY <1>1 DEF Arms, Empty
<1>3. latest' \in Latest /\ \A j \in Keys : latest'[j] = None
  BY DEF Purge
<1>4. PICK o \in CloseMigration(purged, migration) :
        arms' = o.arms /\ migration' = o.migration
  BY DEF Purge
<1> HIDE DEF purged
<1>5. Good(activePolicy, purged, migration, latest')
  <2>1. \A j \in migration.realKeys : j \in Keys /\ migration.from \in Policies
    BY <1>1 DEF Good, Windows
  <2> QED
    BY <1>1, <1>2, <2>1 DEF Good
<1>6. Leads(purged, migration, latest', o)
  BY <1>1, <1>4, <1>5, CloseLeads
<1>7. Untouched /\ nominalCap' = nominalCap /\ shadowCap' = shadowCap
  BY DEF Purge, Untouched, statVars, epochVars, threadVars
<1>8. /\ Good(activePolicy, arms', migration', latest')
      /\ arms'[activePolicy].stats = arms[activePolicy].stats
  BY <1>2, <1>4, <1>6 DEF Leads
<1> QED
  BY <1>1, <1>3, <1>7, <1>8, ContentsInv

\* Arms that lost entries and nothing else.
LEMMA LossGood ==
  ASSUME NEW act \in Policies, NEW s, NEW m, NEW L, Good(act, s, m, L),
         NEW t \in ArmMap,
         \A p \in Policies, j \in Keys : t[p].data[j] \in {None, s[p].data[j]}
  PROVE  Good(act, t, m, L)
<1>1. \A j \in m.realKeys : j \in Keys /\ m.from \in Policies
  BY DEF Good, Windows
<1> QED
  BY <1>1 DEF Good

\* Resize preserves the invariant.
LEMMA ResizeInv ==
  ASSUME Inv, NEW n \in Sizes, Resize(n)
  PROVE  Inv'
<1> DEFINE small == ScaledCapacity(n, EffectiveRate[1], EffectiveRate[2])
           target(p) == IF p = activePolicy
                           \/ (migration.migrating /\ p = migration.from)
                        THEN n ELSE small
<1>1. /\ activePolicy \in Policies /\ arms \in ArmMap /\ latest \in Latest
      /\ Good(activePolicy, arms, migration, latest)
  BY DEF Inv, TypeOK
<1>2. n \in Nat /\ small \in Nat
  BY CapacityTypes
<1>3. nominalCap' \in [Policies -> Nat] /\ shadowCap' \in [Policies -> Nat]
  BY <1>2 DEF Resize
<1>4. /\ arms' = [p \in Policies |-> arms'[p]]
      /\ \A p \in Policies : arms'[p] \in Resizes(arms[p], target(p))
  BY DEF Resize, Choices
<1> HIDE DEF small
<1>5. ASSUME NEW p \in Policies
      PROVE  /\ arms'[p] \in Arms /\ arms'[p].stats = arms[p].stats
             /\ \A j \in Keys : arms'[p].data[j] \in {None, arms[p].data[j]}
  <2>1. target(p) \in Nat /\ arms[p] \in Arms
    BY <1>1, <1>2
  <2>2. arms'[p] \in Resizes(arms[p], target(p))
    BY <1>4
  <2> HIDE DEF target
  <2> QED
    BY <2>1, <2>2, ResizesFacts
<1>6. arms' \in ArmMap
  BY <1>4, <1>5
<1>7. Untouched /\ migration' = migration /\ latest' = latest
  BY DEF Resize, Untouched, statVars, epochVars, threadVars
<1>8. Good(activePolicy, arms', migration', latest')
  BY <1>1, <1>5, <1>6, <1>7, LossGood
<1> QED
  BY <1>1, <1>3, <1>5, <1>7, <1>8, ContentsInv

\* An entry that expires, in the active policy or in a window's source, preserves
\* the invariant.
LEMMA ExpireInv ==
  ASSUME Inv, NEW p \in Lossy, NEW k \in Keys, Expire(p, k)
  PROVE  Inv'
<1> DEFINE b == [arms[p] EXCEPT !.data = Without(@, k)]
<1>1. /\ activePolicy \in Policies /\ arms \in ArmMap /\ latest \in Latest
      /\ shadowCap \in [Policies -> Nat] /\ nominalCap \in [Policies -> Nat]
      /\ Good(activePolicy, arms, migration, latest) /\ p \in Policies
  BY PolicyAssumption DEF Inv, TypeOK
<1>2. /\ b \in Arms /\ b.stats = arms[p].stats
      /\ \A j \in Keys : b.data[j] \in {None, arms[p].data[j]}
  BY <1>1 DEF Arms, Without
<1>3. arms' = Put(arms, p, b)
  BY DEF Expire
<1> HIDE DEF b
<1>4. /\ arms' \in ArmMap /\ arms'[p] = b
      /\ \A q \in Policies : q # p => arms'[q] = arms[q]
  BY <1>1, <1>2, <1>3, PutFacts
<1>5. UNCHANGED <<nominalCap, shadowCap, migration, latest>> /\ Untouched
  BY DEF Expire, Untouched, statVars, epochVars, threadVars
<1>6. Good(activePolicy, arms', migration', latest')
  BY <1>1, <1>2, <1>4, <1>5, LossGood
<1>7. arms'[activePolicy].stats = arms[activePolicy].stats
  BY <1>1, <1>2, <1>4
<1> QED
  BY <1>1, <1>5, <1>6, <1>7, ContentsInv

----------------------------------------------------------------------------
(* Epochs *)

\* What an epoch leaves behind, whether it is skipped, holds or switches.
EpochDone ==
  /\ activePolicy' \in Policies
  /\ Good(activePolicy', arms', migration', latest)
  /\ StatsResult' = StatsResult
  /\ nominalCap' = nominalCap /\ shadowCap' = shadowCap
  /\ activeSampled' \in Stats /\ globalStats' \in Stats
  /\ epochStats' \in [Policies -> Stats \cup {NoStats}]
  /\ tenureStats' \in [Policies -> Stats \cup {NoStats}]
  /\ reportingEpochs' \in Nat /\ lastSwitchEpoch' \in Nat /\ epochID' \in Nat
  /\ carried' \in Nat /\ duty' \in [Policies -> Stats]

\* The Gets in flight can be counted.
LEMMA InFlightFinite == Cardinality(InFlight) \in Nat
<1>1. InFlight \in SUBSET Threads /\ IsFiniteSet(Threads)
  BY PolicyAssumption DEF InFlight
<1>2. IsFiniteSet(InFlight)
  BY <1>1, FS_Subset
<1> QED
  BY <1>2, FS_CardinalityType

\* Closing the window at the start of an epoch keeps the arms good and the
\* active policy's counters.
LEMMA EpochCloses ==
  ASSUME Inv, NEW o \in CloseMigration(arms, migration)
  PROVE  /\ Good(activePolicy, o.arms, o.migration, latest)
         /\ o.arms \in ArmMap /\ o.migration \in Windows
         /\ o.arms[activePolicy].stats = arms[activePolicy].stats
         /\ o.arms[activePolicy].stats \in Stats
<1>1. Leads(arms, migration, latest, o)
  BY CloseLeads DEF Inv, TypeOK
<1>2. o.arms \in ArmMap /\ o.migration \in Windows
  BY <1>1 DEF Leads, Good
<1>3. o.arms[activePolicy] \in Arms
  BY <1>2 DEF Inv, TypeOK
<1> QED
  BY <1>1, <1>2, <1>3, ArmFacts DEF Leads

\* Resetting the counters of all arms touches nothing else.
LEMMA ResetFacts ==
  ASSUME NEW s \in ArmMap
  PROVE  /\ ResetAll(s) \in ArmMap
         /\ \A p \in Policies : /\ ResetAll(s)[p].data = s[p].data
                                /\ ResetAll(s)[p].stats = NoCount
BY CountFacts DEF ResetAll, Arms

\* What a report leaves behind.
LEMMA ReportFacts ==
  ASSUME Inv, NEW s \in ArmMap, ReportStats(s)
  PROVE  /\ activeSampled' \in Stats /\ globalStats' \in Stats
         /\ globalStats' = Plus(globalStats, s[activePolicy].stats)
         /\ epochStats' \in [Policies -> Stats \cup {NoStats}]
         /\ Tenured(Reported(s)) \in [Policies -> Stats \cup {NoStats}]
         /\ reportingEpochs' \in Nat /\ carried' \in Nat
<1>1. /\ activePolicy \in Policies /\ activeSampled \in Stats
      /\ globalStats \in Stats /\ reportingEpochs \in Nat
      /\ tenureStats \in [Policies -> Stats \cup {NoStats}]
  BY DEF Inv, TypeOK
<1>2. \A p \in Policies : s[p].stats \in Stats
  BY ArmFacts
<1>3. Reported(s) \in [Policies -> Stats]
  BY <1>1, <1>2 DEF Reported
<1>4. Tenured(Reported(s)) \in [Policies -> Stats \cup {NoStats}]
  <2> DEFINE es == Reported(s)
  <2>1. es \in [Policies -> Stats]
    BY <1>3
  <2> HIDE DEF es
  <2>2. \A p \in Policies : tenureStats[p] # NoStats => tenureStats[p] \in Stats
    BY <1>1
  <2>3. \A p \in Policies : tenureStats[p] # NoStats =>
                              Plus(tenureStats[p], es[p]) \in Stats
    BY <2>1, <2>2, CountFacts
  <2>4. Tenured(es) \in [Policies -> Stats \cup {NoStats}]
    BY <2>1, <2>3 DEF Tenured
  <2> QED
    BY <2>4 DEF es
<1>5. globalStats' = Plus(globalStats, s[activePolicy].stats) /\ globalStats' \in Stats
  BY <1>1, <1>2, CountFacts DEF ReportStats
<1>6. activeSampled' \in Stats /\ reportingEpochs' \in Nat
  BY <1>1, CountFacts DEF ReportStats
<1>7. epochStats' \in [Policies -> Stats \cup {NoStats}]
  BY <1>3 DEF ReportStats
<1>8. carried' \in Nat
  BY InFlightFinite DEF ReportStats
<1> QED
  BY <1>4, <1>5, <1>6, <1>7, <1>8

\* Folding the active policy's counters into the totals and starting the next
\* policy from zero changes nothing in Stats().
LEMMA FoldFacts ==
  ASSUME NEW g \in Stats, NEW c \in Stats
  PROVE  Plus(Plus(g, c), NoCount) = Plus(g, c)
BY CountFacts

\* An epoch stopped by the capacity gate.
LEMMA EpochSkippedDone ==
  ASSUME Inv, EpochSkipped
  PROVE  EpochDone
<1>1. PICK o \in CloseMigration(arms, migration) :
        arms' = o.arms /\ migration' = o.migration
  BY DEF EpochSkipped
<1>2. /\ Good(activePolicy, o.arms, o.migration, latest)
      /\ o.arms[activePolicy].stats = arms[activePolicy].stats
  BY EpochCloses
<1>3. /\ UNCHANGED <<activePolicy, nominalCap, shadowCap, activeSampled,
                     globalStats, tenureStats, reportingEpochs, carried,
                     lastSwitchEpoch, duty>>
      /\ epochStats' \in [Policies -> Stats \cup {NoStats}]
      /\ epochID' = epochID + 1
  BY DEF EpochSkipped
<1>4. StatsResult' = StatsResult
  BY <1>1, <1>2, <1>3 DEF StatsResult
<1>5. Good(activePolicy', arms', migration', latest)
  BY <1>1, <1>2, <1>3
<1> QED
  BY <1>3, <1>4, <1>5 DEF EpochDone, Inv, TypeOK

\* An epoch that keeps the active policy.
LEMMA EpochHeldDone ==
  ASSUME Inv, NEW choice, EpochHeld(choice)
  PROVE  EpochDone
<1>1. PICK o \in CloseMigration(arms, migration) :
        /\ ReportStats(o.arms)
        /\ tenureStats' = Tenured(Reported(o.arms))
        /\ arms' = ResetAll(o.arms) /\ migration' = o.migration
  BY DEF EpochHeld
<1>2. /\ Good(activePolicy, o.arms, o.migration, latest)
      /\ o.arms \in ArmMap
      /\ o.arms[activePolicy].stats = arms[activePolicy].stats
      /\ arms[activePolicy].stats \in Stats
  BY EpochCloses
<1>3. /\ UNCHANGED <<activePolicy, nominalCap, shadowCap, lastSwitchEpoch, duty>>
      /\ epochID' = epochID + 1
  BY DEF EpochHeld
<1>4. /\ activePolicy \in Policies /\ globalStats \in Stats
      /\ lastSwitchEpoch \in Nat /\ epochID \in Nat
      /\ duty \in [Policies -> Stats]
  BY DEF Inv, TypeOK
<1>5. /\ arms' \in ArmMap
      /\ \A p \in Policies : arms'[p].data = o.arms[p].data /\ arms'[p].stats = NoCount
  BY <1>1, <1>2, ResetFacts
<1>6. Good(activePolicy, arms', o.migration, latest)
  BY <1>2, <1>4, <1>5, LossGood
<1>7. /\ activeSampled' \in Stats /\ globalStats' \in Stats
      /\ globalStats' = Plus(globalStats, arms[activePolicy].stats)
      /\ epochStats' \in [Policies -> Stats \cup {NoStats}]
      /\ tenureStats' \in [Policies -> Stats \cup {NoStats}]
      /\ reportingEpochs' \in Nat /\ carried' \in Nat
  BY <1>1, <1>2, ReportFacts
<1>8. StatsResult' = StatsResult
  BY <1>2, <1>3, <1>4, <1>5, <1>7, FoldFacts DEF StatsResult
<1> QED
  BY <1>1, <1>3, <1>4, <1>6, <1>7, <1>8 DEF EpochDone

\* An epoch that switches.
LEMMA EpochSwitchedDone ==
  ASSUME Inv, NEW choice \in Policies \cup {Undefined}, EpochSwitched(choice)
  PROVE  EpochDone
<1>1. PICK o \in CloseMigration(arms, migration) :
        /\ Switches(choice, Reported(o.arms))
        /\ ReportStats(o.arms)
        /\ duty' = [duty EXCEPT ![activePolicy] = NoCount, ![choice] = Uncounted]
        /\ tenureStats' = [Tenured(Reported(o.arms)) EXCEPT
                             ![activePolicy] = NoStats, ![choice] = NoStats]
        /\ \E w \in SwitchLocked(ResetAll(o.arms), activePolicy, choice) :
              arms' = w.arms /\ migration' = w.migration
  BY DEF EpochSwitched, ReportStats
<1>2. /\ Good(activePolicy, o.arms, o.migration, latest)
      /\ o.arms \in ArmMap
      /\ o.arms[activePolicy].stats = arms[activePolicy].stats
      /\ arms[activePolicy].stats \in Stats
  BY EpochCloses
<1>3. choice \in Policies /\ choice # activePolicy
  BY <1>1 DEF Switches
<1>4. /\ UNCHANGED <<nominalCap, shadowCap>> /\ activePolicy' = choice
      /\ lastSwitchEpoch' = epochID /\ epochID' = epochID + 1
  BY DEF EpochSwitched
<1>5. /\ activePolicy \in Policies /\ globalStats \in Stats
      /\ lastSwitchEpoch \in Nat /\ epochID \in Nat /\ latest \in Latest
      /\ nominalCap \in [Policies -> Nat] /\ shadowCap \in [Policies -> Nat]
      /\ duty \in [Policies -> Stats]
  BY DEF Inv, TypeOK
<1> DEFINE r == ResetAll(o.arms)
<1>6. /\ r \in ArmMap
      /\ \A p \in Policies : r[p].data = o.arms[p].data /\ r[p].stats = NoCount
  BY <1>2, ResetFacts
<1>7. PICK w \in SwitchLocked(r, activePolicy, choice) :
        arms' = w.arms /\ migration' = w.migration
  BY <1>1
<1> HIDE DEF r
<1>8. \A k \in Keys : r[activePolicy].data[k] \in {None, latest[k]}
  BY <1>2, <1>5, <1>6 DEF Good
<1>9. Good(choice, arms', migration', latest) /\ arms'[choice].stats = NoCount
  BY <1>3, <1>5, <1>6, <1>7, <1>8, SwitchFacts
<1>10. /\ activeSampled' \in Stats /\ globalStats' \in Stats
       /\ globalStats' = Plus(globalStats, arms[activePolicy].stats)
       /\ epochStats' \in [Policies -> Stats \cup {NoStats}]
       /\ reportingEpochs' \in Nat /\ carried' \in Nat
  BY <1>1, <1>2, ReportFacts
<1>11. tenureStats' \in [Policies -> Stats \cup {NoStats}]
  <2>1. Tenured(Reported(o.arms)) \in [Policies -> Stats \cup {NoStats}]
    BY <1>1, <1>2, ReportFacts
  <2> QED
    BY <1>1, <1>3, <1>5, <2>1
<1>12. StatsResult' = StatsResult
  BY <1>2, <1>4, <1>5, <1>9, <1>10, FoldFacts DEF StatsResult
<1>13. duty' \in [Policies -> Stats]
  BY <1>1, <1>5, UncountedType, CountFacts
<1> QED
  BY <1>3, <1>4, <1>5, <1>9, <1>10, <1>11, <1>12, <1>13 DEF EpochDone

\* An epoch, whoever runs it, preserves the invariant.
LEMMA EpochInv ==
  ASSUME Inv, RunEpoch, UNCHANGED <<epochRequests, want, latest, served>>,
         \/ pc' = pc
         \/ \E t \in Threads : pc' = [pc EXCEPT ![t] = "idle"]
  PROVE  Inv'
<1>1. EpochDone
  BY EpochSkippedDone, EpochHeldDone, EpochSwitchedDone DEF RunEpoch
<1>2. arms' \in ArmMap /\ migration' \in Windows
  BY <1>1 DEF EpochDone, Good
<1>3. pc' \in [Threads -> {"idle", "hit", "miss", "slow", "count", "cross", "epoch"}]
  BY DEF Inv, TypeOK
<1>4. TypeOK'
  BY <1>1, <1>2, <1>3 DEF Inv, TypeOK, EpochDone
<1>5. Good(activePolicy, arms, migration, latest)'
  BY <1>1 DEF EpochDone, Good
<1>6. StatsAreCumulative'
  BY <1>1 DEF Inv, EpochDone, StatsAreCumulative
<1>7. WaitingHasKey'
  BY DEF Inv, TypeOK, WaitingHasKey
<1> QED
  BY <1>4, <1>5, <1>6, <1>7 DEF Inv

----------------------------------------------------------------------------
(* The theorems *)

\* Every step preserves the invariant.
LEMMA NextInv == Inv /\ [Next]_vars => Inv'
<1> SUFFICES ASSUME Inv, [Next]_vars PROVE Inv'
  OBVIOUS
<1>1. CASE \E t \in Threads, k \in Keys : GetFast(t, k)
  BY <1>1, GetFastInv
<1>2. CASE \E t \in Threads, k \in Keys : GetBlocked(t, k)
  BY <1>2, ThreadStepInv
<1>3. CASE \E t \in Threads : RecordSample(t) \/ CountRequest(t) \/ SubtractLimit(t)
  BY <1>3, ThreadStepInv
<1>4. CASE \E t \in Threads : GetSlow(t)
  BY <1>4, GetSlowInv
<1>5. CASE \E t \in Threads : RequestEpoch(t)
  BY <1>5, EpochInv DEF RequestEpoch
<1>6. CASE \E k \in Keys, v \in Values : Add(k, v)
  BY <1>6, AddInv
<1>7. CASE \E k \in Keys : Remove(k)
  BY <1>7, RemoveInv
<1>8. CASE Purge
  BY <1>8, PurgeInv
<1>9. CASE \E n \in Sizes : Resize(n)
  BY <1>9, ResizeInv
<1>10. CASE \E p \in Lossy, k \in Keys : Expire(p, k)
  BY <1>10, ExpireInv
<1>11. CASE Tick
  BY <1>11, EpochInv DEF Tick, threadVars
<1>12. CASE UNCHANGED vars
  BY <1>12 DEF vars, armVars, statVars, epochVars, threadVars, Inv, TypeOK, Good,
     StatsAreCumulative, StatsResult, WaitingHasKey
<1> QED
  BY <1>1, <1>2, <1>3, <1>4, <1>5, <1>6, <1>7, <1>8, <1>9, <1>10, <1>11, <1>12
  DEF Next, Step

\* The invariant holds always.
LEMMA Invariance == Spec => []Inv
BY InitInv, NextInv, PTL DEF Spec

\* The fields of the cache keep their types, and no counter goes negative,
\* whatever the calls, the epochs and the bandit's answers.
THEOREM TypeCorrect == Spec => []TypeOK
<1>1. Inv => TypeOK
  BY DEF Inv
<1> QED
  BY <1>1, Invariance, PTL

\* Get returns the value last Added for its key or misses, for every migration
\* strategy and sampling rate, across switches, windows, Resize and expiry.
THEOREM Freshness == Spec => []ServesLatest
<1>1. Inv => ServesLatest
  BY DEF Inv, Good, ServesLatest
<1> QED
  BY <1>1, Invariance, PTL

\* A key that promoteLocked or drainOneKey may still move is current in the
\* source and absent from the active policy.
THEOREM WindowSafe == Spec => []PendingKeysAreCurrent
<1>1. Inv => PendingKeysAreCurrent
  BY DEF Inv, Good, PendingKeysAreCurrent
<1> QED
  BY <1>1, Invariance, PTL

\* Stats() is exact: the counters folded at reports and reset at switches add
\* up to the answers given to callers.
THEOREM StatsExact == Spec => []StatsAreCumulative
<1>1. Inv => StatsAreCumulative
  BY DEF Inv
<1> QED
  BY <1>1, Invariance, PTL

----------------------------------------------------------------------------
(* Arms in their roles *)

USE DEF ArmMap, Latest

\* An arm within its capacity.
Fits(a) == AtMost(a.data, a.cap)

\* An arm without values and without unsampled keys.
Blank(a) ==
  \A k \in Keys : a.data[k] \in IF k \in Sampled THEN {None, Zero} ELSE {None}

\* The active arm and the source of an open window.
OnDuty(act, m, p) == p = act \/ (m.migrating /\ p = m.from)

\* Every arm is what its role wants it to be, for the capacities given.
Cast(act, s, m, full, mini) ==
  \A p \in Policies :
    /\ Fits(s[p])
    /\ OnDuty(act, m, p) => s[p].cap = full[p]
    /\ ~OnDuty(act, m, p) => s[p].cap = mini[p] /\ Blank(s[p])

\* Full and miniature capacities that a cache may have: one is 0 where the other
\* is.
Sized(full, mini) ==
  /\ full \in [Policies -> Nat] /\ mini \in [Policies -> Nat]
  /\ \A p \in Policies : full[p] = 0 <=> mini[p] = 0

\* Arms and window as they are in the middle of an operation.
Stage(s, m) ==
  /\ s \in ArmMap /\ m \in Windows
  /\ m.migrating => m.from \in Policies \ {activePolicy}
  /\ ~m.migrating => m = NoMigration
  /\ m.realKeys \subseteq m.keys
  /\ Cast(activePolicy, s, m, nominalCap, shadowCap)

\* What an operation of the window leads to, from arms s and window m: again
\* arms in their roles, a window that is open only for a reason, and counters of
\* the other arms as they were, except for a source that was demoted.
Serves(s, m, o) ==
  /\ Stage(o.arms, o.migration)
  /\ o.migration.migrating => m.migrating /\ o.migration.realKeys # {}
  /\ \A p \in Policies \ {activePolicy} :
       \/ o.arms[p].stats = s[p].stats
       \/ m.migrating /\ o.arms[p].stats = NoCount

\* An arm's contents, for the lemmas of PolicyOps.
LEMMA ArmContents ==
  ASSUME NEW a \in Arms
  PROVE  IsContents(a.data)
BY DEF Arms, IsContents

\* Add keeps an arm within its capacity.
LEMMA AddsFits ==
  ASSUME NEW p \in Policies, NEW a \in Arms, NEW k \in Keys,
         NEW v \in Values \cup {Zero, None}, NEW b \in Adds(p, a, k, v), Fits(a)
  PROVE  b.cap = a.cap /\ Fits(b)
<1>1. CASE a.cap = 0
  <2>1. b.data = Empty /\ b.cap = a.cap
    BY <1>1 DEF Adds, Arms
  <2> QED
    BY <1>1, <2>1, EmptyFacts DEF Fits
<1>2. CASE a.cap # 0
  <2>1. PICK d \in AddOutcomes(a.data, a.cap, k, v, p \in Lossy) :
          b = [a EXCEPT !.data = d]
    BY <1>2 DEF Adds
  <2>2. a.cap \in Nat /\ IsContents(a.data) /\ AtMost(a.data, a.cap)
    BY ArmFacts, ArmContents DEF Fits
  <2>3. AtMost(d, a.cap)
    BY <2>1, <2>2, AddAtMost
  <2>4. b.data = d /\ b.cap = a.cap
    BY <2>1 DEF Arms
  <2> QED
    BY <2>3, <2>4 DEF Fits
<1> QED
  BY <1>1, <1>2

\* Resize brings an arm within its new capacity.
LEMMA ResizesFits ==
  ASSUME NEW a \in Arms, NEW n \in Nat, NEW b \in Resizes(a, n), Fits(a)
  PROVE  Fits(b)
<1>1. PICK d \in ResizeOutcomes(a.data, n) : b = [a EXCEPT !.data = d, !.cap = n]
  BY DEF Resizes
<1>2. IsContents(a.data) /\ IsFiniteSet(Held(a.data))
  BY ArmContents DEF Fits, AtMost
<1>3. AtMost(d, n)
  BY <1>1, <1>2, ResizeAtMost
<1>4. b.data = d /\ b.cap = n
  BY <1>1 DEF Arms
<1> QED
  BY <1>3, <1>4 DEF Fits

\* Losing entries does no harm to an arm in its role.
LEMMA LossFits ==
  ASSUME NEW a \in Arms, NEW b \in Arms, Fits(a), b.cap = a.cap,
         \A j \in Keys : b.data[j] \in {None, a.data[j]}
  PROVE  Fits(b) /\ (Blank(a) => Blank(b))
<1>1. Held(b.data) \subseteq Held(a.data)
  BY DEF Held
<1>2. a.cap \in Nat
  BY ArmFacts
<1>3. AtMost(b.data, a.cap)
  BY <1>1, <1>2, LossAtMost DEF Fits
<1> QED
  BY <1>3 DEF Fits, Blank

\* A demoted arm is a shadow: blank, within its miniature capacity.  demoteLocked
\* does not resize to 0, but the arm has no capacity then.
LEMMA DemotedFits ==
  ASSUME shadowCap \in [Policies -> Nat], NEW p \in Policies, NEW a \in Arms, Fits(a),
         shadowCap[p] = 0 => a.cap = 0, NEW b \in Demoted(p, a)
  PROVE  /\ b \in Arms /\ b.stats = NoCount
         /\ b.cap = shadowCap[p] /\ Fits(b) /\ Blank(b)
<1> DEFINE zeroed == [k \in Keys |-> IF a.data[k] # None /\ k \in Sampled
                                     THEN Zero ELSE None]
           blank  == [a EXCEPT !.data = zeroed, !.stats = NoCount]
<1>1. blank \in Arms /\ blank.data = zeroed /\ blank.cap = a.cap
  BY DEF Arms, Stats, NoCount
<1>2. shadowCap[p] \in Nat
  OBVIOUS
<1>3. \/ b \in Resizes(blank, shadowCap[p])
      \/ b = blank /\ a.cap = shadowCap[p]
  BY <1>2 DEF Demoted
<1>4. Held(zeroed) \subseteq Held(a.data)
  BY DEF Held
<1>5. a.cap \in Nat
  BY ArmFacts
<1> HIDE DEF blank, zeroed
<1>6. Fits(blank)
  BY <1>1, <1>4, <1>5, LossAtMost DEF Fits
<1>7. b.cap = shadowCap[p]
  BY <1>1, <1>2, <1>3, ResizesFacts
<1>8. Fits(b)
  BY <1>1, <1>2, <1>3, <1>6, ResizesFits
<1>9. /\ b \in Arms /\ b.stats = NoCount /\ Blank(b)
  BY <1>2, DemotedFacts DEF Blank
<1> QED
  BY <1>7, <1>8, <1>9

----------------------------------------------------------------------------
(* Operations of the window *)

\* Replacing an arm by one that suits its role.
LEMMA PutStage ==
  ASSUME NEW s, NEW m, Stage(s, m), NEW p \in Policies, NEW a \in Arms,
         a.cap = s[p].cap, Fits(a), ~OnDuty(activePolicy, m, p) => Blank(a)
  PROVE  Stage(Put(s, p, a), m)
<1>1. /\ Put(s, p, a) \in ArmMap /\ Put(s, p, a)[p] = a
      /\ \A q \in Policies : q # p => Put(s, p, a)[q] = s[q]
  BY PutFacts DEF Stage
<1> HIDE DEF Put
<1>2. Cast(activePolicy, Put(s, p, a), m, nominalCap, shadowCap)
  BY <1>1 DEF Stage, Cast
<1> QED
  BY <1>1, <1>2 DEF Stage

\* closeMigrationLocked: the source becomes a shadow.
LEMMA CloseServes ==
  ASSUME activePolicy \in Policies, Sized(nominalCap, shadowCap),
         NEW s, NEW m, Stage(s, m), NEW o \in CloseMigration(s, m)
  PROVE  Serves(s, m, o)
<1>0. s \in ArmMap /\ m \in Windows /\ Cast(activePolicy, s, m, nominalCap, shadowCap)
  BY DEF Stage
<1>1. CASE m.migrating
  <2>1. m.from \in Policies /\ m.from # activePolicy /\ m.from # Undefined
    BY <1>1, PolicyAssumption DEF Stage
  <2>2. PICK d \in Demoted(m.from, s[m.from]) :
          o = After(Put(s, m.from, d), NoMigration)
    BY <1>1, <2>1 DEF CloseMigration
  <2>3. s[m.from] \in Arms /\ Fits(s[m.from])
    BY <1>0, <2>1 DEF Cast
  <2>9. shadowCap \in [Policies -> Nat] /\ (shadowCap[m.from] = 0 => s[m.from].cap = 0)
    BY <1>0, <1>1, <2>1 DEF Cast, OnDuty, Sized
  <2>4. /\ d \in Arms /\ d.stats = NoCount
        /\ d.cap = shadowCap[m.from] /\ Fits(d) /\ Blank(d)
    BY <2>1, <2>2, <2>3, <2>9, DemotedFits
  <2>5. o.arms = Put(s, m.from, d) /\ o.migration = NoMigration
    BY <2>2 DEF After
  <2>6. /\ o.arms \in ArmMap /\ o.arms[m.from] = d
        /\ \A q \in Policies : q # m.from => o.arms[q] = s[q]
    BY <1>0, <2>1, <2>4, <2>5, PutFacts
  <2>7. Cast(activePolicy, o.arms, NoMigration, nominalCap, shadowCap)
    BY <1>0, <1>1, <2>1, <2>4, <2>6, NoMigrationFacts DEF Cast, OnDuty
  <2>8. Stage(o.arms, o.migration)
    BY <2>5, <2>6, <2>7, NoMigrationFacts DEF Stage
  <2> QED
    BY <1>1, <2>4, <2>5, <2>6, <2>8, NoMigrationFacts DEF Serves
<1>2. CASE ~m.migrating
  <2>1. m = NoMigration
    BY <1>2 DEF Stage
  <2>2. o.arms = s /\ o.migration = m
    BY <1>2, <2>1 DEF CloseMigration, After
  <2> QED
    BY <1>2, <2>2 DEF Serves
<1> QED
  BY <1>1, <1>2

\* The window stays open while a key is eligible.
LEMMA KeepOrCloseServes ==
  ASSUME activePolicy \in Policies, Sized(nominalCap, shadowCap),
         NEW s, NEW m, Stage(s, m), NEW o \in KeepOrClose(s, m)
  PROVE  Serves(s, m, o)
<1>1. CASE m.realKeys = {}
  BY <1>1, CloseServes DEF KeepOrClose
<1>2. CASE m.realKeys # {}
  <2>1. o.arms = s /\ o.migration = m
    BY <1>2 DEF KeepOrClose, After
  <2> QED
    BY <1>2, <2>1 DEF Serves
<1> QED
  BY <1>1, <1>2

\* An open window that loses keys.
LEMMA ShrinkStage ==
  ASSUME NEW s, NEW m, Stage(s, m), m.migrating, NEW n \in Windows,
         n.migrating = m.migrating, n.from = m.from, n.realKeys \subseteq n.keys
  PROVE  Stage(s, n)
BY DEF Stage, Cast, OnDuty

\* Copying a key into the active arm.
LEMMA TransferStage ==
  ASSUME activePolicy \in Policies, NEW s, NEW m, Stage(s, m), m.migrating,
         NEW k \in Keys, NEW t \in Transfers(s, m, k)
  PROVE  /\ Stage(t, m)
         /\ \A p \in Policies \ {activePolicy} : t[p] = s[p]
<1>1. /\ s \in ArmMap /\ m.from \in Policies
      /\ s[activePolicy] \in Arms /\ Fits(s[activePolicy])
  BY DEF Stage, Cast
<1>2. PICK a \in Adds(activePolicy, s[activePolicy], k, s[m.from].data[k]) :
        t = Put(s, activePolicy, a)
  BY DEF Transfers
<1>3. s[m.from].data[k] \in Values \cup {Zero, None}
  BY <1>1 DEF Arms
<1>4. a \in Arms /\ a.cap = s[activePolicy].cap /\ Fits(a)
  BY <1>1, <1>2, <1>3, AddsFacts, AddsFits
<1>5. Stage(t, m)
  BY <1>2, <1>4, PutStage DEF OnDuty
<1> QED
  BY <1>1, <1>2, <1>4, <1>5, PutFacts

\* promoteLocked.
LEMMA PromoteServes ==
  ASSUME activePolicy \in Policies, Sized(nominalCap, shadowCap),
         NEW s, NEW m, Stage(s, m), m.migrating,
         NEW k \in Keys, NEW o \in PromoteKey(s, m, k)
  PROVE  Serves(s, m, o)
<1> DEFINE n == [m EXCEPT !.realKeys = @ \ {k}]
<1>1. PICK t : /\ o \in KeepOrClose(t, n)
               /\ t \in IF k \in m.realKeys /\ s[m.from].data[k] # None
                        THEN Transfers(s, m, k) ELSE {s}
  BY DEF PromoteKey
<1>2. /\ n \in Windows /\ n.migrating = m.migrating /\ n.from = m.from
      /\ n.realKeys \subseteq n.keys
  BY DEF Windows, Stage
<1> HIDE DEF n
<1>3. Stage(t, m) /\ \A p \in Policies \ {activePolicy} : t[p] = s[p]
  <2>1. t \in Transfers(s, m, k) \/ t = s
    BY <1>1
  <2> QED
    BY <2>1, TransferStage
<1>4. Serves(t, n, o)
  BY <1>1, <1>2, <1>3, ShrinkStage, KeepOrCloseServes
<1> QED
  BY <1>2, <1>3, <1>4 DEF Serves

\* The last round of drainOneKey.
LEMMA DrainKeyServes ==
  ASSUME activePolicy \in Policies, Sized(nominalCap, shadowCap),
         NEW s, NEW m, Stage(s, m), m.migrating,
         NEW k \in Keys, NEW popped, NEW o \in DrainKey(s, m, k, popped)
  PROVE  Serves(s, m, o)
<1> DEFINE n == [m EXCEPT !.keys = @ \ popped, !.realKeys = @ \ popped]
<1>1. PICK t \in Transfers(s, m, k) : o \in KeepOrClose(t, n)
  BY DEF DrainKey
<1>2. /\ n \in Windows /\ n.migrating = m.migrating /\ n.from = m.from
      /\ n.realKeys \subseteq n.keys
  BY DEF Windows, Stage
<1> HIDE DEF n
<1>3. Stage(t, m) /\ \A p \in Policies \ {activePolicy} : t[p] = s[p]
  BY TransferStage
<1>4. Serves(t, n, o)
  BY <1>1, <1>2, <1>3, ShrinkStage, KeepOrCloseServes
<1> QED
  BY <1>2, <1>3, <1>4 DEF Serves

\* drainOneKey.
LEMMA DrainServes ==
  ASSUME activePolicy \in Policies, Sized(nominalCap, shadowCap),
         NEW s, NEW m, Stage(s, m), m.migrating, NEW o \in DrainOneKey(s, m)
  PROVE  Serves(s, m, o)
<1>1. CASE LiveKeys(s, m) = {}
  BY <1>1, CloseServes DEF DrainOneKey
<1>2. CASE LiveKeys(s, m) # {}
  <2> DEFINE Via(k) == {DrainKey(s, m, k, skipped \cup {k}) :
                          skipped \in SUBSET (m.keys \ LiveKeys(s, m))}
  <2>1. o \in UNION {UNION Via(k) : k \in LiveKeys(s, m)}
    BY <1>2 DEF DrainOneKey
  <2>2. PICK k \in LiveKeys(s, m) : o \in UNION Via(k)
    <3> HIDE DEF Via
    <3> QED BY <2>1
  <2>3. PICK skipped \in SUBSET (m.keys \ LiveKeys(s, m)) :
          o \in DrainKey(s, m, k, skipped \cup {k})
    BY <2>2
  <2>4. k \in Keys
    BY DEF LiveKeys, Stage, Windows
  <2> QED
    BY <2>3, <2>4, DrainKeyServes
<1> QED
  BY <1>1, <1>2

\* The window's part of Add.
LEMMA MigrateOnAddServes ==
  ASSUME activePolicy \in Policies, Sized(nominalCap, shadowCap),
         NEW s, NEW m, Stage(s, m), m.migrating => m.realKeys # {},
         NEW k \in Keys, NEW o \in MigrateOnAdd(s, m, k)
  PROVE  Serves(s, m, o)
<1> DEFINE left == [m EXCEPT !.realKeys = @ \ {k}]
<1>1. /\ left \in Windows /\ left.migrating = m.migrating /\ left.from = m.from
      /\ left.realKeys \subseteq left.keys
  BY DEF Windows, Stage
<1>2. CASE ~m.migrating
  <2>1. o.arms = s /\ o.migration = m
    BY <1>2 DEF MigrateOnAdd, After
  <2> QED
    BY <1>2, <2>1 DEF Serves
<1>3. CASE m.migrating
  <2>1. o \in CloseMigration(s, left) \/ o \in DrainOneKey(s, left)
    BY <1>3 DEF MigrateOnAdd
  <2> HIDE DEF left
  <2>2. Stage(s, left)
    BY <1>1, <1>3, ShrinkStage
  <2>3. Serves(s, left, o)
    BY <1>1, <1>3, <2>1, <2>2, CloseServes, DrainServes
  <2> QED
    BY <1>1, <2>3 DEF Serves
<1> QED
  BY <1>2, <1>3

\* The window's part of Remove.
LEMMA MigrateOnRemoveServes ==
  ASSUME activePolicy \in Policies, Sized(nominalCap, shadowCap),
         NEW s, NEW m, Stage(s, m), NEW k \in Keys, NEW o \in MigrateOnRemove(s, m, k)
  PROVE  Serves(s, m, o)
<1> DEFINE left == [m EXCEPT !.realKeys = @ \ {k}]
<1>1. /\ left \in Windows /\ left.migrating = m.migrating /\ left.from = m.from
      /\ left.realKeys \subseteq left.keys
  BY DEF Windows, Stage
<1>2. CASE ~m.migrating
  <2>1. o.arms = s /\ o.migration = m
    BY <1>2 DEF MigrateOnRemove, After
  <2> QED
    BY <1>2, <2>1 DEF Serves
<1>3. CASE m.migrating
  <2>1. o \in KeepOrClose(s, left)
    BY <1>3 DEF MigrateOnRemove
  <2> HIDE DEF left
  <2>2. Stage(s, left)
    BY <1>1, <1>3, ShrinkStage
  <2>3. Serves(s, left, o)
    BY <2>1, <2>2, KeepOrCloseServes
  <2> QED
    BY <1>1, <2>3 DEF Serves
<1> QED
  BY <1>2, <1>3

----------------------------------------------------------------------------
(* Switching *)

\* A window that a switch may leave open: its source is the arm that was active,
\* and only the gradual strategy opens one.
Opens(from, m) ==
  /\ m \in Windows
  /\ m.migrating => /\ m.from = from /\ strategy = "gradual"
                    /\ m.realKeys # {} /\ m.realKeys \subseteq m.keys
  /\ ~m.migrating => m = NoMigration

\* After a switch every arm is in its new role: the one switched to at full
\* capacity, the one replaced a shadow, or still at full capacity while the window
\* is open.
LEMMA SwitchCast ==
  ASSUME Sized(nominalCap, shadowCap),
         NEW s \in ArmMap, NEW from \in Policies, NEW to \in Policies, from # to,
         Cast(from, s, NoMigration, nominalCap, shadowCap),
         \A p \in Policies : s[p].stats = NoCount,
         NEW w \in SwitchLocked(s, from, to)
  PROVE  /\ w.arms \in ArmMap
         /\ Cast(to, w.arms, w.migration, nominalCap, shadowCap)
         /\ Opens(from, w.migration)
         /\ \A p \in Policies : w.arms[p].stats = NoCount
<1> DEFINE r == AtFullCapacity(s, to)
<1>1. /\ r \in ArmMap /\ r[to].cap = nominalCap[to] /\ r[to].stats = NoCount
      /\ \A q \in Policies : q # to => r[q] = s[q]
  <2> DEFINE b == [s[to] EXCEPT !.cap = nominalCap[to]]
  <2>1. /\ b \in Arms /\ b.cap = nominalCap[to] /\ b.stats = NoCount
        /\ nominalCap[to] \in Nat
    BY DEF Arms, Sized
  <2>6. nominalCap[to] = 0 => s[to].cap = nominalCap[to]
    BY NoMigrationFacts DEF Cast, OnDuty, Sized
  <2> HIDE DEF b
  <2>2. r = Put(s, to, b) \/ (r = s /\ s[to].cap = nominalCap[to])
    BY <2>1, <2>6 DEF AtFullCapacity, b
  <2> HIDE DEF r
  <2>3. /\ Put(s, to, b) \in ArmMap /\ Put(s, to, b)[to] = b
        /\ \A q \in Policies : q # to => Put(s, to, b)[q] = s[q]
    BY <2>1 DEF Put
  <2>4. CASE r = s /\ s[to].cap = nominalCap[to]
    BY <2>4
  <2>5. CASE r = Put(s, to, b)
    BY <2>1, <2>3, <2>5
  <2> QED
    BY <2>2, <2>4, <2>5
<1> HIDE DEF r
<1>2. PICK o \in MigrateData(r, from, to) :
        w \in IF o.migration.migrating THEN {o}
              ELSE {After(Put(o.arms, from, d), o.migration) :
                      d \in Demoted(from, o.arms[from])}
  BY DEF SwitchLocked, r
<1>3. /\ r[from] \in Arms /\ r[from].cap = nominalCap[from] /\ Fits(r[from])
      /\ nominalCap[to] \in Nat
  BY <1>1 DEF Cast, OnDuty, Sized
<1> DEFINE Filled(d) == Put(r, to, [r[to] EXCEPT !.data = d])
<1>4. /\ Opens(from, o.migration)
      /\ \E d \in Contents : AtMost(d, nominalCap[to]) /\ o.arms = Filled(d)
  <2>1. Empty \in Contents /\ AtMost(Empty, nominalCap[to])
    BY <1>3, EmptyFacts DEF Empty, Contents
  <2>2. CASE strategy = "warm"
    <3>1. PICK d \in ResizeOutcomes(r[from].data, r[to].cap) :
            o = After(Filled(d), NoMigration)
      BY <2>2 DEF MigrateData
    <3>2. IsContents(r[from].data) /\ IsFiniteSet(Held(r[from].data))
      BY <1>3, ArmContents DEF Fits, AtMost
    <3>3. AtMost(d, nominalCap[to])
      BY <1>1, <1>3, <3>1, <3>2, ResizeAtMost
    <3>4. d \in Contents
      BY <1>3, <3>1, ResizeFacts, ArmFacts
    <3>5. o.arms = Filled(d) /\ o.migration = NoMigration
      BY <3>1 DEF After
    <3> QED
      BY <3>3, <3>4, <3>5, NoMigrationFacts DEF Opens
  <2>3. CASE strategy = "gradual" /\ Held(r[from].data) # {}
    <3>1. o = After(Filled(Empty),
                    [migrating |-> TRUE, from |-> from,
                     keys |-> Held(r[from].data), realKeys |-> Held(r[from].data)])
      BY <2>3 DEF MigrateData
    <3>2. /\ o.arms = Filled(Empty)
          /\ o.migration = [migrating |-> TRUE, from |-> from,
                            keys |-> Held(r[from].data),
                            realKeys |-> Held(r[from].data)]
      BY <3>1 DEF After
    <3>3. Opens(from, o.migration)
      BY <2>3, <3>2 DEF Opens, Windows, Held
    <3> QED
      BY <2>1, <3>2, <3>3
  <2>4. CASE strategy # "warm" /\ ~(strategy = "gradual" /\ Held(r[from].data) # {})
    <3>1. o = After(Filled(Empty), NoMigration)
      BY <2>4 DEF MigrateData
    <3>2. o.arms = Filled(Empty) /\ o.migration = NoMigration
      BY <3>1 DEF After
    <3> QED
      BY <2>1, <3>2, NoMigrationFacts DEF Opens
  <2> QED
    BY <2>2, <2>3, <2>4
<1>5. PICK d \in Contents : AtMost(d, nominalCap[to]) /\ o.arms = Filled(d)
  BY <1>4
<1>6. /\ o.arms \in ArmMap /\ Fits(o.arms[to])
      /\ o.arms[to].cap = nominalCap[to] /\ o.arms[to].stats = NoCount
      /\ \A q \in Policies : q # to => o.arms[q] = s[q]
  <2> DEFINE b == [r[to] EXCEPT !.data = d]
  <2>1. /\ b \in Arms /\ b.data = d /\ b.cap = nominalCap[to] /\ b.stats = NoCount
    BY <1>1 DEF Arms, Contents
  <2>2. o.arms = Put(r, to, b)
    BY <1>5
  <2> HIDE DEF b
  <2>3. /\ o.arms \in ArmMap /\ o.arms[to] = b
        /\ \A q \in Policies : q # to => o.arms[q] = r[q]
    BY <1>1, <2>1, <2>2 DEF Put
  <2> QED
    BY <1>1, <1>5, <2>1, <2>3 DEF Fits
<1> HIDE DEF Filled
<1>7. CASE o.migration.migrating
  <2>1. w = o /\ o.migration.from = from
    BY <1>2, <1>4, <1>7 DEF Opens
  <2>2. Cast(to, o.arms, o.migration, nominalCap, shadowCap)
    BY <1>3, <1>6, <1>7, <2>1, NoMigrationFacts DEF Cast, OnDuty
  <2> QED
    BY <1>4, <1>6, <2>1, <2>2
<1>8. CASE ~o.migration.migrating
  <2>1. PICK e \in Demoted(from, o.arms[from]) :
          w = After(Put(o.arms, from, e), o.migration)
    BY <1>2, <1>8
  <2>2. w.arms = Put(o.arms, from, e) /\ w.migration = o.migration
    BY <2>1 DEF After
  <2>3. /\ o.arms[from] \in Arms /\ Fits(o.arms[from])
        /\ shadowCap \in [Policies -> Nat]
        /\ shadowCap[from] = 0 => o.arms[from].cap = 0
    BY <1>6 DEF Cast, OnDuty, Sized
  <2>4. /\ e \in Arms /\ e.stats = NoCount /\ e.cap = shadowCap[from]
        /\ Fits(e) /\ Blank(e)
    BY <2>1, <2>3, DemotedFits
  <2>5. /\ w.arms \in ArmMap /\ w.arms[from] = e
        /\ \A q \in Policies : q # from => w.arms[q] = o.arms[q]
    BY <1>6, <2>2, <2>4 DEF Put
  <2>6. Cast(to, w.arms, w.migration, nominalCap, shadowCap)
    BY <1>6, <1>8, <2>2, <2>4, <2>5, NoMigrationFacts DEF Cast, OnDuty
  <2> QED
    BY <1>4, <1>6, <2>2, <2>4, <2>5, <2>6
<1> QED
  BY <1>7, <1>8

----------------------------------------------------------------------------
(* The inductive invariant *)

\* The sampled Gets that a shadow in service since the last report has counted.
Expected == Total(activeSampled) + Cardinality(InFlight) - carried

\* An open window is a recent one of the gradual strategy, with work left to do.
WindowIsYoung ==
  migration.migrating => /\ migration.realKeys # {} /\ strategy = "gradual"
                         /\ epochID = lastSwitchEpoch + 1

\* The inductive invariant of the roles.
RolesInv ==
  /\ Inv
  /\ Sized(nominalCap, shadowCap)
  /\ Stage(arms, migration)
  /\ WindowIsYoung
  /\ lastSwitchEpoch <= epochID
  /\ Expected >= 0
  /\ EvidenceBalance
  /\ AdviceIsOfThisRole

\* The miniature of a cache is 0 exactly when its size is.
LEMMA SizedCapacities ==
  /\ Sized(InitialCap, InitialShadowCap)
  /\ \A n \in Sizes :
       LET small == ScaledCapacity(n, EffectiveRate[1], EffectiveRate[2])
       IN  n \in Nat /\ small \in Nat /\ (n = 0 <=> small = 0)
<1>1. ASSUME NEW n \in Nat, NEW num, NEW den, ScaledCapacity(n, num, den) \in Nat
      PROVE  n = 0 <=> ScaledCapacity(n, num, den) = 0
  BY <1>1 DEF ScaledCapacity
<1>2. ASSUME NEW n \in Nat, NEW num, NEW den, ShadowCapacity(n, num, den) \in Nat
      PROVE  n = 0 <=> ShadowCapacity(n, num, den) = 0
  <2> DEFINE c == CeilScale(n, num, den)
  <2>1. ShadowCapacity(n, num, den) =
          IF n <= 0 \/ num >= den THEN n
          ELSE IF (IF c < MinShadowCapacity THEN MinShadowCapacity ELSE c) >= n
               THEN n ELSE IF c < MinShadowCapacity THEN MinShadowCapacity ELSE c
    BY DEF ShadowCapacity
  <2> HIDE DEF c
  <2>2. MinShadowCapacity \in Nat \ {0}
    BY SettingsAssumption
  <2> QED
    BY <1>2, <2>1, <2>2
<1>3. /\ InitialCap \in [Policies -> Nat] /\ InitialShadowCap \in [Policies -> Nat]
      /\ \A p \in Policies : InitialCap[p] \in Nat /\ InitialShadowCap[p] \in Nat
  BY CapacityTypes, SettingsAssumption
<1>4. Sized(InitialCap, InitialShadowCap)
  BY <1>2, <1>3 DEF InitialShadowCap, Sized
<1> QED
  BY <1>1, <1>4, CapacityTypes

\* Totals of counters.
LEMMA TotalFacts ==
  /\ Total(NoCount) = 0
  /\ \A s \in Stats : Total(s) \in Nat
  /\ \A s \in Stats, hit \in BOOLEAN : Total(Counted(s, hit)) = Total(s) + 1
BY DEF Total, NoCount, Stats, Counted

\* The roles hold once NewAdaptiveCache returns.
LEMMA InitRoles == Init => RolesInv
<1> SUFFICES ASSUME Init PROVE RolesInv
  OBVIOUS
<1>1. Inv
  BY InitInv
<1>2. Sized(nominalCap, shadowCap)
  BY SizedCapacities DEF Init
<1>3. \A p \in Policies : arms[p].data = Empty /\ arms[p].stats = NoCount
  BY DEF Init
<1>4. Stage(arms, migration)
  <2>1. /\ arms \in ArmMap /\ migration = NoMigration /\ activePolicy = First
    BY <1>1 DEF Init, Inv, TypeOK
  <2>2. ASSUME NEW p \in Policies
        PROVE  Fits(arms[p]) /\ Blank(arms[p])
    <3>1. arms[p].cap \in Nat /\ arms[p].data = Empty
      BY <1>3, <2>1, ArmFacts
    <3> QED
      BY <3>1, EmptyFacts DEF Fits, Blank, Empty
  <2>3. Cast(activePolicy, arms, migration, nominalCap, shadowCap)
    BY <2>1, <2>2, NoMigrationFacts DEF Cast, OnDuty, Init
  <2> QED
    BY <2>1, <2>3, NoMigrationFacts DEF Stage
<1>5. WindowIsYoung /\ lastSwitchEpoch <= epochID
  BY NoMigrationFacts DEF Init, WindowIsYoung
<1>6. Expected = 0
  <2>1. InFlight = {} /\ activeSampled = NoCount /\ carried = 0
    BY DEF Init, InFlight
  <2> QED
    BY <2>1, FS_EmptySet, TotalFacts DEF Expected
<1>7. EvidenceBalance
  BY <1>3, <1>6, TotalFacts DEF EvidenceBalance, Expected
<1>8. AdviceIsOfThisRole
  <2>1. Uncounted = NoCount
    <3>1. {t \in Threads : pc[t] = "hit"} = {} /\ {t \in Threads : pc[t] = "miss"} = {}
      BY DEF Init
    <3> QED
      BY <3>1, FS_EmptySet DEF Uncounted, NoCount
  <2>2. \A p \in Policies : Measured(p) = NoCount /\ duty[p] = NoCount
    BY DEF Init, Measured, AdviceReports
  <2>3. activeSampled = NoCount /\ Plus(NoCount, NoCount) = NoCount
    BY CountFacts DEF Init
  <2>4. \A p \in Policies :
          Plus(Measured(p), IF p = activePolicy THEN Plus(activeSampled, Uncounted)
                            ELSE arms[p].stats) = NoCount
    BY <1>3, <2>1, <2>2, <2>3
  <2> QED
    BY <2>2, <2>4 DEF AdviceIsOfThisRole, NoCount
<1> QED
  BY <1>1, <1>2, <1>4, <1>5, <1>6, <1>7, <1>8 DEF RolesInv

----------------------------------------------------------------------------
(* Gets *)

\* The shadow pass of Get: every arm stays in its role, and every arm but the
\* active one counts a sampled key.
LEMMA ShadowGetsStage ==
  ASSUME arms \in ArmMap, NEW m, Stage(arms, m), NEW k
  PROVE  /\ Stage(ShadowGets(k), m)
         /\ \A p \in Policies \ {activePolicy} :
              IF k \in Sampled
              THEN \E hit \in BOOLEAN : ShadowGets(k)[p].stats = Counted(arms[p].stats, hit)
              ELSE ShadowGets(k)[p].stats = arms[p].stats
         /\ \A p \in Policies \ {activePolicy} :
              k \in Sampled => ShadowGets(k)[p].stats =
                                Counted(arms[p].stats, arms[p].data[k] # None)
<1>1. ASSUME NEW p \in Policies
      PROVE  /\ ShadowGets(k)[p].data = arms[p].data
             /\ ShadowGets(k)[p].cap = arms[p].cap
             /\ p # activePolicy =>
                  IF k \in Sampled
                  THEN \E hit \in BOOLEAN :
                         ShadowGets(k)[p].stats = Counted(arms[p].stats, hit)
                  ELSE ShadowGets(k)[p].stats = arms[p].stats
             /\ p # activePolicy /\ k \in Sampled =>
                  ShadowGets(k)[p].stats = Counted(arms[p].stats, arms[p].data[k] # None)
  <2>1. arms[p] \in Arms
    OBVIOUS
  <2>2. /\ Lookup(arms[p], k).data = arms[p].data
        /\ Lookup(arms[p], k).cap = arms[p].cap
        /\ Lookup(arms[p], k).stats = Counted(arms[p].stats, arms[p].data[k] # None)
    BY <2>1 DEF Lookup, Arms
  <2>3. ShadowGets(k)[p] = IF p # activePolicy /\ k \in Sampled
                           THEN Lookup(arms[p], k) ELSE arms[p]
    BY DEF ShadowGets
  <2>4. (arms[p].data[k] # None) \in BOOLEAN
    OBVIOUS
  <2> QED
    BY <2>2, <2>3, <2>4
<1>2. ShadowGets(k) \in ArmMap
  BY ShadowGetsFacts
<1>3. Cast(activePolicy, ShadowGets(k), m, nominalCap, shadowCap)
  BY <1>1 DEF Stage, Cast, Fits, Blank
<1> QED
  BY <1>1, <1>2, <1>3 DEF Stage

\* Looking a key up in the active arm keeps the roles.
LEMMA LookupStage ==
  ASSUME activePolicy \in Policies, NEW s, NEW m, Stage(s, m), NEW k, NEW t,
         t = Put(s, activePolicy, Lookup(s[activePolicy], k))
  PROVE  Stage(t, m) /\ \A p \in Policies \ {activePolicy} : t[p] = s[p]
<1>1. s \in ArmMap /\ s[activePolicy] \in Arms /\ Fits(s[activePolicy])
  BY DEF Stage, Cast
<1> DEFINE b == Lookup(s[activePolicy], k)
<1>2. b \in Arms /\ b.data = s[activePolicy].data /\ b.cap = s[activePolicy].cap
  BY <1>1, LookupFacts DEF Lookup, Arms
<1> HIDE DEF b
<1>3. t = Put(s, activePolicy, b)
  BY DEF b
<1>4. Fits(b)
  BY <1>1, <1>2 DEF Fits
<1>5. Stage(t, m)
  BY <1>2, <1>3, <1>4, PutStage DEF OnDuty
<1> QED
  BY <1>1, <1>2, <1>3, <1>5, PutFacts

\* A Get in flight more or less.
LEMMA InFlightCount ==
  ASSUME NEW t \in Threads
  PROVE  /\ t \notin InFlight => Cardinality(InFlight \cup {t}) = Cardinality(InFlight) + 1
         /\ t \in InFlight => Cardinality(InFlight \ {t}) = Cardinality(InFlight) - 1
<1>1. InFlight \in SUBSET Threads /\ IsFiniteSet(Threads)
  BY PolicyAssumption DEF InFlight
<1>2. IsFiniteSet(InFlight)
  BY <1>1, FS_Subset
<1> QED
  BY <1>2, FS_AddElement, FS_RemoveElement

----------------------------------------------------------------------------
(* What Advice knows of an arm *)

\* What arm p has counted since the last report, or will once the Gets in flight
\* are counted.
Gathered(p) == IF p = activePolicy THEN Plus(activeSampled, Uncounted) ELSE arms[p].stats

\* No hit and no miss too many.
Below(s, d) == s.hits <= d.hits /\ s.misses <= d.misses

\* The counts s of arm p against its duty d.
Faithful(p, s, d) ==
  Below(s, d) /\ (p = activePolicy \/ strategy # "gradual" => s = d)

\* The invariant in these terms.
LEMMA AdviceUnfolded ==
  AdviceIsOfThisRole <=>
    \A p \in Policies : Faithful(p, Plus(Measured(p), Gathered(p)), duty[p])
BY DEF AdviceIsOfThisRole, Faithful, Below, Gathered

\* The same of the next state.
LEMMA AdviceUnfoldedNext ==
  AdviceIsOfThisRole' <=>
    \A p \in Policies :
      LET s == Plus(Measured(p)', Gathered(p)')
      IN  /\ Below(s, duty'[p])
          /\ p = activePolicy' \/ strategy' # "gradual" => s = duty'[p]
BY DEF AdviceIsOfThisRole, Below, Gathered

\* Pairs of counts.
LEMMA PairFacts ==
  /\ \A m, s, c \in Stats : Plus(m, Plus(s, c)) = Plus(Plus(m, s), c)
  /\ \A s \in Stats : Plus(s, NoCount) = s /\ Plus(NoCount, s) = s
  /\ \A s, d \in Stats, hit \in BOOLEAN :
       Below(s, d) => Below(Counted(s, hit), Counted(d, hit))
  /\ \A m, s, d \in Stats, hit \in BOOLEAN :
       Below(Plus(m, s), d) => Below(m, d) /\ Below(m, Counted(d, hit))
  /\ \A s \in Stats : Below(s, s)
  /\ NoStats \notin Stats
BY DEF Stats, Plus, Counted, Below, NoCount, NoStats

\* What the counts are.
LEMMA GatheredTypes ==
  ASSUME Inv
  PROVE  /\ activeSampled \in Stats /\ Uncounted \in Stats
         /\ Plus(activeSampled, Uncounted) \in Stats
         /\ \A p \in Policies : /\ Measured(p) \in Stats /\ arms[p].stats \in Stats
                                /\ Gathered(p) \in Stats /\ duty[p] \in Stats
                                /\ Plus(Measured(p), Gathered(p)) \in Stats
<1>1. activeSampled \in Stats /\ Uncounted \in Stats
  BY UncountedType DEF Inv, TypeOK
<1>2. Plus(activeSampled, Uncounted) \in Stats
  BY <1>1, CountFacts
<1>3. \A p \in Policies : arms[p].stats \in Stats /\ duty[p] \in Stats
  BY ArmFacts DEF Inv, TypeOK
<1>4. \A p \in Policies : Measured(p) \in Stats
  BY CountFacts DEF Inv, TypeOK, Measured, AdviceReports
<1>5. \A p \in Policies : Gathered(p) \in Stats
  BY <1>2, <1>3 DEF Gathered
<1> QED
  BY <1>1, <1>2, <1>3, <1>4, <1>5, CountFacts

\* A goroutine that goes from hit or miss to the count takes its result with it,
\* one that looks a sampled key up brings one, and the others change nothing.
LEMMA UncountedSteps ==
  ASSUME NEW t \in Threads, NEW x, pc' = [pc EXCEPT ![t] = x],
         pc \in [Threads -> {"idle", "hit", "miss", "slow", "count", "cross", "epoch"}]
  PROVE  /\ pc[t] \notin {"hit", "miss"} /\ x \notin {"hit", "miss"} => Uncounted' = Uncounted
         /\ \A hit \in BOOLEAN :
              pc[t] = "idle" /\ x = (IF hit THEN "hit" ELSE "miss") =>
                Uncounted' = Counted(Uncounted, hit)
         /\ pc[t] \in {"hit", "miss"} /\ x \notin {"hit", "miss"} =>
              Uncounted = Counted(Uncounted', pc[t] = "hit")
<1> DEFINE H == {u \in Threads : pc[u] = "hit"}
           M == {u \in Threads : pc[u] = "miss"}
<1>1. /\ Uncounted = [hits |-> Cardinality(H), misses |-> Cardinality(M)]
      /\ Uncounted' = [hits |-> Cardinality(H'), misses |-> Cardinality(M')]
  BY DEF Uncounted
<1>2. H \in SUBSET Threads /\ M \in SUBSET Threads /\ IsFiniteSet(Threads)
  BY PolicyAssumption
<1>3. /\ H' = IF x = "hit" THEN H \cup {t} ELSE H \ {t}
      /\ M' = IF x = "miss" THEN M \cup {t} ELSE M \ {t}
      /\ t \in H <=> pc[t] = "hit"
      /\ t \in M <=> pc[t] = "miss"
  OBVIOUS
<1> DEFINE H1 == H'
           M1 == M'
<1>4. /\ H1 = (IF x = "hit" THEN H \cup {t} ELSE H \ {t})
      /\ M1 = (IF x = "miss" THEN M \cup {t} ELSE M \ {t})
      /\ Uncounted' = [hits |-> Cardinality(H1), misses |-> Cardinality(M1)]
  BY <1>1, <1>3
<1> HIDE DEF H, M, H1, M1
<1>5. IsFiniteSet(H) /\ IsFiniteSet(M)
  BY <1>2, FS_Subset
<1>6. Cardinality(H) \in Nat /\ Cardinality(M) \in Nat
  BY <1>5, FS_CardinalityType
<1>7. /\ t \notin H => Cardinality(H \cup {t}) = Cardinality(H) + 1 /\ H \ {t} = H
      /\ t \notin M => Cardinality(M \cup {t}) = Cardinality(M) + 1 /\ M \ {t} = M
      /\ t \in H => Cardinality(H \ {t}) = Cardinality(H) - 1
      /\ t \in M => Cardinality(M \ {t}) = Cardinality(M) - 1
  BY <1>5, FS_AddElement, FS_RemoveElement
<1>8. ASSUME pc[t] \notin {"hit", "miss"}, x \notin {"hit", "miss"}
      PROVE  Uncounted' = Uncounted
  BY <1>1, <1>3, <1>4, <1>7, <1>8
<1>9. ASSUME NEW hit \in BOOLEAN, pc[t] = "idle", x = (IF hit THEN "hit" ELSE "miss")
      PROVE  Uncounted' = Counted(Uncounted, hit)
  <2>1. t \notin H /\ t \notin M
    BY <1>3, <1>9
  <2>2. CASE hit
    <3>1. Cardinality(H1) = Cardinality(H) + 1 /\ Cardinality(M1) = Cardinality(M)
      BY <1>4, <1>7, <1>9, <2>1, <2>2
    <3> QED
      BY <1>1, <1>4, <2>2, <3>1 DEF Counted
  <2>3. CASE ~hit
    <3>1. Cardinality(M1) = Cardinality(M) + 1 /\ Cardinality(H1) = Cardinality(H)
      BY <1>4, <1>7, <1>9, <2>1, <2>3
    <3> QED
      BY <1>1, <1>4, <2>3, <3>1 DEF Counted
  <2> QED
    BY <2>2, <2>3
<1>10. ASSUME pc[t] \in {"hit", "miss"}, x \notin {"hit", "miss"}
       PROVE  Uncounted = Counted(Uncounted', pc[t] = "hit")
  <2>1. H1 = H \ {t} /\ M1 = M \ {t}
    BY <1>4, <1>10
  <2>2. CASE pc[t] = "hit"
    <3>1. Cardinality(H1) = Cardinality(H) - 1 /\ Cardinality(M1) = Cardinality(M)
      BY <1>3, <1>7, <2>1, <2>2
    <3> QED
      BY <1>1, <1>4, <1>6, <2>2, <3>1 DEF Counted
  <2>3. CASE pc[t] = "miss"
    <3>1. Cardinality(M1) = Cardinality(M) - 1 /\ Cardinality(H1) = Cardinality(H)
      BY <1>3, <1>7, <2>1, <2>3
    <3> QED
      BY <1>1, <1>4, <1>6, <2>3, <3>1 DEF Counted
  <2> QED
    BY <1>10, <2>2, <2>3
<1> QED
  BY <1>8, <1>9, <1>10

\* A step between reports in which every arm counts what it answers, except a
\* source that is demoted: an answer (counted) or none.
LEMMA AdviceCounts ==
  ASSUME RolesInv, UNCHANGED <<strategy, activePolicy, tenureStats>>,
         NEW counted \in BOOLEAN, NEW hits \in [Policies -> BOOLEAN],
         \A p \in Policies :
           duty'[p] = IF counted THEN Counted(duty[p], hits[p]) ELSE duty[p],
         LET g == Plus(activeSampled, Uncounted)
         IN  Plus(activeSampled', Uncounted') =
               IF counted THEN Counted(g, hits[activePolicy]) ELSE g,
         \A p \in Policies \ {activePolicy} :
           \/ arms'[p].stats = IF counted THEN Counted(arms[p].stats, hits[p])
                                         ELSE arms[p].stats
           \/ migration.migrating /\ arms'[p].stats = NoCount
  PROVE  AdviceIsOfThisRole'
<1>1. \A p \in Policies : Faithful(p, Plus(Measured(p), Gathered(p)), duty[p])
  BY AdviceUnfolded DEF RolesInv
<1>2. \A p \in Policies : Measured(p)' = Measured(p)
  BY DEF Measured, AdviceReports
<1>3. migration.migrating => strategy = "gradual"
  BY DEF RolesInv, WindowIsYoung
<1>4. ASSUME NEW p \in Policies
      PROVE  /\ Below(Plus(Measured(p)', Gathered(p)'), duty'[p])
             /\ p = activePolicy' \/ strategy' # "gradual" =>
                  Plus(Measured(p)', Gathered(p)') = duty'[p]
  <2> DEFINE m == Measured(p)
             g == Gathered(p)
             h == hits[p]
  <2>1. m \in Stats /\ g \in Stats /\ duty[p] \in Stats /\ h \in BOOLEAN /\ Plus(m, g) \in Stats
    BY GatheredTypes DEF RolesInv
  <2>2. \/ Gathered(p)' = IF counted THEN Counted(g, h) ELSE g
        \/ p # activePolicy /\ strategy = "gradual" /\ Gathered(p)' = NoCount
    BY <1>3 DEF Gathered
  <2>3. /\ Below(Plus(m, g), duty[p])
        /\ p = activePolicy \/ strategy # "gradual" => Plus(m, g) = duty[p]
    BY <1>1 DEF Faithful
  <2>4. /\ Plus(m, Counted(g, h)) = Counted(Plus(m, g), h)
        /\ Below(Counted(Plus(m, g), h), Counted(duty[p], h))
        /\ Below(m, duty[p]) /\ Below(m, Counted(duty[p], h)) /\ Plus(m, NoCount) = m
    <3> HIDE DEF m, g, h
    <3> QED BY <2>1, <2>3, CountOnce, PairFacts
  <2>5. Measured(p)' = m /\ duty'[p] = IF counted THEN Counted(duty[p], h) ELSE duty[p]
    BY <1>2
  <2> HIDE DEF m, g, h
  <2>6. CASE Gathered(p)' = IF counted THEN Counted(g, h) ELSE g
    <3>1. Plus(Measured(p)', Gathered(p)') = IF counted THEN Counted(Plus(m, g), h) ELSE Plus(m, g)
      BY <2>4, <2>5, <2>6
    <3> QED
      BY <2>3, <2>4, <2>5, <3>1
  <2>7. CASE p # activePolicy /\ strategy = "gradual" /\ Gathered(p)' = NoCount
    <3>1. Plus(Measured(p)', Gathered(p)') = m
      BY <2>4, <2>5, <2>7
    <3> QED
      BY <2>4, <2>5, <2>7, <3>1
  <2> QED
    BY <2>2, <2>6, <2>7
<1> QED
  BY <1>4, AdviceUnfoldedNext

\* The same when no answer is counted.
LEMMA AdviceKept ==
  ASSUME RolesInv, UNCHANGED <<strategy, activePolicy, tenureStats, duty>>,
         Plus(activeSampled', Uncounted') = Plus(activeSampled, Uncounted),
         \A p \in Policies \ {activePolicy} :
           \/ arms'[p].stats = arms[p].stats
           \/ migration.migrating /\ arms'[p].stats = NoCount
  PROVE  AdviceIsOfThisRole'
<1> DEFINE hits == [p \in Policies |-> TRUE]
<1>1. hits \in [Policies -> BOOLEAN]
  OBVIOUS
<1> HIDE DEF hits
<1>2. PICK counted \in BOOLEAN : ~counted
  OBVIOUS
<1> QED
  BY <1>1, <1>2, AdviceCounts

\* What a report adds to the tenure of every arm, r being the counts reported:
\* an arm that changes its role starts from nothing.
Reckoned(r) ==
  /\ r \in [Policies -> Stats] /\ r[activePolicy] = activeSampled
  /\ \A p \in Policies \ {activePolicy} :
       \/ r[p] = arms[p].stats
       \/ migration.migrating /\ r[p] = NoCount
  /\ \A p \in Policies :
       IF activePolicy' # activePolicy /\ p \in {activePolicy, activePolicy'}
       THEN /\ tenureStats'[p] = NoStats
            /\ duty'[p] = IF p = activePolicy THEN NoCount ELSE Uncounted
       ELSE /\ tenureStats'[p] = Tenured(r)[p]
            /\ duty'[p] = duty[p]

\* An epoch that reports moves the counts into the tenure.
LEMMA AdviceReported ==
  ASSUME RolesInv, UNCHANGED strategy, activePolicy' \in Policies,
         NEW r, Reckoned(r), Uncounted' = Uncounted, activeSampled' = NoCount,
         \A p \in Policies : arms'[p].stats = NoCount
  PROVE  AdviceIsOfThisRole'
<1>1. \A p \in Policies : Faithful(p, Plus(Measured(p), Gathered(p)), duty[p])
  BY AdviceUnfolded DEF RolesInv
<1>2. migration.migrating => strategy = "gradual"
  BY DEF RolesInv, WindowIsYoung
<1>3. activePolicy \in Policies /\ tenureStats \in [Policies -> Stats \cup {NoStats}]
  BY DEF RolesInv, Inv, TypeOK
<1>4. Uncounted \in Stats /\ activeSampled \in Stats
  BY GatheredTypes DEF RolesInv
<1>5. \A p \in Policies : Gathered(p)' = IF p = activePolicy' THEN Uncounted ELSE NoCount
  BY <1>4, PairFacts DEF Gathered
<1>6. ASSUME NEW p \in Policies
      PROVE  /\ Below(Plus(Measured(p)', Gathered(p)'), duty'[p])
             /\ p = activePolicy' \/ strategy' # "gradual" =>
                  Plus(Measured(p)', Gathered(p)') = duty'[p]
  <2>1. CASE activePolicy' # activePolicy /\ p \in {activePolicy, activePolicy'}
    <3>1. Measured(p)' = NoCount
      BY <2>1 DEF Reckoned, Measured, AdviceReports
    <3>2. Gathered(p)' = duty'[p] /\ duty'[p] \in Stats
      BY <1>4, <1>5, <2>1, CountFacts DEF Reckoned
    <3>3. Plus(Measured(p)', Gathered(p)') = duty'[p]
      BY <3>1, <3>2, PairFacts
    <3> QED
      BY <3>2, <3>3, PairFacts
  <2>2. CASE ~(activePolicy' # activePolicy /\ p \in {activePolicy, activePolicy'})
    <3> DEFINE m == Measured(p)
               c == r[p]
    <3>1. /\ m \in Stats /\ c \in Stats /\ duty[p] \in Stats /\ arms[p].stats \in Stats
          /\ Plus(m, c) \in Stats
      BY GatheredTypes, CountFacts DEF RolesInv, Reckoned
    <3>2. Measured(p)' = Plus(m, c)
      <4>1. tenureStats'[p] = IF tenureStats[p] = NoStats THEN c ELSE Plus(tenureStats[p], c)
        BY <2>2 DEF Reckoned, Tenured
      <4>2. m = IF tenureStats[p] = NoStats THEN NoCount ELSE tenureStats[p]
        BY DEF Measured, AdviceReports
      <4> HIDE DEF m, c
      <4>3. tenureStats'[p] = Plus(m, c)
        BY <3>1, <4>1, <4>2, PairFacts
      <4>4. tenureStats'[p] # NoStats
        BY <3>1, <4>3, PairFacts
      <4> QED
        BY <4>3, <4>4 DEF Measured, AdviceReports
    <3>3. duty'[p] = duty[p] /\ (p = activePolicy' <=> p = activePolicy)
      BY <2>2 DEF Reckoned
    <3>4. /\ Below(Plus(m, Gathered(p)), duty[p])
          /\ p = activePolicy \/ strategy # "gradual" => Plus(m, Gathered(p)) = duty[p]
      BY <1>1 DEF Faithful
    <3>5. \/ Plus(Measured(p)', Gathered(p)') = Plus(m, Gathered(p))
          \/ /\ p # activePolicy /\ strategy = "gradual"
             /\ Plus(Measured(p)', Gathered(p)') = m
      <4>1. CASE p = activePolicy
        <5>1. Gathered(p) = Plus(c, Uncounted) /\ Gathered(p)' = Uncounted
          BY <1>5, <3>3, <4>1 DEF Gathered, Reckoned
        <5> HIDE DEF m, c
        <5> QED
          BY <1>4, <3>1, <3>2, <5>1, PairFacts
      <4>2. CASE p # activePolicy /\ c = arms[p].stats
        <5>1. Gathered(p) = c /\ Gathered(p)' = NoCount
          BY <1>5, <3>3, <4>2 DEF Gathered
        <5> HIDE DEF m, c
        <5> QED
          BY <3>1, <3>2, <5>1, PairFacts
      <4>3. CASE p # activePolicy /\ migration.migrating /\ c = NoCount
        <5>1. Gathered(p)' = NoCount
          BY <1>5, <3>3, <4>3
        <5> HIDE DEF m, c
        <5> QED
          BY <1>2, <3>1, <3>2, <4>3, <5>1, PairFacts
      <4> QED
        BY <4>1, <4>2, <4>3 DEF Reckoned
    <3>6. Below(m, duty[p])
      <4>1. Gathered(p) \in Stats
        BY GatheredTypes DEF RolesInv
      <4> HIDE DEF m
      <4> QED
        BY <3>1, <3>4, <4>1, PairFacts
    <3> HIDE DEF m, c
    <3> QED
      BY <3>3, <3>4, <3>5, <3>6
  <2> QED
    BY <2>1, <2>2
<1> QED
  BY <1>6, AdviceUnfoldedNext

\* What of the state the window's age and the capacities depend on.
Aged == UNCHANGED <<strategy, activePolicy, nominalCap, shadowCap,
                    lastSwitchEpoch, epochID>>

\* The fast path of Get.
LEMMA GetFastRoles ==
  ASSUME RolesInv, Inv', NEW t \in Threads, NEW k \in Keys, GetFast(t, k),
         UNCHANGED strategy
  PROVE  RolesInv'
<1>1. /\ activePolicy \in Policies /\ arms \in ArmMap /\ Stage(arms, migration)
      /\ pc \in [Threads -> {"idle", "hit", "miss", "slow", "count", "cross", "epoch"}]
      /\ activeSampled \in Stats /\ carried \in Nat
      /\ \A p \in Policies : arms[p].stats \in Stats
  BY ArmFacts DEF RolesInv, Inv, TypeOK
<1>2. /\ Aged /\ migration' = migration
      /\ activeSampled' = activeSampled /\ carried' = carried
  BY DEF GetFast, Aged, statVars, epochVars
<1> DEFINE s == ShadowGets(k)
<1>3. /\ Stage(s, migration)
      /\ \A p \in Policies \ {activePolicy} :
           IF k \in Sampled
           THEN \E hit \in BOOLEAN : s[p].stats = Counted(arms[p].stats, hit)
           ELSE s[p].stats = arms[p].stats
      /\ \A p \in Policies \ {activePolicy} :
           k \in Sampled => s[p].stats = Counted(arms[p].stats, arms[p].data[k] # None)
  BY <1>1, ShadowGetsStage
<1>4. arms' = Put(s, activePolicy, Lookup(s[activePolicy], k))
  BY DEF GetFast
<1> HIDE DEF s
<1>5. /\ Stage(arms', migration)
      /\ \A p \in Policies \ {activePolicy} : arms'[p] = s[p]
  <2>1. activePolicy \in Policies /\ Stage(s, migration)
    BY <1>1, <1>3
  <2>2. Stage(arms', migration)
    BY <1>4, <2>1, LookupStage, ZenonT(30)
  <2>3. \A p \in Policies \ {activePolicy} : arms'[p] = s[p]
    BY <1>4 DEF Put
  <2> QED
    BY <2>2, <2>3
<1>6. Stage(arms, migration)' /\ WindowIsYoung'
  BY <1>2, <1>5 DEF Aged, Stage, WindowIsYoung, RolesInv
<1>7. Cardinality(InFlight)' = Cardinality(InFlight) + (IF k \in Sampled THEN 1 ELSE 0)
  <2>1. t \notin InFlight /\ InFlight' = IF k \in Sampled THEN InFlight \cup {t} ELSE InFlight
    BY <1>1 DEF GetFast, InFlight, Counting
  <2> QED
    BY <2>1, InFlightCount, InFlightFinite
<1>8. Expected' = Expected + (IF k \in Sampled THEN 1 ELSE 0)
  BY <1>1, <1>2, <1>7, InFlightFinite, TotalFacts DEF Expected
<1>9. \A p \in Policies \ {activePolicy} :
        Total(arms'[p].stats) = Total(arms[p].stats) + (IF k \in Sampled THEN 1 ELSE 0)
  <2> SUFFICES ASSUME NEW p \in Policies \ {activePolicy}
               PROVE  Total(arms'[p].stats) =
                        Total(arms[p].stats) + (IF k \in Sampled THEN 1 ELSE 0)
    OBVIOUS
  <2>1. arms[p].stats \in Stats /\ arms'[p] = s[p]
    BY <1>1, <1>5
  <2>2. CASE k \in Sampled
    BY <1>3, <2>1, <2>2, TotalFacts
  <2>3. CASE k \notin Sampled
    BY <1>3, <2>1, <2>3, TotalFacts
  <2> QED
    BY <2>2, <2>3
<1>10. Expected \in Int /\ \A p \in Policies : Total(arms[p].stats) \in Nat
  BY <1>1, InFlightFinite, TotalFacts DEF Expected
<1>11. EvidenceBalance' /\ Expected' >= 0
  <2>1. /\ Expected >= 0
        /\ \A p \in Policies \ {activePolicy} :
             /\ Total(arms[p].stats) <= Expected
             /\ strategy # "gradual" => Total(arms[p].stats) = Expected
    BY DEF RolesInv, EvidenceBalance, Expected
  <2>2. \A p \in Policies \ {activePolicy} :
          /\ Total(arms'[p].stats) <= Expected'
          /\ strategy # "gradual" => Total(arms'[p].stats) = Expected'
    BY <1>8, <1>9, <1>10, <2>1
  <2>3. Expected' >= 0
    BY <1>8, <1>10, <2>1
  <2> QED
    BY <1>2, <2>2, <2>3 DEF EvidenceBalance, Expected, Aged
<1>12. AdviceIsOfThisRole'
  <2> DEFINE hits == [p \in Policies |-> arms[p].data[k] # None]
             hit  == arms[activePolicy].data[k] # None
  <2>1. /\ hits \in [Policies -> BOOLEAN] /\ hit \in BOOLEAN
        /\ hits[activePolicy] = hit
        /\ \A p \in Policies : hits[p] = (arms[p].data[k] # None)
    BY <1>1
  <2>2. \A p \in Policies :
          duty'[p] = IF k \in Sampled THEN Counted(duty[p], hits[p]) ELSE duty[p]
    BY DEF GetFast, Answered
  <2>3. UNCHANGED <<strategy, activePolicy, tenureStats, activeSampled>>
    BY DEF GetFast, statVars
  <2>4. pc[t] = "idle" /\ pc' = [pc EXCEPT ![t] = IF k \notin Sampled THEN Counting
                                                  ELSE IF hit THEN "hit" ELSE "miss"]
    BY DEF GetFast
  <2> HIDE DEF hits, hit
  <2>5. Uncounted' = IF k \in Sampled THEN Counted(Uncounted, hit) ELSE Uncounted
    <3>1. CASE k \in Sampled
      <4>1. pc' = [pc EXCEPT ![t] = IF hit THEN "hit" ELSE "miss"]
        BY <2>4, <3>1
      <4> QED
        BY <1>1, <2>1, <2>4, <3>1, <4>1, UncountedSteps
    <3>2. CASE k \notin Sampled
      <4>1. pc' = [pc EXCEPT ![t] = Counting] /\ Counting \notin {"hit", "miss"}
        BY <2>4, <3>2 DEF Counting
      <4> QED
        BY <1>1, <2>4, <3>2, <4>1, UncountedSteps
    <3> QED
      BY <3>1, <3>2
  <2>6. Plus(activeSampled', Uncounted') =
          IF k \in Sampled THEN Counted(Plus(activeSampled, Uncounted), hit)
          ELSE Plus(activeSampled, Uncounted)
    BY <1>1, <2>1, <2>3, <2>5, UncountedType, CountOnce
  <2>7. \A p \in Policies \ {activePolicy} :
          arms'[p].stats = IF k \in Sampled THEN Counted(arms[p].stats, hits[p])
                           ELSE arms[p].stats
    BY <1>3, <1>5, <2>1
  <2>8. (k \in Sampled) \in BOOLEAN
    OBVIOUS
  <2> QED
    BY <2>1, <2>2, <2>3, <2>6, <2>7, <2>8, AdviceCounts
<1> QED
  BY <1>2, <1>6, <1>11, <1>12 DEF RolesInv, Aged

\* Steps of a Get outside the lock: a result that is counted is no longer in
\* flight.
LEMMA ThreadStepRoles ==
  ASSUME RolesInv, Inv', NEW t \in Threads, UNCHANGED strategy,
         \/ \E k \in Keys : GetBlocked(t, k)
         \/ RecordSample(t) \/ CountRequest(t) \/ SubtractLimit(t)
  PROVE  RolesInv'
<1>1. /\ pc \in [Threads -> {"idle", "hit", "miss", "slow", "count", "cross", "epoch"}]
      /\ activeSampled \in Stats /\ carried \in Nat
  BY DEF RolesInv, Inv, TypeOK
<1>2. Aged /\ UNCHANGED <<arms, migration, carried>>
  BY DEF Aged, GetBlocked, RecordSample, CountRequest, SubtractLimit,
         armVars, statVars, epochVars
<1>3. Expected' = Expected
  <2>1. CASE RecordSample(t)
    <3>1. t \in InFlight /\ InFlight' = InFlight \ {t}
      BY <1>1, <2>1 DEF RecordSample, InFlight, Counting
    <3>2. Cardinality(InFlight)' = Cardinality(InFlight) - 1
      BY <3>1, InFlightCount
    <3>3. \E hit \in BOOLEAN : activeSampled' = Counted(activeSampled, hit)
      BY <2>1 DEF RecordSample
    <3>4. Total(activeSampled)' = Total(activeSampled) + 1
      BY <1>1, <3>3, TotalFacts
    <3> QED
      BY <1>1, <1>2, <3>2, <3>4, InFlightFinite, TotalFacts DEF Expected
  <2>2. CASE ~RecordSample(t)
    <3>1. InFlight' = InFlight /\ activeSampled' = activeSampled
      BY <1>1, <2>2 DEF GetBlocked, CountRequest, SubtractLimit, InFlight, statVars
    <3> QED
      BY <1>2, <3>1 DEF Expected
  <2> QED
    BY <2>1, <2>2
<1>4. Stage(arms, migration)' /\ WindowIsYoung'
  BY <1>2 DEF RolesInv, Stage, Aged, WindowIsYoung
<1>5. EvidenceBalance'
  <2>1. \A p \in Policies \ {activePolicy} :
             /\ Total(arms[p].stats) <= Expected
             /\ strategy # "gradual" => Total(arms[p].stats) = Expected
    BY DEF RolesInv, EvidenceBalance, Expected
  <2>2. \A p \in Policies \ {activePolicy'} :
             /\ Total(arms'[p].stats) <= Expected'
             /\ strategy' # "gradual" => Total(arms'[p].stats) = Expected'
    BY <1>2, <1>3, <2>1 DEF Aged
  <2> QED
    BY <2>2 DEF EvidenceBalance, Expected
<1>6. AdviceIsOfThisRole'
  <2>1. UNCHANGED <<strategy, activePolicy, tenureStats, duty, arms>>
    BY DEF GetBlocked, RecordSample, CountRequest, SubtractLimit, armVars, statVars
  <2>2. Plus(activeSampled', Uncounted') = Plus(activeSampled, Uncounted)
    <3>1. CASE RecordSample(t)
      <4>1. /\ pc[t] \in {"hit", "miss"} /\ pc' = [pc EXCEPT ![t] = Counting]
            /\ Counting \notin {"hit", "miss"}
            /\ activeSampled' = Counted(activeSampled, pc[t] = "hit")
        BY <3>1 DEF RecordSample, Counting
      <4> DEFINE hit == pc[t] = "hit"
      <4>2. hit \in BOOLEAN /\ Uncounted = Counted(Uncounted', hit)
        BY <1>1, <4>1, UncountedSteps
      <4>3. activeSampled' = Counted(activeSampled, hit)
        BY <4>1
      <4> HIDE DEF hit
      <4> DEFINE u == Uncounted'
      <4>4. u \in Stats
        BY UncountedTypeNext
      <4>5. Uncounted = Counted(u, hit) /\ Uncounted' = u
        BY <4>2
      <4> HIDE DEF u
      <4>6. Plus(Counted(activeSampled, hit), u) = Plus(activeSampled, Counted(u, hit))
        BY <1>1, <4>2, <4>4 DEF Plus, Counted, Stats
      <4> QED
        BY <4>3, <4>5, <4>6
    <3>2. CASE ~RecordSample(t)
      <4>1. activeSampled' = activeSampled
        BY <3>2 DEF GetBlocked, CountRequest, SubtractLimit, statVars
      <4>2. PICK x : /\ pc' = [pc EXCEPT ![t] = x] /\ x \notin {"hit", "miss"}
                     /\ pc[t] \notin {"hit", "miss"}
        BY <3>2 DEF GetBlocked, CountRequest, SubtractLimit
      <4> QED
        BY <1>1, <4>1, <4>2, UncountedSteps
    <3> QED
      BY <3>1, <3>2
  <2> QED
    BY <2>1, <2>2, AdviceKept
<1> QED
  BY <1>2, <1>3, <1>4, <1>5, <1>6 DEF RolesInv, Aged

\* The slow path of Get.
LEMMA GetSlowRoles ==
  ASSUME RolesInv, Inv', NEW t \in Threads, GetSlow(t), UNCHANGED strategy
  PROVE  RolesInv'
<1>0. PICK k \in Keys : k = want[t]
  BY DEF RolesInv, Inv, WaitingHasKey, GetSlow
<1> DEFINE s == ShadowGets(k)
<1>1. /\ activePolicy \in Policies /\ arms \in ArmMap /\ Stage(arms, migration)
      /\ Sized(nominalCap, shadowCap)
      /\ pc \in [Threads -> {"idle", "hit", "miss", "slow", "count", "cross", "epoch"}]
      /\ activeSampled \in Stats /\ carried \in Nat
      /\ \A p \in Policies : arms[p].stats \in Stats
  BY ArmFacts DEF RolesInv, Inv, TypeOK
<1>2. Aged /\ carried' = carried
  BY DEF GetSlow, Aged, epochVars
<1>3. /\ Stage(s, migration)
      /\ \A p \in Policies \ {activePolicy} :
           IF k \in Sampled
           THEN \E hit \in BOOLEAN : s[p].stats = Counted(arms[p].stats, hit)
           ELSE s[p].stats = arms[p].stats
      /\ \A p \in Policies \ {activePolicy} :
           k \in Sampled => s[p].stats = Counted(arms[p].stats, arms[p].data[k] # None)
  BY <1>1, ShadowGetsStage
<1>4. PICK o : /\ o \in IF migration.migrating THEN PromoteKey(s, migration, k)
                        ELSE {After(s, migration)}
               /\ arms' = Put(o.arms, activePolicy, Lookup(o.arms[activePolicy], k))
               /\ migration' = o.migration
               /\ duty' = Answered(k, o.arms[activePolicy].data[k] # None)
               /\ activeSampled' =
                    IF k \in Sampled
                    THEN Counted(activeSampled, o.arms[activePolicy].data[k] # None)
                    ELSE activeSampled
  BY <1>0 DEF GetSlow
<1>5. InFlight' = InFlight
  BY <1>1 DEF GetSlow, InFlight, Counting
<1> HIDE DEF s
<1>6. Serves(s, migration, o)
  <2>1. CASE migration.migrating
    BY <1>1, <1>3, <1>4, <2>1, PromoteServes
  <2>2. CASE ~migration.migrating
    <3>1. o.arms = s /\ o.migration = migration
      BY <1>4, <2>2 DEF After
    <3> QED
      BY <1>3, <2>2, <3>1 DEF Serves
  <2> QED
    BY <2>1, <2>2
<1>7. /\ Stage(arms', migration')
      /\ \A p \in Policies \ {activePolicy} : arms'[p] = o.arms[p]
  <2>1. Stage(o.arms, o.migration)
    BY <1>6 DEF Serves
  <2>2. /\ activePolicy \in Policies
        /\ arms' = Put(o.arms, activePolicy, Lookup(o.arms[activePolicy], k))
    BY <1>1, <1>4
  <2>3. Stage(arms', o.migration)
    BY <2>1, <2>2, LookupStage, ZenonT(30)
  <2>4. \A p \in Policies \ {activePolicy} : arms'[p] = o.arms[p]
    BY <2>2 DEF Put
  <2> QED
    BY <1>4, <2>3, <2>4
<1>8. Stage(arms, migration)' /\ WindowIsYoung'
  BY <1>2, <1>4, <1>6, <1>7 DEF Aged, Stage, Serves, WindowIsYoung, RolesInv
<1>9. Expected' = Expected + (IF k \in Sampled THEN 1 ELSE 0)
  <2>1. Total(activeSampled)' = Total(activeSampled) + (IF k \in Sampled THEN 1 ELSE 0)
    <3> DEFINE hit == o.arms[activePolicy].data[k] # None
    <3>1. /\ hit \in BOOLEAN
          /\ activeSampled' = IF k \in Sampled THEN Counted(activeSampled, hit)
                             ELSE activeSampled
      BY <1>4
    <3> HIDE DEF hit
    <3>2. Total(Counted(activeSampled, hit)) = Total(activeSampled) + 1
      BY <1>1, <3>1, TotalFacts
    <3>3. Total(activeSampled) \in Nat
      BY <1>1, TotalFacts
    <3> QED
      BY <3>1, <3>2, <3>3
  <2> QED
    BY <1>1, <1>2, <1>5, <2>1, InFlightFinite, TotalFacts DEF Expected
<1>10. Expected \in Int /\ \A p \in Policies : Total(arms[p].stats) \in Nat
  BY <1>1, InFlightFinite, TotalFacts DEF Expected
<1>11. \A p \in Policies \ {activePolicy} :
         \/ Total(arms'[p].stats) = Total(arms[p].stats) + (IF k \in Sampled THEN 1 ELSE 0)
         \/ migration.migrating /\ Total(arms'[p].stats) = 0
  <2> SUFFICES ASSUME NEW p \in Policies \ {activePolicy}
               PROVE  \/ Total(arms'[p].stats) =
                           Total(arms[p].stats) + (IF k \in Sampled THEN 1 ELSE 0)
                      \/ migration.migrating /\ Total(arms'[p].stats) = 0
    OBVIOUS
  <2>1. arms[p].stats \in Stats /\ arms'[p] = o.arms[p]
    BY <1>1, <1>7
  <2>2. CASE arms'[p].stats = s[p].stats
    BY <1>3, <2>1, <2>2, TotalFacts
  <2>3. CASE migration.migrating /\ arms'[p].stats = NoCount
    BY <2>3, TotalFacts
  <2> QED
    BY <1>6, <2>1, <2>2, <2>3 DEF Serves
<1>12. EvidenceBalance' /\ Expected' >= 0
  <2>1. /\ Expected >= 0
        /\ migration.migrating => strategy = "gradual"
        /\ \A p \in Policies \ {activePolicy} :
             /\ Total(arms[p].stats) <= Expected
             /\ strategy # "gradual" => Total(arms[p].stats) = Expected
    BY DEF RolesInv, EvidenceBalance, Expected, WindowIsYoung
  <2>2. \A p \in Policies \ {activePolicy} :
          /\ Total(arms'[p].stats) <= Expected'
          /\ strategy # "gradual" => Total(arms'[p].stats) = Expected'
    BY <1>9, <1>10, <1>11, <2>1
  <2>3. Expected' >= 0
    BY <1>9, <1>10, <2>1
  <2> QED
    BY <1>2, <2>2, <2>3 DEF EvidenceBalance, Expected, Aged
<1>13. AdviceIsOfThisRole'
  <2> DEFINE hit  == o.arms[activePolicy].data[k] # None
             hits == [p \in Policies |-> IF p = activePolicy THEN hit
                                         ELSE arms[p].data[k] # None]
  <2>1. /\ hits \in [Policies -> BOOLEAN] /\ hit \in BOOLEAN
        /\ hits[activePolicy] = hit
        /\ \A p \in Policies \ {activePolicy} : hits[p] = (arms[p].data[k] # None)
    BY <1>1
  <2>2. /\ \A p \in Policies :
             duty'[p] = IF k \in Sampled THEN Counted(duty[p], hits[p]) ELSE duty[p]
        /\ activeSampled' = IF k \in Sampled THEN Counted(activeSampled, hit)
                            ELSE activeSampled
    BY <1>4 DEF Answered
  <2> HIDE DEF hits, hit
  <2>3. UNCHANGED <<strategy, activePolicy, tenureStats>>
    BY DEF GetSlow
  <2>4. Uncounted' = Uncounted
    <3>1. /\ pc[t] = "slow" /\ pc' = [pc EXCEPT ![t] = Counting]
          /\ Counting \notin {"hit", "miss"}
      BY DEF GetSlow, Counting
    <3> QED
      BY <1>1, <3>1, UncountedSteps
  <2>5. Uncounted \in Stats
    BY UncountedType
  <2>6. Plus(Counted(activeSampled, hit), Uncounted) =
          Counted(Plus(activeSampled, Uncounted), hit)
    BY <1>1, <2>1, <2>5 DEF Plus, Counted, Stats
  <2>7. Plus(activeSampled', Uncounted') =
          IF k \in Sampled THEN Counted(Plus(activeSampled, Uncounted), hit)
          ELSE Plus(activeSampled, Uncounted)
    BY <2>2, <2>4, <2>6
  <2>8. \A p \in Policies \ {activePolicy} :
          \/ arms'[p].stats = IF k \in Sampled THEN Counted(arms[p].stats, hits[p])
                              ELSE arms[p].stats
          \/ migration.migrating /\ arms'[p].stats = NoCount
    BY <1>3, <1>6, <1>7, <2>1 DEF Serves
  <2>9. (k \in Sampled) \in BOOLEAN
    OBVIOUS
  <2> QED
    BY <2>1, <2>2, <2>3, <2>7, <2>8, <2>9, AdviceCounts
<1> QED
  BY <1>2, <1>8, <1>12, <1>13 DEF RolesInv, Aged

----------------------------------------------------------------------------
(* Operations on the contents *)

\* An operation on the contents that leaves every arm in its role, and whose
\* counters change only by demoting the source of a window.
LEMMA ContentsRoles ==
  ASSUME RolesInv, Inv', Untouched, UNCHANGED strategy,
         Sized(nominalCap', shadowCap'),
         Stage(arms, migration)',
         migration'.migrating => migration.migrating /\ migration'.realKeys # {},
         \A p \in Policies \ {activePolicy} :
           \/ arms'[p].stats = arms[p].stats
           \/ migration.migrating /\ arms'[p].stats = NoCount
  PROVE  RolesInv'
<1>1. WindowIsYoung' /\ lastSwitchEpoch' <= epochID'
  BY DEF RolesInv, WindowIsYoung, Untouched
<1>2. Expected' = Expected
  BY DEF Expected, InFlight, Untouched
<1>3. EvidenceBalance'
  <2>1. /\ Expected >= 0
        /\ migration.migrating => strategy = "gradual"
        /\ \A p \in Policies \ {activePolicy} :
             /\ Total(arms[p].stats) <= Expected
             /\ strategy # "gradual" => Total(arms[p].stats) = Expected
    BY DEF RolesInv, EvidenceBalance, Expected, WindowIsYoung
  <2>2. \A p \in Policies \ {activePolicy} :
          /\ Total(arms'[p].stats) <= Expected
          /\ strategy # "gradual" => Total(arms'[p].stats) = Expected
    BY <2>1, TotalFacts
  <2>3. activePolicy' = activePolicy
    BY DEF Untouched
  <2> QED
    BY <1>2, <2>2, <2>3 DEF EvidenceBalance, Expected
<1>4. AdviceIsOfThisRole'
  <2>1. /\ UNCHANGED <<strategy, activePolicy, tenureStats, duty>>
        /\ activeSampled' = activeSampled /\ Uncounted' = Uncounted
    BY DEF Untouched, Uncounted
  <2> QED
    BY <2>1, AdviceKept
<1> QED
  BY <1>1, <1>2, <1>3, <1>4 DEF RolesInv

\* The same for an operation of the window that is followed by a change of the
\* active arm's contents.
LEMMA ServedRoles ==
  ASSUME RolesInv, Inv', Untouched, UNCHANGED <<strategy, nominalCap, shadowCap>>,
         NEW s, NEW o, Serves(s, migration, o),
         \A p \in Policies \ {activePolicy} : s[p].stats = arms[p].stats,
         NEW a \in Arms, a.cap = o.arms[activePolicy].cap, Fits(a),
         arms' = Put(o.arms, activePolicy, a), migration' = o.migration
  PROVE  RolesInv'
<1>1. /\ activePolicy \in Policies /\ Sized(nominalCap, shadowCap)
  BY DEF RolesInv, Inv, TypeOK
<1>2. Stage(o.arms, o.migration) /\ o.arms \in ArmMap
  BY DEF Serves, Stage
<1>3. OnDuty(activePolicy, o.migration, activePolicy)
  BY DEF OnDuty
<1>4. Stage(Put(o.arms, activePolicy, a), o.migration)
  BY <1>1, <1>2, <1>3, PutStage
<1>5. Stage(arms, migration)'
  BY <1>4 DEF Stage, Untouched
<1>6. \A p \in Policies \ {activePolicy} : arms'[p] = o.arms[p]
  BY <1>1, <1>2 DEF Put
<1>7. \A p \in Policies \ {activePolicy} :
           \/ arms'[p].stats = arms[p].stats
           \/ migration.migrating /\ arms'[p].stats = NoCount
  BY <1>6 DEF Serves
<1>8. migration'.migrating => migration.migrating /\ migration'.realKeys # {}
  BY DEF Serves
<1> QED
  BY <1>1, <1>5, <1>7, <1>8, ContentsRoles

\* The shadow pass of Add keeps the roles: a shadow gets zero values, for sampled
\* keys only.
LEMMA ShadowAddsStage ==
  ASSUME activePolicy \in Policies, NEW m, Stage(arms, m), NEW k \in Keys,
         NEW s \in ShadowAdds(k)
  PROVE  Stage(s, m) /\ \A p \in Policies \ {activePolicy} : s[p].stats = arms[p].stats
<1>1. \A p \in Policies :
        s[p] \in IF p # activePolicy /\ k \in Sampled
                 THEN Adds(p, arms[p], k, Zero) ELSE {arms[p]}
  BY DEF ShadowAdds, Choices
<1>2. s \in ArmMap
  BY ShadowAddsFacts DEF Stage
<1>3. ASSUME NEW p \in Policies
      PROVE  /\ s[p].stats = arms[p].stats /\ s[p].cap = arms[p].cap
             /\ Fits(s[p]) /\ (Blank(arms[p]) => Blank(s[p]))
  <2>1. arms[p] \in Arms /\ Fits(arms[p])
    BY DEF Stage, Cast
  <2>2. CASE p # activePolicy /\ k \in Sampled
    <3>1. s[p] \in Adds(p, arms[p], k, Zero) /\ Zero \in Values \cup {Zero, None}
      BY <1>1, <2>2
    <3>2. s[p].cap = arms[p].cap /\ Fits(s[p])
      BY <2>1, <3>1, AddsFits
    <3>3. /\ s[p].stats = arms[p].stats /\ s[p].data[k] \in {None, Zero}
          /\ \A j \in Keys : j # k => s[p].data[j] \in {None, arms[p].data[j]}
      BY <2>1, <3>1, AddsFacts
    <3>4. Blank(arms[p]) => Blank(s[p])
      BY <2>2, <3>3 DEF Blank
    <3> QED
      BY <3>2, <3>3, <3>4
  <2>3. CASE ~(p # activePolicy /\ k \in Sampled)
    BY <1>1, <2>1, <2>3
  <2> QED
    BY <2>2, <2>3
<1>4. Cast(activePolicy, s, m, nominalCap, shadowCap)
  BY <1>3 DEF Stage, Cast
<1> QED
  BY <1>2, <1>3, <1>4 DEF Stage

\* Add.
LEMMA AddRoles ==
  ASSUME RolesInv, Inv', NEW k \in Keys, NEW v \in Values, Add(k, v),
         UNCHANGED strategy
  PROVE  RolesInv'
<1>1. /\ activePolicy \in Policies /\ Stage(arms, migration)
      /\ Sized(nominalCap, shadowCap)
      /\ migration.migrating => migration.realKeys # {}
  BY DEF RolesInv, Inv, TypeOK, WindowIsYoung
<1>2. PICK s \in ShadowAdds(k) : \E o \in MigrateOnAdd(s, migration, k) :
        \E a \in Adds(activePolicy, o.arms[activePolicy], k, v) :
          arms' = Put(o.arms, activePolicy, a) /\ migration' = o.migration
  BY DEF Add
<1>3. PICK o \in MigrateOnAdd(s, migration, k) :
        \E a \in Adds(activePolicy, o.arms[activePolicy], k, v) :
          arms' = Put(o.arms, activePolicy, a) /\ migration' = o.migration
  BY <1>2
<1>4. PICK a \in Adds(activePolicy, o.arms[activePolicy], k, v) :
          arms' = Put(o.arms, activePolicy, a) /\ migration' = o.migration
  BY <1>3
<1>5. /\ Stage(s, migration)
      /\ \A p \in Policies \ {activePolicy} : s[p].stats = arms[p].stats
  BY <1>1, ShadowAddsStage
<1>6. Serves(s, migration, o)
  BY <1>1, <1>5, MigrateOnAddServes
<1>7. o.arms[activePolicy] \in Arms /\ Fits(o.arms[activePolicy])
  BY <1>1, <1>6 DEF Serves, Stage, Cast
<1>8. a \in Arms /\ a.cap = o.arms[activePolicy].cap /\ Fits(a)
  <2>1. v \in Values \cup {Zero, None}
    OBVIOUS
  <2> QED
    BY <1>1, <1>7, <2>1, AddsFacts, AddsFits
<1>9. Untouched /\ UNCHANGED <<nominalCap, shadowCap>>
  BY DEF Add, Untouched, statVars, epochVars, threadVars
<1> QED
  BY <1>4, <1>5, <1>6, <1>8, <1>9, ServedRoles

\* Dropping a key from an arm.
LEMMA DroppedFits ==
  ASSUME NEW k \in Keys, NEW a \in Arms, Fits(a)
  PROVE  /\ Dropped(a, k) \in Arms /\ Dropped(a, k).cap = a.cap
         /\ Dropped(a, k).stats = a.stats
         /\ Fits(Dropped(a, k)) /\ (Blank(a) => Blank(Dropped(a, k)))
<1> DEFINE b == Dropped(a, k)
<1>1. b \in Arms /\ b.cap = a.cap /\ b.stats = a.stats
  BY DEF Dropped, Arms, Without
<1>2. \A j \in Keys : b.data[j] \in {None, a.data[j]}
  BY DroppedFacts
<1> HIDE DEF b
<1>3. Fits(b) /\ (Blank(a) => Blank(b))
  BY <1>1, <1>2, LossFits
<1> QED
  BY <1>1, <1>3 DEF b

\* Remove.
LEMMA RemoveRoles ==
  ASSUME RolesInv, Inv', NEW k \in Keys, Remove(k), UNCHANGED strategy
  PROVE  RolesInv'
<1> DEFINE shadows == [p \in Policies |-> IF p = activePolicy THEN arms[p]
                                          ELSE Dropped(arms[p], k)]
<1>1. /\ activePolicy \in Policies /\ Stage(arms, migration)
      /\ Sized(nominalCap, shadowCap)
  BY DEF RolesInv, Inv, TypeOK
<1>2. ASSUME NEW p \in Policies
      PROVE  /\ shadows[p] \in Arms /\ shadows[p].cap = arms[p].cap
             /\ shadows[p].stats = arms[p].stats
             /\ Fits(shadows[p]) /\ (Blank(arms[p]) => Blank(shadows[p]))
  <2>1. arms[p] \in Arms /\ Fits(arms[p])
    BY <1>1 DEF Stage, Cast
  <2>2. shadows[p] = arms[p] \/ shadows[p] = Dropped(arms[p], k)
    OBVIOUS
  <2> HIDE DEF shadows
  <2> QED
    BY <2>1, <2>2, DroppedFits
<1>3. Stage(shadows, migration)
  <2>1. shadows = [p \in Policies |-> shadows[p]]
    OBVIOUS
  <2> HIDE DEF shadows
  <2>2. shadows \in ArmMap
    BY <1>2, <2>1
  <2>3. Cast(activePolicy, shadows, migration, nominalCap, shadowCap)
    BY <1>1, <1>2 DEF Stage, Cast
  <2> QED
    BY <1>1, <2>2, <2>3 DEF Stage
<1>4. PICK o \in MigrateOnRemove(shadows, migration, k) :
        /\ arms' = Put(o.arms, activePolicy, Dropped(o.arms[activePolicy], k))
        /\ migration' = o.migration
  BY DEF Remove, Dropped
<1> HIDE DEF shadows
<1>5. Serves(shadows, migration, o)
  BY <1>1, <1>3, <1>4, MigrateOnRemoveServes
<1>6. o.arms[activePolicy] \in Arms /\ Fits(o.arms[activePolicy])
  BY <1>1, <1>5 DEF Serves, Stage, Cast
<1>7. PICK a \in Arms : /\ a.cap = o.arms[activePolicy].cap /\ Fits(a)
                        /\ arms' = Put(o.arms, activePolicy, a)
  BY <1>4, <1>6, DroppedFits
<1>8. Untouched /\ UNCHANGED <<nominalCap, shadowCap>>
  BY DEF Remove, Untouched, statVars, epochVars, threadVars
<1> QED
  BY <1>2, <1>4, <1>5, <1>7, <1>8, ServedRoles

\* Purge.
LEMMA PurgeRoles ==
  ASSUME RolesInv, Inv', Purge, UNCHANGED strategy
  PROVE  RolesInv'
<1> DEFINE purged == [p \in Policies |-> [arms[p] EXCEPT !.data = Empty]]
<1>1. /\ activePolicy \in Policies /\ Stage(arms, migration)
      /\ Sized(nominalCap, shadowCap)
  BY DEF RolesInv, Inv, TypeOK
<1>2. ASSUME NEW p \in Policies
      PROVE  /\ purged[p] \in Arms /\ purged[p].cap = arms[p].cap
             /\ purged[p].stats = arms[p].stats
             /\ Fits(purged[p]) /\ Blank(purged[p])
  <2>1. arms[p] \in Arms /\ arms[p].cap \in Nat
    BY <1>1, ArmFacts DEF Stage
  <2>2. Empty \in [Keys -> Values \cup {Zero, None}]
    BY DEF Empty
  <2>3. /\ purged[p] \in Arms /\ purged[p].cap = arms[p].cap
        /\ purged[p].stats = arms[p].stats /\ purged[p].data = Empty
    BY <2>1, <2>2 DEF Arms
  <2> HIDE DEF purged
  <2> QED
    BY <2>1, <2>3, EmptyFacts DEF Fits, Blank, Empty
<1>3. Stage(purged, migration)
  <2>1. purged = [p \in Policies |-> purged[p]]
    OBVIOUS
  <2> HIDE DEF purged
  <2>2. purged \in ArmMap
    BY <1>2, <2>1
  <2>3. Cast(activePolicy, purged, migration, nominalCap, shadowCap)
    BY <1>1, <1>2 DEF Stage, Cast
  <2> QED
    BY <1>1, <2>2, <2>3 DEF Stage
<1>4. PICK o \in CloseMigration(purged, migration) :
        arms' = o.arms /\ migration' = o.migration
  BY DEF Purge
<1> HIDE DEF purged
<1>5. Serves(purged, migration, o)
  BY <1>1, <1>3, CloseServes
<1>6. Untouched /\ UNCHANGED <<nominalCap, shadowCap>>
  BY DEF Purge, Untouched, statVars, epochVars, threadVars
<1>7. Stage(arms, migration)'
  BY <1>4, <1>5, <1>6 DEF Serves, Stage, Untouched
<1>8. /\ migration'.migrating => migration.migrating /\ migration'.realKeys # {}
      /\ \A p \in Policies \ {activePolicy} :
           \/ arms'[p].stats = arms[p].stats
           \/ migration.migrating /\ arms'[p].stats = NoCount
  BY <1>2, <1>4, <1>5 DEF Serves
<1> QED
  BY <1>1, <1>6, <1>7, <1>8, ContentsRoles

\* Resize: the active arm and the source of a window take the new size, the
\* shadows the miniature that goes with it.
LEMMA ResizeRoles ==
  ASSUME RolesInv, Inv', NEW n \in Sizes, Resize(n), UNCHANGED strategy
  PROVE  RolesInv'
<1> DEFINE small == ScaledCapacity(n, EffectiveRate[1], EffectiveRate[2])
<1>1. /\ activePolicy \in Policies /\ Stage(arms, migration)
  BY DEF RolesInv, Inv, TypeOK
<1>2. n \in Nat /\ small \in Nat /\ (n = 0 <=> small = 0)
  BY SizedCapacities
<1>3. nominalCap' = [p \in Policies |-> n] /\ shadowCap' = [p \in Policies |-> small]
  BY DEF Resize
<1>4. \A p \in Policies :
        arms'[p] \in Resizes(arms[p], IF OnDuty(activePolicy, migration, p)
                                      THEN n ELSE small)
  BY DEF Resize, Choices, OnDuty
<1>5. Untouched /\ migration' = migration
  BY DEF Resize, Untouched, statVars, epochVars, threadVars
<1>6. arms' \in ArmMap
  BY DEF Inv, TypeOK
<1> HIDE DEF small
<1>7. ASSUME NEW p \in Policies
      PROVE  /\ arms'[p].stats = arms[p].stats /\ Fits(arms'[p])
             /\ arms'[p].cap = IF OnDuty(activePolicy, migration, p) THEN n ELSE small
             /\ Blank(arms[p]) => Blank(arms'[p])
  <2> DEFINE c == IF OnDuty(activePolicy, migration, p) THEN n ELSE small
  <2>1. c \in Nat /\ arms[p] \in Arms /\ Fits(arms[p])
    BY <1>1, <1>2 DEF Stage, Cast
  <2>2. arms'[p] \in Resizes(arms[p], c)
    BY <1>4
  <2> HIDE DEF c
  <2>3. /\ arms'[p].stats = arms[p].stats /\ arms'[p].cap = c
        /\ \A j \in Keys : arms'[p].data[j] \in {None, arms[p].data[j]}
    BY <2>1, <2>2, ResizesFacts
  <2>4. Fits(arms'[p])
    BY <2>1, <2>2, ResizesFits
  <2>5. Blank(arms[p]) => Blank(arms'[p])
    BY <2>3 DEF Blank
  <2> QED
    BY <2>3, <2>4, <2>5 DEF c
<1>8. Sized(nominalCap', shadowCap')
  BY <1>2, <1>3 DEF Sized
<1>9. Cast(activePolicy, arms', migration, nominalCap', shadowCap')
  BY <1>1, <1>3, <1>7 DEF Stage, Cast
<1>10. Stage(arms, migration)'
  BY <1>1, <1>5, <1>6, <1>9 DEF Stage, Untouched
<1>11. migration'.migrating => migration.migrating /\ migration'.realKeys # {}
  BY <1>5 DEF RolesInv, WindowIsYoung
<1> QED
  BY <1>5, <1>7, <1>8, <1>10, <1>11, ContentsRoles

\* An entry that expires.
LEMMA ExpireRoles ==
  ASSUME RolesInv, Inv', NEW p \in Lossy, NEW k \in Keys, Expire(p, k),
         UNCHANGED strategy
  PROVE  RolesInv'
<1>1. /\ p \in Policies /\ Stage(arms, migration) /\ arms \in ArmMap
      /\ Sized(nominalCap, shadowCap)
  BY PolicyAssumption DEF RolesInv, Stage
<1>2. arms[p] \in Arms /\ Fits(arms[p])
  BY <1>1 DEF Stage, Cast
<1>3. PICK b \in Arms :
        /\ arms' = Put(arms, p, b) /\ b.cap = arms[p].cap /\ b.stats = arms[p].stats
        /\ Fits(b) /\ (Blank(arms[p]) => Blank(b))
  <2>1. arms' = Put(arms, p, Dropped(arms[p], k))
    BY DEF Expire, Dropped
  <2> QED
    BY <1>2, <2>1, DroppedFits
<1>4. ~OnDuty(activePolicy, migration, p) => Blank(b)
  BY <1>1, <1>3 DEF Stage, Cast
<1>5. Stage(Put(arms, p, b), migration)
  BY <1>1, <1>3, <1>4, PutStage
<1>6. Untouched /\ UNCHANGED <<nominalCap, shadowCap, migration>>
  BY DEF Expire, Untouched, statVars, epochVars, threadVars
<1>7. Stage(arms, migration)'
  BY <1>3, <1>5, <1>6 DEF Stage, Untouched
<1>8. \A q \in Policies : arms'[q].stats = arms[q].stats
  BY <1>1, <1>3 DEF Put
<1>9. migration'.migrating => migration.migrating /\ migration'.realKeys # {}
  BY <1>6 DEF RolesInv, WindowIsYoung
<1> QED
  BY <1>1, <1>6, <1>7, <1>8, <1>9, ContentsRoles

----------------------------------------------------------------------------
(* Epochs *)

\* Resetting the counters keeps the roles.
LEMMA ResetStage ==
  ASSUME NEW s \in ArmMap, NEW act, NEW m, Cast(act, s, m, nominalCap, shadowCap)
  PROVE  Cast(act, ResetAll(s), m, nominalCap, shadowCap)
<1>1. \A p \in Policies : /\ ResetAll(s)[p].data = s[p].data
                          /\ ResetAll(s)[p].cap = s[p].cap
  BY DEF ResetAll, Arms
<1> QED
  BY <1>1 DEF Cast, Fits, Blank

\* What an epoch leaves behind.
EpochRoles ==
  /\ UNCHANGED <<nominalCap, shadowCap>>
  /\ Stage(arms, migration)' /\ WindowIsYoung'
  /\ lastSwitchEpoch' <= epochID'
  /\ \/ /\ UNCHANGED <<activePolicy, activeSampled, carried, tenureStats, duty>>
        /\ \A p \in Policies \ {activePolicy} :
             \/ arms'[p].stats = arms[p].stats
             \/ migration.migrating /\ arms'[p].stats = NoCount
     \/ /\ activeSampled' = NoCount /\ carried' = Cardinality(InFlight)
        /\ \A p \in Policies : arms'[p].stats = NoCount
        /\ activePolicy' \in Policies /\ \E r : Reckoned(r)

\* An epoch closes the window first.
LEMMA EpochServes ==
  ASSUME RolesInv, NEW o \in CloseMigration(arms, migration)
  PROVE  /\ Serves(arms, migration, o) /\ o.migration = NoMigration
         /\ o.arms \in ArmMap
         /\ Cast(activePolicy, o.arms, NoMigration, nominalCap, shadowCap)
<1>1. /\ activePolicy \in Policies /\ Stage(arms, migration)
      /\ Sized(nominalCap, shadowCap) /\ shadowCap \in [Policies -> Nat]
      /\ arms \in ArmMap /\ migration \in Windows
  BY DEF RolesInv, Inv, TypeOK
<1>2. Serves(arms, migration, o)
  BY <1>1, CloseServes
<1>3. o.migration = NoMigration
  BY <1>1, CloseFacts
<1> QED
  BY <1>2, <1>3 DEF Serves, Stage

\* What a report says of the arms left by the window's closing.
LEMMA ReportedFacts ==
  ASSUME RolesInv, NEW o, Serves(arms, migration, o)
  PROVE  /\ Reported(o.arms) \in [Policies -> Stats]
         /\ Reported(o.arms)[activePolicy] = activeSampled
         /\ \A p \in Policies \ {activePolicy} :
              \/ Reported(o.arms)[p] = arms[p].stats
              \/ migration.migrating /\ Reported(o.arms)[p] = NoCount
<1>1. activePolicy \in Policies /\ activeSampled \in Stats
  BY DEF RolesInv, Inv, TypeOK
<1>2. o.arms \in ArmMap
  BY DEF Serves, Stage
<1>3. \A p \in Policies : o.arms[p].stats \in Stats
  BY <1>2, ArmFacts
<1> QED
  BY <1>1, <1>3 DEF Reported, Serves

\* An epoch stopped by the capacity gate.
LEMMA EpochSkippedRoles ==
  ASSUME RolesInv, EpochSkipped, UNCHANGED strategy
  PROVE  EpochRoles
<1>1. PICK o \in CloseMigration(arms, migration) :
        arms' = o.arms /\ migration' = o.migration
  BY DEF EpochSkipped
<1>2. Serves(arms, migration, o) /\ o.migration = NoMigration
  BY EpochServes
<1>3. /\ UNCHANGED <<activePolicy, nominalCap, shadowCap, activeSampled, carried,
                     lastSwitchEpoch, tenureStats, duty>>
      /\ epochID' = epochID + 1
  BY DEF EpochSkipped
<1>4. Stage(arms, migration)'
  BY <1>1, <1>2, <1>3 DEF Serves, Stage
<1>5. WindowIsYoung' /\ lastSwitchEpoch' <= epochID'
  BY <1>1, <1>2, <1>3, NoMigrationFacts DEF WindowIsYoung, RolesInv, Inv, TypeOK
<1> QED
  BY <1>1, <1>2, <1>3, <1>4, <1>5 DEF EpochRoles, Serves

\* An epoch that keeps the active policy.
LEMMA EpochHeldRoles ==
  ASSUME RolesInv, NEW choice, EpochHeld(choice), UNCHANGED strategy
  PROVE  EpochRoles
<1>1. PICK o \in CloseMigration(arms, migration) :
        /\ ReportStats(o.arms) /\ tenureStats' = Tenured(Reported(o.arms))
        /\ arms' = ResetAll(o.arms) /\ migration' = o.migration
  BY DEF EpochHeld
<1>2. /\ Serves(arms, migration, o)
      /\ o.migration = NoMigration /\ o.arms \in ArmMap
      /\ Cast(activePolicy, o.arms, NoMigration, nominalCap, shadowCap)
  BY EpochServes
<1>3. /\ UNCHANGED <<activePolicy, nominalCap, shadowCap, lastSwitchEpoch, duty>>
      /\ epochID' = epochID + 1 /\ activePolicy \in Policies
  BY DEF EpochHeld, RolesInv, Inv, TypeOK
<1>4. arms' \in ArmMap /\ \A p \in Policies : arms'[p].stats = NoCount
  BY <1>1, <1>2, ResetFacts
<1>5. Cast(activePolicy, arms', NoMigration, nominalCap, shadowCap)
  BY <1>1, <1>2, ResetStage
<1>6. Stage(arms, migration)'
  BY <1>1, <1>2, <1>3, <1>4, <1>5, NoMigrationFacts DEF Stage
<1>7. WindowIsYoung' /\ lastSwitchEpoch' <= epochID'
  BY <1>1, <1>2, <1>3, NoMigrationFacts DEF WindowIsYoung, RolesInv, Inv, TypeOK
<1>8. Reckoned(Reported(o.arms))
  <2>1. /\ Reported(o.arms) \in [Policies -> Stats]
        /\ Reported(o.arms)[activePolicy] = activeSampled
        /\ \A p \in Policies \ {activePolicy} :
             \/ Reported(o.arms)[p] = arms[p].stats
             \/ migration.migrating /\ Reported(o.arms)[p] = NoCount
    BY <1>2, <1>3, ReportedFacts
  <2> QED
    BY <1>1, <1>3, <2>1 DEF Reckoned
<1> QED
  BY <1>1, <1>3, <1>4, <1>6, <1>7, <1>8 DEF EpochRoles, ReportStats

\* An epoch that switches.
LEMMA EpochSwitchedRoles ==
  ASSUME RolesInv, NEW choice, EpochSwitched(choice), UNCHANGED strategy
  PROVE  EpochRoles
<1>1. PICK o \in CloseMigration(arms, migration) :
        /\ Switches(choice, Reported(o.arms)) /\ ReportStats(o.arms)
        /\ tenureStats' = [Tenured(Reported(o.arms)) EXCEPT
                             ![activePolicy] = NoStats, ![choice] = NoStats]
        /\ \E w \in SwitchLocked(ResetAll(o.arms), activePolicy, choice) :
              arms' = w.arms /\ migration' = w.migration
  BY DEF EpochSwitched, ReportStats
<1>2. /\ Serves(arms, migration, o) /\ o.arms \in ArmMap
      /\ Cast(activePolicy, o.arms, NoMigration, nominalCap, shadowCap)
  BY EpochServes
<1>3. /\ choice \in Policies /\ choice # activePolicy /\ activePolicy \in Policies
      /\ Sized(nominalCap, shadowCap) /\ epochID \in Nat
  BY <1>1 DEF Switches, RolesInv, Inv, TypeOK
<1>4. /\ UNCHANGED <<nominalCap, shadowCap>> /\ activePolicy' = choice
      /\ lastSwitchEpoch' = epochID /\ epochID' = epochID + 1
      /\ duty' = [duty EXCEPT ![activePolicy] = NoCount, ![choice] = Uncounted]
  BY DEF EpochSwitched
<1> DEFINE r == ResetAll(o.arms)
<1>5. /\ r \in ArmMap /\ \A p \in Policies : r[p].stats = NoCount
      /\ Cast(activePolicy, r, NoMigration, nominalCap, shadowCap)
  BY <1>2, ResetFacts, ResetStage
<1>6. PICK w \in SwitchLocked(r, activePolicy, choice) :
        arms' = w.arms /\ migration' = w.migration
  BY <1>1
<1> HIDE DEF r
<1>7. /\ w.arms \in ArmMap
      /\ Cast(choice, w.arms, w.migration, nominalCap, shadowCap)
      /\ Opens(activePolicy, w.migration)
      /\ \A p \in Policies : w.arms[p].stats = NoCount
  BY <1>3, <1>5, <1>6, SwitchCast
<1>8. Stage(arms, migration)'
  <2>1. /\ w.migration \in Windows
        /\ w.migration.migrating => w.migration.from \in Policies \ {choice}
        /\ ~w.migration.migrating => w.migration = NoMigration
        /\ w.migration.realKeys \subseteq w.migration.keys
    BY <1>3, <1>7, NoMigrationFacts DEF Opens
  <2> QED
    BY <1>4, <1>6, <1>7, <2>1 DEF Stage
<1>9. WindowIsYoung' /\ lastSwitchEpoch' <= epochID'
  BY <1>3, <1>4, <1>6, <1>7 DEF WindowIsYoung, Opens
<1>10. Reckoned(Reported(o.arms))
  <2> DEFINE r1 == Reported(o.arms)
  <2>1. /\ r1 \in [Policies -> Stats] /\ r1[activePolicy] = activeSampled
        /\ \A p \in Policies \ {activePolicy} :
             \/ r1[p] = arms[p].stats
             \/ migration.migrating /\ r1[p] = NoCount
    BY <1>2, ReportedFacts
  <2> DEFINE f == Tenured(r1)
  <2>2. f = [p \in Policies |-> f[p]] /\ duty = [p \in Policies |-> duty[p]]
    BY DEF Tenured, RolesInv, Inv, TypeOK
  <2>3. /\ tenureStats' = [f EXCEPT ![activePolicy] = NoStats, ![choice] = NoStats]
    BY <1>1
  <2> HIDE DEF r1, f
  <2>4. \A p \in Policies :
          IF p \in {activePolicy, choice}
          THEN /\ tenureStats'[p] = NoStats
               /\ duty'[p] = IF p = activePolicy THEN NoCount ELSE Uncounted
          ELSE tenureStats'[p] = f[p] /\ duty'[p] = duty[p]
    BY <1>3, <1>4, <2>2, <2>3
  <2>5. Reckoned(r1)
    BY <1>3, <1>4, <2>1, <2>4 DEF Reckoned, f
  <2> QED
    BY <2>5 DEF r1
<1> QED
  BY <1>1, <1>3, <1>4, <1>6, <1>7, <1>8, <1>9, <1>10 DEF EpochRoles, ReportStats

\* An epoch, whoever runs it.
LEMMA RunEpochRoles ==
  ASSUME RolesInv, Inv', RunEpoch, UNCHANGED strategy, InFlight' = InFlight,
         Uncounted' = Uncounted
  PROVE  RolesInv'
<1>1. EpochRoles
  BY EpochSkippedRoles, EpochHeldRoles, EpochSwitchedRoles DEF RunEpoch
<1>2. Cardinality(InFlight) \in Nat
  BY InFlightFinite
<1>3. CASE /\ UNCHANGED <<activePolicy, activeSampled, carried, tenureStats, duty>>
           /\ \A p \in Policies \ {activePolicy} :
                \/ arms'[p].stats = arms[p].stats
                \/ migration.migrating /\ arms'[p].stats = NoCount
  <2>1. Expected' = Expected
    BY <1>3 DEF Expected
  <2>2. /\ Expected >= 0
        /\ migration.migrating => strategy = "gradual"
        /\ \A p \in Policies \ {activePolicy} :
             /\ Total(arms[p].stats) <= Expected
             /\ strategy # "gradual" => Total(arms[p].stats) = Expected
    BY DEF RolesInv, EvidenceBalance, Expected, WindowIsYoung
  <2>3. \A p \in Policies \ {activePolicy} :
          /\ Total(arms'[p].stats) <= Expected
          /\ strategy # "gradual" => Total(arms'[p].stats) = Expected
    BY <1>3, <2>2, TotalFacts
  <2>4. EvidenceBalance'
    BY <1>3, <2>1, <2>3 DEF EvidenceBalance, Expected
  <2>5. AdviceIsOfThisRole'
    BY <1>3, AdviceKept
  <2> QED
    BY <1>1, <2>1, <2>2, <2>4, <2>5 DEF RolesInv, EpochRoles
<1>4. CASE /\ activeSampled' = NoCount /\ carried' = Cardinality(InFlight)
           /\ \A p \in Policies : arms'[p].stats = NoCount
           /\ activePolicy' \in Policies /\ \E r : Reckoned(r)
  <2>1. Expected' = 0
    BY <1>2, <1>4, TotalFacts DEF Expected
  <2>2. EvidenceBalance'
    BY <1>4, <2>1, TotalFacts DEF EvidenceBalance, Expected
  <2>3. AdviceIsOfThisRole'
    BY <1>4, AdviceReported
  <2> QED
    BY <1>1, <2>1, <2>2, <2>3 DEF RolesInv, EpochRoles
<1> QED
  BY <1>1, <1>3, <1>4 DEF EpochRoles

----------------------------------------------------------------------------
(* The theorems about roles *)

\* Every step preserves the invariant of the roles.
LEMMA NextRoles == RolesInv /\ [Next]_vars => RolesInv'
<1> SUFFICES ASSUME RolesInv, [Next]_vars PROVE RolesInv'
  OBVIOUS
<1>1. Inv'
  BY NextInv DEF RolesInv
<1>2. CASE Next
  <2>0. UNCHANGED strategy
    BY <1>2 DEF Next
  <2>1. CASE \E t \in Threads, k \in Keys : GetFast(t, k)
    BY <1>1, <2>0, <2>1, GetFastRoles
  <2>2. CASE \E t \in Threads, k \in Keys : GetBlocked(t, k)
    BY <1>1, <2>0, <2>2, ThreadStepRoles
  <2>3. CASE \E t \in Threads : RecordSample(t) \/ CountRequest(t) \/ SubtractLimit(t)
    BY <1>1, <2>0, <2>3, ThreadStepRoles
  <2>4. CASE \E t \in Threads : GetSlow(t)
    BY <1>1, <2>0, <2>4, GetSlowRoles
  <2>5. CASE \E t \in Threads : RequestEpoch(t)
    <3>1. InFlight' = InFlight /\ Uncounted' = Uncounted /\ RunEpoch
      <4>1. PICK t \in Threads : RequestEpoch(t)
        BY <2>5
      <4>2. /\ pc[t] = "epoch" /\ pc' = [pc EXCEPT ![t] = "idle"] /\ RunEpoch
            /\ pc \in [Threads -> {"idle", "hit", "miss", "slow", "count", "cross", "epoch"}]
        BY <4>1 DEF RequestEpoch, RolesInv, Inv, TypeOK
      <4>3. InFlight' = InFlight
        BY <4>2 DEF InFlight
      <4>4. Uncounted' = Uncounted
        <5>1. pc[t] \notin {"hit", "miss"} /\ "idle" \notin {"hit", "miss"}
          BY <4>2
        <5> QED
          BY <4>2, <5>1, UncountedSteps
      <4> QED
        BY <4>2, <4>3, <4>4
    <3> QED
      BY <1>1, <2>0, <3>1, RunEpochRoles
  <2>6. CASE \E k \in Keys, v \in Values : Add(k, v)
    BY <1>1, <2>0, <2>6, AddRoles
  <2>7. CASE \E k \in Keys : Remove(k)
    BY <1>1, <2>0, <2>7, RemoveRoles
  <2>8. CASE Purge
    BY <1>1, <2>0, <2>8, PurgeRoles
  <2>9. CASE \E n \in Sizes : Resize(n)
    BY <1>1, <2>0, <2>9, ResizeRoles
  <2>10. CASE \E p \in Lossy, k \in Keys : Expire(p, k)
    BY <1>1, <2>0, <2>10, ExpireRoles
  <2>11. CASE Tick
    <3>1. InFlight' = InFlight /\ Uncounted' = Uncounted /\ RunEpoch
      BY <2>11 DEF Tick, InFlight, Uncounted, threadVars
    <3> QED
      BY <1>1, <2>0, <3>1, RunEpochRoles
  <2> QED
    BY <1>2, <2>1, <2>2, <2>3, <2>4, <2>5, <2>6, <2>7, <2>8, <2>9, <2>10, <2>11
    DEF Next, Step
<1>3. CASE UNCHANGED vars
  <2>1. /\ Aged /\ UNCHANGED <<arms, migration, activeSampled, carried>>
        /\ pc' = pc
    BY <1>3 DEF vars, armVars, statVars, epochVars, threadVars, Aged
  <2>2. Expected' = Expected
    BY <2>1 DEF Expected, InFlight
  <2>3. Stage(arms, migration)' /\ WindowIsYoung'
    BY <2>1 DEF RolesInv, Stage, Aged, WindowIsYoung
  <2>4. EvidenceBalance'
    BY <2>1 DEF RolesInv, EvidenceBalance, Aged, InFlight
  <2>5. AdviceIsOfThisRole'
    BY <1>3, <2>1 DEF RolesInv, AdviceIsOfThisRole, Measured, AdviceReports, Uncounted,
                      Aged, vars, statVars
  <2> QED
    BY <1>1, <2>1, <2>2, <2>3, <2>4, <2>5 DEF RolesInv, Aged
<1> QED
  BY <1>2, <1>3

\* The invariant of the roles holds always.
LEMMA RolesHold == Spec => []RolesInv
BY InitRoles, NextRoles, PTL DEF Spec

\* The shadows are the arms not on duty.
LEMMA ShadowsAreOffDuty ==
  \A p \in Policies : p \in Shadows <=> ~OnDuty(activePolicy, migration, p)
BY DEF Shadows, OnDuty

\* A policy on shadow duty never holds a caller's value or an unsampled key, also
\* after it served or fed a window: demoteLocked is always reached in time.
THEOREM ShadowsAreBlank == Spec => []ShadowsHoldNoValues
<1>1. RolesInv => ShadowsHoldNoValues
  <2>1. RolesInv => \A p \in Shadows : p \in Policies /\ Blank(arms[p])
    BY ShadowsAreOffDuty DEF RolesInv, Stage, Cast, Shadows
  <2> QED
    BY <2>1 DEF Blank, ShadowsHoldNoValues
<1> QED
  BY <1>1, RolesHold, PTL

\* Every policy runs at the capacity of its role and within it, through switches,
\* resizes and windows that close late.
THEOREM CapacitiesFit == Spec => []CapacityFollowsRole
<1>1. RolesInv => CapacityFollowsRole
  BY ShadowsAreOffDuty DEF RolesInv, Stage, Cast, Fits, AtMost, CapacityFollowsRole
<1> QED
  BY <1>1, RolesHold, PTL

\* A gradual window lasts one epoch at most, and is open only while a key is left
\* for promoteLocked or drainOneKey to move.
THEOREM WindowsClose == Spec => []WindowIsShort
<1>1. RolesInv => WindowIsShort
  BY DEF RolesInv, Stage, WindowIsYoung, WindowIsShort
<1> QED
  BY <1>1, RolesHold, PTL

\* The bandit compares arms that were measured on the same Gets, up to those in
\* flight at the last report and the reset of a window's source.
THEOREM EvidenceIsBalanced == Spec => []EvidenceBalance
<1>1. RolesInv => EvidenceBalance
  BY DEF RolesInv
<1> QED
  BY <1>1, RolesHold, PTL

----------------------------------------------------------------------------
(* The theorems about switching *)

\* Only an epoch changes the active policy.
LEMMA OnlyEpochsSwitch ==
  ASSUME [Next]_vars, activePolicy' # activePolicy
  PROVE  \E choice \in Policies \cup {Undefined} : EpochSwitched(choice)
<1>1. Step
  BY DEF Next, vars, armVars
<1>2. RunEpoch
  BY <1>1 DEF Step, GetFast, GetBlocked, RecordSample, GetSlow, CountRequest,
     SubtractLimit, RequestEpoch, Add, Remove, Purge, Resize, Expire, Tick, armVars
<1> QED
  BY <1>2 DEF RunEpoch, EpochSkipped, EpochHeld

\* Nothing improves on anything with no hits.
LEMMA NoCountImprovesNothing ==
  ASSUME NEW a \in Stats, MinImprovement > 0
  PROVE  ~ImprovesEnough(NoCount, a)
<1>1. MinImprovement \in Nat
  BY SettingsAssumption
<1>2. a.hits \in Nat /\ Weight(a) \in Nat \ {0} /\ Weight(NoCount) = 1
  BY DEF Stats, Weight, Total, NoCount
<1>3. NoCount.hits = 0
  BY DEF NoCount
<1> DEFINE w == Weight(a)
<1>4. w \in Nat \ {0}
  BY <1>2
<1> HIDE DEF w
<1>5. MinImprovement * w > 0
  BY <1>1, <1>4
<1>6. MinImprovement * w * 1 = MinImprovement * w
      /\ 100 * (0 * w - a.hits * 1) <= 0
  BY <1>1, <1>2, <1>4
<1>7. ImprovesEnough(NoCount, a) <=>
        100 * (0 * w - a.hits * 1) >= MinImprovement * w * 1
  BY <1>2, <1>3 DEF ImprovesEnough, w
<1> QED
  BY <1>1, <1>2, <1>4, <1>5, <1>6, <1>7

\* The active policy changes only in an epoch that reported, for a policy and on
\* counts, those since the report before, that pass every gate of allowSwitchLocked, even when that policy is the
\* source of a window which the same epoch closes and demotes first.
THEOREM SwitchesAreEarned == Spec => SwitchOnFreshEvidence
<1> DEFINE A ==
      activePolicy' # activePolicy =>
       /\ reportingEpochs' = reportingEpochs + 1
       /\ Total(activeSampled) >= MinEpochRequests
       /\ Total(arms[activePolicy'].stats) >= MinEpochRequests
       /\ epochID - lastSwitchEpoch >= SwitchCooldownEpochs
       /\ MinImprovement > 0 =>
            ImprovesEnough(arms[activePolicy'].stats, activeSampled)
<1>1. RolesInv /\ [Next]_vars => A
  <2> SUFFICES ASSUME RolesInv, [Next]_vars, activePolicy' # activePolicy
               PROVE  /\ reportingEpochs' = reportingEpochs + 1
                      /\ Total(activeSampled) >= MinEpochRequests
                      /\ Total(arms[activePolicy'].stats) >= MinEpochRequests
                      /\ epochID - lastSwitchEpoch >= SwitchCooldownEpochs
                      /\ MinImprovement > 0 =>
                           ImprovesEnough(arms[activePolicy'].stats, activeSampled)
    OBVIOUS
  <2>1. PICK choice \in Policies \cup {Undefined} : EpochSwitched(choice)
    BY OnlyEpochsSwitch
  <2>2. PICK o \in CloseMigration(arms, migration) :
          Switches(choice, Reported(o.arms)) /\ ReportStats(o.arms)
    BY <2>1 DEF EpochSwitched, ReportStats
  <2>3. /\ activePolicy' = choice /\ choice \in Policies /\ choice # activePolicy
        /\ activePolicy \in Policies /\ AllowSwitch(choice, Reported(o.arms))
    BY <2>1, <2>2 DEF EpochSwitched, Switches, RolesInv, Inv, TypeOK
  <2>4. \/ o.arms[choice].stats = arms[choice].stats
        \/ o.arms[choice].stats = NoCount
    BY <2>3, EpochServes DEF Serves
  <2>5. /\ Reported(o.arms)[activePolicy] = activeSampled
        /\ Reported(o.arms)[choice] = o.arms[choice].stats
    BY <2>3 DEF Reported
  <2>6. /\ activeSampled \in Stats /\ arms[choice].stats \in Stats
        /\ epochID \in Nat /\ lastSwitchEpoch \in Nat /\ lastSwitchEpoch <= epochID
    BY <2>3, ArmFacts DEF RolesInv, Inv, TypeOK
  <2>7. /\ MinEpochRequests \in Nat /\ SwitchCooldownEpochs \in Nat
        /\ MinImprovement \in Nat
    BY SettingsAssumption
  <2>8. /\ Total(activeSampled) \in Nat /\ Total(arms[choice].stats) \in Nat
        /\ Total(NoCount) = 0
    BY <2>6, TotalFacts
  <2> DEFINE c == o.arms[choice].stats
  <2>9. /\ SwitchCooldownEpochs > 0 => epochID - lastSwitchEpoch >= SwitchCooldownEpochs
        /\ MinEpochRequests > 0 => /\ Total(activeSampled) >= MinEpochRequests
                                   /\ Total(c) >= MinEpochRequests
        /\ MinImprovement > 0 => ImprovesEnough(c, activeSampled)
    BY <2>3, <2>5, <2>7 DEF AllowSwitch
  <2> HIDE DEF c
  <2>10. c = arms[choice].stats \/ c = NoCount
    BY <2>4 DEF c
  <2>11. /\ Total(activeSampled) >= MinEpochRequests
         /\ Total(arms[choice].stats) >= MinEpochRequests
    BY <2>7, <2>8, <2>9, <2>10
  <2>12. epochID - lastSwitchEpoch >= SwitchCooldownEpochs
    BY <2>6, <2>7, <2>9
  <2>13. MinImprovement > 0 => ImprovesEnough(arms[choice].stats, activeSampled)
    BY <2>6, <2>9, <2>10, NoCountImprovesNothing
  <2>14. reportingEpochs' = reportingEpochs + 1
    BY <2>2 DEF ReportStats
  <2> QED
    BY <2>3, <2>11, <2>12, <2>13, <2>14
<1> QED
  BY <1>1, RolesHold, PTL DEF Spec, SwitchOnFreshEvidence

\* Advice shows of every policy what it measured in the role it has now, hit by
\* hit and miss by miss: no report, reset, skipped epoch or switch, and no Get that
\* is counted after the lock is released, mixes roles or loses an answer, but for
\* the counters a window's source had before its demotion.
THEOREM AdviceMeasuresTheRole == Spec => []AdviceIsOfThisRole
<1>1. RolesInv => AdviceIsOfThisRole
  BY DEF RolesInv
<1> QED
  BY <1>1, RolesHold, PTL

----------------------------------------------------------------------------
(* ObserveOnly mode implements one policy on its own *)

\* In ObserveOnly mode the first arm serves for ever, and no window opens.
Steady == activePolicy = First /\ ~migration.migrating

\* What the mapped state is.
FirstData == arms[First].data
FirstCap  == arms[First].cap

\* Without a window its operations do nothing.
LEMMA NoWindow ==
  ASSUME NEW s, NEW m, ~m.migrating, NEW k
  PROVE  /\ MigrateOnAdd(s, m, k) = {After(s, m)}
         /\ MigrateOnRemove(s, m, k) = {After(s, m)}
         /\ CloseMigration(s, m) = {After(s, NoMigration)}
BY DEF MigrateOnAdd, MigrateOnRemove, CloseMigration

\* Entries that a step may find gone.
LEMMA LeftFacts ==
  ASSUME arms \in ArmMap, First \in Policies
  PROVE  /\ FirstData \in SinglePolicy!Left
         /\ \A k \in Keys : First \in Lossy => Without(FirstData, k) \in SinglePolicy!Left
<1>1. FirstData \in [Keys -> Values \cup {Zero, None}]
  BY ArmFacts DEF FirstData, Contents
<1>2. FirstData = Keep(FirstData, Held(FirstData))
  BY <1>1 DEF Keep, Held
<1>3. \A k \in Keys : Without(FirstData, k) = Keep(FirstData, Held(FirstData) \ {k})
  BY <1>1 DEF Keep, Held, Without
<1>4. SinglePolicy!Left = IF First \in Lossy
                          THEN {Keep(FirstData, S) : S \in SUBSET Held(FirstData)}
                          ELSE {FirstData}
  BY DEF SinglePolicy!Left, SinglePolicy!Keep, SinglePolicy!Held, Keep, Held, FirstData
<1> QED
  BY <1>2, <1>3, <1>4

\* The first arm's part of an Add, Remove, Purge, Resize or expiry is that of a
\* policy on its own.
LEMMA ContentsRefine ==
  ASSUME Inv, Inv', Steady,
         \/ \E k \in Keys, v \in Values : Add(k, v)
         \/ \E k \in Keys : Remove(k)
         \/ Purge
         \/ \E n \in Sizes : Resize(n)
         \/ \E p \in Lossy, k \in Keys : Expire(p, k)
  PROVE  [SinglePolicy!Next]_(SinglePolicy!vars) /\ Steady'
<1>1. /\ First \in Policies /\ activePolicy = First /\ arms \in ArmMap
      /\ arms[First] \in Arms /\ arms' \in ArmMap /\ ~migration.migrating
  BY PolicyAssumption DEF Inv, TypeOK, Steady
<1>2. CASE \E k \in Keys, v \in Values : Add(k, v)
  <2>1. PICK k \in Keys, v \in Values : Add(k, v)
    BY <1>2
  <2>2. PICK s \in ShadowAdds(k) : \E o \in MigrateOnAdd(s, migration, k) :
          \E a \in Adds(First, o.arms[First], k, v) :
            arms' = Put(o.arms, First, a) /\ migration' = o.migration
    BY <1>1, <2>1 DEF Add
  <2>3. PICK a \in Adds(First, s[First], k, v) :
            arms' = Put(s, First, a) /\ migration' = migration
    <3>1. PICK o \in MigrateOnAdd(s, migration, k) :
            \E a \in Adds(First, o.arms[First], k, v) :
              arms' = Put(o.arms, First, a) /\ migration' = o.migration
      BY <2>2
    <3>2. o = After(s, migration)
      BY <1>1, <3>1, NoWindow
    <3>3. o.arms = s /\ o.migration = migration
      BY <3>2 DEF After
    <3> QED
      BY <3>1, <3>3
  <2>4. s[First] = arms[First]
    BY <1>1, ShadowAddsFacts
  <2>5. Steady'
    BY <1>1, <2>1, <2>3 DEF Add, Steady
  <2>6. CASE FirstCap = 0
    <3>1. a = [arms[First] EXCEPT !.data = Empty]
      BY <2>3, <2>4, <2>6 DEF Adds, FirstCap
    <3>2. FirstData' = Empty /\ FirstCap' = FirstCap
      BY <1>1, <2>3, <3>1 DEF Put, Arms, FirstData, FirstCap
    <3>3. SinglePolicy!Purge
      BY <3>2 DEF SinglePolicy!Purge, SinglePolicy!Empty, Empty, FirstData, FirstCap
    <3> QED
      BY <2>5, <3>3 DEF SinglePolicy!Next
  <2>7. CASE FirstCap # 0
    <3>1. PICK d \in AddOutcomes(FirstData, FirstCap, k, v, First \in Lossy) :
            a = [arms[First] EXCEPT !.data = d]
      BY <2>3, <2>4, <2>7 DEF Adds, FirstData, FirstCap
    <3>2. FirstData' = d /\ FirstCap' = FirstCap
      BY <1>1, <2>3, <3>1 DEF Put, Arms, FirstData, FirstCap
    <3>3. SinglePolicy!AddOutcomes(FirstData, FirstCap, k, v, First \in Lossy)
            = AddOutcomes(FirstData, FirstCap, k, v, First \in Lossy)
      BY Zenon
      DEF SinglePolicy!Cardinality, Cardinality, SinglePolicy!AddOutcomes, SinglePolicy!Held, SinglePolicy!Without,
             AddOutcomes, Held, Without
    <3>4. FirstData \in SinglePolicy!Left
      BY <1>1, LeftFacts
    <3>5. FirstData' \in SinglePolicy!AddOutcomes(FirstData, FirstCap, k, v, First \in Lossy)
      BY <3>1, <3>2, <3>3
    <3>6. SinglePolicy!Add(k, v)
      BY <3>2, <3>4, <3>5 DEF SinglePolicy!Add, FirstData, FirstCap
    <3> QED
      BY <2>5, <3>6 DEF SinglePolicy!Next
  <2> QED
    BY <2>6, <2>7
<1>3. CASE \E k \in Keys : Remove(k)
  <2>1. PICK k \in Keys : Remove(k)
    BY <1>3
  <2>2. /\ arms'[First] = [arms[First] EXCEPT !.data = Without(@, k)]
        /\ migration' = migration
    <3> DEFINE shadows == [p \in Policies |-> IF p = activePolicy THEN arms[p]
                                              ELSE Dropped(arms[p], k)]
    <3>1. PICK o \in MigrateOnRemove(shadows, migration, k) :
            /\ arms' = Put(o.arms, First, Dropped(o.arms[First], k))
            /\ migration' = o.migration
      BY <1>1, <2>1 DEF Remove, Dropped
    <3>2. shadows[First] = arms[First]
      BY <1>1
    <3> HIDE DEF shadows
    <3>3. o = After(shadows, migration)
      BY <1>1, <3>1, NoWindow
    <3>4. o.arms = shadows /\ o.migration = migration
      BY <3>3 DEF After
    <3> QED
      BY <1>1, <3>1, <3>2, <3>4 DEF Put, Dropped
  <2>3. FirstData' = Without(FirstData, k) /\ FirstCap' = FirstCap
    BY <1>1, <2>2 DEF Arms, FirstData, FirstCap
  <2>4. SinglePolicy!Remove(k)
    BY <2>3 DEF SinglePolicy!Remove, SinglePolicy!Without, Without, FirstData, FirstCap
  <2>5. Steady'
    BY <1>1, <2>1, <2>2 DEF Remove, Steady
  <2> QED
    BY <2>4, <2>5 DEF SinglePolicy!Next
<1>4. CASE Purge
  <2>1. /\ arms'[First] = [arms[First] EXCEPT !.data = Empty]
        /\ migration' = NoMigration
    <3> DEFINE purged == [p \in Policies |-> [arms[p] EXCEPT !.data = Empty]]
    <3>1. PICK o \in CloseMigration(purged, migration) :
            arms' = o.arms /\ migration' = o.migration
      BY <1>4 DEF Purge
    <3>2. purged[First] = [arms[First] EXCEPT !.data = Empty]
      BY <1>1
    <3> HIDE DEF purged
    <3>3. o.arms = purged /\ o.migration = NoMigration
      BY <1>1, <3>1, NoWindow DEF After
    <3> QED
      BY <3>1, <3>2, <3>3
  <2>2. FirstData' = Empty /\ FirstCap' = FirstCap
    BY <1>1, <2>1 DEF Arms, FirstData, FirstCap
  <2>3. SinglePolicy!Purge
    BY <2>2 DEF SinglePolicy!Purge, SinglePolicy!Empty, Empty, FirstData, FirstCap
  <2>4. Steady'
    BY <1>1, <1>4, <2>1, NoMigrationFacts DEF Purge, Steady
  <2> QED
    BY <2>3, <2>4 DEF SinglePolicy!Next
<1>5. CASE \E n \in Sizes : Resize(n)
  <2>1. PICK n \in Sizes : Resize(n)
    BY <1>5
  <2>2. arms'[First] \in Resizes(arms[First], n)
    BY <1>1, <2>1 DEF Resize, Choices
  <2>3. PICK d \in ResizeOutcomes(FirstData, n) :
          arms'[First] = [arms[First] EXCEPT !.data = d, !.cap = n]
    BY <2>2 DEF Resizes, FirstData
  <2>4. FirstData' = d /\ FirstCap' = n
    BY <1>1, <2>3 DEF Arms, FirstData, FirstCap
  <2>5. SinglePolicy!Resize(n)
    <3>1. SinglePolicy!ResizeOutcomes(FirstData, n) = ResizeOutcomes(FirstData, n)
      BY Zenon
      DEF SinglePolicy!Cardinality, Cardinality, SinglePolicy!ResizeOutcomes, SinglePolicy!Held, SinglePolicy!Keep,
             ResizeOutcomes, Held, Keep
    <3>2. FirstData \in SinglePolicy!Left
      BY <1>1, LeftFacts
    <3> QED
      BY <2>3, <2>4, <3>1, <3>2 DEF SinglePolicy!Resize, FirstData, FirstCap
  <2>6. Steady'
    BY <1>1, <2>1 DEF Resize, Steady
  <2> QED
    BY <2>5, <2>6 DEF SinglePolicy!Next
<1>6. CASE \E p \in Lossy, k \in Keys : Expire(p, k)
  <2>1. PICK p \in Lossy, k \in Keys : Expire(p, k)
    BY <1>6
  <2>2. Steady'
    BY <1>1, <2>1 DEF Expire, Steady
  <2>3. CASE p = First
    <3>1. arms'[First] = [arms[First] EXCEPT !.data = Without(@, k)]
      BY <1>1, <2>1, <2>3 DEF Expire, Put
    <3>2. FirstData' = Without(FirstData, k) /\ FirstCap' = FirstCap
      BY <1>1, <3>1 DEF Arms, FirstData, FirstCap
    <3>3. SinglePolicy!Expire
      BY <1>1, <2>1, <2>3, <3>2, LeftFacts DEF SinglePolicy!Expire, FirstData, FirstCap
    <3> QED
      BY <2>2, <3>3 DEF SinglePolicy!Next
  <2>4. CASE p # First
    <3>1. arms'[First] = arms[First]
      BY <1>1, <2>1, <2>4 DEF Expire, Put
    <3> QED
      BY <2>2, <3>1 DEF SinglePolicy!vars
  <2> QED
    BY <2>3, <2>4
<1> QED
  BY <1>2, <1>3, <1>4, <1>5, <1>6

\* No other step changes what callers can read from the first arm.
LEMMA OthersRefine ==
  ASSUME ObserveOnly, Inv, Inv', Steady, UNCHANGED strategy,
         \/ \E t \in Threads, k \in Keys : GetFast(t, k) \/ GetBlocked(t, k)
         \/ \E t \in Threads : \/ RecordSample(t) \/ GetSlow(t) \/ CountRequest(t)
                               \/ SubtractLimit(t) \/ RequestEpoch(t)
         \/ Tick
         \/ UNCHANGED vars
  PROVE  UNCHANGED <<FirstData, FirstCap>> /\ Steady'
<1>1. /\ First \in Policies /\ activePolicy = First /\ arms \in ArmMap
      /\ arms[First] \in Arms /\ ~migration.migrating
  BY PolicyAssumption DEF Inv, TypeOK, Steady
<1>2. ASSUME NEW k, NEW s, s[First] = arms[First],
             arms' = Put(s, First, Lookup(s[First], k))
      PROVE  UNCHANGED <<FirstData, FirstCap>>
  <2>1. arms'[First] = Lookup(arms[First], k)
    BY <1>1, <1>2 DEF Put
  <2> QED
    BY <1>1, <2>1 DEF Lookup, Arms, FirstData, FirstCap
<1>3. ASSUME NEW k PROVE ShadowGets(k)[First] = arms[First]
  BY <1>1, ShadowGetsFacts
<1>4. CASE \E t \in Threads, k \in Keys : GetFast(t, k)
  <2>1. PICK t \in Threads, k \in Keys : GetFast(t, k)
    BY <1>4
  <2>2. /\ arms' = Put(ShadowGets(k), First, Lookup(ShadowGets(k)[First], k))
        /\ Steady'
    BY <1>1, <2>1 DEF GetFast, Steady
  <2> QED
    BY <1>2, <1>3, <2>2
<1>5. CASE \E t \in Threads : GetSlow(t)
  <2>1. PICK t \in Threads : GetSlow(t)
    BY <1>5
  <2>2. PICK k : k = want[t]
    OBVIOUS
  <2>3. /\ arms' = Put(ShadowGets(k), First, Lookup(ShadowGets(k)[First], k))
        /\ migration' = migration
    BY <1>1, <2>1, <2>2 DEF GetSlow, After
  <2>4. Steady'
    BY <1>1, <2>1, <2>3 DEF GetSlow, Steady
  <2> QED
    BY <1>2, <1>3, <2>3, <2>4
<1>6. CASE RunEpoch
  <2>1. CASE EpochSkipped
    <3>1. arms' = arms /\ migration' = NoMigration
      BY <1>1, <2>1, NoWindow DEF EpochSkipped, After
    <3>2. activePolicy' = activePolicy
      BY <2>1 DEF EpochSkipped
    <3> QED
      BY <1>1, <3>1, <3>2, NoMigrationFacts DEF Steady, FirstData, FirstCap
  <2>2. ASSUME NEW choice, EpochHeld(choice)
        PROVE  UNCHANGED <<FirstData, FirstCap>> /\ Steady'
    <3>1. arms' = ResetAll(arms) /\ migration' = NoMigration
      BY <1>1, <2>2, NoWindow DEF EpochHeld, After
    <3>2. activePolicy' = activePolicy
      BY <2>2 DEF EpochHeld
    <3>3. arms'[First].data = arms[First].data /\ arms'[First].cap = arms[First].cap
      BY <1>1, <3>1 DEF ResetAll, Arms
    <3> QED
      BY <1>1, <3>1, <3>2, <3>3, NoMigrationFacts DEF Steady, FirstData, FirstCap
  <2>3. \A choice : ~EpochSwitched(choice)
    BY DEF EpochSwitched, Switches
  <2> QED
    BY <1>6, <2>1, <2>2, <2>3 DEF RunEpoch
<1>7. CASE \/ \E t \in Threads, k \in Keys : GetBlocked(t, k)
           \/ \E t \in Threads : RecordSample(t) \/ CountRequest(t) \/ SubtractLimit(t)
           \/ UNCHANGED vars
  <2>1. UNCHANGED <<activePolicy, arms, migration>>
    BY <1>7 DEF GetBlocked, RecordSample, CountRequest, SubtractLimit, vars, armVars
  <2> QED
    BY <1>1, <2>1 DEF Steady, FirstData, FirstCap
<1> QED
  BY <1>4, <1>5, <1>6, <1>7 DEF RequestEpoch, Tick

\* In ObserveOnly mode the cache behaves as the first policy would on the same
\* calls, whatever the bandit answers and whichever goroutines run epochs.
THEOREM ObserveOnlyRefines ==
  ASSUME ObserveOnly
  PROVE  Spec => ObserveOnlyIsSinglePolicy
<1>1. Init => SinglePolicy!Init /\ Steady
  BY PolicyAssumption, SettingsAssumption, NoMigrationFacts
  DEF Init, Steady, SinglePolicy!Init, SinglePolicy!Empty, Empty
<1>2. Inv /\ Inv' /\ Steady /\ [Next]_vars =>
        [SinglePolicy!Next]_(SinglePolicy!vars) /\ Steady'
  <2> SUFFICES ASSUME Inv, Inv', Steady, [Next]_vars
               PROVE  [SinglePolicy!Next]_(SinglePolicy!vars) /\ Steady'
    OBVIOUS
  <2>1. CASE \/ \E k \in Keys, v \in Values : Add(k, v)
             \/ \E k \in Keys : Remove(k)
             \/ Purge
             \/ \E n \in Sizes : Resize(n)
             \/ \E p \in Lossy, k \in Keys : Expire(p, k)
    BY <2>1, ContentsRefine
  <2>2. CASE \/ \E t \in Threads, k \in Keys : GetFast(t, k) \/ GetBlocked(t, k)
             \/ \E t \in Threads : \/ RecordSample(t) \/ GetSlow(t) \/ CountRequest(t)
                                   \/ SubtractLimit(t) \/ RequestEpoch(t)
             \/ Tick
             \/ UNCHANGED vars
    <3>1. UNCHANGED strategy
      BY DEF Next, vars
    <3>2. UNCHANGED <<FirstData, FirstCap>> /\ Steady'
      BY <2>2, <3>1, OthersRefine
    <3> QED
      BY <3>2 DEF SinglePolicy!vars, FirstData, FirstCap
  <2> QED
    BY <2>1, <2>2 DEF Next, Step
<1> QED
  BY <1>1, <1>2, Invariance, PTL DEF Spec, ObserveOnlyIsSinglePolicy, SinglePolicy!Spec
=============================================================================
