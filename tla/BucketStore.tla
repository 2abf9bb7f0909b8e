----------------------------- MODULE BucketStore -----------------------------
(***************************************************************************)
(* The store a fleet coordinates through (store.go, memstore.go and the    *)
(* scripts of redis/): counters, a leadership claim and a decision per     *)
(* namespace and bucket, each with an expiry, all driven by the store's    *)
(* own clock.  A call is one atomic step of the store.                     *)
(***************************************************************************)
EXTENDS Integers

CONSTANTS
  Policies,           \* the arms of the caches
  Undefined,          \* the PolicyType that names no arm
  CoordinationEpoch,  \* length of a bucket, in ticks of the clock
  Window,             \* buckets read back for a decision
  Mode,               \* "leader" or "shared"
  Kind                \* the store behind the interface: "mem" or "redis"

ASSUME StoreAssumption ==
  /\ Undefined \notin Policies
  /\ CoordinationEpoch \in Nat \ {0} /\ Window \in Nat \ {0}
  /\ Mode \in {"leader", "shared"} /\ Kind \in {"mem", "redis"}

Roles == {"active", "shadow"}

\* An arm in one role.  Counts map some of these to the Gets measured, which
\* may be none: an arm that was reported has an entry.
ArmKeys == Policies \X Roles

\* Maps that hold nothing.
EmptyMap == [k \in {} |-> 0]
NoCounts == EmptyMap

\* The Gets measured for k.
GetsOf(c, k) == IF k \in DOMAIN c THEN c[k] ELSE 0

\* Counts of two sources, added up per arm and role.
AddCounts(c, d) == [k \in DOMAIN c \cup DOMAIN d |-> GetsOf(c, k) + GetsOf(d, k)]

\* A store holds partial functions of <<namespace, bucket>>.
NewStore == [counts |-> EmptyMap, leaders |-> EmptyMap, decisions |-> EmptyMap]

\* f with x mapped to v.
With(f, x, v) == [y \in DOMAIN f \cup {x} |-> IF y = x THEN v ELSE f[y]]

\* Fault: no margin for a leader that reads late.
CounterTTLTooShort == Window * CoordinationEpoch

\* Fault: a claim that ends before its bucket does.
LeaderTTLTooShort == CoordinationEpoch \div 4

\* How long entries outlive their writing.
CounterTTL == (Window + 2) * CoordinationEpoch
LeaderTTL == 2 * CoordinationEpoch
DecisionTTL == 3 * CoordinationEpoch

\* The bucket a clock reading belongs to.  The unit of time is the millisecond and
\* CoordinationEpoch a whole number of them, at least one: the code truncates the
\* epoch to milliseconds and raises 0 to 1, which is the identity here.
BucketAt(now) == now \div CoordinationEpoch

\* expireLocked on one map; Redis drops a key as soon as its time to live is over.
Unexpired(f, now) ==
  [x \in {y \in DOMAIN f : now < f[y].expires + (IF Kind = "mem" THEN 1 ELSE 0)} |->
     f[x]]

\* expireLocked.
Expired(s, now) ==
  [counts |-> Unexpired(s.counts, now), leaders |-> Unexpired(s.leaders, now),
   decisions |-> Unexpired(s.decisions, now)]

\* Fault: arms that measured nothing are sent too.
SentWithZeros(c) == c

\* What reaches the store's counters: the Redis store drops zero deltas.
Sent(c) == [k \in {j \in DOMAIN c : Kind = "redis" => c[j] # 0} |-> c[k]]

\* Sync's first part: add the counts and refresh the bucket's expiry.
Published(s, x, c, now) ==
  LET old == IF x \in DOMAIN s.counts THEN s.counts[x].arms ELSE NoCounts
  IN  IF c = NoCounts THEN s
      ELSE [s EXCEPT !.counts = With(@, x, [arms |-> AddCounts(old, c),
                                            expires |-> now + CounterTTL])]

\* Whether a Sync claims the leadership of its bucket.
Claims(s, x) == Mode = "leader" /\ x \notin DOMAIN s.leaders

\* Fault: the previous bucket's decision is taken for this one's.
DecisionOfLast(s, x) ==
  IF x \in DOMAIN s.decisions THEN s.decisions[x].value
  ELSE IF <<x[1], x[2] - 1>> \in DOMAIN s.decisions
       THEN s.decisions[<<x[1], x[2] - 1>>].value ELSE Undefined

\* The decision published for x, if any.
DecisionFor(s, x) ==
  IF x \in DOMAIN s.decisions THEN s.decisions[x].value ELSE Undefined

\* Sync: what it answers, a decision only if there is one.
SyncReply(s, x) ==
  [bucket |-> x[2], leader |-> Claims(s, x), decision |-> DecisionFor(s, x)]

\* Sync: what it leaves in the store.
Synced(s, x, node, c, now) ==
  LET live == Published(Expired(s, now), x, Sent(c), now)
  IN  IF Claims(live, x)
      THEN [live EXCEPT !.leaders = With(@, x, [value |-> node,
                                                expires |-> now + LeaderTTL])]
      ELSE live

\* Window: the counts of the buckets first to last that hold any.  One read, where
\* Redis answers a pipeline of one command per bucket: callers ask for closed
\* buckets only, whose counts change no more.
WindowCounts(s, ns, first, last, now) ==
  LET live == Expired(s, now).counts
  IN  [b \in {c \in first .. last : <<ns, c>> \in DOMAIN live} |->
         live[<<ns, b>>].arms]

\* Decide: a decision that exists stays.
Decided(s, x, p, now) ==
  LET live == Expired(s, now)
  IN  IF x \in DOMAIN live.decisions THEN live
      ELSE [live EXCEPT !.decisions = With(@, x, [value |-> p,
                                                  expires |-> now + DecisionTTL])]

=============================================================================
