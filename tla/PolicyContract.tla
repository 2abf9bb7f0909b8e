---------------------------- MODULE PolicyContract ----------------------------
(***************************************************************************)
(* What one eviction policy promises its user: the behaviour every         *)
(* implementation of Cacher has whatever entry it chooses to evict.  Get,  *)
(* Peek, Contains, Keys and Len do not change the contents.                *)
(***************************************************************************)
EXTENDS PolicyOps

CONSTANTS
  Values,     \* what callers store
  Sizes,      \* arguments of Resize
  Rejects,    \* whether an Add may turn the newcomer away
  Lossy       \* whether entries may go at any time, as expired ones do

VARIABLES
  data,       \* the contents
  cap         \* the capacity

vars == <<data, cap>>

Init == data = Empty /\ cap \in Nat \ {0}

\* What a step finds of the contents when entries may have gone before it.
Left == IF Lossy THEN {Keep(data, S) : S \in SUBSET Held(data)} ELSE {data}

Add(k, v) ==
  /\ \E c \in Left : data' \in AddOutcomes(c, cap, k, v, Rejects)
  /\ UNCHANGED cap

Remove(k) == data' = Without(data, k) /\ UNCHANGED cap

Purge == data' = Empty /\ UNCHANGED cap

Resize(n) == (\E c \in Left : data' \in ResizeOutcomes(c, n)) /\ cap' = n

\* Expiry: one tick of the clock may end several entries.
Expire == data' \in Left /\ UNCHANGED cap

Next ==
  \/ \E k \in Keys, v \in Values : Add(k, v)
  \/ \E k \in Keys : Remove(k)
  \/ Purge \/ Expire
  \/ \E n \in Sizes : Resize(n)

Spec == Init /\ [][Next]_vars

=============================================================================
