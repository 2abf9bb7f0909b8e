------------------------------ MODULE PolicyOps ------------------------------
(***************************************************************************)
(* What an eviction policy does to its contents, as the adaptive layer     *)
(* sees it through the Cacher interface (interfaces.go).  A policy's       *)
(* contents are a function from keys to a value or None; which entry is    *)
(* evicted is the policy's business, so an operation that evicts has a SET *)
(* of outcomes, one for every victim some policy may choose.               *)
(***************************************************************************)
EXTENDS Integers, FiniteSets

CONSTANTS
  Keys,       \* the keys callers use
  None        \* "no entry", and "no key"

\* The keys a policy holds: Keys(), and Len() is its cardinality.
Held(c) == {k \in Keys : c[k] # None}

\* An empty policy: what the constructor and Purge() leave.
Empty == [k \in Keys |-> None]

\* The contents c cut down to the keys of S.
Keep(c, S) == [k \in Keys |-> IF k \in S THEN c[k] ELSE None]

\* Remove(key).
Without(c, k) == [c EXCEPT ![k] = None]

\* Add(key, value) on contents c of capacity n: overwriting never evicts, and
\* a full policy makes room first, so the victim is one of the residents.  A
\* policy with an admission filter (W-TinyLFU) may turn the newcomer away.
AddOutcomes(c, n, k, v, rejects) ==
  LET with == [c EXCEPT ![k] = v]
      victims == IF rejects THEN Held(with) ELSE Held(c)
  IN  IF k \in Held(c) \/ Cardinality(Held(c)) < n
      THEN {with}
      ELSE {Without(with, x) : x \in victims}

\* Resize(n): entries are evicted until at most n remain, and no more.
ResizeOutcomes(c, n) ==
  IF Cardinality(Held(c)) <= n
  THEN {c}
  ELSE {Keep(c, S) : S \in {T \in SUBSET Held(c) : Cardinality(T) = n}}

=============================================================================
