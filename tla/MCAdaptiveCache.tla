--------------------------- MODULE MCAdaptiveCache ---------------------------
(* Small instances of AdaptiveCache for TLC. *)
EXTENDS AdaptiveCache, TLC

CONSTANTS p1, p2, p3, k1, k2, k3, v1, v2, t1, t2

TwoArms   == [p \in {p1, p2} |-> 2]
UnevenArms == [p \in {p1, p2} |-> IF p = p1 THEN 3 ELSE 2]

\* Values are interchangeable, and so are the sampled keys k1 and k2.
Interchangeable == Permutations({v1, v2}) \cup Permutations({k1, k2})

=============================================================================
