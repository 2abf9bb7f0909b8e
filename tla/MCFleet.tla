------------------------------- MODULE MCFleet -------------------------------
(* Small instances of Fleet for TLC. *)
EXTENDS Fleet, TLC

CONSTANTS r1, r2, p1, p2

\* Neither replicas nor arms have an order.
Interchangeable == Permutations({r1, r2}) \cup Permutations({p1, p2})

=============================================================================
