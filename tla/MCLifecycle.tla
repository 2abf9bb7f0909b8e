----------------------------- MODULE MCLifecycle -----------------------------
(* A small instance of Lifecycle for TLC. *)
EXTENDS Lifecycle

CONSTANTS c1, c2, x1, x2, x3

TwoAndOne == [x \in {x1, x2, x3} |-> IF x = x3 THEN "bandit" ELSE "cache"]

=============================================================================
