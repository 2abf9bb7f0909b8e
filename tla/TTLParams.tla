------------------------------ MODULE TTLParams ------------------------------
(* What the TTL policy is parameterised by, beyond what every policy is. *)
EXTENDS PolicyParams

CONSTANTS
  TTLs,         \* lifetimes the policy may be built with, 0 = no expiry
  MaxTime       \* bound: the last instant of the clock

ASSUME TTLAssumption == TTLs \subseteq Int

=============================================================================
