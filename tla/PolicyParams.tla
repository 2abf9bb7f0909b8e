----------------------------- MODULE PolicyParams -----------------------------
(* What every eviction policy of the repository is parameterised by. *)
EXTENDS PolicyOps

CONSTANTS
  Values,       \* what callers store
  InitialSize,  \* size passed to the constructor
  Sizes         \* arguments of Resize, 0 included

ASSUME ParamsAssumption ==
  /\ InitialSize \in Nat \ {0} /\ Sizes \subseteq Nat
  /\ None \notin Values /\ None \notin Keys

=============================================================================
