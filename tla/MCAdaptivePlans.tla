-------------------------- MODULE MCAdaptivePlans --------------------------
(* AdaptivePlans on small instances.                                       *)
EXTENDS AdaptivePlans, TLC

Symmetry == Permutations(Patterns) \cup Permutations(Plans) \cup Permutations(Services)
=============================================================================
