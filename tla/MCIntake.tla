------------------------------ MODULE MCIntake ------------------------------
(* Intake on small instances.                                              *)
EXTENDS Intake, TLC

Symmetry == Permutations(Threads) \cup Permutations(Keys)
=============================================================================
