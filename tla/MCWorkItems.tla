------------------------------ MODULE MCWorkItems ------------------------------
(* An instance of WorkItems for TLC. *)
EXTENDS WorkItems, TLC

MCSymmetry == Permutations(Items) \cup Permutations(Keys) \cup Permutations(Sessions)
=============================================================================
