---------------------------- MODULE MCWorkingCopies ----------------------------
(***************************************************************************)
(* A small instance of WorkingCopies.                                      *)
(***************************************************************************)
EXTENDS WorkingCopies, TLC

Symmetry == Permutations(Editors)

===============================================================================
