------------------------------ MODULE MCDeployment ------------------------------
(* An instance of Deployment for TLC: three releases with the same migrations, one with more. *)
EXTENDS Deployment, TLC

CONSTANTS r1, r2, r3, r4

MCSchema == [r \in Releases |-> IF r = r3 THEN 2 ELSE 1]
MCSymmetry == Permutations(Backups)
=============================================================================
