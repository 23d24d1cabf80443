------------------------------- MODULE MCSessions -------------------------------
(* An instance of Sessions for TLC. *)
EXTENDS Sessions, TLC

MCSymmetry ==
  Permutations(Identities) \cup Permutations(Flows) \cup Permutations(Callbacks)
    \cup Permutations(Tokens) \cup Permutations(Requests)
=============================================================================
