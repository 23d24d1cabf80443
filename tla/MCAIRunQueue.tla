----------------------------- MODULE MCAIRunQueue -----------------------------
(***************************************************************************)
(* Small instances of AIRunQueue: two tariffs with the same reserve and    *)
(* different limits, one amount a call may cost within the reserve and one *)
(* above it.                                                               *)
(***************************************************************************)
EXTENDS AIRunQueue, TLC

CONSTANT p1

MCReserveOf == [p \in Policies |-> 2]
MCLimitOf == [p \in Policies |-> IF p = p1 THEN 4 ELSE 2]

Symmetry == Permutations(Runs) \cup Permutations(Workers) \cup Permutations(Keys)

===============================================================================
