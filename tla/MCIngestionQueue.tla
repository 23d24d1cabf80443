--------------------------- MODULE MCIngestionQueue ---------------------------
(***************************************************************************)
(* A small instance of IngestionQueue.  Nothing tells one idempotency key  *)
(* of a user from another but that it was used before, in the same table:  *)
(* files, cancel receipts and retry receipts never look at each other's    *)
(* keys.  So every behaviour is, up to the names of keys in each table,    *)
(* one in which new keys are taken in order.                               *)
(***************************************************************************)
EXTENDS IngestionQueue

FirstOnes(keys) == \A k \in keys : 1 .. k \subseteq keys

KeysInOrder ==
  \A a \in Actors :
    /\ FirstOnes({job[f].key : f \in {g \in Files : job[g].actor = a}})
    /\ FirstOnes({k \in Keys : cancelReceipt[<<a, k>>] # None})
    /\ FirstOnes({k \in Keys : retryReceipt[<<a, k>>] # None})

OrderedSpec == Init /\ [][Next /\ KeysInOrder']_vars /\ Fairness

===============================================================================
