----------------------------- MODULE SpendLedger ------------------------------
(***************************************************************************)
(* What the AI budget of a workspace promises, without rows, leases or     *)
(* workers.  A run is accepted or refused; an accepted run is closed       *)
(* unspent or dispatched once; a dispatched run is settled, when its cost  *)
(* is known to be within its reservation, or stuck for ever.  While a run  *)
(* is dispatched or stuck no other is dispatched; while one is stuck none  *)
(* is accepted.                                                            *)
(***************************************************************************)
CONSTANT Runs

VARIABLE phase

Phases == {"none", "accepted", "refused", "dispatched", "settled", "stuck"}

In(p) == {r \in Runs : phase[r] = p}

Init == phase = [r \in Runs |-> "none"]

Accept(r) ==
  /\ phase[r] = "none"
  /\ In("stuck") = {}
  /\ phase' = [phase EXCEPT ![r] = "accepted"]

\* A run may be born refused.
Refuse(r) ==
  /\ phase[r] = "none"
  /\ phase' = [phase EXCEPT ![r] = "refused"]

Dispatch(r) ==
  /\ phase[r] = "accepted"
  /\ In("dispatched") \cup In("stuck") = {}
  /\ phase' = [phase EXCEPT ![r] = "dispatched"]

Settle(r) ==
  /\ phase[r] = "dispatched"
  /\ phase' = [phase EXCEPT ![r] = "settled"]

\* Several runs are given up at once: what was not dispatched is refused, what was
\* dispatched is stuck.
GiveUp(S) ==
  /\ S # {} /\ S \subseteq In("accepted") \cup In("dispatched")
  /\ phase' = [r \in Runs |->
                 IF r \notin S THEN phase[r]
                 ELSE IF phase[r] = "accepted" THEN "refused" ELSE "stuck"]

Next ==
  \/ \E r \in Runs : Accept(r) \/ Refuse(r) \/ Dispatch(r) \/ Settle(r)
  \/ \E S \in SUBSET Runs : GiveUp(S)

Spec == Init /\ [][Next]_phase

===============================================================================
