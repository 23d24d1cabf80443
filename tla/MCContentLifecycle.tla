--------------------------- MODULE MCContentLifecycle ---------------------------
(***************************************************************************)
(* A small instance of ContentLifecycle.  Its ledger starts as a team      *)
(* leaves it before the first post: two confirmed sources, a profile, a    *)
(* policy and a product version with one fact, all confirmed, and a brief. *)
(* From then on the users replace a source or the policy and confirm what  *)
(* was replaced; RecordsNext itself is explored by records_safety.         *)
(***************************************************************************)
EXTENDS ContentLifecycle, TLC

CONSTANTS b1, q1, t1, t2

Row(family, number, body, confirmed, expires) ==
  [family |-> family, number |-> number, body |-> body,
   confirmed |-> confirmed, expires |-> expires]

\* A record and its confirmation, as ids n and n + 1.
Pair(n, body, expires) ==
  <<Row(n, 1, body, FALSE, expires), Row(n, 2, body, TRUE, expires)>>

\* The source of the product version is good for one unit of time less than the rest.
Seed ==
     Pair(1, Body("source_item", b1, None, 0, 0, FALSE, {}), 3)
  \o Pair(3, Body("source_item", b1, None, 0, 0, FALSE, {}), 2)
  \o Pair(5, Body("brand_profile", b1, None, 2, 0, FALSE, {}), 3)
  \o Pair(7, Body("claim_policy", b1, None, 2, 0, FALSE, {}), 3)
  \o Pair(9, Body("product_version", b1, q1, 4, 0, FALSE, {}), 3)
  \o Pair(11, Body("product_fact", b1, None, 2, 10, FALSE, {}), 3)
  \o <<Row(13, 1, Body("brief", b1, q1, 0, 0, FALSE, {}), FALSE, 3)>>

SeededInit ==
  /\ ledger = Seed
  /\ now = 0
  /\ PostsInit

\* The policy comes to forbid a text.
Stricter(body) == [body EXCEPT !.forbids = {t1}]

RecordEdits ==
  \/ \E i \in Family(3) : ReplaceRecord(i, ledger[i].body, 3)
  \/ \E i \in Family(7) : ReplaceRecord(i, Stricter(ledger[i].body), 3)
  \/ \E i \in Records : ConfirmRecord(i)
  \/ Tick

SeededSpec == SeededInit /\ [][PostsNext \/ (RecordEdits /\ UNCHANGED postVars)]_vars

===============================================================================
