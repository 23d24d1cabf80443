---------------------------- MODULE MCDraftAdoption ----------------------------
(* An instance of DraftAdoption for TLC. *)
EXTENDS DraftAdoption, TLC

\* One version of each profile was drafted and put on trial: steps of Next lead there.
SeededInit ==
  /\ \E c \in Contracts :
       /\ contract = c
       /\ version = [p \in Profiles |-> <<[contract |-> c]>>]
  /\ decision = [p \in Profiles |-> <<[version |-> 1, action |-> "select", revision |-> 2]>>]
  /\ head = [p \in Profiles |-> HeadRow(2, 1, 1, 1)]
  /\ evidence \in Evidence
  /\ post = PostRow(1, 1, "draft")
  /\ plan = <<[notes |-> None]>>
  /\ run = [r \in Runs |-> None]
  /\ adoption = {}
  /\ triage = [r \in Runs |-> <<>>]
  /\ page = [t \in Tabs |-> NoPage]

SeededSpec == SeededInit /\ [][Next]_vars

MCSymmetry == Permutations(Runs) \cup Permutations(Tabs) \cup Permutations(Contracts) \cup Permutations(Evidence)
=============================================================================
