---------------------------- MODULE MCKnowledgeDocuments ----------------------------
(* An instance of KnowledgeDocuments and RetrievalEvaluation for TLC. *)
EXTENDS RetrievalEvaluation

\* One period that ends early, one that ends late.
MCEarly == [from |-> 0, to |-> 1]
MCLate  == [from |-> 0, to |-> 2]
MCPeriods == {MCEarly, MCLate}

\* An owner's and a workspace document, each submitted, indexed and activated: steps of
\* KnowledgeNext lead there, and proposals have something to rest on.
SeededInit ==
  /\ document = <<Document("owner", 2, FALSE, 1), Document("workspace", 2, FALSE, 2)>>
  /\ \E text \in Texts :
       version = <<Version(1, text, MCEarly, Null), Version(2, text, MCLate, Null)>>
  /\ index = <<[version |-> 1, ready |-> TRUE], [version |-> 2, ready |-> TRUE]>>
  /\ activated = {1, 2}
  /\ note = <<>> /\ memory = {} /\ page = Null /\ clock = 0
  /\ EvalInit

\* A question of an employee, one of the owner, and one whose answer must not be found.
MCCases ==
  {[answers |-> Texts, audience |-> "workspace", expected |-> {2}, forbidden |-> {1}],
   [answers |-> Texts, audience |-> "owner", expected |-> {1, 2}, forbidden |-> {}],
   [answers |-> {}, audience |-> "owner", expected |-> {}, forbidden |-> {}]}

MCDefinitions == {[complete |-> TRUE, cases |-> MCCases]}

\* Bound: where there are proposals nobody evaluates.
Apart == note' = <<>> \/ dataset' = <<>>

SeededNext == BothNext /\ Apart

SeededSpec == SeededInit /\ [][SeededNext]_<<knowledgeVars, evalVars>>
=============================================================================
