---------------------------- MODULE RetrievalEvaluation ----------------------------
(***************************************************************************)
(* Benchmarks of the search of a knowledge base (services/evaluation.py).  *)
(* An owner submits a set of questions, runs it against the corpus, the    *)
(* documents in force, and accepts or rejects the report.  A run is one    *)
(* long transaction under the knowledge lock: commands wait, workers and   *)
(* time do not.  An accepted report is the current baseline only as long   *)
(* as nothing blocks it, which is computed whenever it is read.            *)
(*                                                                         *)
(* A question is answered by the passages with certain texts; there are    *)
(* fewer of them than the limit of a search.  What a set of questions      *)
(* lacks by itself (origin, number and kinds of questions) is one flag.  A *)
(* retry of a command is answered from its receipt and changes nothing.    *)
(***************************************************************************)
EXTENDS KnowledgeDocuments

CONSTANTS
  Definitions,   \* the sets of questions owners submit
  MaxDatasets,   \* bound: rows of retrieval_eval_datasets
  MaxEvaluations \* bound: rows of retrieval_eval_runs

Cases ==
  {c \in [answers : SUBSET Texts, audience : Visibility,
          expected : SUBSET Nat, forbidden : SUBSET Nat] : c.expected \cap c.forbidden = {}}

\* complete: acceptance_blockers of the questions by themselves finds nothing.
Questions == [complete : BOOLEAN, cases : SUBSET Cases \ {{}}]

ASSUME DefinitionsAssumption == \A definition \in Definitions : definition \in Questions

VARIABLES
  dataset,       \* retrieval_eval_datasets
  running,       \* the transaction of the evaluation under way, which holds the lock
  evaluation     \* retrieval_eval_runs with their retrieval_eval_reviews

evalVars == <<dataset, running, evaluation>>

-------------------------------------------------------------------------------
(* Rows *)

Decisions == {"none", "accept_baseline", "reject"}

Dataset(family, number, definition) ==
  [family |-> family, number |-> number, definition |-> definition]

Datasets == [family : Nat, number : Nat, definition : Definitions]

Evaluation(q, corpus, hits, passed, decision) ==
  [dataset |-> q, corpus |-> corpus, hits |-> hits, passed |-> passed, decision |-> decision]

Under(q, at, corpus, hits, passed) ==
  [dataset |-> q, at |-> at, corpus |-> corpus, hits |-> hits, passed |-> passed]

Latest(q) ==
  \A other \in DOMAIN dataset :
    dataset[other].family = dataset[q].family => dataset[other].number <= dataset[q].number

CasesOf(q) == dataset[q].definition.cases

-------------------------------------------------------------------------------
(* Corpus and search *)

Source(i) ==
  [doc |-> VersionOf(i).doc, version |-> index[i].version, index |-> i,
   text |-> VersionOf(i).text, visibility |-> DocumentOf(i).visibility,
   from |-> VersionOf(i).from, to |-> VersionOf(i).to]

\* Mutant: a document counts as long as it is not archived.
CorpusOfAnyPeriod(t) ==
  {Source(i) : i \in {n \in DOMAIN index :
                        ~DocumentOf(n).archived /\ DocumentOf(n).active = n}}

Corpus(t) == {Source(i) : i \in {n \in DOMAIN index : Citable(n, t)}}

Narrowed(c, visibility) == c.audience = "workspace" => visibility = "workspace"

\* retrieve
Retrieved(c, t) ==
  {i \in DOMAIN index :
     /\ Citable(i, t)
     /\ VersionOf(i).text \in c.answers
     /\ Narrowed(c, DocumentOf(i).visibility)}

\* At least 0.8 of each set is the other's; nothing and nothing agree.
Agrees(expected, found) ==
  LET relevant == 10 * Cardinality(expected \cap found)
  IN relevant >= 8 * Cardinality(expected) /\ relevant >= 8 * Cardinality(found)

CasePasses(c, hits, corpus) ==
  LET found == {VersionOf(i).doc : i \in hits}
  IN /\ Agrees(c.expected, found)
     /\ found \cap c.forbidden = {}
     /\ \A i \in hits : Source(i) \in corpus /\ Narrowed(c, Source(i).visibility)

-------------------------------------------------------------------------------
(* Commands *)

\* prior is 0 for questions that revise no others.
SubmitEval(definition, prior) ==
  /\ running = Null
  /\ Len(dataset) < MaxDatasets
  /\ \A c \in definition.cases : c.expected \cup c.forbidden \subseteq DOMAIN document
  /\ prior # 0 => Latest(prior)
  /\ dataset' = Append(dataset,
       IF prior = 0 THEN Dataset(Len(dataset) + 1, 1, definition)
       ELSE Dataset(dataset[prior].family, dataset[prior].number + 1, definition))
  /\ UNCHANGED <<running, evaluation>>

\* Takes the lock and reads the corpus at one moment, which is that of every search.
RunBegins(q) ==
  /\ running = Null
  /\ Len(evaluation) < MaxEvaluations
  /\ Latest(q)
  /\ running' = Under(q, clock, Corpus(clock), Null, FALSE)
  /\ UNCHANGED <<dataset, evaluation>>

\* slow: some search took longer than max_case_ms.
RunScores(slow) ==
  /\ running # Null /\ running.hits = Null
  /\ LET hits == [c \in CasesOf(running.dataset) |-> Retrieved(c, running.at)]
     IN running' = Under(running.dataset, running.at, running.corpus, hits,
                         /\ ~slow
                         /\ \A c \in DOMAIN hits : CasePasses(c, hits[c], running.corpus))
  /\ UNCHANGED <<dataset, evaluation>>

\* The corpus is read again before the report is stored.
RunCommits ==
  /\ running # Null /\ running.hits # Null
  /\ Corpus(clock) = running.corpus
  /\ evaluation' = Append(evaluation,
       Evaluation(running.dataset, running.corpus, running.hits, running.passed, "none"))
  /\ running' = Null
  /\ UNCHANGED dataset

\* The corpus has changed, the time budget is spent, or the process dies.
RunRollsBack ==
  /\ running # Null
  /\ running' = Null
  /\ UNCHANGED <<dataset, evaluation>>

\* acceptance_blockers of a run, as computed when it is read.
Blocked(r) ==
  \/ Corpus(clock) # evaluation[r].corpus
  \/ ~Latest(evaluation[r].dataset)
  \/ ~evaluation[r].passed
  \/ evaluation[r].corpus = {}
  \/ ~dataset[evaluation[r].dataset].definition.complete

ReviewEval(r, decision) ==
  /\ running = Null
  /\ evaluation[r].decision = "none"
  /\ decision = "accept_baseline" => ~Blocked(r)
  /\ evaluation' = [evaluation EXCEPT ![r] =
       Evaluation(@.dataset, @.corpus, @.hits, @.passed, decision)]
  /\ UNCHANGED <<dataset, running>>

BaselineCurrent(r) == evaluation[r].decision = "accept_baseline" /\ ~Blocked(r)

-------------------------------------------------------------------------------
EvalInit == dataset = <<>> /\ running = Null /\ evaluation = <<>>

EvalNext ==
  \/ \E definition \in Definitions, prior \in {0} \cup DOMAIN dataset :
       SubmitEval(definition, prior)
  \/ \E q \in DOMAIN dataset : RunBegins(q)
  \/ \E slow \in BOOLEAN : RunScores(slow)
  \/ RunCommits
  \/ RunRollsBack
  \/ \E r \in DOMAIN evaluation, decision \in Decisions \ {"none"} : ReviewEval(r, decision)

\* What takes no lock: the worker, readers and time.
Unlocked ==
  \/ \E i \in DOMAIN index : FinishIndex(i) \/ OpenPage(i)
  \/ Tick

BothNext ==
  \/ EvalNext /\ UNCHANGED knowledgeVars
  \/ running # Null /\ Unlocked /\ UNCHANGED evalVars
  \/ running = Null /\ KnowledgeNext /\ UNCHANGED evalVars

BothSpec == KnowledgeInit /\ EvalInit /\ [][BothNext]_<<knowledgeVars, evalVars>>

-------------------------------------------------------------------------------
(* Properties *)

EvalTypeOK ==
  /\ dataset \in Seq(Datasets)
  /\ evaluation \in Seq({evaluation[r] : r \in DOMAIN evaluation})
  /\ \A r \in DOMAIN evaluation :
       evaluation[r].dataset \in DOMAIN dataset /\ evaluation[r].decision \in Decisions
  /\ running # Null => running.dataset \in DOMAIN dataset

\* A baseline called current answers today as its report says, passage by passage, after
\* whatever was activated, archived, reindexed or has expired since, and passes with the
\* latest questions (corpus_hash, baseline_current).
BaselineDescribesToday ==
  \A r \in DOMAIN evaluation : BaselineCurrent(r) =>
    LET q == evaluation[r].dataset
    IN /\ \A other \in DOMAIN dataset :
            dataset[other].family = dataset[q].family => other <= q
       /\ \A c \in CasesOf(q) :
            /\ evaluation[r].hits[c] = Retrieved(c, clock)
            /\ CasePasses(c, Retrieved(c, clock), Corpus(clock))

-------------------------------------------------------------------------------
(* The inductive invariant behind it *)

\* What the search finds of a case in a corpus, by the corpus alone.
FoundIn(c, corpus) ==
  {s.index : s \in {x \in corpus : x.text \in c.answers /\ Narrowed(c, x.visibility)}}

\* A corpus is a snapshot of rows that never change again.
Snapshot(corpus) == \A s \in corpus : s.index \in DOMAIN index /\ s = Source(s.index)

\* hits and passed are what the corpus gives for the questions of set q.
Reports(q, corpus, hits, passed) ==
  /\ hits = [c \in CasesOf(q) |-> FoundIn(c, corpus)]
  /\ passed => \A c \in CasesOf(q) : CasePasses(c, FoundIn(c, corpus), corpus)

\* Each revision has a higher number than the earlier ones of its family.
DatasetsStand ==
  \A q \in DOMAIN dataset :
    /\ dataset[q].family \in 1..q
    /\ \A other \in 1..(q - 1) :
         dataset[other].family = dataset[q].family => dataset[other].number < dataset[q].number

\* The run under way reads one moment's corpus, whatever the worker and time do meanwhile.
RunningStands ==
  running # Null =>
    /\ running.corpus = Corpus(running.at)
    /\ running.hits # Null =>
         Reports(running.dataset, running.corpus, running.hits, running.passed)

EvaluationsStand ==
  \A r \in DOMAIN evaluation :
    LET e == evaluation[r]
    IN Snapshot(e.corpus) /\ Reports(e.dataset, e.corpus, e.hits, e.passed)

EvalInv == EvalTypeOK /\ DatasetsStand /\ RunningStands /\ EvaluationsStand
=============================================================================
