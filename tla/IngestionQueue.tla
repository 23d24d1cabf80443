---------------------------- MODULE IngestionQueue ----------------------------
(***************************************************************************)
(* The knowledge processing queues of one workspace: uploaded files        *)
(* (knowledge_files) that are scanned and parsed, and text indexes         *)
(* (knowledge_indexes) that are normalised and cut into chunks.  Both      *)
(* share one life cycle (services/ingestion_state.py, migration 0009):     *)
(* queued, processing under a lease, then ready, failed or cancelled.  A   *)
(* failed file may be retried on request; an index never is.               *)
(*                                                                         *)
(* A claim and a finish are two transactions with the parsing between      *)
(* them; cancelling, retrying, reconciling, revoking the author's rights   *)
(* and archiving the document may all happen in between.  The claim reads  *)
(* again every column the pending list was selected by, so reading that    *)
(* list is not a step of its own.  The append-only event rows are written  *)
(* by a trigger, one per update, and follow from the rows.                 *)
(***************************************************************************)
EXTENDS Integers, FiniteSets

CONSTANTS
  Files, Indexes,   \* identities of the two kinds of jobs
  PrivateIndexes,   \* indexes of documents visible to owners only
  Actors, Keys,     \* users and the idempotency keys they send
  Workers,          \* worker processes
  FileQuota,        \* files one user may ever upload to a workspace
  MaxAttempts,      \* claims of one file
  ReconcileBatch,   \* LIMIT of smm_ingestion_reconcile
  None              \* SQL NULL, or "no value"

Jobs == Files \cup Indexes

ASSUME JobsAssumption ==
  /\ Files \cap Indexes = {}
  /\ PrivateIndexes \subseteq Indexes
ASSUME LimitsAssumption ==
  /\ FileQuota \in Nat
  /\ MaxAttempts \in Nat \ {0}
  /\ ReconcileBatch \in Nat \ {0}
ASSUME FiniteAssumption == IsFiniteSet(Actors) /\ IsFiniteSet(Keys)
ASSUME NoneAssumption ==
  /\ None \notin Jobs \cup Actors \cup Keys \cup Workers
  /\ None \notin Workers \X Nat
  /\ None \notin [job : Jobs, version : Nat]

VARIABLES
  access,        \* each user's rights in the workspace
  source,        \* the document version an index is made from
  job,           \* knowledge_files and knowledge_indexes rows
  result,        \* knowledge_extractions or chunks: the attempt that stored them
  cancelReceipt, \* knowledge_job_receipts, by (actor, key)
  retryReceipt,  \* knowledge_file_retry_receipts, by (actor, key)
  worker         \* what each worker is processing (lost when it dies)

vars == <<access, source, job, result, cancelReceipt, retryReceipt, worker>>

-------------------------------------------------------------------------------
(* Rows *)

Closed == {"ready", "failed", "cancelled"}
States == {"absent", "queued", "processing"} \cup Closed

\* What matters of error_code is whether RETRYABLE holds it.
Errors == {"none", "transient", "permanent"}

\* The token of a lease is fresh in every claim: the worker with the attempt.
Token(w, n) == <<w, n>>

Row == [state : States, version : Nat, actor : Actors \cup {None},
        key : Keys \cup {None}, attempts : Nat,
        lease : (Workers \X Nat) \cup {None}, leaseUntil : {"null", "live", "past"},
        finished : BOOLEAN, error : Errors, aged : BOOLEAN]

AbsentRow == [state |-> "absent", version |-> 0, actor |-> None, key |-> None,
              attempts |-> 0, lease |-> None, leaseUntil |-> "null",
              finished |-> FALSE, error |-> "none", aged |-> FALSE]

Created(a, k) ==
  [AbsentRow EXCEPT !.state = "queued", !.version = 1, !.actor = a, !.key = k]

Claimed(row, w) ==
  [row EXCEPT !.state = "processing", !.version = @ + 1, !.attempts = @ + 1,
              !.lease = Token(w, row.attempts + 1), !.leaseUntil = "live",
              !.finished = FALSE]

\* ingestion_state.finish; the reconciler makes the same update.
Finished(row, st, e) ==
  [row EXCEPT !.state = st, !.error = e, !.version = @ + 1,
              !.finished = TRUE, !.leaseUntil = "null"]

\* Mutant: a retry keeps the time the file was finished.
RequeuedFinished(row) ==
  [row EXCEPT !.state = "queued", !.error = "none", !.version = @ + 1,
              !.leaseUntil = "null"]

Requeued(row) ==
  [row EXCEPT !.state = "queued", !.error = "none", !.version = @ + 1,
              !.finished = FALSE, !.leaseUntil = "null"]

Exists(j) == job[j].state # "absent"

Idle == [job |-> None, token |-> None]

-------------------------------------------------------------------------------
(* Rights (smm_file_access, the knowledge row policies, allowed) *)

\* Owners see every job; an editor or strategist sees his own, and of indexes only
\* those of documents visible to the whole workspace.
Sees(a, j) ==
  \/ access[a] = "owner"
  \/ access[a] = "editor" /\ job[j].actor = a /\ j \notin PrivateIndexes

\* The user the job works for still has the right to it.
Allowed(j) == Sees(job[j].actor, j)

Usable(j) == j \in Indexes => source[j] = "current"

-------------------------------------------------------------------------------
(* The database trigger smm_ingestion_transition, BEFORE UPDATE on both tables *)

IngestionTransition(j, old, new, stored) ==
  /\ \/ old.state = "queued" /\ new.state \in {"processing", "failed", "cancelled"}
     \/ old.state = "processing" /\ new.state \in Closed
     \/ /\ j \in Files
        /\ old.state = "failed" /\ new.state = "queued"
        /\ old.attempts < MaxAttempts /\ old.error = "transient" /\ ~old.aged
  /\ new.version = old.version + 1
  /\ new.actor = old.actor /\ new.key = old.key
  /\ IF new.state = "processing"
     THEN /\ new.attempts = old.attempts + 1 /\ new.attempts <= MaxAttempts
          /\ new.lease # None /\ new.lease # old.lease
          /\ new.leaseUntil # "null" /\ ~new.finished
     ELSE /\ new.attempts = old.attempts /\ new.lease = old.lease
          /\ new.leaseUntil = "null"
          /\ new.finished <=> new.state # "queued"
  /\ new.state = "ready" => old.leaseUntil = "live" /\ stored

-------------------------------------------------------------------------------
(* Commands *)

\* KnowledgeFileService.submit: the lifetime quota is per user.  A rescan is a
\* submit of the stored original under a new key.
SubmitFile(a, k, f) ==
  /\ access[a] \in {"owner", "editor"}
  /\ \A g \in Files : Exists(g) => <<job[g].actor, job[g].key>> # <<a, k>>
  /\ Cardinality({g \in Files : job[g].actor = a}) < FileQuota
  /\ ~Exists(f)
  /\ job' = [job EXCEPT ![f] = Created(a, k)]
  /\ UNCHANGED <<access, source, result, cancelReceipt, retryReceipt, worker>>

\* KnowledgeService._queue, behind a submitted text or a reindex command, whose
\* idempotency belongs to the knowledge receipts.  An expired version is queued.
QueueIndex(a, i) ==
  /\ access[a] = "owner" \/ (access[a] = "editor" /\ i \notin PrivateIndexes)
  /\ source[i] # "archived"
  /\ ~Exists(i)
  /\ job' = [job EXCEPT ![i] = Created(a, None)]
  /\ UNCHANGED <<access, source, result, cancelReceipt, retryReceipt, worker>>

\* The receipt answers a repeated key; the expected version makes a decision that
\* was taken on an older row a conflict.  Processing is not waited for.
Cancel(a, k, j) ==
  /\ Sees(a, j)
  /\ cancelReceipt[<<a, k>>] = None
  /\ job[j].state \in {"queued", "processing"}
  /\ job' = [job EXCEPT ![j] = Finished(@, "cancelled", "permanent")]
  /\ cancelReceipt' =
       [cancelReceipt EXCEPT ![<<a, k>>] = [job |-> j, version |-> job'[j].version]]
  /\ UNCHANGED <<access, source, result, retryReceipt, worker>>

\* The file goes back to the queue for its author, who must still be allowed; the
\* caller names the number of attempts he saw.
Retry(a, k, f) ==
  /\ Exists(f) /\ Sees(a, f)
  /\ retryReceipt[<<a, k>>] = None
  /\ Allowed(f)
  /\ job[f].state = "failed" /\ job[f].error = "transient"
  /\ job[f].attempts < MaxAttempts
  /\ ~job[f].aged
  /\ job' = [job EXCEPT ![f] = Requeued(@)]
  /\ retryReceipt' = [retryReceipt EXCEPT ![<<a, k>>] = f]
  /\ UNCHANGED <<access, source, result, cancelReceipt, worker>>

-------------------------------------------------------------------------------
(* Workers (workers/knowledge.py, workers/knowledge_files.py) *)

\* A hidden row, a row no longer queued or an author without rights is left alone.
Claimable(w, j) ==
  /\ worker[w] = Idle
  /\ job[j].state = "queued"
  /\ Allowed(j)

Refused(j) == ~Usable(j) \/ job[j].aged \/ job[j].attempts >= MaxAttempts

\* The claim itself closes a job that waited too long or lost its source.
Refuse(w, j) ==
  /\ Claimable(w, j)
  /\ Refused(j)
  /\ job' = [job EXCEPT ![j] = Finished(@, "failed", "permanent")]
  /\ UNCHANGED <<access, source, result, cancelReceipt, retryReceipt, worker>>

Claim(w, j) ==
  /\ Claimable(w, j)
  /\ ~Refused(j)
  /\ job' = [job EXCEPT ![j] = Claimed(@, w)]
  /\ worker' = [worker EXCEPT ![w] = [job |-> j, token |-> job'[j].lease]]
  /\ UNCHANGED <<access, source, result, cancelReceipt, retryReceipt>>

\* Mutant: the finish compares no token.
HoldsNoToken(w, j) ==
  /\ job[j].state = "processing"
  /\ job[j].leaseUntil = "live"
  /\ Allowed(j)

\* Mutant: the finish does not look at the state, as if a cancel could not happen.
HoldsNoState(w, j) == job[j].lease = worker[w].token /\ Allowed(j)

\* The finish goes on only with the current token, a live lease and the rights.
Holds(w, j) ==
  /\ job[j].state = "processing"
  /\ job[j].lease = worker[w].token
  /\ job[j].leaseUntil = "live"
  /\ Allowed(j)

\* Scanning, parsing and chunking end with an error e; only the scanner, the sandbox
\* and the parser's limits have transient ones.  A source that went away overrides.
Finish(w, e) ==
  LET j  == worker[w].job
      e2 == IF Usable(j) THEN e ELSE "permanent"
  IN
  /\ worker[w] # Idle
  /\ Holds(w, j)
  /\ e = "transient" => j \in Files
  /\ result' = IF e2 = "none" THEN [result EXCEPT ![j] = worker[w].token[2]] ELSE result
  /\ job' = [job EXCEPT ![j] = Finished(@, IF e2 = "none" THEN "ready" ELSE "failed", e2)]
  /\ worker' = [worker EXCEPT ![w] = Idle]
  /\ UNCHANGED <<access, source, cancelReceipt, retryReceipt>>

FinishFenced(w) ==
  /\ worker[w] # Idle
  /\ ~Holds(w, worker[w].job)
  /\ worker' = [worker EXCEPT ![w] = Idle]
  /\ UNCHANGED <<access, source, job, result, cancelReceipt, retryReceipt>>

\* The process dies, or a database error aborts its transaction and its poll.
Crash(w) ==
  /\ worker[w] # Idle
  /\ worker' = [worker EXCEPT ![w] = Idle]
  /\ UNCHANGED <<access, source, job, result, cancelReceipt, retryReceipt>>

-------------------------------------------------------------------------------
(* The reconciler (migration 0009, recovery_loop) *)

\* Mutant: a job whose author lost his rights is left for its worker.
StaleAuthorOnly(j) ==
  /\ job[j].state \in {"queued", "processing"}
  /\ Allowed(j)
  /\ \/ ~Usable(j) \/ job[j].aged
     \/ job[j].state = "processing" /\ job[j].leaseUntil # "live"

Stale(j) ==
  /\ job[j].state \in {"queued", "processing"}
  /\ \/ ~Allowed(j) \/ ~Usable(j) \/ job[j].aged
     \/ job[j].state = "processing" /\ job[j].leaseUntil # "live"

\* Only an interrupted attempt leaves an error that can be retried.
Reason(j) ==
  IF Allowed(j) /\ Usable(j) /\ ~job[j].aged THEN "transient" ELSE "permanent"

\* Mutant: the reconciler itself puts an interrupted file back into the queue.
ReconciledRequeues(j) ==
  IF Reason(j) = "transient" /\ j \in Files /\ job[j].attempts < MaxAttempts
  THEN Requeued(job[j]) ELSE Finished(job[j], "failed", Reason(j))

Reconciled(j) == Finished(job[j], "failed", Reason(j))

\* One call handles one kind and at most ReconcileBatch rows; SKIP LOCKED may leave
\* any of them for the next call.
Reconcile(S) ==
  /\ S # {}
  /\ S \subseteq Files \/ S \subseteq Indexes
  /\ \A j \in S : Stale(j)
  /\ Cardinality(S) <= ReconcileBatch
  /\ job' = [j \in Jobs |-> IF j \in S THEN Reconciled(j) ELSE job[j]]
  /\ UNCHANGED <<access, source, result, cancelReceipt, retryReceipt, worker>>

-------------------------------------------------------------------------------
(* Time, documents and administration *)

LeaseExpires(j) ==
  /\ job[j].state = "processing" /\ job[j].leaseUntil = "live"
  /\ job' = [job EXCEPT ![j].leaseUntil = "past"]
  /\ UNCHANGED <<access, source, result, cancelReceipt, retryReceipt, worker>>

Age(j) ==
  /\ Exists(j) /\ ~job[j].aged
  /\ job' = [job EXCEPT ![j].aged = TRUE]
  /\ UNCHANGED <<access, source, result, cancelReceipt, retryReceipt, worker>>

SourceExpires(i) ==
  /\ source[i] = "current"
  /\ source' = [source EXCEPT ![i] = "expired"]
  /\ UNCHANGED <<access, job, result, cancelReceipt, retryReceipt, worker>>

ArchiveSource(i) ==
  /\ source[i] # "archived"
  /\ source' = [source EXCEPT ![i] = "archived"]
  /\ UNCHANGED <<access, job, result, cancelReceipt, retryReceipt, worker>>

ChangeAccess(a, level) ==
  /\ access[a] # level
  /\ access' = [access EXCEPT ![a] = level]
  /\ UNCHANGED <<source, job, result, cancelReceipt, retryReceipt, worker>>

-------------------------------------------------------------------------------
Init ==
  /\ access \in [Actors -> {"owner", "editor"}]
  /\ source = [i \in Indexes |-> "current"]
  /\ job = [j \in Jobs |-> AbsentRow]
  /\ result = [j \in Jobs |-> 0]
  /\ cancelReceipt = [x \in Actors \X Keys |-> None]
  /\ retryReceipt = [x \in Actors \X Keys |-> None]
  /\ worker = [w \in Workers |-> Idle]

Next ==
  \/ \E a \in Actors, k \in Keys :
       \/ \E f \in Files : SubmitFile(a, k, f) \/ Retry(a, k, f)
       \/ \E j \in Jobs : Cancel(a, k, j)
  \/ \E a \in Actors, i \in Indexes : QueueIndex(a, i)
  \/ \E w \in Workers :
       \/ \E j \in Jobs : Refuse(w, j) \/ Claim(w, j)
       \/ \E e \in Errors : Finish(w, e)
       \/ FinishFenced(w)
       \/ Crash(w)
  \/ \E S \in SUBSET Jobs : Reconcile(S)
  \/ \E j \in Jobs : LeaseExpires(j) \/ Age(j)
  \/ \E i \in Indexes : SourceExpires(i) \/ ArchiveSource(i)
  \/ \E a \in Actors, level \in {"owner", "editor", "none"} : ChangeAccess(a, level)

Spec == Init /\ [][Next]_vars

\* Beat wakes each poll every 30 seconds and a poll begins with the reconciler, whose
\* order (created_at) and batch reach every stale row; the clock advances.
ReconcileOne(j) == Stale(j) /\ \E S \in SUBSET Jobs : j \in S /\ Reconcile(S)

Fairness == \A j \in Jobs : WF_vars(Age(j)) /\ WF_vars(ReconcileOne(j))

FairSpec == Spec /\ Fairness

-------------------------------------------------------------------------------
(* Correctness *)

\* Every table holds what its columns allow.
TypeOK ==
  /\ access \in [Actors -> {"owner", "editor", "none"}]
  /\ source \in [Indexes -> {"current", "expired", "archived"}]
  /\ job \in [Jobs -> Row]
  /\ result \in [Jobs -> Nat]
  /\ cancelReceipt \in [Actors \X Keys -> [job : Jobs, version : Nat] \cup {None}]
  /\ retryReceipt \in [Actors \X Keys -> Files \cup {None}]
  /\ worker \in [Workers -> [job : Jobs \cup {None}, token : (Workers \X Nat) \cup {None}]]

\* Lost workers cannot finalize a newer attempt (workers/knowledge.py, process): a
\* ready job holds the result of its latest attempt and no other job holds any,
\* whatever older attempts were interrupted, retried and came back late.
ResultOfLatestAttempt ==
  \A j \in Jobs :
    IF job[j].state = "ready" THEN result[j] = job[j].attempts /\ result[j] > 0
                              ELSE result[j] = 0

Retries(j) == {x \in Actors \X Keys : retryReceipt[x] = j}

\* Nothing is processed twice on the system's own account: an index is claimed at
\* most once, a file once more for each retry a person asked for, and never more
\* than MaxAttempts times.
RunsOnlyAsAsked ==
  \A j \in Jobs :
    /\ job[j].attempts <= MaxAttempts
    /\ job[j].attempts <= 1 + Cardinality(Retries(j))

\* A cancellation that was confirmed is final: the job stays at the version of the
\* receipt and the worker that was processing it stores nothing.
CancelFinal ==
  \A x \in Actors \X Keys : cancelReceipt[x] # None =>
    LET c == cancelReceipt[x] IN
    /\ job[c.job].state = "cancelled"
    /\ job[c.job].version = c.version
    /\ result[c.job] = 0

ClockStep(j) ==
  \/ job'[j] = [job[j] EXCEPT !.leaseUntil = "past"]
  \/ job'[j] = [job[j] EXCEPT !.aged = TRUE]

\* No update of a command, a worker or the reconciler is one the trigger rejects,
\* and a stored result is never replaced.
TriggersAccept ==
  [][\A j \in Jobs :
       /\ Exists(j) /\ job'[j] # job[j] /\ ~ClockStep(j) =>
            IngestionTransition(j, job[j], job'[j], result'[j] # 0)
       /\ result[j] # 0 => result'[j] = result[j]]_vars

\* Every job is eventually closed for good: retries end with the day.
EveryJobSettles == \A j \in Jobs : Exists(j) ~> [](job[j].state \in Closed)

-------------------------------------------------------------------------------
(* The inductive invariant behind the properties above *)

\* The token in a row is that of its latest attempt, and a job waiting in the queue
\* has a request left that no attempt answered yet.
RowsOK ==
  \A j \in Jobs :
    /\ job[j].attempts = 0 <=> job[j].lease = None
    /\ job[j].lease # None => job[j].lease[2] = job[j].attempts
    /\ job[j].state \in {"processing", "ready"} => job[j].lease # None
    /\ job[j].state = "queued" => job[j].attempts <= Cardinality(Retries(j))

\* A busy worker holds a token, if perhaps one that is not valid any more.
WorkersOK ==
  \A w \in Workers :
    worker[w] # Idle => worker[w].job \in Jobs /\ worker[w].token # None

\* Together with the properties it supports it is preserved by every step.
IInv ==
  /\ TypeOK
  /\ RowsOK /\ WorkersOK
  /\ ResultOfLatestAttempt /\ RunsOnlyAsAsked /\ CancelFinal

===============================================================================
