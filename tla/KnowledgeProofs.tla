------------------------- MODULE KnowledgeProofs -------------------------
(***************************************************************************)
(* Theorems about the three modules of the knowledge side, for every value *)
(* of their constants.  IngestionQueue: every action touches a job in one  *)
(* of seven ways (JobStep); the invariant and the trigger's acceptance are *)
(* proved way by way.  KnowledgeDocuments: no step removes a row or makes  *)
(* one mean something else (Grown), so what a curated text rested on when  *)
(* it was made it rests on for good.  RetrievalEvaluation: a corpus is a   *)
(* set of such rows, so a report keeps describing it.                      *)
(***************************************************************************)
EXTENDS IngestionQueue, RetrievalEvaluation, FiniteSetTheorems, SequenceTheorems, TLAPS

-------------------------------------------------------------------------------
(* Ingestion queues: what a step does to one job *)

Kept(j) == job'[j] = job[j] /\ result'[j] = result[j]

TimePasses(j) ==
  /\ \/ job'[j] = [job[j] EXCEPT !.leaseUntil = "past"]
     \/ job'[j] = [job[j] EXCEPT !.aged = TRUE]
  /\ result'[j] = result[j]

Born(j) ==
  /\ job[j].state = "absent"
  /\ \E a \in Actors, k \in Keys \cup {None} : job'[j] = Created(a, k)
  /\ result'[j] = result[j]

Taken(j) ==
  /\ job[j].state = "queued" /\ job[j].attempts < MaxAttempts
  /\ \E w \in Workers : job'[j] = Claimed(job[j], w)
  /\ result'[j] = result[j]

ClosedWithout(j) ==
  /\ job[j].state \in {"queued", "processing"}
  /\ \E st \in {"failed", "cancelled"}, e \in Errors : job'[j] = Finished(job[j], st, e)
  /\ result'[j] = result[j]

Completed(j) ==
  /\ job[j].state = "processing" /\ job[j].leaseUntil = "live"
  /\ job'[j] = Finished(job[j], "ready", "none")
  /\ result'[j] = job[j].lease[2]

SentBack(j) ==
  /\ j \in Files
  /\ job[j].state = "failed" /\ job[j].error = "transient"
  /\ job[j].attempts < MaxAttempts /\ ~job[j].aged
  /\ job'[j] = Requeued(job[j])
  /\ result'[j] = result[j]
  /\ \E x \in Actors \X Keys : retryReceipt[x] = None /\ retryReceipt'[x] = j

JobStep(j) ==
  \/ Kept(j) \/ TimePasses(j) \/ Born(j) \/ Taken(j)
  \/ ClosedWithout(j) \/ Completed(j) \/ SentBack(j)

-------------------------------------------------------------------------------
(* Ingestion queues: rows *)

\* The fields of every row the writers make, and that each fits the table.
LEMMA CreatedFields ==
  ASSUME NEW a \in Actors, NEW k \in Keys \cup {None}
  PROVE  /\ Created(a, k) \in Row
         /\ Created(a, k).state = "queued" /\ Created(a, k).attempts = 0
         /\ Created(a, k).lease = None
  BY DEF Created, AbsentRow, Row, States, Errors

LEMMA ClaimedFields ==
  ASSUME NEW row \in Row, NEW w \in Workers
  PROVE  LET new == Claimed(row, w) IN
         /\ new \in Row
         /\ new.state = "processing" /\ new.version = row.version + 1
         /\ new.actor = row.actor /\ new.key = row.key
         /\ new.attempts = row.attempts + 1
         /\ new.lease = <<w, row.attempts + 1>>
         /\ new.leaseUntil = "live" /\ ~new.finished
  <1> DEFINE v == row.version + 1
             n == row.attempts + 1
             l == <<w, n>>
             new == [row EXCEPT !.state = "processing", !.version = v, !.attempts = n,
                                !.lease = l, !.leaseUntil = "live", !.finished = FALSE]
  <1>1. v \in Nat /\ n \in Nat /\ l \in Workers \X Nat /\ "processing" \in States
    BY DEF Row, States
  <1>2. Claimed(row, w) = new
    BY DEF Claimed, Token
  <1> HIDE DEF v, n, l
  <1>3. new \in Row
    BY <1>1, Zenon DEF Row
  <1>4. /\ new.state = "processing" /\ new.version = v
        /\ new.actor = row.actor /\ new.key = row.key /\ new.attempts = n
        /\ new.lease = l /\ new.leaseUntil = "live" /\ ~new.finished
    BY Zenon DEF Row
  <1> QED
    BY <1>2, <1>3, <1>4 DEF v, n, l

LEMMA FinishedFields ==
  ASSUME NEW row \in Row, NEW st \in Closed, NEW e \in Errors
  PROVE  LET new == Finished(row, st, e) IN
         /\ new \in Row
         /\ new.state = st /\ new.version = row.version + 1
         /\ new.actor = row.actor /\ new.key = row.key
         /\ new.attempts = row.attempts /\ new.lease = row.lease
         /\ new.leaseUntil = "null" /\ new.finished
  <1> DEFINE v == row.version + 1
             new == [row EXCEPT !.state = st, !.error = e, !.version = v,
                                !.finished = TRUE, !.leaseUntil = "null"]
  <1>1. v \in Nat /\ st \in States
    BY DEF Row, States
  <1>2. Finished(row, st, e) = new
    BY DEF Finished
  <1> HIDE DEF v
  <1>3. new \in Row
    BY <1>1, Zenon DEF Row
  <1>4. /\ new.state = st /\ new.version = v
        /\ new.actor = row.actor /\ new.key = row.key /\ new.attempts = row.attempts
        /\ new.lease = row.lease /\ new.leaseUntil = "null" /\ new.finished
    BY Zenon DEF Row
  <1> QED
    BY <1>2, <1>3, <1>4 DEF v

LEMMA RequeuedFields ==
  ASSUME NEW row \in Row
  PROVE  LET new == Requeued(row) IN
         /\ new \in Row
         /\ new.state = "queued" /\ new.version = row.version + 1
         /\ new.actor = row.actor /\ new.key = row.key
         /\ new.attempts = row.attempts /\ new.lease = row.lease
         /\ new.leaseUntil = "null" /\ ~new.finished
  <1> DEFINE v == row.version + 1
             new == [row EXCEPT !.state = "queued", !.error = "none", !.version = v,
                                !.finished = FALSE, !.leaseUntil = "null"]
  <1>1. v \in Nat /\ "queued" \in States /\ "none" \in Errors
    BY DEF Row, States, Errors
  <1>2. Requeued(row) = new
    BY DEF Requeued
  <1> HIDE DEF v
  <1>3. new \in Row
    BY <1>1, Zenon DEF Row
  <1>4. /\ new.state = "queued" /\ new.version = v
        /\ new.actor = row.actor /\ new.key = row.key /\ new.attempts = row.attempts
        /\ new.lease = row.lease /\ new.leaseUntil = "null" /\ ~new.finished
    BY Zenon DEF Row
  <1> QED
    BY <1>2, <1>3, <1>4 DEF v

LEMMA TimeFields ==
  ASSUME NEW row \in Row,
         NEW new \in {[row EXCEPT !.leaseUntil = "past"], [row EXCEPT !.aged = TRUE]}
  PROVE  /\ new \in Row
         /\ new.state = row.state /\ new.version = row.version
         /\ new.attempts = row.attempts /\ new.lease = row.lease
  BY Zenon DEF Row

-------------------------------------------------------------------------------
(* Ingestion queues: every step of the system is a step of each job *)

\* The commands.
LEMMA CommandSteps ==
  ASSUME IInv, NEW a \in Actors, NEW k \in Keys, NEW j \in Jobs,
         \/ j \in Files /\ (SubmitFile(a, k, j) \/ Retry(a, k, j))
         \/ Cancel(a, k, j)
  PROVE  \A i \in Jobs : JobStep(i)
  <1>1. /\ job \in [Jobs -> Row] /\ retryReceipt \in [Actors \X Keys -> Files \cup {None}]
        /\ "cancelled" \in {"failed", "cancelled"} /\ "permanent" \in Errors
        /\ Files \subseteq Jobs /\ <<a, k>> \in Actors \X Keys
    BY DEF IInv, TypeOK, Jobs, Errors
  <1>2. CASE j \in Files /\ SubmitFile(a, k, j)
    BY <1>1, <1>2 DEF SubmitFile, Exists, JobStep, Kept, Born
  <1>3. CASE Cancel(a, k, j)
    BY <1>1, <1>3 DEF Cancel, JobStep, Kept, ClosedWithout
  <1>4. CASE j \in Files /\ Retry(a, k, j)
    <2>1. /\ job' = [job EXCEPT ![j] = Requeued(job[j])] /\ result' = result
          /\ job[j].state = "failed" /\ job[j].error = "transient"
          /\ job[j].attempts < MaxAttempts /\ ~job[j].aged
          /\ retryReceipt[<<a, k>>] = None
          /\ retryReceipt' = [retryReceipt EXCEPT ![<<a, k>>] = j]
      BY <1>4 DEF Retry
    <2>2. retryReceipt'[<<a, k>>] = j /\ job'[j] = Requeued(job[j])
      BY <1>1, <2>1
    <2>3. SentBack(j)
      BY <1>1, <1>4, <2>1, <2>2 DEF SentBack
    <2> QED
      BY <1>1, <2>1, <2>3 DEF JobStep, Kept
  <1> QED
    BY <1>2, <1>3, <1>4

\* A worker's transactions.
LEMMA WorkerSteps ==
  ASSUME IInv, NEW w \in Workers,
         \/ \E j \in Jobs : Refuse(w, j) \/ Claim(w, j)
         \/ \E e \in Errors : Finish(w, e)
         \/ FinishFenced(w) \/ Crash(w)
  PROVE  \A i \in Jobs : JobStep(i)
  <1>1. /\ job \in [Jobs -> Row] /\ result \in [Jobs -> Nat]
        /\ {"failed", "cancelled"} \subseteq Closed
        /\ "permanent" \in Errors /\ "none" \in Errors
    BY DEF IInv, TypeOK, Closed, Errors
  <1>2. ASSUME NEW j \in Jobs, Refuse(w, j)
        PROVE  \A i \in Jobs : JobStep(i)
    BY <1>1, <1>2 DEF Refuse, Claimable, JobStep, Kept, ClosedWithout
  <1>3. ASSUME NEW j \in Jobs, Claim(w, j)
        PROVE  \A i \in Jobs : JobStep(i)
    <2>1. job[j].attempts \in Nat /\ MaxAttempts \in Nat
      BY <1>1, LimitsAssumption DEF Row
    <2>2. /\ job' = [job EXCEPT ![j] = Claimed(job[j], w)] /\ result' = result
          /\ job[j].state = "queued" /\ job[j].attempts < MaxAttempts
      BY <1>3, <2>1 DEF Claim, Claimable, Refused
    <2> QED
      BY <1>1, <2>2 DEF JobStep, Kept, Taken
  <1>4. ASSUME NEW e \in Errors, Finish(w, e)
        PROVE  \A i \in Jobs : JobStep(i)
    <2> DEFINE j  == worker[w].job
               e2 == IF Usable(j) THEN e ELSE "permanent"
    <2>1. /\ j \in Jobs /\ e2 \in Errors
          /\ job[j].state = "processing" /\ job[j].lease = worker[w].token
          /\ job[j].leaseUntil = "live"
      BY <1>1, <1>4 DEF Finish, Holds, IInv, WorkersOK
    <2>2. /\ result' = IF e2 = "none" THEN [result EXCEPT ![j] = worker[w].token[2]]
                       ELSE result
          /\ job' = [job EXCEPT ![j] =
                       Finished(job[j], IF e2 = "none" THEN "ready" ELSE "failed", e2)]
      BY <1>4 DEF Finish
    <2> HIDE DEF j, e2
    <2>3. CASE e2 = "none"
      BY <1>1, <2>1, <2>2, <2>3 DEF JobStep, Kept, Completed
    <2>4. CASE e2 # "none"
      BY <1>1, <2>1, <2>2, <2>4 DEF JobStep, Kept, ClosedWithout
    <2> QED
      BY <2>3, <2>4
  <1>5. CASE FinishFenced(w) \/ Crash(w)
    BY <1>5 DEF FinishFenced, Crash, JobStep, Kept
  <1> QED
    BY <1>2, <1>3, <1>4, <1>5

\* The reconciler, the clocks and the administration.
LEMMA BackgroundSteps ==
  ASSUME IInv,
         \/ \E S \in SUBSET Jobs : Reconcile(S)
         \/ \E j \in Jobs : LeaseExpires(j) \/ Age(j)
         \/ \E i \in Indexes : SourceExpires(i) \/ ArchiveSource(i)
         \/ \E a \in Actors, level \in {"owner", "editor", "none"} : ChangeAccess(a, level)
         \/ UNCHANGED vars
  PROVE  \A i \in Jobs : JobStep(i)
  <1>1. job \in [Jobs -> Row]
    BY DEF IInv, TypeOK
  <1>2. ASSUME NEW S \in SUBSET Jobs, Reconcile(S)
        PROVE  \A i \in Jobs : JobStep(i)
    <2>1. ASSUME NEW i \in Jobs PROVE JobStep(i)
      <3>1. CASE i \in S
        <4>1. /\ job[i].state \in {"queued", "processing"}
              /\ job'[i] = Finished(job[i], "failed", Reason(i)) /\ result'[i] = result[i]
          BY <1>2, <3>1 DEF Reconcile, Stale, Reconciled
        <4>2. Reason(i) \in Errors
          BY DEF Reason, Errors
        <4> QED
          BY <4>1, <4>2 DEF JobStep, ClosedWithout
      <3>2. CASE i \notin S
        BY <1>2, <3>2 DEF Reconcile, JobStep, Kept
      <3> QED
        BY <3>1, <3>2
    <2> QED
      BY <2>1
  <1>3. ASSUME NEW j \in Jobs, LeaseExpires(j) \/ Age(j)
        PROVE  \A i \in Jobs : JobStep(i)
    BY <1>1, <1>3 DEF LeaseExpires, Age, JobStep, Kept, TimePasses
  <1>4. CASE \/ \E i \in Indexes : SourceExpires(i) \/ ArchiveSource(i)
             \/ \E a \in Actors, level \in {"owner", "editor", "none"} : ChangeAccess(a, level)
             \/ UNCHANGED vars
    BY <1>4 DEF SourceExpires, ArchiveSource, ChangeAccess, vars, JobStep, Kept
  <1> QED
    BY <1>2, <1>3, <1>4

LEMMA NextSteps ==
  ASSUME IInv, [Next]_vars
  PROVE  \A i \in Jobs : JobStep(i)
  <1>1. Files \subseteq Jobs /\ Indexes \subseteq Jobs
    BY DEF Jobs
  <1>2. CASE \E a \in Actors, k \in Keys :
               \/ \E f \in Files : SubmitFile(a, k, f) \/ Retry(a, k, f)
               \/ \E j \in Jobs : Cancel(a, k, j)
    BY <1>1, <1>2, CommandSteps
  <1>3. CASE \E a \in Actors, i \in Indexes : QueueIndex(a, i)
    <2>1. PICK a \in Actors, i \in Indexes : QueueIndex(a, i)
      BY <1>3
    <2>2. job \in [Jobs -> Row] /\ None \in Keys \cup {None}
      BY DEF IInv, TypeOK
    <2> QED
      BY <1>1, <2>1, <2>2 DEF QueueIndex, Exists, JobStep, Kept, Born
  <1>4. CASE \E w \in Workers :
               \/ \E j \in Jobs : Refuse(w, j) \/ Claim(w, j)
               \/ \E e \in Errors : Finish(w, e)
               \/ FinishFenced(w)
               \/ Crash(w)
    BY <1>4, WorkerSteps
  <1>5. CASE \/ \E S \in SUBSET Jobs : Reconcile(S)
             \/ \E j \in Jobs : LeaseExpires(j) \/ Age(j)
             \/ \E i \in Indexes : SourceExpires(i) \/ ArchiveSource(i)
             \/ \E a \in Actors, level \in {"owner", "editor", "none"} : ChangeAccess(a, level)
             \/ UNCHANGED vars
    BY <1>5, BackgroundSteps
  <1> QED
    BY <1>2, <1>3, <1>4, <1>5 DEF Next

-------------------------------------------------------------------------------
(* Ingestion queues: what a step does to the receipts and the workers *)

\* A receipt is written once; that of a cancel names the row the cancel leaves.
LEMMA NextReceipts ==
  ASSUME IInv, [Next]_vars
  PROVE  \A x \in Actors \X Keys :
           /\ \/ retryReceipt'[x] = retryReceipt[x]
              \/ retryReceipt[x] = None /\ retryReceipt'[x] \in Files
           /\ \/ cancelReceipt'[x] = cancelReceipt[x]
              \/ \E j \in Jobs :
                   /\ cancelReceipt'[x] = [job |-> j, version |-> job'[j].version]
                   /\ job'[j].state = "cancelled" /\ result'[j] = 0
  <1> DEFINE Written(x) ==
           /\ \/ retryReceipt'[x] = retryReceipt[x]
              \/ retryReceipt[x] = None /\ retryReceipt'[x] \in Files
           /\ \/ cancelReceipt'[x] = cancelReceipt[x]
              \/ \E j \in Jobs :
                   /\ cancelReceipt'[x] = [job |-> j, version |-> job'[j].version]
                   /\ job'[j].state = "cancelled" /\ result'[j] = 0
  <1>1. /\ job \in [Jobs -> Row]
        /\ retryReceipt \in [Actors \X Keys -> Files \cup {None}]
        /\ cancelReceipt \in [Actors \X Keys -> [job : Jobs, version : Nat] \cup {None}]
    BY DEF IInv, TypeOK
  <1>2. ASSUME NEW a \in Actors, NEW k \in Keys, NEW f \in Files, Retry(a, k, f)
        PROVE  \A x \in Actors \X Keys : Written(x)
    BY <1>1, <1>2 DEF Retry
  <1>3. ASSUME NEW a \in Actors, NEW k \in Keys, NEW j \in Jobs, Cancel(a, k, j)
        PROVE  \A x \in Actors \X Keys : Written(x)
    <2>1. /\ job'[j] = Finished(job[j], "cancelled", "permanent")
          /\ result' = result /\ retryReceipt' = retryReceipt
          /\ job[j].state \in {"queued", "processing"}
          /\ cancelReceipt' = [cancelReceipt EXCEPT ![<<a, k>>] =
                                 [job |-> j, version |-> job'[j].version]]
      BY <1>1, <1>3 DEF Cancel
    <2>2. job'[j].state = "cancelled" /\ result'[j] = 0
      BY <1>1, <2>1, FinishedFields DEF Closed, Errors, IInv, ResultOfLatestAttempt
    <2> QED
      BY <1>1, <2>1, <2>2
  <1>4. CASE UNCHANGED <<cancelReceipt, retryReceipt>>
    BY <1>4
  <1>5. \/ \E a \in Actors, k \in Keys, f \in Files : Retry(a, k, f)
        \/ \E a \in Actors, k \in Keys, j \in Jobs : Cancel(a, k, j)
        \/ UNCHANGED <<cancelReceipt, retryReceipt>>
    BY DEF Next, vars, SubmitFile, QueueIndex, Refuse, Claim, Finish, FinishFenced, Crash,
           Reconcile, LeaseExpires, Age, SourceExpires, ArchiveSource, ChangeAccess
  <1> QED
    BY <1>2, <1>3, <1>4, <1>5

\* A worker becomes idle or takes the token of a job it claimed.
LEMMA NextWorkers ==
  ASSUME IInv, [Next]_vars
  PROVE  /\ worker' \in [Workers -> [job : Jobs \cup {None},
                                     token : (Workers \X Nat) \cup {None}]]
         /\ WorkersOK'
  <1> DEFINE Process == [job : Jobs \cup {None}, token : (Workers \X Nat) \cup {None}]
             Good(u) == u \in Process /\ (u # Idle => u.job \in Jobs /\ u.token # None)
  <1>1. worker \in [Workers -> Process] /\ \A w \in Workers : Good(worker[w])
    BY DEF IInv, TypeOK, WorkersOK
  <1>2. Good(Idle)
    BY DEF Idle
  <1>3. ASSUME NEW w \in Workers, NEW j \in Jobs, Claim(w, j)
        PROVE  \E u : Good(u) /\ worker' = [worker EXCEPT ![w] = u]
    <2>1. /\ job' = [job EXCEPT ![j] = Claimed(job[j], w)]
          /\ worker' = [worker EXCEPT ![w] = [job |-> j, token |-> job'[j].lease]]
      BY <1>3 DEF Claim
    <2>2. job[j] \in Row /\ job'[j] = Claimed(job[j], w)
      BY <2>1 DEF IInv, TypeOK
    <2>3. job'[j].lease = <<w, job[j].attempts + 1>> /\ job[j].attempts \in Nat
      BY <2>2, ClaimedFields DEF Row
    <2>4. job'[j].lease \in Workers \X Nat /\ job'[j].lease # None
      BY <2>3, NoneAssumption
    <2> DEFINE t == job'[j].lease
    <2> HIDE DEF t
    <2>5. [job |-> j, token |-> t].job = j /\ [job |-> j, token |-> t].token = t
      OBVIOUS
    <2>6. Good([job |-> j, token |-> t])
      BY <2>4, <2>5 DEF t
    <2> QED
      BY <2>1, <2>6 DEF t
  <1>4. \/ worker' = worker
        \/ \E w \in Workers : worker' = [worker EXCEPT ![w] = Idle]
        \/ \E w \in Workers, j \in Jobs : Claim(w, j)
    BY DEF Next, vars, SubmitFile, Retry, Cancel, QueueIndex, Refuse, Finish, FinishFenced,
           Crash, Reconcile, LeaseExpires, Age, SourceExpires, ArchiveSource, ChangeAccess
  <1>5. worker' = worker \/ \E w \in Workers : \E u : Good(u) /\ worker' = [worker EXCEPT ![w] = u]
    BY <1>2, <1>3, <1>4
  <1>6. worker' \in [Workers -> Process] /\ \A w \in Workers : Good(worker'[w])
    BY <1>1, <1>5
  <1> QED
    BY <1>6 DEF WorkersOK

-------------------------------------------------------------------------------
(* Ingestion queues: the invariant *)

LEMMA RetriesFinite ==
  ASSUME NEW j
  PROVE  IsFiniteSet(Retries(j)) /\ Cardinality(Retries(j)) \in Nat
  <1>1. IsFiniteSet(Actors \X Keys)
    BY FiniteAssumption, FS_Product
  <1>2. Retries(j) \subseteq Actors \X Keys
    BY DEF Retries
  <1> QED
    BY <1>1, <1>2, FS_Subset, FS_CardinalityType

\* Retry receipts only accumulate, and a job sent back has one more.
LEMMA RetriesGrow ==
  ASSUME IInv, [Next]_vars, NEW j \in Jobs
  PROVE  /\ Cardinality(Retries(j)) <= Cardinality(Retries(j)')
         /\ SentBack(j) => Cardinality(Retries(j)) < Cardinality(Retries(j)')
         /\ Cardinality(Retries(j)) \in Nat /\ Cardinality(Retries(j)') \in Nat
  <1> DEFINE old == Retries(j)
             new == {x \in Actors \X Keys : retryReceipt'[x] = j}
  <1>1. new = Retries(j)'
    BY DEF Retries
  <1>2. IsFiniteSet(Actors \X Keys)
    BY FiniteAssumption, FS_Product
  <1>3. IsFiniteSet(new) /\ IsFiniteSet(old)
    BY <1>2, FS_Subset DEF Retries
  <1>4. old \subseteq new
    BY NextReceipts, NoneAssumption DEF Retries
  <1>5. Cardinality(old) \in Nat /\ Cardinality(new) \in Nat /\ Cardinality(old) <= Cardinality(new)
    BY <1>3, <1>4, FS_Subset, FS_CardinalityType
  <1>6. ASSUME SentBack(j) PROVE Cardinality(old) < Cardinality(new)
    <2>1. PICK x \in Actors \X Keys : retryReceipt[x] = None /\ retryReceipt'[x] = j
      BY <1>6 DEF SentBack
    <2>2. x \notin old /\ x \in new
      BY <2>1, NoneAssumption DEF Retries
    <2>3. Cardinality(old) # Cardinality(new)
      BY <1>3, <1>4, <2>2, FS_Subset
    <2> QED
      BY <1>5, <2>3
  <1> QED
    BY <1>1, <1>5, <1>6

LEMMA InitInv == Init => IInv
  <1>1. AbsentRow \in Row
    BY DEF AbsentRow, Row, States, Errors
  <1>2. ASSUME Init PROVE TypeOK
    BY <1>1, <1>2 DEF Init, TypeOK, Idle
  <1>3. ASSUME Init PROVE RowsOK /\ WorkersOK
    BY <1>3 DEF Init, RowsOK, WorkersOK, AbsentRow
  <1>4. ASSUME Init PROVE ResultOfLatestAttempt /\ CancelFinal
    BY <1>4 DEF Init, ResultOfLatestAttempt, CancelFinal, AbsentRow
  <1>5. ASSUME Init, NEW j \in Jobs
        PROVE  job[j].attempts <= MaxAttempts /\ job[j].attempts <= 1 + Cardinality(Retries(j))
    <2>1. Cardinality(Retries(j)) \in Nat
      BY RetriesFinite
    <2>2. job[j].attempts = 0
      BY <1>5 DEF Init, AbsentRow
    <2> QED
      BY <2>1, <2>2, LimitsAssumption
  <1> QED
    BY <1>2, <1>3, <1>4, <1>5 DEF IInv, RunsOnlyAsAsked

\* Every table stays a table over the same rows.
LEMMA NextTables ==
  ASSUME IInv, [Next]_vars
  PROVE  /\ access' \in [Actors -> {"owner", "editor", "none"}]
         /\ source' \in [Indexes -> {"current", "expired", "archived"}]
         /\ job' = [j \in Jobs |-> job'[j]] /\ result' = [j \in Jobs |-> result'[j]]
         /\ cancelReceipt' = [x \in Actors \X Keys |-> cancelReceipt'[x]]
         /\ retryReceipt' = [x \in Actors \X Keys |-> retryReceipt'[x]]
  <1> USE DEF IInv, TypeOK
  <1>1. /\ access' \in [Actors -> {"owner", "editor", "none"}]
        /\ source' \in [Indexes -> {"current", "expired", "archived"}]
    BY DEF Next, vars, SubmitFile, Retry, Cancel, QueueIndex, Refuse, Claim, Finish, FinishFenced,
           Crash, Reconcile, LeaseExpires, Age, SourceExpires, ArchiveSource, ChangeAccess
  <1>2. job' = [j \in Jobs |-> job'[j]]
    BY DEF Next, vars, SubmitFile, Retry, Cancel, QueueIndex, Refuse, Claim, Finish, FinishFenced,
           Crash, Reconcile, LeaseExpires, Age, SourceExpires, ArchiveSource, ChangeAccess
  <1>3. result' = [j \in Jobs |-> result'[j]]
    BY DEF Next, vars, SubmitFile, Retry, Cancel, QueueIndex, Refuse, Claim, Finish, FinishFenced,
           Crash, Reconcile, LeaseExpires, Age, SourceExpires, ArchiveSource, ChangeAccess
  <1>4. /\ cancelReceipt' = [x \in Actors \X Keys |-> cancelReceipt'[x]]
        /\ retryReceipt' = [x \in Actors \X Keys |-> retryReceipt'[x]]
    BY DEF Next, vars, SubmitFile, Retry, Cancel, QueueIndex, Refuse, Claim, Finish, FinishFenced,
           Crash, Reconcile, LeaseExpires, Age, SourceExpires, ArchiveSource, ChangeAccess
  <1> QED
    BY <1>1, <1>2, <1>3, <1>4

\* One job's part of the invariant, way by way.
JobOK(j) ==
  /\ job[j] \in Row /\ result[j] \in Nat
  /\ job[j].attempts = 0 <=> job[j].lease = None
  /\ job[j].lease # None => job[j].lease[2] = job[j].attempts
  /\ job[j].state \in {"processing", "ready"} => job[j].lease # None
  /\ job[j].state = "queued" => job[j].attempts <= Cardinality(Retries(j))
  /\ IF job[j].state = "ready" THEN result[j] = job[j].attempts /\ result[j] > 0
                               ELSE result[j] = 0
  /\ job[j].attempts <= MaxAttempts
  /\ job[j].attempts <= 1 + Cardinality(Retries(j))

LEMMA InvOfJobs ==
  TypeOK /\ RowsOK /\ ResultOfLatestAttempt /\ RunsOnlyAsAsked => \A j \in Jobs : JobOK(j)
  BY DEF TypeOK, RowsOK, ResultOfLatestAttempt, RunsOnlyAsAsked, JobOK

LEMMA JobKept ==
  ASSUME IInv, [Next]_vars, NEW j \in Jobs
  PROVE  JobOK(j)'
  <1> DEFINE c == Cardinality(Retries(j))
             d == Cardinality(Retries(j)')
  <1>1. JobOK(j)
    BY InvOfJobs DEF IInv
  <1>2. c \in Nat /\ d \in Nat /\ c <= d /\ (SentBack(j) => c < d)
    BY RetriesGrow
  <1>3. job[j] \in Row /\ job[j].attempts \in Nat /\ result[j] \in Nat
    BY <1>1 DEF JobOK, Row
  <1>4. /\ Cardinality(Retries(j))' = d
        /\ {"failed", "cancelled", "ready"} = Closed /\ "none" \in Errors
    BY DEF Closed, Errors
  <1>5. MaxAttempts \in Nat \ {0}
    BY LimitsAssumption
  <1> HIDE DEF c, d
  <1>6. CASE Kept(j) \/ TimePasses(j)
    <2>1. /\ job'[j] \in Row /\ job'[j].state = job[j].state
          /\ job'[j].attempts = job[j].attempts /\ job'[j].lease = job[j].lease
          /\ result'[j] = result[j]
      BY <1>3, <1>6, TimeFields DEF Kept, TimePasses
    <2> QED
      BY <1>1, <1>2, <1>3, <1>4, <2>1 DEF JobOK, c
  <1>7. CASE Born(j)
    <2>1. /\ job'[j] \in Row /\ job'[j].state = "queued" /\ job'[j].attempts = 0
          /\ job'[j].lease = None /\ result'[j] = 0
      BY <1>1, <1>7, CreatedFields DEF Born, JobOK
    <2> QED
      BY <1>2, <1>4, <1>5, <2>1 DEF JobOK
  <1>8. CASE Taken(j)
    <2>1. PICK w \in Workers : job'[j] = Claimed(job[j], w)
      BY <1>8 DEF Taken
    <2>2. /\ job'[j] \in Row /\ job'[j].state = "processing"
          /\ job'[j].attempts = job[j].attempts + 1
          /\ job'[j].lease = <<w, job[j].attempts + 1>>
      BY <1>3, <2>1, ClaimedFields
    <2>3. job'[j].lease # None /\ job'[j].lease[2] = job'[j].attempts
      BY <1>3, <2>2, NoneAssumption
    <2>4. result'[j] = 0 /\ job[j].attempts < MaxAttempts /\ job[j].attempts <= c
      BY <1>1, <1>8 DEF Taken, JobOK, c
    <2> QED
      BY <1>2, <1>3, <1>4, <1>5, <2>2, <2>3, <2>4 DEF JobOK
  <1>9. CASE ClosedWithout(j)
    <2>1. /\ job'[j] \in Row /\ job'[j].state \in {"failed", "cancelled"}
          /\ job'[j].attempts = job[j].attempts /\ job'[j].lease = job[j].lease
      <3>1. PICK st \in {"failed", "cancelled"}, e \in Errors :
                   job'[j] = Finished(job[j], st, e)
        BY <1>9 DEF ClosedWithout
      <3>2. st \in Closed
        BY <1>4
      <3> QED
        BY <1>3, <3>1, <3>2, FinishedFields
    <2>2. result'[j] = 0
      BY <1>1, <1>9 DEF ClosedWithout, JobOK
    <2> QED
      BY <1>1, <1>2, <1>3, <1>4, <2>1, <2>2 DEF JobOK, c
  <1>10. CASE Completed(j)
    <2>1. /\ job'[j] \in Row /\ job'[j].state = "ready"
          /\ job'[j].attempts = job[j].attempts /\ job'[j].lease = job[j].lease
      BY <1>3, <1>4, <1>10, FinishedFields DEF Completed
    <2>2. job[j].lease # None /\ result'[j] = job[j].attempts /\ job[j].attempts # 0
      BY <1>1, <1>10 DEF Completed, JobOK
    <2> QED
      BY <1>1, <1>2, <1>3, <1>4, <2>1, <2>2 DEF JobOK, c
  <1>11. CASE SentBack(j)
    <2>1. /\ job'[j] \in Row /\ job'[j].state = "queued"
          /\ job'[j].attempts = job[j].attempts /\ job'[j].lease = job[j].lease
      BY <1>3, <1>11, RequeuedFields DEF SentBack
    <2>2. result'[j] = 0
      BY <1>1, <1>11 DEF SentBack, JobOK
    <2> QED
      BY <1>1, <1>2, <1>3, <1>4, <1>11, <2>1, <2>2 DEF JobOK, c
  <1> QED
    BY NextSteps, <1>6, <1>7, <1>8, <1>9, <1>10, <1>11 DEF JobStep

LEMMA NextType ==
  ASSUME IInv, [Next]_vars
  PROVE  TypeOK'
  <1>1. job' \in [Jobs -> Row] /\ result' \in [Jobs -> Nat]
    BY JobKept, NextTables DEF JobOK
  <1>2. retryReceipt' \in [Actors \X Keys -> Files \cup {None}]
    <2>1. \A x \in Actors \X Keys : retryReceipt'[x] \in Files \cup {None}
      BY NextReceipts DEF IInv, TypeOK
    <2> QED
      BY <2>1, NextTables
  <1>3. cancelReceipt' \in [Actors \X Keys -> [job : Jobs, version : Nat] \cup {None}]
    <2>1. ASSUME NEW x \in Actors \X Keys
          PROVE  cancelReceipt'[x] \in [job : Jobs, version : Nat] \cup {None}
      <3>1. \A j \in Jobs : job'[j].version \in Nat
        BY <1>1 DEF Row
      <3>2. CASE cancelReceipt'[x] = cancelReceipt[x]
        BY <3>2 DEF IInv, TypeOK
      <3>3. ASSUME NEW j \in Jobs,
                   cancelReceipt'[x] = [job |-> j, version |-> job'[j].version]
            PROVE  cancelReceipt'[x] \in [job : Jobs, version : Nat]
        <4> DEFINE v == job'[j].version
        <4>1. v \in Nat
          BY <3>1
        <4> HIDE DEF v
        <4>2. [job |-> j, version |-> v] \in [job : Jobs, version : Nat]
          BY <4>1
        <4> QED
          BY <3>3, <4>2 DEF v
      <3> QED
        BY <3>2, <3>3, NextReceipts
    <2> QED
      BY <2>1, NextTables
  <1> QED
    BY <1>1, <1>2, <1>3, NextTables, NextWorkers DEF TypeOK

\* A cancelled job is left as it is by every step.
LEMMA CancelledStays ==
  ASSUME IInv, [Next]_vars, NEW j \in Jobs, job[j].state = "cancelled"
  PROVE  /\ job'[j].state = "cancelled" /\ job'[j].version = job[j].version
         /\ result'[j] = result[j]
  <1>1. job[j] \in Row
    BY DEF IInv, TypeOK
  <1>2. Kept(j) \/ TimePasses(j)
    BY NextSteps DEF JobStep, Born, Taken, ClosedWithout, Completed, SentBack
  <1> QED
    BY <1>1, <1>2, TimeFields DEF Kept, TimePasses

LEMMA NextCancelFinal ==
  ASSUME IInv, [Next]_vars
  PROVE  CancelFinal'
  <1> SUFFICES ASSUME NEW x \in Actors \X Keys, cancelReceipt'[x] # None
               PROVE  /\ job'[cancelReceipt'[x].job].state = "cancelled"
                      /\ job'[cancelReceipt'[x].job].version = cancelReceipt'[x].version
                      /\ result'[cancelReceipt'[x].job] = 0
    BY DEF CancelFinal
  <1>1. CASE cancelReceipt'[x] = cancelReceipt[x]
    <2> DEFINE j == cancelReceipt[x].job
    <2>1. j \in Jobs
      BY <1>1 DEF IInv, TypeOK
    <2>2. job[j].state = "cancelled" /\ job[j].version = cancelReceipt[x].version /\ result[j] = 0
      BY <1>1 DEF IInv, CancelFinal
    <2> QED
      BY <1>1, <2>1, <2>2, CancelledStays
  <1>2. CASE \E j \in Jobs :
               /\ cancelReceipt'[x] = [job |-> j, version |-> job'[j].version]
               /\ job'[j].state = "cancelled" /\ result'[j] = 0
    BY <1>2
  <1> QED
    BY <1>1, <1>2, NextReceipts

LEMMA NextInv ==
  ASSUME IInv, [Next]_vars
  PROVE  IInv'
  <1>1. RowsOK' /\ ResultOfLatestAttempt' /\ RunsOnlyAsAsked'
    BY JobKept DEF JobOK, RowsOK, ResultOfLatestAttempt, RunsOnlyAsAsked
  <1> QED
    BY <1>1, NextType, NextWorkers, NextCancelFinal DEF IInv

-------------------------------------------------------------------------------
(* Ingestion queues: the database accepts every update *)

LEMMA StepAccepted ==
  ASSUME IInv, [Next]_vars, NEW j \in Jobs
  PROVE  /\ Exists(j) /\ job'[j] # job[j] /\ ~ClockStep(j) =>
              IngestionTransition(j, job[j], job'[j], result'[j] # 0)
         /\ result[j] # 0 => result'[j] = result[j]
  <1> DEFINE accepted == IngestionTransition(j, job[j], job'[j], result'[j] # 0)
  <1>1. JobOK(j) /\ JobOK(j)'
    BY InvOfJobs, JobKept DEF IInv
  <1>2. job[j] \in Row /\ job[j].attempts \in Nat
    BY <1>1 DEF JobOK, Row
  <1>3. {"failed", "cancelled", "ready"} = Closed /\ "none" \in Errors
    BY DEF Closed, Errors
  <1>4. CASE Kept(j) \/ TimePasses(j) \/ Born(j)
    BY <1>4 DEF Kept, TimePasses, Born, ClockStep, Exists
  <1>5. CASE Taken(j)
    <2>1. PICK w \in Workers : job'[j] = Claimed(job[j], w)
      BY <1>5 DEF Taken
    <2>2. /\ job'[j].state = "processing" /\ job'[j].version = job[j].version + 1
          /\ job'[j].actor = job[j].actor /\ job'[j].key = job[j].key
          /\ job'[j].attempts = job[j].attempts + 1
          /\ job'[j].lease = <<w, job[j].attempts + 1>>
          /\ job'[j].leaseUntil = "live" /\ ~job'[j].finished
      BY <1>2, <2>1, ClaimedFields
    <2>3. job'[j].lease # None /\ job'[j].lease[2] = job[j].attempts + 1
      BY <1>2, <2>2, NoneAssumption
    <2>4. job'[j].lease # job[j].lease
      BY <1>1, <1>2, <2>3 DEF JobOK
    <2>5. /\ job[j].state = "queued" /\ result'[j] = result[j]
          /\ job'[j].attempts <= MaxAttempts
      BY <1>1, <1>5 DEF Taken, JobOK
    <2>6. accepted
      BY <2>2, <2>3, <2>4, <2>5 DEF IngestionTransition
    <2> QED
      BY <2>5, <2>6
  <1>6. CASE ClosedWithout(j)
    <2>1. PICK st \in {"failed", "cancelled"}, e \in Errors : job'[j] = Finished(job[j], st, e)
      BY <1>6 DEF ClosedWithout
    <2>2. /\ job'[j].state = st /\ job'[j].version = job[j].version + 1
          /\ job'[j].actor = job[j].actor /\ job'[j].key = job[j].key
          /\ job'[j].attempts = job[j].attempts /\ job'[j].lease = job[j].lease
          /\ job'[j].leaseUntil = "null" /\ job'[j].finished
      <3>1. st \in Closed
        BY <1>3
      <3> QED
        BY <1>2, <2>1, <3>1, FinishedFields
    <2>3. job[j].state \in {"queued", "processing"} /\ result'[j] = result[j]
      BY <1>6 DEF ClosedWithout
    <2>4. accepted
      BY <1>3, <2>2, <2>3 DEF IngestionTransition
    <2> QED
      BY <2>3, <2>4
  <1>7. CASE Completed(j)
    <2>1. /\ job'[j].state = "ready" /\ job'[j].version = job[j].version + 1
          /\ job'[j].actor = job[j].actor /\ job'[j].key = job[j].key
          /\ job'[j].attempts = job[j].attempts /\ job'[j].lease = job[j].lease
          /\ job'[j].leaseUntil = "null" /\ job'[j].finished
      BY <1>2, <1>3, <1>7, FinishedFields DEF Completed
    <2>2. job[j].state = "processing" /\ job[j].leaseUntil = "live"
      BY <1>7 DEF Completed
    <2>3. result[j] = 0 /\ result'[j] # 0
      BY <1>1, <2>1, <2>2 DEF JobOK
    <2>4. accepted
      BY <1>3, <2>1, <2>2, <2>3 DEF IngestionTransition
    <2> QED
      BY <2>3, <2>4
  <1>8. CASE SentBack(j)
    <2>1. /\ job'[j].state = "queued" /\ job'[j].version = job[j].version + 1
          /\ job'[j].actor = job[j].actor /\ job'[j].key = job[j].key
          /\ job'[j].attempts = job[j].attempts /\ job'[j].lease = job[j].lease
          /\ job'[j].leaseUntil = "null" /\ ~job'[j].finished
      BY <1>2, <1>8, RequeuedFields DEF SentBack
    <2>2. accepted
      BY <1>8, <2>1 DEF SentBack, IngestionTransition
    <2> QED
      BY <1>8, <2>2 DEF SentBack
  <1> QED
    BY NextSteps, <1>4, <1>5, <1>6, <1>7, <1>8 DEF JobStep

-------------------------------------------------------------------------------
(* Ingestion queues: theorems *)

\* The invariant holds in every reachable state, for any number of jobs, users and
\* workers, any limits and any interleaving of crashes, cancels, retries and recovery.
THEOREM Invariant == Spec => []IInv
  <1>1. Init => IInv
    BY InitInv
  <1>2. IInv /\ [Next]_vars => IInv'
    BY NextInv
  <1> QED
    BY <1>1, <1>2, PTL DEF Spec

\* Every table always holds what its columns allow.
THEOREM TypeCorrect == Spec => []TypeOK
  <1>1. IInv => TypeOK
    BY DEF IInv
  <1> QED
    BY <1>1, Invariant, PTL

\* A stored result is that of the latest attempt: no lost worker finalizes a newer one.
THEOREM ResultFresh == Spec => []ResultOfLatestAttempt
  <1>1. IInv => ResultOfLatestAttempt
    BY DEF IInv
  <1> QED
    BY <1>1, Invariant, PTL

\* Every attempt answers a request: the first one or a retry, within the limit.
THEOREM AttemptsAsked == Spec => []RunsOnlyAsAsked
  <1>1. IInv => RunsOnlyAsAsked
    BY DEF IInv
  <1> QED
    BY <1>1, Invariant, PTL

\* A confirmed cancellation is never undone nor overtaken by a late worker.
THEOREM CancelKept == Spec => []CancelFinal
  <1>1. IInv => CancelFinal
    BY DEF IInv
  <1> QED
    BY <1>1, Invariant, PTL

\* The transition trigger accepts every update of commands, workers and reconciler.
THEOREM UpdatesAccepted == Spec => TriggersAccept
  <1> DEFINE Accepted ==
        \A j \in Jobs :
          /\ Exists(j) /\ job'[j] # job[j] /\ ~ClockStep(j) =>
               IngestionTransition(j, job[j], job'[j], result'[j] # 0)
          /\ result[j] # 0 => result'[j] = result[j]
  <1>1. IInv /\ [Next]_vars => Accepted
    BY StepAccepted
  <1>2. Spec => [][Accepted]_vars
    BY <1>1, Invariant, PTL DEF Spec
  <1> QED
    BY <1>2 DEF TriggersAccept

-------------------------------------------------------------------------------
(* Knowledge documents: rows *)

\* Appending a row keeps the others where they are.
LEMMA RowAppended ==
  ASSUME NEW S, NEW s \in Seq(S), NEW x \in S
  PROVE  /\ Append(s, x) \in Seq(S)
         /\ Len(s) \in Nat /\ Len(Append(s, x)) = Len(s) + 1
         /\ DOMAIN s = 1..Len(s)
         /\ DOMAIN Append(s, x) = DOMAIN s \cup {Len(s) + 1}
         /\ Len(s) + 1 \notin DOMAIN s
         /\ \A n \in DOMAIN s : Append(s, x)[n] = s[n]
         /\ Append(s, x)[Len(s) + 1] = x
  <1>1. Len(s) \in Nat /\ DOMAIN s = 1..Len(s)
    BY LenProperties
  <1>2. /\ Append(s, x) \in Seq(S)
        /\ Len(Append(s, x)) = Len(s) + 1
        /\ \A n \in 1..Len(s) : Append(s, x)[n] = s[n]
        /\ Append(s, x)[Len(s) + 1] = x
    BY AppendProperties, LenProperties
  <1>3. DOMAIN Append(s, x) = 1..(Len(s) + 1)
    BY <1>2, LenProperties
  <1>4. 1..(Len(s) + 1) = 1..Len(s) \cup {Len(s) + 1} /\ Len(s) + 1 \notin 1..Len(s)
    BY <1>1
  <1> QED
    BY <1>1, <1>2, <1>3, <1>4

\* So does replacing one.
LEMMA RowReplaced ==
  ASSUME NEW S, NEW s \in Seq(S), NEW n \in DOMAIN s, NEW x \in S
  PROVE  LET t == [s EXCEPT ![n] = x]
         IN  /\ t \in Seq(S) /\ DOMAIN t = DOMAIN s
             /\ t[n] = x /\ \A k \in DOMAIN s \ {n} : t[k] = s[k]
  BY ExceptSeq, LenProperties

LEMMA RowOf ==
  ASSUME NEW S, NEW s \in Seq(S), NEW n \in DOMAIN s
  PROVE  s[n] \in S /\ n \in Nat \ {0}
  BY ElementOfSeq, LenProperties

LEMMA DocumentRows ==
  /\ \A visibility \in Visibility, number \in Nat \ {0}, archived \in BOOLEAN, active \in Nat :
       LET row == Document(visibility, number, archived, active)
       IN  row \in Documents /\ row.visibility = visibility /\ row.active = active
  /\ \A row \in Documents :
       /\ Bumped(row) \in Documents
       /\ Bumped(row).visibility = row.visibility /\ Bumped(row).active = row.active
       /\ row.visibility \in Visibility /\ row.version + 1 \in Nat \ {0}
       /\ row.archived \in BOOLEAN /\ row.active \in Nat
  BY DEF Document, Documents, Bumped

LEMMA VersionRows ==
  ASSUME NEW d \in Nat, NEW text \in Texts, NEW period \in Periods,
         NEW file \in Originals \cup {Null}
  PROVE  LET row == Version(d, text, period, file)
         IN  /\ row \in Versions /\ row.doc = d
             /\ row.from = period.from /\ row.to = period.to
  BY PeriodsAssumption DEF Version, Versions

\* What no step ever does to a row: remove it, move it to another document, make it more
\* public, change a version, unmake an index or touch a reviewed proposal.
Grown ==
  /\ DOMAIN document \subseteq DOMAIN document'
  /\ DOMAIN version \subseteq DOMAIN version'
  /\ DOMAIN index \subseteq DOMAIN index'
  /\ DOMAIN note \subseteq DOMAIN note'
  /\ \A d \in DOMAIN document : document'[d].visibility = document[d].visibility
  /\ \A v \in DOMAIN version : version'[v] = version[v]
  /\ \A i \in DOMAIN index : /\ index'[i].version = index[i].version
                             /\ index[i].ready => index'[i].ready
  /\ \A n \in DOMAIN note : note[n].decision # "none" => note'[n] = note[n]
  /\ activated \subseteq activated'
  /\ clock' \in Nat /\ clock <= clock'

\* Passages, their versions and whom they are visible to stay what they were.
LEMMA PassagesStay ==
  ASSUME KnowledgeInv, Grown
  PROVE  \A i \in DOMAIN index :
           /\ i \in DOMAIN index'
           /\ index[i].version \in DOMAIN version /\ VersionOf(i).doc \in DOMAIN document
           /\ index'[i].version = index[i].version
           /\ VersionOf(i)' = VersionOf(i)
           /\ DocumentOf(i)'.visibility = DocumentOf(i).visibility
           /\ ItemOf(i)' = ItemOf(i)
  BY DEF KnowledgeInv, RowsStand, Grown, VersionOf, DocumentOf, ItemOf

LEMMA NotesKept ==
  ASSUME KnowledgeInv, Grown, NEW n \in DOMAIN note, note'[n] = note[n]
  PROVE  /\ Basis(n)' = Basis(n)
         /\ Basis(n)' \subseteq activated'
         /\ \A i \in Basis(n)' : VersionOf(i)'.from <= clock'
         /\ note'[n].decision = "accept_for_curation" => note'[n].kind = "memory"
  <1>1. Basis(n)' = Basis(n)
    BY DEF Basis
  <1>2. Basis(n) \subseteq activated /\ activated \subseteq activated'
    BY DEF KnowledgeInv, NotesStand, Grown
  <1>3. ASSUME NEW i \in Basis(n) PROVE VersionOf(i)'.from <= clock'
    <2>1. i \in DOMAIN index /\ VersionOf(i).from <= clock
      BY <1>2 DEF KnowledgeInv, NotesStand, RowsStand
    <2>2. VersionOf(i)' = VersionOf(i) /\ VersionOf(i) \in Versions
      BY <2>1, PassagesStay, RowOf DEF VersionOf, KnowledgeInv, KnowledgeTypeOK
    <2>3. clock \in Nat /\ clock' \in Nat /\ clock <= clock' /\ VersionOf(i).from \in Nat
      BY <2>2, BoundsAssumption DEF Grown, KnowledgeInv, KnowledgeTypeOK, Versions
    <2> QED
      BY <2>1, <2>2, <2>3
  <1> QED
    BY <1>1, <1>2, <1>3 DEF KnowledgeInv, NotesStand

LEMMA AllNotesKept ==
  ASSUME KnowledgeInv, Grown, note' = note
  PROVE  NotesStand'
  BY NotesKept DEF NotesStand

\* A curated text keeps its origin.
LEMMA OriginKept ==
  ASSUME KnowledgeInv, Grown, NEW m \in memory
  PROVE  OriginStands(m)'
  <1> DEFINE n == m.note
  <1>1. OriginStands(m) /\ n \in DOMAIN note
    BY DEF KnowledgeInv, MemoryStands, OriginStands
  <1>2. note'[n] = note[n] /\ n \in DOMAIN note'
    BY <1>1 DEF OriginStands, Grown
  <1>3. Basis(n)' = Basis(n) /\ Basis(n) \subseteq DOMAIN index
    BY <1>1, <1>2 DEF Basis, KnowledgeInv, NotesStand, RowsStand
  <1>4. \A i \in Basis(n) : /\ VersionOf(i)' = VersionOf(i) /\ ItemOf(i)' = ItemOf(i)
                            /\ DocumentOf(i)'.visibility = DocumentOf(i).visibility
    BY <1>3, PassagesStay
  <1>5. /\ m.version \in DOMAIN version' /\ version'[m.version] = version[m.version]
        /\ document'[m.doc].visibility = document[m.doc].visibility
    BY <1>1 DEF OriginStands, Grown, KnowledgeInv, RowsStand
  <1>6. m.evidence = {ItemOf(i)' : i \in Basis(n)'}
    BY <1>1, <1>3, <1>4 DEF OriginStands
  <1> QED
    BY <1>1, <1>2, <1>3, <1>4, <1>5, <1>6 DEF OriginStands

LEMMA MemoryKept ==
  ASSUME KnowledgeInv, Grown, memory' = memory
  PROVE  MemoryStands'
  BY OriginKept DEF KnowledgeInv, MemoryStands

\* What was put in force stays so.
LEMMA ForceKept ==
  ASSUME KnowledgeInv, Grown, NEW i, NEW d, PutInForce(i, d)
  PROVE  PutInForce(i, d)'
  <1>1. i \in DOMAIN index /\ i \in activated' /\ index'[i].ready
    BY DEF KnowledgeInv, RowsStand, PutInForce, Grown
  <1>2. VersionOf(i)' = VersionOf(i) /\ VersionOf(i) \in Versions
    BY <1>1, PassagesStay, RowOf DEF VersionOf, KnowledgeInv, KnowledgeTypeOK
  <1>3. clock \in Nat /\ clock' \in Nat /\ clock <= clock' /\ VersionOf(i).from \in Nat
    BY <1>2, BoundsAssumption DEF Grown, KnowledgeInv, KnowledgeTypeOK, Versions
  <1> QED
    BY <1>1, <1>2, <1>3 DEF PutInForce

-------------------------------------------------------------------------------
(* Knowledge documents: commands *)

\* Every table but the documents' holds what it held.
LEMMA TypesKept ==
  ASSUME KnowledgeTypeOK, document' \in Seq(Documents),
         UNCHANGED <<version, index, note, memory, activated, page, clock>>
  PROVE  KnowledgeTypeOK'
  BY DEF KnowledgeTypeOK

\* The rows a submission makes; all the others stay.
LEMMA StartedRows ==
  ASSUME KnowledgeTypeOK, NEW visibility \in Visibility, NEW text \in Texts,
         NEW period \in Periods, NEW file \in Originals \cup {Null},
         Started(visibility, text, period, file)
  PROVE  /\ document' \in Seq(Documents) /\ version' \in Seq(Versions) /\ index' \in Seq(IndexRows)
         /\ DOMAIN document' = DOMAIN document \cup {Len(document) + 1}
         /\ DOMAIN version' = DOMAIN version \cup {Len(version) + 1}
         /\ DOMAIN index' = DOMAIN index \cup {Len(index) + 1}
         /\ Len(document) + 1 \in Nat /\ Len(version) + 1 \in Nat /\ Len(index) + 1 \in Nat
         /\ Len(document) + 1 \notin DOMAIN document
         /\ Len(version) + 1 \notin DOMAIN version
         /\ Len(index) + 1 \notin DOMAIN index
         /\ \A d \in DOMAIN document : document'[d] = document[d]
         /\ \A v \in DOMAIN version : version'[v] = version[v]
         /\ \A i \in DOMAIN index : index'[i] = index[i]
         /\ document'[Len(document) + 1].visibility = visibility
         /\ document'[Len(document) + 1].active = 0
         /\ version'[Len(version) + 1].doc = Len(document) + 1
         /\ version'[Len(version) + 1].to = period.to
         /\ index'[Len(index) + 1].version = Len(version) + 1
  <1> DEFINE d == Len(document) + 1
             row == Document(visibility, 1, FALSE, 0)
             text1 == Version(d, text, period, file)
             queued == [version |-> Len(version) + 1, ready |-> FALSE]
  <1>1. row \in Documents /\ row.visibility = visibility /\ row.active = 0
    BY DEF Document, Documents
  <1>2. Len(document) \in Nat /\ Len(version) \in Nat
    BY LenProperties DEF KnowledgeTypeOK
  <1>3. text1 \in Versions /\ text1.doc = d /\ text1.to = period.to
    BY <1>2, VersionRows
  <1>4. queued \in IndexRows /\ queued.version = Len(version) + 1
    BY <1>2 DEF IndexRows
  <1>5. /\ document' = Append(document, row) /\ version' = Append(version, text1)
        /\ index' = Append(index, queued)
    BY DEF Started
  <1> HIDE DEF row, text1, queued
  <1>6. document \in Seq(Documents) /\ version \in Seq(Versions) /\ index \in Seq(IndexRows)
    BY DEF KnowledgeTypeOK
  <1>7. /\ document' \in Seq(Documents) /\ DOMAIN document' = DOMAIN document \cup {d}
        /\ d \in Nat /\ d \notin DOMAIN document
        /\ \A e \in DOMAIN document : document'[e] = document[e]
        /\ document'[d] = row
    BY <1>1, <1>2, <1>5, <1>6, RowAppended
  <1>8. /\ version' \in Seq(Versions) /\ DOMAIN version' = DOMAIN version \cup {Len(version) + 1}
        /\ Len(version) + 1 \in Nat /\ Len(version) + 1 \notin DOMAIN version
        /\ \A v \in DOMAIN version : version'[v] = version[v]
        /\ version'[Len(version) + 1] = text1
    BY <1>2, <1>3, <1>5, <1>6, RowAppended
  <1>9. /\ index' \in Seq(IndexRows) /\ DOMAIN index' = DOMAIN index \cup {Len(index) + 1}
        /\ Len(index) + 1 \in Nat /\ Len(index) + 1 \notin DOMAIN index
        /\ \A i \in DOMAIN index : index'[i] = index[i]
        /\ index'[Len(index) + 1] = queued
    BY <1>4, <1>5, <1>6, RowAppended
  <1> QED
    BY <1>1, <1>3, <1>4, <1>7, <1>8, <1>9

\* A new document leaves all that was in force in force and changes no passage.
LEMMA StartedStands ==
  ASSUME KnowledgeInv, NEW visibility \in Visibility, NEW text \in Texts,
         NEW period \in Periods, NEW file \in Originals \cup {Null},
         Started(visibility, text, period, file),
         UNCHANGED <<note, activated, page, clock>>
  PROVE  Grown /\ RowsStand' /\ (memory' \subseteq Memories => KnowledgeTypeOK')
  <1>1. KnowledgeTypeOK /\ RowsStand
    BY DEF KnowledgeInv
  <1> DEFINE e == Len(document) + 1
             u == Len(version) + 1
             j == Len(index) + 1
  <1>2. /\ document' \in Seq(Documents) /\ version' \in Seq(Versions) /\ index' \in Seq(IndexRows)
        /\ DOMAIN document' = DOMAIN document \cup {e}
        /\ DOMAIN version' = DOMAIN version \cup {u}
        /\ DOMAIN index' = DOMAIN index \cup {j}
        /\ \A d \in DOMAIN document : document'[d] = document[d]
        /\ \A v \in DOMAIN version : version'[v] = version[v]
        /\ \A i \in DOMAIN index : index'[i] = index[i]
        /\ document'[e].active = 0 /\ version'[u].doc = e /\ index'[j].version = u
    BY <1>1, StartedRows
  <1> HIDE DEF e, u, j
  <1>3. clock' \in Nat /\ clock <= clock'
    BY <1>1, BoundsAssumption DEF KnowledgeTypeOK
  <1>4. Grown
    BY <1>2, <1>3 DEF Grown
  <1>5. RowsStand'
    <2>1. \A v \in DOMAIN version' : version'[v].doc \in DOMAIN document'
      BY <1>1, <1>2 DEF RowsStand
    <2>2. \A i \in DOMAIN index' : index'[i].version \in DOMAIN version'
      BY <1>1, <1>2 DEF RowsStand
    <2>3. ASSUME NEW d \in DOMAIN document', document'[d].active # 0
          PROVE  PutInForce(document[d].active, d)'
      <3>1. d \in DOMAIN document /\ document'[d] = document[d]
        BY <1>2, <2>3
      <3>2. PICK i : i = document[d].active
        OBVIOUS
      <3>3. PutInForce(i, d) /\ document'[d].active = i
        BY <1>1, <2>3, <3>1, <3>2 DEF RowsStand
      <3> QED
        BY <1>4, <3>3, ForceKept
    <2>4. /\ activated' \subseteq DOMAIN index'
          /\ page' # Null => page'.index \in DOMAIN index'
      BY <1>1, <1>2 DEF RowsStand
    <2> QED
      BY <2>1, <2>2, <2>3, <2>4 DEF RowsStand
  <1>6. memory' \subseteq Memories => KnowledgeTypeOK'
    BY <1>1, <1>2 DEF KnowledgeTypeOK
  <1> QED
    BY <1>4, <1>5, <1>6

LEMMA SubmitDocumentInv ==
  ASSUME KnowledgeInv, NEW visibility \in Visibility, NEW text \in Texts,
         NEW period \in Periods, NEW file \in Originals \cup {Null},
         SubmitDocument(visibility, text, period, file)
  PROVE  KnowledgeInv' /\ Grown
  <1>1. Started(visibility, text, period, file) /\ UNCHANGED <<note, memory, activated, page, clock>>
    BY DEF SubmitDocument
  <1>2. memory' \subseteq Memories
    BY <1>1 DEF KnowledgeInv, KnowledgeTypeOK
  <1>3. Grown /\ RowsStand' /\ KnowledgeTypeOK'
    BY <1>1, <1>2, StartedStands
  <1> QED
    BY <1>1, <1>3, AllNotesKept, MemoryKept DEF KnowledgeInv

\* What is curated rests on passages that may all be cited at this moment.
LEMMA CurateMemoryInv ==
  ASSUME KnowledgeInv, NEW visibility \in Visibility, NEW text \in Texts,
         NEW period \in Periods, NEW n \in DOMAIN note,
         CurateMemory(n, visibility, text, period)
  PROVE  KnowledgeInv' /\ Grown
  <1>1. /\ Curable(n) /\ VisibilityFits(n, visibility) /\ PeriodFits(n, period)
        /\ Started(visibility, text, period, Null)
        /\ UNCHANGED <<note, activated, page, clock>>
    BY DEF CurateMemory
  <1>a. PICK e : e = Len(document) + 1
    OBVIOUS
  <1>b. PICK u : u = Len(version) + 1
    OBVIOUS
  <1>c. PICK new : new = [note |-> n, doc |-> e, version |-> u, index |-> Len(index) + 1,
                          evidence |-> MemoryEvidence(n)]
    OBVIOUS
  <1>2. memory' = memory \cup {new}
    BY <1>a, <1>b, <1>c DEF CurateMemory
  <1>3. Null \in Originals \cup {Null} /\ KnowledgeTypeOK
    BY DEF KnowledgeInv
  <1>4. /\ e \in DOMAIN document' /\ u \in DOMAIN version'
        /\ e \notin DOMAIN document
        /\ e \in Nat /\ u \in Nat /\ Len(index) + 1 \in Nat
        /\ document'[e].visibility = visibility
        /\ version'[u].doc = e /\ version'[u].to = period.to
    BY <1>1, <1>3, <1>a, <1>b, StartedRows
  <1>5. MemoryEvidence(n) = {ItemOf(i) : i \in Basis(n)}
    BY <1>1 DEF MemoryEvidence, Curable
  <1>6. Basis(n) \subseteq DOMAIN index
    BY DEF KnowledgeInv, NotesStand, RowsStand
  <1>7. MemoryEvidence(n) \in SUBSET Item
    <2>1. ASSUME NEW i \in Basis(n) PROVE ItemOf(i) \in Item
      <3>1. index[i].version \in DOMAIN version /\ VersionOf(i).doc \in DOMAIN document /\ i \in Nat
        BY <1>3, <1>6, RowOf DEF KnowledgeInv, RowsStand, KnowledgeTypeOK, VersionOf
      <3>2. VersionOf(i) \in Versions /\ DocumentOf(i) \in Documents
        BY <1>3, <3>1, RowOf DEF KnowledgeTypeOK, VersionOf, DocumentOf
      <3> QED
        BY <3>1, <3>2 DEF ItemOf, Item, Versions, Documents
    <2> QED
      BY <1>5, <2>1
  <1>8. n \in Nat
    BY <1>3, RowOf DEF KnowledgeTypeOK
  <1>9. new \in Memories
    BY <1>4, <1>7, <1>8, <1>c DEF Memories
  <1>10. /\ new.note = n /\ new.doc = e /\ new.version = u
         /\ new.evidence = {ItemOf(i) : i \in Basis(n)}
    BY <1>5, <1>c
  <1>11. Grown /\ RowsStand' /\ KnowledgeTypeOK'
    BY <1>1, <1>2, <1>3, <1>9, StartedStands DEF KnowledgeTypeOK
  <1>12. OriginStands(new)'
    <2>1. Basis(n)' = Basis(n) /\ note' = note
      BY <1>1 DEF Basis
    <2>2. \A i \in Basis(n) : /\ VersionOf(i)' = VersionOf(i) /\ ItemOf(i)' = ItemOf(i)
                              /\ DocumentOf(i)'.visibility = DocumentOf(i).visibility
      BY <1>6, <1>11, PassagesStay
    <2>3. new.evidence = {ItemOf(i)' : i \in Basis(n)'}
      BY <1>10, <2>1, <2>2
    <2>4. note[n].decision = "accept_for_curation" /\ period.to <= note[n].to
      BY <1>1 DEF Curable, PeriodFits
    <2>5. \A i \in Basis(n) : period.to <= VersionOf(i).to
      BY <1>1 DEF PeriodFits
    <2>6. visibility = "workspace" => \A i \in Basis(n) : DocumentOf(i).visibility = "workspace"
      BY <1>1 DEF VisibilityFits
    <2> QED
      BY <1>4, <1>10, <2>1, <2>2, <2>3, <2>4, <2>5, <2>6 DEF OriginStands
  <1>13. MemoryStands'
    <2>1. \A m \in memory : OriginStands(m)'
      BY <1>11, OriginKept
    <2>2. \A m \in memory : m.note # n
      BY <1>1 DEF Curable
    <2>3. \A m \in memory : m.doc \in DOMAIN document
      BY DEF KnowledgeInv, MemoryStands, OriginStands, RowsStand
    <2>4. \A m \in memory : m.note # new.note /\ m.doc # new.doc
      BY <1>4, <1>10, <2>2, <2>3
    <2> QED
      BY <1>2, <1>12, <2>1, <2>4 DEF KnowledgeInv, MemoryStands
  <1> QED
    BY <1>1, <1>11, <1>13, AllNotesKept DEF KnowledgeInv

\* Where nothing comes into force, what is in force stays.
LEMMA RowsKept ==
  ASSUME KnowledgeInv, Grown,
         \A v \in DOMAIN version' : version'[v].doc \in DOMAIN document',
         \A i \in DOMAIN index' : index'[i].version \in DOMAIN version',
         activated' = activated,
         DOMAIN document' = DOMAIN document,
         \A d \in DOMAIN document : document'[d].active = document[d].active,
         page' # Null => page'.index \in DOMAIN index'
  PROVE  RowsStand'
  <1>1. ASSUME NEW d \in DOMAIN document', document'[d].active # 0
        PROVE  PutInForce(document[d].active, d)'
    <2>1. PICK i : i = document[d].active
      OBVIOUS
    <2>2. PutInForce(i, d) /\ document'[d].active = i
      BY <1>1, <2>1 DEF KnowledgeInv, RowsStand
    <2> QED
      BY <2>2, ForceKept
  <1>2. activated' \subseteq DOMAIN index'
    BY DEF KnowledgeInv, RowsStand, Grown
  <1> QED
    BY <1>1, <1>2 DEF RowsStand

\* So do the curated texts and the proposals they were made of.
LEMMA InvKept ==
  ASSUME KnowledgeInv, Grown, KnowledgeTypeOK', RowsStand', UNCHANGED <<note, memory>>
  PROVE  KnowledgeInv'
  BY AllNotesKept, MemoryKept DEF KnowledgeInv

\* The row of a document is replaced by one as public.
LEMMA DocumentReplaced ==
  ASSUME KnowledgeInv, NEW d \in DOMAIN document, NEW row \in Documents,
         row.visibility = document[d].visibility,
         document' = [document EXCEPT ![d] = row]
  PROVE  /\ document' \in Seq(Documents) /\ DOMAIN document' = DOMAIN document
         /\ document'[d] = row
         /\ \A e \in DOMAIN document \ {d} : document'[e] = document[e]
         /\ \A e \in DOMAIN document : document'[e].visibility = document[e].visibility
  <1>1. document \in Seq(Documents)
    BY DEF KnowledgeInv, KnowledgeTypeOK
  <1>2. /\ document' \in Seq(Documents) /\ DOMAIN document' = DOMAIN document
        /\ document'[d] = row /\ \A e \in DOMAIN document \ {d} : document'[e] = document[e]
    BY <1>1, RowReplaced
  <1> QED
    BY <1>2

\* A further index of a version.
LEMMA IndexAppended ==
  ASSUME KnowledgeInv, NEW v \in Nat, index' = Append(index, [version |-> v, ready |-> FALSE])
  PROVE  /\ index' \in Seq(IndexRows)
         /\ DOMAIN index \subseteq DOMAIN index'
         /\ \A i \in DOMAIN index : index'[i] = index[i]
         /\ \A i \in DOMAIN index' \ DOMAIN index : index'[i].version = v
  <1>1. PICK row : row = [version |-> v, ready |-> FALSE]
    OBVIOUS
  <1>2. row \in IndexRows /\ row.version = v /\ index \in Seq(IndexRows)
    BY <1>1 DEF IndexRows, KnowledgeInv, KnowledgeTypeOK
  <1>3. index' = Append(index, row)
    BY <1>1
  <1> QED
    BY <1>2, <1>3, RowAppended

LEMMA SubmitVersionInv ==
  ASSUME KnowledgeInv, NEW d \in DOMAIN document, NEW text \in Texts, NEW period \in Periods,
         NEW file \in Originals \cup {Null}, SubmitVersion(d, text, period, file)
  PROVE  KnowledgeInv' /\ Grown
  <1>1. /\ document' = [document EXCEPT ![d] = Bumped(document[d])]
        /\ version' = Append(version, Version(d, text, period, file))
        /\ index' = Append(index, [version |-> Len(version) + 1, ready |-> FALSE])
        /\ UNCHANGED <<note, memory, activated, page, clock>>
    BY DEF SubmitVersion
  <1>2. /\ document[d] \in Documents /\ d \in Nat
        /\ version \in Seq(Versions) /\ Len(version) + 1 \in Nat
    BY RowOf, LenProperties DEF KnowledgeInv, KnowledgeTypeOK
  <1>3. PICK row : row = Bumped(document[d])
    OBVIOUS
  <1>4. /\ row \in Documents /\ row.visibility = document[d].visibility
        /\ row.active = document[d].active
    BY <1>2, <1>3, DocumentRows
  <1>5. /\ document' \in Seq(Documents) /\ DOMAIN document' = DOMAIN document
        /\ document'[d] = row
        /\ \A e \in DOMAIN document \ {d} : document'[e] = document[e]
        /\ \A e \in DOMAIN document : document'[e].visibility = document[e].visibility
    BY <1>1, <1>3, <1>4, DocumentReplaced
  <1>6. PICK new : new = Version(d, text, period, file)
    OBVIOUS
  <1>7. new \in Versions /\ new.doc = d
    BY <1>2, <1>6, VersionRows
  <1>8. /\ version' \in Seq(Versions) /\ DOMAIN version' = DOMAIN version \cup {Len(version) + 1}
        /\ \A v \in DOMAIN version : version'[v] = version[v]
        /\ version'[Len(version) + 1] = new
    BY <1>1, <1>2, <1>6, <1>7, RowAppended
  <1>9. /\ index' \in Seq(IndexRows) /\ DOMAIN index \subseteq DOMAIN index'
        /\ \A i \in DOMAIN index : index'[i] = index[i]
        /\ \A i \in DOMAIN index' \ DOMAIN index : index'[i].version = Len(version) + 1
    BY <1>1, <1>2, IndexAppended
  <1>10. clock' \in Nat /\ clock <= clock'
    BY <1>1, BoundsAssumption DEF KnowledgeInv, KnowledgeTypeOK
  <1>11. Grown
    BY <1>1, <1>5, <1>8, <1>9, <1>10 DEF Grown
  <1>12. KnowledgeTypeOK'
    BY <1>1, <1>5, <1>8, <1>9 DEF KnowledgeInv, KnowledgeTypeOK
  <1>13. RowsStand'
    <2>1. \A v \in DOMAIN version' : version'[v].doc \in DOMAIN document'
      BY <1>5, <1>7, <1>8 DEF KnowledgeInv, RowsStand
    <2>2. \A i \in DOMAIN index' : index'[i].version \in DOMAIN version'
      BY <1>8, <1>9 DEF KnowledgeInv, RowsStand
    <2>3. \A e \in DOMAIN document : document'[e].active = document[e].active
      BY <1>4, <1>5
    <2>4. page' # Null => page'.index \in DOMAIN index'
      BY <1>1, <1>9 DEF KnowledgeInv, RowsStand
    <2> QED
      BY <1>1, <1>5, <1>11, <2>1, <2>2, <2>3, <2>4, RowsKept
  <1> QED
    BY <1>1, <1>11, <1>12, <1>13, InvKept

LEMMA ReindexDocumentInv ==
  ASSUME KnowledgeInv, NEW v \in DOMAIN version, ReindexDocument(v)
  PROVE  KnowledgeInv' /\ Grown
  <1>1. PICK d : d = version[v].doc
    OBVIOUS
  <1>2. /\ document' = [document EXCEPT ![d] = Bumped(document[d])]
        /\ index' = Append(index, [version |-> v, ready |-> FALSE])
        /\ UNCHANGED <<version, note, memory, activated, page, clock>>
    BY <1>1 DEF ReindexDocument
  <1>3. d \in DOMAIN document /\ document[d] \in Documents /\ v \in Nat
    BY <1>1, RowOf DEF KnowledgeInv, KnowledgeTypeOK, RowsStand
  <1>4. PICK row : row = Bumped(document[d])
    OBVIOUS
  <1>5. /\ row \in Documents /\ row.visibility = document[d].visibility
        /\ row.active = document[d].active
    BY <1>3, <1>4, DocumentRows
  <1>6. /\ document' \in Seq(Documents) /\ DOMAIN document' = DOMAIN document
        /\ document'[d] = row
        /\ \A e \in DOMAIN document \ {d} : document'[e] = document[e]
        /\ \A e \in DOMAIN document : document'[e].visibility = document[e].visibility
    BY <1>2, <1>3, <1>4, <1>5, DocumentReplaced
  <1>7. /\ index' \in Seq(IndexRows) /\ DOMAIN index \subseteq DOMAIN index'
        /\ \A i \in DOMAIN index : index'[i] = index[i]
        /\ \A i \in DOMAIN index' \ DOMAIN index : index'[i].version = v
    BY <1>2, <1>3, IndexAppended
  <1>8. clock' \in Nat /\ clock <= clock'
    BY <1>2, BoundsAssumption DEF KnowledgeInv, KnowledgeTypeOK
  <1>9. Grown
    BY <1>2, <1>6, <1>7, <1>8 DEF Grown
  <1>10. KnowledgeTypeOK'
    BY <1>2, <1>6, <1>7 DEF KnowledgeInv, KnowledgeTypeOK
  <1>11. RowsStand'
    <2>1. /\ \A u \in DOMAIN version' : version'[u].doc \in DOMAIN document'
          /\ \A i \in DOMAIN index' : index'[i].version \in DOMAIN version'
      BY <1>2, <1>6, <1>7 DEF KnowledgeInv, RowsStand
    <2>2. \A e \in DOMAIN document : document'[e].active = document[e].active
      BY <1>5, <1>6
    <2>3. page' # Null => page'.index \in DOMAIN index'
      BY <1>2, <1>7 DEF KnowledgeInv, RowsStand
    <2> QED
      BY <1>2, <1>6, <1>9, <2>1, <2>2, <2>3, RowsKept
  <1> QED
    BY <1>2, <1>9, <1>10, <1>11, InvKept

LEMMA FinishIndexInv ==
  ASSUME KnowledgeInv, NEW i \in DOMAIN index, FinishIndex(i)
  PROVE  KnowledgeInv' /\ Grown
  <1>1. PICK row : row = [index[i] EXCEPT !.ready = TRUE]
    OBVIOUS
  <1>2. /\ index' = [index EXCEPT ![i] = row]
        /\ UNCHANGED <<document, version, note, memory, activated, page, clock>>
    BY <1>1 DEF FinishIndex
  <1>3. index \in Seq(IndexRows) /\ index[i] \in IndexRows
    BY RowOf DEF KnowledgeInv, KnowledgeTypeOK
  <1>4. row \in IndexRows /\ row.version = index[i].version /\ row.ready = TRUE
    BY <1>1, <1>3 DEF IndexRows
  <1>5. /\ index' \in Seq(IndexRows) /\ DOMAIN index' = DOMAIN index
        /\ index'[i] = row /\ \A k \in DOMAIN index \ {i} : index'[k] = index[k]
    BY <1>2, <1>3, <1>4, RowReplaced
  <1>6. clock' \in Nat /\ clock <= clock'
    BY <1>2, BoundsAssumption DEF KnowledgeInv, KnowledgeTypeOK
  <1>7. \A k \in DOMAIN index : index'[k].version = index[k].version
                                /\ (index[k].ready => index'[k].ready)
    BY <1>4, <1>5
  <1>8. Grown
    BY <1>2, <1>5, <1>6, <1>7 DEF Grown
  <1>9. KnowledgeTypeOK'
    BY <1>2, <1>5 DEF KnowledgeInv, KnowledgeTypeOK
  <1>10. RowsStand'
    <2>1. /\ \A u \in DOMAIN version' : version'[u].doc \in DOMAIN document'
          /\ \A k \in DOMAIN index' : index'[k].version \in DOMAIN version'
          /\ page' # Null => page'.index \in DOMAIN index'
      BY <1>2, <1>5, <1>7 DEF KnowledgeInv, RowsStand
    <2> QED
      BY <1>2, <1>8, <2>1, RowsKept
  <1> QED
    BY <1>2, <1>8, <1>9, <1>10, InvKept

LEMMA OpenPageInv ==
  ASSUME KnowledgeInv, NEW i \in DOMAIN index, OpenPage(i)
  PROVE  KnowledgeInv' /\ Grown
  <1>1. /\ page' = [index |-> i, row |-> DocumentOf(i)]
        /\ UNCHANGED <<document, version, index, note, memory, activated, clock>>
    BY DEF OpenPage
  <1>2. i \in Nat /\ DocumentOf(i) \in Documents
    BY RowOf DEF KnowledgeInv, KnowledgeTypeOK, RowsStand, DocumentOf, VersionOf
  <1>3. clock' \in Nat /\ clock <= clock'
    BY <1>1, BoundsAssumption DEF KnowledgeInv, KnowledgeTypeOK
  <1>4. Grown
    BY <1>1, <1>3 DEF Grown
  <1>5. KnowledgeTypeOK'
    BY <1>1, <1>2 DEF KnowledgeInv, KnowledgeTypeOK
  <1>6. RowsStand'
    <2>1. page'.index \in DOMAIN index'
      BY <1>1
    <2>2. /\ \A u \in DOMAIN version' : version'[u].doc \in DOMAIN document'
          /\ \A k \in DOMAIN index' : index'[k].version \in DOMAIN version'
      BY <1>1 DEF KnowledgeInv, RowsStand
    <2> QED
      BY <1>1, <1>4, <2>1, <2>2, RowsKept
  <1> QED
    BY <1>1, <1>4, <1>5, <1>6, InvKept

LEMMA ArchiveDocumentInv ==
  ASSUME KnowledgeInv, NEW d \in DOMAIN document, ArchiveDocument(d)
  PROVE  KnowledgeInv' /\ Grown
  <1>1. PICK row : row = Document(document[d].visibility, document[d].version + 1, TRUE,
                                  document[d].active)
    OBVIOUS
  <1>2. /\ document' = [document EXCEPT ![d] = row]
        /\ UNCHANGED <<version, index, note, memory, activated, page, clock>>
    BY <1>1 DEF ArchiveDocument
  <1>3. document[d] \in Documents
    BY RowOf DEF KnowledgeInv, KnowledgeTypeOK
  <1>4. /\ row \in Documents /\ row.visibility = document[d].visibility
        /\ row.active = document[d].active
    BY <1>1, <1>3 DEF Document, Documents
  <1>5. /\ document' \in Seq(Documents) /\ DOMAIN document' = DOMAIN document
        /\ document'[d] = row
        /\ \A e \in DOMAIN document \ {d} : document'[e] = document[e]
        /\ \A e \in DOMAIN document : document'[e].visibility = document[e].visibility
    BY <1>2, <1>4, DocumentReplaced
  <1>6. clock' \in Nat /\ clock <= clock'
    BY <1>2, BoundsAssumption DEF KnowledgeInv, KnowledgeTypeOK
  <1>7. Grown
    BY <1>2, <1>5, <1>6 DEF Grown
  <1>8. KnowledgeTypeOK'
    BY <1>2, <1>5 DEF KnowledgeInv, KnowledgeTypeOK
  <1>9. RowsStand'
    <2>1. \A e \in DOMAIN document : document'[e].active = document[e].active
      BY <1>4, <1>5
    <2>2. /\ \A u \in DOMAIN version' : version'[u].doc \in DOMAIN document'
          /\ \A k \in DOMAIN index' : index'[k].version \in DOMAIN version'
          /\ page' # Null => page'.index \in DOMAIN index'
      BY <1>2, <1>5 DEF KnowledgeInv, RowsStand
    <2> QED
      BY <1>2, <1>5, <1>7, <2>1, <2>2, RowsKept
  <1> QED
    BY <1>2, <1>7, <1>8, <1>9, InvKept

\* The index on the page comes into force for its document, and no other.
LEMMA ActivateIndexInv ==
  ASSUME KnowledgeInv, ActivateIndex
  PROVE  KnowledgeInv' /\ Grown
  <1>1. PICK i : i = page.index
    OBVIOUS
  <1>2. PICK d : d = VersionOf(i).doc
    OBVIOUS
  <1>3. PICK row : row = Document(document[d].visibility, document[d].version + 1, FALSE, i)
    OBVIOUS
  <1>4. /\ page # Null /\ index[i].ready /\ InPeriod(index[i].version, clock)
        /\ document' = [document EXCEPT ![d] = row]
        /\ activated' = activated \cup {i} /\ page' = Null
        /\ UNCHANGED <<version, index, note, memory, clock>>
    BY <1>1, <1>2, <1>3 DEF ActivateIndex
  <1>5. i \in DOMAIN index /\ d \in DOMAIN document
    BY <1>1, <1>2, <1>4 DEF KnowledgeInv, RowsStand, VersionOf
  <1>6. i \in Nat /\ document[d] \in Documents
    BY <1>5, RowOf DEF KnowledgeInv, KnowledgeTypeOK
  <1>7. /\ row \in Documents /\ row.visibility = document[d].visibility
        /\ row.active = i
    BY <1>3, <1>6 DEF Document, Documents
  <1>8. /\ document' \in Seq(Documents) /\ DOMAIN document' = DOMAIN document
        /\ document'[d] = row
        /\ \A e \in DOMAIN document \ {d} : document'[e] = document[e]
        /\ \A e \in DOMAIN document : document'[e].visibility = document[e].visibility
    BY <1>4, <1>5, <1>7, DocumentReplaced
  <1>9. clock' \in Nat /\ clock <= clock'
    BY <1>4, BoundsAssumption DEF KnowledgeInv, KnowledgeTypeOK
  <1>10. Grown
    BY <1>4, <1>8, <1>9 DEF Grown
  <1>11. KnowledgeTypeOK'
    BY <1>4, <1>6, <1>8 DEF KnowledgeInv, KnowledgeTypeOK
  <1>12. PutInForce(i, d)'
    <2>1. i \in activated' /\ index'[i].ready /\ VersionOf(i)' = VersionOf(i) /\ clock' = clock
      BY <1>4 DEF VersionOf
    <2> QED
      BY <1>2, <1>4, <2>1 DEF PutInForce, InPeriod, VersionOf
  <1>13. RowsStand'
    <2>1. ASSUME NEW e \in DOMAIN document', document'[e].active # 0
          PROVE  PutInForce(document[e].active, e)'
      <3>1. CASE e = d
        BY <1>7, <1>8, <1>12, <3>1
      <3>2. CASE e # d
        <4>1. PICK k : k = document[e].active
          OBVIOUS
        <4>2. document'[e].active = k /\ PutInForce(k, e)
          BY <1>8, <2>1, <3>2, <4>1 DEF KnowledgeInv, RowsStand
        <4>3. PutInForce(k, e)'
          BY <1>10, <4>2, ForceKept
        <4> QED
          BY <4>2, <4>3
      <3> QED
        BY <3>1, <3>2
    <2>2. /\ \A u \in DOMAIN version' : version'[u].doc \in DOMAIN document'
          /\ \A k \in DOMAIN index' : index'[k].version \in DOMAIN version'
          /\ activated' \subseteq DOMAIN index'
          /\ page' = Null
      BY <1>4, <1>5, <1>8 DEF KnowledgeInv, RowsStand
    <2> QED
      BY <2>1, <2>2 DEF RowsStand
  <1> QED
    BY <1>4, <1>10, <1>11, <1>13, InvKept

\* What may be cited was put in force, in its period.
LEMMA CitedPutInForce ==
  ASSUME KnowledgeInv
  PROVE  \A i \in Cited : /\ i \in activated /\ i \in DOMAIN index /\ i \in Nat
                          /\ VersionOf(i).from <= clock /\ clock < VersionOf(i).to
  <1> SUFFICES ASSUME NEW i \in Cited
               PROVE  /\ i \in activated /\ i \in DOMAIN index /\ i \in Nat
                      /\ VersionOf(i).from <= clock /\ clock < VersionOf(i).to
    OBVIOUS
  <1>1. i \in DOMAIN index /\ DocumentOf(i).active = i /\ InPeriod(index[i].version, clock)
    BY DEF Cited, Citable
  <1>2. i \in Nat \ {0}
    BY <1>1, RowOf DEF KnowledgeInv, KnowledgeTypeOK
  <1>3. PutInForce(i, VersionOf(i).doc)
    BY <1>1, <1>2 DEF KnowledgeInv, RowsStand, DocumentOf, VersionOf
  <1> QED
    BY <1>1, <1>2, <1>3 DEF PutInForce, InPeriod, VersionOf

LEMMA ProposeNoteInv ==
  ASSUME KnowledgeInv, NEW kind \in {"gap", "memory"}, NEW evidence \in SUBSET Cited,
         NEW to \in Nat, ProposeNote(kind, evidence, to)
  PROVE  KnowledgeInv' /\ Grown
  <1>1. PICK row : row = [kind |-> kind, evidence |-> evidence, to |-> to,
                          decision |-> "none", reviewed |-> {}]
    OBVIOUS
  <1>2. /\ note' = Append(note, row)
        /\ UNCHANGED <<document, version, index, memory, activated, page, clock>>
    BY <1>1 DEF ProposeNote
  <1>3. evidence \subseteq Nat /\ note \in Seq(Notes)
    BY CitedPutInForce DEF KnowledgeInv, KnowledgeTypeOK
  <1>4. row \in Notes /\ row.evidence = evidence /\ row.reviewed = {} /\ row.decision = "none"
    BY <1>1, <1>3 DEF Notes
  <1>5. /\ note' \in Seq(Notes) /\ DOMAIN note' = DOMAIN note \cup {Len(note) + 1}
        /\ \A n \in DOMAIN note : note'[n] = note[n]
        /\ note'[Len(note) + 1] = row
    BY <1>2, <1>3, <1>4, RowAppended
  <1>6. clock' \in Nat /\ clock <= clock'
    BY <1>2, BoundsAssumption DEF KnowledgeInv, KnowledgeTypeOK
  <1>7. Grown
    BY <1>2, <1>5, <1>6 DEF Grown
  <1>8. KnowledgeTypeOK'
    BY <1>2, <1>5 DEF KnowledgeInv, KnowledgeTypeOK
  <1>9. RowsStand'
    <2>1. /\ \A u \in DOMAIN version' : version'[u].doc \in DOMAIN document'
          /\ \A k \in DOMAIN index' : index'[k].version \in DOMAIN version'
          /\ page' # Null => page'.index \in DOMAIN index'
      BY <1>2 DEF KnowledgeInv, RowsStand
    <2> QED
      BY <1>2, <1>7, <2>1, RowsKept
  <1>10. ASSUME NEW n \in DOMAIN note'
         PROVE  /\ Basis(n)' \subseteq activated'
                /\ \A i \in Basis(n)' : VersionOf(i)'.from <= clock'
                /\ note'[n].decision = "accept_for_curation" => note'[n].kind = "memory"
    <2>1. CASE n \in DOMAIN note
      BY <1>5, <1>7, <2>1, NotesKept
    <2>2. CASE n = Len(note) + 1
      <3>1. Basis(n)' = evidence
        BY <1>4, <1>5, <2>2 DEF Basis
      <3>2. \A i \in evidence : i \in activated' /\ VersionOf(i)'.from <= clock'
        BY <1>2, CitedPutInForce DEF VersionOf
      <3> QED
        BY <1>4, <1>5, <2>2, <3>1, <3>2
    <2> QED
      BY <1>5, <2>1, <2>2
  <1>11. NotesStand'
    BY <1>10 DEF NotesStand
  <1> QED
    BY <1>2, <1>7, <1>8, <1>9, <1>11, MemoryKept DEF KnowledgeInv

LEMMA ReviewNoteInv ==
  ASSUME KnowledgeInv, NEW n \in DOMAIN note,
         NEW decision \in {"reject", "accept_for_curation", "resolve"},
         NEW evidence \in SUBSET Cited, ReviewNote(n, decision, evidence)
  PROVE  KnowledgeInv' /\ Grown
  <1>1. PICK row : row = [note[n] EXCEPT !.decision = decision, !.reviewed = evidence]
    OBVIOUS
  <1>2. note \in Seq(Notes) /\ note[n] \in Notes /\ evidence \subseteq Nat
    BY RowOf, CitedPutInForce DEF KnowledgeInv, KnowledgeTypeOK
  <1>3. /\ note' = [note EXCEPT ![n] = row]
        /\ note[n].decision = "none"
        /\ decision = "accept_for_curation" => note[n].kind = "memory"
        /\ UNCHANGED <<document, version, index, memory, activated, page, clock>>
    BY <1>1, <1>2 DEF ReviewNote
  <1>4. /\ row \in Notes /\ row.evidence = note[n].evidence /\ row.reviewed = evidence
        /\ row.decision = decision /\ row.kind = note[n].kind
    BY <1>1, <1>2 DEF Notes
  <1>5. /\ note' \in Seq(Notes) /\ DOMAIN note' = DOMAIN note
        /\ note'[n] = row /\ \A k \in DOMAIN note \ {n} : note'[k] = note[k]
    BY <1>2, <1>3, <1>4, RowReplaced
  <1>6. clock' \in Nat /\ clock <= clock'
    BY <1>3, BoundsAssumption DEF KnowledgeInv, KnowledgeTypeOK
  <1>7. Grown
    BY <1>3, <1>5, <1>6 DEF Grown
  <1>8. KnowledgeTypeOK'
    BY <1>3, <1>5 DEF KnowledgeInv, KnowledgeTypeOK
  <1>9. RowsStand'
    <2>1. /\ \A u \in DOMAIN version' : version'[u].doc \in DOMAIN document'
          /\ \A k \in DOMAIN index' : index'[k].version \in DOMAIN version'
          /\ page' # Null => page'.index \in DOMAIN index'
      BY <1>3 DEF KnowledgeInv, RowsStand
    <2> QED
      BY <1>3, <1>7, <2>1, RowsKept
  <1>10. ASSUME NEW k \in DOMAIN note'
         PROVE  /\ Basis(k)' \subseteq activated'
                /\ \A i \in Basis(k)' : VersionOf(i)'.from <= clock'
                /\ note'[k].decision = "accept_for_curation" => note'[k].kind = "memory"
    <2>1. CASE k # n
      BY <1>5, <1>7, <2>1, NotesKept
    <2>2. CASE k = n
      <3>1. Basis(k)' = note[n].evidence \cup evidence
        BY <1>4, <1>5, <2>2 DEF Basis
      <3>2. \A i \in evidence : i \in activated' /\ VersionOf(i)'.from <= clock'
        BY <1>3, CitedPutInForce DEF VersionOf
      <3>3. \A i \in note[n].evidence : i \in activated' /\ VersionOf(i)'.from <= clock'
        BY <1>3 DEF KnowledgeInv, NotesStand, Basis, VersionOf
      <3> QED
        BY <1>3, <1>4, <1>5, <2>2, <3>1, <3>2, <3>3
    <2> QED
      BY <2>1, <2>2
  <1>11. NotesStand'
    BY <1>10 DEF NotesStand
  <1> QED
    BY <1>3, <1>7, <1>8, <1>9, <1>11, MemoryKept DEF KnowledgeInv

LEMMA TickInv ==
  ASSUME KnowledgeInv, Tick
  PROVE  KnowledgeInv' /\ Grown
  <1>1. /\ clock' = clock + 1 /\ clock < MaxTime
        /\ UNCHANGED <<document, version, index, note, memory, activated, page>>
    BY DEF Tick
  <1>2. clock' \in Nat /\ clock' \in 0..MaxTime /\ clock <= clock'
    BY <1>1, BoundsAssumption DEF KnowledgeInv, KnowledgeTypeOK
  <1>3. Grown
    BY <1>1, <1>2 DEF Grown
  <1>4. KnowledgeTypeOK'
    BY <1>1, <1>2 DEF KnowledgeInv, KnowledgeTypeOK
  <1>5. RowsStand'
    <2>1. /\ \A u \in DOMAIN version' : version'[u].doc \in DOMAIN document'
          /\ \A k \in DOMAIN index' : index'[k].version \in DOMAIN version'
          /\ page' # Null => page'.index \in DOMAIN index'
      BY <1>1 DEF KnowledgeInv, RowsStand
    <2> QED
      BY <1>1, <1>3, <2>1, RowsKept
  <1> QED
    BY <1>1, <1>3, <1>4, <1>5, InvKept

LEMMA KnowledgeStutters ==
  ASSUME KnowledgeInv, UNCHANGED knowledgeVars
  PROVE  KnowledgeInv' /\ Grown
  <1>1. UNCHANGED <<document, version, index, note, memory, activated, page, clock>>
    BY DEF knowledgeVars
  <1>2. clock' \in Nat /\ clock <= clock'
    BY <1>1, BoundsAssumption DEF KnowledgeInv, KnowledgeTypeOK
  <1>3. Grown
    BY <1>1, <1>2 DEF Grown
  <1>4. KnowledgeTypeOK' /\ RowsStand'
    BY <1>1 DEF KnowledgeInv, KnowledgeTypeOK, RowsStand, PutInForce, VersionOf
  <1> QED
    BY <1>1, <1>3, <1>4, InvKept

LEMMA KnowledgeInitInv ==
  KnowledgeInit => KnowledgeInv
  <1> SUFFICES ASSUME KnowledgeInit PROVE KnowledgeInv
    OBVIOUS
  <1>1. /\ document = <<>> /\ version = <<>> /\ index = <<>> /\ note = <<>>
        /\ memory = {} /\ activated = {} /\ page = Null /\ clock = 0
    BY DEF KnowledgeInit
  <1>2. KnowledgeTypeOK
    BY <1>1, EmptySeq, BoundsAssumption DEF KnowledgeTypeOK
  <1>3. DOMAIN document = {} /\ DOMAIN version = {} /\ DOMAIN index = {} /\ DOMAIN note = {}
    BY <1>1
  <1> QED
    BY <1>1, <1>2, <1>3 DEF KnowledgeInv, RowsStand, NotesStand, MemoryStands

\* Every step preserves the invariant and takes nothing away.
LEMMA KnowledgeNextInv ==
  ASSUME KnowledgeInv, [KnowledgeNext]_knowledgeVars
  PROVE  KnowledgeInv' /\ Grown
  <1>1. Null \in Originals \cup {Null}
    OBVIOUS
  <1>2. \A period \in Periods : period.to \in Nat
    BY PeriodsAssumption
  <1>3. CASE \E visibility \in Visibility, text \in Texts, period \in Periods,
                file \in Originals \cup {Null} :
               \/ SubmitDocument(visibility, text, period, file)
               \/ \E n \in DOMAIN note : file = Null /\ CurateMemory(n, visibility, text, period)
               \/ \E d \in DOMAIN document :
                    visibility = document[d].visibility /\ SubmitVersion(d, text, period, file)
    BY <1>3, SubmitDocumentInv, CurateMemoryInv, SubmitVersionInv
  <1>4. CASE \E v \in DOMAIN version : ReindexDocument(v)
    BY <1>4, ReindexDocumentInv
  <1>5. CASE \E i \in DOMAIN index : FinishIndex(i) \/ OpenPage(i)
    BY <1>5, FinishIndexInv, OpenPageInv
  <1>6. CASE \E d \in DOMAIN document : ArchiveDocument(d)
    BY <1>6, ArchiveDocumentInv
  <1>7. CASE ActivateIndex
    BY <1>7, ActivateIndexInv
  <1>8. CASE \E evidence \in {e \in SUBSET Cited : Cardinality(e) <= MaxEvidence} :
               \/ \E kind \in {"gap", "memory"}, period \in Periods :
                    ProposeNote(kind, evidence, period.to)
               \/ \E n \in DOMAIN note, decision \in {"reject", "accept_for_curation", "resolve"} :
                    ReviewNote(n, decision, evidence)
    BY <1>2, <1>8, ProposeNoteInv, ReviewNoteInv
  <1>9. CASE Tick
    BY <1>9, TickInv
  <1>10. CASE UNCHANGED knowledgeVars
    BY <1>10, KnowledgeStutters
  <1> QED
    BY <1>3, <1>4, <1>5, <1>6, <1>7, <1>8, <1>9, <1>10 DEF KnowledgeNext

-------------------------------------------------------------------------------
(* Knowledge documents: theorems *)

\* The tables as every command, the worker and time keep them: rows point at rows, what is
\* in force was put there by a person, and a curated text stays no better founded, no
\* longer valid and no more public than its evidence (services/knowledge.py).
THEOREM KnowledgeStands == KnowledgeSpec => []KnowledgeInv
  <1>1. KnowledgeInv /\ [KnowledgeNext]_knowledgeVars => KnowledgeInv'
    BY KnowledgeNextInv
  <1> QED
    BY <1>1, KnowledgeInitInv, PTL DEF KnowledgeSpec

\* Every row has the columns of its table.
THEOREM KnowledgeTypeCorrect == KnowledgeSpec => []KnowledgeTypeOK
  <1>1. KnowledgeInv => KnowledgeTypeOK
    BY DEF KnowledgeInv
  <1> QED
    BY <1>1, KnowledgeStands, PTL

\* The passages of a curated text are those its proposal and review named.
LEMMA PassagesNamed ==
  ASSUME KnowledgeInv, NEW m \in memory
  PROVE  /\ m.note \in DOMAIN note /\ Passages(m) = Basis(m.note)
         /\ Basis(m.note) \subseteq activated /\ Basis(m.note) \subseteq DOMAIN index
         /\ Basis(m.note) \subseteq Nat
  <1>1. OriginStands(m)
    BY DEF KnowledgeInv, MemoryStands
  <1>2. m.note \in DOMAIN note /\ m.evidence = {ItemOf(i) : i \in Basis(m.note)}
    BY <1>1 DEF OriginStands
  <1>3. \A i \in Basis(m.note) : ItemOf(i).passage = i
    BY DEF ItemOf
  <1>4. Passages(m) = Basis(m.note)
    BY <1>2, <1>3 DEF Passages
  <1>5. Basis(m.note) \subseteq activated /\ activated \subseteq Nat
    BY <1>2 DEF KnowledgeInv, NotesStand, KnowledgeTypeOK
  <1> QED
    BY <1>2, <1>4, <1>5 DEF KnowledgeInv, RowsStand

LEMMA WithinPeriods ==
  KnowledgeInv => MemoryWithinPeriods
  <1> SUFFICES ASSUME KnowledgeInv, NEW m \in memory, NEW i \in Cited,
                      index[i].version = m.version
               PROVE  /\ clock < note[m.note].to
                      /\ \A e \in Passages(m) : InPeriod(index[e].version, clock)
    BY DEF MemoryWithinPeriods
  <1>1. i \in DOMAIN index /\ clock < version[m.version].to
    BY CitedPutInForce DEF VersionOf
  <1>2. /\ m.note \in DOMAIN note /\ version[m.version].to <= note[m.note].to
        /\ m.version \in DOMAIN version
        /\ \A e \in Basis(m.note) : version[m.version].to <= VersionOf(e).to
    BY DEF KnowledgeInv, MemoryStands, OriginStands
  <1>3. version[m.version] \in Versions /\ note[m.note] \in Notes
    BY <1>2, RowOf DEF KnowledgeInv, KnowledgeTypeOK
  <1>4. clock \in Nat /\ version[m.version].to \in Nat /\ note[m.note].to \in Nat
    <2>1. clock \in Nat
      BY BoundsAssumption DEF KnowledgeInv, KnowledgeTypeOK
    <2>2. version[m.version].to \in Nat
      BY <1>3 DEF Versions
    <2>3. note[m.note].to \in Nat
      BY <1>3 DEF Notes
    <2> QED
      BY <2>1, <2>2, <2>3
  <1>5. clock < note[m.note].to
    BY <1>1, <1>2, <1>4
  <1>6. ASSUME NEW e \in Basis(m.note) PROVE InPeriod(index[e].version, clock)
    <2>1. VersionOf(e).from <= clock /\ version[m.version].to <= VersionOf(e).to
      BY <1>2 DEF KnowledgeInv, NotesStand
    <2>2. VersionOf(e) \in Versions
      BY PassagesNamed, RowOf DEF KnowledgeInv, KnowledgeTypeOK, RowsStand, VersionOf
    <2>3. VersionOf(e).to \in Nat
      BY <2>2 DEF Versions
    <2> QED
      BY <1>1, <1>4, <2>1, <2>3 DEF InPeriod, VersionOf
  <1> QED
    BY <1>5, <1>6, PassagesNamed

\* A cited text rests on passages and a proposal that are all still within their periods,
\* at any time after it was curated (CurateMemory bounds the period by the earliest end).
THEOREM CuratedWithinPeriods == KnowledgeSpec => []MemoryWithinPeriods
  BY KnowledgeStands, WithinPeriods, PTL

\* What was drawn from an owner's document is never visible to the workspace, through any
\* number of curations and versions (memory_visibility_conflict).
THEOREM OwnerEvidencePrivate == KnowledgeSpec => []OwnerEvidenceStaysPrivate
  <1>1. KnowledgeInv => OwnerEvidenceStaysPrivate
    BY PassagesNamed DEF OwnerEvidenceStaysPrivate, KnowledgeInv, MemoryStands, OriginStands
  <1> QED
    BY <1>1, KnowledgeStands, PTL

\* A proposal is curated at most once, after the review that accepted it, into a document
\* of its own, on all the passages the two named.
THEOREM CuratedOnce == KnowledgeSpec => []CuratedOnceFromItsReview
  <1>1. ASSUME KnowledgeInv, NEW m \in memory
        PROVE  /\ note[m.note].kind = "memory" /\ note[m.note].decision = "accept_for_curation"
               /\ Passages(m) = note[m.note].evidence \cup note[m.note].reviewed
               /\ Passages(m) \subseteq activated
               /\ \A other \in memory : other # m => other.note # m.note /\ other.doc # m.doc
    <2>1. OriginStands(m) /\ m.note \in DOMAIN note
      BY <1>1, PassagesNamed DEF KnowledgeInv, MemoryStands
    <2>2. note[m.note].decision = "accept_for_curation" /\ note[m.note].kind = "memory"
      BY <1>1, <2>1 DEF OriginStands, KnowledgeInv, NotesStand
    <2>3. /\ Passages(m) = note[m.note].evidence \cup note[m.note].reviewed
          /\ Passages(m) \subseteq activated
      BY <1>1, PassagesNamed DEF Basis
    <2> QED
      BY <1>1, <2>2, <2>3 DEF KnowledgeInv, MemoryStands
  <1>2. KnowledgeInv => CuratedOnceFromItsReview
    BY <1>1 DEF CuratedOnceFromItsReview
  <1> QED
    BY <1>2, KnowledgeStands, PTL

\* No command but an activation changes the index in force.
LEMMA OnlyActivationPutsInForce ==
  ASSUME KnowledgeInv, [KnowledgeNext]_knowledgeVars, NEW d \in DOMAIN document,
         document'[d].active # document[d].active
  PROVE  ActivateIndex
  <1>1. Null \in Originals \cup {Null} /\ KnowledgeTypeOK
    BY DEF KnowledgeInv
  <1>2. ASSUME NEW visibility \in Visibility, NEW text \in Texts, NEW period \in Periods,
               NEW file \in Originals \cup {Null}, Started(visibility, text, period, file)
        PROVE  FALSE
    BY <1>1, <1>2, StartedRows
  <1>3. ASSUME NEW e \in DOMAIN document, document' = [document EXCEPT ![e] = Bumped(document[e])]
        PROVE  FALSE
    <2>1. document \in Seq(Documents) /\ document[e] \in Documents
      BY <1>1, RowOf DEF KnowledgeTypeOK
    <2>2. PICK row : row = Bumped(document[e])
      OBVIOUS
    <2>3. row \in Documents /\ row.active = document[e].active
      BY <2>1, <2>2, DocumentRows
    <2>4. document'[e] = row /\ \A k \in DOMAIN document \ {e} : document'[k] = document[k]
      BY <1>3, <2>1, <2>2, <2>3, RowReplaced
    <2> QED
      BY <2>3, <2>4
  <1>4. ASSUME NEW e \in DOMAIN document, ArchiveDocument(e) PROVE FALSE
    <2>1. PICK row : row = Document(document[e].visibility, document[e].version + 1, TRUE,
                                    document[e].active)
      OBVIOUS
    <2>2. document \in Seq(Documents) /\ document[e] \in Documents
      BY <1>1, RowOf DEF KnowledgeTypeOK
    <2>3. row \in Documents /\ row.active = document[e].active
      BY <2>1, <2>2 DEF Document, Documents
    <2>4. document' = [document EXCEPT ![e] = row]
      BY <1>4, <2>1 DEF ArchiveDocument
    <2>5. document'[e] = row /\ \A k \in DOMAIN document \ {e} : document'[k] = document[k]
      BY <2>2, <2>3, <2>4, RowReplaced
    <2> QED
      BY <2>3, <2>5
  <1>5. ASSUME NEW v \in DOMAIN version, ReindexDocument(v) PROVE FALSE
    <2>1. version[v].doc \in DOMAIN document
      BY DEF KnowledgeInv, RowsStand
    <2>2. document' = [document EXCEPT ![version[v].doc] = Bumped(document[version[v].doc])]
      BY <1>5 DEF ReindexDocument
    <2> QED
      BY <1>3, <2>1, <2>2
  <1>6. document' # document
    OBVIOUS
  <1>7. CASE \E visibility \in Visibility, text \in Texts, period \in Periods,
                file \in Originals \cup {Null} :
               \/ SubmitDocument(visibility, text, period, file)
               \/ \E n \in DOMAIN note : file = Null /\ CurateMemory(n, visibility, text, period)
               \/ \E e \in DOMAIN document :
                    visibility = document[e].visibility /\ SubmitVersion(e, text, period, file)
    BY <1>1, <1>2, <1>3, <1>7 DEF SubmitDocument, CurateMemory, SubmitVersion
  <1>8. ASSUME NEW i, FinishIndex(i) \/ OpenPage(i) PROVE FALSE
    BY <1>6, <1>8 DEF FinishIndex, OpenPage
  <1>9. ASSUME NEW a, NEW b, NEW c, ProposeNote(a, b, c) \/ ReviewNote(a, b, c) PROVE FALSE
    BY <1>6, <1>9 DEF ProposeNote, ReviewNote
  <1>10. ~Tick /\ ~UNCHANGED knowledgeVars
    BY <1>6 DEF Tick, knowledgeVars
  <1> QED
    BY <1>4, <1>5, <1>7, <1>8, <1>9, <1>10 DEF KnowledgeNext

\* Whenever an index of a curated text comes into force, every passage it was drawn from
\* may itself be cited: the check is made again at each activation, by the origin of the
\* version (memory_origin_stale).
THEOREM EvidenceStoodThen == KnowledgeSpec => EvidenceStoodAtActivation
  <1> DEFINE Stood == \A d \in DOMAIN document : document'[d].active # document[d].active =>
                        \A m \in memory : m.version = index[document'[d].active].version =>
                          \A e \in Passages(m) : Citable(e, clock)
  <1>1. ASSUME KnowledgeInv, [KnowledgeNext]_knowledgeVars PROVE Stood
    <2> SUFFICES ASSUME NEW d \in DOMAIN document,
                        document'[d].active # document[d].active,
                        NEW m \in memory, m.version = index[document'[d].active].version,
                        NEW e \in Passages(m)
                 PROVE  Citable(e, clock)
      OBVIOUS
    <2>1. ActivateIndex
      BY <1>1, OnlyActivationPutsInForce
    <2>2. PICK i : i = page.index
      OBVIOUS
    <2>3. PICK k : k = VersionOf(i).doc
      OBVIOUS
    <2>4. PICK row : row = Document(document[k].visibility, document[k].version + 1, FALSE, i)
      OBVIOUS
    <2>5. document' = [document EXCEPT ![k] = row] /\ EvidenceStands(i)
      BY <2>1, <2>2, <2>3, <2>4 DEF ActivateIndex
    <2>6. row.active = i
      BY <2>4 DEF Document
    <2>7. document'[d].active = i
      BY <2>5, <2>6
    <2>8. MemoryEvidence(m.note) = m.evidence
      BY <2>5, <2>7 DEF EvidenceStands
    <2>9. PICK item \in MemoryEvidence(m.note) : e = item.passage
      BY <2>8 DEF Passages
    <2>10. PICK n \in Cited : item = ItemOf(n)
      BY <2>9 DEF MemoryEvidence
    <2>11. e = n
      BY <2>9, <2>10 DEF ItemOf
    <2> QED
      BY <2>11 DEF Cited
  <1>2. KnowledgeInv /\ [KnowledgeNext]_knowledgeVars => Stood
    BY <1>1
  <1> QED
    BY <1>2, KnowledgeStands, PTL DEF KnowledgeSpec, EvidenceStoodAtActivation

-------------------------------------------------------------------------------
(* Retrieval evaluation: corpora and searches *)

\* A search of a question finds what the corpus of that moment holds of its answers.
LEMMA RetrievedFromCorpus ==
  ASSUME NEW c, NEW t
  PROVE  Retrieved(c, t) = FoundIn(c, Corpus(t))
  <1>1. \A i : /\ Source(i).index = i /\ Source(i).text = VersionOf(i).text
               /\ Source(i).visibility = DocumentOf(i).visibility
    BY DEF Source
  <1>2. Retrieved(c, t) \subseteq FoundIn(c, Corpus(t))
    <2> SUFFICES ASSUME NEW i \in Retrieved(c, t) PROVE i \in FoundIn(c, Corpus(t))
      OBVIOUS
    <2>1. Source(i) \in Corpus(t) /\ Source(i).text \in c.answers /\ Narrowed(c, Source(i).visibility)
      BY <1>1 DEF Retrieved, Corpus
    <2> QED
      BY <1>1, <2>1 DEF FoundIn
  <1>3. FoundIn(c, Corpus(t)) \subseteq Retrieved(c, t)
    <2> SUFFICES ASSUME NEW i \in FoundIn(c, Corpus(t)) PROVE i \in Retrieved(c, t)
      OBVIOUS
    <2>1. PICK s \in Corpus(t) : i = s.index /\ s.text \in c.answers /\ Narrowed(c, s.visibility)
      BY DEF FoundIn
    <2>2. PICK n \in DOMAIN index : Citable(n, t) /\ s = Source(n)
      BY <2>1 DEF Corpus
    <2> QED
      BY <1>1, <2>1, <2>2 DEF Retrieved
  <1> QED
    BY <1>2, <1>3

LEMMA CorpusIsSnapshot ==
  ASSUME NEW t
  PROVE  Snapshot(Corpus(t))
  BY DEF Snapshot, Corpus, Source

LEMMA FoundInRows ==
  ASSUME NEW c, NEW corpus, Snapshot(corpus)
  PROVE  FoundIn(c, corpus) \subseteq DOMAIN index
  BY DEF FoundIn, Snapshot

LEMMA SourcesStay ==
  ASSUME KnowledgeInv, Grown
  PROVE  \A i \in DOMAIN index : Source(i)' = Source(i)
  BY PassagesStay DEF Source

LEMMA SnapshotKept ==
  ASSUME KnowledgeInv, Grown, NEW corpus, Snapshot(corpus)
  PROVE  Snapshot(corpus)'
  BY SourcesStay DEF Snapshot, Grown

\* Whether the found passages pass is a matter of rows that do not change.
LEMMA PassesKept ==
  ASSUME KnowledgeInv, Grown, NEW c, NEW hits, NEW corpus, hits \subseteq DOMAIN index,
         CasePasses(c, hits, corpus)
  PROVE  CasePasses(c, hits, corpus)'
  <1>1. \A i \in hits : VersionOf(i)' = VersionOf(i) /\ Source(i)' = Source(i)
    BY PassagesStay, SourcesStay
  <1>2. {VersionOf(i)'.doc : i \in hits} = {VersionOf(i).doc : i \in hits}
    BY <1>1
  <1>3. \A visibility : Narrowed(c, visibility)' = Narrowed(c, visibility)
    BY DEF Narrowed
  <1>4. \A i \in hits : Source(i)' \in corpus /\ Narrowed(c, Source(i)'.visibility)
    BY <1>1 DEF CasePasses
  <1> QED
    BY <1>2, <1>4 DEF CasePasses

LEMMA ReportsKept ==
  ASSUME KnowledgeInv, Grown, NEW q, NEW corpus, NEW hits, NEW passed, Snapshot(corpus),
         dataset'[q] = dataset[q], Reports(q, corpus, hits, passed)
  PROVE  Reports(q, corpus, hits, passed)'
  <1>1. CasesOf(q)' = CasesOf(q)
    BY DEF CasesOf
  <1>2. \A c : FoundIn(c, corpus)' = FoundIn(c, corpus)
    BY DEF FoundIn, Narrowed
  <1>3. ASSUME passed, NEW c \in CasesOf(q) PROVE CasePasses(c, FoundIn(c, corpus), corpus)'
    <2>1. PICK found : found = FoundIn(c, corpus)
      OBVIOUS
    <2>2. found \subseteq DOMAIN index /\ CasePasses(c, found, corpus)
      BY <1>3, <2>1, FoundInRows DEF Reports
    <2>3. CasePasses(c, found, corpus)'
      BY <2>2, PassesKept
    <2> QED
      BY <1>2, <2>1, <2>3
  <1> QED
    BY <1>1, <1>2, <1>3 DEF Reports

\* The worker, readers and time leave the corpus of a moment as it is: an index that is
\* not ready is in force nowhere.
LEMMA CorpusStays ==
  ASSUME KnowledgeInv, Unlocked \/ UNCHANGED knowledgeVars, NEW t
  PROVE  Corpus(t)' = Corpus(t)
  <1>1. [KnowledgeNext]_knowledgeVars
    BY DEF Unlocked, KnowledgeNext
  <1>2. Grown
    BY <1>1, KnowledgeNextInv
  <1>3. DOMAIN index' = DOMAIN index /\ document' = document /\ version' = version
    BY DEF Unlocked, FinishIndex, OpenPage, Tick, knowledgeVars
  <1>4. ASSUME NEW n \in DOMAIN index PROVE Citable(n, t)' = Citable(n, t)
    <2>1. index'[n].version = index[n].version
      BY <1>2 DEF Grown
    <2>2. VersionOf(n)' = VersionOf(n) /\ DocumentOf(n)' = DocumentOf(n)
      BY <1>3, <2>1 DEF VersionOf, DocumentOf
    <2>3. DocumentOf(n).active = n => index[n].ready /\ index'[n].ready
      <3> SUFFICES ASSUME DocumentOf(n).active = n PROVE index[n].ready
        BY <1>2 DEF Grown
      <3>1. n # 0
        BY RowOf DEF KnowledgeInv, KnowledgeTypeOK
      <3>2. VersionOf(n).doc \in DOMAIN document
        BY DEF KnowledgeInv, RowsStand, VersionOf
      <3> QED
        BY <3>1, <3>2 DEF KnowledgeInv, RowsStand, PutInForce, DocumentOf
    <2>4. PICK v : v = index[n].version
      OBVIOUS
    <2>5. index'[n].version = v /\ InPeriod(v, t)' = InPeriod(v, t)
      BY <1>3, <2>1, <2>4 DEF InPeriod
    <2>6. InPeriod(index[n].version, t)' = InPeriod(index[n].version, t)
      BY <2>4, <2>5
    <2>7. n \in DOMAIN index' /\ n \in DOMAIN index
      BY <1>3
    <2>8. (/\ ~DocumentOf(n)'.archived /\ DocumentOf(n)'.active = n
           /\ index'[n].ready /\ InPeriod(index[n].version, t)')
          = (/\ ~DocumentOf(n).archived /\ DocumentOf(n).active = n
             /\ index[n].ready /\ InPeriod(index[n].version, t))
      BY <2>2, <2>3, <2>6
    <2> QED
      BY <2>7, <2>8 DEF Citable
  <1>5. \A n \in DOMAIN index : Source(n)' = Source(n)
    BY <1>2, SourcesStay
  <1> QED
    BY <1>3, <1>4, <1>5 DEF Corpus

-------------------------------------------------------------------------------
(* Retrieval evaluation: steps *)

\* A command on questions or reports reads the knowledge base and changes nothing in it.
LEMMA EvalReads ==
  ASSUME KnowledgeInv, UNCHANGED knowledgeVars
  PROVE  /\ Grown
         /\ \A t : Corpus(t)' = Corpus(t)
         /\ \A corpus : Snapshot(corpus) => Snapshot(corpus)'
  <1>1. Grown
    BY KnowledgeStutters
  <1>2. \A t : Corpus(t)' = Corpus(t)
    BY CorpusStays
  <1>3. \A corpus : Snapshot(corpus) => Snapshot(corpus)'
    BY <1>1, SnapshotKept
  <1> QED
    BY <1>1, <1>2, <1>3

\* The reports there are keep describing their corpora.
LEMMA EvaluationsKept ==
  ASSUME KnowledgeInv, Grown, EvalInv, evaluation' = evaluation,
         \A q \in DOMAIN dataset : dataset'[q] = dataset[q]
  PROVE  EvaluationsStand'
  <1> SUFFICES ASSUME NEW r \in DOMAIN evaluation
               PROVE  /\ Snapshot(evaluation[r].corpus)'
                      /\ Reports(evaluation[r].dataset, evaluation[r].corpus,
                                 evaluation[r].hits, evaluation[r].passed)'
    BY DEF EvaluationsStand
  <1>1. PICK e : e = evaluation[r]
    OBVIOUS
  <1>2. Snapshot(e.corpus) /\ Reports(e.dataset, e.corpus, e.hits, e.passed)
    BY <1>1 DEF EvalInv, EvaluationsStand
  <1>3. dataset'[e.dataset] = dataset[e.dataset]
    BY <1>1 DEF EvalInv, EvalTypeOK
  <1>4. Snapshot(e.corpus)' /\ Reports(e.dataset, e.corpus, e.hits, e.passed)'
    BY <1>2, <1>3, SnapshotKept, ReportsKept
  <1> QED
    BY <1>1, <1>4

\* Questions are added after those of their family with a higher number than theirs.
LEMMA NewDatasetInv ==
  ASSUME KnowledgeInv, EvalInv, UNCHANGED knowledgeVars, running = Null,
         UNCHANGED <<running, evaluation>>,
         NEW row \in Datasets, row.family \in 1..(Len(dataset) + 1),
         \A q \in DOMAIN dataset :
           dataset[q].family = row.family => dataset[q].number < row.number,
         dataset' = Append(dataset, row)
  PROVE  EvalInv'
  <1>1. dataset \in Seq(Datasets)
    BY DEF EvalInv, EvalTypeOK
  <1>2. /\ dataset' \in Seq(Datasets) /\ Len(dataset) \in Nat
        /\ DOMAIN dataset = 1..Len(dataset)
        /\ DOMAIN dataset' = DOMAIN dataset \cup {Len(dataset) + 1}
        /\ \A q \in DOMAIN dataset : dataset'[q] = dataset[q]
        /\ dataset'[Len(dataset) + 1] = row
    BY <1>1, RowAppended
  <1>3. EvalTypeOK'
    BY <1>2 DEF EvalInv, EvalTypeOK
  <1>4. ASSUME NEW q \in DOMAIN dataset'
        PROVE  /\ dataset'[q].family \in 1..q
               /\ \A other \in 1..(q - 1) :
                    dataset'[other].family = dataset'[q].family =>
                      dataset'[other].number < dataset'[q].number
    <2>1. CASE q \in DOMAIN dataset
      <3>1. \A other \in 1..(q - 1) : other \in DOMAIN dataset
        BY <1>2, <2>1
      <3> QED
        BY <1>2, <2>1, <3>1 DEF EvalInv, DatasetsStand
    <2>2. CASE q = Len(dataset) + 1
      <3>1. \A other \in 1..(q - 1) : other \in DOMAIN dataset
        BY <1>2, <2>2
      <3> QED
        BY <1>2, <2>2, <3>1
    <2> QED
      BY <1>2, <2>1, <2>2
  <1>5. DatasetsStand'
    BY <1>4 DEF DatasetsStand
  <1>6. EvaluationsStand'
    BY <1>2, EvalReads, EvaluationsKept
  <1>7. RunningStands'
    BY DEF RunningStands
  <1> QED
    BY <1>3, <1>5, <1>6, <1>7 DEF EvalInv

\* A revision has a higher number than all there are in its family.
LEMMA SubmitEvalInv ==
  ASSUME KnowledgeInv, EvalInv, UNCHANGED knowledgeVars,
         NEW definition \in Definitions, NEW prior \in {0} \cup DOMAIN dataset,
         SubmitEval(definition, prior)
  PROVE  EvalInv'
  <1>1. PICK row : row = IF prior = 0 THEN Dataset(Len(dataset) + 1, 1, definition)
                         ELSE Dataset(dataset[prior].family, dataset[prior].number + 1, definition)
    OBVIOUS
  <1>2. /\ running = Null /\ (prior # 0 => Latest(prior))
        /\ dataset' = Append(dataset, row)
        /\ UNCHANGED <<running, evaluation>>
    BY <1>1 DEF SubmitEval
  <1>3. dataset \in Seq(Datasets) /\ Len(dataset) \in Nat /\ DOMAIN dataset = 1..Len(dataset)
    BY LenProperties DEF EvalInv, EvalTypeOK
  <1>4. \A q \in DOMAIN dataset : dataset[q] \in Datasets /\ dataset[q].family \in 1..q
    BY <1>3, RowOf DEF EvalInv, DatasetsStand
  <1>5. CASE prior = 0
    <2>1. row.family = Len(dataset) + 1 /\ row.number = 1 /\ row.definition = definition
          /\ row \in Datasets
      BY <1>1, <1>3, <1>5 DEF Dataset, Datasets
    <2> QED
      BY <1>2, <1>3, <1>4, <2>1, NewDatasetInv
  <1>6. CASE prior # 0
    <2>1. prior \in DOMAIN dataset /\ dataset[prior] \in Datasets
      BY <1>4, <1>6
    <2>2. row.family = dataset[prior].family /\ row.number = dataset[prior].number + 1
          /\ row \in Datasets
      BY <1>1, <1>6, <2>1 DEF Dataset, Datasets
    <2>3. row.family \in 1..(Len(dataset) + 1)
      BY <1>3, <1>4, <2>1, <2>2
    <2>4. \A q \in DOMAIN dataset :
            dataset[q].family = row.family => dataset[q].number < row.number
      BY <1>2, <1>4, <1>6, <2>1, <2>2 DEF Latest, Datasets
    <2> QED
      BY <1>2, <1>3, <2>2, <2>3, <2>4, NewDatasetInv
  <1> QED
    BY <1>5, <1>6

\* The corpus is that of the moment the run begins.
LEMMA RunBeginsInv ==
  ASSUME KnowledgeInv, EvalInv, UNCHANGED knowledgeVars, NEW q \in DOMAIN dataset, RunBegins(q)
  PROVE  EvalInv'
  <1>1. PICK t : t = clock
    OBVIOUS
  <1>2. PICK corpus : corpus = Corpus(t)
    OBVIOUS
  <1>3. running' = Under(q, t, corpus, Null, FALSE) /\ UNCHANGED <<dataset, evaluation>>
    BY <1>1, <1>2 DEF RunBegins
  <1>4. /\ running'.dataset = q /\ running'.at = t /\ running'.corpus = corpus
        /\ running'.hits = Null
    BY <1>3 DEF Under
  <1>5. EvalTypeOK' /\ DatasetsStand'
    BY <1>3, <1>4 DEF EvalInv, EvalTypeOK, DatasetsStand
  <1>6. Corpus(t)' = corpus
    BY <1>2, EvalReads
  <1>7. Corpus(running.at)' = corpus
    BY <1>4, <1>6
  <1>8. RunningStands'
    BY <1>4, <1>7 DEF RunningStands
  <1>9. EvaluationsStand'
    BY <1>3, EvalReads, EvaluationsKept
  <1> QED
    BY <1>5, <1>8, <1>9 DEF EvalInv

\* The searches find what that corpus holds, although they run later.
LEMMA RunScoresInv ==
  ASSUME KnowledgeInv, EvalInv, UNCHANGED knowledgeVars, NEW slow \in BOOLEAN, RunScores(slow)
  PROVE  EvalInv'
  <1>1. PICK run : run = running
    OBVIOUS
  <1>2. PICK hits : hits = [c \in CasesOf(run.dataset) |-> Retrieved(c, run.at)]
    OBVIOUS
  <1>3. PICK passed : passed = (/\ ~slow
                                /\ \A c \in DOMAIN hits : CasePasses(c, hits[c], run.corpus))
    OBVIOUS
  <1>4. /\ running' = Under(run.dataset, run.at, run.corpus, hits, passed)
        /\ running # Null /\ UNCHANGED <<dataset, evaluation>>
    BY <1>1, <1>2, <1>3 DEF RunScores
  <1>5. /\ running'.dataset = run.dataset /\ running'.at = run.at
        /\ running'.corpus = run.corpus /\ running'.hits = hits /\ running'.passed = passed
    BY <1>4 DEF Under
  <1>6. run.dataset \in DOMAIN dataset /\ run.corpus = Corpus(run.at)
    BY <1>1, <1>4 DEF EvalInv, EvalTypeOK, RunningStands
  <1>7. Reports(run.dataset, run.corpus, hits, passed)
    <2>1. \A c : Retrieved(c, run.at) = FoundIn(c, run.corpus)
      BY <1>6, RetrievedFromCorpus
    <2>2. hits = [c \in CasesOf(run.dataset) |-> FoundIn(c, run.corpus)]
      BY <1>2, <2>1
    <2>3. passed => \A c \in CasesOf(run.dataset) :
                      CasePasses(c, FoundIn(c, run.corpus), run.corpus)
      BY <1>3, <2>2
    <2> QED
      BY <2>2, <2>3 DEF Reports
  <1>8. Reports(run.dataset, run.corpus, hits, passed)'
    BY <1>4, <1>6, <1>7, EvalReads, CorpusIsSnapshot, ReportsKept
  <1>9. Corpus(running.at)' = run.corpus
    <2>1. Corpus(run.at)' = Corpus(run.at)
      BY EvalReads
    <2> QED
      BY <1>5, <1>6, <2>1
  <1>10. RunningStands'
    BY <1>5, <1>8, <1>9 DEF RunningStands
  <1>11. EvalTypeOK' /\ DatasetsStand'
    BY <1>4, <1>5, <1>6 DEF EvalInv, EvalTypeOK, DatasetsStand
  <1>12. EvaluationsStand'
    BY <1>4, EvalReads, EvaluationsKept
  <1> QED
    BY <1>10, <1>11, <1>12 DEF EvalInv

LEMMA RunCommitsInv ==
  ASSUME KnowledgeInv, EvalInv, UNCHANGED knowledgeVars, RunCommits
  PROVE  EvalInv'
  <1>1. PICK run : run = running
    OBVIOUS
  <1>2. PICK row : row = Evaluation(run.dataset, run.corpus, run.hits, run.passed, "none")
    OBVIOUS
  <1>3. /\ running # Null /\ run.hits # Null /\ running' = Null /\ dataset' = dataset
        /\ evaluation' = Append(evaluation, row)
    BY <1>1, <1>2 DEF RunCommits
  <1>4. /\ row.dataset = run.dataset /\ row.corpus = run.corpus /\ row.hits = run.hits
        /\ row.passed = run.passed /\ row.decision = "none"
    BY <1>2 DEF Evaluation
  <1>5. /\ run.dataset \in DOMAIN dataset /\ run.corpus = Corpus(run.at)
        /\ Reports(run.dataset, run.corpus, run.hits, run.passed)
    BY <1>1, <1>3 DEF EvalInv, EvalTypeOK, RunningStands
  <1>6. Snapshot(run.corpus)
    BY <1>5, CorpusIsSnapshot
  <1>7. Snapshot(row.corpus)' /\ Reports(row.dataset, row.corpus, row.hits, row.passed)'
    <2>1. Snapshot(run.corpus)' /\ Reports(run.dataset, run.corpus, run.hits, run.passed)'
      BY <1>3, <1>5, <1>6, EvalReads, ReportsKept
    <2> QED
      BY <1>4, <2>1
  <1>8. PICK S : S = {evaluation[r] : r \in DOMAIN evaluation} \cup {row}
    OBVIOUS
  <1>9. evaluation \in Seq(S) /\ row \in S
    BY <1>8 DEF EvalInv, EvalTypeOK
  <1>10. /\ Len(evaluation) \in Nat /\ DOMAIN evaluation = 1..Len(evaluation)
         /\ evaluation' \in Seq(S)
         /\ DOMAIN evaluation' = DOMAIN evaluation \cup {Len(evaluation) + 1}
         /\ \A r \in DOMAIN evaluation : evaluation'[r] = evaluation[r]
         /\ evaluation'[Len(evaluation) + 1] = row
    BY <1>3, <1>9, RowAppended
  <1>11. S = {evaluation'[r] : r \in DOMAIN evaluation'}
    BY <1>8, <1>10
  <1>12. EvalTypeOK'
    <2>1. ASSUME NEW r \in DOMAIN evaluation'
          PROVE  evaluation'[r].dataset \in DOMAIN dataset /\ evaluation'[r].decision \in Decisions
      BY <1>4, <1>5, <1>10 DEF EvalInv, EvalTypeOK, Decisions
    <2>2. evaluation' \in Seq({evaluation'[r] : r \in DOMAIN evaluation'})
      BY <1>10, <1>11
    <2> QED
      BY <1>3, <2>1, <2>2 DEF EvalInv, EvalTypeOK
  <1>13. DatasetsStand' /\ RunningStands'
    BY <1>3 DEF EvalInv, DatasetsStand, RunningStands
  <1>14. ASSUME NEW r \in DOMAIN evaluation'
         PROVE  /\ Snapshot(evaluation[r].corpus)'
                /\ Reports(evaluation[r].dataset, evaluation[r].corpus,
                           evaluation[r].hits, evaluation[r].passed)'
    <2>1. CASE r \in DOMAIN evaluation
      <3>1. PICK e : e = evaluation[r]
        OBVIOUS
      <3>2. /\ Snapshot(e.corpus) /\ Reports(e.dataset, e.corpus, e.hits, e.passed)
            /\ evaluation'[r] = e
        BY <1>10, <2>1, <3>1 DEF EvalInv, EvaluationsStand
      <3>3. Snapshot(e.corpus)' /\ Reports(e.dataset, e.corpus, e.hits, e.passed)'
        BY <1>3, <3>2, EvalReads, ReportsKept
      <3> QED
        BY <3>2, <3>3
    <2>2. CASE r = Len(evaluation) + 1
      BY <1>7, <1>10, <2>2
    <2> QED
      BY <1>10, <2>1, <2>2
  <1>15. EvaluationsStand'
    BY <1>14 DEF EvaluationsStand
  <1> QED
    BY <1>12, <1>13, <1>15 DEF EvalInv

LEMMA RunRollsBackInv ==
  ASSUME KnowledgeInv, EvalInv, UNCHANGED knowledgeVars, RunRollsBack
  PROVE  EvalInv'
  <1>1. running' = Null /\ UNCHANGED <<dataset, evaluation>>
    BY DEF RunRollsBack
  <1>2. EvalTypeOK' /\ DatasetsStand' /\ RunningStands'
    BY <1>1 DEF EvalInv, EvalTypeOK, DatasetsStand, RunningStands
  <1>3. EvaluationsStand'
    BY <1>1, EvalReads, EvaluationsKept
  <1> QED
    BY <1>2, <1>3 DEF EvalInv

\* A review decides on a report and leaves it as it is.
LEMMA ReviewEvalInv ==
  ASSUME KnowledgeInv, EvalInv, UNCHANGED knowledgeVars, NEW r \in DOMAIN evaluation,
         NEW decision \in Decisions \ {"none"}, ReviewEval(r, decision)
  PROVE  EvalInv'
  <1>1. PICK e : e = evaluation[r]
    OBVIOUS
  <1>2. PICK row : row = Evaluation(e.dataset, e.corpus, e.hits, e.passed, decision)
    OBVIOUS
  <1>3. /\ evaluation' = [evaluation EXCEPT ![r] = row] /\ running = Null
        /\ UNCHANGED <<dataset, running>>
    BY <1>1, <1>2 DEF ReviewEval
  <1>4. /\ row.dataset = e.dataset /\ row.corpus = e.corpus /\ row.hits = e.hits
        /\ row.passed = e.passed /\ row.decision = decision
    BY <1>2 DEF Evaluation
  <1>5. PICK S : S = {evaluation[k] : k \in DOMAIN evaluation} \cup {row}
    OBVIOUS
  <1>6. evaluation \in Seq(S) /\ row \in S
    BY <1>5 DEF EvalInv, EvalTypeOK
  <1>7. /\ evaluation' \in Seq(S) /\ DOMAIN evaluation' = DOMAIN evaluation
        /\ evaluation'[r] = row
        /\ \A k \in DOMAIN evaluation \ {r} : evaluation'[k] = evaluation[k]
    BY <1>3, <1>6, RowReplaced
  <1>8. evaluation' \in Seq({evaluation'[k] : k \in DOMAIN evaluation'})
    <2>1. /\ Len(evaluation') \in Nat /\ DOMAIN evaluation' = 1..Len(evaluation')
      BY <1>7, LenProperties
    <2>2. \A k \in 1..Len(evaluation') : evaluation'[k] \in {evaluation'[j] : j \in DOMAIN evaluation'}
      BY <2>1
    <2>3. evaluation' = [k \in 1..Len(evaluation') |-> evaluation'[k]]
      BY <1>7, <2>1, LenProperties
    <2> QED
      BY <2>1, <2>2, <2>3, SeqDef
  <1>9. EvalTypeOK'
    <2>1. ASSUME NEW k \in DOMAIN evaluation'
          PROVE  evaluation'[k].dataset \in DOMAIN dataset /\ evaluation'[k].decision \in Decisions
      BY <1>1, <1>4, <1>7 DEF EvalInv, EvalTypeOK
    <2> QED
      BY <1>3, <1>8, <2>1 DEF EvalInv, EvalTypeOK
  <1>10. DatasetsStand' /\ RunningStands'
    BY <1>3 DEF EvalInv, DatasetsStand, RunningStands
  <1>11. ASSUME NEW k \in DOMAIN evaluation'
         PROVE  /\ Snapshot(evaluation[k].corpus)'
                /\ Reports(evaluation[k].dataset, evaluation[k].corpus,
                           evaluation[k].hits, evaluation[k].passed)'
    <2>1. PICK f : f = evaluation[k]
      OBVIOUS
    <2>2. Snapshot(f.corpus) /\ Reports(f.dataset, f.corpus, f.hits, f.passed)
      BY <1>7, <2>1 DEF EvalInv, EvaluationsStand
    <2>3. Snapshot(f.corpus)' /\ Reports(f.dataset, f.corpus, f.hits, f.passed)'
      BY <1>3, <2>2, EvalReads, ReportsKept
    <2>4. /\ evaluation'[k].dataset = f.dataset /\ evaluation'[k].corpus = f.corpus
          /\ evaluation'[k].hits = f.hits /\ evaluation'[k].passed = f.passed
      BY <1>1, <1>4, <1>7, <2>1
    <2> QED
      BY <2>3, <2>4
  <1>12. EvaluationsStand'
    BY <1>11 DEF EvaluationsStand
  <1> QED
    BY <1>9, <1>10, <1>12 DEF EvalInv

\* What happens to the knowledge base meanwhile changes no report, and no corpus a run reads.
LEMMA KnowledgeMoves ==
  ASSUME KnowledgeInv, EvalInv, [KnowledgeNext]_knowledgeVars, UNCHANGED evalVars,
         running = Null \/ Unlocked \/ UNCHANGED knowledgeVars
  PROVE  EvalInv'
  <1>1. UNCHANGED <<dataset, running, evaluation>> /\ Grown
    BY KnowledgeNextInv DEF evalVars
  <1>2. EvalTypeOK' /\ DatasetsStand'
    BY <1>1 DEF EvalInv, EvalTypeOK, DatasetsStand
  <1>3. EvaluationsStand'
    BY <1>1, EvaluationsKept
  <1>4. RunningStands'
    <2>1. CASE running = Null
      BY <1>1, <2>1 DEF RunningStands
    <2>2. CASE running # Null
      <3>1. PICK run : run = running
        OBVIOUS
      <3>2. /\ run.corpus = Corpus(run.at) /\ run.dataset \in DOMAIN dataset
            /\ run.hits # Null => Reports(run.dataset, run.corpus, run.hits, run.passed)
        BY <2>2, <3>1 DEF EvalInv, EvalTypeOK, RunningStands
      <3>3. Corpus(run.at)' = Corpus(run.at)
        BY <2>2, CorpusStays
      <3>4. run.hits # Null => Reports(run.dataset, run.corpus, run.hits, run.passed)'
        BY <1>1, <3>2, CorpusIsSnapshot, ReportsKept
      <3>5. running' = run
        BY <1>1, <3>1
      <3> QED
        BY <3>2, <3>3, <3>4, <3>5 DEF RunningStands
    <2> QED
      BY <2>1, <2>2
  <1> QED
    BY <1>2, <1>3, <1>4 DEF EvalInv

LEMMA EvalInitInv ==
  EvalInit => EvalInv
  <1> SUFFICES ASSUME EvalInit PROVE EvalInv
    OBVIOUS
  <1>1. dataset = <<>> /\ running = Null /\ evaluation = <<>>
    BY DEF EvalInit
  <1>2. EvalTypeOK
    BY <1>1, EmptySeq DEF EvalTypeOK
  <1>3. DOMAIN dataset = {} /\ DOMAIN evaluation = {}
    BY <1>1
  <1> QED
    BY <1>1, <1>2, <1>3 DEF EvalInv, DatasetsStand, RunningStands, EvaluationsStand

\* To the knowledge base an evaluation is nothing or one of its own steps.
LEMMA EvaluationIsKnowledgeStep ==
  ASSUME [BothNext]_<<knowledgeVars, evalVars>>
  PROVE  [KnowledgeNext]_knowledgeVars
  BY DEF BothNext, Unlocked, KnowledgeNext

LEMMA BothNextInv ==
  ASSUME KnowledgeInv, EvalInv, [BothNext]_<<knowledgeVars, evalVars>>
  PROVE  EvalInv'
  <1>1. [KnowledgeNext]_knowledgeVars
    BY EvaluationIsKnowledgeStep
  <1>2. CASE EvalNext /\ UNCHANGED knowledgeVars
    BY <1>2, SubmitEvalInv, RunBeginsInv, RunScoresInv, RunCommitsInv, RunRollsBackInv,
       ReviewEvalInv DEF EvalNext
  <1>3. CASE Unlocked /\ UNCHANGED evalVars
    BY <1>1, <1>3, KnowledgeMoves
  <1>4. CASE running = Null /\ UNCHANGED evalVars
    BY <1>1, <1>4, KnowledgeMoves
  <1>5. CASE UNCHANGED <<knowledgeVars, evalVars>>
    BY <1>1, <1>5, KnowledgeMoves
  <1> QED
    BY <1>2, <1>3, <1>4, <1>5 DEF BothNext

-------------------------------------------------------------------------------
(* Retrieval evaluation: theorems *)

\* The knowledge base beside evaluations behaves as the knowledge base alone, so all that
\* holds of it still does: an evaluation only reads, under the knowledge lock.
THEOREM EvaluationOnlyReads == BothSpec => KnowledgeSpec
  <1>1. [BothNext]_<<knowledgeVars, evalVars>> => [KnowledgeNext]_knowledgeVars
    BY EvaluationIsKnowledgeStep
  <1> QED
    BY <1>1, PTL DEF BothSpec, KnowledgeSpec

\* Every report describes the rows of its corpus, which never change, and the run under
\* way the corpus of one moment (run_eval under lock_knowledge, corpus_hash).
THEOREM EvaluationStands == BothSpec => []EvalInv
  <1>1. KnowledgeInv /\ EvalInv /\ [BothNext]_<<knowledgeVars, evalVars>> => EvalInv'
    BY BothNextInv
  <1> QED
    BY <1>1, EvalInitInv, EvaluationOnlyReads, KnowledgeStands, PTL DEF BothSpec

\* A baseline called current finds today what its report says it found, still passes, and
\* is one of the latest questions (baseline_current, acceptance_blockers).
THEOREM BaselineIsCurrent == BothSpec => []BaselineDescribesToday
  <1>1. ASSUME EvalInv, NEW r \in DOMAIN evaluation, BaselineCurrent(r)
        PROVE  LET q == evaluation[r].dataset
               IN  /\ \A other \in DOMAIN dataset :
                        dataset[other].family = dataset[q].family => other <= q
                   /\ \A c \in CasesOf(q) :
                        /\ evaluation[r].hits[c] = Retrieved(c, clock)
                        /\ CasePasses(c, Retrieved(c, clock), Corpus(clock))
    <2> DEFINE q == evaluation[r].dataset
    <2>1. /\ Corpus(clock) = evaluation[r].corpus /\ Latest(q) /\ evaluation[r].passed
      BY <1>1 DEF BaselineCurrent, Blocked
    <2>2. Reports(q, Corpus(clock), evaluation[r].hits, evaluation[r].passed)
      BY <1>1, <2>1 DEF EvalInv, EvaluationsStand
    <2>3. q \in DOMAIN dataset /\ dataset \in Seq(Datasets)
      BY <1>1 DEF EvalInv, EvalTypeOK
    <2>4. ASSUME NEW other \in DOMAIN dataset, dataset[other].family = dataset[q].family
          PROVE  other <= q
      <3>1. q \in Nat \ {0} /\ other \in Nat \ {0}
        BY <2>3, RowOf
      <3>2. dataset[q] \in Datasets /\ dataset[other] \in Datasets
        BY <2>3, RowOf
      <3>3. dataset[other].number <= dataset[q].number
        BY <2>1, <2>4 DEF Latest
      <3>4. q < other => dataset[q].number < dataset[other].number
        <4> SUFFICES ASSUME q < other PROVE dataset[q].number < dataset[other].number
          OBVIOUS
        <4>1. q \in 1..(other - 1)
          BY <3>1
        <4> QED
          BY <1>1, <2>4, <4>1 DEF EvalInv, DatasetsStand
      <3>5. dataset[q].number \in Nat /\ dataset[other].number \in Nat
        BY <3>2 DEF Datasets
      <3> QED
        BY <3>1, <3>3, <3>4, <3>5
    <2>5. ASSUME NEW c \in CasesOf(q)
          PROVE  /\ evaluation[r].hits[c] = Retrieved(c, clock)
                 /\ CasePasses(c, Retrieved(c, clock), Corpus(clock))
      BY <2>1, <2>2, <2>5, RetrievedFromCorpus DEF Reports
    <2> QED
      BY <2>4, <2>5
  <1>2. EvalInv => BaselineDescribesToday
    BY <1>1 DEF BaselineDescribesToday
  <1> QED
    BY <1>2, EvaluationStands, PTL
===============================================================================
