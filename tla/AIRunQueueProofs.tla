--------------------------- MODULE AIRunQueueProofs ---------------------------
(***************************************************************************)
(* Theorems about AIRunQueue for every set of runs, users, keys, workers   *)
(* and tariffs.                                                            *)
(***************************************************************************)
EXTENDS AIRunQueue, FiniteSetTheorems, WellFoundedInduction, TLAPS

-------------------------------------------------------------------------------
(* Rows *)

\* A new row, and every row made from another by a transition, fits the table.
LEMMA NewRowType ==
  ASSUME NEW a \in Actors, NEW k \in Keys, NEW st \in States
  PROVE  NewRow(a, k, st) \in Row
  BY DEF NewRow, AbsentRow, Row, States

LEMMA RowTypes ==
  ASSUME NEW row \in Row, NEW st \in States
  PROVE  /\ Ended(row, st) \in Row
         /\ Cancelled(row) \in Row
         /\ CancelAsked(row) \in Row
         /\ \A w \in Workers : Reserved(row, w) \in Row
         /\ [row EXCEPT !.leaseUntil = "past"] \in Row
         /\ [row EXCEPT !.aged = TRUE] \in Row
  <1> DEFINE n == row.version + 1
  <1>1. n \in Nat
    BY DEF Row
  <1>2. {"running", "cancelled", "cancel_requested"} \subseteq States
    BY DEF States, InFlightStates, TerminalStates
  <1>3. /\ Ended(row, st) = [row EXCEPT !.state = st, !.version = n, !.finished = TRUE,
                                        !.leaseUntil = "null"]
        /\ Cancelled(row) = [row EXCEPT !.state = "cancelled", !.version = n,
                                        !.finished = TRUE]
        /\ CancelAsked(row) = [row EXCEPT !.state = "cancel_requested", !.version = n]
        /\ \A w : Reserved(row, w) = [row EXCEPT !.state = "running", !.version = n,
                      !.attempts = 1, !.lease = w, !.leaseUntil = "live"]
    BY DEF Ended, Cancelled, CancelAsked, Reserved
  <1> HIDE DEF n
  <1>4. Ended(row, st) \in Row
    BY <1>1, <1>3, Zenon DEF Row
  <1>5. Cancelled(row) \in Row
    BY <1>1, <1>2, <1>3, Zenon DEF Row
  <1>6. CancelAsked(row) \in Row
    BY <1>1, <1>2, <1>3, Zenon DEF Row
  <1>7. ASSUME NEW w \in Workers PROVE Reserved(row, w) \in Row
    <2>1. Reserved(row, w) = [row EXCEPT !.state = "running", !.version = n,
                      !.attempts = 1, !.lease = w, !.leaseUntil = "live"]
      BY <1>3
    <2> QED
      BY <1>1, <1>2, <2>1, Zenon DEF Row
  <1>8. [row EXCEPT !.leaseUntil = "past"] \in Row /\ [row EXCEPT !.aged = TRUE] \in Row
    BY Zenon DEF Row
  <1> QED
    BY <1>4, <1>5, <1>6, <1>7, <1>8

LEMMA ReconciledType ==
  ASSUME NEW row \in Row
  PROVE  Reconciled(row) \in Row
  <1>1. \A st \in States : Ended(row, st) \in Row
    BY RowTypes
  <1>2. "blocked" \in States /\ "unknown" \in States
    BY DEF States, TerminalStates
  <1> QED
    BY <1>1, <1>2 DEF Reconciled

\* What a worker's process becomes in each of its steps.
LEMMA ProcessTypes ==
  /\ Idle \in Process
  /\ \A r \in Runs : [Idle EXCEPT !.pc = "claimed", !.job = r] \in Process
  /\ \A u \in Process :
       /\ [u EXCEPT !.pc = "reserved"] \in Process
       /\ \A c \in Nat : [u EXCEPT !.pc = "calling", !.out.amount = c] \in Process
       /\ \A gen, priced \in BOOLEAN, err \in {"none", "definite", "unknown"} :
            [u EXCEPT !.pc = "returned", !.out.gen = gen, !.out.err = err,
                      !.out.priced = priced] \in Process
  <1>1. NoOutcome \in Outcome
    BY DEF NoOutcome, Outcome
  <1>2. Idle \in Process
    BY <1>1, Zenon DEF Idle, Process
  <1>3. ASSUME NEW r \in Runs PROVE [Idle EXCEPT !.pc = "claimed", !.job = r] \in Process
    BY <1>2, Zenon DEF Process
  <1>4. ASSUME NEW u \in Process PROVE [u EXCEPT !.pc = "reserved"] \in Process
    BY Zenon DEF Process
  <1>5. ASSUME NEW u \in Process, NEW c \in Nat
        PROVE  [u EXCEPT !.pc = "calling", !.out.amount = c] \in Process
    <2>1. [u.out EXCEPT !.amount = c] \in Outcome
      BY Zenon DEF Process, Outcome
    <2> QED
      BY <2>1, Zenon DEF Process
  <1>6. ASSUME NEW u \in Process, NEW gen \in BOOLEAN, NEW priced \in BOOLEAN,
               NEW err \in {"none", "definite", "unknown"}
        PROVE  [u EXCEPT !.pc = "returned", !.out.gen = gen, !.out.err = err,
                         !.out.priced = priced] \in Process
    <2>1. [u.out EXCEPT !.gen = gen, !.err = err, !.priced = priced] \in Outcome
      BY Zenon DEF Process, Outcome
    <2> QED
      BY <2>1, Zenon DEF Process
  <1> QED
    BY <1>2, <1>3, <1>4, <1>5, <1>6

-------------------------------------------------------------------------------
(* Type correctness *)

LEMMA InitType == Init => TypeOK
  BY DEF Init, TypeOK, Row, AbsentRow, States, InFlightStates, TerminalStates,
         Idle, NoOutcome, Process, Outcome

LEMMA StartQueuedType ==
  ASSUME TypeOK, NEW a \in Actors, NEW k \in Keys, NEW r \in Runs, NEW p \in Policies,
         StartQueued(a, k, r, p)
  PROVE  TypeOK'
  <1>1. NewRow(a, k, "queued") \in Row
    BY NewRowType DEF States
  <1> QED
    BY <1>1 DEF TypeOK, StartQueued, history

LEMMA StartBlockedType ==
  ASSUME TypeOK, NEW a \in Actors, NEW k \in Keys, NEW r \in Runs,
         StartBlocked(a, k, r)
  PROVE  TypeOK'
  <1>1. NewRow(a, k, "blocked") \in Row
    BY NewRowType DEF States, TerminalStates
  <1> QED
    BY <1>1 DEF TypeOK, StartBlocked, history

LEMMA CancelType ==
  ASSUME TypeOK, NEW a \in Actors, NEW k \in Keys, NEW r \in Runs, NEW v \in 1..4,
         Cancel(a, k, r, v)
  PROVE  TypeOK'
  <1> DEFINE row == CASE run[r].state = "queued"  -> Cancelled(run[r])
                      [] run[r].state = "running" -> CancelAsked(run[r])
                      [] OTHER                    -> run[r]
  <1>1. run[r] \in Row
    BY DEF TypeOK
  <1>a. States # {}
    BY DEF States
  <1>2. row \in Row /\ row.state \in {"cancelled", "cancel_requested"}
    <2>1. CASE run[r].state = "queued"
      <3>1. row = Cancelled(run[r])
        BY <2>1
      <3>2. Cancelled(run[r]).state = "cancelled"
        BY <1>1 DEF Cancelled, Row
      <3> QED
        BY <1>1, <1>a, <3>1, <3>2, RowTypes
    <2>2. CASE run[r].state = "running"
      <3>1. row = CancelAsked(run[r])
        BY <2>2
      <3>2. CancelAsked(run[r]).state = "cancel_requested"
        BY <1>1 DEF CancelAsked, Row
      <3> QED
        BY <1>1, <1>a, <3>1, <3>2, RowTypes
    <2>3. CASE run[r].state = "cancel_requested"
      BY <1>1, <2>3
    <2> QED
      BY <2>1, <2>2, <2>3 DEF Cancel, InFlightStates
  <1>3. [run |-> r, state |-> row.state, version |-> row.version] \in Receipt
    BY <1>2 DEF Receipt, Row
  <1>4. /\ run' = [run EXCEPT ![r] = row]
        /\ receipt' = [receipt EXCEPT ![<<a, k>>] =
                         [run |-> r, state |-> row.state, version |-> row.version]]
        /\ UNCHANGED <<access, reservation, observation, artifact, worker, calls, charge>>
    BY DEF Cancel, history
  <1> HIDE DEF row
  <1> QED
    BY <1>2, <1>3, <1>4 DEF TypeOK

LEMMA PollType ==
  ASSUME TypeOK, NEW w \in Workers, Poll(w)
  PROVE  TypeOK'
  BY ProcessTypes DEF TypeOK, Poll, Pending, tables, history

LEMMA WorkerIdleType ==
  ASSUME TypeOK, NEW w \in Workers, worker' = [worker EXCEPT ![w] = Idle],
         UNCHANGED <<access, tables, history>>
  PROVE  TypeOK'
  BY ProcessTypes DEF TypeOK, tables, history

LEMMA DispatchBlockedType ==
  ASSUME TypeOK, NEW w \in Workers, NEW p, NEW fresh \in BOOLEAN, worker[w].job \in Runs,
         DispatchBlocked(w, p, fresh)
  PROVE  TypeOK'
  <1> DEFINE r == worker[w].job
  <1>1. Ended(run[r], "blocked") \in Row
    BY RowTypes DEF TypeOK, States, TerminalStates
  <1>2. run' = [run EXCEPT ![r] = Ended(run[r], "blocked")]
    BY DEF DispatchBlocked
  <1>3. run' \in [Runs -> Row]
    BY <1>1, <1>2 DEF TypeOK
  <1> QED
    BY <1>3, ProcessTypes DEF TypeOK, DispatchBlocked, history

LEMMA DispatchReservedType ==
  ASSUME TypeOK, NEW w \in Workers, NEW p, worker[w].job \in Runs,
         DispatchReserved(w, p)
  PROVE  TypeOK'
  <1> DEFINE r == worker[w].job
  <1>1. Reserved(run[r], w) \in Row
    BY RowTypes DEF TypeOK, States
  <1>2. run' = [run EXCEPT ![r] = Reserved(run[r], w)]
    BY DEF DispatchReserved
  <1>3. run' \in [Runs -> Row]
    BY <1>1, <1>2 DEF TypeOK
  <1>4. [worker[w] EXCEPT !.pc = "reserved"] \in Process
    BY ProcessTypes DEF TypeOK
  <1>5. worker' = [worker EXCEPT ![w] = [worker[w] EXCEPT !.pc = "reserved"]]
    BY DEF DispatchReserved
  <1>6. worker' \in [Workers -> Process]
    BY <1>4, <1>5 DEF TypeOK
  <1> QED
    BY <1>3, <1>6 DEF TypeOK, DispatchReserved, history

LEMMA CallProviderType ==
  ASSUME TypeOK, NEW w \in Workers, worker[w].job \in Runs, CallProvider(w)
  PROVE  TypeOK'
  <1>1. PICK c \in Amounts :
          /\ charge' = [charge EXCEPT ![worker[w].job] = @ + c]
          /\ worker' = [worker EXCEPT ![w].pc = "calling", ![w].out.amount = c]
    BY DEF CallProvider
  <1>2. [worker[w] EXCEPT !.pc = "calling", !.out.amount = c] \in Process
    BY AmountAssumption, ProcessTypes DEF TypeOK
  <1>3. worker' = [worker EXCEPT ![w] = [worker[w] EXCEPT !.pc = "calling", !.out.amount = c]]
    BY <1>1
  <1>4. worker' \in [Workers -> Process]
    BY <1>2, <1>3 DEF TypeOK
  <1>5. /\ charge[worker[w].job] + c \in Nat
        /\ calls[worker[w].job] + 1 \in Nat
    BY AmountAssumption DEF TypeOK
  <1>6. calls' = [calls EXCEPT ![worker[w].job] = calls[worker[w].job] + 1]
    BY DEF CallProvider
  <1>7. charge' \in [Runs -> Nat] /\ calls' \in [Runs -> Nat]
    BY <1>1, <1>5, <1>6 DEF TypeOK
  <1> QED
    BY <1>4, <1>7 DEF TypeOK, CallProvider, tables

LEMMA ProviderReturnsType ==
  ASSUME TypeOK, NEW w \in Workers, ProviderReturns(w)
  PROVE  TypeOK'
  <1>1. PICK gen \in BOOLEAN, priced \in BOOLEAN, err \in {"none", "definite", "unknown"} :
          worker' = [worker EXCEPT ![w].pc = "returned", ![w].out.gen = gen,
                                   ![w].out.err = err, ![w].out.priced = priced]
    BY DEF ProviderReturns
  <1>2. [worker[w] EXCEPT !.pc = "returned", !.out.gen = gen, !.out.err = err,
                          !.out.priced = priced] \in Process
    BY ProcessTypes DEF TypeOK
  <1>3. worker' = [worker EXCEPT ![w] =
                     [worker[w] EXCEPT !.pc = "returned", !.out.gen = gen, !.out.err = err,
                                       !.out.priced = priced]]
    BY <1>1
  <1>4. worker' \in [Workers -> Process]
    BY <1>2, <1>3 DEF TypeOK
  <1> QED
    BY <1>4 DEF TypeOK, ProviderReturns, tables, history

LEMMA FinishType ==
  ASSUME TypeOK, NEW w \in Workers, NEW fresh \in BOOLEAN, worker[w].job \in Runs,
         Finish(w, fresh)
  PROVE  TypeOK'
  <1> DEFINE r  == worker[w].job
             st == FinalState(r, worker[w].out, fresh)
  <1>1. st \in States
    BY DEF FinalState, States, TerminalStates
  <1>2. Ended(run[r], st) \in Row
    BY <1>1, RowTypes DEF TypeOK
  <1>3. run' = [run EXCEPT ![r] = Ended(run[r], st)]
    BY DEF Finish
  <1>4. run' \in [Runs -> Row]
    BY <1>2, <1>3 DEF TypeOK
  <1>5. observation' \in [Runs -> Nat \cup {None}] /\ artifact' \subseteq Runs
    BY DEF TypeOK, Finish, Process, Outcome
  <1> QED
    BY <1>4, <1>5, ProcessTypes DEF TypeOK, Finish, history

LEMMA ReconcileType ==
  ASSUME TypeOK, NEW S \in SUBSET Runs, Reconcile(S)
  PROVE  TypeOK'
  <1>1. \A r \in Runs : Reconciled(run[r]) \in Row
    BY ReconciledType DEF TypeOK
  <1> QED
    BY <1>1 DEF TypeOK, Reconcile, history

LEMMA ClockType ==
  ASSUME TypeOK, NEW r \in Runs, LeaseExpires(r) \/ Age(r)
  PROVE  TypeOK'
  <1>1. /\ [run[r] EXCEPT !.leaseUntil = "past"] \in Row
        /\ [run[r] EXCEPT !.aged = TRUE] \in Row
    BY RowTypes DEF TypeOK, States
  <1> QED
    BY <1>1 DEF TypeOK, LeaseExpires, Age, history

-------------------------------------------------------------------------------
(* The inductive invariant *)

\* What the transitions do to the fields the invariant speaks of.
LEMMA RowFields ==
  ASSUME NEW row \in Row, NEW st \in States, NEW w \in Workers
  PROVE  /\ Ended(row, st).state = st
         /\ Ended(row, st).attempts = row.attempts
         /\ Ended(row, st).lease = row.lease
         /\ Ended(row, st).version = row.version + 1
         /\ Cancelled(row).state = "cancelled"
         /\ Cancelled(row).attempts = row.attempts
         /\ Cancelled(row).lease = row.lease
         /\ Cancelled(row).version = row.version + 1
         /\ CancelAsked(row).state = "cancel_requested"
         /\ CancelAsked(row).attempts = row.attempts
         /\ CancelAsked(row).lease = row.lease
         /\ CancelAsked(row).version = row.version + 1
         /\ Reserved(row, w).state = "running"
         /\ Reserved(row, w).attempts = 1
         /\ Reserved(row, w).lease = w
         /\ Reserved(row, w).version = row.version + 1
  <1>1. \A st2 \in States :
          /\ Ended(row, st2).state = st2 /\ Ended(row, st2).attempts = row.attempts
          /\ Ended(row, st2).lease = row.lease /\ Ended(row, st2).version = row.version + 1
    BY DEF Ended, Row
  <1>2. /\ Cancelled(row).state = "cancelled" /\ Cancelled(row).attempts = row.attempts
        /\ Cancelled(row).lease = row.lease /\ Cancelled(row).version = row.version + 1
    BY DEF Cancelled, Row
  <1>3. /\ CancelAsked(row).state = "cancel_requested"
        /\ CancelAsked(row).attempts = row.attempts
        /\ CancelAsked(row).lease = row.lease /\ CancelAsked(row).version = row.version + 1
    BY DEF CancelAsked, Row
  <1>4. /\ Reserved(row, w).state = "running" /\ Reserved(row, w).attempts = 1
        /\ Reserved(row, w).lease = w /\ Reserved(row, w).version = row.version + 1
    BY DEF Reserved, Row
  <1> QED
    BY <1>1, <1>2, <1>3, <1>4

\* A step that moves rows along without dispatching a run or finishing a call.
LEMMA QuietStep ==
  ASSUME IInv, TypeOK',
         UNCHANGED <<observation, artifact, worker, calls, charge>>,
         \A r \in Runs :
           /\ run'[r].attempts = run[r].attempts
           /\ run[r].attempts = 1 =>
                run'[r].lease = run[r].lease /\ reservation'[r] = reservation[r]
           /\ run'[r].state \in {"absent", "queued"} => run[r].attempts = 0
           /\ run'[r].state \in InFlightStates => run[r].state \in InFlightStates
           /\ run'[r].state = "needs_review" <=> run[r].state = "needs_review"
  PROVE  RunsOK' /\ WorkersOK' /\ AtMostOneExposed' /\ AtMostOnceCall' /\ ArtifactIffReview'
  <1>1. RunsOK'
    BY DEF IInv, RunsOK
  <1>2. WorkersOK'
    BY DEF IInv, WorkersOK
  <1>3. \A r \in Runs : Exposed(r)' <=> Exposed(r)
    BY DEF Exposed
  <1>4. AtMostOneExposed'
    BY <1>3 DEF IInv, AtMostOneExposed
  <1>5. AtMostOnceCall'
    BY DEF IInv, AtMostOnceCall
  <1>6. ArtifactIffReview'
    BY DEF IInv, ArtifactIffReview
  <1> QED
    BY <1>1, <1>2, <1>4, <1>5, <1>6

\* A step that gives no receipt and never goes back on a state a receipt promised.
LEMMA ReceiptsKept ==
  ASSUME IInv, TypeOK', receipt' = receipt,
         \A r \in Runs : run[r].state \in {"cancel_requested", "cancelled", "unknown"} =>
           /\ run'[r].version >= run[r].version
           /\ run[r].state = "cancelled" =>
                run'[r].state = "cancelled" /\ run'[r].attempts = run[r].attempts
           /\ run'[r].state \in {"cancel_requested", "cancelled", "unknown"}
           /\ r \notin artifact => r \notin artifact'
           /\ run[r].attempts = 0 => calls'[r] = calls[r]
  PROVE  ReceiptsOK' /\ CancelHonoured'
  <1> SUFFICES ASSUME NEW x \in Actors \X Keys, receipt[x] # None
               PROVE  /\ receipt[x].state = "cancelled" =>
                           run'[receipt[x].run].attempts = 0
                      /\ receipt[x].state = "cancelled" =>
                           /\ run'[receipt[x].run].state = "cancelled"
                           /\ calls'[receipt[x].run] = 0
                      /\ receipt[x].state = "cancel_requested" =>
                           /\ run'[receipt[x].run].state
                                \in {"cancel_requested", "cancelled", "unknown"}
                           /\ receipt[x].run \notin artifact'
                      /\ run'[receipt[x].run].version >= receipt[x].version
    BY DEF ReceiptsOK, CancelHonoured
  <1> DEFINE r == receipt[x].run
  <1>1. /\ r \in Runs /\ receipt[x].version \in Nat
        /\ receipt[x].state \in {"cancelled", "cancel_requested"}
    BY DEF IInv, TypeOK, Receipt
  <1>2. run[r].version \in Nat /\ run'[r].version \in Nat
    BY <1>1 DEF IInv, TypeOK, Row
  <1>3. /\ receipt[x].state = "cancelled" =>
             run[r].state = "cancelled" /\ calls[r] = 0 /\ run[r].attempts = 0
        /\ receipt[x].state = "cancel_requested" =>
             run[r].state \in {"cancel_requested", "cancelled", "unknown"} /\ r \notin artifact
        /\ run[r].version >= receipt[x].version
    BY DEF IInv, ReceiptsOK, CancelHonoured
  <1> HIDE DEF r
  <1> QED
    BY <1>1, <1>2, <1>3 DEF r

LEMMA InitInv == Init => IInv
  BY InitType, NoneAssumption DEF Init, IInv, RunsOK, WorkersOK, ReceiptsOK, AtMostOneExposed,
     Exposed, AtMostOnceCall, ArtifactIffReview, CancelHonoured, AbsentRow, InFlightStates, Idle

\* A run is born queued or blocked, with no attempt.
LEMMA BirthInv ==
  ASSUME IInv, TypeOK', NEW a \in Actors, NEW k \in Keys, NEW r \in Runs,
         NEW st \in {"queued", "blocked"},
         run[r].state = "absent", run' = [run EXCEPT ![r] = NewRow(a, k, st)],
         \A s \in Runs \ {r} : reservation'[s] = reservation[s],
         UNCHANGED <<observation, artifact, receipt, worker, calls, charge>>
  PROVE  IInv'
  <1>1. /\ run'[r].state = st /\ run'[r].attempts = 0 /\ run'[r].version = 1
        /\ \A s \in Runs \ {r} : run'[s] = run[s]
    BY DEF IInv, TypeOK, NewRow, AbsentRow
  <1>2. run[r].attempts = 0 /\ run[r].state = "absent"
    BY DEF IInv, RunsOK
  <1>3. \A s \in Runs : run[s].version \in Nat
    BY DEF IInv, TypeOK, Row
  <1>4. RunsOK' /\ WorkersOK' /\ AtMostOneExposed' /\ AtMostOnceCall' /\ ArtifactIffReview'
    <2>1. ASSUME NEW s \in Runs
          PROVE  /\ run'[s].attempts = run[s].attempts
                 /\ run[s].attempts = 1 =>
                      run'[s].lease = run[s].lease /\ reservation'[s] = reservation[s]
                 /\ run'[s].state \in {"absent", "queued"} => run[s].attempts = 0
                 /\ run'[s].state \in InFlightStates => run[s].state \in InFlightStates
                 /\ run'[s].state = "needs_review" <=> run[s].state = "needs_review"
      <3>1. CASE s = r
        BY <1>1, <1>2, <3>1 DEF InFlightStates
      <3>2. CASE s # r
        BY <1>1, <3>2 DEF IInv, RunsOK
      <3> QED
        BY <3>1, <3>2
    <2> QED
      BY <2>1, QuietStep
  <1>5. ReceiptsOK' /\ CancelHonoured'
    BY <1>1, <1>2, <1>3, ReceiptsKept
  <1> QED
    BY <1>4, <1>5 DEF IInv

\* An update that closes a queued run, or gives up on a dispatched one, or only
\* lets time pass, whatever the rows it touches.
LEMMA ClosingInv ==
  ASSUME IInv, TypeOK',
         \A r \in Runs :
           \/ run'[r] = run[r]
           \/ run[r].state = "queued" /\ run'[r] = Ended(run[r], "blocked")
           \/ run[r].state \in InFlightStates /\ run'[r] = Ended(run[r], "unknown")
           \/ run'[r] = [run[r] EXCEPT !.leaseUntil = "past"]
           \/ run'[r] = [run[r] EXCEPT !.aged = TRUE],
         UNCHANGED <<reservation, observation, artifact, receipt, worker, calls, charge>>
  PROVE  IInv'
  <1>1. ASSUME NEW r \in Runs
        PROVE  /\ run'[r].attempts = run[r].attempts
               /\ run'[r].lease = run[r].lease
               /\ run[r].version \in Nat
               /\ run'[r].version \in {run[r].version, run[r].version + 1}
               /\ \/ run'[r].state = run[r].state
                  \/ run[r].state = "queued" /\ run'[r].state = "blocked"
                  \/ run[r].state \in InFlightStates /\ run'[r].state = "unknown"
    <2>1. run[r] \in Row /\ {"blocked", "unknown"} \subseteq States
      BY DEF IInv, TypeOK, States, TerminalStates
    <2>2. \A row \in Row :
            /\ [row EXCEPT !.leaseUntil = "past"].state = row.state
            /\ [row EXCEPT !.leaseUntil = "past"].attempts = row.attempts
            /\ [row EXCEPT !.leaseUntil = "past"].lease = row.lease
            /\ [row EXCEPT !.leaseUntil = "past"].version = row.version
            /\ [row EXCEPT !.aged = TRUE].state = row.state
            /\ [row EXCEPT !.aged = TRUE].attempts = row.attempts
            /\ [row EXCEPT !.aged = TRUE].lease = row.lease
            /\ [row EXCEPT !.aged = TRUE].version = row.version
      BY Zenon DEF Row
    <2>3. \A st \in {"blocked", "unknown"} :
            /\ Ended(run[r], st).state = st
            /\ Ended(run[r], st).attempts = run[r].attempts
            /\ Ended(run[r], st).lease = run[r].lease
            /\ Ended(run[r], st).version = run[r].version + 1
      BY <2>1 DEF Ended, Row
    <2>4. run[r].version \in Nat
      BY <2>1 DEF Row
    <2> QED
      BY <2>1, <2>2, <2>3, <2>4
  <1>2. RunsOK' /\ WorkersOK' /\ AtMostOneExposed' /\ AtMostOnceCall' /\ ArtifactIffReview'
    BY <1>1, QuietStep DEF InFlightStates, IInv, RunsOK
  <1>3. ReceiptsOK' /\ CancelHonoured'
    BY <1>1, ReceiptsKept DEF InFlightStates
  <1> QED
    BY <1>2, <1>3 DEF IInv

LEMMA WorkerStepInv ==
  ASSUME IInv, TypeOK', WorkersOK', UNCHANGED <<tables, history>>
  PROVE  IInv'
  BY DEF IInv, RunsOK, ReceiptsOK, AtMostOneExposed, Exposed, AtMostOnceCall,
         ArtifactIffReview, CancelHonoured, tables, history

LEMMA WorkerIdleInv ==
  ASSUME IInv, NEW w \in Workers, worker' = [worker EXCEPT ![w] = Idle],
         UNCHANGED <<access, tables, history>>
  PROVE  IInv'
  <1>1. TypeOK'
    BY WorkerIdleType DEF IInv
  <1>2. \A u \in Workers : worker'[u] = worker[u] \/ worker'[u].pc = "idle"
    BY DEF IInv, TypeOK, Idle
  <1>3. WorkersOK'
    BY <1>2 DEF IInv, WorkersOK, tables, history
  <1> QED
    BY <1>1, <1>3, WorkerStepInv

LEMMA PollInv ==
  ASSUME IInv, NEW w \in Workers, Poll(w)
  PROVE  IInv'
  <1>1. TypeOK'
    BY PollType DEF IInv
  <1>2. /\ worker'[w].pc = "claimed" /\ worker'[w].job \in Runs
        /\ \A u \in Workers \ {w} : worker'[u] = worker[u]
        /\ UNCHANGED <<tables, history>>
    BY DEF Poll, Pending, Idle, IInv, TypeOK
  <1>3. WorkersOK'
    BY <1>2 DEF IInv, WorkersOK, tables, history
  <1> QED
    BY <1>1, <1>2, <1>3, WorkerStepInv

LEMMA ProviderReturnsInv ==
  ASSUME IInv, NEW w \in Workers, ProviderReturns(w)
  PROVE  IInv'
  <1>1. TypeOK'
    BY ProviderReturnsType DEF IInv
  <1>2. PICK gen \in BOOLEAN, priced \in BOOLEAN, err \in {"none", "definite", "unknown"} :
          /\ ~gen => err # "none" /\ ~priced
          /\ worker' = [worker EXCEPT ![w].pc = "returned", ![w].out.gen = gen,
                                      ![w].out.err = err, ![w].out.priced = priced]
    BY DEF ProviderReturns
  <1>3. worker[w] \in Process /\ worker[w].out \in Outcome
    BY DEF IInv, TypeOK, Process
  <1>4. /\ worker'[w].pc = "returned" /\ worker'[w].job = worker[w].job
        /\ worker'[w].out.gen = gen /\ worker'[w].out.err = err
        /\ worker'[w].out.amount = worker[w].out.amount
        /\ \A u \in Workers \ {w} : worker'[u] = worker[u]
    BY <1>2, <1>3 DEF IInv, TypeOK, Process, Outcome
  <1>5. worker[w].pc = "calling" /\ UNCHANGED <<tables, history>>
    BY DEF ProviderReturns
  <1>6. WorkersOK'
    <2>1. ~worker'[w].out.gen => worker'[w].out.err # "none"
      BY <1>2, <1>4, Zenon
    <2>2. /\ worker[w].job \in Runs /\ run[worker[w].job].attempts = 1
          /\ run[worker[w].job].lease = w
          /\ calls[worker[w].job] = 1 /\ charge[worker[w].job] = worker[w].out.amount
      BY <1>5 DEF IInv, WorkersOK
    <2>3. ASSUME NEW u \in Workers, u # w
          PROVE  worker'[u] = worker[u]
      BY <1>4, <2>3
    <2> QED
      BY <1>4, <1>5, <2>1, <2>2, <2>3 DEF IInv, WorkersOK, tables, history
  <1> QED
    BY <1>1, <1>5, <1>6, WorkerStepInv

LEMMA CallProviderInv ==
  ASSUME IInv, NEW w \in Workers, CallProvider(w)
  PROVE  IInv'
  <1> DEFINE r == worker[w].job
  <1>1. worker[w].pc = "reserved" /\ UNCHANGED <<access, tables>>
    BY DEF CallProvider
  <1>2. /\ r \in Runs /\ run[r].attempts = 1 /\ run[r].lease = w /\ calls[r] = 0
        /\ charge[r] = 0
    BY <1>1 DEF IInv, WorkersOK, RunsOK
  <1>3. TypeOK'
    BY <1>2, CallProviderType DEF IInv
  <1>4. PICK c \in Amounts :
          /\ charge' = [charge EXCEPT ![r] = @ + c]
          /\ worker' = [worker EXCEPT ![w].pc = "calling", ![w].out.amount = c]
    BY DEF CallProvider
  <1>5. /\ calls'[r] = 1 /\ charge'[r] = c
        /\ \A s \in Runs \ {r} : calls'[s] = calls[s] /\ charge'[s] = charge[s]
    BY <1>2, <1>4, AmountAssumption DEF CallProvider, IInv, TypeOK
  <1>6. /\ worker'[w].pc = "calling" /\ worker'[w].job = r /\ worker'[w].out.amount = c
        /\ \A u \in Workers \ {w} : worker'[u] = worker[u]
    BY <1>4 DEF IInv, TypeOK, Process, Outcome
  <1>7. RunsOK'
    BY <1>1, <1>5 DEF IInv, RunsOK, tables
  <1>8. WorkersOK'
    <2>1. \A u \in Workers \ {w} :
            worker[u].pc \in {"reserved", "calling", "returned"} => worker[u].job # r
      BY <1>2 DEF IInv, WorkersOK
    <2> QED
      BY <1>1, <1>2, <1>5, <1>6, <2>1 DEF IInv, WorkersOK, tables
  <1>9. AtMostOnceCall'
    BY <1>1, <1>2, <1>5 DEF IInv, AtMostOnceCall, tables
  <1>10. AtMostOneExposed'
    BY <1>1 DEF IInv, AtMostOneExposed, Exposed, tables
  <1>11. ArtifactIffReview'
    BY <1>1, <1>2, <1>5 DEF IInv, ArtifactIffReview, tables
  <1>12. ReceiptsOK' /\ CancelHonoured'
    BY <1>1, <1>2, <1>3, <1>5, ReceiptsKept DEF IInv, TypeOK, Row, tables
  <1> QED
    BY <1>3, <1>7, <1>8, <1>9, <1>10, <1>11, <1>12 DEF IInv

LEMMA CancelInv ==
  ASSUME IInv, NEW a \in Actors, NEW k \in Keys, NEW r \in Runs, NEW v \in 1..4,
         Cancel(a, k, r, v)
  PROVE  IInv'
  <1> DEFINE row == CASE run[r].state = "queued"  -> Cancelled(run[r])
                      [] run[r].state = "running" -> CancelAsked(run[r])
                      [] OTHER                    -> run[r]
  <1>1. TypeOK'
    BY CancelType DEF IInv
  <1>2. run[r] \in Row /\ run[r].version \in Nat
    BY DEF IInv, TypeOK, Row, States
  <1>3. /\ run[r].state \in {"queued", "running", "cancel_requested"}
        /\ receipt[<<a, k>>] = None
        /\ run' = [run EXCEPT ![r] = row]
        /\ receipt' = [receipt EXCEPT ![<<a, k>>] =
                         [run |-> r, state |-> row.state, version |-> row.version]]
        /\ UNCHANGED <<access, reservation, observation, artifact, worker, calls, charge>>
    BY DEF Cancel, InFlightStates, history
  <1>4. /\ row.attempts = run[r].attempts /\ row.lease = run[r].lease
        /\ row.version \in {run[r].version, run[r].version + 1}
        /\ row.state = IF run[r].state = "queued" THEN "cancelled" ELSE "cancel_requested"
    <2>1. CASE run[r].state = "queued"
      BY <1>2, <2>1 DEF Cancelled, Row
    <2>2. CASE run[r].state = "running"
      BY <1>2, <2>2 DEF CancelAsked, Row
    <2>3. CASE run[r].state = "cancel_requested"
      BY <1>2, <2>3
    <2> QED
      BY <1>3, <2>1, <2>2, <2>3
  <1> HIDE DEF row
  <1>5. /\ run'[r] = row /\ \A s \in Runs \ {r} : run'[s] = run[s]
        /\ receipt'[<<a, k>>] = [run |-> r, state |-> row.state, version |-> row.version]
        /\ \A x \in Actors \X Keys : x # <<a, k>> => receipt'[x] = receipt[x]
    BY <1>3 DEF IInv, TypeOK
  <1>6. run[r].state = "queued" => run[r].attempts = 0 /\ calls[r] = 0
    <2>1. run[r].state = "queued" => run[r].attempts = 0
      BY DEF IInv, RunsOK
    <2>2. calls[r] \in Nat /\ calls[r] <= 1 /\ (calls[r] = 1 => run[r].attempts = 1)
      BY DEF IInv, TypeOK, AtMostOnceCall
    <2> QED
      BY <2>1, <2>2
  <1>7. r \notin artifact
    BY <1>3 DEF IInv, ArtifactIffReview
  <1>8. RunsOK' /\ WorkersOK' /\ AtMostOneExposed' /\ AtMostOnceCall' /\ ArtifactIffReview'
    <2>1. ASSUME NEW s \in Runs
          PROVE  /\ run'[s].attempts = run[s].attempts
                 /\ run[s].attempts = 1 =>
                      run'[s].lease = run[s].lease /\ reservation'[s] = reservation[s]
                 /\ run'[s].state \in {"absent", "queued"} => run[s].attempts = 0
                 /\ run'[s].state \in InFlightStates => run[s].state \in InFlightStates
                 /\ run'[s].state = "needs_review" <=> run[s].state = "needs_review"
      <3>1. CASE s = r
        BY <1>3, <1>4, <1>5, <3>1 DEF InFlightStates
      <3>2. CASE s # r
        BY <1>3, <1>5, <3>2 DEF IInv, RunsOK
      <3> QED
        BY <3>1, <3>2
    <2> QED
      BY <1>1, <1>3, <2>1, QuietStep
  <1>9. ReceiptsOK' /\ CancelHonoured'
    <2> SUFFICES ASSUME NEW x \in Actors \X Keys, receipt'[x] # None
                 PROVE  LET s == receipt'[x].run IN
                        /\ receipt'[x].state = "cancelled" =>
                             /\ run'[s].attempts = 0
                             /\ run'[s].state = "cancelled" /\ calls[s] = 0
                        /\ receipt'[x].state = "cancel_requested" =>
                             /\ run'[s].state \in {"cancel_requested", "cancelled", "unknown"}
                             /\ s \notin artifact
                        /\ run'[s].version >= receipt'[x].version
      BY <1>3 DEF ReceiptsOK, CancelHonoured
    <2>1. CASE x = <<a, k>>
      <3>1. row.version >= row.version
        BY <1>2, <1>4
      <3> QED
        BY <1>4, <1>5, <1>6, <1>7, <2>1, <3>1
    <2>2. CASE x # <<a, k>>
      <3> DEFINE s == receipt[x].run
      <3>1. receipt'[x] = receipt[x] /\ s \in Runs /\ receipt[x].version \in Nat
        BY <1>5, <2>2 DEF IInv, TypeOK, Receipt
      <3>2. /\ receipt[x].state = "cancelled" =>
                  run[s].attempts = 0 /\ run[s].state = "cancelled" /\ calls[s] = 0
            /\ receipt[x].state = "cancel_requested" =>
                  run[s].state \in {"cancel_requested", "cancelled", "unknown"} /\ s \notin artifact
            /\ run[s].version >= receipt[x].version
        BY <3>1 DEF IInv, ReceiptsOK, CancelHonoured
      <3>3. CASE s = r
        BY <1>2, <1>3, <1>4, <1>5, <3>1, <3>2, <3>3
      <3>4. CASE s # r
        BY <1>5, <3>1, <3>2, <3>4
      <3> QED
        BY <3>3, <3>4
    <2> QED
      BY <2>1, <2>2
  <1> QED
    BY <1>1, <1>8, <1>9 DEF IInv

LEMMA DispatchReservedInv ==
  ASSUME IInv, NEW w \in Workers, NEW p \in Policies, DispatchReserved(w, p)
  PROVE  IInv'
  <1> DEFINE r == worker[w].job
  <1>1. /\ worker[w].pc = "claimed" /\ run[r].state = "queued" /\ InFlight = {}
        /\ run' = [run EXCEPT ![r] = Reserved(run[r], w)]
        /\ worker' = [worker EXCEPT ![w].pc = "reserved"]
        /\ UNCHANGED <<access, reservation, observation, artifact, receipt, calls, charge>>
    BY DEF DispatchReserved, history
  <1>2. reservation[r] = p /\ Unresolved = {} /\ Overrun = {}
    BY DEF DispatchReserved, DispatchError, BudgetKeeps
  <1>3. r \in Runs /\ run[r].attempts = 0 /\ calls[r] = 0 /\ charge[r] = 0
    <2>1. r \in Runs
      BY <1>1 DEF IInv, WorkersOK
    <2>2. run[r].attempts = 0
      BY <1>1, <2>1 DEF IInv, RunsOK
    <2>3. calls[r] \in Nat /\ calls[r] <= 1 /\ (calls[r] = 1 => run[r].attempts = 1)
      BY <2>1 DEF IInv, TypeOK, AtMostOnceCall
    <2>4. calls[r] = 0
      BY <2>2, <2>3
    <2> QED
      BY <2>1, <2>2, <2>4 DEF IInv, RunsOK
  <1>4. TypeOK'
    BY <1>3, DispatchReservedType DEF IInv
  <1>5. /\ run'[r].state = "running" /\ run'[r].attempts = 1 /\ run'[r].lease = w
        /\ \A s \in Runs \ {r} : run'[s] = run[s]
    <2>1. run[r] \in Row /\ "running" \in States
      BY <1>3 DEF IInv, TypeOK, States, InFlightStates
    <2>2. /\ Reserved(run[r], w).state = "running"
          /\ Reserved(run[r], w).attempts = 1 /\ Reserved(run[r], w).lease = w
      BY <2>1, RowFields
    <2> QED
      BY <1>1, <1>3, <2>2 DEF IInv, TypeOK
  <1>6. /\ worker'[w].pc = "reserved" /\ worker'[w].job = r
        /\ \A u \in Workers \ {w} : worker'[u] = worker[u]
    BY <1>1 DEF IInv, TypeOK, Process
  \* The heart of the argument: the totals the dispatch read leave nothing exposed.
  <1>7. \A s \in Runs : ~Exposed(s)
    <2> SUFFICES ASSUME NEW s \in Runs, Exposed(s)
                 PROVE  FALSE
      OBVIOUS
    <2>1. run[s].attempts = 1 /\ reservation[s] # None
      BY DEF Exposed, IInv, RunsOK
    <2>2. run[s].state \notin InFlightStates
      BY <1>1 DEF InFlight
    <2>3. run[s].state \notin {"absent", "queued"}
      BY <2>1 DEF IInv, RunsOK
    <2>4. CASE observation[s] = None
      BY <1>2, <2>1, <2>2, <2>3, <2>4 DEF Unresolved
    <2>5. CASE observation[s] # None
      BY <1>2, <2>1, <2>5 DEF Exposed, Overrun
    <2> QED
      BY <2>4, <2>5
  <1>8. observation[r] = None
    BY <1>3 DEF IInv, RunsOK
  <1>9. RunsOK'
    BY <1>1, <1>2, <1>3, <1>5, <1>8, NoneAssumption DEF IInv, RunsOK
  <1>10. WorkersOK'
    <2>1. \A u \in Workers \ {w} :
            worker[u].pc \in {"reserved", "calling", "returned"} => worker[u].job # r
      BY <1>3 DEF IInv, WorkersOK
    <2> QED
      BY <1>1, <1>3, <1>5, <1>6, <2>1 DEF IInv, WorkersOK
  <1>11. AtMostOneExposed'
    BY <1>1, <1>5, <1>7 DEF AtMostOneExposed, Exposed
  <1>12. AtMostOnceCall'
    BY <1>1, <1>3, <1>5 DEF IInv, AtMostOnceCall
  <1>13. ArtifactIffReview'
    BY <1>1, <1>3, <1>5 DEF IInv, ArtifactIffReview
  <1>14. ReceiptsOK' /\ CancelHonoured'
    BY <1>1, <1>4, <1>5, ReceiptsKept DEF IInv, TypeOK, Row
  <1> QED
    BY <1>4, <1>9, <1>10, <1>11, <1>12, <1>13, <1>14 DEF IInv

LEMMA FinishInv ==
  ASSUME IInv, NEW w \in Workers, NEW fresh \in BOOLEAN, Finish(w, fresh)
  PROVE  IInv'
  <1> DEFINE r   == worker[w].job
             out == worker[w].out
             st  == FinalState(r, out, fresh)
  <1>1. /\ worker[w].pc = "returned" /\ Holds(w, r)
        /\ observation' = IF Observes(r, out)
                          THEN [observation EXCEPT ![r] = out.amount] ELSE observation
        /\ artifact' = IF st = "needs_review" THEN artifact \cup {r} ELSE artifact
        /\ run' = [run EXCEPT ![r] = Ended(run[r], st)]
        /\ worker' = [worker EXCEPT ![w] = Idle]
        /\ UNCHANGED <<access, reservation, receipt, calls, charge>>
    BY DEF Finish, history
  <1>2. /\ r \in Runs /\ run[r].attempts = 1 /\ run[r].lease = w
        /\ calls[r] = 1 /\ charge[r] = out.amount
        /\ run[r].state \in InFlightStates /\ observation[r] = None
    BY <1>1 DEF IInv, WorkersOK, RunsOK, Holds
  <1>3. TypeOK'
    BY <1>2, FinishType DEF IInv
  <1>4. /\ st \in TerminalStates \ {"blocked"}
        /\ run[r].state = "cancel_requested" => st \in {"cancelled", "unknown"}
    BY <1>2 DEF FinalState, TerminalStates, InFlightStates
  <1>5. /\ run'[r].state = st /\ run'[r].attempts = 1 /\ run'[r].lease = w
        /\ run'[r].version = run[r].version + 1 /\ run[r].version \in Nat
        /\ \A s \in Runs \ {r} : run'[s] = run[s]
    <2>1. run[r] \in Row /\ st \in States
      BY <1>2, <1>4 DEF IInv, TypeOK, States
    <2>2. /\ Ended(run[r], st).state = st /\ Ended(run[r], st).attempts = run[r].attempts
          /\ Ended(run[r], st).lease = run[r].lease
          /\ Ended(run[r], st).version = run[r].version + 1 /\ run[r].version \in Nat
      BY <2>1, <1>2, RowFields DEF Row
    <2> HIDE DEF st
    <2> QED
      BY <1>1, <1>2, <2>2 DEF IInv, TypeOK
  <1>6. /\ \A s \in Runs \ {r} : observation'[s] = observation[s]
        /\ \A s \in Runs \ {r} : s \in artifact' <=> s \in artifact
        /\ r \in artifact' <=> st = "needs_review"
    <2>1. r \notin artifact
      BY <1>2 DEF IInv, ArtifactIffReview, InFlightStates
    <2> QED
      BY <1>1, <1>2, <2>1 DEF IInv, TypeOK
  <1>7. \A u \in Workers \ {w} :
          /\ worker'[u] = worker[u]
          /\ worker[u].pc \in {"reserved", "calling", "returned"} => worker[u].job # r
    BY <1>1, <1>2 DEF IInv, TypeOK, WorkersOK
  <1>8. worker'[w].pc = "idle"
    BY <1>1 DEF IInv, TypeOK, Idle
  \* A draft is kept only with a usable result of an authorised run: it is observed.
  <1>9. st = "needs_review" => observation'[r] = charge[r]
    <2>1. SUFFICES ASSUME st = "needs_review"
                   PROVE  observation'[r] = charge[r]
      OBVIOUS
    <2>2. run[r].state = "running"
      BY <2>1, <1>2, <1>4 DEF InFlightStates
    <2>3. ~FinishError(r, out, fresh)
      BY <2>1, <2>2 DEF FinalState
    <2>4. out.err = "none" /\ Authorized(run[r].actor) /\ ~(out.gen /\ ~out.priced)
      BY <2>3 DEF FinishError
    <2>5. ~out.gen => out.err # "none"
      BY <1>1 DEF IInv, WorkersOK
    <2>6. out.gen /\ out.priced
      BY <2>4, <2>5, Zenon
    <2>7. Observes(r, out)
      BY <2>4, <2>6, Zenon DEF Observes
    <2> QED
      BY <1>1, <1>2, <2>7 DEF IInv, TypeOK
  <1> HIDE DEF st
  <1>10. RunsOK'
    BY <1>1, <1>2, <1>4, <1>5, <1>6 DEF IInv, RunsOK, TerminalStates, InFlightStates
  <1>11. WorkersOK'
    BY <1>1, <1>5, <1>7, <1>8 DEF IInv, WorkersOK
  <1>12. AtMostOneExposed'
    <2>1. Exposed(r)
      BY <1>2 DEF Exposed
    <2>2. ASSUME NEW s \in Runs, s # r
          PROVE  ~Exposed(s)'
      <3>1. Exposed(s)' <=> Exposed(s)
        BY <1>1, <1>5, <1>6, <2>2 DEF Exposed
      <3> QED
        BY <1>2, <2>1, <2>2, <3>1 DEF IInv, AtMostOneExposed
    <2> QED
      BY <2>2 DEF AtMostOneExposed
  <1>13. AtMostOnceCall'
    BY <1>1, <1>2, <1>5 DEF IInv, AtMostOnceCall
  <1>14. ArtifactIffReview'
    BY <1>1, <1>2, <1>5, <1>6, <1>9 DEF IInv, ArtifactIffReview
  <1>15. ReceiptsOK' /\ CancelHonoured'
    <2>1. ASSUME NEW s \in Runs,
                 run[s].state \in {"cancel_requested", "cancelled", "unknown"}
          PROVE  /\ run'[s].version >= run[s].version
                 /\ run[s].state = "cancelled" =>
                      run'[s].state = "cancelled" /\ run'[s].attempts = run[s].attempts
                 /\ run'[s].state \in {"cancel_requested", "cancelled", "unknown"}
                 /\ s \notin artifact => s \notin artifact'
                 /\ run[s].attempts = 0 => calls'[s] = calls[s]
      <3>1. CASE s = r
        BY <1>1, <1>2, <1>4, <1>5, <1>6, <2>1, <3>1 DEF InFlightStates
      <3>2. CASE s # r
        BY <1>1, <1>5, <1>6, <2>1, <3>2 DEF IInv, TypeOK, Row
      <3> QED
        BY <3>1, <3>2
    <2> QED
      BY <1>1, <1>3, <2>1, ReceiptsKept
  <1> QED
    BY <1>3, <1>10, <1>11, <1>12, <1>13, <1>14, <1>15 DEF IInv

LEMMA ReconcileInv ==
  ASSUME IInv, NEW S \in SUBSET Runs, Reconcile(S)
  PROVE  IInv'
  <1>1. TypeOK'
    BY ReconcileType DEF IInv
  <1>2. ASSUME NEW r \in Runs
        PROVE  \/ run'[r] = run[r]
               \/ run[r].state = "queued" /\ run'[r] = Ended(run[r], "blocked")
               \/ run[r].state \in InFlightStates /\ run'[r] = Ended(run[r], "unknown")
    BY DEF Reconcile, Reconciled, Stale, InFlightStates
  <1> QED
    BY <1>1, <1>2, ClosingInv DEF Reconcile, history

LEMMA ClockInv ==
  ASSUME IInv, NEW r \in Runs, LeaseExpires(r) \/ Age(r)
  PROVE  IInv'
  <1>1. TypeOK'
    BY ClockType DEF IInv
  <1>2. ASSUME NEW s \in Runs
        PROVE  \/ run'[s] = run[s]
               \/ run'[s] = [run[s] EXCEPT !.leaseUntil = "past"]
               \/ run'[s] = [run[s] EXCEPT !.aged = TRUE]
    BY DEF LeaseExpires, Age, IInv, TypeOK
  <1> QED
    BY <1>1, <1>2, ClosingInv DEF LeaseExpires, Age, history

LEMMA DispatchBlockedInv ==
  ASSUME IInv, NEW w \in Workers, NEW p, NEW fresh \in BOOLEAN, DispatchBlocked(w, p, fresh)
  PROVE  IInv'
  <1> DEFINE r == worker[w].job
  <1>1. r \in Runs /\ worker[w].pc = "claimed"
    BY DEF DispatchBlocked, IInv, WorkersOK
  <1>2. TypeOK'
    BY <1>1, DispatchBlockedType DEF IInv
  <1>3. /\ run[r].state = "queued" /\ run' = [run EXCEPT ![r] = Ended(run[r], "blocked")]
        /\ worker' = [worker EXCEPT ![w] = Idle]
        /\ UNCHANGED <<access, reservation, observation, artifact, receipt, calls, charge>>
    BY DEF DispatchBlocked, history
  <1>4. run[r] \in Row /\ "blocked" \in States /\ run[r].attempts = 0
    BY <1>1, <1>3 DEF IInv, TypeOK, RunsOK, States, TerminalStates
  <1>5. /\ run'[r].state = "blocked" /\ run'[r].attempts = 0
        /\ \A s \in Runs \ {r} : run'[s] = run[s]
    BY <1>1, <1>3, <1>4 DEF IInv, TypeOK, Ended, Row
  <1>6. /\ worker'[w].pc = "idle"
        /\ \A u \in Workers \ {w} : worker'[u] = worker[u]
        /\ \A u \in Workers \ {w} :
             worker[u].pc \in {"reserved", "calling", "returned"} => worker[u].job # r
    BY <1>3, <1>4 DEF IInv, TypeOK, WorkersOK, Idle
  <1>7. RunsOK'
    BY <1>3, <1>4, <1>5 DEF IInv, RunsOK, InFlightStates
  <1>8. WorkersOK'
    BY <1>3, <1>5, <1>6 DEF IInv, WorkersOK
  <1>9. AtMostOneExposed'
    BY <1>3, <1>5 DEF IInv, AtMostOneExposed, Exposed
  <1>10. AtMostOnceCall'
    BY <1>3, <1>4, <1>5 DEF IInv, AtMostOnceCall
  <1>11. ArtifactIffReview'
    BY <1>3, <1>4, <1>5 DEF IInv, ArtifactIffReview
  <1>12. ReceiptsOK' /\ CancelHonoured'
    BY <1>2, <1>3, <1>5, ReceiptsKept DEF IInv, TypeOK, Row
  <1> QED
    BY <1>2, <1>7, <1>8, <1>9, <1>10, <1>11, <1>12 DEF IInv

LEMMA StartInv ==
  ASSUME IInv, NEW a \in Actors, NEW k \in Keys, NEW r \in Runs,
         StartBlocked(a, k, r) \/ \E p \in Policies : StartQueued(a, k, r, p)
  PROVE  IInv'
  <1>1. CASE StartBlocked(a, k, r)
    <2>1. TypeOK'
      BY <1>1, StartBlockedType DEF IInv
    <2> QED
      BY <1>1, <2>1, BirthInv DEF StartBlocked, StartGuard, Exists, history
  <1>2. CASE \E p \in Policies : StartQueued(a, k, r, p)
    <2>1. PICK p \in Policies : StartQueued(a, k, r, p)
      BY <1>2
    <2>2. TypeOK'
      BY <2>1, StartQueuedType DEF IInv
    <2>3. \A s \in Runs \ {r} : reservation'[s] = reservation[s]
      BY <2>1 DEF StartQueued, IInv, TypeOK
    <2> QED
      BY <2>1, <2>2, <2>3, BirthInv DEF StartQueued, StartGuard, Exists, history
  <1> QED
    BY <1>1, <1>2

LEMMA NextInv ==
  ASSUME IInv, [Next]_vars
  PROVE  IInv'
  <1>1. ASSUME NEW a \in Actors, NEW k \in Keys, NEW r \in Runs,
               StartBlocked(a, k, r) \/ \E p \in Policies : StartQueued(a, k, r, p)
        PROVE  IInv'
    BY <1>1, StartInv
  <1>2. ASSUME NEW a \in Actors, NEW k \in Keys, NEW r \in Runs, NEW v \in 1..4,
               Cancel(a, k, r, v)
        PROVE  IInv'
    BY <1>2, CancelInv
  <1>3. ASSUME NEW w \in Workers, Poll(w)
        PROVE  IInv'
    BY <1>3, PollInv
  <1>4. ASSUME NEW w \in Workers, NEW p \in Policies \cup {None}, NEW fresh \in BOOLEAN,
               DispatchSkipped(w, p, fresh) \/ DispatchBlocked(w, p, fresh)
        PROVE  IInv'
    BY <1>4, DispatchBlockedInv, WorkerIdleInv DEF DispatchSkipped
  <1>5. ASSUME NEW w \in Workers, NEW p \in Policies, DispatchReserved(w, p)
        PROVE  IInv'
    BY <1>5, DispatchReservedInv
  <1>6. ASSUME NEW w \in Workers, CallProvider(w)
        PROVE  IInv'
    BY <1>6, CallProviderInv
  <1>7. ASSUME NEW w \in Workers, ProviderReturns(w)
        PROVE  IInv'
    BY <1>7, ProviderReturnsInv
  <1>8. ASSUME NEW w \in Workers, FinishFenced(w) \/ Crash(w)
        PROVE  IInv'
    BY <1>8, WorkerIdleInv DEF FinishFenced, Crash
  <1>9. ASSUME NEW w \in Workers, NEW fresh \in BOOLEAN, Finish(w, fresh)
        PROVE  IInv'
    BY <1>9, FinishInv
  <1>10. ASSUME NEW S \in SUBSET Runs, Reconcile(S)
         PROVE  IInv'
    BY <1>10, ReconcileInv
  <1>11. ASSUME NEW r \in Runs, LeaseExpires(r) \/ Age(r)
         PROVE  IInv'
    BY <1>11, ClockInv
  <1>12. ASSUME NEW a \in Actors, NEW level \in {"owner", "member", "none"},
                ChangeAccess(a, level)
         PROVE  IInv'
    <2>1. TypeOK'
      BY <1>12 DEF IInv, TypeOK, ChangeAccess, tables, history
    <2>2. WorkersOK'
      BY <1>12 DEF IInv, WorkersOK, ChangeAccess, tables, history
    <2> QED
      BY <1>12, <2>1, <2>2, WorkerStepInv DEF ChangeAccess
  <1>13. CASE UNCHANGED vars
    <2>1. TypeOK'
      BY <1>13 DEF IInv, TypeOK, vars, tables, history
    <2>2. WorkersOK'
      BY <1>13 DEF IInv, WorkersOK, vars, tables, history
    <2> QED
      BY <1>13, <2>1, <2>2, WorkerStepInv DEF vars
  <1> QED
    BY <1>1, <1>2, <1>3, <1>4, <1>5, <1>6, <1>7, <1>8, <1>9, <1>10, <1>11, <1>12, <1>13
    DEF Next

-------------------------------------------------------------------------------
(* Theorems *)

\* The invariant holds in every reachable state, for any number of workers, owners
\* and runs, any tariffs and any interleaving of crashes, cancels and reconciliation.
THEOREM Invariant == Spec => []IInv
  <1>1. Init => IInv
    BY InitInv
  <1>2. IInv /\ [Next]_vars => IInv'
    BY NextInv
  <1> QED
    BY <1>1, <1>2, PTL DEF Spec

\* Every table always holds what its columns allow.
THEOREM TypeCorrect == Spec => []TypeOK
  <1>1. IInv => TypeOK
    BY DEF IInv
  <1> QED
    BY <1>1, Invariant, PTL

\* The stop-loss: at most one dispatched run ever lacks a cost within its reservation.
THEOREM StopLoss == Spec => []AtMostOneExposed
  <1>1. IInv => AtMostOneExposed
    BY DEF IInv
  <1> QED
    BY <1>1, Invariant, PTL

\* No run is ever sent to the provider twice, and none before its dispatch committed.
THEOREM CalledOnce == Spec => []AtMostOnceCall
  <1>1. IInv => AtMostOnceCall
    BY DEF IInv
  <1> QED
    BY <1>1, Invariant, PTL

\* Drafts exist exactly for the runs offered for review, each paid for and recorded.
THEOREM DraftsAccounted == Spec => []ArtifactIffReview
  <1>1. IInv => ArtifactIffReview
    BY DEF IInv
  <1> QED
    BY <1>1, Invariant, PTL

\* What a cancel receipt said stays true whatever the workers do afterwards.
THEOREM CancelKept == Spec => []CancelHonoured
  <1>1. IInv => CancelHonoured
    BY DEF IInv
  <1> QED
    BY <1>1, Invariant, PTL

-------------------------------------------------------------------------------
(* The queue implements the ledger *)

\* What the ledger is told of a run in each of its states.
Tells(r) ==
  /\ run[r].state = "absent" => Phase[r] = "none"
  /\ run[r].state = "queued" => Phase[r] = "accepted"
  /\ run[r].state \in InFlightStates => Phase[r] = "dispatched"
  /\ run[r].state \in TerminalStates =>
       /\ run[r].attempts = 0 => Phase[r] = "refused"
       /\ run[r].attempts # 0 /\ Exposed(r) => Phase[r] = "stuck"
       /\ run[r].attempts # 0 /\ ~Exposed(r) => Phase[r] = "settled"
  /\ \/ run[r].state \in {"absent", "queued"}
     \/ run[r].state \in InFlightStates
     \/ run[r].state \in TerminalStates

LEMMA PhaseOf ==
  ASSUME TypeOK, NEW r \in Runs
  PROVE  Tells(r)
  <1>1. run[r].state \in States
    BY DEF TypeOK, Row
  <1> QED
    BY <1>1 DEF Tells, Phase, PhaseAt, States, InFlightStates, TerminalStates

\* The same of the next state.
LEMMA PhaseNext ==
  ASSUME TypeOK', NEW r \in Runs
  PROVE  Tells(r)'
  <1>1. run'[r].state \in States
    BY DEF TypeOK, Row
  <1> QED
    BY <1>1 DEF Tells, Phase, PhaseAt, States, InFlightStates, TerminalStates

\* Phase is a function, in this state and the next.
LEMMA PhaseFunction ==
  Phase = [r \in Runs |-> Phase[r]] /\ Phase' = [r \in Runs |-> Phase'[r]]
  BY DEF Phase

\* The converse, for the phases the ledger's guards ask about.
LEMMA PhaseMeans ==
  ASSUME TypeOK, NEW r \in Runs
  PROVE  /\ Phase[r] = "dispatched" => run[r].state \in InFlightStates
         /\ Phase[r] = "stuck" => run[r].state \in TerminalStates /\ Exposed(r)
  BY PhaseOf DEF Tells, InFlightStates, TerminalStates

\* A run whose row, reservation and cost say the same of it stays in its phase.
LEMMA PhaseKept ==
  ASSUME TypeOK, TypeOK', NEW r \in Runs,
         run'[r].attempts = run[r].attempts,
         \/ run'[r].state = run[r].state
         \/ run'[r].state \in InFlightStates /\ run[r].state \in InFlightStates,
         reservation'[r] = reservation[r], observation'[r] = observation[r]
  PROVE  Phase'[r] = Phase[r]
  <1>1. Exposed(r)' <=> Exposed(r)
    BY DEF Exposed
  <1>2. Tells(r) /\ Tells(r)'
    BY PhaseOf, PhaseNext
  <1> QED
    BY <1>1, <1>2 DEF Tells, InFlightStates, TerminalStates

LEMMA PhaseStutters ==
  ASSUME TypeOK, TypeOK', UNCHANGED <<run, reservation, observation>>
  PROVE  Phase' = Phase
  <1>1. \A r \in Runs : Phase'[r] = Phase[r]
    BY PhaseKept
  <1> QED
    BY <1>1, PhaseFunction

\* A step that changes only what the tables say of one run moves only its phase.
LEMMA OneMoves ==
  ASSUME TypeOK, TypeOK', NEW r \in Runs,
         \A s \in Runs \ {r} : /\ run'[s] = run[s] /\ reservation'[s] = reservation[s]
                               /\ observation'[s] = observation[s]
  PROVE  Phase' = [Phase EXCEPT ![r] = Phase'[r]]
  <1>1. \A s \in Runs \ {r} : Phase'[s] = Phase[s]
    BY PhaseKept
  <1> QED
    BY <1>1, PhaseFunction

\* Giving up one run.
LEMMA GivesUpOne ==
  ASSUME NEW r \in Runs, Phase' = [Phase EXCEPT ![r] = Phase'[r]],
         \/ Phase[r] = "accepted" /\ Phase'[r] = "refused"
         \/ Phase[r] = "dispatched" /\ Phase'[r] = "stuck"
  PROVE  Ledger!Next
  <1>1. Phase' = [s \in Runs |->
                    IF s \notin {r} THEN Phase[s]
                    ELSE IF Phase[s] = "accepted" THEN "refused" ELSE "stuck"]
    BY PhaseFunction
  <1>2. {r} \subseteq Ledger!In("accepted") \cup Ledger!In("dispatched")
    BY DEF Ledger!In
  <1>3. Ledger!GiveUp({r})
    BY <1>1, <1>2 DEF Ledger!GiveUp
  <1> QED
    BY <1>3 DEF Ledger!Next

\* While no spend is unresolved and no reservation overrun, no run is stuck.
LEMMA NoneStuck ==
  ASSUME IInv, Unresolved = {}, Overrun = {}
  PROVE  Ledger!In("stuck") = {}
  <1> SUFFICES ASSUME NEW r \in Runs, Phase[r] = "stuck"
               PROVE  FALSE
    BY DEF Ledger!In
  <1>1. run[r].state \in TerminalStates /\ Exposed(r) /\ run[r].attempts = 1
    BY PhaseMeans DEF IInv, Exposed
  <1>2. reservation[r] # None
    BY <1>1 DEF IInv, RunsOK
  <1>3. CASE observation[r] = None
    BY <1>1, <1>3 DEF Unresolved, TerminalStates, InFlightStates
  <1>4. CASE observation[r] # None
    BY <1>1, <1>2, <1>4 DEF Overrun, Exposed
  <1> QED
    BY <1>3, <1>4

LEMMA StartQueuedRefines ==
  ASSUME IInv, TypeOK', NEW a \in Actors, NEW k \in Keys, NEW r \in Runs, NEW p \in Policies,
         StartQueued(a, k, r, p)
  PROVE  Ledger!Next
  <1>1. /\ run[r].state = "absent" /\ run'[r].state = "queued"
        /\ \A s \in Runs \ {r} : /\ run'[s] = run[s] /\ reservation'[s] = reservation[s]
                                 /\ observation'[s] = observation[s]
    BY DEF IInv, TypeOK, StartQueued, StartGuard, Exists, NewRow, AbsentRow
  <1>2. Phase[r] = "none" /\ Phase'[r] = "accepted"
    BY <1>1, PhaseOf, PhaseNext DEF IInv, Tells
  <1>3. Phase' = [Phase EXCEPT ![r] = "accepted"]
    BY <1>1, <1>2, OneMoves DEF IInv
  <1>4. Ledger!In("stuck") = {}
    BY NoneStuck DEF StartQueued, Admission
  <1>5. Ledger!Accept(r)
    BY <1>2, <1>3, <1>4 DEF Ledger!Accept
  <1> QED
    BY <1>5 DEF Ledger!Next

LEMMA StartBlockedRefines ==
  ASSUME IInv, TypeOK', NEW a \in Actors, NEW k \in Keys, NEW r \in Runs,
         StartBlocked(a, k, r)
  PROVE  Ledger!Next
  <1>1. /\ run[r].state = "absent" /\ run'[r].state = "blocked" /\ run'[r].attempts = 0
        /\ \A s \in Runs \ {r} : /\ run'[s] = run[s] /\ reservation'[s] = reservation[s]
                                 /\ observation'[s] = observation[s]
    BY DEF IInv, TypeOK, StartBlocked, StartGuard, Exists, NewRow, AbsentRow
  <1>2. Phase[r] = "none" /\ Phase'[r] = "refused"
    BY <1>1, PhaseOf, PhaseNext DEF IInv, Tells, InFlightStates, TerminalStates
  <1>3. Phase' = [Phase EXCEPT ![r] = "refused"]
    BY <1>1, <1>2, OneMoves DEF IInv
  <1>4. Ledger!Refuse(r)
    BY <1>2, <1>3 DEF Ledger!Refuse
  <1> QED
    BY <1>4 DEF Ledger!Next

LEMMA CancelRefines ==
  ASSUME IInv, TypeOK', NEW a \in Actors, NEW k \in Keys, NEW r \in Runs, NEW v \in 1..4,
         Cancel(a, k, r, v)
  PROVE  Ledger!Next \/ Phase' = Phase
  <1>1. /\ run[r] \in Row /\ States # {} /\ UNCHANGED <<reservation, observation>>
        /\ \A s \in Runs \ {r} : run'[s] = run[s]
        /\ run[r].state \in {"queued"} \cup InFlightStates
    BY DEF IInv, TypeOK, Cancel, States
  <1>2. CASE run[r].state = "queued"
    <2>1. run'[r] = Cancelled(run[r]) /\ run[r].attempts = 0
      BY <1>2 DEF Cancel, IInv, TypeOK, RunsOK
    <2>2. run'[r].state = "cancelled" /\ run'[r].attempts = 0
      BY <1>1, <2>1 DEF Cancelled, Row
    <2>3. Phase[r] = "accepted" /\ Phase'[r] = "refused"
      BY <1>2, <2>2, PhaseOf, PhaseNext DEF IInv, Tells, InFlightStates, TerminalStates
    <2> QED
      BY <1>1, <2>3, OneMoves, GivesUpOne DEF IInv
  <1>3. CASE run[r].state \in InFlightStates
    <2>1. run'[r].state \in InFlightStates /\ run'[r].attempts = run[r].attempts
      <3>1. CASE run[r].state = "running"
        <4>1. run'[r] = CancelAsked(run[r])
          BY <3>1 DEF Cancel, IInv, TypeOK
        <4> QED
          BY <1>1, <4>1 DEF CancelAsked, Row, InFlightStates
      <3>2. CASE run[r].state = "cancel_requested"
        <4>1. run'[r] = run[r]
          BY <3>2 DEF Cancel, IInv, TypeOK
        <4> QED
          BY <1>3, <4>1
      <3> QED
        BY <1>3, <3>1, <3>2 DEF InFlightStates
    <2>2. Phase'[r] = Phase[r]
      BY <1>1, <1>3, <2>1, PhaseKept DEF IInv
    <2>3. Phase' = [Phase EXCEPT ![r] = Phase'[r]]
      BY <1>1, OneMoves DEF IInv
    <2> QED
      BY <2>2, <2>3, PhaseFunction
  <1> QED
    BY <1>1, <1>2, <1>3

LEMMA DispatchBlockedRefines ==
  ASSUME IInv, TypeOK', NEW w \in Workers, NEW p, NEW fresh \in BOOLEAN,
         DispatchBlocked(w, p, fresh)
  PROVE  Ledger!Next
  <1> DEFINE r == worker[w].job
  <1>1. r \in Runs /\ run[r].state = "queued"
    BY DEF DispatchBlocked, IInv, WorkersOK
  <1>2. /\ run' = [run EXCEPT ![r] = Ended(run[r], "blocked")]
        /\ UNCHANGED <<reservation, observation>>
    BY DEF DispatchBlocked
  <1>3. run[r] \in Row /\ run[r].attempts = 0
    BY <1>1 DEF IInv, TypeOK, RunsOK
  <1>4. /\ run'[r].state = "blocked" /\ run'[r].attempts = 0
        /\ \A s \in Runs \ {r} : run'[s] = run[s]
    BY <1>1, <1>2, <1>3 DEF IInv, TypeOK, Ended, Row
  <1> HIDE DEF r
  <1>5. Phase[r] = "accepted" /\ Phase'[r] = "refused"
    BY <1>1, <1>4, PhaseOf, PhaseNext DEF IInv, Tells, InFlightStates, TerminalStates
  <1> QED
    BY <1>1, <1>2, <1>4, <1>5, OneMoves, GivesUpOne DEF IInv

LEMMA DispatchReservedRefines ==
  ASSUME IInv, TypeOK', NEW w \in Workers, NEW p, DispatchReserved(w, p)
  PROVE  Ledger!Next
  <1> DEFINE r == worker[w].job
  <1>1. /\ r \in Runs /\ run[r].state = "queued" /\ InFlight = {}
        /\ Unresolved = {} /\ Overrun = {}
    BY DEF DispatchReserved, DispatchError, BudgetKeeps, IInv, WorkersOK
  <1>2. /\ run' = [run EXCEPT ![r] = Reserved(run[r], w)]
        /\ UNCHANGED <<reservation, observation>> /\ run[r] \in Row
    BY <1>1 DEF DispatchReserved, IInv, TypeOK
  <1>3. run'[r].state = "running" /\ \A s \in Runs \ {r} : run'[s] = run[s]
    BY <1>1, <1>2 DEF IInv, TypeOK, Reserved, Row
  <1> HIDE DEF r
  <1>4. Phase[r] = "accepted" /\ Phase'[r] = "dispatched"
    BY <1>1, <1>3, PhaseOf, PhaseNext DEF IInv, Tells, InFlightStates
  <1>5. Phase' = [Phase EXCEPT ![r] = "dispatched"]
    BY <1>1, <1>2, <1>3, <1>4, OneMoves DEF IInv
  <1>6. Ledger!In("dispatched") = {}
    BY <1>1, PhaseMeans DEF Ledger!In, InFlight, IInv
  <1>7. Ledger!In("stuck") = {}
    BY <1>1, NoneStuck
  <1>8. Ledger!Dispatch(r)
    BY <1>4, <1>5, <1>6, <1>7 DEF Ledger!Dispatch
  <1> QED
    BY <1>1, <1>8 DEF Ledger!Next

LEMMA FinishRefines ==
  ASSUME IInv, TypeOK', NEW w \in Workers, NEW fresh \in BOOLEAN, Finish(w, fresh)
  PROVE  Ledger!Next
  <1>a. PICK r : r = worker[w].job
    OBVIOUS
  <1>b. PICK st : st = FinalState(r, worker[w].out, fresh)
    OBVIOUS
  <1>1. r \in Runs /\ run[r].state \in InFlightStates /\ run[r].attempts = 1
    BY <1>a DEF Finish, Holds, IInv, WorkersOK, RunsOK
  <1>2. st \in {"needs_review", "failed", "cancelled", "unknown"}
    BY <1>b DEF FinalState
  <1>3. /\ run' = [run EXCEPT ![r] = Ended(run[r], st)] /\ reservation' = reservation
        /\ \A s \in Runs \ {r} : observation'[s] = observation[s]
        /\ run[r] \in Row
    BY <1>a, <1>b, <1>1 DEF Finish, IInv, TypeOK
  <1>4. /\ run'[r].state = st /\ run'[r].attempts = 1
        /\ \A s \in Runs \ {r} : run'[s] = run[s]
    BY <1>1, <1>3 DEF IInv, TypeOK, Ended, Row
  <1>5. run'[r].state \in TerminalStates
    BY <1>2, <1>4 DEF TerminalStates
  <1>6. /\ Phase[r] = "dispatched"
        /\ Exposed(r)' => Phase'[r] = "stuck"
        /\ ~Exposed(r)' => Phase'[r] = "settled"
    <2>1. Tells(r) /\ Tells(r)'
      BY <1>1, PhaseOf, PhaseNext DEF IInv
    <2> QED
      BY <1>1, <1>4, <1>5, <2>1 DEF Tells
  <1>7. Phase' = [Phase EXCEPT ![r] = Phase'[r]]
    BY <1>1, <1>3, <1>4, OneMoves DEF IInv
  <1>8. CASE Exposed(r)'
    BY <1>1, <1>6, <1>7, <1>8, GivesUpOne
  <1>9. CASE ~Exposed(r)'
    <2>1. Ledger!Settle(r)
      BY <1>6, <1>7, <1>9 DEF Ledger!Settle
    <2> QED
      BY <1>1, <2>1 DEF Ledger!Next
  <1> QED
    BY <1>8, <1>9

LEMMA ReconcileRefines ==
  ASSUME IInv, TypeOK', NEW S \in SUBSET Runs, Reconcile(S)
  PROVE  Ledger!Next
  <1>1. /\ S # {} /\ UNCHANGED <<reservation, observation>>
        /\ \A r \in Runs \ S : run'[r] = run[r]
        /\ \A r \in S : run'[r] = Reconciled(run[r])
        /\ \A r \in S : run[r].state = "queued" \/ run[r].state \in InFlightStates
    BY DEF Reconcile, Stale
  <1>2. ASSUME NEW r \in S
        PROVE  \/ Phase[r] = "accepted" /\ Phase'[r] = "refused"
               \/ Phase[r] = "dispatched" /\ Phase'[r] = "stuck"
    <2>1. run[r] \in Row /\ r \in Runs
      BY DEF IInv, TypeOK
    <2>2. CASE run[r].state = "queued"
      <3>1. run'[r] = Ended(run[r], "blocked") /\ run[r].attempts = 0
        BY <1>1, <2>1, <2>2 DEF Reconciled, IInv, RunsOK
      <3>2. run'[r].state = "blocked" /\ run'[r].attempts = 0
        BY <2>1, <3>1 DEF Ended, Row
      <3> QED
        BY <2>1, <2>2, <3>2, PhaseOf, PhaseNext DEF IInv, Tells, InFlightStates, TerminalStates
    <2>3. CASE run[r].state \in InFlightStates
      <3>1. /\ run'[r] = Ended(run[r], "unknown") /\ run[r].attempts = 1
            /\ observation[r] = None
        BY <1>1, <2>1, <2>3 DEF Reconciled, IInv, RunsOK, InFlightStates
      <3>2. run'[r].state = "unknown" /\ run'[r].attempts = 1 /\ observation'[r] = None
        BY <1>1, <2>1, <3>1 DEF Ended, Row
      <3>3. Exposed(r)'
        BY <3>2 DEF Exposed
      <3> QED
        BY <2>1, <2>3, <3>2, <3>3, PhaseOf, PhaseNext
        DEF IInv, Tells, InFlightStates, TerminalStates
    <2> QED
      BY <1>1, <2>2, <2>3
  <1>3. \A r \in Runs \ S : Phase'[r] = Phase[r]
    BY <1>1, PhaseKept DEF IInv
  <1>4. Phase' = [r \in Runs |->
                    IF r \notin S THEN Phase[r]
                    ELSE IF Phase[r] = "accepted" THEN "refused" ELSE "stuck"]
    <2>1. \A r \in Runs : Phase'[r] = IF r \notin S THEN Phase[r]
                             ELSE IF Phase[r] = "accepted" THEN "refused" ELSE "stuck"
      BY <1>2, <1>3
    <2> QED
      BY <2>1, PhaseFunction
  <1>5. S \subseteq Ledger!In("accepted") \cup Ledger!In("dispatched")
    BY <1>2 DEF Ledger!In
  <1>6. Ledger!GiveUp(S)
    BY <1>1, <1>4, <1>5 DEF Ledger!GiveUp
  <1> QED
    BY <1>6 DEF Ledger!Next

LEMMA ClockRefines ==
  ASSUME IInv, TypeOK', NEW r \in Runs, LeaseExpires(r) \/ Age(r)
  PROVE  Phase' = Phase
  <1>1. /\ UNCHANGED <<reservation, observation>>
        /\ \A s \in Runs : run'[s].state = run[s].state /\ run'[s].attempts = run[s].attempts
    BY DEF LeaseExpires, Age, IInv, TypeOK, Row
  <1>2. \A s \in Runs : Phase'[s] = Phase[s]
    BY <1>1, PhaseKept DEF IInv
  <1> QED
    BY <1>2, PhaseFunction

LEMMA NextRefines ==
  ASSUME IInv, [Next]_vars
  PROVE  Ledger!Next \/ Phase' = Phase
  <1>0. TypeOK /\ TypeOK'
    BY NextInv DEF IInv
  <1>1. ASSUME NEW a \in Actors, NEW k \in Keys, NEW r \in Runs,
               \/ \E p \in Policies : StartQueued(a, k, r, p)
               \/ StartBlocked(a, k, r)
               \/ \E v \in 1..4 : Cancel(a, k, r, v)
        PROVE  Ledger!Next \/ Phase' = Phase
    BY <1>0, <1>1, StartQueuedRefines, StartBlockedRefines, CancelRefines
  <1>2. ASSUME NEW w \in Workers, NEW p, NEW fresh \in BOOLEAN, DispatchBlocked(w, p, fresh)
        PROVE  Ledger!Next
    BY <1>0, <1>2, DispatchBlockedRefines
  <1>3. ASSUME NEW w \in Workers, NEW p, DispatchReserved(w, p)
        PROVE  Ledger!Next
    BY <1>0, <1>3, DispatchReservedRefines
  <1>4. ASSUME NEW w \in Workers, NEW fresh \in BOOLEAN, Finish(w, fresh)
        PROVE  Ledger!Next
    BY <1>0, <1>4, FinishRefines
  <1>5. ASSUME NEW S \in SUBSET Runs, Reconcile(S)
        PROVE  Ledger!Next
    BY <1>0, <1>5, ReconcileRefines
  <1>6. ASSUME NEW r \in Runs, LeaseExpires(r) \/ Age(r)
        PROVE  Phase' = Phase
    BY <1>0, <1>6, ClockRefines
  <1>7. ASSUME NEW w \in Workers, NEW p, NEW fresh,
               \/ Poll(w) \/ DispatchSkipped(w, p, fresh) \/ CallProvider(w)
               \/ ProviderReturns(w) \/ FinishFenced(w) \/ Crash(w)
        PROVE  Phase' = Phase
    BY <1>0, <1>7, PhaseStutters
    DEF Poll, DispatchSkipped, CallProvider, ProviderReturns, FinishFenced, Crash, tables
  <1>8. ASSUME NEW a, NEW level, ChangeAccess(a, level)
        PROVE  Phase' = Phase
    BY <1>0, <1>8, PhaseStutters DEF ChangeAccess, tables
  <1>9. CASE UNCHANGED vars
    BY <1>0, <1>9, PhaseStutters DEF vars, tables
  <1> QED
    BY <1>1, <1>2, <1>3, <1>4, <1>5, <1>6, <1>7, <1>8, <1>9 DEF Next

\* The queue implements the ledger of SpendLedger: whatever workers, owners and the
\* reconciler do, in whatever order, is one step of the ledger or none.
THEOREM Implements == Spec => KeepsLedger
  <1>1. Init => Ledger!Init
    <2>1. ASSUME Init
          PROVE  Phase = [r \in Runs |-> "none"]
      <3>1. \A r \in Runs : Phase[r] = "none"
        BY <2>1, InitType, PhaseOf DEF Init, Tells, AbsentRow
      <3> QED
        BY <3>1, PhaseFunction
    <2> QED
      BY <2>1 DEF Ledger!Init
  <1>2. IInv /\ [Next]_vars => [Ledger!Next]_Phase
    BY NextRefines
  <1> QED
    BY <1>1, <1>2, Invariant, PTL DEF Spec, KeepsLedger, Ledger!Spec

-------------------------------------------------------------------------------
(* The services never run into the triggers *)

\* The body of TriggersAccept: what the triggers see of one run in a step.
UpdateAccepted(r) ==
  Exists(r) /\ run'[r] # run[r] /\ ~ClockStep(r) =>
    /\ AiTransition(run[r], run'[r], r \in artifact')
    /\ DispatchGuard(run[r], run'[r], reservation[r])

ObservationAccepted(r) ==
  observation'[r] # observation[r] =>
    /\ observation[r] = None
    /\ \E w \in Workers : worker[w].pc = "returned" /\ worker[w].job = r
                         /\ ObserveGuard(run[r], w, reservation[r])

ReservationAccepted(r) ==
  reservation'[r] # reservation[r] =>
    /\ reservation[r] = None
    /\ ReserveGuard(run'[r], reservation'[r], ReservedTotal)

ArtifactAccepted(r) ==
  /\ r \in artifact' \ artifact => run[r].state \in InFlightStates
  /\ r \in artifact => r \in artifact'

Accepted ==
  \A r \in Runs : /\ UpdateAccepted(r) /\ ObservationAccepted(r)
                  /\ ReservationAccepted(r) /\ ArtifactAccepted(r)

\* A reservation is made when the run is, never before.
NoneReservedBefore == \A r \in Runs : ~Exists(r) => reservation[r] = None

\* A step that leaves the other tables alone is accepted if its updates of runs are.
LEMMA UpdatesAccepted ==
  ASSUME UNCHANGED <<reservation, observation, artifact>>, \A r \in Runs : UpdateAccepted(r)
  PROVE  Accepted
  BY DEF Accepted, ObservationAccepted, ReservationAccepted, ArtifactAccepted

LEMMA RunsUntouchedAccepted ==
  ASSUME UNCHANGED <<run, reservation, observation, artifact>>
  PROVE  Accepted
  BY UpdatesAccepted DEF UpdateAccepted

\* What the transitions of a row leave alone, and what they set.
LEMMA RowsMoved ==
  ASSUME NEW row \in Row, NEW st \in States, NEW w \in Workers
  PROVE  /\ Ended(row, st).actor = row.actor /\ Ended(row, st).key = row.key
         /\ Ended(row, st).finished
         /\ Cancelled(row).actor = row.actor /\ Cancelled(row).key = row.key
         /\ Cancelled(row).finished
         /\ CancelAsked(row).actor = row.actor /\ CancelAsked(row).key = row.key
         /\ Reserved(row, w).actor = row.actor /\ Reserved(row, w).key = row.key
         /\ Reserved(row, w).leaseUntil = "live"
  <1>1. \A x \in States : /\ Ended(row, x).actor = row.actor /\ Ended(row, x).key = row.key
                          /\ Ended(row, x).finished
    BY DEF Ended, Row
  <1>2. /\ Cancelled(row).actor = row.actor /\ Cancelled(row).key = row.key
        /\ Cancelled(row).finished
    BY DEF Cancelled, Row
  <1>3. CancelAsked(row).actor = row.actor /\ CancelAsked(row).key = row.key
    BY DEF CancelAsked, Row
  <1>4. /\ Reserved(row, w).actor = row.actor /\ Reserved(row, w).key = row.key
        /\ Reserved(row, w).leaseUntil = "live"
    BY DEF Reserved, Row
  <1> QED
    BY <1>1, <1>2, <1>3, <1>4

LEMMA StartAccepted ==
  ASSUME IInv, NoneReservedBefore, NEW a \in Actors, NEW k \in Keys, NEW r \in Runs,
         StartBlocked(a, k, r) \/ \E p \in Policies : StartQueued(a, k, r, p)
  PROVE  Accepted
  <1>1. /\ ~Exists(r) /\ \A s \in Runs \ {r} : run'[s] = run[s]
        /\ UNCHANGED <<observation, artifact>>
    BY DEF StartBlocked, StartQueued, StartGuard, IInv, TypeOK
  <1>2. \A s \in Runs : /\ UpdateAccepted(s) /\ ObservationAccepted(s) /\ ArtifactAccepted(s)
    BY <1>1 DEF UpdateAccepted, ObservationAccepted, ArtifactAccepted
  <1>3. \A s \in Runs : ReservationAccepted(s)
    <2>1. CASE StartBlocked(a, k, r)
      BY <2>1 DEF StartBlocked, ReservationAccepted
    <2>2. ASSUME NEW p \in Policies, StartQueued(a, k, r, p)
          PROVE  \A s \in Runs : ReservationAccepted(s)
      <3>1. /\ reservation[r] = None /\ reservation'[r] = p
            /\ \A s \in Runs \ {r} : reservation'[s] = reservation[s]
            /\ ReservedTotal + ReserveOf[p] <= LimitOf[p]
        BY <1>1, <2>2 DEF StartQueued, Admission, NoneReservedBefore, IInv, TypeOK
      <3>2. run'[r].state = "queued"
        BY <2>2 DEF StartQueued, NewRow, AbsentRow, IInv, TypeOK
      <3> QED
        BY <3>1, <3>2 DEF ReservationAccepted, ReserveGuard
    <2> QED
      BY <2>1, <2>2
  <1> QED
    BY <1>2, <1>3 DEF Accepted

LEMMA CancelAccepted ==
  ASSUME IInv, NEW a \in Actors, NEW k \in Keys, NEW r \in Runs, NEW v \in 1..4,
         Cancel(a, k, r, v)
  PROVE  Accepted
  <1>1. /\ run[r] \in Row /\ "cancelled" \in States /\ Workers = Workers
        /\ UNCHANGED <<reservation, observation, artifact>>
        /\ \A s \in Runs \ {r} : run'[s] = run[s]
        /\ run[r].state \in {"queued"} \cup InFlightStates
    BY DEF IInv, TypeOK, Cancel, States, TerminalStates
  <1>2. CASE run[r].state = "queued"
    <2>1. run'[r] = Cancelled(run[r])
      BY <1>2 DEF Cancel, IInv, TypeOK
    <2>2. /\ run'[r].state = "cancelled" /\ run'[r].version = run[r].version + 1
          /\ run'[r].actor = run[r].actor /\ run'[r].key = run[r].key /\ run'[r].finished
      BY <1>1, <2>1 DEF Cancelled, Row
    <2>3. UpdateAccepted(r)
      BY <1>2, <2>2 DEF UpdateAccepted, AiTransition, DispatchGuard, InFlightStates
    <2> QED
      BY <1>1, <2>3, UpdatesAccepted DEF UpdateAccepted
  <1>3. CASE run[r].state = "running"
    <2>1. run'[r] = CancelAsked(run[r])
      BY <1>3 DEF Cancel, IInv, TypeOK
    <2>2. /\ run'[r].state = "cancel_requested" /\ run'[r].version = run[r].version + 1
          /\ run'[r].actor = run[r].actor /\ run'[r].key = run[r].key
          /\ run'[r].lease = run[r].lease
      BY <1>1, <2>1 DEF CancelAsked, Row
    <2>3. UpdateAccepted(r)
      BY <1>3, <2>2 DEF UpdateAccepted, AiTransition, DispatchGuard, InFlightStates
    <2> QED
      BY <1>1, <2>3, UpdatesAccepted DEF UpdateAccepted
  <1>4. CASE run[r].state = "cancel_requested"
    <2>1. run'[r] = run[r]
      BY <1>4 DEF Cancel, IInv, TypeOK
    <2> QED
      BY <1>1, <2>1, UpdatesAccepted DEF UpdateAccepted
  <1> QED
    BY <1>1, <1>2, <1>3, <1>4 DEF InFlightStates

\* A row that ends without a draft.
LEMMA EndAccepted ==
  ASSUME IInv, NEW r \in Runs, NEW st \in States, run'[r] = Ended(run[r], st),
         \/ run[r].state = "queued" /\ st = "blocked"
         \/ run[r].state = "running" /\ st \in {"failed", "unknown"}
         \/ run[r].state = "running" /\ st = "needs_review" /\ r \in artifact'
         \/ run[r].state = "cancel_requested" /\ st \in {"cancelled", "unknown"}
  PROVE  UpdateAccepted(r)
  <1>1. run[r] \in Row
    BY DEF IInv, TypeOK
  <1>2. /\ run'[r].state = st /\ run'[r].version = run[r].version + 1
        /\ run'[r].actor = run[r].actor /\ run'[r].key = run[r].key
        /\ run'[r].lease = run[r].lease /\ run'[r].finished
    BY <1>1 DEF Ended, Row
  <1> QED
    BY <1>2 DEF UpdateAccepted, AiTransition, DispatchGuard, InFlightStates

LEMMA DispatchBlockedAccepted ==
  ASSUME IInv, NEW w \in Workers, NEW p, NEW fresh, DispatchBlocked(w, p, fresh)
  PROVE  Accepted
  <1>1. PICK r : r = worker[w].job
    OBVIOUS
  <1>2. /\ r \in Runs /\ run[r].state = "queued" /\ "blocked" \in States
        /\ run' = [run EXCEPT ![r] = Ended(run[r], "blocked")]
        /\ UNCHANGED <<reservation, observation, artifact>>
    BY <1>1 DEF DispatchBlocked, IInv, WorkersOK, States, TerminalStates
  <1>3. run'[r] = Ended(run[r], "blocked") /\ \A s \in Runs \ {r} : run'[s] = run[s]
    BY <1>2 DEF IInv, TypeOK
  <1>4. UpdateAccepted(r)
    BY <1>2, <1>3, EndAccepted
  <1> QED
    BY <1>2, <1>3, <1>4, UpdatesAccepted DEF UpdateAccepted

LEMMA DispatchReservedAccepted ==
  ASSUME IInv, NEW w \in Workers, NEW p \in Policies, DispatchReserved(w, p)
  PROVE  Accepted
  <1>1. PICK r : r = worker[w].job
    OBVIOUS
  <1>2. /\ r \in Runs /\ run[r].state = "queued" /\ reservation[r] = p
        /\ run' = [run EXCEPT ![r] = Reserved(run[r], w)]
        /\ UNCHANGED <<reservation, observation, artifact>>
    BY <1>1 DEF DispatchReserved, DispatchError, BudgetKeeps, IInv, WorkersOK
  <1>3. /\ run'[r] = Reserved(run[r], w) /\ run[r] \in Row
        /\ \A s \in Runs \ {r} : run'[s] = run[s]
    BY <1>2 DEF IInv, TypeOK
  <1>4. /\ run'[r].state = "running" /\ run'[r].version = run[r].version + 1
        /\ run'[r].actor = run[r].actor /\ run'[r].key = run[r].key
        /\ run'[r].lease = w /\ run'[r].leaseUntil = "live" /\ run'[r].attempts = 1
    BY <1>3 DEF Reserved, Row
  <1>5. w # None /\ p # None
    BY NoneAssumption
  <1>6. UpdateAccepted(r)
    BY <1>2, <1>4, <1>5 DEF UpdateAccepted, AiTransition, DispatchGuard, InFlightStates
  <1> QED
    BY <1>2, <1>3, <1>6, UpdatesAccepted DEF UpdateAccepted

LEMMA FinishAccepted ==
  ASSUME IInv, NEW w \in Workers, NEW fresh \in BOOLEAN, Finish(w, fresh)
  PROVE  Accepted
  <1>1. PICK r : r = worker[w].job
    OBVIOUS
  <1>2. PICK st : st = FinalState(r, worker[w].out, fresh)
    OBVIOUS
  <1>3. /\ r \in Runs /\ worker[w].pc = "returned" /\ Holds(w, r)
        /\ run[r].state \in InFlightStates /\ run[r].attempts = 1
        /\ reservation[r] # None /\ observation[r] = None
    BY <1>1 DEF Finish, Holds, IInv, WorkersOK, RunsOK
  <1>4. /\ \/ run[r].state = "running" /\ st \in {"failed", "unknown", "needs_review"}
           \/ run[r].state = "cancel_requested" /\ st \in {"cancelled", "unknown"}
        /\ st \in States
    BY <1>2, <1>3 DEF FinalState, InFlightStates, States, TerminalStates
  <1>5. /\ run'[r] = Ended(run[r], st) /\ \A s \in Runs \ {r} : run'[s] = run[s]
        /\ reservation' = reservation
        /\ \A s \in Runs \ {r} : observation'[s] = observation[s]
        /\ artifact' = IF st = "needs_review" THEN artifact \cup {r} ELSE artifact
    BY <1>1, <1>2, <1>3 DEF Finish, IInv, TypeOK
  <1>6. UpdateAccepted(r)
    BY <1>3, <1>4, <1>5, EndAccepted
  <1>7. ObservationAccepted(r)
    BY <1>1, <1>3 DEF ObservationAccepted, ObserveGuard, Holds
  <1>8. \A s \in Runs : ReservationAccepted(s) /\ ArtifactAccepted(s)
    BY <1>3, <1>5 DEF ReservationAccepted, ArtifactAccepted
  <1>9. \A s \in Runs \ {r} : UpdateAccepted(s) /\ ObservationAccepted(s)
    BY <1>5 DEF UpdateAccepted, ObservationAccepted
  <1> QED
    BY <1>6, <1>7, <1>8, <1>9 DEF Accepted

LEMMA ReconcileAccepted ==
  ASSUME IInv, NEW S \in SUBSET Runs, Reconcile(S)
  PROVE  Accepted
  <1>1. /\ UNCHANGED <<reservation, observation, artifact>>
        /\ \A r \in Runs \ S : run'[r] = run[r]
        /\ \A r \in S : run'[r] = Reconciled(run[r])
        /\ \A r \in S : run[r].state = "queued" \/ run[r].state \in InFlightStates
        /\ {"blocked", "unknown"} \subseteq States
    BY DEF Reconcile, Stale, States, TerminalStates
  <1>2. \A r \in S : UpdateAccepted(r)
    BY <1>1, EndAccepted DEF Reconciled, InFlightStates
  <1> QED
    BY <1>1, <1>2, UpdatesAccepted DEF UpdateAccepted

LEMMA ClockAccepted ==
  ASSUME IInv, NEW r \in Runs, LeaseExpires(r) \/ Age(r)
  PROVE  Accepted
  <1>1. /\ UNCHANGED <<reservation, observation, artifact>>
        /\ \A s \in Runs : run'[s] = run[s] \/ ClockStep(s)
    BY DEF LeaseExpires, Age, ClockStep, IInv, TypeOK
  <1> QED
    BY <1>1, UpdatesAccepted DEF UpdateAccepted

LEMMA NextAccepted ==
  ASSUME IInv, NoneReservedBefore, [Next]_vars
  PROVE  Accepted
  <1>1. ASSUME NEW a \in Actors, NEW k \in Keys, NEW r \in Runs,
               \/ \E p \in Policies : StartQueued(a, k, r, p)
               \/ StartBlocked(a, k, r)
               \/ \E v \in 1..4 : Cancel(a, k, r, v)
        PROVE  Accepted
    BY <1>1, StartAccepted, CancelAccepted
  <1>2. ASSUME NEW w \in Workers, NEW p, NEW fresh, DispatchBlocked(w, p, fresh)
        PROVE  Accepted
    BY <1>2, DispatchBlockedAccepted
  <1>3. ASSUME NEW w \in Workers, NEW p \in Policies, DispatchReserved(w, p)
        PROVE  Accepted
    BY <1>3, DispatchReservedAccepted
  <1>4. ASSUME NEW w \in Workers, NEW fresh \in BOOLEAN, Finish(w, fresh)
        PROVE  Accepted
    BY <1>4, FinishAccepted
  <1>5. ASSUME NEW S \in SUBSET Runs, Reconcile(S)
        PROVE  Accepted
    BY <1>5, ReconcileAccepted
  <1>6. ASSUME NEW r \in Runs, LeaseExpires(r) \/ Age(r)
        PROVE  Accepted
    BY <1>6, ClockAccepted
  <1>7. ASSUME NEW w \in Workers, NEW p, NEW fresh,
               \/ Poll(w) \/ DispatchSkipped(w, p, fresh) \/ CallProvider(w)
               \/ ProviderReturns(w) \/ FinishFenced(w) \/ Crash(w)
        PROVE  Accepted
    BY <1>7, RunsUntouchedAccepted
    DEF Poll, DispatchSkipped, CallProvider, ProviderReturns, FinishFenced, Crash, tables
  <1>8. ASSUME NEW a, NEW level, ChangeAccess(a, level)
        PROVE  Accepted
    BY <1>8, RunsUntouchedAccepted DEF ChangeAccess, tables
  <1>9. CASE UNCHANGED vars
    BY <1>9, RunsUntouchedAccepted DEF vars, tables
  <1> QED
    BY <1>1, <1>2, <1>3, <1>4, <1>5, <1>6, <1>7, <1>8, <1>9 DEF Next

\* Only a start makes a reservation, and with it the run; no run is ever unmade.
LEMMA ReservedWithItsRun ==
  ASSUME IInv, NoneReservedBefore, [Next]_vars
  PROVE  NoneReservedBefore'
  <1> SUFFICES ASSUME NEW r \in Runs, ~Exists(r)'
               PROVE  reservation'[r] = None
    BY DEF NoneReservedBefore
  <1>1. run'[r].state = "absent"
    BY DEF Exists
  <1>2. CASE Exists(r)
    <2>1. run'[r] # run[r] /\ run[r] \in Row
      BY <1>1, <1>2 DEF Exists, IInv, TypeOK
    <2>2. UpdateAccepted(r)
      BY NextAccepted DEF Accepted
    <2>3. ~ClockStep(r)
      BY <1>1, <1>2, <2>1 DEF ClockStep, Exists, Row
    <2>4. AiTransition(run[r], run'[r], r \in artifact')
      BY <1>2, <2>1, <2>2, <2>3 DEF UpdateAccepted
    <2> QED
      BY <1>1, <2>4 DEF AiTransition
  <1>3. CASE ~Exists(r)
    <2>1. reservation[r] = None
      BY <1>3 DEF NoneReservedBefore
    <2>2. reservation'[r] # reservation[r] => run'[r].state = "queued"
      BY NextAccepted DEF Accepted, ReservationAccepted, ReserveGuard
    <2> QED
      BY <1>1, <2>1, <2>2
  <1> QED
    BY <1>2, <1>3

\* Whatever start, cancel, dispatch, finish and reconcile write, the triggers accept; they
\* are a backstop no service ever relies on.
THEOREM UpdatesOfRunsAccepted == Spec => TriggersAccept
  <1> DEFINE Body ==
        \A r \in Runs :
          /\ Exists(r) /\ run'[r] # run[r] /\ ~ClockStep(r) =>
               /\ AiTransition(run[r], run'[r], r \in artifact')
               /\ DispatchGuard(run[r], run'[r], reservation[r])
          /\ observation'[r] # observation[r] =>
               /\ observation[r] = None
               /\ \E w \in Workers : worker[w].pc = "returned" /\ worker[w].job = r
                                    /\ ObserveGuard(run[r], w, reservation[r])
          /\ reservation'[r] # reservation[r] =>
               /\ reservation[r] = None
               /\ ReserveGuard(run'[r], reservation'[r], ReservedTotal)
          /\ r \in artifact' \ artifact => run[r].state \in InFlightStates
          /\ r \in artifact => r \in artifact'
  <1>1. Init => NoneReservedBefore
    BY DEF Init, NoneReservedBefore
  <1>2. IInv /\ NoneReservedBefore /\ [Next]_vars => NoneReservedBefore'
    BY ReservedWithItsRun
  <1>3. Accepted => Body
    BY DEF Accepted, UpdateAccepted, ObservationAccepted, ReservationAccepted, ArtifactAccepted
  <1>4. IInv /\ NoneReservedBefore /\ [Next]_vars => [Body]_vars
    BY <1>3, NextAccepted
  <1> QED
    BY <1>1, <1>2, <1>4, Invariant, PTL DEF Spec, TriggersAccept

-------------------------------------------------------------------------------
(* Induction and sums.  The induction principles of the library take an operator and    *)
(* no prover here can instantiate one; WFMin takes a set, and induction on the size of  *)
(* a set follows from it.                                                               *)

\* A set of natural numbers that is not empty has a least member.
LEMMA LeastNatural ==
  ASSUME NEW T, T \subseteq Nat, T # {}
  PROVE  \E n \in T : \A m \in T : n <= m
  <1> DEFINE R == {ss \in Nat \X Nat : ss[1] < ss[2]}
  <1>1. IsWellFoundedOn(R, Nat)
    BY NatLessThanWellFounded DEF OpToRel
  <1> HIDE DEF R
  <1>2. \E x \in T : \A y \in T : ~ (<<y, x>> \in R)
    BY <1>1, WFMin
  <1>3. PICK n \in T : \A m \in T : <<m, n>> \notin R
    BY <1>2
  <1>4. \A m \in T : n <= m
    <2> TAKE m \in T
    <2>1. ~ (m < n)
      BY <1>3 DEF R
    <2> QED BY <2>1
  <1> QED BY <1>4

\* Induction on a set of natural numbers.
LEMMA NaturalSteps ==
  ASSUME NEW T, 0 \in T, \A n \in Nat : n \in T => n + 1 \in T
  PROVE  \A n \in Nat : n \in T
  <1> SUFFICES ASSUME Nat \ T # {} PROVE FALSE
    OBVIOUS
  <1>1. PICK n \in Nat \ T : \A m \in Nat \ T : n <= m
    BY LeastNatural
  <1>2. n # 0 /\ n - 1 \in Nat
    OBVIOUS
  <1>3. n - 1 \in T
    BY <1>1, <1>2
  <1> QED
    BY <1>2, <1>3

\* Induction on the subsets of a finite set: one that contains each subset all of whose
\* next smaller ones it contains, contains them all.
LEMMA SubsetSteps ==
  ASSUME NEW S, IsFiniteSet(S), NEW P, {} \in P,
         \A s \in SUBSET S : s # {} /\ (\A x \in s : s \ {x} \in P) => s \in P
  PROVE  \A s \in SUBSET S : s \in P
  <1> DEFINE T == {n \in Nat : \A s \in SUBSET S : Cardinality(s) = n => s \in P}
  <1>1. \A s \in SUBSET S : IsFiniteSet(s) /\ Cardinality(s) \in Nat
    BY FS_Subset, FS_CardinalityType
  <1>2. 0 \in T
    BY <1>1, FS_EmptySet
  <1>3. ASSUME NEW n \in Nat, n \in T PROVE n + 1 \in T
    <2> SUFFICES ASSUME NEW s \in SUBSET S, Cardinality(s) = n + 1 PROVE s \in P
      OBVIOUS
    <2>1. s # {}
      BY FS_EmptySet
    <2>2. \A x \in s : Cardinality(s \ {x}) = n
      BY <1>1, FS_RemoveElement
    <2>3. \A x \in s : s \ {x} \in P
      BY <1>3, <2>2
    <2> QED BY <2>1, <2>3
  <1> HIDE DEF T
  <1>4. \A n \in Nat : n \in T
    BY <1>2, <1>3, NaturalSteps
  <1> QED
    BY <1>1, <1>4 DEF T

-------------------------------------------------------------------------------
(* Sums *)

One(s) == CHOOSE x \in s : TRUE

\* f is the function that MapThenSumSet evaluates.
Sums(f, c, S) ==
  f = [s \in SUBSET S |-> IF s = {} THEN 0 ELSE c[One(s)] + f[s \ {One(s)}]]

LEMMA OneMember == \A s : s # {} => One(s) \in s
  BY DEF One

LEMMA SumsExist ==
  ASSUME NEW S, IsFiniteSet(S), NEW c
  PROVE  \E f : Sums(f, c, S)
  <1> DEFINE Sub(n) == {s \in SUBSET S : Cardinality(s) <= n}
             Upto(f, n) == f = [s \in Sub(n) |-> IF s = {} THEN 0
                                                 ELSE c[One(s)] + f[s \ {One(s)}]]
             T == {n \in Nat : \E f : Upto(f, n)}
  <1>1. \A s \in SUBSET S : IsFiniteSet(s) /\ Cardinality(s) \in Nat
    BY FS_Subset, FS_CardinalityType
  <1>2. 0 \in T
    <2> DEFINE f == [s \in Sub(0) |-> 0]
    <2>1. \A s \in Sub(0) : s = {}
      BY <1>1, FS_EmptySet
    <2>2. Upto(f, 0)
      BY <2>1
    <2> QED BY <2>2
  <1>3. ASSUME NEW n \in Nat, n \in T PROVE n + 1 \in T
    <2>1. PICK f : Upto(f, n)
      BY <1>3
    <2> DEFINE g == [s \in Sub(n + 1) |-> IF s = {} THEN 0 ELSE c[One(s)] + f[s \ {One(s)}]]
    <2>2. ASSUME NEW s \in Sub(n + 1), s # {} PROVE s \ {One(s)} \in Sub(n)
      BY <1>1, <2>2, OneMember, FS_RemoveElement
    <2>3. \A s \in Sub(n) : s \in Sub(n + 1) /\ g[s] = f[s]
      <3> TAKE s \in Sub(n)
      <3>1. s \in Sub(n + 1)
        BY <1>1
      <3> HIDE DEF Sub
      <3>2. f[s] = IF s = {} THEN 0 ELSE c[One(s)] + f[s \ {One(s)}]
        BY <2>1
      <3> QED BY <3>1, <3>2
    <2>6. g = [s \in Sub(n + 1) |-> g[s]]
      OBVIOUS
    <2> DEFINE h == [s \in Sub(n + 1) |-> IF s = {} THEN 0 ELSE c[One(s)] + g[s \ {One(s)}]]
    <2> HIDE DEF Sub
    <2>4. \A s \in Sub(n + 1) : g[s] = h[s]
      BY <2>2, <2>3
    <2> HIDE DEF g
    <2>5. Upto(g, n + 1)
      BY <2>4, <2>6
    <2> HIDE DEF Upto
    <2> QED BY <2>5
  <1>4. Cardinality(S) \in T
    <2> HIDE DEF T
    <2>1. \A n \in Nat : n \in T
      BY <1>2, <1>3, NaturalSteps
    <2> QED BY <1>1, <2>1
  <1>5. Sub(Cardinality(S)) = SUBSET S
    BY <1>1, FS_Subset
  <1> QED
    BY <1>4, <1>5 DEF Sums

\* Two such functions agree wherever their summands do.
LEMMA SumsAgree ==
  ASSUME NEW S, NEW T, NEW c, NEW d, NEW f, NEW g, Sums(f, c, S), Sums(g, d, T),
         NEW U, U \subseteq S, U \subseteq T, IsFiniteSet(U), \A x \in U : c[x] = d[x]
  PROVE  f[U] = g[U]
  <1> DEFINE P == {s \in SUBSET U : f[s] = g[s]}
  <1>1. \A s \in SUBSET S : f[s] = IF s = {} THEN 0 ELSE c[One(s)] + f[s \ {One(s)}]
    BY DEF Sums
  <1>2. \A s \in SUBSET T : g[s] = IF s = {} THEN 0 ELSE d[One(s)] + g[s \ {One(s)}]
    BY DEF Sums
  <1>3. {} \in P
    BY <1>1, <1>2
  <1>4. ASSUME NEW s \in SUBSET U, s # {}, \A x \in s : s \ {x} \in P
        PROVE  s \in P
    <2>1. One(s) \in s /\ s \in SUBSET S /\ s \in SUBSET T
      BY <1>4, OneMember
    <2>2. f[s \ {One(s)}] = g[s \ {One(s)}] /\ c[One(s)] = d[One(s)]
      BY <1>4, <2>1
    <2>3. f[s] = c[One(s)] + f[s \ {One(s)}]
      BY <1>1, <1>4, <2>1
    <2>4. g[s] = d[One(s)] + g[s \ {One(s)}]
      BY <1>2, <1>4, <2>1
    <2> QED BY <2>2, <2>3, <2>4
  <1> HIDE DEF P
  <1>5. \A s \in SUBSET U : s \in P
    BY <1>3, <1>4, SubsetSteps
  <1> QED BY <1>5 DEF P

\* Sums of natural numbers are natural numbers.
LEMMA SumsNatural ==
  ASSUME NEW S, NEW c, NEW f, Sums(f, c, S), IsFiniteSet(S), \A x \in S : c[x] \in Nat
  PROVE  \A s \in SUBSET S : f[s] \in Nat
  <1> DEFINE P == {s \in SUBSET S : f[s] \in Nat}
  <1>1. \A s \in SUBSET S : f[s] = IF s = {} THEN 0 ELSE c[One(s)] + f[s \ {One(s)}]
    BY DEF Sums
  <1>2. {} \in P
    <2>1. f[{}] = 0
      BY <1>1
    <2> QED BY <2>1
  <1>3. ASSUME NEW s \in SUBSET S, s # {}, \A x \in s : s \ {x} \in P
        PROVE  s \in P
    <2>1. One(s) \in s
      BY <1>3, OneMember
    <2>2. f[s] = c[One(s)] + f[s \ {One(s)}]
      BY <1>1, <1>3
    <2>3. f[s \ {One(s)}] \in Nat /\ c[One(s)] \in Nat
      BY <1>3, <2>1
    <2> QED BY <2>2, <2>3
  <1> HIDE DEF P
  <1>4. \A s \in SUBSET S : s \in P
    BY <1>2, <1>3, SubsetSteps
  <1> QED BY <1>4 DEF P

\* Any member may be taken out first.
LEMMA SumsTakeOut ==
  ASSUME NEW S, NEW c, NEW f, Sums(f, c, S), IsFiniteSet(S), \A x \in S : c[x] \in Nat
  PROVE  \A s \in SUBSET S : \A x \in s : f[s] = c[x] + f[s \ {x}]
  <1> DEFINE P == {s \in SUBSET S : \A x \in s : f[s] = c[x] + f[s \ {x}]}
  <1>1. \A s \in SUBSET S : f[s] = IF s = {} THEN 0 ELSE c[One(s)] + f[s \ {One(s)}]
    BY DEF Sums
  <1>2. {} \in P
    OBVIOUS
  <1>3. ASSUME NEW s \in SUBSET S, s # {}, \A x \in s : s \ {x} \in P
        PROVE  s \in P
    <2> DEFINE y == One(s)
    <2>1. y \in s
      BY <1>3, OneMember
    <2>2. f[s] = c[y] + f[s \ {y}]
      BY <1>1, <1>3
    <2> HIDE DEF y
    <2>3. ASSUME NEW x \in s, x # y PROVE f[s] = c[x] + f[s \ {x}]
      <3>1. (s \ {y}) \ {x} = (s \ {x}) \ {y}
        OBVIOUS
      <3>2. f[s \ {y}] = c[x] + f[(s \ {y}) \ {x}]
        BY <1>3, <2>1, <2>3
      <3>3. f[s \ {x}] = c[y] + f[(s \ {x}) \ {y}]
        BY <1>3, <2>1, <2>3
      <3>4. PICK t \in Nat : f[(s \ {y}) \ {x}] = t
        BY SumsNatural
      <3>5. c[x] \in Nat /\ c[y] \in Nat
        BY <2>1
      <3>6. f[s \ {x}] = c[y] + t
        BY <3>1, <3>3, <3>4
      <3>7. f[s] = c[y] + (c[x] + t)
        BY <2>2, <3>2, <3>4
      <3> QED BY <3>5, <3>6, <3>7
    <2> QED BY <2>2, <2>3
  <1> HIDE DEF P
  <1>4. \A s \in SUBSET S : s \in P
    BY <1>2, <1>3, SubsetSteps
  <1> QED BY <1>4 DEF P

\* The sum of the values of c over S.
Total(c, S) == MapThenSumSet(LAMBDA x : c[x], S)

LEMMA TotalSums ==
  ASSUME NEW S, IsFiniteSet(S), NEW c
  PROVE  \E f : Sums(f, c, S) /\ Total(c, S) = f[S]
  <1>1. \E f : Sums(f, c, S)
    BY SumsExist
  <1> QED
    BY <1>1 DEF Sums, One, Total, MapThenSumSet, MapThenFoldSet

\* What a sum is of: nothing, or a member and the rest.
LEMMA TotalEmpty == ASSUME NEW c PROVE Total(c, {}) = 0
  <1>1. IsFiniteSet({})
    BY FS_EmptySet
  <1>2. PICK f : Sums(f, c, {}) /\ Total(c, {}) = f[{}]
    BY <1>1, TotalSums
  <1> QED BY <1>2 DEF Sums

LEMMA TotalNatural ==
  ASSUME NEW S, IsFiniteSet(S), NEW c, \A x \in S : c[x] \in Nat
  PROVE  Total(c, S) \in Nat
  BY TotalSums, SumsNatural

LEMMA TotalAgree ==
  ASSUME NEW S, IsFiniteSet(S), NEW c, NEW d, \A x \in S : c[x] = d[x]
  PROVE  Total(c, S) = Total(d, S)
  <1>1. PICK f : Sums(f, c, S) /\ Total(c, S) = f[S]
    BY TotalSums
  <1>2. PICK g : Sums(g, d, S) /\ Total(d, S) = g[S]
    BY TotalSums
  <1> QED BY <1>1, <1>2, SumsAgree

LEMMA TotalTakeOut ==
  ASSUME NEW S, IsFiniteSet(S), NEW c, \A x \in S : c[x] \in Nat, NEW x \in S
  PROVE  Total(c, S) = c[x] + Total(c, S \ {x})
  <1>1. IsFiniteSet(S \ {x})
    BY FS_Subset
  <1>2. PICK f : Sums(f, c, S) /\ Total(c, S) = f[S]
    BY TotalSums
  <1>3. PICK g : Sums(g, c, S \ {x}) /\ Total(c, S \ {x}) = g[S \ {x}]
    BY <1>1, TotalSums
  <1>4. f[S] = c[x] + f[S \ {x}]
    BY <1>2, SumsTakeOut
  <1>5. f[S \ {x}] = g[S \ {x}]
    BY <1>1, <1>2, <1>3, SumsAgree
  <1> QED BY <1>2, <1>3, <1>4, <1>5

\* A sum grows with its summands.
LEMMA TotalAtMost ==
  ASSUME NEW S, IsFiniteSet(S), NEW c, NEW d,
         \A x \in S : c[x] \in Nat /\ d[x] \in Nat /\ c[x] <= d[x]
  PROVE  Total(c, S) <= Total(d, S)
  <1> DEFINE P == {s \in SUBSET S : Total(c, s) <= Total(d, s)}
  <1>1. {} \in P
    BY TotalEmpty
  <1>2. ASSUME NEW s \in SUBSET S, s # {}, \A x \in s : s \ {x} \in P
        PROVE  s \in P
    <2>1. PICK x \in s : TRUE
      BY <1>2
    <2>2. IsFiniteSet(s) /\ IsFiniteSet(s \ {x})
      BY FS_Subset
    <2>3. Total(c, s) = c[x] + Total(c, s \ {x}) /\ Total(d, s) = d[x] + Total(d, s \ {x})
      BY <2>2, TotalTakeOut
    <2>4. Total(c, s \ {x}) \in Nat /\ Total(d, s \ {x}) \in Nat
      BY <2>2, TotalNatural
    <2>5. Total(c, s \ {x}) <= Total(d, s \ {x})
      BY <1>2
    <2>6. Total(c, s) <= Total(d, s)
      BY <2>3, <2>4, <2>5
    <2> QED BY <2>6
  <1> HIDE DEF P
  <1>3. \A s \in SUBSET S : s \in P
    BY <1>1, <1>2, SubsetSteps
  <1> QED BY <1>3 DEF P

\* Summands of zero may be left out.
LEMMA TotalOfPart ==
  ASSUME NEW S, IsFiniteSet(S), NEW c, \A x \in S : c[x] \in Nat,
         NEW U \in SUBSET S, \A x \in S \ U : c[x] = 0
  PROVE  Total(c, U) = Total(c, S)
  <1> DEFINE P == {s \in SUBSET S : Total(c, U \cap s) = Total(c, s)}
  <1>1. {} \in P
    BY TotalEmpty
  <1>2. ASSUME NEW s \in SUBSET S, s # {}, \A x \in s : s \ {x} \in P
        PROVE  s \in P
    <2>1. PICK x \in s : TRUE
      BY <1>2
    <2>2. IsFiniteSet(s) /\ IsFiniteSet(s \ {x}) /\ IsFiniteSet(U \cap s)
      BY FS_Subset
    <2>3. Total(c, s) = c[x] + Total(c, s \ {x}) /\ Total(c, s \ {x}) \in Nat
      BY <2>2, TotalTakeOut, TotalNatural
    <2>4. Total(c, U \cap (s \ {x})) = Total(c, s \ {x})
      BY <1>2
    <2>5. CASE x \in U
      <3>1. (U \cap s) \ {x} = U \cap (s \ {x}) /\ x \in U \cap s
        BY <2>5
      <3>2. Total(c, U \cap s) = c[x] + Total(c, (U \cap s) \ {x})
        BY <2>2, <3>1, TotalTakeOut
      <3> QED BY <2>3, <2>4, <3>1, <3>2
    <2>6. CASE x \notin U
      <3>1. U \cap (s \ {x}) = U \cap s
        BY <2>6
      <3>2. c[x] = 0
        BY <2>6
      <3>3. Total(c, s) = Total(c, s \ {x})
        BY <2>3, <3>2
      <3> QED BY <2>4, <3>1, <3>3
    <2> QED BY <2>5, <2>6
  <1> HIDE DEF P
  <1>3. S \in P
    BY <1>1, <1>2, SubsetSteps
  <1>4. U \cap S = U
    OBVIOUS
  <1> QED BY <1>3, <1>4 DEF P

\* A finite set of natural numbers that is not empty has a greatest member.
LEMMA GreatestMember ==
  ASSUME NEW S \in SUBSET Nat, IsFiniteSet(S), S # {}
  PROVE  Max(S) \in S /\ \A x \in S : x <= Max(S)
  <1> DEFINE P == {s \in SUBSET S : s # {} => \E m \in s : \A x \in s : m >= x}
  <1>1. {} \in P
    OBVIOUS
  <1>2. ASSUME NEW s \in SUBSET S, s # {}, \A x \in s : s \ {x} \in P
        PROVE  s \in P
    <2>1. PICK y \in s : TRUE
      BY <1>2
    <2>2. CASE s \ {y} = {}
      <3>1. \A x \in s : y >= x
        BY <2>2
      <3> QED BY <3>1
    <2>3. CASE s \ {y} # {}
      <3>1. PICK m \in s \ {y} : \A x \in s \ {y} : m >= x
        BY <1>2, <2>3
      <3>2. CASE m >= y
        BY <3>1, <3>2
      <3>3. CASE ~(m >= y)
        <4>1. \A x \in s : y >= x
          BY <3>1, <3>3
        <4> QED BY <4>1
      <3> QED BY <3>2, <3>3
    <2> QED BY <2>2, <2>3
  <1> HIDE DEF P
  <1>3. S \in P
    BY <1>1, <1>2, SubsetSteps
  <1>4. PICK m \in S : \A x \in S : m >= x
    BY <1>3 DEF P
  <1> QED BY <1>4 DEF Max

-------------------------------------------------------------------------------
(* The bound on the spend *)

\* What a table of reservations holds for each run.
Weight(res) == [r \in Runs |-> IF res[r] = None THEN 0 ELSE ReserveOf[res[r]]]

LEMMA WeightNatural ==
  ASSUME TypeOK
  PROVE  \A r \in Runs : Weight(reservation)[r] \in Nat
  BY PolicyAssumption DEF Weight, TypeOK

\* smm_ai_cost_totals counts the runs with a reservation; the others add nothing.
LEMMA ReservedTotalWeighs ==
  ASSUME TypeOK
  PROVE  ReservedTotal = Total(Weight(reservation), Runs)
  <1> DEFINE c == Weight(reservation)
  <1>1. ReservedRuns \in SUBSET Runs /\ IsFiniteSet(ReservedRuns)
    BY FiniteAssumption, FS_Subset DEF ReservedRuns
  <1>2. \A s \in SUBSET ReservedRuns :
          s # {} => c[One(s)] = ReserveOf[reservation[One(s)]]
    BY <1>1, OneMember DEF Weight, ReservedRuns
  <1>3. ReservedTotal = Total(c, ReservedRuns)
    <2> DEFINE Reserves(f) ==
                 f = [s \in SUBSET ReservedRuns |->
                        IF s = {} THEN 0
                        ELSE ReserveOf[reservation[One(s)]] + f[s \ {One(s)}]]
    <2>1. \A f : Sums(f, c, ReservedRuns) <=> Reserves(f)
      BY <1>2 DEF Sums
    <2>2. PICK f : Sums(f, c, ReservedRuns) /\ Total(c, ReservedRuns) = f[ReservedRuns]
      BY <1>1, TotalSums
    <2>3. \E g : Reserves(g)
      BY <2>1, <2>2
    <2>4. PICK g : Reserves(g) /\ ReservedTotal = g[ReservedRuns]
      BY <2>3 DEF ReservedTotal, MapThenSumSet, MapThenFoldSet, One
    <2>5. Sums(g, c, ReservedRuns)
      BY <2>1, <2>4
    <2> HIDE DEF c, Reserves
    <2> QED
      BY <1>1, <2>2, <2>4, <2>5, SumsAgree
  <1>4. \A r \in Runs \ ReservedRuns : c[r] = 0
    BY DEF Weight, ReservedRuns
  <1> QED
    BY <1>1, <1>3, <1>4, WeightNatural, FiniteAssumption, TotalOfPart

LEMMA ReservedNatural ==
  ASSUME TypeOK
  PROVE  ReservedTotal \in Nat
  BY ReservedTotalWeighs, WeightNatural, FiniteAssumption, TotalNatural

\* Reserving p for a run adds at most its reserve.
LEMMA ReserveAdds ==
  ASSUME TypeOK, NEW r \in Runs, NEW p \in Policies, TypeOK',
         reservation' = [reservation EXCEPT ![r] = p]
  PROVE  ReservedTotal' <= ReservedTotal + ReserveOf[p]
  <1> DEFINE c == Weight(reservation)
             d == Weight(reservation')
             rest == Runs \ {r}
  <1>1. ReservedTotal = Total(c, Runs)
    BY ReservedTotalWeighs
  <1>2. ReservedTotal' = Total(d, Runs)
    <2>1. (ReservedTotal = Total(Weight(reservation), Runs))'
      BY ReservedTotalWeighs, PTL
    <2> QED
      BY <2>1
  <1>3. \A s \in Runs : c[s] \in Nat /\ d[s] \in Nat
    BY PolicyAssumption DEF Weight, TypeOK
  <1>4. d[r] = ReserveOf[p] /\ \A s \in rest : d[s] = c[s]
    BY NoneAssumption DEF Weight, TypeOK
  <1> HIDE DEF c, d
  <1>5. IsFiniteSet(rest)
    BY FiniteAssumption, FS_Subset
  <1>6. Total(d, rest) = Total(c, rest)
    BY <1>4, <1>5, TotalAgree
  <1>7. Total(c, rest) \in Nat
    BY <1>3, <1>5, TotalNatural
  <1>8. Total(c, Runs) = c[r] + Total(c, rest) /\ Total(d, Runs) = d[r] + Total(d, rest)
    BY <1>3, FiniteAssumption, TotalTakeOut
  <1> QED
    BY <1>1, <1>2, <1>3, <1>4, <1>6, <1>7, <1>8

\* Limits and amounts are bounded by the largest of them.
LEMMA LargestOnes ==
  /\ LargestLimit \in Nat /\ \A p \in Policies : LimitOf[p] <= LargestLimit
  /\ Max(Amounts) \in Nat /\ \A n \in Amounts : n <= Max(Amounts)
  <1> DEFINE L == {LimitOf[p] : p \in Policies}
  <1>1. L \in SUBSET Nat /\ L # {}
    BY PolicyAssumption, FiniteAssumption
  <1>2. IsFiniteSet(L)
    <2>1. LimitOf \in Surjection(Policies, L)
      BY PolicyAssumption DEF Surjection
    <2> QED
      BY <2>1, FiniteAssumption, FS_Surjection
  <1>3. \A p \in Policies : LimitOf[p] \in L
    OBVIOUS
  <1> HIDE DEF L
  <1>4. Max(L) \in L /\ \A n \in L : n <= Max(L)
    BY <1>1, <1>2, GreatestMember
  <1>5. Max(Amounts) \in Amounts /\ \A n \in Amounts : n <= Max(Amounts)
    BY AmountAssumption, FiniteAssumption, GreatestMember
  <1> QED
    BY <1>1, <1>3, <1>4, <1>5, AmountAssumption DEF LargestLimit, L

LEMMA InitSpend ==
  ASSUME Init
  PROVE  SpendOK
  <1>1. TypeOK
    BY InitType
  <1>2. \A r \in Runs : Weight(reservation)[r] = 0
    BY DEF Init, Weight
  <1>3. Total(Weight(reservation), Runs) = Total(Weight(reservation), {})
    BY <1>2, FiniteAssumption, TotalOfPart
  <1>4. ReservedTotal = 0
    BY <1>1, <1>3, ReservedTotalWeighs, TotalEmpty
  <1> QED
    BY <1>4, LargestOnes DEF SpendOK, Init

LEMMA ReservedTotalKept ==
  ASSUME reservation' = reservation
  PROVE  ReservedTotal' = ReservedTotal
  BY DEF ReservedTotal, ReservedRuns, MapThenSumSet, MapThenFoldSet

\* What a step leaves alone.
LEMMA SpendKept ==
  ASSUME SpendOK, UNCHANGED <<reservation, observation, calls, charge>>
  PROVE  SpendOK'
  BY ReservedTotalKept DEF SpendOK, LargestLimit

\* The price of a call is counted once, for a run that has no estimate yet.
LEMMA CallSpend ==
  ASSUME IInv, SpendOK, NEW w \in Workers, CallProvider(w)
  PROVE  SpendOK'
  <1> DEFINE r == worker[w].job
  <1>1. r \in Runs /\ calls[r] = 0 /\ charge[r] = 0
    BY DEF CallProvider, IInv, WorkersOK, RunsOK
  <1>2. observation[r] = None
    BY <1>1 DEF SpendOK
  <1>3. PICK n \in Amounts : charge' = [charge EXCEPT ![r] = @ + n]
    BY DEF CallProvider
  <1>4. charge'[r] = n /\ \A s \in Runs \ {r} : charge'[s] = charge[s]
    BY <1>1, <1>3, AmountAssumption DEF IInv, TypeOK
  <1>5. \A s \in Runs \ {r} : calls'[s] = calls[s]
    BY DEF CallProvider, IInv, TypeOK
  <1>6. observation' = observation /\ reservation' = reservation
    BY DEF CallProvider, tables
  <1>7. ReservedTotal' = ReservedTotal
    BY <1>6, ReservedTotalKept
  <1> QED
    BY <1>1, <1>2, <1>4, <1>5, <1>6, <1>7 DEF SpendOK, LargestLimit

\* The estimate a finish stores is what its call cost.
LEMMA FinishSpend ==
  ASSUME IInv, SpendOK, NEW w \in Workers, NEW fresh \in BOOLEAN, Finish(w, fresh)
  PROVE  SpendOK'
  <1> DEFINE r == worker[w].job
  <1>1. r \in Runs /\ calls[r] = 1 /\ charge[r] = worker[w].out.amount
    BY DEF Finish, IInv, WorkersOK
  <1>2. /\ observation' = observation
           \/ observation' = [observation EXCEPT ![r] = worker[w].out.amount]
        /\ UNCHANGED <<reservation, calls, charge>>
    BY DEF Finish, history
  <1> DEFINE estimated == [observation EXCEPT ![r] = worker[w].out.amount]
  <1>3. ASSUME NEW s \in Runs
        PROVE  observation'[s] = observation[s] \/ (s = r /\ observation'[s] = charge[s])
    <2>1. estimated[s] = IF s = r THEN charge[r] ELSE observation[s]
      BY <1>1 DEF IInv, TypeOK
    <2>2. observation' = observation \/ observation' = estimated
      BY <1>2
    <2> QED
      BY <2>1, <2>2
  <1>4. ReservedTotal' = ReservedTotal
    BY <1>2, ReservedTotalKept
  <1> QED
    BY <1>1, <1>2, <1>3, <1>4 DEF SpendOK, LargestLimit

\* A start fits under the limit of the process that admits it.
LEMMA StartSpend ==
  ASSUME IInv, IInv', SpendOK, NEW a \in Actors, NEW k \in Keys, NEW r \in Runs,
         NEW p \in Policies, StartQueued(a, k, r, p)
  PROVE  SpendOK'
  <1>1. ReservedTotal' <= ReservedTotal + ReserveOf[p]
    BY ReserveAdds DEF StartQueued, IInv
  <1>2. ReservedTotal + ReserveOf[p] <= LimitOf[p]
    BY DEF StartQueued, Admission
  <1>3. ReservedTotal \in Nat
    BY ReservedNatural DEF IInv
  <1>4. ReservedTotal' \in Nat
    <2>1. TypeOK'
      BY DEF IInv
    <2>2. (ReservedTotal \in Nat)'
      BY <2>1, ReservedNatural, PTL
    <2> QED
      BY <2>2
  <1>5. ReservedTotal' <= LargestLimit
    BY <1>1, <1>2, <1>3, <1>4, LargestOnes, PolicyAssumption
  <1>6. UNCHANGED <<observation, calls, charge>>
    BY DEF StartQueued, history
  <1> QED
    BY <1>5, <1>6 DEF SpendOK, LargestLimit

LEMMA NextSpend ==
  ASSUME IInv, IInv', SpendOK, [Next]_vars
  PROVE  SpendOK'
  <1>1. ASSUME NEW a \in Actors, NEW k \in Keys, NEW r \in Runs,
               \/ StartBlocked(a, k, r)
               \/ \E v \in 1..4 : Cancel(a, k, r, v)
        PROVE  SpendOK'
    BY <1>1, SpendKept DEF StartBlocked, Cancel, history
  <1>2. ASSUME NEW w \in Workers,
               \/ Poll(w) \/ ProviderReturns(w) \/ FinishFenced(w) \/ Crash(w)
               \/ \E p \in Policies : DispatchReserved(w, p)
               \/ \E p \in Policies \cup {None}, fresh \in BOOLEAN :
                    DispatchSkipped(w, p, fresh) \/ DispatchBlocked(w, p, fresh)
        PROVE  SpendOK'
    BY <1>2, SpendKept
    DEF Poll, ProviderReturns, FinishFenced, Crash, DispatchReserved, DispatchSkipped,
        DispatchBlocked, tables, history
  <1>3. ASSUME \/ \E S \in SUBSET Runs : Reconcile(S)
               \/ \E r \in Runs : LeaseExpires(r) \/ Age(r)
               \/ \E a \in Actors, level \in {"owner", "member", "none"} : ChangeAccess(a, level)
        PROVE  SpendOK'
    BY <1>3, SpendKept DEF Reconcile, LeaseExpires, Age, ChangeAccess, tables, history
  <1>4. CASE UNCHANGED vars
    BY <1>4, SpendKept DEF vars, tables, history
  <1> QED
    BY <1>1, <1>2, <1>3, <1>4, StartSpend, CallSpend, FinishSpend DEF Next

\* A run whose cost is known to fit costs at most what is reserved for it.
LEMMA SettledWithinReserve ==
  ASSUME IInv, SpendOK, NEW r \in Runs, ~Exposed(r)
  PROVE  charge[r] <= Weight(reservation)[r]
  <1>1. charge[r] \in Nat /\ Weight(reservation)[r] \in Nat
    BY WeightNatural DEF IInv, TypeOK
  <1>2. CASE run[r].attempts # 1
    <2>1. calls[r] = 0
      BY <1>2 DEF IInv, TypeOK, AtMostOnceCall
    <2> QED
      BY <1>1, <2>1 DEF IInv, RunsOK
  <1>3. CASE run[r].attempts = 1
    <2>1. observation[r] # None /\ ~(observation[r] > ReserveOf[reservation[r]])
      BY <1>3 DEF Exposed
    <2>2. observation[r] = charge[r] /\ reservation[r] # None
      BY <1>3, <2>1 DEF SpendOK, IInv, RunsOK
    <2>3. Weight(reservation)[r] = ReserveOf[reservation[r]]
      BY <2>2 DEF Weight
    <2> QED
      BY <1>1, <2>1, <2>2, <2>3
  <1> QED
    BY <1>2, <1>3

\* All but one exposed run are paid out of the reservations, which fit the limit.
LEMMA SpendFits ==
  ASSUME IInv, SpendOK
  PROVE  SpendBounded
  <1> DEFINE c == Weight(reservation)
  <1>1. \A r \in Runs : c[r] \in Nat /\ charge[r] \in Nat
    BY WeightNatural DEF IInv, TypeOK
  <1>2. ReservedTotal = Total(c, Runs)
    BY ReservedTotalWeighs DEF IInv
  <1>3. \A r \in Runs : ~Exposed(r) => charge[r] <= c[r]
    BY SettledWithinReserve
  <1> HIDE DEF c
  <1>4. ReservedTotal <= LargestLimit /\ LargestLimit \in Nat /\ Max(Amounts) \in Nat
    BY LargestOnes DEF SpendOK
  <1>5. Total(charge, Runs) \in Nat /\ Total(c, Runs) \in Nat
    BY <1>1, FiniteAssumption, TotalNatural
  <1>6. Total(charge, Runs) <= LargestLimit + Max(Amounts)
    <2>1. CASE \E x \in Runs : Exposed(x)
      <3>1. PICK x \in Runs : Exposed(x)
        BY <2>1
      <3> DEFINE rest == Runs \ {x}
      <3>2. \A r \in rest : charge[r] <= c[r]
        BY <1>3, <3>1 DEF IInv, AtMostOneExposed
      <3>3. IsFiniteSet(rest)
        BY FiniteAssumption, FS_Subset
      <3>4. Total(charge, rest) <= Total(c, rest)
        BY <1>1, <3>2, <3>3, TotalAtMost
      <3>5. /\ Total(charge, Runs) = charge[x] + Total(charge, rest)
            /\ Total(c, Runs) = c[x] + Total(c, rest)
        BY <1>1, FiniteAssumption, TotalTakeOut
      <3>6. Total(charge, rest) \in Nat /\ Total(c, rest) \in Nat
        BY <1>1, <3>3, TotalNatural
      <3>7. charge[x] <= Max(Amounts)
        BY LargestOnes, <1>4 DEF SpendOK
      <3> QED
        BY <1>1, <1>2, <1>4, <3>4, <3>5, <3>6, <3>7
    <2>2. CASE \A x \in Runs : ~Exposed(x)
      <3>1. Total(charge, Runs) <= Total(c, Runs)
        BY <1>1, <1>3, <2>2, FiniteAssumption, TotalAtMost
      <3> QED
        BY <1>2, <1>4, <1>5, <3>1
    <2> QED
      BY <2>1, <2>2
  <1> QED
    BY <1>6 DEF SpendBounded, Total, LargestLimit

\* The stop-loss in money: whatever crashes, is cancelled or reconciled, all the calls of a
\* workspace together cost less than its largest limit and the price of one more call.
THEOREM SpendStopsAtLimit == Spec => []SpendBounded
  <1>1. Init => SpendOK
    BY InitSpend
  <1>2. IInv /\ IInv' /\ SpendOK /\ [Next]_vars => SpendOK'
    BY NextSpend
  <1>3. IInv /\ SpendOK => SpendBounded
    BY SpendFits
  <1> QED
    BY <1>1, <1>2, <1>3, Invariant, PTL DEF Spec

===============================================================================
