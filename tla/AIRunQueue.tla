------------------------------ MODULE AIRunQueue ------------------------------
(***************************************************************************)
(* The paid AI job queue of one workspace: ai_runs rows, their cost        *)
(* reservations and observations, the owners who start and cancel runs     *)
(* (services/ai.py), the restricted workers that reserve, call the model   *)
(* provider and finish (workers/ai.py), and the reconciler that closes     *)
(* what lost workers left (migration 0008, smm_ai_reconcile).              *)
(*                                                                         *)
(* One transaction of the code is one step: every writer of a run takes    *)
(* the workspace advisory lock or the row lock, and commits or rolls back  *)
(* as a whole.  A worker's dispatch, its network call and its finish are   *)
(* three separate steps, and it may die before or after any of them.       *)
(***************************************************************************)
EXTENDS Integers, FiniteSets, FiniteSetsExt

CONSTANTS
  Runs,            \* identities of ai_runs rows (the bound on how many are made)
  Actors,          \* users that may own runs in the workspace
  Keys,            \* idempotency keys a user may send, for starts and for cancels
  Workers,         \* worker processes
  Policies,        \* cost policies (tariffs) some process may be configured with
  ReserveOf,       \* reserve_microusd of a policy
  LimitOf,         \* workspace_limit_microusd of a policy
  Amounts,         \* microdollars one provider call may cost at the tariff
  DailyLimit,      \* settings.ai_daily_run_limit
  ReconcileBatch,  \* LIMIT of smm_ai_reconcile
  None             \* SQL NULL, or "no value"

\* CostPolicy.limits: a positive reserve, never above the workspace limit.
ASSUME PolicyAssumption ==
  /\ ReserveOf \in [Policies -> Nat \ {0}]
  /\ LimitOf \in [Policies -> Nat \ {0}]
  /\ \A p \in Policies : ReserveOf[p] <= LimitOf[p]
ASSUME AmountAssumption == Amounts \subseteq Nat
\* Tables are finite, and what one call may cost is bounded by its tokens and the tariff.
ASSUME FiniteAssumption ==
  /\ IsFiniteSet(Runs)
  /\ IsFiniteSet(Policies) /\ Policies # {}
  /\ IsFiniteSet(Amounts) /\ Amounts # {}
ASSUME NoneAssumption ==
  /\ None \notin Nat
  /\ None \notin Runs \cup Actors \cup Keys \cup Workers \cup Policies
ASSUME LimitAssumption == DailyLimit \in Nat /\ ReconcileBatch \in Nat \ {0}

VARIABLES
  access,       \* what each user's membership, identity and role allow
  run,          \* the ai_runs table
  reservation,  \* ai_cost_reservations: the policy snapshot a run was accepted under
  observation,  \* ai_cost_observations: the estimate recorded for a run
  artifact,     \* the runs that have an ai_artifacts row
  receipt,      \* ai_cancel_receipts, by (actor, key)
  worker,       \* what each worker process is doing (lost when it dies)
  calls,        \* history: how often the provider was called for a run
  charge        \* history: what those calls cost at the tariff

tables == <<run, reservation, observation, artifact, receipt>>
history == <<calls, charge>>
vars == <<access, tables, worker, history>>

-------------------------------------------------------------------------------
(* Rows *)

InFlightStates == {"running", "cancel_requested"}
TerminalStates == {"needs_review", "blocked", "failed", "cancelled", "unknown"}
States == {"absent", "queued"} \cup InFlightStates \cup TerminalStates

\* finished stands for finished_at IS NOT NULL; aged for created_at being more
\* than 24 hours ago; attempts for usage->>'attempts' and for started_at, which
\* the dispatch sets together; leaseUntil for lease_until against the clock.  The
\* lease token is fresh in every process(); the worker's name stands for it, as a
\* run is dispatched once and a worker that died holds no token any more.
Row == [state : States, version : Nat, actor : Actors \cup {None},
        key : Keys \cup {None}, attempts : {0, 1}, lease : Workers \cup {None},
        leaseUntil : {"null", "live", "past"}, finished : BOOLEAN, aged : BOOLEAN]

AbsentRow == [state |-> "absent", version |-> 0, actor |-> None, key |-> None,
              attempts |-> 0, lease |-> None, leaseUntil |-> "null",
              finished |-> FALSE, aged |-> FALSE]

NewRow(a, k, st) ==
  [AbsentRow EXCEPT !.state = st, !.version = 1, !.actor = a, !.key = k,
                    !.finished = (st = "blocked")]

\* run.state, run.version + 1, run.finished_at of every transition that ends a run.
Ended(row, st) ==
  [row EXCEPT !.state = st, !.version = @ + 1, !.finished = TRUE, !.leaseUntil = "null"]

\* Cancelling a queued run leaves its (null) lease columns alone.
Cancelled(row) ==
  [row EXCEPT !.state = "cancelled", !.version = @ + 1, !.finished = TRUE]

CancelAsked(row) ==
  [row EXCEPT !.state = "cancel_requested", !.version = @ + 1]

\* Mutant: the dispatch forgets to bump the version.
ReservedNoVersion(row, w) ==
  [row EXCEPT !.state = "running", !.attempts = 1, !.lease = w, !.leaseUntil = "live"]

Reserved(row, w) ==
  [row EXCEPT !.state = "running", !.version = @ + 1, !.attempts = 1,
              !.lease = w, !.leaseUntil = "live"]

Exists(r) == run[r].state # "absent"

Receipt == [run : Runs, state : {"cancelled", "cancel_requested"}, version : Nat]

\* What the gateway hands back: a parsed result with usage or none, the error the
\* worker keeps, whether the reported model is the tariff's, the tariff price.
Outcome == [gen : BOOLEAN, err : {"none", "definite", "unknown"},
            priced : BOOLEAN, amount : Nat]

\* Between reading the pending list and its return, a worker is in one process().
Process == [pc : {"idle", "claimed", "reserved", "calling", "returned"},
            job : Runs \cup {None}, out : Outcome]

NoOutcome == [gen |-> FALSE, err |-> "unknown", priced |-> FALSE, amount |-> 0]

Idle == [pc |-> "idle", job |-> None, out |-> NoOutcome]

-------------------------------------------------------------------------------
(* Who may see and who may run *)

\* Row level security shows a run to its actor while the membership is active.
Visible(a) == access[a] \in {"owner", "member"}

\* The actor is an active owner and the identity the run was started with is active.
Authorized(a) == access[a] = "owner"

-------------------------------------------------------------------------------
(* smm_ai_cost_totals *)

ReservedRuns == {r \in Runs : reservation[r] # None}
ReservedTotal == MapThenSumSet(LAMBDA r : ReserveOf[reservation[r]], ReservedRuns)

Unresolved ==
  {r \in Runs :
    /\ observation[r] = None
    /\ run[r].state \notin {"absent", "queued"} \cup InFlightStates
    /\ run[r].attempts = 1 \/ run[r].state \in {"unknown", "needs_review"}}

Overrun ==
  {r \in Runs : /\ observation[r] # None
                /\ reservation[r] # None
                /\ observation[r] > ReserveOf[reservation[r]]}

InFlight == {r \in Runs : run[r].state \in InFlightStates}

-------------------------------------------------------------------------------
(* Database triggers *)

\* smm_ai_transition, BEFORE UPDATE ON ai_runs.
AiTransition(old, new, hasArtifact) ==
  /\ \/ old.state = "queued" /\ new.state \in {"running", "blocked", "failed", "cancelled"}
     \/ /\ old.state = "running"
        /\ new.state \in {"needs_review", "failed", "unknown", "cancel_requested"}
     \/ old.state = "cancel_requested" /\ new.state \in {"cancelled", "unknown"}
  /\ new.version = old.version + 1
  /\ new.actor = old.actor /\ new.key = old.key
  /\ new.state = "running" =>
       new.lease # None /\ new.leaseUntil # "null" /\ new.attempts = 1
  /\ old.state \in InFlightStates => new.lease = old.lease
  /\ new.state = "needs_review" => hasArtifact
  /\ new.state \notin InFlightStates => new.finished

\* smm_ai_cost_dispatch_guard, BEFORE UPDATE ON ai_runs.
DispatchGuard(old, new, res) ==
  old.state = "queued" /\ new.state = "running" => res # None

\* smm_ai_cost_reserve_guard, BEFORE INSERT ON ai_cost_reservations.
ReserveGuard(row, p, used) ==
  /\ row.state = "queued"
  /\ used + ReserveOf[p] <= LimitOf[p]

\* smm_ai_cost_observe_guard, BEFORE INSERT ON ai_cost_observations.
ObserveGuard(row, w, res) ==
  /\ res # None
  /\ row.lease = w /\ row.leaseUntil = "live" /\ row.state \in InFlightStates

-------------------------------------------------------------------------------
(* Budget checks (services/ai_costs.py); p = None when the process has no     *)
(* policy, or one past its valid_until, or one for another model              *)

Admission(p) ==
  /\ p # None
  /\ Unresolved = {} /\ Overrun = {}
  /\ ReservedTotal + ReserveOf[p] <= LimitOf[p]

\* Mutant: the dispatch no longer refuses while spend is unresolved.
BudgetKeepsNoUnresolved(r, p) ==
  p # None /\ reservation[r] = p /\ Overrun = {} /\ ReservedTotal <= LimitOf[p]

\* Mutant: the dispatch no longer refuses after an overrun.
BudgetKeepsNoOverrun(r, p) ==
  p # None /\ reservation[r] = p /\ Unresolved = {} /\ ReservedTotal <= LimitOf[p]

\* dispatch does not raise: the process has the policy the run was reserved under,
\* no spend of the workspace is unknown, and the reservations still fit.
BudgetKeeps(r, p) ==
  /\ p # None
  /\ reservation[r] = p
  /\ Unresolved = {} /\ Overrun = {}
  /\ ReservedTotal <= LimitOf[p]

-------------------------------------------------------------------------------
(* Commands of a personal owner (services/ai.py) *)

\* The lock, the idempotency lookup by (actor, key) and the rolling 24 hour quota,
\* which counts every run of the workspace, blocked ones too.  A repeated key is
\* answered by reading the existing run or by idempotency_conflict: no change.
StartGuard(a, k, r) ==
  /\ Authorized(a)
  /\ \A s \in Runs : Exists(s) => <<run[s].actor, run[s].key>> # <<a, k>>
  /\ Cardinality({s \in Runs : Exists(s) /\ ~run[s].aged}) < DailyLimit
  /\ ~Exists(r)

\* Profile selection, sources or context, and the budget, all accept: the run,
\* its input and its reservation are stored in one transaction.
StartQueued(a, k, r, p) ==
  /\ StartGuard(a, k, r)
  /\ Admission(p)
  /\ run' = [run EXCEPT ![r] = NewRow(a, k, "queued")]
  /\ reservation' = [reservation EXCEPT ![r] = p]
  /\ UNCHANGED <<access, observation, artifact, receipt, worker, history>>

\* The first check that fails is stored as the error of a run that is born
\* blocked.  The content checks may fail in any state (wrong profile, no sources,
\* provider disabled), so nothing but the start's own guard limits this step.
StartBlocked(a, k, r) ==
  /\ StartGuard(a, k, r)
  /\ run' = [run EXCEPT ![r] = NewRow(a, k, "blocked")]
  /\ UNCHANGED <<access, reservation, observation, artifact, receipt, worker, history>>

\* A used key returns the stored receipt or conflicts; so does a stale version v.
\* A second request on a run already cancel_requested gets a receipt, no update.
Cancel(a, k, r, v) ==
  /\ Authorized(a)
  /\ receipt[<<a, k>>] = None
  /\ run[r].actor = a
  /\ run[r].version = v
  /\ run[r].state \in {"queued"} \cup InFlightStates
  /\ LET row == CASE run[r].state = "queued"  -> Cancelled(run[r])
                  [] run[r].state = "running" -> CancelAsked(run[r])
                  [] OTHER                    -> run[r]
     IN  /\ run' = [run EXCEPT ![r] = row]
         /\ receipt' = [receipt EXCEPT ![<<a, k>>] =
                          [run |-> r, state |-> row.state, version |-> row.version]]
  /\ UNCHANGED <<access, reservation, observation, artifact, worker, history>>

-------------------------------------------------------------------------------
(* The worker (workers/ai.py) *)

\* smm_ai_pending; its LIMIT 5 is not reached by the instances checked.
Pending == {r \in Runs : /\ run[r].state = "queued"
                         /\ ~run[r].aged
                         /\ Authorized(run[r].actor)}

\* A poll reads the pending list and processes its entries one after another; an
\* entry is a snapshot that may be out of date when its transaction begins.
Poll(w) ==
  /\ worker[w].pc = "idle"
  /\ \E r \in Pending :
       worker' = [worker EXCEPT ![w] = [Idle EXCEPT !.pc = "claimed", !.job = r]]
  /\ UNCHANGED <<access, tables, history>>

\* The errors that close a queued run: the actor lost the right to it, it waited
\* 24 hours, its inputs no longer hold (fresh = FALSE: sources, context, profile,
\* payload or settings changed), or the budget refuses.
DispatchError(r, p, fresh) ==
  ~Authorized(run[r].actor) \/ run[r].aged \/ ~fresh \/ ~BudgetKeeps(r, p)

\* The run is hidden from its actor, or somebody else moved it on, or another run
\* of the workspace is in flight: return False and leave the row alone.
DispatchSkipped(w, p, fresh) ==
  LET r == worker[w].job IN
  /\ worker[w].pc = "claimed"
  /\ \/ ~Visible(run[r].actor)
     \/ run[r].state # "queued"
     \/ ~DispatchError(r, p, fresh) /\ InFlight # {}
  /\ worker' = [worker EXCEPT ![w] = Idle]
  /\ UNCHANGED <<access, tables, history>>

DispatchBlocked(w, p, fresh) ==
  LET r == worker[w].job IN
  /\ worker[w].pc = "claimed"
  /\ Visible(run[r].actor) /\ run[r].state = "queued"
  /\ DispatchError(r, p, fresh)
  /\ run' = [run EXCEPT ![r] = Ended(@, "blocked")]
  /\ worker' = [worker EXCEPT ![w] = Idle]
  /\ UNCHANGED <<access, reservation, observation, artifact, receipt, history>>

\* The dispatch reservation commits before any network I/O.
DispatchReserved(w, p) ==
  LET r == worker[w].job IN
  /\ worker[w].pc = "claimed"
  /\ Visible(run[r].actor) /\ run[r].state = "queued"
  /\ ~DispatchError(r, p, TRUE)
  /\ InFlight = {}
  /\ run' = [run EXCEPT ![r] = Reserved(@, w)]
  /\ worker' = [worker EXCEPT ![w].pc = "reserved"]
  /\ UNCHANGED <<access, reservation, observation, artifact, receipt, history>>

\* The request reaches the provider, which charges for it whatever happens next.
\* The row is not read again: by now it may be cancel_requested or even unknown.
CallProvider(w) ==
  LET r == worker[w].job IN
  /\ worker[w].pc = "reserved"
  /\ calls' = [calls EXCEPT ![r] = @ + 1]
  /\ \E c \in Amounts :
       /\ charge' = [charge EXCEPT ![r] = @ + c]
       /\ worker' = [worker EXCEPT ![w].pc = "calling", ![w].out.amount = c]
  /\ UNCHANGED <<access, tables>>

\* A usable answer reports what was charged; it may still fail validation.  A
\* refusal, a malformed answer or a rate limit is a definite error with no usage;
\* a transport error or the 60 second timeout leaves the outcome unknown.
ProviderReturns(w) ==
  /\ worker[w].pc = "calling"
  /\ \E gen, priced \in BOOLEAN, err \in {"none", "definite", "unknown"} :
       /\ ~gen => err # "none" /\ ~priced
       /\ worker' = [worker EXCEPT ![w].pc = "returned", ![w].out.gen = gen,
                                   ![w].out.err = err, ![w].out.priced = priced]
  /\ UNCHANGED <<access, tables, history>>

\* Mutant: the finish checks the lease holder but not the lease's deadline or state.
HoldsNoFence(w, r) == Visible(run[r].actor) /\ run[r].lease = w

\* The fence of the finishing transaction: still the holder of a live lease.
Holds(w, r) ==
  /\ Visible(run[r].actor)
  /\ run[r].lease = w
  /\ run[r].state \in InFlightStates
  /\ run[r].leaseUntil = "live"

FinishFenced(w) ==
  /\ worker[w].pc = "returned"
  /\ ~Holds(w, worker[w].job)
  /\ worker' = [worker EXCEPT ![w] = Idle]
  /\ UNCHANGED <<access, tables, history>>

\* observe: only with a result, an authorised actor and the tariff's own model
\* (a token count out of range is refused like a foreign model).
Observes(r, out) == out.gen /\ out.priced /\ Authorized(run[r].actor)

FinishError(r, out, fresh) ==
  \/ out.err # "none"
  \/ ~Authorized(run[r].actor)
  \/ ~fresh
  \/ out.gen /\ ~out.priced

\* Mutant: a result that arrives after a cancel request is used.
FinalStateNoCancel(r, out, fresh) ==
  IF ~FinishError(r, out, fresh) THEN "needs_review"
  ELSE IF out.err = "unknown" THEN "unknown" ELSE "failed"

FinalState(r, out, fresh) ==
  CASE run[r].state = "cancel_requested" ->
         IF out.err = "unknown" THEN "unknown" ELSE "cancelled"
    [] run[r].state = "running" /\ FinishError(r, out, fresh) ->
         IF out.err = "unknown" THEN "unknown" ELSE "failed"
    [] OTHER -> "needs_review"

Finish(w, fresh) ==
  LET r   == worker[w].job
      out == worker[w].out
      st  == FinalState(r, out, fresh)
  IN
  /\ worker[w].pc = "returned"
  /\ Holds(w, r)
  /\ observation' = IF Observes(r, out)
                    THEN [observation EXCEPT ![r] = out.amount] ELSE observation
  /\ artifact' = IF st = "needs_review" THEN artifact \cup {r} ELSE artifact
  /\ run' = [run EXCEPT ![r] = Ended(@, st)]
  /\ worker' = [worker EXCEPT ![w] = Idle]
  /\ UNCHANGED <<access, reservation, receipt, history>>

\* The process dies, or a database error aborts its transaction and its poll.
Crash(w) ==
  /\ worker[w].pc # "idle"
  /\ worker' = [worker EXCEPT ![w] = Idle]
  /\ UNCHANGED <<access, tables, history>>

-------------------------------------------------------------------------------
(* The reconciler (migration 0008) *)

\* Mutant: a run whose cancel was requested is never reconciled.
StaleNoCancelRequested ==
  {r \in Runs :
    \/ run[r].state = "running" /\ run[r].leaseUntil # "live"
    \/ run[r].state = "queued" /\ (run[r].aged \/ ~Authorized(run[r].actor))}

Stale ==
  {r \in Runs :
    \/ run[r].state \in InFlightStates /\ run[r].leaseUntil # "live"
    \/ run[r].state = "queued" /\ (run[r].aged \/ ~Authorized(run[r].actor))}

\* Mutant: the reconciler puts an interrupted run back into the queue.
ReconciledReplays(row) == Ended(row, IF row.state = "queued" THEN "blocked" ELSE "queued")

Reconciled(row) == Ended(row, IF row.state = "queued" THEN "blocked" ELSE "unknown")

\* One statement closes at most ReconcileBatch stale rows; SKIP LOCKED may leave
\* out any of them, and the oldest come first, so any small set is possible.
Reconcile(S) ==
  /\ S # {} /\ S \subseteq Stale
  /\ Cardinality(S) <= ReconcileBatch
  /\ run' = [r \in Runs |-> IF r \in S THEN Reconciled(run[r]) ELSE run[r]]
  /\ UNCHANGED <<access, reservation, observation, artifact, receipt, worker, history>>

-------------------------------------------------------------------------------
(* Time and administration *)

LeaseExpires(r) ==
  /\ run[r].state \in InFlightStates /\ run[r].leaseUntil = "live"
  /\ run' = [run EXCEPT ![r].leaseUntil = "past"]
  /\ UNCHANGED <<access, reservation, observation, artifact, receipt, worker, history>>

Age(r) ==
  /\ Exists(r) /\ ~run[r].aged
  /\ run' = [run EXCEPT ![r].aged = TRUE]
  /\ UNCHANGED <<access, reservation, observation, artifact, receipt, worker, history>>

\* Memberships and identities are granted and revoked outside this queue.
ChangeAccess(a, level) ==
  /\ access[a] # level
  /\ access' = [access EXCEPT ![a] = level]
  /\ UNCHANGED <<tables, worker, history>>

-------------------------------------------------------------------------------
Init ==
  /\ access = [a \in Actors |-> "owner"]
  /\ run = [r \in Runs |-> AbsentRow]
  /\ reservation = [r \in Runs |-> None]
  /\ observation = [r \in Runs |-> None]
  /\ artifact = {}
  /\ receipt = [x \in Actors \X Keys |-> None]
  /\ worker = [w \in Workers |-> Idle]
  /\ calls = [r \in Runs |-> 0]
  /\ charge = [r \in Runs |-> 0]

Next ==
  \/ \E a \in Actors, k \in Keys, r \in Runs :
       \/ \E p \in Policies : StartQueued(a, k, r, p)
       \/ StartBlocked(a, k, r)
       \/ \E v \in 1..4 : Cancel(a, k, r, v)
  \/ \E w \in Workers :
       \/ Poll(w)
       \/ \E p \in Policies \cup {None}, fresh \in BOOLEAN :
            DispatchSkipped(w, p, fresh) \/ DispatchBlocked(w, p, fresh)
       \/ \E p \in Policies : DispatchReserved(w, p)
       \/ CallProvider(w)
       \/ ProviderReturns(w)
       \/ FinishFenced(w)
       \/ \E fresh \in BOOLEAN : Finish(w, fresh)
       \/ Crash(w)
  \/ \E S \in SUBSET Runs : Reconcile(S)
  \/ \E r \in Runs : LeaseExpires(r) \/ Age(r)
  \/ \E a \in Actors, level \in {"owner", "member", "none"} : ChangeAccess(a, level)

Spec == Init /\ [][Next]_vars

\* Beat wakes a poll every 30 seconds and a poll begins with the reconciler; rows
\* are locked only for the length of a transaction; clocks advance.
ReconcileOne(r) == \E S \in SUBSET Runs : r \in S /\ Reconcile(S)

Fairness == \A r \in Runs : WF_vars(LeaseExpires(r)) /\ WF_vars(Age(r))
                            /\ WF_vars(ReconcileOne(r))

FairSpec == Spec /\ Fairness

-------------------------------------------------------------------------------
(* Correctness *)

\* Every table holds what its columns allow.
TypeOK ==
  /\ access \in [Actors -> {"owner", "member", "none"}]
  /\ run \in [Runs -> Row]
  /\ reservation \in [Runs -> Policies \cup {None}]
  /\ observation \in [Runs -> Nat \cup {None}]
  /\ artifact \subseteq Runs
  /\ receipt \in [Actors \X Keys -> Receipt \cup {None}]
  /\ worker \in [Workers -> Process]
  /\ calls \in [Runs -> Nat]
  /\ charge \in [Runs -> Nat]

\* A run was dispatched and its cost is not known to be within its reservation.
Exposed(r) ==
  /\ run[r].attempts = 1
  /\ observation[r] # None => observation[r] > ReserveOf[reservation[r]]

\* Never parallelize unknown spend: whatever workers crash, leases expire, owners
\* cancel or memberships change, at most one run of the workspace has ever been
\* dispatched without a cost estimate inside its reservation (ai_costs.dispatch).
AtMostOneExposed == \A r, s \in Runs : Exposed(r) /\ Exposed(s) => r = s

\* A dispatched run is never called again: not after a crash, not by a second
\* worker that read the same pending list, not after reconciliation; and nothing
\* is called that was not dispatched (the reservation commits before network I/O).
AtMostOnceCall ==
  \A r \in Runs : calls[r] <= 1 /\ (calls[r] = 1 => run[r].attempts = 1)

\* The workspace limit is a stop-loss: what the provider's work costs at the tariff exceeds the
\* largest limit any process was configured with by at most the cost of one call.
SpendBounded ==
  MapThenSumSet(LAMBDA r : charge[r], Runs)
    <= Max({LimitOf[p] : p \in Policies}) + Max(Amounts)

\* A draft exists exactly for the runs offered for review, and each was produced by
\* the one provider call of that run and has its cost recorded.
ArtifactIffReview ==
  \A r \in Runs :
    /\ r \in artifact <=> run[r].state = "needs_review"
    /\ r \in artifact => calls[r] = 1 /\ observation[r] = charge[r]

\* What a cancel receipt promised stays true: "cancelled" means the provider was
\* never and will never be called, "cancel_requested" that no draft will appear,
\* however late the answer of the worker that holds the run.
CancelHonoured ==
  \A x \in Actors \X Keys : receipt[x] # None =>
    LET r == receipt[x].run IN
    /\ receipt[x].state = "cancelled" => run[r].state = "cancelled" /\ calls[r] = 0
    /\ receipt[x].state = "cancel_requested" =>
         run[r].state \in {"cancel_requested", "cancelled", "unknown"} /\ r \notin artifact
    /\ run[r].version >= receipt[x].version

ClockStep(r) ==
  \/ run'[r] = [run[r] EXCEPT !.leaseUntil = "past"]
  \/ run'[r] = [run[r] EXCEPT !.aged = TRUE]

\* The services never run into the database's backstop: every update, insert and
\* fenced observation of start, cancel, dispatch, finish and reconcile is one the
\* triggers and policies accept, and no append-only row is ever rewritten.
TriggersAccept ==
  [][\A r \in Runs :
       /\ Exists(r) /\ run'[r] # run[r] /\ ~ClockStep(r) =>
            /\ AiTransition(run[r], run'[r], r \in artifact')
            /\ DispatchGuard(run[r], run'[r], reservation[r])
       /\ observation'[r] # observation[r] =>
            /\ observation[r] = None
            /\ \E w \in Workers : worker[w].pc = "returned" /\ worker[w].job = r
                                 /\ ObserveGuard(run[r], w, reservation[r])
       /\ reservation'[r] # reservation[r] =>
            /\ reservation[r] = None
            /\ ReserveGuard(run'[r], reservation'[r], ReservedTotal)
       /\ r \in artifact' \ artifact => run[r].state \in InFlightStates
       /\ r \in artifact => r \in artifact']_vars

\* No run is left behind: whatever happens to its worker and its owner, every
\* accepted run is eventually closed (by the reconciler if by nobody else).
EveryRunEnds ==
  \A r \in Runs : Exists(r) ~> run[r].state \in TerminalStates

-------------------------------------------------------------------------------
(* The inductive invariant behind the properties above *)

\* attempts tells dispatched runs from the rest; only a closed run has a cost, and
\* only a dispatched one was reserved for, called or charged.
RunsOK ==
  \A r \in Runs :
    /\ run[r].state \in {"absent", "queued"} => run[r].attempts = 0
    /\ run[r].state \in InFlightStates => run[r].attempts = 1 /\ observation[r] = None
    /\ run[r].attempts = 1 => reservation[r] # None
    /\ run[r].attempts = 0 => observation[r] = None
    /\ calls[r] = 0 => charge[r] = 0

\* A worker past its dispatch is the only one that ever held its run's lease, and
\* between its two transactions it alone knows what the call did.
WorkersOK ==
  \A w \in Workers :
    LET u == worker[w] IN
    /\ u.pc # "idle" => u.job \in Runs
    /\ u.pc \in {"reserved", "calling", "returned"} =>
         run[u.job].attempts = 1 /\ run[u.job].lease = w
    /\ u.pc = "reserved" => calls[u.job] = 0
    /\ u.pc \in {"calling", "returned"} => calls[u.job] = 1 /\ charge[u.job] = u.out.amount
    /\ u.pc = "returned" /\ ~u.out.gen => u.out.err # "none"

\* A run whose cancellation was confirmed had not been dispatched.
ReceiptsOK ==
  \A x \in Actors \X Keys :
    receipt[x] # None /\ receipt[x].state = "cancelled" =>
      run[receipt[x].run].attempts = 0

\* Together with the properties it supports it is preserved by every step.
IInv ==
  /\ TypeOK
  /\ RunsOK /\ WorkersOK /\ ReceiptsOK
  /\ AtMostOneExposed /\ AtMostOnceCall /\ ArtifactIffReview /\ CancelHonoured

LargestLimit == Max({LimitOf[p] : p \in Policies})

\* Beside IInv, what bounds the spend: an estimate is the price of its run's only call,
\* and no process lets the reservations exceed its own limit.
SpendOK ==
  /\ \A r \in Runs :
       /\ charge[r] \in Amounts \cup {0}
       /\ observation[r] # None => calls[r] = 1 /\ observation[r] = charge[r]
  /\ ReservedTotal <= LargestLimit

-------------------------------------------------------------------------------
(* The promise the queue keeps *)

PhaseAt(r) ==
  CASE run[r].state = "absent"          -> "none"
    [] run[r].state = "queued"          -> "accepted"
    [] run[r].state \in InFlightStates  -> "dispatched"
    [] run[r].state \in TerminalStates  ->
         IF run[r].attempts = 0 THEN "refused"
         ELSE IF Exposed(r) THEN "stuck" ELSE "settled"

Phase == [r \in Runs |-> PhaseAt(r)]

Ledger == INSTANCE SpendLedger WITH phase <- Phase

\* The queue implements the ledger: every transaction of a service, a worker or the
\* reconciler is one step of the ledger or changes nothing the ledger tells.
KeepsLedger == Ledger!Spec

===============================================================================
