# smmGA: a TLA+ model of its queues, its knowledge and its content

smmGA is a multi-tenant service in which a small team prepares social media
content: knowledge documents are uploaded and indexed, an AI model drafts plans,
copy and reviews from them under a spending limit, people review and approve exact
revisions, and approved posts become manual publication packages. State is in
PostgreSQL (row level security and triggers are part of the logic), Celery workers
poll the queues, and FastAPI and MCP front ends issue commands.

This directory models the parts in which the order of events matters. A transaction
that waits for nothing is one action; everything between two transactions of one
handler (a provider call, a parse, a crash) is an action of its own; and where a
transaction is long, fails half way or runs beside others under a finer lock, its
steps are actions.

## Inventory

| Component | State it keeps | Operations | Correct when |
|---|---|---|---|
| **AI run queue** (`services/ai.py`, `services/ai_queue.py`, `workers/ai.py`, migration 0008) | `ai_runs`, `ai_artifacts`, cancel receipts | start, cancel, poll, dispatch, call, finish, reconcile | the provider is called at most once for a run; late answers, crashes and cancels leave one consistent verdict; every run ends |
| **AI spending budget** (`services/ai_costs.py`, migration 0019) | reservations and observations (append-only) | admission, dispatch, observe | spending stops at the limit and at the first cost nobody can account for |
| **Ingestion queues** (`services/ingestion*.py`, `services/knowledge_files.py`, `workers/knowledge*.py`, migrations 0007 and 0009) | `knowledge_files`, `knowledge_indexes`, extractions, chunks, two kinds of receipts, events | submit, rescan, reindex, retry, cancel, claim, finish, reconcile | results come from the latest attempt; recovery never starts work by itself; a cancel is final; every job settles |
| **Model gateway** (`services/model_gateway.py`) | none | one HTTP call | its outcome is classified: text, definite refusal, or unknown |
| **Scheduler** (`workers/celery_app.py`) | none of its own | wakes each poll every 30 s | polls keep coming |
| **Knowledge documents** (`services/knowledge.py`, migrations 0005 and 0010) | documents, versions, indexes, proposals and their reviews, activations | submit, reindex, activate, archive, propose, review, curate | what is cited is active, ready and in date; a curated text is never better founded, longer valid or more public than what it was drawn from |
| **Retrieval evaluation** (`services/evaluation.py`, migration 0006) | sets of questions, reports, decisions on reports | submit questions, run, accept or reject | a baseline that is called current describes the search as it is |
| **Content lifecycle** (`services/content*.py`) | records, posts, immutable revisions, reviews, decisions, packages, working copies | save, confirm, request review, decide, prepare and cancel a package | an approval is for one exact revision and one set of checked records; a package that is not current says so |
| **Profile registry** (`services/profiles.py`, migration 0011) | heads, versions, decisions | draft, select, disable | a run uses the selection it was started under, never a similar later one |
| **Draft adoption** (`services/copy_adoption.py`, `plan_adoption.py`, migrations 0015 and 0017) | adoption rows, new revisions, plan versions and notes | preview, adopt | each run is adopted at most once and on what the person saw; noted gaps are not forgotten |
| **Editor review and triage** (`services/editor*.py`, migrations 0012 and 0013) | append-only decisions on findings | decide | decisions are linear and bound to a report on the current text |
| **Planner and copywriter** (`services/planner.py`, `copywriter.py`) | none | take a snapshot, validate a draft | a stored input is compared with a snapshot taken now |
| **Work items** (`services/operations.py`, `content._task`) | items, dependencies, assignments | create, transition, assign, depend | no cycle; what is done rests on what is done; a retry makes no second item |
| **Sessions and login** (`services/sessions.py`, `oidc.py`, `cli.py`) | login flows, web sessions, users | begin, finish, authenticate, log out, disable | a code is redeemed once; signing out and disabling reach everything |
| **Access** (`services/access.py`) | memberships, diagnostic jobs | authorize, create and run a job | rights are read again in every transaction |
| **Deployment** (`scripts/server.py`, `ops/compose.server.yaml`) | releases, `current.json`, backups | deploy, roll back, back up, restore | the recorded release can run; a backup is of one moment; a failure gives the service back |
| **Web client** (`web/src`) | the state of the post editor | fetch, edit, save | what a person overwrites, he has seen |
| **Parsers, scanner, file store, HTTP and MCP, database** | none that another component reads but through rows | | see "Not modelled" |

Components interact through rows of one database. A command and a worker never
talk to each other: a cancel changes a row under the worker that is processing it,
and the worker finds out when it comes back (*fencing*). Two advisory locks per
workspace (knowledge, content) serialise the commands; workers do not take them.
The hard behaviours are therefore interleavings of transactions around an `await`,
crashes between two of them, expired leases with a late answer, rights, profiles and
documents that change while work is under way, pages that are out of date when their
reader acts on them, and triggers that reject an unforeseen update. `PROJECT.json`
lists each at its line under `hazards`.

## Modules

| Module | What it is | Proofs |
|---|---|---|
| `AIRunQueue` | the AI run queue and its budget, all of it: commands, workers, reconciler, triggers | `AIRunQueueProofs` |
| `SpendLedger` | what the queue promises about money: an abstract specification | `AIRunQueueProofs` |
| `IngestionQueue` | both knowledge processing queues: one life cycle, two kinds of jobs | `KnowledgeProofs` |
| `KnowledgeDocuments` | documents, versions, indexes, proposals, curated texts, activations | `KnowledgeProofs` |
| `RetrievalEvaluation` | questions, reports and baselines; extends `KnowledgeDocuments` | `KnowledgeProofs` |
| `ContentRecords` | the ledger of sources, facts, product versions, profiles, policies and briefs | |
| `ContentLifecycle` | posts, revisions, reviews, decisions and packages; extends `ContentRecords` | `ContentLifecycleProofs` |
| `Publication` | what publication promises about posts: an abstract specification | `ContentLifecycleProofs` |
| `WorkingCopies` | one user's working copy of a post, his open editors, and the others who change the post | `WorkingCopiesProofs` |
| `ProfileRegistry` | profile versions and the decisions that put them on trial | `DraftAdoptionProofs` |
| `DraftAdoption` | runs bound to a selection, and the adoption or triage of what they make; extends `ProfileRegistry` | `DraftAdoptionProofs` |
| `WorkItems` | work items and dependencies, as transactions side by side | `WorkItemsProofs` |
| `Sessions` | login, authentication, sign-out, disabling | `SessionsProofs` |
| `Deployment` | deploy, rollback and backup, step by step | `DeploymentProofs` |
| `MC...` | symmetry, structured constants and seeded states for TLC | |

Each module carries one type invariant, which is part of its inductive invariant. Definitions whose comment begins with "Mutant" are
plausible bugs that stand beside what they would replace; no behaviour uses them, and
`PROJECT.json` says which property each of them breaks.

### AIRunQueue

`run` is the `ai_runs` row; `reservation` and `observation` are the two cost
tables; `artifact` the stored drafts; `receipt` the cancel receipts; `worker` what a
worker process holds in memory between its transactions; `access` the rights of each
user. `calls` and `charge` are history: what the provider did and what that cost
at the tariff.

* `StartQueued`, `StartBlocked`, `Cancel` are the commands of `AIService`. The
  idempotency key is the pair (actor, key). A command that returns an earlier receipt
  or an error changes nothing and is not an action.
* `Poll` takes one run of the pending list; the list is read in a transaction of its
  own, so `DispatchReserved`, `DispatchBlocked` and `DispatchSkipped` (the first
  transaction of `process`) find the row as it is by then. `CallProvider` and
  `ProviderReturns` bracket the network call, and `Finish` or `FinishFenced` is the
  last transaction. `Crash` may come anywhere between.
* `Reconcile(S)` is `smm_ai_reconcile`: any batch of stale rows, since it orders by
  age, stops at a limit and skips rows somebody has locked.
* Data the properties do not tell apart is left out: an input that
  no longer validates is the nondeterministic choice `fresh`; a policy is a model value
  with a reservation (`ReserveOf`) and a limit (`LimitOf`); clocks are three values for
  a lease and a flag for the 24 hours.
* The triggers are operators (`AiTransition`, `DispatchGuard`, `ReserveGuard`,
  `ObserveGuard`) and not guards of the actions: that the services never run into them
  is a property. The exception is an observation written after the lease expired by the
  database's clock, where the service relies on the trigger's exception; the rollback of
  that transaction is `Crash`.

### SpendLedger

The ledger sees a run as nothing but a phase: accepted, dispatched, settled, refused
or stuck. It promises that a run is dispatched only when nothing else is dispatched or
stuck, and that phases only advance. `KeepsLedger` is `Ledger!Spec` under the mapping
`Phase`: every transaction of the detailed queue is one ledger step or a stutter.

### IngestionQueue

`job` is the row of a file or of an index. Both kinds go through the same states and
the same trigger; retries are for files alone. `result` remembers which attempt
stored the extraction or the chunks. The claim reads every column the pending list was
selected by again, so unlike the AI queue the list needs no step of its own. A lease
token is `<<worker, attempt>>`: as fresh as a UUID. The author's rights (`Allowed`) are
checked by the worker in both transactions under row level security, so a worker can
never close a job whose author was disabled: only the reconciler can.

### KnowledgeDocuments

The tables of migrations 0005 and 0010 as sequences whose places are the ids: `document`
with the version of its row, its visibility and its active index, `version`, `index`,
`note` (a proposal with its evidence, its review and the evidence the review added) and
`memory` (which document was curated from which proposal). `Citable` and `Cited` are what
`retrieve` finds: the active index of a document that is not archived, within the
period of its version. `page` is what a reviewer has open: an activation names the
index and the version of the row he saw. One action per command of
`KnowledgeService.execute`; the index becomes ready in `IngestionQueue`, here in one step
or never. Left out: receipts, expected test queries of a proposal, and chunks (an index
has one passage).

### RetrievalEvaluation

`dataset` and `evaluation` are the tables of migration 0006. A run is a long transaction:
`RunBegins` takes the knowledge lock and reads the questions, `RunScores` searches,
`RunCommits` compares corpora and writes, or `RunRollsBack` refuses; while it is
`running`, `Unlocked` keeps every command out, but workers and the clock go on, and each
statement sees what is committed by then. `Corpus` is `corpus`: what is searched and the
periods it is valid in. `BaselineCurrent` is computed when a report is read. Ranking and
the limit of a search are left out: a question is answered by the passages with certain
texts, fewer than the limit.

### ContentRecords and ContentLifecycle

`ledger` is `content_records` in the order of writing, and a record's id its place in
it. `CreateRecord`, `ReplaceRecord` and `ConfirmRecord` are the three ways
`create_record` is reached; `Current` and `Supported` are `current` and the confirming
part of `validate_body`. `post`, `revision`, `review`, `decision` and `package` are the
tables of `content_models.py`, per post. Each command of `ContentService.execute` runs
under the content lock of the workspace from its first read to its commit, so it is
one action; interleaving is between commands, and the expected version of a command is
the statement that it meets the version its user read. `Passes` is `preflight` and
`Evidence` its `checked_record_ids`; `Status` is what `_package_view` answers.

* A claim policy is the set of texts it forbids; everything about a revision that no
  record can cure (gaps, unsafe links, length, media, hash) is its one bit `flawed`.
* A warning changes no decision and is left out.
* Left out are receipts (a repeated key returns the earlier result), rights, comments,
  catalog entries, and the kinds of records no check of a post reads (research,
  campaigns, ideas). Expiry dates are times of a small clock.

### Publication

Publication sees of a post how often it was written, whether its text is approved, how many
packages there ever were and which of them are offered. It promises that only an approved
text is offered, in one new package at a time, and that writing takes everything back while
nothing else takes an approval back. `KeepsPublication` is `Promise!Spec` under the mapping
`Shelf`. The mapping reads decisions and packages, not the state of the row or the approval
it names: that the row tells the same is what makes the promise hold.

### WorkingCopies

`copy` is the row of `post_working_copies` for one user and one post, `tab` what each
browser tab has in its query cache, `editor` the state of `Editor.tsx` (`base`,
`copyVersion`) once it is open. `SaveWorkingCopy` and `SaveRevision` join the editor's
request with the server's handler; `ChatRevision`, `OtherRevision` (which includes the
adoption of a draft: that keeps copies) and `OtherCommand` change the post from
elsewhere. `id`, `row`, `basis` and `knows` are history: who wrote what after reading
what.

### ProfileRegistry and DraftAdoption

`version`, `decision` and `head` are the three tables of the registry, `contract` what
the deployed code makes of a profile (`execution_hash`). A head names the decision that
selected its version: `selection`. `Selected` is the comparison every later step makes.

`DraftAdoption` follows a run of any of the three profiles from the request to its use.
`Snapshot` is the current text, or plan, and the evidence around it; `MayGoOn` is
`current_input` with `assert_registered_run`, evaluated in `Dispatch`, in `Finish` and by
every command that uses a result. `page` is what each browser tab shows: the run, the
version its command will name (`seen`) and, as history, the content itself (`shown`).
`AdoptCopy`, `AdoptPlan` and `DecideFinding` are commands sent from such a page. One
owner, one post and one plan; what everybody else does (`SaveRevision`, `ActOnPost`,
`ReplacePlan`, `EvidenceMoves`) is what `ContentLifecycle` has in full. Leases, cancels
and costs are `AIRunQueue`: here a run that may not go on is closed. Requests that are
refused, and kept as blocked runs, are left out: nobody reads them again.

### WorkItems

`txn` is what each session is doing and what it has read. `CreateLooks`,
`CreateInserts` and `CreateAnswers`, `MoveLooks` and `MoveWrites`, `DependLooks` and
`DependWrites` are the steps of the three commands. Creation takes a lock of its key
(`KeyFree`), transitions and dependencies the content lock of the workspace (`Free`); a
lock is held to the end of the transaction. `Reached` is the walk over the dependencies
by which `_task` looks for a circle, as the least set closed under them; `EdgeLimit` is
the limit that makes the rows it reads all there are.

### Sessions

`flow`, `session` and `active` are rows; `login` is a callback in one of the three
transactions of a login, with the call of the identity provider in between; `request` is
a request that is authenticated in one transaction and carried out in another.
`made`, `signOuts` and `exchanged` are history. A wrong secret changes nothing and is no
action. A person has several identities; signing out is of all of them.

### Deployment

An operation is a sequence of steps (`After`, `AfterFault`) of `deploy` and `backup` in
`scripts/server.py`; `StepFails` may take the place of any step and `Killed` ends the process
between two. A stop or a start that fails may have reached some of the writers only (`Mixed`).
What it raises is or is not an `OperationError` (`caught` in `Fails`): deploy's handler undoes
that error alone, any other ends the operation where it is. A rollback is a deployment of a release whose migrations are the same.
`running`, `db`, `data` are the server, `current` is `current.json`, `staged` and `begun`
the release directories. `DrillPasses` is the restore of a backup into a database of
its own. `last` remembers the last operation that ended by itself, which of its
steps had failed, and whether an error escaped the handler.

## Runs

| Run | Instance | Shows |
|---|---|---|
| `queue_safety` | 2 runs, 2 workers, 2 keys, 2 tariffs, costs within and above the reservation | the stop-loss, one verdict per run, the triggers, and the refinement `KeepsLedger` |
| `queue_liveness` | 2 runs, 1 worker | `EveryRunEnds` |
| `ingestion` | 1 file, 1 private index, 2 workers, 3 keys, 3 attempts | safety, triggers and `EveryJobSettles` |
| `records_safety` | 5 records of 3 kinds, a clock of 2 values | what the checks of a post may rely on |
| `content_safety` | 1 post, 2 revisions, 2 packages, 11 changes, over a seeded ledger | approvals, packages and reviews |
| `copies_safety` | 2 tabs, 3 saves of a copy, 2 changes of the post from any side | nobody overwrites what he has not seen |
| `copies_overwrite` | the same | `NoLastWriteWins` is violated, see below |
| `knowledge_safety` | a seeded owner's and workspace document; then one proposal and one curated text with 4 indexes, or 2 sets of questions and a report | curated texts and baselines |
| `drafts_safety` | 2 runs of 3 profiles, 2 tabs, 2 contracts, one finding, one gap, 10 writes | from the request for a draft to its use |
| `work_items` | 3 items, 2 sessions, 3 keys, a limit of 3 dependencies | transactions side by side |
| `sessions_safety` | 2 logins, 3 callbacks, 2 identities, 2 sessions, 3 requests | login and sign-out |
| `deployment_safety` | 4 releases, one with more migrations and one docker refuses, 2 backups | releases and backups with failing steps |

What each property says, and what breaks it (every one is tried against a mutant of
the code, listed in `PROJECT.json`):

* `AtMostOneExposed`, `AtMostOnceCall`, `SpendBounded`, `KeepsLedger`: the stop-loss. A
  second run is not dispatched while the cost of one is unknown or above its reservation;
  nothing is called twice; what was ever spent exceeds the limit by at most the cost of one call.
  Dropping the check for unresolved runs, or a reconciler that puts a run back into the
  queue, breaks them.
* `ArtifactIffReview`, `CancelHonoured`: one verdict per run, whoever comes late.
  Dropping the lease comparison in the finish, or the look at `cancel_requested`, breaks
  them.
* `ResultOfLatestAttempt`, `RunsOnlyAsAsked`, `CancelFinal`: the same for ingestion. A
  worker that comes back after its file was reconciled, retried and claimed again is the
  case the token is for; one file and two workers are enough to reach it. Three keys allow two
  retries and a third one that the limit of three attempts refuses.
* `TriggersAccept` (both queues), `GuardsAccept` (registry, runs, adoptions, decisions on
  findings): every update of every writer is one the database accepts, in every state it
  can be made in. A rejected update would abort the transaction, and with it a poll.
* `FamiliesAreLines`, `ConfirmedIsSupported`: what the checks of a post may rely on.
  Every family of records is one line of drafts and confirmations and there is one for
  each scope; nothing was confirmed on a hypothesis or on what was not in force.
* `ApprovalIsCurrent`, `DecisionsAnswerReviews`: the state of a post, its approval, its
  packages and its reviews always tell one story. A cancelled old package that sends a
  draft back to approved, or a decision nobody asked for, breaks them.
* `KeepsPublication`: every command is one step of `Publication` or none. A review that may
  be asked for an approved post breaks it: its decision approves one text twice, or takes
  back an approval on which a package is offered.
* `PackageAsApproved`, `ActivePackageStands`: what was approved is what is packaged, and
  what is shown as active still stands, down to the source of the product version
  behind a fact. The second states, without reference to `preflight`, that everything
  the text rests on is confirmed, in force beyond the scheduled time and the same as
  at approval.
* `RevisionsBuildOnLast`, `CopiesBuildOnLast`: nobody overwrites what he has not seen,
  with the exception below.
* `MemoryWithinPeriods`, `EvidenceStoodAtActivation`: a curated text is cited only while
  every passage it was drawn from is within its period, and comes into force only while
  each of them may itself be cited, also by a reindex long after the curation.
  `OwnerEvidenceStaysPrivate`: nothing drawn from an owner's document becomes visible to
  the workspace, through however many curations. `CuratedOnceFromItsReview`: one document
  for one accepted proposal, on all that was named.
* `BaselineDescribesToday`: an accepted report that is called current answers as the
  search does now, passage by passage, whatever was activated, archived or has expired,
  also while the evaluation ran. A corpus hash without periods breaks it.
* `ActsUnderItsSelection`: a run is called, reviewed or used only while no decision at all
  was taken on its profile since it was requested; comparing versions alone breaks it,
  since a version withdrawn and selected again looks the same.
* `ActsOnWhatWasSeen`: who adopts a draft or decides on a finding has seen what the
  command changes: also a review or an approval the adoption undoes, or a decision made
  in another tab.
* `AdoptedAfterItsSource`, `GapsAreInherited`: a draft becomes the text right after the
  one it was written about, once; a gap noted with an adopted plan stays noted with all
  later ones, whatever is planned by hand in between and whatever the model answers.
* `NoCycle`, `DoneRestsOnDone`, `OneItemPerRequest`: no set of items waits for itself, what
  is done rests on what is done, and a request sent twice makes one item, although each
  command looks first and writes later.
* `RedeemedOnce`, `OutIsOut`: the code of a login goes to the provider once, whatever
  callbacks race, fail or crash. Signing out reaches the web sessions of every local
  identity of the person: a web request that arrives afterwards is authenticated only on a
  session made afterwards. A login under way is not stopped by it, its session is a new one,
  and a bearer token is no local session (`docs/authentication.md:15`). Being disabled
  reaches all of these: no request that arrives afterwards is authenticated. Neither property
  says that what was authenticated before is not carried out: after authentication the code
  reads the user again and not the session (`CarryOut`), so a request may still complete
  after a sign-out.
* `RecordedCanRun`, `BackupIsOneMoment`, `ServiceSurvives`: the release in `current.json`
  can be started on the database as it is, also after a first deployment that failed; a
  complete backup passes its drill; an operation that failed gives the service back, with the
  exceptions named below.
* `EveryRunEnds`, `EveryJobSettles`: whatever happens to workers and authors.

**Bounds.** In the queues, runs and files share nothing but the budget and the worker that
holds them: two runs show every pairwise conflict. Two workers show two polls at once and
a late worker beside its successor. Attempts go to the real limit of three, which the
`ingestion` run meets: its three keys allow a submission, two retries and a third retry that is
refused. Keys bound the number of commands, one of each kind for each key, and in that run are
taken in order (`KeysInOrder`): a key is only ever compared with those used before in the same
table, so every behaviour is, up to the names of keys, one of these. TLC's own symmetry
reduction is not used where liveness is checked. `ReconcileBatch` is 1 so that the limit is met. `MaxAttempts` is the
code's own limit and not a bound of the model.

Five records are the least in which a policy rests on a source that is replaced after
it was confirmed. The content run starts from a ledger of thirteen records, as a team
leaves it before its first post, since the interesting behaviour begins there: two
confirmed sources, one of them behind a product version and good for a shorter time, a
profile, a policy, a version, a fact and a brief. It then allows two more records (a
replaced source or a stricter policy, and its confirmation). Eleven changes are enough
for a revision, review, approval, package, cancellation, second package, second
revision and its review and rejection. Posts share only the ledger, which they do not
change, so one post is enough.

The knowledge run starts from two documents in force, with different visibilities and
periods. One proposal on one passage and one passage added by its review reach every
way a curated text can outlive or outgrow its evidence. Proposals and evaluations are not
mixed (`Apart`, a bound of the instance): an evaluation reads only the corpus, which versions
and activations move without them. The theorems below know neither this bound nor the
seeded start.

The draft run starts from one version of each profile on trial. `MaxWrites` counts the
writes to registry, post, plan and findings together, of which the seeded state has used
eight: two more let a page or a run go stale in every way and let an adoption follow. Two runs
are enough for two plans adopted after each other or two drafts of one text.

Three items make the least circle that no single edge shows; two sessions are the two
sides of a race. Three callbacks are one login finished twice and another beside it.
Four releases are the current one, one like it, one with other migrations and a broken one.
For these three, for the knowledge base, for drafts and for working copies the theorems below
lift all bounds.

Some cases lie beyond the bounds of every run and rest on the theorems alone: product facts in a
ledger users write from nothing, curations of curated texts, a second activation of one
index and an evidence index that was replaced, a plan written by hand between two adopted
ones, and heads of the registry inserted for the first time.

**Fairness.** Beat starts every poll every 30 seconds and each poll begins with the
reconciler, which takes the oldest stale rows first, so each stale row is reached:
weak fairness of `Reconcile` for each row. Clocks advance: weak fairness of
`LeaseExpires` and `Age` (the ingestion queue needs only `Age`, since every open job is
stale after 24 hours). Nothing is assumed of workers, people or the provider. The
assumption fails where the code says it does: with a worker disabled by
configuration its reconciler does not run either. The other modules describe commands of
people, of whom nothing can be expected: they have no liveness property.

## Proofs

Eight modules hold proofs, for every value of the constants that the `ASSUME`s allow: sets
of any size, bounds of any value. Each proves that a strengthening of the
safety properties is inductive (`Invariant`; `KnowledgeStands` and `EvaluationStands` for the
knowledge base and the evaluations beside it), then type correctness and the properties by
name. The
strengthenings, and why the properties are not inductive alone:

* `AIRunQueueProofs` (`AtMostOneExposed`, `AtMostOnceCall`, `SpendBounded`,
  `ArtifactIffReview`, `CancelHonoured`, `TriggersAccept`, and the refinement `KeepsLedger`). `attempts`
  separates dispatched runs from the rest (`RunsOK`); a worker past its dispatch is the only
  one that ever held that run's lease, and alone knows what the call did until its last
  transaction (`WorkersOK`); a run reported cancelled was never dispatched (`ReceiptsOK`). `BudgetKeeps` counts a run as in flight,
  unresolved or overrun exactly if it is exposed, so a dispatch finds no other exposed run.
  `KeepsLedger` is proved step by step above that invariant (`Implements`): `Tells` says what
  the ledger is told of a row in each state, most steps move the phase of one run
  (`OneMoves`), and an admission or a dispatch finds no stuck run because a stuck run is
  unresolved or overrun (`NoneStuck`). `TriggersAccept` needs besides that a reservation
  is never older than its run (`NoneReservedBefore`). `SpendBounded` is about sums over runs.
  `SpendOK` says of each run that what was charged is not above what was reserved unless the
  run is exposed, and then by at most one call's cost; at most one run is exposed; and an admission
  keeps the reservations within the limit of its tariff. That a sum over a part, or of smaller
  amounts, is not larger is proved by induction over sets (`SubsetSteps`), which follows from
  the least element of a set of numbers (`WFMin`): it speaks of sets, not of predicates, and
  so is within reach of the provers. The sums exist because runs are finitely many.
* `KnowledgeProofs`, ingestion queues (`ResultOfLatestAttempt`, `RunsOnlyAsAsked`, `CancelFinal`,
  `TriggersAccept`). Every action does one of seven things to each job (`NextSteps`).
  `RowsOK` says that the token in a row carries the number of its latest attempt, hence a
  worker whose token matches did that attempt; and that a queued job has a request no
  attempt has answered yet. Users and keys are assumed finite, so that retries can be
  counted.
  Knowledge base (`MemoryWithinPeriods`, `OwnerEvidenceStaysPrivate`,
  `CuratedOnceFromItsReview`, `EvidenceStoodAtActivation`): the properties speak of passages as
  they are now, the checks were made when a text was curated. `Grown` says what no step does
  to a row: remove it, move it, make it more public, change a version, unmake an index,
  touch a reviewed proposal. Every action is shown to be such a step, and `OriginStands`,
  which compares a curated text with its evidence, is kept by all of them; `RowsStand` says that
  what is in force was put in force by a person within its period, so what is cited was begun,
  and `NotesStand` carries that over to passages named earlier.
  Evaluations (`BaselineDescribesToday`): what a search finds is a function of the corpus
  (`RetrievedFromCorpus`), and a corpus is a set of rows that never change (`Snapshot`), so a
  report whose corpus equals today's describes today's search (`EvaluationsStand`). While a
  run holds the lock no step changes the corpus of its moment, since an index that is not
  ready is in force nowhere (`CorpusStays`). `EvaluationOnlyReads` is the refinement that carries
  the invariant of the knowledge base over to the two together.
* `ContentLifecycleProofs` (`ApprovalIsCurrent`, `PackageAsApproved`, the refinement
  `KeepsPublication`, and `VersionCounts`: every change of a post and every cancellation counts). `LInv` is a
  statement about each post (`RowOK`) above a ledger in order (`LedgerOK`), over every
  ledger the commands can write: a fact's product version and a revision's facts are in
  the ledger, packages name revisions and decisions their post has had, and live packages
  are equal to each other. The ledger only grows (`LedgerGrows`).
  `RInv` is the invariant of the ledger itself (`FamiliesAreLines`,
  `ConfirmedIsSupported`): a body names earlier records of the kinds it should (`Fits`), and
  the number of a record counts its family up to it (`Numbered`), so the latest number is
  the size of the family, and a replacement continues the line. The two invariants together
  give `ActivePackageStands`: by the kinds of the records, what facts and rules rest on in
  two steps is what a preflight looks at (`EvidenceRestsOn`). `AInv` adds the counts of
  reviews and decisions (`Balanced`) for `DecisionsAnswerReviews`. For the refinement `TInv`
  adds that the only approval of the present revision is the last decision and the one the
  row names (`TellsOK`), so that what publication is told can be read off the row
  (`RowTells`); then every command changes one entry as publication says, or none
  (`EntryMoves`).
* `WorkingCopiesProofs` (`RevisionsBuildOnLast`, `CopiesBuildOnLast`). What a tab or an
  editor knows was true at the version it knows: `Dated` for posts, `Known` for the copy
  within one life of its row.
* `DraftAdoptionProofs` (`ActsUnderItsSelection`, `ActsOnWhatWasSeen`,
  `AdoptedAfterItsSource`, `GapsAreInherited`, `GuardsAccept`, and `LastDecisionHolds` of
  the registry). Heads say what the last decision says, so whoever is bound to the selection
  in force is bound to the last decision. A planner run knows all noted gaps as long as the
  plan is the one it was asked about (`RunOK`). Adopted drafts are there (`AdoptionOK`), so
  the next target is new. A page is exact at the version it was built from (`PageOK`), and
  versions grow with every change (`Grows`), so the comparison of versions compares
  contents.
* `WorkItemsProofs` (`NoCycle`, `DoneRestsOnDone`, `OneItemPerRequest`). Locks are exclusive
  (`Exclusive`), so what a transaction has read stays true until it writes (`TxnOK`). The
  walk returns the least closed set, so a new dependency whose target does not reach its
  item closes no circle. There are never more dependencies than the limit (`EdgesOK`), so the
  walk sees all of them.
* `SessionsProofs` (`RedeemedOnce`, `OutIsOut`). A flow has one callback at work
  (`OneCallback`) and was not exchanged before it (`NotAsked`); a session is revoked or was
  made since the last sign-out (`SessionsFresh`), and what a request was told on its arrival
  lies in the past (`RequestsPast`).
* `DeploymentProofs` (`RecordedCanRun`, `BackupIsOneMoment`, `ServiceSurvives`). Which
  release is where before each step of an operation (`OpOK`, and `ServesOK` as long as nothing
  failed or escaped that the operation cannot make good), and that the
  data do not move between the stop and the end of a backup (`BackupOK`).

The `ASSUME`s say that identities are distinct from `None`, limits are natural numbers,
tariffs reserve natural amounts, the kinds of records users create are kinds there are,
profiles are among the three the code has, a period begins before it ends, and items, runs,
tariffs and amounts are finitely many.

Only model-checked: the two liveness properties, `EveryRunEnds` and `EveryJobSettles`, which
are beyond this prover; and the refutation of `NoLastWriteWins`, which is a counterexample.

## What the model shows that is easy to overlook

`copies_overwrite` refutes one sentence of the documentation.
`docs/phase-6-implementation.md:58-59` promises that concurrent edits end in a conflict
and not in last-write-wins. For working copies this holds as long as the row lives
(`CopiesBuildOnLast`). But saving a revision deletes the row (`content_revision.py:44-51`),
and so does expiry (`content.py:205-208`), and the next row counts from 1 again. A second
tab that has fetched version 1 of the deleted row then overwrites version 1 of the new
one. It costs the text of one working copy; revisions are never lost this way
(`RevisionsBuildOnLast`).

`ServiceSurvives` needs four exceptions, and `docs/deployment.md:168`, which says that after a
failure the previous version comes back, makes none of them:

* *The undo fails itself.* If docker refuses the new release's compose file, the services of
  the old one are stopped already when the start fails, and the handler's first command, a
  `stop` with that same file (`scripts/server.py:410`), fails too, so that the restart of the
  old release is never reached. Nothing else has to go wrong for this.
* *The error is not the one the handler catches.* It names `OperationError` (line 408);
  reading the configuration before every compose command, and parsing what docker prints of
  containers and network, also raise `OSError`, `ValueError` and `KeyError`, which only `main`
  catches (line 1031). The operation then ends with the writers stopped, or with the candidate
  running and the old release in `current.json`.
* *A restart fails*: of the old release in the handler or in the `finally` of a backup, or of
  the active release that is deployed again. Nothing tries it a second time.
* *`current.json` cannot be written* after the new release was started.

In all of them `current.json` names a release that can run (`RecordedCanRun`), and deploying it
again repairs the server. Nor does the property speak of killed operations, which undo nothing.

Other consequences are intended and worth knowing:

* One call whose cost stays unknown stops AI work in the workspace for good
  (`docs/ai-costs.md` says so); `SpendLedger` calls it stuck.
* A reservation is never released, even if the run fails before it is called.
* The worker does not read the row again between reserving and calling: the provider
  may be called after a cancel was requested, or even after the reconciler declared the
  run unknown. The answer is then discarded, and its cost stays unaccounted.
* A release whose comparison of migrations failed has a directory and no manifest, and
  can never be staged again under its name (`StageNew`).

## Not modelled

* *Parsers and scanner*: pure functions of bytes, run in a subprocess; their outcomes are
  the nondeterministic results of an ingestion attempt. *Model gateway*: likewise.
* *Validation of drafts and reports against schemas and passages*: pure functions; what is
  compared later (the stored input, the gaps) is in `DraftAdoption`.
* *The rounding of cost estimates*: amounts are whole in `AIRunQueue`. That the estimate in
  Python and the bound in SQL round alike is arithmetic on one row and remains a hazard
  no property covers.
* *File store*: write-once blobs; a crash between write and commit leaves an orphan nobody
  reads.
* *Docker commands that outlive a killed operator process*: the lock of the operation goes with
  its process, so a `compose` still at work would overlap the next operation. In `Deployment` a
  step has ended, wholly or in part, before the next one begins.
* *The order of the two advisory locks*: every command that needs both takes the knowledge
  lock first, in its first statement, so they cannot wait for each other; commands are one
  action here, which assumes just that.
* *Diagnostic jobs, comments, catalog entries, assignments and receipts*: no other command
  reads them; a repeated command is answered from its receipt and changes nothing.
* *HTTP and MCP interfaces, connection handling, configuration, most of the web client*:
  they translate requests and keep no state of their own.
* *Bootstrapping of a server and the restore into the live database*: `Deployment` models
  the drill, which works on copies.

A next step would be a refinement for drafts: that an adoption is one step of the post it
writes to, so that `DraftAdoption` is shown to use the post as `ContentLifecycle` keeps it.
