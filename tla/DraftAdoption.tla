---------------------------- MODULE DraftAdoption ----------------------------
(***************************************************************************)
(* From a request for an AI draft to a person's use of it: a run is bound  *)
(* to the selected profile version and to what it was asked about, both    *)
(* are looked at again before the call, after the call and when a person   *)
(* uses the result (services/ai_queue.py current_input, profiles.py        *)
(* assert_registered_run).  An owner adopts a copy draft as the next       *)
(* revision of the post or a plan draft as the next version of the plan    *)
(* (copy_adoption.py, plan_adoption.py), or decides on the findings of an  *)
(* editorial report (editor_triage.py), each time on a page he opened      *)
(* earlier, perhaps in several tabs.                                       *)
(*                                                                         *)
(* One post, one plan and one owner.  Leases, costs, cancels and crashes   *)
(* of runs are AIRunQueue: here a run that may no longer go on is closed.  *)
(* What a snapshot holds besides the text asked about (brief, facts,       *)
(* policies, campaign, preflight findings) is one value, evidence.         *)
(* Every command takes the knowledge lock and then the content lock, and   *)
(* commands on content take the latter, so each is one action.             *)
(***************************************************************************)
EXTENDS ProfileRegistry

LOCAL INSTANCE FiniteSetsExt

CONSTANTS
  Runs,          \* ids of runs
  Tabs,          \* pages the owner has open
  Evidence,      \* what a snapshot may hold besides the text
  Gaps,          \* knowledge gaps a plan or a draft may state
  Findings,      \* findings of an editorial report
  None,
  MaxWrites      \* bound: writes to registry, post, plan and findings together

ASSUME ProfilesAssumption == Profiles \subseteq {"editor", "copywriter", "content_planner"}
ASSUME WritesAssumption == MaxWrites \in Nat
ASSUME IdsAssumption == None \notin Runs /\ \A gaps \in SUBSET Gaps : gaps # None

VARIABLES
  evidence,
  post,          \* revisions it has, the last one current; version of its row; state
  plan,          \* content_records of the plan's family; notes adopted with each (plan_notes)
  run,           \* ai_runs with their ai_inputs and ai_artifacts
  adoption,      \* copy_adoptions and plan_adoptions
  triage,        \* editorial_decisions of each run
  page           \* what each tab shows

vars == <<contract, version, decision, head, evidence, post, plan, run, adoption, triage, page>>

contentVars == <<evidence, post, plan>>

Room ==
  Changes + post.version + Len(plan) + MapThenSumSet(LAMBDA r : Len(triage[r]), Runs) < MaxWrites

-------------------------------------------------------------------------------
(* Rows *)

\* A post is a draft or anywhere further along.
PostStates == {"draft", "in_review"}

PostRow(revisions, number, state) ==
  [revisions |-> revisions, version |-> number, state |-> state]

\* What a run is asked about: the revision of the post or the plan, and everything around
\* it.  snapshot of editor.py, for copy drafts too, and of planner.py.
PostSnapshot == [source |-> post.revisions, evidence |-> evidence]
PlanSnapshot == [source |-> Len(plan), evidence |-> evidence]
Snapshot(profile) == IF profile = "content_planner" THEN PlanSnapshot ELSE PostSnapshot

Input(snapshot, gaps) ==
  [source |-> snapshot.source, evidence |-> snapshot.evidence, gaps |-> gaps]

RunRow(profile, state, v, selection, input, gaps) ==
  [profile |-> profile, state |-> state, version |-> v, selection |-> selection,
   input |-> input, gaps |-> gaps]

RunRows == [profile : Profiles, state : {"queued", "running", "needs_review", "closed"},
            version : Nat, selection : Nat,
            input : [source : Nat, evidence : Evidence, gaps : SUBSET Gaps], gaps : SUBSET Gaps]

ASSUME NoneAssumption == None \notin RunRows

Moved(row, state) ==
  RunRow(row.profile, state, row.version, row.selection, row.input, row.gaps)

Started == {r \in Runs : run[r] # None}

\* notes_view: the notes of the nearest version of the plan that has any.
Noted == {n \in DOMAIN plan : plan[n].notes # None}
InheritedGaps ==
  UNION {plan[n].notes : n \in {m \in Noted : \A other \in Noted : other <= m}}

-------------------------------------------------------------------------------
(* A run *)

\* Mutant: an older text is good enough.
CurrentEvidence(r) == run[r].input.evidence = evidence

\* current_input: a snapshot taken now would be the stored one.
CurrentInput(r) == run[r].input = Input(Snapshot(run[r].profile), run[r].input.gaps)

MayGoOn(r) ==
  CurrentInput(r) /\ Selected(run[r].profile, run[r].version, run[r].selection)

\* Mutant: gaps noted with earlier plans may be left out.
ForgetGaps(gaps) == TRUE

RequireInheritedGaps(gaps) == InheritedGaps \subseteq gaps

\* The owner names the version and its selection; a request that is refused is kept as a
\* blocked run nobody can use.
StartRun(r, p, gaps) ==
  /\ run[r] = None
  /\ Selected(p, head[p].testing, head[p].selection)
  /\ IF p = "content_planner" THEN RequireInheritedGaps(gaps) ELSE gaps = {}
  /\ run' = [run EXCEPT ![r] = RunRow(p, "queued", head[p].testing, head[p].selection,
                                      Input(Snapshot(p), gaps), {})]
  /\ UNCHANGED <<registryVars, contentVars, adoption, triage, page>>

\* First transaction of the worker.
Dispatch(r) ==
  /\ run[r].state = "queued"
  /\ run' = [run EXCEPT ![r] = Moved(@, IF MayGoOn(r) THEN "running" ELSE "closed")]
  /\ UNCHANGED <<registryVars, contentVars, adoption, triage, page>>

\* validate_draft of plans: the model may add gaps and leaves none out.
ValidDraft(r, gaps) == run[r].input.gaps \subseteq gaps

\* Last transaction of the worker, with what the provider answered.
Finish(r, gaps) ==
  /\ run[r].state = "running"
  /\ run[r].profile # "content_planner" => gaps = {}
  /\ run' = [run EXCEPT ![r] =
       IF MayGoOn(r) /\ ValidDraft(r, gaps)
       THEN RunRow(@.profile, "needs_review", @.version, @.selection, @.input, gaps)
       ELSE Moved(@, "closed")]
  /\ UNCHANGED <<registryVars, contentVars, adoption, triage, page>>

-------------------------------------------------------------------------------
(* What the owner sees *)

\* current_preview and current_report.
Offered(r) ==
  /\ run[r].state = "needs_review"
  /\ \A a \in adoption : a.run # r
  /\ MayGoOn(r)

\* triage_view: the status of each finding, by its last decision.
Status(r, f) ==
  LET on == {n \in DOMAIN triage[r] : triage[r][n].finding = f}
  IN IF on = {} THEN "open"
     ELSE triage[r][CHOOSE n \in on : \A m \in on : m <= n].status

\* The version the page was built from.
Seen(r) ==
  CASE run[r].profile = "copywriter" -> post.version
    [] run[r].profile = "content_planner" -> Len(plan)
    [] run[r].profile = "editor" -> Len(triage[r])

\* What a tab shows: perhaps no run.
NoPage == [run |-> None, seen |-> 0, shown |-> None]

Page(row, versions, findings) == [post |-> row, plan |-> versions, findings |-> findings]

\* What the page of that run is about.
Shown(r) ==
  CASE run[r].profile = "copywriter" -> Page(post, <<>>, <<>>)
    [] run[r].profile = "content_planner" -> Page(PostRow(0, 0, "draft"), plan, <<>>)
    [] run[r].profile = "editor" ->
         Page(PostRow(post.revisions, 0, "draft"), <<>>, [f \in Findings |-> Status(r, f)])

OpenPage(t, r) ==
  /\ Offered(r)
  /\ page' = [page EXCEPT ![t] = [run |-> r, seen |-> Seen(r), shown |-> Shown(r)]]
  /\ UNCHANGED <<registryVars, contentVars, run, adoption, triage>>

\* Mutant: the command does not name the version its owner saw.
StillOffered(t) == page[t].run # None /\ Offered(page[t].run)

\* The command names what the page showed, and the same page would be shown now.
AsSeen(t) ==
  /\ page[t].run # None
  /\ Offered(page[t].run)
  /\ page[t].seen = Seen(page[t].run)

Close(t) == page' = [page EXCEPT ![t] = NoPage]

-------------------------------------------------------------------------------
(* What the owner does *)

\* save_revision
NextRevision == PostRow(post.revisions + 1, post.version + 1, "draft")

\* A copy adoption also names the version of the post it made.
Adoption(r, target, made) ==
  [run |-> r, source |-> run[r].input.source, target |-> target, version |-> made]

AdoptCopy(t) ==
  /\ AsSeen(t)
  /\ run[page[t].run].profile = "copywriter"
  /\ Room
  /\ post' = NextRevision
  /\ adoption' = adoption \cup {Adoption(page[t].run, post.revisions + 1, post.version + 1)}
  /\ Close(t)
  /\ UNCHANGED <<registryVars, evidence, plan, run, triage>>

\* The new version of the plan, its notes and the receipt are written together.
AdoptPlan(t) ==
  /\ AsSeen(t)
  /\ run[page[t].run].profile = "content_planner"
  /\ Room
  /\ plan' = Append(plan, [notes |-> run[page[t].run].gaps])
  /\ adoption' = adoption \cup {Adoption(page[t].run, Len(plan) + 1, 0)}
  /\ Close(t)
  /\ UNCHANGED <<registryVars, evidence, post, run, triage>>

DecideFinding(t, f, status) ==
  /\ AsSeen(t)
  /\ run[page[t].run].profile = "editor"
  /\ Room
  /\ status # Status(page[t].run, f)
  /\ triage' = [triage EXCEPT ![page[t].run] = Append(@, [finding |-> f, status |-> status])]
  /\ Close(t)
  /\ UNCHANGED <<registryVars, contentVars, run, adoption>>

-------------------------------------------------------------------------------
(* What everybody else does meanwhile: ContentLifecycle and ContentRecords in full *)

SaveRevision ==
  /\ Room
  /\ post' = NextRevision
  /\ UNCHANGED <<registryVars, evidence, plan, run, adoption, triage, page>>

\* Mutant: a review does not count as a change of the post.
ActUncounted(state) ==
  /\ post' = PostRow(post.revisions, post.version, state)
  /\ UNCHANGED <<registryVars, evidence, plan, run, adoption, triage, page>>

\* Reviews, decisions and packages move the version and leave the revision.
ActOnPost(state) ==
  /\ Room
  /\ post' = PostRow(post.revisions, post.version + 1, state)
  /\ UNCHANGED <<registryVars, evidence, plan, run, adoption, triage, page>>

ReplacePlan ==
  /\ Room
  /\ plan' = Append(plan, [notes |-> None])
  /\ UNCHANGED <<registryVars, evidence, post, run, adoption, triage, page>>

EvidenceMoves(e) ==
  /\ Room /\ e # evidence
  /\ evidence' = e
  /\ UNCHANGED <<registryVars, post, plan, run, adoption, triage, page>>

-------------------------------------------------------------------------------
Init ==
  /\ RegistryInit
  /\ evidence \in Evidence
  /\ post = PostRow(1, 1, "draft")
  /\ plan = <<[notes |-> None]>>
  /\ run = [r \in Runs |-> None]
  /\ adoption = {}
  /\ triage = [r \in Runs |-> <<>>]
  /\ page = [t \in Tabs |-> NoPage]

Next ==
  \/ Room /\ RegistryNext /\ UNCHANGED <<contentVars, run, adoption, triage, page>>
  \/ \E r \in Runs, p \in Profiles, gaps \in SUBSET Gaps : StartRun(r, p, gaps)
  \/ \E r \in Started :
       \/ Dispatch(r)
       \/ \E gaps \in SUBSET Gaps : Finish(r, gaps)
       \/ \E t \in Tabs : OpenPage(t, r)
  \/ \E t \in Tabs :
       \/ AdoptCopy(t)
       \/ AdoptPlan(t)
       \/ \E f \in Findings, status \in {"open", "needs_changes", "dismissed"} :
            DecideFinding(t, f, status)
  \/ SaveRevision
  \/ \E state \in PostStates \ {post.state} : ActOnPost(state)
  \/ ReplacePlan
  \/ \E e \in Evidence : EvidenceMoves(e)

Spec == Init /\ [][Next]_vars

-------------------------------------------------------------------------------
(* The triggers, given the rows as they are once they run *)

\* RUN_GUARD of 0011 and the run guards of 0012, 0014 and 0016.
RunGuard(row) ==
  /\ row.state \in {"queued", "running", "needs_review"} =>
       <<row.version, row.selection>> = <<head[row.profile].testing, head[row.profile].selection>>
  /\ row.state \in {"running", "needs_review"} => row.input.source = Snapshot(row.profile).source

\* smm_copy_adoption_guard, in the transaction that saved the revision.
CopyGuard(a) ==
  /\ run[a.run].state = "needs_review"
  /\ run[a.run].selection = head["copywriter"].selection
  /\ a.source = run[a.run].input.source
  /\ a.target = a.source + 1
  /\ post' = PostRow(a.target, a.version, "draft")

\* smm_plan_adoption_guard and smm_plan_notes_receipt_guard.
PlanGuard(a) ==
  /\ run[a.run].state = "needs_review"
  /\ run[a.run].selection = head["content_planner"].selection
  /\ a.source = run[a.run].input.source
  /\ a.target = a.source + 1
  /\ a.target = Len(plan')
  /\ plan'[a.target].notes = run[a.run].gaps

\* smm_editorial_decision_guard: the report is on the current revision.
TriageGuard(r) ==
  /\ run[r].state = "needs_review"
  /\ run[r].input.source = post.revisions
  /\ Len(triage'[r]) = Len(triage[r]) + 1

-------------------------------------------------------------------------------
(* Properties *)

TypeOK ==
  /\ RegistryTypeOK
  /\ evidence \in Evidence
  /\ post \in [revisions : Nat, version : Nat, state : PostStates]
  /\ plan \in Seq([notes : {None} \cup SUBSET Gaps])
  /\ run \in [Runs -> {None} \cup RunRows]
  /\ adoption \subseteq [run : Runs, source : Nat, target : Nat, version : Nat]
  /\ triage \in [Runs -> Seq([finding : Findings,
                              status : {"open", "needs_changes", "dismissed"}])]
  /\ page = [t \in Tabs |-> page[t]]
  /\ \A t \in Tabs : page[t].run \in Runs \cup {None} /\ page[t].seen \in Nat

Used(r) == triage'[r] # triage[r] \/ \E a \in adoption' \ adoption : a.run = r

Advanced(r) == run[r] # None /\ run'[r] # run[r] /\ run'[r].state # "closed"

\* A run is called, reviewed or used only while no decision at all was taken on its profile
\* since it was requested: a version withdrawn and selected again is another selection, and
\* the code must be the one the version was drafted with (assert_registered_run).
ActsUnderItsSelection ==
  [][\A r \in Runs : Advanced(r) \/ Used(r) =>
       /\ run[r].selection = Len(decision[run[r].profile])
       /\ version[run[r].profile][run[r].version].contract = contract]_vars

\* A person who adopts a draft or decides on a finding has seen the post, the plan or the
\* statuses exactly as they are: also a review or an approval of the post, which the
\* adoption undoes, and a decision made in another tab (AdoptCopyDraft.expected_post_version,
\* DecideEditorialFinding.expected_version).
ActsOnWhatWasSeen ==
  [][\A t \in Tabs : page[t].run # None /\ page'[t].run = None =>
       page[t].shown = Shown(page[t].run)]_vars

\* A draft becomes the text after the one it was written about, with nothing in between,
\* and it does so once (v.number = src.number + 1, UNIQUE(workspace_id, run_id)).
AdoptedAfterItsSource ==
  \A a \in adoption :
    /\ a.target = run[a.run].input.source + 1
    /\ \A other \in adoption : other # a =>
         /\ other.run # a.run
         /\ run[other.run].profile = run[a.run].profile => other.target # a.target

\* A gap noted with an adopted plan is noted with every later adopted plan of the family,
\* whatever is planned by hand in between and whatever the model answers
\* (require_inherited_gaps, validate_draft).
GapsAreInherited ==
  \A n, m \in Noted : n <= m => plan[n].notes \subseteq plan[m].notes

\* The triggers accept whatever the services write.
GuardsAccept ==
  [][/\ \A p \in Profiles : head'[p] # head[p] =>
          HeadGuard(head[p], head'[p], version'[p], decision'[p])
     /\ \A r \in Runs :
          /\ run'[r] # run[r] => RunGuard(run'[r])
          /\ triage'[r] # triage[r] => TriageGuard(r)
     /\ \A a \in adoption' \ adoption :
          IF run[a.run].profile = "copywriter" THEN CopyGuard(a) ELSE PlanGuard(a)]_vars
=============================================================================
