--------------------------- MODULE DraftAdoptionProofs ---------------------------
(* Proofs about DraftAdoption: for any number of runs, tabs, gaps, findings and writes. *)
EXTENDS DraftAdoption, TLAPS

-------------------------------------------------------------------------------
(* The inductive invariant *)

\* The last version of the plan with notes, unless none has any.
Last(n) == n \in Noted /\ \A m \in Noted : m <= n

NotesOK ==
  /\ Noted = {} \/ \E n \in Noted : Last(n)
  /\ GapsAreInherited

\* As long as the plan is what a run was asked about, the run knows the gaps noted with it.
RunOK(r) ==
  run[r] # None /\ run[r].profile = "content_planner" =>
    /\ run[r].input.source <= Len(plan)
    /\ run[r].input.source = Len(plan) => InheritedGaps \subseteq run[r].input.gaps
    /\ run[r].state = "needs_review" => run[r].input.gaps \subseteq run[r].gaps

Reviewable(r) == run[r] # None /\ run[r].state = "needs_review"

\* What was adopted is there.
AdoptionOK(a) ==
  /\ Reviewable(a.run)
  /\ \/ run[a.run].profile = "copywriter" /\ a.target <= post.revisions
     \/ run[a.run].profile = "content_planner" /\ a.target <= Len(plan)

\* A page shows what was there at the version it was built from.
PageOK(t) ==
  LET r == page[t].run IN
  r # None =>
    /\ Reviewable(r)
    /\ run[r].profile = "copywriter" =>
         /\ page[t].seen <= post.version
         /\ page[t].seen = post.version => page[t].shown = Page(post, <<>>, <<>>)
    /\ run[r].profile = "content_planner" =>
         /\ page[t].seen <= Len(plan)
         /\ page[t].seen = Len(plan) =>
              page[t].shown = Page(PostRow(0, 0, "draft"), plan, <<>>)
    /\ run[r].profile = "editor" =>
         /\ page[t].seen <= Len(triage[r])
         /\ page[t].seen = Len(triage[r]) =>
              page[t].shown = Page(PostRow(run[r].input.source, 0, "draft"), <<>>,
                                   [f \in Findings |-> Status(r, f)])

IInv ==
  /\ TypeOK /\ LastDecisionHolds /\ NotesOK /\ AdoptedAfterItsSource
  /\ \A r \in Runs : RunOK(r)
  /\ \A a \in adoption : AdoptionOK(a)
  /\ \A t \in Tabs : PageOK(t)

-------------------------------------------------------------------------------
(* The registry *)

\* A head as it is: what the trigger and the services rely on.
LEMMA HeadFacts ==
  ASSUME RegistryTypeOK, LastDecisionHolds, NEW p \in Profiles
  PROVE  /\ head[p] \in Heads
         /\ head[p].revision \in Nat /\ head[p].latest \in Nat
         /\ head[p].testing \in Nat /\ head[p].selection \in Nat
         /\ version[p] \in Seq(Versions) /\ decision[p] \in Seq(Decisions)
         /\ Len(version[p]) \in Nat /\ Len(decision[p]) \in Nat
         /\ HeadHolds(head[p], version[p], decision[p])
  BY DEF RegistryTypeOK, LastDecisionHolds, Heads

LEMMA HeadRowFacts ==
  ASSUME NEW a \in Nat, NEW b \in Nat, NEW c \in Nat, NEW d \in Nat
  PROVE  /\ HeadRow(a, b, c, d) \in Heads
         /\ HeadRow(a, b, c, d).revision = a /\ HeadRow(a, b, c, d).latest = b
         /\ HeadRow(a, b, c, d).testing = c /\ HeadRow(a, b, c, d).selection = d
  BY DEF HeadRow, Heads

LEMMA DraftHolds ==
  ASSUME NEW row \in Heads, NEW versions \in Seq(Versions), NEW decisions \in Seq(Decisions),
         HeadHolds(row, versions, decisions), NEW v \in Versions
  PROVE  /\ Drafted(row) \in Heads
         /\ HeadHolds(Drafted(row), Append(versions, v), decisions)
  <1>1. /\ row.revision \in Nat /\ row.latest \in Nat /\ row.testing \in Nat
        /\ row.selection \in Nat /\ Len(versions) \in Nat /\ Len(decisions) \in Nat
    BY DEF Heads
  <1>2. Len(Append(versions, v)) = Len(versions) + 1
    OBVIOUS
  <1>3. /\ Drafted(row) \in Heads
        /\ Drafted(row).revision = row.revision + 1 /\ Drafted(row).latest = row.latest + 1
        /\ Drafted(row).testing = row.testing /\ Drafted(row).selection = row.selection
    BY <1>1 DEF Drafted, HeadRow, Heads
  <1> QED
    BY <1>1, <1>2, <1>3 DEF HeadHolds

LEMMA SelectHolds ==
  ASSUME NEW row \in Heads, NEW versions \in Seq(Versions), NEW decisions \in Seq(Decisions),
         HeadHolds(row, versions, decisions), NEW v \in 1 .. Len(versions), NEW d \in Decisions,
         d.version = v, d.action = "select"
  PROVE  LET new == HeadRow(row.revision + 1, row.latest, v, Len(decisions) + 1)
         IN  new \in Heads /\ HeadHolds(new, versions, Append(decisions, d))
  <1> DEFINE new == HeadRow(row.revision + 1, row.latest, v, Len(decisions) + 1)
  <1>1. /\ row.revision \in Nat /\ row.latest \in Nat
        /\ Len(versions) \in Nat /\ Len(decisions) \in Nat
    BY DEF Heads
  <1>2. /\ Len(Append(decisions, d)) = Len(decisions) + 1
        /\ Append(decisions, d)[Len(decisions) + 1] = d
    OBVIOUS
  <1>3. /\ new \in Heads
        /\ new.revision = row.revision + 1 /\ new.latest = row.latest
        /\ new.testing = v /\ new.selection = Len(decisions) + 1
    BY <1>1 DEF HeadRow, Heads
  <1> HIDE DEF new
  <1>4. HeadHolds(new, versions, Append(decisions, d))
    BY <1>1, <1>2, <1>3 DEF HeadHolds
  <1> QED
    BY <1>3, <1>4 DEF new

LEMMA DisableHolds ==
  ASSUME NEW row \in Heads, NEW versions \in Seq(Versions), NEW decisions \in Seq(Decisions),
         HeadHolds(row, versions, decisions), NEW d \in Decisions
  PROVE  LET new == HeadRow(row.revision + 1, row.latest, 0, 0)
         IN  new \in Heads /\ HeadHolds(new, versions, Append(decisions, d))
  <1> DEFINE new == HeadRow(row.revision + 1, row.latest, 0, 0)
  <1>1. /\ row.revision \in Nat /\ row.latest \in Nat
        /\ Len(versions) \in Nat /\ Len(decisions) \in Nat
    BY DEF Heads
  <1>2. Len(Append(decisions, d)) = Len(decisions) + 1
    OBVIOUS
  <1>3. /\ new \in Heads
        /\ new.revision = row.revision + 1 /\ new.latest = row.latest
        /\ new.testing = 0 /\ new.selection = 0
    BY <1>1 DEF HeadRow, Heads
  <1> HIDE DEF new
  <1>4. HeadHolds(new, versions, Append(decisions, d))
    BY <1>1, <1>2, <1>3 DEF HeadHolds
  <1> QED
    BY <1>3, <1>4 DEF new

\* A command on one profile changes the rows of that profile alone.
LEMMA OneProfileKeeps ==
  ASSUME RegistryTypeOK, LastDecisionHolds, NEW p \in Profiles, contract' = contract,
         NEW row \in Heads, NEW versions \in Seq(Versions), NEW decisions \in Seq(Decisions),
         HeadHolds(row, versions, decisions),
         head' = [head EXCEPT ![p] = row],
         version' = [version EXCEPT ![p] = versions],
         decision' = [decision EXCEPT ![p] = decisions]
  PROVE  RegistryTypeOK' /\ LastDecisionHolds'
  <1>1. RegistryTypeOK'
    BY DEF RegistryTypeOK
  <1>2. ASSUME NEW q \in Profiles PROVE HeadHolds(head'[q], version'[q], decision'[q])
    <2>1. CASE q = p
      <3>1. head'[q] = row /\ version'[q] = versions /\ decision'[q] = decisions
        BY <2>1 DEF RegistryTypeOK
      <3> QED
        BY <3>1
    <2>2. CASE q # p
      <3>1. head'[q] = head[q] /\ version'[q] = version[q] /\ decision'[q] = decision[q]
        BY <2>2 DEF RegistryTypeOK
      <3> QED
        BY <3>1 DEF LastDecisionHolds
    <2> QED
      BY <2>1, <2>2
  <1> QED
    BY <1>1, <1>2 DEF LastDecisionHolds

LEMMA RegistryKeeps ==
  ASSUME RegistryTypeOK, LastDecisionHolds, RegistryNext
  PROVE  RegistryTypeOK' /\ LastDecisionHolds'
  <1>1. ASSUME NEW p \in Profiles, DraftProfile(p)
        PROVE  RegistryTypeOK' /\ LastDecisionHolds'
    <2> DEFINE v == [contract |-> contract]
    <2>1. v \in Versions
      BY DEF RegistryTypeOK, Versions
    <2>2. /\ contract' = contract
          /\ head' = [head EXCEPT ![p] = Drafted(head[p])]
          /\ version' = [version EXCEPT ![p] = Append(version[p], v)]
          /\ decision' = [decision EXCEPT ![p] = decision[p]]
      BY <1>1 DEF DraftProfile, RegistryTypeOK
    <2> HIDE DEF v
    <2>3. /\ Drafted(head[p]) \in Heads
          /\ HeadHolds(Drafted(head[p]), Append(version[p], v), decision[p])
      BY <2>1, HeadFacts, DraftHolds
    <2>4. Append(version[p], v) \in Seq(Versions) /\ decision[p] \in Seq(Decisions)
      BY <2>1, HeadFacts
    <2> QED
      BY <2>2, <2>3, <2>4, OneProfileKeeps
  <1>2. ASSUME NEW p \in Profiles, NEW v \in DOMAIN version[p], SelectTesting(p, v)
        PROVE  RegistryTypeOK' /\ LastDecisionHolds'
    <2> DEFINE d == [version |-> v, action |-> "select", revision |-> head[p].revision + 1]
               new == HeadRow(head[p].revision + 1, head[p].latest, v, Len(decision[p]) + 1)
    <2>1. head[p].revision \in Nat /\ version[p] \in Seq(Versions) /\ decision[p] \in Seq(Decisions)
      BY HeadFacts
    <2>2. v \in 1 .. Len(version[p]) /\ v \in Nat \ {0}
      BY <2>1
    <2>3. d \in Decisions /\ d.version = v /\ d.action = "select"
      BY <2>1, <2>2 DEF Decisions
    <2>4. /\ contract' = contract
          /\ head' = [head EXCEPT ![p] = new]
          /\ version' = [version EXCEPT ![p] = version[p]]
          /\ decision' = [decision EXCEPT ![p] = Append(decision[p], d)]
      BY <1>2 DEF SelectTesting, Decide, RegistryTypeOK
    <2> HIDE DEF d
    <2>5. new \in Heads /\ HeadHolds(new, version[p], Append(decision[p], d))
      BY <2>2, <2>3, HeadFacts, SelectHolds
    <2>6. Append(decision[p], d) \in Seq(Decisions)
      BY <2>1, <2>3
    <2> HIDE DEF new
    <2> QED
      BY <2>1, <2>4, <2>5, <2>6, OneProfileKeeps
  <1>3. ASSUME NEW p \in Profiles, DisableProfile(p)
        PROVE  RegistryTypeOK' /\ LastDecisionHolds'
    <2> DEFINE d == [version |-> head[p].testing, action |-> "disable",
                     revision |-> head[p].revision + 1]
               new == HeadRow(head[p].revision + 1, head[p].latest, 0, 0)
    <2>1. /\ head[p].revision \in Nat /\ head[p].testing \in Nat
          /\ version[p] \in Seq(Versions) /\ decision[p] \in Seq(Decisions)
      BY HeadFacts
    <2>2. d \in Decisions
      BY <1>3, <2>1 DEF DisableProfile, Decisions
    <2>3. /\ contract' = contract
          /\ head' = [head EXCEPT ![p] = new]
          /\ version' = [version EXCEPT ![p] = version[p]]
          /\ decision' = [decision EXCEPT ![p] = Append(decision[p], d)]
      BY <1>3 DEF DisableProfile, Decide, RegistryTypeOK
    <2> HIDE DEF d
    <2>4. new \in Heads /\ HeadHolds(new, version[p], Append(decision[p], d))
      BY <2>2, HeadFacts, DisableHolds
    <2>5. Append(decision[p], d) \in Seq(Decisions)
      BY <2>1, <2>2
    <2> HIDE DEF new
    <2> QED
      BY <2>1, <2>3, <2>4, <2>5, OneProfileKeeps
  <1>4. ASSUME NEW c \in Contracts, Deploy(c)
        PROVE  RegistryTypeOK' /\ LastDecisionHolds'
    BY <1>4 DEF Deploy, RegistryTypeOK, LastDecisionHolds
  <1> QED
    BY <1>1, <1>2, <1>3, <1>4 DEF RegistryNext

\* Who is bound to the selection in force is bound to the last decision.
LEMMA SelectedIsLast ==
  ASSUME RegistryTypeOK, LastDecisionHolds, NEW p \in Profiles, NEW v, NEW selection,
         Selected(p, v, selection)
  PROVE  /\ selection = Len(decision[p])
         /\ v = head[p].testing /\ selection = head[p].selection
         /\ version[p][v].contract = contract
  BY HeadFacts DEF Selected, Compatible, HeadHolds

-------------------------------------------------------------------------------
(* The plan and its notes *)

LEMMA PlanFacts ==
  ASSUME TypeOK
  PROVE  /\ plan \in Seq([notes : {None} \cup SUBSET Gaps]) /\ Len(plan) \in Nat
         /\ \A n \in DOMAIN plan : n \in 1 .. Len(plan) /\ plan[n].notes \in {None} \cup SUBSET Gaps
         /\ Noted \subseteq 1 .. Len(plan)
  <1>1. plan \in Seq([notes : {None} \cup SUBSET Gaps])
    BY DEF TypeOK
  <1>2. \A n \in DOMAIN plan : n \in 1 .. Len(plan) /\ plan[n] \in [notes : {None} \cup SUBSET Gaps]
    <2> DEFINE Versioned == [notes : {None} \cup SUBSET Gaps]
    <2>1. plan \in Seq(Versioned)
      BY <1>1
    <2> HIDE DEF Versioned
    <2>2. \A n \in DOMAIN plan : n \in 1 .. Len(plan) /\ plan[n] \in Versioned
      BY <2>1
    <2> QED
      BY <2>2 DEF Versioned
  <1>3. \A row \in [notes : {None} \cup SUBSET Gaps] : row.notes \in {None} \cup SUBSET Gaps
    OBVIOUS
  <1> QED
    BY <1>1, <1>2, <1>3 DEF Noted

LEMMA LastNotes ==
  ASSUME TypeOK, NEW n, Last(n)
  PROVE  InheritedGaps = plan[n].notes
  <1>1. \A m \in Noted : m \in Nat
    BY PlanFacts
  <1>2. {m \in Noted : \A other \in Noted : other <= m} = {n}
    BY <1>1 DEF Last
  <1>3. {plan[k].notes : k \in {m \in Noted : \A other \in Noted : other <= m}} = {plan[n].notes}
    BY <1>2
  <1>4. UNION {plan[n].notes} = plan[n].notes
    OBVIOUS
  <1> QED
    BY <1>3, <1>4 DEF InheritedGaps

LEMMA NoNotes ==
  ASSUME Noted = {}
  PROVE  InheritedGaps = {}
  BY DEF InheritedGaps

\* Without notes the last version with notes stays, with them the new one is it.
LEMMA PlanGrows ==
  ASSUME TypeOK, NotesOK, NEW notes \in {None} \cup SUBSET Gaps,
         plan' = Append(plan, [notes |-> notes]),
         notes # None => InheritedGaps \subseteq notes
  PROVE  NotesOK' /\ Len(plan') = Len(plan) + 1 /\ plan' \in Seq([notes : {None} \cup SUBSET Gaps])
  <1>1. plan' \in Seq([notes : {None} \cup SUBSET Gaps])
    <2>1. [notes |-> notes] \in [notes : {None} \cup SUBSET Gaps]
      OBVIOUS
    <2> QED
      BY <2>1, PlanFacts
  <1>2. Len(plan') = Len(plan) + 1 /\ DOMAIN plan' = 1 .. Len(plan) + 1
    BY PlanFacts
  <1>3. \A n \in 1 .. Len(plan) : plan'[n] = plan[n]
    BY PlanFacts
  <1>4. plan'[Len(plan) + 1].notes = notes
    BY PlanFacts
  <1>5. DOMAIN plan = 1 .. Len(plan) /\ Len(plan) \in Nat
    BY PlanFacts
  <1>6. CASE notes = None
    <2>1. Noted' = Noted
      BY <1>2, <1>3, <1>4, <1>5, <1>6 DEF Noted
    <2>2. \A n \in Noted : plan'[n] = plan[n]
      BY <1>3, PlanFacts
    <2>3. GapsAreInherited'
      BY <2>1, <2>2 DEF NotesOK, GapsAreInherited
    <2>4. (Noted = {} \/ \E n \in Noted : Last(n))'
      BY <2>1 DEF NotesOK, Last
    <2> QED
      BY <1>1, <1>2, <2>3, <2>4 DEF NotesOK
  <1>7. CASE notes # None
    <2>1. Noted' = Noted \cup {Len(plan) + 1}
      BY <1>2, <1>3, <1>4, <1>5, <1>7 DEF Noted
    <2>2. \A n \in Noted : plan'[n] = plan[n] /\ n \in Nat /\ n <= Len(plan)
      BY <1>3, PlanFacts
    <2>3. \A n \in Noted : plan[n].notes \subseteq InheritedGaps
      <3>1. CASE Noted = {}
        BY <3>1
      <3>2. ASSUME NEW last \in Noted, Last(last)
            PROVE  \A n \in Noted : plan[n].notes \subseteq InheritedGaps
        <4>1. InheritedGaps = plan[last].notes
          BY <3>2, LastNotes
        <4>2. \A n \in Noted : n <= last
          BY <3>2 DEF Last
        <4> QED
          BY <4>1, <4>2 DEF NotesOK, GapsAreInherited
      <3> QED
        BY <3>1, <3>2 DEF NotesOK
    <2>4. (\E n \in Noted : Last(n))'
      <3>1. Len(plan) + 1 \in Noted' /\ \A m \in Noted' : m <= Len(plan) + 1
        BY <1>5, <2>1, <2>2
      <3> QED
        BY <3>1 DEF Last
    <2>5. GapsAreInherited'
      <3> SUFFICES ASSUME NEW n \in Noted', NEW m \in Noted', n <= m
                   PROVE  plan'[n].notes \subseteq plan'[m].notes
        BY DEF GapsAreInherited
      <3>1. CASE m = Len(plan) + 1 /\ n \in Noted
        BY <1>4, <1>7, <2>2, <2>3, <3>1
      <3>2. CASE m = Len(plan) + 1 /\ n = Len(plan) + 1
        BY <3>2
      <3>3. CASE m \in Noted /\ n \in Noted
        BY <2>2, <3>3 DEF NotesOK, GapsAreInherited
      <3>4. ~ (m \in Noted /\ n = Len(plan) + 1)
        BY <1>5, <2>2
      <3> QED
        BY <2>1, <3>1, <3>2, <3>3, <3>4
    <2> QED
      BY <1>1, <1>2, <2>1, <2>4, <2>5 DEF NotesOK
  <1> QED
    BY <1>6, <1>7

LEMMA PlanStays ==
  ASSUME NotesOK, plan' = plan
  PROVE  NotesOK' /\ InheritedGaps' = InheritedGaps
  BY DEF NotesOK, Noted, Last, GapsAreInherited, InheritedGaps

-------------------------------------------------------------------------------
(* What every step leaves alone *)

\* Runs under review do not change, and versions count what happens to the rows.
Grows ==
  /\ \A r \in Runs : Reviewable(r) => run'[r] = run[r]
  /\ \/ post' = post
     \/ post'.version = post.version + 1 /\ post'.revisions \in {post.revisions, post.revisions + 1}
  /\ plan' = plan \/ Len(plan') = Len(plan) + 1
  /\ \A r \in Runs : triage'[r] = triage[r] \/ Len(triage'[r]) = Len(triage[r]) + 1

LEMMA RowFacts ==
  ASSUME TypeOK
  PROVE  /\ post.revisions \in Nat /\ post.version \in Nat
         /\ \A r \in Runs : run[r] # None => run[r] \in RunRows
         /\ \A r \in Runs : Len(triage[r]) \in Nat
         /\ \A t \in Tabs : page[t].run \in Runs \cup {None} /\ page[t].seen \in Nat
         /\ \A a \in adoption : a.run \in Runs /\ a.source \in Nat /\ a.target \in Nat
                                /\ a.version \in Nat
  <1>1. \A r \in Runs : Len(triage[r]) \in Nat
    <2> DEFINE S == [finding : Findings, status : {"open", "needs_changes", "dismissed"}]
    <2>1. \A r \in Runs : triage[r] \in Seq(S)
      BY DEF TypeOK
    <2> HIDE DEF S
    <2> QED
      BY <2>1
  <1>2. \A a \in adoption : a \in [run : Runs, source : Nat, target : Nat, version : Nat]
    BY DEF TypeOK
  <1>3. post.revisions \in Nat /\ post.version \in Nat
    BY DEF TypeOK
  <1>4. \A r \in Runs : run[r] # None => run[r] \in RunRows
    BY DEF TypeOK
  <1>5. \A t \in Tabs : page[t].run \in Runs \cup {None} /\ page[t].seen \in Nat
    BY DEF TypeOK
  <1>6. \A a \in adoption : a.run \in Runs /\ a.source \in Nat /\ a.target \in Nat
                                /\ a.version \in Nat
    BY <1>2
  <1> QED
    BY <1>1, <1>3, <1>4, <1>5, <1>6

LEMMA RunFacts ==
  ASSUME NEW row \in RunRows
  PROVE  /\ row.profile \in Profiles
         /\ row.state \in {"queued", "running", "needs_review", "closed"}
         /\ row.version \in Nat /\ row.selection \in Nat
         /\ row.input \in [source : Nat, evidence : Evidence, gaps : SUBSET Gaps]
         /\ row.input.source \in Nat /\ row.input.evidence \in Evidence
         /\ row.input.gaps \in SUBSET Gaps /\ row.gaps \in SUBSET Gaps
  BY DEF RunRows

LEMMA RunRowFacts ==
  ASSUME NEW p \in Profiles, NEW state \in {"queued", "running", "needs_review", "closed"},
         NEW v \in Nat, NEW selection \in Nat,
         NEW input \in [source : Nat, evidence : Evidence, gaps : SUBSET Gaps],
         NEW gaps \in SUBSET Gaps
  PROVE  LET row == RunRow(p, state, v, selection, input, gaps)
         IN  /\ row \in RunRows
             /\ row.profile = p /\ row.state = state /\ row.version = v
             /\ row.selection = selection /\ row.input = input /\ row.gaps = gaps
  BY DEF RunRow, RunRows

LEMMA StatusStays ==
  ASSUME NEW r \in Runs, NEW f, triage'[r] = triage[r]
  PROVE  Status(r, f)' = Status(r, f)
  BY DEF Status

LEMMA PageStays ==
  ASSUME TypeOK, Grows, NEW t \in Tabs, PageOK(t), page'[t] = page[t]
  PROVE  PageOK(t)'
  <1> DEFINE r == page[t].run
  <1>1. CASE r = None
    BY <1>1 DEF PageOK
  <1>2. CASE r # None
    <2>1. r \in Runs /\ page[t].seen \in Nat
      BY <1>2, RowFacts
    <2>2. Reviewable(r) /\ run'[r] = run[r] /\ Reviewable(r)'
      BY <1>2, <2>1 DEF PageOK, Grows, Reviewable
    <2>3. ASSUME run[r].profile = "copywriter"
          PROVE  /\ page[t].seen <= post'.version
                 /\ page[t].seen = post'.version => page[t].shown = Page(post', <<>>, <<>>)
      <3>1. /\ page[t].seen <= post.version
            /\ page[t].seen = post.version => page[t].shown = Page(post, <<>>, <<>>)
        BY <1>2, <2>3 DEF PageOK
      <3>2. post' = post \/ post'.version = post.version + 1
        BY DEF Grows
      <3> QED
        BY <2>1, <3>1, <3>2, RowFacts
    <2>4. ASSUME run[r].profile = "content_planner"
          PROVE  /\ page[t].seen <= Len(plan')
                 /\ page[t].seen = Len(plan') =>
                      page[t].shown = Page(PostRow(0, 0, "draft"), plan', <<>>)
      <3>1. /\ page[t].seen <= Len(plan)
            /\ page[t].seen = Len(plan) =>
                 page[t].shown = Page(PostRow(0, 0, "draft"), plan, <<>>)
        BY <1>2, <2>4 DEF PageOK
      <3>2. plan' = plan \/ Len(plan') = Len(plan) + 1
        BY DEF Grows
      <3> QED
        BY <2>1, <3>1, <3>2, PlanFacts
    <2>5. ASSUME run[r].profile = "editor"
          PROVE  /\ page[t].seen <= Len(triage'[r])
                 /\ page[t].seen = Len(triage'[r]) =>
                      page[t].shown = Page(PostRow(run[r].input.source, 0, "draft"), <<>>,
                                           [f \in Findings |-> Status(r, f)'])
      <3>1. /\ page[t].seen <= Len(triage[r])
            /\ page[t].seen = Len(triage[r]) =>
                 page[t].shown = Page(PostRow(run[r].input.source, 0, "draft"), <<>>,
                                      [f \in Findings |-> Status(r, f)])
        BY <1>2, <2>5 DEF PageOK
      <3>2. CASE triage'[r] = triage[r]
        <4>1. \A f \in Findings : Status(r, f)' = Status(r, f)
          BY <2>1, <3>2, StatusStays
        <4>2. [f \in Findings |-> Status(r, f)'] = [f \in Findings |-> Status(r, f)]
          BY <4>1
        <4> QED
          BY <3>1, <3>2, <4>2
      <3>3. CASE Len(triage'[r]) = Len(triage[r]) + 1
        <4>1. Len(triage[r]) \in Nat
          BY <2>1, RowFacts
        <4> QED
          BY <2>1, <3>1, <3>3, <4>1
      <3> QED
        BY <2>1, <3>2, <3>3 DEF Grows
    <2>6. page'[t].run = r
      OBVIOUS
    <2> QED
      BY <2>2, <2>3, <2>4, <2>5, <2>6 DEF PageOK
  <1> QED
    BY <1>1, <1>2

LEMMA ClosedPage ==
  ASSUME NEW t \in Tabs, page'[t] = NoPage
  PROVE  PageOK(t)'
  BY DEF PageOK, NoPage

LEMMA AdoptionStays ==
  ASSUME TypeOK, Grows, NEW a \in adoption, AdoptionOK(a)
  PROVE  AdoptionOK(a)' /\ run'[a.run] = run[a.run]
  <1>1. a.run \in Runs /\ a.target \in Nat
    BY RowFacts
  <1>2. run'[a.run] = run[a.run]
    BY <1>1 DEF Grows, AdoptionOK
  <1>3. /\ post.revisions \in Nat
        /\ post' = post \/ post'.revisions \in {post.revisions, post.revisions + 1}
    BY RowFacts DEF Grows
  <1>4. Len(plan) \in Nat /\ (plan' = plan \/ Len(plan') = Len(plan) + 1)
    BY PlanFacts DEF Grows
  <1>5. a.target <= post.revisions => a.target <= post'.revisions
    BY <1>1, <1>3
  <1>6. a.target <= Len(plan) => a.target <= Len(plan')
    BY <1>1, <1>4
  <1> QED
    BY <1>2, <1>5, <1>6 DEF AdoptionOK, Reviewable

LEMMA RunStays ==
  ASSUME TypeOK, NEW r \in Runs, RunOK(r), run'[r] = run[r],
         plan' = plan \/ Len(plan') = Len(plan) + 1
  PROVE  RunOK(r)'
  <1>1. CASE run[r] # None /\ run[r].profile = "content_planner"
    <2>1. run[r].input.source \in Nat /\ Len(plan) \in Nat
      BY <1>1, RowFacts, RunFacts, PlanFacts
    <2>2. /\ run[r].input.source <= Len(plan)
          /\ run[r].input.source = Len(plan) => InheritedGaps \subseteq run[r].input.gaps
          /\ run[r].state = "needs_review" => run[r].input.gaps \subseteq run[r].gaps
      BY <1>1 DEF RunOK
    <2>3. CASE plan' = plan
      <3>1. InheritedGaps' = InheritedGaps
        BY <2>3 DEF InheritedGaps, Noted
      <3> QED
        BY <2>2, <2>3, <3>1 DEF RunOK
    <2>4. CASE Len(plan') = Len(plan) + 1
      <3>1. run[r].input.source <= Len(plan') /\ run[r].input.source # Len(plan')
        BY <2>1, <2>2, <2>4
      <3> QED
        BY <2>2, <3>1 DEF RunOK
    <2> QED
      BY <2>3, <2>4
  <1>2. CASE ~ (run[r] # None /\ run[r].profile = "content_planner")
    BY <1>2 DEF RunOK
  <1> QED
    BY <1>1, <1>2

LEMMA RegistryStays ==
  ASSUME RegistryTypeOK, LastDecisionHolds, UNCHANGED registryVars
  PROVE  RegistryTypeOK' /\ LastDecisionHolds'
  BY DEF RegistryTypeOK, LastDecisionHolds, registryVars

\* A step that adopts nothing.
LEMMA QuietStep ==
  ASSUME IInv, TypeOK', LastDecisionHolds', NotesOK', Grows, adoption' = adoption,
         \A r \in Runs : run'[r] = run[r] \/ RunOK(r)',
         \A t \in Tabs : page'[t] \in {page[t], NoPage} \/ PageOK(t)'
  PROVE  IInv'
  <1>1. TypeOK
    BY DEF IInv
  <1>2. \A a \in adoption : AdoptionOK(a)' /\ run'[a.run] = run[a.run]
    BY <1>1, AdoptionStays DEF IInv
  <1>3. AdoptedAfterItsSource'
    <2>1. AdoptedAfterItsSource
      BY DEF IInv
    <2> QED
      BY <1>2, <2>1 DEF AdoptedAfterItsSource
  <1>4. \A r \in Runs : RunOK(r)'
    BY <1>1, RunStays DEF IInv, Grows
  <1>5. \A t \in Tabs : PageOK(t)'
    BY <1>1, PageStays, ClosedPage DEF IInv
  <1> QED
    BY <1>2, <1>3, <1>4, <1>5 DEF IInv

\* An adopted draft is a new one, with a new target.
LEMMA AdoptingStep ==
  ASSUME IInv, TypeOK', LastDecisionHolds', NotesOK', Grows, run' = run,
         NEW r \in Runs, Reviewable(r), Offered(r), NEW target \in Nat, NEW made \in Nat,
         run[r].profile \in {"copywriter", "content_planner"},
         run[r].profile = "copywriter" => target = post.revisions + 1 /\ post'.revisions = target,
         run[r].profile = "content_planner" => target = Len(plan) + 1 /\ Len(plan') = target,
         target = run[r].input.source + 1,
         adoption' = adoption \cup {Adoption(r, target, made)},
         \A t \in Tabs : page'[t] \in {page[t], NoPage}
  PROVE  IInv'
  <1> DEFINE new == Adoption(r, target, made)
  <1>1. TypeOK
    BY DEF IInv
  <1>2. \A a \in adoption : AdoptionOK(a) /\ AdoptionOK(a)' /\ a.target \in Nat
    BY <1>1, AdoptionStays, RowFacts DEF IInv
  <1>3. new.run = r /\ new.target = target /\ new' = new
    BY DEF Adoption
  <1> HIDE DEF new
  <1>4. AdoptionOK(new)'
    <2>1. run'[new.run] = run[r] /\ Reviewable(r)
      BY <1>3
    <2>2. \/ run[r].profile = "copywriter" /\ new.target <= post'.revisions
          \/ run[r].profile = "content_planner" /\ new.target <= Len(plan')
      BY <1>3
    <2> QED
      BY <1>3, <2>1, <2>2 DEF AdoptionOK, Reviewable
  <1>5. \A a \in adoption : a.run # r
    BY DEF Offered
  <1>6. \A a \in adoption : run[a.run].profile = run[r].profile => a.target # target
    <2> SUFFICES ASSUME NEW a \in adoption, run[a.run].profile = run[r].profile
                 PROVE  a.target # target
      OBVIOUS
    <2>1. CASE run[r].profile = "copywriter"
      BY <1>1, <1>2, <2>1, RowFacts DEF AdoptionOK
    <2>2. CASE run[r].profile = "content_planner"
      BY <1>1, <1>2, <2>2, PlanFacts DEF AdoptionOK
    <2> QED
      BY <2>1, <2>2
  <1>7. AdoptedAfterItsSource'
    <2>1. AdoptedAfterItsSource /\ adoption' = adoption \cup {new}
      BY DEF IInv, new
    <2> SUFFICES ASSUME NEW a \in adoption \cup {new}
                 PROVE  /\ a.target = run[a.run].input.source + 1
                        /\ \A other \in adoption \cup {new} : other # a =>
                             /\ other.run # a.run
                             /\ run[other.run].profile = run[a.run].profile =>
                                  other.target # a.target
      BY <2>1 DEF AdoptedAfterItsSource
    <2>2. CASE a = new
      BY <1>3, <1>5, <1>6, <2>2
    <2>3. CASE a \in adoption /\ a # new
      <3>1. /\ a.target = run[a.run].input.source + 1
            /\ \A other \in adoption : other # a =>
                 /\ other.run # a.run
                 /\ run[other.run].profile = run[a.run].profile => other.target # a.target
        BY <2>1, <2>3 DEF AdoptedAfterItsSource
      <3> QED
        BY <1>3, <1>5, <1>6, <2>3, <3>1
    <2> QED
      BY <2>2, <2>3
  <1>8. \A q \in Runs : RunOK(q)'
    BY <1>1, RunStays DEF IInv, Grows
  <1>9. \A t \in Tabs : PageOK(t)'
    BY <1>1, PageStays, ClosedPage DEF IInv
  <1>10. adoption' = adoption \cup {new}
    BY DEF new
  <1> QED
    BY <1>2, <1>3, <1>4, <1>7, <1>8, <1>9, <1>10 DEF IInv

-------------------------------------------------------------------------------
(* Runs *)

Inputs == [source : Nat, evidence : Evidence, gaps : SUBSET Gaps]

LEMMA InputFacts ==
  ASSUME TypeOK, NEW p \in Profiles, NEW gaps \in SUBSET Gaps
  PROVE  LET input == Input(Snapshot(p), gaps)
         IN  /\ input \in Inputs
             /\ input.gaps = gaps /\ input.source = Snapshot(p).source
             /\ p = "content_planner" => input.source = Len(plan)
             /\ p # "content_planner" => input.source = post.revisions
  <1>1. evidence \in Evidence /\ post.revisions \in Nat /\ Len(plan) \in Nat
    BY RowFacts, PlanFacts DEF TypeOK
  <1>2. /\ Snapshot(p).source \in Nat /\ Snapshot(p).evidence \in Evidence
        /\ p = "content_planner" => Snapshot(p).source = Len(plan)
        /\ p # "content_planner" => Snapshot(p).source = post.revisions
    BY <1>1 DEF Snapshot, PlanSnapshot, PostSnapshot
  <1> QED
    BY <1>2 DEF Input, Inputs

\* Who may go on: the selection is the last decision, and the text is the current one.
LEMMA MayGoOnFacts ==
  ASSUME TypeOK, LastDecisionHolds, NEW r \in Runs, run[r] # None, MayGoOn(r)
  PROVE  /\ run[r].selection = Len(decision[run[r].profile])
         /\ run[r].version = head[run[r].profile].testing
         /\ run[r].selection = head[run[r].profile].selection
         /\ version[run[r].profile][run[r].version].contract = contract
         /\ run[r].input.source = Snapshot(run[r].profile).source
         /\ run[r].profile = "content_planner" => run[r].input.source = Len(plan)
         /\ run[r].profile # "content_planner" => run[r].input.source = post.revisions
  <1>1. run[r] \in RunRows
    BY RowFacts
  <1>2. run[r].profile \in Profiles /\ run[r].input.gaps \in SUBSET Gaps
    BY <1>1, RunFacts
  <1>3. /\ run[r].input = Input(Snapshot(run[r].profile), run[r].input.gaps)
        /\ Selected(run[r].profile, run[r].version, run[r].selection)
    BY DEF MayGoOn, CurrentInput
  <1>4. RegistryTypeOK
    BY DEF TypeOK
  <1>5. /\ run[r].input.source = Snapshot(run[r].profile).source
        /\ run[r].profile = "content_planner" => run[r].input.source = Len(plan)
        /\ run[r].profile # "content_planner" => run[r].input.source = post.revisions
    BY <1>2, <1>3, InputFacts
  <1> QED
    BY <1>2, <1>3, <1>4, <1>5, SelectedIsLast

LEMMA OneRunKeeps ==
  ASSUME IInv, NEW r \in Runs, ~ Reviewable(r), NEW row \in RunRows,
         run' = [run EXCEPT ![r] = row],
         UNCHANGED <<registryVars, contentVars, adoption, triage, page>>,
         row.profile = "content_planner" =>
           /\ row.input.source <= Len(plan)
           /\ row.input.source = Len(plan) => InheritedGaps \subseteq row.input.gaps
           /\ row.state = "needs_review" => row.input.gaps \subseteq row.gaps
  PROVE  IInv'
  <1>1. TypeOK /\ LastDecisionHolds /\ NotesOK
    BY DEF IInv
  <1>2. /\ UNCHANGED registryVars /\ evidence' = evidence /\ post' = post /\ plan' = plan
        /\ adoption' = adoption /\ triage' = triage /\ page' = page
    BY DEF contentVars
  <1>3. RegistryTypeOK' /\ LastDecisionHolds'
    BY <1>1, <1>2, RegistryStays DEF TypeOK
  <1>4. TypeOK'
    BY <1>1, <1>2, <1>3 DEF TypeOK
  <1>5. run'[r] = row /\ \A q \in Runs : q # r => run'[q] = run[q]
    BY <1>1 DEF TypeOK
  <1>6. RunOK(r)'
    <2>1. InheritedGaps' = InheritedGaps
      BY <1>1, <1>2, PlanStays
    <2> QED
      BY <1>2, <1>5, <2>1 DEF RunOK
  <1>7. Grows
    BY <1>2, <1>5 DEF Grows
  <1>8. NotesOK'
    BY <1>1, <1>2, PlanStays
  <1>9. \A q \in Runs : run'[q] = run[q] \/ RunOK(q)'
    BY <1>5, <1>6
  <1>10. \A t \in Tabs : page'[t] \in {page[t], NoPage} \/ PageOK(t)'
    BY <1>2
  <1> QED
    BY <1>2, <1>3, <1>4, <1>7, <1>8, <1>9, <1>10, QuietStep

LEMMA StartRunKeeps ==
  ASSUME IInv, NEW r \in Runs, NEW p \in Profiles, NEW gaps \in SUBSET Gaps, StartRun(r, p, gaps)
  PROVE  IInv'
  <1> DEFINE input == Input(Snapshot(p), gaps)
             row == RunRow(p, "queued", head[p].testing, head[p].selection, input, {})
  <1>1. TypeOK /\ RegistryTypeOK /\ LastDecisionHolds
    BY DEF IInv, TypeOK
  <1>2. head[p].testing \in Nat /\ head[p].selection \in Nat
    BY <1>1, HeadFacts
  <1>3. /\ input \in Inputs /\ input.gaps = gaps
        /\ p = "content_planner" => input.source = Len(plan)
    BY <1>1, InputFacts
  <1>4. /\ run' = [run EXCEPT ![r] = row] /\ run[r] = None
        /\ UNCHANGED <<registryVars, contentVars, adoption, triage, page>>
        /\ p = "content_planner" => InheritedGaps \subseteq gaps
    BY DEF StartRun, RequireInheritedGaps
  <1> HIDE DEF input
  <1>5. /\ row \in RunRows /\ row.profile = p /\ row.state = "queued" /\ row.input = input
    BY <1>2, <1>3, RunRowFacts DEF Inputs
  <1> HIDE DEF row
  <1>6. ~ Reviewable(r)
    BY <1>4 DEF Reviewable
  <1>7. row.profile = "content_planner" =>
           /\ row.input.source <= Len(plan)
           /\ row.input.source = Len(plan) => InheritedGaps \subseteq row.input.gaps
           /\ row.state = "needs_review" => row.input.gaps \subseteq row.gaps
    BY <1>1, <1>3, <1>4, <1>5, PlanFacts
  <1> QED
    BY <1>4, <1>5, <1>6, <1>7, OneRunKeeps

LEMMA MovedFacts ==
  ASSUME NEW row \in RunRows, NEW state \in {"queued", "running", "closed"}
  PROVE  /\ Moved(row, state) \in RunRows /\ Moved(row, state).state = state
         /\ Moved(row, state).profile = row.profile /\ Moved(row, state).input = row.input
  BY RunFacts, RunRowFacts DEF Moved

\* A run that moves to another state than review.
LEMMA MovedKeeps ==
  ASSUME IInv, NEW r \in Runs, run[r] # None, ~ Reviewable(r),
         NEW state \in {"queued", "running", "closed"},
         run' = [run EXCEPT ![r] = Moved(run[r], state)],
         UNCHANGED <<registryVars, contentVars, adoption, triage, page>>
  PROVE  IInv'
  <1> DEFINE row == Moved(run[r], state)
  <1>1. run[r] \in RunRows
    BY RowFacts DEF IInv
  <1>2. /\ row \in RunRows /\ row.state = state
        /\ row.profile = run[r].profile /\ row.input = run[r].input
    BY <1>1, MovedFacts
  <1> HIDE DEF row
  <1>3. row.profile = "content_planner" =>
           /\ row.input.source <= Len(plan)
           /\ row.input.source = Len(plan) => InheritedGaps \subseteq row.input.gaps
           /\ row.state = "needs_review" => row.input.gaps \subseteq row.gaps
    BY <1>2 DEF IInv, RunOK
  <1>4. run' = [run EXCEPT ![r] = row]
    BY DEF row
  <1> QED
    BY <1>2, <1>3, <1>4, OneRunKeeps

LEMMA DispatchKeeps ==
  ASSUME IInv, NEW r \in Runs, run[r] # None, Dispatch(r)
  PROVE  IInv'
  <1> DEFINE state == IF MayGoOn(r) THEN "running" ELSE "closed"
  <1>1. /\ run' = [run EXCEPT ![r] = Moved(run[r], state)] /\ ~ Reviewable(r)
        /\ UNCHANGED <<registryVars, contentVars, adoption, triage, page>>
    BY DEF Dispatch, Reviewable
  <1>2. state \in {"queued", "running", "closed"}
    OBVIOUS
  <1> HIDE DEF state
  <1> QED
    BY <1>1, <1>2, MovedKeeps

LEMMA FinishKeeps ==
  ASSUME IInv, NEW r \in Runs, run[r] # None, NEW gaps \in SUBSET Gaps, Finish(r, gaps)
  PROVE  IInv'
  <1>1. run[r] \in RunRows
    BY RowFacts DEF IInv
  <1>2. /\ run[r].state = "running" /\ ~ Reviewable(r)
        /\ UNCHANGED <<registryVars, contentVars, adoption, triage, page>>
    BY DEF Finish, Reviewable
  <1>3. CASE MayGoOn(r) /\ ValidDraft(r, gaps)
    <2> DEFINE old == run[r]
               row == RunRow(old.profile, "needs_review", old.version, old.selection,
                             old.input, gaps)
    <2>1. run' = [run EXCEPT ![r] = row]
      BY <1>3 DEF Finish
    <2>2. /\ row \in RunRows /\ row.profile = old.profile /\ row.input = old.input
          /\ row.gaps = gaps
      BY <1>1, RunFacts, RunRowFacts
    <2> HIDE DEF row
    <2>3. row.profile = "content_planner" =>
           /\ row.input.source <= Len(plan)
           /\ row.input.source = Len(plan) => InheritedGaps \subseteq row.input.gaps
           /\ row.state = "needs_review" => row.input.gaps \subseteq row.gaps
      BY <1>3, <2>2 DEF IInv, RunOK, ValidDraft
    <2> QED
      BY <1>2, <2>1, <2>2, <2>3, OneRunKeeps
  <1>4. CASE ~ (MayGoOn(r) /\ ValidDraft(r, gaps))
    <2>1. run' = [run EXCEPT ![r] = Moved(run[r], "closed")]
      BY <1>4 DEF Finish
    <2> QED
      BY <1>2, <2>1, MovedKeeps
  <1> QED
    BY <1>3, <1>4

-------------------------------------------------------------------------------
(* Pages *)

\* A page as it is opened is up to date.
LEMMA OpenedPage ==
  ASSUME IInv, NEW r \in Runs, run[r] # None, Offered(r)
  PROVE  /\ Seen(r) \in Nat
         /\ run[r].profile = "copywriter" =>
              Seen(r) = post.version /\ Shown(r) = Page(post, <<>>, <<>>)
         /\ run[r].profile = "content_planner" =>
              Seen(r) = Len(plan) /\ Shown(r) = Page(PostRow(0, 0, "draft"), plan, <<>>)
         /\ run[r].profile = "editor" =>
              /\ Seen(r) = Len(triage[r])
              /\ Shown(r) = Page(PostRow(run[r].input.source, 0, "draft"), <<>>,
                                 [f \in Findings |-> Status(r, f)])
  <1>1. TypeOK /\ LastDecisionHolds
    BY DEF IInv
  <1>2. run[r].profile \in {"editor", "copywriter", "content_planner"}
    BY <1>1, RowFacts, RunFacts, ProfilesAssumption
  <1>3. run[r].profile = "editor" => run[r].input.source = post.revisions
    BY <1>1, MayGoOnFacts DEF Offered
  <1>4. /\ run[r].profile = "copywriter" => Seen(r) = post.version
        /\ run[r].profile = "content_planner" => Seen(r) = Len(plan)
        /\ run[r].profile = "editor" => Seen(r) = Len(triage[r])
    BY DEF Seen
  <1>5. /\ run[r].profile = "copywriter" => Shown(r) = Page(post, <<>>, <<>>)
        /\ run[r].profile = "content_planner" =>
             Shown(r) = Page(PostRow(0, 0, "draft"), plan, <<>>)
        /\ run[r].profile = "editor" =>
             Shown(r) = Page(PostRow(post.revisions, 0, "draft"), <<>>,
                             [f \in Findings |-> Status(r, f)])
    BY DEF Shown
  <1>6. Seen(r) \in Nat
    BY <1>1, <1>2, <1>4, RowFacts, PlanFacts
  <1> QED
    BY <1>3, <1>4, <1>5, <1>6

LEMMA OpenPageKeeps ==
  ASSUME IInv, NEW t \in Tabs, NEW r \in Runs, run[r] # None, OpenPage(t, r)
  PROVE  IInv'
  <1> DEFINE new == [run |-> r, seen |-> Seen(r), shown |-> Shown(r)]
  <1>1. TypeOK /\ LastDecisionHolds /\ NotesOK
    BY DEF IInv
  <1>2. /\ Offered(r) /\ Reviewable(r) /\ page' = [page EXCEPT ![t] = new]
        /\ UNCHANGED registryVars /\ evidence' = evidence /\ post' = post /\ plan' = plan
        /\ run' = run /\ adoption' = adoption /\ triage' = triage
    BY DEF OpenPage, Offered, Reviewable, contentVars
  <1>3. /\ new.run = r /\ new.seen = Seen(r) /\ new.shown = Shown(r)
    OBVIOUS
  <1> HIDE DEF new
  <1>4. RegistryTypeOK' /\ LastDecisionHolds'
    BY <1>1, <1>2, RegistryStays DEF TypeOK
  <1>5. page'[t] = new /\ \A q \in Tabs : q # t => page'[q] = page[q]
    BY <1>1, <1>2 DEF TypeOK
  <1>6. TypeOK'
    <2>1. page' = [q \in Tabs |-> page'[q]]
      BY <1>1, <1>2 DEF TypeOK
    <2>2. \A q \in Tabs : page'[q].run \in Runs \cup {None} /\ page'[q].seen \in Nat
      BY <1>1, <1>2, <1>3, <1>5, OpenedPage, RowFacts
    <2> QED
      BY <1>1, <1>2, <1>4, <2>1, <2>2 DEF TypeOK
  <1>7. PageOK(t)'
    <2>1. page'[t].run = r /\ page'[t].seen = Seen(r) /\ page'[t].shown = Shown(r)
      BY <1>3, <1>5
    <2>2. Reviewable(r)'
      BY <1>2 DEF Reviewable
    <2>3. \A f \in Findings : Status(r, f)' = Status(r, f)
      BY <1>2 DEF Status
    <2>4. Seen(r) \in Nat
      BY <1>2, OpenedPage
    <2>5. run[r].profile = "copywriter" =>
            /\ page'[t].seen <= post'.version /\ page'[t].shown = Page(post', <<>>, <<>>)
      <3>1. run[r].profile = "copywriter" =>
              Seen(r) = post.version /\ Shown(r) = Page(post, <<>>, <<>>)
        BY <1>2, OpenedPage
      <3> QED
        BY <1>1, <1>2, <2>1, <3>1, RowFacts
    <2>6. run[r].profile = "content_planner" =>
            /\ page'[t].seen <= Len(plan')
            /\ page'[t].shown = Page(PostRow(0, 0, "draft"), plan', <<>>)
      <3>1. run[r].profile = "content_planner" =>
              Seen(r) = Len(plan) /\ Shown(r) = Page(PostRow(0, 0, "draft"), plan, <<>>)
        BY <1>2, OpenedPage
      <3> QED
        BY <1>1, <1>2, <2>1, <3>1, PlanFacts
    <2>7. run[r].profile = "editor" =>
            /\ page'[t].seen <= Len(triage'[r])
            /\ page'[t].shown = Page(PostRow(run'[r].input.source, 0, "draft"), <<>>,
                                     [f \in Findings |-> Status(r, f)'])
      BY <1>2, <2>1, <2>3, <2>4, OpenedPage
    <2> QED
      BY <1>2, <2>1, <2>2, <2>5, <2>6, <2>7 DEF PageOK
  <1>8. Grows
    BY <1>2 DEF Grows
  <1>9. NotesOK'
    BY <1>1, <1>2, PlanStays
  <1>10. \A q \in Tabs : page'[q] \in {page[q], NoPage} \/ PageOK(q)'
    BY <1>5, <1>7
  <1>11. \A q \in Runs : run'[q] = run[q] \/ RunOK(q)'
    BY <1>2
  <1> QED
    BY <1>2, <1>4, <1>6, <1>8, <1>9, <1>10, <1>11, QuietStep

\* What a command knows: the page is the page that would be shown now.
LEMMA AsSeenFacts ==
  ASSUME IInv, NEW t \in Tabs, AsSeen(t)
  PROVE  /\ page[t].run \in Runs /\ Reviewable(page[t].run) /\ Offered(page[t].run)
         /\ page[t].shown = Shown(page[t].run)
  <1> DEFINE r == page[t].run
  <1>1. TypeOK
    BY DEF IInv
  <1>2. r \in Runs /\ Offered(r) /\ page[t].seen = Seen(r)
    BY <1>1, RowFacts DEF AsSeen
  <1>3. PageOK(t) /\ r # None
    BY DEF IInv, AsSeen
  <1>4. Reviewable(r)
    BY <1>3 DEF PageOK
  <1>5. run[r] # None /\ run[r].profile \in {"editor", "copywriter", "content_planner"}
    BY <1>1, <1>2, <1>4, RowFacts, RunFacts, ProfilesAssumption DEF Reviewable
  <1>6. CASE run[r].profile = "copywriter"
    <2>1. Seen(r) = post.version /\ Shown(r) = Page(post, <<>>, <<>>)
      BY <1>2, <1>5, <1>6, OpenedPage
    <2> QED
      BY <1>2, <1>3, <1>4, <1>6, <2>1 DEF PageOK
  <1>7. CASE run[r].profile = "content_planner"
    <2>1. Seen(r) = Len(plan) /\ Shown(r) = Page(PostRow(0, 0, "draft"), plan, <<>>)
      BY <1>2, <1>5, <1>7, OpenedPage
    <2> QED
      BY <1>2, <1>3, <1>4, <1>7, <2>1 DEF PageOK
  <1>8. CASE run[r].profile = "editor"
    <2>1. /\ Seen(r) = Len(triage[r])
          /\ Shown(r) = Page(PostRow(run[r].input.source, 0, "draft"), <<>>,
                             [f \in Findings |-> Status(r, f)])
      BY <1>2, <1>5, <1>8, OpenedPage
    <2> QED
      BY <1>2, <1>3, <1>4, <1>8, <2>1 DEF PageOK
  <1> QED
    BY <1>2, <1>4, <1>5, <1>6, <1>7, <1>8

LEMMA ClosedTyped ==
  ASSUME TypeOK, NEW t \in Tabs, Close(t)
  PROVE  /\ page' = [q \in Tabs |-> page'[q]]
         /\ \A q \in Tabs : page'[q].run \in Runs \cup {None} /\ page'[q].seen \in Nat
         /\ \A q \in Tabs : page'[q] \in {page[q], NoPage}
  <1>1. page' = [page EXCEPT ![t] = NoPage] /\ NoPage.run = None /\ NoPage.seen = 0
    BY DEF Close, NoPage
  <1>2. page'[t] = NoPage /\ \A q \in Tabs : q # t => page'[q] = page[q]
    BY <1>1 DEF TypeOK
  <1>3. page' = [q \in Tabs |-> page'[q]]
    BY <1>1 DEF TypeOK
  <1> QED
    BY <1>1, <1>2, <1>3, RowFacts

-------------------------------------------------------------------------------
(* What the owner and everybody else do *)

Posts == [revisions : Nat, version : Nat, state : PostStates]

LEMMA PostFacts ==
  ASSUME NEW a \in Nat, NEW b \in Nat, NEW state \in PostStates
  PROVE  /\ PostRow(a, b, state) \in Posts
         /\ PostRow(a, b, state).revisions = a /\ PostRow(a, b, state).version = b
  BY DEF PostRow, Posts

LEMMA NextRevisionFacts ==
  ASSUME TypeOK
  PROVE  /\ NextRevision \in Posts
         /\ NextRevision.version = post.version + 1
         /\ NextRevision.revisions = post.revisions + 1
  <1>1. post.revisions \in Nat /\ post.version \in Nat
    BY RowFacts
  <1> QED
    BY <1>1, PostFacts DEF NextRevision, PostStates

\* A step on the content that adopts nothing.
LEMMA ContentStep ==
  ASSUME IInv, UNCHANGED <<registryVars, run, adoption, triage, page>>,
         evidence' \in Evidence, post' \in Posts,
         \/ post' = post
         \/ /\ post'.version = post.version + 1
            /\ post'.revisions \in {post.revisions, post.revisions + 1},
         \/ plan' = plan
         \/ plan' = Append(plan, [notes |-> None])
  PROVE  IInv'
  <1>1. TypeOK /\ LastDecisionHolds /\ NotesOK
    BY DEF IInv
  <1>2. /\ UNCHANGED registryVars /\ run' = run /\ adoption' = adoption
        /\ triage' = triage /\ page' = page
    OBVIOUS
  <1>3. RegistryTypeOK' /\ LastDecisionHolds'
    BY <1>1, <1>2, RegistryStays DEF TypeOK
  <1>4. /\ NotesOK' /\ plan' \in Seq([notes : {None} \cup SUBSET Gaps])
        /\ plan' = plan \/ Len(plan') = Len(plan) + 1
    <2>1. CASE plan' = plan
      BY <1>1, <2>1, PlanStays, PlanFacts
    <2>2. CASE plan' = Append(plan, [notes |-> None])
      BY <1>1, <2>2, PlanGrows
    <2> QED
      BY <2>1, <2>2
  <1>5. TypeOK'
    BY <1>1, <1>2, <1>3, <1>4 DEF TypeOK, Posts
  <1>6. Grows
    BY <1>2, <1>4 DEF Grows
  <1>7. \A q \in Tabs : page'[q] \in {page[q], NoPage} \/ PageOK(q)'
    BY <1>2
  <1>8. \A q \in Runs : run'[q] = run[q] \/ RunOK(q)'
    BY <1>2
  <1> QED
    BY <1>2, <1>3, <1>4, <1>5, <1>6, <1>7, <1>8, QuietStep

LEMMA OthersKeep ==
  ASSUME IInv,
         \/ SaveRevision
         \/ \E state \in PostStates \ {post.state} : ActOnPost(state)
         \/ ReplacePlan
         \/ \E e \in Evidence : EvidenceMoves(e)
  PROVE  IInv'
  <1>1. TypeOK /\ post \in Posts /\ evidence \in Evidence
    BY DEF IInv, TypeOK, Posts
  <1>2. CASE SaveRevision
    <2>1. /\ post' = NextRevision /\ evidence' = evidence /\ plan' = plan
          /\ UNCHANGED <<registryVars, run, adoption, triage, page>>
      BY <1>2 DEF SaveRevision
    <2> QED
      BY <1>1, <2>1, NextRevisionFacts, ContentStep
  <1>3. ASSUME NEW state \in PostStates, ActOnPost(state)
        PROVE  IInv'
    <2>1. /\ post' = PostRow(post.revisions, post.version + 1, state)
          /\ evidence' = evidence /\ plan' = plan
          /\ UNCHANGED <<registryVars, run, adoption, triage, page>>
      BY <1>3 DEF ActOnPost
    <2>2. /\ post' \in Posts /\ post'.version = post.version + 1
          /\ post'.revisions = post.revisions
      BY <1>1, <2>1, PostFacts, RowFacts
    <2> QED
      BY <1>1, <2>1, <2>2, ContentStep
  <1>4. CASE ReplacePlan
    <2>1. /\ plan' = Append(plan, [notes |-> None]) /\ evidence' = evidence /\ post' = post
          /\ UNCHANGED <<registryVars, run, adoption, triage, page>>
      BY <1>4 DEF ReplacePlan
    <2> QED
      BY <1>1, <2>1, ContentStep
  <1>5. ASSUME NEW e \in Evidence, EvidenceMoves(e)
        PROVE  IInv'
    <2>1. /\ evidence' = e /\ post' = post /\ plan' = plan
          /\ UNCHANGED <<registryVars, run, adoption, triage, page>>
      BY <1>5 DEF EvidenceMoves
    <2> QED
      BY <1>1, <2>1, ContentStep
  <1> QED
    BY <1>2, <1>3, <1>4, <1>5

LEMMA AdoptionTyped ==
  ASSUME TypeOK, NEW r \in Runs, run[r] # None, NEW target \in Nat, NEW made \in Nat
  PROVE  Adoption(r, target, made) \in [run : Runs, source : Nat, target : Nat, version : Nat]
  <1>1. run[r].input.source \in Nat
    BY RowFacts, RunFacts
  <1> QED
    BY <1>1 DEF Adoption

LEMMA AdoptCopyKeeps ==
  ASSUME IInv, NEW t \in Tabs, AdoptCopy(t)
  PROVE  IInv'
  <1> DEFINE r == page[t].run
             target == post.revisions + 1
             made == post.version + 1
  <1>1. TypeOK /\ LastDecisionHolds /\ NotesOK
    BY DEF IInv
  <1>2. AsSeen(t) /\ run[r].profile = "copywriter" /\ Close(t)
    BY DEF AdoptCopy
  <1>3. /\ post' = NextRevision /\ adoption' = adoption \cup {Adoption(r, target, made)}
        /\ UNCHANGED registryVars /\ evidence' = evidence /\ plan' = plan /\ run' = run
        /\ triage' = triage
    BY DEF AdoptCopy
  <1>4. r \in Runs /\ Reviewable(r) /\ Offered(r) /\ run[r] # None
    BY <1>2, AsSeenFacts DEF Reviewable
  <1>5. run[r].input.source = post.revisions /\ target \in Nat /\ made \in Nat
    BY <1>1, <1>2, <1>4, MayGoOnFacts, RowFacts DEF Offered
  <1>6. /\ post' \in Posts /\ post'.version = post.version + 1 /\ post'.revisions = target
    BY <1>1, <1>3, NextRevisionFacts
  <1>7. RegistryTypeOK' /\ LastDecisionHolds'
    BY <1>1, <1>3, RegistryStays DEF TypeOK
  <1>8. TypeOK'
    <2> DEFINE S == [run : Runs, source : Nat, target : Nat, version : Nat]
    <2>1. adoption' \subseteq S
      <3>1. Adoption(r, target, made) \in S /\ adoption \subseteq S
        <4> HIDE DEF r, target, made
        <4> QED
          BY <1>1, <1>4, <1>5, AdoptionTyped DEF TypeOK
      <3> QED
        BY <1>3, <3>1
    <2> QED
      BY <1>1, <1>2, <1>3, <1>6, <1>7, <2>1, ClosedTyped DEF TypeOK, Posts
  <1>9. Grows
    BY <1>3, <1>6 DEF Grows
  <1>10. NotesOK'
    BY <1>1, <1>3, PlanStays
  <1>11. \A q \in Tabs : page'[q] \in {page[q], NoPage}
    BY <1>1, <1>2, ClosedTyped
  <1>12. adoption' = adoption \cup {Adoption(r, target, made)} /\ run' = run
    BY <1>3
  <1>13. target = post.revisions + 1 /\ target = run[r].input.source + 1
    BY <1>5
  <1>14. /\ run[r].profile \in {"copywriter", "content_planner"}
         /\ run[r].profile = "copywriter" =>
              target = post.revisions + 1 /\ post'.revisions = target
         /\ run[r].profile = "content_planner" =>
              target = Len(plan) + 1 /\ Len(plan') = target
    BY <1>2, <1>6
  <1>15. r \in Runs /\ Reviewable(r) /\ Offered(r) /\ target \in Nat /\ made \in Nat
    BY <1>4, <1>5
  <1> HIDE DEF target, made, r
  <1> QED
    BY <1>7, <1>8, <1>9, <1>10, <1>11, <1>12, <1>13, <1>14, <1>15, AdoptingStep

LEMMA AdoptPlanKeeps ==
  ASSUME IInv, NEW t \in Tabs, AdoptPlan(t)
  PROVE  IInv' /\ Len(plan') = Len(plan) + 1
  <1> DEFINE r == page[t].run
             target == Len(plan) + 1
             notes == run[r].gaps
  <1>1. TypeOK /\ LastDecisionHolds /\ NotesOK
    BY DEF IInv
  <1>2. AsSeen(t) /\ run[r].profile = "content_planner" /\ Close(t)
    BY DEF AdoptPlan
  <1>3. /\ plan' = Append(plan, [notes |-> notes])
        /\ adoption' = adoption \cup {Adoption(r, target, 0)}
        /\ UNCHANGED registryVars /\ evidence' = evidence /\ post' = post /\ run' = run
        /\ triage' = triage
    BY DEF AdoptPlan
  <1>4. r \in Runs /\ Reviewable(r) /\ Offered(r) /\ run[r] # None
    BY <1>2, AsSeenFacts DEF Reviewable
  <1>5. run[r].input.source = Len(plan) /\ target \in Nat
    BY <1>1, <1>2, <1>4, MayGoOnFacts, PlanFacts DEF Offered
  <1>6. notes \in SUBSET Gaps /\ InheritedGaps \subseteq notes
    <2>1. notes \in SUBSET Gaps
      BY <1>1, <1>4, RowFacts, RunFacts
    <2>2. /\ run[r].input.source = Len(plan) => InheritedGaps \subseteq run[r].input.gaps
          /\ run[r].input.gaps \subseteq run[r].gaps
      BY <1>2, <1>4 DEF IInv, RunOK, Reviewable
    <2> QED
      BY <1>5, <2>1, <2>2
  <1>7. RegistryTypeOK' /\ LastDecisionHolds'
    BY <1>1, <1>3, RegistryStays DEF TypeOK
  <1>8. /\ NotesOK' /\ Len(plan') = target
        /\ plan' \in Seq([notes : {None} \cup SUBSET Gaps])
    <2> HIDE DEF notes
    <2> QED
      BY <1>1, <1>3, <1>6, PlanGrows
  <1>9. TypeOK'
    <2> DEFINE S == [run : Runs, source : Nat, target : Nat, version : Nat]
    <2>1. adoption' \subseteq S
      <3>1. Adoption(r, target, 0) \in S /\ adoption \subseteq S
        <4> HIDE DEF r, target
        <4> QED
          BY <1>1, <1>4, <1>5, AdoptionTyped DEF TypeOK
      <3> QED
        BY <1>3, <3>1
    <2> QED
      BY <1>1, <1>2, <1>3, <1>7, <1>8, <2>1, ClosedTyped DEF TypeOK
  <1>10. Grows
    BY <1>3, <1>8 DEF Grows
  <1>11. \A q \in Tabs : page'[q] \in {page[q], NoPage}
    BY <1>1, <1>2, ClosedTyped
  <1>12. adoption' = adoption \cup {Adoption(r, target, 0)} /\ run' = run
    BY <1>3
  <1>13. target = Len(plan) + 1 /\ target = run[r].input.source + 1
    BY <1>5
  <1>14. /\ run[r].profile \in {"copywriter", "content_planner"}
         /\ run[r].profile = "copywriter" =>
              target = post.revisions + 1 /\ post'.revisions = target
         /\ run[r].profile = "content_planner" =>
              target = Len(plan) + 1 /\ Len(plan') = target
    BY <1>2, <1>8
  <1>15. r \in Runs /\ Reviewable(r) /\ Offered(r) /\ target \in Nat
    BY <1>4, <1>5
  <1>16. NotesOK' /\ Len(plan') = Len(plan) + 1
    BY <1>8
  <1> HIDE DEF target, notes, r
  <1> QED
    BY <1>7, <1>9, <1>10, <1>11, <1>12, <1>13, <1>14, <1>15, <1>16, AdoptingStep

LEMMA DecideFindingKeeps ==
  ASSUME IInv, NEW t \in Tabs, NEW f \in Findings,
         NEW status \in {"open", "needs_changes", "dismissed"}, DecideFinding(t, f, status)
  PROVE  IInv' /\ Len(triage'[page[t].run]) = Len(triage[page[t].run]) + 1
         /\ \A q \in Runs : q # page[t].run => triage'[q] = triage[q]
  <1> DEFINE r == page[t].run
             S == [finding : Findings, status : {"open", "needs_changes", "dismissed"}]
             d == [finding |-> f, status |-> status]
  <1>1. TypeOK /\ LastDecisionHolds /\ NotesOK
    BY DEF IInv
  <1>2. AsSeen(t) /\ Close(t)
    BY DEF DecideFinding
  <1>3. /\ triage' = [triage EXCEPT ![r] = Append(triage[r], d)]
        /\ UNCHANGED registryVars /\ evidence' = evidence /\ post' = post /\ plan' = plan
        /\ run' = run /\ adoption' = adoption
    BY DEF DecideFinding, contentVars
  <1>4. r \in Runs /\ triage \in [Runs -> Seq(S)] /\ d \in S
    BY <1>1, <1>2, AsSeenFacts DEF TypeOK
  <1> HIDE DEF S, d, r
  <1>5. /\ triage' \in [Runs -> Seq(S)]
        /\ Len(triage'[r]) = Len(triage[r]) + 1
        /\ \A q \in Runs : q # r => triage'[q] = triage[q]
    <2>1. triage[r] \in Seq(S)
      BY <1>4
    <2>2. Append(triage[r], d) \in Seq(S) /\ Len(Append(triage[r], d)) = Len(triage[r]) + 1
      BY <1>4, <2>1
    <2> QED
      BY <1>3, <1>4, <2>2
  <1>6. RegistryTypeOK' /\ LastDecisionHolds'
    BY <1>1, <1>3, RegistryStays DEF TypeOK
  <1>7. TypeOK'
    BY <1>1, <1>2, <1>3, <1>5, <1>6, ClosedTyped DEF TypeOK, S
  <1>8. Grows
    BY <1>3, <1>5 DEF Grows
  <1>9. NotesOK'
    BY <1>1, <1>3, PlanStays
  <1>10. \A q \in Tabs : page'[q] \in {page[q], NoPage} \/ PageOK(q)'
    BY <1>1, <1>2, ClosedTyped
  <1>11. \A q \in Runs : run'[q] = run[q] \/ RunOK(q)'
    BY <1>3
  <1>12. IInv'
    BY <1>3, <1>6, <1>7, <1>8, <1>9, <1>10, <1>11, QuietStep
  <1> QED
    BY <1>5, <1>12 DEF r

LEMMA RegistryStepKeeps ==
  ASSUME IInv, RegistryNext, UNCHANGED <<contentVars, run, adoption, triage, page>>
  PROVE  IInv'
  <1>1. TypeOK /\ RegistryTypeOK /\ LastDecisionHolds /\ NotesOK
    BY DEF IInv, TypeOK
  <1>2. /\ evidence' = evidence /\ post' = post /\ plan' = plan /\ run' = run
        /\ adoption' = adoption /\ triage' = triage /\ page' = page
    BY DEF contentVars
  <1>3. RegistryTypeOK' /\ LastDecisionHolds'
    BY <1>1, RegistryKeeps
  <1>4. TypeOK'
    BY <1>1, <1>2, <1>3 DEF TypeOK
  <1>5. Grows
    BY <1>2 DEF Grows
  <1>6. NotesOK'
    BY <1>1, <1>2, PlanStays
  <1>7. \A q \in Tabs : page'[q] \in {page[q], NoPage} \/ PageOK(q)'
    BY <1>2
  <1>8. \A q \in Runs : run'[q] = run[q] \/ RunOK(q)'
    BY <1>2
  <1> QED
    BY <1>2, <1>3, <1>4, <1>5, <1>6, <1>7, <1>8, QuietStep

-------------------------------------------------------------------------------
(* The theorems *)

LEMMA InitHolds ==
  ASSUME Init
  PROVE  IInv
  <1>1. RegistryTypeOK
    BY DEF Init, RegistryInit, RegistryTypeOK, Head0, Heads
  <1>2. LastDecisionHolds
    <2> SUFFICES ASSUME NEW p \in Profiles
                 PROVE  HeadHolds(head[p], version[p], decision[p])
      BY DEF LastDecisionHolds
    <2>1. head[p] = Head0 /\ version[p] = <<>> /\ decision[p] = <<>>
      BY DEF Init, RegistryInit
    <2>2. HeadHolds(Head0, <<>>, <<>>)
      BY DEF HeadHolds, Head0
    <2> QED
      BY <2>1, <2>2
  <1>3. /\ post = PostRow(1, 1, "draft") /\ run = [r \in Runs |-> None] /\ adoption = {}
        /\ page = [t \in Tabs |-> NoPage] /\ NoPage.run = None /\ NoPage.seen = 0
        /\ triage = [r \in Runs |-> <<>>] /\ evidence \in Evidence
    BY DEF Init, NoPage
  <1>4. plan = <<[notes |-> None]>>
    BY DEF Init
  <1>5. plan \in Seq([notes : {None} \cup SUBSET Gaps]) /\ Noted = {}
    <2>1. [notes |-> None] \in [notes : {None} \cup SUBSET Gaps] /\ DOMAIN plan = {1}
          /\ plan[1].notes = None
      BY <1>4
    <2>2. plan \in Seq([notes : {None} \cup SUBSET Gaps])
      <3> DEFINE S == [notes : {None} \cup SUBSET Gaps]
      <3>1. [notes |-> None] \in S
        BY <2>1
      <3> HIDE DEF S
      <3>2. <<[notes |-> None]>> \in Seq(S)
        BY <3>1
      <3> QED
        BY <1>4, <3>2 DEF S
    <2> QED
      BY <2>1, <2>2 DEF Noted
  <1>6. post \in [revisions : Nat, version : Nat, state : PostStates]
    BY <1>3 DEF PostRow, PostStates
  <1>7. TypeOK
    BY <1>1, <1>3, <1>5, <1>6 DEF TypeOK
  <1>8. NotesOK
    BY <1>5 DEF NotesOK, GapsAreInherited
  <1>9. /\ \A r \in Runs : RunOK(r)
        /\ \A a \in adoption : AdoptionOK(a)
        /\ \A t \in Tabs : PageOK(t)
        /\ AdoptedAfterItsSource
    BY <1>3 DEF RunOK, PageOK, AdoptedAfterItsSource
  <1> QED
    BY <1>2, <1>7, <1>8, <1>9 DEF IInv

LEMMA StepHolds ==
  ASSUME IInv, [Next]_vars
  PROVE  IInv'
  <1>1. ASSUME RegistryNext, UNCHANGED <<contentVars, run, adoption, triage, page>>
        PROVE  IInv'
    BY <1>1, RegistryStepKeeps
  <1>2. ASSUME NEW r \in Runs, NEW p \in Profiles, NEW gaps \in SUBSET Gaps, StartRun(r, p, gaps)
        PROVE  IInv'
    BY <1>2, StartRunKeeps
  <1>3. ASSUME NEW r \in Started, Dispatch(r)
        PROVE  IInv'
    BY <1>3, DispatchKeeps DEF Started
  <1>4. ASSUME NEW r \in Started, NEW gaps \in SUBSET Gaps, Finish(r, gaps)
        PROVE  IInv'
    BY <1>4, FinishKeeps DEF Started
  <1>5. ASSUME NEW r \in Started, NEW t \in Tabs, OpenPage(t, r)
        PROVE  IInv'
    BY <1>5, OpenPageKeeps DEF Started
  <1>6. ASSUME NEW t \in Tabs, AdoptCopy(t)
        PROVE  IInv'
    BY <1>6, AdoptCopyKeeps
  <1>7. ASSUME NEW t \in Tabs, AdoptPlan(t)
        PROVE  IInv'
    BY <1>7, AdoptPlanKeeps
  <1>8. ASSUME NEW t \in Tabs, NEW f \in Findings,
               NEW status \in {"open", "needs_changes", "dismissed"}, DecideFinding(t, f, status)
        PROVE  IInv'
    BY <1>8, DecideFindingKeeps
  <1>9. ASSUME \/ SaveRevision
               \/ \E state \in PostStates \ {post.state} : ActOnPost(state)
               \/ ReplacePlan
               \/ \E e \in Evidence : EvidenceMoves(e)
        PROVE  IInv'
    BY <1>9, OthersKeep
  <1>10. CASE UNCHANGED vars
    <2>1. UNCHANGED registryVars /\ UNCHANGED <<run, adoption, triage, page>>
          /\ evidence' = evidence /\ post' = post /\ plan' = plan
      BY <1>10 DEF vars, registryVars
    <2>2. post \in Posts /\ evidence \in Evidence
      BY DEF IInv, TypeOK, Posts
    <2> QED
      BY <2>1, <2>2, ContentStep
  <1> QED
    BY <1>1, <1>2, <1>3, <1>4, <1>5, <1>6, <1>7, <1>8, <1>9, <1>10 DEF Next

\* The inductive invariant holds of every reachable state.
THEOREM Invariant == Spec => []IInv
  BY InitHolds, StepHolds, PTL DEF Spec

\* Rows, pages and the registry have their shape in every reachable state.
THEOREM TypeCorrect == Spec => []TypeOK
  <1>1. IInv => TypeOK
    BY DEF IInv
  <1> QED
    BY <1>1, Invariant, PTL

\* The heads of the registry follow the decisions: who is selected, and by which decision.
THEOREM HeadsFollowDecisions == Spec => []LastDecisionHolds
  <1>1. IInv => LastDecisionHolds
    BY DEF IInv
  <1> QED
    BY <1>1, Invariant, PTL

\* A draft becomes the text right after the one it was written about, and once: the stored
\* snapshot is compared with the row under the locks of the adoption (copy_adoption.py,
\* plan_adoption.py).
THEOREM AdoptsAfterItsSource == Spec => []AdoptedAfterItsSource
  <1>1. IInv => AdoptedAfterItsSource
    BY DEF IInv
  <1> QED
    BY <1>1, Invariant, PTL

\* A gap noted with an adopted plan stays noted with every later adopted plan of the family.
THEOREM KeepsGaps == Spec => []GapsAreInherited
  <1>1. IInv => GapsAreInherited
    BY DEF IInv, NotesOK
  <1> QED
    BY <1>1, Invariant, PTL

\* Which steps act on a run: those that have just looked at it again.
LEMMA ActingRuns ==
  ASSUME IInv, [Next]_vars, NEW r \in Runs, Advanced(r) \/ Used(r)
  PROVE  run[r] # None /\ MayGoOn(r)
  <1> DEFINE Still == run'[r] = run[r] /\ triage' = triage /\ adoption' = adoption
  <1>1. ~ Still
    BY DEF Advanced, Used
  <1>2. TypeOK
    BY DEF IInv
  <1>3. ASSUME NEW q \in Runs, NEW p \in Profiles, NEW gaps \in SUBSET Gaps, StartRun(q, p, gaps)
        PROVE  FALSE
    <2>1. run[q] = None /\ run' = [run EXCEPT ![q] = run'[q]]
          /\ triage' = triage /\ adoption' = adoption
      BY <1>2, <1>3 DEF StartRun, TypeOK
    <2>2. q # r => Still
      BY <1>2, <2>1 DEF TypeOK
    <2>3. q = r => ~ (Advanced(r) \/ Used(r))
      BY <2>1 DEF Advanced, Used
    <2> QED
      BY <1>1, <2>2, <2>3
  <1>4. ASSUME NEW q \in Started, Dispatch(q)
        PROVE  run[r] # None /\ MayGoOn(r)
    <2>1. triage' = triage /\ adoption' = adoption /\ run[q] # None /\ q \in Runs
      BY <1>4 DEF Dispatch, Started
    <2>2. q # r => Still
      BY <1>2, <1>4, <2>1 DEF Dispatch, TypeOK
    <2>3. CASE q = r /\ ~ MayGoOn(q)
      <3>1. run'[q] = Moved(run[q], "closed") /\ run[q] \in RunRows
        BY <1>2, <1>4, <2>1, <2>3, RowFacts DEF Dispatch, TypeOK
      <3>2. run'[q].state = "closed"
        BY <3>1, MovedFacts
      <3> QED
        BY <2>1, <2>3, <3>2 DEF Advanced, Used
    <2> QED
      BY <1>1, <2>1, <2>2, <2>3
  <1>5. ASSUME NEW q \in Started, NEW gaps \in SUBSET Gaps, Finish(q, gaps)
        PROVE  run[r] # None /\ MayGoOn(r)
    <2>1. triage' = triage /\ adoption' = adoption /\ run[q] # None /\ q \in Runs
      BY <1>5 DEF Finish, Started
    <2>2. q # r => Still
      BY <1>2, <1>5, <2>1 DEF Finish, TypeOK
    <2>3. CASE q = r /\ ~ MayGoOn(q)
      <3>1. run'[q] = Moved(run[q], "closed") /\ run[q] \in RunRows
        BY <1>2, <1>5, <2>1, <2>3, RowFacts DEF Finish, TypeOK
      <3>2. run'[q].state = "closed"
        BY <3>1, MovedFacts
      <3> QED
        BY <2>1, <2>3, <3>2 DEF Advanced, Used
    <2> QED
      BY <1>1, <2>1, <2>2, <2>3
  <1>6. ASSUME NEW t \in Tabs, AsSeen(t), run' = run, triage' = triage,
               NEW target, NEW made,
               adoption' = adoption \cup {Adoption(page[t].run, target, made)}
        PROVE  run[r] # None /\ MayGoOn(r)
    <2>1. ~ Advanced(r)
      BY <1>6 DEF Advanced
    <2>2. PICK a \in adoption' \ adoption : a.run = r
      BY <1>6, <2>1 DEF Used
    <2>3. a.run = page[t].run
      BY <1>6, <2>2 DEF Adoption
    <2> QED
      BY <1>6, <2>2, <2>3, AsSeenFacts DEF Reviewable, Offered
  <1>7. ASSUME NEW t \in Tabs, AdoptCopy(t)
        PROVE  run[r] # None /\ MayGoOn(r)
    <2>1. /\ AsSeen(t) /\ run' = run /\ triage' = triage
          /\ adoption' = adoption \cup
               {Adoption(page[t].run, post.revisions + 1, post.version + 1)}
      BY <1>7 DEF AdoptCopy
    <2> QED
      BY <1>6, <2>1
  <1>8. ASSUME NEW t \in Tabs, AdoptPlan(t)
        PROVE  run[r] # None /\ MayGoOn(r)
    <2>1. /\ AsSeen(t) /\ run' = run /\ triage' = triage
          /\ adoption' = adoption \cup {Adoption(page[t].run, Len(plan) + 1, 0)}
      BY <1>8 DEF AdoptPlan
    <2> QED
      BY <1>6, <2>1
  <1>9. ASSUME NEW t \in Tabs, NEW f \in Findings,
               NEW status \in {"open", "needs_changes", "dismissed"}, DecideFinding(t, f, status)
        PROVE  run[r] # None /\ MayGoOn(r)
    <2>1. AsSeen(t) /\ run' = run /\ adoption' = adoption
      BY <1>9 DEF DecideFinding
    <2>2. triage'[r] # triage[r]
      BY <2>1 DEF Advanced, Used
    <2>3. r = page[t].run
      BY <1>9, <2>2, DecideFindingKeeps
    <2> QED
      BY <2>1, <2>3, AsSeenFacts DEF Reviewable, Offered
  <1>10. CASE \/ RegistryNext /\ UNCHANGED <<contentVars, run, adoption, triage, page>>
              \/ \E q \in Started, t \in Tabs : OpenPage(t, q)
              \/ SaveRevision
              \/ \E state \in PostStates \ {post.state} : ActOnPost(state)
              \/ ReplacePlan
              \/ \E e \in Evidence : EvidenceMoves(e)
              \/ UNCHANGED vars
    BY <1>1, <1>10 DEF OpenPage, SaveRevision, ActOnPost, ReplacePlan, EvidenceMoves, vars
  <1> QED
    BY <1>3, <1>4, <1>5, <1>7, <1>8, <1>9, <1>10 DEF Next

\* No run is called, reviewed or used under another selection of its profile than the one it
\* was requested under, nor by other code (profiles.py assert_registered_run).
THEOREM RunsKeepTheirSelection == Spec => ActsUnderItsSelection
  <1>1. ASSUME IInv, [Next]_vars
        PROVE  \A r \in Runs : Advanced(r) \/ Used(r) =>
                 /\ run[r].selection = Len(decision[run[r].profile])
                 /\ version[run[r].profile][run[r].version].contract = contract
    <2>1. TypeOK /\ LastDecisionHolds
      BY <1>1 DEF IInv
    <2> QED
      BY <1>1, <2>1, ActingRuns, MayGoOnFacts
  <1> QED
    BY <1>1, Invariant, PTL DEF ActsUnderItsSelection, Spec

\* Whoever adopts a draft or decides on a finding has seen what the command changes, in any
\* number of tabs and whatever the others did meanwhile.
THEOREM ActsAreInformed == Spec => ActsOnWhatWasSeen
  <1>1. ASSUME IInv, [Next]_vars, NEW t \in Tabs, page[t].run # None, page'[t].run = None
        PROVE  page[t].shown = Shown(page[t].run)
    <2>1. TypeOK
      BY <1>1 DEF IInv
    <2>2. ASSUME NEW q \in Tabs, AsSeen(q), Close(q)
          PROVE  page[t].shown = Shown(page[t].run)
      <3>1. page' = [page EXCEPT ![q] = NoPage]
        BY <2>2 DEF Close
      <3>2. q = t
        BY <1>1, <2>1, <3>1 DEF TypeOK
      <3> QED
        BY <1>1, <2>2, <3>2, AsSeenFacts
    <2>3. ASSUME NEW r \in Started, NEW q \in Tabs, OpenPage(q, r)
          PROVE  FALSE
      <3>1. page' = [page EXCEPT ![q] = [run |-> r, seen |-> Seen(r), shown |-> Shown(r)]]
        BY <2>3 DEF OpenPage
      <3>2. r # None
        BY IdsAssumption DEF Started
      <3>3. page'[t].run \in {page[t].run, r}
        BY <2>1, <3>1 DEF TypeOK
      <3> QED
        BY <1>1, <3>2, <3>3
    <2>4. page' # page
      BY <1>1
    <2>5. \/ \E q \in Tabs : AsSeen(q) /\ Close(q)
          \/ \E r \in Started, q \in Tabs : OpenPage(q, r)
      BY <1>1, <2>4 DEF Next, vars, StartRun, Dispatch, Finish, AdoptCopy, AdoptPlan,
           DecideFinding, SaveRevision, ActOnPost, ReplacePlan, EvidenceMoves
    <2> QED
      BY <2>2, <2>3, <2>5
  <1>2. IInv /\ [Next]_vars =>
          \A t \in Tabs : page[t].run # None /\ page'[t].run = None =>
            page[t].shown = Shown(page[t].run)
    BY <1>1
  <1> QED
    BY <1>2, Invariant, PTL DEF ActsOnWhatWasSeen, Spec

-------------------------------------------------------------------------------
(* The triggers *)

LEMMA DraftAccepted ==
  ASSUME NEW row \in Heads, NEW versions \in Seq(Versions), NEW decisions \in Seq(Decisions),
         HeadHolds(row, versions, decisions), NEW v \in Versions
  PROVE  HeadGuard(row, Drafted(row), Append(versions, v), decisions)
  <1>1. /\ row.revision \in Nat /\ row.latest \in Nat /\ row.testing \in Nat
        /\ row.selection \in Nat /\ Len(versions) \in Nat
    BY DEF Heads
  <1>2. DOMAIN Append(versions, v) = 1 .. Len(versions) + 1 /\ row.latest = Len(versions)
    BY DEF HeadHolds
  <1>3. CASE row = Head0
    <2>1. Drafted(row) = HeadRow(1, 1, 0, 0)
      BY <1>3 DEF Drafted, Head0
    <2>2. HeadRow(1, 1, 0, 0).latest = 1
      BY DEF HeadRow
    <2> QED
      BY <1>1, <1>2, <1>3, <2>1, <2>2 DEF HeadGuard
  <1>4. CASE row # Head0
    <2>1. /\ Drafted(row).revision = row.revision + 1 /\ Drafted(row).latest = row.latest + 1
          /\ Drafted(row).testing = row.testing /\ Drafted(row).selection = row.selection
      BY DEF Drafted, HeadRow
    <2> QED
      BY <1>1, <1>2, <1>4, <2>1 DEF HeadGuard
  <1> QED
    BY <1>3, <1>4

LEMMA DecisionAccepted ==
  ASSUME NEW row \in Heads, NEW versions \in Seq(Versions), NEW decisions \in Seq(Decisions),
         HeadHolds(row, versions, decisions), row.revision # 0, Len(versions) # 0,
         NEW testing \in Nat, NEW selection \in Nat, NEW d \in Decisions,
         \/ /\ testing # 0 /\ selection = Len(decisions) + 1
            /\ d = [version |-> testing, action |-> "select", revision |-> row.revision + 1]
         \/ /\ testing = 0 /\ row.testing # 0
            /\ d = [version |-> row.testing, action |-> "disable", revision |-> row.revision + 1]
  PROVE  HeadGuard(row, HeadRow(row.revision + 1, row.latest, testing, selection),
                   versions, Append(decisions, d))
  <1> DEFINE new == HeadRow(row.revision + 1, row.latest, testing, selection)
  <1>1. row.revision \in Nat /\ Len(versions) \in Nat /\ Len(decisions) \in Nat
    BY DEF Heads
  <1>2. row.latest \in DOMAIN versions
    BY <1>1 DEF HeadHolds
  <1>3. row # Head0
    BY DEF Head0
  <1>4. /\ new.revision = row.revision + 1 /\ new.latest = row.latest
        /\ new.testing = testing /\ new.selection = selection
    BY DEF HeadRow
  <1>5. /\ Len(decisions) + 1 \in DOMAIN Append(decisions, d)
        /\ Append(decisions, d)[Len(decisions) + 1] = d
    BY <1>1
  <1> HIDE DEF new
  <1>6. HeadGuard(row, new, versions, Append(decisions, d))
    BY <1>2, <1>3, <1>4, <1>5 DEF HeadGuard
  <1> QED
    BY <1>6 DEF new

LEMMA HeadsAccepted ==
  ASSUME IInv, RegistryNext, NEW q \in Profiles, head'[q] # head[q]
  PROVE  HeadGuard(head[q], head'[q], version'[q], decision'[q])
  <1>1. RegistryTypeOK /\ LastDecisionHolds
    BY DEF IInv, TypeOK
  <1>2. ASSUME NEW p \in Profiles, DraftProfile(p)
        PROVE  HeadGuard(head[q], head'[q], version'[q], decision'[q])
    <2>1. p = q
      BY <1>1, <1>2 DEF DraftProfile, RegistryTypeOK
    <2>2. /\ head'[q] = Drafted(head[q])
          /\ version'[q] = Append(version[q], [contract |-> contract])
          /\ decision'[q] = decision[q] /\ [contract |-> contract] \in Versions
      BY <1>1, <1>2, <2>1 DEF DraftProfile, RegistryTypeOK, Versions
    <2> QED
      BY <1>1, <2>2, HeadFacts, DraftAccepted
  <1>3. ASSUME NEW p \in Profiles, NEW v \in DOMAIN version[p], SelectTesting(p, v)
        PROVE  HeadGuard(head[q], head'[q], version'[q], decision'[q])
    <2> DEFINE d == [version |-> v, action |-> "select", revision |-> head[q].revision + 1]
    <2>1. p = q
      BY <1>1, <1>3 DEF SelectTesting, RegistryTypeOK
    <2>2. /\ head'[q] = HeadRow(head[q].revision + 1, head[q].latest, v, Len(decision[q]) + 1)
          /\ version'[q] = version[q] /\ decision'[q] = Append(decision[q], d)
          /\ head[q].revision # 0
      BY <1>1, <1>3, <2>1 DEF SelectTesting, Decide, RegistryTypeOK
    <2>3. /\ head[q] \in Heads /\ version[q] \in Seq(Versions) /\ decision[q] \in Seq(Decisions)
          /\ head[q].revision \in Nat /\ HeadHolds(head[q], version[q], decision[q])
      BY <1>1, HeadFacts
    <2>4. v \in Nat /\ v # 0 /\ Len(version[q]) # 0
      BY <1>3, <2>1, <2>3
    <2>5. d \in Decisions
      BY <2>3, <2>4 DEF Decisions
    <2> HIDE DEF d
    <2>6. Len(decision[q]) + 1 \in Nat
      BY <2>3
    <2>7. d = [version |-> v, action |-> "select", revision |-> head[q].revision + 1]
      BY DEF d
    <2>8. HeadGuard(head[q], HeadRow(head[q].revision + 1, head[q].latest, v,
                                     Len(decision[q]) + 1),
                    version[q], Append(decision[q], d))
      BY <2>2, <2>3, <2>4, <2>5, <2>6, <2>7, DecisionAccepted
    <2> QED
      BY <2>2, <2>8
  <1>4. ASSUME NEW p \in Profiles, DisableProfile(p)
        PROVE  HeadGuard(head[q], head'[q], version'[q], decision'[q])
    <2> DEFINE d == [version |-> head[q].testing, action |-> "disable",
                     revision |-> head[q].revision + 1]
    <2>1. p = q
      BY <1>1, <1>4 DEF DisableProfile, RegistryTypeOK
    <2>2. /\ head'[q] = HeadRow(head[q].revision + 1, head[q].latest, 0, 0)
          /\ version'[q] = version[q] /\ decision'[q] = Append(decision[q], d)
          /\ head[q].revision # 0 /\ head[q].testing # 0
      BY <1>1, <1>4, <2>1 DEF DisableProfile, Decide, RegistryTypeOK
    <2>3. /\ head[q] \in Heads /\ version[q] \in Seq(Versions) /\ decision[q] \in Seq(Decisions)
          /\ head[q].revision \in Nat /\ head[q].testing \in Nat
          /\ HeadHolds(head[q], version[q], decision[q])
      BY <1>1, HeadFacts
    <2>4. d \in Decisions
      BY <2>2, <2>3 DEF Decisions
    <2>5. Len(version[q]) # 0
      BY <2>2, <2>3 DEF HeadHolds
    <2>6. d = [version |-> head[q].testing, action |-> "disable",
               revision |-> head[q].revision + 1]
      BY DEF d
    <2> HIDE DEF d
    <2>7. HeadGuard(head[q], HeadRow(head[q].revision + 1, head[q].latest, 0, 0),
                    version[q], Append(decision[q], d))
      BY <2>2, <2>3, <2>4, <2>5, <2>6, DecisionAccepted
    <2> QED
      BY <2>2, <2>7
  <1>5. ASSUME NEW c \in Contracts, Deploy(c)
        PROVE  FALSE
    BY <1>5 DEF Deploy
  <1> QED
    BY <1>2, <1>3, <1>4, <1>5 DEF RegistryNext

\* What a run becomes, the trigger on ai_runs accepts.
LEMMA RunsAccepted ==
  ASSUME IInv, [Next]_vars, NEW r \in Runs, run'[r] # run[r]
  PROVE  RunGuard(run'[r])
  <1>1. TypeOK /\ LastDecisionHolds /\ RegistryTypeOK
    BY DEF IInv, TypeOK
  <1>2. ASSUME NEW q \in Runs, NEW p \in Profiles, NEW gaps \in SUBSET Gaps, StartRun(q, p, gaps)
        PROVE  RunGuard(run'[r])
    <2>1. q = r
      BY <1>1, <1>2 DEF StartRun, TypeOK
    <2>2. run'[r] = RunRow(p, "queued", head[p].testing, head[p].selection,
                           Input(Snapshot(p), gaps), {})
      BY <1>1, <1>2, <2>1 DEF StartRun, TypeOK
    <2>3. /\ run'[r].profile = p /\ run'[r].state = "queued"
          /\ run'[r].version = head[p].testing /\ run'[r].selection = head[p].selection
      BY <2>2 DEF RunRow
    <2> QED
      BY <2>3 DEF RunGuard
  <1>3. ASSUME NEW row, run'[r] = row, run[r] # None, MayGoOn(r),
               row.profile = run[r].profile, row.version = run[r].version,
               row.selection = run[r].selection, row.input = run[r].input
        PROVE  RunGuard(run'[r])
    BY <1>1, <1>3, MayGoOnFacts DEF RunGuard
  <1>4. ASSUME run'[r].state = "closed"
        PROVE  RunGuard(run'[r])
    BY <1>4 DEF RunGuard
  <1>5. ASSUME NEW q \in Started, Dispatch(q)
        PROVE  RunGuard(run'[r])
    <2>1. q = r
      BY <1>1, <1>5 DEF Dispatch, TypeOK
    <2>2. run[r] # None /\ run[r] \in RunRows
      BY <1>1, <2>1, RowFacts DEF Started
    <2>3. run'[r] = Moved(run[r], IF MayGoOn(r) THEN "running" ELSE "closed")
      BY <1>1, <1>5, <2>1 DEF Dispatch, TypeOK
    <2>4. /\ run'[r].profile = run[r].profile /\ run'[r].version = run[r].version
          /\ run'[r].selection = run[r].selection /\ run'[r].input = run[r].input
          /\ ~ MayGoOn(r) => run'[r].state = "closed"
      BY <2>3 DEF Moved, RunRow
    <2> QED
      BY <1>3, <1>4, <2>2, <2>4
  <1>6. ASSUME NEW q \in Started, NEW gaps \in SUBSET Gaps, Finish(q, gaps)
        PROVE  RunGuard(run'[r])
    <2>1. q = r
      BY <1>1, <1>6 DEF Finish, TypeOK
    <2>2. run[r] # None /\ run[r] \in RunRows
      BY <1>1, <2>1, RowFacts DEF Started
    <2>3. CASE MayGoOn(r) /\ ValidDraft(r, gaps)
      <3>1. run'[r] = RunRow(run[r].profile, "needs_review", run[r].version, run[r].selection,
                             run[r].input, gaps)
        BY <1>1, <1>6, <2>1, <2>3 DEF Finish, TypeOK
      <3>2. /\ run'[r].profile = run[r].profile /\ run'[r].version = run[r].version
            /\ run'[r].selection = run[r].selection /\ run'[r].input = run[r].input
        BY <3>1 DEF RunRow
      <3> QED
        BY <1>3, <2>2, <2>3, <3>2
    <2>4. CASE ~ (MayGoOn(r) /\ ValidDraft(r, gaps))
      <3>1. run'[r] = Moved(run[r], "closed")
        BY <1>1, <1>6, <2>1, <2>4 DEF Finish, TypeOK
      <3> QED
        BY <1>4, <2>2, <3>1, MovedFacts
    <2> QED
      BY <2>3, <2>4
  <1>7. run' # run
    OBVIOUS
  <1>8. \/ \E q \in Runs, p \in Profiles, gaps \in SUBSET Gaps : StartRun(q, p, gaps)
        \/ \E q \in Started : Dispatch(q)
        \/ \E q \in Started, gaps \in SUBSET Gaps : Finish(q, gaps)
    BY <1>7 DEF Next, vars, OpenPage, AdoptCopy, AdoptPlan, DecideFinding, SaveRevision,
         ActOnPost, ReplacePlan, EvidenceMoves
  <1> QED
    BY <1>2, <1>5, <1>6, <1>8

LEMMA TriageAccepted ==
  ASSUME IInv, [Next]_vars, NEW r \in Runs, triage'[r] # triage[r]
  PROVE  TriageGuard(r)
  <1>1. TypeOK /\ LastDecisionHolds
    BY DEF IInv
  <1>2. PICK t \in Tabs, f \in Findings, status \in {"open", "needs_changes", "dismissed"} :
          DecideFinding(t, f, status)
    BY DEF Next, vars, StartRun, Dispatch, Finish, OpenPage, AdoptCopy, AdoptPlan,
         SaveRevision, ActOnPost, ReplacePlan, EvidenceMoves
  <1>3. r = page[t].run /\ Len(triage'[r]) = Len(triage[r]) + 1
    BY <1>2, DecideFindingKeeps
  <1>4. AsSeen(t) /\ run[r].profile = "editor"
    BY <1>2, <1>3 DEF DecideFinding
  <1>5. Reviewable(r) /\ MayGoOn(r)
    BY <1>3, <1>4, AsSeenFacts DEF Offered
  <1>6. run[r].input.source = post.revisions
    BY <1>1, <1>4, <1>5, MayGoOnFacts DEF Reviewable
  <1> QED
    BY <1>3, <1>5, <1>6 DEF TriageGuard, Reviewable

LEMMA AdoptionsAccepted ==
  ASSUME IInv, [Next]_vars, NEW a \in adoption' \ adoption
  PROVE  IF run[a.run].profile = "copywriter" THEN CopyGuard(a) ELSE PlanGuard(a)
  <1>1. TypeOK /\ LastDecisionHolds
    BY DEF IInv
  <1>2. \E t \in Tabs : AdoptCopy(t) \/ AdoptPlan(t)
    BY DEF Next, vars, StartRun, Dispatch, Finish, OpenPage, DecideFinding,
         SaveRevision, ActOnPost, ReplacePlan, EvidenceMoves
  <1>3. ASSUME NEW t \in Tabs, AdoptCopy(t)
        PROVE  run[a.run].profile = "copywriter" /\ CopyGuard(a)
    <2>1. /\ a = Adoption(page[t].run, post.revisions + 1, post.version + 1)
          /\ AsSeen(t) /\ run[page[t].run].profile = "copywriter" /\ post' = NextRevision
      BY <1>3 DEF AdoptCopy
    <2>2. /\ a.run = page[t].run /\ a.source = run[page[t].run].input.source
          /\ a.target = post.revisions + 1 /\ a.version = post.version + 1
      BY <2>1 DEF Adoption
    <2>3. a.run \in Runs /\ Reviewable(a.run) /\ MayGoOn(a.run)
      BY <2>1, <2>2, AsSeenFacts DEF Offered
    <2>4. /\ run[a.run].input.source = post.revisions
          /\ run[a.run].selection = head["copywriter"].selection
      BY <1>1, <2>1, <2>2, <2>3, MayGoOnFacts DEF Reviewable
    <2>5. post' = PostRow(a.target, a.version, "draft")
      BY <2>1, <2>2 DEF NextRevision
    <2> QED
      BY <2>1, <2>2, <2>3, <2>4, <2>5 DEF CopyGuard, Reviewable
  <1>4. ASSUME NEW t \in Tabs, AdoptPlan(t)
        PROVE  run[a.run].profile = "content_planner" /\ PlanGuard(a)
    <2>1. /\ a = Adoption(page[t].run, Len(plan) + 1, 0)
          /\ AsSeen(t) /\ run[page[t].run].profile = "content_planner"
          /\ plan' = Append(plan, [notes |-> run[page[t].run].gaps])
      BY <1>4 DEF AdoptPlan
    <2>2. /\ a.run = page[t].run /\ a.source = run[page[t].run].input.source
          /\ a.target = Len(plan) + 1
      BY <2>1 DEF Adoption
    <2>3. a.run \in Runs /\ Reviewable(a.run) /\ MayGoOn(a.run)
      BY <2>1, <2>2, AsSeenFacts DEF Offered
    <2>4. /\ run[a.run].input.source = Len(plan)
          /\ run[a.run].selection = head["content_planner"].selection
      BY <1>1, <2>1, <2>2, <2>3, MayGoOnFacts DEF Reviewable
    <2>5. Len(plan') = Len(plan) + 1
      BY <1>4, AdoptPlanKeeps
    <2>6. plan'[Len(plan) + 1].notes = run[a.run].gaps
      BY <1>1, <2>1, <2>2, PlanFacts
    <2> QED
      BY <2>1, <2>2, <2>3, <2>4, <2>5, <2>6 DEF PlanGuard, Reviewable
  <1> QED
    BY <1>2, <1>3, <1>4

\* No command of the services fails on a trigger of the database: what they check under
\* their locks implies what the triggers check (migrations 0011 to 0017).
THEOREM TriggersAccept == Spec => GuardsAccept
  <1>1. ASSUME IInv, [Next]_vars
        PROVE  /\ \A p \in Profiles : head'[p] # head[p] =>
                    HeadGuard(head[p], head'[p], version'[p], decision'[p])
               /\ \A r \in Runs :
                    /\ run'[r] # run[r] => RunGuard(run'[r])
                    /\ triage'[r] # triage[r] => TriageGuard(r)
               /\ \A a \in adoption' \ adoption :
                    IF run[a.run].profile = "copywriter" THEN CopyGuard(a) ELSE PlanGuard(a)
    <2>1. head' = head \/ RegistryNext
      BY <1>1 DEF Next, vars, registryVars, StartRun, Dispatch, Finish, OpenPage, AdoptCopy,
           AdoptPlan, DecideFinding, SaveRevision, ActOnPost, ReplacePlan, EvidenceMoves
    <2>2. \A p \in Profiles : head'[p] # head[p] =>
            HeadGuard(head[p], head'[p], version'[p], decision'[p])
      BY <1>1, <2>1, HeadsAccepted
    <2> QED
      BY <1>1, <2>2, RunsAccepted, TriageAccepted, AdoptionsAccepted
  <1> QED
    BY <1>1, Invariant, PTL DEF GuardsAccept, Spec
=============================================================================
