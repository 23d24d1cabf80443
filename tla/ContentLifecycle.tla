---------------------------- MODULE ContentLifecycle ----------------------------
(***************************************************************************)
(* Posts, their revisions, reviews, decisions and manual publication       *)
(* packages (services/content.py, content_preflight.py,                    *)
(* content_revision.py), over the ledger of ContentRecords.                *)
(*                                                                         *)
(* Every command is one transaction under the content lock of the          *)
(* workspace and therefore one action.  A command names the version of the *)
(* post its user read and is refused at any other, so an action is a       *)
(* command at the current version.  The ids of revisions, decisions and    *)
(* packages are their places in the post's sequences; a content hash is    *)
(* the revision it is the hash of.                                         *)
(***************************************************************************)
EXTENDS ContentRecords

CONSTANTS
  Posts,
  MaxVersion,    \* bound: changes of one post
  MaxRevisions,  \* bound: revisions of one post
  MaxPackages    \* bound: packages of one post

ASSUME LifecycleAssumption ==
  /\ MaxVersion \in Nat
  /\ MaxRevisions \in Nat
  /\ MaxPackages \in Nat

VARIABLES
  post,          \* posts
  revision,      \* post_revisions of each post
  review,        \* content_review_runs: the revisions a review was asked for
  decision,      \* content_decisions of each post
  package        \* publication_packages of each post, with their cancellations

postVars == <<post, revision, review, decision, package>>
vars == <<recordVars, postVars>>

-------------------------------------------------------------------------------
(* Posts and revisions *)

States == {"absent", "draft", "in_review", "rejected", "approved", "package_ready"}

Post(state, brief, version, current, approval) ==
  [state |-> state, brief |-> brief, version |-> version, current |-> current,
   approval |-> approval]

Absent == Post("absent", 0, 0, 0, 0)

\* The row after a command.
Moved(row, state, current, approval) ==
  Post(state, row.brief, row.version + 1, current, approval)

Exists(p) == post[p].state # "absent"

BrandOf(p) == ledger[post[p].brief].body.brand

\* What a revision says: its text, the facts it rests on, and whether it has a flaw of its
\* own (a gap, an unsafe link, too long, unfit media) that no record can cure.
Content == [text: Texts, facts: SUBSET Nat, flawed: BOOLEAN]

\* What the current revision says.
Saying(p) == revision[p][post[p].current]

-------------------------------------------------------------------------------
(* Preflight *)

\* The last confirmed record of every family of rules of the brand.
Rules(b) ==
  {i \in RecordsOf("brand_profile", b) \cup RecordsOf("claim_policy", b) :
     /\ ledger[i].confirmed
     /\ \A j \in ConfirmedOf(ledger[i].family) : ledger[j].number <= ledger[i].number}

SourceOf(i) == ledger[i].body.source
VersionOf(i) == ledger[i].body.version

\* Mutant: the source of a fact's product version is not checked.
EvidenceOfFacts(p, c) ==
  LET rules == Rules(BrandOf(p))
  IN c.facts \cup {SourceOf(f) : f \in c.facts} \cup {VersionOf(f) : f \in c.facts}
       \cup rules \cup {SourceOf(i) : i \in rules}

\* checked_record_ids.
Evidence(p, c) ==
  LET versions == {VersionOf(f) : f \in c.facts}
      rules    == Rules(BrandOf(p))
  IN c.facts \cup {SourceOf(f) : f \in c.facts} \cup versions \cup {SourceOf(v) : v \in versions}
       \cup rules \cup {SourceOf(i) : i \in rules}

\* preflight.passed for content c of post p at time t.
Passes(p, c, t) ==
  LET brief == ledger[post[p].brief]
      rules == Rules(BrandOf(p))
  IN /\ ~c.flawed
     /\ brief.expires > t
     /\ brief.body.product # None => c.facts # {}
     /\ \A f \in c.facts : ledger[VersionOf(f)].body.product = brief.body.product
     /\ \A i \in Evidence(p, c) : Current(i, t)
     /\ \A kind \in {"brand_profile", "claim_policy"} : \E i \in rules : ledger[i].body.kind = kind
     /\ \A i \in rules : c.text \notin ledger[i].body.forbids

-------------------------------------------------------------------------------
(* Commands on posts *)

\* Each changes one post and moves its version on.
May(p) == Exists(p) /\ post[p].version < MaxVersion

CreatePost(p, i) ==
  /\ ~Exists(p)
  /\ ledger[i].body.kind = "brief"
  /\ post' = [post EXCEPT ![p] = Post("draft", i, 1, 0, 0)]
  /\ UNCHANGED <<recordVars, revision, review, decision, package>>

\* save_revision: whatever the post was, it is a draft again.
Saved(row, n) ==
  Moved(row, "draft", n, 0)

SaveRevision(p, c) ==
  /\ May(p)
  /\ Len(revision[p]) < MaxRevisions
  /\ c.facts \subseteq RecordsOf("product_fact", BrandOf(p))
  /\ revision' = [revision EXCEPT ![p] = Append(@, c)]
  /\ post' = [post EXCEPT ![p] = Saved(@, Len(revision[p]) + 1)]
  /\ UNCHANGED <<recordVars, review, decision, package>>

\* Mutant: a review may be asked of a post in any state.
ReviewAgain(p) ==
  /\ May(p)
  /\ post[p].current # 0
  /\ review' = [review EXCEPT ![p] = Append(@, post[p].current)]
  /\ post' = [post EXCEPT ![p] = Moved(@, "in_review", @.current, @.approval)]
  /\ UNCHANGED <<recordVars, revision, decision, package>>

\* A review is recorded and opened whether or not the preflight passes.
RequestReview(p) ==
  /\ May(p)
  /\ post[p].current # 0
  /\ post[p].state \in {"draft", "rejected"}
  /\ review' = [review EXCEPT ![p] = Append(@, post[p].current)]
  /\ post' = [post EXCEPT ![p] = Moved(@, "in_review", @.current, @.approval)]
  /\ UNCHANGED <<recordVars, revision, decision, package>>

Decided(p, verdict) ==
  [revision |-> post[p].current, verdict |-> verdict, checked |-> Evidence(p, Saying(p))]

\* Mutant: a revision is decided on that nobody asked a review of.
DecideUnasked(p, r, verdict) ==
  /\ May(p)
  /\ r = post[p].current
  /\ r # 0
  /\ verdict = "approve" => Passes(p, Saying(p), now)
  /\ decision' = [decision EXCEPT ![p] = Append(@, Decided(p, verdict))]
  /\ post' = [post EXCEPT
       ![p] = IF verdict = "approve"
              THEN Moved(@, "approved", @.current, Len(decision[p]) + 1)
              ELSE Moved(@, "rejected", @.current, 0)]
  /\ UNCHANGED <<recordVars, revision, review, package>>

DecidePost(p, r, verdict) ==
  /\ May(p)
  /\ r = post[p].current
  /\ post[p].state = "in_review"
  /\ verdict = "approve" => Passes(p, Saying(p), now)
  /\ decision' = [decision EXCEPT ![p] = Append(@, Decided(p, verdict))]
  /\ post' = [post EXCEPT
       ![p] = IF verdict = "approve"
              THEN Moved(@, "approved", @.current, Len(decision[p]) + 1)
              ELSE Moved(@, "rejected", @.current, 0)]
  /\ UNCHANGED <<recordVars, revision, review, package>>

\* Mutant: the package is checked afresh and not against the approval.
StandsAlone(p, d, t) ==
  /\ d.revision = post[p].current
  /\ d.verdict = "approve"
  /\ Passes(p, Saying(p), t)

\* The decision approved this revision, on the very records the checks meet now.
Stands(p, d, t) ==
  /\ d.revision = post[p].current
  /\ d.verdict = "approve"
  /\ Passes(p, Saying(p), t)
  /\ d.checked = Evidence(p, Saying(p))

Prepared(p, t) ==
  [revision |-> post[p].current, approval |-> post[p].approval, scheduled |-> t,
   checked |-> Evidence(p, Saying(p)), cancelled |-> FALSE]

PreparePackage(p, r, t) ==
  /\ May(p)
  /\ Len(package[p]) < MaxPackages
  /\ r = post[p].current
  /\ post[p].state = "approved"
  /\ post[p].approval # 0
  /\ t > now
  /\ Stands(p, decision[p][post[p].approval], t)
  /\ package' = [package EXCEPT ![p] = Append(@, Prepared(p, t))]
  /\ post' = [post EXCEPT ![p] = Moved(@, "package_ready", @.current, @.approval)]
  /\ UNCHANGED <<recordVars, revision, review, decision>>

\* The package is of the revision and the approval the post has now.
OfThePost(p, k) ==
  /\ package[p][k].revision = post[p].current
  /\ package[p][k].approval = post[p].approval

\* Mutant: cancelling any package of a post sends it back to approved.
CancelAny(p, k) ==
  /\ May(p)
  /\ ~package[p][k].cancelled
  /\ package' = [package EXCEPT ![p][k].cancelled = TRUE]
  /\ post' = [post EXCEPT ![p] = Moved(@, "approved", @.current, @.approval)]
  /\ UNCHANGED <<recordVars, revision, review, decision>>

CancelPackage(p, k) ==
  /\ May(p)
  /\ ~package[p][k].cancelled
  /\ package' = [package EXCEPT ![p][k].cancelled = TRUE]
  /\ post' = [post EXCEPT
       ![p] = Moved(@, IF OfThePost(p, k) THEN "approved" ELSE @.state, @.current, @.approval)]
  /\ UNCHANGED <<recordVars, revision, review, decision>>

\* What a reader of a package is told.
Status(p, k) ==
  IF package[p][k].cancelled THEN "cancelled"
  ELSE IF ~OfThePost(p, k) THEN "stale"
  ELSE IF package[p][k].scheduled <= now THEN "expired"
  ELSE IF /\ Passes(p, Saying(p), package[p][k].scheduled)
          /\ Evidence(p, Saying(p)) = package[p][k].checked
       THEN "active"
       ELSE "stale"

-------------------------------------------------------------------------------
(* Specification *)

PostsInit ==
  /\ post = [p \in Posts |-> Absent]
  /\ revision = [p \in Posts |-> <<>>]
  /\ review = [p \in Posts |-> <<>>]
  /\ decision = [p \in Posts |-> <<>>]
  /\ package = [p \in Posts |-> <<>>]

Init == RecordsInit /\ PostsInit

Contents(p) ==
  [text: Texts, facts: SUBSET RecordsOf("product_fact", BrandOf(p)), flawed: BOOLEAN]

PostsNext ==
  \E p \in Posts :
    \/ \E i \in Records : CreatePost(p, i)
    \/ Exists(p) /\ \E c \in Contents(p) : SaveRevision(p, c)
    \/ RequestReview(p)
    \/ \E r \in 1..Len(revision[p]), verdict \in {"approve", "reject"} :
         DecidePost(p, r, verdict)
    \/ \E r \in 1..Len(revision[p]), t \in 1..MaxTime + 1 : PreparePackage(p, r, t)
    \/ \E k \in 1..Len(package[p]) : CancelPackage(p, k)

Next == PostsNext \/ (RecordsNext /\ UNCHANGED postVars)

Spec == Init /\ [][Next]_vars

-------------------------------------------------------------------------------
(* Properties *)

TypeOK ==
  /\ RecordsTypeOK
  /\ post \in [Posts -> [state: States, brief: Nat, version: Nat, current: Nat, approval: Nat]]
  /\ revision \in [Posts -> Seq(Content)]
  /\ review \in [Posts -> Seq(Nat)]
  /\ decision \in [Posts -> Seq([revision: Nat, verdict: {"approve", "reject"},
                                 checked: SUBSET Nat])]
  /\ package \in [Posts -> Seq([revision: Nat, approval: Nat, scheduled: Nat,
                                checked: SUBSET Nat, cancelled: BOOLEAN])]
  /\ \A p \in Posts : Exists(p) => post[p].version # 0 /\ post[p].brief \in Records

Live(p) == {k \in 1..Len(package[p]) : ~package[p][k].cancelled /\ OfThePost(p, k)}

\* A post is approved exactly while it names an approval, and that decision is an approval
\* of the revision it has now and of no other; it is package_ready exactly while it has a
\* package that is neither cancelled nor overtaken (content.py:180-193, 280-286, 334,
\* content_revision.py:39-43).
ApprovalIsCurrent ==
  \A p \in Posts :
    /\ post[p].state \in {"approved", "package_ready"} <=> post[p].approval # 0
    /\ post[p].approval # 0 =>
         /\ post[p].approval \in 1..Len(decision[p])
         /\ decision[p][post[p].approval].verdict = "approve"
         /\ decision[p][post[p].approval].revision = post[p].current
    /\ post[p].state = "package_ready" <=> Live(p) # {}

\* A package is of the revision that its approval approved, on the records that approval
\* checked, whatever happened to post and records in between (content.py:290-309).
PackageAsApproved ==
  \A p \in Posts : \A k \in 1..Len(package[p]) :
    LET pkg == package[p][k]
    IN /\ decision[p][pkg.approval].verdict = "approve"
       /\ decision[p][pkg.approval].revision = pkg.revision
       /\ decision[p][pkg.approval].checked = pkg.checked

Count(seq, Test(_)) == Cardinality({n \in 1..Len(seq) : Test(seq[n])})

\* Every decision answers a review of its own that was asked for the same revision, and
\* a review stays open only while the post is in review (content.py:245-263).
DecisionsAnswerReviews ==
  \A p \in Posts : \A r \in 1..Len(revision[p]) :
    LET asked   == Count(review[p], LAMBDA x : x = r)
        decided == Count(decision[p], LAMBDA x : x.revision = r)
    IN /\ decided <= asked /\ asked <= decided + 1
       /\ r = post[p].current => (asked = decided + 1 <=> post[p].state = "in_review")

\* All that some records rest on: two steps reach from a fact to its version's source.
RestsOn(S) == S \cup UNION {References(ledger[i].body) : i \in S}

\* A package shown as active stands as it was approved: all that its facts and the rules
\* in force rest on is confirmed, not replaced and good beyond the scheduled time, it is
\* what the approver's checks covered, and no rule in force forbids the text
\* (content.py:518-553 against content_preflight.py:44-120).
ActivePackageStands ==
  \A p \in Posts : \A k \in 1..Len(package[p]) : Status(p, k) = "active" =>
    LET pkg   == package[p][k]
        says  == revision[p][pkg.revision]
        rules == {i \in Records : /\ ledger[i].body.kind \in {"brand_profile", "claim_policy"}
                                  /\ ledger[i].body.brand = BrandOf(p)
                                  /\ Current(i, pkg.scheduled)}
        base  == RestsOn(RestsOn(says.facts \cup rules))
    IN /\ post[p].state = "package_ready"
       /\ base = decision[p][pkg.approval].checked
       /\ \A i \in base : Current(i, pkg.scheduled)
       /\ \A i \in rules : says.text \notin ledger[i].body.forbids

\* The version of a post counts its changes and the cancellations of its packages one by
\* one, so that a command given at the version its user read meets the post he read
\* (content.py:176, 188, 233, 258, 282, 335).
VersionCounts ==
  [][\A p \in Posts :
       post[p] # post'[p] \/ package[p] # package'[p] \/ decision[p] # decision'[p]
         => post'[p].version = post[p].version + 1]_vars

-------------------------------------------------------------------------------
(* The promise of publication *)

\* By the decisions there are, whatever the row of the post says: the last approved the
\* revision it has now.
Approved(p) ==
  LET last == Len(decision[p])
  IN /\ last # 0
     /\ decision[p][last].verdict = "approve"
     /\ decision[p][last].revision = post[p].current

\* By the packages there are, whichever approval they name.
Offered(p) ==
  {k \in 1..Len(package[p]) :
     ~package[p][k].cancelled /\ package[p][k].revision = post[p].current}

Shelf ==
  [p \in Posts |-> [text |-> post[p].current, approved |-> Approved(p),
                    issued |-> Len(package[p]), offered |-> Offered(p)]]

Promise == INSTANCE Publication WITH shelf <- Shelf

\* Every command is one step of the abstract publication or none: what people write,
\* approve, prepare and cancel in any order never offers a text nobody approved, two
\* packages at once or an old package again, and nothing but a new text takes an approval
\* back (content.py:176-193, 245-309, content_revision.py:39-43).
KeepsPublication == Promise!Spec

===============================================================================
