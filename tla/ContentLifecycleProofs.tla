------------------------ MODULE ContentLifecycleProofs ------------------------
(***************************************************************************)
(* Proofs about ContentLifecycle, for every instance of it.                *)
(*                                                                         *)
(* A post, its approval and its packages tell one story.  None of the      *)
(* properties is inductive alone; LInv adds that a post that does not      *)
(* exist has nothing, that the records a revision names are in the ledger  *)
(* (which only grows), and that every package names a decision its post    *)
(* has had.  RInv does the same for the ledger: bodies name earlier        *)
(* records of the right kinds, and numbers count families.  The two        *)
(* together say on what an active package rests; AInv adds the balance of  *)
(* reviews and decisions, and TInv that they tell the same as the rows,    *)
(* which the refinement of Publication rests on.                           *)
(***************************************************************************)
EXTENDS ContentLifecycle, FiniteSetTheorems, SequenceTheorems, TLAPS

BodyType ==
  [kind: Kinds, brand: Brands, product: Products \cup {None}, source: Nat, version: Nat,
   hypothesis: BOOLEAN, forbids: SUBSET Texts]

RowType ==
  [family: Nat, number: Nat \ {0}, confirmed: BOOLEAN, expires: Nat, body: BodyType]

DecisionType == [revision: Nat, verdict: {"approve", "reject"}, checked: SUBSET Nat]

PackageType ==
  [revision: Nat, approval: Nat, scheduled: Nat, checked: SUBSET Nat, cancelled: BOOLEAN]

\* A fact is about a product version that is in the ledger.
FactsHaveVersions ==
  \A i \in Records : ledger[i].body.kind = "product_fact" => ledger[i].body.version \in Records

LedgerOK == RecordsTypeOK /\ FactsHaveVersions

-------------------------------------------------------------------------------
(* Lemmas about sequences and the ledger *)

\* Appending a row keeps the others where they are.
LEMMA Appended ==
  ASSUME NEW S, NEW s \in Seq(S), NEW x \in S
  PROVE  /\ Append(s, x) \in Seq(S)
         /\ Len(Append(s, x)) = Len(s) + 1
         /\ Len(s) \in Nat
         /\ \A n \in 1..Len(s) : Append(s, x)[n] = s[n]
         /\ Append(s, x)[Len(s) + 1] = x
BY AppendProperties, LenProperties

\* Whatever a user may write as the body of a record is one, and a fact's version exists.
LEMMA BodiesAreBodies ==
  ASSUME RecordsTypeOK, NEW kind \in Kinds, NEW b \in Brands, NEW body \in Bodies(kind, b)
  PROVE  /\ body \in BodyType
         /\ body.kind = kind
         /\ kind = "product_fact" => body.version \in Records
<1>1. Len(ledger) \in Nat
  BY LenProperties DEF RecordsTypeOK
<1>2. \A k, c : RecordsOf(k, c) \subseteq Records /\ Records \subseteq Nat
  BY <1>1 DEF RecordsOf, Records
<1>3. CASE kind = "source_item"
  <2>0. Bodies(kind, b) =
          {Body("source_item", b, None, 0, 0, h, {}) : h \in BOOLEAN}
    BY <1>3 DEF Bodies
  <2>1. PICK h \in BOOLEAN : body = Body("source_item", b, None, 0, 0, h, {})
    BY <2>0
  <2> QED
    BY <2>1, <1>3 DEF Body, BodyType, Kinds
<1>4. CASE kind = "product_version"
  <2>0. Bodies(kind, b) =
          UNION {{Body("product_version", b, q, i, 0, FALSE, {}) : q \in Products} :
                   i \in RecordsOf("source_item", b)}
    BY <1>4 DEF Bodies
  <2>1. PICK q \in Products, i \in RecordsOf("source_item", b) :
          body = Body("product_version", b, q, i, 0, FALSE, {})
    BY <2>0
  <2> QED
    BY <2>1, <1>2, <1>4 DEF Body, BodyType, Kinds
<1>5. CASE kind = "product_fact"
  <2>0. Bodies(kind, b) =
          UNION {{Body("product_fact", b, None, i, j, FALSE, {}) :
                    j \in RecordsOf("product_version", b)} : i \in RecordsOf("source_item", b)}
    BY <1>5 DEF Bodies
  <2>1. PICK i \in RecordsOf("source_item", b), j \in RecordsOf("product_version", b) :
          body = Body("product_fact", b, None, i, j, FALSE, {})
    BY <2>0
  <2> QED
    BY <2>1, <1>2, <1>5 DEF Body, BodyType, Kinds
<1>6. CASE kind = "brand_profile"
  <2>0. Bodies(kind, b) =
          {Body("brand_profile", b, None, i, 0, FALSE, {}) :
          i \in RecordsOf("source_item", b)}
    BY <1>6 DEF Bodies
  <2>1. PICK i \in RecordsOf("source_item", b) : body = Body("brand_profile", b, None, i, 0, FALSE, {})
    BY <2>0
  <2> QED
    BY <2>1, <1>2, <1>6 DEF Body, BodyType, Kinds
<1>7. CASE kind = "claim_policy"
  <2>0. Bodies(kind, b) =
          UNION {{Body("claim_policy", b, None, i, 0, FALSE, t) : t \in SUBSET Texts} :
                   i \in RecordsOf("source_item", b)}
    BY <1>7 DEF Bodies
  <2>1. PICK i \in RecordsOf("source_item", b), t \in SUBSET Texts :
          body = Body("claim_policy", b, None, i, 0, FALSE, t)
    BY <2>0
  <2> QED
    BY <2>1, <1>2, <1>7 DEF Body, BodyType, Kinds
<1>8. CASE kind = "brief"
  <2>0. Bodies(kind, b) =
          {Body("brief", b, q, 0, 0, FALSE, {}) : q \in Products \cup {None}}
    BY <1>8 DEF Bodies
  <2>1. PICK q \in Products \cup {None} : body = Body("brief", b, q, 0, 0, FALSE, {})
    BY <2>0
  <2> QED
    BY <2>1, <1>8 DEF Body, BodyType, Kinds
<1> QED
  BY <1>3, <1>4, <1>5, <1>6, <1>7, <1>8 DEF Kinds

\* The ledger only grows: what is in it stays as it is.
LedgerGrows == Records \subseteq Records' /\ \A i \in Records : ledger'[i] = ledger[i]

\* Writing a row that is one keeps the ledger in order.
LEMMA WriteKeeps ==
  ASSUME LedgerOK, NEW family \in Nat, NEW number \in Nat \ {0}, NEW body \in BodyType,
         NEW confirmed \in BOOLEAN, NEW expires \in Nat,
         body.kind = "product_fact" => body.version \in Records,
         Write(family, number, body, confirmed, expires)
  PROVE  LedgerOK' /\ LedgerGrows
<1> DEFINE row == [family |-> family, number |-> number, body |-> body,
                   confirmed |-> confirmed, expires |-> expires]
<1>1. ledger \in Seq(RowType) /\ row \in RowType /\ now \in Nat
  BY DEF LedgerOK, RecordsTypeOK, RowType, BodyType
<1>2. ledger' = Append(ledger, row) /\ now' = now
  BY DEF Write
<1>3. /\ ledger' \in Seq(RowType) /\ Len(ledger') = Len(ledger) + 1 /\ Len(ledger) \in Nat
      /\ \A i \in 1..Len(ledger) : ledger'[i] = ledger[i]
      /\ ledger'[Len(ledger) + 1] = row
  BY <1>1, <1>2, Appended
<1>4. LedgerGrows
  BY <1>3 DEF LedgerGrows, Records
<1>5. RecordsTypeOK'
  BY <1>1, <1>2, <1>3 DEF RecordsTypeOK, RowType, BodyType
<1>6. FactsHaveVersions'
  <2> SUFFICES ASSUME NEW i \in Records', ledger'[i].body.kind = "product_fact"
               PROVE  ledger'[i].body.version \in Records'
    BY DEF FactsHaveVersions
  <2>1. CASE i \in Records
    BY <2>1, <1>4 DEF LedgerOK, FactsHaveVersions, LedgerGrows
  <2>2. CASE i \notin Records
    <3>1. i = Len(ledger) + 1
      BY <2>2, <1>3 DEF Records
    <3> QED
      BY <3>1, <1>3, <1>4 DEF LedgerGrows
  <2> QED
    BY <2>1, <2>2
<1> QED
  BY <1>4, <1>5, <1>6 DEF LedgerOK

LEMMA RecordsKept ==
  ASSUME LedgerOK, RecordsNext
  PROVE  LedgerOK' /\ LedgerGrows
<1>1. /\ ledger \in Seq(RowType) /\ now \in Nat /\ Len(ledger) \in Nat
      /\ \A i \in Records : ledger[i] \in RowType
  BY LenProperties, ElementOfSeq DEF LedgerOK, RecordsTypeOK, RowType, BodyType, Records
<1>2. ASSUME NEW kind \in Created, NEW b \in Brands, NEW body \in Bodies(kind, b),
             NEW t \in 1..MaxTime + 1, CreateRecord(body, t)
      PROVE  LedgerOK' /\ LedgerGrows
  <2>1. body \in BodyType /\ (body.kind = "product_fact" => body.version \in Records)
    BY BodiesAreBodies, CreatedAssumption DEF LedgerOK
  <2>2. t \in Nat /\ Len(ledger) + 1 \in Nat /\ 1 \in Nat \ {0} /\ FALSE \in BOOLEAN
    BY <1>1, RecordsAssumption
  <2>3. Write(Len(ledger) + 1, 1, body, FALSE, t)
    BY <1>2 DEF CreateRecord
  <2> QED
    BY <2>1, <2>2, <2>3, WriteKeeps
<1>3. ASSUME NEW kind \in Created, NEW b \in Brands, NEW body \in Bodies(kind, b),
             NEW t \in 1..MaxTime + 1, NEW i \in Records, ReplaceRecord(i, body, t)
      PROVE  LedgerOK' /\ LedgerGrows
  <2>1. body \in BodyType /\ (body.kind = "product_fact" => body.version \in Records)
    BY BodiesAreBodies, CreatedAssumption DEF LedgerOK
  <2>2. t \in Nat /\ ledger[i].family \in Nat /\ ledger[i].number + 1 \in Nat \ {0}
    BY <1>1, RecordsAssumption DEF RowType
  <2> QED
    BY <2>1, <2>2, <1>3, WriteKeeps DEF ReplaceRecord
<1>4. ASSUME NEW i \in Records, ConfirmRecord(i)
      PROVE  LedgerOK' /\ LedgerGrows
  <2>1. /\ ledger[i].body \in BodyType /\ ledger[i].expires \in Nat
        /\ ledger[i].family \in Nat /\ ledger[i].number + 1 \in Nat \ {0}
    BY <1>1 DEF RowType
  <2>2. ledger[i].body.kind = "product_fact" => ledger[i].body.version \in Records
    BY DEF LedgerOK, FactsHaveVersions
  <2> QED
    BY <2>1, <2>2, <1>4, WriteKeeps DEF ConfirmRecord
<1>5. CASE Tick
  BY <1>1, <1>5 DEF Tick, LedgerOK, RecordsTypeOK, FactsHaveVersions, LedgerGrows, Records
<1> QED
  BY <1>2, <1>3, <1>4, <1>5 DEF RecordsNext

-------------------------------------------------------------------------------
(* The invariant *)

PostType == [state: States, brief: Nat, version: Nat, current: Nat, approval: Nat]

PostsTypeOK ==
  /\ post \in [Posts -> PostType]
  /\ revision \in [Posts -> Seq(Content)]
  /\ review \in [Posts -> Seq(Nat)]
  /\ decision \in [Posts -> Seq(DecisionType)]
  /\ package \in [Posts -> Seq(PackageType)]

\* A post that does not exist has nothing; one that does has a brief and a version.
Existing(p) ==
  /\ Exists(p) => post[p].version # 0 /\ post[p].brief \in Records
  /\ ~Exists(p) => post[p] = Absent /\ Len(revision[p]) = 0 /\ Len(package[p]) = 0

\* Facts are facts of the ledger, and the current revision is one of the post's.
RevisionsOK(p) ==
  /\ post[p].current \in 0..Len(revision[p])
  /\ \A n \in 1..Len(revision[p]) :
       revision[p][n].facts \subseteq {i \in Records : ledger[i].body.kind = "product_fact"}

\* ApprovalIsCurrent, for one post.
ApprovalOK(p) ==
  /\ post[p].state \in {"approved", "package_ready"} <=> post[p].approval # 0
  /\ post[p].approval # 0 =>
       /\ post[p].approval \in 1..Len(decision[p])
       /\ decision[p][post[p].approval].verdict = "approve"
       /\ decision[p][post[p].approval].revision = post[p].current

\* PackageAsApproved, for one package d of a post; both it names are ones its post has had.
PackageOK(p, d) ==
  /\ d.revision \in 1..Len(revision[p])
  /\ d.approval \in 1..Len(decision[p])
  /\ decision[p][d.approval].verdict = "approve"
  /\ decision[p][d.approval].revision = d.revision
  /\ decision[p][d.approval].checked = d.checked

PackagesOK(p) == \A k \in 1..Len(package[p]) : PackageOK(p, package[p][k])

\* A post has one live package at most, and one exactly while it is package_ready.
LiveOK(p) ==
  /\ \A k, l \in Live(p) : k = l
  /\ post[p].state = "package_ready" <=> Live(p) # {}

RowOK(p) == Existing(p) /\ RevisionsOK(p) /\ ApprovalOK(p) /\ PackagesOK(p) /\ LiveOK(p)

LInv == LedgerOK /\ PostsTypeOK /\ \A p \in Posts : RowOK(p)

\* What the invariant says of the rows of one post.
LEMMA RowTypes ==
  ASSUME PostsTypeOK, NEW p \in Posts
  PROVE  /\ post[p] \in PostType
         /\ revision[p] \in Seq(Content) /\ Len(revision[p]) \in Nat
         /\ review[p] \in Seq(Nat) /\ Len(review[p]) \in Nat
         /\ decision[p] \in Seq(DecisionType) /\ Len(decision[p]) \in Nat
         /\ package[p] \in Seq(PackageType) /\ Len(package[p]) \in Nat
         /\ \A n \in 1..Len(revision[p]) : revision[p][n] \in Content
         /\ \A n \in 1..Len(decision[p]) : decision[p][n] \in DecisionType
         /\ \A n \in 1..Len(package[p]) : package[p][n] \in PackageType
BY LenProperties, ElementOfSeq DEF PostsTypeOK

\* The records a preflight looks at are ids.
LEMMA EvidenceIsRecords ==
  ASSUME LedgerOK, NEW p, NEW c,
         c.facts \subseteq {i \in Records : ledger[i].body.kind = "product_fact"}
  PROVE  Evidence(p, c) \in SUBSET Nat
<1>1. /\ Records \subseteq Nat
      /\ \A i \in Records : ledger[i].body.source \in Nat /\ ledger[i].body.version \in Nat
  <2>1. ledger \in Seq(RowType) /\ Len(ledger) \in Nat
    BY LenProperties DEF LedgerOK, RecordsTypeOK, RowType, BodyType
  <2>2. \A i \in Records : ledger[i] \in RowType
    BY <2>1, ElementOfSeq DEF Records
  <2>3. \A i \in Records : ledger[i].body \in BodyType
    BY <2>2 DEF RowType
  <2>4. Records \subseteq Nat
    BY <2>1 DEF Records
  <2>5. \A x \in BodyType : x.source \in Nat /\ x.version \in Nat
    BY DEF BodyType
  <2> QED
    BY <2>3, <2>4, <2>5
<1>2. \A f \in c.facts : f \in Records /\ VersionOf(f) \in Records
  BY DEF LedgerOK, FactsHaveVersions, VersionOf
<1>3. Rules(BrandOf(p)) \subseteq Records
  BY DEF Rules, RecordsOf
<1> DEFINE versions == {VersionOf(f) : f \in c.facts}
           rules    == Rules(BrandOf(p))
<1>4. c.facts \subseteq Nat /\ versions \subseteq Records /\ versions \subseteq Nat
  BY <1>1, <1>2
<1>5. rules \subseteq Nat /\ {SourceOf(i) : i \in rules} \subseteq Nat
  BY <1>1, <1>3 DEF SourceOf
<1>6. {SourceOf(f) : f \in c.facts} \subseteq Nat
  BY <1>1, <1>2 DEF SourceOf
<1>7. {SourceOf(v) : v \in versions} \subseteq Nat
  <2> HIDE DEF versions
  <2> QED
    BY <1>1, <1>4 DEF SourceOf
<1>8. Evidence(p, c) = c.facts \cup {SourceOf(f) : f \in c.facts} \cup versions
                         \cup {SourceOf(v) : v \in versions}
                         \cup rules \cup {SourceOf(i) : i \in rules}
  BY DEF Evidence
<1> HIDE DEF versions, rules
<1> QED
  BY <1>4, <1>5, <1>6, <1>7, <1>8

-------------------------------------------------------------------------------
(* Every step keeps the invariant *)

\* The tables hold the same of post p as before.
Untouched(p) ==
  /\ post'[p] = post[p]
  /\ revision'[p] = revision[p]
  /\ decision'[p] = decision[p]
  /\ package'[p] = package[p]

\* What a step does not touch stays in order, however the ledger grows.
LEMMA UntouchedKeeps ==
  ASSUME LedgerGrows, NEW p \in Posts, RowOK(p), Untouched(p)
  PROVE  RowOK(p)'
<1>1. Existing(p)'
  BY DEF Existing, Exists, RowOK, Untouched, LedgerGrows
<1>2. RevisionsOK(p)'
  BY DEF RevisionsOK, RowOK, Untouched, LedgerGrows
<1>3. ApprovalOK(p)'
  BY DEF ApprovalOK, RowOK, Untouched
<1>4. PackagesOK(p)'
  BY DEF PackagesOK, PackageOK, RowOK, Untouched
<1>5. LiveOK(p)'
  BY DEF LiveOK, Live, OfThePost, RowOK, Untouched
<1> QED
  BY <1>1, <1>2, <1>3, <1>4, <1>5 DEF RowOK

\* A command on p keeps the invariant if it keeps the types and leaves p in order.
LEMMA CommandKeeps ==
  ASSUME LInv, UNCHANGED recordVars, PostsTypeOK', NEW p \in Posts, RowOK(p)',
         \A q \in Posts \ {p} : Untouched(q)
  PROVE  LInv'
<1>1. LedgerOK' /\ LedgerGrows
  BY DEF LInv, LedgerOK, RecordsTypeOK, FactsHaveVersions, LedgerGrows, recordVars, Records
<1>2. \A q \in Posts \ {p} : RowOK(q)'
  BY <1>1, UntouchedKeeps DEF LInv
<1> QED
  BY <1>1, <1>2 DEF LInv

\* A package stays in order while its post gets more revisions and decisions.
LEMMA PackageKept ==
  ASSUME NEW p \in Posts, NEW d, PackageOK(p, d),
         Len(revision[p]) \in Nat, Len(revision'[p]) \in Nat,
         Len(revision[p]) <= Len(revision'[p]),
         Len(decision[p]) \in Nat, Len(decision'[p]) \in Nat,
         Len(decision[p]) <= Len(decision'[p]),
         \A n \in 1..Len(decision[p]) : decision'[p][n] = decision[p][n]
  PROVE  /\ d.revision \in 1..Len(revision'[p])
         /\ d.approval \in 1..Len(decision'[p])
         /\ decision'[p][d.approval].verdict = "approve"
         /\ decision'[p][d.approval].revision = d.revision
         /\ decision'[p][d.approval].checked = d.checked
<1>1. d.revision \in 1..Len(revision[p]) /\ d.approval \in 1..Len(decision[p])
  BY DEF PackageOK
<1>2. d.revision \in 1..Len(revision'[p]) /\ d.approval \in 1..Len(decision'[p])
  BY <1>1
<1>3. decision'[p][d.approval] = decision[p][d.approval]
  BY <1>1
<1> QED
  BY <1>2, <1>3 DEF PackageOK

LEMMA CreatePostKeeps ==
  ASSUME LInv, NEW p \in Posts, NEW i \in Records, CreatePost(p, i)
  PROVE  LInv'
<1> DEFINE row == Post("draft", i, 1, 0, 0)
<1>1. post \in [Posts -> PostType] /\ i \in Nat /\ row \in PostType
  BY LenProperties DEF LInv, LedgerOK, RecordsTypeOK, PostsTypeOK, PostType, Post, States, Records
<1>2. /\ post' = [post EXCEPT ![p] = row]
      /\ UNCHANGED <<recordVars, revision, review, decision, package>>
  BY DEF CreatePost
<1>3. PostsTypeOK' /\ post'[p] = row
  BY <1>1, <1>2 DEF LInv, PostsTypeOK
<1>4. Len(revision[p]) = 0 /\ Len(package[p]) = 0
  BY DEF LInv, RowOK, Existing, CreatePost
<1>5. Live(p)' = {}
  BY <1>2, <1>4 DEF Live
<1>6. RowOK(p)'
  BY <1>2, <1>3, <1>4, <1>5
     DEF RowOK, Existing, Exists, RevisionsOK, ApprovalOK, PackagesOK, LiveOK, recordVars, Records,
         Post
<1>7. \A q \in Posts \ {p} : Untouched(q)
  BY <1>1, <1>2 DEF Untouched
<1> QED
  BY <1>2, <1>3, <1>6, <1>7, CommandKeeps

LEMMA SaveRevisionKeeps ==
  ASSUME LInv, NEW p \in Posts, NEW c \in Content, SaveRevision(p, c)
  PROVE  LInv'
<1> DEFINE n   == Len(revision[p]) + 1
           row == Moved(post[p], "draft", n, 0)
<1>1. /\ PostsTypeOK /\ RowOK(p) /\ Exists(p)
      /\ post \in [Posts -> PostType] /\ post[p] \in PostType
      /\ revision \in [Posts -> Seq(Content)] /\ revision[p] \in Seq(Content)
      /\ Len(revision[p]) \in Nat
  BY RowTypes DEF LInv, PostsTypeOK, SaveRevision, May
<1>2. Saved(post[p], n) = row /\ row \in PostType
  BY <1>1 DEF Saved, Moved, Post, PostType, States
<1>3. /\ post' = [post EXCEPT ![p] = row]
      /\ revision' = [revision EXCEPT ![p] = Append(revision[p], c)]
      /\ UNCHANGED <<recordVars, review, decision, package>>
  BY <1>1, <1>2 DEF SaveRevision
<1>4. /\ Append(revision[p], c) \in Seq(Content) /\ Len(Append(revision[p], c)) = n
      /\ \A m \in 1..Len(revision[p]) : Append(revision[p], c)[m] = revision[p][m]
      /\ Append(revision[p], c)[n] = c
  BY <1>1, Appended
<1>5. /\ PostsTypeOK' /\ post'[p] = row /\ revision'[p] \in Seq(Content)
      /\ Len(revision'[p]) = n /\ revision'[p][n] = c
      /\ \A m \in 1..Len(revision[p]) : revision'[p][m] = revision[p][m]
  BY <1>1, <1>2, <1>3, <1>4 DEF PostsTypeOK
<1>6. Existing(p)'
  BY <1>1, <1>3, <1>5 DEF RowOK, Existing, Exists, recordVars, Records, PostType, Moved, Post
<1>7. RevisionsOK(p)'
  <2>1. c.facts \subseteq {i \in Records : ledger[i].body.kind = "product_fact"}
    BY DEF SaveRevision, RecordsOf
  <2>2. \A m \in 1..n : m \in 1..Len(revision[p]) \/ m = n
    BY <1>1
  <2> QED
    BY <1>1, <1>3, <1>5, <2>1, <2>2 DEF RowOK, RevisionsOK, recordVars, Records, Moved, Post
<1>8. ApprovalOK(p)'
  BY <1>5 DEF ApprovalOK, Moved, Post
<1>9. PackagesOK(p)'
  <2> SUFFICES ASSUME NEW k \in 1..Len(package[p])
               PROVE  PackageOK(p, package[p][k])'
    BY <1>3 DEF PackagesOK
  <2>1. PackageOK(p, package[p][k]) /\ Len(decision[p]) \in Nat
    BY <1>1, RowTypes DEF RowOK, PackagesOK
  <2> QED
    BY <1>1, <1>3, <1>5, <2>1, PackageKept DEF PackageOK
<1>10. Live(p)' = {}
  BY <1>1, <1>3, <1>5 DEF RowOK, PackagesOK, PackageOK, Live, OfThePost, Moved, Post
<1>11. RowOK(p)'
  BY <1>5, <1>6, <1>7, <1>8, <1>9, <1>10 DEF RowOK, LiveOK, Moved, Post
<1>12. \A q \in Posts \ {p} : Untouched(q)
  BY <1>1, <1>3 DEF Untouched
<1> QED
  BY <1>3, <1>5, <1>11, <1>12, CommandKeeps

LEMMA RequestReviewKeeps ==
  ASSUME LInv, NEW p \in Posts, RequestReview(p)
  PROVE  LInv'
<1> DEFINE row == Moved(post[p], "in_review", post[p].current, post[p].approval)
<1>1. /\ PostsTypeOK /\ RowOK(p) /\ Exists(p) /\ post[p] \in PostType
      /\ post[p].state \in {"draft", "rejected"}
      /\ review[p] \in Seq(Nat) /\ post[p].current \in Nat
  BY RowTypes DEF LInv, RequestReview, May, PostType
<1>2. /\ post' = [post EXCEPT ![p] = row]
      /\ review' = [review EXCEPT ![p] = Append(review[p], post[p].current)]
      /\ UNCHANGED <<recordVars, revision, decision, package>>
  BY DEF RequestReview, PostsTypeOK
<1>3. Append(review[p], post[p].current) \in Seq(Nat)
  BY <1>1, Appended
<1>4. /\ post' \in [Posts -> PostType] /\ post'[p] = row
      /\ post'[p].state = "in_review" /\ post'[p].version = post[p].version + 1
      /\ post'[p].current = post[p].current /\ post'[p].approval = post[p].approval
      /\ post'[p].brief = post[p].brief
      /\ \A q \in Posts \ {p} : post'[q] = post[q]
  BY <1>1, <1>2 DEF PostsTypeOK, PostType, States, Moved, Post
<1>5. PostsTypeOK'
  BY <1>1, <1>2, <1>3, <1>4 DEF PostsTypeOK
<1>6. Existing(p)' /\ RevisionsOK(p)'
  BY <1>1, <1>2, <1>4 DEF RowOK, Existing, Exists, RevisionsOK, recordVars, Records, PostType
<1>7. ApprovalOK(p)'
  BY <1>1, <1>2, <1>4 DEF RowOK, ApprovalOK
<1>8. PackagesOK(p)'
  BY <1>1, <1>2 DEF RowOK, PackagesOK, PackageOK
<1>9. Live(p)' = Live(p) /\ Live(p) = {}
  BY <1>1, <1>2, <1>4 DEF RowOK, LiveOK, Live, OfThePost
<1>10. RowOK(p)'
  BY <1>4, <1>6, <1>7, <1>8, <1>9 DEF RowOK, LiveOK
<1>11. \A q \in Posts \ {p} : Untouched(q)
  BY <1>2, <1>4 DEF Untouched
<1> QED
  BY <1>2, <1>5, <1>10, <1>11, CommandKeeps

LEMMA DecidePostKeeps ==
  ASSUME LInv, NEW p \in Posts, NEW r \in 1..Len(revision[p]),
         NEW verdict \in {"approve", "reject"}, DecidePost(p, r, verdict)
  PROVE  LInv'
<1> DEFINE n        == Len(decision[p]) + 1
           d        == Decided(p, verdict)
           approval == IF verdict = "approve" THEN n ELSE 0
           state    == IF verdict = "approve" THEN "approved" ELSE "rejected"
           row      == Moved(post[p], state, post[p].current, approval)
<1>1. /\ LedgerOK /\ PostsTypeOK /\ RowOK(p) /\ Exists(p) /\ post[p] \in PostType
      /\ post[p].state = "in_review" /\ r = post[p].current
      /\ decision[p] \in Seq(DecisionType) /\ Len(decision[p]) \in Nat
      /\ Len(revision[p]) \in Nat /\ post[p].current \in Nat
  BY RowTypes DEF LInv, DecidePost, May, PostType
<1>2. /\ post' = [post EXCEPT ![p] = row]
      /\ decision' = [decision EXCEPT ![p] = Append(decision[p], d)]
      /\ UNCHANGED <<recordVars, revision, review, package>>
  BY DEF DecidePost
<1>3. d \in DecisionType /\ d.revision = post[p].current /\ d.verdict = verdict
  <2>1. Saying(p).facts \subseteq {i \in Records : ledger[i].body.kind = "product_fact"}
    BY <1>1 DEF RowOK, RevisionsOK, Saying
  <2>2. Evidence(p, Saying(p)) \in SUBSET Nat
    BY <1>1, <2>1, EvidenceIsRecords
  <2> QED
    BY <1>1, <2>2 DEF Decided, DecisionType
<1> HIDE DEF d
<1>4. /\ Append(decision[p], d) \in Seq(DecisionType) /\ Len(Append(decision[p], d)) = n
      /\ \A m \in 1..Len(decision[p]) : Append(decision[p], d)[m] = decision[p][m]
      /\ Append(decision[p], d)[n] = d
  BY <1>1, <1>3, Appended
<1>5. /\ post' \in [Posts -> PostType]
      /\ post'[p].state = state /\ post'[p].version = post[p].version + 1
      /\ post'[p].current = post[p].current /\ post'[p].approval = approval
      /\ post'[p].brief = post[p].brief
      /\ \A q \in Posts \ {p} : post'[q] = post[q]
  BY <1>1, <1>2 DEF PostsTypeOK, PostType, States, Moved, Post
<1>6. /\ decision' \in [Posts -> Seq(DecisionType)]
      /\ Len(decision'[p]) = n /\ decision'[p][n] = d
      /\ \A m \in 1..Len(decision[p]) : decision'[p][m] = decision[p][m]
      /\ \A q \in Posts \ {p} : decision'[q] = decision[q]
  BY <1>1, <1>2, <1>4 DEF PostsTypeOK
<1>7. PostsTypeOK'
  BY <1>1, <1>2, <1>5, <1>6 DEF PostsTypeOK
<1>8. Existing(p)' /\ RevisionsOK(p)'
  BY <1>1, <1>2, <1>5 DEF RowOK, Existing, Exists, RevisionsOK, recordVars, Records, PostType
<1>9. ApprovalOK(p)'
  BY <1>1, <1>3, <1>5, <1>6 DEF ApprovalOK
<1>10. PackagesOK(p)'
  <2> SUFFICES ASSUME NEW k \in 1..Len(package[p])
               PROVE  PackageOK(p, package[p][k])'
    BY <1>2 DEF PackagesOK
  <2>1. PackageOK(p, package[p][k])
    BY <1>1 DEF RowOK, PackagesOK
  <2> QED
    BY <1>1, <1>2, <1>6, <2>1, PackageKept DEF PackageOK
<1>11. Live(p)' = {}
  BY <1>1, <1>2, <1>5 DEF RowOK, PackagesOK, PackageOK, Live, OfThePost
<1>12. RowOK(p)'
  BY <1>5, <1>8, <1>9, <1>10, <1>11 DEF RowOK, LiveOK
<1>13. \A q \in Posts \ {p} : Untouched(q)
  BY <1>2, <1>5, <1>6 DEF Untouched
<1> QED
  BY <1>2, <1>7, <1>12, <1>13, CommandKeeps

LEMMA PreparePackageKeeps ==
  ASSUME LInv, NEW p \in Posts, NEW r \in 1..Len(revision[p]), NEW t \in Nat,
         PreparePackage(p, r, t)
  PROVE  LInv'
<1> DEFINE n   == Len(package[p]) + 1
           d   == Prepared(p, t)
           row == Moved(post[p], "package_ready", post[p].current, post[p].approval)
<1>1. /\ LedgerOK /\ PostsTypeOK /\ RowOK(p) /\ Exists(p) /\ post[p] \in PostType
      /\ post[p].state = "approved" /\ r = post[p].current /\ post[p].approval # 0
      /\ package[p] \in Seq(PackageType) /\ Len(package[p]) \in Nat
      /\ Len(revision[p]) \in Nat /\ post[p].current \in Nat /\ post[p].approval \in Nat
  BY RowTypes DEF LInv, PreparePackage, May, PostType
<1>2. /\ post' = [post EXCEPT ![p] = row]
      /\ package' = [package EXCEPT ![p] = Append(package[p], d)]
      /\ UNCHANGED <<recordVars, revision, review, decision>>
  BY DEF PreparePackage
<1>3. Evidence(p, Saying(p)) \in SUBSET Nat
  <2>1. Saying(p).facts \subseteq {i \in Records : ledger[i].body.kind = "product_fact"}
    BY <1>1 DEF RowOK, RevisionsOK, Saying
  <2> QED
    BY <1>1, <2>1, EvidenceIsRecords
<1>4. /\ d \in PackageType /\ d.revision = post[p].current /\ d.approval = post[p].approval
      /\ d.checked = Evidence(p, Saying(p)) /\ d.cancelled = FALSE
  BY <1>1, <1>3 DEF Prepared, PackageType
<1>5. PackageOK(p, d)
  <2>1. /\ decision[p][post[p].approval].verdict = "approve"
        /\ decision[p][post[p].approval].revision = post[p].current
        /\ decision[p][post[p].approval].checked = Evidence(p, Saying(p))
    BY DEF PreparePackage, Stands
  <2>2. post[p].approval \in 1..Len(decision[p])
    BY <1>1 DEF RowOK, ApprovalOK
  <2> QED
    BY <1>1, <1>4, <2>1, <2>2 DEF PackageOK
<1> HIDE DEF d
<1>6. /\ Append(package[p], d) \in Seq(PackageType) /\ Len(Append(package[p], d)) = n
      /\ \A m \in 1..Len(package[p]) : Append(package[p], d)[m] = package[p][m]
      /\ Append(package[p], d)[n] = d
  BY <1>1, <1>4, Appended
<1>7. /\ post' \in [Posts -> PostType] /\ post'[p] = row
      /\ post'[p].state = "package_ready" /\ post'[p].version = post[p].version + 1
      /\ post'[p].current = post[p].current /\ post'[p].approval = post[p].approval
      /\ post'[p].brief = post[p].brief
      /\ \A q \in Posts \ {p} : post'[q] = post[q]
  BY <1>1, <1>2 DEF PostsTypeOK, PostType, States, Moved, Post
<1>8. /\ package' \in [Posts -> Seq(PackageType)]
      /\ Len(package'[p]) = n /\ package'[p][n] = d
      /\ \A m \in 1..Len(package[p]) : package'[p][m] = package[p][m]
      /\ \A q \in Posts \ {p} : package'[q] = package[q]
  BY <1>1, <1>2, <1>6 DEF PostsTypeOK
<1>9. PostsTypeOK'
  BY <1>1, <1>2, <1>7, <1>8 DEF PostsTypeOK
<1>10. Existing(p)' /\ RevisionsOK(p)'
  BY <1>1, <1>2, <1>7 DEF RowOK, Existing, Exists, RevisionsOK, recordVars, Records, PostType
<1>11. ApprovalOK(p)'
  BY <1>1, <1>2, <1>7 DEF RowOK, ApprovalOK
<1>12. \A m \in 1..n : m = n \/ m \in 1..Len(package[p])
  BY <1>1
<1>13. PackagesOK(p)'
  <2> SUFFICES ASSUME NEW m \in 1..n
               PROVE  PackageOK(p, package[p][m])'
    BY <1>8 DEF PackagesOK
  <2>1. PackageOK(p, package'[p][m])
    BY <1>1, <1>5, <1>8, <1>12 DEF RowOK, PackagesOK
  <2> QED
    BY <1>2, <2>1 DEF PackageOK
<1>14. Live(p)' = {n}
  <2>1. Live(p) = {}
    BY <1>1 DEF RowOK, LiveOK
  <2>2. n \in Live(p)'
    BY <1>1, <1>4, <1>7, <1>8 DEF Live, OfThePost
  <2>3. \A m \in Live(p)' : m \in 1..Len(package[p]) => m \in Live(p)
    BY <1>7, <1>8 DEF Live, OfThePost
  <2> QED
    BY <2>1, <2>2, <2>3, <1>8, <1>12 DEF Live
<1>15. RowOK(p)'
  BY <1>7, <1>10, <1>11, <1>13, <1>14 DEF RowOK, LiveOK
<1>16. \A q \in Posts \ {p} : Untouched(q)
  BY <1>2, <1>7, <1>8 DEF Untouched
<1> QED
  BY <1>2, <1>9, <1>15, <1>16, CommandKeeps

LEMMA CancelPackageKeeps ==
  ASSUME LInv, NEW p \in Posts, NEW k \in 1..Len(package[p]), CancelPackage(p, k)
  PROVE  LInv'
<1> DEFINE state == IF OfThePost(p, k) THEN "approved" ELSE post[p].state
           row   == Moved(post[p], state, post[p].current, post[p].approval)
           d     == [package[p][k] EXCEPT !.cancelled = TRUE]
<1>1. /\ PostsTypeOK /\ RowOK(p) /\ Exists(p) /\ post[p] \in PostType
      /\ ~package[p][k].cancelled /\ package[p][k] \in PackageType
      /\ package[p] \in Seq(PackageType) /\ Len(package[p]) \in Nat
  BY RowTypes DEF LInv, CancelPackage, May
<1>2. /\ post' = [post EXCEPT ![p] = row]
      /\ package' = [package EXCEPT ![p] = [package[p] EXCEPT ![k] = d]]
      /\ UNCHANGED <<recordVars, revision, review, decision>>
  BY DEF CancelPackage
<1>3. /\ d \in PackageType /\ d.revision = package[p][k].revision
      /\ d.approval = package[p][k].approval /\ d.checked = package[p][k].checked
      /\ d.cancelled = TRUE
  BY <1>1 DEF PackageType
<1> HIDE DEF d
<1>4. /\ [package[p] EXCEPT ![k] = d] \in Seq(PackageType)
      /\ Len([package[p] EXCEPT ![k] = d]) = Len(package[p])
      /\ \A m \in 1..Len(package[p]) \ {k} : [package[p] EXCEPT ![k] = d][m] = package[p][m]
      /\ [package[p] EXCEPT ![k] = d][k] = d
  BY <1>1, <1>3, ExceptSeq, ElementOfSeq
<1>5. /\ post' \in [Posts -> PostType] /\ post'[p] = row
      /\ post'[p].state = state /\ post'[p].version = post[p].version + 1
      /\ post'[p].current = post[p].current /\ post'[p].approval = post[p].approval
      /\ post'[p].brief = post[p].brief
      /\ \A q \in Posts \ {p} : post'[q] = post[q]
  BY <1>1, <1>2 DEF PostsTypeOK, PostType, States, Moved, Post
<1>6. /\ package' \in [Posts -> Seq(PackageType)]
      /\ Len(package'[p]) = Len(package[p]) /\ package'[p][k] = d
      /\ \A m \in 1..Len(package[p]) \ {k} : package'[p][m] = package[p][m]
      /\ \A q \in Posts \ {p} : package'[q] = package[q]
  BY <1>1, <1>2, <1>4 DEF PostsTypeOK
<1>7. PostsTypeOK'
  BY <1>1, <1>2, <1>5, <1>6 DEF PostsTypeOK
<1>8. Existing(p)' /\ RevisionsOK(p)'
  BY <1>1, <1>2, <1>5, <1>6
     DEF RowOK, Existing, Exists, RevisionsOK, recordVars, Records, PostType, States
<1>9. PackagesOK(p)'
  BY <1>1, <1>2, <1>3, <1>6 DEF RowOK, PackagesOK, PackageOK
<1>10. Live(p)' = Live(p) \ {k}
  BY <1>3, <1>5, <1>6 DEF Live, OfThePost
<1>11. k \in Live(p) <=> OfThePost(p, k)
  BY <1>1 DEF Live
<1>12. ApprovalOK(p)' /\ LiveOK(p)'
  <2>1. CASE OfThePost(p, k)
    <3>1. post[p].state = "package_ready" /\ Live(p)' = {} /\ post'[p].state = "approved"
      BY <1>1, <1>5, <1>10, <1>11, <2>1 DEF RowOK, LiveOK
    <3> QED
      BY <1>1, <1>2, <1>5, <3>1 DEF RowOK, ApprovalOK, LiveOK
  <2>2. CASE ~OfThePost(p, k)
    <3>1. Live(p)' = Live(p) /\ post'[p].state = post[p].state
      BY <1>5, <1>10, <1>11, <2>2
    <3> QED
      BY <1>1, <1>2, <1>5, <3>1 DEF RowOK, ApprovalOK, LiveOK
  <2> QED
    BY <2>1, <2>2
<1>13. RowOK(p)'
  BY <1>8, <1>9, <1>12 DEF RowOK
<1>14. \A q \in Posts \ {p} : Untouched(q)
  BY <1>2, <1>5, <1>6 DEF Untouched
<1> QED
  BY <1>2, <1>7, <1>13, <1>14, CommandKeeps

\* Whatever a user may write as the text of a post is one.
LEMMA ContentsAreContent ==
  ASSUME LedgerOK, NEW p
  PROVE  Contents(p) \subseteq Content
<1>1. RecordsOf("product_fact", BrandOf(p)) \subseteq Nat
  BY LenProperties DEF RecordsOf, Records, LedgerOK, RecordsTypeOK
<1> QED
  BY <1>1 DEF Contents, Content

LEMMA NextKeeps ==
  ASSUME LInv, [Next]_vars
  PROVE  LInv'
<1>1. ASSUME NEW p \in Posts, NEW i \in Records, CreatePost(p, i)
      PROVE  LInv'
  BY <1>1, CreatePostKeeps
<1>2. ASSUME NEW p \in Posts, Exists(p), NEW c \in Contents(p), SaveRevision(p, c)
      PROVE  LInv'
  BY <1>2, ContentsAreContent, SaveRevisionKeeps DEF LInv
<1>3. ASSUME NEW p \in Posts, RequestReview(p)
      PROVE  LInv'
  BY <1>3, RequestReviewKeeps
<1>4. ASSUME NEW p \in Posts, NEW r \in 1..Len(revision[p]),
             NEW verdict \in {"approve", "reject"}, DecidePost(p, r, verdict)
      PROVE  LInv'
  BY <1>4, DecidePostKeeps
<1>5. ASSUME NEW p \in Posts, NEW r \in 1..Len(revision[p]), NEW t \in 1..MaxTime + 1,
             PreparePackage(p, r, t)
      PROVE  LInv'
  BY <1>5, PreparePackageKeeps, RecordsAssumption
<1>6. ASSUME NEW p \in Posts, NEW k \in 1..Len(package[p]), CancelPackage(p, k)
      PROVE  LInv'
  BY <1>6, CancelPackageKeeps
<1>7. CASE PostsNext
  BY <1>1, <1>2, <1>3, <1>4, <1>5, <1>6, <1>7 DEF PostsNext
<1>8. CASE RecordsNext /\ UNCHANGED postVars
  <2>1. LedgerOK' /\ LedgerGrows
    BY <1>8, RecordsKept DEF LInv
  <2>2. PostsTypeOK' /\ \A p \in Posts : Untouched(p)
    BY <1>8 DEF LInv, PostsTypeOK, Untouched, postVars
  <2> QED
    BY <2>1, <2>2, UntouchedKeeps DEF LInv
<1>9. CASE UNCHANGED vars
  <2>1. LedgerOK' /\ LedgerGrows
    BY <1>9 DEF LInv, LedgerOK, RecordsTypeOK, FactsHaveVersions, LedgerGrows, vars, recordVars,
                Records
  <2>2. PostsTypeOK' /\ \A p \in Posts : Untouched(p)
    BY <1>9 DEF LInv, PostsTypeOK, Untouched, vars, postVars
  <2> QED
    BY <2>1, <2>2, UntouchedKeeps DEF LInv
<1> QED
  BY <1>7, <1>8, <1>9 DEF Next

LEMMA InitHolds ==
  ASSUME Init
  PROVE  LInv
<1>1. LedgerOK
  <2>1. ledger = <<>> /\ now = 0
    BY DEF Init, RecordsInit
  <2> QED
    BY <2>1, EmptySeq DEF LedgerOK, RecordsTypeOK, FactsHaveVersions, Records
<1>2. PostsTypeOK
  BY EmptySeq DEF Init, PostsInit, PostsTypeOK, PostType, Absent, Post, States
<1>3. ASSUME NEW p \in Posts
      PROVE  RowOK(p)
  <2>1. post[p] = Absent /\ Len(revision[p]) = 0 /\ Len(package[p]) = 0
    BY EmptySeq DEF Init, PostsInit
  <2>2. Live(p) = {}
    BY <2>1 DEF Live
  <2> QED
    BY <2>1, <2>2 DEF RowOK, Existing, Exists, RevisionsOK, ApprovalOK, PackagesOK, LiveOK,
                      Absent, Post
<1> QED
  BY <1>1, <1>2, <1>3 DEF LInv

-------------------------------------------------------------------------------
(* Theorems *)

\* The invariant of posts, approvals and packages holds in every reachable state.
THEOREM Invariant == Spec => []LInv
<1>1. Init => LInv
  BY InitHolds
<1>2. LInv /\ [Next]_vars => LInv'
  BY NextKeeps
<1> QED
  BY <1>1, <1>2, PTL DEF Spec

\* Every table holds what its columns allow.
THEOREM TypeCorrect == Spec => []TypeOK
<1>1. LInv => TypeOK
  BY DEF LInv, LedgerOK, PostsTypeOK, PostType, DecisionType, PackageType, RowOK, Existing, TypeOK
<1> QED
  BY <1>1, Invariant, PTL

\* A post is approved exactly while its approval is of the revision it has now, and
\* package_ready exactly while it has a live package (content.py:180-193, 280-286, 334).
THEOREM ApprovalCurrent == Spec => []ApprovalIsCurrent
<1>1. LInv => ApprovalIsCurrent
  BY DEF LInv, RowOK, ApprovalOK, LiveOK, ApprovalIsCurrent
<1> QED
  BY <1>1, Invariant, PTL

\* A package is of what its approval approved, on the records it was checked against.
THEOREM PackagesApproved == Spec => []PackageAsApproved
<1>1. LInv => PackageAsApproved
  BY DEF LInv, RowOK, PackagesOK, PackageOK, PackageAsApproved
<1> QED
  BY <1>1, Invariant, PTL

\* A command is about one post, and moves its version on.
Counted(p) ==
  /\ post'[p].version = post[p].version + 1
  /\ \A q \in Posts \ {p} :
       post'[q] = post[q] /\ decision'[q] = decision[q] /\ package'[q] = package[q]

LEMMA CommandCounts ==
  ASSUME LInv, PostsNext
  PROVE  \E p \in Posts : Counted(p)
<1>1. /\ post \in [Posts -> PostType] /\ decision \in [Posts -> Seq(DecisionType)]
      /\ package \in [Posts -> Seq(PackageType)]
  BY DEF LInv, PostsTypeOK
<1>2. ASSUME NEW p \in Posts, NEW i \in Records, CreatePost(p, i)
      PROVE  Counted(p)
  <2>1. post[p].version = 0
    BY <1>2 DEF LInv, RowOK, Existing, CreatePost, Absent, Post
  <2> QED
    BY <1>1, <1>2, <2>1 DEF CreatePost, Counted, Post
<1>3. ASSUME NEW p \in Posts, NEW c, SaveRevision(p, c)
      PROVE  Counted(p)
  BY <1>1, <1>3 DEF SaveRevision, Saved, Moved, Post, Counted
<1>4. ASSUME NEW p \in Posts, RequestReview(p)
      PROVE  Counted(p)
  BY <1>1, <1>4 DEF RequestReview, Moved, Post, Counted
<1>5. ASSUME NEW p \in Posts, NEW r, NEW verdict, DecidePost(p, r, verdict)
      PROVE  Counted(p)
  BY <1>1, <1>5 DEF DecidePost, Moved, Post, Counted
<1>6. ASSUME NEW p \in Posts, NEW r, NEW t, PreparePackage(p, r, t)
      PROVE  Counted(p)
  BY <1>1, <1>6 DEF PreparePackage, Moved, Post, Counted
<1>7. ASSUME NEW p \in Posts, NEW k, CancelPackage(p, k)
      PROVE  Counted(p)
  BY <1>1, <1>7 DEF CancelPackage, Moved, Post, Counted
<1> QED
  BY <1>2, <1>3, <1>4, <1>5, <1>6, <1>7 DEF PostsNext

\* The version of a post counts its changes and its packages' cancellations one by one.
THEOREM ChangesCounted == Spec => VersionCounts
<1> DEFINE Counts == \A p \in Posts :
             post[p] # post'[p] \/ package[p] # package'[p] \/ decision[p] # decision'[p]
               => post'[p].version = post[p].version + 1
<1>1. ASSUME LInv, [Next]_vars
      PROVE  [Counts]_vars
  <2>1. CASE PostsNext
    <3>1. PICK p \in Posts : Counted(p)
      BY <1>1, <2>1, CommandCounts
    <3> QED
      BY <3>1 DEF Counted
  <2>2. CASE UNCHANGED postVars
    BY <2>2 DEF postVars
  <2>3. CASE UNCHANGED vars
    BY <2>3
  <2> QED
    BY <1>1, <2>1, <2>2, <2>3 DEF Next
<1>2. LInv /\ [Next]_vars => [Counts]_vars
  BY <1>1
<1> QED
  BY <1>2, Invariant, PTL DEF Spec, VersionCounts

-------------------------------------------------------------------------------
(* The ledger: families, references and confirmations *)

RuleKinds == {"brand_profile", "claim_policy", "product_version"}

\* A body written as record n names earlier records, each of the kind it is named as, and
\* just those its own kind calls for.
Fits(body, n) ==
  /\ body.source # 0 =>
       body.source \in 1..n - 1 /\ ledger[body.source].body.kind = "source_item"
  /\ body.version # 0 =>
       body.version \in 1..n - 1 /\ ledger[body.version].body.kind = "product_version"
  /\ body.kind \in {"source_item", "brief"} <=> body.source = 0
  /\ body.kind = "product_fact" <=> body.version # 0
  /\ body.kind \in {"brand_profile", "claim_policy"} => body.product = None

Shaped == \A i \in Records : Fits(ledger[i].body, i)

\* What a confirmed body rests on, in the records as they are.
Based(body) ==
  /\ \A j \in References(body) : ledger[j].confirmed
  /\ body.kind \in {"product_fact", "claim_policy"} => ~ledger[body.source].body.hypothesis

ConfirmedBased == \A i \in Records : ledger[i].confirmed => Based(ledger[i].body)

\* The number of a record counts its family up to it, and the first names the family.
Upto(i) == {j \in Family(ledger[i].family) : j <= i}

Numbered ==
  \A i \in Records :
    /\ ledger[i].number = Cardinality(Upto(i))
    /\ ledger[i].number = 1 => ledger[i].family = i
    /\ ledger[i].family \in Records

RInv == LedgerOK /\ Shaped /\ ConfirmedBased /\ Numbered /\ OneFamily

\* What the types say of one row.
LEMMA LedgerRows ==
  ASSUME LedgerOK
  PROVE  /\ Len(ledger) \in Nat /\ Records = 1..Len(ledger) /\ now \in Nat
         /\ \A i \in Records : /\ ledger[i].family \in Nat /\ ledger[i].number \in Nat \ {0}
                               /\ ledger[i].confirmed \in BOOLEAN /\ ledger[i].expires \in Nat
                               /\ ledger[i].body \in BodyType
                               /\ ledger[i].body.source \in Nat
                               /\ ledger[i].body.version \in Nat
<1>1. ledger \in Seq(RowType) /\ now \in Nat /\ Len(ledger) \in Nat
  BY LenProperties DEF LedgerOK, RecordsTypeOK, RowType, BodyType
<1>2. \A i \in Records : ledger[i] \in RowType
  BY <1>1, ElementOfSeq DEF Records
<1> QED
  BY <1>1, <1>2 DEF Records, RowType, BodyType

\* Whatever a user may write fits as the next record.
LEMMA BodiesFit ==
  ASSUME LedgerOK, NEW kind \in Kinds, NEW b \in Brands, NEW body \in Bodies(kind, b)
  PROVE  Fits(body, Len(ledger) + 1)
<1> DEFINE sources == RecordsOf("source_item", b)
<1>1. \A k : \A i \in RecordsOf(k, b) :
        /\ i \in Nat /\ i # 0 /\ i \in 1..(Len(ledger) + 1) - 1 /\ ledger[i].body.kind = k
  BY LedgerRows DEF RecordsOf
<1>2. CASE kind = "source_item"
  <2>1. PICK h \in BOOLEAN : body = Body("source_item", b, None, 0, 0, h, {})
    BY <1>2 DEF Bodies
  <2> QED
    BY <2>1 DEF Body, Fits
<1>3. CASE kind = "product_version"
  <2>1. PICK q \in Products, i \in sources : body = Body("product_version", b, q, i, 0, FALSE, {})
    BY <1>3 DEF Bodies
  <2> QED
    BY <2>1, <1>1 DEF Body, Fits
<1>4. CASE kind = "product_fact"
  <2>1. PICK i \in sources, j \in RecordsOf("product_version", b) :
          body = Body("product_fact", b, None, i, j, FALSE, {})
    BY <1>4 DEF Bodies
  <2> QED
    BY <2>1, <1>1 DEF Body, Fits
<1>5. CASE kind = "brand_profile"
  <2>1. PICK i \in sources : body = Body("brand_profile", b, None, i, 0, FALSE, {})
    BY <1>5 DEF Bodies
  <2> QED
    BY <2>1, <1>1 DEF Body, Fits
<1>6. CASE kind = "claim_policy"
  <2>1. PICK i \in sources, t \in SUBSET Texts :
          body = Body("claim_policy", b, None, i, 0, FALSE, t)
    BY <1>6 DEF Bodies
  <2> QED
    BY <2>1, <1>1 DEF Body, Fits
<1>7. CASE kind = "brief"
  <2>1. PICK q \in Products \cup {None} : body = Body("brief", b, q, 0, 0, FALSE, {})
    BY <1>7 DEF Bodies
  <2> QED
    BY <2>1 DEF Body, Fits
<1> QED
  BY <1>2, <1>3, <1>4, <1>5, <1>6, <1>7 DEF Kinds

\* A row that fits, is based, and continues one line, keeps the ledger in order.
LEMMA WriteKeepsLedger ==
  ASSUME RInv, NEW n \in Nat, n = Len(ledger) + 1, NEW family \in 1..n, NEW number \in Nat \ {0},
         NEW body \in BodyType, NEW confirmed \in BOOLEAN, NEW expires \in Nat,
         Write(family, number, body, confirmed, expires),
         Fits(body, n),
         confirmed => Based(body),
         number = Cardinality(Family(family) \cup {n}),
         number = 1 => family = n,
         \A i \in Records : body.kind \in RuleKinds /\ SameScope(ledger[i].body, body)
                              => ledger[i].family = family
  PROVE  RInv'
<1> DEFINE row == [family |-> family, number |-> number, body |-> body,
                   confirmed |-> confirmed, expires |-> expires]
<1>1. /\ Len(ledger) \in Nat /\ Records = 1..Len(ledger)
      /\ \A i \in Records : ledger[i].body.source \in Nat /\ ledger[i].body.version \in Nat
      /\ \A i \in Records : ledger[i].body \in BodyType
  BY LedgerRows DEF RInv
<1>2. body.kind = "product_fact" => body.version \in Records
  BY <1>1 DEF Fits, Records
<1>3. LedgerOK' /\ LedgerGrows
  <2>1. family \in Nat /\ LedgerOK
    BY <1>1 DEF RInv
  <2> QED
    BY <1>2, <2>1, WriteKeeps
<1>4. /\ ledger' = Append(ledger, row) /\ ledger \in Seq(RowType) /\ row \in RowType
  BY <1>1 DEF Write, RInv, LedgerOK, RecordsTypeOK, RowType, BodyType
<1>5. /\ Records' = 1..n /\ ledger'[n] = row /\ \A i \in Records : ledger'[i] = ledger[i]
  BY <1>1, <1>4, Appended DEF Records
<1>6. \A i \in Records' : i \in Records \/ i = n
  BY <1>1, <1>5
<1> HIDE DEF row
<1>7. \A x, m : Fits(x, m) /\ m \in 1..n => Fits(x, m)'
  <2> SUFFICES ASSUME NEW x, NEW m \in 1..n, Fits(x, m)
               PROVE  Fits(x, m)'
    OBVIOUS
  <2>1. 1..m - 1 \subseteq Records
    BY <1>1
  <2> QED
    BY <2>1, <1>5 DEF Fits
<1>8. n \in 1..n /\ \A i \in Records : i \in 1..n
  BY <1>1
<1>9. Shaped'
  <2>1. \A i \in Records : Fits(ledger[i].body, i)'
    BY <1>5, <1>7, <1>8 DEF RInv, Shaped
  <2>2. Fits(body, n)'
    BY <1>7, <1>8
  <2> QED
    BY <2>1, <2>2, <1>5, <1>6 DEF Shaped, Fits, row
<1>10. \A x, m : Fits(x, m) /\ m \in 1..n /\ Based(x) => Based(x)'
  <2> SUFFICES ASSUME NEW x, NEW m \in 1..n, Fits(x, m), Based(x)
               PROVE  Based(x)'
    OBVIOUS
  <2>1. 1..m - 1 \subseteq Records
    BY <1>1
  <2>2. References(x) \subseteq Records
    BY <2>1 DEF References, Fits
  <2>3. x.kind \in {"product_fact", "claim_policy"} => x.source \in Records
    BY <2>1 DEF Fits
  <2> QED
    BY <2>2, <2>3, <1>5 DEF Based
<1>11. ConfirmedBased'
  <2>1. \A i \in Records : ledger[i].confirmed => Based(ledger[i].body)'
    BY <1>5, <1>8, <1>10 DEF RInv, Shaped, ConfirmedBased
  <2>2. confirmed => Based(body)'
    BY <1>8, <1>10
  <2> QED
    BY <2>1, <2>2, <1>5, <1>6 DEF ConfirmedBased, Based, row
<1>12. \A f : Family(f)' = Family(f) \cup (IF f = family THEN {n} ELSE {})
  BY <1>5, <1>6, <1>8 DEF Family, row
<1>13. Numbered'
  <2>1. ASSUME NEW i \in Records
        PROVE  /\ ledger'[i].number = Cardinality(Upto(i)')
               /\ ledger'[i].number = 1 => ledger'[i].family = i
               /\ ledger'[i].family \in Records'
    <3>1. ~(n <= i)
      BY <1>1
    <3>2. Upto(i)' = Upto(i)
      BY <3>1, <1>5, <1>12 DEF Upto
    <3> QED
      BY <3>2, <1>5, <1>8 DEF RInv, Numbered
  <2>2. Upto(n)' = Family(family) \cup {n}
    <3>1. \A j \in Family(family) : j <= n
      BY <1>1 DEF Family
    <3> QED
      BY <3>1, <1>1, <1>5, <1>12 DEF Upto, row
  <2>3. /\ ledger'[n].number = Cardinality(Upto(n)')
        /\ ledger'[n].number = 1 => ledger'[n].family = n
        /\ ledger'[n].family \in Records'
    <3>1. /\ ledger'[n].number = number /\ ledger'[n].family = family
      BY <1>5 DEF row
    <3>2. number = Cardinality(Upto(n)')
      BY <2>2
    <3> QED
      BY <3>1, <3>2, <1>5
  <2>4. \A i \in Records' : /\ ledger'[i].number = Cardinality(Upto(i)')
                            /\ ledger'[i].number = 1 => ledger'[i].family = i
                            /\ ledger'[i].family \in Records'
    BY <2>1, <2>3, <1>6
  <2> QED
    BY <2>4 DEF Numbered
<1>14. OneFamily'
  <2>1. \A x, y : SameScope(x, y) => SameScope(y, x)
    BY DEF SameScope
  <2>2. \A i, j \in Records : ledger[i].body.kind \in RuleKinds
          /\ SameScope(ledger[i].body, ledger[j].body) => ledger[i].family = ledger[j].family
    BY DEF RInv, OneFamily, RuleKinds
  <2>3. \A i \in Records : body.kind \in RuleKinds /\ SameScope(ledger[i].body, body)
          => ledger'[i].family = ledger'[n].family
    BY <1>5 DEF row
  <2>4. \A x, y : SameScope(x, y) => x.kind = y.kind
    BY DEF SameScope
  <2> SUFFICES ASSUME NEW i \in Records', NEW j \in Records',
                      ledger'[i].body.kind \in RuleKinds,
                      SameScope(ledger'[i].body, ledger'[j].body)
               PROVE  ledger'[i].family = ledger'[j].family
    BY DEF OneFamily, RuleKinds, SameScope
  <2>5. CASE i \in Records /\ j \in Records
    BY <2>2, <2>5, <1>5
  <2>6. CASE i = n /\ j \in Records
    BY <2>1, <2>3, <2>6, <1>5 DEF row
  <2>7. CASE i \in Records /\ j = n
    BY <2>3, <2>4, <2>7, <1>5 DEF row
  <2>8. CASE i = n /\ j = n
    BY <2>8
  <2> QED
    BY <2>5, <2>6, <2>7, <2>8, <1>6
<1> QED
  BY <1>3, <1>9, <1>11, <1>13, <1>14 DEF RInv

\* The number of the latest record of a family is how many the family has.
LEMMA LatestCounts ==
  ASSUME RInv, NEW i \in Records, IsLatest(i), NEW n \in Nat, n = Len(ledger) + 1
  PROVE  /\ ledger[i].family \in 1..n
         /\ ledger[i].number + 1 = Cardinality(Family(ledger[i].family) \cup {n})
         /\ ledger[i].number + 1 # 1
<1> DEFINE F == Family(ledger[i].family)
<1>1. /\ Len(ledger) \in Nat /\ Records = 1..Len(ledger) /\ i \in Nat
      /\ \A j \in Records : ledger[j].number \in Nat \ {0}
      /\ \A j \in Records : ledger[j].number = Cardinality(Upto(j))
      /\ ledger[i].family \in Records
  BY LedgerRows DEF RInv, Numbered
<1>2. F \subseteq Records /\ IsFiniteSet(F) /\ i \in F
  <2>1. IsFiniteSet(Records)
    BY <1>1, FS_Interval
  <2> QED
    BY <2>1, FS_Subset DEF Family
<1>3. F = Upto(i)
  <2> SUFFICES ASSUME NEW j \in F, ~(j <= i)
               PROVE  FALSE
    BY DEF Upto
  <2>1. j \in Records /\ ledger[j].family = ledger[i].family
    BY DEF Family
  <2>2. Upto(i) \subseteq Upto(j) \ {j}
    BY <1>1, <2>1 DEF Upto, Family
  <2>3. Upto(j) \subseteq F /\ IsFiniteSet(Upto(j)) /\ j \in Upto(j)
    BY <1>1, <1>2, <2>1, FS_Subset DEF Upto, Family
  <2>4. /\ Cardinality(Upto(j) \ {j}) = Cardinality(Upto(j)) - 1
        /\ IsFiniteSet(Upto(j) \ {j})
    BY <2>3, FS_RemoveElement
  <2>5. Cardinality(Upto(i)) <= Cardinality(Upto(j) \ {j})
    BY <2>2, <2>4, FS_Subset
  <2>6. ledger[j].number <= ledger[i].number
    BY <2>1 DEF IsLatest
  <2> QED
    BY <1>1, <2>1, <2>4, <2>5, <2>6
<1>4. n \notin F
  BY <1>1, <1>2
<1>5. Cardinality(F \cup {n}) = Cardinality(F) + 1
  BY <1>2, <1>4, FS_AddElement
<1>6. Cardinality(F) = ledger[i].number
  BY <1>1, <1>3
<1> QED
  BY <1>1, <1>5, <1>6

\* Bodies of one kind for one brand are of one scope if rules, and of one product if
\* product versions.
LEMMA ReplacesScope ==
  ASSUME RInv, NEW i \in Records, NEW body, NEW n, Fits(body, n), Replaces(i, body)
  PROVE  \A j \in Records : body.kind \in RuleKinds /\ SameScope(ledger[j].body, body)
           => ledger[j].family = ledger[i].family
<1> SUFFICES ASSUME NEW j \in Records, body.kind \in RuleKinds, SameScope(ledger[j].body, body)
             PROVE  ledger[j].family = ledger[i].family
  OBVIOUS
<1>1. ledger[i].body.product = body.product
  BY DEF Replaces, RInv, Shaped, Fits, RuleKinds
<1>2. SameScope(ledger[j].body, ledger[i].body) /\ ledger[j].body.kind \in RuleKinds
  BY <1>1 DEF SameScope, Replaces
<1> QED
  BY <1>2 DEF RInv, OneFamily, RuleKinds

LEMMA RecordsNextKeeps ==
  ASSUME RInv, RecordsNext
  PROVE  RInv'
<1>1. /\ LedgerOK /\ Len(ledger) \in Nat /\ Records = 1..Len(ledger)
      /\ \A i \in Records : /\ ledger[i].family \in Nat /\ ledger[i].number \in Nat \ {0}
                            /\ ledger[i].expires \in Nat /\ ledger[i].body \in BodyType
  BY LedgerRows DEF RInv
<1>2. PICK n \in Nat : n = Len(ledger) + 1
  BY <1>1
<1>3. ASSUME NEW kind \in Created, NEW b \in Brands, NEW body \in Bodies(kind, b),
             NEW t \in 1..MaxTime + 1, CreateRecord(body, t)
      PROVE  RInv'
  <2>1. body \in BodyType /\ Fits(body, n) /\ t \in Nat
    BY <1>1, <1>2, BodiesAreBodies, BodiesFit, CreatedAssumption, RecordsAssumption DEF LedgerOK
  <2>2. Write(n, 1, body, FALSE, t) /\ Unique(body)
    BY <1>2, <1>3 DEF CreateRecord
  <2>3. Family(n) = {}
    BY <1>1, <1>2 DEF Family, RInv, Numbered
  <2>4. Cardinality(Family(n) \cup {n}) = 1
    BY <2>3, FS_Singleton
  <2>5. n \in 1..n
    BY <1>1, <1>2
  <2>6. \A i \in Records : body.kind \in RuleKinds /\ SameScope(ledger[i].body, body)
          => ledger[i].family = n
    BY <2>2 DEF Unique, RuleKinds
  <2>7. 1 \in Nat \ {0} /\ FALSE \in BOOLEAN
    OBVIOUS
  <2> QED
    BY <1>2, <2>1, <2>2, <2>4, <2>5, <2>6, <2>7, WriteKeepsLedger
<1>4. ASSUME NEW kind \in Created, NEW b \in Brands, NEW body \in Bodies(kind, b),
             NEW t \in 1..MaxTime + 1, NEW i \in Records, ReplaceRecord(i, body, t)
      PROVE  RInv'
  <2>1. body \in BodyType /\ Fits(body, n) /\ t \in Nat
    BY <1>1, <1>2, BodiesAreBodies, BodiesFit, CreatedAssumption, RecordsAssumption DEF LedgerOK
  <2>2. Replaces(i, body) /\ Write(ledger[i].family, ledger[i].number + 1, body, FALSE, t)
    BY <1>4 DEF ReplaceRecord
  <2>3. /\ ledger[i].family \in 1..n /\ ledger[i].number + 1 \in Nat \ {0}
        /\ ledger[i].number + 1 = Cardinality(Family(ledger[i].family) \cup {n})
        /\ ledger[i].number + 1 # 1
    <3>1. IsLatest(i)
      BY <2>2 DEF Replaces
    <3>2. ledger[i].number + 1 \in Nat \ {0}
      BY <1>1
    <3> QED
      BY <1>2, <3>1, <3>2, LatestCounts
  <2>4. \A j \in Records : body.kind \in RuleKinds /\ SameScope(ledger[j].body, body)
          => ledger[j].family = ledger[i].family
    BY <2>1, <2>2, ReplacesScope
  <2> QED
    BY <1>2, <2>1, <2>2, <2>3, <2>4, WriteKeepsLedger
<1>5. ASSUME NEW i \in Records, ConfirmRecord(i)
      PROVE  RInv'
  <2> DEFINE body == ledger[i].body
  <2>1. body \in BodyType /\ Fits(body, i) /\ ledger[i].expires \in Nat
    BY <1>1 DEF RInv, Shaped
  <2>2. Fits(body, n)
    <3>1. 1..i - 1 \subseteq 1..n - 1
      BY <1>1, <1>2
    <3> QED
      BY <2>1, <3>1 DEF Fits
  <2>3. /\ Supported(body) /\ Replaces(i, body)
        /\ Write(ledger[i].family, ledger[i].number + 1, body, TRUE, ledger[i].expires)
    BY <1>5 DEF ConfirmRecord
  <2>4. Based(body)
    BY <2>3 DEF Supported, Current, Based
  <2>5. /\ ledger[i].family \in 1..n /\ ledger[i].number + 1 \in Nat \ {0}
        /\ ledger[i].number + 1 = Cardinality(Family(ledger[i].family) \cup {n})
        /\ ledger[i].number + 1 # 1
    <3>1. IsLatest(i)
      BY <2>3 DEF Replaces
    <3>2. ledger[i].number + 1 \in Nat \ {0}
      BY <1>1
    <3> QED
      BY <1>2, <3>1, <3>2, LatestCounts
  <2>6. \A j \in Records : body.kind \in RuleKinds /\ SameScope(ledger[j].body, body)
          => ledger[j].family = ledger[i].family
    BY <2>2, <2>3, ReplacesScope
  <2> HIDE DEF body
  <2> QED
    BY <1>2, <2>1, <2>2, <2>3, <2>4, <2>5, <2>6, WriteKeepsLedger
<1>6. CASE Tick
  <2>1. ledger' = ledger /\ LedgerOK'
    BY <1>1, <1>6, RecordsKept DEF Tick, RecordsNext
  <2> QED
    BY <2>1 DEF RInv, Shaped, ConfirmedBased, Numbered, OneFamily, Records, Fits, Based, Upto,
                Family
<1> QED
  BY <1>3, <1>4, <1>5, <1>6 DEF RecordsNext

LEMMA LedgerStutters ==
  ASSUME RInv, UNCHANGED recordVars
  PROVE  RInv'
<1>1. ledger' = ledger /\ now' = now
  BY DEF recordVars
<1>2. LedgerOK'
  BY <1>1 DEF RInv, LedgerOK, RecordsTypeOK, FactsHaveVersions, Records
<1>3. Shaped' /\ ConfirmedBased'
  BY <1>1 DEF RInv, Shaped, ConfirmedBased, Records, Fits, Based
<1>4. Numbered' /\ OneFamily'
  BY <1>1 DEF RInv, Numbered, OneFamily, Records, Upto, Family
<1> QED
  BY <1>2, <1>3, <1>4 DEF RInv

LEMMA RecordsInitHolds ==
  ASSUME RecordsInit
  PROVE  RInv
<1>1. ledger = <<>> /\ now = 0
  BY DEF RecordsInit
<1>2. LedgerOK
  BY <1>1, EmptySeq DEF LedgerOK, RecordsTypeOK, FactsHaveVersions, Records
<1>3. Records = {}
  BY <1>1, EmptySeq DEF Records
<1> QED
  BY <1>2, <1>3 DEF RInv, Shaped, ConfirmedBased, Numbered, OneFamily

\* The invariant of the ledger holds in every reachable state of it.
THEOREM LedgerInvariant == RecordsSpec => []RInv
<1>1. RInv /\ [RecordsNext]_recordVars => RInv'
  BY RecordsNextKeeps, LedgerStutters
<1> QED
  BY <1>1, RecordsInitHolds, PTL DEF RecordsSpec

\* It holds as well while posts are written, reviewed and packaged on top of the ledger.
THEOREM LedgerUnderPosts == Spec => []RInv
<1>1. Init => RInv
  BY RecordsInitHolds DEF Init
<1>2. ASSUME RInv, [Next]_vars
      PROVE  RInv'
  <2>1. RecordsNext \/ UNCHANGED recordVars
    BY <1>2 DEF Next, PostsNext, vars, CreatePost, SaveRevision, RequestReview, DecidePost,
                PreparePackage, CancelPackage
  <2> QED
    BY <1>2, <2>1, RecordsNextKeeps, LedgerStutters
<1> QED
  BY <1>1, <1>2, PTL DEF Spec

\* A family is one line of versions, named after its first record, and all rules of a kind
\* for a brand and all versions of a product are one such line, however records are
\* created, replaced and confirmed (content_records.py:158-186).
THEOREM FamiliesLines == RecordsSpec => []FamiliesAreLines
<1>1. RInv => FamiliesAreLines
  BY DEF RInv, Numbered, Upto, FamiliesAreLines
<1> QED
  BY <1>1, LedgerInvariant, PTL

\* No confirmed record rests on an unconfirmed or later one, nor a confirmed fact or policy
\* on a hypothesis (content_records.py:129-136).
THEOREM ConfirmedSupported == RecordsSpec => []ConfirmedIsSupported
<1>1. ASSUME RInv
      PROVE  ConfirmedIsSupported
  <2> SUFFICES ASSUME NEW i \in Records, ledger[i].confirmed
               PROVE  /\ \A j \in References(ledger[i].body) : ledger[j].confirmed /\ j < i
                      /\ ledger[i].body.kind \in {"product_fact", "claim_policy"}
                           => ~ledger[ledger[i].body.source].body.hypothesis
    BY DEF ConfirmedIsSupported
  <2>1. Based(ledger[i].body) /\ Fits(ledger[i].body, i) /\ i \in Nat
    BY <1>1, LedgerRows DEF RInv, ConfirmedBased, Shaped
  <2>2. \A j \in References(ledger[i].body) : j < i
    BY <2>1 DEF References, Fits
  <2> QED
    BY <2>1, <2>2 DEF Based
<1> QED
  BY <1>1, LedgerInvariant, PTL

-------------------------------------------------------------------------------
(* What an active package rests on *)

RecordsWith(kinds) == {i \in Records : ledger[i].body.kind \in kinds}

\* The records some records name.
Refs(S) == UNION {References(ledger[i].body) : i \in S}

\* What a record names, by its kind.
LEMMA NamedByKind ==
  ASSUME RInv, NEW i \in Records
  PROVE  /\ ledger[i].body.kind = "source_item" => References(ledger[i].body) = {}
         /\ ledger[i].body.kind = "product_fact" =>
              /\ References(ledger[i].body) = {SourceOf(i), VersionOf(i)}
              /\ SourceOf(i) \in RecordsWith({"source_item"})
              /\ VersionOf(i) \in RecordsWith({"product_version"})
         /\ ledger[i].body.kind \in RuleKinds =>
              /\ References(ledger[i].body) = {SourceOf(i)}
              /\ SourceOf(i) \in RecordsWith({"source_item"})
<1>1. Fits(ledger[i].body, i) /\ i \in 1..Len(ledger) /\ Len(ledger) \in Nat
  BY LedgerRows DEF RInv, Shaped
<1>2. 1..i - 1 \subseteq Records
  BY <1>1 DEF Records
<1> QED
  BY <1>1, <1>2 DEF Fits, References, SourceOf, VersionOf, RecordsWith, RuleKinds

\* Facts and rules rest, in two steps, on just what a preflight looks at.
LEMMA EvidenceRestsOn ==
  ASSUME RInv, NEW p, NEW c, c.facts \subseteq RecordsWith({"product_fact"})
  PROVE  RestsOn(RestsOn(c.facts \cup Rules(BrandOf(p)))) = Evidence(p, c)
<1> DEFINE F  == c.facts
           R  == Rules(BrandOf(p))
           FS == {SourceOf(f) : f \in F}
           V  == {VersionOf(f) : f \in F}
           VS == {SourceOf(v) : v \in V}
           RS == {SourceOf(i) : i \in R}
<1>1. \A i \in R : i \in Records /\ ledger[i].body.kind \in RuleKinds
  BY DEF Rules, RecordsOf, RuleKinds
<1>2. \A f \in F : /\ References(ledger[f].body) = {SourceOf(f), VersionOf(f)}
                   /\ SourceOf(f) \in RecordsWith({"source_item"})
                   /\ VersionOf(f) \in RecordsWith({"product_version"})
  BY NamedByKind DEF RecordsWith
<1>3. \A i \in R : /\ References(ledger[i].body) = {SourceOf(i)}
                   /\ SourceOf(i) \in RecordsWith({"source_item"})
  BY <1>1, NamedByKind
<1>4. \A i \in RecordsWith({"source_item"}) : References(ledger[i].body) = {}
  BY NamedByKind DEF RecordsWith
<1>5. \A i \in RecordsWith({"product_version"}) : References(ledger[i].body) = {SourceOf(i)}
  BY NamedByKind DEF RecordsWith, RuleKinds
<1>6. Evidence(p, c) = F \cup FS \cup V \cup VS \cup R \cup RS
  BY DEF Evidence
<1>7. Refs(F) = FS \cup V
  BY <1>2 DEF Refs
<1>8. Refs(R) = RS
  BY <1>3 DEF Refs
<1>9. Refs(FS) = {} /\ Refs(RS) = {}
  BY <1>2, <1>3, <1>4 DEF Refs
<1>10. Refs(V) = VS
  <2>1. \A i \in V : References(ledger[i].body) = {SourceOf(i)}
    BY <1>2, <1>5
  <2> HIDE DEF V
  <2> QED
    BY <2>1 DEF Refs
<1>11. \A S, T : Refs(S \cup T) = Refs(S) \cup Refs(T)
  BY DEF Refs
<1> HIDE DEF F, R, FS, V, VS, RS
<1>12. RestsOn(F \cup R) = F \cup R \cup FS \cup V \cup RS
  BY <1>7, <1>8, <1>11 DEF RestsOn, Refs
<1>13. Refs(F \cup R \cup FS \cup V \cup RS) = FS \cup V \cup RS \cup VS
  <2>1. Refs(F \cup R \cup FS \cup V \cup RS)
          = Refs(F) \cup Refs(R) \cup Refs(FS) \cup Refs(V) \cup Refs(RS)
    <3>1. Refs(F \cup R \cup FS) = Refs(F \cup R) \cup Refs(FS) /\ Refs(F \cup R) = Refs(F) \cup Refs(R)
      BY <1>11
    <3>2. Refs(F \cup R \cup FS \cup V) = Refs(F \cup R \cup FS) \cup Refs(V)
      BY <1>11
    <3>3. Refs(F \cup R \cup FS \cup V \cup RS) = Refs(F \cup R \cup FS \cup V) \cup Refs(RS)
      BY <1>11
    <3> QED
      BY <3>1, <3>2, <3>3
  <2> QED
    BY <2>1, <1>7, <1>8, <1>9, <1>10
<1>14. RestsOn(F \cup R \cup FS \cup V \cup RS) =
         (F \cup R \cup FS \cup V \cup RS) \cup Refs(F \cup R \cup FS \cup V \cup RS)
  BY DEF RestsOn, Refs
<1>15. RestsOn(RestsOn(F \cup R)) = F \cup FS \cup V \cup VS \cup R \cup RS
  BY <1>12, <1>13, <1>14
<1> QED
  BY <1>6, <1>15 DEF F, R

\* Once the preflight passes, the rules it looks at are those current at the time.
LEMMA RulesAreCurrent ==
  ASSUME NEW p, NEW c, NEW t, Passes(p, c, t)
  PROVE  Rules(BrandOf(p)) =
           {i \in Records : /\ ledger[i].body.kind \in {"brand_profile", "claim_policy"}
                            /\ ledger[i].body.brand = BrandOf(p)
                            /\ Current(i, t)}
<1>1. \A i \in Rules(BrandOf(p)) : Current(i, t)
  BY DEF Passes, Evidence
<1> QED
  BY <1>1 DEF Rules, RecordsOf, Current

\* A package shown as active stands as it was approved, whatever was replaced, confirmed,
\* decided or cancelled since (content.py:518-553 against content_preflight.py:44-120).
THEOREM ActiveStands == Spec => []ActivePackageStands
<1>1. ASSUME LInv, RInv
      PROVE  ActivePackageStands
  <2> SUFFICES ASSUME NEW p \in Posts, NEW k \in 1..Len(package[p]), Status(p, k) = "active"
               PROVE  LET pkg   == package[p][k]
                          says  == revision[p][pkg.revision]
                          rules == {i \in Records :
                                      /\ ledger[i].body.kind \in {"brand_profile", "claim_policy"}
                                      /\ ledger[i].body.brand = BrandOf(p)
                                      /\ Current(i, pkg.scheduled)}
                          base  == RestsOn(RestsOn(says.facts \cup rules))
                      IN /\ post[p].state = "package_ready"
                         /\ base = decision[p][pkg.approval].checked
                         /\ \A i \in base : Current(i, pkg.scheduled)
                         /\ \A i \in rules : says.text \notin ledger[i].body.forbids
    BY DEF ActivePackageStands
  <2> DEFINE pkg   == package[p][k]
             rules == {i \in Records :
                         /\ ledger[i].body.kind \in {"brand_profile", "claim_policy"}
                         /\ ledger[i].body.brand = BrandOf(p)
                         /\ Current(i, pkg.scheduled)}
  <2>1. /\ ~pkg.cancelled /\ OfThePost(p, k) /\ pkg.revision = post[p].current
        /\ Passes(p, Saying(p), pkg.scheduled)
        /\ Evidence(p, Saying(p)) = pkg.checked
    BY DEF Status, OfThePost
  <2>2. RevisionsOK(p) /\ PackageOK(p, pkg) /\ LiveOK(p)
    BY <1>1 DEF LInv, RowOK, PackagesOK
  <2>3. post[p].state = "package_ready"
    BY <2>1, <2>2 DEF LiveOK, Live
  <2>4. revision[p][pkg.revision] = Saying(p)
    BY <2>1 DEF Saying
  <2>5. Saying(p).facts \subseteq RecordsWith({"product_fact"})
    BY <2>1, <2>2 DEF RevisionsOK, PackageOK, Saying, RecordsWith
  <2>6. rules = Rules(BrandOf(p))
    BY <2>1, RulesAreCurrent
  <2>7. RestsOn(RestsOn(Saying(p).facts \cup rules)) = Evidence(p, Saying(p))
    BY <1>1, <2>5, <2>6, EvidenceRestsOn
  <2>8. Evidence(p, Saying(p)) = decision[p][pkg.approval].checked
    BY <2>1, <2>2 DEF PackageOK
  <2>9. /\ \A i \in Evidence(p, Saying(p)) : Current(i, pkg.scheduled)
        /\ \A i \in Rules(BrandOf(p)) : Saying(p).text \notin ledger[i].body.forbids
    BY <2>1 DEF Passes
  <2> HIDE DEF rules
  <2> QED
    BY <2>3, <2>4, <2>6, <2>7, <2>8, <2>9 DEF rules
<1> QED
  BY <1>1, Invariant, LedgerUnderPosts, PTL

-------------------------------------------------------------------------------
(* Reviews and decisions *)

Hits(s, T) == {n \in 1..Len(s) : s[n] \in T}

DecisionsOn(r) == {d \in DecisionType : d.revision = r}

Asked(p, r) == Cardinality(Hits(review[p], {r}))

Answered(p, r) == Cardinality(Hits(decision[p], DecisionsOn(r)))

\* DecisionsAnswerReviews, for one post and a revision of it.
Balanced(p, r) ==
  /\ Answered(p, r) <= Asked(p, r) /\ Asked(p, r) <= Answered(p, r) + 1
  /\ r = post[p].current => (Asked(p, r) = Answered(p, r) + 1 <=> post[p].state = "in_review")

\* Reviews and decisions are of revisions the post has, and answer each other.
AnswersOK(p) ==
  /\ \A n \in 1..Len(review[p]) : review[p][n] \in 1..Len(revision[p])
  /\ \A n \in 1..Len(decision[p]) : decision[p][n].revision \in 1..Len(revision[p])
  /\ \A r \in 1..Len(revision[p]) : Balanced(p, r)

AInv == LInv /\ \A p \in Posts : AnswersOK(p)

LEMMA HitsFinite ==
  ASSUME NEW S, NEW s \in Seq(S), NEW T
  PROVE  IsFiniteSet(Hits(s, T)) /\ Cardinality(Hits(s, T)) \in Nat
<1>1. Len(s) \in Nat /\ Hits(s, T) \subseteq 1..Len(s)
  BY LenProperties DEF Hits
<1>2. IsFiniteSet(1..Len(s))
  BY <1>1, FS_Interval
<1>3. IsFiniteSet(Hits(s, T))
  BY <1>1, <1>2, FS_Subset
<1> QED
  BY <1>3, FS_CardinalityType

\* An appended element is one more hit or none.
LEMMA HitsAppended ==
  ASSUME NEW S, NEW s \in Seq(S), NEW x \in S, NEW T
  PROVE  Cardinality(Hits(Append(s, x), T)) = Cardinality(Hits(s, T)) + (IF x \in T THEN 1 ELSE 0)
<1> DEFINE n == Len(s) + 1
<1>1. /\ Append(s, x) \in Seq(S) /\ Len(Append(s, x)) = n /\ Len(s) \in Nat
      /\ \A m \in 1..Len(s) : Append(s, x)[m] = s[m]
      /\ Append(s, x)[n] = x
  BY Appended
<1>2. 1..n = 1..Len(s) \cup {n} /\ n \notin 1..Len(s)
  BY <1>1
<1> HIDE DEF n
<1>3. Hits(Append(s, x), T) = Hits(s, T) \cup (IF x \in T THEN {n} ELSE {})
  BY <1>1, <1>2 DEF Hits
<1>4. n \notin Hits(s, T) /\ IsFiniteSet(Hits(s, T)) /\ Cardinality(Hits(s, T)) \in Nat
  BY <1>2, HitsFinite DEF Hits
<1>5. CASE x \in T
  <2>1. Hits(Append(s, x), T) = Hits(s, T) \cup {n}
    BY <1>3, <1>5
  <2> QED
    BY <1>4, <1>5, <2>1, FS_AddElement
<1>6. CASE x \notin T
  <2>1. Hits(Append(s, x), T) = Hits(s, T)
    BY <1>3, <1>6
  <2> QED
    BY <1>4, <1>6, <2>1
<1> QED
  BY <1>5, <1>6

\* A step that leaves reviews, decisions and the text of p alone, and neither opens nor
\* closes a review, keeps them in balance.
LEMMA QuietKeeps ==
  ASSUME NEW p \in Posts, AnswersOK(p), revision'[p] = revision[p], review'[p] = review[p],
         decision'[p] = decision[p], post'[p].current = post[p].current,
         post'[p].state = "in_review" <=> post[p].state = "in_review"
  PROVE  AnswersOK(p)'
<1>1. \A r : Asked(p, r)' = Asked(p, r) /\ Answered(p, r)' = Answered(p, r)
  BY DEF Asked, Answered
<1>2. \A r : Balanced(p, r) => Balanced(p, r)'
  BY <1>1 DEF Balanced
<1> QED
  BY <1>2 DEF AnswersOK

LEMMA SaveBalances ==
  ASSUME AInv, NEW p \in Posts, NEW c \in Content, SaveRevision(p, c)
  PROVE  AnswersOK(p)'
<1>1. /\ post \in [Posts -> PostType] /\ post[p] \in PostType
      /\ revision \in [Posts -> Seq(Content)] /\ revision[p] \in Seq(Content)
      /\ Len(revision[p]) \in Nat /\ AnswersOK(p) /\ post[p].current \in 0..Len(revision[p])
      /\ Len(review[p]) \in Nat /\ Len(decision[p]) \in Nat
  BY RowTypes DEF AInv, LInv, PostsTypeOK, RowOK, RevisionsOK
<1>2. PICK n \in Nat : n = Len(revision[p]) + 1
  BY <1>1
<1>3. /\ revision'[p] = Append(revision[p], c) /\ Len(revision'[p]) = n
      /\ post'[p].current = n /\ post'[p].state = "draft"
      /\ review'[p] = review[p] /\ decision'[p] = decision[p]
  BY <1>1, <1>2, Appended DEF SaveRevision, Saved, Moved, Post
<1>4. \A r : Asked(p, r)' = Asked(p, r) /\ Answered(p, r)' = Answered(p, r)
  BY <1>3 DEF Asked, Answered
<1>5. \A r \in 1..Len(revision[p]) : Balanced(p, r)'
  <2>1. \A r \in 1..Len(revision[p]) : r # n
    BY <1>1, <1>2
  <2> QED
    BY <1>1, <1>3, <1>4, <2>1 DEF AnswersOK, Balanced
<1>6. Balanced(p, n)'
  <2>1. Hits(review[p], {n}) = {} /\ Hits(decision[p], DecisionsOn(n)) = {}
    BY <1>1, <1>2 DEF AnswersOK, Hits, DecisionsOn
  <2>2. Asked(p, n) = 0 /\ Answered(p, n) = 0
    BY <2>1, FS_EmptySet DEF Asked, Answered
  <2>3. Asked(p, n)' = 0 /\ Answered(p, n)' = 0
    BY <2>2, <1>4
  <2> QED
    BY <1>3, <2>3 DEF Balanced
<1>7. \A r \in 1..n : r \in 1..Len(revision[p]) \/ r = n
  BY <1>1, <1>2
<1>8. 1..Len(revision[p]) \subseteq 1..n
  BY <1>1, <1>2
<1> QED
  BY <1>1, <1>3, <1>5, <1>6, <1>7, <1>8 DEF AnswersOK

LEMMA RequestBalances ==
  ASSUME AInv, NEW p \in Posts, RequestReview(p)
  PROVE  AnswersOK(p)'
<1>0. PICK c : c = post[p].current
  OBVIOUS
<1>1. /\ post \in [Posts -> PostType] /\ review \in [Posts -> Seq(Nat)]
      /\ review[p] \in Seq(Nat) /\ decision[p] \in Seq(DecisionType)
      /\ Len(review[p]) \in Nat /\ Len(revision[p]) \in Nat
      /\ AnswersOK(p) /\ c \in 1..Len(revision[p]) /\ c \in Nat
      /\ post[p].state # "in_review"
  BY <1>0, RowTypes DEF AInv, LInv, PostsTypeOK, RowOK, RevisionsOK, RequestReview
<1>2. /\ review'[p] = Append(review[p], c) /\ post'[p].current = c
      /\ post'[p].state = "in_review"
      /\ decision'[p] = decision[p] /\ revision'[p] = revision[p]
  BY <1>0, <1>1 DEF RequestReview, Moved, Post
<1>3. \A r : /\ Asked(p, r)' = Asked(p, r) + (IF c \in {r} THEN 1 ELSE 0)
             /\ Answered(p, r)' = Answered(p, r)
             /\ Asked(p, r) \in Nat /\ Answered(p, r) \in Nat
  <2> TAKE r
  <2>1. Asked(p, r)' = Asked(p, r) + (IF c \in {r} THEN 1 ELSE 0)
    <3>1. review[p] \in Seq(Nat) /\ c \in Nat
      BY <1>1
    <3>2. Cardinality(Hits(Append(review[p], c), {r}))
            = Cardinality(Hits(review[p], {r})) + (IF c \in {r} THEN 1 ELSE 0)
      BY <3>1, HitsAppended
    <3> QED
      BY <1>2, <3>2 DEF Asked
  <2>2. Answered(p, r)' = Answered(p, r)
    BY <1>2 DEF Answered
  <2>3. Asked(p, r) \in Nat /\ Answered(p, r) \in Nat
    BY <1>1, HitsFinite DEF Asked, Answered
  <2> QED
    BY <2>1, <2>2, <2>3
<1>4. Balanced(p, c)'
  <2>1. Asked(p, c) = Answered(p, c)
    BY <1>0, <1>1, <1>3 DEF AnswersOK, Balanced
  <2>2. Asked(p, c)' = Answered(p, c) + 1 /\ Answered(p, c)' = Answered(p, c)
    BY <1>3, <2>1
  <2>3. Answered(p, c) \in Nat
    BY <1>3
  <2> QED
    BY <1>2, <2>2, <2>3 DEF Balanced
<1>5. \A r \in 1..Len(revision[p]) \ {c} : Balanced(p, r)'
  <2>1. \A r \in 1..Len(revision[p]) \ {c} : Asked(p, r)' = Asked(p, r)
    BY <1>3
  <2> QED
    BY <1>0, <1>1, <1>2, <1>3, <2>1 DEF AnswersOK, Balanced
<1>6. /\ Len(review'[p]) = Len(review[p]) + 1
      /\ \A m \in 1..Len(review[p]) : review'[p][m] = review[p][m]
      /\ review'[p][Len(review[p]) + 1] = c
  BY <1>1, <1>2, Appended
<1>7. \A m \in 1..Len(review'[p]) : m \in 1..Len(review[p]) \/ m = Len(review[p]) + 1
  BY <1>1, <1>6
<1>8. \A m \in 1..Len(review'[p]) : review'[p][m] \in 1..Len(revision[p])
  BY <1>1, <1>6, <1>7 DEF AnswersOK
<1> QED
  BY <1>1, <1>2, <1>4, <1>5, <1>8 DEF AnswersOK

LEMMA DecideBalances ==
  ASSUME AInv, NEW p \in Posts, NEW r \in 1..Len(revision[p]),
         NEW verdict \in {"approve", "reject"}, DecidePost(p, r, verdict)
  PROVE  AnswersOK(p)'
<1>1. PICK d : d = Decided(p, verdict)
  OBVIOUS
<1>2. /\ LedgerOK /\ PostsTypeOK /\ RevisionsOK(p) /\ AnswersOK(p)
      /\ post[p].state = "in_review" /\ r = post[p].current
      /\ review[p] \in Seq(Nat) /\ decision[p] \in Seq(DecisionType)
      /\ Len(decision[p]) \in Nat /\ post[p] \in PostType
  BY RowTypes DEF AInv, LInv, RowOK, DecidePost
<1>3. d \in DecisionType /\ d.revision = r
  <2>1. Saying(p).facts \subseteq {i \in Records : ledger[i].body.kind = "product_fact"}
    BY <1>2 DEF RevisionsOK, Saying
  <2>2. Evidence(p, Saying(p)) \in SUBSET Nat /\ post[p].current \in Nat
    BY <1>2, <2>1, EvidenceIsRecords DEF PostType
  <2> QED
    BY <1>1, <1>2, <2>2 DEF Decided, DecisionType
<1>4. /\ decision'[p] = Append(decision[p], d) /\ post'[p].current = r
      /\ post'[p].state # "in_review"
      /\ review'[p] = review[p] /\ revision'[p] = revision[p]
  BY <1>1, <1>2 DEF DecidePost, Moved, Post, PostsTypeOK
<1>5. \A q : /\ Answered(p, q)' = Answered(p, q) + (IF q = r THEN 1 ELSE 0)
             /\ Asked(p, q)' = Asked(p, q)
             /\ Asked(p, q) \in Nat /\ Answered(p, q) \in Nat
  <2> TAKE q
  <2>1. d \in DecisionsOn(q) <=> q = r
    BY <1>3 DEF DecisionsOn
  <2>2. Answered(p, q)' = Answered(p, q) + (IF d \in DecisionsOn(q) THEN 1 ELSE 0)
    BY <1>2, <1>3, <1>4, HitsAppended DEF Answered
  <2>3. Asked(p, q)' = Asked(p, q)
    BY <1>4 DEF Asked
  <2>4. Asked(p, q) \in Nat /\ Answered(p, q) \in Nat
    BY <1>2, HitsFinite DEF Asked, Answered
  <2> QED
    BY <2>1, <2>2, <2>3, <2>4
<1>6. Balanced(p, r)'
  <2>1. Asked(p, r) = Answered(p, r) + 1
    BY <1>2 DEF AnswersOK, Balanced
  <2>2. Asked(p, r)' = Answered(p, r)' /\ Answered(p, r)' \in Nat
    BY <1>5, <2>1
  <2> QED
    BY <1>4, <2>2 DEF Balanced
<1>7. \A q \in 1..Len(revision[p]) \ {r} : Balanced(p, q)'
  <2>1. \A q \in 1..Len(revision[p]) \ {r} : Answered(p, q)' = Answered(p, q)
    BY <1>5
  <2> QED
    BY <1>2, <1>4, <1>5, <2>1 DEF AnswersOK, Balanced
<1>8. /\ Len(decision'[p]) = Len(decision[p]) + 1
      /\ \A m \in 1..Len(decision[p]) : decision'[p][m] = decision[p][m]
      /\ decision'[p][Len(decision[p]) + 1] = d
  BY <1>2, <1>3, <1>4, Appended
<1>9. \A m \in 1..Len(decision'[p]) : m \in 1..Len(decision[p]) \/ m = Len(decision[p]) + 1
  BY <1>2, <1>8
<1>10. \A m \in 1..Len(decision'[p]) : decision'[p][m].revision \in 1..Len(revision[p])
  BY <1>2, <1>3, <1>8, <1>9 DEF AnswersOK
<1> QED
  BY <1>2, <1>4, <1>6, <1>7, <1>10 DEF AnswersOK

\* A command is about one post; of the others reviews and decisions stay in balance.
LEMMA OthersQuiet ==
  ASSUME AInv, NEW p \in Posts, AnswersOK(p)',
         \A q \in Posts \ {p} : /\ post'[q] = post[q] /\ revision'[q] = revision[q]
                                /\ review'[q] = review[q] /\ decision'[q] = decision[q]
  PROVE  \A q \in Posts : AnswersOK(q)'
<1>1. \A q \in Posts \ {p} : AnswersOK(q)'
  BY QuietKeeps DEF AInv
<1> QED
  BY <1>1

LEMMA CommandBalances ==
  ASSUME AInv, PostsNext
  PROVE  \A q \in Posts : AnswersOK(q)'
<1>1. /\ post \in [Posts -> PostType] /\ revision \in [Posts -> Seq(Content)]
      /\ review \in [Posts -> Seq(Nat)] /\ decision \in [Posts -> Seq(DecisionType)]
      /\ \A p \in Posts : AnswersOK(p)
  BY DEF AInv, LInv, PostsTypeOK
<1>2. ASSUME NEW p \in Posts, NEW i \in Records, CreatePost(p, i)
      PROVE  \A q \in Posts : AnswersOK(q)'
  <2>1. post[p] = Absent
    BY <1>2 DEF AInv, LInv, RowOK, Existing, CreatePost
  <2>2. /\ post'[p].current = post[p].current
        /\ post'[p].state # "in_review" /\ post[p].state # "in_review"
    BY <1>1, <1>2, <2>1 DEF CreatePost, Post, Absent
  <2>3. AnswersOK(p)'
    BY <1>1, <1>2, <2>2, QuietKeeps DEF CreatePost
  <2> QED
    BY <1>1, <1>2, <2>3, OthersQuiet DEF CreatePost
<1>3. ASSUME NEW p \in Posts, NEW c \in Contents(p), SaveRevision(p, c)
      PROVE  \A q \in Posts : AnswersOK(q)'
  <2>1. AnswersOK(p)'
    BY <1>3, ContentsAreContent, SaveBalances DEF AInv, LInv
  <2> QED
    BY <1>1, <1>3, <2>1, OthersQuiet DEF SaveRevision
<1>4. ASSUME NEW p \in Posts, RequestReview(p)
      PROVE  \A q \in Posts : AnswersOK(q)'
  BY <1>1, <1>4, RequestBalances, OthersQuiet DEF RequestReview
<1>5. ASSUME NEW p \in Posts, NEW r \in 1..Len(revision[p]),
             NEW verdict \in {"approve", "reject"}, DecidePost(p, r, verdict)
      PROVE  \A q \in Posts : AnswersOK(q)'
  <2>1. AnswersOK(p)'
    BY <1>5, DecideBalances
  <2> QED
    BY <1>1, <1>5, <2>1, OthersQuiet DEF DecidePost
<1>6. ASSUME NEW p \in Posts, NEW r, NEW t, PreparePackage(p, r, t)
      PROVE  \A q \in Posts : AnswersOK(q)'
  <2>1. /\ post'[p].current = post[p].current
        /\ post'[p].state # "in_review" /\ post[p].state # "in_review"
    BY <1>1, <1>6 DEF PreparePackage, Moved, Post
  <2>2. AnswersOK(p)'
    BY <1>1, <1>6, <2>1, QuietKeeps DEF PreparePackage
  <2> QED
    BY <1>1, <1>6, <2>2, OthersQuiet DEF PreparePackage
<1>7. ASSUME NEW p \in Posts, NEW k \in 1..Len(package[p]), CancelPackage(p, k)
      PROVE  \A q \in Posts : AnswersOK(q)'
  <2>1. OfThePost(p, k) => post[p].state = "package_ready"
    BY <1>7 DEF AInv, LInv, RowOK, LiveOK, Live, CancelPackage
  <2>2. /\ post'[p].current = post[p].current
        /\ post'[p].state = "in_review" <=> post[p].state = "in_review"
    BY <1>1, <1>7, <2>1 DEF CancelPackage, Moved, Post
  <2>3. AnswersOK(p)'
    BY <1>1, <1>7, <2>2, QuietKeeps DEF CancelPackage
  <2> QED
    BY <1>1, <1>7, <2>3, OthersQuiet DEF CancelPackage
<1> QED
  BY <1>2, <1>3, <1>4, <1>5, <1>6, <1>7 DEF PostsNext

LEMMA AnswersInvariant == Spec => []AInv
<1>1. ASSUME Init
      PROVE  AInv
  <2>1. \A p \in Posts : Len(revision[p]) = 0 /\ Len(review[p]) = 0 /\ Len(decision[p]) = 0
    BY <1>1, EmptySeq DEF Init, PostsInit
  <2> QED
    BY <1>1, <2>1, InitHolds DEF AInv, AnswersOK
<1>2. ASSUME AInv, [Next]_vars
      PROVE  AInv'
  <2>1. LInv'
    BY <1>2, NextKeeps DEF AInv
  <2>2. CASE PostsNext
    BY <1>2, <2>1, <2>2, CommandBalances DEF AInv
  <2>3. CASE UNCHANGED postVars
    BY <1>2, <2>1, <2>3, QuietKeeps DEF AInv, postVars
  <2> QED
    BY <1>2, <2>2, <2>3 DEF Next, vars
<1> QED
  BY <1>1, <1>2, PTL DEF Spec

\* Every decision answers a review of its own, asked for the same revision, and a review
\* stays open only while the post is in review (content.py:245-263).
THEOREM DecisionsAnswer == Spec => []DecisionsAnswerReviews
<1>1. ASSUME AInv
      PROVE  DecisionsAnswerReviews
  <2> SUFFICES ASSUME NEW p \in Posts, NEW r \in 1..Len(revision[p])
               PROVE  LET asked   == Count(review[p], LAMBDA x : x = r)
                          decided == Count(decision[p], LAMBDA x : x.revision = r)
                      IN /\ decided <= asked /\ asked <= decided + 1
                         /\ r = post[p].current =>
                              (asked = decided + 1 <=> post[p].state = "in_review")
    BY DEF DecisionsAnswerReviews
  <2>1. Count(review[p], LAMBDA x : x = r) = Asked(p, r)
    BY DEF Count, Asked, Hits
  <2>2. Count(decision[p], LAMBDA x : x.revision = r) = Answered(p, r)
    <3>1. \A n \in 1..Len(decision[p]) : decision[p][n] \in DecisionType
      BY <1>1, RowTypes DEF AInv, LInv
    <3>2. {n \in 1..Len(decision[p]) : decision[p][n].revision = r} =
            Hits(decision[p], DecisionsOn(r))
      BY <3>1 DEF Hits, DecisionsOn
    <3> QED
      BY <3>2 DEF Count, Answered
  <2>3. Balanced(p, r)
    BY <1>1 DEF AInv, AnswersOK
  <2> QED
    BY <2>1, <2>2, <2>3 DEF Balanced
<1> QED
  BY <1>1, AnswersInvariant, PTL

-------------------------------------------------------------------------------
(* The promise of publication is kept *)

\* The decisions of a post tell the same as its row: there is at most one approval of the
\* revision it has now, it is the last decision, and the row names it.
TellsOK(p) ==
  /\ post[p].current = Len(revision[p])
  /\ \A n \in 1..Len(decision[p]) :
       /\ decision[p][n].revision \in 1..Len(revision[p])
       /\ decision[p][n].verdict = "approve" /\ decision[p][n].revision = post[p].current
            => post[p].approval = n
  /\ post[p].approval # 0 => post[p].approval = Len(decision[p])

TInv == LInv /\ \A p \in Posts : TellsOK(p)

\* So what publication is told of a post can be read off its row.
TellsOfRow(p) ==
  Shelf[p] = [text |-> post[p].current, approved |-> post[p].approval # 0,
              issued |-> Len(package[p]), offered |-> Live(p)]

LEMMA RowTells ==
  TInv => \A p \in Posts : TellsOfRow(p)
<1> SUFFICES ASSUME TInv, NEW p \in Posts
             PROVE  TellsOfRow(p)
  OBVIOUS
<1>1. LInv /\ TellsOK(p) /\ RowOK(p) /\ Len(decision[p]) \in Nat
  BY RowTypes DEF TInv, LInv
<1>2. Approved(p) = (post[p].approval # 0)
  <2>1. ASSUME Approved(p) PROVE post[p].approval # 0
    <3>1. Len(decision[p]) \in 1..Len(decision[p])
      BY <1>1, <2>1 DEF Approved
    <3> QED
      BY <1>1, <2>1, <3>1 DEF Approved, TellsOK
  <2>2. ASSUME post[p].approval # 0 PROVE Approved(p)
    BY <1>1, <2>2 DEF RowOK, ApprovalOK, TellsOK, Approved
  <2>3. Approved(p) \in BOOLEAN
    BY DEF Approved
  <2> QED
    BY <2>1, <2>2, <2>3
<1>3. Offered(p) = Live(p)
  <2>1. ASSUME NEW k \in Offered(p) PROVE k \in Live(p)
    <3>1. /\ k \in 1..Len(package[p]) /\ ~package[p][k].cancelled
          /\ package[p][k].revision = post[p].current /\ PackageOK(p, package[p][k])
      BY <1>1 DEF Offered, RowOK, PackagesOK
    <3>2. post[p].approval = package[p][k].approval
      BY <1>1, <3>1 DEF PackageOK, TellsOK
    <3> QED
      BY <3>1, <3>2 DEF Live, OfThePost
  <2> QED
    BY <2>1 DEF Live, OfThePost, Offered
<1> QED
  BY <1>2, <1>3 DEF TellsOfRow, Shelf

\* What a command leaves alone keeps telling the same.
LEMMA UntouchedTells ==
  ASSUME NEW p \in Posts, Untouched(p), TellsOK(p)
  PROVE  TellsOK(p)' /\ Shelf'[p] = Shelf[p]
BY DEF Untouched, TellsOK, Shelf, Approved, Offered

\* What each command does to the row and to the packages that are live.
LEMMA CreateTells ==
  ASSUME TInv, NEW p \in Posts, NEW i \in Records, CreatePost(p, i)
  PROVE  TellsOK(p)' /\ Shelf'[p] = Shelf[p]
<1>1. /\ LInv /\ post \in [Posts -> PostType] /\ TellsOK(p) /\ RowOK(p)
  BY DEF TInv, LInv, PostsTypeOK
<1>2. /\ post[p].current = 0 /\ post[p].approval = 0 /\ Len(revision[p]) = 0
      /\ Len(package[p]) = 0
  BY <1>1 DEF CreatePost, RowOK, Existing, Absent, Post
<1>3. /\ post'[p].current = 0 /\ post'[p].approval = 0
      /\ UNCHANGED <<revision, decision, package>>
  BY <1>1 DEF CreatePost, Post
<1> QED
  BY <1>1, <1>2, <1>3 DEF TellsOK, Shelf, Approved, Offered

LEMMA SaveTells ==
  ASSUME TInv, NEW p \in Posts, NEW c \in Content, SaveRevision(p, c)
  PROVE  /\ TellsOK(p)'
         /\ post'[p].current = post[p].current + 1 /\ post'[p].approval = 0
         /\ Len(package'[p]) = Len(package[p]) /\ Live(p)' = {}
<1>1. /\ LInv /\ post \in [Posts -> PostType] /\ TellsOK(p) /\ RowOK(p)
      /\ revision \in [Posts -> Seq(Content)] /\ revision[p] \in Seq(Content)
      /\ Len(revision[p]) \in Nat
  BY RowTypes DEF TInv, LInv, PostsTypeOK
<1>2. /\ post'[p].current = Len(revision[p]) + 1 /\ post'[p].approval = 0
      /\ revision'[p] = Append(revision[p], c)
      /\ UNCHANGED <<decision, package>>
  BY <1>1 DEF SaveRevision, Saved, Moved, Post
<1>3. Len(revision'[p]) = Len(revision[p]) + 1
  BY <1>1, <1>2, Appended
<1>4. Live(p)' = {}
  BY <1>1, <1>2 DEF RowOK, PackagesOK, PackageOK, Live, OfThePost
<1> QED
  BY <1>1, <1>2, <1>3, <1>4 DEF TellsOK

LEMMA RequestTells ==
  ASSUME TInv, NEW p \in Posts, RequestReview(p)
  PROVE  TellsOK(p)' /\ Shelf'[p] = Shelf[p]
<1>1. post \in [Posts -> PostType] /\ TellsOK(p)
  BY DEF TInv, LInv, PostsTypeOK
<1>2. /\ post'[p].current = post[p].current /\ post'[p].approval = post[p].approval
      /\ UNCHANGED <<revision, decision, package>>
  BY <1>1 DEF RequestReview, Moved, Post
<1> QED
  BY <1>1, <1>2 DEF TellsOK, Shelf, Approved, Offered

LEMMA DecideTells ==
  ASSUME TInv, NEW p \in Posts, NEW r \in 1..Len(revision[p]),
         NEW verdict \in {"approve", "reject"}, DecidePost(p, r, verdict)
  PROVE  /\ TellsOK(p)'
         /\ post[p].approval = 0 /\ post[p].current # 0
         /\ post'[p].current = post[p].current
         /\ post'[p].approval # 0 <=> verdict = "approve"
         /\ Len(package'[p]) = Len(package[p]) /\ Live(p) = {} /\ Live(p)' = {}
<1>1. /\ LInv /\ post \in [Posts -> PostType] /\ TellsOK(p) /\ RowOK(p)
      /\ decision \in [Posts -> Seq(DecisionType)] /\ decision[p] \in Seq(DecisionType)
      /\ Len(decision[p]) \in Nat
  BY RowTypes DEF TInv, LInv, PostsTypeOK
<1>2. post[p].state = "in_review" /\ r = post[p].current
  BY DEF DecidePost
<1>3. post[p].approval = 0 /\ Live(p) = {}
  BY <1>1, <1>2 DEF RowOK, ApprovalOK, LiveOK
<1>4. PICK d : d = Decided(p, verdict)
  OBVIOUS
<1>5. /\ post'[p].current = post[p].current
      /\ post'[p].approval = IF verdict = "approve" THEN Len(decision[p]) + 1 ELSE 0
      /\ post'[p].state # "package_ready"
      /\ decision'[p] = Append(decision[p], d)
      /\ UNCHANGED <<revision, package>>
  BY <1>1, <1>4 DEF DecidePost, Moved, Post
<1>6. d.revision = post[p].current /\ d.verdict = verdict
  BY <1>4 DEF Decided
<1>7. LInv'
  BY <1>1, DecidePostKeeps
<1>8. Live(p)' = {}
  BY <1>5, <1>7 DEF LInv, RowOK, LiveOK
<1>9. /\ Len(decision'[p]) = Len(decision[p]) + 1
      /\ decision'[p][Len(decision[p]) + 1] = d
      /\ \A n \in 1..Len(decision[p]) : decision'[p][n] = decision[p][n]
  <2>1. decision[p] \in Seq(DecisionType \cup {d}) /\ d \in DecisionType \cup {d}
    BY <1>1
  <2> QED
    BY <1>5, <2>1, Appended
<1>10. ASSUME NEW n \in 1..Len(decision'[p])
       PROVE  /\ decision'[p][n].revision \in 1..Len(revision'[p])
              /\ decision'[p][n].verdict = "approve" /\ decision'[p][n].revision = post'[p].current
                   => post'[p].approval = n
  <2>1. CASE n \in 1..Len(decision[p])
    BY <1>1, <1>3, <1>5, <1>9, <2>1 DEF TellsOK
  <2>2. CASE n = Len(decision[p]) + 1
    BY <1>2, <1>5, <1>6, <1>9, <2>2
  <2> QED
    BY <1>1, <1>9, <2>1, <2>2
<1>11. TellsOK(p)'
  BY <1>1, <1>5, <1>9, <1>10 DEF TellsOK
<1> QED
  BY <1>1, <1>2, <1>3, <1>5, <1>8, <1>11

LEMMA PrepareTells ==
  ASSUME TInv, NEW p \in Posts, NEW r \in 1..Len(revision[p]), NEW t \in Nat,
         PreparePackage(p, r, t)
  PROVE  /\ TellsOK(p)'
         /\ post'[p].current = post[p].current /\ post'[p].approval = post[p].approval
         /\ post[p].approval # 0
         /\ Len(package'[p]) = Len(package[p]) + 1
         /\ Live(p) = {} /\ Live(p)' = {Len(package[p]) + 1}
<1>1. /\ LInv /\ post \in [Posts -> PostType] /\ TellsOK(p) /\ RowOK(p)
      /\ package \in [Posts -> Seq(PackageType)] /\ package[p] \in Seq(PackageType)
      /\ Len(package[p]) \in Nat
  BY RowTypes DEF TInv, LInv, PostsTypeOK
<1>2. PICK d : d = Prepared(p, t)
  OBVIOUS
<1>3. /\ post[p].state = "approved" /\ post[p].approval # 0
      /\ post'[p].current = post[p].current /\ post'[p].approval = post[p].approval
      /\ package'[p] = Append(package[p], d)
      /\ UNCHANGED <<revision, decision>>
  BY <1>1, <1>2 DEF PreparePackage, Moved, Post
<1>4. ~d.cancelled /\ d.revision = post[p].current /\ d.approval = post[p].approval
  BY <1>2 DEF Prepared
<1>5. Live(p) = {}
  BY <1>1, <1>3 DEF RowOK, LiveOK
<1>6. /\ Len(package'[p]) = Len(package[p]) + 1
      /\ package'[p][Len(package[p]) + 1] = d
  <2>1. package[p] \in Seq(PackageType \cup {d}) /\ d \in PackageType \cup {d}
    BY <1>1
  <2> QED
    BY <1>3, <2>1, Appended
<1>7. Len(package[p]) + 1 \in Live(p)'
  BY <1>1, <1>3, <1>4, <1>6 DEF Live, OfThePost
<1>8. LInv'
  BY <1>1, PreparePackageKeeps
<1>9. Live(p)' = {Len(package[p]) + 1}
  BY <1>7, <1>8 DEF LInv, RowOK, LiveOK
<1>10. TellsOK(p)'
  BY <1>1, <1>3 DEF TellsOK
<1> QED
  BY <1>3, <1>5, <1>6, <1>9, <1>10

LEMMA CancelTells ==
  ASSUME TInv, NEW p \in Posts, NEW k \in 1..Len(package[p]), CancelPackage(p, k)
  PROVE  /\ TellsOK(p)'
         /\ post'[p].current = post[p].current /\ post'[p].approval = post[p].approval
         /\ Len(package'[p]) = Len(package[p])
         /\ Live(p)' = Live(p) \/ (Live(p) # {} /\ Live(p)' = {})
<1>1. /\ LInv /\ post \in [Posts -> PostType] /\ TellsOK(p) /\ RowOK(p)
      /\ package \in [Posts -> Seq(PackageType)] /\ package[p] \in Seq(PackageType)
      /\ Len(package[p]) \in Nat /\ package[p][k] \in PackageType
  BY RowTypes DEF TInv, LInv, PostsTypeOK
<1>2. PICK d : d = [package[p][k] EXCEPT !.cancelled = TRUE]
  OBVIOUS
<1>3. d \in PackageType /\ d.cancelled = TRUE
  BY <1>1, <1>2 DEF PackageType
<1>4. /\ post'[p].current = post[p].current /\ post'[p].approval = post[p].approval
      /\ OfThePost(p, k) => post'[p].state = "approved"
      /\ package'[p] = [package[p] EXCEPT ![k] = d]
      /\ UNCHANGED <<revision, decision>> /\ ~package[p][k].cancelled
  BY <1>1, <1>2 DEF CancelPackage, Moved, Post
<1>5. /\ Len(package'[p]) = Len(package[p]) /\ package'[p][k] = d
      /\ \A m \in 1..Len(package[p]) \ {k} : package'[p][m] = package[p][m]
  BY <1>1, <1>3, <1>4, ExceptSeq
<1>6. Live(p)' = Live(p) \ {k}
  BY <1>3, <1>4, <1>5 DEF Live, OfThePost
<1>7. ASSUME k \in Live(p)
      PROVE  Live(p) # {} /\ Live(p)' = {}
  <2>1. \A l \in Live(p) : l = k
    BY <1>1, <1>7 DEF RowOK, LiveOK
  <2> QED
    BY <1>6, <1>7, <2>1
<1>8. ASSUME k \notin Live(p)
      PROVE  Live(p)' = Live(p)
  BY <1>6, <1>8
<1>9. TellsOK(p)'
  BY <1>1, <1>4 DEF TellsOK
<1> QED
  BY <1>4, <1>5, <1>7, <1>8, <1>9

\* A command is about one post.
LEMMA OthersUntouched ==
  ASSUME LInv, NEW p \in Posts,
         \/ \E i \in Records : CreatePost(p, i)
         \/ \E c : SaveRevision(p, c)
         \/ RequestReview(p)
         \/ \E r, verdict : DecidePost(p, r, verdict)
         \/ \E r, t : PreparePackage(p, r, t)
         \/ \E k : CancelPackage(p, k)
  PROVE  \A q \in Posts \ {p} : Untouched(q)
<1>1. /\ post \in [Posts -> PostType] /\ revision \in [Posts -> Seq(Content)]
      /\ decision \in [Posts -> Seq(DecisionType)] /\ package \in [Posts -> Seq(PackageType)]
  BY DEF LInv, PostsTypeOK
<1> QED
  BY <1>1 DEF CreatePost, SaveRevision, RequestReview, DecidePost, PreparePackage,
              CancelPackage, Untouched

\* One entry changes as publication says, or none does.
LEMMA EntryMoves ==
  ASSUME NEW p \in Posts, \A q \in Posts \ {p} : Shelf'[q] = Shelf[q],
         \/ Shelf'[p] = Shelf[p]
         \/ Shelf'[p] = Promise!Entry(Shelf[p].text + 1, FALSE, Shelf[p].issued, {})
         \/ /\ Shelf[p].text # 0 /\ ~Shelf[p].approved
            /\ Shelf'[p] = Promise!Entry(Shelf[p].text, TRUE, Shelf[p].issued, {})
         \/ /\ Shelf[p].approved /\ Shelf[p].offered = {}
            /\ Shelf'[p] = Promise!Entry(Shelf[p].text, TRUE, Shelf[p].issued + 1,
                                         {Shelf[p].issued + 1})
         \/ /\ Shelf[p].offered # {}
            /\ Shelf'[p] = Promise!Entry(Shelf[p].text, Shelf[p].approved, Shelf[p].issued, {})
  PROVE  [Promise!Next]_Shelf
<1> DEFINE old == Shelf
           new == Shelf'
<1>1. old = [q \in Posts |-> old[q]] /\ new = [q \in Posts |-> new[q]]
  BY DEF Shelf
<1>2. ASSUME NEW e, new[p] = e PROVE new = [old EXCEPT ![p] = e]
  BY <1>1, <1>2
<1> HIDE DEF old, new
<1>3. CASE new[p] = old[p]
  <2>1. new = [old EXCEPT ![p] = old[p]]
    BY <1>2, <1>3
  <2> QED
    BY <1>1, <2>1 DEF old, new
<1>4. CASE new[p] = Promise!Entry(old[p].text + 1, FALSE, old[p].issued, {})
  BY <1>2, <1>4 DEF Promise!Next, Promise!Write, old, new
<1>5. CASE /\ old[p].text # 0 /\ ~old[p].approved
           /\ new[p] = Promise!Entry(old[p].text, TRUE, old[p].issued, {})
  BY <1>2, <1>5 DEF Promise!Next, Promise!Approve, old, new
<1>6. CASE /\ old[p].approved /\ old[p].offered = {}
           /\ new[p] = Promise!Entry(old[p].text, TRUE, old[p].issued + 1, {old[p].issued + 1})
  BY <1>2, <1>6 DEF Promise!Next, Promise!Offer, old, new
<1>7. CASE /\ old[p].offered # {}
           /\ new[p] = Promise!Entry(old[p].text, old[p].approved, old[p].issued, {})
  BY <1>2, <1>7 DEF Promise!Next, Promise!Withdraw, old, new
<1> QED
  BY <1>3, <1>4, <1>5, <1>6, <1>7 DEF old, new

LEMMA NextTells ==
  ASSUME TInv, [Next]_vars
  PROVE  TInv'
<1>1. LInv'
  BY NextKeeps DEF TInv
<1>2. ASSUME NEW p \in Posts, TellsOK(p)', \A q \in Posts \ {p} : Untouched(q)
      PROVE  TInv'
  BY <1>1, <1>2, UntouchedTells DEF TInv
<1>3. CASE PostsNext
  <2>1. ASSUME NEW p \in Posts, NEW i \in Records, CreatePost(p, i) PROVE TInv'
    BY <1>2, <2>1, CreateTells, OthersUntouched DEF TInv
  <2>2. ASSUME NEW p \in Posts, NEW c \in Contents(p), SaveRevision(p, c) PROVE TInv'
    BY <1>2, <2>2, ContentsAreContent, SaveTells, OthersUntouched DEF TInv, LInv
  <2>3. ASSUME NEW p \in Posts, RequestReview(p) PROVE TInv'
    BY <1>2, <2>3, RequestTells, OthersUntouched DEF TInv
  <2>4. ASSUME NEW p \in Posts, NEW r \in 1..Len(revision[p]),
               NEW verdict \in {"approve", "reject"}, DecidePost(p, r, verdict)
        PROVE  TInv'
    BY <1>2, <2>4, DecideTells, OthersUntouched DEF TInv
  <2>5. ASSUME NEW p \in Posts, NEW r \in 1..Len(revision[p]), NEW t \in 1..MaxTime + 1,
               PreparePackage(p, r, t)
        PROVE  TInv'
    <3>1. t \in Nat
      BY RecordsAssumption
    <3> QED
      BY <1>2, <2>5, <3>1, PrepareTells, OthersUntouched DEF TInv
  <2>6. ASSUME NEW p \in Posts, NEW k \in 1..Len(package[p]), CancelPackage(p, k) PROVE TInv'
    BY <1>2, <2>6, CancelTells, OthersUntouched DEF TInv
  <2> QED
    BY <1>3, <2>1, <2>2, <2>3, <2>4, <2>5, <2>6 DEF PostsNext
<1>4. CASE UNCHANGED postVars
  BY <1>1, <1>4, UntouchedTells DEF TInv, Untouched, postVars
<1> QED
  BY <1>3, <1>4 DEF Next, vars

\* Every step is a step of publication or leaves what it is told unchanged.
LEMMA NextPublishes ==
  ASSUME TInv, [Next]_vars
  PROVE  [Promise!Next]_Shelf
<1>1. TInv'
  BY NextTells
<1>2. \A p \in Posts : TellsOfRow(p)
  BY RowTells
<1>3. (\A p \in Posts : TellsOfRow(p))'
  BY <1>1, RowTells, PTL
<1>4. ASSUME NEW p \in Posts
      PROVE  /\ Shelf[p].text = post[p].current /\ Shelf[p].approved = (post[p].approval # 0)
             /\ Shelf[p].issued = Len(package[p]) /\ Shelf[p].offered = Live(p)
             /\ Shelf[p] = Promise!Entry(Shelf[p].text, Shelf[p].approved, Shelf[p].issued,
                                         Shelf[p].offered)
  <2>1. PICK a \in BOOLEAN : a = (post[p].approval # 0)
    OBVIOUS
  <2>2. Shelf[p] = Promise!Entry(post[p].current, a, Len(package[p]), Live(p))
    BY <1>2, <2>1 DEF TellsOfRow, Promise!Entry
  <2>3. /\ Shelf[p].text = post[p].current /\ Shelf[p].approved = a
        /\ Shelf[p].issued = Len(package[p]) /\ Shelf[p].offered = Live(p)
    BY <2>2 DEF Promise!Entry
  <2> QED
    BY <2>1, <2>2, <2>3
<1>5. ASSUME NEW p \in Posts, NEW approved \in BOOLEAN,
             approved <=> post'[p].approval # 0
      PROVE  Shelf'[p] = Promise!Entry(post'[p].current, approved, Len(package'[p]), Live(p)')
  <2>1. approved = (post'[p].approval # 0)
    BY <1>5
  <2> QED
    BY <1>3, <2>1 DEF TellsOfRow, Promise!Entry
<1>6. \A p \in Posts : TellsOK(p)
  BY DEF TInv
<1>7. CASE PostsNext
  <2>0. ASSUME NEW p \in Posts, \A q \in Posts \ {p} : Untouched(q)
        PROVE  \A q \in Posts \ {p} : Shelf'[q] = Shelf[q]
    BY <1>6, <2>0, UntouchedTells
  <2>1. ASSUME NEW p \in Posts, NEW i \in Records, CreatePost(p, i)
        PROVE  [Promise!Next]_Shelf
    BY <2>0, <2>1, CreateTells, OthersUntouched, EntryMoves DEF TInv
  <2>2. ASSUME NEW p \in Posts, NEW c \in Contents(p), SaveRevision(p, c)
        PROVE  [Promise!Next]_Shelf
    <3>1. c \in Content
      BY ContentsAreContent DEF TInv, LInv
    <3>2. /\ post'[p].current = post[p].current + 1 /\ post'[p].approval = 0
          /\ Len(package'[p]) = Len(package[p]) /\ Live(p)' = {}
      BY <2>2, <3>1, SaveTells
    <3>3. Shelf'[p] = Promise!Entry(Shelf[p].text + 1, FALSE, Shelf[p].issued, {})
      BY <1>4, <1>5, <3>2
    <3>4. \A q \in Posts \ {p} : Shelf'[q] = Shelf[q]
      BY <2>0, <2>2, OthersUntouched DEF TInv
    <3> QED
      BY <3>3, <3>4, EntryMoves
  <2>3. ASSUME NEW p \in Posts, RequestReview(p)
        PROVE  [Promise!Next]_Shelf
    BY <2>0, <2>3, RequestTells, OthersUntouched, EntryMoves DEF TInv
  <2>4. ASSUME NEW p \in Posts, NEW r \in 1..Len(revision[p]),
               NEW verdict \in {"approve", "reject"}, DecidePost(p, r, verdict)
        PROVE  [Promise!Next]_Shelf
    <3>1. /\ post[p].approval = 0 /\ post[p].current # 0
          /\ post'[p].current = post[p].current
          /\ post'[p].approval # 0 <=> verdict = "approve"
          /\ Len(package'[p]) = Len(package[p]) /\ Live(p) = {} /\ Live(p)' = {}
      BY <2>4, DecideTells
    <3>2. \/ Shelf'[p] = Shelf[p]
          \/ /\ Shelf[p].text # 0 /\ ~Shelf[p].approved
             /\ Shelf'[p] = Promise!Entry(Shelf[p].text, TRUE, Shelf[p].issued, {})
      <4>1. CASE verdict = "approve"
        BY <1>4, <1>5, <3>1, <4>1
      <4>2. CASE verdict # "approve"
        <5>1. Shelf'[p] = Promise!Entry(post[p].current, FALSE, Len(package[p]), {})
          BY <1>5, <3>1, <4>2
        <5> QED
          BY <1>4, <3>1, <5>1
      <4> QED
        BY <4>1, <4>2
    <3>3. \A q \in Posts \ {p} : Shelf'[q] = Shelf[q]
      BY <2>0, <2>4, OthersUntouched DEF TInv
    <3> QED
      BY <3>2, <3>3, EntryMoves
  <2>5. ASSUME NEW p \in Posts, NEW r \in 1..Len(revision[p]), NEW t \in 1..MaxTime + 1,
               PreparePackage(p, r, t)
        PROVE  [Promise!Next]_Shelf
    <3>1. t \in Nat
      BY RecordsAssumption
    <3>2. /\ post'[p].current = post[p].current /\ post'[p].approval = post[p].approval
          /\ post[p].approval # 0
          /\ Len(package'[p]) = Len(package[p]) + 1
          /\ Live(p) = {} /\ Live(p)' = {Len(package[p]) + 1}
      BY <2>5, <3>1, PrepareTells
    <3>3. /\ Shelf[p].approved /\ Shelf[p].offered = {}
          /\ Shelf'[p] = Promise!Entry(Shelf[p].text, TRUE, Shelf[p].issued + 1,
                                       {Shelf[p].issued + 1})
      BY <1>4, <1>5, <3>2
    <3>4. \A q \in Posts \ {p} : Shelf'[q] = Shelf[q]
      BY <2>0, <2>5, OthersUntouched DEF TInv
    <3> QED
      BY <3>3, <3>4, EntryMoves
  <2>6. ASSUME NEW p \in Posts, NEW k \in 1..Len(package[p]), CancelPackage(p, k)
        PROVE  [Promise!Next]_Shelf
    <3>1. /\ post'[p].current = post[p].current /\ post'[p].approval = post[p].approval
          /\ Len(package'[p]) = Len(package[p])
          /\ Live(p)' = Live(p) \/ (Live(p) # {} /\ Live(p)' = {})
      BY <2>6, CancelTells
    <3>2. \/ Shelf'[p] = Shelf[p]
          \/ /\ Shelf[p].offered # {}
             /\ Shelf'[p] = Promise!Entry(Shelf[p].text, Shelf[p].approved, Shelf[p].issued, {})
      <4>1. Shelf[p].approved \in BOOLEAN /\ (Shelf[p].approved <=> post'[p].approval # 0)
        BY <1>4, <3>1
      <4>2. Shelf'[p] = Promise!Entry(Shelf[p].text, Shelf[p].approved, Shelf[p].issued,
                                      Live(p)')
        BY <1>4, <1>5, <3>1, <4>1
      <4> QED
        BY <1>4, <3>1, <4>2
    <3>3. \A q \in Posts \ {p} : Shelf'[q] = Shelf[q]
      BY <2>0, <2>6, OthersUntouched DEF TInv
    <3> QED
      BY <3>2, <3>3, EntryMoves
  <2> QED
    BY <1>7, <2>1, <2>2, <2>3, <2>4, <2>5, <2>6 DEF PostsNext
<1>8. CASE UNCHANGED postVars
  BY <1>8 DEF Shelf, Approved, Offered, postVars
<1> QED
  BY <1>7, <1>8 DEF Next, vars

\* The content lifecycle keeps the promise of publication: it never offers a text nobody
\* approved, two packages at once or an old package again, and nothing but a new text
\* takes an approval back (content.py:176-193, 245-309, content_revision.py:39-43).
THEOREM PromiseKept == Spec => KeepsPublication
<1>1. ASSUME Init
      PROVE  TInv /\ Promise!Init
  <2>1. ASSUME NEW p \in Posts
        PROVE  /\ post[p].current = 0 /\ post[p].approval = 0
               /\ Len(revision[p]) = 0 /\ Len(decision[p]) = 0 /\ Len(package[p]) = 0
    BY <1>1, EmptySeq DEF Init, PostsInit, Absent, Post
  <2>2. TInv
    BY <1>1, <2>1, InitHolds DEF TInv, TellsOK
  <2>3. \A p \in Posts : ~Approved(p) /\ Offered(p) = {}
    BY <2>1 DEF Approved, Offered
  <2>4. ASSUME NEW p \in Posts
        PROVE  Shelf[p] = Promise!Entry(0, FALSE, 0, {})
    <3>1. Approved(p) = FALSE
      BY <2>3 DEF Approved
    <3> QED
      BY <2>1, <2>3, <3>1 DEF Shelf, Promise!Entry
  <2>5. Shelf = [p \in Posts |-> Shelf[p]]
    BY DEF Shelf
  <2>6. Shelf = [p \in Posts |-> Promise!Entry(0, FALSE, 0, {})]
    BY <2>4, <2>5
  <2> QED
    BY <2>2, <2>6 DEF Promise!Init
<1>2. TInv /\ [Next]_vars => TInv'
  BY NextTells
<1>3. TInv /\ [Next]_vars => [Promise!Next]_Shelf
  BY NextPublishes
<1> QED
  BY <1>1, <1>2, <1>3, PTL DEF Spec, KeepsPublication, Promise!Spec

===============================================================================
