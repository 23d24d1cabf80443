----------------------------- MODULE ContentRecords -----------------------------
(***************************************************************************)
(* The ledger of reference records behind a workspace's content            *)
(* (services/content_records.py): sources, product versions, facts, brand  *)
(* profiles, claim policies and briefs.  A record never changes; it is     *)
(* replaced by the next number of its family, and confirming one writes a  *)
(* confirmed copy of it as the next number.                                *)
(*                                                                         *)
(* Every command is one transaction under the content lock of its          *)
(* workspace, so each is one action.  A record's id is its place in        *)
(* `ledger'.  Research, campaigns, plans and ideas are named by no check   *)
(* of a post and are left out; brands and products are there from the      *)
(* start.                                                                  *)
(***************************************************************************)
EXTENDS Integers, Sequences, FiniteSets

CONSTANTS
  Brands,
  Products,
  Texts,       \* what a post may say, as far as a claim policy tells texts apart
  None,        \* no product
  Created,     \* the kinds of records its users create
  MaxRecords,  \* bound: records in the ledger
  MaxTime      \* bound: the clock

ASSUME RecordsAssumption ==
  /\ None \notin Products
  /\ MaxRecords \in Nat
  /\ MaxTime \in Nat

VARIABLES
  ledger,      \* content_records, in the order of writing
  now          \* the clock

recordVars == <<ledger, now>>

-------------------------------------------------------------------------------
(* Records *)

\* The source is an owner's observation or a mere hypothesis; a policy forbids texts.
Body(kind, b, product, src, ver, hypothesis, forbids) ==
  [kind |-> kind, brand |-> b, product |-> product, source |-> src, version |-> ver,
   hypothesis |-> hypothesis, forbids |-> forbids]

Kinds == {"source_item", "product_version", "product_fact",
          "brand_profile", "claim_policy", "brief"}

ASSUME CreatedAssumption == Created \subseteq Kinds

Records == 1..Len(ledger)

RecordsOf(kind, b) == {i \in Records : ledger[i].body.kind = kind /\ ledger[i].body.brand = b}

\* The bodies of a kind that name records of the right kind and of their own brand.
Bodies(kind, b) ==
  CASE kind = "source_item" ->
         {Body(kind, b, None, 0, 0, h, {}) : h \in BOOLEAN}
    [] kind = "product_version" ->
         UNION {{Body(kind, b, q, i, 0, FALSE, {}) : q \in Products} :
                  i \in RecordsOf("source_item", b)}
    [] kind = "product_fact" ->
         UNION {{Body(kind, b, None, i, j, FALSE, {}) : j \in RecordsOf("product_version", b)} :
                  i \in RecordsOf("source_item", b)}
    [] kind = "brand_profile" ->
         {Body(kind, b, None, i, 0, FALSE, {}) : i \in RecordsOf("source_item", b)}
    [] kind = "claim_policy" ->
         UNION {{Body(kind, b, None, i, 0, FALSE, t) : t \in SUBSET Texts} :
                  i \in RecordsOf("source_item", b)}
    [] kind = "brief" ->
         {Body(kind, b, q, 0, 0, FALSE, {}) : q \in Products \cup {None}}

Family(f) == {i \in Records : ledger[i].family = f}

ConfirmedOf(f) == {i \in Family(f) : ledger[i].confirmed}

\* The last number of its family, confirmed or not.
IsLatest(i) == \A j \in Family(ledger[i].family) : ledger[j].number <= ledger[i].number

\* current: confirmed, good until after t, and not replaced by a newer confirmed record.
Current(i, t) ==
  /\ ledger[i].confirmed
  /\ ledger[i].expires > t
  /\ \A j \in ConfirmedOf(ledger[i].family) : ledger[j].number <= ledger[i].number

\* The records a body names.
References(body) == {body.source, body.version} \ {0}

-------------------------------------------------------------------------------
(* Commands *)

Write(family, number, body, confirmed, expires) ==
  /\ Len(ledger) < MaxRecords
  /\ expires > now
  /\ ledger' = Append(ledger, [family |-> family, number |-> number, body |-> body,
                               confirmed |-> confirmed, expires |-> expires])
  /\ now' = now

\* A brand has one family of rules of each kind, a product one of versions.
SameScope(x, y) ==
  /\ x.kind = y.kind
  /\ x.brand = y.brand
  /\ x.product = y.product

\* Mutant: a second family is refused to brands, but not to products.
UniqueToBrand(body) ==
  body.kind \in {"brand_profile", "claim_policy"}
    => \A i \in Records : ~SameScope(ledger[i].body, body)

Unique(body) ==
  body.kind \in {"brand_profile", "claim_policy", "product_version"}
    => \A i \in Records : ~SameScope(ledger[i].body, body)

CreateRecord(body, expires) ==
  /\ Unique(body)
  /\ Write(Len(ledger) + 1, 1, body, FALSE, expires)

Replaces(i, body) ==
  /\ ledger[i].body.kind = body.kind
  /\ ledger[i].body.brand = body.brand
  /\ body.kind = "product_version" => ledger[i].body.product = body.product
  /\ IsLatest(i)

ReplaceRecord(i, body, expires) ==
  /\ Replaces(i, body)
  /\ Write(ledger[i].family, ledger[i].number + 1, body, FALSE, expires)

\* Mutant: a source may be a hypothesis.
SupportsAny(body) ==
  \A i \in References(body) : Current(i, now)

\* What a confirmed record rests on is itself confirmed and current; facts and policies
\* rest on no hypothesis.
Supported(body) ==
  /\ \A i \in References(body) : Current(i, now)
  /\ body.kind \in {"product_fact", "claim_policy"} => ~ledger[body.source].body.hypothesis

ConfirmRecord(i) ==
  /\ ~ledger[i].confirmed
  /\ Supported(ledger[i].body)
  /\ Replaces(i, ledger[i].body)
  /\ Write(ledger[i].family, ledger[i].number + 1, ledger[i].body, TRUE, ledger[i].expires)

Tick ==
  /\ now < MaxTime
  /\ now' = now + 1
  /\ ledger' = ledger

RecordsInit ==
  /\ ledger = <<>>
  /\ now = 0

RecordsNext ==
  \/ \E kind \in Created, b \in Brands : \E body \in Bodies(kind, b) :
       \E t \in 1..MaxTime + 1 :
         \/ CreateRecord(body, t)
         \/ \E i \in Records : ReplaceRecord(i, body, t)
  \/ \E i \in Records : ConfirmRecord(i)
  \/ Tick

RecordsSpec == RecordsInit /\ [][RecordsNext]_recordVars

-------------------------------------------------------------------------------
(* Properties *)

RecordsTypeOK ==
  /\ now \in Nat
  /\ ledger \in Seq([family: Nat, number: Nat \ {0}, confirmed: BOOLEAN, expires: Nat,
                     body: [kind: Kinds, brand: Brands, product: Products \cup {None},
                            source: Nat, version: Nat, hypothesis: BOOLEAN,
                            forbids: SUBSET Texts]])

OneFamily ==
  \A i, j \in Records :
    /\ ledger[i].body.kind \in {"brand_profile", "claim_policy", "product_version"}
    /\ SameScope(ledger[i].body, ledger[j].body)
    => ledger[i].family = ledger[j].family

\* A family is one line of versions: its numbers run from 1 without gap or repetition in
\* the order of writing, and a family is named after its first record (the unique index on
\* family and number).  All rules of a kind for a brand, and all versions of a product, are
\* one such line, so the checks of a post cannot meet two current policies that contradict
\* each other (content_records.py:158-186).
FamiliesAreLines ==
  /\ \A i \in Records :
       /\ ledger[i].number = Cardinality({j \in Family(ledger[i].family) : j <= i})
       /\ ledger[i].number = 1 => ledger[i].family = i
  /\ OneFamily

\* No confirmed fact or policy rests on a hypothesis or on an unconfirmed record, even
\* after its sources were replaced by other drafts and confirmations
\* (content_records.py:129-136).
ConfirmedIsSupported ==
  \A i \in Records : ledger[i].confirmed =>
    /\ \A j \in References(ledger[i].body) : ledger[j].confirmed /\ j < i
    /\ ledger[i].body.kind \in {"product_fact", "claim_policy"}
         => ~ledger[ledger[i].body.source].body.hypothesis

===============================================================================
