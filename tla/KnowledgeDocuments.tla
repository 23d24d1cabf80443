---------------------------- MODULE KnowledgeDocuments ----------------------------
(***************************************************************************)
(* The knowledge base of one brand: documents, their immutable versions,   *)
(* the indexes made of them, and the documents curated from reviewed       *)
(* proposals, "memory" (services/knowledge.py, migrations 0005 and 0010).  *)
(*                                                                         *)
(* Every command is one transaction under the knowledge lock of the        *)
(* workspace and therefore one action.  The life of an index as a job is   *)
(* IngestionQueue; here it becomes ready, or never does.  Ids are places   *)
(* in the sequences.  An index has one passage, whose id is the index's;   *)
(* a content hash is the text it is the hash of.  A command on a document  *)
(* names the version of its row the user saw and is refused at any other:  *)
(* an action is a command at the current one, except for an activation,    *)
(* which a reviewer prepares on a page that may go stale meanwhile.        *)
(***************************************************************************)
EXTENDS Integers, Sequences, FiniteSets

CONSTANTS
  Texts,         \* texts of versions
  Originals,     \* uploaded originals a version may be imported from
  Periods,       \* [from, to]: periods of validity users submit
  Null,          \* SQL NULL
  MaxEvidence,   \* passages one proposal or one review may name
  MaxDocuments, MaxVersions, MaxIndexes, MaxNotes,  \* bounds: rows of each table
  MaxChanges,    \* bound: changes of one document
  MaxTime        \* bound: ticks of the clock

ASSUME PeriodsAssumption ==
  Periods \subseteq {p \in [from : Nat, to : Nat] : p.from < p.to}
ASSUME BoundsAssumption == MaxTime \in Nat /\ MaxChanges \in Nat
ASSUME SourcesAssumption == Null \notin Originals

VARIABLES
  document,      \* knowledge_documents
  version,       \* knowledge_document_versions
  index,         \* knowledge_indexes
  note,          \* knowledge_notes with their knowledge_note_reviews
  memory,        \* knowledge_memory_documents
  activated,     \* knowledge_activations: the indexes a person put in force
  page,          \* the document and index a reviewer has open
  clock

knowledgeVars == <<document, version, index, note, memory, activated, page, clock>>

-------------------------------------------------------------------------------
(* Rows *)

Visibility == {"workspace", "owner"}

Document(visibility, number, archived, active) ==
  [visibility |-> visibility, version |-> number, archived |-> archived, active |-> active]

Documents == [visibility : Visibility, version : Nat \ {0}, archived : BOOLEAN, active : Nat]

\* The whole submitted payload: two versions of one document with the same payload have
\* the same fingerprint.
Version(d, text, period, file) ==
  [doc |-> d, text |-> text, from |-> period.from, to |-> period.to, file |-> file]

Versions == [doc : Nat, text : Texts, from : Nat, to : Nat, file : Originals \cup {Null}]

IndexRows == [version : Nat, ready : BOOLEAN]

\* A proposal and, once there is one, its only review.
Notes == [kind : {"gap", "memory"}, evidence : SUBSET Nat, to : Nat,
          decision : {"none", "reject", "accept_for_curation", "resolve"},
          reviewed : SUBSET Nat]

\* One item of the evidence snapshot stored with a curated document.
Item == [passage : Nat, visibility : Visibility, to : Nat]

Memories == [note : Nat, doc : Nat, version : Nat, index : Nat, evidence : SUBSET Item]

VersionOf(i) == version[index[i].version]
DocumentOf(i) == document[VersionOf(i).doc]

-------------------------------------------------------------------------------
(* What may be cited *)

InPeriod(v, t) == version[v].from <= t /\ t < version[v].to

\* eligible_citation, and the conditions of retrieve.
Citable(i, t) ==
  /\ i \in DOMAIN index
  /\ ~DocumentOf(i).archived
  /\ DocumentOf(i).active = i
  /\ index[i].ready
  /\ InPeriod(index[i].version, t)

Cited == {i \in DOMAIN index : Citable(i, clock)}

\* Mutant: the passages a review names replace those of the proposal.
BasisOfReview(n) == IF note[n].reviewed = {} THEN note[n].evidence ELSE note[n].reviewed

\* A review adds to the evidence of the proposal and replaces none of it.
Basis(n) == note[n].evidence \cup note[n].reviewed

ItemOf(i) ==
  [passage |-> i, visibility |-> DocumentOf(i).visibility, to |-> VersionOf(i).to]

MemoryEvidence(n) == {ItemOf(i) : i \in Basis(n) \cap Cited}

-------------------------------------------------------------------------------
(* Submitting texts *)

RoomFor(n) == Len(version) + n <= MaxVersions /\ Len(index) + n <= MaxIndexes

\* The rows of a first version and its queued index, which moves the document from 0 to 1.
Started(visibility, text, period, file) ==
  /\ Len(document) < MaxDocuments
  /\ RoomFor(1)
  /\ document' = Append(document, Document(visibility, 1, FALSE, 0))
  /\ version' = Append(version, Version(Len(document) + 1, text, period, file))
  /\ index' = Append(index, [version |-> Len(version) + 1, ready |-> FALSE])

SubmitDocument(visibility, text, period, file) ==
  /\ Started(visibility, text, period, file)
  /\ UNCHANGED <<note, memory, activated, page, clock>>

\* Every command on a document moves the version of its row on; an archived one takes none.
May(d) == ~document[d].archived /\ document[d].version < MaxChanges

Bumped(row) == Document(row.visibility, row.version + 1, row.archived, row.active)

\* The same payload again is answered with the index there is; title, brand, type and
\* visibility of a document never change.
SubmitVersion(d, text, period, file) ==
  /\ May(d)
  /\ RoomFor(1)
  /\ \A v \in DOMAIN version : version[v] # Version(d, text, period, file)
  /\ document' = [document EXCEPT ![d] = Bumped(@)]
  /\ version' = Append(version, Version(d, text, period, file))
  /\ index' = Append(index, [version |-> Len(version) + 1, ready |-> FALSE])
  /\ UNCHANGED <<note, memory, activated, page, clock>>

ReindexDocument(v) ==
  /\ May(version[v].doc)
  /\ Len(index) < MaxIndexes
  /\ document' = [document EXCEPT ![version[v].doc] = Bumped(@)]
  /\ index' = Append(index, [version |-> v, ready |-> FALSE])
  /\ UNCHANGED <<version, note, memory, activated, page, clock>>

\* The worker's last transaction; it looks at the document and the version again.
FinishIndex(i) ==
  /\ ~index[i].ready
  /\ ~DocumentOf(i).archived
  /\ clock < VersionOf(i).to
  /\ index' = [index EXCEPT ![i].ready = TRUE]
  /\ UNCHANGED <<document, version, note, memory, activated, page, clock>>

ArchiveDocument(d) ==
  /\ May(d)
  /\ document' = [document EXCEPT ![d] = Document(@.visibility, @.version + 1, TRUE, @.active)]
  /\ UNCHANGED <<version, index, note, memory, activated, page, clock>>

-------------------------------------------------------------------------------
(* Activation *)

\* A reviewer reads the document and previews the passages of one of its indexes.
OpenPage(i) ==
  /\ index[i].ready
  /\ page' = [index |-> i, row |-> DocumentOf(i)]
  /\ UNCHANGED <<document, version, index, note, memory, activated, clock>>

\* Mutant: the origin of a curated document is found by its first index only.
EvidenceStandsOfIndex(i) ==
  \A m \in memory : m.index = i => MemoryEvidence(m.note) = m.evidence

\* Any index of a curated version: the evidence is all there and as it was.
EvidenceStands(i) ==
  \A m \in memory : m.version = index[i].version => MemoryEvidence(m.note) = m.evidence

\* The expected version of the command is the one on the page.
PageHolds(i) ==
  /\ DocumentOf(i).version = page.row.version
  /\ May(VersionOf(i).doc)

ActivateIndex ==
  /\ page # Null
  /\ LET i == page.index
         d == VersionOf(i).doc
     IN /\ PageHolds(i)
        /\ index[i].ready
        /\ InPeriod(index[i].version, clock)
        /\ EvidenceStands(i)
        /\ document' = [document EXCEPT ![d] = Document(@.visibility, @.version + 1, FALSE, i)]
        /\ activated' = activated \cup {i}
  /\ page' = Null
  /\ UNCHANGED <<version, index, note, memory, clock>>

-------------------------------------------------------------------------------
(* Proposals, reviews and curation *)

ProposeNote(kind, evidence, to) ==
  /\ Len(note) < MaxNotes
  /\ to > clock
  /\ kind = "memory" => evidence # {}
  /\ evidence \subseteq Cited
  /\ note' = Append(note, [kind |-> kind, evidence |-> evidence, to |-> to,
                           decision |-> "none", reviewed |-> {}])
  /\ UNCHANGED <<document, version, index, memory, activated, page, clock>>

ReviewNote(n, decision, evidence) ==
  /\ note[n].decision = "none"
  /\ note[n].to > clock
  /\ decision = "resolve" => note[n].kind = "gap"
  /\ decision = "accept_for_curation" => note[n].kind = "memory"
  /\ evidence # {} /\ evidence \subseteq Cited
  /\ note' = [note EXCEPT ![n].decision = decision, ![n].reviewed = evidence]
  /\ UNCHANGED <<document, version, index, memory, activated, page, clock>>

\* The proposal and its review are the ones the owner read: neither ever changes.
Curable(n) ==
  /\ note[n].decision = "accept_for_curation"
  /\ note[n].to > clock
  /\ \A m \in memory : m.note # n
  /\ Basis(n) \subseteq Cited

\* Mutant: only the passages the reviewer added bound the period.
PeriodFitsReviewed(n, period) ==
  /\ period.to <= note[n].to
  /\ \A i \in note[n].reviewed : period.to <= VersionOf(i).to
  /\ period.to > clock

PeriodFits(n, period) ==
  /\ period.to <= note[n].to
  /\ \A i \in Basis(n) : period.to <= VersionOf(i).to
  /\ period.to > clock

\* Mutant: one passage visible to the workspace is enough.
VisibilityFitsSome(n, visibility) ==
  visibility = "workspace" => \E i \in Basis(n) : DocumentOf(i).visibility = "workspace"

VisibilityFits(n, visibility) ==
  visibility = "workspace" => \A i \in Basis(n) : DocumentOf(i).visibility = "workspace"

\* A new document, never a version of one there is.
CurateMemory(n, visibility, text, period) ==
  /\ Curable(n)
  /\ VisibilityFits(n, visibility)
  /\ PeriodFits(n, period)
  /\ Started(visibility, text, period, Null)
  /\ memory' = memory \cup
       {[note |-> n, doc |-> Len(document) + 1, version |-> Len(version) + 1,
         index |-> Len(index) + 1, evidence |-> MemoryEvidence(n)]}
  /\ UNCHANGED <<note, activated, page, clock>>

-------------------------------------------------------------------------------
Tick == clock < MaxTime /\ clock' = clock + 1
        /\ UNCHANGED <<document, version, index, note, memory, activated, page>>

KnowledgeInit ==
  /\ document = <<>> /\ version = <<>> /\ index = <<>> /\ note = <<>>
  /\ memory = {} /\ activated = {} /\ page = Null /\ clock = 0

KnowledgeNext ==
  \/ \E visibility \in Visibility, text \in Texts, period \in Periods, file \in Originals \cup {Null} :
       \/ SubmitDocument(visibility, text, period, file)
       \/ \E n \in DOMAIN note : file = Null /\ CurateMemory(n, visibility, text, period)
       \/ \E d \in DOMAIN document :
            visibility = document[d].visibility /\ SubmitVersion(d, text, period, file)
  \/ \E v \in DOMAIN version : ReindexDocument(v)
  \/ \E i \in DOMAIN index : FinishIndex(i) \/ OpenPage(i)
  \/ \E d \in DOMAIN document : ArchiveDocument(d)
  \/ ActivateIndex
  \/ \E evidence \in {e \in SUBSET Cited : Cardinality(e) <= MaxEvidence} :
       \/ \E kind \in {"gap", "memory"}, period \in Periods : ProposeNote(kind, evidence, period.to)
       \/ \E n \in DOMAIN note, decision \in {"reject", "accept_for_curation", "resolve"} :
            ReviewNote(n, decision, evidence)
  \/ Tick

KnowledgeSpec == KnowledgeInit /\ [][KnowledgeNext]_knowledgeVars

-------------------------------------------------------------------------------
(* Properties *)

KnowledgeTypeOK ==
  /\ document \in Seq(Documents)
  /\ version \in Seq(Versions)
  /\ index \in Seq(IndexRows)
  /\ note \in Seq(Notes)
  /\ memory \subseteq Memories
  /\ activated \subseteq Nat
  /\ page \in [index : Nat, row : Documents] \cup {Null}
  /\ clock \in 0..MaxTime

Passages(m) == {e.passage : e \in m.evidence}

\* While a curated text is cited, every passage it was drawn from is still within its own
\* period, and so is the proposal, although only the curation compared the periods and
\* the text may be reindexed and activated much later (CurateMemory, effective_to).
MemoryWithinPeriods ==
  \A m \in memory : \A i \in Cited : index[i].version = m.version =>
    /\ clock < note[m.note].to
    /\ \A e \in Passages(m) : InPeriod(index[e].version, clock)

\* Nothing drawn from an owner-only document, through however many curations, is visible
\* to the workspace, also after new versions and activations (memory_visibility_conflict).
OwnerEvidenceStaysPrivate ==
  \A m \in memory : document[m.doc].visibility = "workspace" =>
    \A e \in Passages(m) : DocumentOf(e).visibility = "workspace"

\* A proposal is curated at most once, into a document of its own, after its review
\* accepted it, on all the passages the proposal and the review named; these were all
\* put in force by a person at some time.
CuratedOnceFromItsReview ==
  \A m \in memory :
    /\ note[m.note].kind = "memory" /\ note[m.note].decision = "accept_for_curation"
    /\ Passages(m) = note[m.note].evidence \cup note[m.note].reviewed
    /\ Passages(m) \subseteq activated
    /\ \A other \in memory : other # m => other.note # m.note /\ other.doc # m.doc

\* When an index of a curated text comes into force, also one made later by a reindex,
\* every passage the text was drawn from may itself be cited (ActivateIndex, the origin
\* is that of the version).
EvidenceStoodAtActivation ==
  [][\A d \in DOMAIN document : document'[d].active # document[d].active =>
       \A m \in memory : m.version = index[document'[d].active].version =>
         \A e \in Passages(m) : Citable(e, clock)]_knowledgeVars

-------------------------------------------------------------------------------
(* The inductive invariant behind the properties above *)

\* What is in force was made ready and put in force by a person, in its period.
PutInForce(i, d) ==
  i \in activated /\ VersionOf(i).doc = d /\ index[i].ready /\ VersionOf(i).from <= clock

\* Rows point at rows.
RowsStand ==
  /\ \A v \in DOMAIN version : version[v].doc \in DOMAIN document
  /\ \A i \in DOMAIN index : index[i].version \in DOMAIN version
  /\ activated \subseteq DOMAIN index
  /\ \A d \in DOMAIN document : document[d].active # 0 => PutInForce(document[d].active, d)
  /\ page # Null => page.index \in DOMAIN index

\* Passages were cited when they were named, so they had been put in force and their
\* period had begun; only a proposal to remember is accepted for curation.
NotesStand ==
  \A n \in DOMAIN note :
    /\ Basis(n) \subseteq activated
    /\ \A i \in Basis(n) : VersionOf(i).from <= clock
    /\ note[n].decision = "accept_for_curation" => note[n].kind = "memory"

\* A curated text is no better founded, no longer valid and no more public than every
\* passage the proposal and its review named, as those rows are today.
OriginStands(m) ==
  LET n == m.note
  IN /\ n \in DOMAIN note /\ note[n].decision = "accept_for_curation"
     /\ m.version \in DOMAIN version /\ version[m.version].doc = m.doc
     /\ m.evidence = {ItemOf(i) : i \in Basis(n)}
     /\ version[m.version].to <= note[n].to
     /\ \A i \in Basis(n) : version[m.version].to <= VersionOf(i).to
     /\ document[m.doc].visibility = "workspace" =>
          \A i \in Basis(n) : DocumentOf(i).visibility = "workspace"

MemoryStands ==
  /\ \A m \in memory : OriginStands(m)
  /\ \A m, other \in memory : m # other => m.note # other.note /\ m.doc # other.doc

\* Together they are preserved by every command, the worker and time.
KnowledgeInv == KnowledgeTypeOK /\ RowsStand /\ NotesStand /\ MemoryStands
=============================================================================
