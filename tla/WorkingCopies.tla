----------------------------- MODULE WorkingCopies -----------------------------
(***************************************************************************)
(* The private working copy one user has of one post (services/content.py  *)
(* and content_revision.py) and the editors he has the post open in        *)
(* (web/src/features/content/Editor.tsx), while he and others go on        *)
(* changing the post.                                                      *)
(*                                                                         *)
(* A tab keeps what it last fetched of the post and of the copy, in two    *)
(* requests, also while the editor is closed; the editor starts from what  *)
(* the tab has.  Each command is one transaction on the server, whose      *)
(* result the editor takes over.  A refused command changes nothing and is *)
(* not an action.                                                          *)
(***************************************************************************)
EXTENDS Integers

CONSTANTS
  Editors,      \* the tabs in which the user has the post open
  None,         \* no working copy
  MaxVersion,   \* bound: the post's version
  MaxCopies     \* bound: saves of a working copy

ASSUME CopiesAssumption ==
  /\ MaxVersion \in Nat
  /\ MaxCopies \in Nat

VARIABLES
  version,      \* posts.version
  rev,          \* number of the post's current revision
  copy,         \* the row of post_working_copies, if there is one
  editor,       \* the state of each tab's editor
  tab,          \* what each tab last fetched
  saves,        \* history: how many copies were saved so far, each has its number
  rows          \* history: how many rows there were, a deleted row does not return

vars == <<version, rev, copy, editor, tab, saves, rows>>

-------------------------------------------------------------------------------
(* Copies and editors *)

\* id, row and basis are history: which save wrote the copy, into which row, and the last
\* revision that text had been compared with.
Copy == [version: Nat, base: Nat, expired: BOOLEAN, id: Nat, row: Nat, basis: Nat]

\* The row as commands and reads see it: an expired one is not there.
InForce == IF copy = None THEN FALSE ELSE ~copy.expired

Actual == IF InForce THEN copy.version ELSE 0

\* What a request for the copy returns when there is none.
NoCopy == [version |-> 0, base |-> 0, basis |-> 0, id |-> 0, row |-> 0]

Returned ==
  [version |-> copy.version, base |-> copy.base, basis |-> copy.basis, id |-> copy.id,
   row |-> copy.row]

\* An editor works on a text.  knows and row say, as history, which save of which row that
\* text includes.
Closed == [open |-> FALSE, base |-> 0, copyVersion |-> 0, basis |-> 0, knows |-> 0, row |-> 0]

\* What a tab has fetched: nothing of the post (seen = 0) and of the copy (~got), at first.
Unfetched == [seen |-> 0, seenRev |-> 0, got |-> FALSE, copy |-> NoCopy]

-------------------------------------------------------------------------------
(* The editor *)

\* The post as it is now: at first, after a command, on focus.
FetchPost(e) ==
  /\ tab' = [tab EXCEPT ![e].seen = version, ![e].seenRev = rev]
  /\ UNCHANGED <<version, rev, copy, editor, saves, rows>>

\* The copy as it is now.  An open editor does not take it over.
FetchCopy(e) ==
  /\ tab' = [tab EXCEPT ![e].got = TRUE,
                        ![e].copy = IF InForce THEN Returned ELSE NoCopy]
  /\ UNCHANGED <<version, rev, copy, editor, saves, rows>>

\* The editor starts from the copy if there is one, else from the post.
Restored(e, base) ==
  [open |-> TRUE, base |-> base, copyVersion |-> tab[e].copy.version,
   basis |-> tab[e].copy.basis, knows |-> tab[e].copy.id, row |-> tab[e].copy.row]

FromPost(e) == [Closed EXCEPT !.open = TRUE, !.base = tab[e].seen, !.basis = tab[e].seenRev]

\* Mutant: a restored copy is taken to build on the post as it is.
OpenAtCurrent(e) ==
  /\ tab[e].got
  /\ tab[e].seen # 0
  /\ ~editor[e].open
  /\ editor' = [editor EXCEPT
       ![e] = IF tab[e].copy # NoCopy THEN Restored(e, tab[e].seen) ELSE FromPost(e)]
  /\ UNCHANGED <<version, rev, copy, tab, saves, rows>>

Open(e) ==
  /\ tab[e].got
  /\ tab[e].seen # 0
  /\ ~editor[e].open
  /\ editor' = [editor EXCEPT
       ![e] = IF tab[e].copy # NoCopy THEN Restored(e, tab[e].copy.base) ELSE FromPost(e)]
  /\ UNCHANGED <<version, rev, copy, tab, saves, rows>>

Close(e) ==
  /\ editor[e].open
  /\ editor' = [editor EXCEPT ![e] = Closed]
  /\ UNCHANGED <<version, rev, copy, tab, saves, rows>>

\* The user has compared his text with the revision on the screen.
Compare(e) ==
  /\ editor[e].open
  /\ editor[e].base # tab[e].seen
  /\ editor' = [editor EXCEPT ![e].base = tab[e].seen, ![e].basis = tab[e].seenRev]
  /\ UNCHANGED <<version, rev, copy, tab, saves, rows>>

-------------------------------------------------------------------------------
(* Commands *)

\* Mutant: the copy is saved whatever version of it the editor knew.
Unchecked(e) ==
  /\ editor[e].open
  /\ editor[e].base <= version
  /\ saves < MaxCopies

Acceptable(e) ==
  /\ editor[e].open
  /\ editor[e].copyVersion = Actual
  /\ editor[e].base <= version
  /\ saves < MaxCopies

SaveWorkingCopy(e) ==
  LET row == IF InForce THEN copy.row ELSE rows + 1
  IN /\ Acceptable(e)
     /\ copy' = [version |-> Actual + 1, base |-> editor[e].base, expired |-> FALSE,
                 id |-> saves + 1, row |-> row, basis |-> editor[e].basis]
     /\ saves' = saves + 1
     /\ rows' = IF InForce THEN rows ELSE rows + 1
     /\ editor' = [editor EXCEPT ![e].copyVersion = Actual + 1, ![e].knows = saves + 1,
                                 ![e].row = row]
     /\ UNCHANGED <<version, rev, tab>>

\* The button is disabled while the editor's base is not the version it has seen, and the
\* server refuses any version but its own.
SaveRevision(e) ==
  /\ editor[e].open
  /\ editor[e].base = tab[e].seen
  /\ editor[e].base = version
  /\ version < MaxVersion
  /\ version' = version + 1
  /\ rev' = rev + 1
  /\ copy' = None
  /\ editor' = [editor EXCEPT ![e].base = version + 1, ![e].basis = rev + 1,
                              ![e].copyVersion = 0, ![e].knows = 0, ![e].row = 0]
  /\ UNCHANGED <<tab, saves, rows>>

\* Review, decision or package from this editor: only while the text on the screen is the
\* stored one.  The server accepts it at the version seen.
ActOnPost(e) ==
  /\ editor[e].open
  /\ tab[e].seen = version
  /\ version < MaxVersion
  /\ version' = version + 1
  /\ editor' = [editor EXCEPT ![e].base = version + 1, ![e].basis = tab[e].seenRev]
  /\ UNCHANGED <<rev, copy, tab, saves, rows>>

\* The same user saves a revision in a chat: his copy is gone, the tabs do not know.
ChatRevision ==
  /\ version < MaxVersion
  /\ version' = version + 1
  /\ rev' = rev + 1
  /\ copy' = None
  /\ UNCHANGED <<editor, tab, saves, rows>>

\* A colleague saves a revision, or a draft is adopted, by whomever: all copies stay.
OtherRevision ==
  /\ version < MaxVersion
  /\ version' = version + 1
  /\ rev' = rev + 1
  /\ UNCHANGED <<copy, editor, tab, saves, rows>>

\* Any other command on the post from elsewhere.
OtherCommand ==
  /\ version < MaxVersion
  /\ version' = version + 1
  /\ UNCHANGED <<rev, copy, editor, tab, saves, rows>>

\* Seven days go by.
Expire ==
  /\ InForce
  /\ copy' = [copy EXCEPT !.expired = TRUE]
  /\ UNCHANGED <<version, rev, editor, tab, saves, rows>>

-------------------------------------------------------------------------------
(* Specification *)

Init ==
  /\ version = 2
  /\ rev = 1
  /\ copy = None
  /\ editor = [e \in Editors |-> Closed]
  /\ tab = [e \in Editors |-> Unfetched]
  /\ saves = 0
  /\ rows = 0

Next ==
  \/ \E e \in Editors :
       \/ FetchPost(e) \/ FetchCopy(e) \/ Open(e) \/ Close(e) \/ Compare(e)
       \/ SaveWorkingCopy(e) \/ SaveRevision(e) \/ ActOnPost(e)
  \/ ChatRevision \/ OtherRevision \/ OtherCommand \/ Expire

Spec == Init /\ [][Next]_vars

-------------------------------------------------------------------------------
(* Properties *)

EditorState ==
  [open: BOOLEAN, base: Nat, copyVersion: Nat, basis: Nat, knows: Nat, row: Nat]

Fetched ==
  [seen: Nat, seenRev: Nat, got: BOOLEAN,
   copy: [version: Nat, base: Nat, basis: Nat, id: Nat, row: Nat]]

TypeOK ==
  /\ version \in Nat /\ rev \in Nat /\ saves \in Nat /\ rows \in Nat
  /\ copy \in Copy \cup {None}
  /\ editor \in [Editors -> EditorState]
  /\ tab \in [Editors -> Fetched]

\* A revision saved in an editor replaces one its user has compared his text with, also
\* when the text came out of a working copy older than that revision
\* (Editor.tsx:99, 150, 182, 258-266 with content.py:233).
RevisionsBuildOnLast ==
  [][\A e \in Editors :
       rev' # rev /\ editor'[e].basis = rev' /\ editor[e].basis # editor'[e].basis
         => editor[e].basis = rev]_vars

\* Editor e's save has replaced a copy that was in force.
Replaces(e) == InForce /\ saves' # saves /\ editor'[e].knows = saves'

\* As long as the row lives, a working copy is replaced only by a text that includes it:
\* two tabs of one user conflict, they do not overwrite each other (content.py:209-212).
CopiesBuildOnLast ==
  [][\A e \in Editors :
       Replaces(e) /\ editor[e].row = copy.row => editor[e].knows = copy.id]_vars

\* Concurrent edits end in a conflict, never in last write wins
\* (docs/phase-6-implementation.md:58-59): a copy that is still open in another tab is
\* replaced only by a text that includes it, whichever rows came and went before.
NoLastWriteWins ==
  [][\A e, o \in Editors :
       Replaces(e) /\ o # e /\ editor[o].knows = copy.id => editor[e].knows = copy.id]_vars

===============================================================================
