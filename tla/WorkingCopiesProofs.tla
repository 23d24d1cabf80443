--------------------------- MODULE WorkingCopiesProofs ---------------------------
(* Proofs about WorkingCopies: for any number of tabs, revisions and saves. *)
EXTENDS WorkingCopies, TLAPS

-------------------------------------------------------------------------------
(* The inductive invariant *)

\* What was true of the post when it was at that version: at the present one, the present.
Dated(base, basis) == base <= version /\ (base = version => basis = rev)

\* What is known of the copy: of a row, a version it had, and of its present version, the
\* present text.
Known(row, number, id) ==
  /\ row <= rows /\ id <= saves
  /\ copy # None /\ row = copy.row =>
       /\ number <= copy.version
       /\ number = copy.version => id = copy.id

CopyOK ==
  copy # None =>
    /\ Dated(copy.base, copy.basis)
    /\ copy.row <= rows /\ copy.row # 0 /\ copy.version # 0 /\ copy.id <= saves

EditorOK(e) ==
  /\ Dated(editor[e].base, editor[e].basis)
  /\ Known(editor[e].row, editor[e].copyVersion, editor[e].knows)

TabOK(e) ==
  /\ Dated(tab[e].seen, tab[e].seenRev)
  /\ Dated(tab[e].copy.base, tab[e].copy.basis)
  /\ Known(tab[e].copy.row, tab[e].copy.version, tab[e].copy.id)

IInv == TypeOK /\ version # 0 /\ CopyOK /\ \A e \in Editors : EditorOK(e) /\ TabOK(e)

-------------------------------------------------------------------------------
(* The steps *)

LEMMA Types ==
  ASSUME TypeOK, NEW e \in Editors
  PROVE  /\ editor[e] \in EditorState /\ tab[e] \in Fetched
         /\ tab[e].seen \in Nat /\ tab[e].seenRev \in Nat
         /\ tab[e].copy.base \in Nat /\ tab[e].copy.basis \in Nat
         /\ tab[e].copy.version \in Nat /\ tab[e].copy.id \in Nat /\ tab[e].copy.row \in Nat
         /\ editor[e].base \in Nat /\ editor[e].basis \in Nat
         /\ editor[e].copyVersion \in Nat /\ editor[e].knows \in Nat /\ editor[e].row \in Nat
  BY DEF TypeOK, EditorState, Fetched

LEMMA FetchPostKeeps ==
  ASSUME IInv, NEW e \in Editors, FetchPost(e)
  PROVE  IInv'
  <1>1. /\ UNCHANGED <<version, rev, copy, editor, saves, rows>>
        /\ tab' \in [Editors -> Fetched]
        /\ tab'[e].seen = version /\ tab'[e].seenRev = rev /\ tab'[e].copy = tab[e].copy
        /\ \A o \in Editors : o # e => tab'[o] = tab[o]
    BY DEF FetchPost, IInv, TypeOK, Fetched
  <1>2. \A o \in Editors : EditorOK(o)' /\ TabOK(o)'
    BY <1>1 DEF IInv, EditorOK, TabOK, Dated, Known, TypeOK
  <1> QED
    BY <1>1, <1>2 DEF IInv, TypeOK, CopyOK, Dated

LEMMA FetchCopyKeeps ==
  ASSUME IInv, NEW e \in Editors, FetchCopy(e)
  PROVE  IInv'
  <1>1. /\ UNCHANGED <<version, rev, copy, editor, saves, rows>>
        /\ tab' = [tab EXCEPT ![e].got = TRUE,
                              ![e].copy = IF InForce THEN Returned ELSE NoCopy]
    BY DEF FetchCopy
  <1>2. ASSUME InForce
        PROVE  /\ copy # None /\ copy \in Copy
               /\ Returned \in [version: Nat, base: Nat, basis: Nat, id: Nat, row: Nat]
               /\ Dated(Returned.base, Returned.basis)
               /\ Known(Returned.row, Returned.version, Returned.id)
    <2>1. copy # None /\ copy \in Copy
      BY <1>2 DEF InForce, IInv, TypeOK
    <2> QED
      BY <2>1 DEF IInv, CopyOK, Dated, Known, Returned, Copy
  <1>3. /\ NoCopy \in [version: Nat, base: Nat, basis: Nat, id: Nat, row: Nat]
        /\ Dated(NoCopy.base, NoCopy.basis)
        /\ Known(NoCopy.row, NoCopy.version, NoCopy.id)
    BY DEF NoCopy, Dated, Known, IInv, TypeOK, CopyOK
  <1>4. PICK c \in {Returned, NoCopy} : c = IF InForce THEN Returned ELSE NoCopy
    OBVIOUS
  <1>5. /\ c \in [version: Nat, base: Nat, basis: Nat, id: Nat, row: Nat]
        /\ Dated(c.base, c.basis) /\ Known(c.row, c.version, c.id)
    BY <1>2, <1>3, <1>4
  <1>6. /\ tab' \in [Editors -> Fetched]
        /\ tab'[e].seen = tab[e].seen /\ tab'[e].seenRev = tab[e].seenRev /\ tab'[e].copy = c
        /\ \A o \in Editors : o # e => tab'[o] = tab[o]
    BY <1>1, <1>4, <1>5 DEF IInv, TypeOK, Fetched
  <1>7. \A o \in Editors : EditorOK(o)' /\ TabOK(o)'
    BY <1>1, <1>5, <1>6 DEF IInv, EditorOK, TabOK, Dated, Known, TypeOK
  <1> QED
    BY <1>1, <1>6, <1>7 DEF IInv, TypeOK, CopyOK, Dated

\* A step in one editor that leaves the server alone.
LEMMA EditorStepKeeps ==
  ASSUME IInv, NEW e \in Editors, NEW state \in EditorState,
         Dated(state.base, state.basis),
         Known(state.row, state.copyVersion, state.knows),
         editor' = [editor EXCEPT ![e] = state],
         UNCHANGED <<version, rev, copy, tab, saves, rows>>
  PROVE  IInv'
  <1>1. /\ editor' \in [Editors -> EditorState] /\ editor'[e] = state
        /\ \A o \in Editors : o # e => editor'[o] = editor[o]
    BY DEF IInv, TypeOK
  <1>2. \A o \in Editors : EditorOK(o)' /\ TabOK(o)'
    BY <1>1 DEF IInv, EditorOK, TabOK, Dated, Known
  <1> QED
    BY <1>1, <1>2 DEF IInv, TypeOK, CopyOK, Dated

LEMMA OpenKeeps ==
  ASSUME IInv, NEW e \in Editors, Open(e) \/ Close(e)
  PROVE  IInv'
  <1>1. CASE Open(e)
    <2>1. PICK state \in {Restored(e, tab[e].copy.base), FromPost(e)} :
            editor' = [editor EXCEPT ![e] = state]
      BY <1>1 DEF Open
    <2>2. CASE state = Restored(e, tab[e].copy.base)
      <3>1. /\ state \in EditorState /\ state.base = tab[e].copy.base
            /\ state.basis = tab[e].copy.basis /\ state.row = tab[e].copy.row
            /\ state.copyVersion = tab[e].copy.version /\ state.knows = tab[e].copy.id
        BY <2>2, Types DEF Restored, EditorState, IInv
      <3> QED
        BY <1>1, <2>1, <3>1, EditorStepKeeps DEF Open, IInv, TabOK
    <2>3. CASE state = FromPost(e)
      <3>1. /\ state \in EditorState /\ state.base = tab[e].seen
            /\ state.basis = tab[e].seenRev /\ state.row = 0
            /\ state.copyVersion = 0 /\ state.knows = 0
        BY <2>3, Types DEF FromPost, Closed, EditorState, IInv
      <3>2. Known(0, 0, 0)
        BY DEF Known, IInv, TypeOK, CopyOK
      <3> QED
        BY <1>1, <2>1, <3>1, <3>2, EditorStepKeeps DEF Open, IInv, TabOK
    <2> QED
      BY <2>2, <2>3
  <1>2. CASE Close(e)
    <2>1. /\ Closed \in EditorState /\ Closed.base = 0 /\ Closed.basis = 0 /\ Closed.row = 0
          /\ Closed.copyVersion = 0 /\ Closed.knows = 0
      BY DEF Closed, EditorState
    <2>2. Known(0, 0, 0) /\ Dated(0, 0)
      BY DEF Known, Dated, IInv, TypeOK, CopyOK
    <2> QED
      BY <1>2, <2>1, <2>2, EditorStepKeeps DEF Close
  <1> QED
    BY <1>1, <1>2

LEMMA CompareKeeps ==
  ASSUME IInv, NEW e \in Editors, Compare(e)
  PROVE  IInv'
  <1> DEFINE state == [editor[e] EXCEPT !.base = tab[e].seen, !.basis = tab[e].seenRev]
  <1>1. /\ state \in EditorState /\ state.base = tab[e].seen /\ state.basis = tab[e].seenRev
        /\ state.row = editor[e].row /\ state.copyVersion = editor[e].copyVersion
        /\ state.knows = editor[e].knows
    BY Types DEF EditorState, IInv
  <1>2. editor' = [editor EXCEPT ![e] = state]
    BY DEF Compare, IInv, TypeOK
  <1> HIDE DEF state
  <1> QED
    BY <1>1, <1>2, EditorStepKeeps DEF Compare, IInv, TabOK, EditorOK

\* Another copy of the row: who knows an older version of it knows no text of the new one.
LEMMA SaveWorkingCopyKeeps ==
  ASSUME IInv, NEW e \in Editors, SaveWorkingCopy(e)
  PROVE  IInv'
  <1> DEFINE row == IF InForce THEN copy.row ELSE rows + 1
             state == [editor[e] EXCEPT !.copyVersion = Actual + 1, !.knows = saves + 1,
                                        !.row = row]
  <1>1. /\ UNCHANGED <<version, rev, tab>> /\ saves' = saves + 1
        /\ rows' = IF InForce THEN rows ELSE rows + 1
        /\ copy' = [version |-> Actual + 1, base |-> editor[e].base, expired |-> FALSE,
                    id |-> saves + 1, row |-> row, basis |-> editor[e].basis]
        /\ editor' = [editor EXCEPT ![e].copyVersion = Actual + 1, ![e].knows = saves + 1,
                                    ![e].row = row]
    BY DEF SaveWorkingCopy
  <1>2. InForce => copy # None /\ copy \in Copy
    BY DEF InForce, IInv, TypeOK
  <1>3. /\ Actual \in Nat /\ row \in Nat /\ rows' \in Nat /\ row <= rows' /\ row # 0
        /\ rows <= rows'
        /\ InForce => Actual = copy.version /\ row = copy.row
        /\ ~InForce => row = rows + 1
    BY <1>1, <1>2 DEF Actual, Copy, IInv, TypeOK, CopyOK
  <1>4. /\ state \in EditorState /\ state.base = editor[e].base
        /\ state.basis = editor[e].basis
        /\ state.copyVersion = Actual + 1 /\ state.knows = saves + 1 /\ state.row = row
    <2>1. editor[e] \in EditorState /\ Actual + 1 \in Nat /\ saves + 1 \in Nat
      BY <1>3, Types DEF IInv, TypeOK
    <2> HIDE DEF row
    <2> QED
      BY <1>3, <2>1 DEF EditorState
  <1>5. /\ copy' \in Copy /\ copy'.version = Actual + 1 /\ copy'.row = row
        /\ copy'.id = saves + 1 /\ copy'.base = editor[e].base
        /\ copy'.basis = editor[e].basis
    BY <1>1, <1>3, Types DEF Copy, IInv, TypeOK
  <1>6. editor' = [editor EXCEPT ![e] = state]
    BY <1>1 DEF IInv, TypeOK
  <1> HIDE DEF row, state
  <1>7. /\ editor' \in [Editors -> EditorState] /\ editor'[e] = state
        /\ \A o \in Editors : o # e => editor'[o] = editor[o]
    BY <1>4, <1>6 DEF IInv, TypeOK
  <1>8. ASSUME NEW r \in Nat, NEW number \in Nat, NEW id \in Nat, Known(r, number, id)
        PROVE  Known(r, number, id)'
    <2>1. r <= rows'
      BY <1>3, <1>8 DEF Known, IInv, TypeOK
    <2>2. ASSUME r = row PROVE number < Actual + 1
      <3>1. InForce
        BY <1>3, <1>8, <2>2 DEF Known, IInv, TypeOK
      <3> QED
        BY <1>2, <1>3, <1>8, <2>2, <3>1 DEF Known
    <2> QED
      BY <1>1, <1>3, <1>5, <1>8, <2>1, <2>2 DEF Known, IInv, TypeOK
  <1>9. \A base, basis : Dated(base, basis) => Dated(base, basis)'
    BY <1>1 DEF Dated
  <1>10. ASSUME NEW o \in Editors PROVE TabOK(o)'
    BY <1>1, <1>8, <1>9, Types DEF IInv, TabOK
  <1>11. ASSUME NEW o \in Editors PROVE EditorOK(o)'
    <2>1. CASE o = e
      BY <1>1, <1>3, <1>4, <1>5, <1>7, <1>9, <2>1 DEF IInv, TypeOK, EditorOK, Known
    <2>2. CASE o # e
      BY <1>7, <1>8, <1>9, <2>2, Types DEF IInv, EditorOK
    <2> QED
      BY <2>1, <2>2
  <1>12. CopyOK'
    BY <1>1, <1>3, <1>5, <1>9 DEF CopyOK, IInv, TypeOK, EditorOK
  <1> QED
    BY <1>1, <1>3, <1>5, <1>7, <1>10, <1>11, <1>12 DEF IInv, TypeOK

\* The post moves on, and all that is known of it is of the past.
LEMMA PostMoves ==
  ASSUME IInv, version' = version + 1, rev' \in Nat
  PROVE  /\ version' \in Nat /\ version' # 0
         /\ \A base \in Nat : \A basis : Dated(base, basis) => Dated(base, basis)'
  BY DEF IInv, TypeOK, Dated

LEMMA SaveRevisionKeeps ==
  ASSUME IInv, NEW e \in Editors, SaveRevision(e)
  PROVE  IInv'
  <1> DEFINE state == [editor[e] EXCEPT !.base = version + 1, !.basis = rev + 1,
                                        !.copyVersion = 0, !.knows = 0, !.row = 0]
  <1>1. /\ UNCHANGED <<tab, saves, rows>> /\ copy' = None
        /\ version' = version + 1 /\ rev' = rev + 1 /\ rev' \in Nat
        /\ editor' = [editor EXCEPT ![e].base = version + 1, ![e].basis = rev + 1,
                                    ![e].copyVersion = 0, ![e].knows = 0, ![e].row = 0]
    BY DEF SaveRevision, IInv, TypeOK
  <1>2. /\ state \in EditorState /\ state.base = version + 1 /\ state.basis = rev + 1
        /\ state.copyVersion = 0 /\ state.knows = 0 /\ state.row = 0
    <2>1. editor[e] \in EditorState /\ version + 1 \in Nat /\ rev + 1 \in Nat
      BY Types DEF IInv, TypeOK
    <2> QED
      BY <2>1 DEF EditorState
  <1>3. editor' = [editor EXCEPT ![e] = state]
    BY <1>1 DEF IInv, TypeOK
  <1> HIDE DEF state
  <1>4. /\ editor' \in [Editors -> EditorState] /\ editor'[e] = state
        /\ \A o \in Editors : o # e => editor'[o] = editor[o]
    BY <1>2, <1>3 DEF IInv, TypeOK
  <1>5. \A r, number, id : Known(r, number, id) => Known(r, number, id)'
    BY <1>1 DEF Known
  <1>6. ASSUME NEW o \in Editors PROVE TabOK(o)' /\ EditorOK(o)'
    <2>1. TabOK(o)'
      BY <1>1, <1>5, PostMoves, Types DEF IInv, TabOK
    <2>2. CASE o = e
      <3>1. editor'[o] = state /\ version \in Nat /\ rows \in Nat /\ saves \in Nat
        BY <1>4, <2>2 DEF IInv, TypeOK
      <3> QED
        BY <1>1, <1>2, <2>1, <3>1 DEF EditorOK, Dated, Known
    <2>3. CASE o # e
      <3>1. editor'[o] = editor[o] /\ editor[o].base \in Nat /\ version \in Nat /\ EditorOK(o)
        BY <1>4, <2>3, Types DEF IInv, TypeOK
      <3>2. version' = version + 1 /\ copy' = None /\ UNCHANGED <<saves, rows>>
        BY <1>1
      <3> QED
        BY <2>1, <3>1, <3>2 DEF EditorOK, Dated, Known
    <2> QED
      BY <2>1, <2>2, <2>3
  <1> QED
    BY <1>1, <1>4, <1>6, PostMoves DEF IInv, TypeOK, CopyOK

LEMMA ActOnPostKeeps ==
  ASSUME IInv, NEW e \in Editors, ActOnPost(e)
  PROVE  IInv'
  <1> DEFINE state == [editor[e] EXCEPT !.base = version + 1, !.basis = tab[e].seenRev]
  <1>1. /\ UNCHANGED <<rev, copy, tab, saves, rows>>
        /\ version' = version + 1 /\ rev' \in Nat /\ tab[e].seen = version
        /\ editor' = [editor EXCEPT ![e].base = version + 1, ![e].basis = tab[e].seenRev]
    BY DEF ActOnPost, IInv, TypeOK
  <1>2. /\ state \in EditorState /\ state.base = version + 1 /\ state.basis = rev
        /\ state.copyVersion = editor[e].copyVersion /\ state.knows = editor[e].knows
        /\ state.row = editor[e].row
    <2>1. editor[e] \in EditorState /\ version + 1 \in Nat /\ tab[e].seenRev \in Nat
      BY Types DEF IInv, TypeOK
    <2>2. tab[e].seenRev = rev
      BY <1>1 DEF IInv, TabOK, Dated
    <2> QED
      BY <2>1, <2>2 DEF EditorState
  <1>3. editor' = [editor EXCEPT ![e] = state]
    BY <1>1 DEF IInv, TypeOK
  <1> HIDE DEF state
  <1>4. /\ editor' \in [Editors -> EditorState] /\ editor'[e] = state
        /\ \A o \in Editors : o # e => editor'[o] = editor[o]
    BY <1>2, <1>3 DEF IInv, TypeOK
  <1>5. \A r, number, id : Known(r, number, id) => Known(r, number, id)'
    BY <1>1 DEF Known
  <1>6. ASSUME NEW o \in Editors PROVE TabOK(o)' /\ EditorOK(o)'
    <2>1. TabOK(o)'
      BY <1>1, <1>5, PostMoves, Types DEF IInv, TabOK
    <2>2. CASE o = e
      <3>1. editor'[o] = state /\ version \in Nat /\ EditorOK(o)
        BY <1>4, <2>2 DEF IInv, TypeOK
      <3>2. version' = version + 1 /\ UNCHANGED <<rev, copy, saves, rows>>
        BY <1>1
      <3> QED
        BY <1>2, <2>1, <2>2, <3>1, <3>2 DEF EditorOK, Dated, Known
    <2>3. CASE o # e
      <3>1. editor'[o] = editor[o] /\ editor[o].base \in Nat /\ version \in Nat /\ EditorOK(o)
        BY <1>4, <2>3, Types DEF IInv, TypeOK
      <3>2. version' = version + 1 /\ UNCHANGED <<rev, copy, saves, rows>>
        BY <1>1
      <3> QED
        BY <2>1, <3>1, <3>2 DEF EditorOK, Dated, Known
    <2> QED
      BY <2>1, <2>2, <2>3
  <1>7. copy # None => copy.base \in Nat
    BY DEF IInv, TypeOK, Copy
  <1>8. CopyOK'
    BY <1>1, <1>7, PostMoves DEF IInv, CopyOK
  <1> QED
    BY <1>1, <1>4, <1>6, <1>8, PostMoves DEF IInv, TypeOK

LEMMA ElsewhereKeeps ==
  ASSUME IInv, ChatRevision \/ OtherRevision \/ OtherCommand
  PROVE  IInv'
  <1>1. /\ version' = version + 1 /\ rev' \in Nat /\ copy' \in {copy, None}
        /\ UNCHANGED <<editor, tab, saves, rows>>
    BY DEF ChatRevision, OtherRevision, OtherCommand, IInv, TypeOK
  <1>2. \A r, number, id : Known(r, number, id) => Known(r, number, id)'
    BY <1>1 DEF Known
  <1>3. \A o \in Editors : TabOK(o)' /\ EditorOK(o)'
    BY <1>1, <1>2, PostMoves, Types DEF IInv, TabOK, EditorOK
  <1>4. copy # None => copy.base \in Nat
    BY DEF IInv, TypeOK, Copy
  <1>5. CopyOK'
    BY <1>1, <1>4, PostMoves DEF IInv, CopyOK
  <1> QED
    BY <1>1, <1>3, <1>5, PostMoves DEF IInv, TypeOK

LEMMA ExpireKeeps ==
  ASSUME IInv, Expire
  PROVE  IInv'
  <1>1. copy # None /\ copy \in Copy /\ UNCHANGED <<version, rev, editor, tab, saves, rows>>
    BY DEF Expire, InForce, IInv, TypeOK
  <1>2. /\ copy' \in Copy /\ copy'.version = copy.version /\ copy'.base = copy.base
        /\ copy'.basis = copy.basis /\ copy'.id = copy.id /\ copy'.row = copy.row
    BY <1>1 DEF Expire, Copy
  <1>3. \A r, number, id : Known(r, number, id) => Known(r, number, id)'
    BY <1>1, <1>2 DEF Known
  <1> QED
    BY <1>1, <1>2, <1>3 DEF IInv, TypeOK, CopyOK, TabOK, EditorOK, Dated

-------------------------------------------------------------------------------
(* Theorems *)

LEMMA InitHolds == Init => IInv
  BY DEF Init, IInv, TypeOK, CopyOK, EditorOK, TabOK, Dated, Known, Closed, Unfetched, NoCopy,
         EditorState, Fetched

LEMMA StepHolds == IInv /\ [Next]_vars => IInv'
  <1> SUFFICES ASSUME IInv, [Next]_vars PROVE IInv'
    OBVIOUS
  <1>1. CASE UNCHANGED vars
    BY <1>1 DEF vars, IInv, TypeOK, CopyOK, EditorOK, TabOK, Dated, Known
  <1>2. CASE Next
    BY <1>2, FetchPostKeeps, FetchCopyKeeps, OpenKeeps, CompareKeeps, SaveWorkingCopyKeeps,
       SaveRevisionKeeps, ActOnPostKeeps, ElsewhereKeeps, ExpireKeeps DEF Next
  <1> QED
    BY <1>1, <1>2

\* The inductive invariant: what a tab knows of the post or of a copy was true at the version
\* it knows, and is true now if that is the present one.
THEOREM Invariant == Spec => []IInv
  BY InitHolds, StepHolds, PTL DEF Spec

\* The post, the copy and the tabs have their form.
THEOREM TypeCorrect == Spec => []TypeOK
  BY Invariant, PTL DEF IInv

\* A revision saved in an editor replaces one its user has compared his text with, for any
\* number of tabs (Editor.tsx, save_revision).
THEOREM NoRevisionIsLost == Spec => RevisionsBuildOnLast
  <1>1. IInv /\ [Next]_vars =>
          \A e \in Editors :
            rev' # rev /\ editor'[e].basis = rev' /\ editor[e].basis # editor'[e].basis
              => editor[e].basis = rev
    <2> SUFFICES ASSUME IInv, [Next]_vars, NEW e \in Editors, rev' # rev,
                        editor[e].basis # editor'[e].basis
                 PROVE  editor[e].basis = rev
      OBVIOUS
    <2>1. PICK o \in Editors : SaveRevision(o)
      BY DEF Next, vars, FetchPost, FetchCopy, Open, Close, Compare, SaveWorkingCopy, ActOnPost,
             ChatRevision, OtherRevision, OtherCommand, Expire
    <2>2. o = e
      BY <2>1 DEF SaveRevision, IInv, TypeOK
    <2> QED
      BY <2>1, <2>2 DEF SaveRevision, IInv, EditorOK, Dated
  <1> QED
    BY <1>1, Invariant, PTL DEF Spec, RevisionsBuildOnLast

\* While its row lives, a working copy is replaced only by a text that includes it, for any
\* number of tabs and saves (save_working_copy).
THEOREM NoCopyIsLost == Spec => CopiesBuildOnLast
  <1>1. IInv /\ [Next]_vars =>
          \A e \in Editors :
            Replaces(e) /\ editor[e].row = copy.row => editor[e].knows = copy.id
    <2> SUFFICES ASSUME IInv, [Next]_vars, NEW e \in Editors, Replaces(e),
                        editor[e].row = copy.row
                 PROVE  editor[e].knows = copy.id
      OBVIOUS
    <2>1. PICK o \in Editors : SaveWorkingCopy(o)
      BY DEF Replaces, Next, vars, FetchPost, FetchCopy, Open, Close, Compare, SaveRevision,
             ActOnPost, ChatRevision, OtherRevision, OtherCommand, Expire
    <2>2. CASE o = e
      <3>1. copy # None /\ editor[e].copyVersion = copy.version
        BY <2>1, <2>2 DEF SaveWorkingCopy, Acceptable, Actual, InForce, Replaces
      <3> QED
        BY <3>1 DEF IInv, EditorOK, Known
    <2>3. CASE o # e
      <3>1. editor'[e] = editor[e] /\ saves' = saves + 1
        BY <2>1, <2>3 DEF SaveWorkingCopy, IInv, TypeOK
      <3>2. editor[e].knows <= saves /\ editor[e].knows \in Nat /\ saves \in Nat
        BY Types DEF IInv, EditorOK, Known, TypeOK
      <3> QED
        BY <3>1, <3>2 DEF Replaces
    <2> QED
      BY <2>2, <2>3
  <1> QED
    BY <1>1, Invariant, PTL DEF Spec, CopiesBuildOnLast
=============================================================================
