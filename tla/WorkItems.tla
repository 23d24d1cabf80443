------------------------------- MODULE WorkItems -------------------------------
(***************************************************************************)
(* Work items of one workspace and what they depend on (services/          *)
(* operations.py, ContentService._task).  A command is a transaction that  *)
(* takes its lock, looks and then writes; several run side by side, and    *)
(* one may fail between looking and writing.  Commands that change an item *)
(* take the workspace's content lock; one that creates an item takes a     *)
(* lock of its own key, so that a retry of a request whose answer was lost *)
(* finds the item the first one made.                                      *)
(*                                                                         *)
(* A lock is held from the first step of a transaction to its last: to     *)
(* wait for it is not to take that step yet.  Commands name the version of *)
(* the item their caller saw and are refused at any other, under the lock, *)
(* so each command is one at the current version.  Whom an item is         *)
(* assigned to matters to no other command and is left out.                *)
(***************************************************************************)
EXTENDS Integers, FiniteSets

CONSTANTS
  Items,        \* ids of work items
  Keys,         \* idempotency keys, each with its actor and its request
  Sessions,     \* transactions that may run side by side
  None,
  EdgeLimit     \* active dependencies of a workspace (500)

ASSUME ItemsAssumption == IsFiniteSet(Items) /\ None \notin Items
ASSUME LimitAssumption == EdgeLimit \in Nat

VARIABLES
  item,         \* state of each row of work_items, None when there is no row
  key,          \* its key_hash
  edge,         \* active rows of work_dependencies: <<item, what it depends on>>
  txn,          \* what each session is doing and has read
  answer        \* history: which item each request was answered with

vars == <<item, key, edge, txn, answer>>

-------------------------------------------------------------------------------
(* Rows and transactions *)

States == {"open", "in_progress", "done", "cancelled"}

ASSUME NoneIsNoState == None \notin States

TRANSITIONS ==
  [s \in States |->
     CASE s = "open" -> {"in_progress", "cancelled"}
       [] s = "in_progress" -> {"done", "cancelled"}
       [] OTHER -> {}]

Rows == {i \in Items : item[i] # None}

Idle == [on |-> "idle"]

Create(k, found) == [on |-> "create", key |-> k, found |-> found]

Move(i, state, ready) == [on |-> "move", item |-> i, to |-> state, ready |-> ready]

Depend(i, d, remove, graph) ==
  [on |-> "depend", item |-> i, depends |-> d, remove |-> remove, graph |-> graph]

Transactions ==
  {Idle}
  \cup [on : {"create"}, key : Keys, found : Items \cup {None}]
  \cup [on : {"move"}, item : Items, to : States, ready : BOOLEAN]
  \cup [on : {"depend"}, item : Items, depends : Items, remove : BOOLEAN,
        graph : SUBSET (Items \X Items)]

\* workspace_lock
Free == \A t \in Sessions : txn[t].on \notin {"move", "depend"}

\* Mutant: creating takes no lock.
KeyUnguarded(k) == TRUE

\* The lock on actor and key.
KeyFree(k) == \A t \in Sessions : txn[t].on = "create" => txn[t].key # k

\* SELECT ... FOR UPDATE
RowFree(i) == \A t \in Sessions : txn[t].on \in {"move", "depend"} => txn[t].item # i

End(t) == txn' = [txn EXCEPT ![t] = Idle]

-------------------------------------------------------------------------------
(* create_work *)

Found(k) == {i \in Rows : key[i] = k}

CreateLooks(t, k) ==
  /\ txn[t] = Idle /\ KeyFree(k)
  /\ \E found \in IF Found(k) = {} THEN {None} ELSE Found(k) :
       txn' = [txn EXCEPT ![t] = Create(k, found)]
  /\ UNCHANGED <<item, key, edge, answer>>

CreateAnswers(t) ==
  /\ txn[t].on = "create" /\ txn[t].found # None
  /\ answer' = answer \cup {<<txn[t].key, txn[t].found>>}
  /\ End(t)
  /\ UNCHANGED <<item, key, edge>>

\* UNIQUE(workspace_id, actor_id, key_hash) refuses a second row with None as the answer.
CreateInserts(t, i) ==
  /\ txn[t].on = "create" /\ txn[t].found = None
  /\ item[i] = None
  /\ IF Found(txn[t].key) = {}
     THEN /\ item' = [item EXCEPT ![i] = "open"]
          /\ key' = [key EXCEPT ![i] = txn[t].key]
          /\ answer' = answer \cup {<<txn[t].key, i>>}
     ELSE /\ answer' = answer \cup {<<txn[t].key, None>>}
          /\ UNCHANGED <<item, key>>
  /\ End(t)
  /\ UNCHANGED edge

-------------------------------------------------------------------------------
(* transition_work *)

\* Mutant: the dependencies of an item count until it is begun.
ReadyToBegin(i) == item[i] = "open" => \A d \in Items : <<i, d>> \in edge => item[d] = "done"

\* Everything the item depends on is done: a cancelled item is not.
Ready(i) == \A d \in Items : <<i, d>> \in edge => item[d] = "done"

MoveLooks(t, i, state) ==
  /\ txn[t] = Idle /\ Free /\ RowFree(i)
  /\ item[i] # None
  /\ state \in TRANSITIONS[item[i]]
  /\ txn' = [txn EXCEPT ![t] = Move(i, state, Ready(i))]
  /\ UNCHANGED <<item, key, edge, answer>>

MoveWrites(t) ==
  /\ txn[t].on = "move"
  /\ txn[t].to \in {"in_progress", "done"} => txn[t].ready
  /\ item' = [item EXCEPT ![txn[t].item] = txn[t].to]
  /\ End(t)
  /\ UNCHANGED <<key, edge, answer>>

-------------------------------------------------------------------------------
(* _task, DependTask *)

\* SELECT ... LIMIT 501: beyond that some rows, nobody knows which.
Graphs ==
  IF Cardinality(edge) <= EdgeLimit + 1 THEN {edge}
  ELSE {g \in SUBSET edge : Cardinality(g) = EdgeLimit + 1}

\* Mutant: only what the other item itself depends on is looked at.
ReachedAtOnce(d, graph) == {d} \cup {n \in Items : <<d, n>> \in graph}

\* What the walk along the edges from an item visits: the least set with it that no edge leaves.
Reached(d, graph) ==
  {n \in Items : \A S \in SUBSET Items :
     d \in S /\ (\A e \in graph : e[1] \in S => e[2] \in S) => n \in S}

\* Mutant: the items may have ended.
Begun(i) == item[i] # None

\* An item that has ended keeps its dependencies.
Unended(i) == item[i] \in {"open", "in_progress"}

DependLooks(t, i, d, remove) ==
  /\ txn[t] = Idle /\ Free /\ RowFree(i)
  /\ Unended(i)
  /\ item[d] # None /\ i # d
  /\ \E graph \in Graphs : txn' = [txn EXCEPT ![t] = Depend(i, d, remove, graph)]
  /\ UNCHANGED <<item, key, edge, answer>>

Acceptable(i, d, graph) == Cardinality(graph) < EdgeLimit /\ i \notin Reached(d, graph)

DependWrites(t) ==
  /\ txn[t].on = "depend"
  /\ txn[t].remove \/ Acceptable(txn[t].item, txn[t].depends, txn[t].graph)
  /\ edge' = IF txn[t].remove THEN edge \ {<<txn[t].item, txn[t].depends>>}
             ELSE edge \cup {<<txn[t].item, txn[t].depends>>}
  /\ End(t)
  /\ UNCHANGED <<item, key, answer>>

\* A transaction that is refused, or whose process dies, leaves nothing.
Rollback(t) ==
  /\ txn[t] # Idle
  /\ End(t)
  /\ UNCHANGED <<item, key, edge, answer>>

-------------------------------------------------------------------------------
Init ==
  /\ item = [i \in Items |-> None]
  /\ key = [i \in Items |-> None]
  /\ edge = {}
  /\ txn = [t \in Sessions |-> Idle]
  /\ answer = {}

Next ==
  \E t \in Sessions :
    \/ \E k \in Keys : CreateLooks(t, k)
    \/ CreateAnswers(t)
    \/ \E i \in Items : CreateInserts(t, i)
    \/ \E i \in Items, state \in States : MoveLooks(t, i, state)
    \/ MoveWrites(t)
    \/ \E i, d \in Items, remove \in BOOLEAN : DependLooks(t, i, d, remove)
    \/ DependWrites(t)
    \/ Rollback(t)

Spec == Init /\ [][Next]_vars

-------------------------------------------------------------------------------
(* Properties *)

TypeOK ==
  /\ item \in [Items -> States \cup {None}]
  /\ key \in [Items -> Keys \cup {None}]
  /\ edge \subseteq Items \X Items
  /\ txn \in [Sessions -> Transactions]
  /\ answer \subseteq Keys \X (Items \cup {None})

\* No set of items waits for itself, whichever commands ran side by side: every item can be
\* begun once others are done (the walk in _task under workspace_lock; the 501 rows it reads
\* are all there are).
NoCycle ==
  \A S \in SUBSET Items : S # {} =>
    \E i \in S : \A d \in S : <<i, d>> \notin edge

\* What is done rests on things that are done, for good, although dependencies come and go
\* while an item is in progress (transition_work, _task).
DoneRestsOnDone ==
  \A e \in edge : item[e[1]] = "done" => item[e[2]] = "done"

\* A request that is sent twice, even at the same time, is answered with one item both times
\* and never with a unique constraint (create_work).
OneItemPerRequest ==
  \A a, b \in answer : a[1] = b[1] => a = b /\ a[2] # None
=============================================================================
