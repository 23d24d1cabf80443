--------------------------- MODULE WorkItemsProofs ---------------------------
(***************************************************************************)
(* Theorems about WorkItems for any finite set of items and any keys,      *)
(* sessions and limit.  What a transaction has read is still so when it    *)
(* writes, because of the locks it holds (TxnOK): from there on each       *)
(* command is as good as one action.                                       *)
(***************************************************************************)
EXTENDS WorkItems, FiniteSetTheorems, TLAPS

-------------------------------------------------------------------------------
(* The invariant *)

Holder(t) == txn[t].on \in {"move", "depend"}

\* No two transactions hold the workspace's lock or the lock of one key.
Exclusive ==
  \A t, u \in Sessions : t # u =>
    /\ ~(Holder(t) /\ Holder(u))
    /\ txn[t].on = "create" /\ txn[u].on = "create" => txn[t].key # txn[u].key

\* What each transaction has looked at is as it saw it.
CreateOK(t) ==
  txn[t].on = "create" =>
    IF txn[t].found = None THEN Found(txn[t].key) = {} ELSE txn[t].found \in Found(txn[t].key)

MoveOK(t) ==
  txn[t].on = "move" =>
    /\ item[txn[t].item] # None
    /\ txn[t].to \in TRANSITIONS[item[txn[t].item]]
    /\ txn[t].ready => Ready(txn[t].item)

DependOK(t) ==
  txn[t].on = "depend" => Unended(txn[t].item) /\ txn[t].graph = edge

TxnOK == \A t \in Sessions : CreateOK(t) /\ MoveOK(t) /\ DependOK(t)

\* A key has one row, and every answer names the row of its key.
KeysOK ==
  /\ \A i, j \in Rows : key[i] = key[j] => i = j
  /\ \A a \in answer : a[2] \in Rows /\ key[a[2]] = a[1]

EdgesOK == Cardinality(edge) <= EdgeLimit

IInv ==
  /\ TypeOK /\ Exclusive /\ TxnOK /\ KeysOK /\ EdgesOK
  /\ NoCycle /\ DoneRestsOnDone

-------------------------------------------------------------------------------
(* Transactions *)

\* Each kind of transaction has the fields its commands read.
LEMMA TxnFields ==
  ASSUME TypeOK, NEW t \in Sessions
  PROVE  /\ txn[t] \in Transactions
         /\ txn[t].on = "create" => txn[t].key \in Keys /\ txn[t].found \in Items \cup {None}
         /\ txn[t].on = "move" =>
              txn[t].item \in Items /\ txn[t].to \in States /\ txn[t].ready \in BOOLEAN
         /\ txn[t].on = "depend" =>
              /\ txn[t].item \in Items /\ txn[t].depends \in Items
              /\ txn[t].remove \in BOOLEAN /\ txn[t].graph \subseteq Items \X Items
  BY DEF TypeOK, Transactions, Idle

\* The edges are finitely many.
LEMMA EdgesFinite == ASSUME TypeOK PROVE IsFiniteSet(edge)
  <1>1. IsFiniteSet(Items \X Items)
    BY ItemsAssumption, FS_Product
  <1> QED
    BY <1>1, FS_Subset DEF TypeOK

\* What a transaction reads of the graph is all of it, as there are never more edges
\* than the limit.
LEMMA GraphIsEdge ==
  ASSUME TypeOK, EdgesOK
  PROVE  Graphs = {edge}
  BY EdgesFinite, FS_CardinalityType, LimitAssumption DEF EdgesOK, Graphs

-------------------------------------------------------------------------------
(* Adding an edge *)

\* A set of items that all wait for one of them.
Waits(S, E) == S # {} /\ \A n \in S : \E d \in S : <<n, d>> \in E

\* The least set with d that no edge leaves does not contain i, so an edge from i to d
\* closes no cycle: a new circle of waiting items was there before, within the set that
\* keeps i out or outside of it.
LEMMA NoNewCycle ==
  ASSUME NEW E \in SUBSET (Items \X Items), NEW i \in Items, NEW d \in Items,
         i \notin Reached(d, E),
         NEW S \in SUBSET Items, Waits(S, E \cup {<<i, d>>})
  PROVE  \E T \in SUBSET Items : Waits(T, E)
  <1>1. PICK C \in SUBSET Items :
          d \in C /\ (\A e \in E : e[1] \in C => e[2] \in C) /\ i \notin C
    BY DEF Reached
  <1>2. CASE S \cap C = {}
    <2>1. d \notin S
      BY <1>1, <1>2
    <2>2. Waits(S, E)
      BY <2>1 DEF Waits
    <2> QED
      BY <2>2
  <1>3. CASE S \cap C # {}
    <2>1. ASSUME NEW n \in S \cap C
          PROVE  \E m \in S \cap C : <<n, m>> \in E
      <3>1. PICK m \in S : <<n, m>> \in E \cup {<<i, d>>}
        BY DEF Waits
      <3>2. <<n, m>> \in E
        BY <1>1, <3>1, <2>1
      <3>3. m \in C
        BY <1>1, <3>2, <2>1
      <3> QED
        BY <3>2, <3>3
    <2> QED
      BY <1>3, <2>1 DEF Waits
  <1> QED
    BY <1>2, <1>3

\* NoCycle in these words.
LEMMA NoCycleWaits ==
  NoCycle <=> \A S \in SUBSET Items : ~Waits(S, edge)
  BY DEF NoCycle, Waits

-------------------------------------------------------------------------------
(* Steps that only read, or give up *)

\* A transaction that ends leaves its locks.
LEMMA EndKeepsExclusive ==
  ASSUME IInv, NEW t \in Sessions, End(t)
  PROVE  /\ txn' \in [Sessions -> Transactions] /\ Exclusive'
         /\ txn'[t] = Idle /\ \A u \in Sessions \ {t} : txn'[u] = txn[u]
  BY DEF IInv, TypeOK, End, Exclusive, Holder, Idle, Transactions

\* What nobody writes to stays in order.
LEMMA RowsUnchanged ==
  ASSUME IInv, UNCHANGED <<item, key, edge>>
  PROVE  EdgesOK' /\ NoCycle' /\ DoneRestsOnDone' /\ (UNCHANGED answer => KeysOK')
  BY DEF IInv, EdgesOK, NoCycle, DoneRestsOnDone, KeysOK, Rows

\* Transactions that only look on find everything as it was.
LEMMA OthersUnchanged ==
  ASSUME IInv, UNCHANGED <<item, key, edge>>,
         NEW u \in Sessions, txn'[u] = txn[u]
  PROVE  CreateOK(u)' /\ MoveOK(u)' /\ DependOK(u)'
  BY DEF IInv, TxnOK, CreateOK, MoveOK, DependOK, Found, Rows, Ready, Unended

LEMMA RollbackKeeps ==
  ASSUME IInv, NEW t \in Sessions, Rollback(t)
  PROVE  IInv'
  <1>1. UNCHANGED <<item, key, edge, answer>> /\ End(t)
    BY DEF Rollback
  <1>2. TypeOK'
    BY <1>1, EndKeepsExclusive DEF IInv, TypeOK
  <1>3. TxnOK'
    <2> SUFFICES ASSUME NEW u \in Sessions
                 PROVE  CreateOK(u)' /\ MoveOK(u)' /\ DependOK(u)'
      BY DEF TxnOK
    <2>1. CASE u = t
      BY <1>1, <2>1, EndKeepsExclusive DEF CreateOK, MoveOK, DependOK, Idle
    <2>2. CASE u # t
      BY <1>1, <2>2, EndKeepsExclusive, OthersUnchanged
    <2> QED
      BY <2>1, <2>2
  <1> QED
    BY <1>1, <1>2, <1>3, EndKeepsExclusive, RowsUnchanged DEF IInv

LEMMA CreateLooksKeeps ==
  ASSUME IInv, NEW t \in Sessions, NEW k \in Keys, CreateLooks(t, k)
  PROVE  IInv'
  <1>1. PICK found \in IF Found(k) = {} THEN {None} ELSE Found(k) :
          txn' = [txn EXCEPT ![t] = Create(k, found)]
    BY DEF CreateLooks
  <1>2. UNCHANGED <<item, key, edge, answer>> /\ KeyFree(k) /\ txn[t] = Idle
    BY DEF CreateLooks
  <1>3. Create(k, found) \in Transactions
    BY <1>1 DEF Create, Transactions, Found, Rows
  <1>4. TypeOK'
    BY <1>1, <1>2, <1>3 DEF IInv, TypeOK
  <1>5. /\ txn'[t] = Create(k, found)
        /\ \A u \in Sessions \ {t} : txn'[u] = txn[u]
    BY <1>1 DEF IInv, TypeOK
  <1>6. Exclusive'
    BY <1>2, <1>5 DEF IInv, Exclusive, Holder, KeyFree, Create
  <1>7. TxnOK'
    <2> SUFFICES ASSUME NEW u \in Sessions
                 PROVE  CreateOK(u)' /\ MoveOK(u)' /\ DependOK(u)'
      BY DEF TxnOK
    <2>1. CASE u = t
      <3>1. Found(k)' = Found(k)
        BY <1>2 DEF Found, Rows
      <3>2. \A i \in Found(k) : i # None
        BY ItemsAssumption DEF Found, Rows
      <3> QED
        BY <1>1, <1>5, <2>1, <3>1, <3>2 DEF CreateOK, MoveOK, DependOK, Create
    <2>2. CASE u # t
      BY <1>2, <1>5, <2>2, OthersUnchanged
    <2> QED
      BY <2>1, <2>2
  <1> QED
    BY <1>2, <1>4, <1>6, <1>7, RowsUnchanged DEF IInv

LEMMA MoveLooksKeeps ==
  ASSUME IInv, NEW t \in Sessions, NEW i \in Items, NEW state \in States,
         MoveLooks(t, i, state)
  PROVE  IInv'
  <1>1. /\ txn' = [txn EXCEPT ![t] = Move(i, state, Ready(i))]
        /\ UNCHANGED <<item, key, edge, answer>> /\ Free
        /\ item[i] # None /\ state \in TRANSITIONS[item[i]]
    BY DEF MoveLooks
  <1>2. Move(i, state, Ready(i)) \in Transactions
    BY DEF Move, Transactions, Ready
  <1>3. TypeOK'
    BY <1>1, <1>2 DEF IInv, TypeOK
  <1>4. /\ txn'[t] = Move(i, state, Ready(i))
        /\ \A u \in Sessions \ {t} : txn'[u] = txn[u]
    BY <1>1 DEF IInv, TypeOK
  <1>5. Exclusive'
    BY <1>1, <1>4 DEF IInv, Exclusive, Holder, Free, Move
  <1>6. TxnOK'
    <2> SUFFICES ASSUME NEW u \in Sessions
                 PROVE  CreateOK(u)' /\ MoveOK(u)' /\ DependOK(u)'
      BY DEF TxnOK
    <2>1. CASE u = t
      <3>1. Ready(i)' = Ready(i)
        BY <1>1 DEF Ready
      <3> QED
        BY <1>1, <1>4, <2>1, <3>1 DEF CreateOK, MoveOK, DependOK, Move
    <2>2. CASE u # t
      BY <1>1, <1>4, <2>2, OthersUnchanged
    <2> QED
      BY <2>1, <2>2
  <1> QED
    BY <1>1, <1>3, <1>5, <1>6, RowsUnchanged DEF IInv

LEMMA DependLooksKeeps ==
  ASSUME IInv, NEW t \in Sessions, NEW i \in Items, NEW d \in Items, NEW remove \in BOOLEAN,
         DependLooks(t, i, d, remove)
  PROVE  IInv'
  <1>1. /\ txn' = [txn EXCEPT ![t] = Depend(i, d, remove, edge)]
        /\ UNCHANGED <<item, key, edge, answer>> /\ Free /\ Unended(i)
    BY GraphIsEdge DEF DependLooks, IInv
  <1>2. Depend(i, d, remove, edge) \in Transactions
    BY DEF Depend, Transactions, IInv, TypeOK
  <1>3. TypeOK'
    BY <1>1, <1>2 DEF IInv, TypeOK
  <1>4. /\ txn'[t] = Depend(i, d, remove, edge)
        /\ \A u \in Sessions \ {t} : txn'[u] = txn[u]
    BY <1>1 DEF IInv, TypeOK
  <1>5. Exclusive'
    BY <1>1, <1>4 DEF IInv, Exclusive, Holder, Free, Depend
  <1>6. TxnOK'
    <2> SUFFICES ASSUME NEW u \in Sessions
                 PROVE  CreateOK(u)' /\ MoveOK(u)' /\ DependOK(u)'
      BY DEF TxnOK
    <2>1. CASE u = t
      BY <1>1, <1>4, <2>1 DEF CreateOK, MoveOK, DependOK, Depend, Unended
    <2>2. CASE u # t
      BY <1>1, <1>4, <2>2, OthersUnchanged
    <2> QED
      BY <2>1, <2>2
  <1> QED
    BY <1>1, <1>3, <1>5, <1>6, RowsUnchanged DEF IInv

-------------------------------------------------------------------------------
(* Steps that write *)

LEMMA CreateAnswersKeeps ==
  ASSUME IInv, NEW t \in Sessions, CreateAnswers(t)
  PROVE  IInv'
  <1>1. /\ UNCHANGED <<item, key, edge>> /\ End(t)
        /\ answer' = answer \cup {<<txn[t].key, txn[t].found>>}
        /\ txn[t].found \in Found(txn[t].key)
    BY DEF CreateAnswers, IInv, TxnOK, CreateOK
  <1>2. txn[t].key \in Keys /\ txn[t].found \in Rows /\ key[txn[t].found] = txn[t].key
    BY <1>1, TxnFields DEF CreateAnswers, Found, IInv
  <1>3. TypeOK'
    BY <1>1, <1>2, EndKeepsExclusive DEF IInv, TypeOK, Rows
  <1>4. TxnOK'
    <2> SUFFICES ASSUME NEW u \in Sessions
                 PROVE  CreateOK(u)' /\ MoveOK(u)' /\ DependOK(u)'
      BY DEF TxnOK
    <2>1. CASE u = t
      BY <1>1, <2>1, EndKeepsExclusive DEF CreateOK, MoveOK, DependOK, Idle
    <2>2. CASE u # t
      BY <1>1, <2>2, EndKeepsExclusive, OthersUnchanged
    <2> QED
      BY <2>1, <2>2
  <1>5. KeysOK'
    BY <1>1, <1>2 DEF IInv, KeysOK, Rows
  <1> QED
    BY <1>1, <1>3, <1>4, <1>5, EndKeepsExclusive, RowsUnchanged DEF IInv

\* A new row has a key of its own, and no edge touches it that made something done.
LEMMA CreateInsertsKeeps ==
  ASSUME IInv, NEW t \in Sessions, NEW i \in Items, CreateInserts(t, i)
  PROVE  IInv'
  <1> DEFINE k == txn[t].key
  <1>1. Found(k) = {} /\ k \in Keys /\ item[i] = None
    BY TxnFields DEF CreateInserts, IInv, TxnOK, CreateOK
  <1>2. /\ item' = [item EXCEPT ![i] = "open"] /\ key' = [key EXCEPT ![i] = k]
        /\ answer' = answer \cup {<<k, i>>} /\ edge' = edge /\ End(t)
    BY <1>1 DEF CreateInserts
  <1>3. /\ item'[i] = "open" /\ key'[i] = k
        /\ \A j \in Items \ {i} : item'[j] = item[j] /\ key'[j] = key[j]
    BY <1>2 DEF IInv, TypeOK
  <1>4. TypeOK'
    BY <1>1, <1>2, EndKeepsExclusive DEF IInv, TypeOK, States
  <1>5. Rows' = Rows \cup {i} /\ i \notin Rows
    BY <1>1, <1>3, NoneIsNoState DEF Rows, States
  <1>6. KeysOK'
    BY <1>1, <1>2, <1>3, <1>5 DEF IInv, KeysOK, Rows, Found
  <1>7. TxnOK'
    <2> SUFFICES ASSUME NEW u \in Sessions
                 PROVE  CreateOK(u)' /\ MoveOK(u)' /\ DependOK(u)'
      BY DEF TxnOK
    <2>1. CASE u = t
      BY <1>2, <2>1, EndKeepsExclusive DEF CreateOK, MoveOK, DependOK, Idle
    <2>2. CASE u # t
      <3>1. txn'[u] = txn[u] /\ CreateOK(u) /\ MoveOK(u) /\ DependOK(u)
        BY <1>2, <2>2, EndKeepsExclusive DEF IInv, TxnOK
      <3>2. CreateOK(u)'
        <4>1. txn[u].on = "create" => txn[u].key # k
          BY <2>2 DEF IInv, Exclusive, CreateInserts
        <4>2. \A q \in Keys \ {k} : Found(q)' = Found(q)
          BY <1>3, <1>5 DEF Found, Rows
        <4> QED
          BY <3>1, <4>1, <4>2, TxnFields DEF CreateOK, IInv
      <3>3. MoveOK(u)'
        <4>1. txn[u].on = "move" => txn[u].item \in Items /\ txn[u].item # i
          BY <1>1, <3>1, TxnFields DEF MoveOK, IInv
        <4>2. \A j \in Items : Ready(j) => Ready(j)'
          BY <1>1, <1>2, <1>3, NoneIsNoState DEF Ready, States
        <4> QED
          BY <1>3, <3>1, <4>1, <4>2 DEF MoveOK
      <3>4. DependOK(u)'
        <4>1. txn[u].on = "depend" => txn[u].item \in Items /\ txn[u].item # i
          BY <1>1, <3>1, NoneIsNoState, TxnFields DEF DependOK, IInv, Unended, States
        <4> QED
          BY <1>2, <1>3, <3>1, <4>1 DEF DependOK, Unended
      <3> QED
        BY <3>2, <3>3, <3>4
    <2> QED
      BY <2>1, <2>2
  <1>8. DoneRestsOnDone'
    BY <1>1, <1>2, <1>3, NoneIsNoState DEF IInv, TypeOK, DoneRestsOnDone, States
  <1>9. EdgesOK' /\ NoCycle'
    BY <1>2 DEF IInv, EdgesOK, NoCycle
  <1> QED
    BY <1>2, <1>4, <1>6, <1>7, <1>8, <1>9, EndKeepsExclusive DEF IInv

\* An item that moves on to done has everything it depends on done; one that is done does
\* not move, so nothing that rests on it is disturbed.
LEMMA MoveWritesKeeps ==
  ASSUME IInv, NEW t \in Sessions, MoveWrites(t)
  PROVE  IInv'
  <1> DEFINE i == txn[t].item
             to == txn[t].to
  <1>1. /\ i \in Items /\ to \in States /\ to \in TRANSITIONS[item[i]] /\ item[i] # None
        /\ to = "done" => Ready(i)
    BY TxnFields DEF MoveWrites, IInv, TxnOK, MoveOK
  <1>2. /\ item' = [item EXCEPT ![i] = to] /\ End(t)
        /\ UNCHANGED <<key, edge, answer>>
    BY DEF MoveWrites
  <1>3. item'[i] = to /\ \A j \in Items \ {i} : item'[j] = item[j]
    BY <1>1, <1>2 DEF IInv, TypeOK
  <1>4. item[i] \in States /\ item[i] # "done"
    BY <1>1 DEF IInv, TypeOK, TRANSITIONS, States
  <1>5. TypeOK'
    BY <1>1, <1>2, EndKeepsExclusive DEF IInv, TypeOK
  <1>6. Rows' = Rows
    BY <1>1, <1>3, NoneIsNoState DEF Rows
  <1>7. KeysOK' /\ EdgesOK' /\ NoCycle'
    BY <1>2, <1>6 DEF IInv, KeysOK, EdgesOK, NoCycle
  <1>8. TxnOK'
    <2> SUFFICES ASSUME NEW u \in Sessions
                 PROVE  CreateOK(u)' /\ MoveOK(u)' /\ DependOK(u)'
      BY DEF TxnOK
    <2>1. CASE u = t
      BY <1>2, <2>1, EndKeepsExclusive DEF CreateOK, MoveOK, DependOK, Idle
    <2>2. CASE u # t
      <3>1. txn'[u] = txn[u] /\ CreateOK(u)
        BY <1>2, <2>2, EndKeepsExclusive DEF IInv, TxnOK
      <3>2. ~Holder(u)
        BY <2>2 DEF IInv, Exclusive, Holder, MoveWrites
      <3>3. \A q \in Keys : Found(q)' = Found(q)
        BY <1>2, <1>6 DEF Found
      <3> QED
        BY <3>1, <3>2, <3>3, TxnFields DEF CreateOK, MoveOK, DependOK, Holder, IInv
    <2> QED
      BY <2>1, <2>2
  <1>9. DoneRestsOnDone'
    <2> SUFFICES ASSUME NEW e \in edge, item'[e[1]] = "done"
                 PROVE  item'[e[2]] = "done"
      BY <1>2 DEF DoneRestsOnDone
    <2>1. e[1] \in Items /\ e[2] \in Items /\ e = <<e[1], e[2]>>
      BY DEF IInv, TypeOK
    <2>2. item[e[2]] = "done"
      <3>1. CASE e[1] = i
        BY <1>1, <1>3, <2>1, <3>1 DEF Ready
      <3>2. CASE e[1] # i
        BY <1>3, <2>1, <3>2 DEF IInv, DoneRestsOnDone
      <3> QED
        BY <3>1, <3>2
    <2> QED
      BY <1>3, <1>4, <2>1, <2>2
  <1> QED
    BY <1>2, <1>5, <1>7, <1>8, <1>9, EndKeepsExclusive DEF IInv

\* A finite set with one more element is larger by one at most.
LEMMA OneMore ==
  ASSUME NEW S, NEW x, IsFiniteSet(S)
  PROVE  /\ Cardinality(S \cup {x}) <= Cardinality(S) + 1
         /\ Cardinality(S \cup {x}) \in Nat
  <1>1. /\ IsFiniteSet(S \cup {x})
        /\ Cardinality(S \cup {x}) =
             IF x \in S THEN Cardinality(S) ELSE Cardinality(S) + 1
    BY FS_AddElement
  <1>2. Cardinality(S) \in Nat
    BY FS_CardinalityType
  <1> QED
    BY <1>1, <1>2

\* The graph that was walked is the graph the edge is added to.
LEMMA DependWritesKeeps ==
  ASSUME IInv, NEW t \in Sessions, DependWrites(t)
  PROVE  IInv'
  <1> DEFINE i == txn[t].item
             d == txn[t].depends
  <1>1. i \in Items /\ d \in Items /\ Unended(i) /\ txn[t].graph = edge
    BY TxnFields DEF DependWrites, IInv, TxnOK, DependOK
  <1>2. /\ \/ edge' = edge \ {<<i, d>>}
           \/ edge' = edge \cup {<<i, d>>} /\ Acceptable(i, d, edge)
        /\ End(t) /\ UNCHANGED <<item, key, answer>>
    BY <1>1 DEF DependWrites
  <1>3. TypeOK'
    BY <1>1, <1>2, EndKeepsExclusive DEF IInv, TypeOK
  <1>4. TxnOK'
    <2> SUFFICES ASSUME NEW u \in Sessions
                 PROVE  CreateOK(u)' /\ MoveOK(u)' /\ DependOK(u)'
      BY DEF TxnOK
    <2>1. CASE u = t
      BY <1>2, <2>1, EndKeepsExclusive DEF CreateOK, MoveOK, DependOK, Idle
    <2>2. CASE u # t
      <3>1. txn'[u] = txn[u] /\ CreateOK(u)
        BY <1>2, <2>2, EndKeepsExclusive DEF IInv, TxnOK
      <3>2. ~Holder(u)
        BY <2>2 DEF IInv, Exclusive, Holder, DependWrites
      <3> QED
        BY <1>2, <3>1, <3>2 DEF CreateOK, MoveOK, DependOK, Holder, Found, Rows
    <2> QED
      BY <2>1, <2>2
  <1>5. EdgesOK'
    <2>1. IsFiniteSet(edge) /\ Cardinality(edge) \in Nat
      BY EdgesFinite, FS_CardinalityType DEF IInv
    <2>2. CASE edge' = edge \ {<<i, d>>}
      <3>1. Cardinality(edge') <= Cardinality(edge) /\ Cardinality(edge') \in Nat
        BY <2>1, <2>2, FS_Subset, FS_CardinalityType
      <3> QED
        BY <2>1, <3>1, LimitAssumption DEF IInv, EdgesOK
    <2>3. CASE edge' = edge \cup {<<i, d>>} /\ Acceptable(i, d, edge)
      <3>1. /\ Cardinality(edge') <= Cardinality(edge) + 1
            /\ Cardinality(edge') \in Nat
        BY <2>1, <2>3, OneMore
      <3> QED
        BY <2>1, <2>3, <3>1, LimitAssumption DEF EdgesOK, Acceptable
    <2> QED
      BY <1>2, <2>2, <2>3
  <1>6. NoCycle'
    <2>1. \A S \in SUBSET Items : ~Waits(S, edge)
      BY NoCycleWaits DEF IInv
    <2>2. \A S \in SUBSET Items : ~Waits(S, edge')
      <3>1. CASE edge' = edge \ {<<i, d>>}
        BY <2>1, <3>1 DEF Waits
      <3>2. CASE edge' = edge \cup {<<i, d>>} /\ Acceptable(i, d, edge)
        <4>1. i \notin Reached(d, edge) /\ edge \in SUBSET (Items \X Items)
          BY <3>2 DEF Acceptable, IInv, TypeOK
        <4> QED
          BY <1>1, <2>1, <3>2, <4>1, NoNewCycle
      <3> QED
        BY <1>2, <3>1, <3>2
    <2> QED
      BY <2>2 DEF NoCycle, Waits
  <1>7. DoneRestsOnDone'
    BY <1>1, <1>2 DEF IInv, DoneRestsOnDone, Unended
  <1>8. KeysOK'
    BY <1>2 DEF IInv, KeysOK, Rows
  <1> QED
    BY <1>2, <1>3, <1>4, <1>5, <1>6, <1>7, <1>8, EndKeepsExclusive DEF IInv

-------------------------------------------------------------------------------
(* Theorems *)

LEMMA InitHolds == Init => IInv
  <1> SUFFICES ASSUME Init PROVE IInv
    OBVIOUS
  <1>1. TypeOK
    BY DEF Init, TypeOK, Transactions
  <1>2. Exclusive /\ TxnOK
    BY DEF Init, Exclusive, Holder, TxnOK, CreateOK, MoveOK, DependOK, Idle
  <1>3. KeysOK
    BY DEF Init, KeysOK, Rows
  <1>4. EdgesOK
    BY LimitAssumption, FS_EmptySet DEF Init, EdgesOK
  <1>5. NoCycle /\ DoneRestsOnDone
    BY DEF Init, NoCycle, DoneRestsOnDone
  <1> QED
    BY <1>1, <1>2, <1>3, <1>4, <1>5 DEF IInv

LEMMA StepHolds == IInv /\ [Next]_vars => IInv'
  <1> SUFFICES ASSUME IInv, [Next]_vars PROVE IInv'
    OBVIOUS
  <1>1. CASE Next
    <2>1. PICK t \in Sessions :
            \/ \E k \in Keys : CreateLooks(t, k)
            \/ CreateAnswers(t)
            \/ \E i \in Items : CreateInserts(t, i)
            \/ \E i \in Items, state \in States : MoveLooks(t, i, state)
            \/ MoveWrites(t)
            \/ \E i, d \in Items, remove \in BOOLEAN : DependLooks(t, i, d, remove)
            \/ DependWrites(t)
            \/ Rollback(t)
      BY <1>1 DEF Next
    <2>2. ASSUME NEW k \in Keys, CreateLooks(t, k) PROVE IInv'
      BY <2>2, CreateLooksKeeps
    <2>3. ASSUME NEW i \in Items, CreateInserts(t, i) PROVE IInv'
      BY <2>3, CreateInsertsKeeps
    <2>4. ASSUME NEW i \in Items, NEW state \in States, MoveLooks(t, i, state) PROVE IInv'
      BY <2>4, MoveLooksKeeps
    <2>5. ASSUME NEW i \in Items, NEW d \in Items, NEW remove \in BOOLEAN,
                 DependLooks(t, i, d, remove)
          PROVE  IInv'
      BY <2>5, DependLooksKeeps
    <2> QED
      BY <2>1, <2>2, <2>3, <2>4, <2>5, CreateAnswersKeeps, MoveWritesKeeps,
         DependWritesKeeps, RollbackKeeps
  <1>2. CASE UNCHANGED vars
    BY <1>2 DEF vars, IInv, TypeOK, Exclusive, Holder, TxnOK, CreateOK, MoveOK, DependOK,
                Found, Rows, Ready, Unended, KeysOK, EdgesOK, NoCycle, DoneRestsOnDone
  <1> QED
    BY <1>1, <1>2

\* The inductive invariant: under its locks every transaction writes on what it has read.
THEOREM Invariant == Spec => []IInv
  BY InitHolds, StepHolds, PTL DEF Spec

\* All rows and transactions fit their tables (operations.py, content_models.py).
THEOREM TypeCorrect == Spec => []TypeOK
  BY Invariant, PTL DEF IInv

\* No set of items waits for itself, with any number of items, sessions and edges (_task).
THEOREM Acyclic == Spec => []NoCycle
  BY Invariant, PTL DEF IInv

\* What is done rests on things that are done (transition_work).
THEOREM DoneStands == Spec => []DoneRestsOnDone
  BY Invariant, PTL DEF IInv

\* A repeated request is answered with the item of the first (create_work).
THEOREM Idempotent == Spec => []OneItemPerRequest
  <1>1. IInv => OneItemPerRequest
    <2> SUFFICES ASSUME IInv, NEW a \in answer, NEW b \in answer, a[1] = b[1]
                 PROVE  a = b /\ a[2] # None
      BY DEF OneItemPerRequest
    <2>1. a[2] \in Rows /\ key[a[2]] = a[1] /\ b[2] \in Rows /\ key[b[2]] = b[1]
      BY DEF IInv, KeysOK
    <2>2. a[2] = b[2]
      BY <2>1 DEF IInv, KeysOK
    <2>3. a = <<a[1], a[2]>> /\ b = <<b[1], b[2]>>
      BY DEF IInv, TypeOK
    <2> QED
      BY <2>1, <2>2, <2>3, ItemsAssumption DEF Rows
  <1> QED
    BY <1>1, Invariant, PTL
=============================================================================
