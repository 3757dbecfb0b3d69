----------------------------- MODULE TreeProofs -----------------------------
(***************************************************************************)
(* Proofs about the manager, in three parts.                               *)
(*                                                                         *)
(* The tree in memory is a forest of live nodes and agrees with the        *)
(* tables, for every number of ids, every seed and every fault: TreeInv    *)
(* (TreeProperties) is inductive, with one lemma for each action, or for a *)
(* group of actions that touch the same part of the state.                 *)
(*                                                                         *)
(* The transactions of addNode and removeNode, for a program whose         *)
(* statements fail only when its session is lost: connections may be lost  *)
(* and the process may be killed anywhere.  TransactionInv is inductive on *)
(* top of TreeInv.  Without the assumption it is false: a DELETE that      *)
(* fails after the node has lost its edge in memory leaves a row that is   *)
(* not linked.  From it follows that DataSyncMagnr implements              *)
(* InventoryStore: the committed tables change by whole operations,        *)
(* however many statements an operation takes and wherever it is           *)
(* interrupted.  (The fairness of the store is checked by TLC only.)       *)
(*                                                                         *)
(* The map and the tree in memory are a cache of the tables: what is       *)
(* committed is there, what addNode returned is committed, and what        *)
(* nodeToJson reaches is what is committed.  RowsInv, ObjectsInv,          *)
(* ParentsOlder, RootInv and LinksInv are inductive on top of TreeInv and  *)
(* TransactionInv; RowsInv and ParentsOlder need no assumption about what  *)
(* fails.  The levels of nodeToJson are a recursive function: what is      *)
(* proved of it is proved by taking the least level at which it would fail. *)
(***************************************************************************)
EXTENDS TreeProperties, WellFoundedInduction, TLAPS

(* What the four statements that change rows keep: the type of the tables   *)
(* and the two foreign keys with the single parent.                         *)
LEMMA ObjectInserted ==
  ASSUME NEW db \in Database, RowsOK(db), NEW id \in Ids
  PROVE  /\ WithObject(db, id) \in Database
         /\ RowsOK(WithObject(db, id))
         /\ WithObject(db, id).objects = db.objects \cup {id}
         /\ WithObject(db, id).rels = db.rels
  BY DEF Database, RowsOK, WithObject

(* A row for a child that had none keeps the single parent.                 *)
LEMMA RelationshipInserted ==
  ASSUME NEW db \in Database, RowsOK(db), NEW p \in Ids, NEW c \in Ids,
         CanRelate(db, p, c), \A r \in db.rels : r[2] # c
  PROVE  /\ WithRelationship(db, p, c) \in Database
         /\ RowsOK(WithRelationship(db, p, c))
         /\ WithRelationship(db, p, c).objects = db.objects
         /\ WithRelationship(db, p, c).rels = db.rels \cup {<<p, c>>}
  BY DEF Database, RowsOK, WithRelationship, CanRelate

(* Deleting the rows of a parent's children adds nothing.                   *)
LEMMA RelationshipsDeleted ==
  ASSUME NEW db \in Database, RowsOK(db), NEW p
  PROVE  /\ WithoutChildrenOf(db, p) \in Database
         /\ RowsOK(WithoutChildrenOf(db, p))
         /\ WithoutChildrenOf(db, p).objects = db.objects
         /\ WithoutChildrenOf(db, p).rels \subseteq db.rels
  BY DEF Database, RowsOK, WithoutChildrenOf

(* The cascade takes the rows with the object.                              *)
LEMMA ObjectDeleted ==
  ASSUME NEW db \in Database, RowsOK(db), NEW id
  PROVE  /\ WithoutObject(db, id) \in Database
         /\ RowsOK(WithoutObject(db, id))
         /\ WithoutObject(db, id).objects \subseteq db.objects
         /\ WithoutObject(db, id).rels \subseteq db.rels
  BY DEF Database, RowsOK, WithoutObject

-----------------------------------------------------------------------------
(* Before the first start the tables are the seed and memory is empty.      *)
LEMMA InitTreeInv == Init => TreeInv
  <1> SUFFICES ASSUME Init PROVE TreeInv
    OBVIOUS
  <1> USE MaxIdAssumption, SeedAssumption DEF Init, Ids, Keys, SuperRoot
  <1>1. stored \in Database
    BY DEF Database
  <1>2. TypeOK
    BY <1>1 DEF TypeOK, MySQLTypeOK, Phases, Exits, NoCall
  <1>3. RowsOK(stored)
    BY DEF RowsOK
  <1>4. NoDangling /\ UniqueParent /\ EdgesAgree
    BY DEF NoDangling, UniqueParent, EdgesAgree
  <1>5. UnusedIds
    BY DEF UnusedIds, Unused
  <1>6. PhaseOK
    BY DEF PhaseOK
  <1> QED
    BY <1>2, <1>3, <1>4, <1>5, <1>6 DEF TreeInv, OneParentRow

-----------------------------------------------------------------------------
(* Steps that add no row, whatever they do to the session.                  *)
TablesShrink ==
  /\ MySQLTypeOK'
  /\ OneParentRow'
  /\ autoInc' = autoInc
  /\ stored'.objects \cup pending'.objects
       \subseteq stored.objects \cup pending.objects
  /\ stored'.rels \cup pending'.rels \subseteq stored.rels \cup pending.rels

SessionStep ==
  \/ Connect \/ Disconnect \/ LoseConnection
  \/ Query \/ Fails \/ Refused
  \/ AutocommitOff \/ AutocommitOn \/ Commit \/ Rollback

(* Transaction statements, queries and failures add no row.                 *)
LEMMA SessionStepShrinks ==
  ASSUME MySQLTypeOK, OneParentRow, SessionStep
  PROVE  TablesShrink
  BY DEF SessionStep, TablesShrink, MySQLTypeOK, OneParentRow, dbVars,
         Connect, Disconnect, LoseConnection, Query, Fails, Refused,
         AutocommitOff, AutocommitOn, Commit, Rollback, OnOpenSession

(* Nor do the two DELETEs.                                                  *)
LEMMA DeleteShrinks ==
  ASSUME MySQLTypeOK, OneParentRow,
         NEW id, DeleteRelationshipsOf(id) \/ DeleteObject(id)
  PROVE  TablesShrink
  <1>1. CASE DeleteRelationshipsOf(id)
    BY <1>1, RelationshipsDeleted
    DEF DeleteRelationshipsOf, Write, TablesShrink, MySQLTypeOK, OneParentRow
  <1>2. CASE DeleteObject(id)
    BY <1>2, ObjectDeleted
    DEF DeleteObject, Write, TablesShrink, MySQLTypeOK, OneParentRow
  <1> QED
    BY <1>1, <1>2

(* A step that adds no row, no node and no edge keeps the forest.           *)
LEMMA ForestShrinks ==
  ASSUME TreeInv, TablesShrink,
         nodes' \subseteq nodes \cup {SuperRoot},
         children' \in [Keys -> SUBSET Ids],
         \A p \in Keys : children'[p] \subseteq children[p] \cap nodes'
  PROVE  NoDangling' /\ UniqueParent' /\ OneParentRow' /\ EdgesAgree'
         /\ UnusedIds'
  <1> USE DEF TreeInv, TablesShrink
  <1>1. NoDangling' /\ UniqueParent'
    BY DEF NoDangling, UniqueParent
  <1>2. EdgesAgree'
    BY DEF EdgesAgree
  <1>3. UnusedIds'
    BY DEF UnusedIds, Unused, Ids, SuperRoot
  <1> QED
    BY <1>1, <1>2, <1>3

-----------------------------------------------------------------------------
(* The process starts, ends, or fails to start.                             *)
LEMMA ResetKeepsTreeInv ==
  ASSUME TreeInv, Start \/ \E cause \in Exits : Die(cause)
  PROVE  TreeInv'
  <1>1. TablesShrink /\ stored' = pending'
    BY SessionStepShrinks
    DEF SessionStep, Start, Die, TreeInv, TypeOK, Connect, Disconnect
  <1>2. /\ nodes' \subseteq {SuperRoot}
        /\ children' = [k \in Keys |-> {}]
        /\ pc' \in {"down", "loadObjects"}
        /\ call' = NoCall \/ call' = call
        /\ newId' = 0 \/ newId' = newId
        /\ parentId' = 0 \/ parentId' = parentId
        /\ ret' = 0 \/ ret' = ret
        /\ exit' \in Exits
    BY DEF Start, Die, Goto, localVars, Exits
  <1>3. TypeOK'
    BY <1>1, <1>2 DEF TreeInv, TypeOK, TablesShrink, Phases, Keys
  <1>4. NoDangling' /\ UniqueParent' /\ OneParentRow' /\ EdgesAgree'
        /\ UnusedIds'
    BY <1>1, <1>2, ForestShrinks
  <1>5. PhaseOK'
    BY <1>1, <1>2 DEF PhaseOK
  <1> QED
    BY <1>3, <1>4, <1>5 DEF TreeInv

(* Nodes enter the map, with no edges yet.                                  *)
LEMMA LoadObjectsKeepsTreeInv ==
  ASSUME TreeInv, LoadObjects
  PROVE  TreeInv'
  <1> USE DEF TreeInv, LoadObjects, Query, dbVars, Goto, Continue, localVars
  <1>1. TypeOK'
    BY DEF TypeOK, MySQLTypeOK, Database, Keys, Phases
  <1>2. NoDangling' /\ UniqueParent' /\ OneParentRow' /\ EdgesAgree'
    BY DEF NoDangling, UniqueParent, OneParentRow, EdgesAgree
  <1>3. UnusedIds'
    BY DEF UnusedIds, Unused
  <1>4. PhaseOK'
    BY DEF PhaseOK
  <1> QED
    BY <1>1, <1>2, <1>3, <1>4

(* Here the single parent row makes the forest: two parents of one node     *)
(* would be two rows with the same child.                                   *)
LEMMA LoadRelationshipsKeepsTreeInv ==
  ASSUME TreeInv, LoadRelationships
  PROVE  TreeInv'
  <1> USE DEF TreeInv, LoadRelationships, Query, dbVars, Goto, Continue, localVars
  <1>1. LinkedRows(pending) = pending.rels
    BY DEF LinkedRows, PhaseOK, OneParentRow, RowsOK
  <1>2. \A p \in Keys : children'[p] \subseteq nodes \cap Ids
    BY <1>1 DEF TreeOf, LinkedRows, TypeOK, Keys
  <1>3. TypeOK'
    <2>1. children' \in [Keys -> SUBSET Ids]
      BY <1>2 DEF TreeOf
    <2> QED
      BY <2>1 DEF TypeOK, MySQLTypeOK, Phases
  <1>4. NoDangling'
    BY <1>2 DEF NoDangling
  <1>5. \A p \in Keys, c \in Ids : c \in children'[p] =>
          IF p = SuperRoot THEN \A r \in pending.rels : r[2] # c
                           ELSE <<p, c>> \in pending.rels
    BY <1>1 DEF TreeOf
  <1>6. UniqueParent'
    <2> SUFFICES ASSUME NEW p \in Keys, NEW q \in Keys, NEW c \in Ids,
                        c \in children'[p], c \in children'[q]
                 PROVE  p = q
      BY <1>2 DEF UniqueParent
    <2> QED
      BY <1>5 DEF OneParentRow, RowsOK
  <1>7. EdgesAgree'
    <2> SUFFICES ASSUME NEW r \in pending.rels, NEW q \in Keys,
                        r[2] \in children'[q]
                 PROVE  q = r[1]
      BY DEF EdgesAgree, PhaseOK
    <2>1. r[2] \in Ids
      BY <1>2
    <2>2. <<q, r[2]>> \in pending.rels
      BY <1>5, <2>1
    <2>3. <<q, r[2]>> = r
      BY <2>2 DEF OneParentRow, RowsOK
    <2> QED
      BY <2>3
  <1>8. OneParentRow'
    BY DEF OneParentRow
  <1>9. UnusedIds'
    BY <1>2 DEF UnusedIds, Unused
  <1>10. PhaseOK'
    BY DEF PhaseOK
  <1> QED
    BY <1>3, <1>4, <1>6, <1>7, <1>8, <1>9, <1>10

-----------------------------------------------------------------------------
(* The steps of a call that change neither the map nor the edges.           *)
(* The special case for them of ForestShrinks.                              *)
LEMMA QuietStepKeepsForest ==
  ASSUME TreeInv, TablesShrink, UNCHANGED memVars
  PROVE  NoDangling' /\ UniqueParent' /\ OneParentRow' /\ EdgesAgree'
         /\ UnusedIds'
  BY ForestShrinks DEF memVars, TreeInv, TypeOK, NoDangling

(* addNode: its call, and the statements of its transaction.                *)
LEMMA QuietAddKeepsTreeInv ==
  ASSUME TreeInv,
         \/ AddBegin \/ AddRollback \/ AddCommit
         \/ \E name \in Names, parent \in Args : CallAddNode(name, parent)
  PROVE  TreeInv'
  <1>1. TablesShrink /\ UNCHANGED memVars
    BY SessionStepShrinks
    DEF SessionStep, TreeInv, TypeOK, AddBegin, AddRollback, AddCommit,
        CallAddNode, Query, Refused
  <1>2. NoDangling' /\ UniqueParent' /\ OneParentRow' /\ EdgesAgree'
        /\ UnusedIds'
    BY <1>1, QuietStepKeepsForest
  <1>3. TypeOK'
    <2> USE <1>1 DEF TreeInv, TypeOK, TablesShrink, memVars, Goto, Continue,
                     localVars, Return, Phases, PhaseOK
    <2>1. CASE AddBegin
      BY <2>1 DEF AddBegin
    <2>2. CASE AddRollback
      BY <2>2 DEF AddRollback
    <2>3. CASE AddCommit
      BY <2>3 DEF AddCommit
    <2>4. ASSUME NEW name \in Names, NEW parent \in Args,
                 CallAddNode(name, parent)
          PROVE  TypeOK'
      BY <2>4 DEF CallAddNode, AddCall
    <2> QED
      BY <2>1, <2>2, <2>3, <2>4
  <1>4. PhaseOK'
    <2> USE <1>1 DEF TreeInv, TypeOK, TablesShrink, memVars, Goto, Continue,
                     localVars, Return, PhaseOK
    <2>1. CASE AddBegin
      BY <2>1 DEF AddBegin
    <2>2. CASE AddRollback
      BY <2>2 DEF AddRollback
    <2>3. CASE AddCommit
      BY <2>3 DEF AddCommit
    <2>4. ASSUME NEW name \in Names, NEW parent \in Args,
                 CallAddNode(name, parent)
          PROVE  PhaseOK'
      BY <2>4, MaxIdAssumption
      DEF CallAddNode, AddCall, MySQLTypeOK, Ids, dbVars
    <2> QED
      BY <2>1, <2>2, <2>3, <2>4
  <1> QED
    BY <1>2, <1>3, <1>4 DEF TreeInv

(* The object gets the next id, which is nowhere yet.                       *)
LEMMA AddInsertKeepsTreeInv ==
  ASSUME TreeInv, AddInsert
  PROVE  TreeInv'
  <1> USE DEF TreeInv, Goto, Continue, localVars
  <1>1. CASE InsertObject /\ pc' = "add_lastid"
    <2> USE <1>1 DEF AddInsert, InsertObject, Write
    <2>1. autoInc \in Ids /\ autoInc' = autoInc + 1
      BY DEF PhaseOK
    <2>2. /\ pending' \in Database /\ RowsOK(pending')
          /\ pending'.objects = pending.objects \cup {autoInc}
          /\ pending'.rels = pending.rels
      BY <2>1, ObjectInserted DEF TypeOK, MySQLTypeOK, OneParentRow
    <2>3. stored' = stored \/ stored' = pending'
      OBVIOUS
    <2>4. TypeOK'
      BY <2>1, <2>2, <2>3, MaxIdAssumption
      DEF TypeOK, MySQLTypeOK, memVars, Phases, Ids
    <2>5. NoDangling' /\ UniqueParent' /\ OneParentRow'
      BY <2>2, <2>3 DEF NoDangling, UniqueParent, OneParentRow, memVars
    <2>6. EdgesAgree'
      BY <2>2, <2>3 DEF EdgesAgree, memVars
    <2>7. UnusedIds'
      BY <2>1, <2>2, <2>3 DEF UnusedIds, Unused, memVars, Ids
    <2>8. Unused(autoInc) /\ NoRowFor(autoInc)
      <3>1. Unused(autoInc)
        BY <2>1 DEF UnusedIds, Ids
      <3> QED
        BY <3>1 DEF Unused, NoRowFor, OneParentRow, RowsOK
    <2>9. autoInc' - 1 = autoInc
      BY <2>1 DEF Ids
    <2>10. PhaseOK'
      BY <2>1, <2>2, <2>3, <2>8, <2>9
      DEF PhaseOK, LastInsertId, NoRowFor, Unused, memVars
    <2> QED
      BY <2>4, <2>5, <2>6, <2>7, <2>10
  <1>2. CASE (Fails \/ Refused) /\ pc' = "add_rollback"
    <2>1. TablesShrink /\ UNCHANGED memVars
      BY <1>2, SessionStepShrinks DEF SessionStep, TypeOK, AddInsert
    <2>2. TypeOK'
      BY <1>2, <2>1 DEF AddInsert, TablesShrink, TypeOK, memVars, Phases
    <2>3. PhaseOK'
      BY <1>2, <2>1 DEF AddInsert, TablesShrink, PhaseOK, memVars
    <2> QED
      BY <2>1, <2>2, <2>3, QuietStepKeepsForest
  <1> QED
    BY <1>1, <1>2 DEF AddInsert

(* The new node enters the map, without children, and hangs nowhere or      *)
(* below the super root; it has no row yet.                                 *)
LEMMA AddLastIdKeepsTreeInv ==
  ASSUME TreeInv, AddLastId
  PROVE  TreeInv'
  <1> USE DEF TreeInv, Goto, Continue, localVars
  <1> DEFINE id == LastInsertId
  <1>1. CASE /\ Query
             /\ newId' = id /\ nodes' = nodes \cup {id}
             /\ IF call.parent = SuperRoot
                  THEN /\ children' = WithChild(SuperRoot, id)
                       /\ pc' = "add_commit"
                  ELSE /\ UNCHANGED children
                       /\ pc' = "add_relate"
             /\ UNCHANGED <<call, ret, exit, parentId>>
    <2>1. /\ id \in Ids /\ id \notin nodes /\ NoRowFor(id)
          /\ \A p \in Keys : id \notin children[p]
      BY DEF AddLastId, PhaseOK
    <2>2. /\ UNCHANGED dbVars /\ autoInc' = autoInc
          /\ stored' = stored /\ pending' = pending
      BY <1>1 DEF Query, dbVars
    <2>3. /\ children' \in [Keys -> SUBSET Ids]
          /\ \A p \in Keys : children'[p] =
               IF p = SuperRoot /\ call.parent = SuperRoot
                 THEN children[p] \cup {id}
                 ELSE children[p]
      <3>1. children \in [Keys -> SUBSET Ids] /\ SuperRoot \in Keys
        BY DEF TypeOK, Keys
      <3>2. CASE call.parent = SuperRoot
        <4>1. children' = [children EXCEPT ![SuperRoot] = @ \cup {id}]
          BY <1>1, <3>2 DEF WithChild
        <4> QED
          BY <2>1, <3>1, <3>2, <4>1
      <3>3. CASE call.parent # SuperRoot
        BY <1>1, <3>1, <3>3
      <3> QED
        BY <3>2, <3>3
    <2>4. TypeOK'
      BY <1>1, <2>1, <2>2, <2>3
      DEF TypeOK, MySQLTypeOK, dbVars, Phases, Keys
    <2>5. NoDangling'
      BY <1>1, <2>3 DEF NoDangling
    <2>6. UniqueParent'
      BY <2>1, <2>3 DEF UniqueParent
    <2>7. OneParentRow'
      BY <2>2 DEF OneParentRow
    <2>8. EdgesAgree'
      BY <2>1, <2>2, <2>3 DEF EdgesAgree, NoRowFor
    <2>9. UnusedIds'
      <3> SUFFICES ASSUME NEW i \in Ids, i >= autoInc
                   PROVE  Unused(i)'
        BY <2>2 DEF UnusedIds
      <3>1. Unused(i)
        BY DEF UnusedIds
      <3>2. i # id
        BY DEF LastInsertId, Ids, TypeOK, MySQLTypeOK
      <3> QED
        BY <1>1, <2>2, <2>3, <3>1, <3>2 DEF Unused
    <2>10. PhaseOK'
      BY <1>1, <2>1, <2>2, <2>3 DEF PhaseOK, NoRowFor, AddLastId
    <2> QED
      BY <2>4, <2>5, <2>6, <2>7, <2>8, <2>9, <2>10
  <1>2. CASE Fails /\ Return(-1) /\ UNCHANGED memVars
    <2>1. TablesShrink
      BY <1>2, SessionStepShrinks DEF SessionStep, TypeOK
    <2>2. TypeOK'
      BY <1>2, <2>1 DEF Return, TablesShrink, TypeOK, memVars, Phases
    <2>3. PhaseOK'
      BY <1>2 DEF Return, PhaseOK
    <2> QED
      BY <1>2, <2>1, <2>2, <2>3, QuietStepKeepsForest
  <1> QED
    BY <1>1, <1>2 DEF AddLastId

(* The row and the edge name the same parent.                               *)
LEMMA AddRelateKeepsTreeInv ==
  ASSUME TreeInv, AddRelate
  PROVE  TreeInv'
  <1> USE DEF TreeInv, Goto, Continue, localVars
  <1>1. /\ newId \in Ids /\ newId \in nodes /\ NoRowFor(newId)
        /\ \A p \in Keys : newId \notin children[p]
        /\ call \in AddCall
    BY DEF AddRelate, PhaseOK
  <1>2. CASE InsertRelationship(call.parent, newId)
             /\ IF call.parent \in nodes
                  THEN /\ children' = WithChild(call.parent, newId)
                       /\ pc' = "add_commit"
                  ELSE /\ UNCHANGED children
                       /\ pc' = "add_rollback"
    <2> DEFINE parent == call.parent
    <2>1. /\ pending \in Database /\ stored \in Database
          /\ parent \in Ids /\ CanRelate(pending, parent, newId)
      BY <1>2 DEF InsertRelationship, CanRelate, TypeOK, MySQLTypeOK, Database
    <2>2. /\ pending' \in Database /\ RowsOK(pending')
          /\ pending'.objects = pending.objects
          /\ pending'.rels = pending.rels \cup {<<parent, newId>>}
      BY <1>1, <1>2, <2>1, RelationshipInserted
      DEF InsertRelationship, Write, OneParentRow, NoRowFor
    <2>3. stored' = stored \/ stored' = pending'
      BY <1>2 DEF InsertRelationship, Write
    <2>4. UNCHANGED <<autoInc, autocommit, link, nodes, newId, parentId,
                      call, ret, exit>>
      BY <1>2 DEF InsertRelationship, Write, AddRelate
    <2>5. /\ children' \in [Keys -> SUBSET Ids]
          /\ \A p \in Keys : \/ children'[p] = children[p]
                             \/ p = parent /\ children'[p] = children[p] \cup {newId}
      BY <1>1, <1>2 DEF WithChild, TypeOK
    <2>6. TypeOK'
      BY <1>2, <2>2, <2>3, <2>4, <2>5 DEF TypeOK, MySQLTypeOK, Phases
    <2>7. NoDangling'
      BY <1>1, <2>4, <2>5 DEF NoDangling
    <2>8. UniqueParent'
      BY <1>1, <2>5 DEF UniqueParent
    <2>9. OneParentRow'
      BY <2>2, <2>3 DEF OneParentRow
    <2>10. EdgesAgree'
      <3> SUFFICES ASSUME NEW r \in stored'.rels \cup pending'.rels,
                          NEW q \in Keys, r[2] \in children'[q]
                   PROVE  q = r[1]
        BY DEF EdgesAgree
      <3>1. CASE r = <<parent, newId>>
        BY <1>1, <2>5, <3>1
      <3>2. CASE r \in stored.rels \cup pending.rels
        BY <1>1, <2>5, <3>2 DEF EdgesAgree, NoRowFor
      <3> QED
        BY <2>2, <2>3, <3>1, <3>2
    <2>11. UnusedIds'
      <3> SUFFICES ASSUME NEW i \in Ids, i >= autoInc
                   PROVE  Unused(i)'
        BY <2>4 DEF UnusedIds
      <3>1. Unused(i)
        BY DEF UnusedIds
      <3>2. i # newId
        BY <1>1, <3>1 DEF Unused
      <3> QED
        BY <2>2, <2>3, <2>4, <2>5, <3>1, <3>2 DEF Unused
    <2>12. PhaseOK'
      BY <1>1, <1>2, <2>4 DEF PhaseOK
    <2> QED
      BY <2>6, <2>7, <2>8, <2>9, <2>10, <2>11, <2>12
  <1>3. CASE (Fails \/ Refused) /\ UNCHANGED children /\ pc' = "add_rollback"
    <2>1. TablesShrink /\ UNCHANGED memVars
      BY <1>3, SessionStepShrinks DEF SessionStep, TypeOK, AddRelate, memVars
    <2>2. TypeOK'
      BY <1>3, <2>1 DEF AddRelate, TablesShrink, TypeOK, memVars, Phases
    <2>3. PhaseOK'
      BY <1>1, <1>3, <2>1 DEF AddRelate, PhaseOK
    <2> QED
      BY <2>1, <2>2, <2>3, QuietStepKeepsForest
  <1> QED
    BY <1>2, <1>3 DEF AddRelate

-----------------------------------------------------------------------------
(* removeNode: its call, its checks, and the statements around its work.    *)
LEMMA QuietRemoveKeepsTreeInv ==
  ASSUME TreeInv,
         \/ RemoveBegin \/ RemoveCommit \/ RemoveRollback \/ RemoveRestore
         \/ RemoveRelationships
         \/ \E id \in Args : CallRemoveNode(id)
  PROVE  TreeInv'
  <1>1. TablesShrink /\ UNCHANGED memVars
    BY SessionStepShrinks, DeleteShrinks
    DEF SessionStep, TreeInv, TypeOK, RemoveBegin, RemoveCommit,
        RemoveRollback, RemoveRestore, RemoveRelationships, CallRemoveNode,
        Refused
  <1>2. NoDangling' /\ UniqueParent' /\ OneParentRow' /\ EdgesAgree'
        /\ UnusedIds'
    BY <1>1, QuietStepKeepsForest
  <1> USE <1>1 DEF TreeInv, TypeOK, TablesShrink, memVars, Goto, Continue,
                   localVars, Return, PhaseOK
  <1>3. CASE RemoveBegin
    <2>1. TypeOK'
      BY <1>3 DEF RemoveBegin, Phases
    <2>2. PhaseOK'
      BY <1>3 DEF RemoveBegin, Removable
    <2> QED
      BY <1>2, <2>1, <2>2
  <1>4. CASE RemoveCommit \/ RemoveRestore
    <2>1. TypeOK'
      BY <1>4 DEF RemoveCommit, RemoveRestore, Phases
    <2>2. PhaseOK'
      BY <1>4 DEF RemoveCommit, RemoveRestore
    <2> QED
      BY <1>2, <2>1, <2>2
  <1>5. CASE RemoveRollback
    <2>1. TypeOK'
      BY <1>5 DEF RemoveRollback, Phases
    <2>2. PhaseOK'
      BY <1>5 DEF RemoveRollback
    <2> QED
      BY <1>2, <2>1, <2>2
  <1>6. CASE RemoveRelationships
    <2>1. TypeOK'
      BY <1>6 DEF RemoveRelationships, Phases
    <2>2. PhaseOK'
      BY <1>6 DEF RemoveRelationships, Unlinked
    <2> QED
      BY <1>2, <2>1, <2>2
  <1>7. ASSUME NEW id \in Args, CallRemoveNode(id)
        PROVE  TreeInv'
    <2>1. TypeOK'
      BY <1>7 DEF CallRemoveNode, RemoveCall, Phases
    <2>2. PhaseOK'
      BY <1>7 DEF CallRemoveNode, RemoveCall
    <2> QED
      BY <1>2, <2>1, <2>2
  <1> QED
    BY <1>3, <1>4, <1>5, <1>6, <1>7

(* The row says who the parent is; by EdgesAgree nobody else has the node   *)
(* as a child, so that after removeChild it hangs nowhere.                  *)
LEMMA RemoveSelectKeepsTreeInv ==
  ASSUME TreeInv, RemoveSelect
  PROVE  TreeInv'
  <1> USE DEF TreeInv, Goto, Continue, localVars
  <1>1. /\ TablesShrink /\ UNCHANGED nodes
        /\ stored' = stored /\ pending' = pending /\ UNCHANGED dbVars
    BY SessionStepShrinks
    DEF SessionStep, TypeOK, RemoveSelect, Query, Fails, memVars, dbVars
  <1>2. call \in RemoveCall /\ call.id \in Keys /\ children[call.id] = {}
    BY DEF RemoveSelect, PhaseOK
  <1>3. ASSUME NEW p \in ParentsOf(pending, call.id), p \in nodes,
               children' = WithoutChild(p, call.id), parentId' = p,
               pc' = "rm_relationships",
               UNCHANGED <<call, ret, exit, nodes, newId>>
        PROVE  TreeInv'
    <2>1. p \in Ids /\ <<p, call.id>> \in pending.rels /\ call.id \in Ids
      BY DEF ParentsOf, TypeOK, MySQLTypeOK, Database
    <2>2. /\ children' \in [Keys -> SUBSET Ids]
          /\ \A q \in Keys : children'[q] \subseteq children[q] \cap nodes'
          /\ call.id \notin children'[p]
      BY <1>1, <1>3, <2>1 DEF WithoutChild, TypeOK, Keys, NoDangling
    <2>3. NoDangling' /\ UniqueParent' /\ OneParentRow' /\ EdgesAgree'
          /\ UnusedIds'
      BY <1>1, <2>2, ForestShrinks
    <2>4. Unlinked(call.id)'
      <3>1. \A q \in Keys : call.id \in children[q] => q = p
        BY <2>1 DEF EdgesAgree
      <3> QED
        BY <1>2, <1>3, <2>2, <3>1 DEF Unlinked
    <2>5. TypeOK'
      BY <1>1, <1>3, <2>1, <2>2 DEF TypeOK, TablesShrink, Phases
    <2>6. PhaseOK'
      BY <1>2, <1>3, <2>1, <2>4 DEF PhaseOK
    <2> QED
      BY <2>3, <2>5, <2>6
  <1>4. CASE /\ UNCHANGED memVars
             /\ \/ Continue("rm_abort")
                \/ Return(0)
    <2>1. TypeOK'
      BY <1>1, <1>4 DEF TypeOK, TablesShrink, memVars, Return, Phases
    <2>2. PhaseOK'
      BY <1>1, <1>4 DEF PhaseOK, memVars, Return
    <2> QED
      BY <1>1, <1>4, <2>1, <2>2, QuietStepKeepsForest
  <1> QED
    BY <1>3, <1>4 DEF RemoveSelect, memVars

(* The node leaves the map, and no child pointer to it is left.             *)
LEMMA RemoveObjectKeepsTreeInv ==
  ASSUME TreeInv, RemoveObject
  PROVE  TreeInv'
  <1> USE DEF TreeInv, Goto, Continue, localVars
  <1>1. /\ call \in RemoveCall /\ call.id \in Ids /\ call.id \in Keys
        /\ Unlinked(call.id)
    BY DEF RemoveObject, PhaseOK, Keys
  <1>2. CASE /\ DeleteObject(call.id)
             /\ nodes' = nodes \ {call.id}
             /\ children' = [children EXCEPT ![call.id] = {}]
             /\ pc' = "rm_commit"
    <2>1. TablesShrink
      BY <1>2, DeleteShrinks DEF TypeOK
    <2>2. /\ children' \in [Keys -> SUBSET Ids]
          /\ \A p \in Keys : children'[p] = children[p]
      BY <1>1, <1>2 DEF TypeOK, Unlinked
    <2>3. \A p \in Keys : children'[p] \subseteq children[p] \cap nodes'
      BY <1>1, <1>2, <2>2 DEF Unlinked, NoDangling
    <2>4. NoDangling' /\ UniqueParent' /\ OneParentRow' /\ EdgesAgree'
          /\ UnusedIds'
      BY <1>2, <2>1, <2>2, <2>3, ForestShrinks
    <2>5. TypeOK'
      BY <1>2, <2>1, <2>2 DEF RemoveObject, TablesShrink, TypeOK, Phases
    <2>6. PhaseOK'
      BY <1>2 DEF PhaseOK
    <2> QED
      BY <2>4, <2>5, <2>6
  <1>3. CASE Fails /\ pc' = "rm_rollback" /\ UNCHANGED memVars
    <2>1. TablesShrink
      BY <1>3, SessionStepShrinks DEF SessionStep, TypeOK
    <2>2. TypeOK'
      BY <1>3, <2>1 DEF RemoveObject, TablesShrink, TypeOK, memVars, Phases
    <2>3. PhaseOK'
      BY <1>3, <2>1 DEF RemoveObject, PhaseOK
    <2> QED
      BY <1>3, <2>1, <2>2, <2>3, QuietStepKeepsForest
  <1> QED
    BY <1>2, <1>3 DEF RemoveObject

(* The server rolls the open transaction back; memory does not know.        *)
LEMMA ConnectionLostKeepsTreeInv ==
  ASSUME TreeInv, ConnectionLost
  PROVE  TreeInv'
  <1> USE DEF TreeInv, ConnectionLost, localVars
  <1>1. TablesShrink /\ UNCHANGED memVars
    BY SessionStepShrinks DEF SessionStep, TypeOK
  <1>2. TypeOK'
    BY <1>1 DEF TablesShrink, TypeOK, memVars
  <1>3. PhaseOK'
    BY <1>1
    DEF PhaseOK, TablesShrink, memVars, LoseConnection, NoRowFor, Unlinked,
        LastInsertId
  <1> QED
    BY <1>1, <1>2, <1>3, QuietStepKeepsForest

(* A step that changes nothing.                                             *)
LEMMA StutterKeepsTreeInv ==
  ASSUME TreeInv, UNCHANGED vars
  PROVE  TreeInv'
  <1> USE DEF vars, dbVars, memVars, localVars, TreeInv
  <1>1. TypeOK' /\ NoDangling' /\ UniqueParent' /\ OneParentRow'
    BY DEF TypeOK, MySQLTypeOK, NoDangling, UniqueParent, OneParentRow
  <1>2. EdgesAgree' /\ UnusedIds'
    BY DEF EdgesAgree, UnusedIds, Unused
  <1>3. PhaseOK'
    BY DEF PhaseOK, LastInsertId, NoRowFor, Unlinked
  <1> QED
    BY <1>1, <1>2, <1>3

-----------------------------------------------------------------------------
(* One case for each disjunct of Next.                                      *)
LEMMA NextKeepsTreeInv == TreeInv /\ [Next]_vars => TreeInv'
  <1> SUFFICES ASSUME TreeInv, [Next]_vars PROVE TreeInv'
    OBVIOUS
  <1>1. CASE Start \/ StartFails \/ LoadFails \/ Crash \/ Stop
    BY <1>1, ResetKeepsTreeInv DEF StartFails, LoadFails, Crash, Stop, Exits
  <1>2. CASE LoadObjects \/ LoadRelationships
    BY <1>2, LoadObjectsKeepsTreeInv, LoadRelationshipsKeepsTreeInv
  <1>3. CASE AddStep
    BY <1>3, QuietAddKeepsTreeInv, AddInsertKeepsTreeInv,
       AddLastIdKeepsTreeInv, AddRelateKeepsTreeInv
    DEF AddStep
  <1>4. CASE RemoveStep
    BY <1>4, QuietRemoveKeepsTreeInv, RemoveSelectKeepsTreeInv,
       RemoveObjectKeepsTreeInv
    DEF RemoveStep
  <1>5. CASE Call
    BY <1>5, QuietAddKeepsTreeInv, QuietRemoveKeepsTreeInv DEF Call
  <1>6. CASE ConnectionLost
    BY <1>6, ConnectionLostKeepsTreeInv
  <1>7. CASE UNCHANGED vars
    BY <1>7, StutterKeepsTreeInv
  <1> QED
    BY <1>1, <1>2, <1>3, <1>4, <1>5, <1>6, <1>7 DEF Next, Work, LoadStep

(* The inductive invariant holds in every reachable state.                  *)
THEOREM InvariantHolds == Spec => []TreeInv
  <1>1. Init => TreeInv
    BY InitTreeInv
  <1>2. TreeInv /\ [Next]_vars => TreeInv'
    BY NextKeepsTreeInv
  <1> QED
    BY <1>1, <1>2, PTL DEF Spec

(* Every variable keeps its type: in particular no id of the program leaves *)
(* the range of the ids that the database has given.                        *)
THEOREM TypeCorrect == Spec => []TypeOK
  <1>1. TreeInv => TypeOK
    BY DEF TreeInv
  <1> QED
    BY <1>1, InvariantHolds, PTL

(* validate_tree always answers "tree good": no child pointer ever expires. *)
THEOREM NeverDangling == Spec => []NoDangling
  <1>1. TreeInv => NoDangling
    BY DEF TreeInv
  <1> QED
    BY <1>1, InvariantHolds, PTL

(* A node is the child of one node at most, whatever is added, removed,     *)
(* lost and loaded again.                                                   *)
THEOREM NeverTwoParents == Spec => []UniqueParent
  <1>1. TreeInv => UniqueParent
    BY DEF TreeInv
  <1> QED
    BY <1>1, InvariantHolds, PTL

(* The program never writes a second parent row for an object, which the    *)
(* schema would accept.                                                     *)
THEOREM RowsStayWellFormed == Spec => []OneParentRow
  <1>1. TreeInv => OneParentRow
    BY DEF TreeInv
  <1> QED
    BY <1>1, InvariantHolds, PTL

(* The tree and the tables never name two different parents of a node.      *)
THEOREM TreeAgreesWithTables == Spec => []EdgesAgree
  <1>1. TreeInv => EdgesAgree
    BY DEF TreeInv
  <1> QED
    BY <1>1, InvariantHolds, PTL

-----------------------------------------------------------------------------
(* The transactions.                                                        *)

NoStatementFails == "statement" \notin Faults

(* A statement fails because the session is gone, and then nothing is open. *)
LEMMA FailureIsLoss ==
  ASSUME NoStatementFails, TransactionInv, Fails
  PROVE  /\ link # "open" /\ link' # "open"
         /\ pending = stored /\ pending' = stored'
  BY DEF NoStatementFails, TransactionInv, Fails, dbVars

-----------------------------------------------------------------------------
(* A new process sees what is committed; one that ends leaves nothing open. *)
LEMMA ResetKeepsTransactionInv ==
  ASSUME TreeInv, Start \/ \E cause \in Exits : Die(cause)
  PROVE  TransactionInv'
  BY DEF Start, Die, Connect, Disconnect, Goto, TransactionInv,
         SessionPhaseOK, OpenPhases, WritePhases, RemovalPhases

(* The constructor links every row that it reads.                           *)
LEMMA LoadKeepsTransactionInv ==
  ASSUME TreeInv, TransactionInv, LoadObjects \/ LoadRelationships
  PROVE  TransactionInv'
  <1> USE DEF Query, dbVars, Goto, Continue, OpenPhases, WritePhases,
              RemovalPhases
  <1>1. CASE LoadObjects
    BY <1>1 DEF LoadObjects, TransactionInv, SessionPhaseOK
  <1>2. CASE LoadRelationships
    <2>1. pending = stored /\ pending.objects \subseteq nodes
      BY <1>2 DEF LoadRelationships, TreeInv, PhaseOK
    <2>2. LinkedRows(pending) = pending.rels
      BY <2>1 DEF LinkedRows, TreeInv, OneParentRow, RowsOK
    <2>3. \A r \in pending.rels :
            r[1] \in Ids /\ r[2] \in Ids /\ r = <<r[1], r[2]>>
      BY DEF TreeInv, TypeOK, MySQLTypeOK, Database
    <2>4. Linked(stored)'
      BY <1>2, <2>1, <2>2, <2>3
      DEF LoadRelationships, Linked, TreeOf, Keys, Ids, SuperRoot
    <2> QED
      BY <1>2, <2>1, <2>4 DEF LoadRelationships, TransactionInv, SessionPhaseOK
  <1> QED
    BY <1>1, <1>2

-----------------------------------------------------------------------------
(* addNode: its call, the statements that only touch the session, and the   *)
(* COMMIT and ROLLBACK that end its transaction.                            *)
LEMMA QuietAddKeepsTransactionInv ==
  ASSUME TransactionInv,
         \/ AddBegin \/ AddRollback \/ AddCommit
         \/ \E name \in Names, parent \in Args : CallAddNode(name, parent)
  PROVE  TransactionInv'
  <1> USE DEF TransactionInv, SessionPhaseOK, Linked, OpenPhases, WritePhases,
              RemovalPhases, OnOpenSession, memVars, Goto, Continue, Return
  <1>1. CASE AddBegin
    BY <1>1 DEF AddBegin, AutocommitOff, dbVars
  <1>2. CASE AddRollback
    BY <1>2 DEF AddRollback, Rollback, dbVars
  <1>3. CASE AddCommit
    BY <1>3 DEF AddCommit, AutocommitOn, dbVars
  <1>4. CASE \E name \in Names, parent \in Args : CallAddNode(name, parent)
    BY <1>4 DEF CallAddNode, dbVars
  <1> QED
    BY <1>1, <1>2, <1>3, <1>4

(* The statements of the transaction of addNode.  Until the row is written  *)
(* the transaction holds no new row; then parent and row come together.     *)
LEMMA AddKeepsTransactionInv ==
  ASSUME NoStatementFails, TreeInv, TransactionInv,
         AddInsert \/ AddLastId \/ AddRelate
  PROVE  TransactionInv'
  <1> USE DEF OpenPhases, WritePhases, RemovalPhases, Goto, Continue, Return
  <1>0. children \in [Keys -> SUBSET Ids] /\ SuperRoot \in Keys
    BY DEF TreeInv, TypeOK, Keys
  <1>1. CASE AddInsert
    <2>1. CASE InsertObject /\ pc' = "add_lastid"
      BY <1>1, <2>1
      DEF AddInsert, InsertObject, Write, WithObject, TransactionInv,
          SessionPhaseOK, Linked, memVars, TreeInv, TypeOK, MySQLTypeOK,
          Database
    <2>2. CASE (Fails \/ Refused) /\ pc' = "add_rollback"
      BY <1>1, <2>2
      DEF AddInsert, Fails, Refused, TransactionInv, SessionPhaseOK, Linked,
          memVars, dbVars
    <2> QED
      BY <1>1, <2>1, <2>2 DEF AddInsert
  <1>2. CASE AddLastId
    <2>1. CASE Fails
      BY <1>2, <2>1, FailureIsLoss DEF TransactionInv
    <2>2. CASE /\ Query /\ link = "open"
               /\ IF call.parent = SuperRoot
                    THEN /\ children' = WithChild(SuperRoot, LastInsertId)
                         /\ pc' = "add_commit"
                    ELSE /\ UNCHANGED children
                         /\ pc' = "add_relate"
      <3>1. \A p \in Keys : children[p] \subseteq children'[p]
        BY <1>0, <2>2 DEF WithChild
      <3>2. \A r \in stored.rels : r[1] \in Keys
        BY DEF TreeInv, TypeOK, MySQLTypeOK, Database, Keys
      <3>3. /\ ~autocommit /\ Linked(stored) /\ pending.rels = stored.rels
            /\ stored.objects \subseteq pending.objects
        BY <1>2, <2>2 DEF AddLastId, TransactionInv, SessionPhaseOK
      <3>4. UNCHANGED dbVars
        BY <2>2 DEF Query
      <3> QED
        BY <2>2, <3>1, <3>2, <3>3, <3>4
        DEF dbVars, Linked, TransactionInv, SessionPhaseOK
    <2> QED
      BY <1>2, <2>1, <2>2 DEF AddLastId, Query
  <1>3. CASE AddRelate
    <2>1. CASE InsertRelationship(call.parent, newId)
      <3> USE <1>3, <2>1 DEF AddRelate, InsertRelationship, Write
      <3>1. /\ ~autocommit /\ Linked(stored) /\ pending.rels = stored.rels
            /\ stored.objects \subseteq pending.objects
        BY DEF TransactionInv, SessionPhaseOK
      <3>2. /\ stored' = stored /\ UNCHANGED <<autocommit, link>>
            /\ pending'.objects = pending.objects
            /\ pending'.rels = stored.rels \cup {<<call.parent, newId>>}
        BY <3>1
        DEF WithRelationship, TreeInv, TypeOK, MySQLTypeOK, Database
      <3>3. CASE call.parent \in nodes
        <4>1. /\ children' = WithChild(call.parent, newId)
              /\ pc' = "add_commit"
          BY <3>3 DEF CanRelate, Fails, Refused, dbVars, WithRelationship,
                      TreeInv, TypeOK, MySQLTypeOK, Database
        <4>2. \A p \in Keys : children[p] \subseteq children'[p]
          BY <1>0, <4>1 DEF WithChild
        <4>3. newId \in children'[call.parent]
          BY <1>0, <3>3, <4>1 DEF WithChild, TreeInv, TypeOK
        <4>4. \A r \in stored.rels : r[1] \in Keys
          BY DEF TreeInv, TypeOK, MySQLTypeOK, Database, Keys
        <4> QED
          BY <3>1, <3>2, <4>1, <4>2, <4>3, <4>4
          DEF Linked, TransactionInv, SessionPhaseOK
      <3>4. CASE call.parent \notin nodes
        BY <3>1, <3>2, <3>4 DEF Linked, TransactionInv, SessionPhaseOK
      <3> QED
        BY <3>3, <3>4
    <2>2. CASE (Fails \/ Refused) /\ UNCHANGED children /\ pc' = "add_rollback"
      BY <1>3, <2>2
      DEF AddRelate, Fails, Refused, TransactionInv, SessionPhaseOK, Linked,
          dbVars
    <2> QED
      BY <1>3, <2>1, <2>2 DEF AddRelate
  <1> QED
    BY <1>1, <1>2, <1>3

-----------------------------------------------------------------------------
(* removeNode: its call, its checks, and the statements around its work.    *)
LEMMA QuietRemoveKeepsTransactionInv ==
  ASSUME NoStatementFails, TransactionInv,
         \/ RemoveBegin \/ RemoveCommit \/ RemoveRollback \/ RemoveRestore
         \/ \E id \in Args : CallRemoveNode(id)
  PROVE  TransactionInv'
  <1> USE DEF TransactionInv, SessionPhaseOK, Linked, OpenPhases, WritePhases,
              RemovalPhases, OnOpenSession, memVars, Goto, Continue, Return
  <1>1. CASE RemoveBegin
    BY <1>1 DEF RemoveBegin, AutocommitOff, dbVars
  <1>2. CASE RemoveCommit
    BY <1>2 DEF RemoveCommit, Commit, dbVars
  <1>3. CASE RemoveRollback
    BY <1>3 DEF RemoveRollback, Rollback, dbVars
  <1>4. CASE RemoveRestore
    BY <1>4 DEF RemoveRestore, AutocommitOn, dbVars
  <1>5. CASE \E id \in Args : CallRemoveNode(id)
    BY <1>5 DEF CallRemoveNode, dbVars
  <1> QED
    BY <1>1, <1>2, <1>3, <1>4, <1>5

(* A node without children in memory has no row as a parent: what is        *)
(* committed is linked.                                                     *)
LEMMA RemoveSelectKeepsTransactionInv ==
  ASSUME NoStatementFails, TreeInv, TransactionInv, RemoveSelect
  PROVE  TransactionInv'
  <1> USE DEF OpenPhases, WritePhases, RemovalPhases, Goto, Continue, Return
  <1>1. CASE Fails
    BY <1>1, FailureIsLoss DEF TransactionInv
  <1>2. ASSUME Query, NEW p \in ParentsOf(pending, call.id), p \in nodes,
               children' = WithoutChild(p, call.id), parentId' = p,
               pc' = "rm_relationships", UNCHANGED call
        PROVE  TransactionInv'
    <2>1. UNCHANGED dbVars /\ pending = stored /\ ~autocommit /\ Linked(stored)
      BY <1>2
      DEF Query, dbVars, RemoveSelect, TransactionInv, SessionPhaseOK
    <2>2. /\ call \in RemoveCall /\ call.id \in Keys /\ children[call.id] = {}
          /\ p \in Ids /\ <<p, call.id>> \in stored.rels /\ call.id \in Ids
      BY <2>1
      DEF RemoveSelect, TreeInv, PhaseOK, ParentsOf, TypeOK, MySQLTypeOK,
          Database
    <2>3. \A q \in Keys : children'[q] =
            IF q = p THEN (children[q] \cap nodes) \ {call.id} ELSE children[q]
      BY <1>2 DEF WithoutChild, TreeInv, TypeOK
    <2>4. \A r \in stored.rels : r[1] \in Keys /\ r[2] \in children[r[1]]
      BY <2>1 DEF Linked, TreeInv, TypeOK, MySQLTypeOK, Database, Keys
    <2>5. \A r \in stored.rels : r[1] # call.id
      BY <2>2, <2>4
    <2>6. \A r \in stored.rels : r[2] = call.id \/ r[2] \in children'[r[1]]
      BY <2>3, <2>4 DEF TreeInv, NoDangling
    <2>7. children'[call.id] = {}
      BY <2>2, <2>3
    <2> QED
      BY <1>2, <2>1, <2>2, <2>5, <2>6, <2>7
      DEF dbVars, TransactionInv, SessionPhaseOK
  <1>3. CASE Query /\ pc' \in {"rm_abort", "serving"} /\ UNCHANGED children
    BY <1>3
    DEF Query, dbVars, RemoveSelect, TransactionInv, SessionPhaseOK, Linked
  <1> QED
    BY <1>1, <1>2, <1>3 DEF RemoveSelect, memVars

(* The rows that the first DELETE leaves have other parents, so that the    *)
(* edge taken away in memory is not one of theirs.                          *)
LEMMA RemoveRelationshipsKeepsTransactionInv ==
  ASSUME NoStatementFails, TreeInv, TransactionInv, RemoveRelationships
  PROVE  TransactionInv'
  <1> USE DEF OpenPhases, WritePhases, RemovalPhases, Goto, Continue
  <1>1. CASE Fails
    BY <1>1, FailureIsLoss DEF TransactionInv
  <1>2. CASE DeleteRelationshipsOf(parentId) /\ pc' = "rm_object"
    <2> USE <1>2 DEF RemoveRelationships, DeleteRelationshipsOf, Write
    <2>1. pending = stored /\ ~autocommit /\ link = "open"
          /\ SessionPhaseOK
      BY DEF TransactionInv, SessionPhaseOK
    <2>2. /\ stored' = stored /\ UNCHANGED <<autocommit, link, call, children>>
          /\ pending'.objects = stored.objects
          /\ pending'.rels = {r \in stored.rels : r[1] # parentId}
      BY <2>1
      DEF WithoutChildrenOf, TreeInv, TypeOK, MySQLTypeOK, Database, memVars,
          localVars, Continue
    <2>3. /\ <<parentId, call.id>> \in stored.rels
          /\ \A r \in stored.rels :
               r[1] # call.id /\ (r[2] = call.id \/ r[2] \in children[r[1]])
      BY <2>1 DEF SessionPhaseOK
    <2>4. \A r \in stored.rels : r[2] = call.id => r[1] = parentId
      BY <2>3 DEF TreeInv, OneParentRow, RowsOK
    <2>5. Linked(pending)'
      BY <2>2, <2>3, <2>4 DEF Linked
    <2> QED
      BY <2>1, <2>2, <2>3, <2>5 DEF TransactionInv, SessionPhaseOK
  <1> QED
    BY <1>1, <1>2 DEF RemoveRelationships

(* The object leaves the tables and the map, with no edge of another row.   *)
LEMMA RemoveObjectKeepsTransactionInv ==
  ASSUME NoStatementFails, TreeInv, TransactionInv, RemoveObject
  PROVE  TransactionInv'
  <1> USE DEF OpenPhases, WritePhases, RemovalPhases, Goto, Continue
  <1>1. CASE Fails
    BY <1>1, FailureIsLoss DEF TransactionInv
  <1>2. CASE /\ DeleteObject(call.id)
             /\ children' = [children EXCEPT ![call.id] = {}]
             /\ pc' = "rm_commit" /\ UNCHANGED call
    <2> USE <1>2 DEF RemoveObject, DeleteObject, Write
    <2>1. ~autocommit /\ link = "open" /\ SessionPhaseOK
      BY DEF TransactionInv, SessionPhaseOK
    <2>2. /\ stored' = stored /\ UNCHANGED <<autocommit, link>>
          /\ pending'.objects = pending.objects \ {call.id}
          /\ pending'.rels = {r \in pending.rels : call.id \notin {r[1], r[2]}}
      BY <2>1 DEF WithoutObject, TreeInv, TypeOK, MySQLTypeOK, Database
    <2>3. children' = children
      BY <2>1 DEF SessionPhaseOK, TreeInv, TypeOK, Keys
    <2> QED
      BY <2>1, <2>2, <2>3 DEF Linked, TransactionInv, SessionPhaseOK
  <1> QED
    BY <1>1, <1>2 DEF RemoveObject, localVars

-----------------------------------------------------------------------------
(* One case for each disjunct of Next.                                      *)
LEMMA NextKeepsTransactionInv ==
  ASSUME NoStatementFails
  PROVE  TreeInv /\ TransactionInv /\ [Next]_vars => TransactionInv'
  <1> SUFFICES ASSUME TreeInv, TransactionInv, [Next]_vars
               PROVE  TransactionInv'
    OBVIOUS
  <1>1. CASE Start \/ StartFails \/ LoadFails \/ Crash \/ Stop
    BY <1>1, ResetKeepsTransactionInv
    DEF StartFails, LoadFails, Crash, Stop, Exits
  <1>2. CASE LoadObjects \/ LoadRelationships
    BY <1>2, LoadKeepsTransactionInv
  <1>3. CASE AddStep
    BY <1>3, QuietAddKeepsTransactionInv, AddKeepsTransactionInv DEF AddStep
  <1>4. CASE RemoveStep
    BY <1>4, QuietRemoveKeepsTransactionInv, RemoveSelectKeepsTransactionInv,
       RemoveRelationshipsKeepsTransactionInv, RemoveObjectKeepsTransactionInv
    DEF RemoveStep
  <1>5. CASE Call
    BY <1>5, QuietAddKeepsTransactionInv, QuietRemoveKeepsTransactionInv
    DEF Call
  <1>6. CASE ConnectionLost
    BY <1>6 DEF ConnectionLost, LoseConnection, TransactionInv
  <1>7. CASE UNCHANGED vars
    BY <1>7
    DEF vars, dbVars, memVars, localVars, TransactionInv, SessionPhaseOK,
        Linked, OpenPhases, WritePhases, RemovalPhases
  <1> QED
    BY <1>1, <1>2, <1>3, <1>4, <1>5, <1>6, <1>7 DEF Next, Work, LoadStep

(* When no statement fails on a healthy session, the transaction of a call  *)
(* never outlives it and never holds a child without its parent.            *)
THEOREM TransactionsHold ==
  ASSUME NoStatementFails
  PROVE  Spec => []TransactionInv
  <1>1. Init => TransactionInv
    BY DEF Init, TransactionInv
  <1>2. TreeInv /\ TransactionInv /\ [Next]_vars => TransactionInv'
    BY NextKeepsTransactionInv
  <1> QED
    BY <1>1, <1>2, InvariantHolds, PTL DEF Spec

(* Between two calls there is nothing to lose.                              *)
THEOREM NothingLeftOpen ==
  ASSUME NoStatementFails
  PROVE  Spec => []NoOpenTransaction
  <1>1. TransactionInv => NoOpenTransaction
    BY DEF TransactionInv, NoOpenTransaction, Serving, OpenPhases
  <1> QED
    BY <1>1, TransactionsHold, PTL

(* No step commits the removal of an object that has children, in the       *)
(* tables or in memory, though the DELETE of its relationships names its    *)
(* parent.                                                                  *)
THEOREM NothingOrphaned ==
  ASSUME NoStatementFails
  PROVE  Spec => RemovalOrphansNothing
  <1> DEFINE Safe ==
        \A id \in stored.objects \ stored'.objects :
          /\ children[id] = {}
          /\ \A r \in stored.rels : r[1] # id
  <1>1. TreeInv /\ TransactionInv /\ [Next]_vars => [Safe]_vars
    <2> SUFFICES ASSUME TreeInv, TransactionInv, Next PROVE Safe
      OBVIOUS
    <2> USE DEF OpenPhases, WritePhases, RemovalPhases
    <2>1. CASE stored' = stored
      BY <2>1
    <2>2. CASE RemoveCommit /\ link = "open"
      BY <2>2 DEF RemoveCommit, Commit, OnOpenSession, TransactionInv,
                  SessionPhaseOK
    <2>3. CASE (AddCommit \/ RemoveRestore) /\ link = "open"
      BY <2>3 DEF AddCommit, RemoveRestore, AutocommitOn, OnOpenSession,
                  TransactionInv, SessionPhaseOK
    <2>4. CASE AddInsert \/ AddRelate \/ RemoveRelationships \/ RemoveObject
      <3>1. link = "open" => ~autocommit
        BY <2>4 DEF AddInsert, AddRelate, RemoveRelationships, RemoveObject,
                    TransactionInv, SessionPhaseOK
      <3>2. stored' = stored
        BY <2>4, <3>1
        DEF AddInsert, AddRelate, RemoveRelationships, RemoveObject,
            InsertObject, InsertRelationship, DeleteRelationshipsOf,
            DeleteObject, Write, Fails, Refused, dbVars
      <3> QED
        BY <2>1, <3>2
    <2>5. CASE ~(RemoveCommit \/ AddCommit \/ RemoveRestore) \/ link # "open"
      <3>1. CASE Start \/ StartFails \/ LoadFails \/ Crash \/ Stop
        BY <2>1, <3>1 DEF Start, StartFails, LoadFails, Crash, Stop, Die,
                          Connect, Disconnect
      <3>2. CASE LoadObjects \/ LoadRelationships \/ Call \/ ConnectionLost
        BY <2>1, <3>2 DEF LoadObjects, LoadRelationships, Query, dbVars, Call,
                          CallAddNode, CallRemoveNode, ConnectionLost,
                          LoseConnection
      <3>3. CASE AddBegin \/ AddRollback \/ AddLastId \/ AddCommit
        BY <2>1, <2>5, <3>3
        DEF AddBegin, AddRollback, AddLastId, AddCommit, AutocommitOff,
            Rollback, Query, Fails, AutocommitOn, OnOpenSession, dbVars
      <3>4. CASE \/ RemoveBegin \/ RemoveSelect \/ RemoveCommit
                 \/ RemoveRollback \/ RemoveRestore
        BY <2>1, <2>5, <3>4
        DEF RemoveBegin, RemoveSelect, RemoveCommit, RemoveRollback,
            RemoveRestore, AutocommitOff, Rollback, Query, Fails, Commit,
            AutocommitOn, OnOpenSession, dbVars
      <3> QED
        BY <2>4, <3>1, <3>2, <3>3, <3>4
        DEF Next, Work, LoadStep, AddStep, RemoveStep
    <2> QED
      BY <2>2, <2>3, <2>5
  <1> QED
    BY <1>1, InvariantHolds, TransactionsHold, PTL DEF RemovalOrphansNothing, Spec


-----------------------------------------------------------------------------
(* TransactionShape is inductive on top of TreeInv and TransactionInv.      *)

LEMMA AddKeepsShape ==
  ASSUME NoStatementFails, TreeInv, TransactionInv, TransactionShape, AddStep
  PROVE  TransactionShape'
  <1> USE DEF Goto, Continue, Return, memVars, dbVars, TransactionShape,
              OpenPhases, WritePhases
  <1>1. CASE AddBegin \/ AddRollback \/ AddCommit
    BY <1>1 DEF AddBegin, AddRollback, AddCommit
  <1>2. CASE AddInsert
    <2>1. CASE InsertObject /\ pc' = "add_lastid"
      <3>1. link = "open" /\ ~autocommit /\ pending = stored
        BY <1>2, <2>1 DEF AddInsert, InsertObject, Write, TransactionInv,
                          SessionPhaseOK
      <3>2. /\ stored' = stored
            /\ pending'.objects = stored.objects \cup {autoInc}
        BY <2>1, <3>1 DEF InsertObject, Write, WithObject, TreeInv, TypeOK,
                          MySQLTypeOK, Database
      <3>3. LastInsertId' = autoInc
        BY <2>1 DEF InsertObject, LastInsertId, TreeInv, TypeOK, MySQLTypeOK
      <3>4. autoInc \notin stored.objects
        BY <1>2 DEF AddInsert, TreeInv, PhaseOK, UnusedIds, Unused, Ids
      <3> QED
        BY <2>1, <3>2, <3>3, <3>4 DEF OneObjectMore
    <2>2. CASE pc' = "add_rollback"
      BY <2>2
    <2> QED
      BY <1>2, <2>1, <2>2 DEF AddInsert
  <1>3. CASE AddLastId
    <2>1. CASE pc' = "serving"
      BY <2>1
    <2>2. CASE /\ Query /\ newId' = LastInsertId
               /\ pc' \in {"add_commit", "add_relate"}
      <3>1. pending.rels = stored.rels /\ OneObjectMore(LastInsertId)
        BY <1>3, <2>2 DEF AddLastId, Query, TransactionInv, SessionPhaseOK
      <3> QED
        BY <2>2, <3>1 DEF Query, OneObjectMore
    <2> QED
      BY <1>3, <2>1, <2>2 DEF AddLastId
  <1>4. CASE AddRelate
    <2>1. CASE pc' = "add_rollback"
      BY <2>1
    <2>2. CASE /\ InsertRelationship(call.parent, newId)
               /\ pc' = "add_commit" /\ UNCHANGED localVars
      <3>1. /\ link = "open" /\ ~autocommit /\ pending.rels = stored.rels
            /\ OneObjectMore(newId)
        BY <1>4, <2>2 DEF AddRelate, InsertRelationship, Write, TransactionInv,
                          SessionPhaseOK
      <3>2. /\ stored' = stored
            /\ pending'.objects = pending.objects
            /\ pending'.rels = stored.rels \cup {<<call.parent, newId>>}
            /\ call.parent \in pending.objects
        BY <2>2, <3>1 DEF InsertRelationship, CanRelate, Write,
                          WithRelationship, TreeInv, TypeOK, MySQLTypeOK, Database
      <3> QED
        BY <2>2, <3>1, <3>2 DEF OneObjectMore, localVars
    <2> QED
      BY <1>4, <2>1, <2>2 DEF AddRelate
  <1> QED
    BY <1>1, <1>2, <1>3, <1>4 DEF AddStep

LEMMA RemoveKeepsShape ==
  ASSUME NoStatementFails, TreeInv, TransactionInv, TransactionShape, RemoveStep
  PROVE  TransactionShape'
  <1> USE DEF Goto, Continue, Return, memVars, dbVars, TransactionShape,
              OpenPhases, WritePhases, RemovalPhases
  <1>1. CASE RemoveBegin \/ RemoveSelect \/ RemoveCommit \/ RemoveRollback
             \/ RemoveRestore
    BY <1>1 DEF RemoveBegin, RemoveSelect, RemoveCommit, RemoveRollback,
                RemoveRestore
  <1>2. CASE RemoveRelationships
    <2>1. CASE pc' = "rm_rollback"
      BY <2>1
    <2>2. CASE DeleteRelationshipsOf(parentId) /\ pc' = "rm_object"
      <3>1. /\ link = "open" /\ ~autocommit /\ pending = stored
            /\ <<parentId, call.id>> \in stored.rels
        BY <1>2, <2>2 DEF RemoveRelationships, DeleteRelationshipsOf, Write,
                          TransactionInv, SessionPhaseOK
      <3>2. /\ stored' = stored
            /\ pending'.objects = stored.objects
            /\ pending'.rels = {r \in stored.rels : r[1] # parentId}
        BY <2>2, <3>1 DEF DeleteRelationshipsOf, Write, WithoutChildrenOf,
                          TreeInv, TypeOK, MySQLTypeOK, Database
      <3> QED
        BY <1>2, <2>2, <3>1, <3>2
        DEF RemoveRelationships, OneFamilyLess, localVars
    <2> QED
      BY <1>2, <2>1, <2>2 DEF RemoveRelationships
  <1>3. CASE RemoveObject
    <2>1. CASE pc' = "rm_rollback"
      BY <2>1
    <2>2. CASE DeleteObject(call.id) /\ pc' = "rm_commit"
      <3>1. /\ link = "open" /\ ~autocommit /\ pending.objects = stored.objects
            /\ OneFamilyLess(parentId)
            /\ \A r \in stored.rels : r[1] # call.id
        BY <1>3, <2>2 DEF RemoveObject, DeleteObject, Write, TransactionInv,
                          SessionPhaseOK
      <3>2. \A r \in stored.rels : r[2] = call.id => r[1] = parentId
        BY <3>1 DEF OneFamilyLess, TreeInv, OneParentRow, RowsOK
      <3>3. /\ stored' = stored
            /\ pending'.objects = stored.objects \ {call.id}
            /\ pending'.rels = {r \in pending.rels : call.id \notin {r[1], r[2]}}
        BY <2>2, <3>1 DEF DeleteObject, Write, WithoutObject
      <3>4. pending'.rels = {r \in stored.rels : r[1] # parentId}
        BY <3>1, <3>2, <3>3 DEF OneFamilyLess
      <3> QED
        BY <1>3, <2>2, <3>1, <3>3, <3>4
        DEF RemoveObject, OneFamilyLess, localVars
    <2> QED
      BY <1>3, <2>1, <2>2 DEF RemoveObject
  <1> QED
    BY <1>1, <1>2, <1>3 DEF RemoveStep

LEMMA NextKeepsShape ==
  ASSUME NoStatementFails
  PROVE  TreeInv /\ TransactionInv /\ TransactionShape /\ [Next]_vars =>
           TransactionShape'
  <1> SUFFICES ASSUME TreeInv, TransactionInv, TransactionShape, [Next]_vars
               PROVE  TransactionShape'
    OBVIOUS
  <1>1. CASE Start \/ StartFails \/ LoadFails \/ Crash \/ Stop \/ LoadObjects
             \/ LoadRelationships \/ Call
    BY <1>1 DEF Start, StartFails, LoadFails, Crash, Stop, LoadObjects,
                LoadRelationships, Call, CallAddNode, CallRemoveNode, Die, Goto,
                Continue, TransactionShape
  <1>2. CASE AddStep
    BY <1>2, AddKeepsShape
  <1>3. CASE RemoveStep
    BY <1>3, RemoveKeepsShape
  <1>4. CASE ConnectionLost
    BY <1>4 DEF ConnectionLost, LoseConnection, TransactionShape
  <1>5. CASE UNCHANGED vars
    BY <1>5 DEF vars, dbVars, memVars, localVars, TransactionShape,
                OneObjectMore, OneFamilyLess, LastInsertId
  <1> QED
    BY <1>1, <1>2, <1>3, <1>4, <1>5 DEF Next, Work, LoadStep

LEMMA ShapeHolds ==
  ASSUME NoStatementFails
  PROVE  Spec => []TransactionShape
  <1>1. Init => TransactionShape
    BY DEF Init, TransactionShape
  <1>2. TreeInv /\ TransactionInv /\ TransactionShape /\ [Next]_vars =>
          TransactionShape'
    BY NextKeepsShape
  <1> QED
    BY <1>1, <1>2, InvariantHolds, TransactionsHold, PTL DEF Spec

-----------------------------------------------------------------------------
(* The mapping: every step is a step of the store, or none.                 *)

Reserved == pending.objects \ stored.objects

(* Nothing is committed, and the reserved id is kept or given up.           *)
LEMMA NothingCommitted ==
  ASSUME stored' = stored, autoInc' = autoInc, Reserved' \in {Reserved, {}}
  PROVE  [Store!Next]_Store!store
  <1>1. CASE Reserved' = Reserved
    BY <1>1 DEF Reserved, Store!store
  <1>2. CASE Reserved' = {} /\ Reserved # {}
    <2>1. Store!Abandon
      BY <1>2 DEF Store!Abandon, Reserved
    <2> QED
      BY <2>1 DEF Store!Next
  <1> QED
    BY <1>1, <1>2

(* A process that starts or ends, or loses its session, commits nothing.    *)
LEMMA EndCommitsNothing ==
  ASSUME TransactionInv,
         Start \/ ConnectionLost \/ \E cause \in Exits : Die(cause)
  PROVE  [Store!Next]_Store!store
  <1>1. stored' = stored /\ autoInc' = autoInc /\ pending' = stored
    BY DEF Start, Connect, ConnectionLost, LoseConnection, Die, Disconnect
  <1>2. Reserved' = {}
    BY <1>1 DEF Reserved
  <1> QED
    BY <1>1, <1>2, NothingCommitted

(* addNode reserves an id with its INSERT and commits with its last         *)
(* statement.                                                               *)
LEMMA AddImplements ==
  ASSUME NoStatementFails, TreeInv, TransactionInv, TransactionShape, AddStep
  PROVE  [Store!Next]_Store!store
  <1> USE DEF Goto, Continue, Return, memVars, OpenPhases, WritePhases
  <1>1. CASE UNCHANGED <<stored, pending, autoInc>>
    BY <1>1, NothingCommitted DEF Reserved
  <1>2. CASE AddInsert /\ InsertObject
    <2>1. link = "open" /\ ~autocommit /\ pending = stored
      BY <1>2 DEF AddInsert, InsertObject, Write, TransactionInv, SessionPhaseOK
    <2>2. autoInc \notin stored.objects
      BY <1>2 DEF AddInsert, TreeInv, PhaseOK, UnusedIds, Unused, Ids
    <2>3. /\ stored' = stored /\ autoInc' = autoInc + 1
          /\ pending'.objects = stored.objects \cup {autoInc}
      BY <1>2, <2>1 DEF InsertObject, Write, WithObject, TreeInv, TypeOK,
                        MySQLTypeOK, Database
    <2>4. Store!Reserve
      BY <2>1, <2>2, <2>3 DEF Store!Reserve
    <2> QED
      BY <2>4 DEF Store!Next
  <1>3. CASE AddRelate /\ InsertRelationship(call.parent, newId)
    <2>1. link = "open" /\ ~autocommit
      BY <1>3 DEF AddRelate, InsertRelationship, Write, TransactionInv,
                  SessionPhaseOK
    <2>2. /\ stored' = stored /\ autoInc' = autoInc
          /\ pending'.objects = pending.objects
      BY <1>3, <2>1 DEF InsertRelationship, Write, WithRelationship, TreeInv,
                        TypeOK, MySQLTypeOK, Database
    <2> QED
      BY <2>2, NothingCommitted DEF Reserved
  <1>4. CASE AddRollback /\ link = "open"
    <2>1. stored' = stored /\ autoInc' = autoInc /\ pending' = stored
      BY <1>4 DEF AddRollback, Rollback, OnOpenSession
    <2>2. Reserved' = {}
      BY <2>1 DEF Reserved
    <2> QED
      BY <2>1, <2>2, NothingCommitted
  <1>5. CASE AddCommit /\ link = "open"
    <2>1. stored' = pending /\ pending' = pending /\ autoInc' = autoInc
      BY <1>5 DEF AddCommit, AutocommitOn, OnOpenSession
    <2>2. /\ OneObjectMore(newId)
          /\ \/ pending.rels = stored.rels
             \/ \E parent \in pending.objects :
                  pending.rels = stored.rels \cup {<<parent, newId>>}
      BY <1>5 DEF AddCommit, TransactionShape
    <2>3. Reserved = {newId} /\ Reserved' = {}
      BY <2>1, <2>2 DEF Reserved, OneObjectMore
    <2>4. Store!CommitAdd
      BY <2>1, <2>2, <2>3 DEF Store!CommitAdd, Reserved, OneObjectMore
    <2> QED
      BY <2>4 DEF Store!Next
  <1> QED
    BY <1>1, <1>2, <1>3, <1>4, <1>5
    DEF AddStep, AddBegin, AddInsert, AddRollback, AddLastId, AddRelate,
        AddCommit, AutocommitOff, Rollback, AutocommitOn, OnOpenSession, Query,
        Fails, Refused, dbVars

(* removeNode changes nothing that is committed before its COMMIT, which    *)
(* takes the object and the rows of its parent's children.                  *)
LEMMA RemoveImplements ==
  ASSUME NoStatementFails, TreeInv, TransactionInv, TransactionShape, RemoveStep
  PROVE  [Store!Next]_Store!store
  <1> USE DEF Goto, Continue, Return, memVars, OpenPhases, WritePhases,
              RemovalPhases
  <1>1. CASE UNCHANGED <<stored, pending, autoInc>>
    BY <1>1, NothingCommitted DEF Reserved
  <1>2. CASE RemoveRelationships /\ DeleteRelationshipsOf(parentId)
    <2>1. link = "open" /\ ~autocommit
      BY <1>2 DEF RemoveRelationships, DeleteRelationshipsOf, Write,
                  TransactionInv, SessionPhaseOK
    <2>2. /\ stored' = stored /\ autoInc' = autoInc
          /\ pending'.objects = pending.objects
      BY <1>2, <2>1 DEF DeleteRelationshipsOf, Write, WithoutChildrenOf, TreeInv,
                        TypeOK, MySQLTypeOK, Database
    <2> QED
      BY <2>2, NothingCommitted DEF Reserved
  <1>3. CASE RemoveObject /\ DeleteObject(call.id)
    <2>1. link = "open" /\ ~autocommit /\ pending.objects = stored.objects
      BY <1>3 DEF RemoveObject, DeleteObject, Write, TransactionInv,
                  SessionPhaseOK, TransactionShape
    <2>2. /\ stored' = stored /\ autoInc' = autoInc
          /\ pending'.objects = stored.objects \ {call.id}
      BY <1>3, <2>1 DEF DeleteObject, Write, WithoutObject
    <2>3. Reserved = {} /\ Reserved' = {}
      BY <2>1, <2>2 DEF Reserved
    <2> QED
      BY <2>2, <2>3, NothingCommitted
  <1>4. CASE RemoveCommit /\ link = "open"
    <2>1. stored' = pending /\ pending' = pending /\ autoInc' = autoInc
      BY <1>4 DEF RemoveCommit, Commit, OnOpenSession
    <2>2. /\ OneFamilyLess(parentId)
          /\ pending.objects = stored.objects \ {call.id}
          /\ \A r \in stored.rels : r[1] # call.id
      BY <1>4 DEF RemoveCommit, TransactionShape, TransactionInv, SessionPhaseOK
    <2>3. Reserved = {} /\ Reserved' = {}
      BY <2>1, <2>2 DEF Reserved
    <2>4. Store!CommitRemove(call.id, parentId)
      BY <2>1, <2>2, <2>3 DEF Store!CommitRemove, OneFamilyLess, Reserved
    <2>5. \E r \in stored.rels : Store!CommitRemove(r[2], r[1])
      <3>1. <<parentId, call.id>> \in stored.rels
        BY <2>2 DEF OneFamilyLess
      <3> QED
        BY <2>4, <3>1
    <2> QED
      BY <2>5 DEF Store!Next
  <1>5. CASE RemoveRollback /\ link = "open"
    <2>1. stored' = stored /\ autoInc' = autoInc /\ pending' = stored
      BY <1>5 DEF RemoveRollback, Rollback, OnOpenSession
    <2>2. Reserved' = {}
      BY <2>1 DEF Reserved
    <2> QED
      BY <2>1, <2>2, NothingCommitted
  <1>6. CASE RemoveRestore /\ link = "open"
    <2>1. pending = stored
      BY <1>6 DEF RemoveRestore, TransactionInv
    <2> QED
      BY <1>1, <1>6, <2>1 DEF RemoveRestore, AutocommitOn, OnOpenSession
  <1> QED
    BY <1>1, <1>2, <1>3, <1>4, <1>5, <1>6
    DEF RemoveStep, RemoveBegin, RemoveSelect, RemoveRelationships, RemoveObject,
        RemoveCommit, RemoveRollback, RemoveRestore, AutocommitOff, Commit,
        Rollback, AutocommitOn, OnOpenSession, Query, Fails, dbVars

(* Every behaviour of the program is one of the store: what is committed    *)
(* changes by whole additions and whole removals, wherever the process is   *)
(* killed and whenever the session is lost.                                 *)
THEOREM StoreIsImplemented ==
  ASSUME NoStatementFails
  PROVE  Spec => Store!Safety
  <1>1. Init => Store!Init
    <2> SUFFICES ASSUME Init PROVE Store!Init
      OBVIOUS
    <2>1. /\ stored.objects = 1..SeedCount /\ stored.rels = SeedRels
          /\ pending = stored /\ autoInc = SeedCount + 1
      BY DEF Init
    <2>2. SeedCount \in 0..MaxId /\ MaxId \in Nat
      BY SeedAssumption, MaxIdAssumption
    <2> QED
      BY <2>1, <2>2 DEF Store!Init
  <1>2. TreeInv /\ TransactionInv /\ TransactionShape /\ [Next]_vars =>
          [Store!Next]_Store!store
    <2> SUFFICES ASSUME TreeInv, TransactionInv, TransactionShape, [Next]_vars
                 PROVE  [Store!Next]_Store!store
      OBVIOUS
    <2>1. CASE Start \/ StartFails \/ LoadFails \/ Crash \/ Stop \/ ConnectionLost
      BY <2>1, EndCommitsNothing DEF StartFails, LoadFails, Crash, Stop, Exits
    <2>2. CASE UNCHANGED dbVars
      BY <2>2, NothingCommitted DEF Reserved, dbVars
    <2>3. CASE AddStep
      BY <2>3, AddImplements
    <2>4. CASE RemoveStep
      BY <2>4, RemoveImplements
    <2> QED
      BY <2>1, <2>2, <2>3, <2>4
      DEF Next, Work, LoadStep, LoadObjects, LoadRelationships, Query, Call,
          CallAddNode, CallRemoveNode, vars
  <1> QED
    BY <1>1, <1>2, InvariantHolds, TransactionsHold, ShapeHolds, PTL
    DEF Spec, Store!Safety

-----------------------------------------------------------------------------
(* Memory as a cache of the tables.                                         *)

(* A process that ends or starts has loaded nothing.                        *)
LEMMA ResetKeepsCache ==
  ASSUME Start \/ \E cause \in Exits : Die(cause)
  PROVE  RowsInv' /\ ObjectsInv'
  BY DEF Start, Die, Connect, Disconnect, Goto, RowsInv, ObjectsInv

(* A step that leaves the tables and the nodes alone, between two phases of *)
(* which the invariants say the same.                                       *)
LEMMA QuietKeepsRowsInv ==
  ASSUME RowsInv, UNCHANGED <<stored, pending, nodes>>,
         link' = "open" => link = "open",
         pc \notin {"down", "loadObjects", "rm_commit", "add_rollback"},
         link' = "open" /\ pc' \in WritePhases => ~autocommit'
  PROVE  RowsInv'
  BY DEF RowsInv, Cached

-----------------------------------------------------------------------------
(* The constructor makes a node of every object before it reads the rows.   *)
LEMMA LoadKeepsRowsInv ==
  ASSUME TreeInv, RowsInv, LoadObjects \/ LoadRelationships
  PROVE  RowsInv'
  <1> USE DEF Query, dbVars, Goto, Continue, WritePhases
  <1>1. CASE LoadObjects
    <2>1. pending = stored /\ RowsOK(pending)
      BY <1>1 DEF LoadObjects, TreeInv, PhaseOK, OneParentRow
    <2>2. nodes' = nodes \cup pending.objects /\ pc' = "loadRelationships"
      BY <1>1 DEF LoadObjects
    <2> QED
      BY <1>1, <2>1, <2>2 DEF LoadObjects, RowsInv, Cached, RowsOK
  <1>2. CASE LoadRelationships
    BY <1>2, QuietKeepsRowsInv DEF LoadRelationships
  <1> QED
    BY <1>1, <1>2

(* addNode: the row is written first, and its child is a node; a parent     *)
(* that is not one leads to the ROLLBACK.                                   *)
LEMMA AddKeepsRowsInv ==
  ASSUME TreeInv, RowsInv, AddStep
  PROVE  RowsInv'
  <1> USE DEF Goto, Continue, Return, WritePhases, memVars, dbVars
  <1>1. CASE AddBegin
    BY <1>1, QuietKeepsRowsInv DEF AddBegin, AutocommitOff, OnOpenSession
  <1>2. CASE AddInsert
    <2>1. CASE InsertObject /\ pc' = "add_lastid"
      BY <1>2, <2>1
      DEF AddInsert, InsertObject, Write, WithObject, RowsInv, Cached, TreeInv,
          TypeOK, MySQLTypeOK, Database
    <2>2. CASE UNCHANGED dbVars /\ pc' = "add_rollback"
      BY <1>2, <2>2, QuietKeepsRowsInv DEF AddInsert
    <2> QED
      BY <1>2, <2>1, <2>2 DEF AddInsert, Fails, Refused
  <1>3. CASE AddRollback
    BY <1>3 DEF AddRollback, Rollback, OnOpenSession, RowsInv, Cached
  <1>4. CASE AddLastId
    <2>1. CASE Fails /\ pc' = "serving" /\ UNCHANGED nodes
      BY <1>4, <2>1, QuietKeepsRowsInv DEF AddLastId, Fails
    <2>2. CASE Query /\ nodes \subseteq nodes' /\ pc' \in {"add_commit", "add_relate"}
      BY <1>4, <2>2 DEF AddLastId, Query, RowsInv, Cached
    <2> QED
      BY <1>4, <2>1, <2>2 DEF AddLastId
  <1>5. CASE AddRelate
    <2>1. CASE (Fails \/ Refused) /\ pc' = "add_rollback"
      BY <1>5, <2>1, QuietKeepsRowsInv DEF AddRelate, Fails, Refused
    <2>2. CASE InsertRelationship(call.parent, newId)
      <3>1. link = "open" /\ ~autocommit /\ newId \in nodes
        BY <1>5, <2>2
        DEF AddRelate, InsertRelationship, Write, RowsInv, TreeInv, PhaseOK
      <3>2. /\ stored' = stored /\ UNCHANGED <<autocommit, link, nodes>>
            /\ pending'.rels = pending.rels \cup {<<call.parent, newId>>}
        BY <1>5, <2>2, <3>1
        DEF AddRelate, InsertRelationship, Write, WithRelationship, TreeInv,
            TypeOK, MySQLTypeOK, Database
      <3>3. \/ call.parent \in nodes /\ pc' = "add_commit"
            \/ pc' = "add_rollback"
        BY <1>5, <2>2 DEF AddRelate
      <3> QED
        BY <1>5, <3>1, <3>2, <3>3 DEF AddRelate, RowsInv, Cached
    <2> QED
      BY <1>5, <2>1, <2>2 DEF AddRelate
  <1>6. CASE AddCommit
    BY <1>6 DEF AddCommit, AutocommitOn, OnOpenSession, RowsInv, Cached
  <1> QED
    BY <1>1, <1>2, <1>3, <1>4, <1>5, <1>6 DEF AddStep

(* removeNode: the rows that name the node go with it.                      *)
LEMMA RemoveKeepsRowsInv ==
  ASSUME TreeInv, RowsInv, RemoveStep
  PROVE  RowsInv'
  <1> USE DEF Goto, Continue, Return, WritePhases, memVars, dbVars
  <1>1. CASE RemoveBegin
    BY <1>1, QuietKeepsRowsInv DEF RemoveBegin, AutocommitOff, OnOpenSession
  <1>2. CASE RemoveSelect
    <2>1. UNCHANGED <<stored, pending, nodes, autocommit, link>>
      BY <1>2 DEF RemoveSelect, Query, Fails
    <2>2. pc = "rm_select" /\ (link = "open" => ~autocommit)
      BY <1>2 DEF RemoveSelect, RowsInv
    <2>3. pc' \in {"rm_relationships", "rm_abort", "serving"}
      BY <1>2 DEF RemoveSelect
    <2> QED
      BY <2>1, <2>2, <2>3 DEF RowsInv, Cached
  <1>3. CASE RemoveRelationships
    <2>1. CASE Fails
      BY <1>3, <2>1 DEF RemoveRelationships, Fails, RowsInv, Cached
    <2>2. CASE DeleteRelationshipsOf(parentId) /\ pc' = "rm_object"
      BY <1>3, <2>2
      DEF RemoveRelationships, DeleteRelationshipsOf, Write, WithoutChildrenOf,
          RowsInv, Cached, TreeInv, TypeOK, MySQLTypeOK, Database
    <2> QED
      BY <1>3, <2>1, <2>2 DEF RemoveRelationships
  <1>4. CASE RemoveObject
    <2>1. CASE Fails /\ UNCHANGED nodes /\ pc' = "rm_rollback"
      BY <1>4, <2>1 DEF RemoveObject, Fails, RowsInv, Cached
    <2>2. CASE /\ DeleteObject(call.id) /\ nodes' = nodes \ {call.id}
               /\ pc' = "rm_commit"
      <3>1. link = "open" /\ ~autocommit /\ ~autocommit'
        BY <1>4, <2>2 DEF RemoveObject, DeleteObject, Write, RowsInv
      <3>2. pending'.rels = {r \in pending.rels : call.id \notin {r[1], r[2]}}
        BY <2>2 DEF DeleteObject, Write, WithoutObject
      <3> QED
        BY <1>4, <2>2, <3>1, <3>2 DEF RemoveObject, RowsInv, Cached
    <2> QED
      BY <1>4, <2>1, <2>2 DEF RemoveObject
  <1>5. CASE RemoveCommit
    BY <1>5 DEF RemoveCommit, Commit, OnOpenSession, RowsInv, Cached
  <1>6. CASE RemoveRollback
    BY <1>6 DEF RemoveRollback, Rollback, OnOpenSession, RowsInv, Cached
  <1>7. CASE RemoveRestore
    BY <1>7 DEF RemoveRestore, AutocommitOn, OnOpenSession, RowsInv, Cached
  <1> QED
    BY <1>1, <1>2, <1>3, <1>4, <1>5, <1>6, <1>7 DEF RemoveStep

LEMMA NextKeepsRowsInv == TreeInv /\ RowsInv /\ [Next]_vars => RowsInv'
  <1> SUFFICES ASSUME TreeInv, RowsInv, [Next]_vars PROVE RowsInv'
    OBVIOUS
  <1>1. CASE Start \/ StartFails \/ LoadFails \/ Crash \/ Stop
    BY <1>1, ResetKeepsCache DEF StartFails, LoadFails, Crash, Stop, Exits
  <1>2. CASE LoadObjects \/ LoadRelationships
    BY <1>2, LoadKeepsRowsInv
  <1>3. CASE AddStep
    BY <1>3, AddKeepsRowsInv
  <1>4. CASE RemoveStep
    BY <1>4, RemoveKeepsRowsInv
  <1>5. CASE Call
    BY <1>5, QuietKeepsRowsInv
    DEF Call, CallAddNode, CallRemoveNode, dbVars, memVars, Goto, WritePhases
  <1>6. CASE ConnectionLost
    BY <1>6 DEF ConnectionLost, LoseConnection, RowsInv
  <1>7. CASE UNCHANGED vars
    BY <1>7 DEF vars, dbVars, memVars, RowsInv, Cached
  <1> QED
    BY <1>1, <1>2, <1>3, <1>4, <1>5, <1>6, <1>7 DEF Next, Work, LoadStep

(* Whatever fails, outside addNode the ends of every row that the session   *)
(* sees are nodes of the map: removeNode always finds the parent (line 170  *)
(* is dead code), as long as nobody else writes the tables.                 *)
THEOREM RowsAlwaysCached == Spec => []RowsAreCached
  <1>1. Init => RowsInv
    BY DEF Init, RowsInv
  <1>2. TreeInv /\ RowsInv => RowsAreCached
    <2> SUFFICES ASSUME TreeInv, RowsInv, Mirrored PROVE Cached(pending.rels)
      BY DEF RowsAreCached, Cached
    <2>1. pc # "add_rollback"
      BY DEF Mirrored, TreeInv, PhaseOK, AddCall
    <2> QED
      BY <2>1 DEF RowsInv, Mirrored
  <1> QED
    BY <1>1, <1>2, NextKeepsRowsInv, InvariantHolds, PTL DEF Spec

-----------------------------------------------------------------------------
(* What addNode and removeNode say of objects, when no statement fails on a *)
(* healthy session.                                                         *)
LEMMA LostKeepsObjectsInv ==
  ASSUME link' # "open"
  PROVE  ObjectsInv'
  BY DEF ObjectsInv

(* A step between phases of which ObjectsInv says the same.                 *)
PlainPhases ==
  Phases \ {"down", "loadObjects", "add_lastid", "add_relate", "add_commit",
            "rm_commit"}

LEMMA QuietKeepsObjectsInv ==
  ASSUME ObjectsInv, UNCHANGED <<stored, pending, link, nodes>>,
         pc \in PlainPhases, pc' \in PlainPhases
  PROVE  ObjectsInv'
  BY DEF ObjectsInv, PlainPhases

LEMMA LoadKeepsObjectsInv ==
  ASSUME TreeInv, ObjectsInv, LoadObjects \/ LoadRelationships
  PROVE  ObjectsInv'
  <1> USE DEF Query, dbVars, Goto, Continue
  <1>1. CASE LoadObjects
    <2>1. pending = stored
      BY <1>1 DEF LoadObjects, TreeInv, PhaseOK
    <2> QED
      BY <1>1, <2>1 DEF LoadObjects, ObjectsInv
  <1>2. CASE LoadRelationships
    BY <1>2, QuietKeepsObjectsInv DEF LoadRelationships, PlainPhases, Phases
  <1> QED
    BY <1>1, <1>2

(* addNode: the new id is an object of the transaction, then a node.        *)
LEMMA AddKeepsObjectsInv ==
  ASSUME NoStatementFails, TreeInv, TransactionInv, ObjectsInv, AddStep
  PROVE  ObjectsInv'
  <1> USE DEF Goto, Continue, Return, memVars, dbVars, PlainPhases, Phases
  <1>1. CASE AddBegin
    BY <1>1, QuietKeepsObjectsInv DEF AddBegin, AutocommitOff, OnOpenSession
  <1>2. CASE AddInsert
    <2>1. CASE InsertObject /\ pc' = "add_lastid"
      <3>1. link = "open" /\ ~autocommit
        BY <1>2, <2>1 DEF AddInsert, InsertObject, Write, TransactionInv,
                          SessionPhaseOK, WritePhases
      <3>2. /\ stored' = stored
            /\ pending'.objects = pending.objects \cup {autoInc}
        BY <2>1, <3>1 DEF InsertObject, Write, WithObject, TreeInv, TypeOK,
                          MySQLTypeOK, Database
      <3>3. LastInsertId' = autoInc
        BY <2>1 DEF InsertObject, LastInsertId, TreeInv, TypeOK, MySQLTypeOK
      <3> QED
        BY <1>2, <2>1, <3>1, <3>2, <3>3 DEF AddInsert, ObjectsInv
    <2>2. CASE UNCHANGED dbVars /\ pc' = "add_rollback"
      BY <1>2, <2>2, QuietKeepsObjectsInv DEF AddInsert
    <2> QED
      BY <1>2, <2>1, <2>2 DEF AddInsert, Fails, Refused
  <1>3. CASE AddRollback
    BY <1>3 DEF AddRollback, Rollback, OnOpenSession, ObjectsInv
  <1>4. CASE AddLastId
    <2>1. CASE Fails
      BY <2>1, FailureIsLoss, LostKeepsObjectsInv
    <2>2. CASE /\ Query /\ newId' = LastInsertId /\ call' = call
               /\ nodes' = nodes \cup {LastInsertId}
               /\ \/ call.parent = SuperRoot /\ pc' = "add_commit"
                  \/ pc' = "add_relate"
      BY <1>4, <2>2 DEF AddLastId, Query, ObjectsInv
    <2> QED
      BY <1>4, <2>1, <2>2 DEF AddLastId
  <1>5. CASE AddRelate
    <2>1. CASE (Fails \/ Refused) /\ pc' = "add_rollback"
      BY <1>5, <2>1 DEF AddRelate, Fails, Refused, ObjectsInv
    <2>2. CASE InsertRelationship(call.parent, newId)
      <3>1. link = "open" /\ ~autocommit
        BY <1>5, <2>2 DEF AddRelate, InsertRelationship, Write, TransactionInv,
                          SessionPhaseOK, WritePhases
      <3>2. /\ stored' = stored /\ link' = link
            /\ pending'.objects = pending.objects
            /\ pending'.rels = pending.rels \cup {<<call.parent, newId>>}
        BY <2>2, <3>1 DEF InsertRelationship, Write, WithRelationship, TreeInv,
                          TypeOK, MySQLTypeOK, Database
      <3>3. pc' \in {"add_commit", "add_rollback"} /\ UNCHANGED localVars
        BY <1>5 DEF AddRelate
      <3> QED
        BY <1>5, <3>1, <3>2, <3>3 DEF AddRelate, ObjectsInv, localVars
    <2> QED
      BY <1>5, <2>1, <2>2 DEF AddRelate
  <1>6. CASE AddCommit
    BY <1>6 DEF AddCommit, AutocommitOn, OnOpenSession, ObjectsInv
  <1> QED
    BY <1>1, <1>2, <1>3, <1>4, <1>5, <1>6 DEF AddStep

(* removeNode: the node leaves the map with the object, the commit follows. *)
LEMMA RemoveKeepsObjectsInv ==
  ASSUME NoStatementFails, TreeInv, TransactionInv, ObjectsInv, RemoveStep
  PROVE  ObjectsInv'
  <1> USE DEF Goto, Continue, Return, memVars, dbVars, PlainPhases, Phases
  <1>1. CASE RemoveBegin
    BY <1>1, QuietKeepsObjectsInv DEF RemoveBegin, AutocommitOff, OnOpenSession
  <1>2. CASE RemoveSelect
    BY <1>2, QuietKeepsObjectsInv DEF RemoveSelect, Query, Fails
  <1>3. CASE RemoveRelationships
    <2>1. CASE Fails
      BY <2>1, FailureIsLoss, LostKeepsObjectsInv
    <2>2. CASE DeleteRelationshipsOf(parentId) /\ pc' = "rm_object"
      <3>1. link = "open" /\ ~autocommit
        BY <1>3, <2>2 DEF RemoveRelationships, DeleteRelationshipsOf, Write,
                          TransactionInv, SessionPhaseOK, WritePhases
      <3>2. stored' = stored /\ pending'.objects = pending.objects
        BY <2>2, <3>1 DEF DeleteRelationshipsOf, Write, WithoutChildrenOf,
                          TreeInv, TypeOK, MySQLTypeOK, Database
      <3> QED
        BY <1>3, <2>2, <3>1, <3>2 DEF RemoveRelationships, ObjectsInv
    <2> QED
      BY <1>3, <2>1, <2>2 DEF RemoveRelationships
  <1>4. CASE RemoveObject
    <2>1. CASE Fails
      BY <2>1, FailureIsLoss, LostKeepsObjectsInv
    <2>2. CASE /\ DeleteObject(call.id) /\ nodes' = nodes \ {call.id}
               /\ pc' = "rm_commit" /\ call' = call
      <3>1. link = "open" /\ ~autocommit
        BY <1>4, <2>2 DEF RemoveObject, DeleteObject, Write, TransactionInv,
                          SessionPhaseOK, WritePhases
      <3>2. stored' = stored /\ pending'.objects = pending.objects \ {call.id}
        BY <2>2, <3>1 DEF DeleteObject, Write, WithoutObject
      <3> QED
        BY <1>4, <2>2, <3>1, <3>2 DEF RemoveObject, ObjectsInv
    <2> QED
      BY <1>4, <2>1, <2>2 DEF RemoveObject, localVars
  <1>5. CASE RemoveCommit
    BY <1>5 DEF RemoveCommit, Commit, OnOpenSession, ObjectsInv
  <1>6. CASE RemoveRollback
    BY <1>6 DEF RemoveRollback, Rollback, OnOpenSession, ObjectsInv
  <1>7. CASE RemoveRestore
    BY <1>7 DEF RemoveRestore, AutocommitOn, OnOpenSession, ObjectsInv
  <1> QED
    BY <1>1, <1>2, <1>3, <1>4, <1>5, <1>6, <1>7 DEF RemoveStep

LEMMA NextKeepsObjectsInv ==
  ASSUME NoStatementFails
  PROVE  TreeInv /\ TransactionInv /\ ObjectsInv /\ [Next]_vars => ObjectsInv'
  <1> SUFFICES ASSUME TreeInv, TransactionInv, ObjectsInv, [Next]_vars
               PROVE  ObjectsInv'
    OBVIOUS
  <1>1. CASE Start \/ StartFails \/ LoadFails \/ Crash \/ Stop
    BY <1>1, ResetKeepsCache DEF StartFails, LoadFails, Crash, Stop, Exits
  <1>2. CASE LoadObjects \/ LoadRelationships
    BY <1>2, LoadKeepsObjectsInv
  <1>3. CASE AddStep
    BY <1>3, AddKeepsObjectsInv
  <1>4. CASE RemoveStep
    BY <1>4, RemoveKeepsObjectsInv
  <1>5. CASE Call
    BY <1>5, QuietKeepsObjectsInv
    DEF Call, CallAddNode, CallRemoveNode, dbVars, memVars, Goto, PlainPhases,
        Phases
  <1>6. CASE ConnectionLost
    BY <1>6, LostKeepsObjectsInv DEF ConnectionLost, LoseConnection
  <1>7. CASE UNCHANGED vars
    BY <1>7 DEF vars, dbVars, memVars, localVars, ObjectsInv, LastInsertId
  <1> QED
    BY <1>1, <1>2, <1>3, <1>4, <1>5, <1>6, <1>7 DEF Next, Work, LoadStep

LEMMA ObjectsInvHolds ==
  ASSUME NoStatementFails
  PROVE  Spec => []ObjectsInv
  <1>1. Init => ObjectsInv
    BY DEF Init, ObjectsInv
  <1>2. TreeInv /\ TransactionInv /\ ObjectsInv /\ [Next]_vars => ObjectsInv'
    BY NextKeepsObjectsInv
  <1> QED
    BY <1>1, <1>2, InvariantHolds, TransactionsHold, PTL DEF Spec

(* Between two calls, as long as the session is there, what is committed is *)
(* in the map, and every committed row is an edge in memory.                *)
THEOREM CacheIsComplete ==
  ASSUME NoStatementFails
  PROVE  Spec => []CacheCoversDatabase
  <1>1. TransactionInv /\ ObjectsInv => CacheCoversDatabase
    BY DEF TransactionInv, SessionPhaseOK, ObjectsInv, CacheCoversDatabase,
           Serving, Linked, RemovalPhases
  <1> QED
    BY <1>1, ObjectsInvHolds, TransactionsHold, PTL

(* An id that addNode returns while the session is there is committed, with *)
(* the relationship that the caller asked for: the SET AUTOCOMMIT that ends *)
(* the call is what makes it durable.                                       *)
THEOREM AddsAreDurable ==
  ASSUME NoStatementFails
  PROVE  Spec => AddReturnsDurable
  <1> DEFINE Durable ==
        pc = "add_commit" /\ pc' = "serving" /\ link' = "open" =>
          /\ newId \in stored'.objects
          /\ call.parent # SuperRoot => <<call.parent, newId>> \in stored'.rels
  <1>1. ObjectsInv /\ [Next]_vars => [Durable]_vars
    <2> SUFFICES ASSUME ObjectsInv, Next, pc = "add_commit", pc' = "serving",
                        link' = "open"
                 PROVE  Durable
      OBVIOUS
    <2>1. AddCommit
      BY DEF Next, Start, StartFails, Work, LoadStep, LoadObjects,
             LoadRelationships, LoadFails, AddStep, AddBegin, AddInsert,
             AddRollback, AddLastId, AddRelate, RemoveStep, RemoveBegin,
             RemoveSelect, RemoveRelationships, RemoveObject, RemoveCommit,
             RemoveRollback, RemoveRestore, Call, CallAddNode, CallRemoveNode,
             ConnectionLost, Crash, Stop, Die, Goto
    <2>2. link = "open" /\ stored' = pending
      BY <2>1 DEF AddCommit, AutocommitOn, OnOpenSession, dbVars
    <2> QED
      BY <2>2 DEF ObjectsInv
  <1> QED
    BY <1>1, ObjectsInvHolds, PTL DEF AddReturnsDurable, Spec


-----------------------------------------------------------------------------
(* The levels of nodeToJson: the recursive function Level satisfies its own *)
(* equation.                                                                *)

LEMMA LeastNumber ==
  ASSUME NEW S, S \subseteq Nat, S # {}
  PROVE  \E x \in S : \A y \in S : x <= y
  <1>1. \E x \in S : \A y \in S : ~ (<<y, x>> \in OpToRel(<, Nat))
    BY NatLessThanWellFounded, WFMin
  <1>2. \A x, y \in S : ~ (<<y, x>> \in OpToRel(<, Nat)) => x <= y
    BY DEF OpToRel
  <1> QED
    BY <1>1, <1>2

NextLevel(level) == UNION {children[p] \cap nodes : p \in level}

IsLevel(level, start, max) ==
  level = [n \in 0..max |-> IF n = 0 THEN start \cap nodes
                                     ELSE NextLevel(level[n - 1])]

LEMMA LevelIsDefined ==
  ASSUME NEW start
  PROVE  IsLevel(Level(start), start, MaxId + 1)
  <1> DEFINE Missing == {m \in Nat : ~ \E level : IsLevel(level, start, m)}
  <1>1. Missing = {}
    <2> SUFFICES ASSUME Missing # {} PROVE FALSE
      OBVIOUS
    <2> HIDE DEF Missing
    <2>0. Missing \subseteq Nat
      BY DEF Missing
    <2>1. PICK m \in Missing : \A k \in Missing : m <= k
      BY <2>0, LeastNumber
    <2>2. m # 0
      <3>1. IsLevel([n \in 0..0 |-> start \cap nodes], start, 0)
        BY DEF IsLevel
      <3> QED
        BY <2>1, <3>1 DEF Missing
    <2>3. m - 1 \in Nat /\ m - 1 \notin Missing
      BY <2>0, <2>1, <2>2
    <2>4. PICK level : IsLevel(level, start, m - 1)
      BY <2>3 DEF Missing
    <2> DEFINE longer == [n \in 0..m |-> IF n = 0 THEN start \cap nodes
                                                  ELSE NextLevel(level[n - 1])]
    <2>5. \A n \in 0..m - 1 : longer[n] = level[n]
      <3> SUFFICES ASSUME NEW n \in 0..m - 1 PROVE longer[n] = level[n]
        OBVIOUS
      <3>1. n \in 0..m
        BY <2>0, <2>1
      <3>2. level[n] = IF n = 0 THEN start \cap nodes ELSE NextLevel(level[n - 1])
        BY <2>4 DEF IsLevel
      <3>3. longer[n] = IF n = 0 THEN start \cap nodes ELSE NextLevel(level[n - 1])
        BY <3>1
      <3> QED
        BY <3>2, <3>3
    <2>6. ASSUME NEW n \in 0..m, n # 0 PROVE longer[n - 1] = level[n - 1]
      <3> HIDE DEF longer
      <3>1. m \in Nat
        BY <2>0, <2>1
      <3>2. n - 1 \in 0..m - 1
        BY <2>6, <3>1
      <3> QED
        BY <2>5, <3>2
    <2>7. IsLevel(longer, start, m)
      BY <2>6 DEF IsLevel
    <2> QED
      BY <2>1, <2>7 DEF Missing
  <1>2. PICK level : IsLevel(level, start, MaxId + 1)
    BY <1>1, MaxIdAssumption
  <1> QED
    BY <1>2 DEF Level, IsLevel, NextLevel

LEMMA LevelSteps ==
  ASSUME NEW start
  PROVE  /\ Level(start)[0] = start \cap nodes
         /\ \A n \in 1..MaxId + 1 :
              Level(start)[n] = NextLevel(Level(start)[n - 1])
  <1>1. IsLevel(Level(start), start, MaxId + 1)
    BY LevelIsDefined
  <1>2. 0 \in 0..MaxId + 1 /\ 1..MaxId + 1 \subseteq 0..MaxId + 1
    BY MaxIdAssumption
  <1> HIDE DEF Level
  <1>3. Level(start)[0] = start \cap nodes
    BY <1>1, <1>2 DEF IsLevel
  <1>4. ASSUME NEW n \in 1..MaxId + 1
        PROVE  Level(start)[n] = NextLevel(Level(start)[n - 1])
    <2>1. n \in 0..MaxId + 1 /\ n # 0
      BY MaxIdAssumption
    <2> QED
      BY <1>1, <2>1 DEF IsLevel
  <1> QED
    BY <1>3, <1>4

-----------------------------------------------------------------------------
(* Parents are older than their children.                                   *)

LEMMA NextKeepsParentsOlder ==
  TreeInv /\ ParentsOlder /\ [Next]_vars => ParentsOlder'
  <1> SUFFICES ASSUME TreeInv, ParentsOlder, [Next]_vars
               PROVE  ParentsOlder'
    OBVIOUS
  <1> USE DEF ParentsOlder, Goto, Continue, Return, memVars, dbVars, localVars
  <1>0. /\ stored \in Database /\ pending \in Database
        /\ children \in [Keys -> SUBSET Ids] /\ autoInc \in Nat
        /\ Ids \subseteq Keys
    BY MaxIdAssumption DEF TreeInv, TypeOK, MySQLTypeOK, Keys
  <1>1. CASE Start \/ StartFails \/ LoadFails \/ Crash \/ Stop
    BY <1>0, <1>1 DEF Start, Connect, StartFails, LoadFails, Crash, Stop, Die,
                      Disconnect
  <1>2. CASE LoadObjects \/ Call
    BY <1>2 DEF LoadObjects, Query, Call, CallAddNode, CallRemoveNode, LastInsertId
  <1>3. CASE LoadRelationships
    <2>1. \A p \in Ids : children'[p] = {c \in Ids : <<p, c>> \in LinkedRows(pending)}
      BY <1>0, <1>3, MaxIdAssumption DEF LoadRelationships, TreeOf, Ids, SuperRoot
    <2>2. \A p, c : <<p, c>> \in pending.rels => p <= c
      OBVIOUS
    <2>3. \A p \in Ids : \A c \in children'[p] : p <= c
      BY <2>1, <2>2 DEF LinkedRows
    <2> QED
      BY <1>3, <2>3 DEF LoadRelationships, Query
  <1>4. CASE AddBegin \/ AddRollback \/ AddCommit
    BY <1>4 DEF AddBegin, AddRollback, AddCommit, AutocommitOff, Rollback,
                AutocommitOn, OnOpenSession
  <1>5. CASE AddInsert
    BY <1>0, <1>5 DEF AddInsert, InsertObject, Write, WithObject, Fails, Refused,
                      Database
  <1>6. CASE AddLastId
    <2>1. \A p \in Ids : children'[p] = children[p]
      BY <1>0, <1>6, MaxIdAssumption DEF AddLastId, WithChild, Ids, SuperRoot
    <2> QED
      BY <1>6, <2>1 DEF AddLastId, Query, Fails, LastInsertId
  <1>7. CASE AddRelate
    <2>1. CASE UNCHANGED <<children, stored, pending>> /\ pc' # "add_relate"
      BY <2>1
    <2>2. CASE InsertRelationship(call.parent, newId) /\ pc' # "add_relate"
      <3>1. call.parent \in pending.objects /\ call.parent \in Ids /\ newId \in Ids
        BY <1>0, <2>2 DEF InsertRelationship, CanRelate, Database
      <3>2. call.parent <= newId
        BY <1>0, <1>7, <3>1, MaxIdAssumption
        DEF AddRelate, LastInsertId, TreeInv, UnusedIds, Unused, Ids
      <3>3. /\ pending'.rels = pending.rels \cup {<<call.parent, newId>>}
            /\ stored' \in {stored, pending'}
        BY <1>0, <2>2 DEF InsertRelationship, Write, WithRelationship, Database
      <3>4. \A p \in Ids : children'[p] \subseteq
              children[p] \cup (IF p = call.parent THEN {newId} ELSE {})
        BY <1>0, <1>7 DEF AddRelate, WithChild
      <3> QED
        BY <1>0, <2>2, <3>2, <3>3, <3>4
    <2> QED
      BY <1>7, <2>1, <2>2 DEF AddRelate, Fails, Refused
  <1>8. CASE RemoveStep
    <2>1. pc' # "add_relate"
      BY <1>8 DEF RemoveStep, RemoveBegin, RemoveSelect, RemoveRelationships,
                  RemoveObject, RemoveCommit, RemoveRollback, RemoveRestore
    <2>2. /\ stored'.rels \subseteq stored.rels \cup pending.rels
          /\ pending'.rels \subseteq stored.rels \cup pending.rels
      BY <1>0, <1>8
      DEF RemoveStep, RemoveBegin, RemoveSelect, RemoveRelationships,
          RemoveObject, RemoveCommit, RemoveRollback, RemoveRestore,
          AutocommitOff, Query, Fails, DeleteRelationshipsOf, DeleteObject, Write,
          WithoutChildrenOf, WithoutObject, Commit, Rollback, AutocommitOn,
          OnOpenSession, Database
    <2>3. \A p \in Ids : children'[p] \subseteq children[p]
      BY <1>0, <1>8
      DEF RemoveStep, RemoveBegin, RemoveSelect, RemoveRelationships,
          RemoveObject, RemoveCommit, RemoveRollback, RemoveRestore, WithoutChild
    <2> QED
      BY <2>1, <2>2, <2>3
  <1>9. CASE ConnectionLost
    BY <1>9 DEF ConnectionLost, LoseConnection, LastInsertId
  <1>10. CASE UNCHANGED vars
    BY <1>10 DEF vars, LastInsertId
  <1> QED
    BY <1>1, <1>2, <1>3, <1>4, <1>5, <1>6, <1>7, <1>8, <1>9, <1>10
    DEF Next, Work, LoadStep, AddStep

LEMMA ParentsOlderHolds == Spec => []ParentsOlder
  <1>1. Init => ParentsOlder
    <2> SUFFICES ASSUME Init PROVE ParentsOlder
      OBVIOUS
    <2>1. \A p \in Ids : children[p] = {}
      BY DEF Init, Keys
    <2>2. stored.rels = SeedRels /\ pending.rels = SeedRels
      BY DEF Init
    <2>3. \A r \in SeedRels : r[1] <= r[2]
      BY SeedAssumption
    <2> QED
      BY <2>1, <2>2, <2>3 DEF Init, ParentsOlder
  <1>2. TreeInv /\ ParentsOlder /\ [Next]_vars => ParentsOlder'
    BY NextKeepsParentsOlder
  <1> QED
    BY <1>1, <1>2, InvariantHolds, PTL DEF Spec

(* What is n calls below the super root is an id of n at least, and hangs   *)
(* below an older one.                                                      *)
LEMMA LevelsClimb ==
  ASSUME TreeInv, ParentsOlder
  PROVE  \A n \in 1..MaxId + 1 : \A c \in Level({SuperRoot})[n] :
           c \in Ids /\ n <= c /\ c \notin children[c]
  <1> DEFINE Climbs(n) == \A c \in Level({SuperRoot})[n] :
                            c \in Ids /\ n <= c /\ c \notin children[c]
             Wrong == {n \in 1..MaxId + 1 : ~ Climbs(n)}
  <1> HIDE DEF Climbs
  <1>0. /\ children \in [Keys -> SUBSET Ids] /\ Ids \subseteq Nat \ {0}
        /\ SuperRoot \notin Ids /\ Ids \subseteq Keys /\ SuperRoot \in Keys
    BY MaxIdAssumption DEF TreeInv, TypeOK, Ids, Keys, SuperRoot
  <1>1. Climbs(1)
    <2> SUFFICES ASSUME NEW c \in Level({SuperRoot})[1]
                 PROVE  c \in Ids /\ 1 <= c /\ c \notin children[c]
      BY DEF Climbs
    <2>1. c \in children[SuperRoot]
      BY LevelSteps, MaxIdAssumption DEF NextLevel
    <2> QED
      BY <1>0, <2>1 DEF TreeInv, UniqueParent
  <1>2. ASSUME NEW n \in 1..MaxId, Climbs(n)
        PROVE  Climbs(n + 1)
    <2> SUFFICES ASSUME NEW c \in Level({SuperRoot})[n + 1]
                 PROVE  c \in Ids /\ n + 1 <= c /\ c \notin children[c]
      BY DEF Climbs
    <2>1. n + 1 \in 1..MaxId + 1 /\ (n + 1) - 1 = n
      BY MaxIdAssumption
    <2>2. PICK p \in Level({SuperRoot})[n] : c \in children[p]
      BY <2>1, LevelSteps DEF NextLevel
    <2>3. p \in Ids /\ n <= p /\ p \notin children[p]
      BY <1>2 DEF Climbs
    <2>4. c \in Ids /\ p <= c /\ c # p
      BY <1>0, <2>2, <2>3 DEF ParentsOlder
    <2>5. c \notin children[c]
      BY <1>0, <2>2, <2>3, <2>4 DEF TreeInv, UniqueParent
    <2> QED
      BY <1>0, <2>3, <2>4, <2>5
  <1>3. Wrong = {}
    <2> SUFFICES ASSUME Wrong # {} PROVE FALSE
      OBVIOUS
    <2>0. Wrong \subseteq 1..MaxId + 1 /\ Wrong \subseteq Nat
      BY MaxIdAssumption
    <2>1. PICK n \in Wrong : \A k \in Wrong : n <= k
      <3> HIDE DEF Wrong
      <3> QED
        BY <2>0, LeastNumber
    <2>2. n # 1 /\ n \in 1..MaxId + 1 /\ ~ Climbs(n)
      BY <1>1
    <2>3. n - 1 \in 1..MaxId /\ n - 1 \in 1..MaxId + 1 /\ ~ (n <= n - 1) /\ (n - 1) + 1 = n
      BY <2>2, MaxIdAssumption
    <2>4. Climbs(n - 1)
      BY <2>1, <2>3
    <2>5. Climbs((n - 1) + 1)
      BY <1>2, <2>3, <2>4
    <2> QED
      BY <2>2, <2>3, <2>5
  <1>4. \A n \in 1..MaxId + 1 : Climbs(n)
    BY <1>3
  <1> QED
    BY <1>4 DEF Climbs

(* nodeToJson comes to an end, for any requests and any faults: nothing     *)
(* hangs deeper below the super root than there are ids.                    *)
THEOREM ReadingTerminates == Spec => []TreeTerminates
  <1>1. TreeInv /\ ParentsOlder => TreeTerminates
    <2> SUFFICES ASSUME TreeInv, ParentsOlder,
                        NEW c \in Level({SuperRoot})[MaxId + 1]
                 PROVE  FALSE
      BY DEF TreeTerminates
    <2>1. MaxId + 1 \in 1..MaxId + 1
      BY MaxIdAssumption
    <2>2. c \in Ids /\ MaxId + 1 <= c
      BY <2>1, LevelsClimb
    <2> QED
      BY <2>2, MaxIdAssumption DEF Ids
  <1> QED
    BY <1>1, InvariantHolds, ParentsOlderHolds, PTL

-----------------------------------------------------------------------------
(* The super root is always in the map, and what is loaded is what is       *)
(* committed.                                                               *)
LEMMA RootHolds == Spec => []RootInv
  <1> USE DEF RootInv, Goto, Continue, Return, memVars, dbVars
  <1>1. Init => RootInv
    BY DEF Init
  <1>2. TreeInv /\ RootInv /\ [Next]_vars => RootInv'
    <2> SUFFICES ASSUME TreeInv, RootInv, [Next]_vars PROVE RootInv'
      OBVIOUS
    <2>1. CASE Start \/ StartFails \/ LoadFails \/ Crash \/ Stop
      BY <2>1 DEF Start, StartFails, LoadFails, Crash, Stop, Die
    <2>2. CASE LoadObjects \/ LoadRelationships \/ Call
      BY <2>2 DEF LoadObjects, LoadRelationships, Query, Call, CallAddNode,
                  CallRemoveNode
    <2>3. CASE AddStep
      BY <2>3 DEF AddStep, AddBegin, AddInsert, AddRollback, AddLastId, AddRelate,
                  AddCommit
    <2>4. CASE RemoveObject
      BY <2>4, MaxIdAssumption DEF RemoveObject, TreeInv, PhaseOK, Ids, SuperRoot
    <2>5. CASE RemoveBegin \/ RemoveSelect \/ RemoveRelationships \/ RemoveCommit
               \/ RemoveRollback \/ RemoveRestore
      BY <2>5 DEF RemoveBegin, RemoveSelect, RemoveRelationships, RemoveCommit,
                  RemoveRollback, RemoveRestore
    <2>6. CASE ConnectionLost
      BY <2>6 DEF ConnectionLost, LoseConnection, TreeInv, PhaseOK
    <2>7. CASE UNCHANGED vars
      BY <2>7 DEF vars
    <2> QED
      BY <2>1, <2>2, <2>3, <2>4, <2>5, <2>6, <2>7
      DEF Next, Work, LoadStep, RemoveStep
  <1> QED
    BY <1>1, <1>2, InvariantHolds, PTL DEF Spec

(* A step that leaves the edges and the committed objects alone.            *)
LEMMA QuietKeepsLinks ==
  ASSUME LinksInv, link' = "open" => link = "open",
         pc \notin {"down", "loadObjects", "loadRelationships", "add_commit"},
         pc' \notin {"add_commit", "rm_commit"},
         pc \in RemovalPhases => pc' \in RemovalPhases /\ call' = call,
         UNCHANGED <<children, stored>>
  PROVE  LinksInv'
  BY DEF LinksInv, Fresh, Leaving

(* What the constructor builds: a row gives its child its parent, and an    *)
(* object without a row hangs below the super root.                         *)
LEMMA LoadKeepsLinks ==
  ASSUME TreeInv, RootInv, LoadRelationships
  PROVE  LinksInv'
  <1>1. /\ pending = stored /\ RowsOK(stored) /\ stored \in Database
        /\ nodes = stored.objects \cup {SuperRoot}
        /\ SuperRoot \notin Ids /\ SuperRoot \in Keys /\ Ids \subseteq Keys
    BY MaxIdAssumption
    DEF LoadRelationships, TreeInv, PhaseOK, OneParentRow, TypeOK, MySQLTypeOK,
        RootInv, Ids, Keys, SuperRoot
  <1>2. /\ stored' = stored /\ pc' = "serving" /\ link' = link
        /\ children' = TreeOf(pending)
    BY DEF LoadRelationships, Query, dbVars, Continue, Goto
  <1>3. LinkedRows(pending) = stored.rels
    BY <1>1 DEF LinkedRows, RowsOK
  <1>4. /\ children'[SuperRoot] =
             {n \in stored.objects : \A r \in stored.rels : r[2] # n}
        /\ \A p \in Ids : children'[p] = {c \in Ids : <<p, c>> \in stored.rels}
    BY <1>1, <1>2, <1>3 DEF TreeOf, Database
  <1>5. \A p \in Keys : children'[p] \subseteq stored.objects
    <2>1. \A p, c : <<p, c>> \in stored.rels => c \in stored.objects
      BY <1>1 DEF RowsOK
    <2> QED
      BY <1>4, <2>1 DEF Keys
  <1>6. ASSUME NEW c \in stored.objects
        PROVE  \E p \in stored.objects \cup {SuperRoot} : c \in children'[p]
    <2>1. CASE \A r \in stored.rels : r[2] # c
      BY <1>4, <2>1
    <2>2. ASSUME NEW r \in stored.rels, r[2] = c
          PROVE  \E p \in stored.objects \cup {SuperRoot} : c \in children'[p]
      <3>1. r[1] \in stored.objects /\ r[1] \in Ids /\ c \in Ids /\ r = <<r[1], c>>
        BY <1>1, <2>2 DEF RowsOK, Database
      <3> QED
        BY <1>4, <3>1
    <2> QED
      BY <2>1, <2>2
  <1> QED
    BY <1>2, <1>5, <1>6 DEF LinksInv, Fresh, Leaving, RemovalPhases

LEMMA AddKeepsLinks ==
  ASSUME NoStatementFails, TreeInv, TransactionInv, ObjectsInv, TransactionShape,
         RootInv, LinksInv, AddStep
  PROVE  LinksInv'
  <1> USE DEF Goto, Continue, Return, memVars, dbVars, localVars, RemovalPhases
  <1>0. /\ children \in [Keys -> SUBSET Ids] /\ SuperRoot \in Keys
        /\ stored \in Database /\ pending \in Database
    BY DEF TreeInv, TypeOK, MySQLTypeOK, Keys
  <1>1. CASE AddBegin \/ AddRollback
    BY <1>1, QuietKeepsLinks DEF AddBegin, AddRollback, AutocommitOff, Rollback,
                                 OnOpenSession
  <1>2. CASE AddInsert
    <2>1. stored' = stored
      BY <1>2 DEF AddInsert, InsertObject, Write, Fails, Refused, TransactionInv,
                  SessionPhaseOK, WritePhases
    <2>2. link' = link
      BY <1>2 DEF AddInsert, InsertObject, Write, Fails, Refused
    <2> QED
      BY <1>2, <2>1, <2>2, QuietKeepsLinks DEF AddInsert
  <1>3. CASE AddLastId
    <2>1. CASE pc' # "add_commit"
      BY <1>3, <2>1, QuietKeepsLinks DEF AddLastId, Query, Fails
    <2>2. CASE pc' = "add_commit"
      <3>1. /\ stored' = stored /\ link' = link /\ newId' = LastInsertId
            /\ children' = WithChild(SuperRoot, LastInsertId)
        BY <1>3, <2>2 DEF AddLastId, Query
      <3>2. \A p \in Keys : children'[p] =
              children[p] \cup (IF p = SuperRoot THEN {LastInsertId} ELSE {})
        BY <1>0, <3>1 DEF WithChild
      <3> QED
        BY <1>0, <1>3, <2>2, <3>1, <3>2 DEF AddLastId, LinksInv, Fresh, Leaving, Database, Keys
    <2> QED
      BY <2>1, <2>2
  <1>4. CASE AddRelate
    <2>1. link' = link /\ stored' = stored
      BY <1>4 DEF AddRelate, InsertRelationship, Write, Fails, Refused,
                  TransactionInv, SessionPhaseOK, WritePhases
    <2>2. CASE pc' # "add_commit"
      BY <1>4, <2>1, <2>2, QuietKeepsLinks DEF AddRelate
    <2>3. CASE pc' = "add_commit" /\ link = "open"
      <3>1. /\ CanRelate(pending, call.parent, newId)
            /\ children' = WithChild(call.parent, newId)
            /\ newId' = newId
        BY <1>4, <2>3 DEF AddRelate, InsertRelationship
      <3>2. /\ call.parent \in Keys
            /\ call.parent \in stored.objects \cup {newId}
        BY <1>0, <1>4, <2>3, <3>1
        DEF CanRelate, AddRelate, TransactionShape, OneObjectMore, Database, Keys
      <3>3. \A p \in Keys : children'[p] =
              children[p] \cup (IF p = call.parent THEN {newId} ELSE {})
        BY <1>0, <3>1 DEF WithChild
      <3> QED
        BY <1>0, <1>4, <2>1, <2>3, <3>1, <3>2, <3>3
        DEF AddRelate, LinksInv, Fresh, Leaving, Database, Keys
    <2> QED
      BY <2>1, <2>2, <2>3 DEF LinksInv
  <1>5. CASE AddCommit
    <2>1. CASE link = "open"
      <3>1. stored'.objects = stored.objects \cup {newId}
        BY <1>5, <2>1
        DEF AddCommit, AutocommitOn, OnOpenSession, TransactionShape, OneObjectMore
      <3>2. pc = "add_commit" /\ pc' = "serving" /\ children' = children
        BY <1>5 DEF AddCommit
      <3> QED
        BY <2>1, <3>1, <3>2 DEF LinksInv, Fresh, Leaving
    <2>2. CASE link # "open"
      BY <1>5, <2>2 DEF AddCommit, AutocommitOn, OnOpenSession, LinksInv
    <2> QED
      BY <2>1, <2>2
  <1> QED
    BY <1>1, <1>2, <1>3, <1>4, <1>5 DEF AddStep

LEMMA RemoveKeepsLinks ==
  ASSUME NoStatementFails, TreeInv, TransactionInv, TransactionShape, LinksInv,
         RemoveStep
  PROVE  LinksInv'
  <1> USE DEF Goto, Continue, Return, memVars, dbVars, localVars, RemovalPhases
  <1>0. /\ children \in [Keys -> SUBSET Ids] /\ stored \in Database
        /\ Ids \subseteq Keys
    BY DEF TreeInv, TypeOK, MySQLTypeOK, Keys
  <1>1. CASE RemoveBegin
    BY <1>1, QuietKeepsLinks DEF RemoveBegin, AutocommitOff, OnOpenSession
  <1>2. CASE RemoveSelect
    <2>1. CASE UNCHANGED children /\ pc' \in {"serving", "rm_abort"}
      BY <1>2, <2>1, QuietKeepsLinks DEF RemoveSelect, Query, Fails
    <2>2. ASSUME NEW p \in Ids, children' = WithoutChild(p, call.id),
                 pc' = "rm_relationships", call' = call, UNCHANGED dbVars
          PROVE  LinksInv'
      <3>1. \A q \in Keys : /\ children'[q] \subseteq children[q]
                            /\ children[q] \ {call.id} \subseteq children'[q]
        BY <1>0, <2>2 DEF WithoutChild, TreeInv, NoDangling
      <3> QED
        BY <1>0, <1>2, <2>2, <3>1
        DEF RemoveSelect, LinksInv, Fresh, Leaving, Database, Keys
    <2> QED
      BY <1>2, <2>1, <2>2 DEF RemoveSelect, Query, Fails, ParentsOf
  <1>3. CASE RemoveRelationships
    <2>1. stored' = stored /\ link' = link
      BY <1>3 DEF RemoveRelationships, DeleteRelationshipsOf, Write, Fails,
                  TransactionInv, SessionPhaseOK, WritePhases
    <2>2. CASE pc' = "rm_object"
      BY <1>3, <2>1, <2>2, QuietKeepsLinks DEF RemoveRelationships
    <2>3. CASE link # "open"
      BY <2>1, <2>3 DEF LinksInv
    <2> QED
      BY <1>3, <2>2, <2>3, FailureIsLoss DEF RemoveRelationships
  <1>4. CASE RemoveObject
    <2>1. stored' = stored /\ link' = link
      BY <1>4 DEF RemoveObject, DeleteObject, Write, Fails, TransactionInv,
                  SessionPhaseOK, WritePhases
    <2>2. CASE pc' = "rm_commit" /\ children' = [children EXCEPT ![call.id] = {}]
               /\ call' = call
      <3>1. Unlinked(call.id) /\ call.id \in Ids
        BY <1>4 DEF RemoveObject, TreeInv, PhaseOK
      <3>2. children' = children
        BY <1>0, <2>2, <3>1 DEF Unlinked
      <3> QED
        BY <1>4, <2>1, <2>2, <3>1, <3>2
        DEF RemoveObject, LinksInv, Fresh, Leaving, Unlinked
    <2>3. CASE link # "open"
      BY <2>1, <2>3 DEF LinksInv
    <2> QED
      BY <1>4, <2>2, <2>3, FailureIsLoss DEF RemoveObject
  <1>5. CASE RemoveCommit
    <2>1. CASE link = "open"
      <3>1. stored'.objects = stored.objects \ {call.id} /\ link' = link
        BY <1>5, <2>1 DEF RemoveCommit, Commit, OnOpenSession, TransactionShape
      <3>2. /\ pc = "rm_commit" /\ pc' = "rm_restore" /\ children' = children
            /\ Unlinked(call.id)
        BY <1>5, <2>1 DEF RemoveCommit, LinksInv
      <3> QED
        BY <1>0, <2>1, <3>1, <3>2
        DEF LinksInv, Fresh, Leaving, Unlinked, Database
    <2>2. CASE link # "open"
      BY <1>5, <2>2 DEF RemoveCommit, Commit, OnOpenSession, LinksInv
    <2> QED
      BY <2>1, <2>2
  <1>6. CASE RemoveRollback \/ RemoveRestore
    <2>1. CASE link = "open"
      <3>1. pending = stored
        BY <1>6, <2>1 DEF RemoveRollback, RemoveRestore, TransactionInv,
                          SessionPhaseOK, OpenPhases
      <3> QED
        BY <1>6, <2>1, <3>1, QuietKeepsLinks
        DEF RemoveRollback, RemoveRestore, Rollback, AutocommitOn, OnOpenSession
    <2>2. CASE link # "open"
      BY <1>6, <2>2 DEF RemoveRollback, RemoveRestore, Rollback, AutocommitOn,
                        OnOpenSession, LinksInv
    <2> QED
      BY <2>1, <2>2
  <1> QED
    BY <1>1, <1>2, <1>3, <1>4, <1>5, <1>6 DEF RemoveStep

LEMMA LinksHold ==
  ASSUME NoStatementFails
  PROVE  Spec => []LinksInv
  <1>1. Init => LinksInv
    BY DEF Init, LinksInv
  <1>2. TreeInv /\ TransactionInv /\ ObjectsInv /\ TransactionShape /\ RootInv
          /\ LinksInv /\ [Next]_vars => LinksInv'
    <2> SUFFICES ASSUME TreeInv, TransactionInv, ObjectsInv, TransactionShape,
                        RootInv, LinksInv, [Next]_vars
                 PROVE  LinksInv'
      OBVIOUS
    <2>1. CASE Start \/ StartFails \/ LoadFails \/ Crash \/ Stop \/ ConnectionLost
      BY <2>1 DEF Start, StartFails, LoadFails, Crash, Stop, Die, Goto,
                  ConnectionLost, LoseConnection, LinksInv
    <2>2. CASE LoadObjects
      BY <2>2 DEF LoadObjects, Continue, Goto, LinksInv
    <2>3. CASE LoadRelationships
      BY <2>3, LoadKeepsLinks
    <2>4. CASE Call
      BY <2>4, QuietKeepsLinks
      DEF Call, CallAddNode, CallRemoveNode, Goto, memVars, dbVars, RemovalPhases
    <2>5. CASE AddStep \/ RemoveStep
      BY <2>5, AddKeepsLinks, RemoveKeepsLinks
    <2>6. CASE UNCHANGED vars
      BY <2>6 DEF vars, dbVars, memVars, localVars, LinksInv, Fresh, Leaving, Unlinked
    <2> QED
      BY <2>1, <2>2, <2>3, <2>4, <2>5, <2>6 DEF Next, Work, LoadStep
  <1> QED
    BY <1>1, <1>2, InvariantHolds, TransactionsHold, ObjectsInvHolds, ShapeHolds,
       RootHolds, PTL DEF Spec

-----------------------------------------------------------------------------
(* Whatever nodeToJson reaches from a set of nodes is one of them, or the   *)
(* child of a node.                                                         *)
LEMMA ReachedIsLinked ==
  ASSUME TreeInv, NEW start
  PROVE  \A c \in Below(start) :
           c \in start \/ \E p \in Keys : c \in children[p]
  <1> SUFFICES ASSUME NEW n \in 0..MaxId, NEW c \in Level(start)[n]
               PROVE  c \in start \/ \E p \in Keys : c \in children[p]
    BY DEF Below
  <1>0. nodes \subseteq Keys
    BY DEF TreeInv, TypeOK
  <1>1. \A k \in 0..MaxId + 1 : Level(start)[k] \subseteq nodes
    BY LevelSteps, MaxIdAssumption DEF NextLevel
  <1>2. CASE n = 0
    BY <1>2, LevelSteps
  <1>3. CASE n # 0
    <2>1. n \in 1..MaxId + 1 /\ n - 1 \in 0..MaxId + 1
      BY <1>3, MaxIdAssumption
    <2>2. PICK p \in Level(start)[n - 1] : c \in children[p]
      BY <2>1, LevelSteps DEF NextLevel
    <2> QED
      BY <1>0, <1>1, <2>1, <2>2
  <1> QED
    BY <1>2, <1>3

(* One level further down.                                                  *)
LEMMA ChildIsReached ==
  ASSUME TreeInv, NEW start, NEW n \in 0..MaxId, NEW p \in Level(start)[n],
         NEW c \in children[p] \cap nodes
  PROVE  c \in Level(start)[n + 1]
  <1>1. n + 1 \in 1..MaxId + 1 /\ (n + 1) - 1 = n
    BY MaxIdAssumption
  <1> QED
    BY <1>1, LevelSteps DEF NextLevel

LEMMA CommittedIsReached ==
  ASSUME TreeInv, ParentsOlder, RootInv, LinksInv, CacheCoversDatabase,
         Serving, link = "open"
  PROVE  stored.objects \subseteq Shown \cup Below(SelfParents)
  <1> DEFINE Reached(c) == \E n \in 0..c : \/ c \in Level({SuperRoot})[n]
                                           \/ c \in Level(SelfParents)[n]
             Missed == {c \in stored.objects : ~ Reached(c)}
  <1>0. /\ stored.objects \subseteq Ids /\ stored.objects \subseteq nodes
        /\ SuperRoot \in nodes /\ SuperRoot \notin Ids
        /\ \A c \in stored.objects :
             \E p \in stored.objects \cup {SuperRoot} : c \in children[p]
    BY MaxIdAssumption
    DEF TreeInv, TypeOK, MySQLTypeOK, Database, RootInv, Serving,
        CacheCoversDatabase, LinksInv, Fresh, Leaving, RemovalPhases, Ids, SuperRoot
  <1>7. Ids \subseteq Nat /\ \A c \in Ids : c \in 1..MaxId
    BY MaxIdAssumption DEF Ids
  <1>1. ASSUME NEW c \in stored.objects,
               \A p \in stored.objects : p < c => Reached(p)
        PROVE  Reached(c)
    <2> HIDE DEF Reached
    <2>0. c \in 1..MaxId /\ c \in nodes
      BY <1>0, <1>7
    <2>1. PICK p \in stored.objects \cup {SuperRoot} : c \in children[p]
      BY <1>0
    <2>2. CASE p = SuperRoot
      <3>1. SuperRoot \in Level({SuperRoot})[0]
        BY <1>0, LevelSteps
      <3>2. 0 \in 0..MaxId /\ 1 \in 0..c /\ 0 + 1 = 1
        BY <2>0, MaxIdAssumption
      <3>3. c \in Level({SuperRoot})[0 + 1]
        BY <2>0, <2>1, <2>2, <3>1, <3>2, ChildIsReached
      <3> QED
        BY <3>2, <3>3 DEF Reached
    <2>3. CASE p = c
      <3>1. c \in SelfParents
        BY <1>0, <2>1, <2>3 DEF SelfParents
      <3>2. c \in Level(SelfParents)[0]
        BY <2>0, <3>1, LevelSteps
      <3>3. 0 \in 0..c
        BY <2>0
      <3> QED
        BY <3>2, <3>3 DEF Reached
    <2>4. CASE p \in stored.objects /\ p # c
      <3>1. p \in 1..MaxId /\ p <= c
        BY <1>0, <1>7, <2>1, <2>4 DEF ParentsOlder
      <3>2. Reached(p)
        BY <1>1, <2>0, <2>4, <3>1
      <3>3. PICK n \in 0..p : \/ p \in Level({SuperRoot})[n]
                             \/ p \in Level(SelfParents)[n]
        BY <3>2 DEF Reached
      <3>4. n \in 0..MaxId /\ n + 1 \in 0..c
        BY <2>0, <2>4, <3>1, <3>3, MaxIdAssumption
      <3>5. \/ c \in Level({SuperRoot})[n + 1]
            \/ c \in Level(SelfParents)[n + 1]
        BY <2>0, <2>1, <3>3, <3>4, ChildIsReached
      <3> QED
        BY <3>4, <3>5 DEF Reached
    <2> QED
      BY <2>1, <2>2, <2>3, <2>4
  <1> HIDE DEF Reached
  <1>2. Missed = {}
    <2> SUFFICES ASSUME Missed # {} PROVE FALSE
      OBVIOUS
    <2>0. Missed \subseteq stored.objects /\ Missed \subseteq Nat
      BY <1>0, <1>7
    <2>1. PICK c \in Missed : \A d \in Missed : c <= d
      <3> HIDE DEF Missed
      <3> QED
        BY <2>0, LeastNumber
    <2>2. \A d \in stored.objects : d < c => Reached(d)
      BY <2>0, <2>1
    <2> QED
      BY <1>1, <2>1, <2>2
  <1>3. ASSUME NEW c \in stored.objects
        PROVE  c \in Shown \cup Below(SelfParents)
    <2>0. Reached(c)
      BY <1>2
    <2>1. PICK n \in 0..c : \/ c \in Level({SuperRoot})[n]
                           \/ c \in Level(SelfParents)[n]
      BY <2>0 DEF Reached
    <2>2. c \in 1..MaxId
      BY <1>0, <1>7
    <2>3. n \in 0..MaxId
      BY <2>1, <2>2, MaxIdAssumption
    <2> QED
      BY <2>1, <2>3 DEF Shown, Below
  <1> QED
    BY <1>3

(* /api/tree shows what is committed and nothing else, between two calls    *)
(* and with the session there, but for an object that was made its own      *)
(* parent and what hangs below it.                                          *)
THEOREM TreeShowsTheTables ==
  ASSUME NoStatementFails
  PROVE  Spec => []ShownIsCommitted
  <1>1. TreeInv /\ ParentsOlder /\ RootInv /\ LinksInv /\ CacheCoversDatabase
          => ShownIsCommitted
    <2> SUFFICES ASSUME TreeInv, ParentsOlder, RootInv, LinksInv,
                        CacheCoversDatabase, Serving, link = "open"
                 PROVE  /\ Shown \subseteq stored.objects \cup {SuperRoot}
                        /\ stored.objects \subseteq Shown \cup Below(SelfParents)
      BY DEF ShownIsCommitted
    <2>1. \A p \in Keys : children[p] \subseteq stored.objects
      BY DEF LinksInv, Serving, Fresh
    <2>2. Shown \subseteq stored.objects \cup {SuperRoot}
      BY <2>1, ReachedIsLinked DEF Shown
    <2> QED
      BY <2>2, CommittedIsReached
  <1> QED
    BY <1>1, InvariantHolds, ParentsOlderHolds, RootHolds, LinksHold,
       CacheIsComplete, PTL
=============================================================================
