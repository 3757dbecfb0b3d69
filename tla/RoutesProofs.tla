---------------------------- MODULE RoutesProofs ----------------------------
(***************************************************************************)
(* Proofs about the routes: they only do with the manager what Spec allows, *)
(* and what a client was acknowledged survives crashes and failing          *)
(* statements, as long as the session itself is not lost.                   *)
(***************************************************************************)
EXTENDS Routes, TreeProofs

-----------------------------------------------------------------------------
(* A handler calls the manager with a name and with an int that it knows or *)
(* that is no id.                                                           *)
LEMMA HandlersCallProperly ==
  /\ \A n : ArgOf(n) \in Args
  /\ \A name \in NameField :
       name.t = "string" => name.s \in Names
  BY DEF ArgOf, Args, NoId, NameField, NumberField, OtherField

LEMMA RoutesStepIsManagerStep ==
  RoutesNext => [Next]_vars
  <1> SUFFICES ASSUME RoutesNext PROVE [Next]_vars
    OBVIOUS
  <1>1. CASE GetTree \/ GetVerify \/ GetHelloWorld
    BY <1>1 DEF GetTree, GetVerify, GetHelloWorld, Answer
  <1>2. CASE Post
    <2>1. ASSUME NEW route, PostInvalid(route) \/ PostScalar(route)
          PROVE  UNCHANGED vars
      BY <2>1 DEF PostInvalid, PostScalar, Answer
    <2>2. ASSUME NEW name \in NameField,
                 NEW parent, PostAddNode(name, parent)
          PROVE  UNCHANGED vars \/ Call
      BY <2>2, HandlersCallProperly DEF PostAddNode, Answer, Call, Args, Keys
    <2>3. ASSUME NEW id, PostRemoveNode(id)
          PROVE  UNCHANGED vars \/ Call
      BY <2>3, HandlersCallProperly DEF PostRemoveNode, Answer, Call
    <2> QED
      BY <1>2, <2>1, <2>2, <2>3 DEF Post, Next
  <1>3. CASE Handle \/ Load \/ ProcessEvent
    BY <1>3 DEF Handle, Load, ProcessEvent, Next, Work
  <1> QED
    BY <1>1, <1>2, <1>3 DEF RoutesNext

(* Every behaviour of the server is a behaviour of the manager: what is     *)
(* proved of the tree and the tables holds whatever requests are made.      *)
THEOREM RoutesUseTheManager == RoutesSpec => Spec
  <1>1. RoutesInit => Init
    BY DEF RoutesInit
  <1>2. [RoutesNext]_routeVars => [Next]_vars
    BY RoutesStepIsManagerStep DEF routeVars
  <1> QED
    BY <1>1, <1>2, PTL DEF RoutesSpec, Spec

-----------------------------------------------------------------------------
(* The session lasts as long as the process.                                *)
SessionLasts == "connection" \notin Faults

(* A statement of addNode keeps what was acknowledged, and the id that it   *)
(* returns is committed.                                                    *)
LEMMA AddKeepsAcks ==
  ASSUME SessionLasts, TreeInv, AckInv, AddStep, Handle
  PROVE  AckInv'
  <1> USE DEF AckInv, Continue, Goto, Return, memVars, localVars
  <1>1. /\ link = "open" /\ call \in AddCall /\ acked \subseteq Ids
        /\ stored \in Database /\ pending \in Database
    BY DEF AddStep, AddBegin, AddInsert, AddRollback, AddLastId, AddRelate,
           AddCommit, TreeInv, PhaseOK, TypeOK, MySQLTypeOK, Database
  <1>0. {-1, 0} \cap Ids = {}
    BY MaxIdAssumption DEF Ids
  <1>2. CASE AddBegin
    BY <1>1, <1>2 DEF AddBegin, AutocommitOff, OnOpenSession, Handle, Returns,
                      AddCall, RemoveCall, LastInsertId
  <1>3. CASE AddInsert
    BY <1>1, <1>3 DEF AddInsert, InsertObject, Write, WithObject, Fails, Refused,
                      dbVars, Handle, Returns, AddCall, RemoveCall, LastInsertId,
                      TreeInv, TypeOK, MySQLTypeOK, Database
  <1>4. CASE AddRollback
    BY <1>0, <1>1, <1>4 DEF AddRollback, Rollback, OnOpenSession, Handle,
                            Returns, AddCall, RemoveCall, NoCall
  <1>5. CASE AddLastId
    BY <1>0, <1>1, <1>5 DEF AddLastId, Query, Fails, dbVars, Handle, Returns,
                            AddCall, RemoveCall, NoCall, LastInsertId
  <1>6. CASE AddRelate
    BY <1>1, <1>6 DEF AddRelate, InsertRelationship, Write, WithRelationship,
                      Fails, Refused, dbVars, Handle, Returns, AddCall, RemoveCall,
                      Database
  <1>7. CASE AddCommit
    BY <1>1, <1>7 DEF AddCommit, AutocommitOn, OnOpenSession, Handle, Returns,
                      AddCall, RemoveCall, NoCall
  <1> QED
    BY <1>2, <1>3, <1>4, <1>5, <1>6, <1>7 DEF AddStep

(* A removal takes away the object that its client asked for, and no other. *)
LEMMA RemoveKeepsAcks ==
  ASSUME SessionLasts, TreeInv, AckInv, RemoveStep, Handle
  PROVE  AckInv'
  <1> USE DEF AckInv, Continue, Goto, Return, memVars, localVars
  <1>1. link = "open" /\ stored \in Database /\ pending \in Database
    BY DEF RemoveStep, RemoveBegin, RemoveSelect, RemoveRelationships,
           RemoveObject, RemoveCommit, RemoveRollback, RemoveRestore, TreeInv,
           TypeOK, MySQLTypeOK
  <1>2. acked' = acked
    BY DEF RemoveStep, RemoveBegin, RemoveSelect, RemoveRelationships,
           RemoveObject, RemoveCommit, RemoveRollback, RemoveRestore, Handle,
           Returns, Ids
  <1>3. CASE RemoveBegin \/ RemoveSelect
    BY <1>1, <1>2, <1>3 DEF RemoveBegin, RemoveSelect, AutocommitOff,
                            OnOpenSession, Query, Fails, dbVars, RemoveCall, NoCall
  <1>4. CASE RemoveRelationships
    BY <1>1, <1>2, <1>4 DEF RemoveRelationships, DeleteRelationshipsOf, Write,
                            WithoutChildrenOf, Fails, dbVars, Database
  <1>5. CASE RemoveObject
    <2>1. call \in RemoveCall
      BY <1>5 DEF RemoveObject, TreeInv, PhaseOK
    <2> QED
      BY <1>1, <1>2, <1>5, <2>1 DEF RemoveObject, DeleteObject, Write,
                                    WithoutObject, Fails, dbVars
  <1>6. CASE RemoveCommit \/ RemoveRollback \/ RemoveRestore
    BY <1>1, <1>2, <1>6 DEF RemoveCommit, RemoveRollback, RemoveRestore, Commit,
                            Rollback, AutocommitOn, OnOpenSession, RemoveCall, NoCall
  <1> QED
    BY <1>3, <1>4, <1>5, <1>6 DEF RemoveStep

LEMMA NextKeepsAcks ==
  ASSUME SessionLasts
  PROVE  TreeInv /\ AckInv /\ [RoutesNext]_routeVars => AckInv'
  <1> SUFFICES ASSUME TreeInv, AckInv, [RoutesNext]_routeVars
               PROVE  AckInv'
    OBVIOUS
  <1> USE DEF AckInv
  <1>1. ASSUME UNCHANGED vars, acked' \subseteq acked
        PROVE  AckInv'
    BY <1>1 DEF vars, dbVars, localVars, LastInsertId
  <1>2. CASE GetTree \/ GetVerify \/ GetHelloWorld
    BY <1>1, <1>2 DEF GetTree, GetVerify, GetHelloWorld, Answer
  <1>3. CASE Post
    <2>1. ASSUME NEW route, PostInvalid(route) \/ PostScalar(route)
          PROVE  AckInv'
      BY <1>1, <2>1 DEF PostInvalid, PostScalar, Answer
    <2>2. ASSUME NEW name, NEW parent, PostAddNode(name, parent)
          PROVE  AckInv'
      BY <1>1, <2>2 DEF PostAddNode, Answer, CallAddNode, Goto, dbVars, RemoveCall
    <2>3. ASSUME NEW id, PostRemoveNode(id)
          PROVE  AckInv'
      <3>1. CASE Answer(Status("remove", 500))
        BY <1>1, <3>1 DEF Answer
      <3>2. ASSUME NEW n, CallRemoveNode(ArgOf(n)), acked' = acked \ {n}
            PROVE  AckInv'
        <4>1. ArgOf(n) \notin acked'
          BY <3>2 DEF ArgOf, NoId, Ids, TreeInv, TypeOK, MySQLTypeOK, Database
        <4> QED
          BY <3>2, <4>1 DEF CallRemoveNode, Goto, dbVars
      <3> QED
        BY <2>3, <3>1, <3>2 DEF PostRemoveNode
    <2> QED
      BY <1>3, <2>1, <2>2, <2>3 DEF Post
  <1>4. CASE Handle
    BY <1>4, AddKeepsAcks, RemoveKeepsAcks DEF Handle
  <1>5. CASE Load
    BY <1>5 DEF Load, LoadStep, LoadObjects, LoadRelationships, LoadFails, Query,
                dbVars, Die, Disconnect, Continue, Goto, localVars, NoCall, RemoveCall
  <1>6. CASE ProcessEvent
    BY <1>6 DEF ProcessEvent, Start, Connect, StartFails, ConnectionLost,
                LoseConnection, SessionLasts, Crash, Stop, Die, Disconnect, Goto,
                localVars, NoCall, RemoveCall
  <1>7. CASE UNCHANGED routeVars
    BY <1>1, <1>7 DEF routeVars
  <1> QED
    BY <1>2, <1>3, <1>4, <1>5, <1>6, <1>7 DEF RoutesNext

(* An id that a client was given by a 201 stays in the committed tables     *)
(* until a client asks for its removal, whatever statements fail and        *)
(* wherever the process is killed.                                          *)
THEOREM AcknowledgedStays ==
  ASSUME SessionLasts
  PROVE  RoutesSpec => []AcknowledgedSurvive
  <1>1. RoutesInit => AckInv
    BY DEF RoutesInit, Init, AckInv, NoCall, RemoveCall
  <1>2. TreeInv /\ AckInv /\ [RoutesNext]_routeVars => AckInv'
    BY NextKeepsAcks
  <1>3. AckInv => AcknowledgedSurvive
    BY DEF AckInv, AcknowledgedSurvive
  <1> QED
    BY <1>1, <1>2, <1>3, RoutesUseTheManager, InvariantHolds, PTL DEF RoutesSpec

=============================================================================
