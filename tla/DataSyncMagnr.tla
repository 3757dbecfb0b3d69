--------------------------- MODULE DataSyncMagnr ---------------------------
(***************************************************************************)
(* Class DataSyncMagnr (include/DataSyncMagnr.cpp): a tree of ObjectNodes  *)
(* kept in memory beside the two tables it mirrors.                        *)
(*                                                                         *)
(* The HTTP server has one worker thread, so calls do not overlap; what    *)
(* comes between the steps of a call is failure.  Each action is one       *)
(* statement sent to the database together with the memory updates that    *)
(* follow it, because nothing can be observed between the two; pc names    *)
(* the statement that is next.                                             *)
(***************************************************************************)
EXTENDS MySQLDB

CONSTANTS
  Names,           \* the names that clients give
  RejectedNames,   \* names that MySQL refuses: a quote, or too long
  SerialRules,     \* what it may make of a row without a serial
  SeedCount,       \* the database starts with the objects 1..SeedCount
  SeedRels         \* and with these relationships

ASSUME NamesAssumption == RejectedNames \subseteq Names

(* The column serial is NOT NULL UNIQUE and has no default, and the INSERT  *)
(* of addNode names none.  A server in strict mode refuses the row, another *)
(* one writes a blank serial, which no second row can have; only where the  *)
(* column gets a value of its own does every row have its serial.  Which of *)
(* them it is, is set outside the program, at any time.                     *)
ASSUME SerialAssumption ==
  SerialRules \subseteq {"refused", "blank", "given"} /\ SerialRules # {}

(* The seed is a forest, and no parent is younger than its child. *)
ASSUME SeedAssumption ==
  /\ SeedCount \in 0..MaxId
  /\ SeedRels \subseteq (1..SeedCount) \X (1..SeedCount)
  /\ \A r \in SeedRels : r[1] < r[2]
  /\ \A r, s \in SeedRels : r[2] = s[2] => r = s

(* SUPER_ROOT_ID is UINT_MAX, which is -1 as an int key of nodes.           *)
SuperRoot == -1
Keys == Ids \cup {SuperRoot}

(* Every int that is not the id of an object, now or later, nor SuperRoot.  *)
NoId == 0
Args == Keys \cup {NoId}

(* A call in progress.  parent = SuperRoot is the "no parent" of addNode.   *)
AddCall == [op : {"add"}, name : Names, parent : Args]
RemoveCall == [op : {"remove"}, id : Args]
NoCall == [op |-> "none"]

Phases ==
  {"down", "loadObjects", "loadRelationships", "serving",
   "add_begin", "add_insert", "add_lastid", "add_relate", "add_rollback",
   "add_commit",
   "rm_begin", "rm_select", "rm_relationships", "rm_object", "rm_commit",
   "rm_restore", "rm_rollback", "rm_abort"}

(* How the last process ended. *)
Exits == {"none", "killed", "stopped", "segfault"}

VARIABLES
  nodes,     \* the keys of the map nodes
  children,  \* ids in the children of each node; a weak_ptr to c has
             \* expired iff c is not in nodes
  pc,        \* the next statement of the process, or "down", or "serving"
  call,      \* the call in progress
  newId,     \* new_id of addNode, 0 before it is known
  parentId,  \* parent_id of removeNode, 0 before it is known
  ret,       \* what the last call returned; 0 for removeNode, a void
  exit

memVars == <<nodes, children>>
localVars == <<call, newId, parentId>>
vars == <<dbVars, memVars, pc, localVars, ret, exit>>

(* Types: the map and the child pointers hold only ids of objects, and a    *)
(* call in progress is one that a route can make.                           *)
TypeOK ==
  /\ MySQLTypeOK
  /\ nodes \in SUBSET Keys
  /\ children \in [Keys -> SUBSET Ids]
  /\ pc \in Phases
  /\ call \in AddCall \cup RemoveCall \cup {NoCall}
  /\ newId \in Ids \cup {0}
  /\ parentId \in Ids \cup {0}
  /\ ret \in Ids \cup {-1, 0}
  /\ exit \in Exits

Init ==
  /\ stored = [objects |-> 1..SeedCount, rels |-> SeedRels]
  /\ pending = stored
  /\ autocommit = TRUE
  /\ link = "none"
  /\ autoInc = SeedCount + 1
  /\ nodes = {}
  /\ children = [k \in Keys |-> {}]
  /\ pc = "down"
  /\ call = NoCall
  /\ newId = 0
  /\ parentId = 0
  /\ ret = 0
  /\ exit = "none"

-----------------------------------------------------------------------------
(* Mutant: every new node is pushed below the super root. *)
PushedToRoot(p, c) == [children EXCEPT ![SuperRoot] = @ \cup {c}]

(* ObjectNode::pushChild *)
WithChild(p, c) == [children EXCEPT ![p] = @ \cup {c}]

(* Mutant: the child stays with its parent. *)
KeptChild(p, c) == children

(* ObjectNode::removeChild, which drops the expired children on its way.    *)
WithoutChild(p, c) == [children EXCEPT ![p] = (@ \cap nodes) \ {c}]

(* The rows whose two ends are in the map; the others are skipped.          *)
LinkedRows(db) == {r \in db.rels : {r[1], r[2]} \subseteq nodes}

(* Mutants: every node is also taken for a root; no node is.                *)
TreeWithAllAsRoots(db) ==
  [p \in Keys |-> IF p = SuperRoot
                    THEN nodes \ {SuperRoot}
                    ELSE {c \in Ids : <<p, c>> \in LinkedRows(db)}]

TreeWithoutRoots(db) ==
  [p \in Keys |-> {c \in Ids : <<p, c>> \in LinkedRows(db)}]

(* The tables as the constructor turns them into a tree: rows become edges, *)
(* and what is nobody's child hangs below the super root.                   *)
TreeOf(db) ==
  [p \in Keys |->
     IF p = SuperRoot
       THEN {n \in nodes \ {SuperRoot} : \A r \in LinkedRows(db) : r[2] # n}
       ELSE {c \in Ids : <<p, c>> \in LinkedRows(db)}]

Goto(label) == pc' = label

(* The call is over: back to the route, which answers. *)
Return(value) ==
  /\ Goto("serving")
  /\ ret' = value
  /\ call' = NoCall
  /\ newId' = 0
  /\ parentId' = 0
  /\ UNCHANGED exit

(* The call goes on, its locals as they are. *)
Continue(label) ==
  /\ Goto(label)
  /\ UNCHANGED <<localVars, ret, exit>>

-----------------------------------------------------------------------------
(* The constructor. *)

(* The process starts and connects. *)
Start ==
  /\ pc = "down"
  /\ Connect
  /\ nodes' = {SuperRoot}
  /\ children' = [k \in Keys |-> {}]
  /\ Goto("loadObjects")
  /\ exit' = "none"
  /\ UNCHANGED <<localVars, ret>>

(* The end of the process, whatever its cause. *)
Die(cause) ==
  /\ Disconnect
  /\ nodes' = {}
  /\ children' = [k \in Keys |-> {}]
  /\ Goto("down")
  /\ call' = NoCall
  /\ newId' = 0
  /\ parentId' = 0
  /\ ret' = 0
  /\ exit' = cause

(* connect() returns false, and the constructor goes on: the query that     *)
(* follows dereferences the null connection, or its null result.            *)
StartFails ==
  /\ pc = "down"
  /\ "connection" \in Faults
  /\ Die("segfault")

LoadObjects ==
  /\ pc = "loadObjects"
  /\ Query
  /\ nodes' = nodes \cup pending.objects
  /\ Continue("loadRelationships")
  /\ UNCHANGED children

(* A child that has a parent row whose parent is unknown would be a root.   *)
LoadRelationships ==
  /\ pc = "loadRelationships"
  /\ Query
  /\ children' = TreeOf(pending)
  /\ Continue("serving")
  /\ UNCHANGED nodes

(* executeQuery returned a null pointer, and res->next() dereferences it.   *)
LoadFails ==
  /\ pc \in {"loadObjects", "loadRelationships"}
  /\ link = "lost" \/ "statement" \in Faults
  /\ Die("segfault")

-----------------------------------------------------------------------------
(* addNode *)

(* The guard on autoInc is the bound of the exploration. *)
CallAddNode(name, parent) ==
  /\ pc = "serving"
  /\ autoInc <= MaxId
  /\ call' = [op |-> "add", name |-> name, parent |-> parent]
  /\ ret' = 0
  /\ Goto("add_begin")
  /\ UNCHANGED <<dbVars, memVars, newId, parentId, exit>>

AddBegin ==
  /\ pc = "add_begin"
  /\ AutocommitOff
  /\ Continue("add_insert")
  /\ UNCHANGED memVars

(* The objects of the seed have serials of their own. *)
SerialAccepted(rule) ==
  CASE rule = "refused" -> FALSE
    [] rule = "blank"   -> pending.objects \subseteq 1..SeedCount
    [] rule = "given"   -> TRUE

Accepted(name) ==
  name \notin RejectedNames /\ \E rule \in SerialRules : SerialAccepted(rule)
Refusable(name) ==
  name \in RejectedNames \/ \E rule \in SerialRules : ~SerialAccepted(rule)

AddInsert ==
  /\ pc = "add_insert"
  /\ \/ /\ Accepted(call.name)
        /\ InsertObject
        /\ Continue("add_lastid")
     \/ /\ Fails \/ (Refusable(call.name) /\ Refused)
        /\ Continue("add_rollback")
  /\ UNCHANGED memVars

AddRollback ==
  /\ pc = "add_rollback"
  /\ Rollback
  /\ Return(-1)
  /\ UNCHANGED memVars

(* LAST_INSERT_ID(); the node enters the map, and a node without a parent   *)
(* goes below the super root.                                               *)
AddLastId ==
  /\ pc = "add_lastid"
  /\ \/ /\ Query
        /\ newId' = LastInsertId
        /\ nodes' = nodes \cup {LastInsertId}
        /\ IF call.parent = SuperRoot
             THEN /\ children' = WithChild(SuperRoot, LastInsertId)
                  /\ Goto("add_commit")
             ELSE /\ UNCHANGED children
                  /\ Goto("add_relate")
        /\ UNCHANGED <<call, parentId, ret, exit>>
     \/ /\ Fails
        /\ Return(-1)
        /\ UNCHANGED memVars

(* The row first, then the parent in memory. *)
AddRelate ==
  /\ pc = "add_relate"
  /\ \/ /\ InsertRelationship(call.parent, newId)
        /\ IF call.parent \in nodes
             THEN /\ children' = WithChild(call.parent, newId)
                  /\ Continue("add_commit")
             ELSE /\ UNCHANGED children
                  /\ Continue("add_rollback")
     \/ /\ Fails \/ (~CanRelate(pending, call.parent, newId) /\ Refused)
        /\ UNCHANGED children
        /\ Continue("add_rollback")
  /\ UNCHANGED nodes

AddCommit ==
  /\ pc = "add_commit"
  /\ AutocommitOn
  /\ Return(newId)
  /\ UNCHANGED memVars

-----------------------------------------------------------------------------
(* removeNode *)

CallRemoveNode(id) ==
  /\ pc = "serving"
  /\ call' = [op |-> "remove", id |-> id]
  /\ ret' = 0
  /\ Goto("rm_begin")
  /\ UNCHANGED <<dbVars, memVars, newId, parentId, exit>>

(* Mutant: the check for children is forgotten. *)
KnownNode(id) == id \in nodes

Removable(id) == id \in nodes /\ children[id] = {}

RemoveBegin ==
  /\ pc = "rm_begin"
  /\ \/ /\ Removable(call.id)
        /\ AutocommitOff
        /\ Continue("rm_select")
     \/ /\ ~Removable(call.id)
        /\ Return(0)
        /\ UNCHANGED dbVars
  /\ UNCHANGED memVars

(* A node without a parent row is not removed: the call ends here, with     *)
(* autocommit still off.                                                    *)
RemoveSelect ==
  /\ pc = "rm_select"
  /\ \/ /\ Query
        /\ \E p \in ParentsOf(pending, call.id) :
             IF p \in nodes
               THEN /\ children' = WithoutChild(p, call.id)
                    /\ parentId' = p
                    /\ Goto("rm_relationships")
                    /\ UNCHANGED <<call, newId, ret, exit>>
               ELSE /\ Continue("rm_abort")
                    /\ UNCHANGED children
        /\ UNCHANGED nodes
     \/ /\ Query
        /\ ParentsOf(pending, call.id) = {}
        /\ Return(0)
        /\ UNCHANGED memVars
     \/ /\ Fails
        /\ Return(0)
        /\ UNCHANGED memVars

(* WHERE parent_id = ...: the rows of all the parent's children. *)
RemoveRelationships ==
  /\ pc = "rm_relationships"
  /\ \/ DeleteRelationshipsOf(parentId) /\ Continue("rm_object")
     \/ Fails /\ Continue("rm_rollback")
  /\ UNCHANGED memVars

RemoveObject ==
  /\ pc = "rm_object"
  /\ \/ /\ DeleteObject(call.id)
        /\ nodes' = nodes \ {call.id}
        /\ children' = [children EXCEPT ![call.id] = {}]
        /\ Continue("rm_commit")
     \/ /\ Fails
        /\ Continue("rm_rollback")
        /\ UNCHANGED memVars

RemoveCommit ==
  /\ pc = "rm_commit"
  /\ Commit
  /\ Continue("rm_restore")
  /\ UNCHANGED memVars

(* After a failed DELETE the call ends with the rollback; after a parent    *)
(* that is not in the map it also turns autocommit on again.                *)
RemoveRollback ==
  /\ pc \in {"rm_rollback", "rm_abort"}
  /\ Rollback
  /\ IF pc = "rm_abort" THEN Continue("rm_restore") ELSE Return(0)
  /\ UNCHANGED memVars

RemoveRestore ==
  /\ pc = "rm_restore"
  /\ AutocommitOn
  /\ Return(0)
  /\ UNCHANGED memVars

-----------------------------------------------------------------------------
(* What may come between two statements. *)

ConnectionLost ==
  /\ LoseConnection
  /\ UNCHANGED <<memVars, pc, localVars, ret, exit>>

Crash ==
  /\ "crash" \in Faults
  /\ pc # "down"
  /\ Die("killed")

(* SIGINT or SIGTERM: the worker finishes its handler first. *)
Stop ==
  /\ pc = "serving"
  /\ Die("stopped")

AddStep ==
  AddBegin \/ AddInsert \/ AddRollback \/ AddLastId \/ AddRelate \/ AddCommit

RemoveStep ==
  \/ RemoveBegin \/ RemoveSelect \/ RemoveRelationships \/ RemoveObject
  \/ RemoveCommit \/ RemoveRollback \/ RemoveRestore

LoadStep == LoadObjects \/ LoadRelationships \/ LoadFails

(* What the worker thread does by itself once it has a call. *)
Work == LoadStep \/ AddStep \/ RemoveStep

Call ==
  \/ \E name \in Names, parent \in Args : CallAddNode(name, parent)
  \/ \E id \in Args : CallRemoveNode(id)

Next ==
  \/ Start \/ StartFails
  \/ Work
  \/ Call
  \/ ConnectionLost \/ Crash \/ Stop

Spec == Init /\ [][Next]_vars

(* The worker runs a handler to its end, and every statement returns.       *)
FairSpec == Spec /\ WF_vars(Work)

=============================================================================
