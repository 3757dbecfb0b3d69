--------------------------- MODULE TreeProperties ---------------------------
(***************************************************************************)
(* What is checked of DataSyncMagnr: the tree in memory by itself, the     *)
(* tables by themselves, and each against the other.                       *)
(***************************************************************************)
EXTENDS DataSyncMagnr

Serving == pc = "serving"

(* The tree is built, no addNode is in progress, the session answers.       *)
Mirrored ==
  /\ pc \notin {"down", "loadObjects", "loadRelationships"}
  /\ call.op # "add"
  /\ link = "open"

-----------------------------------------------------------------------------
(* The tree in memory *)

(* No child pointer is expired: validate_tree always answers "tree good",   *)
(* and the branches of nodeToJson and removeChild for expired children are  *)
(* never taken.                                                             *)
NoDangling == \A p \in Keys : children[p] \subseteq nodes

(* Nobody is the child of two nodes, so nodeToJson writes a node once.      *)
UniqueParent ==
  \A p, q \in Keys : children[p] \cap children[q] # {} => p = q

(* The nodes that nodeToJson reaches n calls below start.                   *)
Level(start) ==
  LET level[n \in 0..(MaxId + 1)] ==
        IF n = 0
          THEN start \cap nodes
          ELSE UNION {children[p] \cap nodes : p \in level[n - 1]}
  IN  level

Below(start) == UNION {Level(start)[n] : n \in 0..MaxId}

(* What /api/tree answers with. *)
Shown == Below({SuperRoot})

(* The recursion of nodeToJson comes to an end: no cycle hangs below the    *)
(* super root, though add_node accepts a parent_id that is not allocated    *)
(* yet, the node's own id included.                                         *)
TreeTerminates == Level({SuperRoot})[MaxId + 1] = {}

-----------------------------------------------------------------------------
(* The tables *)

(* What the schema does not ask for and the constructor relies on: an       *)
(* object has one parent row at most.  With it, the two foreign keys.       *)
RowsOK(db) ==
  /\ \A r \in db.rels : {r[1], r[2]} \subseteq db.objects
  /\ \A r, s \in db.rels : r[2] = s[2] => r = s

(* The rows are well formed in what is committed and in what the open       *)
(* transaction would commit.                                                *)
OneParentRow == RowsOK(stored) /\ RowsOK(pending)

(* No call leaves its transaction open: between two calls there is nothing  *)
(* to lose.                                                                 *)
NoOpenTransaction == Serving => pending = stored

-----------------------------------------------------------------------------
(* One against the other *)

(* A child in memory that has a parent row, committed or not, is the child  *)
(* of that parent: /api/tree never contradicts the tables.                  *)
EdgesAgree ==
  \A r \in stored.rels \cup pending.rels, q \in Keys :
    r[2] \in children[q] => q = r[1]

(* The ends of every row the session sees are in the map: the branch of     *)
(* removeNode that does not find the parent (line 170) is dead code.        *)
RowsAreCached ==
  Mirrored => \A r \in pending.rels : {r[1], r[2]} \subseteq nodes

(* Between calls, as long as the session is there, what is committed is in  *)
(* memory, with its edges.                                                  *)
CacheCoversDatabase ==
  Serving /\ link = "open" =>
    /\ stored.objects \subseteq nodes
    /\ \A r \in stored.rels : r[2] \in children[r[1]]

(* Between calls, as long as the session is there, /api/tree shows only     *)
(* what is committed: the nodes that a failed add leaves in the map stay    *)
(* out of the tree.  And it shows everything that is committed, but for an  *)
(* object that was made its own parent and what hangs below it.             *)
SelfParents == {c \in Ids : c \in children[c]}

ShownIsCommitted ==
  Serving /\ link = "open" =>
    /\ Shown \subseteq stored.objects \cup {SuperRoot}
    /\ stored.objects \subseteq Shown \cup Below(SelfParents)

(* An id that addNode returns while the session is there is committed, with *)
(* the relationship that was asked for.                                     *)
AddReturnsDurable ==
  [][ pc = "add_commit" /\ pc' = "serving" /\ link' = "open" =>
        /\ newId \in stored'.objects
        /\ call.parent # SuperRoot => <<call.parent, newId>> \in stored'.rels
    ]_vars

(* No commit takes away an object that has children, in the tables or in    *)
(* memory.                                                                  *)
RemovalOrphansNothing ==
  [][ \A id \in stored.objects \ stored'.objects :
        /\ children[id] = {}
        /\ \A r \in stored.rels : r[1] # id
    ]_vars

(* The committed tables, seen with the id of the open transaction, behave   *)
(* as the store of whole operations.                                        *)
Store == INSTANCE InventoryStore WITH
  Objects0 <- 1..SeedCount,
  Rels0 <- SeedRels,
  objects <- stored.objects,
  rels <- stored.rels,
  reserved <- pending.objects \ stored.objects,
  nextId <- autoInc

(* The refinement, the abstract fairness included.                          *)
StoreSpec == Store!Spec

(* A call that the worker has begun is answered, or the process ends.       *)
CallsReturn == pc \notin {"down", "serving"} ~> pc \in {"down", "serving"}

-----------------------------------------------------------------------------
(* The inductive invariant behind the tree properties *)

(* Ids that were not given yet are nowhere.                                 *)
Unused(id) ==
  /\ id \notin nodes \cup stored.objects \cup pending.objects
  /\ \A p \in Keys : id \notin children[p]

UnusedIds == \A id \in Ids : id >= autoInc => Unused(id)

(* Nothing hangs below a node, and it hangs nowhere itself.                 *)
Unlinked(id) ==
  /\ children[id] = {}
  /\ \A p \in Keys : id \notin children[p]

NoRowFor(id) == \A r \in stored.rels \cup pending.rels : r[2] # id

(* What each statement finds when it runs.                                  *)
PhaseOK ==
  /\ pc \in {"down", "loadObjects", "loadRelationships"} =>
       /\ stored = pending
       /\ \A p \in Keys : children[p] = {}
  /\ pc = "loadRelationships" => pending.objects \subseteq nodes
  /\ pc \in {"add_begin", "add_insert"} => autoInc \in Ids
  /\ pc \in {"add_begin", "add_insert", "add_lastid", "add_relate",
             "add_rollback", "add_commit"} => call \in AddCall
  /\ pc = "add_lastid" =>
       /\ LastInsertId \in Ids
       /\ LastInsertId \notin nodes
       /\ NoRowFor(LastInsertId)
       /\ \A p \in Keys : LastInsertId \notin children[p]
  /\ pc = "add_relate" =>
       /\ newId \in Ids
       /\ newId \in nodes
       /\ NoRowFor(newId)
       /\ \A p \in Keys : newId \notin children[p]
  /\ pc = "add_commit" => newId \in Ids
  /\ pc \in {"rm_begin", "rm_select", "rm_relationships", "rm_object"} =>
       call \in RemoveCall
  /\ pc = "rm_select" => call.id \in Keys /\ children[call.id] = {}
  /\ pc \in {"rm_relationships", "rm_object"} =>
       call.id \in Ids /\ Unlinked(call.id)

(* The tree is a forest of live nodes that agrees with the tables, and      *)
(* every call in progress relies on what the invariant says of its phase.   *)
TreeInv ==
  /\ TypeOK
  /\ NoDangling
  /\ UniqueParent
  /\ OneParentRow
  /\ EdgesAgree
  /\ UnusedIds
  /\ PhaseOK

-----------------------------------------------------------------------------
(* The inductive invariant behind the properties of transactions: it holds  *)
(* when no statement fails on a healthy session.                            *)

Linked(db) == \A r \in db.rels : r[2] \in children[r[1]]

(* Between a call's first change and its COMMIT or ROLLBACK.                *)
OpenPhases ==
  {"add_lastid", "add_relate", "add_rollback", "add_commit",
   "rm_object", "rm_commit", "rm_rollback"}

WritePhases ==
  {"add_insert", "add_lastid", "add_relate", "add_commit",
   "rm_select", "rm_relationships", "rm_object", "rm_commit"}

RemovalPhases == {"rm_relationships", "rm_object", "rm_commit"}

(* With the session there: what is committed is linked in memory, but for   *)
(* the child that is being removed, and the transaction is what the phase   *)
(* makes it.                                                                *)
SessionPhaseOK ==
  /\ pc # "rm_rollback"
  /\ pc \in WritePhases => ~autocommit
  /\ pc \notin {"down", "loadObjects", "loadRelationships"} \cup RemovalPhases =>
       Linked(stored)
  /\ pc \in {"add_lastid", "add_relate"} => pending.rels = stored.rels
  /\ pc \in {"add_lastid", "add_relate", "add_commit"} =>
       stored.objects \subseteq pending.objects
  /\ pc \in {"add_commit", "rm_object", "rm_commit"} => Linked(pending)
  /\ pc \in RemovalPhases =>
       /\ call \in RemoveCall /\ call.id \in Ids /\ children[call.id] = {}
       /\ \A r \in stored.rels :
            r[1] # call.id /\ (r[2] = call.id \/ r[2] \in children[r[1]])
       /\ stored.objects \subseteq pending.objects \cup {call.id}
  /\ pc = "rm_relationships" => <<parentId, call.id>> \in stored.rels

(* No call leaves a transaction behind, and one that is open holds the work *)
(* of one call, which leaves no child without its parent.                   *)
TransactionInv ==
  /\ pc \notin OpenPhases \/ link # "open" => pending = stored
  /\ link = "open" => SessionPhaseOK

-----------------------------------------------------------------------------
(* The inductive invariants behind the properties of memory as a cache.     *)

(* With the session there, and whatever fails: rows join nodes of the map,  *)
(* but for an object that is about to be committed as removed, and for a    *)
(* row that is about to be rolled back because its parent is unknown.       *)
Cached(rels) == \A r \in rels : {r[1], r[2]} \subseteq nodes

RowsInv ==
  link = "open" /\ pc \notin {"down", "loadObjects"} =>
    /\ pc \in WritePhases => ~autocommit
    /\ pc # "rm_commit" => Cached(stored.rels)
    /\ pc # "add_rollback" => Cached(pending.rels)

(* When no statement fails on a healthy session, every object is a node,    *)
(* and what addNode is about to commit is what it was asked for.            *)
ObjectsInv ==
  link = "open" /\ pc \notin {"down", "loadObjects"} =>
    /\ stored.objects \subseteq
         nodes \cup (IF pc = "rm_commit" THEN {call.id} ELSE {})
    /\ pending.objects \subseteq
         nodes \cup (IF pc = "add_lastid" THEN {LastInsertId} ELSE {})
    /\ pc = "add_lastid" => LastInsertId \in pending.objects
    /\ pc \in {"add_relate", "add_commit"} => newId \in pending.objects
    /\ pc = "add_commit" /\ call.parent # SuperRoot =>
         <<call.parent, newId>> \in pending.rels

-----------------------------------------------------------------------------
(* The inductive invariant behind the refinement: what the open transaction *)
(* makes of the committed tables, statement by statement.                   *)
OneObjectMore(id) ==
  /\ id \notin stored.objects
  /\ pending.objects = stored.objects \cup {id}

OneFamilyLess(parent) ==
  /\ <<parent, call.id>> \in stored.rels
  /\ pending.rels = {r \in stored.rels : r[1] # parent}

TransactionShape ==
  link = "open" =>
    /\ pc = "add_lastid" => OneObjectMore(LastInsertId)
    /\ pc \in {"add_relate", "add_commit"} => OneObjectMore(newId)
    /\ pc = "add_commit" =>
         \/ pending.rels = stored.rels
         \/ \E parent \in pending.objects :
              pending.rels = stored.rels \cup {<<parent, newId>>}
    /\ pc \in {"rm_object", "rm_commit"} => OneFamilyLess(parentId)
    /\ pc = "rm_object" => pending.objects = stored.objects
    /\ pc = "rm_commit" => pending.objects = stored.objects \ {call.id}

-----------------------------------------------------------------------------
(* The inductive invariants behind what nodeToJson reaches.                 *)

(* A parent is older than its child, or the child itself: an add can only   *)
(* name what exists, or the id that it is about to be given.                *)
ParentsOlder ==
  /\ \A r \in stored.rels \cup pending.rels : r[1] <= r[2]
  /\ \A p \in Ids : \A c \in children[p] : p <= c
  /\ pc = "add_relate" => newId = LastInsertId

RootInv ==
  /\ pc # "down" => SuperRoot \in nodes
  /\ pc = "loadRelationships" => nodes = pending.objects \cup {SuperRoot}
  /\ pc = "loadObjects" => nodes = {SuperRoot}

(* With the session there: the edges join what is committed or about to be, *)
(* and everything that is has one, but for the object that is being removed. *)
Fresh == IF pc = "add_commit" THEN {newId} ELSE {}
Leaving == IF pc \in RemovalPhases THEN {call.id} ELSE {}

LinksInv ==
  link = "open" /\ pc \notin {"down", "loadObjects", "loadRelationships"} =>
    /\ \A p \in Keys : children[p] \subseteq stored.objects \cup Fresh
    /\ \A c \in (stored.objects \cup Fresh) \ Leaving :
         \E p \in stored.objects \cup Fresh \cup {SuperRoot} : c \in children[p]
    /\ pc = "rm_commit" => Unlinked(call.id)

-----------------------------------------------------------------------------
(* What the code's comments and messages say, and the code does not do *)

(* "Deleting child from parent node" (line 176): the other children of the  *)
(* parent keep it.                                                          *)
SiblingsKeepParent ==
  [][ \A r \in stored.rels : {r[1], r[2]} \subseteq stored'.objects =>
        r \in stored'.rels ]_vars

=============================================================================
