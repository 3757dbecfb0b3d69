--------------------------- MODULE InventoryStore ---------------------------
(***************************************************************************)
(* The store as a client may think of it: objects and their relationships, *)
(* changed by whole operations only.  An add takes an id that was never    *)
(* given before and, in one step, makes the object and its relationship    *)
(* durable, or nothing.  A removal takes away, in one step, an object that *)
(* has no children.                                                        *)
(***************************************************************************)
EXTENDS Integers

CONSTANTS
  MaxId,    \* ids are explored up to this one
  Objects0, \* the objects at the start, and
  Rels0     \* their relationships <<parent, child>>

VARIABLES
  objects,   \* the durable objects
  rels,      \* the durable relationships
  reserved,  \* the id of the add in progress, as a set
  nextId     \* the next id, above all that were ever given

store == <<objects, rels, reserved, nextId>>

Init ==
  /\ objects = Objects0
  /\ rels = Rels0
  /\ reserved = {}
  /\ nextId \in 1..(MaxId + 1)
  /\ \A id \in objects : id < nextId

Reserve ==
  /\ reserved = {}
  /\ reserved' = {nextId}
  /\ nextId' = nextId + 1
  /\ UNCHANGED <<objects, rels>>

Abandon ==
  /\ reserved # {}
  /\ reserved' = {}
  /\ UNCHANGED <<objects, rels, nextId>>

(* The object may come alone, or under a parent; nothing keeps it from      *)
(* being its own.                                                           *)
CommitAdd ==
  /\ reserved # {}
  /\ objects' = objects \cup reserved
  /\ reserved' = {}
  /\ \/ rels' = rels
     \/ \E parent \in objects', child \in reserved :
          rels' = rels \cup {<<parent, child>>}
  /\ UNCHANGED nextId

(* What goes with the object is its parent's family: the siblings stay as   *)
(* objects and lose their parent.                                           *)
CommitRemove(id, parent) ==
  /\ reserved = {}
  /\ <<parent, id>> \in rels
  /\ \A r \in rels : r[1] # id
  /\ objects' = objects \ {id}
  /\ rels' = {r \in rels : r[1] # parent}
  /\ UNCHANGED <<reserved, nextId>>

Next ==
  \/ Reserve \/ Abandon \/ CommitAdd
  \/ \E r \in rels : CommitRemove(r[2], r[1])

Safety == Init /\ [][Next]_store

(* An add does not stay half done. *)
Spec == Safety /\ WF_store(Abandon \/ CommitAdd)

=============================================================================
