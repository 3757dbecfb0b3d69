------------------------------ MODULE MySQLDB ------------------------------
(***************************************************************************)
(* The one MySQL session the program holds: class MySQLDB                  *)
(* (include/MySQLDB.cpp) on top of the connector and of InnoDB.            *)
(*                                                                         *)
(* Every statement of the program goes through executeQuery and            *)
(* executeUpdate, which turn an SQLException into a null result or -1.  A  *)
(* statement therefore has two outcomes here: its effect, or Fails, which  *)
(* changes nothing.  The connector does not reconnect.                     *)
(***************************************************************************)
EXTENDS Integers, FiniteSets

CONSTANTS
  MaxId,   \* AUTO_INCREMENT is explored up to this id
  Faults   \* what may go wrong: a subset of FaultKinds

(* "statement":  a DML statement or a query fails on a healthy session      *)
(* "connection": connecting fails, or the session is lost                   *)
(* "crash":      the process is killed between two of its statements        *)
FaultKinds == {"statement", "connection", "crash"}

ASSUME MaxIdAssumption == MaxId \in Nat \ {0}
ASSUME FaultsAssumption == Faults \subseteq FaultKinds

Ids == 1..MaxId

(* The two tables of mySQLref.sql.  A row of relationships is the pair      *)
(* <<parent_id, child_id>>, its primary key.                                *)
Database == [objects : SUBSET Ids, rels : SUBSET (Ids \X Ids)]

EmptyDatabase == [objects |-> {}, rels |-> {}]

VARIABLES
  stored,      \* what is committed, and survives the session
  pending,     \* what the session sees: stored plus its open transaction
  autocommit,  \* @@autocommit of the session
  link,        \* "none" before connect(), "open", "lost" for good
  autoInc      \* the next AUTO_INCREMENT value of objects, never reused

dbVars == <<stored, pending, autocommit, link, autoInc>>

(* Types: the tables hold only ids that exist, in both views of the session. *)
MySQLTypeOK ==
  /\ stored \in Database
  /\ pending \in Database
  /\ autocommit \in BOOLEAN
  /\ link \in {"none", "open", "lost"}
  /\ autoInc \in 1..(MaxId + 1)

-----------------------------------------------------------------------------
(* What a statement does to the rows. *)

WithObject(db, id) == [db EXCEPT !.objects = @ \cup {id}]

(* Both columns of relationships are foreign keys into objects. *)
CanRelate(db, parent, child) ==
  /\ {parent, child} \subseteq db.objects
  /\ <<parent, child>> \notin db.rels

WithRelationship(db, parent, child) ==
  [db EXCEPT !.rels = @ \cup {<<parent, child>>}]

WithoutChildrenOf(db, parent) ==
  [db EXCEPT !.rels = {r \in @ : r[1] # parent}]

(* Mutant: no ON DELETE CASCADE, the rows of the object stay. *)
DeleteWithoutCascade(db, id) == [db EXCEPT !.objects = @ \ {id}]

(* ON DELETE CASCADE on both foreign keys. *)
WithoutObject(db, id) ==
  [objects |-> db.objects \ {id},
   rels |-> {r \in db.rels : id \notin {r[1], r[2]}}]

(* SELECT parent_id FROM relationships WHERE child_id = child *)
ParentsOf(db, child) == {p \in Ids : <<p, child>> \in db.rels}

(* SELECT LAST_INSERT_ID(): the last id this session was given.  The        *)
(* program asks right after its INSERT INTO objects.                        *)
LastInsertId == autoInc - 1

-----------------------------------------------------------------------------
(* The session. *)

(* connect(): a new session sees what is committed, with autocommit on. *)
Connect ==
  /\ link = "none"
  /\ link' = "open"
  /\ autocommit' = TRUE
  /\ pending' = stored
  /\ UNCHANGED <<stored, autoInc>>

(* disconnect(), or the end of the process: an open transaction is rolled   *)
(* back by the server.                                                      *)
Disconnect ==
  /\ link' = "none"
  /\ autocommit' = TRUE
  /\ pending' = stored
  /\ UNCHANGED <<stored, autoInc>>

LoseConnection ==
  /\ "connection" \in Faults
  /\ link = "open"
  /\ link' = "lost"
  /\ pending' = stored
  /\ UNCHANGED <<stored, autocommit, autoInc>>

(* A statement that changes rows; with autocommit on it commits by itself. *)
Write(db) ==
  /\ link = "open"
  /\ pending' = db
  /\ stored' = IF autocommit THEN db ELSE stored
  /\ UNCHANGED <<autocommit, link>>

InsertObject ==
  /\ Write(WithObject(pending, autoInc))
  /\ autoInc' = autoInc + 1

InsertRelationship(parent, child) ==
  /\ CanRelate(pending, parent, child)
  /\ Write(WithRelationship(pending, parent, child))
  /\ UNCHANGED autoInc

DeleteRelationshipsOf(parent) ==
  /\ Write(WithoutChildrenOf(pending, parent))
  /\ UNCHANGED autoInc

DeleteObject(id) ==
  /\ Write(WithoutObject(pending, id))
  /\ UNCHANGED autoInc

(* A query that returns its rows. *)
Query ==
  /\ link = "open"
  /\ UNCHANGED dbVars

(* executeUpdate returns -1, executeQuery a null pointer: the session is    *)
(* gone, or this statement met an error.                                    *)
Fails ==
  /\ link = "lost" \/ "statement" \in Faults
  /\ UNCHANGED dbVars

(* The same result for a statement that a constraint refuses. *)
Refused == UNCHANGED dbVars

(* The transaction statements.  Their result is never looked at by the      *)
(* program, so on a lost session they are steps without effect; on a        *)
(* healthy one they do not fail.                                            *)
OnOpenSession(A) == IF link = "open" THEN A ELSE UNCHANGED dbVars

(* Mutant: autocommit is not turned off. *)
AutocommitStaysOn == UNCHANGED dbVars

AutocommitOff ==
  OnOpenSession(/\ autocommit' = FALSE
                /\ UNCHANGED <<stored, pending, link, autoInc>>)

(* Mutant: the open transaction is forgotten, not committed. *)
OnWithoutCommit ==
  OnOpenSession(/\ autocommit' = TRUE
                /\ pending' = stored
                /\ UNCHANGED <<stored, link, autoInc>>)

(* Turning autocommit on commits the open transaction. *)
AutocommitOn ==
  OnOpenSession(/\ autocommit' = TRUE
                /\ stored' = pending
                /\ UNCHANGED <<pending, link, autoInc>>)

Commit ==
  OnOpenSession(/\ stored' = pending
                /\ UNCHANGED <<pending, autocommit, link, autoInc>>)

(* Mutants: there is no rollback; it waits for a session that is gone. *)
NoRollback == UNCHANGED dbVars

RollbackWaits ==
  /\ link = "open"
  /\ pending' = stored
  /\ UNCHANGED <<stored, autocommit, link, autoInc>>

Rollback ==
  OnOpenSession(/\ pending' = stored
                /\ UNCHANGED <<stored, autocommit, link, autoInc>>)

=============================================================================
