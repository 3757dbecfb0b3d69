------------------------------- MODULE MCTree -------------------------------
(***************************************************************************)
(* Values for the constants of TreeProperties that a .cfg cannot write.    *)
(***************************************************************************)
EXTENDS TreeProperties

(* An empty database, a family of three, and the rows that mySQLref.sql      *)
(* inserts.                                                                 *)
MCNoRels == {}
MCFamily == {<<1, 2>>, <<1, 3>>}
MCReference == {<<1, 2>>, <<1, 3>>, <<2, 4>>, <<3, 5>>}

=============================================================================
