------------------------------ MODULE MCRoutes ------------------------------
(***************************************************************************)
(* Values for the constants of Routes that a .cfg cannot write.            *)
(***************************************************************************)
EXTENDS Routes

MCNoRels == {}

(* 16 + 1 narrows to 1, and a number beyond every long to -1 or 0.          *)
MCNumbers == {-100, -1, 0, 1, 2, 3, 17, 100}

=============================================================================
