------------------------------ MODULE MCFdSpawn ------------------------------
(* An instance of FdSpawn for TLC. *)
EXTENDS FdSpawn
=============================================================================
