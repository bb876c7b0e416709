------------------------------ MODULE MCScript ------------------------------
(* Small scripts: the bounds and the habits are in the configurations. *)
EXTENDS Script
=============================================================================
