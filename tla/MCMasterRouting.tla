-------------------------- MODULE MCMasterRouting --------------------------
(* A small cluster for MasterRouting.                                      *)
EXTENDS MasterRouting

CONSTANTS s1, s2
=============================================================================
