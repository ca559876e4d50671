--------------------------- MODULE MCRestoreFlow ---------------------------
(* Small instances of RestoreFlow for TLC.                                 *)
EXTENDS RestoreFlow

CONSTANTS c1, c2, r1, r2, s1, s2
=============================================================================
