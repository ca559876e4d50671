------------------------ MODULE MCCredentialRotation ------------------------
(* Small clusters for CredentialRotation: the configurations pick their     *)
(* pods and passwords among these model values.                             *)
EXTENDS CredentialRotation

CONSTANTS r1, r2, s1, s2, A, B, C
=============================================================================
