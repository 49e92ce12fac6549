----------------------------- MODULE MCVaultGate -----------------------------
(* Two launches of the API over two lock files.                              *)
EXTENDS VaultGate

CONSTANTS p1, p2, i1, i2, upload, read, erase
=============================================================================
