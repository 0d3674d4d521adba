----------------------------- MODULE MCZoadFile -----------------------------
(* A file of a few transfer units, with a buffer of two of them, for TLC.  *)
EXTENDS ZoadFile, TLC

Symm == Permutations(Reader)
=============================================================================
