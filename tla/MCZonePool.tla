----------------------------- MODULE MCZonePool -----------------------------
(* Two partitions on a device of three groups, for TLC.                    *)
EXTENDS ZonePool, TLC

Symm == Permutations(Part)
=============================================================================
