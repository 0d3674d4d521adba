------------------------------ MODULE MCDBImpl ------------------------------
(* Two threads and two keys for TLC.  The first key, which an older table  *)
(* may hold, is deleted, with sync; the second is put, without, so that    *)
(* its tables overlap with each other and not with those of the first.     *)
EXTENDS DBImpl

MCOp == {[k |-> 1, d |-> TRUE, sync |-> TRUE],
         [k |-> 2, d |-> FALSE, sync |-> FALSE]}
=============================================================================
