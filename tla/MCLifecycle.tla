---------------------------- MODULE MCLifecycle ----------------------------
(* Two threads, two partitions and three zone groups, for TLC.             *)
EXTENDS Lifecycle
=============================================================================
