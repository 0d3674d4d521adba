----------------------------- MODULE MCZoadEnv -----------------------------
(* Two threads, two names and three files, for TLC.                        *)
EXTENDS ZoadEnv
=============================================================================
