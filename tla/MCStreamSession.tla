-------------------------- MODULE MCStreamSession --------------------------
(* Small instances of StreamSession for TLC: nothing is added, the constants *)
(* are given their values by the configurations.                             *)
EXTENDS StreamSession
=============================================================================
