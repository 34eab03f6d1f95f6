-------------------------- MODULE MCCodecRecovery --------------------------
(* Small instances of CodecRecovery for TLC: nothing is added, the constants *)
(* are given their values by the configurations.                             *)
EXTENDS CodecRecovery
=============================================================================
