---------------------------- MODULE MCWearLeveling ----------------------------
(* Small instances of WearLeveling for TLC.                                 *)
EXTENDS WearLeveling

CONSTANTS z1, z2, t1, t2
=============================================================================
