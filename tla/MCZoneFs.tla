------------------------------- MODULE MCZoneFs -------------------------------
(* Small instances of ZoneFs for TLC.                                       *)
EXTENDS ZoneFs, TLC

CONSTANTS z1, z2, z3, t1, t2

Interchangeable == Permutations({z1, z2, z3}) \cup Permutations({t1, t2})
=============================================================================
