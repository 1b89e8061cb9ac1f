------------------------- MODULE MCZonedBlockDevice -------------------------
(* Small instances of ZonedBlockDevice for TLC.                             *)
EXTENDS ZonedBlockDevice, TLC

CONSTANTS w1, w2, w3, w4   \* writers

Interchangeable == Permutations({w1, w2})
=============================================================================
