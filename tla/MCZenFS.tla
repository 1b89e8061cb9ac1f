------------------------------- MODULE MCZenFS -------------------------------
(***************************************************************************)
(* Model values for the runs of ZenFS.                                     *)
(***************************************************************************)
EXTENDS ZenFS

CONSTANTS a, b, t1, t2

=============================================================================
