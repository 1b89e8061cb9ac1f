----------------------------- MODULE MCMigration -----------------------------
(* Small instances of Migration for TLC.                                    *)
EXTENDS Migration, TLC

CONSTANTS f1, f2   \* files

(* Two full zones, each half garbage, which either worker may move, and a   *)
(* spare one.                                                               *)
Worn ==
  /\ wp = <<2, 2, 0>> /\ used = <<1, 1, 0>>
  /\ exts[f1] # <<>> /\ exts[f1][1].zone = 1

WornInit == Init /\ Worn

WornFairSpec == WornInit /\ [][Next]_vars /\ Fairness

(* f1 has two extents in zone 1 and f2 one in zone 2, both with garbage.    *)
Uneven ==
  /\ wp = <<3, 2, 0>> /\ used = <<2, 1, 0>>
  /\ Len(exts[f1]) = 2
  /\ Len(exts[f2]) = 1 /\ exts[f2][1].zone = 2

UnevenInit == Init /\ Uneven

UnevenSpec == UnevenInit /\ [][Next]_vars

=============================================================================
