------------------------------ MODULE AppendFile ------------------------------
(***************************************************************************)
(* What an append-only file promises: the bytes come back in the order in  *)
(* which they were appended, a sync protects them, and a crash takes at    *)
(* most an unsynced tail.  FileIO shows that ZoneFile and                  *)
(* ZonedWritableFile keep this promise (fs/io_zenfs.cc).                   *)
(***************************************************************************)
EXTENDS Integers, Sequences, SequencesExt

CONSTANT Pad  \* the padding byte

VARIABLES
  data,     \* the bytes of the file, in order
  durable,  \* the first so many survive a crash
  dropped,  \* bytes cut off by a truncation that no crash has to respect yet
  slack     \* bytes of padding a crash may leave at the end

vars == <<data, durable, dropped, slack>>

Padding(n) == [i \in 1..n |-> Pad]

Init == data = <<>> /\ durable = 0 /\ dropped = <<>> /\ slack \in Nat

AppendBytes ==
  /\ IsPrefix(data, data')
  /\ UNCHANGED <<durable, dropped, slack>>

Truncate ==
  /\ IsPrefix(data', data)
  /\ dropped' = SubSeq(data, Len(data') + 1, Len(data)) \o dropped
  /\ durable' = IF durable < Len(data') THEN durable ELSE Len(data')
  /\ UNCHANGED slack

(* A sync never takes back what it promised; a truncation is final once     *)
(* everything is synced.                                                    *)
Sync ==
  /\ durable' \in durable..Len(data)
  /\ dropped' = dropped \/ (dropped' = <<>> /\ durable' = Len(data))
  /\ UNCHANGED <<data, slack>>

(* A failed append takes back bytes that are not durable.                   *)
Fail ==
  /\ IsPrefix(data', data)
  /\ Len(data') >= durable
  /\ UNCHANGED <<durable, dropped, slack>>

(* The file comes back as a prefix with every durable byte; what is there   *)
(* afterwards is durable.                                                   *)
Crash ==
  /\ \E n \in durable..Len(data \o dropped), p \in 0..slack :
       data' = SubSeq(data \o dropped, 1, n) \o Padding(p)
  /\ durable' = Len(data')
  /\ dropped' = <<>>
  /\ UNCHANGED slack

Next == AppendBytes \/ Truncate \/ Sync \/ Fail \/ Crash

Spec == Init /\ [][Next]_vars

=============================================================================
