--------------------------- MODULE MigrationProofs ---------------------------
(***************************************************************************)
(* Proofs about Migration for every number of zones and files and every    *)
(* interleaving: the targets of the workers, and what a migration counts   *)
(* and keeps: the active tokens, used_capacity_ and the extents that a     *)
(* file, or a mount, relies on.                                            *)
(***************************************************************************)
EXTENDS Migration, FoldProofs, FiniteSetTheorems, SequenceTheorems, TLAPS

(* The places at which a worker has a target zone.                          *)
Holding == {"copy", "check", "checkfailed", "release", "abort"}

(* A worker holds a target exactly where the code says so, and it is in     *)
(* ResetUnusedIOZones only when it migrates nothing.  Without the second    *)
(* part the end of a reset could leave a target behind.                     *)
Held ==
  /\ busy \in [Zone -> BOOLEAN]
  /\ target \in [Workers -> Zone \cup {NoZone}]
  /\ pc \in [Workers -> Pcs]
  /\ scan \in [Actors -> 0..NrIOZones]
  /\ \A w \in Workers : target[w] # NoZone <=> pc[w] \in Holding
  /\ \A w \in Workers : scan[w] # 0 => pc[w] = "reset"

ExclusiveInv == Held /\ TargetsExclusive

-----------------------------------------------------------------------------
(* NoZone is no zone, and the client is no worker.                          *)
LEMMA NameFacts == NoZone \notin Zone /\ Client \notin Workers /\ Workers \subseteq Actors
BY MigrationAssumption, SMTT(60) DEF NoZone, Zone, Client, Actors

(* No zone is held when the workers start.                                  *)
LEMMA InitExclusive == Init => ExclusiveInv
BY MigrationAssumption, NameFacts, SMTT(60)
   DEF Init, ExclusiveInv, Held, TargetsExclusive, Holding, Pcs, NoZone

(* Taking a zone that nobody holds keeps the targets apart.                 *)
LEMMA HoldExclusive ==
  ASSUME ExclusiveInv, NEW w \in Workers, NEW z \in Zone,
         ~busy[z], pc[w] \in {"take", "search", "search2"},
         HoldZone(w, z), UNCHANGED scan
  PROVE  ExclusiveInv'
<1>1. target[w] = NoZone /\ scan[w] = 0
  BY DEF ExclusiveInv, Held, Holding
<1>2. z # NoZone
  BY NameFacts
<1>3. \A u \in Workers : target[u] # z
  BY DEF ExclusiveInv, TargetsExclusive
<1>4. /\ busy' = [busy EXCEPT ![z] = TRUE]
      /\ target' = [target EXCEPT ![w] = z]
      /\ pc' = [pc EXCEPT ![w] = "copy"]
  BY DEF HoldZone, Goto
<1>5. Held'
  BY <1>1, <1>2, <1>4 DEF ExclusiveInv, Held, Holding, Pcs
<1>6. \A u \in Workers : target'[u] = IF u = w THEN z ELSE target[u]
  BY <1>4 DEF ExclusiveInv, Held
<1>7. \A y \in Zone : busy'[y] = IF y = z THEN TRUE ELSE busy[y]
  BY <1>4 DEF ExclusiveInv, Held
<1>8. \A v, u \in Workers : v # u /\ target'[v] # NoZone => target'[v] # target'[u]
  BY <1>2, <1>3, <1>6 DEF ExclusiveInv, TargetsExclusive
<1>9. ASSUME NEW y \in Zone
      PROVE  busy'[y] <=> \E u \in Workers : target'[u] = y
  <2>1. busy[y] <=> \E u \in Workers : target[u] = y
    BY DEF ExclusiveInv, TargetsExclusive
  <2>2. y # NoZone
    BY NameFacts
  <2>3. CASE y = z
    BY <2>3, <1>6, <1>7, Zenon
  <2>4. CASE y # z
    BY <2>1, <2>2, <2>4, <1>1, <1>6, <1>7, Zenon
  <2> QED BY <2>3, <2>4
<1>10. TargetsExclusive'
  BY <1>8, <1>9 DEF TargetsExclusive
<1> QED BY <1>5, <1>10 DEF ExclusiveInv

(* A step between two places without a target, or between two with one,     *)
(* that leaves the zones alone.                                             *)
LEMMA KeepExclusive ==
  ASSUME ExclusiveInv, NEW w \in Workers, NEW there \in Pcs,
         pc' = [pc EXCEPT ![w] = there],
         pc[w] \in Holding <=> there \in Holding,
         pc[w] # "reset" \/ scan'[w] = 0 \/ there = "reset",
         scan' \in [Actors -> 0..NrIOZones],
         \A u \in Workers : scan'[u] = scan[u] \/ (u = w /\ there = "reset"),
         UNCHANGED <<busy, target>>
  PROVE  ExclusiveInv'
<1>1. scan'[w] # 0 => there = "reset"
  BY DEF ExclusiveInv, Held
<1>2. Held'
  BY <1>1 DEF ExclusiveInv, Held
<1>3. TargetsExclusive'
  BY DEF ExclusiveInv, TargetsExclusive
<1> QED BY <1>2, <1>3 DEF ExclusiveInv

(* Giving a zone back frees that zone alone.                                *)
LEMMA ReleaseExclusive ==
  ASSUME ExclusiveInv, NEW w \in Workers, ReleaseMigrateZone(w)
  PROVE  ExclusiveInv'
<1> DEFINE there == TakeOrSync(idx'[w])
<1>1. there \in {"take", "sync"}
  BY DEF TakeOrSync
<1>2. /\ \A u \in Workers : pc'[u] =
           IF u = w THEN there ELSE IF pc[u] = "asleep" THEN "take" ELSE pc[u]
      /\ pc' = [u \in Workers |->
                 IF u = w THEN there ELSE IF pc[u] = "asleep" THEN "take" ELSE pc[u]]
  BY DEF ReleaseMigrateZone, NotifyAndGoto
<1>3. /\ pc[w] \in {"release", "abort", "giveup"} /\ scan' = scan
      /\ \A u \in Workers : target'[u] = IF u = w THEN NoZone ELSE target[u]
      /\ target' = [target EXCEPT ![w] = NoZone]
      /\ busy' = [z \in Zone |-> busy[z] /\ z # target[w]]
  BY DEF ReleaseMigrateZone, ExclusiveInv, Held
<1>4. scan[w] = 0
  BY <1>3 DEF ExclusiveInv, Held
<1>5. Held'
  <2>1. busy' \in [Zone -> BOOLEAN]
    BY <1>3, Zenon
  <2>2. pc' \in [Workers -> Pcs]
    BY <1>1, <1>2 DEF ExclusiveInv, Held, Pcs
  <2>3. target' \in [Workers -> Zone \cup {NoZone}] /\ scan' \in [Actors -> 0..NrIOZones]
    BY <1>3 DEF ExclusiveInv, Held
  <2>4. \A u \in Workers : target'[u] # NoZone <=> pc'[u] \in Holding
    BY <1>1, <1>2, <1>3 DEF ExclusiveInv, Held, Holding
  <2>5. \A u \in Workers : scan'[u] # 0 => pc'[u] = "reset"
    BY <1>1, <1>2, <1>3, <1>4 DEF ExclusiveInv, Held
  <2> QED BY <2>1, <2>2, <2>3, <2>4, <2>5 DEF Held
<1>6. \A v, u \in Workers : v # u /\ target'[v] # NoZone => target'[v] # target'[u]
  BY <1>3 DEF ExclusiveInv, TargetsExclusive
<1>7. ASSUME NEW y \in Zone
      PROVE  busy'[y] <=> \E u \in Workers : target'[u] = y
  <2>1. y # NoZone /\ (busy[y] <=> \E u \in Workers : target[u] = y)
    BY NameFacts DEF ExclusiveInv, TargetsExclusive
  <2>2. busy'[y] <=> busy[y] /\ y # target[w]
    BY <1>3, Zenon
  <2>3. \A u \in Workers : u # w /\ target[w] = y => target[u] # y
    BY <2>1 DEF ExclusiveInv, TargetsExclusive
  <2>4. CASE target[w] = y
    <3>1. ~busy'[y]
      BY <2>2, <2>4, Zenon
    <3>2. \A u \in Workers : target'[u] # y
      BY <2>1, <2>3, <2>4, <1>3
    <3> QED BY <3>1, <3>2, Zenon
  <2>5. CASE target[w] # y
    <3>1. busy'[y] <=> busy[y]
      BY <2>2, <2>5, Zenon
    <3>2. \A u \in Workers : target'[u] = y <=> target[u] = y
      BY <2>1, <2>5, <1>3
    <3> QED BY <2>1, <3>1, <3>2, Zenon
  <2> QED BY <2>4, <2>5
<1> QED BY <1>5, <1>6, <1>7 DEF ExclusiveInv, TargetsExclusive

(* The searches for a target: TakeMigrateZone and GetMigrateTargetZone.     *)
LEMMA SearchExclusive ==
  ASSUME ExclusiveInv, NEW w \in Workers,
         TakeMigrateZone(w) \/ SearchEmptyZone(w) \/ SearchOpenZone(w)
  PROVE  ExclusiveInv'
<1>1. pc[w] \in {"take", "search", "search2"} /\ scan' = scan
  BY DEF TakeMigrateZone, SearchEmptyZone, SearchOpenZone
<1>2. CASE \E z \in Zone : ~busy[z] /\ HoldZone(w, z)
  BY <1>1, <1>2, HoldExclusive
<1>3. CASE /\ UNCHANGED <<busy, target>>
           /\ \E there \in {"giveup", "search2", "take", "sync"} : Goto(w, there)
  <2>1. PICK there \in {"giveup", "search2", "take", "sync"} :
          pc' = [pc EXCEPT ![w] = there]
    BY <1>3 DEF Goto
  <2>2. there \in Pcs /\ there \notin Holding /\ pc[w] \notin Holding /\ pc[w] # "reset"
    BY <1>1 DEF Pcs, Holding
  <2>3. scan' \in [Actors -> 0..NrIOZones]
    BY <1>1 DEF ExclusiveInv, Held
  <2> QED BY <1>1, <1>3, <2>1, <2>2, <2>3, KeepExclusive
<1>4. \/ \E z \in Zone : ~busy[z] /\ HoldZone(w, z)
      \/ /\ UNCHANGED <<busy, target>>
         /\ \E there \in {"giveup", "search2", "take", "sync"} : Goto(w, there)
  BY DEF TakeMigrateZone, SearchEmptyZone, SearchOpenZone, OpenTarget, EmptyTarget, TakeOrSync
<1> QED BY <1>2, <1>3, <1>4

(* ResetUnusedIOZones takes no target.                                      *)
LEMMA ResetExclusive ==
  ASSUME ExclusiveInv, NEW a \in Actors, ScanReset(a)
  PROVE  ExclusiveInv'
<1>1. /\ scan[a] \in Zone /\ scan[a] # 0
      /\ scan' = [scan EXCEPT ![a] = IF @ = NrIOZones THEN 0 ELSE @ + 1]
      /\ UNCHANGED <<busy, target>>
  BY NameFacts DEF ScanReset, NoZone
<1>2. scan' \in [Actors -> 0..NrIOZones]
  BY <1>1, MigrationAssumption DEF ExclusiveInv, Held, Zone
<1>3. CASE a \in Workers /\ scan[a] = NrIOZones
  <2>1. pc' = [pc EXCEPT ![a] = IF todo[a] = {} THEN "idle" ELSE "next"]
    BY <1>3 DEF ScanReset, Goto
  <2>2. pc[a] = "reset" /\ scan'[a] = 0
    BY <1>1, <1>3, NameFacts DEF ExclusiveInv, Held
  <2>3. \A u \in Workers : u # a => scan'[u] = scan[u]
    BY <1>1, NameFacts DEF ExclusiveInv, Held
  <2>4. Held'
    BY <1>1, <1>2, <1>3, <2>1, <2>2, <2>3 DEF ExclusiveInv, Held, Holding, Pcs
  <2> QED BY <1>1, <2>4 DEF ExclusiveInv, TargetsExclusive
<1>4. CASE ~(a \in Workers /\ scan[a] = NrIOZones)
  <2>1. pc' = pc
    BY <1>4 DEF ScanReset
  <2>2. \A u \in Workers : scan'[u] # 0 => scan[u] # 0
    BY <1>1, NameFacts DEF ExclusiveInv, Held
  <2>3. Held'
    BY <1>1, <1>2, <2>1, <2>2 DEF ExclusiveInv, Held
  <2> QED BY <1>1, <2>3 DEF ExclusiveInv, TargetsExclusive
<1> QED BY <1>3, <1>4

(* The steps of a worker that hold or give back no zone.                    *)
LEMMA OtherExclusive ==
  ASSUME ExclusiveInv, NEW w \in Workers,
         \/ OpenForMigration(w) \/ SleepWhileMigrating(w) \/ GetMigrateTargetZone(w)
         \/ WaitForOpenIOZoneToken(w) \/ MigrateData(w) \/ CheckFile(w)
         \/ LockExtents(w) \/ ReplaceExtentList(w) \/ SyncFileMetadata(w)
         \/ FreeOldExtents(w) \/ ReleaseWRLock(w)
  PROVE  ExclusiveInv'
<1>1. w \in Actors /\ 1 \in 0..NrIOZones
  BY NameFacts, MigrationAssumption
<1>2. UNCHANGED <<busy, target>>
  BY DEF OpenForMigration, SleepWhileMigrating, GetMigrateTargetZone, WaitForOpenIOZoneToken,
         MigrateData, CheckFile, LockExtents, ReplaceExtentList, SyncFileMetadata,
         FreeOldExtents, ReleaseWRLock, zoneVars
<1>3. PICK there \in Pcs :
        /\ pc' = [pc EXCEPT ![w] = there]
        /\ pc[w] \in Holding <=> there \in Holding
        /\ pc[w] # "reset"
        /\ scan' = scan \/ (there = "reset" /\ scan' = [scan EXCEPT ![w] = 1])
  <2>1. CASE OpenForMigration(w)
    BY <2>1, Zenon DEF OpenForMigration, Goto, TakeOrSync, Pcs, Holding
  <2>2. CASE SleepWhileMigrating(w) \/ GetMigrateTargetZone(w) \/ WaitForOpenIOZoneToken(w)
    BY <2>2 DEF SleepWhileMigrating, GetMigrateTargetZone, WaitForOpenIOZoneToken, Goto,
                Pcs, Holding
  <2>3. CASE MigrateData(w) \/ CheckFile(w)
    BY <2>3 DEF MigrateData, CheckFile, Goto, Pcs, Holding
  <2>4. CASE LockExtents(w) \/ ReplaceExtentList(w) \/ SyncFileMetadata(w)
             \/ FreeOldExtents(w) \/ ReleaseWRLock(w)
    BY <2>4 DEF LockExtents, ReplaceExtentList, SyncFileMetadata, FreeOldExtents,
                ReleaseWRLock, Goto, Pcs, Holding
  <2> QED BY <2>1, <2>2, <2>3, <2>4
<1>4. /\ scan' \in [Actors -> 0..NrIOZones]
      /\ \A u \in Workers : scan'[u] = scan[u] \/ (u = w /\ there = "reset")
  BY <1>1, <1>3, NameFacts DEF ExclusiveInv, Held
<1> QED BY <1>2, <1>3, <1>4, KeepExclusive

(* Setting out holds no zone either.                                        *)
LEMMA SetOutExclusive ==
  ASSUME ExclusiveInv, NEW w \in Workers, NEW zs, SetOut(w, zs)
  PROVE  ExclusiveInv'
<1>1. /\ pc[w] = "idle" /\ pc' = [pc EXCEPT ![w] = "next"]
      /\ UNCHANGED <<busy, target, scan>>
  BY DEF SetOut, Goto, zoneVars
<1>2. "next" \in Pcs /\ "next" \notin Holding /\ pc[w] \notin Holding
  BY <1>1 DEF Pcs, Holding
<1>3. scan' \in [Actors -> 0..NrIOZones]
  BY <1>1 DEF ExclusiveInv, Held
<1> QED BY <1>1, <1>2, <1>3, KeepExclusive

(* What clients do to files holds no zone.                                  *)
LEMMA ClientExclusive ==
  ASSUME ExclusiveInv, NEW f \in Files,
         DeleteFile(f) \/ RenameFile(f) \/ StartRead(f) \/ EndRead(f)
  PROVE  ExclusiveInv'
<1>1. UNCHANGED <<busy, target, pc>>
  BY DEF DeleteFile, RenameFile, StartRead, EndRead, zoneVars
<1>2. scan' = scan \/ scan' = [scan EXCEPT ![Client] = 1]
  BY DEF DeleteFile, RenameFile, StartRead, EndRead
<1>3. scan' \in [Actors -> 0..NrIOZones] /\ \A u \in Workers : scan'[u] = scan[u]
  BY <1>2, NameFacts, MigrationAssumption DEF ExclusiveInv, Held
<1>4. Held'
  BY <1>1, <1>3 DEF ExclusiveInv, Held
<1> QED BY <1>1, <1>4 DEF ExclusiveInv, TargetsExclusive

(* ExclusiveInv is inductive.                                               *)
LEMMA NextExclusive == ExclusiveInv /\ [Next]_vars => ExclusiveInv'
<1> SUFFICES ASSUME ExclusiveInv, [Next]_vars PROVE ExclusiveInv'
  OBVIOUS
<1>1. CASE \E f \in Files : DeleteFile(f) \/ RenameFile(f) \/ StartRead(f) \/ EndRead(f)
  BY <1>1, ClientExclusive
<1>2. CASE ScanReset(Client)
  BY <1>2, ResetExclusive DEF Actors
<1>3. CASE GCWorker \/ WLWorker
  BY <1>3, SetOutExclusive DEF GCWorker, WLWorker
<1>4. ASSUME NEW w \in Workers, Worker(w)
      PROVE  ExclusiveInv'
  <2>1. CASE ReleaseMigrateZone(w)
    BY <2>1, ReleaseExclusive
  <2>2. CASE TakeMigrateZone(w) \/ SearchEmptyZone(w) \/ SearchOpenZone(w)
    BY <2>2, SearchExclusive
  <2>3. CASE ScanReset(w)
    BY <2>3, ResetExclusive, NameFacts
  <2> QED BY <1>4, <2>1, <2>2, <2>3, OtherExclusive DEF Worker
<1>5. CASE UNCHANGED vars
  BY <1>5 DEF vars, zoneVars, ExclusiveInv, Held, TargetsExclusive
<1> QED BY <1>1, <1>2, <1>3, <1>4, <1>5 DEF Next

(* No zone is the target of two migrations at once, although migrating_,    *)
(* the flag that is meant to keep the workers apart, does not do so, and a  *)
(* zone stays busy exactly as long as a worker has it: every error path     *)
(* gives its zone back (TakeMigrateZone, GetMigrateTargetZone,              *)
(* ReleaseMigrateZone).                                                     *)
THEOREM TargetsAreExclusive == Spec => []TargetsExclusive
<1>1. ExclusiveInv => TargetsExclusive
  BY DEF ExclusiveInv
<1> QED BY <1>1, InitExclusive, NextExclusive, PTL DEF Spec

-----------------------------------------------------------------------------
(* What a migration counts and keeps                                        *)

Extents == [zone : Zone, off : Nat, gen : Nat]
Entries == [file : Files, name : {1, 2}, starts : SUBSET (Zone \X Nat)]

(* Where a worker has a file of its own.                                    *)
Moving == Pcs \ {"idle", "next", "reset"}

(* The types of what the workers and the clients share.                     *)
FileTypes ==
  /\ wp \in [Zone -> 0..ZoneCap] /\ used \in [Zone -> Int] /\ gen \in [Zone -> Nat]
  /\ alive \in [Files -> BOOLEAN] /\ name \in [Files -> {1, 2}]
  /\ exts \in [Files -> Seq(Extents)] /\ durable \in [Files -> Seq(Extents)]
  /\ wr \in [Files -> Workers \cup {Nobody}] /\ readers \in [Files -> 0..MaxReaders]
  /\ list \in [Workers -> Seq(Extents)]
  /\ todo \in [Workers -> SUBSET Entries] /\ cur \in [Workers -> Entries \cup {NoFile}]

(* A worker that moves a file holds its write lock, and nobody else does.   *)
Locked ==
  /\ \A w \in Workers : IF pc[w] \in Moving
                        THEN cur[w] \in Entries /\ wr[cur[w].file] = w
                        ELSE cur[w] = NoFile /\ list[w] = <<>>
  /\ \A f \in Files, w \in Workers : wr[f] = w => pc[w] \in Moving /\ cur[w].file = f

(* There is room for the block that is about to be copied.                  *)
Room == \A w \in Workers : pc[w] = "copy" => wp[target[w]] < ZoneCap

MoveInv == ExclusiveInv /\ FileTypes /\ Locked /\ Room

-----------------------------------------------------------------------------
(* The zones that need an active token.  One that nobody has written to yet *)
(* needs it too once it is taken, or counts as used after a copy failed.    *)
Needy == {z \in Zone : Partial(z) \/ (wp[z] = 0 /\ (busy[z] \/ used[z] > 0))}

ActiveInv == active \in Int /\ Cardinality(Needy) <= active /\ active <= MaxActive

-----------------------------------------------------------------------------
(* The list of a worker is what stands between a file and the loss of its   *)
(* blocks: the copies, and then the originals.                              *)
Shown(w) == IF pc[w] \in Moving \ {"unlock"} THEN Range(list[w]) ELSE {}

(* The extents of file f, in memory, in the log and on the move.            *)
Own(f) ==
  Range(exts[f]) \cup Range(durable[f]) \cup (IF wr[f] \in Workers THEN Shown(wr[f]) ELSE {})

Live == UNION {Own(f) : f \in Files}
At(z) == {e \in Live : e.zone = z}

(* No block belongs to two files,                                           *)
Apart == \A f, g \in Files : f # g => Own(f) \cap Own(g) = {}

(* or twice to one, but for the extents that both lists have.               *)
Parallel(new, old) ==
  /\ IsInjective(new) /\ DOMAIN new = DOMAIN old
  /\ \A i, j \in DOMAIN old : new[i] = old[j] => i = j

Distinct ==
  /\ \A f \in Files : IsInjective(exts[f])
  /\ \A w \in Workers : pc[w] \in Moving \ {"unlock"} => Parallel(list[w], exts[cur[w].file])

(* What the log has.                                                        *)
Logged ==
  /\ \A f \in Files : ~alive[f] => durable[f] = <<>>
  /\ \A w \in Workers : pc[w] = "free" =>
       Range(durable[cur[w].file]) \subseteq Range(exts[cur[w].file])

(* A copy that no extent refers to yet is the last block of its zone.       *)
Fresh == \A w \in Workers : pc[w] = "check" =>
           \A e \in Live : e.zone = target[w] => e.off < wp[target[w]]

Kept == \A e \in Live : Intact(e)

(* used_capacity_ covers the blocks of its zone.                            *)
Covered == \A z \in Zone : Cardinality(At(z)) <= used[z]

(* Every copy was made.                                                     *)
Copied == \A w \in Workers : pc[w] # "checkfailed"

KeepInv == Apart /\ Distinct /\ Logged /\ Fresh /\ Kept /\ Covered /\ Copied

-----------------------------------------------------------------------------
(* The layouts at the start                                                 *)

Rank(x) == CHOOSE n \in DOMAIN Written : Written[n] = x
Slots == Files \X (1..MaxExtents)
Earlier(S, a) == {s \in S : Before(s[1], s[2], a[1], a[2])}

(* The constants, one fact at a time.                                       *)
LEMMA Constants ==
  /\ IsFiniteSet(Files) /\ Cardinality(Files) \in Nat
  /\ NrIOZones \in Nat /\ NrIOZones > 0 /\ ZoneCap \in Nat /\ ZoneCap > 0
  /\ Nobody \notin Workers /\ Client \notin Workers /\ IsFiniteSet(Zone)
  /\ MaxExtents \in Nat /\ MaxActive \in Nat /\ MaxReaders \in Nat
<1>1. IsFiniteSet(Files) /\ Cardinality(Files) \in Nat
  BY MigrationAssumption, FS_CardinalityType
<1>2. Nobody \notin Workers /\ Client \notin Workers
  BY MigrationAssumption DEF Nobody, Client
<1>3. IsFiniteSet(Zone)
  BY MigrationAssumption, FS_Interval DEF Zone
<1> QED BY <1>1, <1>2, <1>3, MigrationAssumption

(* Every file has a place of its own in the order they were written in.     *)
LEMMA RankFacts ==
  /\ \A x \in Files : Rank(x) \in Nat
  /\ \A x, y \in Files : Rank(x) = Rank(y) => x = y
<1> DEFINE n == Cardinality(Files)
<1>1. IsFiniteSet(Files) /\ n \in Nat
  BY Constants
<1>2. \E o \in [1..n -> Files] : IsInjective(o)
  <2>1. ExistsBijection(1..n, Files)
    BY <1>1, FS_CardinalityType
  <2> QED BY <2>1 DEF ExistsBijection, Bijection, Injection
<1>3. Written \in [1..n -> Files] /\ IsInjective(Written)
  BY <1>2 DEF Written
<1>4. Written \in Injection(1..n, Files)
  BY <1>3 DEF Injection
<1>5. Cardinality(1..n) = n /\ IsFiniteSet(1..n)
  BY <1>1, FS_Interval
<1>6. Written \in Surjection(1..n, Files)
  BY <1>1, <1>4, <1>5, FS_Injection
<1>7. \A x \in Files : \E k \in 1..n : Written[k] = x
  BY <1>6 DEF Surjection
<1>8. DOMAIN Written = 1..n
  BY <1>3
<1> HIDE DEF n
<1>9. \A x \in Files : Rank(x) \in 1..n /\ Written[Rank(x)] = x
  BY <1>7, <1>8 DEF Rank
<1> QED BY <1>1, <1>9

(* Before orders the slots by the rank of the file and then by position.    *)
LEMMA BeforeFacts ==
  ASSUME NEW a \in Slots, NEW b \in Slots
  PROVE  /\ Before(a[1], a[2], b[1], b[2]) <=>
              (Rank(a[1]) < Rank(b[1]) \/ (a[1] = b[1] /\ a[2] < b[2]))
         /\ a[1] \in Files /\ a[2] \in Nat /\ b[1] \in Files /\ b[2] \in Nat
         /\ Rank(a[1]) \in Nat /\ Rank(b[1]) \in Nat /\ a = <<a[1], a[2]>> /\ b = <<b[1], b[2]>>
         /\ Rank(a[1]) = Rank(b[1]) => a[1] = b[1]
<1>1. a[1] \in Files /\ a[2] \in Nat /\ b[1] \in Files /\ b[2] \in Nat
  BY Constants DEF Slots
<1>2. a = <<a[1], a[2]>> /\ b = <<b[1], b[2]>>
  BY DEF Slots
<1>3. Before(a[1], a[2], b[1], b[2]) <=>
        (Rank(a[1]) < Rank(b[1]) \/ (a[1] = b[1] /\ a[2] < b[2]))
  BY DEF Before, Rank
<1> QED BY <1>1, <1>2, <1>3, RankFacts

(* What was written later has more before it.                               *)
LEMMA EarlierGrows ==
  ASSUME NEW S \in SUBSET Slots, IsFiniteSet(S), NEW a \in S, NEW b \in S,
         Before(a[1], a[2], b[1], b[2])
  PROVE  Cardinality(Earlier(S, a)) < Cardinality(Earlier(S, b))
<1>1. a \in Earlier(S, b)
  BY DEF Earlier
<1>2. a \notin Earlier(S, a)
  BY BeforeFacts DEF Earlier
<1>3. ASSUME NEW s \in Earlier(S, a) PROVE s \in Earlier(S, b)
  <2>1. s \in S /\ Before(s[1], s[2], a[1], a[2])
    BY DEF Earlier
  <2>2. Before(s[1], s[2], b[1], b[2])
    <3>1. /\ Rank(s[1]) < Rank(a[1]) \/ (s[1] = a[1] /\ s[2] < a[2])
          /\ Rank(s[1]) \in Nat /\ Rank(a[1]) \in Nat /\ s[2] \in Nat /\ a[2] \in Nat
      BY <2>1, BeforeFacts
    <3>2. /\ Rank(a[1]) < Rank(b[1]) \/ (a[1] = b[1] /\ a[2] < b[2])
          /\ Rank(b[1]) \in Nat /\ b[2] \in Nat
      BY BeforeFacts
    <3>3. Rank(s[1]) < Rank(b[1]) \/ (s[1] = b[1] /\ s[2] < b[2])
      BY <3>1, <3>2
    <3> QED BY <2>1, <3>3, BeforeFacts
  <2> QED BY <2>1, <2>2 DEF Earlier
<1>4. IsFiniteSet(Earlier(S, b)) /\ Earlier(S, a) \in SUBSET Earlier(S, b)
  <2>1. Earlier(S, b) \in SUBSET S
    BY DEF Earlier
  <2> QED BY <1>3, <2>1, FS_Subset
<1>5. /\ Cardinality(Earlier(S, a)) <= Cardinality(Earlier(S, b))
      /\ Cardinality(Earlier(S, b)) = Cardinality(Earlier(S, a)) => Earlier(S, b) = Earlier(S, a)
      /\ IsFiniteSet(Earlier(S, a))
  BY <1>4, FS_Subset
<1>6. Cardinality(Earlier(S, a)) \in Nat /\ Cardinality(Earlier(S, b)) \in Nat
  BY <1>4, <1>5, FS_CardinalityType
<1> QED BY <1>1, <1>2, <1>5, <1>6

(* Numbered in the order of writing, the blocks of a zone are all different *)
(* and below its write pointer.                                             *)
LEMMA EarlierCounts ==
  ASSUME NEW S \in SUBSET Slots
  PROVE  /\ IsFiniteSet(S) /\ Cardinality(S) \in Nat
         /\ \A a \in S : /\ 1 + Cardinality(Earlier(S, a)) \in Nat
                         /\ 1 + Cardinality(Earlier(S, a)) <= Cardinality(S)
         /\ \A a, b \in S : Cardinality(Earlier(S, a)) = Cardinality(Earlier(S, b)) => a = b
<1>1. IsFiniteSet(S) /\ Cardinality(S) \in Nat
  <2>1. IsFiniteSet(1..MaxExtents) /\ IsFiniteSet(Files)
    BY Constants, FS_Interval
  <2>2. IsFiniteSet(Slots)
    BY <2>1, FS_Product DEF Slots
  <2> QED BY <2>2, FS_Subset, FS_CardinalityType
<1>2. ASSUME NEW a \in S
      PROVE  /\ Cardinality(Earlier(S, a)) \in Nat
             /\ 1 + Cardinality(Earlier(S, a)) <= Cardinality(S)
  <2>1. Earlier(S, a) \in SUBSET S /\ a \notin Earlier(S, a)
    BY BeforeFacts DEF Earlier
  <2>2. /\ IsFiniteSet(Earlier(S, a)) /\ Cardinality(Earlier(S, a)) <= Cardinality(S)
        /\ Cardinality(S) = Cardinality(Earlier(S, a)) => S = Earlier(S, a)
    BY <1>1, <2>1, FS_Subset
  <2>3. Cardinality(Earlier(S, a)) \in Nat
    BY <2>2, FS_CardinalityType
  <2> QED BY <1>1, <2>1, <2>2, <2>3
<1>3. ASSUME NEW a \in S, NEW b \in S, Cardinality(Earlier(S, a)) = Cardinality(Earlier(S, b))
      PROVE  a = b
  <2>1. ~ Before(a[1], a[2], b[1], b[2]) /\ ~ Before(b[1], b[2], a[1], a[2])
    BY <1>1, <1>2, <1>3, EarlierGrows
  <2>2. a \in Slots /\ b \in Slots
    OBVIOUS
  <2>3. /\ ~ (Rank(a[1]) < Rank(b[1])) /\ ~ (Rank(b[1]) < Rank(a[1]))
        /\ ~ (a[1] = b[1] /\ a[2] < b[2]) /\ ~ (b[1] = a[1] /\ b[2] < a[2])
    BY <2>1, <2>2, BeforeFacts
  <2>4. a[1] = b[1] /\ a[2] = b[2]
    BY <2>2, <2>3, BeforeFacts
  <2> QED BY <2>2, <2>4, BeforeFacts
<1> QED BY <1>1, <1>2, <1>3

(* The positions at which a file has an extent in zone z.                   *)
Placed(z) == {s \in Slots : s[2] \in DOMAIN exts[s[1]] /\ exts[s[1]][s[2]].zone = z}

(* What Init says of the layout.                                            *)
LEMMA InitLayout ==
  ASSUME Init
  PROVE  /\ exts \in [Files -> Seq(Extents)]
         /\ \A f \in Files : DOMAIN exts[f] \subseteq 1..MaxExtents
         /\ wp \in [Zone -> 0..ZoneCap]
         /\ used \in [Zone -> Nat]
         /\ \A z \in Zone : used[z] = Cardinality(Placed(z)) /\ used[z] <= wp[z]
         /\ \A f \in Files : \A i \in DOMAIN exts[f] :
              exts[f][i].off <= wp[exts[f][i].zone] /\ exts[f][i].gen = 0
         /\ \A f, g \in Files : \A i \in DOMAIN exts[f], j \in DOMAIN exts[g] :
              exts[f][i] = exts[g][j] => f = g /\ i = j
<1> DEFINE slots(pl, z) == {s \in Files \X (1..MaxExtents) :
                              s[2] \in DOMAIN pl[s[1]] /\ pl[s[1]][s[2]] = z}
           off(pl, f, i) == 1 + Cardinality({s \in slots(pl, pl[f][i]) :
                                               Before(s[1], s[2], f, i)})
<1>1. PICK place \in [Files -> UNION {[1..n -> Zone] : n \in 1..MaxExtents}],
           garbage \in [Zone -> 0..ZoneCap] :
        /\ used = [z \in Zone |-> Cardinality(slots(place, z))]
        /\ wp = [z \in Zone |-> Cardinality(slots(place, z)) + garbage[z]]
        /\ \A z \in Zone : wp[z] <= ZoneCap
        /\ exts = [f \in Files |-> [i \in DOMAIN place[f] |->
                    [zone |-> place[f][i], off |-> off(place, f, i), gen |-> 0]]]
  BY Zenon DEF Init
<1> DEFINE S(z) == slots(place, z)
           o(f, i) == off(place, f, i)
<1>2. \A f \in Files : \E n \in 1..MaxExtents : place[f] \in [1..n -> Zone]
  <2>1. place \in [Files -> UNION {[1..n -> Zone] : n \in 1..MaxExtents}]
    BY <1>1, Zenon
  <2> QED BY <2>1
<1>3. \A f \in Files : \E n \in Nat : /\ DOMAIN place[f] = 1..n /\ 1..n \subseteq 1..MaxExtents
                                      /\ \A i \in 1..n : place[f][i] \in Zone
  BY <1>2, Constants
<1>4. \A f \in Files : \A i \in DOMAIN place[f] :
        place[f][i] \in Zone /\ <<f, i>> \in S(place[f][i])
  BY <1>3
<1>5. \A z : S(z) \in SUBSET Slots
  BY DEF Slots
<1>6. \A f \in Files : \A i \in DOMAIN place[f] :
        o(f, i) = 1 + Cardinality(Earlier(S(place[f][i]), <<f, i>>))
  BY DEF Earlier
<1>7. /\ DOMAIN exts = Files
      /\ \A f \in Files : DOMAIN exts[f] = DOMAIN place[f]
  <2> HIDE DEF off
  <2> QED BY <1>1
<1>8. /\ used = [z \in Zone |-> Cardinality(S(z))]
      /\ wp = [z \in Zone |-> Cardinality(S(z)) + garbage[z]]
      /\ garbage \in [Zone -> 0..ZoneCap] /\ \A z \in Zone : wp[z] <= ZoneCap
  BY <1>1
<1>9. ASSUME NEW f \in Files, NEW i \in DOMAIN place[f]
      PROVE  /\ exts[f][i].zone = place[f][i] /\ exts[f][i].off = o(f, i) /\ exts[f][i].gen = 0
             /\ o(f, i) \in Nat /\ o(f, i) <= wp[place[f][i]] /\ exts[f][i] \in Extents
  <2>1. exts[f][i] = [zone |-> place[f][i], off |-> o(f, i), gen |-> 0]
    <3> HIDE DEF off
    <3> QED BY <1>1
  <2> HIDE DEF S, o, slots, off
  <2>2. PICK z \in Zone : z = place[f][i] /\ <<f, i>> \in S(z) /\ S(z) \in SUBSET Slots
    BY <1>4, <1>5
  <2>3. o(f, i) = 1 + Cardinality(Earlier(S(z), <<f, i>>))
    BY <1>6, <2>2
  <2>4. o(f, i) \in Nat /\ o(f, i) <= Cardinality(S(z))
    <3>1. PICK a : a = <<f, i>>
      OBVIOUS
    <3>2. a \in S(z) /\ S(z) \in SUBSET Slots /\ o(f, i) = 1 + Cardinality(Earlier(S(z), a))
      BY <2>2, <2>3, <3>1
    <3>3. /\ 1 + Cardinality(Earlier(S(z), a)) \in Nat
          /\ 1 + Cardinality(Earlier(S(z), a)) <= Cardinality(S(z))
      BY <3>2, EarlierCounts
    <3> QED BY <3>2, <3>3
  <2>5. Cardinality(S(z)) \in Nat /\ wp[z] = Cardinality(S(z)) + garbage[z] /\ garbage[z] \in Nat
    <3>1. Cardinality(S(z)) \in Nat
      BY <2>2, EarlierCounts
    <3> QED BY <1>8, <3>1, Constants
  <2> QED BY <2>1, <2>2, <2>4, <2>5 DEF Extents
<1> HIDE DEF S, o, slots, off
<1>10. \A f \in Files : exts[f] \in Seq(Extents) /\ DOMAIN exts[f] \subseteq 1..MaxExtents
  <2> SUFFICES ASSUME NEW f \in Files
               PROVE  exts[f] \in Seq(Extents) /\ DOMAIN exts[f] \subseteq 1..MaxExtents
    OBVIOUS
  <2>1. PICK n \in Nat : DOMAIN place[f] = 1..n /\ 1..n \subseteq 1..MaxExtents
    BY <1>3
  <2>2. \A i \in 1..n : exts[f][i] \in Extents
    BY <1>9, <2>1
  <2>3. exts[f] = [i \in 1..n |-> exts[f][i]]
    <3>1. exts[f] = [i \in DOMAIN place[f] |->
                      [zone |-> place[f][i], off |-> off(place, f, i), gen |-> 0]]
      BY <1>1
    <3> QED BY <2>1, <3>1
  <2> QED BY <1>7, <2>1, <2>2, <2>3
<1>11. wp \in [Zone -> 0..ZoneCap] /\ used \in [Zone -> Nat] /\ \A z \in Zone : used[z] <= wp[z]
  <2>1. \A z \in Zone : Cardinality(S(z)) \in Nat
    BY <1>5, EarlierCounts
  <2> QED BY <1>8, <2>1, Constants
<1>12. ASSUME NEW z \in Zone PROVE used[z] = Cardinality(Placed(z))
  <2>1. Placed(z) = S(z)
    <3>1. ASSUME NEW s \in Slots
          PROVE  (s[2] \in DOMAIN exts[s[1]] /\ exts[s[1]][s[2]].zone = z)
                   <=> (s[2] \in DOMAIN place[s[1]] /\ place[s[1]][s[2]] = z)
      <4>1. s[1] \in Files
        BY DEF Slots
      <4> QED BY <1>7, <1>9, <4>1
    <3>2. S(z) = {s \in Slots : s[2] \in DOMAIN place[s[1]] /\ place[s[1]][s[2]] = z}
      BY DEF S, slots, Slots
    <3> QED BY <3>1, <3>2 DEF Placed
  <2> QED BY <1>8, <2>1
<1>13. ASSUME NEW f \in Files, NEW g \in Files, NEW i \in DOMAIN exts[f], NEW j \in DOMAIN exts[g],
              exts[f][i] = exts[g][j]
       PROVE  f = g /\ i = j
  <2>1. i \in DOMAIN place[f] /\ j \in DOMAIN place[g]
    BY <1>7
  <2>2. place[f][i] = place[g][j] /\ o(f, i) = o(g, j)
    BY <1>9, <1>13, <2>1
  <2>3. PICK z : z = place[f][i]
    OBVIOUS
  <2>4. PICK a, b : a = <<f, i>> /\ b = <<g, j>>
    OBVIOUS
  <2>5. /\ a \in S(z) /\ b \in S(z) /\ S(z) \in SUBSET Slots
        /\ o(f, i) = 1 + Cardinality(Earlier(S(z), a))
        /\ o(g, j) = 1 + Cardinality(Earlier(S(z), b))
    BY <1>4, <1>5, <1>6, <2>1, <2>2, <2>3, <2>4
  <2>6. Cardinality(Earlier(S(z), a)) \in Int /\ Cardinality(Earlier(S(z), b)) \in Int
    <3>1. IsFiniteSet(S(z))
      BY <2>5, EarlierCounts
    <3>2. \A x : Earlier(S(z), x) \in SUBSET S(z)
      BY DEF Earlier
    <3> QED BY <3>1, <3>2, FS_Subset, FS_CardinalityType
  <2>7. Cardinality(Earlier(S(z), a)) = Cardinality(Earlier(S(z), b))
    <3>1. PICK n \in Int, m \in Int : /\ n = Cardinality(Earlier(S(z), a))
                                     /\ m = Cardinality(Earlier(S(z), b))
      BY <2>6
    <3>2. 1 + n = 1 + m
      BY <2>2, <2>5, <3>1
    <3>3. n = m
      BY <3>1, <3>2
    <3> QED BY <3>1, <3>3
  <2>8. a = b
    BY <2>5, <2>7, EarlierCounts
  <2> QED BY <2>4, <2>8
<1>14. \A f \in Files : \A i \in DOMAIN exts[f] :
         exts[f][i].off <= wp[exts[f][i].zone] /\ exts[f][i].gen = 0
  BY <1>7, <1>9
<1>15. exts \in [Files -> Seq(Extents)]
  <2>1. exts = [f \in Files |-> exts[f]]
    BY <1>1
  <2> QED BY <1>10, <2>1
<1> QED BY <1>10, <1>11, <1>12, <1>13, <1>14, <1>15

-----------------------------------------------------------------------------
(* Types, locks and room                                                    *)

fileTypeVars == <<wp, used, gen, alive, name, exts, durable, wr, readers, list, todo, cur>>

(* The extents of a list that lie in a zone are finitely many.              *)
LEMMA InNat ==
  ASSUME NEW s \in Seq(Extents), NEW z
  PROVE  /\ IsFiniteSet(DOMAIN s) /\ IsFiniteSet({i \in DOMAIN s : s[i].zone = z})
         /\ In(s, z) \in Nat
<1>1. DOMAIN s = 1..Len(s) /\ Len(s) \in Nat
  OBVIOUS
<1>2. IsFiniteSet(DOMAIN s)
  BY <1>1, FS_Interval
<1>3. {i \in DOMAIN s : s[i].zone = z} \in SUBSET DOMAIN s
  OBVIOUS
<1>4. IsFiniteSet({i \in DOMAIN s : s[i].zone = z})
  BY <1>2, <1>3, FS_Subset
<1> QED BY <1>2, <1>4, FS_CardinalityType DEF In

(* Dropping a reference to a file only lowers the used capacities.          *)
LEMMA DropTypes ==
  ASSUME FileTypes, NEW f \in Files, NEW last \in BOOLEAN, DropReference(f, last)
  PROVE  /\ used' \in [Zone -> Int] /\ \A z \in Zone : used'[z] <= used[z]
         /\ exts' \in [Files -> Seq(Extents)]
<1>1. CASE last
  <2>1. used' = [z \in Zone |-> used[z] - In(exts[f], z)] /\ exts' = [exts EXCEPT ![f] = <<>>]
    BY <1>1 DEF DropReference, Freed
  <2>2. exts[f] \in Seq(Extents) /\ used \in [Zone -> Int] /\ exts \in [Files -> Seq(Extents)]
    BY DEF FileTypes
  <2>3. \A z \in Zone : In(exts[f], z) \in Nat
    BY <2>2, InNat
  <2>4. <<>> \in Seq(Extents)
    OBVIOUS
  <2> QED BY <2>1, <2>2, <2>3, <2>4
<1>2. CASE ~ last
  BY <1>2 DEF DropReference, FileTypes
<1> QED BY <1>1, <1>2

(* A step that changes none of the files, zones and lists keeps their       *)
(* types.                                                                   *)
LEMMA KeepTypes ==
  ASSUME FileTypes, UNCHANGED fileTypeVars
  PROVE  FileTypes'
BY DEF FileTypes, fileTypeVars

(* A call of a client keeps the types and adds to no used capacity.         *)
LEMMA ClientTypes ==
  ASSUME FileTypes, NEW f \in Files,
         DeleteFile(f) \/ RenameFile(f) \/ StartRead(f) \/ EndRead(f)
  PROVE  FileTypes' /\ \A z \in Zone : used'[z] <= used[z]
<1>1. used \in [Zone -> Int] /\ \A z \in Zone : used[z] <= used[z]
  BY DEF FileTypes
<1>2. CASE DeleteFile(f)
  <2>1. PICK last \in BOOLEAN : DropReference(f, last)
    BY <1>2 DEF DeleteFile
  <2>2. /\ used' \in [Zone -> Int] /\ \A z \in Zone : used'[z] <= used[z]
        /\ exts' \in [Files -> Seq(Extents)]
    BY <2>1, DropTypes
  <2>3. alive' \in [Files -> BOOLEAN]
    BY <1>2 DEF DeleteFile, FileTypes
  <2>4. durable' \in [Files -> Seq(Extents)]
    <3>1. <<>> \in Seq(Extents)
      OBVIOUS
    <3> QED BY <1>2, <3>1 DEF DeleteFile, FileTypes
  <2>5. UNCHANGED <<wp, gen, name, wr, readers, list, todo, cur>>
    BY <1>2 DEF DeleteFile, workVars
  <2> QED BY <2>2, <2>3, <2>4, <2>5 DEF FileTypes
<1>3. CASE RenameFile(f)
  <2>1. name' \in [Files -> {1, 2}]
    BY <1>3 DEF RenameFile, FileTypes
  <2>2. durable' \in [Files -> Seq(Extents)]
    <3>1. durable[f] \in Seq(Extents) /\ exts[f] \in Seq(Extents)
      BY DEF FileTypes
    <3>2. durable[f] \o exts[f] \in Seq(Extents)
      BY <3>1
    <3> QED BY <1>3, <3>1, <3>2 DEF RenameFile, FileTypes
  <2>3. UNCHANGED <<wp, used, gen, alive, exts, wr, readers, list, todo, cur>>
    BY <1>3 DEF RenameFile, workVars, zoneVars
  <2> QED BY <1>1, <2>1, <2>2, <2>3 DEF FileTypes
<1>4. CASE StartRead(f)
  <2>1. readers' \in [Files -> 0..MaxReaders]
    BY <1>4, Constants DEF StartRead, FileTypes
  <2>2. UNCHANGED <<wp, used, gen, alive, name, exts, durable, wr, list, todo, cur>>
    BY <1>4 DEF StartRead, workVars, zoneVars
  <2> QED BY <1>1, <2>1, <2>2 DEF FileTypes
<1>5. CASE EndRead(f)
  <2>1. PICK last \in BOOLEAN : DropReference(f, last)
    BY <1>5 DEF EndRead
  <2>2. /\ used' \in [Zone -> Int] /\ \A z \in Zone : used'[z] <= used[z]
        /\ exts' \in [Files -> Seq(Extents)]
    BY <2>1, DropTypes
  <2>3. readers' \in [Files -> 0..MaxReaders]
    BY <1>5, Constants DEF EndRead, FileTypes
  <2>4. UNCHANGED <<wp, gen, alive, name, durable, wr, list, todo, cur>>
    BY <1>5 DEF EndRead, workVars
  <2> QED BY <2>2, <2>3, <2>4 DEF FileTypes
<1> QED BY <1>2, <1>3, <1>4, <1>5

(* A reset of an unused zone.                                               *)
LEMMA ScanTypes ==
  ASSUME FileTypes, NEW a, ScanReset(a)
  PROVE  FileTypes'
<1>1. wp' \in [Zone -> 0..ZoneCap] /\ gen' \in [Zone -> Nat]
  <2>1. PICK z \in Zone :
          \/ wp' = [wp EXCEPT ![z] = 0] /\ gen' = [gen EXCEPT ![z] = @ + 1]
          \/ UNCHANGED <<wp, gen>>
    BY DEF ScanReset
  <2>2. 0 \in 0..ZoneCap /\ wp \in [Zone -> 0..ZoneCap] /\ gen \in [Zone -> Nat]
    BY Constants DEF FileTypes
  <2>3. wp' \in [Zone -> 0..ZoneCap]
    BY <2>1, <2>2
  <2>4. gen' \in [Zone -> Nat]
    BY <2>1, <2>2
  <2> QED BY <2>3, <2>4
<1>2. UNCHANGED <<used, alive, name, exts, durable, wr, readers, list, todo, cur>>
  BY DEF ScanReset, fileVars, workVars
<1> QED BY <1>1, <1>2 DEF FileTypes

(* A worker that sets out with a list of files keeps the types.             *)
LEMMA SetOutTypes ==
  ASSUME FileTypes, NEW w \in Workers, NEW zs, SetOut(w, zs)
  PROVE  FileTypes'
<1>1. UNCHANGED <<wp, used, gen, alive, name, exts, durable, wr, readers, list, cur>>
  BY DEF SetOut, zoneVars, fileVars
<1> DEFINE found == Snapshot(zs)
           entry(f) == [file |-> f, name |-> name[f],
                        starts |-> {Start(exts[f][s[2]]) : s \in {t \in found : t[1] = f}}]
<1>2. todo' = [todo EXCEPT ![w] = {entry(f) : f \in {s[1] : s \in found}}]
  BY DEF SetOut
<1>3. ASSUME NEW f \in {s[1] : s \in found} PROVE entry(f) \in Entries
  <2>1. f \in Files
    BY DEF Snapshot
  <2>2. name[f] \in {1, 2} /\ exts[f] \in Seq(Extents)
    BY <2>1 DEF FileTypes
  <2>3. ASSUME NEW s \in {t \in found : t[1] = f} PROVE Start(exts[f][s[2]]) \in Zone \X Nat
    <3>1. s[2] \in DOMAIN exts[f]
      BY DEF Snapshot
    <3>2. exts[f][s[2]] \in Extents
      BY <2>2, <3>1
    <3> QED BY <3>2 DEF Start, Extents
  <2>4. {Start(exts[f][s[2]]) : s \in {t \in found : t[1] = f}} \in SUBSET (Zone \X Nat)
    BY <2>3
  <2> HIDE DEF found
  <2> QED BY <2>1, <2>2, <2>4 DEF Entries
<1>4. {entry(f) : f \in {s[1] : s \in found}} \in SUBSET Entries
  BY <1>3
<1> HIDE DEF entry, found
<1>5. todo' \in [Workers -> SUBSET Entries]
  BY <1>2, <1>4 DEF FileTypes
<1> QED BY <1>1, <1>5 DEF FileTypes

(* The steps of a worker that leave the files and the counters alone.       *)
Elsewhere(w) ==
  \/ SleepWhileMigrating(w) \/ TakeMigrateZone(w) \/ GetMigrateTargetZone(w)
  \/ WaitForOpenIOZoneToken(w) \/ SearchEmptyZone(w) \/ SearchOpenZone(w)
  \/ ReleaseMigrateZone(w) \/ LockExtents(w)

(* The steps of a worker that has no file in hand touch neither files nor   *)
(* zones.                                                                   *)
LEMMA ElsewhereTypes ==
  ASSUME FileTypes, NEW w \in Workers, Elsewhere(w)
  PROVE  FileTypes' /\ UNCHANGED fileTypeVars
<1>1. UNCHANGED fileTypeVars
  BY DEF Elsewhere, SleepWhileMigrating, TakeMigrateZone, GetMigrateTargetZone,
         WaitForOpenIOZoneToken, SearchEmptyZone, SearchOpenZone, ReleaseMigrateZone, LockExtents,
         fileTypeVars, zoneVars, fileVars, workVars
<1> QED BY <1>1, KeepTypes

(* What OpenForMigration does with the entry it takes.                      *)
LEMMA OpenFacts ==
  ASSUME FileTypes, NEW w \in Workers, OpenForMigration(w)
  PROVE  \E x \in Entries :
           /\ x \in todo[w] /\ todo' = [todo EXCEPT ![w] = @ \ {x}]
           /\ \/ /\ wr[x.file] = Nobody /\ wr' = [wr EXCEPT ![x.file] = w]
                 /\ cur' = [cur EXCEPT ![w] = x]
                 /\ list' = [list EXCEPT ![w] = exts[x.file]]
                 /\ \E there \in {"take", "sync"} : pc' = [pc EXCEPT ![w] = there]
              \/ pc' = [pc EXCEPT ![w] = "reset"] /\ UNCHANGED <<wr, cur, list>>
<1>1. PICK x \in todo[w] :
        LET found == alive[x.file] /\ name[x.file] = x.name /\ wr[x.file] = Nobody
            first == NextExtent(x, exts[x.file], 1) IN
        /\ todo' = [todo EXCEPT ![w] = @ \ {x}]
        /\ \/ /\ found
              /\ wr' = [wr EXCEPT ![x.file] = w]
              /\ cur' = [cur EXCEPT ![w] = x]
              /\ list' = [list EXCEPT ![w] = exts[x.file]]
              /\ idx' = [idx EXCEPT ![w] = first]
              /\ Goto(w, TakeOrSync(first))
              /\ UNCHANGED scan
           \/ /\ ~found \/ \E u \in Workers \ {w} : pc[u] = "idle"
              /\ Goto(w, "reset")
              /\ scan' = [scan EXCEPT ![w] = 1]
              /\ UNCHANGED <<wr, cur, list, idx>>
  BY Zenon DEF OpenForMigration
<1>2. x \in Entries
  BY DEF FileTypes
<1>3. \A i : TakeOrSync(i) \in {"take", "sync"}
  BY DEF TakeOrSync
<1>4. \/ /\ wr[x.file] = Nobody /\ wr' = [wr EXCEPT ![x.file] = w]
         /\ cur' = [cur EXCEPT ![w] = x]
         /\ list' = [list EXCEPT ![w] = exts[x.file]]
         /\ \E there \in {"take", "sync"} : pc' = [pc EXCEPT ![w] = there]
      \/ pc' = [pc EXCEPT ![w] = "reset"] /\ UNCHANGED <<wr, cur, list>>
  BY <1>1, <1>3 DEF Goto
<1> QED BY <1>1, <1>2, <1>4

(* The entries of new extents.                                              *)
LEMMA ReplacedType ==
  ASSUME NEW s \in Seq(Extents), NEW i, NEW e \in Extents
  PROVE  [s EXCEPT ![i] = e] \in Seq(Extents)
<1>1. PICK n \in Nat : s \in [1..n -> Extents]
  BY SeqDef
<1>2. [s EXCEPT ![i] = e] \in [1..n -> Extents]
  BY <1>1
<1> QED BY <1>1, <1>2, SeqDef

(* Writing one entry of the extent list of a worker leaves the other lists  *)
(* alone.                                                                   *)
LEMMA ListFacts ==
  ASSUME FileTypes, NEW w \in Workers, NEW i, NEW e,
         list' = [list EXCEPT ![w][i] = e]
  PROVE  list' = [list EXCEPT ![w] = [list[w] EXCEPT ![i] = e]]
BY DEF FileTypes

(* The steps that move a file keep the types.                               *)
LEMMA MovingTypes ==
  ASSUME MoveInv, NEW w \in Workers,
         \/ OpenForMigration(w) \/ MigrateData(w) \/ CheckFile(w) \/ ReplaceExtentList(w)
         \/ SyncFileMetadata(w) \/ FreeOldExtents(w) \/ ReleaseWRLock(w)
  PROVE  FileTypes'
<1>1. FileTypes /\ Locked /\ Room
  BY DEF MoveInv
<1>2. CASE OpenForMigration(w)
  <2>1. UNCHANGED <<wp, used, gen, alive, name, exts, durable, readers>>
    BY <1>2 DEF OpenForMigration, zoneVars
  <2>2. PICK x \in Entries :
           /\ todo' = [todo EXCEPT ![w] = @ \ {x}]
           /\ \/ /\ wr' = [wr EXCEPT ![x.file] = w]
                 /\ cur' = [cur EXCEPT ![w] = x]
                 /\ list' = [list EXCEPT ![w] = exts[x.file]]
              \/ UNCHANGED <<wr, cur, list>>
    BY <1>1, <1>2, OpenFacts
  <2>3. x.file \in Files
    BY DEF Entries
  <2>4. todo' \in [Workers -> SUBSET Entries]
    BY <1>1, <2>2 DEF FileTypes
  <2>5. /\ wr' \in [Files -> Workers \cup {Nobody}] /\ list' \in [Workers -> Seq(Extents)]
        /\ cur' \in [Workers -> Entries \cup {NoFile}]
    <3>1. exts[x.file] \in Seq(Extents)
      BY <1>1, <2>3 DEF FileTypes
    <3>2. wr' \in [Files -> Workers \cup {Nobody}]
      BY <1>1, <2>2, <2>3 DEF FileTypes
    <3>3. list' \in [Workers -> Seq(Extents)]
      BY <1>1, <2>2, <3>1 DEF FileTypes
    <3>4. cur' \in [Workers -> Entries \cup {NoFile}]
      BY <1>1, <2>2 DEF FileTypes
    <3> QED BY <3>2, <3>3, <3>4
  <2> QED BY <1>1, <2>1, <2>4, <2>5 DEF FileTypes
<1>3. CASE MigrateData(w)
  <2>1. target[w] \in Zone
    BY <1>3 DEF MoveInv, ExclusiveInv, Held, Holding, MigrateData
  <2>2. wp[target[w]] < ZoneCap
    BY <1>1, <1>3 DEF Room, MigrateData
  <2>3. wp' \in [Zone -> 0..ZoneCap]
    <3>1. wp \in [Zone -> 0..ZoneCap] /\ ZoneCap \in Nat
      BY <1>1, Constants DEF FileTypes
    <3>2. wp' = wp \/ wp' = [wp EXCEPT ![target[w]] = @ + 1]
      BY <1>3 DEF MigrateData
    <3>3. wp[target[w]] + 1 \in 0..ZoneCap
      BY <2>1, <2>2, <3>1
    <3> QED BY <2>1, <3>1, <3>2, <3>3
  <2>4. UNCHANGED <<used, gen, alive, name, exts, durable, wr, readers, list, todo, cur>>
    BY <1>3 DEF MigrateData, fileVars, workVars
  <2> QED BY <1>1, <2>3, <2>4 DEF FileTypes
<1>4. CASE CheckFile(w)
  <2>1. UNCHANGED <<wp, gen, alive, name, exts, durable, wr, readers, todo, cur>>
    BY <1>4 DEF CheckFile, fileVars
  <2>2. target[w] \in Zone
    BY <1>4 DEF MoveInv, ExclusiveInv, Held, Holding, CheckFile
  <2>3. PICK off \in {wp[target[w]], wp[target[w]] + 1} :
          \/ /\ used' = [used EXCEPT ![target[w]] = @ + 1]
             /\ list' = [list EXCEPT ![w][idx[w]] =
                          [zone |-> target[w], off |-> off, gen |-> gen[target[w]]]]
          \/ UNCHANGED <<used, list>>
    BY <1>4 DEF CheckFile, Adopt
  <2>4. PICK e : e = [zone |-> target[w], off |-> off, gen |-> gen[target[w]]]
    OBVIOUS
  <2>5. e \in Extents
    BY <1>1, <2>2, <2>4, Constants DEF Extents, FileTypes
  <2>6. CASE UNCHANGED <<used, list>>
    BY <1>1, <2>1, <2>6 DEF FileTypes
  <2>7. CASE /\ used' = [used EXCEPT ![target[w]] = @ + 1]
             /\ list' = [list EXCEPT ![w][idx[w]] = e]
    <3>1. list[w] \in Seq(Extents) /\ list \in [Workers -> Seq(Extents)]
      BY <1>1 DEF FileTypes
    <3>2. PICK n \in Seq(Extents) : n = [list[w] EXCEPT ![idx[w]] = e]
      BY <2>5, <3>1, ReplacedType
    <3>3. list' = [list EXCEPT ![w] = n]
      BY <1>1, <2>7, <3>2, ListFacts
    <3>4. list' \in [Workers -> Seq(Extents)]
      BY <3>1, <3>3
    <3>5. used' \in [Zone -> Int]
      BY <1>1, <2>2, <2>7 DEF FileTypes
    <3> QED BY <1>1, <2>1, <3>4, <3>5 DEF FileTypes
  <2> QED BY <2>3, <2>4, <2>6, <2>7
<1>5. ASSUME pc[w] \in Moving PROVE cur[w].file \in Files
  BY <1>1, <1>5 DEF Locked, Entries
<1>6. CASE ReplaceExtentList(w)
  <2>1. cur[w].file \in Files
    BY <1>5, <1>6 DEF ReplaceExtentList, Moving, Pcs
  <2>2. UNCHANGED <<wp, used, gen, alive, name, durable, wr, readers, todo, cur>>
    BY <1>6 DEF ReplaceExtentList, zoneVars
  <2>3. exts' \in [Files -> Seq(Extents)] /\ list' \in [Workers -> Seq(Extents)]
    BY <1>1, <1>6, <2>1 DEF ReplaceExtentList, FileTypes
  <2> QED BY <1>1, <2>2, <2>3 DEF FileTypes
<1>7. CASE SyncFileMetadata(w)
  <2>1. cur[w].file \in Files
    BY <1>5, <1>7 DEF SyncFileMetadata, Moving, Pcs
  <2>2. UNCHANGED <<wp, used, gen, alive, name, exts, wr, readers, list, todo, cur>>
    BY <1>7 DEF SyncFileMetadata, zoneVars, workVars
  <2>3. durable' \in [Files -> Seq(Extents)]
    <3>1. <<>> \in Seq(Extents) /\ exts[cur[w].file] \in Seq(Extents)
      BY <1>1, <2>1 DEF FileTypes
    <3> QED BY <1>1, <1>7, <2>1, <3>1 DEF SyncFileMetadata, FileTypes
  <2> QED BY <1>1, <2>2, <2>3 DEF FileTypes
<1>8. CASE FreeOldExtents(w)
  <2>1. UNCHANGED <<wp, gen, alive, name, exts, durable, wr, readers, list, todo, cur>>
    BY <1>8 DEF FreeOldExtents, fileVars, workVars
  <2>2. ASSUME NEW z \in Zone
        PROVE  Cardinality({i \in Changed(w) : list[w][i].zone = z}) \in Int
    <3>1. IsFiniteSet(DOMAIN list[w])
      BY <1>1, InNat DEF FileTypes
    <3>2. {i \in Changed(w) : list[w][i].zone = z} \in SUBSET DOMAIN list[w]
      BY DEF Changed
    <3>3. IsFiniteSet({i \in Changed(w) : list[w][i].zone = z})
      BY <3>1, <3>2, FS_Subset
    <3> QED BY <3>3, FS_CardinalityType
  <2>3. used' = [z \in Zone |-> used[z] - Cardinality({i \in Changed(w) : list[w][i].zone = z})]
    BY <1>8 DEF FreeOldExtents
  <2>4. used' \in [Zone -> Int]
    <3>1. ASSUME NEW z \in Zone
          PROVE  used[z] - Cardinality({i \in Changed(w) : list[w][i].zone = z}) \in Int
      <4>1. PICK n \in Int : n = Cardinality({i \in Changed(w) : list[w][i].zone = z})
        BY <2>2
      <4>2. used[z] \in Int
        BY <1>1 DEF FileTypes
      <4> QED BY <4>1, <4>2
    <3> QED BY <2>3, <3>1
  <2> QED BY <1>1, <2>1, <2>4 DEF FileTypes
<1>9. CASE ReleaseWRLock(w)
  <2>1. cur[w].file \in Files
    BY <1>5, <1>9 DEF ReleaseWRLock, Moving, Pcs
  <2>2. PICK last \in BOOLEAN : DropReference(cur[w].file, last)
    BY <1>9 DEF ReleaseWRLock
  <2>3. used' \in [Zone -> Int] /\ exts' \in [Files -> Seq(Extents)]
    BY <1>1, <2>1, <2>2, DropTypes
  <2>4. UNCHANGED <<wp, gen, alive, name, durable, readers, todo>>
    BY <1>9 DEF ReleaseWRLock
  <2>5. /\ wr' \in [Files -> Workers \cup {Nobody}] /\ list' \in [Workers -> Seq(Extents)]
        /\ cur' \in [Workers -> Entries \cup {NoFile}]
    <3>1. <<>> \in Seq(Extents)
      OBVIOUS
    <3> QED BY <1>1, <1>9, <2>1, <3>1 DEF ReleaseWRLock, FileTypes
  <2> QED BY <1>1, <2>3, <2>4, <2>5 DEF FileTypes
<1> QED BY <1>2, <1>3, <1>4, <1>6, <1>7, <1>8, <1>9

(* A step from a place without a file to another, or from one with a file   *)
(* to another, that keeps the file.                                         *)
LEMMA KeepLocked ==
  ASSUME Locked, UNCHANGED <<cur, wr>>,
         \A w \in Workers : pc'[w] \in Moving <=> pc[w] \in Moving,
         \A w \in Workers : pc[w] \notin Moving => list'[w] = list[w]
  PROVE  Locked'
BY DEF Locked

(* OpenForMigration takes the lock and ReleaseWRLock gives it back.         *)
LEMMA OpenLocked ==
  ASSUME MoveInv, NEW w \in Workers, OpenForMigration(w)
  PROVE  Locked'
<1>1. FileTypes /\ Locked /\ pc \in [Workers -> Pcs] /\ pc[w] = "next"
  BY DEF MoveInv, ExclusiveInv, Held, OpenForMigration
<1>2. PICK x \in Entries :
        \/ /\ wr[x.file] = Nobody /\ wr' = [wr EXCEPT ![x.file] = w]
           /\ cur' = [cur EXCEPT ![w] = x]
           /\ list' = [list EXCEPT ![w] = exts[x.file]]
           /\ \E there \in {"take", "sync"} : pc' = [pc EXCEPT ![w] = there]
        \/ pc' = [pc EXCEPT ![w] = "reset"] /\ UNCHANGED <<wr, cur, list>>
  BY <1>1, OpenFacts
<1>3. pc[w] \notin Moving /\ x.file \in Files /\ "reset" \notin Moving
  BY <1>1 DEF Moving, Entries
<1>4. CASE pc' = [pc EXCEPT ![w] = "reset"] /\ UNCHANGED <<wr, cur, list>>
  <2>1. \A u \in Workers : pc'[u] \in Moving <=> pc[u] \in Moving
    BY <1>1, <1>3, <1>4
  <2> QED BY <1>1, <1>4, <2>1, KeepLocked
<1>5. CASE /\ wr[x.file] = Nobody /\ wr' = [wr EXCEPT ![x.file] = w]
           /\ cur' = [cur EXCEPT ![w] = x]
           /\ list' = [list EXCEPT ![w] = exts[x.file]]
           /\ \E there \in {"take", "sync"} : pc' = [pc EXCEPT ![w] = there]
  <2>1. pc'[w] \in Moving /\ \A u \in Workers : u # w => pc'[u] = pc[u]
    BY <1>1, <1>5 DEF Moving, Pcs
  <2>2. /\ cur'[w] = x /\ \A u \in Workers : u # w => cur'[u] = cur[u] /\ list'[u] = list[u]
    BY <1>1, <1>5 DEF FileTypes
  <2>3. wr'[x.file] = w /\ \A f \in Files : f # x.file => wr'[f] = wr[f]
    BY <1>1, <1>3, <1>5 DEF FileTypes
  <2>4. ASSUME NEW u \in Workers
        PROVE  IF pc'[u] \in Moving THEN cur'[u] \in Entries /\ wr'[cur'[u].file] = u
               ELSE cur'[u] = NoFile /\ list'[u] = <<>>
    <3>1. CASE u = w
      BY <2>1, <2>2, <2>3, <3>1
    <3>2. CASE u # w
      <4>1. pc[u] \in Moving => cur[u] \in Entries /\ cur[u].file \in Files /\ wr[cur[u].file] = u
        BY <1>1 DEF Locked, Entries
      <4>2. pc[u] \in Moving => cur[u].file # x.file
        BY <1>5, <4>1, Constants
      <4> QED BY <1>1, <2>1, <2>2, <2>3, <3>2, <4>1, <4>2 DEF Locked
    <3> QED BY <3>1, <3>2
  <2>5. ASSUME NEW f \in Files, NEW u \in Workers, wr'[f] = u
        PROVE  pc'[u] \in Moving /\ cur'[u].file = f
    <3>1. CASE f = x.file
      BY <2>1, <2>2, <2>3, <2>5, <3>1
    <3>2. CASE f # x.file
      <4>1. wr[f] = u
        BY <2>3, <2>5, <3>2
      <4>2. pc[u] \in Moving /\ cur[u].file = f
        BY <1>1, <4>1 DEF Locked
      <4> QED BY <1>3, <2>1, <2>2, <4>2
    <3> QED BY <3>1, <3>2
  <2> QED BY <2>4, <2>5 DEF Locked
<1> QED BY <1>2, <1>4, <1>5

(* Giving the write lock back leaves every other worker with its own.       *)
LEMMA ReleaseLocked ==
  ASSUME MoveInv, NEW w \in Workers, ReleaseWRLock(w)
  PROVE  Locked'
<1>1. FileTypes /\ Locked /\ pc \in [Workers -> Pcs] /\ pc[w] = "unlock"
  BY DEF MoveInv, ExclusiveInv, Held, ReleaseWRLock
<1>2. cur[w].file \in Files /\ wr[cur[w].file] = w
  BY <1>1 DEF Locked, Moving, Pcs, Entries
<1>3. pc'[w] \notin Moving /\ \A u \in Workers : u # w => pc'[u] = pc[u]
  BY <1>1 DEF ReleaseWRLock, Goto, Moving
<1>4. /\ cur'[w] = NoFile /\ list'[w] = <<>>
      /\ \A u \in Workers : u # w => cur'[u] = cur[u] /\ list'[u] = list[u]
  BY <1>1 DEF ReleaseWRLock, FileTypes
<1>5. /\ wr'[cur[w].file] = Nobody
      /\ \A f \in Files : f # cur[w].file => wr'[f] = wr[f]
  BY <1>1, <1>2 DEF ReleaseWRLock, FileTypes
<1>6. ASSUME NEW u \in Workers
      PROVE  IF pc'[u] \in Moving THEN cur'[u] \in Entries /\ wr'[cur'[u].file] = u
             ELSE cur'[u] = NoFile /\ list'[u] = <<>>
  <2>1. CASE u = w
    BY <1>3, <1>4, <2>1
  <2>2. CASE u # w
    <3>1. pc[u] \in Moving => cur[u] \in Entries /\ cur[u].file \in Files /\ wr[cur[u].file] = u
      BY <1>1 DEF Locked, Entries
    <3>2. pc[u] \in Moving => cur[u].file # cur[w].file
      BY <1>2, <2>2, <3>1
    <3> QED BY <1>1, <1>3, <1>4, <1>5, <2>2, <3>1, <3>2 DEF Locked
  <2> QED BY <2>1, <2>2
<1>7. ASSUME NEW f \in Files, NEW u \in Workers, wr'[f] = u
      PROVE  pc'[u] \in Moving /\ cur'[u].file = f
  <2>1. f # cur[w].file /\ wr[f] = u
    BY <1>5, <1>7, Constants
  <2>2. pc[u] \in Moving /\ cur[u].file = f
    BY <1>1, <2>1 DEF Locked
  <2>3. u # w
    BY <2>1, <2>2
  <2> QED BY <1>3, <1>4, <2>2, <2>3
<1> QED BY <1>6, <1>7 DEF Locked

(* The other steps of a worker go from one place to another with the file,  *)
(* but for ResetUnusedIOZones, which has none.                              *)
LEMMA WorkerLocked ==
  ASSUME MoveInv, NEW w \in Workers, Worker(w)
  PROVE  Locked'
<1>1. FileTypes /\ Locked /\ pc \in [Workers -> Pcs]
  BY DEF MoveInv, ExclusiveInv, Held
<1>2. CASE ScanReset(w)
  <2>1. pc' = pc \/ (pc[w] = "reset" /\ \E there \in {"idle", "next"} : pc' = [pc EXCEPT ![w] = there])
    <3>1. scan[w] # 0 => pc[w] = "reset"
      BY DEF MoveInv, ExclusiveInv, Held
    <3>2. scan[w] # 0
      BY <1>2, NameFacts DEF ScanReset, NoZone
    <3> QED BY <1>2, <3>1, <3>2 DEF ScanReset, Goto
  <2>2. \A u \in Workers : pc'[u] \in Moving <=> pc[u] \in Moving
    BY <1>1, <2>1 DEF Moving
  <2>3. UNCHANGED <<cur, wr, list>>
    BY <1>2 DEF ScanReset, fileVars, workVars
  <2> QED BY <1>1, <2>2, <2>3, KeepLocked
<1>3. CASE ReleaseMigrateZone(w)
  <2>1. UNCHANGED <<cur, wr, list>>
    BY <1>3 DEF ReleaseMigrateZone, fileVars
  <2>2. pc[w] \in {"release", "abort", "giveup"}
    BY <1>3 DEF ReleaseMigrateZone
  <2>3. PICK there \in {"take", "sync"} :
          pc' = [u \in Workers |-> IF u = w THEN there
                                   ELSE IF pc[u] = "asleep" THEN "take" ELSE pc[u]]
    BY <1>3 DEF ReleaseMigrateZone, NotifyAndGoto, TakeOrSync
  <2>4. \A u \in Workers : pc'[u] \in Moving <=> pc[u] \in Moving
    BY <1>1, <2>2, <2>3 DEF Moving, Pcs
  <2> QED BY <1>1, <2>1, <2>4, KeepLocked
<1>4. CASE \/ SleepWhileMigrating(w) \/ TakeMigrateZone(w) \/ GetMigrateTargetZone(w)
           \/ WaitForOpenIOZoneToken(w) \/ SearchEmptyZone(w) \/ SearchOpenZone(w)
           \/ LockExtents(w)
  <2>1. UNCHANGED <<cur, wr, list>>
    BY <1>4, ElsewhereTypes, <1>1 DEF Elsewhere, fileTypeVars
  <2>2. pc[w] \in Moving /\ \E there \in Moving : pc' = [pc EXCEPT ![w] = there]
    BY <1>4 DEF SleepWhileMigrating, TakeMigrateZone, GetMigrateTargetZone, HoldZone,
         WaitForOpenIOZoneToken, SearchEmptyZone, SearchOpenZone, LockExtents, Goto, TakeOrSync,
         Moving, Pcs
  <2>3. \A u \in Workers : pc'[u] \in Moving <=> pc[u] \in Moving
    BY <1>1, <2>2
  <2> QED BY <1>1, <2>1, <2>3, KeepLocked
<1>5. CASE \/ MigrateData(w) \/ CheckFile(w) \/ ReplaceExtentList(w) \/ SyncFileMetadata(w)
           \/ FreeOldExtents(w)
  <2>1. UNCHANGED <<cur, wr>>
    BY <1>5 DEF MigrateData, CheckFile, ReplaceExtentList, SyncFileMetadata, FreeOldExtents,
                fileVars, workVars
  <2>2. pc[w] \in Moving /\ \E there \in Moving : pc' = [pc EXCEPT ![w] = there]
    BY <1>5 DEF MigrateData, CheckFile, ReplaceExtentList, SyncFileMetadata, FreeOldExtents, Goto,
                Moving, Pcs
  <2>3. \A u \in Workers : u # w => list'[u] = list[u]
    BY <1>1, <1>5 DEF MigrateData, CheckFile, ReplaceExtentList, SyncFileMetadata, FreeOldExtents,
                      workVars, FileTypes
  <2>4. \A u \in Workers : pc'[u] \in Moving <=> pc[u] \in Moving
    BY <1>1, <2>2
  <2>5. \A u \in Workers : pc[u] \notin Moving => list'[u] = list[u]
    BY <2>2, <2>3
  <2> QED BY <1>1, <2>1, <2>4, <2>5, KeepLocked
<1> QED BY <1>2, <1>3, <1>4, <1>5, OpenLocked, ReleaseLocked DEF Worker

(* Room for the copy: a target is taken only with room, and nobody else     *)
(* writes to it.                                                            *)
LEMMA KeepRoom ==
  ASSUME Room, UNCHANGED <<target, wp>>, \A w \in Workers : pc'[w] = "copy" => pc[w] = "copy"
  PROVE  Room'
BY DEF Room

(* A reset only makes room.                                                 *)
LEMMA ScanRoom ==
  ASSUME MoveInv, NEW a \in Actors, ScanReset(a)
  PROVE  Room'
<1>1. /\ FileTypes /\ Room /\ pc \in [Workers -> Pcs] /\ target \in [Workers -> Zone \cup {NoZone}]
      /\ \A u \in Workers : target[u] # NoZone <=> pc[u] \in Holding
  BY DEF MoveInv, ExclusiveInv, Held
<1>2. target' = target
  BY DEF ScanReset
<1>3. PICK z \in Zone : wp' = wp \/ wp' = [wp EXCEPT ![z] = 0]
  BY DEF ScanReset
<1>4. pc' = pc \/ \E there \in {"idle", "next"} : a \in Workers /\ pc' = [pc EXCEPT ![a] = there]
  BY DEF ScanReset, Goto
<1>5. \A u \in Workers : pc'[u] = "copy" => pc[u] = "copy"
  BY <1>1, <1>4
<1>6. ASSUME NEW u \in Workers, pc'[u] = "copy" PROVE wp'[target'[u]] < ZoneCap
  <2>1. target[u] \in Zone /\ wp[target[u]] < ZoneCap
    BY <1>1, <1>5, <1>6 DEF Room, Holding
  <2>2. wp'[target[u]] = wp[target[u]] \/ wp'[target[u]] = 0
    BY <1>1, <1>3, <2>1 DEF FileTypes
  <2> QED BY <1>2, <2>1, <2>2, Constants
<1> QED BY <1>6 DEF Room

(* The steps of a worker keep the room too.                                 *)
LEMMA WorkerRoom ==
  ASSUME MoveInv, NEW w \in Workers, Worker(w)
  PROVE  Room'
<1>1. /\ FileTypes /\ Room /\ pc \in [Workers -> Pcs] /\ target \in [Workers -> Zone \cup {NoZone}]
      /\ TargetsExclusive /\ \A u \in Workers : target[u] # NoZone <=> pc[u] \in Holding
  BY DEF MoveInv, ExclusiveInv, Held
<1>2. CASE TakeMigrateZone(w) \/ SearchEmptyZone(w) \/ SearchOpenZone(w)
  <2>1. wp' = wp
    BY <1>2 DEF TakeMigrateZone, SearchEmptyZone, SearchOpenZone
  <2>2. CASE \E z \in Zone : HoldZone(w, z) /\ wp[z] < ZoneCap
    <3>1. PICK z \in Zone : HoldZone(w, z) /\ wp[z] < ZoneCap
      BY <2>2
    <3> QED BY <1>1, <2>1, <3>1 DEF HoldZone, Goto, Room
  <2>3. CASE target' = target /\ \E there \in Pcs \ {"copy"} : Goto(w, there)
    <3>1. \A u \in Workers : pc'[u] = "copy" => pc[u] = "copy"
      BY <1>1, <2>3 DEF Goto
    <3> QED BY <1>1, <2>1, <2>3, <3>1, KeepRoom
  <2>4. \/ \E z \in Zone : HoldZone(w, z) /\ wp[z] < ZoneCap
        \/ target' = target /\ \E there \in Pcs \ {"copy"} : Goto(w, there)
    BY <1>2, Constants DEF TakeMigrateZone, SearchEmptyZone, SearchOpenZone, OpenTarget, EmptyTarget,
                           TakeOrSync, Pcs
  <2> QED BY <2>2, <2>3, <2>4
<1>3. CASE MigrateData(w)
  <2>1. target' = target /\ (wp' = wp \/ wp' = [wp EXCEPT ![target[w]] = @ + 1]) /\ pc[w] = "copy"
    BY <1>3 DEF MigrateData
  <2>2. \A u \in Workers : pc'[u] = "copy" => u # w /\ pc[u] = "copy"
    BY <1>1, <1>3 DEF MigrateData, Goto
  <2>3. \A u \in Workers : u # w /\ pc[u] = "copy" =>
          target[u] # target[w] /\ target[u] \in Zone /\ target[w] \in Zone
    BY <1>1, <2>1 DEF TargetsExclusive, Holding
  <2>4. ASSUME NEW u \in Workers, pc'[u] = "copy"
        PROVE  wp'[target'[u]] < ZoneCap
    <3>1. wp[target[u]] < ZoneCap
      BY <1>1, <2>2, <2>4 DEF Room
    <3>2. wp'[target[u]] = wp[target[u]]
      BY <1>1, <2>1, <2>2, <2>3, <2>4 DEF FileTypes
    <3> QED BY <2>1, <3>1, <3>2
  <2> QED BY <2>4 DEF Room
<1>4. CASE ReleaseMigrateZone(w)
  <2>1. PICK there \in {"take", "sync"} :
          pc' = [u \in Workers |-> IF u = w THEN there
                                   ELSE IF pc[u] = "asleep" THEN "take" ELSE pc[u]]
    BY <1>4 DEF ReleaseMigrateZone, NotifyAndGoto, TakeOrSync
  <2>2. wp' = wp /\ target' = [target EXCEPT ![w] = NoZone]
    BY <1>4 DEF ReleaseMigrateZone
  <2>3. \A u \in Workers : pc'[u] = "copy" => u # w /\ pc[u] = "copy"
    BY <2>1
  <2>4. \A u \in Workers : u # w => target'[u] = target[u]
    BY <1>1, <2>2
  <2> QED BY <1>1, <2>2, <2>3, <2>4 DEF Room
<1>5. CASE \/ OpenForMigration(w)
           \/ SleepWhileMigrating(w) \/ GetMigrateTargetZone(w)
           \/ WaitForOpenIOZoneToken(w) \/ CheckFile(w)
           \/ LockExtents(w) \/ ReplaceExtentList(w) \/ SyncFileMetadata(w) \/ FreeOldExtents(w)
           \/ ReleaseWRLock(w)
  <2>1. UNCHANGED <<target, wp>>
    BY <1>5 DEF OpenForMigration, SleepWhileMigrating, GetMigrateTargetZone,
         WaitForOpenIOZoneToken, CheckFile, LockExtents, ReplaceExtentList, SyncFileMetadata,
         FreeOldExtents, ReleaseWRLock, zoneVars
  <2>2. \E there \in Pcs \ {"copy"} : pc' = [pc EXCEPT ![w] = there]
    <3>1. CASE OpenForMigration(w)
      BY <3>1, <1>1, OpenFacts DEF Pcs
    <3>2. CASE SleepWhileMigrating(w) \/ GetMigrateTargetZone(w) \/ WaitForOpenIOZoneToken(w)
      BY <3>2 DEF SleepWhileMigrating, GetMigrateTargetZone, WaitForOpenIOZoneToken, Goto, Pcs
    <3>3. CASE \/ CheckFile(w) \/ LockExtents(w) \/ ReplaceExtentList(w) \/ SyncFileMetadata(w)
               \/ FreeOldExtents(w) \/ ReleaseWRLock(w)
      BY <3>3 DEF CheckFile, LockExtents, ReplaceExtentList, SyncFileMetadata, FreeOldExtents,
                  ReleaseWRLock, Goto, Pcs
    <3> QED BY <1>5, <3>1, <3>2, <3>3
  <2>3. \A u \in Workers : pc'[u] = "copy" => pc[u] = "copy"
    BY <1>1, <2>2
  <2> QED BY <1>1, <2>1, <2>3, KeepRoom
<1>6. CASE ScanReset(w)
  BY <1>6, ScanRoom, NameFacts
<1> QED BY <1>2, <1>3, <1>4, <1>5, <1>6 DEF Worker

(* The workers' types, locks and room, however the others step.             *)
LEMMA InitMove == Init => MoveInv
<1> SUFFICES ASSUME Init PROVE MoveInv
  OBVIOUS
<1>1. ExclusiveInv
  BY InitExclusive
<1>2. /\ exts \in [Files -> Seq(Extents)] /\ wp \in [Zone -> 0..ZoneCap]
      /\ used \in [Zone -> Nat]
  BY InitLayout
<1>3. FileTypes
  <2>1. used \in [Zone -> Int] /\ gen \in [Zone -> Nat]
    BY <1>2, Constants DEF Init
  <2>2. alive \in [Files -> BOOLEAN] /\ name \in [Files -> {1, 2}]
    BY DEF Init
  <2>3. durable \in [Files -> Seq(Extents)]
    BY <1>2 DEF Init
  <2>4. wr \in [Files -> Workers \cup {Nobody}] /\ readers \in [Files -> 0..MaxReaders]
    BY Constants DEF Init
  <2>5. list \in [Workers -> Seq(Extents)]
    <3>1. <<>> \in Seq(Extents)
      OBVIOUS
    <3> QED BY <3>1 DEF Init
  <2>6. todo \in [Workers -> SUBSET Entries] /\ cur \in [Workers -> Entries \cup {NoFile}]
    BY DEF Init
  <2> QED BY <1>2, <2>1, <2>2, <2>3, <2>4, <2>5, <2>6 DEF FileTypes
<1>4. Locked
  <2>1. \A w \in Workers : pc[w] = "idle" /\ cur[w] = NoFile /\ list[w] = <<>>
    BY DEF Init
  <2>2. \A f \in Files : wr[f] = Nobody
    BY DEF Init
  <2> QED BY <2>1, <2>2, Constants DEF Locked, Moving
<1>5. Room
  BY DEF Init, Room
<1> QED BY <1>1, <1>3, <1>4, <1>5 DEF MoveInv

(* A call of a client disturbs neither the write locks nor the room in the  *)
(* targets.                                                                 *)
LEMMA ClientMove ==
  ASSUME MoveInv, NEW f \in Files,
         DeleteFile(f) \/ RenameFile(f) \/ StartRead(f) \/ EndRead(f)
  PROVE  FileTypes' /\ Locked' /\ Room'
<1>1. FileTypes'
  BY ClientTypes DEF MoveInv
<1>2. UNCHANGED <<cur, wr, list, pc, target, wp>>
  BY DEF DeleteFile, RenameFile, StartRead, EndRead, workVars, zoneVars
<1>3. Locked'
  BY <1>2, KeepLocked DEF MoveInv
<1>4. Room'
  BY <1>2, KeepRoom DEF MoveInv
<1> QED BY <1>1, <1>3, <1>4

(* Nor does a worker that sets out.                                         *)
LEMMA SetOutMove ==
  ASSUME MoveInv, NEW w \in Workers, NEW zs, SetOut(w, zs)
  PROVE  FileTypes' /\ Locked' /\ Room'
<1>1. FileTypes'
  BY SetOutTypes DEF MoveInv
<1>2. /\ UNCHANGED <<cur, wr, list, target, wp>> /\ pc[w] = "idle"
      /\ pc' = [pc EXCEPT ![w] = "next"] /\ pc \in [Workers -> Pcs]
  BY DEF SetOut, fileVars, zoneVars, Goto, MoveInv, ExclusiveInv, Held
<1>3. /\ \A u \in Workers : pc'[u] \in Moving <=> pc[u] \in Moving
      /\ \A u \in Workers : pc'[u] = "copy" => pc[u] = "copy"
  BY <1>2 DEF Moving
<1>4. Locked'
  BY <1>2, <1>3, KeepLocked DEF MoveInv
<1>5. Room'
  BY <1>2, <1>3, KeepRoom DEF MoveInv
<1> QED BY <1>1, <1>4, <1>5

(* MoveInv is inductive.                                                    *)
LEMMA NextMove == MoveInv /\ [Next]_vars => MoveInv'
<1> SUFFICES ASSUME MoveInv, [Next]_vars PROVE MoveInv'
  OBVIOUS
<1>1. ExclusiveInv'
  BY NextExclusive DEF MoveInv
<1>2. CASE \E f \in Files : DeleteFile(f) \/ RenameFile(f) \/ StartRead(f) \/ EndRead(f)
  BY <1>1, <1>2, ClientMove DEF MoveInv
<1>3. CASE ScanReset(Client)
  <2>1. FileTypes' /\ Room'
    BY <1>3, ScanTypes, ScanRoom DEF MoveInv, Actors
  <2>2. UNCHANGED <<cur, wr, list, pc>>
    BY <1>3, NameFacts DEF ScanReset, fileVars, workVars
  <2>3. Locked'
    BY <2>2, KeepLocked DEF MoveInv
  <2> QED BY <1>1, <2>1, <2>3 DEF MoveInv
<1>4. CASE GCWorker \/ WLWorker
  BY <1>1, <1>4, SetOutMove DEF GCWorker, WLWorker, MoveInv
<1>5. ASSUME NEW w \in Workers, Worker(w) PROVE MoveInv'
  <2>1. FileTypes'
    BY <1>5, ElsewhereTypes, MovingTypes, ScanTypes DEF Worker, Elsewhere, MoveInv
  <2> QED BY <1>1, <1>5, <2>1, WorkerLocked, WorkerRoom DEF MoveInv
<1>6. CASE UNCHANGED vars
  <2>1. UNCHANGED fileTypeVars /\ UNCHANGED <<cur, wr, list, pc, target, wp>>
    BY <1>6 DEF vars, zoneVars, fileVars, workVars, fileTypeVars
  <2> QED BY <1>1, <2>1, KeepTypes, KeepLocked, KeepRoom DEF MoveInv
<1> QED BY <1>2, <1>3, <1>4, <1>5, <1>6 DEF Next

(* MoveInv holds in every reachable state, whatever fails.                  *)
LEMMA MoveInvariant == Spec => []MoveInv
BY InitMove, NextMove, PTL DEF Spec

-----------------------------------------------------------------------------
(* Active tokens                                                            *)

(* No zone needs a token that did not need one before.                      *)
LEMMA KeepActive ==
  ASSUME ActiveInv, Needy' \subseteq Needy, active' = active
  PROVE  ActiveInv'
<1>1. IsFiniteSet(Needy)
  BY Constants, FS_Subset DEF Needy
<1>2. IsFiniteSet(Needy') /\ Cardinality(Needy') <= Cardinality(Needy)
  BY <1>1, FS_Subset
<1>3. Cardinality(Needy) \in Nat /\ Cardinality(Needy') \in Nat
  BY <1>1, <1>2, FS_CardinalityType
<1> QED BY <1>2, <1>3, Constants DEF ActiveInv

(* A zone that is written to, or used up to a point, or given up.           *)
LEMMA FewerActive ==
  ASSUME ActiveInv, FileTypes, wp' = wp, used' \in [Zone -> Int], active' = active,
         \A z \in Zone : busy'[z] => busy[z],
         \A z \in Zone : used'[z] <= used[z] \/ busy[z]
  PROVE  ActiveInv'
<1>1. ASSUME NEW z \in Zone, z \in Needy' PROVE z \in Needy
  <2>1. wp[z] \in 0..ZoneCap /\ used[z] \in Int /\ used'[z] \in Int
    BY DEF FileTypes
  <2>2. used'[z] > 0 => used[z] > 0 \/ busy[z]
    BY <2>1
  <2>3. \/ wp[z] > 0 /\ wp[z] < ZoneCap
        \/ wp[z] = 0 /\ (busy'[z] \/ used'[z] > 0)
    BY <1>1 DEF Needy, Partial
  <2>4. \/ wp[z] > 0 /\ wp[z] < ZoneCap
        \/ wp[z] = 0 /\ (busy[z] \/ used[z] > 0)
    BY <2>2, <2>3, Zenon
  <2> QED BY <2>4 DEF Needy, Partial
<1>2. Needy' \subseteq Needy
  BY <1>1 DEF Needy
<1> QED BY <1>2, KeepActive

(* GetBestOpenZoneMatch gives a zone that has its token already.            *)
LEMMA HoldOpenActive ==
  ASSUME ActiveInv, MoveInv, NEW w \in Workers, NEW z \in Zone, OpenTarget(z), HoldZone(w, z),
         UNCHANGED <<wp, used, active>>
  PROVE  ActiveInv'
<1>1. z \in Needy
  <2>1. wp[z] \in 0..ZoneCap /\ used[z] > 0 /\ wp[z] < ZoneCap
    BY DEF MoveInv, FileTypes, OpenTarget
  <2>2. wp[z] = 0 \/ (wp[z] > 0 /\ wp[z] < ZoneCap)
    BY <2>1, Constants
  <2> QED BY <2>1, <2>2 DEF Needy, Partial
<1>2. \A y \in Zone : y # z => busy'[y] = busy[y]
  BY DEF HoldZone, MoveInv, ExclusiveInv, Held
<1>3. Needy' \subseteq Needy
  <2>1. ASSUME NEW y \in Zone, y # z, y \in Needy' PROVE y \in Needy
    <3>1. busy'[y] = busy[y]
      BY <1>2, <2>1
    <3>2. \/ wp[y] > 0 /\ wp[y] < ZoneCap
          \/ wp[y] = 0 /\ (busy'[y] \/ used[y] > 0)
      BY <2>1 DEF Needy, Partial
    <3> QED BY <3>1, <3>2, Zenon DEF Needy, Partial
  <2> QED BY <1>1, <2>1 DEF Needy
<1> QED BY <1>3, KeepActive

(* AllocateEmptyZone takes a token for the zone it gives.                   *)
LEMMA HoldEmptyActive ==
  ASSUME ActiveInv, MoveInv, NEW w \in Workers, NEW z \in Zone, HoldZone(w, z),
         UNCHANGED <<wp, used>>, active' = active + 1, active < MaxActive
  PROVE  ActiveInv'
<1>1. \A y \in Zone : y # z => busy'[y] = busy[y]
  BY DEF HoldZone, MoveInv, ExclusiveInv, Held
<1>2. Needy' \subseteq Needy \cup {z}
  <2>1. ASSUME NEW y \in Zone, y # z, y \in Needy' PROVE y \in Needy
    <3>1. busy'[y] = busy[y]
      BY <1>1, <2>1
    <3>2. \/ wp[y] > 0 /\ wp[y] < ZoneCap
          \/ wp[y] = 0 /\ (busy'[y] \/ used[y] > 0)
      BY <2>1 DEF Needy, Partial
    <3> QED BY <3>1, <3>2, Zenon DEF Needy, Partial
  <2> QED BY <2>1 DEF Needy
<1>3. IsFiniteSet(Needy)
  BY Constants, FS_Subset DEF Needy
<1>4. IsFiniteSet(Needy \cup {z}) /\ Cardinality(Needy \cup {z}) <= Cardinality(Needy) + 1
  <2>1. /\ IsFiniteSet(Needy \cup {z}) /\ Cardinality(Needy) \in Nat
        /\ Cardinality(Needy \cup {z}) = IF z \in Needy THEN Cardinality(Needy)
                                         ELSE Cardinality(Needy) + 1
    BY <1>3, FS_AddElement, FS_CardinalityType
  <2> QED BY <2>1
<1>5. IsFiniteSet(Needy') /\ Cardinality(Needy') <= Cardinality(Needy \cup {z})
  BY <1>2, <1>4, FS_Subset
<1>6. /\ Cardinality(Needy) \in Nat /\ Cardinality(Needy') \in Nat
      /\ Cardinality(Needy \cup {z}) \in Nat
  BY <1>3, <1>4, <1>5, FS_CardinalityType
<1> QED BY <1>4, <1>5, <1>6, Constants DEF ActiveInv

(* A reset gives the token of its zone back, if it had one.                 *)
LEMMA ScanActive ==
  ASSUME ActiveInv, MoveInv, NEW a, ScanReset(a)
  PROVE  ActiveInv'
<1>1. FileTypes /\ busy' = busy /\ used' = used
  BY DEF ScanReset, MoveInv
<1>2. CASE UNCHANGED <<wp, gen, active>>
  <2>1. Needy' = Needy
    BY <1>1, <1>2 DEF Needy, Partial
  <2> QED BY <1>2, <2>1, KeepActive
<1>3. CASE /\ Resettable(scan[a]) /\ scan[a] \in Zone
           /\ wp' = [wp EXCEPT ![scan[a]] = 0]
           /\ active' = IF wp[scan[a]] < ZoneCap THEN active - 1 ELSE active
  <2>1. PICK z \in Zone :
          /\ Resettable(z) /\ wp' = [wp EXCEPT ![z] = 0]
          /\ active' = IF wp[z] < ZoneCap THEN active - 1 ELSE active
    BY <1>3
  <2>2. z \notin Needy'
    <3>1. wp'[z] = 0 /\ ~busy[z] /\ used[z] = 0
      BY <1>1, <2>1 DEF Resettable, FileTypes
    <3>2. ~ (wp'[z] > 0) /\ ~ (used[z] > 0)
      BY <3>1
    <3>3. ~busy'[z] /\ ~ (used'[z] > 0)
      BY <1>1, <3>1, <3>2
    <3> QED BY <3>2, <3>3, Zenon DEF Needy, Partial
  <2>3. Needy' \subseteq Needy \ {z}
    <3>1. ASSUME NEW y \in Zone, y \in Needy' PROVE y \in Needy
      <4>1. wp'[y] = wp[y]
        BY <1>1, <2>1, <2>2, <3>1 DEF FileTypes
      <4> QED BY <1>1, <3>1, <4>1 DEF Needy, Partial
    <3> QED BY <2>2, <3>1 DEF Needy
  <2>4. CASE wp[z] < ZoneCap
    <3>1. z \in Needy
      BY <2>1, <2>4 DEF Needy, Partial, Resettable
    <3>2. IsFiniteSet(Needy)
      BY Constants, FS_Subset DEF Needy
    <3>3. IsFiniteSet(Needy \ {z}) /\ Cardinality(Needy \ {z}) = Cardinality(Needy) - 1
      BY <3>1, <3>2, FS_RemoveElement
    <3>4. IsFiniteSet(Needy') /\ Cardinality(Needy') <= Cardinality(Needy \ {z})
      BY <2>3, <3>3, FS_Subset
    <3>5. /\ Cardinality(Needy) \in Nat /\ Cardinality(Needy') \in Nat
          /\ Cardinality(Needy \ {z}) \in Nat
      BY <3>2, <3>3, <3>4, FS_CardinalityType
    <3> QED BY <2>1, <2>4, <3>3, <3>4, <3>5, Constants DEF ActiveInv
  <2>5. CASE ~ (wp[z] < ZoneCap)
    BY <2>1, <2>3, <2>5, KeepActive
  <2> QED BY <2>4, <2>5
<1> QED BY <1>2, <1>3 DEF ScanReset

(* Writing to a zone that is taken.                                         *)
LEMMA CopyActive ==
  ASSUME ActiveInv, MoveInv, NEW w \in Workers, MigrateData(w)
  PROVE  ActiveInv'
<1>1. /\ FileTypes /\ UNCHANGED <<busy, used, active>> /\ target[w] \in Zone
      /\ wp[target[w]] < ZoneCap
      /\ wp' = wp \/ wp' = [wp EXCEPT ![target[w]] = @ + 1]
  BY DEF MigrateData, tokenVars, MoveInv, ExclusiveInv, Held, Holding, Room
<1>2. busy[target[w]]
  BY <1>1 DEF MoveInv, ExclusiveInv, TargetsExclusive
<1>3. target[w] \in Needy
  <2>1. wp[target[w]] \in 0..ZoneCap
    BY <1>1 DEF FileTypes
  <2>2. wp[target[w]] = 0 \/ (wp[target[w]] > 0 /\ wp[target[w]] < ZoneCap)
    BY <1>1, <2>1, Constants
  <2> QED BY <1>1, <1>2, <2>2, Zenon DEF Needy, Partial
<1>4. ASSUME NEW y \in Zone, y \in Needy', y # target[w] PROVE y \in Needy
  <2>1. wp'[y] = wp[y]
    BY <1>1, <1>4 DEF FileTypes
  <2> QED BY <1>1, <1>4, <2>1 DEF Needy, Partial
<1>5. Needy' \subseteq Needy
  BY <1>3, <1>4 DEF Needy
<1> QED BY <1>1, <1>5, KeepActive

(* The blocks that FreeOldExtents gives up.                                 *)
LEMMA FreedCounts ==
  ASSUME FileTypes, NEW w \in Workers, FreeOldExtents(w)
  PROVE  /\ used' \in [Zone -> Int]
         /\ \A z \in Zone : used'[z] <= used[z]
<1>1. ASSUME NEW z \in Zone
      PROVE  Cardinality({i \in Changed(w) : list[w][i].zone = z}) \in Nat
  <2>1. IsFiniteSet(DOMAIN list[w])
    BY InNat DEF FileTypes
  <2>2. {i \in Changed(w) : list[w][i].zone = z} \in SUBSET DOMAIN list[w]
    BY DEF Changed
  <2>3. IsFiniteSet({i \in Changed(w) : list[w][i].zone = z})
    BY <2>1, <2>2, FS_Subset
  <2> QED BY <2>3, FS_CardinalityType
<1>2. used' = [z \in Zone |-> used[z] - Cardinality({i \in Changed(w) : list[w][i].zone = z})]
  BY DEF FreeOldExtents
<1>3. ASSUME NEW z \in Zone PROVE used'[z] \in Int /\ used'[z] <= used[z]
  <2>1. PICK n \in Nat : n = Cardinality({i \in Changed(w) : list[w][i].zone = z})
    BY <1>1
  <2>2. used[z] \in Int
    BY DEF FileTypes
  <2>3. used'[z] = used[z] - n
    BY <1>2, <2>1
  <2> QED BY <2>1, <2>2, <2>3
<1> QED BY <1>2, <1>3

(* The steps of a worker.                                                   *)
LEMMA WorkerActive ==
  ASSUME ActiveInv, MoveInv, NEW w \in Workers, Worker(w)
  PROVE  ActiveInv'
<1>1. FileTypes /\ used \in [Zone -> Int] /\ busy \in [Zone -> BOOLEAN]
  BY DEF MoveInv, FileTypes, ExclusiveInv, Held
<1>2. CASE \/ OpenForMigration(w) \/ SleepWhileMigrating(w) \/ GetMigrateTargetZone(w)
           \/ WaitForOpenIOZoneToken(w) \/ LockExtents(w) \/ ReplaceExtentList(w)
           \/ SyncFileMetadata(w)
  <2>1. UNCHANGED <<wp, used, busy, active>>
    BY <1>2 DEF OpenForMigration, SleepWhileMigrating, GetMigrateTargetZone,
         WaitForOpenIOZoneToken, LockExtents, ReplaceExtentList, SyncFileMetadata, zoneVars,
         tokenVars
  <2>2. Needy' = Needy
    BY <2>1 DEF Needy, Partial
  <2> QED BY <2>1, <2>2, KeepActive
<1>3. CASE TakeMigrateZone(w) \/ SearchEmptyZone(w) \/ SearchOpenZone(w)
  <2>1. UNCHANGED <<wp, used>>
    BY <1>3 DEF TakeMigrateZone, SearchEmptyZone, SearchOpenZone
  <2>2. CASE busy' = busy /\ active' = active
    <3>1. Needy' = Needy
      BY <2>1, <2>2 DEF Needy, Partial
    <3> QED BY <2>2, <3>1, KeepActive
  <2>3. \/ busy' = busy /\ active' = active
        \/ active' = active /\ \E z \in Zone : OpenTarget(z) /\ HoldZone(w, z)
        \/ active' = active + 1 /\ active < MaxActive /\ \E z \in Zone : HoldZone(w, z)
    BY <1>3 DEF TakeMigrateZone, SearchEmptyZone, SearchOpenZone, tokenVars, ActiveTokenAvailable
  <2> QED BY <2>1, <2>2, <2>3, HoldOpenActive, HoldEmptyActive
<1>4. CASE CheckFile(w)
  <2>1. UNCHANGED <<wp, busy, active>> /\ target[w] \in Zone
    BY <1>4 DEF CheckFile, tokenVars, MoveInv, ExclusiveInv, Held, Holding
  <2>2. busy[target[w]]
    BY <2>1 DEF MoveInv, ExclusiveInv, TargetsExclusive
  <2>3. used' = used \/ used' = [used EXCEPT ![target[w]] = @ + 1]
    BY <1>4 DEF CheckFile, Adopt
  <2>4. used' \in [Zone -> Int] /\ \A z \in Zone : z = target[w] \/ used'[z] = used[z]
    BY <1>1, <2>1, <2>3
  <2>5. \A z \in Zone : used[z] <= used[z]
    BY <1>1
  <2>6. \A z \in Zone : used'[z] <= used[z] \/ busy[z]
    BY <2>2, <2>4, <2>5, Zenon
  <2> QED BY <1>1, <2>1, <2>4, <2>6, FewerActive
<1>5. CASE ReleaseMigrateZone(w)
  <2>1. UNCHANGED <<wp, used, active>> /\ busy' = [z \in Zone |-> busy[z] /\ z # target[w]]
    BY <1>5 DEF ReleaseMigrateZone, tokenVars
  <2>2. \A z \in Zone : busy'[z] => busy[z]
    BY <2>1, Zenon
  <2>3. \A z \in Zone : used'[z] <= used[z]
    BY <1>1, <2>1
  <2> QED BY <1>1, <2>1, <2>2, <2>3, FewerActive
<1>6. CASE FreeOldExtents(w)
  <2>1. UNCHANGED <<wp, busy, active>>
    BY <1>6 DEF FreeOldExtents, tokenVars
  <2> QED BY <1>1, <1>6, <2>1, FreedCounts, FewerActive
<1>7. CASE ReleaseWRLock(w)
  <2>1. UNCHANGED <<wp, busy, active>>
    BY <1>7 DEF ReleaseWRLock, tokenVars
  <2>2. PICK last \in BOOLEAN : DropReference(cur[w].file, last)
    BY <1>7 DEF ReleaseWRLock
  <2>3. cur[w].file \in Files
    BY <1>7 DEF ReleaseWRLock, MoveInv, Locked, Moving, Pcs, Entries
  <2> QED BY <1>1, <2>1, <2>2, <2>3, DropTypes, FewerActive
<1> QED BY <1>2, <1>3, <1>4, <1>5, <1>6, <1>7, CopyActive, ScanActive DEF Worker

(* The tokens at the start are those of the zones that are partly written.  *)
LEMMA InitActive == Init => ActiveInv
<1> SUFFICES ASSUME Init PROVE ActiveInv
  OBVIOUS
<1>1. /\ wp \in [Zone -> 0..ZoneCap] /\ used \in [Zone -> Nat]
      /\ \A z \in Zone : used[z] <= wp[z] /\ ~busy[z]
  BY InitLayout DEF Init
<1>2. Needy = {z \in Zone : Partial(z)}
  <2>1. \A z \in Zone : ~ (wp[z] = 0 /\ (busy[z] \/ used[z] > 0))
    BY <1>1
  <2> QED BY <2>1, Zenon DEF Needy
<1>3. IsFiniteSet(Needy)
  BY Constants, FS_Subset DEF Needy
<1>4. active = Cardinality(Needy) /\ active <= MaxActive
  BY <1>2 DEF Init
<1>5. Cardinality(Needy) \in Nat
  BY <1>3, FS_CardinalityType
<1> QED BY <1>4, <1>5 DEF ActiveInv

(* ActiveInv is inductive, given MoveInv.                                   *)
LEMMA NextActive == ActiveInv /\ MoveInv /\ [Next]_vars => ActiveInv'
<1> SUFFICES ASSUME ActiveInv, MoveInv, [Next]_vars PROVE ActiveInv'
  OBVIOUS
<1>1. FileTypes
  BY DEF MoveInv
<1>2. ASSUME NEW f \in Files, DeleteFile(f) \/ RenameFile(f) \/ StartRead(f) \/ EndRead(f)
      PROVE  ActiveInv'
  <2>1. UNCHANGED <<wp, busy, active>>
    BY <1>2 DEF DeleteFile, RenameFile, StartRead, EndRead, zoneVars, tokenVars
  <2>2. FileTypes' /\ \A z \in Zone : used'[z] <= used[z]
    BY <1>1, <1>2, ClientTypes
  <2>3. used' \in [Zone -> Int]
    BY <2>2 DEF FileTypes
  <2> QED BY <1>1, <2>1, <2>2, <2>3, FewerActive
<1>3. CASE GCWorker \/ WLWorker \/ UNCHANGED vars
  <2>1. UNCHANGED <<wp, used, busy, active>>
    BY <1>3 DEF GCWorker, WLWorker, SetOut, vars, zoneVars, tokenVars
  <2>2. Needy' = Needy
    BY <2>1 DEF Needy, Partial
  <2> QED BY <2>1, <2>2, KeepActive
<1> QED BY <1>2, <1>3, ScanActive, WorkerActive DEF Next

(* However the two workers take, fill and give back zones, and whatever     *)
(* fails on the way, the zones that are open for writing or have just been  *)
(* taken have an active token each and the tokens stay within               *)
(* max_nr_active_io_zones_ (GetActiveIOZoneTokenIfAvailable,                *)
(* PutActiveIOZoneToken).                                                   *)
THEOREM ActiveZonesAreBounded == Spec => []ActiveZonesBounded
<1>1. ActiveInv => ActiveZonesBounded
  <2> SUFFICES ASSUME ActiveInv PROVE ActiveZonesBounded
    OBVIOUS
  <2> DEFINE A == {z \in Zone : Partial(z) \/ (wp[z] = 0 /\ busy[z])}
  <2>1. A \subseteq Needy
    BY DEF Needy
  <2>2. IsFiniteSet(Needy)
    BY Constants, FS_Subset DEF Needy
  <2>3. IsFiniteSet(A) /\ Cardinality(A) <= Cardinality(Needy)
    BY <2>1, <2>2, FS_Subset
  <2>4. Cardinality(A) \in Nat /\ Cardinality(Needy) \in Nat
    BY <2>2, <2>3, FS_CardinalityType
  <2>5. Cardinality(A) <= active /\ active <= MaxActive
    <3> HIDE DEF A
    <3> QED BY <2>3, <2>4 DEF ActiveInv
  <2> QED BY <2>5 DEF ActiveZonesBounded
<1>2. Spec => []ActiveInv
  BY InitActive, NextActive, MoveInvariant, PTL DEF Spec
<1> QED BY <1>1, <1>2, PTL

-----------------------------------------------------------------------------
(* The blocks of the files                                                  *)

(* A part of an injective list has as many extents as positions.            *)
LEMMA ImageCount ==
  ASSUME NEW s \in Seq(Extents), IsInjective(s), NEW I \in SUBSET DOMAIN s
  PROVE  /\ IsFiniteSet({s[i] : i \in I})
         /\ Cardinality({s[i] : i \in I}) = Cardinality(I)
<1> DEFINE J == {s[i] : i \in I}
           f == [i \in I |-> s[i]]
<1>1. IsFiniteSet(DOMAIN s)
  BY InNat
<1>2. IsFiniteSet(I)
  BY <1>1, FS_Subset
<1>3. f \in Surjection(I, J)
  BY DEF Surjection
<1>4. f \in Injection(I, J)
  BY DEF Injection, IsInjective
<1> QED BY <1>2, <1>3, <1>4, FS_Surjection

(* The extents of a list are finitely many.                                 *)
LEMMA RangeFacts ==
  ASSUME NEW s \in Seq(Extents)
  PROVE  Range(s) \subseteq Extents /\ IsFiniteSet(Range(s))
<1>1. IsFiniteSet(DOMAIN s) /\ \A i \in DOMAIN s : s[i] \in Extents
  <2>1. IsFiniteSet(DOMAIN s)
    BY InNat
  <2> QED BY <2>1
<1>2. s \in Surjection(DOMAIN s, Range(s))
  BY DEF Surjection, Range
<1>3. IsFiniteSet(Range(s))
  BY <1>1, <1>2, FS_Surjection
<1> QED BY <1>1, <1>3 DEF Range

(* An empty list has none.                                                  *)
LEMMA EmptyRange == Range(<<>>) = {} /\ IsInjective(<<>>)
BY DEF Range, IsInjective

(* The live extents are extents, and finitely many.                         *)
LEMMA OwnTypes ==
  ASSUME FileTypes
  PROVE  /\ \A f \in Files : Own(f) \subseteq Extents
         /\ Live \subseteq Extents /\ IsFiniteSet(Live)
         /\ \A z : IsFiniteSet(At(z)) /\ Cardinality(At(z)) \in Nat
<1>1. ASSUME NEW w \in Workers PROVE Shown(w) \subseteq Extents /\ IsFiniteSet(Shown(w))
  <2>1. list[w] \in Seq(Extents)
    BY DEF FileTypes
  <2> QED BY <2>1, RangeFacts, FS_EmptySet DEF Shown
<1>2. ASSUME NEW f \in Files PROVE Own(f) \subseteq Extents /\ IsFiniteSet(Own(f))
  <2>1. exts[f] \in Seq(Extents) /\ durable[f] \in Seq(Extents)
    BY DEF FileTypes
  <2>2. PICK A, B, C : /\ A = Range(exts[f]) /\ B = Range(durable[f])
                       /\ C = IF wr[f] \in Workers THEN Shown(wr[f]) ELSE {}
    OBVIOUS
  <2>3. A \subseteq Extents /\ IsFiniteSet(A) /\ B \subseteq Extents /\ IsFiniteSet(B)
    BY <2>1, <2>2, RangeFacts
  <2>4. C \subseteq Extents /\ IsFiniteSet(C)
    BY <1>1, <2>2, FS_EmptySet
  <2>5. Own(f) = (A \cup B) \cup C
    BY <2>2 DEF Own
  <2>6. IsFiniteSet(A \cup B)
    BY <2>3, FS_Union
  <2>7. IsFiniteSet((A \cup B) \cup C)
    BY <2>4, <2>6, FS_Union
  <2> QED BY <2>3, <2>4, <2>5, <2>7
<1>3. IsFiniteSet({Own(f) : f \in Files})
  <2> DEFINE F == [f \in Files |-> Own(f)]
  <2>1. F \in Surjection(Files, {Own(f) : f \in Files})
    BY DEF Surjection
  <2> HIDE DEF F
  <2> QED BY <2>1, Constants, FS_Surjection
<1>4. IsFiniteSet(Live)
  <2>1. \A T \in {Own(f) : f \in Files} : IsFiniteSet(T)
    BY <1>2
  <2> QED BY <1>3, <2>1, FS_UNION DEF Live
<1>5. Live \subseteq Extents
  BY <1>2 DEF Live
<1>6. ASSUME NEW z PROVE IsFiniteSet(At(z)) /\ Cardinality(At(z)) \in Nat
  <2>1. At(z) \in SUBSET Live
    BY DEF At
  <2> QED BY <1>4, <2>1, FS_Subset, FS_CardinalityType
<1> QED BY <1>2, <1>4, <1>5, <1>6

(* What a file owns is live.                                                *)
LEMMA LiveFacts ==
  /\ \A f \in Files : Own(f) \subseteq Live
  /\ \A e \in Live : \E f \in Files : e \in Own(f)
BY DEF Live

(* Fewer blocks, and used_capacity_ less by at most as many.                *)
LEMMA LessCount ==
  ASSUME NEW A, IsFiniteSet(A), NEW G \in SUBSET A, NEW B \in SUBSET (A \ G)
  PROVE  /\ IsFiniteSet(B) /\ Cardinality(B) <= Cardinality(A) - Cardinality(G)
         /\ B = A \ G => Cardinality(B) = Cardinality(A) - Cardinality(G)
         /\ Cardinality(A) \in Nat /\ Cardinality(B) \in Nat /\ Cardinality(G) \in Nat
<1>1. A \cap G = G
  OBVIOUS
<1>2. IsFiniteSet(A \ G) /\ Cardinality(A \ G) = Cardinality(A) - Cardinality(G)
  BY <1>1, FS_Difference
<1>3. IsFiniteSet(B) /\ Cardinality(B) <= Cardinality(A \ G) /\ IsFiniteSet(G)
  BY <1>2, FS_Subset
<1>4. Cardinality(A) \in Nat /\ Cardinality(B) \in Nat /\ Cardinality(G) \in Nat
  BY <1>3, FS_CardinalityType
<1> QED BY <1>2, <1>3, <1>4

(* Steps after which no file owns anything new.                             *)
LEMMA FewerOwned ==
  ASSUME Apart, \A f \in Files : Own(f)' \subseteq Own(f)
  PROVE  Apart' /\ Live' \subseteq Live /\ \A z : At(z)' \subseteq At(z)
<1>1. Apart'
  BY DEF Apart
<1>2. Live' \subseteq Live
  <2>1. ASSUME NEW e \in Live' PROVE e \in Live
    <3>1. PICK f \in Files : e \in Own(f)'
      BY DEF Live
    <3> QED BY <3>1 DEF Live
  <2> QED BY <2>1
<1> QED BY <1>1, <1>2 DEF At

(* Live data stays kept when extents go, zones keep their generation and    *)
(* write pointers only rise.                                                *)
LEMMA KeptFewer ==
  ASSUME FileTypes, FileTypes', Kept, Live' \subseteq Live, gen' = gen,
         \A z \in Zone : wp[z] <= wp'[z]
  PROVE  Kept'
<1> SUFFICES ASSUME NEW e \in Live' PROVE Intact(e)'
  BY DEF Kept
<1>1. e \in Live /\ e \in Extents
  BY OwnTypes
<1>2. gen[e.zone] = e.gen /\ e.off <= wp[e.zone] /\ e.zone \in Zone /\ e.off \in Nat
  BY <1>1 DEF Kept, Intact, Extents
<1>3. wp[e.zone] \in Int /\ wp'[e.zone] \in Int /\ wp[e.zone] <= wp'[e.zone]
  BY <1>2, Constants DEF FileTypes
<1>4. e.off <= wp'[e.zone]
  BY <1>2, <1>3
<1> QED BY <1>2, <1>4 DEF Intact

(* The place of a copy stays its own when extents go and no worker begins   *)
(* to copy.                                                                 *)
LEMMA FreshFewer ==
  ASSUME Fresh, Live' \subseteq Live, wp' = wp,
         \A w \in Workers : pc'[w] = "check" => pc[w] = "check" /\ target'[w] = target[w]
  PROVE  Fresh'
BY DEF Fresh

(* Used capacity still covers the live extents when extents go and no zone  *)
(* loses capacity.                                                          *)
LEMMA CoveredFewer ==
  ASSUME FileTypes, FileTypes', Covered, \A z : At(z)' \subseteq At(z),
         \A z \in Zone : used[z] <= used'[z]
  PROVE  Covered'
<1> SUFFICES ASSUME NEW z \in Zone PROVE Cardinality(At(z)') <= used'[z]
  BY DEF Covered
<1>1. IsFiniteSet(At(z)) /\ Cardinality(At(z)) \in Nat
  BY OwnTypes
<1>2. IsFiniteSet(At(z)') /\ Cardinality(At(z)') <= Cardinality(At(z))
  BY <1>1, FS_Subset
<1>3. Cardinality(At(z)') \in Nat
  BY <1>2, FS_CardinalityType
<1>4. used[z] \in Int /\ used'[z] \in Int /\ used[z] <= used'[z]
  BY DEF FileTypes
<1> QED BY <1>1, <1>2, <1>3, <1>4 DEF Covered

(* Where a worker neither checks a copy nor is done with the originals.     *)
Roaming == Moving \ {"check", "checkfailed", "free", "unlock"}

SamePlace(u) ==
  \/ pc'[u] = pc[u]
  \/ pc[u] \in Roaming /\ pc'[u] \in Roaming
  \/ pc[u] \notin Moving /\ pc'[u] \notin Moving

(* A worker that stays in its part of the procedure is in the same states   *)
(* as far as the invariants tell them apart.                                *)
LEMMA SamePlaceFacts ==
  ASSUME NEW u, SamePlace(u)
  PROVE  /\ pc'[u] \in Moving \ {"unlock"} <=> pc[u] \in Moving \ {"unlock"}
         /\ pc'[u] = "check" => pc[u] = "check"
         /\ pc'[u] = "checkfailed" => pc[u] = "checkfailed"
         /\ pc'[u] = "free" => pc[u] = "free"
BY DEF SamePlace, Roaming, Moving, Pcs

(* The blocks of a file stay its own while nobody changes a list of them.   *)
LEMMA SameOwned ==
  ASSUME UNCHANGED <<exts, durable, wr, list>>,
         \A u \in Workers : pc'[u] \in Moving \ {"unlock"} <=> pc[u] \in Moving \ {"unlock"}
  PROVE  \A f \in Files : Own(f)' = Own(f)
<1>1. \A u \in Workers : Shown(u)' = Shown(u)
  BY DEF Shown
<1> QED BY <1>1 DEF Own

(* A step that leaves extents and lists alone keeps the extents distinct.   *)
LEMMA SameDistinct ==
  ASSUME Distinct, UNCHANGED <<exts, cur, list>>,
         \A u \in Workers : pc'[u] \in Moving \ {"unlock"} => pc[u] \in Moving \ {"unlock"}
  PROVE  Distinct'
BY DEF Distinct

(* A step that leaves files and records alone keeps the old extents in the  *)
(* log or replaced.                                                         *)
LEMMA SameLogged ==
  ASSUME Logged, UNCHANGED <<alive, durable, exts, cur>>,
         \A u \in Workers : pc'[u] = "free" => pc[u] = "free"
  PROVE  Logged'
BY DEF Logged

(* The steps that touch no list, no counter and no zone.                    *)
LEMMA QuietKeep ==
  ASSUME KeepInv, FileTypes, FileTypes',
         UNCHANGED <<wp, used, gen, alive, exts, durable, wr, cur, list>>,
         \A u \in Workers : SamePlace(u),
         \A u \in Workers : pc'[u] = "check" => target'[u] = target[u]
  PROVE  KeepInv'
<1>1. \A f \in Files : Own(f)' \subseteq Own(f)
  BY SameOwned, SamePlaceFacts
<1>2. Apart' /\ Live' \subseteq Live /\ \A z : At(z)' \subseteq At(z)
  BY <1>1, FewerOwned DEF KeepInv
<1>3. Kept'
  <2>1. \A z \in Zone : wp[z] <= wp'[z]
    BY Constants DEF FileTypes
  <2> QED BY <1>2, <2>1, KeptFewer DEF KeepInv
<1>4. Covered'
  <2>1. \A z \in Zone : used[z] <= used'[z]
    BY DEF FileTypes
  <2> QED BY <1>2, <2>1, CoveredFewer DEF KeepInv
<1>5. Fresh'
  <2>1. \A u \in Workers : pc'[u] = "check" => pc[u] = "check" /\ target'[u] = target[u]
    BY SamePlaceFacts
  <2> QED BY <1>2, <2>1, FreshFewer DEF KeepInv
<1>6. Distinct'
  BY SamePlaceFacts, SameDistinct DEF KeepInv
<1>7. Logged'
  BY SamePlaceFacts, SameLogged DEF KeepInv
<1>8. Copied'
  BY SamePlaceFacts DEF KeepInv, Copied
<1> QED BY <1>2, <1>3, <1>4, <1>5, <1>6, <1>7, <1>8 DEF KeepInv

(* The steps of a worker without a file in hand keep KeepInv.               *)
LEMMA ElsewhereKeep ==
  ASSUME KeepInv, MoveInv, NEW w \in Workers, Elsewhere(w)
  PROVE  KeepInv'
<1>1. /\ FileTypes /\ pc \in [Workers -> Pcs] /\ target \in [Workers -> Zone \cup {NoZone}]
      /\ FileTypes' /\ UNCHANGED fileTypeVars
  BY ElsewhereTypes DEF MoveInv, ExclusiveInv, Held
<1>2. UNCHANGED <<wp, used, gen, alive, exts, durable, wr, cur, list>>
  BY <1>1 DEF fileTypeVars
<1>3. CASE ReleaseMigrateZone(w)
  <2>1. PICK there \in {"take", "sync"} :
          pc' = [u \in Workers |-> IF u = w THEN there
                                   ELSE IF pc[u] = "asleep" THEN "take" ELSE pc[u]]
    BY <1>3 DEF ReleaseMigrateZone, NotifyAndGoto, TakeOrSync
  <2>2. pc[w] \in {"release", "abort", "giveup"} /\ target' = [target EXCEPT ![w] = NoZone]
    BY <1>3 DEF ReleaseMigrateZone
  <2>3. \A u \in Workers : SamePlace(u)
    BY <2>1, <2>2 DEF SamePlace, Roaming, Moving, Pcs
  <2>4. \A u \in Workers : pc'[u] = "check" => target'[u] = target[u]
    BY <1>1, <2>1, <2>2
  <2> QED BY <1>1, <1>2, <2>3, <2>4, QuietKeep
<1>4. CASE ~ ReleaseMigrateZone(w)
  <2>1. pc[w] \in Roaming /\ \E there \in Roaming : pc' = [pc EXCEPT ![w] = there]
    BY <1>4 DEF Elsewhere, SleepWhileMigrating, TakeMigrateZone, GetMigrateTargetZone, HoldZone,
         WaitForOpenIOZoneToken, SearchEmptyZone, SearchOpenZone, LockExtents, Goto, TakeOrSync,
         Roaming, Moving, Pcs
  <2>2. target' = target \/ \E z \in Zone : target' = [target EXCEPT ![w] = z]
    BY <1>4 DEF Elsewhere, SleepWhileMigrating, TakeMigrateZone, GetMigrateTargetZone, HoldZone,
         WaitForOpenIOZoneToken, SearchEmptyZone, SearchOpenZone, LockExtents
  <2>3. \A u \in Workers : SamePlace(u)
    BY <1>1, <2>1 DEF SamePlace
  <2>4. \A u \in Workers : pc'[u] = "check" => u # w
    BY <1>1, <2>1 DEF Roaming
  <2>5. \A u \in Workers : pc'[u] = "check" => target'[u] = target[u]
    BY <1>1, <2>2, <2>4
  <2> QED BY <1>1, <1>2, <2>3, <2>5, QuietKeep
<1> QED BY <1>3, <1>4

(* Setting out keeps KeepInv.                                               *)
LEMMA SetOutKeep ==
  ASSUME KeepInv, MoveInv, NEW w \in Workers, NEW zs, SetOut(w, zs)
  PROVE  KeepInv'
<1>1. FileTypes /\ FileTypes' /\ pc \in [Workers -> Pcs]
  BY SetOutTypes DEF MoveInv, ExclusiveInv, Held
<1>2. /\ UNCHANGED <<wp, used, gen, alive, exts, durable, wr, cur, list, target>>
      /\ pc[w] = "idle" /\ pc' = [pc EXCEPT ![w] = "next"]
  BY DEF SetOut, fileVars, zoneVars, Goto
<1>3. \A u \in Workers : SamePlace(u)
  BY <1>1, <1>2 DEF SamePlace, Moving
<1> QED BY <1>1, <1>2, <1>3, QuietKeep

(* A reader that begins keeps KeepInv.                                      *)
LEMMA StartReadKeep ==
  ASSUME KeepInv, MoveInv, NEW f \in Files, StartRead(f)
  PROVE  KeepInv'
<1>1. FileTypes /\ FileTypes'
  BY ClientTypes DEF MoveInv
<1>2. UNCHANGED <<wp, used, gen, alive, exts, durable, wr, cur, list, target, pc>>
  BY DEF StartRead, zoneVars, workVars
<1>3. \A u \in Workers : SamePlace(u)
  BY <1>2 DEF SamePlace
<1> QED BY <1>1, <1>2, <1>3, QuietKeep

(* The extents of a list that goes on.                                      *)
LEMMA ConcatRange ==
  ASSUME NEW s \in Seq(Extents), NEW r \in Seq(Extents)
  PROVE  Range(s \o r) = Range(s) \cup Range(r)
<1>1. PICK q : q = s \o r
  OBVIOUS
<1>2. PICK n \in Nat, m \in Nat : n = Len(s) /\ m = Len(r)
  OBVIOUS
<1>3. DOMAIN s = 1..n /\ DOMAIN r = 1..m
  BY <1>2
<1>4. /\ DOMAIN q = 1..(n + m)
      /\ \A i \in 1..(n + m) : q[i] = IF i <= n THEN s[i] ELSE r[i - n]
  BY <1>1, <1>2, ConcatProperties
<1>5. ASSUME NEW i \in DOMAIN q PROVE q[i] \in Range(s) \cup Range(r)
  <2>1. CASE i <= n
    <3>1. i \in DOMAIN s /\ q[i] = s[i]
      BY <1>3, <1>4, <2>1
    <3> QED BY <3>1 DEF Range
  <2>2. CASE ~ (i <= n)
    <3>1. i - n \in DOMAIN r /\ q[i] = r[i - n]
      BY <1>3, <1>4, <2>2
    <3> QED BY <3>1 DEF Range
  <2> QED BY <2>1, <2>2
<1>6. ASSUME NEW i \in DOMAIN s PROVE s[i] \in Range(q)
  <2>1. i \in DOMAIN q /\ q[i] = s[i]
    BY <1>3, <1>4
  <2> QED BY <2>1 DEF Range
<1>7. ASSUME NEW i \in DOMAIN r PROVE r[i] \in Range(q)
  <2>1. PICK k \in Nat : k = i + n
    BY <1>3
  <2>2. k \in DOMAIN q /\ ~ (k <= n) /\ k - n = i
    BY <1>3, <1>4, <2>1
  <2>3. q[k] = r[i]
    BY <1>4, <2>2
  <2> QED BY <2>2, <2>3 DEF Range
<1>8. Range(q) = Range(s) \cup Range(r)
  BY <1>5, <1>6, <1>7 DEF Range
<1> QED BY <1>1, <1>8

(* RenameFile logs extents that the file has anyway.                        *)
LEMMA RenameKeep ==
  ASSUME KeepInv, MoveInv, NEW f \in Files, RenameFile(f)
  PROVE  KeepInv'
<1>1. FileTypes /\ FileTypes'
  BY ClientTypes DEF MoveInv
<1>2. UNCHANGED <<wp, used, gen, alive, exts, wr, cur, list, target, pc>>
  BY DEF RenameFile, zoneVars, workVars
<1>3. /\ \A g \in Files : g # f => durable'[g] = durable[g]
      /\ durable'[f] = durable[f] \/ durable'[f] = durable[f] \o exts[f]
  BY <1>1 DEF RenameFile, FileTypes
<1>4. Range(durable[f]) \subseteq Range(durable'[f])
      /\ Range(durable'[f]) \subseteq Range(durable[f]) \cup Range(exts[f])
  <2>1. durable[f] \in Seq(Extents) /\ exts[f] \in Seq(Extents)
    BY <1>1 DEF FileTypes
  <2>2. CASE durable'[f] = durable[f]
    BY <2>2
  <2>3. CASE durable'[f] = durable[f] \o exts[f]
    BY <2>1, <2>3, ConcatRange
  <2> QED BY <1>3, <2>2, <2>3
<1>5. \A g \in Files : Own(g)' = Own(g)
  <2>1. \A u \in Workers : Shown(u)' = Shown(u)
    BY <1>2 DEF Shown
  <2> QED BY <1>2, <1>3, <1>4, <2>1 DEF Own
<1>6. Apart' /\ Live' \subseteq Live /\ \A z : At(z)' \subseteq At(z)
  BY <1>5, FewerOwned DEF KeepInv
<1>7. Kept' /\ Covered'
  <2>1. \A z \in Zone : wp[z] <= wp'[z] /\ used[z] <= used'[z]
    BY <1>1, <1>2, Constants DEF FileTypes
  <2> QED BY <1>1, <1>2, <1>6, <2>1, KeptFewer, CoveredFewer DEF KeepInv
<1>8. Fresh'
  BY <1>2, <1>6, FreshFewer DEF KeepInv
<1>9. Distinct' /\ Copied'
  BY <1>2, SameDistinct DEF KeepInv, Copied
<1>10. Logged'
  <2>1. alive[f]
    BY DEF RenameFile
  <2>2. \A g \in Files : ~alive'[g] => durable'[g] = <<>>
    BY <1>2, <1>3, <2>1 DEF KeepInv, Logged
  <2>3. ASSUME NEW w \in Workers, pc'[w] = "free"
        PROVE  Range(durable'[cur'[w].file]) \subseteq Range(exts'[cur'[w].file])
    <3>1. cur[w].file \in Files
      BY <1>2, <2>3 DEF MoveInv, Locked, Moving, Pcs, Entries
    <3>2. Range(durable[cur[w].file]) \subseteq Range(exts[cur[w].file])
      BY <1>2, <2>3 DEF KeepInv, Logged
    <3> QED BY <1>2, <1>3, <1>4, <3>1, <3>2
  <2> QED BY <2>2, <2>3 DEF Logged
<1> QED BY <1>6, <1>7, <1>8, <1>9, <1>10 DEF KeepInv

(* A zone with used_capacity_ 0 has no blocks: a reset loses none.          *)
LEMMA ScanKeep ==
  ASSUME KeepInv, MoveInv, NEW a \in Actors, ScanReset(a)
  PROVE  KeepInv'
<1>1. FileTypes /\ FileTypes' /\ pc \in [Workers -> Pcs]
  BY ScanTypes DEF MoveInv, ExclusiveInv, Held
<1>2. UNCHANGED <<used, alive, exts, durable, wr, cur, list, target>>
  BY DEF ScanReset, fileVars, workVars
<1>3. \A u \in Workers : SamePlace(u)
  <2>1. a \in Workers => pc[a] = "reset"
    <3>1. scan[a] # 0
      BY NameFacts DEF ScanReset, NoZone
    <3> QED BY <3>1 DEF MoveInv, ExclusiveInv, Held
  <2>2. pc' = pc \/ \E there \in {"idle", "next"} : a \in Workers /\ pc' = [pc EXCEPT ![a] = there]
    BY DEF ScanReset, Goto
  <2> QED BY <1>1, <2>1, <2>2 DEF SamePlace, Moving
<1>4. CASE UNCHANGED <<wp, gen>>
  BY <1>1, <1>2, <1>3, <1>4, QuietKeep
<1>5. CASE \E z \in Zone : /\ Resettable(z) /\ wp' = [wp EXCEPT ![z] = 0]
                           /\ gen' = [gen EXCEPT ![z] = @ + 1]
  <2>1. PICK z \in Zone : /\ Resettable(z) /\ wp' = [wp EXCEPT ![z] = 0]
                          /\ gen' = [gen EXCEPT ![z] = @ + 1]
    BY <1>5
  <2>2. At(z) = {}
    <3>1. Cardinality(At(z)) <= used[z] /\ used[z] = 0
      BY <2>1 DEF KeepInv, Covered, Resettable
    <3>2. IsFiniteSet(At(z)) /\ Cardinality(At(z)) \in Nat
      BY <1>1, OwnTypes
    <3>3. Cardinality(At(z)) = 0
      BY <3>1, <3>2
    <3> QED BY <3>2, <3>3, FS_EmptySet
  <2>3. \A f \in Files : Own(f)' = Own(f)
    BY <1>2, <1>3, SamePlaceFacts, SameOwned
  <2>4. Apart' /\ Live' \subseteq Live /\ \A y : At(y)' \subseteq At(y)
    BY <2>3, FewerOwned DEF KeepInv
  <2>5. Kept'
    <3> SUFFICES ASSUME NEW e \in Live' PROVE Intact(e)'
      BY DEF Kept
    <3>1. e \in Live /\ e \in Extents
      BY <1>1, <2>4, OwnTypes
    <3>2. e.zone \in Zone /\ e.zone # z
      BY <2>2, <3>1 DEF Extents, At
    <3>3. wp'[e.zone] = wp[e.zone] /\ gen'[e.zone] = gen[e.zone]
      BY <1>1, <2>1, <3>2 DEF FileTypes
    <3> QED BY <3>1, <3>3 DEF KeepInv, Kept, Intact
  <2>6. Covered'
    <3>1. \A y \in Zone : used[y] <= used'[y]
      BY <1>1, <1>2 DEF FileTypes
    <3> QED BY <1>1, <2>4, <3>1, CoveredFewer DEF KeepInv
  <2>7. Fresh'
    <3> SUFFICES ASSUME NEW w \in Workers, pc'[w] = "check", NEW e \in Live', e.zone = target'[w]
                 PROVE  e.off < wp'[target'[w]]
      BY DEF Fresh
    <3>1. pc[w] = "check"
      BY <1>3, SamePlaceFacts
    <3>2. e.off < wp[target[w]]
      BY <1>2, <2>4, <3>1 DEF KeepInv, Fresh
    <3>3. target[w] # z /\ target[w] \in Zone
      BY <2>1, <3>1 DEF MoveInv, ExclusiveInv, Held, Holding, TargetsExclusive, Resettable
    <3>4. wp'[target[w]] = wp[target[w]]
      BY <1>1, <2>1, <3>3 DEF FileTypes
    <3> QED BY <1>2, <3>2, <3>4
  <2>8. Distinct' /\ Logged' /\ Copied'
    BY <1>2, <1>3, SamePlaceFacts, SameDistinct, SameLogged DEF KeepInv, Copied
  <2> QED BY <2>4, <2>5, <2>6, <2>7, <2>8 DEF KeepInv
<1> QED BY <1>4, <1>5 DEF ScanReset

(* A copy goes to a block that no extent refers to.                         *)
LEMMA CopyKeep ==
  ASSUME KeepInv, MoveInv, NEW w \in Workers, MigrateData(w), "copy" \notin Faults
  PROVE  KeepInv'
<1>1. FileTypes /\ FileTypes' /\ pc \in [Workers -> Pcs]
  BY MovingTypes DEF MoveInv, ExclusiveInv, Held
<1>2. UNCHANGED <<used, gen, alive, exts, durable, wr, cur, list, target>>
  BY DEF MigrateData, fileVars, workVars
<1>3. pc[w] = "copy" /\ wp' = [wp EXCEPT ![target[w]] = @ + 1] /\ pc' = [pc EXCEPT ![w] = "check"]
  BY DEF MigrateData, Goto
<1>4. target[w] \in Zone
  BY <1>3 DEF MoveInv, ExclusiveInv, Held, Holding
<1>5. \A z \in Zone : wp'[z] \in Int /\ wp[z] \in Int /\ wp'[z] = IF z = target[w] THEN wp[z] + 1 ELSE wp[z]
  BY <1>1, <1>3, <1>4, Constants DEF FileTypes
<1>6. /\ pc'[w] = "check" /\ \A u \in Workers : u # w => pc'[u] = pc[u]
      /\ \A u \in Workers : pc'[u] \in Moving \ {"unlock"} <=> pc[u] \in Moving \ {"unlock"}
      /\ \A u \in Workers : pc'[u] = "free" => pc[u] = "free"
      /\ \A u \in Workers : pc'[u] = "checkfailed" => pc[u] = "checkfailed"
  BY <1>1, <1>3 DEF Moving, Pcs
<1>7. \A f \in Files : Own(f)' = Own(f)
  BY <1>2, <1>6, SameOwned
<1>8. Apart' /\ Live' \subseteq Live /\ \A y : At(y)' \subseteq At(y)
  BY <1>7, FewerOwned DEF KeepInv
<1>9. Kept'
  <2>1. \A z \in Zone : wp[z] <= wp'[z]
    BY <1>5
  <2> QED BY <1>1, <1>2, <1>8, <2>1, KeptFewer DEF KeepInv
<1>10. Covered'
  <2>1. \A y \in Zone : used[y] <= used'[y]
    BY <1>1, <1>2 DEF FileTypes
  <2> QED BY <1>1, <1>8, <2>1, CoveredFewer DEF KeepInv
<1>11. Fresh'
  <2> SUFFICES ASSUME NEW u \in Workers, pc'[u] = "check", NEW e \in Live', e.zone = target'[u]
               PROVE  e.off < wp'[target'[u]]
    BY DEF Fresh
  <2>1. e \in Live /\ e \in Extents
    BY <1>1, <1>8, OwnTypes
  <2>2. target[u] \in Zone
    BY <1>3, <1>4, <1>6 DEF MoveInv, ExclusiveInv, Held, Holding
  <2>3. CASE u = w
    <3>1. e.off <= wp[target[w]] /\ e.off \in Nat
      BY <1>2, <2>1, <2>3 DEF KeepInv, Kept, Intact, Extents
    <3> QED BY <1>2, <1>4, <1>5, <2>3, <3>1
  <2>4. CASE u # w
    <3>1. e.off < wp[target[u]]
      BY <1>2, <1>6, <2>1, <2>4 DEF KeepInv, Fresh
    <3>2. target[u] # target[w]
      BY <1>4, <2>2, <2>4, NameFacts DEF MoveInv, ExclusiveInv, TargetsExclusive
    <3> QED BY <1>2, <1>5, <2>2, <3>1, <3>2
  <2> QED BY <2>3, <2>4
<1>12. Distinct' /\ Logged' /\ Copied'
  BY <1>2, <1>6, SameDistinct, SameLogged DEF KeepInv, Copied
<1> QED BY <1>8, <1>9, <1>10, <1>11, <1>12 DEF KeepInv

(* ClearExtents gives up exactly the blocks that nobody else has.           *)
LEMMA DropCovered ==
  ASSUME KeepInv, FileTypes, FileTypes', NEW f \in Files, NEW last \in BOOLEAN,
         DropReference(f, last), \A g \in Files : Own(g)' \subseteq Own(g),
         last => Own(f)' = {}
  PROVE  Covered'
<1>1. Live' \subseteq Live /\ \A z : At(z)' \subseteq At(z)
  BY FewerOwned DEF KeepInv
<1>2. CASE ~ last
  <2>1. \A z \in Zone : used[z] <= used'[z]
    BY <1>2 DEF DropReference, FileTypes
  <2> QED BY <1>1, <2>1, CoveredFewer DEF KeepInv
<1>3. CASE last
  <2> SUFFICES ASSUME NEW z \in Zone PROVE Cardinality(At(z)') <= used'[z]
    BY DEF Covered
  <2>1. PICK s \in Seq(Extents) : s = exts[f]
    BY DEF FileTypes
  <2> DEFINE I == {i \in DOMAIN s : s[i].zone = z}
             G == {s[i] : i \in I}
  <2>2. IsInjective(s)
    BY <2>1 DEF KeepInv, Distinct
  <2>3. Cardinality(G) = Cardinality(I)
    BY <2>2, ImageCount
  <2>4. used'[z] = used[z] - Cardinality(I)
    BY <1>3, <2>1 DEF DropReference, Freed, In
  <2>5. G \subseteq Own(f) /\ G \in SUBSET At(z)
    <3>1. G \subseteq Range(s)
      BY DEF Range
    <3>2. G \subseteq Own(f)
      BY <2>1, <3>1 DEF Own
    <3> QED BY <3>2 DEF At, Live
  <2>6. At(z)' \in SUBSET (At(z) \ G)
    <3>1. ASSUME NEW e \in At(z)', e \in G PROVE FALSE
      <4>1. PICK g \in Files : e \in Own(g)'
        BY DEF At, Live
      <4>2. g # f /\ e \in Own(g)
        BY <1>3, <4>1
      <4> QED BY <2>5, <3>1, <4>2 DEF KeepInv, Apart
    <3> QED BY <1>1, <3>1
  <2>7. IsFiniteSet(At(z))
    BY OwnTypes
  <2> HIDE DEF G, I
  <2>8. /\ Cardinality(At(z)') <= Cardinality(At(z)) - Cardinality(G)
        /\ Cardinality(At(z)) \in Nat /\ Cardinality(At(z)') \in Nat /\ Cardinality(G) \in Nat
    BY <2>5, <2>6, <2>7, LessCount
  <2>9. Cardinality(At(z)) <= used[z] /\ used[z] \in Int
    BY DEF KeepInv, Covered, FileTypes
  <2> QED BY <2>3, <2>4, <2>8, <2>9
<1> QED BY <1>2, <1>3

(* A file that goes is on nobody's list.                                    *)
LEMMA DropDistinct ==
  ASSUME Distinct, FileTypes, NEW f \in Files, NEW last \in BOOLEAN, DropReference(f, last),
         \A u \in Workers : pc'[u] \in Moving \ {"unlock"} =>
           /\ pc[u] \in Moving \ {"unlock"} /\ cur'[u] = cur[u] /\ list'[u] = list[u]
           /\ cur[u].file \in Files /\ (last => cur[u].file # f)
  PROVE  Distinct'
<1>1. \A g \in Files : exts'[g] = IF last /\ g = f THEN <<>> ELSE exts[g]
  BY DEF DropReference, FileTypes
<1>2. \A g \in Files : IsInjective(exts'[g])
  BY <1>1, EmptyRange DEF Distinct
<1>3. \A u \in Workers : pc'[u] \in Moving \ {"unlock"} => exts'[cur'[u].file] = exts[cur[u].file]
  BY <1>1
<1> QED BY <1>2, <1>3 DEF Distinct

(* DeleteFile, and the end of a read of a file that is gone.                *)
LEMMA DeleteKeep ==
  ASSUME KeepInv, MoveInv, NEW f \in Files, DeleteFile(f) \/ EndRead(f)
  PROVE  KeepInv'
<1>1. FileTypes /\ FileTypes'
  BY ClientTypes DEF MoveInv
<1>2. UNCHANGED <<wp, gen, wr, cur, list, pc, target>>
  BY DEF DeleteFile, EndRead, workVars
<1>3. PICK last \in BOOLEAN :
        /\ DropReference(f, last)
        /\ last => wr[f] = Nobody /\ ~alive'[f]
  <2>1. CASE DeleteFile(f)
    <3>1. ~alive'[f]
      BY <1>1, <2>1 DEF DeleteFile, FileTypes
    <3> QED BY <2>1, <3>1 DEF DeleteFile
  <2>2. CASE EndRead(f)
    BY <2>2 DEF EndRead
  <2> QED BY <2>1, <2>2
<1>4. /\ \A g \in Files : durable'[g] = durable[g] \/ durable'[g] = <<>>
      /\ \A g \in Files : ~alive'[g] => durable'[g] = <<>>
  <2>1. CASE DeleteFile(f)
    <3>1. \A g \in Files : durable'[g] = IF g = f THEN <<>> ELSE durable[g]
      BY <1>1, <2>1 DEF DeleteFile, FileTypes
    <3>2. \A g \in Files : g # f => alive'[g] = alive[g]
      BY <1>1, <2>1 DEF DeleteFile, FileTypes
    <3> QED BY <3>1, <3>2 DEF KeepInv, Logged
  <2>2. CASE EndRead(f)
    BY <2>2 DEF EndRead, KeepInv, Logged
  <2> QED BY <2>1, <2>2
<1>5. \A g \in Files : exts'[g] = IF last /\ g = f THEN <<>> ELSE exts[g]
  BY <1>1, <1>3 DEF DropReference, FileTypes
<1>6. \A u \in Workers : Shown(u)' = Shown(u)
  BY <1>2 DEF Shown
<1>7. \A g \in Files : /\ Own(g)' \subseteq Own(g)
                       /\ g = f /\ last => Own(g)' = {}
  <2>1. \A g \in Files : Range(exts'[g]) \subseteq Range(exts[g])
                         /\ Range(durable'[g]) \subseteq Range(durable[g])
    BY <1>4, <1>5, EmptyRange
  <2>2. last => Range(exts'[f]) = {} /\ Range(durable'[f]) = {} /\ wr'[f] \notin Workers
    BY <1>2, <1>3, <1>4, <1>5, EmptyRange, Constants
  <2> QED BY <1>2, <1>6, <2>1, <2>2 DEF Own
<1>8. Apart' /\ Live' \subseteq Live /\ \A y : At(y)' \subseteq At(y)
  BY <1>7, FewerOwned DEF KeepInv
<1>9. Kept'
  <2>1. \A z \in Zone : wp[z] <= wp'[z]
    BY <1>1, <1>2, Constants DEF FileTypes
  <2> QED BY <1>1, <1>2, <1>8, <2>1, KeptFewer DEF KeepInv
<1>10. Covered'
  BY <1>1, <1>3, <1>7, DropCovered
<1>11. Fresh' /\ Copied'
  BY <1>2, <1>8, FreshFewer DEF KeepInv, Copied
<1>12. \A u \in Workers : pc[u] \in Moving => cur[u].file \in Files /\ (last => cur[u].file # f)
  BY <1>3, Constants DEF MoveInv, Locked, Entries
<1>13. Distinct'
  BY <1>1, <1>2, <1>3, <1>12, DropDistinct DEF KeepInv
<1>14. Logged'
  <2>1. ASSUME NEW w \in Workers, pc'[w] = "free"
        PROVE  Range(durable'[cur'[w].file]) \subseteq Range(exts'[cur'[w].file])
    <3>1. pc[w] \in Moving
      BY <1>2, <2>1 DEF Moving, Pcs
    <3>2. cur[w].file \in Files /\ exts'[cur[w].file] = exts[cur[w].file]
      BY <1>5, <1>12, <3>1
    <3>3. Range(durable[cur[w].file]) \subseteq Range(exts[cur[w].file])
      BY <1>2, <2>1 DEF KeepInv, Logged
    <3> QED BY <1>2, <1>4, <3>2, <3>3, EmptyRange
  <2> QED BY <1>4, <2>1 DEF Logged
<1> QED BY <1>8, <1>9, <1>10, <1>11, <1>13, <1>14 DEF KeepInv

(* ReleaseWRLock lets go of a list that shows nothing any more.             *)
LEMMA ReleaseKeep ==
  ASSUME KeepInv, MoveInv, NEW w \in Workers, ReleaseWRLock(w)
  PROVE  KeepInv'
<1>1. FileTypes /\ FileTypes' /\ pc \in [Workers -> Pcs] /\ pc[w] = "unlock"
  BY MovingTypes DEF MoveInv, ExclusiveInv, Held, ReleaseWRLock
<1>2. UNCHANGED <<wp, gen, alive, durable, target>>
  BY DEF ReleaseWRLock
<1>3. PICK f \in Files : f = cur[w].file /\ wr[f] = w
  BY <1>1 DEF MoveInv, Locked, Moving, Pcs, Entries
<1>4. PICK last \in BOOLEAN : DropReference(f, last) /\ (last => ~alive[f])
  BY <1>3 DEF ReleaseWRLock
<1>5. \A g \in Files : exts'[g] = IF last /\ g = f THEN <<>> ELSE exts[g]
  BY <1>1, <1>4 DEF DropReference, FileTypes
<1>6. \A g \in Files : wr'[g] = IF g = f THEN Nobody ELSE wr[g]
  BY <1>1, <1>3 DEF ReleaseWRLock, FileTypes
<1>7. /\ pc'[w] = "reset"
      /\ \A u \in Workers : u # w => pc'[u] = pc[u] /\ list'[u] = list[u] /\ cur'[u] = cur[u]
  BY <1>1 DEF ReleaseWRLock, Goto, FileTypes
<1>8. \A u \in Workers : Shown(u)' = Shown(u)
  <2>1. Shown(w) = {} /\ Shown(w)' = {}
    BY <1>1, <1>7 DEF Shown, Moving
  <2> QED BY <1>7, <2>1 DEF Shown
<1>9. \A g \in Files : /\ Own(g)' \subseteq Own(g)
                       /\ g = f /\ last => Own(g)' = {}
  <2>1. \A g \in Files : Range(exts'[g]) \subseteq Range(exts[g])
    BY <1>5, EmptyRange
  <2>2. last => Range(exts'[f]) = {} /\ Range(durable'[f]) = {}
    BY <1>2, <1>4, <1>5, EmptyRange DEF KeepInv, Logged
  <2> QED BY <1>2, <1>6, <1>8, <2>1, <2>2, Constants DEF Own
<1>10. Apart' /\ Live' \subseteq Live /\ \A y : At(y)' \subseteq At(y)
  BY <1>9, FewerOwned DEF KeepInv
<1>11. Kept'
  <2>1. \A z \in Zone : wp[z] <= wp'[z]
    BY <1>1, <1>2, Constants DEF FileTypes
  <2> QED BY <1>1, <1>2, <1>10, <2>1, KeptFewer DEF KeepInv
<1>12. Covered'
  BY <1>1, <1>4, <1>9, DropCovered
<1>13. \A u \in Workers : pc'[u] \in Moving => u # w /\ pc[u] \in Moving
  BY <1>7 DEF Moving
<1>14. Fresh' /\ Copied'
  <2>1. \A u \in Workers : pc'[u] = "check" => pc[u] = "check" /\ target'[u] = target[u]
    BY <1>2, <1>7
  <2>2. Fresh'
    BY <1>2, <1>10, <2>1, FreshFewer DEF KeepInv
  <2>3. Copied'
    BY <1>7 DEF KeepInv, Copied
  <2> QED BY <2>2, <2>3
<1>15. \A u \in Workers : u # w /\ pc[u] \in Moving => cur[u].file \in Files /\ cur[u].file # f
  BY <1>3 DEF MoveInv, Locked, Entries
<1>16. Distinct'
  <2>1. \A u \in Workers : pc'[u] \in Moving \ {"unlock"} =>
           /\ pc[u] \in Moving \ {"unlock"} /\ cur'[u] = cur[u] /\ list'[u] = list[u]
           /\ cur[u].file \in Files /\ (last => cur[u].file # f)
    BY <1>7, <1>13, <1>15
  <2> QED BY <1>1, <1>4, <2>1, DropDistinct DEF KeepInv
<1>17. Logged'
  <2>1. ASSUME NEW u \in Workers, pc'[u] = "free"
        PROVE  Range(durable'[cur'[u].file]) \subseteq Range(exts'[cur'[u].file])
    <3>1. pc[u] = "free" /\ u # w /\ pc[u] \in Moving
      BY <1>7, <2>1 DEF Moving, Pcs
    <3>2. cur[u].file \in Files /\ cur[u].file # f /\ cur'[u] = cur[u]
      BY <1>7, <1>15, <3>1
    <3> QED BY <1>2, <1>5, <3>1, <3>2 DEF KeepInv, Logged
  <2>2. \A g \in Files : ~alive'[g] => durable'[g] = <<>>
    BY <1>2 DEF KeepInv, Logged
  <2> QED BY <2>1, <2>2 DEF Logged
<1> QED BY <1>10, <1>11, <1>12, <1>14, <1>16, <1>17 DEF KeepInv

(* The worker that opens a file starts with the list the file has.          *)
LEMMA OpenKeep ==
  ASSUME KeepInv, MoveInv, NEW w \in Workers, OpenForMigration(w)
  PROVE  KeepInv'
<1>1. FileTypes /\ FileTypes' /\ pc \in [Workers -> Pcs] /\ pc[w] = "next"
  BY MovingTypes DEF MoveInv, ExclusiveInv, Held, OpenForMigration
<1>2. UNCHANGED <<wp, used, gen, alive, exts, durable, target>>
  BY DEF OpenForMigration, zoneVars
<1>3. PICK x \in Entries :
        \/ /\ wr[x.file] = Nobody /\ wr' = [wr EXCEPT ![x.file] = w]
           /\ cur' = [cur EXCEPT ![w] = x]
           /\ list' = [list EXCEPT ![w] = exts[x.file]]
           /\ \E there \in {"take", "sync"} : pc' = [pc EXCEPT ![w] = there]
        \/ pc' = [pc EXCEPT ![w] = "reset"] /\ UNCHANGED <<wr, cur, list>>
  BY <1>1, OpenFacts
<1>4. CASE pc' = [pc EXCEPT ![w] = "reset"] /\ UNCHANGED <<wr, cur, list>>
  <2>1. \A u \in Workers : SamePlace(u)
    BY <1>1, <1>4 DEF SamePlace, Moving
  <2> QED BY <1>1, <1>2, <1>4, <2>1, QuietKeep
<1>5. CASE /\ wr[x.file] = Nobody /\ wr' = [wr EXCEPT ![x.file] = w]
           /\ cur' = [cur EXCEPT ![w] = x]
           /\ list' = [list EXCEPT ![w] = exts[x.file]]
           /\ \E there \in {"take", "sync"} : pc' = [pc EXCEPT ![w] = there]
  <2>1. PICK f \in Files : f = x.file
    BY DEF Entries
  <2>2. /\ pc'[w] \in {"take", "sync"} /\ cur'[w] = x /\ list'[w] = exts[f]
        /\ \A u \in Workers : u # w => pc'[u] = pc[u] /\ cur'[u] = cur[u] /\ list'[u] = list[u]
    BY <1>1, <1>5, <2>1 DEF FileTypes
  <2>3. wr'[f] = w /\ \A g \in Files : g # f => wr'[g] = wr[g]
    BY <1>1, <1>5, <2>1 DEF FileTypes
  <2>4. \A g \in Files : g # f /\ wr[g] \in Workers => wr[g] # w
    BY <1>1 DEF MoveInv, Locked, Moving
  <2>5. Shown(w)' = Range(exts[f]) /\ \A u \in Workers : u # w => Shown(u)' = Shown(u)
    BY <2>2 DEF Shown, Moving, Pcs
  <2>6. \A g \in Files : Own(g)' \subseteq Own(g)
    BY <1>2, <2>3, <2>4, <2>5 DEF Own
  <2>7. Apart' /\ Live' \subseteq Live /\ \A y : At(y)' \subseteq At(y)
    BY <2>6, FewerOwned DEF KeepInv
  <2>8. Kept' /\ Covered'
    <3>1. \A z \in Zone : wp[z] <= wp'[z] /\ used[z] <= used'[z]
      BY <1>1, <1>2, Constants DEF FileTypes
    <3> QED BY <1>1, <1>2, <2>7, <3>1, KeptFewer, CoveredFewer DEF KeepInv
  <2>9. Fresh'
    <3>1. \A u \in Workers : pc'[u] = "check" => pc[u] = "check" /\ target'[u] = target[u]
      BY <1>2, <2>2
    <3> QED BY <1>2, <2>7, <3>1, FreshFewer DEF KeepInv
  <2>10. Copied'
    BY <2>2 DEF KeepInv, Copied
  <2>11. Distinct'
    <3>1. Parallel(exts[f], exts[f])
      BY DEF KeepInv, Distinct, Parallel, IsInjective
    <3>2. \A u \in Workers : pc'[u] \in Moving \ {"unlock"} => Parallel(list'[u], exts'[cur'[u].file])
      BY <1>2, <2>1, <2>2, <3>1 DEF KeepInv, Distinct
    <3> QED BY <1>2, <3>2 DEF KeepInv, Distinct
  <2>12. Logged'
    BY <1>2, <2>2 DEF KeepInv, Logged
  <2> QED BY <2>7, <2>8, <2>9, <2>10, <2>11, <2>12 DEF KeepInv
<1> QED BY <1>3, <1>4, <1>5

(* The list of copies with one more in it.                                  *)
LEMMA ReplacedFacts ==
  ASSUME NEW s \in Seq(Extents), NEW old, NEW i, NEW e \in Extents,
         Parallel(s, old), e \notin Range(s), e \notin Range(old),
         NEW n, n = [s EXCEPT ![i] = e]
  PROVE  /\ Parallel(n, old) /\ Range(n) \subseteq Range(s) \cup {e}
         /\ i \in DOMAIN s => n[i] = e /\ e \in Range(n)
         /\ \A j \in DOMAIN s : j # i => n[j] = s[j]
<1>1. DOMAIN n = DOMAIN s /\ \A j \in DOMAIN s : n[j] = IF j = i THEN e ELSE s[j]
  OBVIOUS
<1>2. \A j \in DOMAIN s : s[j] # e
  BY DEF Range
<1>3. DOMAIN s = DOMAIN old /\ \A j \in DOMAIN old : old[j] # e
  BY DEF Parallel, Range
<1>4. IsInjective(n)
  BY <1>1, <1>2 DEF IsInjective, Parallel
<1>5. \A j, k \in DOMAIN old : n[j] = old[k] => j = k
  BY <1>1, <1>3 DEF Parallel
<1>6. Range(n) \subseteq Range(s) \cup {e}
  BY <1>1 DEF Range
<1>7. i \in DOMAIN s => n[i] = e /\ e \in Range(n)
  BY <1>1 DEF Range
<1> QED BY <1>1, <1>3, <1>4, <1>5, <1>6, <1>7 DEF Parallel

(* CheckFile puts a block into the list that nobody refers to.              *)
LEMMA CheckKeep ==
  ASSUME KeepInv, MoveInv, NEW w \in Workers, CheckFile(w)
  PROVE  KeepInv'
<1>1. FileTypes /\ FileTypes' /\ pc \in [Workers -> Pcs] /\ pc[w] = "check"
  BY MovingTypes DEF MoveInv, ExclusiveInv, Held, CheckFile, KeepInv, Copied
<1>2. UNCHANGED <<wp, gen, alive, exts, durable, wr, cur, target>>
  BY DEF CheckFile, fileVars
<1>3. PICK z \in Zone : z = target[w]
  BY <1>1 DEF MoveInv, ExclusiveInv, Held, Holding
<1>4. PICK e : e = [zone |-> z, off |-> wp[z], gen |-> gen[z]]
  OBVIOUS
<1>5. \/ /\ used' = [used EXCEPT ![z] = @ + 1]
         /\ list' = [list EXCEPT ![w][idx[w]] = e]
         /\ pc' = [pc EXCEPT ![w] = "release"]
      \/ UNCHANGED <<used, list>> /\ pc' = [pc EXCEPT ![w] = "abort"]
  BY <1>1, <1>3, <1>4 DEF CheckFile, Adopt, Goto
<1>6. PICK there \in {"release", "abort"} : pc' = [pc EXCEPT ![w] = there]
  BY <1>5
<1>7. /\ pc'[w] = there /\ \A u \in Workers : u # w => pc'[u] = pc[u]
      /\ \A u \in Workers : pc'[u] \in Moving \ {"unlock"} <=> pc[u] \in Moving \ {"unlock"}
      /\ \A u \in Workers : pc'[u] = "check" => pc[u] = "check" /\ u # w
      /\ \A u \in Workers : pc'[u] = "free" => pc[u] = "free"
      /\ \A u \in Workers : pc'[u] = "checkfailed" => pc[u] = "checkfailed"
  BY <1>1, <1>6 DEF Moving, Pcs
<1>8. Logged' /\ Copied'
  BY <1>2, <1>7, SameLogged DEF KeepInv, Copied
<1>9. CASE UNCHANGED <<used, list>>
  <2>1. \A f \in Files : Own(f)' = Own(f)
    BY <1>2, <1>7, <1>9, SameOwned
  <2>2. Apart' /\ Live' \subseteq Live /\ \A y : At(y)' \subseteq At(y)
    BY <2>1, FewerOwned DEF KeepInv
  <2>3. Kept' /\ Covered'
    <3>1. \A y \in Zone : wp[y] <= wp'[y] /\ used[y] <= used'[y]
      BY <1>1, <1>2, <1>9, Constants DEF FileTypes
    <3> QED BY <1>1, <1>2, <2>2, <3>1, KeptFewer, CoveredFewer DEF KeepInv
  <2>4. Fresh'
    BY <1>2, <1>7, <2>2, FreshFewer DEF KeepInv
  <2>5. Distinct'
    BY <1>2, <1>7, <1>9, SameDistinct DEF KeepInv
  <2> QED BY <1>8, <2>2, <2>3, <2>4, <2>5 DEF KeepInv
<1>10. CASE /\ used' = [used EXCEPT ![z] = @ + 1]
            /\ list' = [list EXCEPT ![w][idx[w]] = e]
  <2>1. e \in Extents /\ e.zone = z /\ e.off = wp[z] /\ e.gen = gen[z] /\ wp[z] \in Nat
    <3>1. wp[z] \in Nat /\ gen[z] \in Nat
      BY <1>1, Constants DEF FileTypes
    <3> QED BY <1>4, <3>1 DEF Extents
  <2>2. e \notin Live
    <3>1. e \in Live => e.off < wp[z]
      BY <1>1, <1>3, <2>1 DEF KeepInv, Fresh
    <3> QED BY <2>1, <3>1
  <2>3. PICK f \in Files : f = cur[w].file /\ wr[f] = w
    BY <1>1 DEF MoveInv, Locked, Moving, Pcs, Entries
  <2>4. PICK s, n : s \in Seq(Extents) /\ s = list[w] /\ n = [s EXCEPT ![idx[w]] = e]
    BY <1>1 DEF FileTypes
  <2>5. list' = [list EXCEPT ![w] = n]
    BY <1>1, <1>10, <2>4, ListFacts
  <2>6. list'[w] = n /\ \A u \in Workers : u # w => list'[u] = list[u]
    BY <1>1, <2>5 DEF FileTypes
  <2>7. Range(s) \subseteq Own(f) /\ Range(exts[f]) \subseteq Own(f)
    <3>1. Shown(w) = Range(s)
      BY <1>1, <2>4 DEF Shown, Moving, Pcs
    <3> QED BY <2>3, <3>1 DEF Own
  <2>8. e \notin Range(s) /\ e \notin Range(exts[f])
    BY <2>2, <2>7, LiveFacts
  <2>9. Parallel(s, exts[f])
    BY <1>1, <2>3, <2>4 DEF KeepInv, Distinct, Moving, Pcs
  <2>10. Parallel(n, exts[f]) /\ Range(n) \subseteq Range(s) \cup {e}
    BY <2>1, <2>4, <2>8, <2>9, ReplacedFacts
  <2>11. Distinct'
    <3>1. \A u \in Workers : pc'[u] \in Moving \ {"unlock"} => Parallel(list'[u], exts'[cur'[u].file])
      BY <1>2, <1>7, <2>3, <2>6, <2>10 DEF KeepInv, Distinct
    <3> QED BY <1>2, <3>1 DEF KeepInv, Distinct
  <2>12. \A g \in Files : Own(g)' \subseteq IF g = f THEN Own(g) \cup {e} ELSE Own(g)
    <3>1. \A u \in Workers : u # w => Shown(u)' = Shown(u)
      BY <1>7, <2>6 DEF Shown
    <3>2. Shown(w)' \subseteq Range(s) \cup {e}
      BY <2>6, <2>10 DEF Shown
    <3>3. \A g \in Files : g # f => wr[g] # w
      BY <2>3 DEF MoveInv, Locked
    <3> QED BY <1>2, <2>3, <2>7, <3>1, <3>2, <3>3 DEF Own
  <2>13. \A x \in Live' : x \in Live \/ x = e
    BY <2>12 DEF Live
  <2>14. Apart'
    <3> SUFFICES ASSUME NEW g \in Files, NEW h \in Files, g # h, NEW x, x \in Own(g)', x \in Own(h)'
                 PROVE  FALSE
      BY DEF Apart
    <3>1. x # e => x \in Own(g) /\ x \in Own(h)
      BY <2>12
    <3>2. x # e
      BY <2>2, <2>12, LiveFacts
    <3> QED BY <3>1, <3>2 DEF KeepInv, Apart
  <2>15. Kept'
    <3> SUFFICES ASSUME NEW x \in Live' PROVE Intact(x)'
      BY DEF Kept
    <3>1. CASE x = e
      <4>1. gen[z] = e.gen /\ e.off <= wp[z]
        BY <2>1
      <4> QED BY <1>2, <2>1, <3>1, <4>1 DEF Intact
    <3>2. CASE x \in Live
      BY <1>2, <3>2 DEF KeepInv, Kept, Intact
    <3> QED BY <2>13, <3>1, <3>2
  <2>16. Fresh'
    <3> SUFFICES ASSUME NEW u \in Workers, pc'[u] = "check", NEW x \in Live', x.zone = target'[u]
                 PROVE  x.off < wp'[target'[u]]
      BY DEF Fresh
    <3>1. u # w /\ pc[u] = "check"
      BY <1>7
    <3>2. target[u] # z
      BY <1>3, <3>1, NameFacts DEF MoveInv, ExclusiveInv, TargetsExclusive
    <3>3. x \in Live
      BY <1>2, <2>1, <2>13, <3>2
    <3> QED BY <1>2, <3>1, <3>3 DEF KeepInv, Fresh
  <2>17. Covered'
    <3> SUFFICES ASSUME NEW y \in Zone PROVE Cardinality(At(y)') <= used'[y]
      BY DEF Covered
    <3>1. IsFiniteSet(At(y)) /\ Cardinality(At(y)) \in Nat /\ Cardinality(At(y)) <= used[y]
      BY <1>1, OwnTypes DEF KeepInv, Covered
    <3>2. used[y] \in Int /\ used'[y] = IF y = z THEN used[y] + 1 ELSE used[y]
      BY <1>1, <1>10 DEF FileTypes
    <3>3. CASE y = z
      <4>1. At(y)' \in SUBSET (At(y) \cup {e})
        BY <2>13 DEF At
      <4>2. IsFiniteSet(At(y) \cup {e}) /\ Cardinality(At(y) \cup {e}) <= Cardinality(At(y)) + 1
        <5>1. PICK N \in Nat : N = Cardinality(At(y))
          BY <3>1
        <5>2. IsFiniteSet(At(y) \cup {e}) /\ Cardinality(At(y) \cup {e}) = IF e \in At(y) THEN N ELSE N + 1
          BY <3>1, <5>1, FS_AddElement
        <5> QED BY <5>1, <5>2
      <4>3. IsFiniteSet(At(y)') /\ Cardinality(At(y)') <= Cardinality(At(y) \cup {e})
        BY <4>1, <4>2, FS_Subset
      <4>4. Cardinality(At(y)') \in Nat /\ Cardinality(At(y) \cup {e}) \in Nat
        BY <4>2, <4>3, FS_CardinalityType
      <4> QED BY <3>1, <3>2, <3>3, <4>2, <4>3, <4>4
    <3>4. CASE y # z
      <4>1. At(y)' \in SUBSET At(y)
        BY <2>1, <2>13, <3>4 DEF At
      <4>2. IsFiniteSet(At(y)') /\ Cardinality(At(y)') <= Cardinality(At(y))
        BY <3>1, <4>1, FS_Subset
      <4>3. Cardinality(At(y)') \in Nat
        BY <4>2, FS_CardinalityType
      <4> QED BY <3>1, <3>2, <3>4, <4>2, <4>3
    <3> QED BY <3>3, <3>4
  <2> QED BY <1>8, <2>11, <2>14, <2>15, <2>16, <2>17 DEF KeepInv
<1> QED BY <1>5, <1>9, <1>10

(* ReplaceExtentList swaps two lists; the worker shows the other one.       *)
LEMMA ReplaceKeep ==
  ASSUME KeepInv, MoveInv, NEW w \in Workers, ReplaceExtentList(w)
  PROVE  KeepInv'
<1>1. FileTypes /\ FileTypes' /\ pc \in [Workers -> Pcs] /\ pc[w] = "replace"
  BY MovingTypes DEF MoveInv, ExclusiveInv, Held, ReplaceExtentList
<1>2. UNCHANGED <<wp, used, gen, alive, durable, wr, cur, target>>
  BY DEF ReplaceExtentList, zoneVars
<1>3. PICK f \in Files : f = cur[w].file /\ wr[f] = w
  BY <1>1 DEF MoveInv, Locked, Moving, Pcs, Entries
<1>4. exts'[f] = list[w] /\ \A g \in Files : g # f => exts'[g] = exts[g]
  BY <1>1, <1>3 DEF ReplaceExtentList, FileTypes
<1>5. list'[w] = exts[f] /\ \A u \in Workers : u # w => list'[u] = list[u]
  BY <1>1, <1>3 DEF ReplaceExtentList, FileTypes
<1>6. pc'[w] = "persist" /\ \A u \in Workers : u # w => pc'[u] = pc[u]
  BY <1>1 DEF ReplaceExtentList, Goto
<1>7. \A u \in Workers : u # w => Shown(u)' = Shown(u)
  BY <1>5, <1>6 DEF Shown
<1>8. Shown(w) = Range(list[w]) /\ Shown(w)' = Range(exts[f])
  BY <1>1, <1>5, <1>6 DEF Shown, Moving, Pcs
<1>9. \A u \in Workers : u # w /\ pc[u] \in Moving => cur[u].file \in Files /\ cur[u].file # f
  BY <1>3 DEF MoveInv, Locked, Entries
<1>10. \A g \in Files : Own(g)' = Own(g)
  <2>1. \A g \in Files : g # f => wr[g] # w
    BY <1>3 DEF MoveInv, Locked
  <2>2. ASSUME NEW g \in Files, g # f PROVE Own(g)' = Own(g)
    BY <1>2, <1>4, <1>7, <2>1, <2>2 DEF Own
  <2>3. Own(f)' = Own(f)
    BY <1>2, <1>3, <1>4, <1>8 DEF Own
  <2> QED BY <2>2, <2>3
<1>11. Apart' /\ Live' \subseteq Live /\ \A y : At(y)' \subseteq At(y)
  BY <1>10, FewerOwned DEF KeepInv
<1>12. Kept' /\ Covered'
  <2>1. \A y \in Zone : wp[y] <= wp'[y] /\ used[y] <= used'[y]
    BY <1>1, <1>2, Constants DEF FileTypes
  <2> QED BY <1>1, <1>2, <1>11, <2>1, KeptFewer, CoveredFewer DEF KeepInv
<1>13. Fresh' /\ Copied'
  <2>1. \A u \in Workers : pc'[u] = "check" => pc[u] = "check" /\ target'[u] = target[u]
    BY <1>2, <1>6
  <2>2. Fresh'
    BY <1>2, <1>11, <2>1, FreshFewer DEF KeepInv
  <2>3. Copied'
    BY <1>6 DEF KeepInv, Copied
  <2> QED BY <2>2, <2>3
<1>14. Distinct'
  <2>1. Parallel(list[w], exts[f]) /\ IsInjective(exts[f])
    BY <1>1, <1>3 DEF KeepInv, Distinct, Moving, Pcs
  <2>2. Parallel(exts[f], list[w]) /\ IsInjective(list[w])
    BY <2>1 DEF Parallel
  <2>3. \A g \in Files : IsInjective(exts'[g])
    BY <1>4, <2>2 DEF KeepInv, Distinct
  <2>4. ASSUME NEW u \in Workers, pc'[u] \in Moving \ {"unlock"}
        PROVE  Parallel(list'[u], exts'[cur'[u].file])
    <3>1. CASE u = w
      BY <1>2, <1>3, <1>4, <1>5, <2>2, <3>1
    <3>2. CASE u # w
      <4>1. pc[u] \in Moving \ {"unlock"} /\ cur[u].file \in Files /\ cur[u].file # f
        BY <1>6, <1>9, <2>4, <3>2
      <4> QED BY <1>2, <1>4, <1>5, <3>2, <4>1 DEF KeepInv, Distinct
    <3> QED BY <3>1, <3>2
  <2> QED BY <2>3, <2>4 DEF Distinct
<1>15. Logged'
  <2>1. ASSUME NEW u \in Workers, pc'[u] = "free"
        PROVE  Range(durable'[cur'[u].file]) \subseteq Range(exts'[cur'[u].file])
    <3>1. u # w /\ pc[u] = "free" /\ pc[u] \in Moving
      BY <1>6, <2>1 DEF Moving, Pcs
    <3>2. cur[u].file \in Files /\ cur[u].file # f
      BY <1>9, <3>1
    <3> QED BY <1>2, <1>4, <3>1, <3>2 DEF KeepInv, Logged
  <2>2. \A g \in Files : ~alive'[g] => durable'[g] = <<>>
    BY <1>2 DEF KeepInv, Logged
  <2> QED BY <2>1, <2>2 DEF Logged
<1> QED BY <1>11, <1>12, <1>13, <1>14, <1>15 DEF KeepInv

(* SyncFileMetadata logs what the file has, or fails.                       *)
LEMMA SyncKeep ==
  ASSUME KeepInv, MoveInv, NEW w \in Workers, SyncFileMetadata(w)
  PROVE  KeepInv'
<1>1. FileTypes /\ FileTypes' /\ pc \in [Workers -> Pcs] /\ pc[w] = "persist"
  BY MovingTypes DEF MoveInv, ExclusiveInv, Held, SyncFileMetadata
<1>2. UNCHANGED <<wp, used, gen, alive, exts, wr, cur, list, target>>
  BY DEF SyncFileMetadata, zoneVars, workVars
<1>3. PICK f \in Files : f = cur[w].file /\ wr[f] = w
  BY <1>1 DEF MoveInv, Locked, Moving, Pcs, Entries
<1>4. /\ \A g \in Files : g # f => durable'[g] = durable[g]
      /\ durable'[f] = durable[f] \/ (alive[f] /\ (durable'[f] = <<>> \/ durable'[f] = exts[f]))
  BY <1>1, <1>3 DEF SyncFileMetadata, FileTypes
<1>5. PICK there \in {"free", "unlock"} : pc' = [pc EXCEPT ![w] = there]
  BY DEF SyncFileMetadata, Goto
<1>6. /\ pc'[w] = there /\ \A u \in Workers : u # w => pc'[u] = pc[u]
      /\ \A u \in Workers : pc'[u] \in Moving \ {"unlock"} => pc[u] \in Moving \ {"unlock"}
  BY <1>1, <1>5 DEF Moving, Pcs
<1>7. there = "free" => Range(durable'[f]) \subseteq Range(exts[f])
  <2>1. there = "free" => ~alive[f] \/ durable'[f] = <<>> \/ durable'[f] = exts[f]
    BY <1>1, <1>3, <1>5 DEF SyncFileMetadata, FileTypes, Goto
  <2>2. ~alive[f] => durable'[f] = <<>>
    BY <1>4 DEF KeepInv, Logged
  <2> QED BY <2>1, <2>2, EmptyRange
<1>8. \A u \in Workers : Shown(u)' \subseteq Shown(u)
  BY <1>2, <1>6 DEF Shown
<1>9. \A g \in Files : Own(g)' \subseteq Own(g)
  <2>1. \A g \in Files : Range(durable'[g]) \subseteq Range(durable[g]) \cup Range(exts[g])
    BY <1>4, EmptyRange
  <2> QED BY <1>2, <1>8, <2>1 DEF Own
<1>10. Apart' /\ Live' \subseteq Live /\ \A y : At(y)' \subseteq At(y)
  BY <1>9, FewerOwned DEF KeepInv
<1>11. Kept' /\ Covered'
  <2>1. \A y \in Zone : wp[y] <= wp'[y] /\ used[y] <= used'[y]
    BY <1>1, <1>2, Constants DEF FileTypes
  <2> QED BY <1>1, <1>2, <1>10, <2>1, KeptFewer, CoveredFewer DEF KeepInv
<1>12. Fresh' /\ Copied'
  <2>1. \A u \in Workers : pc'[u] = "check" => pc[u] = "check" /\ target'[u] = target[u]
    BY <1>2, <1>6
  <2>2. Fresh'
    BY <1>2, <1>10, <2>1, FreshFewer DEF KeepInv
  <2>3. Copied'
    BY <1>6 DEF KeepInv, Copied
  <2> QED BY <2>2, <2>3
<1>13. Distinct'
  BY <1>2, <1>6, SameDistinct DEF KeepInv
<1>14. Logged'
  <2>1. ASSUME NEW u \in Workers, pc'[u] = "free"
        PROVE  Range(durable'[cur'[u].file]) \subseteq Range(exts'[cur'[u].file])
    <3>1. CASE u = w
      BY <1>2, <1>3, <1>6, <1>7, <2>1, <3>1
    <3>2. CASE u # w
      <4>1. pc[u] = "free" /\ pc[u] \in Moving
        BY <1>6, <2>1, <3>2 DEF Moving, Pcs
      <4>2. cur[u].file \in Files /\ cur[u].file # f
        BY <1>3, <3>2, <4>1 DEF MoveInv, Locked, Entries
      <4> QED BY <1>2, <1>4, <4>1, <4>2 DEF KeepInv, Logged
    <3> QED BY <3>1, <3>2
  <2>2. \A g \in Files : ~alive'[g] => durable'[g] = <<>>
    BY <1>2, <1>4 DEF KeepInv, Logged
  <2> QED BY <2>1, <2>2 DEF Logged
<1> QED BY <1>10, <1>11, <1>12, <1>13, <1>14 DEF KeepInv

(* FreeOldExtents gives up only originals that neither the file nor the log *)
(* has any more.                                                            *)
LEMMA FreeKeep ==
  ASSUME KeepInv, MoveInv, NEW w \in Workers, FreeOldExtents(w)
  PROVE  KeepInv'
<1>1. FileTypes /\ FileTypes' /\ pc \in [Workers -> Pcs] /\ pc[w] = "free"
  BY MovingTypes DEF MoveInv, ExclusiveInv, Held, FreeOldExtents
<1>2. UNCHANGED <<wp, gen, alive, exts, durable, wr, cur, list, target>>
  BY DEF FreeOldExtents, fileVars, workVars
<1>3. PICK f \in Files : f = cur[w].file /\ wr[f] = w
  BY <1>1 DEF MoveInv, Locked, Moving, Pcs, Entries
<1>4. /\ pc'[w] = "unlock" /\ \A u \in Workers : u # w => pc'[u] = pc[u]
      /\ \A u \in Workers : pc'[u] \in Moving \ {"unlock"} => pc[u] \in Moving \ {"unlock"}
  BY <1>1 DEF FreeOldExtents, Goto
<1>5. \A u \in Workers : Shown(u)' \subseteq Shown(u)
  BY <1>2, <1>4 DEF Shown
<1>6. \A g \in Files : Own(g)' \subseteq Own(g)
  BY <1>2, <1>5 DEF Own
<1>7. Apart' /\ Live' \subseteq Live /\ \A y : At(y)' \subseteq At(y)
  BY <1>6, FewerOwned DEF KeepInv
<1>8. Kept'
  <2>1. \A y \in Zone : wp[y] <= wp'[y]
    BY <1>1, <1>2, Constants DEF FileTypes
  <2> QED BY <1>1, <1>2, <1>7, <2>1, KeptFewer DEF KeepInv
<1>9. Fresh' /\ Copied'
  <2>1. \A u \in Workers : pc'[u] = "check" => pc[u] = "check" /\ target'[u] = target[u]
    BY <1>2, <1>4
  <2>2. Fresh'
    BY <1>2, <1>7, <2>1, FreshFewer DEF KeepInv
  <2>3. Copied'
    BY <1>4 DEF KeepInv, Copied
  <2> QED BY <2>2, <2>3
<1>10. Distinct'
  BY <1>2, <1>4, SameDistinct DEF KeepInv
<1>11. Logged'
  <2>1. \A u \in Workers : pc'[u] = "free" => pc[u] = "free"
    BY <1>4
  <2> QED BY <1>2, <2>1, SameLogged DEF KeepInv
<1>12. Own(f)' \subseteq Range(exts[f])
  <2>1. Range(durable[f]) \subseteq Range(exts[f])
    BY <1>1, <1>3 DEF KeepInv, Logged
  <2>2. Shown(w)' = {}
    BY <1>4 DEF Shown
  <2> QED BY <1>2, <1>3, <2>1, <2>2 DEF Own
<1>13. Covered'
  <2> SUFFICES ASSUME NEW z \in Zone PROVE Cardinality(At(z)') <= used'[z]
    BY DEF Covered
  <2>1. PICK s \in Seq(Extents) : s = list[w]
    BY <1>1 DEF FileTypes
  <2> DEFINE I == {i \in Changed(w) : s[i].zone = z}
             G == {s[i] : i \in I}
  <2>2. Parallel(s, exts[f])
    BY <1>1, <1>3, <2>1 DEF KeepInv, Distinct, Moving, Pcs
  <2>3. I \in SUBSET DOMAIN s
    BY <2>1 DEF Changed
  <2>4. Cardinality(G) = Cardinality(I)
    BY <2>2, <2>3, ImageCount DEF Parallel
  <2>5. used'[z] = used[z] - Cardinality(I)
    BY <2>1 DEF FreeOldExtents
  <2>6. \A i \in I : s[i] \notin Range(exts[f])
    <3> SUFFICES ASSUME NEW i \in I, NEW j \in DOMAIN exts[f], s[i] = exts[f][j] PROVE FALSE
      BY DEF Range
    <3>1. i = j
      BY <2>2, <2>3 DEF Parallel
    <3>2. Start(s[i]) # Start(exts[f][i])
      BY <1>3, <2>1 DEF Changed
    <3> QED BY <3>1, <3>2
  <2>7. G \subseteq Own(f) /\ G \in SUBSET At(z)
    <3>1. G \subseteq Range(s)
      BY <2>3 DEF Range
    <3>2. Shown(w) = Range(s)
      BY <1>1, <2>1 DEF Shown, Moving, Pcs
    <3>3. G \subseteq Own(f)
      BY <1>3, <3>1, <3>2 DEF Own
    <3> QED BY <3>3 DEF At, Live
  <2>8. At(z)' \in SUBSET (At(z) \ G)
    <3>1. ASSUME NEW e \in At(z)', e \in G PROVE FALSE
      <4>1. PICK g \in Files : e \in Own(g)'
        BY DEF At, Live
      <4>2. CASE g = f
        BY <1>12, <2>6, <3>1, <4>1, <4>2
      <4>3. CASE g # f
        BY <1>6, <2>7, <3>1, <4>1, <4>3 DEF KeepInv, Apart
      <4> QED BY <4>2, <4>3
    <3> QED BY <1>7, <3>1
  <2>9. IsFiniteSet(At(z))
    BY <1>1, OwnTypes
  <2> HIDE DEF G, I
  <2>10. /\ Cardinality(At(z)') <= Cardinality(At(z)) - Cardinality(G)
         /\ Cardinality(At(z)) \in Nat /\ Cardinality(At(z)') \in Nat /\ Cardinality(G) \in Nat
    BY <2>7, <2>8, <2>9, LessCount
  <2>11. Cardinality(At(z)) <= used[z] /\ used[z] \in Int
    BY <1>1 DEF KeepInv, Covered, FileTypes
  <2> QED BY <2>4, <2>5, <2>10, <2>11
<1> QED BY <1>7, <1>8, <1>9, <1>10, <1>11, <1>13 DEF KeepInv

(* At the start a block is an extent of one file at most.                   *)
LEMMA InitKeep == Init => KeepInv
<1> SUFFICES ASSUME Init PROVE KeepInv
  OBVIOUS
<1>1. FileTypes
  BY InitMove DEF MoveInv
<1>2. /\ durable = exts /\ \A f \in Files : wr[f] = Nobody
      /\ \A w \in Workers : pc[w] = "idle"
      /\ \A z \in Zone : gen[z] = 0
      /\ \A f \in Files : alive[f]
  BY DEF Init
<1>3. \A f \in Files : Own(f) = Range(exts[f])
  BY <1>2, Constants DEF Own
<1>4. \A f, g \in Files : \A i \in DOMAIN exts[f], j \in DOMAIN exts[g] :
        exts[f][i] = exts[g][j] => f = g /\ i = j
  BY InitLayout
<1>5. Apart
  <2> SUFFICES ASSUME NEW f \in Files, NEW g \in Files, f # g, NEW e, e \in Own(f), e \in Own(g)
               PROVE  FALSE
    BY DEF Apart
  <2>1. PICK i \in DOMAIN exts[f] : e = exts[f][i]
    BY <1>3 DEF Range
  <2>2. PICK j \in DOMAIN exts[g] : e = exts[g][j]
    BY <1>3 DEF Range
  <2> QED BY <1>4, <2>1, <2>2
<1>6. Distinct
  <2>1. \A f \in Files : IsInjective(exts[f])
    BY <1>4 DEF IsInjective
  <2> QED BY <1>2, <2>1 DEF Distinct, Moving
<1>7. Logged /\ Fresh /\ Copied
  BY <1>2 DEF Logged, Fresh, Copied
<1>8. ASSUME NEW e \in Live
      PROVE  \E f \in Files : \E i \in DOMAIN exts[f] : e = exts[f][i]
  BY <1>3 DEF Live, Range
<1>9. Kept
  <2> SUFFICES ASSUME NEW e \in Live PROVE Intact(e)
    BY DEF Kept
  <2>1. PICK f \in Files : \E i \in DOMAIN exts[f] : e = exts[f][i]
    BY <1>8
  <2>2. PICK i \in DOMAIN exts[f] : e = exts[f][i]
    BY <2>1
  <2>3. e.off <= wp[e.zone] /\ e.gen = 0
    BY <2>2, InitLayout
  <2>4. e.zone \in Zone
    BY <1>1, OwnTypes DEF Extents
  <2> QED BY <1>2, <2>3, <2>4 DEF Intact
<1>10. Covered
  <2> SUFFICES ASSUME NEW z \in Zone PROVE Cardinality(At(z)) <= used[z]
    BY DEF Covered
  <2>1. PICK P : P = Placed(z)
    OBVIOUS
  <2>2. used[z] = Cardinality(P)
    BY <2>1, InitLayout
  <2>3. IsFiniteSet(P)
    <3>1. Placed(z) \in SUBSET Slots
      BY DEF Placed
    <3> QED BY <2>1, <3>1, EarlierCounts
  <2> DEFINE h == [s \in P |-> exts[s[1]][s[2]]]
  <2>4. h \in Surjection(P, At(z))
    <3>1. ASSUME NEW s \in P PROVE h[s] \in At(z)
      <4>1. s[1] \in Files /\ s[2] \in DOMAIN exts[s[1]] /\ exts[s[1]][s[2]].zone = z
        BY <2>1 DEF Placed, Slots
      <4>2. exts[s[1]][s[2]] \in Own(s[1])
        BY <1>3, <4>1 DEF Range
      <4> QED BY <4>1, <4>2 DEF At, Live
    <3>2. ASSUME NEW e \in At(z) PROVE \E s \in P : h[s] = e
      <4>1. e \in Live /\ e.zone = z
        BY DEF At
      <4>2. PICK f \in Files : \E i \in DOMAIN exts[f] : e = exts[f][i]
        BY <1>8, <4>1
      <4>3. PICK i \in DOMAIN exts[f] : e = exts[f][i]
        BY <4>2
      <4>4. i \in 1..MaxExtents
        BY InitLayout
      <4>5. PICK s : s = <<f, i>>
        OBVIOUS
      <4>6. s \in Slots /\ s[1] = f /\ s[2] = i
        BY <4>4, <4>5 DEF Slots
      <4>7. s \in P
        BY <2>1, <4>1, <4>3, <4>6 DEF Placed
      <4> QED BY <4>3, <4>6, <4>7
    <3> QED BY <3>1, <3>2 DEF Surjection
  <2>5. Cardinality(At(z)) <= Cardinality(P)
    <3> HIDE DEF h
    <3> QED BY <2>3, <2>4, FS_Surjection
  <2> QED BY <1>2, <2>2, <2>5
<1> QED BY <1>5, <1>6, <1>7, <1>9, <1>10 DEF KeepInv

(* KeepInv is inductive as long as the copies that a worker relies on were  *)
(* made.                                                                    *)
LEMMA NextKeep ==
  ASSUME "copy" \notin Faults
  PROVE  KeepInv /\ MoveInv /\ [Next]_vars => KeepInv'
<1> SUFFICES ASSUME KeepInv, MoveInv, [Next]_vars PROVE KeepInv'
  OBVIOUS
<1>1. ASSUME NEW f \in Files, DeleteFile(f) \/ RenameFile(f) \/ StartRead(f) \/ EndRead(f)
      PROVE  KeepInv'
  BY <1>1, DeleteKeep, RenameKeep, StartReadKeep
<1>2. CASE ScanReset(Client)
  BY <1>2, ScanKeep DEF Actors
<1>3. CASE GCWorker \/ WLWorker
  BY <1>3, SetOutKeep DEF GCWorker, WLWorker
<1>4. ASSUME NEW w \in Workers, Worker(w) PROVE KeepInv'
  <2>1. CASE Elsewhere(w)
    BY <2>1, ElsewhereKeep
  <2>2. CASE ScanReset(w)
    BY <2>2, ScanKeep, NameFacts
  <2>3. CASE OpenForMigration(w) \/ MigrateData(w) \/ CheckFile(w)
    BY <2>3, OpenKeep, CopyKeep, CheckKeep
  <2>4. CASE \/ ReplaceExtentList(w) \/ SyncFileMetadata(w) \/ FreeOldExtents(w)
             \/ ReleaseWRLock(w)
    BY <2>4, ReplaceKeep, SyncKeep, FreeKeep, ReleaseKeep
  <2> QED BY <1>4, <2>1, <2>2, <2>3, <2>4 DEF Worker, Elsewhere
<1>5. CASE UNCHANGED vars
  <2>1. UNCHANGED <<wp, used, gen, alive, exts, durable, wr, cur, list, target, pc>>
    BY <1>5 DEF vars, zoneVars, fileVars, workVars
  <2>2. FileTypes /\ FileTypes'
    BY <1>5, NextMove DEF MoveInv
  <2>3. \A u \in Workers : SamePlace(u)
    BY <2>1 DEF SamePlace
  <2> QED BY <2>1, <2>2, <2>3, QuietKeep
<1> QED BY <1>1, <1>2, <1>3, <1>4, <1>5 DEF Next

(* As long as no copy fails, live data is kept, wherever a migration has    *)
(* come to.                                                                 *)
LEMMA KeepInvariant ==
  ASSUME "copy" \notin Faults
  PROVE  Spec => []KeepInv
<1>1. KeepInv /\ MoveInv /\ [Next]_vars => KeepInv'
  BY NextKeep
<1> QED BY <1>1, InitKeep, MoveInvariant, PTL DEF Spec

(* No interleaving of the workers, the deletions, renames and reads, and no *)
(* failure of SyncFileMetadata, loses a block that a file has in memory or  *)
(* that a mount would find in the log: ResetUnusedIOZones resets no zone    *)
(* under it (MigrateFileExtents, SyncFileExtents, ResetUnusedIOZones).  It  *)
(* takes that the copies are made; MigrateData's result is not looked at.   *)
THEOREM DataStaysIntact ==
  ASSUME "copy" \notin Faults
  PROVE  Spec => []DataIntact
<1>1. KeepInv => DataIntact
  <2> SUFFICES ASSUME KeepInv, NEW f \in Files, NEW e \in Range(exts[f]) \cup Range(durable[f])
               PROVE  Intact(e)
    BY DEF DataIntact
  <2>1. e \in Live
    BY DEF Live, Own
  <2> QED BY <2>1 DEF KeepInv, Kept
<1> QED BY <1>1, KeepInvariant, PTL

-----------------------------------------------------------------------------
(* Types                                                                    *)

(* Only the wear leveler looks for an empty zone, with an open token.       *)
TokenTypes ==
  /\ open \in Nat /\ migrating \in BOOLEAN /\ mtx \in Workers \cup {Nobody}
  /\ \A w \in Workers : pc[w] \in {"token", "search", "search2"} => w = "wl"
  /\ \A w \in Workers : pc[w] = "search" => open > 0

(* A step that goes on without an open token.                               *)
LEMMA KeepTokens ==
  ASSUME TokenTypes, open' = open, migrating' \in BOOLEAN, mtx' \in Workers \cup {Nobody},
         \A u \in Workers : pc'[u] \in {"token", "search", "search2"} => pc'[u] = pc[u] \/ u = "wl",
         \A u \in Workers : pc'[u] = "search" => pc[u] = "search"
  PROVE  TokenTypes'
BY DEF TokenTypes

(* A step of a worker keeps the types of the token counters.                *)
LEMMA WorkerTokens ==
  ASSUME TokenTypes, MoveInv, NEW w \in Workers, Worker(w)
  PROVE  TokenTypes'
<1>1. pc \in [Workers -> Pcs] /\ FileTypes
  BY DEF MoveInv, ExclusiveInv, Held
<1>2. CASE WaitForOpenIOZoneToken(w)
  <2>1. pc[w] = "token" /\ open' = open + 1 /\ pc' = [pc EXCEPT ![w] = "search"]
    BY <1>2 DEF WaitForOpenIOZoneToken, Goto
  <2>2. UNCHANGED <<migrating, mtx>>
    BY <1>2 DEF WaitForOpenIOZoneToken
  <2>3. w = "wl" /\ open \in Nat /\ open' \in Nat /\ open' > 0
    BY <2>1 DEF TokenTypes
  <2>4. \A u \in Workers : pc'[u] = IF u = w THEN "search" ELSE pc[u]
    BY <1>1, <2>1
  <2> QED BY <2>2, <2>3, <2>4 DEF TokenTypes
<1>3. CASE SearchEmptyZone(w)
  <2>1. pc[w] = "search" /\ migrating' = migrating /\ mtx' \in {mtx, Nobody} /\ w = "wl"
    BY <1>3 DEF SearchEmptyZone, TokenTypes
  <2>2. PICK there \in {"copy", "search2"} : pc' = [pc EXCEPT ![w] = there]
    BY <1>3 DEF SearchEmptyZone, HoldZone, Goto
  <2>3. open' = open \/ open' = open - 1
    BY <1>3 DEF SearchEmptyZone
  <2>4. open' \in Nat
    BY <2>1, <2>3 DEF TokenTypes
  <2>5. \A u \in Workers : pc'[u] = IF u = w THEN there ELSE pc[u]
    BY <1>1, <2>2
  <2>6. \A u \in Workers : pc'[u] # "search"
    BY <2>1, <2>5 DEF TokenTypes
  <2>7. \A u \in Workers : pc'[u] \in {"token", "search", "search2"} => u = "wl"
    BY <2>1, <2>5 DEF TokenTypes
  <2> QED BY <2>1, <2>4, <2>6, <2>7 DEF TokenTypes
<1>4. CASE ReleaseMigrateZone(w)
  <2>1. PICK there \in {"take", "sync"} :
          pc' = [u \in Workers |-> IF u = w THEN there
                                   ELSE IF pc[u] = "asleep" THEN "take" ELSE pc[u]]
    BY <1>4 DEF ReleaseMigrateZone, NotifyAndGoto, TakeOrSync
  <2>2. open' = open /\ migrating' \in BOOLEAN /\ mtx' \in Workers \cup {Nobody}
    BY <1>4 DEF ReleaseMigrateZone, tokenVars, TokenTypes
  <2> QED BY <2>1, <2>2, KeepTokens
<1>5. CASE GetMigrateTargetZone(w)
  <2>1. w = "wl" /\ pc' = [pc EXCEPT ![w] = "token"]
    BY <1>5 DEF GetMigrateTargetZone, Goto
  <2>2. open' = open /\ migrating' \in BOOLEAN /\ mtx' \in Workers \cup {Nobody}
    BY <1>5 DEF GetMigrateTargetZone, tokenVars
  <2>3. \A u \in Workers : pc'[u] = IF u = w THEN "token" ELSE pc[u]
    BY <1>1, <2>1
  <2> QED BY <2>1, <2>2, <2>3, KeepTokens
<1>6. CASE \/ OpenForMigration(w) \/ SleepWhileMigrating(w) \/ TakeMigrateZone(w)
           \/ SearchOpenZone(w) \/ MigrateData(w) \/ CheckFile(w)
           \/ LockExtents(w) \/ ReplaceExtentList(w) \/ SyncFileMetadata(w)
           \/ FreeOldExtents(w) \/ ReleaseWRLock(w) \/ ScanReset(w)
  <2>1. open' = open
    BY <1>6 DEF OpenForMigration, SleepWhileMigrating, TakeMigrateZone, SearchOpenZone,
         MigrateData, CheckFile, LockExtents, ReplaceExtentList, SyncFileMetadata,
         FreeOldExtents, ReleaseWRLock, ScanReset, tokenVars
  <2>2. migrating' \in BOOLEAN /\ mtx' \in Workers \cup {Nobody}
    BY <1>6 DEF OpenForMigration, SleepWhileMigrating, TakeMigrateZone, SearchOpenZone,
         MigrateData, CheckFile, LockExtents, ReplaceExtentList, SyncFileMetadata,
         FreeOldExtents, ReleaseWRLock, ScanReset, TokenTypes
  <2>3. pc' = pc \/ \E there \in Pcs \ {"token", "search", "search2"} : pc' = [pc EXCEPT ![w] = there]
    <3>1. CASE OpenForMigration(w)
      BY <1>1, <3>1, OpenFacts DEF Pcs
    <3>2. CASE SleepWhileMigrating(w) \/ TakeMigrateZone(w) \/ SearchOpenZone(w) \/ MigrateData(w)
      BY <3>2 DEF SleepWhileMigrating, TakeMigrateZone, SearchOpenZone, MigrateData, HoldZone,
                  Goto, TakeOrSync, Pcs
    <3>3. CASE \/ CheckFile(w) \/ LockExtents(w) \/ ReplaceExtentList(w) \/ SyncFileMetadata(w)
               \/ FreeOldExtents(w) \/ ReleaseWRLock(w) \/ ScanReset(w)
      BY <3>3 DEF CheckFile, LockExtents, ReplaceExtentList, SyncFileMetadata, FreeOldExtents,
                  ReleaseWRLock, ScanReset, Goto, Pcs
    <3> QED BY <1>6, <3>1, <3>2, <3>3
  <2>4. \A u \in Workers : pc'[u] \in {"token", "search", "search2"} => pc'[u] = pc[u]
    BY <1>1, <2>3
  <2> QED BY <2>1, <2>2, <2>4, KeepTokens
<1> QED BY <1>2, <1>3, <1>4, <1>5, <1>6 DEF Worker

(* The token counters keep their types.                                     *)
LEMMA TokenInvariant == Spec => []TokenTypes
<1>1. Init => TokenTypes
  <2> SUFFICES ASSUME Init PROVE TokenTypes
    OBVIOUS
  <2>1. open = 0 /\ migrating = FALSE /\ mtx = Nobody /\ \A w \in Workers : pc[w] = "idle"
    BY DEF Init
  <2> QED BY <2>1 DEF TokenTypes
<1>2. TokenTypes /\ MoveInv /\ [Next]_vars => TokenTypes'
  <2> SUFFICES ASSUME TokenTypes, MoveInv, [Next]_vars PROVE TokenTypes'
    OBVIOUS
  <2>1. ASSUME NEW f \in Files, DeleteFile(f) \/ RenameFile(f) \/ StartRead(f) \/ EndRead(f)
        PROVE  TokenTypes'
    <3>1. UNCHANGED <<open, migrating, mtx, pc>>
      BY <2>1 DEF DeleteFile, RenameFile, StartRead, EndRead, tokenVars
    <3> QED BY <3>1 DEF TokenTypes
  <2>2. CASE ScanReset(Client)
    <3>1. UNCHANGED <<open, migrating, mtx, pc>>
      BY <2>2, NameFacts DEF ScanReset
    <3> QED BY <3>1 DEF TokenTypes
  <2>3. CASE GCWorker \/ WLWorker
    <3>1. PICK w \in Workers : pc' = [pc EXCEPT ![w] = "next"] /\ UNCHANGED <<open, migrating, mtx>>
      BY <2>3 DEF GCWorker, WLWorker, SetOut, Goto, tokenVars
    <3>2. \A u \in Workers : pc'[u] = IF u = w THEN "next" ELSE pc[u]
      BY <3>1 DEF MoveInv, ExclusiveInv, Held
    <3> QED BY <3>1, <3>2 DEF TokenTypes
  <2>4. CASE UNCHANGED vars
    BY <2>4 DEF vars, tokenVars, TokenTypes
  <2> QED BY <2>1, <2>2, <2>3, <2>4, WorkerTokens DEF Next
<1> QED BY <1>1, <1>2, MoveInvariant, PTL DEF Spec

(* The types, and with them three facts that nothing in the code checks: a  *)
(* copy fits in its zone, used_capacity_ does not wrap below zero, and no   *)
(* open token is given back that was not taken.                             *)
THEOREM MigrationTypes ==
  ASSUME "copy" \notin Faults
  PROVE  Spec => []TypeOK
<1>1. MoveInv /\ KeepInv /\ ActiveInv /\ TokenTypes => TypeOK
  <2> SUFFICES ASSUME MoveInv, KeepInv, ActiveInv, TokenTypes PROVE TypeOK
    OBVIOUS
  <2>1. FileTypes /\ Held
    BY DEF MoveInv, ExclusiveInv
  <2>2. used \in [Zone -> Nat]
    <3>1. ASSUME NEW z \in Zone PROVE used[z] \in Nat
      <4>1. Cardinality(At(z)) \in Nat /\ Cardinality(At(z)) <= used[z] /\ used[z] \in Int
        BY <2>1, OwnTypes DEF KeepInv, Covered, FileTypes
      <4> QED BY <4>1
    <3> QED BY <2>1, <3>1 DEF FileTypes
  <2> QED BY <2>1, <2>2 DEF TypeOK, FileTypes, Held, ActiveInv, TokenTypes
<1>2. Spec => []ActiveInv
  BY InitActive, NextActive, MoveInvariant, PTL DEF Spec
<1> QED BY <1>1, <1>2, MoveInvariant, KeepInvariant, TokenInvariant, PTL

-----------------------------------------------------------------------------
(* Used capacity                                                            *)

(* What a file occupies in memory, the list of the worker that moves it     *)
(* included.                                                                *)
Mine(f) == Range(exts[f]) \cup (IF wr[f] \in Workers THEN Shown(wr[f]) ELSE {})
Occupied(z) == {e \in UNION {Mine(f) : f \in Files} : e.zone = z}

Bounded == DOMAIN idx = Workers /\ \A f \in Files : DOMAIN exts[f] \subseteq 1..MaxExtents

(* Where a worker has an extent of the list in hand.                        *)
InHand == {"take", "asleep", "giveup", "token", "search", "search2", "copy", "check"}

(* The extents from the one in hand on are still the originals.             *)
AheadAt(w) ==
  /\ pc[w] \in InHand \cup {"release"} => idx[w] \in DOMAIN list[w]
  /\ \A j \in DOMAIN list[w] :
       (pc[w] \in InHand /\ j >= idx[w]) \/ (pc[w] = "release" /\ j > idx[w])
         => list[w][j] = exts[cur[w].file][j]

Ahead == \A w \in Workers : AheadAt(w)

Exact == \A z \in Zone : used[z] = Cardinality(Occupied(z))

ExactInv == Bounded /\ Ahead /\ Exact

(* The next extent to move lies further on.                                 *)
LEMMA NextExtentFacts ==
  ASSUME NEW x, NEW l \in Seq(Extents), NEW i \in Nat, i > 0
  PROVE  \/ NextExtent(x, l, i) = 0
         \/ NextExtent(x, l, i) \in DOMAIN l /\ NextExtent(x, l, i) >= i
<1> DEFINE wanted == {j \in i..Len(l) : Start(l[j]) \in x.starts}
<1>1. Len(l) \in Nat /\ DOMAIN l = 1..Len(l)
  OBVIOUS
<1>2. wanted \in SUBSET Nat /\ \A j \in wanted : j \in DOMAIN l /\ j >= i
  BY <1>1
<1>3. NextExtent(x, l, i) = IF wanted = {} THEN 0 ELSE Min(wanted)
  BY DEF NextExtent
<1> HIDE DEF wanted
<1>4. wanted # {} => Min(wanted) \in wanted
  <2> SUFFICES ASSUME wanted # {} PROVE Min(wanted) \in wanted
    OBVIOUS
  <2>1. \E y \in wanted : \A k \in wanted : y <= k
    BY <1>2, LeastNumber
  <2> QED BY <2>1 DEF Min
<1> QED BY <1>2, <1>3, <1>4

(* What a file occupies in memory is its own.                               *)
LEMMA MineFacts ==
  ASSUME FileTypes
  PROVE  /\ \A f \in Files : Mine(f) \subseteq Own(f)
         /\ \A z : /\ Occupied(z) \subseteq At(z)
                   /\ IsFiniteSet(Occupied(z)) /\ Cardinality(Occupied(z)) \in Nat
<1>1. \A f \in Files : Mine(f) \subseteq Own(f)
  BY DEF Mine, Own
<1>2. ASSUME NEW z PROVE /\ Occupied(z) \subseteq At(z)
                         /\ IsFiniteSet(Occupied(z)) /\ Cardinality(Occupied(z)) \in Nat
  <2>1. Occupied(z) \subseteq At(z)
    BY <1>1 DEF Occupied, At, Live
  <2>2. IsFiniteSet(At(z))
    BY OwnTypes
  <2> QED BY <2>1, <2>2, FS_Subset, FS_CardinalityType
<1> QED BY <1>1, <1>2

(* Exact holds on when neither the capacities nor the extents that count    *)
(* change.                                                                  *)
LEMMA SameExact ==
  ASSUME Exact, used' = used, \A f \in Files : Mine(f)' = Mine(f)
  PROVE  Exact'
<1>1. \A z : Occupied(z)' = Occupied(z)
  BY DEF Occupied
<1> QED BY <1>1 DEF Exact

(* The extents that count for a file stay when extents, locks and lists do. *)
LEMMA SameMine ==
  ASSUME UNCHANGED <<exts, wr, list>>,
         \A u \in Workers : pc'[u] \in Moving \ {"unlock"} <=> pc[u] \in Moving \ {"unlock"}
  PROVE  \A f \in Files : Mine(f)' = Mine(f)
<1>1. \A u \in Workers : Shown(u)' = Shown(u)
  BY DEF Shown
<1> QED BY <1>1 DEF Mine

(* A worker that has its extent in hand still, or none any more.            *)
LEMMA SameAhead ==
  ASSUME NEW u \in Workers, AheadAt(u),
         \/ pc'[u] \notin InHand \cup {"release"}
         \/ /\ pc'[u] = pc[u] \/ (pc[u] \in InHand /\ pc'[u] \in InHand)
            /\ idx'[u] = idx[u] /\ list'[u] = list[u] /\ cur'[u] = cur[u]
            /\ pc[u] \in InHand \cup {"release"} => exts'[cur[u].file] = exts[cur[u].file]
  PROVE  AheadAt(u)'
<1>1. CASE pc'[u] \notin InHand \cup {"release"}
  BY <1>1 DEF AheadAt
<1>2. CASE /\ pc'[u] = pc[u] \/ (pc[u] \in InHand /\ pc'[u] \in InHand)
           /\ idx'[u] = idx[u] /\ list'[u] = list[u] /\ cur'[u] = cur[u]
           /\ pc[u] \in InHand \cup {"release"} => exts'[cur[u].file] = exts[cur[u].file]
  <2>1. "release" \notin InHand
    BY DEF InHand
  <2> QED BY <1>2, <2>1 DEF AheadAt
<1> QED BY <1>1, <1>2

(* The steps that move no extent from a list to another.                    *)
LEMMA CalmExact ==
  ASSUME ExactInv, UNCHANGED <<exts, wr, list, used>>, DOMAIN idx' = Workers,
         \A u \in Workers : pc'[u] \in Moving \ {"unlock"} <=> pc[u] \in Moving \ {"unlock"},
         \A u \in Workers : AheadAt(u)'
  PROVE  ExactInv'
<1>1. Exact'
  BY SameMine, SameExact DEF ExactInv
<1> QED BY <1>1 DEF ExactInv, Bounded, Ahead

(* The next extent that a worker takes in hand.                             *)
LEMMA OnwardAhead ==
  ASSUME FileTypes, NEW w \in Workers, AheadAt(w), pc[w] \in InHand \cup {"release"}, NEW x,
         idx'[w] = NextExtent(x, list[w], idx[w] + 1), pc'[w] = TakeOrSync(idx'[w]),
         list'[w] = list[w], cur'[w] = cur[w], exts'[cur[w].file] = exts[cur[w].file]
  PROVE  AheadAt(w)'
<1>1. list[w] \in Seq(Extents)
  BY DEF FileTypes
<1>2. idx[w] \in DOMAIN list[w]
  BY DEF AheadAt
<1>3. PICK n \in Nat : n = idx[w] + 1 /\ n > 0
  BY <1>1, <1>2
<1>4. PICK i : i = NextExtent(x, list[w], n)
  OBVIOUS
<1>5. i = 0 \/ (i \in DOMAIN list[w] /\ i >= n)
  BY <1>1, <1>3, <1>4, NextExtentFacts
<1>6. idx'[w] = i /\ pc'[w] = TakeOrSync(i)
  BY <1>3, <1>4
<1>7. CASE i = 0
  BY <1>6, <1>7 DEF AheadAt, TakeOrSync, InHand
<1>8. CASE i # 0
  <2>1. pc'[w] = "take" /\ i \in DOMAIN list[w] /\ i >= n
    BY <1>5, <1>6, <1>8 DEF TakeOrSync
  <2>2. \A j \in DOMAIN list[w] : j >= i => j > idx[w] /\ j >= idx[w]
    BY <1>1, <1>2, <1>3, <2>1
  <2>3. \A j \in DOMAIN list[w] : j >= i => list[w][j] = exts[cur[w].file][j]
    BY <2>2 DEF AheadAt
  <2> QED BY <1>6, <2>1, <2>3 DEF AheadAt
<1> QED BY <1>7, <1>8

(* The steps of a worker that leave the lists as they are.                  *)
LEMMA CalmWorkerExact ==
  ASSUME Faults = {}, ExactInv, MoveInv, NEW w \in Workers,
         Elsewhere(w) \/ MigrateData(w) \/ SyncFileMetadata(w) \/ ScanReset(w)
  PROVE  ExactInv'
<1>1. /\ pc \in [Workers -> Pcs] /\ FileTypes /\ \A u \in Workers : AheadAt(u)
      /\ DOMAIN idx = Workers
  BY DEF MoveInv, ExclusiveInv, Held, ExactInv, Ahead, Bounded
<1>2. UNCHANGED <<exts, wr, list, used, cur>>
  <2>1. CASE Elsewhere(w)
    BY <1>1, <2>1, ElsewhereTypes DEF fileTypeVars
  <2>2. CASE MigrateData(w) \/ SyncFileMetadata(w) \/ ScanReset(w)
    BY <2>2 DEF MigrateData, SyncFileMetadata, ScanReset, zoneVars, fileVars, workVars
  <2> QED BY <2>1, <2>2
<1>3. CASE ReleaseMigrateZone(w)
  <2>1. PICK i : idx' = [idx EXCEPT ![w] = i] /\ i = IF pc[w] = "abort" THEN 0
                                                    ELSE NextExtent(cur[w], list[w], idx[w] + 1)
    BY <1>3 DEF ReleaseMigrateZone
  <2>2. /\ pc[w] \in {"release", "abort", "giveup"}
        /\ pc' = [u \in Workers |-> IF u = w THEN TakeOrSync(idx'[w])
                                    ELSE IF pc[u] = "asleep" THEN "take" ELSE pc[u]]
    BY <1>3 DEF ReleaseMigrateZone, NotifyAndGoto
  <2>3. \A u \in Workers : pc'[u] \in Moving \ {"unlock"} <=> pc[u] \in Moving \ {"unlock"}
    BY <2>2 DEF Moving, Pcs, TakeOrSync
  <2>4. idx'[w] = i /\ DOMAIN idx' = Workers /\ \A u \in Workers : u # w => idx'[u] = idx[u]
    BY <1>1, <2>1
  <2>5. ASSUME NEW u \in Workers, u # w PROVE AheadAt(u)'
    <3>1. pc'[u] = pc[u] \/ (pc[u] \in InHand /\ pc'[u] \in InHand)
      BY <2>2, <2>5 DEF InHand
    <3> QED BY <1>1, <1>2, <2>4, <2>5, <3>1, SameAhead
  <2>6. AheadAt(w)'
    <3>1. pc'[w] = TakeOrSync(idx'[w])
      BY <2>2
    <3>2. CASE pc[w] # "abort"
      <4>1. idx'[w] = NextExtent(cur[w], list[w], idx[w] + 1)
        BY <2>1, <2>4, <3>2
      <4>2. pc[w] \in InHand \cup {"release"}
        BY <2>2, <3>2 DEF InHand
      <4> QED BY <1>1, <1>2, <3>1, <4>1, <4>2, OnwardAhead
    <3>3. CASE pc[w] = "abort"
      <4>1. idx'[w] = 0
        BY <2>1, <2>4, <3>3
      <4> QED BY <1>1, <3>1, <4>1, SameAhead DEF TakeOrSync, InHand
    <3> QED BY <3>2, <3>3
  <2> QED BY <1>2, <2>3, <2>4, <2>5, <2>6, CalmExact
<1>4. CASE /\ pc[w] = "search2"
           /\ idx' = [idx EXCEPT ![w] = NextExtent(cur[w], list[w], @ + 1)]
           /\ pc' = [pc EXCEPT ![w] = TakeOrSync(idx'[w])]
  <2>1. idx'[w] = NextExtent(cur[w], list[w], idx[w] + 1) /\ pc'[w] = TakeOrSync(idx'[w])
    BY <1>1, <1>4
  <2>2. DOMAIN idx' = Workers /\ \A u \in Workers : u # w => idx'[u] = idx[u] /\ pc'[u] = pc[u]
    BY <1>1, <1>4
  <2>3. AheadAt(w)'
    <3>1. pc[w] \in InHand \cup {"release"}
      BY <1>4 DEF InHand
    <3> QED BY <1>1, <1>2, <2>1, <3>1, OnwardAhead
  <2>4. \A u \in Workers : AheadAt(u)'
    BY <1>1, <1>2, <2>2, <2>3, SameAhead
  <2>5. \A u \in Workers : pc'[u] \in Moving \ {"unlock"} <=> pc[u] \in Moving \ {"unlock"}
    BY <1>4, <2>1, <2>2 DEF TakeOrSync, Moving, Pcs
  <2> QED BY <1>2, <2>2, <2>4, <2>5, CalmExact
<1>5. CASE /\ idx' = idx
           /\ \/ pc' = pc
              \/ \E there \in Pcs :
                   /\ pc' = [pc EXCEPT ![w] = there]
                   /\ there \in Moving \ {"unlock"} <=> pc[w] \in Moving \ {"unlock"}
                   /\ there \notin InHand \cup {"release"} \/ {there, pc[w]} \subseteq InHand
  <2>1. \A u \in Workers : pc'[u] \in Moving \ {"unlock"} <=> pc[u] \in Moving \ {"unlock"}
    BY <1>1, <1>5
  <2>2. \A u \in Workers : \/ pc'[u] \notin InHand \cup {"release"}
                           \/ pc'[u] = pc[u] \/ (pc[u] \in InHand /\ pc'[u] \in InHand)
    BY <1>1, <1>5
  <2>3. \A u \in Workers : AheadAt(u)'
    BY <1>1, <1>2, <1>5, <2>2, SameAhead
  <2> QED BY <1>1, <1>2, <1>5, <2>1, <2>3, CalmExact
<1>6. CASE \/ SleepWhileMigrating(w) \/ TakeMigrateZone(w) \/ GetMigrateTargetZone(w)
           \/ WaitForOpenIOZoneToken(w) \/ SearchEmptyZone(w) \/ MigrateData(w)
  <2>1. idx' = idx
    BY <1>6 DEF SleepWhileMigrating, TakeMigrateZone, GetMigrateTargetZone,
         WaitForOpenIOZoneToken, SearchEmptyZone, MigrateData, workVars
  <2>2. pc[w] \in InHand /\ \E there \in InHand : pc' = [pc EXCEPT ![w] = there]
    BY <1>6 DEF SleepWhileMigrating, TakeMigrateZone, GetMigrateTargetZone, HoldZone,
         WaitForOpenIOZoneToken, SearchEmptyZone, MigrateData, Goto, InHand
  <2>3. InHand \subseteq Moving \ {"unlock"} /\ InHand \subseteq Pcs
    BY DEF InHand, Moving, Pcs
  <2>4. PICK there \in Pcs : /\ pc' = [pc EXCEPT ![w] = there] /\ there \in InHand
    BY <2>2, <2>3
  <2>5. /\ there \in Moving \ {"unlock"} <=> pc[w] \in Moving \ {"unlock"}
        /\ {there, pc[w]} \subseteq InHand
    BY <2>2, <2>3, <2>4
  <2> QED BY <1>5, <2>1, <2>4, <2>5
<1>7. CASE LockExtents(w) \/ SyncFileMetadata(w)
  <2>1. idx' = idx /\ \E there \in {"replace", "free"} : pc' = [pc EXCEPT ![w] = there]
    BY <1>7 DEF LockExtents, SyncFileMetadata, Goto, workVars
  <2>2. pc[w] \in {"sync", "persist"}
    BY <1>7 DEF LockExtents, SyncFileMetadata
  <2> QED BY <1>5, <2>1, <2>2 DEF InHand, Moving, Pcs
<1>8. CASE ScanReset(w)
  <2>1. idx' = idx
    BY <1>8 DEF ScanReset, workVars
  <2>2. pc' = pc \/ (pc[w] = "reset" /\ \E there \in {"idle", "next"} : pc' = [pc EXCEPT ![w] = there])
    <3>1. scan[w] # 0 => pc[w] = "reset"
      BY DEF MoveInv, ExclusiveInv, Held
    <3>2. scan[w] # 0
      BY <1>8, NameFacts DEF ScanReset, NoZone
    <3> QED BY <1>8, <3>1, <3>2 DEF ScanReset, Goto
  <2> QED BY <1>5, <2>1, <2>2 DEF InHand, Moving, Pcs
<1>9. CASE SearchOpenZone(w)
  <2>1. pc[w] = "search2"
    BY <1>9 DEF SearchOpenZone
  <2>2. \/ idx' = idx /\ pc' = [pc EXCEPT ![w] = "copy"]
        \/ /\ idx' = [idx EXCEPT ![w] = NextExtent(cur[w], list[w], @ + 1)]
           /\ pc' = [pc EXCEPT ![w] = TakeOrSync(idx'[w])]
    BY <1>9 DEF SearchOpenZone, HoldZone, Goto
  <2> QED BY <1>4, <1>5, <2>1, <2>2 DEF InHand, Moving, Pcs
<1> QED BY <1>3, <1>6, <1>7, <1>8, <1>9 DEF Elsewhere

(* used_capacity_ goes down by the blocks that are given up, no more and no *)
(* fewer.                                                                   *)
LEMMA LessExact ==
  ASSUME FileTypes, Exact, NEW z \in Zone, NEW G \in SUBSET Occupied(z),
         Occupied(z)' = Occupied(z) \ G, used'[z] = used[z] - Cardinality(G)
  PROVE  used'[z] = Cardinality(Occupied(z)')
<1>1. IsFiniteSet(Occupied(z))
  BY MineFacts
<1>2. PICK A, B : A = Occupied(z) /\ B = Occupied(z)'
  OBVIOUS
<1>3. IsFiniteSet(A) /\ G \in SUBSET A /\ B \in SUBSET (A \ G) /\ B = A \ G
  BY <1>1, <1>2
<1>4. Cardinality(B) = Cardinality(A) - Cardinality(G)
  BY <1>3, LessCount
<1>5. used[z] = Cardinality(A)
  BY <1>2 DEF Exact
<1> QED BY <1>2, <1>4, <1>5

(* ClearExtents.                                                            *)
LEMMA DropExact ==
  ASSUME FileTypes, KeepInv, Exact, NEW f \in Files, NEW last \in BOOLEAN,
         DropReference(f, last),
         \A g \in Files : g # f \/ ~last => Mine(g)' = Mine(g),
         last => Mine(f) = Range(exts[f]) /\ Mine(f)' = {}
  PROVE  Exact'
<1>1. CASE ~ last
  <2>1. used' = used
    BY <1>1 DEF DropReference
  <2> QED BY <1>1, <2>1, SameExact
<1>2. CASE last
  <2> SUFFICES ASSUME NEW z \in Zone PROVE used'[z] = Cardinality(Occupied(z)')
    BY DEF Exact
  <2>1. PICK s \in Seq(Extents) : s = exts[f]
    BY DEF FileTypes
  <2> DEFINE I == {i \in DOMAIN s : s[i].zone = z}
             G == {s[i] : i \in I}
  <2>2. IsInjective(s)
    BY <2>1 DEF KeepInv, Distinct
  <2>3. Cardinality(G) = Cardinality(I)
    BY <2>2, ImageCount
  <2>4. used'[z] = used[z] - Cardinality(I)
    BY <1>2, <2>1 DEF DropReference, Freed, In
  <2>5. G = {e \in Mine(f) : e.zone = z}
    BY <1>2, <2>1 DEF Range
  <2> HIDE DEF G, I
  <2>6. G \in SUBSET Occupied(z)
    BY <2>5 DEF Occupied
  <2>7. Occupied(z)' = Occupied(z) \ G
    <3>1. \A g \in Files : g # f => Mine(g) \cap Mine(f) = {}
      BY MineFacts DEF KeepInv, Apart
    <3>2. ASSUME NEW e \in Occupied(z)' PROVE e \in Occupied(z) \ G
      <4>1. PICK g \in Files : e \in Mine(g)' /\ e.zone = z
        BY DEF Occupied
      <4>2. g # f /\ e \in Mine(g)
        BY <1>2, <4>1
      <4>3. e \notin G
        BY <2>5, <3>1, <4>2
      <4> QED BY <4>1, <4>2, <4>3 DEF Occupied
    <3>3. ASSUME NEW e \in Occupied(z) \ G PROVE e \in Occupied(z)'
      <4>1. PICK g \in Files : e \in Mine(g) /\ e.zone = z
        BY DEF Occupied
      <4>2. g # f
        BY <2>5, <4>1
      <4>3. e \in Mine(g)'
        BY <4>1, <4>2
      <4> QED BY <4>1, <4>3 DEF Occupied
    <3> QED BY <3>2, <3>3
  <2> QED BY <2>3, <2>4, <2>6, <2>7, LessExact
<1> QED BY <1>1, <1>2

(* The lists stay short when a file goes.                                   *)
LEMMA DropBounded ==
  ASSUME FileTypes, Bounded, NEW f \in Files, NEW last \in BOOLEAN, DropReference(f, last),
         DOMAIN idx' = Workers
  PROVE  /\ Bounded'
         /\ \A g \in Files : exts'[g] = IF last /\ g = f THEN <<>> ELSE exts[g]
<1>1. \A g \in Files : exts'[g] = IF last /\ g = f THEN <<>> ELSE exts[g]
  BY DEF DropReference, FileTypes
<1>2. DOMAIN <<>> = {}
  OBVIOUS
<1> QED BY <1>1, <1>2 DEF Bounded

(* What clients do.                                                         *)
LEMMA ClientExact ==
  ASSUME ExactInv, KeepInv, MoveInv, NEW f \in Files,
         DeleteFile(f) \/ RenameFile(f) \/ StartRead(f) \/ EndRead(f)
  PROVE  ExactInv'
<1>1. FileTypes /\ DOMAIN idx = Workers /\ \A u \in Workers : AheadAt(u)
  BY DEF MoveInv, ExactInv, Bounded, Ahead
<1>2. CASE RenameFile(f) \/ StartRead(f)
  <2>1. UNCHANGED <<exts, wr, list, used, cur, idx, pc>>
    BY <1>2 DEF RenameFile, StartRead, zoneVars, workVars
  <2>2. \A u \in Workers : AheadAt(u)'
    BY <1>1, <2>1, SameAhead
  <2> QED BY <1>1, <2>1, <2>2, CalmExact
<1>3. CASE DeleteFile(f) \/ EndRead(f)
  <2>1. UNCHANGED <<wr, list, cur, idx, pc>>
    BY <1>3 DEF DeleteFile, EndRead, workVars
  <2>2. PICK last \in BOOLEAN : DropReference(f, last) /\ (last => wr[f] = Nobody)
    BY <1>3 DEF DeleteFile, EndRead
  <2>3. Bounded' /\ \A g \in Files : exts'[g] = IF last /\ g = f THEN <<>> ELSE exts[g]
    BY <1>1, <2>1, <2>2, DropBounded DEF ExactInv
  <2>4. \A u \in Workers : Shown(u)' = Shown(u)
    BY <2>1 DEF Shown
  <2>5. \A g \in Files : g # f \/ ~last => Mine(g)' = Mine(g)
    BY <2>1, <2>3, <2>4 DEF Mine
  <2>6. last => Mine(f) = Range(exts[f]) /\ Mine(f)' = {}
    BY <2>1, <2>2, <2>3, EmptyRange, Constants DEF Mine
  <2>7. Exact'
    BY <1>1, <2>2, <2>5, <2>6, DropExact DEF ExactInv
  <2>8. ASSUME NEW u \in Workers PROVE AheadAt(u)'
    <3>1. pc[u] \in InHand \cup {"release"} => pc[u] \in Moving
      BY DEF InHand, Moving, Pcs
    <3>2. pc[u] \in Moving => cur[u].file \in Files /\ (last => cur[u].file # f)
      BY <2>2, Constants DEF MoveInv, Locked, Entries
    <3>3. pc[u] \in InHand \cup {"release"} => exts'[cur[u].file] = exts[cur[u].file]
      BY <2>3, <3>1, <3>2
    <3> QED BY <1>1, <2>1, <3>3, SameAhead
  <2> QED BY <2>3, <2>7, <2>8 DEF ExactInv, Ahead
<1> QED BY <1>2, <1>3

(* Setting out keeps the used capacity exact.                               *)
LEMMA SetOutExact ==
  ASSUME ExactInv, MoveInv, NEW w \in Workers, NEW zs, SetOut(w, zs)
  PROVE  ExactInv'
<1>1. FileTypes /\ DOMAIN idx = Workers /\ (\A u \in Workers : AheadAt(u)) /\ pc \in [Workers -> Pcs]
  BY DEF MoveInv, ExactInv, Bounded, Ahead, ExclusiveInv, Held
<1>2. UNCHANGED <<exts, wr, list, used, cur, idx>> /\ pc[w] = "idle" /\ pc' = [pc EXCEPT ![w] = "next"]
  BY DEF SetOut, zoneVars, fileVars, Goto
<1>3. \A u \in Workers : pc'[u] \in Moving \ {"unlock"} <=> pc[u] \in Moving \ {"unlock"}
  BY <1>1, <1>2 DEF Moving
<1>4. \A u \in Workers : pc'[u] = pc[u] \/ pc'[u] \notin InHand \cup {"release"}
  BY <1>1, <1>2 DEF InHand
<1>5. \A u \in Workers : AheadAt(u)'
  BY <1>1, <1>2, <1>4, SameAhead
<1> QED BY <1>1, <1>2, <1>3, <1>5, CalmExact

(* The scan of the client that resets unused zones keeps the used capacity  *)
(* exact.                                                                   *)
LEMMA ClientScanExact ==
  ASSUME ExactInv, MoveInv, ScanReset(Client)
  PROVE  ExactInv'
<1>1. DOMAIN idx = Workers /\ \A u \in Workers : AheadAt(u)
  BY DEF ExactInv, Bounded, Ahead
<1>2. UNCHANGED <<exts, wr, list, used, cur, idx, pc>>
  BY NameFacts DEF ScanReset, fileVars, workVars
<1>3. \A u \in Workers : AheadAt(u)'
  BY <1>1, <1>2, SameAhead
<1> QED BY <1>1, <1>2, <1>3, CalmExact

(* The first extent that OpenForMigration takes in hand.                    *)
LEMMA OpenExact ==
  ASSUME ExactInv, MoveInv, NEW w \in Workers, OpenForMigration(w)
  PROVE  ExactInv'
<1>1. /\ FileTypes /\ DOMAIN idx = Workers /\ pc \in [Workers -> Pcs] /\ pc[w] = "next"
      /\ \A u \in Workers : AheadAt(u)
  BY DEF MoveInv, ExactInv, Bounded, Ahead, ExclusiveInv, Held, OpenForMigration
<1>2. UNCHANGED <<exts, used>>
  BY DEF OpenForMigration, zoneVars
<1>3. PICK x \in todo[w] :
        LET found == alive[x.file] /\ name[x.file] = x.name /\ wr[x.file] = Nobody
            first == NextExtent(x, exts[x.file], 1) IN
        /\ todo' = [todo EXCEPT ![w] = @ \ {x}]
        /\ \/ /\ found
              /\ wr' = [wr EXCEPT ![x.file] = w]
              /\ cur' = [cur EXCEPT ![w] = x]
              /\ list' = [list EXCEPT ![w] = exts[x.file]]
              /\ idx' = [idx EXCEPT ![w] = first]
              /\ Goto(w, TakeOrSync(first))
              /\ UNCHANGED scan
           \/ /\ ~found \/ \E u \in Workers \ {w} : pc[u] = "idle"
              /\ Goto(w, "reset")
              /\ scan' = [scan EXCEPT ![w] = 1]
              /\ UNCHANGED <<wr, cur, list, idx>>
  BY Zenon DEF OpenForMigration
<1>4. PICK f \in Files : f = x.file
  BY <1>1 DEF FileTypes, Entries
<1>5. PICK first : first = NextExtent(x, exts[f], 1)
  OBVIOUS
<1>6. \/ /\ wr[f] = Nobody /\ wr' = [wr EXCEPT ![f] = w]
         /\ cur' = [cur EXCEPT ![w] = x]
         /\ list' = [list EXCEPT ![w] = exts[f]]
         /\ idx' = [idx EXCEPT ![w] = first]
         /\ pc' = [pc EXCEPT ![w] = TakeOrSync(first)]
      \/ pc' = [pc EXCEPT ![w] = "reset"] /\ UNCHANGED <<wr, cur, list, idx>>
  BY <1>3, <1>4, <1>5 DEF Goto
<1>7. CASE pc' = [pc EXCEPT ![w] = "reset"] /\ UNCHANGED <<wr, cur, list, idx>>
  <2>1. \A u \in Workers : pc'[u] \in Moving \ {"unlock"} <=> pc[u] \in Moving \ {"unlock"}
    BY <1>1, <1>7 DEF Moving
  <2>2. \A u \in Workers : pc'[u] = pc[u] \/ pc'[u] \notin InHand \cup {"release"}
    BY <1>1, <1>7 DEF InHand
  <2>3. \A u \in Workers : AheadAt(u)'
    BY <1>1, <1>2, <1>7, <2>2, SameAhead
  <2> QED BY <1>1, <1>2, <1>7, <2>1, <2>3, CalmExact
<1>8. CASE /\ wr[f] = Nobody /\ wr' = [wr EXCEPT ![f] = w]
           /\ cur' = [cur EXCEPT ![w] = x]
           /\ list' = [list EXCEPT ![w] = exts[f]]
           /\ idx' = [idx EXCEPT ![w] = first]
           /\ pc' = [pc EXCEPT ![w] = TakeOrSync(first)]
  <2>1. /\ pc'[w] = TakeOrSync(first) /\ cur'[w] = x /\ list'[w] = exts[f] /\ idx'[w] = first
        /\ \A u \in Workers : u # w => /\ pc'[u] = pc[u] /\ cur'[u] = cur[u]
                                       /\ list'[u] = list[u] /\ idx'[u] = idx[u]
        /\ DOMAIN idx' = Workers
    BY <1>1, <1>8 DEF FileTypes
  <2>2. wr'[f] = w /\ \A g \in Files : g # f => wr'[g] = wr[g]
    BY <1>1, <1>8 DEF FileTypes
  <2>3. \A g \in Files : g # f /\ wr[g] \in Workers => wr[g] # w
    BY <1>1 DEF MoveInv, Locked, Moving
  <2>4. Shown(w)' = Range(exts[f]) /\ \A u \in Workers : u # w => Shown(u)' = Shown(u)
    BY <2>1 DEF Shown, Moving, Pcs, TakeOrSync
  <2>5. \A g \in Files : Mine(g)' = Mine(g)
    BY <1>2, <1>8, <2>2, <2>3, <2>4, Constants DEF Mine
  <2>6. Exact'
    BY <1>2, <2>5, SameExact DEF ExactInv
  <2>7. Bounded'
    BY <1>2, <2>1 DEF ExactInv, Bounded
  <2>8. AheadAt(w)'
    <3>1. exts[f] \in Seq(Extents) /\ 1 \in Nat /\ 1 > 0
      BY <1>1 DEF FileTypes
    <3>2. first = 0 \/ first \in DOMAIN exts[f]
      BY <1>5, <3>1, NextExtentFacts
    <3>3. CASE first = 0
      BY <2>1, <3>3 DEF AheadAt, TakeOrSync, InHand
    <3>4. CASE first # 0
      <4>1. pc'[w] = "take" /\ idx'[w] \in DOMAIN list'[w]
        BY <2>1, <3>2, <3>4 DEF TakeOrSync
      <4>2. \A j \in DOMAIN list'[w] : list'[w][j] = exts'[cur'[w].file][j]
        BY <1>2, <1>4, <2>1
      <4> QED BY <4>1, <4>2 DEF AheadAt
    <3> QED BY <3>3, <3>4
  <2>9. \A u \in Workers : AheadAt(u)'
    BY <1>1, <1>2, <2>1, <2>8, SameAhead
  <2> QED BY <2>6, <2>7, <2>9 DEF ExactInv, Ahead
<1> QED BY <1>6, <1>7, <1>8

(* The copy that CheckFile puts in the list counts, and the original does   *)
(* so still.                                                                *)
LEMMA CheckExact ==
  ASSUME ExactInv, KeepInv, MoveInv, NEW w \in Workers, CheckFile(w)
  PROVE  ExactInv'
<1>1. /\ FileTypes /\ pc \in [Workers -> Pcs] /\ pc[w] = "check"
      /\ \A u \in Workers : AheadAt(u)
  BY DEF MoveInv, ExclusiveInv, Held, CheckFile, KeepInv, Copied, ExactInv, Ahead
<1>2. UNCHANGED <<wp, gen, exts, wr, cur, target, idx>> /\ DOMAIN idx = Workers
  BY DEF CheckFile, fileVars, ExactInv, Bounded
<1>3. PICK z \in Zone : z = target[w]
  BY <1>1 DEF MoveInv, ExclusiveInv, Held, Holding
<1>4. PICK e : e = [zone |-> z, off |-> wp[z], gen |-> gen[z]]
  OBVIOUS
<1>5. \/ /\ used' = [used EXCEPT ![z] = @ + 1]
         /\ list' = [list EXCEPT ![w][idx[w]] = e]
         /\ pc' = [pc EXCEPT ![w] = "release"]
      \/ UNCHANGED <<used, list>> /\ pc' = [pc EXCEPT ![w] = "abort"]
  BY <1>1, <1>3, <1>4 DEF CheckFile, Adopt, Goto
<1>6. \A u \in Workers : pc'[u] \in Moving \ {"unlock"} <=> pc[u] \in Moving \ {"unlock"}
  BY <1>1, <1>5 DEF Moving, Pcs
<1>7. CASE UNCHANGED <<used, list>> /\ pc' = [pc EXCEPT ![w] = "abort"]
  <2>1. \A u \in Workers : pc'[u] = pc[u] \/ pc'[u] \notin InHand \cup {"release"}
    BY <1>1, <1>7 DEF InHand
  <2>2. \A u \in Workers : AheadAt(u)'
    BY <1>1, <1>2, <1>7, <2>1, SameAhead
  <2> QED BY <1>2, <1>6, <1>7, <2>2, CalmExact
<1>8. CASE /\ used' = [used EXCEPT ![z] = @ + 1]
           /\ list' = [list EXCEPT ![w][idx[w]] = e]
           /\ pc' = [pc EXCEPT ![w] = "release"]
  <2>1. e \in Extents /\ e.zone = z /\ e.off = wp[z] /\ wp[z] \in Nat
    <3>1. wp[z] \in Nat /\ gen[z] \in Nat
      BY <1>1, Constants DEF FileTypes
    <3> QED BY <1>4, <3>1 DEF Extents
  <2>2. e \notin Live
    <3>1. e \in Live => e.off < wp[z]
      BY <1>1, <1>3, <2>1 DEF KeepInv, Fresh
    <3> QED BY <2>1, <3>1
  <2>3. PICK f \in Files : f = cur[w].file /\ wr[f] = w
    BY <1>1 DEF MoveInv, Locked, Moving, Pcs, Entries
  <2>4. PICK s, n : s \in Seq(Extents) /\ s = list[w] /\ n = [s EXCEPT ![idx[w]] = e]
    BY <1>1 DEF FileTypes
  <2>5. list' = [list EXCEPT ![w] = n]
    BY <1>1, <1>8, <2>4, ListFacts
  <2>6. list'[w] = n /\ \A u \in Workers : u # w => list'[u] = list[u]
    BY <1>1, <2>5 DEF FileTypes
  <2>7. Shown(w) = Range(s) /\ Mine(f) = Range(exts[f]) \cup Range(s)
    BY <1>1, <2>3, <2>4 DEF Shown, Moving, Pcs, Mine
  <2>8. e \notin Range(s) /\ e \notin Range(exts[f])
    BY <1>1, <2>2, <2>7, LiveFacts, MineFacts
  <2>9. Parallel(s, exts[f])
    BY <1>1, <2>3, <2>4 DEF KeepInv, Distinct, Moving, Pcs
  <2>10. idx[w] \in DOMAIN s /\ \A j \in DOMAIN s : j >= idx[w] => s[j] = exts[f][j]
    BY <1>1, <2>3, <2>4 DEF AheadAt, InHand
  <2>11. /\ Parallel(n, exts[f]) /\ Range(n) \subseteq Range(s) \cup {e} /\ e \in Range(n)
         /\ \A j \in DOMAIN s : j # idx[w] => n[j] = s[j]
    BY <2>1, <2>4, <2>8, <2>9, <2>10, ReplacedFacts
  <2>12. DOMAIN n = DOMAIN s /\ DOMAIN s = DOMAIN exts[f]
    BY <2>9, <2>11 DEF Parallel
  <2>13. Range(exts[f]) \cup Range(n) = (Range(exts[f]) \cup Range(s)) \cup {e}
    <3>1. ASSUME NEW j \in DOMAIN s PROVE s[j] \in Range(exts[f]) \cup Range(n)
      <4>1. CASE j = idx[w]
        <5>1. j >= idx[w] /\ j \in DOMAIN exts[f]
          BY <2>4, <2>12, <4>1
        <5>2. s[j] = exts[f][j]
          BY <2>10, <5>1
        <5> QED BY <5>1, <5>2 DEF Range
      <4>2. CASE j # idx[w]
        BY <2>11, <2>12, <4>2 DEF Range
      <4> QED BY <4>1, <4>2
    <3>2. Range(s) \subseteq Range(exts[f]) \cup Range(n)
      BY <3>1 DEF Range
    <3> QED BY <2>11, <3>2
  <2>14. \A g \in Files : Mine(g)' = IF g = f THEN Mine(g) \cup {e} ELSE Mine(g)
    <3>1. \A u \in Workers : u # w => Shown(u)' = Shown(u)
      BY <1>1, <1>8, <2>6 DEF Shown
    <3>2. Shown(w)' = Range(n)
      BY <1>1, <1>8, <2>6 DEF Shown, Moving, Pcs
    <3>3. \A g \in Files : g # f => wr[g] # w
      BY <2>3 DEF MoveInv, Locked
    <3>4. Mine(f)' = Mine(f) \cup {e}
      BY <1>2, <2>3, <2>7, <2>13, <3>2 DEF Mine
    <3>5. \A g \in Files : g # f => Mine(g)' = Mine(g)
      BY <1>2, <3>1, <3>3 DEF Mine
    <3> QED BY <3>4, <3>5
  <2>15. Exact'
    <3> SUFFICES ASSUME NEW y \in Zone PROVE used'[y] = Cardinality(Occupied(y)')
      BY DEF Exact
    <3>1. /\ IsFiniteSet(Occupied(y)) /\ Cardinality(Occupied(y)) \in Nat
          /\ used[y] = Cardinality(Occupied(y)) /\ Occupied(y) \subseteq At(y)
      BY <1>1, MineFacts DEF ExactInv, Exact
    <3>2. used'[y] = IF y = z THEN used[y] + 1 ELSE used[y]
      BY <1>1, <1>8 DEF FileTypes
    <3>3. CASE y = z
      <4>1. Occupied(y)' = Occupied(y) \cup {e}
        BY <2>1, <2>3, <2>14, <3>3 DEF Occupied
      <4>2. e \notin Occupied(y)
        BY <2>2, <3>1 DEF At
      <4>3. Cardinality(Occupied(y) \cup {e}) = Cardinality(Occupied(y)) + 1
        BY <3>1, <4>2, FS_AddElement
      <4> QED BY <3>1, <3>2, <3>3, <4>1, <4>3
    <3>4. CASE y # z
      <4>1. Occupied(y)' = Occupied(y)
        BY <2>1, <2>14, <3>4 DEF Occupied
      <4> QED BY <3>1, <3>2, <3>4, <4>1
    <3> QED BY <3>3, <3>4
  <2>16. AheadAt(w)'
    <3>1. pc'[w] = "release" /\ idx'[w] = idx[w] /\ cur'[w] = cur[w]
      BY <1>1, <1>2, <1>8
    <3>2. \A j \in DOMAIN n : j > idx[w] => j >= idx[w] /\ j # idx[w]
      BY <2>4, <2>10, <2>12
    <3>3. \A j \in DOMAIN n : j > idx[w] => n[j] = exts[f][j]
      BY <2>10, <2>11, <2>12, <3>2
    <3>4. "release" \notin InHand
      BY DEF InHand
    <3> QED BY <1>2, <2>3, <2>6, <2>10, <2>12, <3>1, <3>3, <3>4 DEF AheadAt
  <2>17. \A u \in Workers : u # w => pc'[u] = pc[u]
    BY <1>1, <1>8
  <2>18. \A u \in Workers : AheadAt(u)'
    BY <1>1, <1>2, <2>6, <2>16, <2>17, SameAhead
  <2>19. Bounded'
    BY <1>2 DEF ExactInv, Bounded
  <2> QED BY <2>15, <2>18, <2>19 DEF ExactInv, Ahead
<1> QED BY <1>5, <1>7, <1>8

(* ReplaceExtentList swaps two lists of the same file.                      *)
LEMMA ReplaceExact ==
  ASSUME ExactInv, KeepInv, MoveInv, NEW w \in Workers, ReplaceExtentList(w)
  PROVE  ExactInv'
<1>1. /\ FileTypes /\ pc \in [Workers -> Pcs] /\ pc[w] = "replace"
      /\ \A u \in Workers : AheadAt(u)
  BY DEF MoveInv, ExclusiveInv, Held, ReplaceExtentList, ExactInv, Ahead
<1>2. UNCHANGED <<used, wr, cur, idx>> /\ DOMAIN idx = Workers
  BY DEF ReplaceExtentList, zoneVars, ExactInv, Bounded
<1>3. PICK f \in Files : f = cur[w].file /\ wr[f] = w
  BY <1>1 DEF MoveInv, Locked, Moving, Pcs, Entries
<1>4. exts'[f] = list[w] /\ \A g \in Files : g # f => exts'[g] = exts[g]
  BY <1>1, <1>3 DEF ReplaceExtentList, FileTypes
<1>5. list'[w] = exts[f] /\ \A u \in Workers : u # w => list'[u] = list[u]
  BY <1>1, <1>3 DEF ReplaceExtentList, FileTypes
<1>6. pc'[w] = "persist" /\ \A u \in Workers : u # w => pc'[u] = pc[u]
  BY <1>1 DEF ReplaceExtentList, Goto
<1>7. \A u \in Workers : u # w => Shown(u)' = Shown(u)
  BY <1>5, <1>6 DEF Shown
<1>8. Shown(w) = Range(list[w]) /\ Shown(w)' = Range(exts[f])
  BY <1>1, <1>5, <1>6 DEF Shown, Moving, Pcs
<1>9. \A g \in Files : Mine(g)' = Mine(g)
  <2>1. \A g \in Files : g # f => wr[g] # w
    BY <1>3 DEF MoveInv, Locked
  <2>2. \A g \in Files : g # f => Mine(g)' = Mine(g)
    BY <1>2, <1>4, <1>7, <2>1 DEF Mine
  <2>3. Mine(f)' = Mine(f)
    BY <1>2, <1>3, <1>4, <1>8 DEF Mine
  <2> QED BY <2>2, <2>3
<1>10. Exact'
  BY <1>2, <1>9, SameExact DEF ExactInv
<1>11. Bounded'
  <2>1. Parallel(list[w], exts[f])
    BY <1>1, <1>3 DEF KeepInv, Distinct, Moving, Pcs
  <2>2. DOMAIN list[w] = DOMAIN exts[f]
    BY <2>1 DEF Parallel
  <2> QED BY <1>2, <1>4, <2>2 DEF ExactInv, Bounded
<1>12. ASSUME NEW u \in Workers PROVE AheadAt(u)'
  <2>1. CASE u = w
    BY <1>1, <1>6, <2>1, SameAhead DEF InHand
  <2>2. CASE u # w
    <3>1. pc[u] \in InHand \cup {"release"} => pc[u] \in Moving
      BY DEF InHand, Moving, Pcs
    <3>2. pc[u] \in Moving => cur[u].file \in Files /\ cur[u].file # f
      BY <1>3, <2>2 DEF MoveInv, Locked, Entries
    <3>3. pc[u] \in InHand \cup {"release"} => exts'[cur[u].file] = exts[cur[u].file]
      BY <1>4, <3>1, <3>2
    <3> QED BY <1>1, <1>2, <1>5, <1>6, <2>2, <3>3, SameAhead
  <2> QED BY <2>1, <2>2
<1> QED BY <1>10, <1>11, <1>12 DEF ExactInv, Ahead

(* An extent is its zone, its offset and when it was written.               *)
LEMMA SameExtent ==
  ASSUME NEW d \in Extents, NEW e \in Extents,
         d.zone = e.zone, d.off = e.off, d.gen = e.gen
  PROVE  d = e
<1>1. /\ d = [zone |-> d.zone, off |-> d.off, gen |-> d.gen]
      /\ e = [zone |-> e.zone, off |-> e.off, gen |-> e.gen]
  BY DEF Extents
<1> QED BY <1>1, Zenon

(* FreeOldExtents gives up every original that the file has not kept.       *)
LEMMA FreeExact ==
  ASSUME ExactInv, KeepInv, MoveInv, NEW w \in Workers, FreeOldExtents(w)
  PROVE  ExactInv'
<1>1. /\ FileTypes /\ pc \in [Workers -> Pcs] /\ pc[w] = "free"
      /\ \A u \in Workers : AheadAt(u)
  BY DEF MoveInv, ExclusiveInv, Held, FreeOldExtents, ExactInv, Ahead
<1>2. UNCHANGED <<exts, wr, cur, list, idx>> /\ DOMAIN idx = Workers
  BY DEF FreeOldExtents, fileVars, workVars, ExactInv, Bounded
<1>3. PICK f \in Files : f = cur[w].file /\ wr[f] = w
  BY <1>1 DEF MoveInv, Locked, Moving, Pcs, Entries
<1>4. pc'[w] = "unlock" /\ \A u \in Workers : u # w => pc'[u] = pc[u]
  BY <1>1 DEF FreeOldExtents, Goto
<1>5. PICK s \in Seq(Extents), t \in Seq(Extents) : s = list[w] /\ t = exts[f]
  BY <1>1 DEF FileTypes
<1>6. Parallel(s, t)
  BY <1>1, <1>3, <1>5 DEF KeepInv, Distinct, Moving, Pcs
<1>7. /\ \A g \in Files : g # f => Mine(g)' = Mine(g)
      /\ Mine(f) = Range(t) \cup Range(s) /\ Mine(f)' = Range(t)
  <2>1. \A u \in Workers : u # w => Shown(u)' = Shown(u)
    BY <1>2, <1>4 DEF Shown
  <2>2. Shown(w) = Range(s) /\ Shown(w)' = {}
    BY <1>1, <1>4, <1>5 DEF Shown, Moving, Pcs
  <2>3. \A g \in Files : g # f => wr[g] # w
    BY <1>3 DEF MoveInv, Locked
  <2>4. \A g \in Files : g # f => Mine(g)' = Mine(g)
    BY <1>2, <2>1, <2>3 DEF Mine
  <2>5. Mine(f) = Range(t) \cup Range(s) /\ Mine(f)' = Range(t)
    BY <1>2, <1>3, <1>5, <2>2 DEF Mine
  <2> QED BY <2>4, <2>5
<1>8. \A i \in DOMAIN s : i \in Changed(w) <=> s[i] \notin Range(t)
  <2>1. ASSUME NEW i \in DOMAIN s, i \in Changed(w), s[i] \in Range(t) PROVE FALSE
    <3>1. PICK j \in DOMAIN t : s[i] = t[j]
      BY <2>1 DEF Range
    <3>2. i = j
      BY <1>6, <3>1 DEF Parallel
    <3> QED BY <1>3, <1>5, <2>1, <3>1, <3>2 DEF Changed
  <2>2. ASSUME NEW i \in DOMAIN s, i \notin Changed(w) PROVE s[i] \in Range(t)
    <3>1. i \in DOMAIN t /\ Start(s[i]) = Start(t[i])
      BY <1>3, <1>5, <1>6, <2>2 DEF Changed, Parallel
    <3>2. s[i] \in Mine(f) /\ t[i] \in Mine(f)
      BY <1>7, <3>1 DEF Range
    <3>3. s[i] \in Live /\ t[i] \in Live
      BY <1>1, <3>2, MineFacts, LiveFacts
    <3>4. Intact(s[i]) /\ Intact(t[i])
      BY <3>3 DEF KeepInv, Kept
    <3>5. s[i] \in Extents /\ t[i] \in Extents
      BY <3>1
    <3>6. s[i].zone = t[i].zone /\ s[i].off = t[i].off /\ s[i].gen = t[i].gen
      BY <3>1, <3>4 DEF Start, Intact
    <3>7. s[i] = t[i]
      BY <3>5, <3>6, SameExtent
    <3> QED BY <3>1, <3>7 DEF Range
  <2> QED BY <2>1, <2>2
<1>9. Exact'
  <2> SUFFICES ASSUME NEW z \in Zone PROVE used'[z] = Cardinality(Occupied(z)')
    BY DEF Exact
  <2> DEFINE I == {i \in Changed(w) : s[i].zone = z}
             G == {s[i] : i \in I}
  <2>1. I \in SUBSET DOMAIN s
    BY <1>5 DEF Changed
  <2>2. Cardinality(G) = Cardinality(I)
    BY <1>6, <2>1, ImageCount DEF Parallel
  <2>3. used'[z] = used[z] - Cardinality(I)
    BY <1>5 DEF FreeOldExtents
  <2>4. G = {e \in Range(s) \ Range(t) : e.zone = z}
    <3>1. ASSUME NEW e \in G PROVE e \in Range(s) /\ e \notin Range(t) /\ e.zone = z
      <4>1. PICK i \in I : e = s[i]
        OBVIOUS
      <4>2. i \in DOMAIN s /\ i \in Changed(w) /\ s[i].zone = z
        BY <2>1
      <4> QED BY <1>8, <4>1, <4>2 DEF Range
    <3>2. ASSUME NEW e \in Range(s), e \notin Range(t), e.zone = z PROVE e \in G
      <4>1. PICK i \in DOMAIN s : e = s[i]
        BY DEF Range
      <4>2. i \in I
        BY <1>8, <3>2, <4>1
      <4> QED BY <4>1, <4>2
    <3> HIDE DEF G
    <3> QED BY <3>1, <3>2
  <2> HIDE DEF G, I
  <2>5. G \in SUBSET Occupied(z)
    BY <1>7, <2>4 DEF Occupied
  <2>6. \A g \in Files : g # f => Mine(g) \cap Mine(f) = {}
    BY <1>1, MineFacts DEF KeepInv, Apart
  <2>7. Occupied(z)' = Occupied(z) \ G
    <3>1. ASSUME NEW e \in Occupied(z)' PROVE e \in Occupied(z) \ G
      <4>1. PICK g \in Files : e \in Mine(g)' /\ e.zone = z
        BY DEF Occupied
      <4>2. e \in Mine(g) /\ e \notin G
        BY <1>7, <2>4, <2>6, <4>1
      <4> QED BY <4>1, <4>2 DEF Occupied
    <3>2. ASSUME NEW e \in Occupied(z) \ G PROVE e \in Occupied(z)'
      <4>1. PICK g \in Files : e \in Mine(g) /\ e.zone = z
        BY DEF Occupied
      <4>2. e \in Mine(g)'
        BY <1>7, <2>4, <4>1
      <4> QED BY <4>1, <4>2 DEF Occupied
    <3> QED BY <3>1, <3>2
  <2> QED BY <1>1, <2>2, <2>3, <2>5, <2>7, LessExact DEF ExactInv
<1>10. \A u \in Workers : AheadAt(u)'
  <2>1. \A u \in Workers : pc'[u] = pc[u] \/ pc'[u] \notin InHand \cup {"release"}
    BY <1>4 DEF InHand
  <2> QED BY <1>1, <1>2, <2>1, SameAhead
<1>11. Bounded'
  BY <1>2 DEF ExactInv, Bounded
<1> QED BY <1>9, <1>10, <1>11 DEF ExactInv, Ahead

(* ReleaseWRLock, and ClearExtents if the file is gone.                     *)
LEMMA ReleaseExact ==
  ASSUME ExactInv, KeepInv, MoveInv, NEW w \in Workers, ReleaseWRLock(w)
  PROVE  ExactInv'
<1>1. /\ FileTypes /\ pc \in [Workers -> Pcs] /\ pc[w] = "unlock" /\ DOMAIN idx = Workers
      /\ \A u \in Workers : AheadAt(u)
  BY DEF MoveInv, ExclusiveInv, Held, ReleaseWRLock, ExactInv, Ahead, Bounded
<1>2. PICK f \in Files : f = cur[w].file /\ wr[f] = w
  BY <1>1 DEF MoveInv, Locked, Moving, Pcs, Entries
<1>3. PICK last \in BOOLEAN : DropReference(f, last)
  BY <1>2 DEF ReleaseWRLock
<1>4. wr'[f] = Nobody /\ \A g \in Files : g # f => wr'[g] = wr[g]
  BY <1>1, <1>2 DEF ReleaseWRLock, FileTypes
<1>5. /\ pc'[w] = "reset" /\ DOMAIN idx' = Workers
      /\ \A u \in Workers : u # w => /\ pc'[u] = pc[u] /\ cur'[u] = cur[u]
                                     /\ list'[u] = list[u] /\ idx'[u] = idx[u]
  BY <1>1 DEF ReleaseWRLock, FileTypes, Goto
<1>6. Bounded' /\ \A g \in Files : exts'[g] = IF last /\ g = f THEN <<>> ELSE exts[g]
  BY <1>1, <1>3, <1>5, DropBounded DEF ExactInv
<1>7. Shown(w) = {} /\ \A u \in Workers : u # w => Shown(u)' = Shown(u)
  BY <1>1, <1>5 DEF Shown
<1>8. \A g \in Files : g # f => wr[g] # w
  BY <1>2 DEF MoveInv, Locked
<1>9. Mine(f) = Range(exts[f]) /\ Mine(f)' = Range(exts'[f])
  BY <1>2, <1>4, <1>7, Constants DEF Mine
<1>10. \A g \in Files : g # f \/ ~last => Mine(g)' = Mine(g)
  <2>1. \A g \in Files : g # f => Mine(g)' = Mine(g)
    BY <1>4, <1>6, <1>7, <1>8 DEF Mine
  <2>2. ~last => Mine(f)' = Mine(f)
    BY <1>6, <1>9
  <2> QED BY <2>1, <2>2
<1>11. last => Mine(f) = Range(exts[f]) /\ Mine(f)' = {}
  BY <1>6, <1>9, EmptyRange
<1>12. Exact'
  BY <1>1, <1>3, <1>10, <1>11, DropExact DEF ExactInv
<1>13. ASSUME NEW u \in Workers PROVE AheadAt(u)'
  <2>1. CASE u = w
    BY <1>1, <1>5, <2>1, SameAhead DEF InHand
  <2>2. CASE u # w
    <3>1. pc[u] \in InHand \cup {"release"} => pc[u] \in Moving
      BY DEF InHand, Moving, Pcs
    <3>2. pc[u] \in Moving => cur[u].file \in Files /\ cur[u].file # f
      BY <1>2, <2>2 DEF MoveInv, Locked, Entries
    <3>3. pc[u] \in InHand \cup {"release"} => exts'[cur[u].file] = exts[cur[u].file]
      BY <1>6, <3>1, <3>2
    <3> QED BY <1>1, <1>5, <2>2, <3>3, SameAhead
  <2> QED BY <2>1, <2>2
<1> QED BY <1>6, <1>12, <1>13 DEF ExactInv, Ahead

(* The extents of the files in zone z.                                      *)
Extant(z) == {e \in UNION {Range(exts[f]) : f \in Files} : e.zone = z}

(* The extents of all files in zone z are as many as the places in them.    *)
LEMMA PlacedCount ==
  ASSUME FileTypes, Bounded, NEW z,
         \A f, g \in Files : \A i \in DOMAIN exts[f], j \in DOMAIN exts[g] :
           exts[f][i] = exts[g][j] => f = g /\ i = j
  PROVE  Cardinality(Extant(z)) = Cardinality(Placed(z)) /\ IsFiniteSet(Extant(z))
<1> DEFINE O == Extant(z)
<1>1. PICK P : P = Placed(z)
  OBVIOUS
<1>2. IsFiniteSet(P)
  <2>1. Placed(z) \in SUBSET Slots
    BY DEF Placed
  <2> QED BY <1>1, <2>1, EarlierCounts
<1> DEFINE h == [s \in P |-> exts[s[1]][s[2]]]
<1>3. \A s \in P : s \in Slots /\ s[1] \in Files /\ s[2] \in DOMAIN exts[s[1]]
                   /\ exts[s[1]][s[2]].zone = z
  BY <1>1 DEF Placed, Slots
<1>4. h \in Surjection(P, O)
  <2>1. ASSUME NEW s \in P PROVE h[s] \in O
    BY <1>3 DEF Range, Extant
  <2>2. ASSUME NEW e \in O PROVE \E s \in P : h[s] = e
    <3>1. PICK f \in Files : e \in Range(exts[f]) /\ e.zone = z
      BY DEF Extant
    <3>2. PICK i \in DOMAIN exts[f] : e = exts[f][i]
      BY <3>1 DEF Range
    <3>3. i \in 1..MaxExtents
      BY DEF Bounded
    <3>4. PICK s : s = <<f, i>>
      OBVIOUS
    <3>5. s \in Slots /\ s[1] = f /\ s[2] = i
      BY <3>3, <3>4 DEF Slots
    <3>6. s \in P
      BY <1>1, <3>1, <3>2, <3>5 DEF Placed
    <3> QED BY <3>2, <3>5, <3>6
  <2> QED BY <2>1, <2>2 DEF Surjection
<1>5. h \in Injection(P, O)
  <2>1. ASSUME NEW s \in P, NEW t \in P, h[s] = h[t] PROVE s = t
    <3>1. s[1] = t[1] /\ s[2] = t[2]
      BY <1>3, <2>1
    <3>2. s \in Slots /\ t \in Slots
      BY <1>3
    <3> QED BY <3>1, <3>2 DEF Slots
  <2> HIDE DEF h, O
  <2> QED BY <1>4, <2>1 DEF Injection, Surjection, IsInjective
<1> HIDE DEF h, O
<1>6. Cardinality(O) = Cardinality(P) /\ IsFiniteSet(O)
  BY <1>2, <1>4, <1>5, FS_Surjection
<1> QED BY <1>1, <1>6 DEF O

(* At the start used_capacity_ counts the extents that live.                *)
LEMMA InitExact == Init => ExactInv
<1> SUFFICES ASSUME Init PROVE ExactInv
  OBVIOUS
<1>1. FileTypes
  BY InitMove DEF MoveInv
<1>2. /\ \A f \in Files : wr[f] = Nobody
      /\ (\A w \in Workers : pc[w] = "idle") /\ DOMAIN idx = Workers
  BY DEF Init
<1>3. \A f \in Files : Mine(f) = Range(exts[f])
  BY <1>2, Constants DEF Mine
<1>4. Bounded
  BY <1>2, InitLayout DEF Bounded
<1>5. Ahead
  BY <1>2 DEF Ahead, AheadAt, InHand
<1>6. Exact
  <2> SUFFICES ASSUME NEW z \in Zone PROVE used[z] = Cardinality(Occupied(z))
    BY DEF Exact
  <2>1. used[z] = Cardinality(Placed(z))
    BY InitLayout
  <2>2. \A f, g \in Files : \A i \in DOMAIN exts[f], j \in DOMAIN exts[g] :
          exts[f][i] = exts[g][j] => f = g /\ i = j
    BY InitLayout
  <2>3. Cardinality(Extant(z)) = Cardinality(Placed(z))
    BY <1>1, <1>4, <2>2, PlacedCount
  <2>4. Occupied(z) = Extant(z)
    BY <1>3 DEF Occupied, Extant
  <2> QED BY <1>2, <2>1, <2>3, <2>4
<1> QED BY <1>4, <1>5, <1>6 DEF ExactInv

(* ExactInv is inductive if nothing fails: a failed SyncFileMetadata leaks  *)
(* the originals, which nobody gives up.                                    *)
LEMMA NextExact ==
  ASSUME Faults = {}
  PROVE  ExactInv /\ KeepInv /\ MoveInv /\ [Next]_vars => ExactInv'
<1> SUFFICES ASSUME ExactInv, KeepInv, MoveInv, [Next]_vars PROVE ExactInv'
  OBVIOUS
<1>1. ASSUME NEW f \in Files, DeleteFile(f) \/ RenameFile(f) \/ StartRead(f) \/ EndRead(f)
      PROVE  ExactInv'
  BY <1>1, ClientExact
<1>2. CASE ScanReset(Client)
  BY <1>2, ClientScanExact
<1>3. CASE GCWorker \/ WLWorker
  BY <1>3, SetOutExact DEF GCWorker, WLWorker
<1>4. ASSUME NEW w \in Workers, Worker(w) PROVE ExactInv'
  <2>1. CASE Elsewhere(w) \/ MigrateData(w) \/ SyncFileMetadata(w) \/ ScanReset(w)
    BY <2>1, CalmWorkerExact
  <2>2. CASE OpenForMigration(w) \/ CheckFile(w)
    BY <2>2, OpenExact, CheckExact
  <2>3. CASE ReplaceExtentList(w) \/ FreeOldExtents(w) \/ ReleaseWRLock(w)
    BY <2>3, ReplaceExact, FreeExact, ReleaseExact
  <2> QED BY <1>4, <2>1, <2>2, <2>3 DEF Worker, Elsewhere
<1>5. CASE UNCHANGED vars
  <2>1. UNCHANGED <<exts, wr, list, used, cur, idx, pc>>
    BY <1>5 DEF vars, zoneVars, fileVars, workVars
  <2>2. DOMAIN idx = Workers /\ \A u \in Workers : AheadAt(u)
    BY DEF ExactInv, Bounded, Ahead
  <2>3. \A u \in Workers : AheadAt(u)'
    BY <2>1, <2>2, SameAhead
  <2> QED BY <2>1, <2>2, <2>3, CalmExact
<1> QED BY <1>1, <1>2, <1>3, <1>4, <1>5 DEF Next

(* ExactInv holds in every state.                                           *)
LEMMA ExactInvariant ==
  ASSUME Faults = {}
  PROVE  Spec => []ExactInv
<1>1. ExactInv /\ KeepInv /\ MoveInv /\ [Next]_vars => ExactInv'
  BY NextExact
<1>2. Spec => []KeepInv
  BY KeepInvariant
<1> QED BY <1>1, <1>2, InitExact, MoveInvariant, PTL DEF Spec

(* What Counted counts for the workers: the entries of their lists that     *)
(* differ from the file's.                                                  *)
Differ(w, z) ==
  IF cur[w] = NoFile \/ pc[w] = "unlock" THEN {}
  ELSE {i \in DOMAIN list[w] : list[w][i] # exts[cur[w].file][i] /\ list[w][i].zone = z}
Carried(z) == {s \in Workers \X (1..MaxExtents) : s[2] \in Differ(s[1], z)}

(* The blocks of the workers' lists that the files do not have.             *)
Lent(z) == Occupied(z) \ Extant(z)

(* A position that Counted counts, and the block there.                     *)
LEMMA CarriedFacts ==
  ASSUME MoveInv, KeepInv, NEW z \in Zone, NEW w \in Workers, NEW i \in Differ(w, z)
  PROVE  /\ cur[w].file \in Files /\ wr[cur[w].file] = w
         /\ pc[w] \in Moving \ {"unlock"}
         /\ i \in DOMAIN list[w] /\ DOMAIN list[w] = DOMAIN exts[cur[w].file]
         /\ list[w][i] \in Mine(cur[w].file) /\ list[w][i] \in Lent(z)
<1>1. /\ cur[w] # NoFile /\ pc[w] # "unlock" /\ i \in DOMAIN list[w]
      /\ list[w][i] # exts[cur[w].file][i] /\ list[w][i].zone = z
  BY DEF Differ
<1>2. FileTypes /\ pc[w] \in Pcs
  BY DEF MoveInv, ExclusiveInv, Held
<1>3. pc[w] \in Moving
  BY <1>1 DEF MoveInv, Locked
<1>4. PICK f \in Files : f = cur[w].file /\ wr[f] = w
  BY <1>3 DEF MoveInv, Locked, Entries
<1>5. Parallel(list[w], exts[f])
  BY <1>1, <1>3, <1>4 DEF KeepInv, Distinct
<1>6. DOMAIN list[w] = DOMAIN exts[f]
  BY <1>5 DEF Parallel
<1>7. list[w][i] \in Mine(f)
  <2>1. Shown(w) = Range(list[w])
    BY <1>1, <1>3 DEF Shown
  <2>2. list[w][i] \in Range(list[w])
    BY <1>1 DEF Range
  <2> QED BY <1>4, <2>1, <2>2 DEF Mine
<1>8. list[w][i] \notin Range(exts[f])
  <2> SUFFICES ASSUME NEW j \in DOMAIN exts[f], list[w][i] = exts[f][j] PROVE FALSE
    BY DEF Range
  <2>1. i = j
    BY <1>1, <1>5, <1>6 DEF Parallel
  <2> QED BY <1>1, <1>4, <2>1
<1>9. \A g \in Files : g # f => list[w][i] \notin Range(exts[g])
  <2>1. \A g \in Files : Range(exts[g]) \subseteq Own(g)
    BY DEF Own
  <2>2. list[w][i] \in Own(f)
    BY <1>2, <1>7, MineFacts
  <2> QED BY <2>1, <2>2 DEF KeepInv, Apart
<1>10. list[w][i] \in Occupied(z)
  BY <1>1, <1>7 DEF Occupied
<1>11. list[w][i] \notin Extant(z)
  BY <1>8, <1>9 DEF Extant
<1> QED BY <1>1, <1>3, <1>4, <1>6, <1>7, <1>10, <1>11 DEF Lent

(* The blocks of the workers' lists are as many as the places in them.      *)
LEMMA CarriedCount ==
  ASSUME MoveInv, KeepInv, Bounded, NEW z \in Zone
  PROVE  Cardinality(Lent(z)) = Cardinality(Carried(z))
<1>1. PICK C : C = Carried(z)
  OBVIOUS
<1>2. FileTypes
  BY DEF MoveInv
<1>3. \A s \in C : s \in Workers \X (1..MaxExtents) /\ s[1] \in Workers /\ s[2] \in Differ(s[1], z)
  BY <1>1 DEF Carried
<1>4. IsFiniteSet(C)
  <2>1. IsFiniteSet(Workers)
    <3>1. IsFiniteSet({"gc"}) /\ {"gc"} \cup {"wl"} = {"gc", "wl"}
      BY FS_Singleton
    <3>2. IsFiniteSet({"gc", "wl"})
      BY <3>1, FS_AddElement
    <3> QED BY <3>2, MigrationAssumption, FS_Subset
  <2>2. IsFiniteSet(1..MaxExtents)
    BY Constants, FS_Interval
  <2>3. IsFiniteSet(Workers \X (1..MaxExtents))
    BY <2>1, <2>2, FS_Product
  <2> QED BY <1>3, <2>3, FS_Subset
<1> DEFINE L == Lent(z)
           h == [s \in C |-> list[s[1]][s[2]]]
<1>5. ASSUME NEW s \in C
      PROVE  /\ h[s] \in L /\ s[2] \in DOMAIN list[s[1]] /\ pc[s[1]] \in Moving \ {"unlock"}
             /\ cur[s[1]].file \in Files /\ wr[cur[s[1]].file] = s[1]
             /\ h[s] \in Mine(cur[s[1]].file)
  <2>0. PICK w \in Workers : w = s[1] /\ s[2] \in Differ(w, z)
    BY <1>3
  <2>1. PICK i \in Differ(w, z) : w = s[1] /\ i = s[2]
    BY <2>0
  <2>2. /\ cur[w].file \in Files /\ wr[cur[w].file] = w
        /\ pc[w] \in Moving \ {"unlock"} /\ i \in DOMAIN list[w]
        /\ list[w][i] \in Mine(cur[w].file) /\ list[w][i] \in Lent(z)
    BY CarriedFacts
  <2> QED BY <2>1, <2>2
<1>6. ASSUME NEW e \in L PROVE \E s \in C : h[s] = e
  <2>1. PICK f \in Files : e \in Mine(f) /\ e.zone = z
    BY DEF Lent, Occupied
  <2>2. e \notin Range(exts[f])
    BY <2>1 DEF Lent, Extant
  <2>3. PICK w \in Workers : w = wr[f] /\ e \in Shown(w)
    BY <2>1, <2>2 DEF Mine
  <2>4. pc[w] \in Moving \ {"unlock"} /\ e \in Range(list[w])
    BY <2>3 DEF Shown
  <2>5. cur[w].file = f /\ cur[w] \in Entries
    BY <2>3, <2>4 DEF MoveInv, Locked
  <2>6. PICK i \in DOMAIN list[w] : e = list[w][i]
    BY <2>4 DEF Range
  <2>7. cur[w] # NoFile
    BY <2>5 DEF Entries, NoFile
  <2>8. Parallel(list[w], exts[f])
    BY <2>4, <2>5 DEF KeepInv, Distinct
  <2>9. i \in DOMAIN exts[f]
    BY <2>8 DEF Parallel
  <2>10. i \in 1..MaxExtents /\ list[w][i] # exts[f][i]
    BY <2>2, <2>6, <2>9 DEF Bounded, Range
  <2>11. i \in Differ(w, z)
    BY <2>1, <2>4, <2>5, <2>6, <2>7, <2>10 DEF Differ
  <2>12. PICK s : s = <<w, i>>
    OBVIOUS
  <2>13. s \in Workers \X (1..MaxExtents) /\ s[1] = w /\ s[2] = i
    BY <2>10, <2>12
  <2>14. s \in C
    BY <1>1, <2>11, <2>13 DEF Carried
  <2> QED BY <2>6, <2>13, <2>14
<1>7. ASSUME NEW s \in C, NEW t \in C, h[s] = h[t] PROVE s = t
  <2>1. cur[s[1]].file = cur[t[1]].file
    <3>1. \A f, g \in Files : f # g => Mine(f) \cap Mine(g) = {}
      BY <1>2, MineFacts DEF KeepInv, Apart
    <3> QED BY <1>5, <1>7, <3>1
  <2>2. s[1] = t[1]
    BY <1>5, <2>1
  <2>3. IsInjective(list[s[1]])
    BY <1>3, <1>5 DEF KeepInv, Distinct, Parallel
  <2>4. s[2] = t[2]
    BY <1>5, <1>7, <2>2, <2>3 DEF IsInjective
  <2> QED BY <1>3, <2>2, <2>4
<1>8. h \in [C -> L]
  BY <1>5
<1> HIDE DEF h, L
<1>9. h \in Surjection(C, L)
  BY <1>6, <1>8 DEF Surjection
<1>10. h \in Injection(C, L)
  BY <1>7, <1>8 DEF Injection, IsInjective
<1>11. Cardinality(L) = Cardinality(C)
  BY <1>4, <1>9, <1>10, FS_Surjection
<1> QED BY <1>1, <1>11 DEF L

(* used_capacity_ is what the live extents, the copies under way and the    *)
(* originals not yet given up occupy, for any number of files and zones and *)
(* any interleaving of the workers with the clients (AddUsedCapacity in     *)
(* MigrateFileExtents, the frees of SyncFileExtents and ClearExtents),      *)
(* provided that nothing fails.                                             *)
THEOREM UsedCapacityIsExact ==
  ASSUME Faults = {}
  PROVE  Spec => []UsedCapacityExact
<1>1. MoveInv /\ KeepInv /\ ExactInv => UsedCapacityExact
  <2> SUFFICES ASSUME MoveInv, KeepInv, ExactInv, NEW z \in Zone
               PROVE  used[z] = Counted(z)
    BY DEF UsedCapacityExact
  <2>1. FileTypes /\ Bounded /\ used[z] = Cardinality(Occupied(z))
    BY DEF MoveInv, ExactInv, Exact
  <2>2. \A f, g \in Files : \A i \in DOMAIN exts[f], j \in DOMAIN exts[g] :
          exts[f][i] = exts[g][j] => f = g /\ i = j
    <3> SUFFICES ASSUME NEW f \in Files, NEW g \in Files, NEW i \in DOMAIN exts[f],
                        NEW j \in DOMAIN exts[g], exts[f][i] = exts[g][j]
                 PROVE  f = g /\ i = j
      OBVIOUS
    <3>1. exts[f][i] \in Own(f) /\ exts[g][j] \in Own(g)
      BY DEF Own, Range
    <3>2. f = g
      BY <3>1 DEF KeepInv, Apart
    <3> QED BY <3>2 DEF KeepInv, Distinct, IsInjective
  <2>3. Cardinality(Extant(z)) = Cardinality(Placed(z)) /\ IsFiniteSet(Extant(z))
    BY <2>1, <2>2, PlacedCount
  <2>4. Cardinality(Lent(z)) = Cardinality(Carried(z))
    BY <2>1, CarriedCount
  <2>5. Cardinality(Occupied(z)) = Cardinality(Extant(z)) + Cardinality(Lent(z))
    <3>1. IsFiniteSet(Occupied(z))
      BY <2>1, MineFacts
    <3>2. Extant(z) \in SUBSET Occupied(z)
      BY DEF Extant, Occupied, Mine
    <3>3. PICK A, G, B : A = Occupied(z) /\ G = Extant(z) /\ B = Lent(z)
      OBVIOUS
    <3>4. G \in SUBSET A /\ B \in SUBSET (A \ G) /\ B = A \ G
      BY <3>2, <3>3 DEF Lent
    <3>5. /\ Cardinality(B) = Cardinality(A) - Cardinality(G)
          /\ Cardinality(A) \in Nat /\ Cardinality(B) \in Nat /\ Cardinality(G) \in Nat
      BY <3>1, <3>3, <3>4, LessCount
    <3> QED BY <3>3, <3>5
  <2>6. Counted(z) = Cardinality(Placed(z)) + Cardinality(Carried(z))
    BY DEF Counted, Placed, Slots, Carried, Differ
  <2> QED BY <2>1, <2>3, <2>4, <2>5, <2>6
<1>2. "copy" \notin Faults
  OBVIOUS
<1>3. Spec => []KeepInv
  BY <1>2, KeepInvariant
<1>4. Spec => []ExactInv
  BY ExactInvariant
<1> QED BY <1>1, <1>3, <1>4, MoveInvariant, PTL
=============================================================================
