------------------------------ MODULE Migration ------------------------------
(***************************************************************************)
(* The two background workers of ZenFS that move extents: the garbage      *)
(* collector (GCWorker, MigrateFileExtents, TakeMigrateZone) and the wear  *)
(* leveler (WLWorker, WLMigrateFileExtents, GetMigrateTargetZone), against *)
(* clients that read, rename and delete the files being moved              *)
(* (fs/fs_zenfs.cc, fs/zbd_zenfs.cc, fs/io_zenfs.{h,cc}).                  *)
(*                                                                         *)
(* An extent is one block.  It is known by where it lies and by how often  *)
(* its zone had been reset when it was written, so that an extent whose    *)
(* zone was reset under it can be told.  Which zones are worth moving, and *)
(* which target is best, depends on lifetimes and reset counts: any        *)
(* eligible one may be chosen.                                             *)
(***************************************************************************)
EXTENDS Integers, Sequences, FiniteSets, SequencesExt

CONSTANTS
  Files,       \* the files, closed when the workers start
  NrIOZones,   \* number of IO zones
  ZoneCap,     \* extents that fit in a zone
  Workers,     \* the workers that run: "gc", "wl"
  MaxOpen,     \* max_nr_open_io_zones_
  MaxActive,   \* max_nr_active_io_zones_
  Faults,      \* the errors that may happen: "persist", "copy"
  MaxExtents,  \* bound: extents of a file
  MaxReaders,  \* bound: concurrent reads of a file
  MaxJobs,     \* bound: times a worker sets out
  MaxOps       \* bound: deletions and renames

ASSUME MigrationAssumption ==
  /\ IsFiniteSet(Files)
  /\ NrIOZones \in Nat \ {0} /\ ZoneCap \in Nat \ {0}
  /\ Workers \subseteq {"gc", "wl"}
  /\ MaxOpen \in Nat /\ MaxActive \in Nat
  /\ Faults \subseteq {"persist", "copy"}
  /\ MaxExtents \in Nat /\ MaxReaders \in Nat /\ MaxJobs \in Nat
  /\ MaxOps \in Nat

Zone   == 1..NrIOZones
NoZone == 0
Nobody == "nobody"
Client == "client"
Actors == Workers \cup {Client}

VARIABLES
  busy,       \* Zone::busy_
  wp,         \* blocks written to the zone
  used,       \* Zone::used_capacity_
  gen,        \* Zone::reset_count_
  open,       \* open_io_zones_
  active,     \* active_io_zones_
  migrating,  \* migrating_
  mtx,        \* who sleeps for a token with migrate_zone_mtx_ held
  alive,      \* the file has a name in files_
  name,       \* which name it is: 1, or 2 once it was renamed
  exts,       \* extents_
  durable,    \* the extents the metadata log has for the file
  synced,     \* nr_synced_extents_ is all the extents, not 0
  wr,         \* the worker that holds the file's write lock
  readers,    \* readers_
  pc,         \* where each worker is
  todo,       \* file_extents: by name, where the extents to move start
  cur,        \* the entry of file_extents that is being moved
  list,       \* new_extent_list, and old_extents once they are swapped
  idx,        \* the extent it looks at
  target,     \* target_zone
  scan,       \* the zone each ResetUnusedIOZones has come to, 0 if none runs
  jobs,       \* times the workers set out
  ops         \* deletions and renames so far

zoneVars  == <<busy, wp, used, gen>>
tokenVars == <<open, active>>
fileVars  == <<alive, name, exts, durable, synced, wr, readers>>
workVars  == <<todo, cur, list, idx>>
vars == <<zoneVars, tokenVars, migrating, mtx, fileVars, pc, workVars, target, scan, jobs, ops>>

-----------------------------------------------------------------------------
Partial(z) == wp[z] > 0 /\ wp[z] < ZoneCap

In(s, z) == Cardinality({i \in DOMAIN s : s[i].zone = z})

Start(e) == <<e.zone, e.off>>

NoFile == [file |-> Nobody, name |-> 0, starts |-> {}]

(* Any layout of the files in the zones: what closed files look like, and   *)
(* what deleted ones leave behind.  The files were written one after the    *)
(* other.                                                                   *)
Written == CHOOSE o \in [1..Cardinality(Files) -> Files] : IsInjective(o)

Before(f, i, g, j) ==
  LET rank(x) == CHOOSE n \in DOMAIN Written : Written[n] = x IN
  rank(f) < rank(g) \/ (f = g /\ i < j)

Init ==
  /\ \E place \in [Files -> UNION {[1..n -> Zone] : n \in 1..MaxExtents}],
        garbage \in [Zone -> 0..ZoneCap] :
       LET slots(z) == {s \in Files \X (1..MaxExtents) :
                          s[2] \in DOMAIN place[s[1]] /\ place[s[1]][s[2]] = z}
           off(f, i) == 1 + Cardinality({s \in slots(place[f][i]) : Before(s[1], s[2], f, i)}) IN
       /\ used = [z \in Zone |-> Cardinality(slots(z))]
       /\ wp = [z \in Zone |-> Cardinality(slots(z)) + garbage[z]]
       /\ \A z \in Zone : wp[z] <= ZoneCap
       /\ exts = [f \in Files |-> [i \in DOMAIN place[f] |->
                   [zone |-> place[f][i], off |-> off(f, i), gen |-> 0]]]
  /\ durable = exts
  /\ busy = [z \in Zone |-> FALSE]
  /\ gen = [z \in Zone |-> 0]
  /\ open = 0
  /\ active = Cardinality({z \in Zone : Partial(z)})
  /\ active <= MaxActive
  /\ migrating = FALSE
  /\ mtx = Nobody
  /\ alive = [f \in Files |-> TRUE]
  /\ name = [f \in Files |-> 1]
  /\ synced = [f \in Files |-> TRUE]
  /\ wr = [f \in Files |-> Nobody]
  /\ readers = [f \in Files |-> 0]
  /\ pc = [w \in Workers |-> "idle"]
  /\ todo = [w \in Workers |-> {}]
  /\ cur = [w \in Workers |-> NoFile]
  /\ list = [w \in Workers |-> <<>>]
  /\ idx = [w \in Workers |-> 0]
  /\ target = [w \in Workers |-> NoZone]
  /\ scan = [a \in Actors |-> 0]
  /\ jobs = [w \in Workers |-> 0]
  /\ ops = 0

-----------------------------------------------------------------------------
(* Clients                                                                  *)

Freed(s) == [z \in Zone |-> used[z] - In(s, z)]

(* ~ZoneFile when the last reference goes: ClearExtents.                    *)
DropReference(f, unreferenced) ==
  IF unreferenced
    THEN used' = Freed(exts[f]) /\ exts' = [exts EXCEPT ![f] = <<>>]
    ELSE UNCHANGED <<used, exts>>

DeleteFile(f) ==
  /\ alive[f] /\ scan[Client] = 0 /\ ops < MaxOps
  /\ ops' = ops + 1
  /\ alive' = [alive EXCEPT ![f] = FALSE]
  /\ durable' = [durable EXCEPT ![f] = <<>>]
  /\ DropReference(f, wr[f] = Nobody /\ readers[f] = 0)
  /\ scan' = [scan EXCEPT ![Client] = 1]
  /\ UNCHANGED <<busy, wp, gen, tokenVars, migrating, mtx, name, synced, wr, readers,
                 pc, workVars, target, jobs>>

(* RenameFile with its SyncFileMetadataNoLock: the record adds what is not  *)
(* synced yet.                                                              *)
RenameFile(f) ==
  /\ alive[f] /\ name[f] = 1 /\ ops < MaxOps
  /\ ops' = ops + 1
  /\ name' = [name EXCEPT ![f] = 2]
  /\ durable' = [durable EXCEPT ![f] = IF synced[f] THEN @ ELSE @ \o exts[f]]
  /\ synced' = [synced EXCEPT ![f] = TRUE]
  /\ UNCHANGED <<zoneVars, tokenVars, migrating, mtx, alive, exts, wr, readers,
                 pc, workVars, target, scan, jobs>>

(* PositionedRead with its ReadLock; WriteLock keeps new readers out.       *)
StartRead(f) ==
  /\ alive[f] /\ readers[f] < MaxReaders
  /\ \A w \in Workers : ~(pc[w] = "replace" /\ cur[w].file = f)
  /\ readers' = [readers EXCEPT ![f] = @ + 1]
  /\ UNCHANGED <<zoneVars, tokenVars, migrating, mtx, alive, name, exts, durable, synced, wr, pc,
                 workVars, target, scan, jobs, ops>>

EndRead(f) ==
  /\ readers[f] > 0
  /\ readers' = [readers EXCEPT ![f] = @ - 1]
  /\ DropReference(f, ~alive[f] /\ wr[f] = Nobody /\ readers[f] = 1)
  /\ UNCHANGED <<busy, wp, gen, tokenVars, migrating, mtx, alive, name, durable, synced, wr, pc,
                 workVars, target, scan, jobs, ops>>

-----------------------------------------------------------------------------
(* ResetUnusedIOZones                                                       *)

Goto(w, there) == pc' = [pc EXCEPT ![w] = there]

(* Somebody else looks through the zones, holding each for a moment.        *)
OthersSearch(a) ==
  \E b \in Actors \ {a} :
    scan[b] > 0 \/ (b \in Workers /\ pc[b] \in {"take", "search", "search2"})

Resettable(z) == ~busy[z] /\ wp[z] > 0 /\ used[z] = 0

ScanReset(a) ==
  /\ scan[a] \in Zone
  /\ LET z == scan[a] IN
     \/ /\ Resettable(z)
        /\ wp' = [wp EXCEPT ![z] = 0]
        /\ gen' = [gen EXCEPT ![z] = @ + 1]
        /\ active' = IF wp[z] < ZoneCap THEN active - 1 ELSE active
     \/ /\ ~Resettable(z) \/ OthersSearch(a)
        /\ UNCHANGED <<wp, gen, active>>
  /\ scan' = [scan EXCEPT ![a] = IF @ = NrIOZones THEN 0 ELSE @ + 1]
  /\ IF a \in Workers /\ scan[a] = NrIOZones
       THEN Goto(a, IF todo[a] = {} THEN "idle" ELSE "next")
       ELSE UNCHANGED pc
  /\ UNCHANGED <<busy, used, open, migrating, mtx, fileVars, workVars, target, jobs, ops>>

-----------------------------------------------------------------------------
(* Setting out                                                              *)

(* The extents in zones zs of the files that are not open for writing.      *)
Snapshot(zs) ==
  {s \in Files \X (1..MaxExtents) :
     /\ alive[s[1]] /\ wr[s[1]] = Nobody
     /\ s[2] \in DOMAIN exts[s[1]] /\ exts[s[1]][s[2]].zone \in zs}

SetOut(w, zs) ==
  LET found == Snapshot(zs) IN
  /\ pc[w] = "idle" /\ jobs[w] < MaxJobs
  /\ found # {}
  /\ todo' = [todo EXCEPT ![w] =
                {[file |-> f, name |-> name[f],
                  starts |-> {Start(exts[f][s[2]]) : s \in {t \in found : t[1] = f}}] :
                 f \in {s[1] : s \in found}}]
  /\ Goto(w, "next")
  /\ jobs' = [jobs EXCEPT ![w] = @ + 1]
  /\ UNCHANGED <<zoneVars, tokenVars, migrating, mtx, fileVars, cur, list, idx, target,
                 scan, ops>>

(* GCWorker moves the full zones that are garbage in part.                  *)
GCWorker ==
  \E zs \in SUBSET {z \in Zone : wp[z] = ZoneCap /\ used[z] > 0 /\ used[z] < ZoneCap} :
    "gc" \in Workers /\ SetOut("gc", zs)

(* WLWorker moves one zone, the least worn of those with something to       *)
(* reclaim.                                                                 *)
WLWorker ==
  \E z \in Zone : "wl" \in Workers /\ used[z] > 0 /\ wp[z] # used[z] /\ SetOut("wl", {z})

(* The next extent of list l, from position i on, that x says to move.      *)
NextExtent(x, l, i) ==
  LET wanted == {j \in i..Len(l) : Start(l[j]) \in x.starts} IN
  IF wanted = {} THEN 0 ELSE Min(wanted)

TakeOrSync(i) == IF i = 0 THEN "sync" ELSE "take"

(* GetFile and TryAcquireWRLock; a file that is gone or in use is skipped.  *)
(* The other worker holds the lock for a moment when it takes a snapshot.   *)
OpenForMigration(w) ==
  /\ pc[w] = "next"
  /\ \E x \in todo[w] :
       LET found == alive[x.file] /\ name[x.file] = x.name /\ wr[x.file] = Nobody
           first == NextExtent(x, exts[x.file], 1) IN
       /\ todo' = [todo EXCEPT ![w] = @ \ {x}]
       /\ \/ /\ found
             /\ wr' = [wr EXCEPT ![x.file] = w]
             /\ cur' = [cur EXCEPT ![w] = x]
             /\ list' = [list EXCEPT ![w] = exts[x.file]]
             /\ idx' = [idx EXCEPT ![w] = first]
             /\ Goto(w, TakeOrSync(first))
             /\ UNCHANGED scan
          \/ /\ ~found \/ \E u \in Workers \ {w} : pc[u] = "idle"
             /\ Goto(w, "reset")
             /\ scan' = [scan EXCEPT ![w] = 1]
             /\ UNCHANGED <<wr, cur, list, idx>>
  /\ UNCHANGED <<zoneVars, tokenVars, migrating, mtx, alive, name, exts, durable, synced,
                 readers, target, jobs, ops>>

-----------------------------------------------------------------------------
(* A zone to move to                                                        *)

OpenTargetEvenFull(z) == ~busy[z] /\ used[z] > 0

OpenTargetEvenBusy(z) == used[z] > 0 /\ wp[z] < ZoneCap

(* A zone that GetBestOpenZoneMatch or GetMigrateTargetZone may fill up.    *)
OpenTarget(z) == ~busy[z] /\ used[z] > 0 /\ wp[z] < ZoneCap

EmptyTarget(z) == ~busy[z] /\ wp[z] = 0

HoldZone(w, z) ==
  /\ busy' = [busy EXCEPT ![z] = TRUE]
  /\ target' = [target EXCEPT ![w] = z]
  /\ Goto(w, "copy")

(* The wait for migrate_resource_.                                          *)
SleepWhileMigrating(w) ==
  /\ pc[w] = "take" /\ mtx = Nobody /\ migrating
  /\ Goto(w, "asleep")
  /\ UNCHANGED <<zoneVars, tokenVars, migrating, mtx, fileVars, workVars, target, scan, jobs, ops>>

TakeMigrateZone(w) ==
  /\ w = "gc" /\ pc[w] = "take" /\ mtx = Nobody /\ ~migrating
  /\ \/ \E z \in Zone : OpenTarget(z) /\ HoldZone(w, z) /\ migrating' = TRUE
     \/ /\ OthersSearch(w) \/ \A z \in Zone : ~OpenTarget(z)
        /\ Goto(w, "giveup")
        /\ UNCHANGED <<busy, target, migrating>>
  /\ UNCHANGED <<wp, used, gen, tokenVars, mtx, fileVars, workVars, scan, jobs, ops>>

(* GetMigrateTargetZone claims the migration and, with migrate_zone_mtx_    *)
(* held, waits for an open token.                                           *)
GetMigrateTargetZone(w) ==
  /\ w = "wl" /\ pc[w] = "take" /\ mtx = Nobody /\ ~migrating
  /\ migrating' = TRUE
  /\ mtx' = w
  /\ Goto(w, "token")
  /\ UNCHANGED <<zoneVars, tokenVars, fileVars, workVars, target, scan, jobs, ops>>

WaitForOpenIOZoneToken(w) ==
  /\ pc[w] = "token" /\ open < MaxOpen
  /\ open' = open + 1
  /\ Goto(w, "search")
  /\ UNCHANGED <<zoneVars, active, migrating, mtx, fileVars, workVars, target, scan, jobs, ops>>

ActiveTokenOffByOne == active <= MaxActive

(* GetActiveIOZoneTokenIfAvailable                                          *)
ActiveTokenAvailable == active < MaxActive

(* An empty zone, if there is an active token for it; only a missing active *)
(* token gives the open token back.                                         *)
SearchEmptyZone(w) ==
  /\ pc[w] = "search"
  /\ \/ /\ ActiveTokenAvailable
        /\ \E z \in Zone : EmptyTarget(z) /\ HoldZone(w, z)
        /\ active' = active + 1
        /\ mtx' = Nobody
        /\ UNCHANGED open
     \/ /\ ~ActiveTokenAvailable /\ \E z \in Zone : EmptyTarget(z)
        /\ open' = open - 1
        /\ Goto(w, "search2")
        /\ UNCHANGED <<busy, target, active, mtx>>
     \/ /\ OthersSearch(w) \/ \A z \in Zone : ~EmptyTarget(z)
        /\ Goto(w, "search2")
        /\ UNCHANGED <<busy, target, open, active, mtx>>
  /\ UNCHANGED <<wp, used, gen, migrating, fileVars, workVars, scan, jobs, ops>>

(* Otherwise a zone in use whose lifetime fits, if there is one.            *)
SearchOpenZone(w) ==
  /\ pc[w] = "search2"
  /\ mtx' = Nobody
  /\ \/ /\ \E z \in Zone : OpenTarget(z) /\ HoldZone(w, z)
        /\ UNCHANGED <<migrating, idx>>
     \/ /\ migrating' = FALSE
        /\ idx' = [idx EXCEPT ![w] = NextExtent(cur[w], list[w], @ + 1)]
        /\ Goto(w, TakeOrSync(idx'[w]))
        /\ UNCHANGED <<busy, target>>
  /\ UNCHANGED <<wp, used, gen, tokenVars, fileVars, todo, cur, list, scan, jobs, ops>>

-----------------------------------------------------------------------------
(* Copying                                                                  *)

(* MigrateData; nobody looks whether it worked.                             *)
MigrateData(w) ==
  /\ pc[w] = "copy"
  /\ \/ wp' = [wp EXCEPT ![target[w]] = @ + 1] /\ Goto(w, "check")
     \/ "copy" \in Faults /\ Goto(w, "checkfailed") /\ UNCHANGED wp
  /\ UNCHANGED <<busy, used, gen, tokenVars, migrating, mtx, fileVars, workVars, target,
                 scan, jobs, ops>>

AdoptUncounted(z) == UNCHANGED used

Adopt(z) == used' = [used EXCEPT ![z] = @ + 1]

(* The extent in the list now lies where target_start was, unless the name  *)
(* is gone from files_: then no more extents are moved.  GetFileNoLock is   *)
(* called without files_mtx_, and a deletion that fails to persist takes    *)
(* the name out for a moment.                                               *)
CheckFile(w) ==
  /\ pc[w] \in {"check", "checkfailed"}
  /\ LET f == cur[w].file
         z == target[w]
         off == IF pc[w] = "check" THEN wp[z] ELSE wp[z] + 1
         found == alive[f] /\ name[f] = cur[w].name IN
     \/ /\ found
        /\ Adopt(z)
        /\ list' = [list EXCEPT ![w][idx[w]] = [zone |-> z, off |-> off, gen |-> gen[z]]]
        /\ Goto(w, "release")
     \/ /\ ~found \/ "persist" \in Faults
        /\ Goto(w, "abort")
        /\ UNCHANGED <<used, list>>
  /\ UNCHANGED <<busy, wp, gen, tokenVars, migrating, mtx, fileVars, todo, cur, idx,
                 target, scan, jobs, ops>>

GotoWithoutNotify(w, there) == Goto(w, there)

(* w goes there and migrate_resource_.notify_one() wakes the other worker.  *)
NotifyAndGoto(w, there) ==
  pc' = [u \in Workers |-> IF u = w THEN there ELSE IF pc[u] = "asleep" THEN "take" ELSE pc[u]]

(* ReleaseMigrateZone, with the zone that was filled or with nullptr.       *)
ReleaseMigrateZone(w) ==
  /\ pc[w] \in {"release", "abort", "giveup"} /\ mtx = Nobody
  /\ migrating' = FALSE
  /\ busy' = [z \in Zone |-> busy[z] /\ z # target[w]]
  /\ target' = [target EXCEPT ![w] = NoZone]
  /\ idx' = [idx EXCEPT ![w] =
               IF pc[w] = "abort" THEN 0 ELSE NextExtent(cur[w], list[w], @ + 1)]
  /\ NotifyAndGoto(w, TakeOrSync(idx'[w]))
  /\ UNCHANGED <<wp, used, gen, tokenVars, mtx, fileVars, todo, cur, list, scan, jobs, ops>>

-----------------------------------------------------------------------------
(* SyncFileExtents                                                          *)

(* WriteLock: no new readers from here on.                                  *)
LockExtents(w) ==
  /\ pc[w] = "sync"
  /\ Goto(w, "replace")
  /\ UNCHANGED <<zoneVars, tokenVars, migrating, mtx, fileVars, workVars, target, scan, jobs, ops>>

(* ReplaceExtentList and MetadataUnsynced                                   *)
ReplaceExtentList(w) ==
  LET f == cur[w].file IN
  /\ pc[w] = "replace" /\ readers[f] = 0
  /\ exts' = [exts EXCEPT ![f] = list[w]]
  /\ list' = [list EXCEPT ![w] = exts[f]]
  /\ synced' = [synced EXCEPT ![f] = FALSE]
  /\ Goto(w, "persist")
  /\ UNCHANGED <<zoneVars, tokenVars, migrating, mtx, alive, name, durable, wr, readers,
                 todo, cur, idx, target, scan, jobs, ops>>

(* SyncFileMetadata(zoneFile, true): a deleted file has no record, and the  *)
(* record that replaces the extents holds those not synced yet.             *)
SyncFileMetadata(w) ==
  LET f == cur[w].file IN
  /\ pc[w] = "persist"
  /\ \/ /\ alive[f]
        /\ durable' = [durable EXCEPT ![f] = IF synced[f] THEN <<>> ELSE exts[f]]
        /\ synced' = [synced EXCEPT ![f] = TRUE]
        /\ Goto(w, "free")
     \/ /\ ~alive[f]
        /\ Goto(w, "free")
        /\ UNCHANGED <<durable, synced>>
     \/ /\ alive[f] /\ "persist" \in Faults
        /\ Goto(w, "unlock")
        /\ UNCHANGED <<durable, synced>>
  /\ UNCHANGED <<zoneVars, tokenVars, migrating, mtx, alive, name, exts, wr, readers,
                 workVars, target, scan, jobs, ops>>

ChangedAll(w) == DOMAIN list[w]

(* The old extents that are not in the new list.                            *)
Changed(w) == {i \in DOMAIN list[w] : Start(list[w][i]) # Start(exts[cur[w].file][i])}

FreeOldExtents(w) ==
  /\ pc[w] = "free"
  /\ used' = [z \in Zone |-> used[z] - Cardinality({i \in Changed(w) : list[w][i].zone = z})]
  /\ Goto(w, "unlock")
  /\ UNCHANGED <<busy, wp, gen, tokenVars, migrating, mtx, fileVars, workVars, target, scan,
                 jobs, ops>>

(* ReleaseWRLock, and the reference to the file goes; then MigrateExtents   *)
(* resets the zones that are no longer used.                                *)
ReleaseWRLock(w) ==
  LET f == cur[w].file IN
  /\ pc[w] = "unlock"
  /\ wr' = [wr EXCEPT ![f] = Nobody]
  /\ DropReference(f, ~alive[f] /\ readers[f] = 0)
  /\ cur' = [cur EXCEPT ![w] = NoFile]
  /\ list' = [list EXCEPT ![w] = <<>>]
  /\ idx' = [idx EXCEPT ![w] = 0]
  /\ Goto(w, "reset")
  /\ scan' = [scan EXCEPT ![w] = 1]
  /\ UNCHANGED <<busy, wp, gen, tokenVars, migrating, mtx, alive, name, durable, synced,
                 readers, todo, target, jobs, ops>>

-----------------------------------------------------------------------------
Worker(w) ==
  \/ OpenForMigration(w)
  \/ SleepWhileMigrating(w) \/ TakeMigrateZone(w) \/ GetMigrateTargetZone(w)
  \/ WaitForOpenIOZoneToken(w) \/ SearchEmptyZone(w) \/ SearchOpenZone(w)
  \/ MigrateData(w) \/ CheckFile(w) \/ ReleaseMigrateZone(w)
  \/ LockExtents(w) \/ ReplaceExtentList(w) \/ SyncFileMetadata(w) \/ FreeOldExtents(w)
  \/ ReleaseWRLock(w) \/ ScanReset(w)

Next ==
  \/ \E f \in Files : DeleteFile(f) \/ RenameFile(f) \/ StartRead(f) \/ EndRead(f)
  \/ ScanReset(Client)
  \/ GCWorker \/ WLWorker
  \/ \E w \in Workers : Worker(w)

Spec == Init /\ [][Next]_vars

(* Threads run, and a read ends.                                            *)
Fairness ==
  /\ \A w \in Workers : WF_vars(Worker(w))
  /\ WF_vars(ScanReset(Client))
  /\ \A f \in Files : WF_vars(EndRead(f))

FairSpec == Spec /\ Fairness

-----------------------------------------------------------------------------
(* Properties                                                               *)

Pcs == {"idle", "next", "take", "asleep", "giveup", "token", "search", "search2", "copy",
        "check", "checkfailed", "release", "abort", "sync", "replace", "persist", "free",
        "unlock", "reset"}

(* The variables keep their types: no zone is written past its capacity by  *)
(* MigrateData, which does not look, and used_capacity_ does not wrap.      *)
TypeOK ==
  /\ busy \in [Zone -> BOOLEAN]
  /\ wp \in [Zone -> 0..ZoneCap]
  /\ used \in [Zone -> Nat] /\ gen \in [Zone -> Nat]
  /\ open \in Nat /\ active \in Int
  /\ migrating \in BOOLEAN /\ mtx \in Workers \cup {Nobody}
  /\ wr \in [Files -> Workers \cup {Nobody}]
  /\ readers \in [Files -> 0..MaxReaders]
  /\ pc \in [Workers -> Pcs]
  /\ target \in [Workers -> Zone \cup {NoZone}]
  /\ scan \in [Actors -> 0..NrIOZones]

Intact(e) == gen[e.zone] = e.gen /\ e.off <= wp[e.zone]

(* However migrations, deletions, reads and resets interleave, and though   *)
(* SyncFileExtents swaps the extents before it persists them, every extent  *)
(* of a file in memory, and every extent that a mount would find in the     *)
(* metadata log, is still there: its zone was not reset since.              *)
DataIntact ==
  \A f \in Files : \A e \in Range(exts[f]) \cup Range(durable[f]) : Intact(e)

(* The blocks that count: of every file the extents it has, and of a file   *)
(* on the move the copies made so far or the originals not yet given up.    *)
Counted(z) ==
  LET moved(w) == IF cur[w] = NoFile \/ pc[w] = "unlock" THEN {}
                  ELSE {i \in DOMAIN list[w] : /\ list[w][i] # exts[cur[w].file][i]
                                               /\ list[w][i].zone = z} IN
  Cardinality({s \in Files \X (1..MaxExtents) :
                 s[2] \in DOMAIN exts[s[1]] /\ exts[s[1]][s[2]].zone = z})
  + Cardinality({s \in Workers \X (1..MaxExtents) : s[2] \in moved(s[1])})

(* used_capacity_ is exactly what live extents, copies under way and        *)
(* originals not yet given up occupy: no zone is reset too early and none   *)
(* is kept for ever.                                                        *)
UsedCapacityExact == \A z \in Zone : used[z] = Counted(z)

(* No two workers fill the same zone, whatever becomes of migrating_.       *)
TargetsExclusive ==
  /\ \A w, u \in Workers : w # u /\ target[w] # NoZone => target[w] # target[u]
  /\ \A z \in Zone : busy[z] <=> \E w \in Workers : target[w] = z

(* The partly written zones never outnumber the active tokens, which never  *)
(* pass the limit, although a migration writes to zones without closing     *)
(* them.                                                                    *)
ActiveZonesBounded ==
  Cardinality({z \in Zone : Partial(z) \/ (wp[z] = 0 /\ busy[z])}) <= active
  /\ active <= MaxActive

(* A worker that has set out comes to an end: migrate_resource_ loses no    *)
(* wake-up and nobody waits for a lock that is not given back.              *)
MigrationEnds == \A w \in Workers : pc[w] = "next" ~> pc[w] = "idle"

Quiet == \A w \in Workers : pc[w] = "idle"

(* After the migrations every open token has been given back.               *)
OpenTokensReturned == Quiet => open = 0

=============================================================================
