-------------------------- MODULE ZonedBlockDevice --------------------------
(***************************************************************************)
(* The IO-zone allocator of ZenFS: class Zone and class ZonedBlockDevice   *)
(* (fs/zbd_zenfs.{h,cc}), driven by the files that write through it        *)
(* (ZoneFile and ZonedWritableFile, fs/io_zenfs.cc).                       *)
(*                                                                         *)
(* Every writer is a thread that opens a file, appends to it, closes it    *)
(* and deletes it, again and again.  Zones are protected by nothing but    *)
(* their busy_ flag, and every search for a zone visits the IO zones one   *)
(* at a time: take busy_, look at the zone, keep it or let it go.  Each of *)
(* those is a step of its own, so that every thread can see the zones the  *)
(* others hold only for a moment.  Sizes are counted in device blocks.     *)
(***************************************************************************)
EXTENDS Integers, FiniteSets, Functions

CONSTANTS
  NrIOZones,        \* number of IO zones of the device
  ZoneCap,          \* max_capacity_ of a zone, in blocks
  ZoneSize,         \* GetZoneSize(): where Finish leaves the write pointer
  Writers,          \* threads, each with one file at a time
  Wal,              \* the writers whose files have io_type_ kWAL
  Buffered,         \* the writers that use BufferedAppend/SparseAppend
  MaxOpen,          \* max_nr_open_io_zones_
  MaxActive,        \* max_nr_active_io_zones_
  FinishThreshold,  \* finish_threshold_, in percent
  Lifetimes,        \* lifetime hints files are opened with
  MaxAppend,        \* bound: blocks of one append
  MaxCalls,         \* bound: opens and appends of a writer
  Faults            \* the device and metadata errors that may happen

ASSUME DeviceAssumption ==
  /\ NrIOZones \in Nat \ {0}
  /\ ZoneCap \in Nat \ {0}
  /\ ZoneSize \in Nat /\ ZoneCap <= ZoneSize
  /\ MaxOpen \in Nat
  /\ MaxActive \in Nat
  /\ FinishThreshold \in 0..100

ASSUME WriterAssumption ==
  /\ IsFiniteSet(Writers)
  /\ Wal \subseteq Writers
  /\ Buffered \subseteq Writers
  /\ Lifetimes \subseteq 0..5

ASSUME BoundAssumption ==
  /\ MaxAppend \in Nat
  /\ MaxCalls \in Nat
  /\ Faults \subseteq {"reset", "offline", "finish", "close", "write"}

Zone == 1..NrIOZones
NoZone == 0

VARIABLES
  busy,        \* Zone::busy_
  wp,          \* Zone::wp_ - start_
  capacity,    \* Zone::capacity_, what is left to write
  used,        \* Zone::used_capacity_
  lifetime,    \* Zone::lifetime_
  resets,      \* Zone::reset_count_
  open,        \* open_io_zones_
  active,      \* active_io_zones_
  deferred,    \* zone_deferred_status_
  pc,          \* where each writer is
  job,         \* which search or which release it is in the middle of
  nxt,         \* the loop variable of the search
  cur,         \* the zone the search is looking at
  cand,        \* allocated_zone or finish_victim of the search
  diff,        \* best_diff of the search
  act,         \* active_zone_ of the writer's file
  hint,        \* lifetime_ of the writer's file
  left,        \* blocks of the current append still to write
  calls,       \* opens and appends issued so far
  unsynced,    \* file_size_ - extent_filepos_: written, in no extent yet
  ext          \* ext[t][z]: blocks of t's extents that lie in zone z

zoneVars  == <<busy, wp, capacity, used, lifetime, resets>>
tokenVars == <<open, active>>
searchVars == <<nxt, cur, cand, diff>>
fileVars  == <<act, hint, left, unsynced, ext>>
vars == <<zoneVars, tokenVars, deferred, pc, job, searchVars, fileVars, calls>>

-----------------------------------------------------------------------------
(* Zone predicates                                                          *)

IsUsed(z)  == used[z] > 0
IsFull(z)  == capacity[z] = 0
IsEmpty(z) == wp[z] = 0
Partial(z) == ~IsEmpty(z) /\ ~IsFull(z)

(* Env::WriteLifeTimeHint                                                   *)
NOT_SET == 0
SHORT   == 2

NotGood      == 100   \* LIFETIME_DIFF_NOT_GOOD
CouldBeWorse == 50    \* LIFETIME_DIFF_COULD_BE_WORSE

GetLifeTimeDiffUnordered(zl, fl) == IF zl = fl THEN CouldBeWorse ELSE zl - fl

GetLifeTimeDiff(zl, fl) ==
  IF fl < SHORT
    THEN IF zl = fl THEN 0 ELSE NotGood
    ELSE IF zl > fl THEN zl - fl
    ELSE IF zl = fl THEN CouldBeWorse
    ELSE NotGood

-----------------------------------------------------------------------------
Searches == {"threshold", "best", "cheapest", "empty", "reset"}
Jobs == Searches \cup {"none", "roll", "shut", "shutfull", "fail"}

Pcs == {"nofile", "ready", "append", "alloc", "scan", "token", "asleep",
        "active", "drop", "spin", "finish", "close", "putopen",
        "putactive", "dtor", "closed", "clear"}

(* The variables keep their types: no write pointer passes the end of its   *)
(* zone, no zone has room for less than nothing, and GetLifeTimeDiff, which *)
(* is unsigned in the code, never wraps.                                    *)
TypeOK ==
  /\ busy \in [Zone -> BOOLEAN]
  /\ wp \in [Zone -> 0..ZoneSize]
  /\ capacity \in [Zone -> 0..ZoneCap]
  /\ used \in [Zone -> Int]
  /\ lifetime \in [Zone -> 0..5]
  /\ resets \in [Zone -> Nat]
  /\ open \in Int
  /\ active \in Int
  /\ deferred \in {"ok", "error"}
  /\ pc \in [Writers -> Pcs]
  /\ job \in [Writers -> Jobs]
  /\ nxt \in [Writers -> 1..NrIOZones + 1]
  /\ cur \in [Writers -> Zone \cup {NoZone}]
  /\ cand \in [Writers -> Zone \cup {NoZone}]
  /\ diff \in [Writers -> 0..NotGood]
  /\ act \in [Writers -> Zone \cup {NoZone}]
  /\ hint \in [Writers -> 0..5]
  /\ left \in [Writers -> Nat]
  /\ unsynced \in [Writers -> Nat]
  /\ ext \in [Writers -> [Zone -> Nat]]
  /\ calls \in [Writers -> 0..MaxCalls]

(* Open() on an empty device: nothing is active, open or busy.              *)
Init ==
  /\ busy = [z \in Zone |-> FALSE]
  /\ wp = [z \in Zone |-> 0]
  /\ capacity = [z \in Zone |-> ZoneCap]
  /\ used = [z \in Zone |-> 0]
  /\ lifetime = [z \in Zone |-> NOT_SET]
  /\ resets = [z \in Zone |-> 0]
  /\ open = 0
  /\ active = 0
  /\ deferred = "ok"
  /\ pc = [t \in Writers |-> "nofile"]
  /\ job = [t \in Writers |-> "none"]
  /\ nxt = [t \in Writers |-> 1]
  /\ cur = [t \in Writers |-> NoZone]
  /\ cand = [t \in Writers |-> NoZone]
  /\ diff = [t \in Writers |-> NotGood]
  /\ act = [t \in Writers |-> NoZone]
  /\ hint = [t \in Writers |-> NOT_SET]
  /\ left = [t \in Writers |-> 0]
  /\ unsynced = [t \in Writers |-> 0]
  /\ ext = [t \in Writers |-> [z \in Zone |-> 0]]
  /\ calls = [t \in Writers |-> 0]

-----------------------------------------------------------------------------
(* Searches over io_zones                                                   *)

(* t starts the search what; its loop begins at the first zone.             *)
StartSearch(t, what) ==
  /\ pc' = [pc EXCEPT ![t] = "scan"]
  /\ job' = [job EXCEPT ![t] = what]
  /\ nxt' = [nxt EXCEPT ![t] = 1]
  /\ diff' = [diff EXCEPT ![t] = NotGood]

Goto(t, there) == pc' = [pc EXCEPT ![t] = there]

Searching(t, whats) == pc[t] = "scan" /\ job[t] \in whats

(* Zone::Acquire is a compare-and-swap of busy_; it fails on a busy zone.   *)
AcquirableWithoutTest(z) == TRUE

Acquirable(z) == ~busy[z]

(* z->Acquire() at the head of the loop body: a busy zone is passed over.   *)
ScanAcquire(t) ==
  /\ Searching(t, Searches)
  /\ cur[t] = NoZone
  /\ nxt[t] <= NrIOZones
  /\ IF Acquirable(nxt[t])
       THEN /\ busy' = [busy EXCEPT ![nxt[t]] = TRUE]
            /\ cur' = [cur EXCEPT ![t] = nxt[t]]
            /\ UNCHANGED nxt
       ELSE /\ nxt' = [nxt EXCEPT ![t] = @ + 1]
            /\ UNCHANGED <<busy, cur>>
  /\ UNCHANGED <<wp, capacity, used, lifetime, resets, tokenVars, deferred, pc,
                 job, cand, diff, fileVars>>

(* The zone in hand is better than the candidate of the search so far:      *)
(* GetBestOpenZoneMatch, FinishCheapestIOZone and AllocateEmptyZone.        *)
Preferred(t) ==
  LET z == cur[t] IN
  \/ /\ job[t] = "best"
     /\ IsUsed(z) /\ ~IsFull(z)
     /\ GetLifeTimeDiff(lifetime[z], hint[t]) <= diff[t]
  \/ /\ job[t] = "cheapest"
     /\ Partial(z)
     /\ cand[t] # NoZone => capacity[cand[t]] > capacity[z]
  \/ /\ job[t] = "empty"
     /\ IsEmpty(z)
     /\ cand[t] # NoZone => IF hint[t] < SHORT
                              THEN resets[z] > resets[cand[t]]
                              ELSE resets[z] < resets[cand[t]]

(* ApplyFinishThreshold finishes the zone in hand.                          *)
MustFinish(t) ==
  /\ job[t] = "threshold"
  /\ Partial(cur[t])
  /\ capacity[cur[t]] < (ZoneCap * FinishThreshold) \div 100

(* ResetUnusedIOZones resets the zone in hand.                              *)
MustResetUsed(t) == job[t] = "reset" /\ ~IsEmpty(cur[t])

MustReset(t) ==
  /\ job[t] = "reset"
  /\ ~IsEmpty(cur[t]) /\ ~IsUsed(cur[t])

(* A never reset zone ends the search for a zone with few resets.           *)
StopsSearch(t) ==
  job[t] = "empty" /\ hint[t] >= SHORT /\ resets[cur[t]] = 0

ScanKeep(t) ==
  /\ Searching(t, {"best", "cheapest", "empty"})
  /\ cur[t] # NoZone
  /\ Preferred(t)
  /\ busy' = [z \in Zone |-> busy[z] /\ z # cand[t]]
  /\ cand' = [cand EXCEPT ![t] = cur[t]]
  /\ cur' = [cur EXCEPT ![t] = NoZone]
  /\ diff' = [diff EXCEPT ![t] = IF job[t] = "best"
                THEN GetLifeTimeDiff(lifetime[cur[t]], hint[t]) ELSE @]
  /\ nxt' = [nxt EXCEPT ![t] = IF StopsSearch(t) THEN NrIOZones + 1 ELSE @ + 1]
  /\ UNCHANGED <<wp, capacity, used, lifetime, resets, tokenVars, deferred, pc,
                 job, fileVars>>

ScanPass(t) ==
  /\ Searching(t, Searches)
  /\ cur[t] # NoZone
  /\ ~(Preferred(t) \/ MustFinish(t) \/ MustReset(t))
  /\ busy' = [busy EXCEPT ![cur[t]] = FALSE]
  /\ cur' = [cur EXCEPT ![t] = NoZone]
  /\ nxt' = [nxt EXCEPT ![t] = @ + 1]
  /\ UNCHANGED <<wp, capacity, used, lifetime, resets, tokenVars, deferred, pc,
                 job, cand, diff, fileVars>>

(* Zone::Finish and Zone::Reset, when the device obeys.                     *)
Finish(z) ==
  /\ capacity' = [capacity EXCEPT ![z] = 0]
  /\ wp' = [wp EXCEPT ![z] = ZoneSize]
  /\ UNCHANGED <<used, lifetime, resets>>

Reset(z, offline) ==
  /\ capacity' = [capacity EXCEPT ![z] = IF offline THEN 0 ELSE ZoneCap]
  /\ wp' = [wp EXCEPT ![z] = 0]
  /\ lifetime' = [lifetime EXCEPT ![z] = NOT_SET]
  /\ resets' = [resets EXCEPT ![z] = @ + 1]
  /\ UNCHANGED used

(* The append or the deletion t is in returns an error to its caller.       *)
Fail(t) ==
  /\ Goto(t, IF job[t] = "reset" THEN "nofile" ELSE "ready")
  /\ job' = [job EXCEPT ![t] = "none"]
  /\ nxt' = [nxt EXCEPT ![t] = 1]
  /\ left' = [left EXCEPT ![t] = 0]

(* The loop body of ApplyFinishThreshold that finishes its zone.            *)
ScanFinish(t) ==
  /\ Searching(t, {"threshold"})
  /\ cur[t] # NoZone
  /\ MustFinish(t)
  /\ busy' = [busy EXCEPT ![cur[t]] = FALSE]
  /\ cur' = [cur EXCEPT ![t] = NoZone]
  /\ \/ /\ Finish(cur[t])
        /\ Goto(t, "putactive")
        /\ nxt' = [nxt EXCEPT ![t] = @ + 1]
        /\ UNCHANGED <<job, left>>
     \/ /\ "finish" \in Faults
        /\ Fail(t)
        /\ UNCHANGED <<wp, capacity, used, lifetime, resets>>
  /\ UNCHANGED <<tokenVars, deferred, cand, diff, act, hint, unsynced, ext>>

(* Only a zone that was not full still has an active token to give back.    *)
AfterResetAlwaysPut(t) == "putactive"
AfterResetNeverPut(t)  == "scan"

AfterReset(t) == IF IsFull(cur[t]) THEN "scan" ELSE "putactive"

(* The loop body of ResetUnusedIOZones that resets its zone.                *)
ScanReset(t) ==
  /\ Searching(t, {"reset"})
  /\ cur[t] # NoZone
  /\ MustReset(t)
  /\ busy' = [busy EXCEPT ![cur[t]] = FALSE]
  /\ cur' = [cur EXCEPT ![t] = NoZone]
  /\ \/ /\ \E offline \in {FALSE} \cup {TRUE : f \in Faults \cap {"offline"}} :
             Reset(cur[t], offline)
        /\ Goto(t, AfterReset(t))
        /\ nxt' = [nxt EXCEPT ![t] = @ + 1]
        /\ UNCHANGED <<job, left>>
     \/ /\ "reset" \in Faults
        /\ Fail(t)
        /\ UNCHANGED <<wp, capacity, used, lifetime, resets>>
  /\ UNCHANGED <<tokenVars, deferred, cand, diff, act, hint, unsynced, ext>>

SearchEnded(t, what) ==
  /\ Searching(t, {what})
  /\ cur[t] = NoZone
  /\ nxt[t] > NrIOZones

-----------------------------------------------------------------------------
(* Tokens: zone_resources_mtx_, zone_resources_                             *)

OpenLimitOffByOne(t)  == IF t \in Wal THEN MaxOpen + 1 ELSE MaxOpen
OpenLimitUnreserved(t) == MaxOpen

OpenLimit(t) == IF t \in Wal THEN MaxOpen ELSE MaxOpen - 1

Asleep == {t \in Writers : pc[t] = "asleep"}

GotoWithoutNotify(t, there) == Goto(t, there)

(* t goes there and notify_one() wakes some sleeper, if there is one.       *)
NotifyAndGoto(t, there) ==
  \/ /\ Asleep = {}
     /\ Goto(t, there)
  \/ \E u \in Asleep : pc' = [pc EXCEPT ![u] = "token", ![t] = there]

(* WaitForOpenIOZoneToken: the predicate of the wait, on entry or on waking.*)
WaitForOpenIOZoneToken(t) ==
  /\ pc[t] = "token"
  /\ IF open < OpenLimit(t)
       THEN /\ open' = open + 1
            /\ StartSearch(t, "best")
       ELSE /\ Goto(t, "asleep")
            /\ UNCHANGED <<open, job, nxt, diff>>
  /\ UNCHANGED <<zoneVars, active, deferred, cur, cand, fileVars>>

PutOpenIOZoneToken(t) ==
  /\ pc[t] = "putopen"
  /\ open' = open - 1
  /\ NotifyAndGoto(t, CASE job[t] \in {"roll", "shutfull"} -> "putactive"
                        [] job[t] = "shut" -> "closed"
                        [] OTHER -> "ready")
  /\ job' = [job EXCEPT ![t] = IF @ \in {"shut", "fail"} THEN "none" ELSE @]
  /\ UNCHANGED <<zoneVars, active, deferred, searchVars, fileVars>>

PutActiveIOZoneToken(t) ==
  /\ pc[t] = "putactive"
  /\ active' = active - 1
  /\ NotifyAndGoto(t, CASE job[t] \in {"threshold", "reset"} -> "scan"
                        [] job[t] = "cheapest" -> "spin"
                        [] job[t] = "empty" -> "putopen"
                        [] job[t] = "roll" -> "alloc"
                        [] OTHER -> "closed")
  /\ job' = [job EXCEPT ![t] = CASE @ \in {"roll", "shutfull"} -> "none"
                                 [] @ = "empty" -> "fail"
                                 [] OTHER -> @]
  /\ left' = [left EXCEPT ![t] = IF job[t] = "empty" THEN 0 ELSE @]
  /\ UNCHANGED <<zoneVars, open, deferred, searchVars, act, hint, unsynced, ext>>

-----------------------------------------------------------------------------
(* AllocateIOZone                                                           *)

(* The deferred status, and for anything but a WAL the finish threshold.    *)
AllocateIOZone(t) ==
  /\ pc[t] = "alloc"
  /\ IF deferred # "ok"
       THEN Fail(t) /\ UNCHANGED diff
       ELSE /\ IF t \in Wal \/ FinishThreshold = 0
                 THEN Goto(t, "token") /\ UNCHANGED <<job, nxt, diff>>
                 ELSE StartSearch(t, "threshold")
            /\ UNCHANGED left
  /\ UNCHANGED <<zoneVars, tokenVars, deferred, cur, cand, act, hint, unsynced, ext>>

ThresholdDone(t) ==
  /\ SearchEnded(t, "threshold")
  /\ Goto(t, "token")
  /\ job' = [job EXCEPT ![t] = "none"]
  /\ nxt' = [nxt EXCEPT ![t] = 1]
  /\ UNCHANGED <<zoneVars, tokenVars, deferred, cur, cand, diff, fileVars>>

(* AllocateNewZone: the zone found becomes the active zone of t's file.     *)
SetActiveZone(t) ==
  /\ act' = [act EXCEPT ![t] = cand[t]]
  /\ cand' = [cand EXCEPT ![t] = NoZone]
  /\ diff' = [diff EXCEPT ![t] = NotGood]
  /\ nxt' = [nxt EXCEPT ![t] = 1]
  /\ job' = [job EXCEPT ![t] = "none"]
  /\ Goto(t, "append")
  /\ UNCHANGED <<hint, left, unsynced, ext>>

BestMatchDone(t) ==
  /\ SearchEnded(t, "best")
  /\ IF diff[t] < CouldBeWorse
       THEN SetActiveZone(t)
       ELSE /\ Goto(t, "active")
            /\ nxt' = [nxt EXCEPT ![t] = 1]
            /\ UNCHANGED <<job, cand, diff, fileVars>>
  /\ UNCHANGED <<zoneVars, tokenVars, deferred, cur>>

(* The first GetActiveIOZoneTokenIfAvailable(): without a token a zone of   *)
(* the same lifetime will do, otherwise the candidate is given up.          *)
TryActiveToken(t) ==
  /\ pc[t] = "active"
  /\ IF active < MaxActive
       THEN /\ active' = active + 1
            /\ job' = [job EXCEPT ![t] = "empty"]
            /\ Goto(t, "drop")
            /\ UNCHANGED <<nxt, cand, diff, fileVars>>
       ELSE /\ UNCHANGED active
            /\ IF cand[t] # NoZone /\ diff[t] = CouldBeWorse
                 THEN SetActiveZone(t)
                 ELSE /\ job' = [job EXCEPT ![t] = "cheapest"]
                      /\ Goto(t, "drop")
                      /\ UNCHANGED <<nxt, cand, diff, fileVars>>
  /\ UNCHANGED <<zoneVars, open, deferred, cur>>

DropCandidate(t) ==
  /\ pc[t] = "drop"
  /\ busy' = [z \in Zone |-> busy[z] /\ z # cand[t]]
  /\ cand' = [cand EXCEPT ![t] = NoZone]
  /\ diff' = [diff EXCEPT ![t] = NotGood]
  /\ Goto(t, IF job[t] = "empty" THEN "scan" ELSE "spin")
  /\ UNCHANGED <<wp, capacity, used, lifetime, resets, tokenVars, deferred, job,
                 nxt, cur, fileVars>>

(* while (!got_token && !GetActiveIOZoneTokenIfAvailable())                 *)
(*   FinishCheapestIOZone()                                                 *)
SpinForActiveToken(t) ==
  /\ pc[t] = "spin"
  /\ IF active < MaxActive
       THEN active' = active + 1 /\ StartSearch(t, "empty")
       ELSE UNCHANGED active /\ StartSearch(t, "cheapest")
  /\ UNCHANGED <<zoneVars, open, deferred, cur, cand, fileVars>>

CheapestDone(t) ==
  /\ SearchEnded(t, "cheapest")
  /\ Goto(t, IF cand[t] = NoZone THEN "spin" ELSE "finish")
  /\ nxt' = [nxt EXCEPT ![t] = 1]
  /\ UNCHANGED <<zoneVars, tokenVars, deferred, job, cur, cand, diff, fileVars>>

FinishVictim(t) ==
  /\ pc[t] = "finish"
  /\ busy' = [busy EXCEPT ![cand[t]] = FALSE]
  /\ cand' = [cand EXCEPT ![t] = NoZone]
  /\ \/ /\ Finish(cand[t])
        /\ Goto(t, "putactive")
        /\ UNCHANGED <<job, left>>
     \/ /\ "finish" \in Faults
        /\ Goto(t, "putopen")
        /\ job' = [job EXCEPT ![t] = "fail"]
        /\ left' = [left EXCEPT ![t] = 0]
        /\ UNCHANGED <<wp, capacity, used, lifetime, resets>>
  /\ UNCHANGED <<tokenVars, deferred, nxt, cur, diff, act, hint, unsynced, ext>>

EmptyZoneDone(t) ==
  /\ SearchEnded(t, "empty")
  /\ IF cand[t] # NoZone
       THEN /\ lifetime' = [lifetime EXCEPT ![cand[t]] = hint[t]]
            /\ SetActiveZone(t)
       ELSE /\ Goto(t, "putactive")
            /\ nxt' = [nxt EXCEPT ![t] = 1]
            /\ UNCHANGED <<lifetime, job, cand, diff, fileVars>>
  /\ UNCHANGED <<busy, wp, capacity, used, resets, tokenVars, deferred, cur>>

-----------------------------------------------------------------------------
(* Files                                                                    *)

(* The bound on what a client asks for.                                     *)
CountCall(t) ==
  /\ calls[t] < MaxCalls
  /\ calls' = [calls EXCEPT ![t] = @ + 1]

OpenWritableFile(t) ==
  /\ pc[t] = "nofile"
  /\ CountCall(t)
  /\ \E l \in Lifetimes : hint' = [hint EXCEPT ![t] = l]
  /\ Goto(t, "ready")
  /\ UNCHANGED <<zoneVars, tokenVars, deferred, job, searchVars, act, left,
                 unsynced, ext>>

ReopenWritableFile(t) ==
  /\ pc[t] = "closed"
  /\ CountCall(t)
  /\ Goto(t, "ready")
  /\ UNCHANGED <<zoneVars, tokenVars, deferred, job, searchVars, fileVars>>

Append(t) ==
  /\ pc[t] = "ready"
  /\ CountCall(t)
  /\ \E n \in 1..MaxAppend : left' = [left EXCEPT ![t] = n]
  /\ Goto(t, "append")
  /\ UNCHANGED <<zoneVars, tokenVars, deferred, job, searchVars, act, hint,
                 unsynced, ext>>

AddExtentOverwrites(t, n) ==
  /\ used' = [used EXCEPT ![act[t]] = @ + n]
  /\ ext' = [ext EXCEPT ![t][act[t]] = n]

(* n blocks of the active zone become (part of) an extent of the file.      *)
AddExtent(t, n) ==
  /\ used' = [used EXCEPT ![act[t]] = @ + n]
  /\ ext' = [ext EXCEPT ![t][act[t]] = @ + n]

PushExtent(t) ==
  /\ IF act[t] = NoZone THEN UNCHANGED <<used, ext>> ELSE AddExtent(t, unsynced[t])
  /\ unsynced' = [unsynced EXCEPT ![t] = 0]

(* The loop of ZoneFile::Append, BufferedAppend and SparseAppend, one turn: *)
(* get a zone, leave a full one, or write what the zone can take.  A direct *)
(* append leaves a full zone when it has more to write, a buffered one as   *)
(* soon as it has filled it.                                                *)
AppendNeedsZone(t) ==
  /\ pc[t] = "append" /\ act[t] = NoZone
  /\ Goto(t, "alloc")
  /\ UNCHANGED <<zoneVars, tokenVars, deferred, job, searchVars, fileVars>>

AppendReturns(t) ==
  /\ pc[t] = "append" /\ act[t] # NoZone /\ left[t] = 0
  /\ Goto(t, "ready")
  /\ UNCHANGED <<zoneVars, tokenVars, deferred, job, searchVars, fileVars>>

AppendLeavesFullZone(t) ==
  /\ pc[t] = "append" /\ act[t] # NoZone /\ left[t] > 0
  /\ t \notin Buffered
  /\ IsFull(act[t])
  /\ PushExtent(t)
  /\ Goto(t, "close")
  /\ job' = [job EXCEPT ![t] = "roll"]
  /\ UNCHANGED <<busy, wp, capacity, lifetime, resets, tokenVars, deferred,
                 searchVars, act, hint, left>>

WriteSize(t) == IF left[t] < capacity[act[t]] THEN left[t] ELSE capacity[act[t]]

AppendWrites(t) ==
  /\ pc[t] = "append" /\ act[t] # NoZone /\ left[t] > 0
  /\ t \in Buffered \/ ~IsFull(act[t])
  /\ wp' = [wp EXCEPT ![act[t]] = @ + WriteSize(t)]
  /\ capacity' = [capacity EXCEPT ![act[t]] = @ - WriteSize(t)]
  /\ left' = [left EXCEPT ![t] = @ - WriteSize(t)]
  /\ IF t \in Buffered
       THEN /\ AddExtent(t, WriteSize(t))
            /\ Goto(t, IF WriteSize(t) = capacity[act[t]] THEN "close" ELSE "append")
            /\ job' = [job EXCEPT ![t] =
                         IF WriteSize(t) = capacity[act[t]] THEN "roll" ELSE @]
            /\ UNCHANGED unsynced
       ELSE /\ unsynced' = [unsynced EXCEPT ![t] = @ + WriteSize(t)]
            /\ UNCHANGED <<used, ext, pc, job>>
  /\ UNCHANGED <<busy, lifetime, resets, tokenVars, deferred, searchVars, act, hint>>

(* The write, or the persisting of the new active zone before it, fails.    *)
AppendFails(t) ==
  /\ pc[t] = "append" /\ act[t] # NoZone /\ left[t] > 0
  /\ "write" \in Faults
  /\ Goto(t, "ready")
  /\ left' = [left EXCEPT ![t] = 0]
  /\ UNCHANGED <<zoneVars, tokenVars, deferred, job, searchVars, act, hint,
                 unsynced, ext>>

(* Fsync and the other syncs: DataSync of a direct file.                    *)
Fsync(t) ==
  /\ pc[t] = "ready"
  /\ unsynced[t] > 0
  /\ PushExtent(t)
  /\ UNCHANGED <<busy, wp, capacity, lifetime, resets, tokenVars, deferred, pc,
                 job, searchVars, act, hint, left>>

(* CloseInternal: DataSync, then CloseWR, which closes the active zone.     *)
CloseFile(t) ==
  /\ pc[t] = "ready"
  /\ PushExtent(t)
  /\ IF act[t] = NoZone
       THEN Goto(t, "closed") /\ UNCHANGED job
       ELSE Goto(t, "close") /\ job' = [job EXCEPT ![t] = "shut"]
  /\ UNCHANGED <<busy, wp, capacity, lifetime, resets, tokenVars, deferred,
                 searchVars, act, hint, left>>

(* CloseActiveZone up to its tokens.  When the device fails to close the    *)
(* zone the function returns before it gives its tokens back.               *)
CloseActiveZone(t) ==
  /\ pc[t] = "close"
  /\ busy' = [busy EXCEPT ![act[t]] = FALSE]
  /\ act' = [act EXCEPT ![t] = NoZone]
  /\ \/ /\ Goto(t, "putopen")
        /\ job' = [job EXCEPT ![t] =
                     IF @ = "shut" /\ IsFull(act[t]) THEN "shutfull" ELSE @]
        /\ UNCHANGED left
     \/ /\ "close" \in Faults
        /\ Partial(act[t])
        /\ Goto(t, IF job[t] = "shut" THEN "dtor" ELSE "ready")
        /\ job' = [job EXCEPT ![t] = "none"]
        /\ left' = [left EXCEPT ![t] = 0]
  /\ UNCHANGED <<wp, capacity, used, lifetime, resets, tokenVars, deferred,
                 searchVars, hint, unsynced, ext>>

(* ~ZonedWritableFile hands a failed close to SetZoneDeferredStatus, which  *)
(* stores a status only over one that is already an error.                  *)
SetZoneDeferredStatus(t) ==
  /\ pc[t] = "dtor"
  /\ deferred' = IF deferred # "ok" THEN "error" ELSE deferred
  /\ Goto(t, "closed")
  /\ UNCHANGED <<zoneVars, tokenVars, job, searchVars, fileVars>>

DeleteFile(t) ==
  /\ pc[t] = "closed"
  /\ Goto(t, "clear")
  /\ UNCHANGED <<zoneVars, tokenVars, deferred, job, searchVars, fileVars>>

(* ~ZoneFile: the extents give their space back one at a time.              *)
ClearExtent(t) ==
  /\ pc[t] = "clear"
  /\ \E z \in Zone :
       /\ ext[t][z] > 0
       /\ used' = [used EXCEPT ![z] = @ - ext[t][z]]
       /\ ext' = [ext EXCEPT ![t][z] = 0]
  /\ UNCHANGED <<busy, wp, capacity, lifetime, resets, tokenVars, deferred, pc,
                 job, searchVars, act, hint, left, unsynced>>

ResetUnusedIOZones(t) ==
  /\ pc[t] = "clear"
  /\ \A z \in Zone : ext[t][z] = 0
  /\ StartSearch(t, "reset")
  /\ hint' = [hint EXCEPT ![t] = NOT_SET]
  /\ UNCHANGED <<zoneVars, tokenVars, deferred, cur, cand, act, left, unsynced, ext>>

ResetDone(t) ==
  /\ SearchEnded(t, "reset")
  /\ Goto(t, "nofile")
  /\ job' = [job EXCEPT ![t] = "none"]
  /\ nxt' = [nxt EXCEPT ![t] = 1]
  /\ UNCHANGED <<zoneVars, tokenVars, deferred, cur, cand, diff, fileVars>>

-----------------------------------------------------------------------------
Search(t) == \/ ScanAcquire(t) \/ ScanKeep(t) \/ ScanPass(t)
             \/ ScanFinish(t) \/ ScanReset(t)

Allocate(t) == \/ AllocateIOZone(t) \/ ThresholdDone(t)
               \/ WaitForOpenIOZoneToken(t)
               \/ BestMatchDone(t) \/ TryActiveToken(t) \/ DropCandidate(t)
               \/ SpinForActiveToken(t) \/ CheapestDone(t) \/ FinishVictim(t)
               \/ EmptyZoneDone(t)
               \/ PutOpenIOZoneToken(t) \/ PutActiveIOZoneToken(t)

Write(t) == \/ AppendNeedsZone(t) \/ AppendReturns(t)
            \/ AppendLeavesFullZone(t) \/ AppendWrites(t) \/ AppendFails(t)

Reclaim(t) == \/ ClearExtent(t) \/ ResetUnusedIOZones(t) \/ ResetDone(t)

Close(t) == CloseFile(t) \/ CloseActiveZone(t) \/ SetZoneDeferredStatus(t)

Step(t) ==
  /\ Search(t) \/ Allocate(t) \/ Write(t) \/ Reclaim(t) \/ Close(t)
  /\ UNCHANGED calls

(* What a client decides to do with its file.                               *)
Call(t) == \/ OpenWritableFile(t) \/ ReopenWritableFile(t) \/ Append(t)
           \/ (Fsync(t) \/ DeleteFile(t)) /\ UNCHANGED calls

Next == \E t \in Writers : Step(t) \/ Call(t)

Spec == Init /\ [][Next]_vars

(* A thread that can take a step of the code takes one, and a client        *)
(* eventually closes the file it writes; nothing makes it open or append.   *)
FairSpec == Spec /\ \A t \in Writers : WF_vars(Step(t))

-----------------------------------------------------------------------------
(* Properties                                                               *)

Holds(t) == {cur[t], cand[t], act[t]} \ {NoZone}

(* busy_ is the only lock of a zone.  A zone is busy exactly when one       *)
(* thread holds it, as the zone its search looks at, its candidate or its   *)
(* active zone; no two threads, and no two roles of a thread, share a zone, *)
(* however the searches, finishes, resets and closes interleave.            *)
ZoneExclusive ==
  /\ \A z \in Zone : busy[z] <=> \E t \in Writers : z \in Holds(t)
  /\ \A t, u \in Writers : t # u => Holds(t) \cap Holds(u) = {}
  /\ \A t \in Writers : /\ cur[t] # NoZone => cur[t] \notin {cand[t], act[t]}
                        /\ cand[t] # NoZone => cand[t] # act[t]

(* The threads between WaitForOpenIOZoneToken and PutOpenIOZoneToken.       *)
HoldsOpenToken(t) ==
  \/ act[t] # NoZone
  \/ Searching(t, {"best", "cheapest", "empty"})
  \/ pc[t] \in {"active", "drop", "spin", "finish", "putopen"}
  \/ pc[t] = "putactive" /\ job[t] \in {"cheapest", "empty"}

OpenHolders == {t \in Writers : HoldsOpenToken(t)}

(* open_io_zones_ never undercounts the threads that hold an open token and *)
(* never passes the limit, so that the device's limit on open zones is kept *)
(* even though CloseActiveZone releases the zone before the token.          *)
OpenZonesBounded ==
  Cardinality(OpenHolders) <= open /\ open <= MaxOpen

(* WaitForOpenIOZoneToken keeps one open zone back for prioritized callers: *)
(* allocators of anything but a WAL never hold all of them together.        *)
WalSlotReserved ==
  OpenHolders \ Wal # {} => Cardinality(OpenHolders \ Wal) < MaxOpen

(* active_io_zones_ never undercounts the zones that are partly written     *)
(* (those the device counts as active) and never passes its limit, although *)
(* finishing, resetting and filling a zone all give the token back only     *)
(* after the zone is free for others.                                       *)
ActiveZonesBounded ==
  Cardinality({z \in Zone : Partial(z)}) <= active /\ active <= MaxActive

(* used_capacity_ is exactly what the extents of the files occupy, and no   *)
(* extent lies beyond what was written to its zone.                         *)
UsedCapacityIsLive ==
  \A z \in Zone :
    /\ used[z] = SumFunction([t \in Writers |-> ext[t][z]])
    /\ used[z] + SumFunction([t \in Writers |-> IF act[t] = z THEN unsynced[t] ELSE 0])
         <= wp[z]

(* A zone is reset only when no file has an extent in it and none is being  *)
(* written to it, by whichever thread and however long after the deletion   *)
(* the reset comes.                                                         *)
ResetSparesLiveData ==
  [][\A z \in Zone : wp[z] > 0 /\ wp'[z] = 0 =>
       \A t \in Writers : ext[t][z] = 0 /\ act[t] # z /\ act'[t] # z]_vars

(* An allocator that is not prioritized sleeps in WaitForOpenIOZoneToken    *)
(* only while the tokens it may take are gone or are spoken for by threads  *)
(* on their way to the wait predicate: notify_one loses no wake-up.         *)
NoLostWakeup ==
  Asleep \ Wal # {} =>
    MaxOpen - 1 - open <= Cardinality({t \in Writers : pc[t] = "token"})

(* When no file is open and no call is running, every open token has been   *)
(* returned and the active tokens are those of the partly written zones.    *)
TokensReturned ==
  (\A t \in Writers : pc[t] \in {"nofile", "closed"}) =>
    /\ open = 0
    /\ active = Cardinality({z \in Zone : Partial(z)})

(* Every zone allocation returns, with a zone or with an error.             *)
AllocationReturns ==
  \A t \in Writers : pc[t] = "alloc" ~> pc[t] \in {"append", "ready"}

=============================================================================
