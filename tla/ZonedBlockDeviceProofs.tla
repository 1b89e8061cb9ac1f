----------------------- MODULE ZonedBlockDeviceProofs -----------------------
(***************************************************************************)
(* Proofs about ZonedBlockDevice for every number of zones, every set of   *)
(* writers and every limit.  All but TokensAreReturned allow every fault.  *)
(***************************************************************************)
EXTENDS ZonedBlockDevice, FoldProofs, FiniteSetTheorems, TLAPS

(* What a thread's place in the code says about the zones it holds: a       *)
(* search looks only at the zone its loop is at, an active zone belongs to  *)
(* a file that is open and in no allocation, and the capacity left in a     *)
(* zone is really there.                                                    *)
Roles ==
  /\ \A t \in Writers :
       /\ cur[t] # NoZone => pc[t] = "scan" /\ nxt[t] = cur[t]
       /\ act[t] # NoZone => pc[t] \in {"ready", "append", "close"}
  /\ \A z \in Zone : wp[z] + capacity[z] <= ZoneSize

Typed == TypeOK /\ Roles

-----------------------------------------------------------------------------
(* The loop variable of a search, and NoZone, which is no zone.             *)
LEMMA ZoneFacts ==
  /\ NoZone \notin Zone
  /\ \A n \in 1..NrIOZones + 1 :
       n <= NrIOZones => n \in Zone /\ n + 1 \in 1..NrIOZones + 1
  /\ \A z \in Zone : z + 1 \in 1..NrIOZones + 1
  /\ 1 \in 1..NrIOZones + 1 /\ NrIOZones + 1 \in 1..NrIOZones + 1
BY DeviceAssumption, SMTT(60) DEF Zone, NoZone

(* The life time difference of a zone and a file is within its type.        *)
LEMMA DiffRange ==
  ASSUME NEW zl \in 0..5, NEW fl \in 0..5
  PROVE  GetLifeTimeDiff(zl, fl) \in 0..NotGood
BY SMTT(60) DEF GetLifeTimeDiff, NotGood, CouldBeWorse, SHORT

(* An empty device is well typed.                                           *)
LEMMA InitTyped == Init => Typed
<1> SUFFICES ASSUME Init PROVE TypeOK /\ Roles
  BY DEF Typed
<1>1. TypeOK
  BY DeviceAssumption, BoundAssumption, SMTT(60)
     DEF Init, TypeOK, Zone, Pcs, Jobs, Searches, NotGood, NOT_SET
<1>2. Roles
  BY DeviceAssumption, SMTT(60) DEF Init, Roles
<1> QED BY <1>1, <1>2

(* The loops over io_zones keep the types.                                  *)
LEMMA SearchTyped ==
  ASSUME TypeOK, Roles, NEW t \in Writers, Search(t), UNCHANGED calls
  PROVE  TypeOK' /\ Roles'
<1> USE DEF TypeOK, Roles, tokenVars, fileVars
<1>1. CASE ScanAcquire(t)
  <2>1. nxt[t] \in Zone /\ nxt[t] + 1 \in 1..NrIOZones + 1 /\ pc[t] = "scan"
    BY <1>1, ZoneFacts DEF ScanAcquire, Searching
  <2>2. TypeOK'
    BY <1>1, <2>1 DEF ScanAcquire
  <2>3. Roles'
    BY <1>1, <2>1 DEF ScanAcquire
  <2> QED BY <2>2, <2>3
<1>2. CASE ScanKeep(t)
  <2>1. cur[t] \in Zone /\ nxt[t] = cur[t]
    BY <1>2 DEF ScanKeep
  <2>2. GetLifeTimeDiff(lifetime[cur[t]], hint[t]) \in 0..NotGood
    BY <2>1, DiffRange
  <2> QED BY <1>2, <2>1, <2>2, ZoneFacts DEF ScanKeep
<1>3. CASE ScanPass(t)
  <2>1. cur[t] \in Zone /\ nxt[t] = cur[t]
    BY <1>3 DEF ScanPass
  <2> QED BY <1>3, <2>1, ZoneFacts DEF ScanPass
<1>4. CASE ScanFinish(t)
  <2>1. cur[t] \in Zone /\ nxt[t] = cur[t] /\ pc[t] = "scan"
    BY <1>4 DEF ScanFinish
  <2>2. act[t] = NoZone
    BY <2>1
  <2>3. /\ busy' = [busy EXCEPT ![cur[t]] = FALSE]
        /\ cur' = [cur EXCEPT ![t] = NoZone]
        /\ UNCHANGED <<tokenVars, deferred, cand, diff, act, hint, unsynced, ext>>
    BY <1>4 DEF ScanFinish
  <2>4. CASE /\ Finish(cur[t])
             /\ Goto(t, "putactive")
             /\ nxt' = [nxt EXCEPT ![t] = @ + 1]
             /\ UNCHANGED <<job, left>>
    <3>1. TypeOK'
      BY <2>1, <2>3, <2>4, ZoneFacts, DeviceAssumption DEF Finish, Goto, Pcs
    <3>2. Roles'
      BY <2>1, <2>2, <2>3, <2>4, DeviceAssumption DEF Finish, Goto
    <3> QED BY <3>1, <3>2
  <2>5. CASE Fail(t) /\ UNCHANGED <<wp, capacity, used, lifetime, resets>>
    <3>1. TypeOK'
      BY <2>3, <2>5, ZoneFacts DEF Fail, Goto, Pcs, Jobs
    <3>2. Roles'
      BY <2>1, <2>2, <2>3, <2>5 DEF Fail, Goto
    <3> QED BY <3>1, <3>2
  <2> QED BY <1>4, <2>4, <2>5 DEF ScanFinish
<1>5. CASE ScanReset(t)
  <2>1. cur[t] \in Zone /\ nxt[t] = cur[t] /\ pc[t] = "scan"
    BY <1>5 DEF ScanReset
  <2>2. act[t] = NoZone
    BY <2>1
  <2>3. /\ busy' = [busy EXCEPT ![cur[t]] = FALSE]
        /\ cur' = [cur EXCEPT ![t] = NoZone]
        /\ UNCHANGED <<tokenVars, deferred, cand, diff, act, hint, unsynced, ext>>
    BY <1>5 DEF ScanReset
  <2>4. ASSUME NEW offline \in BOOLEAN, Reset(cur[t], offline),
               Goto(t, AfterReset(t)), nxt' = [nxt EXCEPT ![t] = @ + 1],
               UNCHANGED <<job, left>>
        PROVE  TypeOK' /\ Roles'
    <3>1. TypeOK'
      BY <2>1, <2>3, <2>4, ZoneFacts, DeviceAssumption
      DEF Reset, AfterReset, Goto, Pcs, NOT_SET
    <3>2. Roles'
      BY <2>1, <2>2, <2>3, <2>4, DeviceAssumption DEF Reset, Goto
    <3> QED BY <3>1, <3>2
  <2>5. CASE Fail(t) /\ UNCHANGED <<wp, capacity, used, lifetime, resets>>
    <3>1. TypeOK'
      BY <2>3, <2>5, ZoneFacts DEF Fail, Goto, Pcs, Jobs
    <3>2. Roles'
      BY <2>1, <2>2, <2>3, <2>5 DEF Fail, Goto
    <3> QED BY <3>1, <3>2
  <2> QED BY <1>5, <2>4, <2>5 DEF ScanReset
<1> QED BY <1>1, <1>2, <1>3, <1>4, <1>5 DEF Search

(* notify_one() disturbs no thread but a sleeper.                           *)
LEMMA NotifyFacts ==
  ASSUME pc \in [Writers -> Pcs], NEW t \in Writers, NEW there \in Pcs,
         pc[t] # "asleep", NotifyAndGoto(t, there)
  PROVE  /\ pc' \in [Writers -> Pcs]
         /\ pc'[t] = there
         /\ \A v \in Writers : v # t =>
              pc'[v] = pc[v] \/ (pc[v] = "asleep" /\ pc'[v] = "token")
<1> "token" \in Pcs
  BY DEF Pcs
<1> QED BY DEF NotifyAndGoto, Goto, Asleep

(* What SetActiveZone does to the types.                                    *)
LEMMA SetActiveTyped ==
  ASSUME TypeOK, Roles, NEW t \in Writers, SetActiveZone(t),
         pc[t] \in {"scan", "active"}, cur[t] = NoZone,
         UNCHANGED <<busy, wp, capacity, used, resets, open, deferred, cur, calls>>,
         lifetime' \in [Zone -> 0..5], active' \in Int
  PROVE  TypeOK' /\ Roles'
<1> USE DEF TypeOK, Roles
<1>1. TypeOK'
  BY ZoneFacts DEF SetActiveZone, Goto, Pcs, Jobs, NotGood
<1>2. Roles'
  BY DEF SetActiveZone, Goto
<1> QED BY <1>1, <1>2

(* What the start of a search does to the types.                            *)
LEMMA StartSearchTyped ==
  ASSUME TypeOK, Roles, NEW t \in Writers, NEW what \in Searches,
         StartSearch(t, what), cur[t] = NoZone, act[t] = NoZone,
         UNCHANGED <<zoneVars, deferred, cur, cand, act, left, unsynced, ext, calls>>,
         hint' \in [Writers -> 0..5], open' \in Int, active' \in Int
  PROVE  TypeOK' /\ Roles'
<1> USE DEF TypeOK, Roles, zoneVars
<1>a. "scan" \in Pcs /\ what \in Jobs
  BY DEF Pcs, Jobs
<1>b. NotGood \in 0..NotGood
  BY DEF NotGood
<1>1. TypeOK'
  BY <1>a, <1>b, ZoneFacts DEF StartSearch
<1>2. Roles'
  BY DEF StartSearch
<1> QED BY <1>1, <1>2

(* What giving a token back does to the types.                              *)
LEMMA PutTyped ==
  ASSUME TypeOK, Roles, NEW t \in Writers, NEW there \in Pcs,
         NotifyAndGoto(t, there), pc[t] # "asleep", cur[t] = NoZone, act[t] = NoZone,
         UNCHANGED <<zoneVars, deferred, searchVars, act, hint, unsynced, ext, calls>>,
         left' \in [Writers -> Nat], job' \in [Writers -> Jobs],
         open' \in Int, active' \in Int
  PROVE  TypeOK' /\ Roles'
<1> USE DEF TypeOK, Roles, zoneVars, searchVars
<1>1. /\ pc' \in [Writers -> Pcs]
      /\ \A v \in Writers : v # t =>
           pc'[v] = pc[v] \/ (pc[v] = "asleep" /\ pc'[v] = "token")
  BY NotifyFacts
<1>2. TypeOK'
  BY <1>1
<1>3. Roles'
  BY <1>1
<1> QED BY <1>2, <1>3

(* AllocateIOZone, from its entry to its return, keeps the types.           *)
LEMMA AllocateTyped ==
  ASSUME TypeOK, Roles, NEW t \in Writers, Allocate(t), UNCHANGED calls
  PROVE  TypeOK' /\ Roles'
<1> USE DEF TypeOK, Roles, zoneVars, tokenVars, fileVars, searchVars
<1>1. CASE AllocateIOZone(t)
  <2>1. /\ pc[t] = "alloc" /\ cur[t] = NoZone /\ act[t] = NoZone
        /\ UNCHANGED <<zoneVars, tokenVars, deferred, cur, cand, act, hint, unsynced, ext>>
    BY <1>1 DEF AllocateIOZone
  <2>2. CASE Fail(t) /\ UNCHANGED diff
    <3>1. TypeOK'
      BY <2>1, <2>2, ZoneFacts DEF Fail, Goto, Pcs, Jobs
    <3>2. Roles'
      BY <2>1, <2>2 DEF Fail, Goto
    <3> QED BY <3>1, <3>2
  <2>3. CASE Goto(t, "token") /\ UNCHANGED <<job, nxt, diff, left>>
    BY <2>1, <2>3 DEF Goto, Pcs
  <2>4. CASE StartSearch(t, "threshold") /\ UNCHANGED left
    BY <2>1, <2>4, StartSearchTyped DEF Searches
  <2> QED BY <1>1, <2>2, <2>3, <2>4 DEF AllocateIOZone
<1>2. CASE ThresholdDone(t)
  BY <1>2, ZoneFacts DEF ThresholdDone, SearchEnded, Searching, Goto, Pcs, Jobs
<1>3. CASE WaitForOpenIOZoneToken(t)
  <2>1. /\ pc[t] = "token" /\ cur[t] = NoZone /\ act[t] = NoZone
        /\ UNCHANGED <<zoneVars, active, deferred, cur, cand, fileVars>>
    BY <1>3 DEF WaitForOpenIOZoneToken
  <2>2. CASE open' = open + 1 /\ StartSearch(t, "best")
    BY <2>1, <2>2, StartSearchTyped DEF Searches
  <2>3. CASE Goto(t, "asleep") /\ UNCHANGED <<open, job, nxt, diff>>
    BY <2>1, <2>3 DEF Goto, Pcs
  <2> QED BY <1>3, <2>2, <2>3 DEF WaitForOpenIOZoneToken
<1>4. CASE BestMatchDone(t)
  <2>1. pc[t] = "scan" /\ cur[t] = NoZone
    BY <1>4 DEF BestMatchDone, SearchEnded, Searching
  <2>2. CASE SetActiveZone(t)
    BY <1>4, <2>1, <2>2, SetActiveTyped DEF BestMatchDone
  <2>3. CASE ~(diff[t] < CouldBeWorse)
    BY <1>4, <2>1, <2>3, ZoneFacts, ZenonT(60) DEF BestMatchDone, Goto, Pcs
  <2> QED BY <1>4, <2>2, <2>3 DEF BestMatchDone
<1>5. CASE TryActiveToken(t)
  <2>1. pc[t] = "active" /\ cur[t] = NoZone /\ active' \in Int
    BY <1>5 DEF TryActiveToken
  <2>2. CASE SetActiveZone(t)
    BY <1>5, <2>1, <2>2, SetActiveTyped DEF TryActiveToken
  <2>3. CASE /\ job' = [job EXCEPT ![t] = "empty"] \/ job' = [job EXCEPT ![t] = "cheapest"]
             /\ Goto(t, "drop")
             /\ UNCHANGED <<nxt, cand, diff, fileVars>>
    BY <1>5, <2>1, <2>3 DEF TryActiveToken, Goto, Pcs, Jobs, Searches
  <2> QED BY <1>5, <2>2, <2>3 DEF TryActiveToken
<1>6. CASE DropCandidate(t)
  BY <1>6 DEF DropCandidate, Goto, Pcs, NotGood
<1>7. CASE SpinForActiveToken(t)
  <2>1. /\ pc[t] = "spin" /\ cur[t] = NoZone /\ act[t] = NoZone
        /\ UNCHANGED <<zoneVars, open, deferred, cur, cand, fileVars>>
    BY <1>7 DEF SpinForActiveToken
  <2>2. CASE active' = active + 1 /\ StartSearch(t, "empty")
    BY <2>1, <2>2, StartSearchTyped DEF Searches
  <2>3. CASE UNCHANGED active /\ StartSearch(t, "cheapest")
    BY <2>1, <2>3, StartSearchTyped DEF Searches
  <2> QED BY <1>7, <2>2, <2>3 DEF SpinForActiveToken
<1>8. CASE CheapestDone(t)
  BY <1>8, ZoneFacts DEF CheapestDone, SearchEnded, Searching, Goto, Pcs
<1>9. CASE FinishVictim(t)
  <2>1. /\ pc[t] = "finish" /\ cur[t] = NoZone /\ act[t] = NoZone
        /\ busy' = [busy EXCEPT ![cand[t]] = FALSE]
        /\ cand' = [cand EXCEPT ![t] = NoZone]
        /\ UNCHANGED <<tokenVars, deferred, nxt, cur, diff, act, hint, unsynced, ext>>
    BY <1>9 DEF FinishVictim
  <2>2. CASE Finish(cand[t]) /\ Goto(t, "putactive") /\ UNCHANGED <<job, left>>
    <3>a. 0 \in 0..ZoneCap /\ ZoneSize \in 0..ZoneSize /\ "putactive" \in Pcs
      BY DeviceAssumption DEF Pcs
    <3>1. TypeOK'
      BY <2>1, <2>2, <3>a DEF Finish, Goto
    <3>2. Roles'
      BY <2>1, <2>2, DeviceAssumption DEF Finish, Goto
    <3> QED BY <3>1, <3>2
  <2>3. CASE /\ Goto(t, "putopen")
             /\ job' = [job EXCEPT ![t] = "fail"]
             /\ left' = [left EXCEPT ![t] = 0]
             /\ UNCHANGED <<wp, capacity, used, lifetime, resets>>
    <3>1. TypeOK'
      BY <2>1, <2>3 DEF Goto, Pcs, Jobs
    <3>2. Roles'
      BY <2>1, <2>3 DEF Goto
    <3> QED BY <3>1, <3>2
  <2> QED BY <1>9, <2>2, <2>3 DEF FinishVictim
<1>10. CASE EmptyZoneDone(t)
  <2>1. pc[t] = "scan" /\ cur[t] = NoZone
    BY <1>10 DEF EmptyZoneDone, SearchEnded, Searching
  <2>2. CASE SetActiveZone(t) /\ lifetime' = [lifetime EXCEPT ![cand[t]] = hint[t]]
    BY <1>10, <2>1, <2>2, SetActiveTyped DEF EmptyZoneDone
  <2>3. CASE ~(cand[t] # NoZone)
    BY <1>10, <2>1, <2>3, ZoneFacts, ZenonT(60) DEF EmptyZoneDone, Goto, Pcs
  <2> QED BY <1>10, <2>2, <2>3 DEF EmptyZoneDone
<1>11. CASE PutOpenIOZoneToken(t)
  <2> DEFINE there == CASE job[t] \in {"roll", "shutfull"} -> "putactive"
                        [] job[t] = "shut" -> "closed"
                        [] OTHER -> "ready"
  <2>1. /\ pc[t] = "putopen" /\ cur[t] = NoZone /\ act[t] = NoZone
        /\ NotifyAndGoto(t, there)
        /\ job' = [job EXCEPT ![t] = IF @ \in {"shut", "fail"} THEN "none" ELSE @]
        /\ open' = open - 1
        /\ UNCHANGED <<zoneVars, active, deferred, searchVars, fileVars>>
    BY <1>11 DEF PutOpenIOZoneToken
  <2>2. there \in Pcs
    BY DEF Pcs
  <2> HIDE DEF there
  <2>3. left' \in [Writers -> Nat] /\ job' \in [Writers -> Jobs] /\ open' \in Int
        /\ active' \in Int
    BY <2>1 DEF Jobs
  <2>4. UNCHANGED <<zoneVars, deferred, searchVars, act, hint, unsynced, ext, calls>>
    BY <2>1
  <2> HIDE DEF TypeOK, Roles, zoneVars, searchVars
  <2> QED BY <2>1, <2>2, <2>3, <2>4, PutTyped
<1>12. CASE PutActiveIOZoneToken(t)
  <2> DEFINE there == CASE job[t] \in {"threshold", "reset"} -> "scan"
                        [] job[t] = "cheapest" -> "spin"
                        [] job[t] = "empty" -> "putopen"
                        [] job[t] = "roll" -> "alloc"
                        [] OTHER -> "closed"
             after == CASE job[t] \in {"roll", "shutfull"} -> "none"
                        [] job[t] = "empty" -> "fail"
                        [] OTHER -> job[t]
  <2>1. /\ pc[t] = "putactive" /\ cur[t] = NoZone /\ act[t] = NoZone
        /\ NotifyAndGoto(t, there)
        /\ job' = [job EXCEPT ![t] = after]
        /\ left' = [left EXCEPT ![t] = IF job[t] = "empty" THEN 0 ELSE @]
        /\ active' = active - 1
        /\ UNCHANGED <<zoneVars, open, deferred, searchVars, act, hint, unsynced, ext>>
    BY <1>12 DEF PutActiveIOZoneToken
  <2>2. there \in Pcs /\ after \in Jobs
    BY DEF Pcs, Jobs
  <2> HIDE DEF there, after
  <2>3. left' \in [Writers -> Nat] /\ job' \in [Writers -> Jobs] /\ open' \in Int
        /\ active' \in Int
    BY <2>1, <2>2
  <2>4. UNCHANGED <<zoneVars, deferred, searchVars, act, hint, unsynced, ext, calls>>
    BY <2>1
  <2> HIDE DEF TypeOK, Roles, zoneVars, searchVars
  <2> QED BY <2>1, <2>2, <2>3, <2>4, PutTyped
<1> QED BY <1>1, <1>2, <1>3, <1>4, <1>5, <1>6, <1>7, <1>8, <1>9, <1>10, <1>11,
           <1>12 DEF Allocate

(* Making an extent of n blocks, or of what was not synced, keeps the types.*)
LEMMA ExtentTyped ==
  ASSUME TypeOK, NEW t \in Writers, NEW n \in Nat, act[t] \in Zone, AddExtent(t, n)
  PROVE  used' \in [Zone -> Int] /\ ext' \in [Writers -> [Zone -> Nat]]
<1>1. used' \in [Zone -> Int]
  BY DEF TypeOK, AddExtent
<1>2. ext' \in [Writers -> [Zone -> Nat]]
  <2>1. ext' = [ext EXCEPT ![t] = [ext[t] EXCEPT ![act[t]] = @ + n]]
    BY DEF TypeOK, AddExtent
  <2>2. [ext[t] EXCEPT ![act[t]] = @ + n] \in [Zone -> Nat]
    BY DEF TypeOK
  <2> QED BY <2>1, <2>2 DEF TypeOK
<1> QED BY <1>1, <1>2

(* PushExtent keeps the types.                                              *)
LEMMA PushExtentTyped ==
  ASSUME TypeOK, NEW t \in Writers, PushExtent(t)
  PROVE  /\ used' \in [Zone -> Int]
         /\ ext' \in [Writers -> [Zone -> Nat]]
         /\ unsynced' \in [Writers -> Nat]
<1>1. unsynced' \in [Writers -> Nat] /\ unsynced[t] \in Nat
  BY DEF TypeOK, PushExtent
<1>2. CASE act[t] = NoZone
  BY <1>1, <1>2 DEF TypeOK, PushExtent
<1>3. CASE act[t] # NoZone
  <2>1. act[t] \in Zone /\ AddExtent(t, unsynced[t])
    BY <1>3 DEF TypeOK, PushExtent
  <2> QED BY <1>1, <2>1, ExtentTyped
<1> QED BY <1>2, <1>3

(* An append takes no more than the zone has left, so it keeps the types.   *)
LEMMA WriteTyped ==
  ASSUME TypeOK, Roles, NEW t \in Writers, Write(t), UNCHANGED calls
  PROVE  TypeOK' /\ Roles'
<1> USE DEF zoneVars, tokenVars, fileVars, searchVars
<1>1. CASE AppendNeedsZone(t)
  BY <1>1 DEF TypeOK, Roles, AppendNeedsZone, Goto, Pcs
<1>2. CASE AppendReturns(t)
  BY <1>2 DEF TypeOK, Roles, AppendReturns, Goto, Pcs
<1>3. CASE AppendLeavesFullZone(t)
  <2>1. /\ used' \in [Zone -> Int]
        /\ ext' \in [Writers -> [Zone -> Nat]]
        /\ unsynced' \in [Writers -> Nat]
    BY <1>3, PushExtentTyped DEF AppendLeavesFullZone
  <2>2. TypeOK'
    BY <1>3, <2>1 DEF TypeOK, AppendLeavesFullZone, Goto, Pcs, Jobs
  <2>3. Roles'
    BY <1>3 DEF TypeOK, Roles, AppendLeavesFullZone, Goto
  <2> QED BY <2>2, <2>3
<1>4. CASE AppendWrites(t)
  <2> DEFINE z == act[t]
             n == WriteSize(t)
  <2>1. /\ z \in Zone /\ n \in Nat /\ n <= left[t] /\ n <= capacity[z]
        /\ left[t] \in Nat /\ capacity[z] \in 0..ZoneCap /\ wp[z] \in 0..ZoneSize
        /\ pc[t] = "append"
    BY <1>4, DeviceAssumption DEF TypeOK, AppendWrites, WriteSize
  <2>2. /\ wp' = [wp EXCEPT ![z] = @ + n]
        /\ capacity' = [capacity EXCEPT ![z] = @ - n]
        /\ left' = [left EXCEPT ![t] = @ - n]
        /\ UNCHANGED <<busy, lifetime, resets, tokenVars, deferred, searchVars, act, hint>>
    BY <1>4 DEF AppendWrites
  <2>3. wp[z] + n \in 0..ZoneSize /\ capacity[z] - n \in 0..ZoneCap /\ left[t] - n \in Nat
    BY <2>1, DeviceAssumption DEF Roles
  <2>4. /\ wp' \in [Zone -> 0..ZoneSize] /\ capacity' \in [Zone -> 0..ZoneCap]
        /\ left' \in [Writers -> Nat]
        /\ \A y \in Zone : wp'[y] + capacity'[y] <= ZoneSize
    <3> HIDE DEF z, n
    <3> QED BY <2>1, <2>2, <2>3, DeviceAssumption DEF TypeOK, Roles
  <2>5. /\ used' \in [Zone -> Int] /\ ext' \in [Writers -> [Zone -> Nat]]
        /\ unsynced' \in [Writers -> Nat]
        /\ pc' \in [Writers -> Pcs] /\ job' \in [Writers -> Jobs]
        /\ pc'[t] \in {"append", "close"}
        /\ \A v \in Writers : v # t => pc'[v] = pc[v]
    <3>1. CASE t \in Buffered
      <4>1. AddExtent(t, n) /\ UNCHANGED unsynced
        BY <1>4, <3>1 DEF AppendWrites
      <4>2. \/ Goto(t, "close") /\ job' = [job EXCEPT ![t] = "roll"]
            \/ Goto(t, "append") /\ job' = [job EXCEPT ![t] = @]
        BY <1>4, <3>1 DEF AppendWrites
      <4>3. used' \in [Zone -> Int] /\ ext' \in [Writers -> [Zone -> Nat]]
        BY <2>1, <4>1, ExtentTyped
      <4>4. "close" \in Pcs /\ "append" \in Pcs /\ "roll" \in Jobs
        BY DEF Pcs, Jobs
      <4>5. unsynced' \in [Writers -> Nat] /\ job' \in [Writers -> Jobs]
        BY <4>1, <4>2, <4>4 DEF TypeOK
      <4>6. /\ pc' \in [Writers -> Pcs]
            /\ pc'[t] \in {"append", "close"}
            /\ \A v \in Writers : v # t => pc'[v] = pc[v]
        BY <4>2, <4>4, ZenonT(60) DEF TypeOK, Goto
      <4> QED BY <4>3, <4>5, <4>6
    <3>2. CASE t \notin Buffered
      <4> HIDE DEF n
      <4>1. unsynced' = [unsynced EXCEPT ![t] = @ + n] /\ UNCHANGED <<used, ext, pc, job>>
        BY <1>4, <3>2 DEF AppendWrites, n
      <4> QED BY <2>1, <4>1 DEF TypeOK
    <3> QED BY <3>1, <3>2
  <2>6. TypeOK'
    BY <2>2, <2>4, <2>5 DEF TypeOK
  <2>7. Roles'
    BY <2>1, <2>2, <2>4, <2>5 DEF TypeOK, Roles
  <2> QED BY <2>6, <2>7
<1>5. CASE AppendFails(t)
  BY <1>5 DEF TypeOK, Roles, AppendFails, Goto, Pcs
<1> QED BY <1>1, <1>2, <1>3, <1>4, <1>5 DEF Write

(* The deletion of a file keeps the types.                                  *)
LEMMA ReclaimTyped ==
  ASSUME TypeOK, Roles, NEW t \in Writers, Reclaim(t), UNCHANGED calls
  PROVE  TypeOK' /\ Roles'
<1> USE DEF zoneVars, tokenVars, fileVars, searchVars
<1>1. CASE ClearExtent(t)
  <2>1. PICK z \in Zone : /\ used' = [used EXCEPT ![z] = @ - ext[t][z]]
                          /\ ext' = [ext EXCEPT ![t][z] = 0]
    BY <1>1 DEF ClearExtent
  <2>2. ext[t][z] \in Nat /\ ext[t] \in [Zone -> Nat]
    BY DEF TypeOK
  <2>3. used' \in [Zone -> Int]
    BY <2>1, <2>2 DEF TypeOK
  <2>4. ext' \in [Writers -> [Zone -> Nat]]
    <3>1. ext' = [ext EXCEPT ![t] = [ext[t] EXCEPT ![z] = 0]]
      BY <2>1 DEF TypeOK
    <3>2. [ext[t] EXCEPT ![z] = 0] \in [Zone -> Nat]
      BY <2>2
    <3> QED BY <3>1, <3>2 DEF TypeOK
  <2> QED BY <1>1, <2>3, <2>4 DEF TypeOK, Roles, ClearExtent
<1>2. CASE ResetUnusedIOZones(t)
  <2>1. pc[t] = "clear" /\ cur[t] = NoZone /\ act[t] = NoZone
    BY <1>2 DEF Roles, ResetUnusedIOZones
  <2>2. hint' \in [Writers -> 0..5] /\ open' \in Int /\ active' \in Int
    BY <1>2 DEF TypeOK, ResetUnusedIOZones, NOT_SET
  <2>3. /\ StartSearch(t, "reset")
        /\ UNCHANGED <<zoneVars, deferred, cur, cand, act, left, unsynced, ext, calls>>
    BY <1>2 DEF ResetUnusedIOZones
  <2>4. "reset" \in Searches
    BY DEF Searches
  <2> HIDE DEF zoneVars
  <2> QED BY <2>1, <2>2, <2>3, <2>4, StartSearchTyped
<1>3. CASE ResetDone(t)
  BY <1>3, ZoneFacts DEF TypeOK, Roles, ResetDone, SearchEnded, Searching, Goto,
     Pcs, Jobs
<1> QED BY <1>1, <1>2, <1>3 DEF Reclaim

(* Closing a file keeps the types.                                          *)
LEMMA CloseTyped ==
  ASSUME TypeOK, Roles, NEW t \in Writers, Close(t), UNCHANGED calls
  PROVE  TypeOK' /\ Roles'
<1> USE DEF zoneVars, tokenVars, fileVars, searchVars
<1>1. CASE CloseFile(t)
  <2>1. /\ used' \in [Zone -> Int]
        /\ ext' \in [Writers -> [Zone -> Nat]]
        /\ unsynced' \in [Writers -> Nat]
    BY <1>1, PushExtentTyped DEF CloseFile
  <2>2. \/ act[t] = NoZone /\ Goto(t, "closed") /\ UNCHANGED job
        \/ Goto(t, "close") /\ job' = [job EXCEPT ![t] = "shut"]
    BY <1>1 DEF CloseFile
  <2>3. TypeOK'
    BY <1>1, <2>1, <2>2 DEF TypeOK, CloseFile, Goto, Pcs, Jobs
  <2>4. Roles'
    BY <1>1, <2>2 DEF TypeOK, Roles, CloseFile, Goto
  <2> QED BY <2>3, <2>4
<1>2. CASE CloseActiveZone(t)
  <2>1. /\ pc[t] = "close" /\ cur[t] = NoZone
        /\ busy' = [busy EXCEPT ![act[t]] = FALSE]
        /\ act' = [act EXCEPT ![t] = NoZone]
        /\ UNCHANGED <<wp, capacity, used, lifetime, resets, tokenVars, deferred,
                       searchVars, hint, unsynced, ext>>
    BY <1>2 DEF Roles, CloseActiveZone
  <2>2. \E there \in {"putopen", "dtor", "ready"} : Goto(t, there)
    BY <1>2 DEF CloseActiveZone, Goto
  <2>3. /\ \E j \in {"shutfull", "none", job[t]} : job' = [job EXCEPT ![t] = j]
        /\ UNCHANGED left \/ left' = [left EXCEPT ![t] = 0]
    BY <1>2 DEF CloseActiveZone
  <2>4. TypeOK'
    <3>1. pc' \in [Writers -> Pcs] /\ job' \in [Writers -> Jobs]
      BY <2>2, <2>3, ZenonT(60) DEF TypeOK, Goto, Pcs, Jobs
    <3>2. left' \in [Writers -> Nat]
      BY <2>3 DEF TypeOK
    <3> QED BY <2>1, <3>1, <3>2 DEF TypeOK
  <2>5. Roles'
    BY <2>1, <2>2 DEF TypeOK, Roles, Goto
  <2> QED BY <2>4, <2>5
<1>3. CASE SetZoneDeferredStatus(t)
  BY <1>3 DEF TypeOK, Roles, SetZoneDeferredStatus, Goto, Pcs
<1> QED BY <1>1, <1>2, <1>3 DEF Close

(* What clients ask for keeps the types.                                    *)
LEMMA CallTyped ==
  ASSUME TypeOK, Roles, NEW t \in Writers, Call(t)
  PROVE  TypeOK' /\ Roles'
<1> USE DEF zoneVars, tokenVars, fileVars, searchVars
<1>0. CountCall(t) => calls' \in [Writers -> 0..MaxCalls]
  BY BoundAssumption DEF TypeOK, CountCall
<1>1. CASE OpenWritableFile(t)
  <2>1. hint' \in [Writers -> 0..5]
    BY <1>1, WriterAssumption DEF TypeOK, OpenWritableFile
  <2> QED BY <1>0, <1>1, <2>1 DEF TypeOK, Roles, OpenWritableFile, Goto, Pcs
<1>2. CASE ReopenWritableFile(t)
  BY <1>0, <1>2 DEF TypeOK, Roles, ReopenWritableFile, Goto, Pcs
<1>3. CASE Append(t)
  <2>1. left' \in [Writers -> Nat]
    BY <1>3, BoundAssumption DEF TypeOK, Append
  <2> QED BY <1>0, <1>3, <2>1 DEF TypeOK, Roles, Append, Goto, Pcs
<1>4. CASE Fsync(t) /\ UNCHANGED calls
  <2>1. /\ used' \in [Zone -> Int]
        /\ ext' \in [Writers -> [Zone -> Nat]]
        /\ unsynced' \in [Writers -> Nat]
    BY <1>4, PushExtentTyped DEF Fsync
  <2> QED BY <1>4, <2>1 DEF TypeOK, Roles, Fsync
<1>5. CASE DeleteFile(t) /\ UNCHANGED calls
  BY <1>5 DEF TypeOK, Roles, DeleteFile, Goto, Pcs
<1> QED BY <1>1, <1>2, <1>3, <1>4, <1>5 DEF Call

(* Every step of every thread keeps Typed.                                  *)
LEMMA NextTyped == Typed /\ [Next]_vars => Typed'
<1> SUFFICES ASSUME TypeOK, Roles, [Next]_vars PROVE TypeOK' /\ Roles'
  BY DEF Typed
<1>1. ASSUME NEW t \in Writers, Step(t) PROVE TypeOK' /\ Roles'
  BY <1>1, SearchTyped, AllocateTyped, WriteTyped, ReclaimTyped, CloseTyped DEF Step
<1>2. ASSUME NEW t \in Writers, Call(t) PROVE TypeOK' /\ Roles'
  BY <1>2, CallTyped
<1>3. CASE UNCHANGED vars
  BY <1>3 DEF TypeOK, Roles, vars, zoneVars, tokenVars, searchVars, fileVars
<1> QED BY <1>1, <1>2, <1>3 DEF Next

(* Every variable keeps its type: no write passes a zone's capacity, no     *)
(* write pointer passes the end of its zone, no loop leaves the io_zones    *)
(* and no life time difference leaves its range (Zone::Append, the loops    *)
(* over io_zones, GetLifeTimeDiff).                                         *)
THEOREM TypeCorrect == Spec => []TypeOK
<1>1. Typed => TypeOK
  BY DEF Typed
<1> QED BY <1>1, InitTyped, NextTyped, PTL DEF Spec

-----------------------------------------------------------------------------
(* Mutual exclusion on zones                                                *)

(* The third conjunct of ZoneExclusive, for one thread.                     *)
OneRole(t) == /\ cur[t] # NoZone => cur[t] \notin {cand[t], act[t]}
              /\ cand[t] # NoZone => cand[t] # act[t]

(* A step that leaves the locks alone keeps them exclusive.                 *)
LEMMA ExclusiveKept ==
  ASSUME ZoneExclusive, UNCHANGED <<busy, cur, cand, act>>
  PROVE  ZoneExclusive'
BY DEF ZoneExclusive, Holds

(* A step in which only t trades zones keeps them exclusive when t takes    *)
(* none but free zones and busy_ follows what t holds.                      *)
LEMMA ExclusiveTrade ==
  ASSUME ZoneExclusive, NEW t \in Writers,
         \A u \in Writers \ {t} :
           cur'[u] = cur[u] /\ cand'[u] = cand[u] /\ act'[u] = act[u],
         \A z \in Zone : z \in Holds(t)' => z \in Holds(t) \/ ~busy[z],
         Holds(t)' \subseteq Zone,
         \A z \in Zone : busy'[z] <=> z \in Holds(t)' \/ (busy[z] /\ z \notin Holds(t)),
         OneRole(t)'
  PROVE  ZoneExclusive'
<1>1. \A u \in Writers \ {t} : Holds(u)' = Holds(u)
  BY DEF Holds
<1>2. /\ \A z \in Zone : busy[z] <=> \E u \in Writers : z \in Holds(u)
      /\ \A u, v \in Writers : u # v => Holds(u) \cap Holds(v) = {}
  BY DEF ZoneExclusive
<1>3. \A z \in Zone : busy'[z] <=> \E u \in Writers : z \in Holds(u)'
  <2> HIDE DEF Holds
  <2> QED BY <1>1, <1>2
<1>4. \A u \in Writers \ {t} : Holds(u)' \cap Holds(t)' = {}
  <2> SUFFICES ASSUME NEW u \in Writers \ {t}, NEW z \in Holds(u), z \in Holds(t)'
               PROVE  FALSE
    BY <1>1
  <2>1. z \in Zone /\ z \notin Holds(t)
    BY <1>2
  <2>2. busy[z]
    BY <1>2, <2>1
  <2> QED BY <2>1, <2>2
<1>5. \A u, v \in Writers : u # v => Holds(u)' \cap Holds(v)' = {}
  BY <1>1, <1>2, <1>4
<1>6. \A u \in Writers : OneRole(u)'
  BY DEF ZoneExclusive, OneRole
<1> QED BY <1>3, <1>5, <1>6 DEF ZoneExclusive, OneRole

(* The loops over io_zones keep zones exclusive.                            *)
LEMMA SearchExclusive ==
  ASSUME TypeOK, Roles, ZoneExclusive, NEW t \in Writers, Search(t)
  PROVE  ZoneExclusive'
<1> USE DEF fileVars
<1>0. OneRole(t) /\ \A z \in Holds(t) : z \in Zone => busy[z]
  BY DEF ZoneExclusive, OneRole
<1>1. CASE ScanAcquire(t)
  <2>1. CASE ~Acquirable(nxt[t])
    BY <1>1, <2>1, ExclusiveKept DEF ScanAcquire
  <2>2. CASE Acquirable(nxt[t])
    <3>1. /\ nxt[t] \in Zone /\ ~busy[nxt[t]] /\ cur[t] = NoZone
          /\ busy' = [busy EXCEPT ![nxt[t]] = TRUE]
          /\ cur' = [cur EXCEPT ![t] = nxt[t]]
          /\ UNCHANGED <<cand, act>>
      BY <1>1, <2>2, ZoneFacts DEF TypeOK, ScanAcquire, Acquirable
    <3>2. Holds(t)' = Holds(t) \cup {nxt[t]}
      BY <3>1, ZoneFacts DEF TypeOK, Holds
    <3>3. nxt[t] \notin Holds(t) /\ Holds(t) \subseteq Zone
      BY <1>0, <3>1 DEF TypeOK, Holds
    <3>4. OneRole(t)'
      BY <1>0, <3>1, <3>3, ZoneFacts DEF TypeOK, OneRole, Holds
    <3>5. /\ \A z \in Zone : z \in Holds(t)' => z \in Holds(t) \/ ~busy[z]
          /\ Holds(t)' \subseteq Zone
          /\ \A z \in Zone : busy'[z] <=> z \in Holds(t)' \/ (busy[z] /\ z \notin Holds(t))
      BY <1>0, <3>1, <3>2, <3>3 DEF TypeOK
    <3>6. \A u \in Writers \ {t} :
            cur'[u] = cur[u] /\ cand'[u] = cand[u] /\ act'[u] = act[u]
      BY <3>1 DEF TypeOK
    <3> QED BY <3>4, <3>5, <3>6, ExclusiveTrade
  <2> QED BY <2>1, <2>2
<1>2. CASE ScanKeep(t)
  <2>1. /\ cur[t] \in Zone /\ cur[t] # NoZone
        /\ busy' = [z \in Zone |-> busy[z] /\ z # cand[t]]
        /\ cand' = [cand EXCEPT ![t] = cur[t]]
        /\ cur' = [cur EXCEPT ![t] = NoZone]
        /\ UNCHANGED act
    BY <1>2 DEF TypeOK, ScanKeep
  <2>2. act[t] = NoZone
    BY <1>2 DEF ScanKeep, Searching, Roles
  <2>3. Holds(t)' = {cur[t]} /\ Holds(t) = {cur[t]} \cup ({cand[t]} \ {NoZone})
    BY <2>1, <2>2 DEF TypeOK, Holds
  <2>4. OneRole(t)' /\ cand[t] # cur[t]
    BY <1>0, <2>1, <2>2 DEF TypeOK, OneRole
  <2>5. \A u \in Writers \ {t} :
          cur'[u] = cur[u] /\ cand'[u] = cand[u] /\ act'[u] = act[u]
    BY <2>1 DEF TypeOK
  <2>6. \A z \in Zone : busy'[z] <=> z \in Holds(t)' \/ (busy[z] /\ z \notin Holds(t))
    <3> TAKE z \in Zone
    <3>1. busy'[z] <=> busy[z] /\ z # cand[t]
      BY <2>1
    <3>2. cur[t] = z => busy[z]
      BY <1>0, <2>3
    <3> QED BY <2>3, <2>4, <3>1, <3>2, ZoneFacts
  <2> QED BY <2>1, <2>3, <2>4, <2>5, <2>6, ExclusiveTrade
<1>3. CASE /\ cur[t] # NoZone
           /\ busy' = [busy EXCEPT ![cur[t]] = FALSE]
           /\ cur' = [cur EXCEPT ![t] = NoZone]
           /\ UNCHANGED <<cand, act>>
  <2>1. cur[t] \in Zone
    BY <1>3 DEF TypeOK
  <2>2. Holds(t)' = Holds(t) \ {cur[t]} /\ cur[t] \in Holds(t) /\ Holds(t) \subseteq Zone
    BY <1>0, <1>3, <2>1 DEF TypeOK, Holds, OneRole
  <2>3. OneRole(t)'
    BY <1>0, <1>3 DEF TypeOK, OneRole
  <2>4. \A u \in Writers \ {t} :
          cur'[u] = cur[u] /\ cand'[u] = cand[u] /\ act'[u] = act[u]
    BY <1>3 DEF TypeOK
  <2>5. \A z \in Zone : busy'[z] <=> z \in Holds(t)' \/ (busy[z] /\ z \notin Holds(t))
    BY <1>0, <1>3, <2>1, <2>2 DEF TypeOK
  <2> QED BY <2>2, <2>3, <2>4, <2>5, ExclusiveTrade
<1> QED BY <1>1, <1>2, <1>3 DEF Search, ScanPass, ScanFinish, ScanReset

(* The zone found becomes the active zone: it changes its role, no lock.    *)
LEMMA SetActiveExclusive ==
  ASSUME TypeOK, ZoneExclusive, NEW t \in Writers, SetActiveZone(t),
         act[t] = NoZone, cur[t] = NoZone, UNCHANGED <<busy, cur>>
  PROVE  ZoneExclusive'
<1>1. act' = [act EXCEPT ![t] = cand[t]] /\ cand' = [cand EXCEPT ![t] = NoZone]
  BY DEF SetActiveZone
<1>2. Holds(t)' = Holds(t) /\ Holds(t) \subseteq Zone /\ OneRole(t)'
  BY <1>1 DEF TypeOK, Holds, OneRole
<1>3. \A u \in Writers \ {t} :
        cur'[u] = cur[u] /\ cand'[u] = cand[u] /\ act'[u] = act[u]
  BY <1>1 DEF TypeOK
<1>4. \A z \in Zone : busy'[z] <=> z \in Holds(t)' \/ (busy[z] /\ z \notin Holds(t))
  BY <1>2 DEF ZoneExclusive
<1> QED BY <1>2, <1>3, <1>4, ExclusiveTrade

(* The candidate is released, after FinishCheapestIOZone or for a new zone. *)
LEMMA DropExclusive ==
  ASSUME TypeOK, ZoneExclusive, NEW t \in Writers,
         \A z \in Zone : busy'[z] <=> busy[z] /\ z # cand[t],
         cand' = [cand EXCEPT ![t] = NoZone], act[t] = NoZone, UNCHANGED <<cur, act>>
  PROVE  ZoneExclusive'
<1>0. OneRole(t)
  BY DEF ZoneExclusive, OneRole
<1>1. Holds(t)' = Holds(t) \ {cand[t]} /\ Holds(t) \subseteq Zone /\ OneRole(t)'
  BY <1>0 DEF TypeOK, Holds, OneRole
<1>2. \A u \in Writers \ {t} :
        cur'[u] = cur[u] /\ cand'[u] = cand[u] /\ act'[u] = act[u]
  BY DEF TypeOK
<1>3. \A z \in Zone : busy'[z] <=> z \in Holds(t)' \/ (busy[z] /\ z \notin Holds(t))
  <2> TAKE z \in Zone
  <2>1. z \in Holds(t) => busy[z]
    BY DEF ZoneExclusive
  <2>2. z = cand[t] => z \in Holds(t)
    BY ZoneFacts DEF Holds
  <2> QED BY <1>1, <2>1, <2>2
<1> QED BY <1>1, <1>2, <1>3, ExclusiveTrade

(* Allocation steps keep zones exclusive.                                   *)
LEMMA AllocateExclusive ==
  ASSUME TypeOK, Roles, ZoneExclusive, NEW t \in Writers, Allocate(t)
  PROVE  ZoneExclusive'
<1> USE DEF zoneVars, tokenVars, fileVars, searchVars
<1>1. CASE UNCHANGED <<busy, cur, cand, act>>
  BY <1>1, ExclusiveKept
<1>2. CASE SetActiveZone(t)
  <2>1. CASE BestMatchDone(t) \/ EmptyZoneDone(t)
    <3>1. cur[t] = NoZone /\ act[t] = NoZone
      BY <2>1 DEF BestMatchDone, EmptyZoneDone, SearchEnded, Searching, Roles
    <3> QED BY <1>2, <2>1, <3>1, SetActiveExclusive DEF BestMatchDone, EmptyZoneDone
  <2>2. CASE TryActiveToken(t)
    <3>1. cur[t] = NoZone /\ act[t] = NoZone
      BY <2>2 DEF TryActiveToken, Roles
    <3> QED BY <1>2, <2>2, <3>1, SetActiveExclusive DEF TryActiveToken
  <2>3. ~(DropCandidate(t) \/ FinishVictim(t))
    BY <1>2 DEF SetActiveZone, DropCandidate, FinishVictim, Goto, TypeOK
  <2> QED BY <1>1, <2>1, <2>2, <2>3
          DEF Allocate, AllocateIOZone, ThresholdDone, WaitForOpenIOZoneToken,
              SpinForActiveToken, CheapestDone, PutOpenIOZoneToken, PutActiveIOZoneToken
<1>3. CASE DropCandidate(t)
  <2>1. act[t] = NoZone
    BY <1>3 DEF DropCandidate, Roles
  <2> QED BY <1>3, <2>1, DropExclusive DEF DropCandidate
<1>4. CASE FinishVictim(t)
  <2>1. act[t] = NoZone
    BY <1>4 DEF FinishVictim, Roles
  <2>2. \A z \in Zone : busy'[z] <=> busy[z] /\ z # cand[t]
    BY <1>4 DEF FinishVictim, TypeOK
  <2> QED BY <1>4, <2>1, <2>2, DropExclusive DEF FinishVictim
<1>5. CASE BestMatchDone(t) \/ TryActiveToken(t) \/ EmptyZoneDone(t)
  BY <1>1, <1>2, <1>5 DEF BestMatchDone, TryActiveToken, EmptyZoneDone
<1>6. CASE AllocateIOZone(t) \/ ThresholdDone(t) \/ WaitForOpenIOZoneToken(t)
           \/ SpinForActiveToken(t) \/ CheapestDone(t)
           \/ PutOpenIOZoneToken(t) \/ PutActiveIOZoneToken(t)
  BY <1>1, <1>6 DEF AllocateIOZone, ThresholdDone, WaitForOpenIOZoneToken,
     SpinForActiveToken, CheapestDone, PutOpenIOZoneToken, PutActiveIOZoneToken
<1> QED BY <1>3, <1>4, <1>5, <1>6 DEF Allocate

(* Writing, reclaiming, closing and client calls keep zones exclusive.      *)
LEMMA FileExclusive ==
  ASSUME TypeOK, Roles, ZoneExclusive, NEW t \in Writers,
         Write(t) \/ Reclaim(t) \/ Close(t) \/ Call(t)
  PROVE  ZoneExclusive'
<1> USE DEF zoneVars, tokenVars, fileVars, searchVars
<1>1. CASE UNCHANGED <<busy, cur, cand, act>>
  BY <1>1, ExclusiveKept
<1>2. CASE CloseActiveZone(t)
  <2>0. OneRole(t) /\ cur[t] = NoZone
    BY <1>2 DEF ZoneExclusive, OneRole, CloseActiveZone, Roles
  <2>1. /\ busy' = [busy EXCEPT ![act[t]] = FALSE]
        /\ act' = [act EXCEPT ![t] = NoZone]
        /\ UNCHANGED <<cur, cand>>
    BY <1>2 DEF CloseActiveZone
  <2>2. Holds(t)' = Holds(t) \ {act[t]} /\ Holds(t) \subseteq Zone /\ OneRole(t)'
    BY <2>0, <2>1 DEF TypeOK, Holds, OneRole
  <2>3. \A u \in Writers \ {t} :
          cur'[u] = cur[u] /\ cand'[u] = cand[u] /\ act'[u] = act[u]
    BY <2>1 DEF TypeOK
  <2>4. \A z \in Zone : busy'[z] <=> z \in Holds(t)' \/ (busy[z] /\ z \notin Holds(t))
    <3> TAKE z \in Zone
    <3>1. z \in Holds(t) => busy[z]
      BY DEF ZoneExclusive
    <3>2. z = act[t] => z \in Holds(t)
      BY ZoneFacts DEF Holds
    <3>3. busy'[z] <=> busy[z] /\ z # act[t]
      BY <2>1 DEF TypeOK
    <3> QED BY <2>2, <3>1, <3>2, <3>3
  <2> QED BY <2>2, <2>3, <2>4, ExclusiveTrade
<1>3. CASE Write(t)
  BY <1>1, <1>3 DEF Write, AppendNeedsZone, AppendReturns, AppendLeavesFullZone,
     AppendWrites, AppendFails
<1>4. CASE Reclaim(t)
  BY <1>1, <1>4 DEF Reclaim, ClearExtent, ResetUnusedIOZones, ResetDone
<1>5. CASE CloseFile(t) \/ SetZoneDeferredStatus(t)
  BY <1>1, <1>5 DEF CloseFile, SetZoneDeferredStatus
<1>6. CASE Call(t)
  BY <1>1, <1>6 DEF Call, OpenWritableFile, ReopenWritableFile, Append, Fsync, DeleteFile
<1> QED BY <1>2, <1>3, <1>4, <1>5, <1>6 DEF Close

(* A zone belongs to at most one thread, in one role, and is busy exactly   *)
(* then: busy_, taken by compare-and-swap in Zone::Acquire and given back   *)
(* by CheckRelease in the searches, FinishCheapestIOZone, AllocateIOZone    *)
(* and CloseActiveZone, is a correct lock whatever the device refuses.      *)
THEOREM ZonesExclusive == Spec => []ZoneExclusive
<1>1. Init => ZoneExclusive
  BY DEF Init, ZoneExclusive, Holds
<1>2. Typed /\ ZoneExclusive /\ [Next]_vars => ZoneExclusive'
  <2> SUFFICES ASSUME TypeOK, Roles, ZoneExclusive, [Next]_vars PROVE ZoneExclusive'
    BY DEF Typed
  <2>1. CASE UNCHANGED vars
    BY <2>1, ExclusiveKept DEF vars, zoneVars, searchVars, fileVars
  <2>2. ASSUME NEW t \in Writers, Step(t) \/ Call(t) PROVE ZoneExclusive'
    BY <2>2, SearchExclusive, AllocateExclusive, FileExclusive DEF Step
  <2> QED BY <2>1, <2>2 DEF Next
<1> QED BY <1>1, <1>2, InitTyped, NextTyped, PTL DEF Spec

-----------------------------------------------------------------------------
(* Open tokens                                                              *)

(* CloseActiveZone is called only by a file that has an active zone, so the *)
(* token it puts back is one the file took.                                 *)
ClosesItsZone == \A t \in Writers : pc[t] = "close" => act[t] # NoZone

(* The two steps that touch open_io_zones_.                                 *)
TakesToken(t) == WaitForOpenIOZoneToken(t) /\ open < OpenLimit(t)
PutsToken(t)  == PutOpenIOZoneToken(t)

(* A thread that is not woken and does not move holds what it held.         *)
LEMMA HolderUnmoved ==
  ASSUME NEW u, pc'[u] = pc[u], job'[u] = job[u], act'[u] = act[u]
  PROVE  HoldsOpenToken(u)' <=> HoldsOpenToken(u)
BY DEF HoldsOpenToken, Searching

(* Only WaitForOpenIOZoneToken makes a thread a holder of an open token,    *)
(* and PutOpenIOZoneToken makes the caller none.                            *)
LEMMA HolderStep ==
  ASSUME TypeOK, Roles, ClosesItsZone, NEW t \in Writers, Step(t) \/ Call(t)
  PROVE  /\ HoldsOpenToken(t)' => HoldsOpenToken(t) \/ TakesToken(t)
         /\ PutsToken(t) => HoldsOpenToken(t) /\ ~HoldsOpenToken(t)'
<1> USE DEF TypeOK, Roles, zoneVars, tokenVars, searchVars, fileVars, HoldsOpenToken,
            Searching
<1>1. CASE Search(t)
  <2>1. pc[t] = "scan" /\ ~PutsToken(t)
    BY <1>1 DEF Search, ScanAcquire, ScanKeep, ScanPass, ScanFinish, ScanReset,
       PutsToken, PutOpenIOZoneToken
  <2>2. CASE ScanAcquire(t) \/ ScanKeep(t) \/ ScanPass(t)
    BY <2>1, <2>2 DEF ScanAcquire, ScanKeep, ScanPass
  <2>3. CASE ScanFinish(t)
    BY <2>1, <2>3 DEF ScanFinish, Fail, Goto
  <2>4. CASE ScanReset(t)
    BY <2>1, <2>4 DEF ScanReset, Fail, Goto, AfterReset
  <2> QED BY <1>1, <2>1, <2>2, <2>3, <2>4 DEF Search
<1>2. CASE Allocate(t) /\ ~PutOpenIOZoneToken(t) /\ ~PutActiveIOZoneToken(t)
  <2>1. CASE AllocateIOZone(t) \/ ThresholdDone(t)
    BY <1>2, <2>1 DEF AllocateIOZone, ThresholdDone, SearchEnded, StartSearch, Fail, Goto,
       PutsToken
  <2>2. CASE WaitForOpenIOZoneToken(t)
    BY <1>2, <2>2 DEF WaitForOpenIOZoneToken, Goto, TakesToken, PutsToken
  <2>3. CASE \/ BestMatchDone(t) \/ TryActiveToken(t) \/ DropCandidate(t)
             \/ SpinForActiveToken(t) \/ CheapestDone(t) \/ FinishVictim(t)
             \/ EmptyZoneDone(t)
    BY <1>2, <2>3 DEF BestMatchDone, TryActiveToken, DropCandidate, SpinForActiveToken,
       CheapestDone, FinishVictim, EmptyZoneDone, SearchEnded, PutsToken
  <2> QED BY <1>2, <2>1, <2>2, <2>3 DEF Allocate
<1>3. CASE PutOpenIOZoneToken(t)
  <2> DEFINE there == CASE job[t] \in {"roll", "shutfull"} -> "putactive"
                        [] job[t] = "shut" -> "closed"
                        [] OTHER -> "ready"
  <2>1. /\ pc[t] = "putopen" /\ NotifyAndGoto(t, there)
        /\ job' = [job EXCEPT ![t] = IF @ \in {"shut", "fail"} THEN "none" ELSE @]
        /\ act'[t] = NoZone
    BY <1>3 DEF PutOpenIOZoneToken
  <2>2. pc'[t] = there
    <3>1. there \in Pcs
      BY DEF Pcs
    <3> HIDE DEF there
    <3> QED BY <2>1, <3>1, NotifyFacts
  <2> QED BY <2>1, <2>2
<1>4. CASE PutActiveIOZoneToken(t)
  <2> DEFINE there == CASE job[t] \in {"threshold", "reset"} -> "scan"
                        [] job[t] = "cheapest" -> "spin"
                        [] job[t] = "empty" -> "putopen"
                        [] job[t] = "roll" -> "alloc"
                        [] OTHER -> "closed"
  <2>1. /\ pc[t] = "putactive" /\ NotifyAndGoto(t, there)
        /\ job' = [job EXCEPT ![t] = CASE @ \in {"roll", "shutfull"} -> "none"
                                       [] @ = "empty" -> "fail"
                                       [] OTHER -> @]
        /\ act'[t] = NoZone
    BY <1>4 DEF PutActiveIOZoneToken
  <2>2. pc'[t] = there
    <3>1. there \in Pcs
      BY DEF Pcs
    <3> HIDE DEF there
    <3> QED BY <2>1, <3>1, NotifyFacts
  <2> QED BY <2>1, <2>2 DEF PutsToken, PutOpenIOZoneToken
<1>5. CASE Write(t) \/ Reclaim(t) \/ Call(t)
  <2>1. pc[t] \in {"append", "clear", "scan", "nofile", "closed", "ready"} /\ ~PutsToken(t)
    BY <1>5 DEF Write, Reclaim, Call, AppendNeedsZone, AppendReturns, AppendLeavesFullZone,
       AppendWrites, AppendFails, ClearExtent, ResetUnusedIOZones, ResetDone, SearchEnded,
       OpenWritableFile, ReopenWritableFile, Append, Fsync, DeleteFile, PutsToken,
       PutOpenIOZoneToken
  <2>2. CASE Write(t)
    BY <2>1, <2>2 DEF Write, AppendNeedsZone, AppendReturns, AppendLeavesFullZone,
       AppendWrites, AppendFails, Goto
  <2>3. CASE Reclaim(t)
    BY <2>1, <2>3 DEF Reclaim, ClearExtent, ResetUnusedIOZones, ResetDone, SearchEnded,
       StartSearch, Goto
  <2>4. CASE Call(t)
    BY <2>1, <2>4 DEF Call, OpenWritableFile, ReopenWritableFile, Append, Fsync,
       DeleteFile, Goto
  <2> QED BY <1>5, <2>2, <2>3, <2>4
<1>6. CASE Close(t)
  <2>1. pc[t] \in {"ready", "close", "dtor"} /\ ~PutsToken(t)
    BY <1>6 DEF Close, CloseFile, CloseActiveZone, SetZoneDeferredStatus, PutsToken,
       PutOpenIOZoneToken
  <2> QED BY <1>6, <2>1 DEF Close, CloseFile, CloseActiveZone, SetZoneDeferredStatus,
         Goto, ClosesItsZone
<1> QED BY <1>1, <1>2, <1>3, <1>4, <1>5, <1>6 DEF Step, Allocate

(* A step of t leaves the other threads where they are, or wakes a sleeper. *)
LEMMA OthersUnmoved ==
  ASSUME TypeOK, NEW t \in Writers, Step(t) \/ Call(t), NEW u \in Writers, u # t
  PROVE  /\ pc'[u] = pc[u] \/ (pc[u] = "asleep" /\ pc'[u] = "token")
         /\ job'[u] = job[u] /\ act'[u] = act[u]
<1> USE DEF TypeOK, zoneVars, tokenVars, searchVars, fileVars
<1>1. CASE Search(t)
  BY <1>1 DEF Search, ScanAcquire, ScanKeep, ScanPass, ScanFinish, ScanReset, Fail, Goto
<1>2. CASE Allocate(t) /\ ~PutOpenIOZoneToken(t) /\ ~PutActiveIOZoneToken(t)
  BY <1>2 DEF Allocate, AllocateIOZone, ThresholdDone, WaitForOpenIOZoneToken,
     BestMatchDone, TryActiveToken, DropCandidate, SpinForActiveToken, CheapestDone,
     FinishVictim, EmptyZoneDone, SetActiveZone, StartSearch, Fail, Goto
<1>3. CASE PutOpenIOZoneToken(t)
  BY <1>3 DEF PutOpenIOZoneToken, NotifyAndGoto, Goto, Asleep
<1>4. CASE PutActiveIOZoneToken(t)
  BY <1>4 DEF PutActiveIOZoneToken, NotifyAndGoto, Goto, Asleep
<1>5. CASE Write(t)
  BY <1>5 DEF Write, AppendNeedsZone, AppendReturns, AppendLeavesFullZone,
     AppendWrites, AppendFails, Goto
<1>6. CASE Reclaim(t)
  BY <1>6 DEF Reclaim, ClearExtent, ResetUnusedIOZones, ResetDone, StartSearch, Goto
<1>7. CASE Close(t)
  BY <1>7 DEF Close, CloseFile, CloseActiveZone, SetZoneDeferredStatus, Goto
<1>8. CASE Call(t)
  BY <1>8 DEF Call, OpenWritableFile, ReopenWritableFile, Append, Fsync, DeleteFile, Goto
<1> QED BY <1>1, <1>2, <1>3, <1>4, <1>5, <1>6, <1>7, <1>8 DEF Step, Allocate

(* open_io_zones_ is changed by its two functions alone.                    *)
LEMMA OpenStep ==
  ASSUME NEW t \in Writers, Step(t) \/ Call(t)
  PROVE  open' = IF TakesToken(t) THEN open + 1 ELSE IF PutsToken(t) THEN open - 1 ELSE open
<1> USE DEF zoneVars, tokenVars, TakesToken, PutsToken
<1>1. CASE WaitForOpenIOZoneToken(t)
  BY <1>1 DEF WaitForOpenIOZoneToken, PutOpenIOZoneToken
<1>2. CASE PutOpenIOZoneToken(t)
  BY <1>2 DEF PutOpenIOZoneToken, WaitForOpenIOZoneToken
<1>3. CASE ~WaitForOpenIOZoneToken(t) /\ ~PutOpenIOZoneToken(t)
  BY <1>3 DEF Step, Search, Allocate, Write, Reclaim, Close, Call,
     ScanAcquire, ScanKeep, ScanPass, ScanFinish, ScanReset, AllocateIOZone,
     ThresholdDone, BestMatchDone, TryActiveToken, DropCandidate, SpinForActiveToken,
     CheapestDone, FinishVictim, EmptyZoneDone, PutActiveIOZoneToken, AppendNeedsZone,
     AppendReturns, AppendLeavesFullZone, AppendWrites, AppendFails, ClearExtent,
     ResetUnusedIOZones, ResetDone, CloseFile, CloseActiveZone, SetZoneDeferredStatus,
     OpenWritableFile, ReopenWritableFile, Append, Fsync, DeleteFile
<1> QED BY <1>1, <1>2, <1>3

(* Only a file with an active zone reaches CloseActiveZone.                 *)
LEMMA ClosesItsZoneKept ==
  ASSUME TypeOK, Roles, ClosesItsZone, NEW t \in Writers, Step(t) \/ Call(t)
  PROVE  ClosesItsZone'
<1> USE DEF TypeOK, zoneVars, tokenVars, searchVars, fileVars
<1>1. SUFFICES ASSUME pc'[t] = "close" PROVE act'[t] # NoZone
  BY OthersUnmoved DEF ClosesItsZone
<1>2. CASE Search(t)
  BY <1>1, <1>2 DEF Search, ScanAcquire, ScanKeep, ScanPass, ScanFinish, ScanReset, Fail,
     Goto, AfterReset, Searching
<1>3. CASE Allocate(t) /\ ~PutOpenIOZoneToken(t) /\ ~PutActiveIOZoneToken(t)
  BY <1>1, <1>3 DEF Allocate, AllocateIOZone, ThresholdDone, WaitForOpenIOZoneToken,
     BestMatchDone, TryActiveToken, DropCandidate, SpinForActiveToken, CheapestDone,
     FinishVictim, EmptyZoneDone, SetActiveZone, StartSearch, Fail, Goto
<1>4. CASE PutOpenIOZoneToken(t)
  BY <1>1, <1>4 DEF PutOpenIOZoneToken, NotifyAndGoto, Goto, Asleep
<1>5. CASE PutActiveIOZoneToken(t)
  BY <1>1, <1>5 DEF PutActiveIOZoneToken, NotifyAndGoto, Goto, Asleep
<1>6. CASE Write(t)
  BY <1>1, <1>6 DEF Write, AppendNeedsZone, AppendReturns, AppendLeavesFullZone,
     AppendWrites, AppendFails, Goto
<1>7. CASE Reclaim(t)
  BY <1>1, <1>7 DEF Reclaim, ClearExtent, ResetUnusedIOZones, ResetDone, StartSearch, Goto
<1>8. CASE Close(t)
  BY <1>1, <1>8 DEF Close, CloseFile, CloseActiveZone, SetZoneDeferredStatus, Goto
<1>9. CASE Call(t)
  BY <1>1, <1>9 DEF Call, OpenWritableFile, ReopenWritableFile, Append, Fsync, DeleteFile,
     Goto
<1> QED BY <1>2, <1>3, <1>4, <1>5, <1>6, <1>7, <1>8, <1>9 DEF Step, Allocate

(* How a step changes the set of holders.                                   *)
LEMMA HoldersStep ==
  ASSUME TypeOK, Roles, ClosesItsZone, NEW t \in Writers, Step(t) \/ Call(t)
  PROVE  /\ OpenHolders' \subseteq OpenHolders \cup {t}
         /\ ~TakesToken(t) => OpenHolders' \subseteq OpenHolders
         /\ PutsToken(t) => t \in OpenHolders /\ OpenHolders' \subseteq OpenHolders \ {t}
<1>1. ASSUME NEW u \in Writers, u # t, HoldsOpenToken(u)' PROVE HoldsOpenToken(u)
  <2>1. CASE pc'[u] = pc[u]
    BY <1>1, <2>1, OthersUnmoved, HolderUnmoved
  <2>2. CASE pc[u] = "asleep" /\ pc'[u] = "token"
    BY <1>1, <2>2, OthersUnmoved DEF HoldsOpenToken, Searching
  <2> QED BY <1>1, <2>1, <2>2, OthersUnmoved
<1> QED BY <1>1, HolderStep DEF OpenHolders

(* A set that gained at most one element.                                   *)
LEMMA SubsetPlusOne ==
  ASSUME NEW S, NEW R, NEW x, IsFiniteSet(S), R \subseteq S \cup {x}
  PROVE  Cardinality(R) <= Cardinality(S) + 1
<1>1. IsFiniteSet(S \cup {x}) /\ Cardinality(S) \in Nat
      /\ Cardinality(S \cup {x}) \in {Cardinality(S), Cardinality(S) + 1}
  BY FS_AddElement, FS_CardinalityType
<1>2. Cardinality(R) <= Cardinality(S \cup {x}) /\ Cardinality(R) \in Nat
  BY <1>1, FS_Subset, FS_CardinalityType
<1> QED BY <1>1, <1>2

(* A thread that takes an open token, and one that returns it, step the     *)
(* counter with the holders; the reserved slot is never given away.         *)
LEMMA OpenBoundStep ==
  ASSUME TypeOK, Roles, ClosesItsZone, OpenZonesBounded, WalSlotReserved,
         NEW t \in Writers, Step(t) \/ Call(t)
  PROVE  OpenZonesBounded' /\ WalSlotReserved'
<1> DEFINE H == OpenHolders
           N == OpenHolders \ Wal
<1>1. /\ IsFiniteSet(H) /\ IsFiniteSet(H') /\ IsFiniteSet(N) /\ IsFiniteSet(N')
      /\ Cardinality(H) \in Nat /\ Cardinality(H') \in Nat
      /\ Cardinality(N) \in Nat /\ Cardinality(N') \in Nat
  <2>1. H \subseteq Writers /\ H' \subseteq Writers
    BY DEF OpenHolders
  <2>2. N \subseteq Writers /\ N' \subseteq Writers
    BY <2>1
  <2> HIDE DEF H, N
  <2>3. IsFiniteSet(H) /\ IsFiniteSet(H') /\ IsFiniteSet(N) /\ IsFiniteSet(N')
    BY <2>1, <2>2, WriterAssumption, FS_Subset
  <2> QED BY <2>3, FS_CardinalityType
<1>2. Cardinality(H) <= open /\ open <= MaxOpen /\ open \in Int /\ MaxOpen \in Nat
  BY DeviceAssumption DEF OpenZonesBounded, TypeOK
<1>3. CASE TakesToken(t)
  <2>1. open' = open + 1 /\ open < OpenLimit(t)
    BY <1>3, OpenStep DEF TakesToken
  <2>2. H' \subseteq H \cup {t} /\ N' \subseteq N \cup {t}
    BY HoldersStep
  <2>3. Cardinality(H') <= Cardinality(H) + 1
    BY <1>1, <2>2, SubsetPlusOne
  <2>4. OpenZonesBounded'
    BY <1>1, <1>2, <2>1, <2>3 DEF OpenLimit, OpenZonesBounded
  <2>5. CASE t \in Wal
    <3>1. N' \subseteq N
      BY <2>2, <2>5
    <3>2. Cardinality(N') <= Cardinality(N)
      BY <1>1, <3>1, FS_Subset
    <3> QED BY <1>1, <1>2, <2>4, <3>1, <3>2 DEF WalSlotReserved
  <2>6. CASE t \notin Wal
    <3>1. N' \subseteq H'
      OBVIOUS
    <3>2. Cardinality(N') <= Cardinality(H')
      BY <1>1, <3>1, FS_Subset
    <3>3. Cardinality(H') < MaxOpen
      BY <1>1, <1>2, <2>1, <2>3, <2>6 DEF OpenLimit
    <3> QED BY <1>1, <1>2, <2>4, <3>2, <3>3 DEF WalSlotReserved
  <2> QED BY <2>5, <2>6
<1>4. CASE ~TakesToken(t)
  <2>1. H' \subseteq H /\ N' \subseteq N
    BY <1>4, HoldersStep
  <2>2. Cardinality(H') <= Cardinality(H) /\ Cardinality(N') <= Cardinality(N)
    BY <1>1, <2>1, FS_Subset
  <2>3. WalSlotReserved'
    BY <1>1, <1>2, <2>1, <2>2 DEF WalSlotReserved
  <2>4. CASE PutsToken(t)
    <3>1. open' = open - 1 /\ t \in H /\ H' \subseteq H \ {t}
      BY <1>4, <2>4, OpenStep, HoldersStep
    <3>2. IsFiniteSet(H \ {t}) /\ Cardinality(H \ {t}) = Cardinality(H) - 1
      BY <1>1, <3>1, FS_RemoveElement
    <3>3. Cardinality(H') <= Cardinality(H \ {t})
      BY <3>1, <3>2, FS_Subset
    <3> QED BY <1>1, <1>2, <2>3, <3>1, <3>2, <3>3 DEF OpenZonesBounded
  <2>5. CASE ~PutsToken(t)
    <3>1. open' = open
      BY <1>4, <2>5, OpenStep
    <3> QED BY <1>1, <1>2, <2>2, <2>3, <3>1 DEF OpenZonesBounded
  <2> QED BY <2>4, <2>5
<1> QED BY <1>3, <1>4

(* What holds of the open tokens in every state.                            *)
OpenInv == OpenZonesBounded /\ WalSlotReserved /\ ClosesItsZone

(* The bounds on open_io_zones_ hold in every state.                        *)
LEMMA OpenInvariant == Spec => []OpenInv
<1>1. Init => OpenInv
  <2> SUFFICES ASSUME Init PROVE OpenInv
    OBVIOUS
  <2>1. OpenHolders = {} /\ OpenHolders \ Wal = {}
    BY DEF Init, OpenHolders, HoldsOpenToken, Searching
  <2>2. Cardinality(OpenHolders) = 0
    BY <2>1, FS_EmptySet
  <2> QED BY <2>1, <2>2, DeviceAssumption
          DEF Init, OpenInv, OpenZonesBounded, WalSlotReserved, ClosesItsZone
<1>2. Typed /\ OpenInv /\ [Next]_vars => OpenInv'
  <2> SUFFICES ASSUME TypeOK, Roles, OpenInv, [Next]_vars PROVE OpenInv'
    BY DEF Typed
  <2>1. CASE UNCHANGED vars
    BY <2>1 DEF vars, tokenVars, fileVars, OpenInv, OpenZonesBounded, WalSlotReserved,
       ClosesItsZone, OpenHolders, HoldsOpenToken, Searching
  <2>2. ASSUME NEW t \in Writers, Step(t) \/ Call(t) PROVE OpenInv'
    BY <2>2, OpenBoundStep, ClosesItsZoneKept DEF OpenInv
  <2> QED BY <2>1, <2>2 DEF Next
<1> QED BY <1>1, <1>2, InitTyped, NextTyped, PTL DEF Spec

(* WaitForOpenIOZoneToken and PutOpenIOZoneToken keep open_io_zones_ at     *)
(* least at the number of threads that hold a token and at most at the      *)
(* limit, for every limit, every mix of writers and every fault.            *)
THEOREM OpenZonesAreBounded == Spec => []OpenZonesBounded
<1>1. OpenInv => OpenZonesBounded
  BY DEF OpenInv
<1> QED BY <1>1, OpenInvariant, PTL

(* The slot that WaitForOpenIOZoneToken keeps back for prioritized callers  *)
(* is never handed to another, for every limit, mix of writers and fault.   *)
THEOREM WalSlotIsReserved == Spec => []WalSlotReserved
<1>1. OpenInv => WalSlotReserved
  BY DEF OpenInv
<1> QED BY <1>1, OpenInvariant, PTL

-----------------------------------------------------------------------------
(* Wake-ups                                                                 *)

(* The threads on their way to the predicate of the wait.                   *)
Tokens == {t \in Writers : pc[t] = "token"}

(* Nobody but WaitForOpenIOZoneToken leaves the wait, or goes to sleep.     *)
LEMMA WaiterStep ==
  ASSUME TypeOK, NEW t \in Writers, Step(t) \/ Call(t), ~WaitForOpenIOZoneToken(t)
  PROVE  pc[t] # "token" /\ pc[t] # "asleep" /\ pc'[t] # "asleep"
<1> USE DEF TypeOK, zoneVars, tokenVars, searchVars, fileVars
<1>1. CASE Search(t)
  BY <1>1 DEF Search, ScanAcquire, ScanKeep, ScanPass, ScanFinish, ScanReset, Fail, Goto,
     AfterReset, Searching
<1>2. CASE Allocate(t) /\ ~PutOpenIOZoneToken(t) /\ ~PutActiveIOZoneToken(t)
  BY <1>2 DEF Allocate, AllocateIOZone, ThresholdDone, BestMatchDone, TryActiveToken,
     DropCandidate, SpinForActiveToken, CheapestDone, FinishVictim, EmptyZoneDone,
     SetActiveZone, StartSearch, Fail, Goto, SearchEnded, Searching
<1>3. CASE PutOpenIOZoneToken(t)
  BY <1>3 DEF PutOpenIOZoneToken, NotifyAndGoto, Goto, Asleep
<1>4. CASE PutActiveIOZoneToken(t)
  BY <1>4 DEF PutActiveIOZoneToken, NotifyAndGoto, Goto, Asleep
<1>5. CASE Write(t)
  BY <1>5 DEF Write, AppendNeedsZone, AppendReturns, AppendLeavesFullZone,
     AppendWrites, AppendFails, Goto
<1>6. CASE Reclaim(t)
  BY <1>6 DEF Reclaim, ClearExtent, ResetUnusedIOZones, ResetDone, StartSearch, Goto,
     SearchEnded, Searching
<1>7. CASE Close(t)
  BY <1>7 DEF Close, CloseFile, CloseActiveZone, SetZoneDeferredStatus, Goto
<1>8. CASE Call(t)
  BY <1>8 DEF Call, OpenWritableFile, ReopenWritableFile, Append, Fsync, DeleteFile, Goto
<1> QED BY <1>1, <1>2, <1>3, <1>4, <1>5, <1>6, <1>7, <1>8 DEF Step, Allocate

(* PutOpenIOZoneToken wakes a sleeper, if there is one.                     *)
LEMMA PutWakes ==
  ASSUME TypeOK, NEW t \in Writers, PutOpenIOZoneToken(t), Asleep # {}
  PROVE  \E u \in Writers : u # t /\ pc[u] = "asleep" /\ pc'[u] = "token"
<1>1. pc[t] = "putopen" /\ pc \in [Writers -> Pcs]
  BY DEF PutOpenIOZoneToken, TypeOK
<1>2. PICK there : NotifyAndGoto(t, there)
  BY DEF PutOpenIOZoneToken
<1>3. PICK u \in Asleep : pc' = [pc EXCEPT ![u] = "token", ![t] = there]
  BY <1>2 DEF NotifyAndGoto
<1> QED BY <1>1, <1>3 DEF Asleep

(* Who sleeps is outnumbered by those on their way, step by step.           *)
LEMMA WakeupStep ==
  ASSUME TypeOK, NoLostWakeup, NEW t \in Writers, Step(t) \/ Call(t)
  PROVE  NoLostWakeup'
<1> SUFFICES ASSUME (Asleep \ Wal)' # {}
             PROVE  MaxOpen - 1 - open' <= Cardinality(Tokens')
  BY DEF NoLostWakeup, Tokens
<1>1. /\ IsFiniteSet(Tokens) /\ IsFiniteSet(Tokens')
      /\ Cardinality(Tokens) \in Nat /\ Cardinality(Tokens') \in Nat
      /\ open \in Int /\ MaxOpen \in Nat
  <2>1. Tokens \subseteq Writers /\ Tokens' \subseteq Writers
    BY DEF Tokens
  <2>2. IsFiniteSet(Tokens) /\ IsFiniteSet(Tokens')
    BY <2>1, WriterAssumption, FS_Subset
  <2> QED BY <2>2, FS_CardinalityType, DeviceAssumption DEF TypeOK
<1>2. \A u \in Writers : u # t =>
        pc'[u] = pc[u] \/ (pc[u] = "asleep" /\ pc'[u] = "token")
  BY OthersUnmoved
<1>3. CASE WaitForOpenIOZoneToken(t)
  <2>1. pc[t] = "token" /\ pc \in [Writers -> Pcs]
    BY <1>3 DEF WaitForOpenIOZoneToken, TypeOK
  <2>2. CASE open < OpenLimit(t)
    <3>1. open' = open + 1 /\ pc' = [pc EXCEPT ![t] = "scan"]
      BY <1>3, <2>2 DEF WaitForOpenIOZoneToken, StartSearch
    <3>2. Tokens' = Tokens \ {t} /\ t \in Tokens /\ Asleep' = Asleep
      BY <2>1, <3>1 DEF Tokens, Asleep
    <3>3. Cardinality(Tokens') = Cardinality(Tokens) - 1
      BY <1>1, <3>2, FS_RemoveElement
    <3>4. MaxOpen - 1 - open <= Cardinality(Tokens)
      BY <3>2 DEF NoLostWakeup, Tokens
    <3> QED BY <1>1, <3>1, <3>3, <3>4
  <2>3. CASE ~(open < OpenLimit(t))
    <3>1. open' = open
      BY <1>3, <2>3 DEF WaitForOpenIOZoneToken
    <3> QED BY <1>1, <2>3, <3>1 DEF OpenLimit
  <2> QED BY <2>2, <2>3
<1>4. CASE ~WaitForOpenIOZoneToken(t)
  <2>1. pc[t] # "token" /\ pc[t] # "asleep" /\ pc'[t] # "asleep"
    BY <1>4, WaiterStep
  <2>2. Tokens \subseteq Tokens' /\ Asleep' \subseteq Asleep
    BY <1>2, <2>1 DEF Tokens, Asleep
  <2>3. Asleep \ Wal # {} /\ Asleep # {}
    BY <2>2
  <2>4. MaxOpen - 1 - open <= Cardinality(Tokens)
    BY <2>3 DEF NoLostWakeup, Tokens
  <2>5. CASE PutOpenIOZoneToken(t)
    <3>1. PICK u \in Writers : u # t /\ pc[u] = "asleep" /\ pc'[u] = "token"
      BY <2>3, <2>5, PutWakes
    <3>2. u \notin Tokens /\ Tokens \cup {u} \subseteq Tokens'
      BY <2>2, <3>1 DEF Tokens
    <3>3. Cardinality(Tokens \cup {u}) = Cardinality(Tokens) + 1
      BY <1>1, <3>2, FS_AddElement
    <3>4. Cardinality(Tokens \cup {u}) <= Cardinality(Tokens')
      BY <1>1, <3>2, FS_Subset
    <3>5. open' = open - 1
      BY <2>5 DEF PutOpenIOZoneToken
    <3> QED BY <1>1, <2>4, <3>3, <3>4, <3>5
  <2>6. CASE ~PutOpenIOZoneToken(t)
    <3>1. open' = open
      BY <1>4, <2>6, OpenStep DEF TakesToken, PutsToken
    <3>2. Cardinality(Tokens) <= Cardinality(Tokens')
      BY <1>1, <2>2, FS_Subset
    <3> QED BY <1>1, <2>4, <3>1, <3>2
  <2> QED BY <2>5, <2>6
<1> QED BY <1>3, <1>4

(* notify_one() in the two Put functions is enough for the allocators that  *)
(* are not prioritized: while one of them sleeps, the open tokens that it   *)
(* may take are gone or are spoken for by threads about to test the         *)
(* predicate of WaitForOpenIOZoneToken.                                     *)
THEOREM NoWakeupIsLost == Spec => []NoLostWakeup
<1>1. Init => NoLostWakeup
  BY DEF Init, NoLostWakeup, Asleep
<1>2. Typed /\ NoLostWakeup /\ [Next]_vars => NoLostWakeup'
  <2> SUFFICES ASSUME TypeOK, NoLostWakeup, [Next]_vars PROVE NoLostWakeup'
    BY DEF Typed
  <2>1. CASE UNCHANGED vars
    BY <2>1 DEF vars, tokenVars, NoLostWakeup, Asleep
  <2>2. ASSUME NEW t \in Writers, Step(t) \/ Call(t) PROVE NoLostWakeup'
    BY <2>2, WakeupStep
  <2> QED BY <2>1, <2>2 DEF Next
<1> QED BY <1>1, <1>2, InitTyped, NextTyped, PTL DEF Spec

-----------------------------------------------------------------------------
(* Live data                                                                *)

(* What is written but in no extent yet was written directly, to the        *)
(* active zone of a file that is not about to give the zone up.             *)
Synced == \A t \in Writers :
            act[t] = NoZone \/ pc[t] = "close" \/ t \in Buffered => unsynced[t] = 0

Load(z) == [t \in Writers |-> ext[t][z]]

(* used_capacity_ is the sum of the extents in the zone.                    *)
Counted == \A z \in Zone : used[z] = SumFunction(Load(z))

(* Extents, and what will become one, lie below the write pointer.          *)
Written == \A z \in Zone :
             /\ used[z] <= wp[z]
             /\ \A t \in Writers : act[t] = z => used[z] + unsynced[t] <= wp[z]

LiveInv == Synced /\ Counted /\ Written

(* The used capacity of a zone bounds each file's part of it.               *)
LEMMA LoadFacts ==
  ASSUME TypeOK, Counted, NEW z \in Zone
  PROVE  used[z] \in Nat /\ \A t \in Writers : ext[t][z] \in Nat /\ ext[t][z] <= used[z]
<1>1. \A t \in Writers : Load(z)[t] = ext[t][z] /\ ext[t][z] \in Nat
  BY DEF Load, TypeOK
<1>2. PICK f : f = Load(z)
  OBVIOUS
<1>3. DOMAIN f = Writers
  BY <1>2 DEF Load
<1>4. /\ SumFunctionOnSet(f, Writers) \in Nat
      /\ \A x \in Writers : f[x] <= SumFunctionOnSet(f, Writers)
  BY <1>1, <1>2, SumNat, WriterAssumption
<1>5. used[z] = SumFunctionOnSet(f, Writers)
  BY <1>2, <1>3 DEF Counted, SumFunction
<1> QED BY <1>1, <1>2, <1>4, <1>5

(* An extent that grows or shrinks takes the used capacity with it.         *)
LEMMA CountedChange ==
  ASSUME TypeOK, TypeOK', Counted, NEW t \in Writers, NEW z \in Zone, NEW n \in Int,
         \A u \in Writers, y \in Zone : u # t \/ y # z => ext'[u][y] = ext[u][y],
         ext'[t][z] = ext[t][z] + n,
         \A y \in Zone : y # z => used'[y] = used[y],
         used'[z] = used[z] + n
  PROVE  Counted'
<1> SUFFICES ASSUME NEW y \in Zone PROVE used'[y] = SumFunction(Load(y)')
  BY DEF Counted
<1>1. PICK f : f = Load(y)
  OBVIOUS
<1>2. PICK h : h = Load(y)'
  OBVIOUS
<1>3. f \in [Writers -> Int] /\ \A u \in Writers : f[u] = ext[u][y]
  BY <1>1 DEF Load, TypeOK
<1>4. h \in [Writers -> Int] /\ \A u \in Writers : h[u] = ext'[u][y]
  BY <1>2 DEF Load, TypeOK
<1>5. \A x \in Writers : x # t => h[x] = f[x]
  BY <1>3, <1>4
<1>6. SumFunctionOnSet(h, Writers) = SumFunctionOnSet(f, Writers) - f[t] + h[t]
  BY <1>3, <1>4, <1>5, SumUpdate, WriterAssumption
<1>7. used[y] = SumFunctionOnSet(f, Writers)
  BY <1>1, <1>3 DEF Counted, SumFunction
<1>8. SumFunction(Load(y)') = SumFunctionOnSet(h, Writers)
  BY <1>2, <1>4 DEF SumFunction
<1>9. used'[y] = used[y] - f[t] + h[t] /\ used[y] \in Int /\ f[t] \in Int /\ h[t] \in Int
  <2>1. used[y] \in Int /\ f[t] \in Int /\ h[t] \in Int
    BY <1>3, <1>4 DEF TypeOK
  <2>2. CASE y = z
    BY <1>3, <1>4, <2>1, <2>2
  <2>3. CASE y # z
    BY <1>3, <1>4, <2>1, <2>3
  <2> QED BY <2>1, <2>2, <2>3
<1> QED BY <1>6, <1>7, <1>8, <1>9

(* A zone in a search or a candidate is nobody's active zone, and a zone is *)
(* the active zone of one file.                                             *)
LEMMA ActiveAlone ==
  ASSUME ZoneExclusive, NEW t \in Writers, NEW u \in Writers
  PROVE  /\ cur[t] # NoZone => act[u] # cur[t]
         /\ cand[t] # NoZone => act[u] # cand[t]
         /\ t # u /\ act[t] # NoZone => act[u] # act[t]
<1>1. t # u => Holds(t) \cap Holds(u) = {}
  BY DEF ZoneExclusive
<1>2. CASE t = u
  BY <1>2 DEF ZoneExclusive
<1>3. CASE t # u
  BY <1>1, <1>3 DEF Holds
<1> QED BY <1>2, <1>3

(* A step that touches no extent and no active zone keeps data live, when   *)
(* no write pointer falls but that of an unused zone no file writes to.     *)
LEMMA LiveStill ==
  ASSUME TypeOK, TypeOK', LiveInv, UNCHANGED <<used, ext, unsynced, act>>,
         \A u \in Writers : pc'[u] = "close" => pc[u] = "close",
         \A z \in Zone : \/ wp'[z] >= wp[z]
                         \/ used[z] = 0 /\ \A u \in Writers : act[u] # z
  PROVE  LiveInv'
<1>1. Synced'
  BY DEF LiveInv, Synced
<1>2. Counted'
  BY DEF LiveInv, Counted, Load
<1>3. Written'
  <2> SUFFICES ASSUME NEW z \in Zone
               PROVE  /\ used[z] <= wp'[z]
                      /\ \A t \in Writers : act[t] = z => used[z] + unsynced[t] <= wp'[z]
    BY DEF Written
  <2>1. wp[z] \in Nat /\ wp'[z] \in Nat /\ used[z] \in Int /\ \A t \in Writers : unsynced[t] \in Nat
    BY DeviceAssumption DEF TypeOK
  <2>2. CASE wp'[z] >= wp[z]
    BY <2>1, <2>2 DEF LiveInv, Written
  <2>3. CASE used[z] = 0 /\ \A u \in Writers : act[u] # z
    BY <2>1, <2>3
  <2> QED BY <2>2, <2>3
<1> QED BY <1>1, <1>2, <1>3 DEF LiveInv

(* A file that gets an active zone has nothing unsynced, and one that gives *)
(* its zone up has nothing unsynced either.                                 *)
LEMMA LiveActive ==
  ASSUME TypeOK, LiveInv, NEW t \in Writers, UNCHANGED <<wp, used, ext, unsynced>>,
         unsynced[t] = 0, \A u \in Writers : u # t => act'[u] = act[u],
         \A u \in Writers : u # t /\ pc'[u] = "close" => pc[u] = "close"
  PROVE  LiveInv'
<1>1. Synced'
  BY DEF LiveInv, Synced
<1>2. Counted'
  BY DEF LiveInv, Counted, Load
<1>3. Written'
  <2> SUFFICES ASSUME NEW z \in Zone, NEW u \in Writers
               PROVE  /\ used[z] <= wp[z]
                      /\ act'[u] = z => used[z] + unsynced[u] <= wp[z]
    BY DEF Written
  <2>1. used[z] \in Int
    BY DEF TypeOK
  <2>2. CASE u = t
    BY <2>1, <2>2 DEF LiveInv, Written
  <2>3. CASE u # t
    BY <2>3 DEF LiveInv, Written
  <2> QED BY <2>2, <2>3
<1> QED BY <1>1, <1>2, <1>3 DEF LiveInv

(* What AddExtent does to one file and one zone.                            *)
LEMMA AddExtentFacts ==
  ASSUME TypeOK, NEW t \in Writers, NEW n \in Nat, act[t] \in Zone, AddExtent(t, n)
  PROVE  /\ \A u \in Writers, y \in Zone : u # t \/ y # act[t] => ext'[u][y] = ext[u][y]
         /\ ext'[t][act[t]] = ext[t][act[t]] + n
         /\ \A y \in Zone : y # act[t] => used'[y] = used[y]
         /\ used'[act[t]] = used[act[t]] + n
<1>1. PICK z \in Zone : z = act[t]
  OBVIOUS
<1>2. ext' = [ext EXCEPT ![t] = [ext[t] EXCEPT ![z] = @ + n]]
  BY <1>1 DEF TypeOK, AddExtent
<1>3. used' = [used EXCEPT ![z] = @ + n]
  BY <1>1 DEF AddExtent
<1>4. ext'[t] = [ext[t] EXCEPT ![z] = @ + n] /\ \A u \in Writers : u # t => ext'[u] = ext[u]
  BY <1>2 DEF TypeOK
<1>5. ext[t] \in [Zone -> Nat]
  BY DEF TypeOK
<1>6. ext'[t][z] = ext[t][z] + n /\ \A y \in Zone : y # z => ext'[t][y] = ext[t][y]
  BY <1>4, <1>5
<1>7. used'[z] = used[z] + n /\ \A y \in Zone : y # z => used'[y] = used[y]
  BY <1>3 DEF TypeOK
<1> QED BY <1>1, <1>4, <1>6, <1>7

(* What was written becomes an extent of the file in its active zone.       *)
LEMMA LivePush ==
  ASSUME TypeOK, TypeOK', ZoneExclusive, LiveInv, NEW t \in Writers, PushExtent(t),
         UNCHANGED <<wp, act>>,
         \A u \in Writers : u # t /\ pc'[u] = "close" => pc[u] = "close"
  PROVE  LiveInv'
<1>1. /\ unsynced'[t] = 0 /\ unsynced[t] \in Nat
      /\ \A u \in Writers : u # t => unsynced'[u] = unsynced[u]
  BY DEF PushExtent, TypeOK
<1>2. Synced'
  BY <1>1 DEF LiveInv, Synced
<1>3. CASE act[t] = NoZone
  <2>1. UNCHANGED <<used, ext>> /\ \A u \in Writers : unsynced'[u] = unsynced[u]
    BY <1>1, <1>3 DEF PushExtent, LiveInv, Synced
  <2>2. Counted'
    BY <2>1 DEF LiveInv, Counted, Load
  <2>3. Written'
    BY <2>1 DEF LiveInv, Written
  <2> QED BY <1>2, <2>2, <2>3 DEF LiveInv
<1>4. CASE act[t] # NoZone
  <2>1. act[t] \in Zone /\ AddExtent(t, unsynced[t])
    BY <1>4 DEF PushExtent, TypeOK
  <2>2. PICK z \in Zone, n \in Nat : z = act[t] /\ n = unsynced[t]
    BY <1>1, <2>1
  <2>3. /\ \A u \in Writers, y \in Zone : u # t \/ y # z => ext'[u][y] = ext[u][y]
        /\ ext'[t][z] = ext[t][z] + n
        /\ \A y \in Zone : y # z => used'[y] = used[y]
        /\ used'[z] = used[z] + n
    BY <2>1, <2>2, AddExtentFacts
  <2>4. Counted'
    BY <2>2, <2>3, CountedChange DEF LiveInv
  <2>5. Written'
    <3> SUFFICES ASSUME NEW y \in Zone, NEW u \in Writers
                 PROVE  /\ used'[y] <= wp[y]
                        /\ act[u] = y => used'[y] + unsynced'[u] <= wp[y]
      BY DEF Written
    <3>1. /\ used[y] \in Int /\ used[y] <= wp[y] /\ wp[y] \in Int /\ n \in Int
          /\ act[u] = y => used[y] + unsynced[u] <= wp[y]
      BY <2>2 DEF LiveInv, Written, TypeOK
    <3>2. CASE y # z
      <4>1. act[u] = y => u # t
        BY <2>2, <3>2
      <4> QED BY <1>1, <2>3, <3>1, <3>2, <4>1
    <3>3. CASE y = z
      <4>1. used[z] + n <= wp[z]
        BY <2>2 DEF LiveInv, Written
      <4>2. act[u] = y => u = t
        BY <1>4, <2>2, <3>3, ActiveAlone
      <4> QED BY <1>1, <2>3, <3>1, <3>3, <4>1, <4>2
    <3> QED BY <3>2, <3>3
  <2> QED BY <1>2, <2>4, <2>5 DEF LiveInv
<1> QED BY <1>3, <1>4

(* A write moves the write pointer and, at once for a buffered file and at  *)
(* the next sync for a direct one, the used capacity by the same amount.    *)
LEMMA LiveWrites ==
  ASSUME TypeOK, TypeOK', ZoneExclusive, LiveInv, NEW t \in Writers, AppendWrites(t)
  PROVE  LiveInv'
<1>1. act[t] \in Zone /\ act[t] # NoZone /\ pc[t] = "append" /\ UNCHANGED act
  BY DEF AppendWrites, TypeOK
<1>2. PICK z \in Zone, n \in Nat : z = act[t] /\ n = WriteSize(t)
  BY <1>1 DEF WriteSize, TypeOK
<1>3. /\ wp'[z] = wp[z] + n /\ \A y \in Zone : y # z => wp'[y] = wp[y]
  BY <1>2 DEF AppendWrites, TypeOK
<1>4. \A u \in Writers : u # t => pc'[u] = pc[u]
  BY DEF AppendWrites, Goto, TypeOK
<1>5. CASE t \in Buffered
  <2>1. AddExtent(t, n) /\ UNCHANGED unsynced
    BY <1>2, <1>5 DEF AppendWrites
  <2>2. /\ \A u \in Writers, y \in Zone : u # t \/ y # z => ext'[u][y] = ext[u][y]
        /\ ext'[t][z] = ext[t][z] + n
        /\ \A y \in Zone : y # z => used'[y] = used[y]
        /\ used'[z] = used[z] + n
    BY <1>1, <1>2, <2>1, AddExtentFacts
  <2>3. Counted'
    BY <2>2, CountedChange DEF LiveInv
  <2>4. Synced'
    BY <1>1, <1>4, <1>5, <2>1 DEF LiveInv, Synced
  <2>5. Written'
    <3> SUFFICES ASSUME NEW y \in Zone, NEW u \in Writers
                 PROVE  /\ used'[y] <= wp'[y]
                        /\ act[u] = y => used'[y] + unsynced[u] <= wp'[y]
      BY <1>1, <2>1 DEF Written
    <3>1. /\ used[y] \in Int /\ used[y] <= wp[y] /\ wp[y] \in Int /\ unsynced[u] \in Int
          /\ act[u] = y => used[y] + unsynced[u] <= wp[y]
      BY DEF LiveInv, Written, TypeOK
    <3>2. CASE y # z
      BY <1>3, <2>2, <3>1, <3>2
    <3>3. CASE y = z
      BY <1>3, <2>2, <3>1, <3>3
    <3> QED BY <3>2, <3>3
  <2> QED BY <2>3, <2>4, <2>5 DEF LiveInv
<1>6. CASE t \notin Buffered
  <2>1. UNCHANGED <<used, ext, pc>>
    BY <1>6 DEF AppendWrites
  <2>2. unsynced'[t] = unsynced[t] + n /\ \A u \in Writers : u # t => unsynced'[u] = unsynced[u]
    BY <1>2, <1>6 DEF AppendWrites, TypeOK
  <2>3. Counted'
    BY <2>1 DEF LiveInv, Counted, Load
  <2>4. Synced'
    BY <1>1, <1>6, <2>1, <2>2 DEF LiveInv, Synced
  <2>5. Written'
    <3> SUFFICES ASSUME NEW y \in Zone, NEW u \in Writers
                 PROVE  /\ used[y] <= wp'[y]
                        /\ act[u] = y => used[y] + unsynced'[u] <= wp'[y]
      BY <1>1, <2>1 DEF Written
    <3>1. /\ used[y] \in Int /\ used[y] <= wp[y] /\ wp[y] \in Int /\ unsynced[u] \in Int
          /\ act[u] = y => used[y] + unsynced[u] <= wp[y]
      BY DEF LiveInv, Written, TypeOK
    <3>2. CASE y # z
      <4>1. act[u] = y => u # t
        BY <1>2, <3>2
      <4> QED BY <1>3, <2>2, <3>1, <3>2, <4>1
    <3>3. CASE y = z
      <4>1. act[u] = y => u = t
        BY <1>1, <1>2, <3>3, ActiveAlone
      <4> QED BY <1>3, <2>2, <3>1, <3>3, <4>1
    <3> QED BY <3>2, <3>3
  <2> QED BY <2>3, <2>4, <2>5 DEF LiveInv
<1> QED BY <1>5, <1>6

(* A deleted extent gives its space back.                                   *)
LEMMA LiveClear ==
  ASSUME TypeOK, TypeOK', LiveInv, NEW t \in Writers, ClearExtent(t)
  PROVE  LiveInv'
<1>1. UNCHANGED <<wp, act, unsynced, pc>>
  BY DEF ClearExtent
<1>2. PICK z \in Zone : /\ used' = [used EXCEPT ![z] = @ - ext[t][z]]
                        /\ ext' = [ext EXCEPT ![t][z] = 0]
  BY DEF ClearExtent
<1>3. PICK k \in Nat : k = ext[t][z]
  BY DEF TypeOK
<1>4. ext'[t] = [ext[t] EXCEPT ![z] = 0] /\ \A u \in Writers : u # t => ext'[u] = ext[u]
  BY <1>2 DEF TypeOK
<1>5. ext[t] \in [Zone -> Nat]
  BY DEF TypeOK
<1>6. PICK n \in Int : n = 0 - k
  BY <1>3
<1>7. /\ \A u \in Writers, y \in Zone : u # t \/ y # z => ext'[u][y] = ext[u][y]
      /\ ext'[t][z] = ext[t][z] + n
  BY <1>3, <1>4, <1>5, <1>6
<1>8. (\A y \in Zone : y # z => used'[y] = used[y]) /\ used'[z] = used[z] + n
  BY <1>2, <1>3, <1>6 DEF TypeOK
<1>9. Counted'
  BY <1>7, <1>8, CountedChange DEF LiveInv
<1>10. Synced'
  BY <1>1 DEF LiveInv, Synced
<1>11. Written'
  <2> SUFFICES ASSUME NEW y \in Zone, NEW u \in Writers
               PROVE  /\ used'[y] <= wp[y]
                      /\ act[u] = y => used'[y] + unsynced[u] <= wp[y]
    BY <1>1 DEF Written
  <2>1. /\ used[y] \in Int /\ used[y] <= wp[y] /\ wp[y] \in Int /\ unsynced[u] \in Int
        /\ act[u] = y => used[y] + unsynced[u] <= wp[y]
    BY DEF LiveInv, Written, TypeOK
  <2>2. used'[y] <= used[y] /\ used'[y] \in Int
    BY <1>3, <1>6, <1>8, <2>1
  <2> QED BY <2>1, <2>2
<1> QED BY <1>9, <1>10, <1>11 DEF LiveInv

(* Every step keeps data live.                                              *)
LEMMA LiveStep ==
  ASSUME TypeOK, TypeOK', Roles, ZoneExclusive, ClosesItsZone, LiveInv,
         NEW t \in Writers, Step(t) \/ Call(t)
  PROVE  LiveInv'
<1> USE DEF zoneVars, tokenVars, searchVars, fileVars
<1>1. \A u \in Writers : u # t /\ pc'[u] = "close" => pc[u] = "close"
  BY OthersUnmoved
<1>2. \A z \in Zone : wp[z] \in Nat /\ wp[z] <= ZoneSize /\ ZoneSize \in Nat
  BY DeviceAssumption DEF TypeOK
<1>3. ASSUME UNCHANGED <<wp, used, ext, unsynced, act>>, pc'[t] # "close" PROVE LiveInv'
  BY <1>1, <1>2, <1>3, LiveStill
<1>4. CASE SetActiveZone(t) /\ pc[t] \in {"scan", "active"} /\ UNCHANGED <<wp, used>>
  <2>1. act[t] = NoZone /\ unsynced[t] = 0 /\ UNCHANGED <<wp, used, ext, unsynced>>
    BY <1>4 DEF Roles, LiveInv, Synced, SetActiveZone
  <2> QED BY <1>1, <1>4, <2>1, LiveActive, OthersUnmoved
<1>5. ASSUME NEW z \in Zone, Finish(z), UNCHANGED <<ext, unsynced, act>>, pc'[t] # "close"
      PROVE  LiveInv'
  <2>1. UNCHANGED used /\ \A y \in Zone : wp'[y] >= wp[y]
    BY <1>2, <1>5 DEF Finish, TypeOK
  <2> QED BY <1>1, <1>5, <2>1, LiveStill
<1>6. CASE Search(t)
  <2>1. pc[t] = "scan" /\ pc'[t] # "close" /\ UNCHANGED <<ext, unsynced, act>>
    BY <1>6, ZenonT(60) DEF Search, ScanAcquire, ScanKeep, ScanPass, ScanFinish, ScanReset, Searching,
       Fail, Goto, AfterReset, TypeOK
  <2>2. CASE ScanAcquire(t) \/ ScanKeep(t) \/ ScanPass(t)
    BY <1>3, <2>1, <2>2 DEF ScanAcquire, ScanKeep, ScanPass
  <2>3. CASE ScanFinish(t)
    <3>1. cur[t] \in Zone
      BY <2>3 DEF ScanFinish, TypeOK
    <3>2. CASE Finish(cur[t])
      BY <1>5, <2>1, <3>1, <3>2
    <3>3. CASE UNCHANGED <<wp, used>>
      BY <1>3, <2>1, <3>3
    <3> QED BY <2>3, <3>2, <3>3 DEF ScanFinish
  <2>4. CASE ScanReset(t)
    <3>1. cur[t] \in Zone /\ cur[t] # NoZone
      BY <2>4 DEF ScanReset, TypeOK
    <3>2. used[cur[t]] = 0
      <4>1. used[cur[t]] \in Nat
        BY <3>1, LoadFacts DEF LiveInv
      <4> QED BY <2>4, <4>1 DEF ScanReset, MustReset, IsUsed
    <3>3. \A u \in Writers : act[u] # cur[t]
      BY <3>1, ActiveAlone
    <3>4. ASSUME NEW o, Reset(cur[t], o) PROVE LiveInv'
      <4>1. UNCHANGED used /\ \A y \in Zone : y # cur[t] => wp'[y] = wp[y]
        BY <3>4 DEF Reset, TypeOK
      <4>2. \A z \in Zone : \/ wp'[z] >= wp[z]
                            \/ used[z] = 0 /\ \A u \in Writers : act[u] # z
        BY <1>2, <3>2, <3>3, <4>1
      <4> QED BY <1>1, <2>1, <4>1, <4>2, LiveStill
    <3>5. CASE UNCHANGED <<wp, used>>
      BY <1>3, <2>1, <3>5
    <3> QED BY <2>4, <3>4, <3>5 DEF ScanReset
  <2> QED BY <1>6, <2>2, <2>3, <2>4 DEF Search
<1>7. CASE Allocate(t)
  <2>1. CASE AllocateIOZone(t) \/ ThresholdDone(t) \/ WaitForOpenIOZoneToken(t)
             \/ DropCandidate(t) \/ SpinForActiveToken(t) \/ CheapestDone(t)
    <3>1. pc'[t] # "close"
      BY <2>1 DEF AllocateIOZone, ThresholdDone, WaitForOpenIOZoneToken, DropCandidate,
         SpinForActiveToken, CheapestDone, StartSearch, Fail, Goto, TypeOK
    <3> QED BY <1>3, <2>1, <3>1 DEF AllocateIOZone, ThresholdDone, WaitForOpenIOZoneToken,
           DropCandidate, SpinForActiveToken, CheapestDone
  <2>2. CASE BestMatchDone(t) \/ TryActiveToken(t) \/ EmptyZoneDone(t)
    <3>1. pc[t] \in {"scan", "active"} /\ UNCHANGED <<wp, used>>
      BY <2>2 DEF BestMatchDone, TryActiveToken, EmptyZoneDone, SearchEnded, Searching
    <3>2. CASE SetActiveZone(t)
      BY <1>4, <3>1, <3>2
    <3>3. CASE ~SetActiveZone(t)
      <4>1. pc'[t] # "close" /\ UNCHANGED <<ext, unsynced, act>>
        BY <2>2, <3>3 DEF BestMatchDone, TryActiveToken, EmptyZoneDone, Goto, TypeOK
      <4> QED BY <1>3, <3>1, <4>1
    <3> QED BY <3>2, <3>3
  <2>3. CASE FinishVictim(t)
    <3>1. pc'[t] # "close" /\ UNCHANGED <<ext, unsynced, act>>
      BY <2>3 DEF FinishVictim, Goto, TypeOK
    <3>2. CASE Finish(cand[t])
      <4>1. CASE cand[t] \in Zone
        BY <1>5, <3>1, <3>2, <4>1
      <4>2. CASE cand[t] \notin Zone
        <5>1. UNCHANGED <<wp, used>>
          BY <3>2, <4>2 DEF Finish, TypeOK
        <5> QED BY <1>3, <3>1, <5>1
      <4> QED BY <4>1, <4>2
    <3>3. CASE UNCHANGED <<wp, used>>
      BY <1>3, <3>1, <3>3
    <3> QED BY <2>3, <3>2, <3>3 DEF FinishVictim
  <2>4. CASE PutOpenIOZoneToken(t)
    <3>1. pc'[t] # "close"
      BY <2>4 DEF PutOpenIOZoneToken, NotifyAndGoto, Goto, Asleep, TypeOK
    <3> QED BY <1>3, <2>4, <3>1 DEF PutOpenIOZoneToken
  <2>5. CASE PutActiveIOZoneToken(t)
    <3>1. pc'[t] # "close"
      BY <2>5 DEF PutActiveIOZoneToken, NotifyAndGoto, Goto, Asleep, TypeOK
    <3> QED BY <1>3, <2>5, <3>1 DEF PutActiveIOZoneToken
  <2> QED BY <1>7, <2>1, <2>2, <2>3, <2>4, <2>5 DEF Allocate
<1>8. CASE Write(t)
  <2>1. CASE AppendNeedsZone(t) \/ AppendReturns(t) \/ AppendFails(t)
    <3>1. pc'[t] # "close"
      BY <2>1 DEF AppendNeedsZone, AppendReturns, AppendFails, Goto, TypeOK
    <3> QED BY <1>3, <2>1, <3>1 DEF AppendNeedsZone, AppendReturns, AppendFails
  <2>2. CASE AppendLeavesFullZone(t)
    BY <1>1, <2>2, LivePush DEF AppendLeavesFullZone
  <2>3. CASE AppendWrites(t)
    BY <2>3, LiveWrites
  <2> QED BY <1>8, <2>1, <2>2, <2>3 DEF Write
<1>9. CASE Reclaim(t)
  <2>1. CASE ClearExtent(t)
    BY <2>1, LiveClear
  <2>2. CASE ResetUnusedIOZones(t) \/ ResetDone(t)
    <3>1. pc'[t] # "close"
      BY <2>2 DEF ResetUnusedIOZones, ResetDone, StartSearch, Goto, TypeOK
    <3> QED BY <1>3, <2>2, <3>1 DEF ResetUnusedIOZones, ResetDone
  <2> QED BY <1>9, <2>1, <2>2 DEF Reclaim
<1>10. CASE Close(t)
  <2>1. CASE CloseFile(t)
    BY <1>1, <2>1, LivePush DEF CloseFile
  <2>2. CASE CloseActiveZone(t)
    <3>1. unsynced[t] = 0 /\ UNCHANGED <<wp, used, ext, unsynced>>
      BY <2>2 DEF CloseActiveZone, LiveInv, Synced
    <3> QED BY <1>1, <3>1, LiveActive, OthersUnmoved
  <2>3. CASE SetZoneDeferredStatus(t)
    <3>1. pc'[t] # "close"
      BY <2>3 DEF SetZoneDeferredStatus, Goto, TypeOK
    <3> QED BY <1>3, <2>3, <3>1 DEF SetZoneDeferredStatus
  <2> QED BY <1>10, <2>1, <2>2, <2>3 DEF Close
<1>11. CASE Call(t)
  <2>1. CASE Fsync(t)
    BY <1>1, <2>1, LivePush DEF Fsync
  <2>2. CASE OpenWritableFile(t) \/ ReopenWritableFile(t) \/ Append(t) \/ DeleteFile(t)
    <3>1. pc'[t] # "close"
      BY <2>2 DEF OpenWritableFile, ReopenWritableFile, Append, DeleteFile, Goto, TypeOK
    <3> QED BY <1>3, <2>2, <3>1 DEF OpenWritableFile, ReopenWritableFile, Append, DeleteFile
  <2> QED BY <1>11, <2>1, <2>2 DEF Call
<1> QED BY <1>6, <1>7, <1>8, <1>9, <1>10, <1>11 DEF Step

(* An empty device holds no data.                                           *)
LEMMA InitLive == Init => LiveInv
<1> SUFFICES ASSUME Init PROVE LiveInv
  OBVIOUS
<1>1. Synced /\ Written
  BY DeviceAssumption DEF Init, Synced, Written
<1>2. Counted
  <2> SUFFICES ASSUME NEW z \in Zone PROVE used[z] = SumFunction(Load(z))
    BY DEF Counted
  <2>1. PICK f : f = Load(z)
    OBVIOUS
  <2>2. DOMAIN f = Writers /\ \A x \in Writers : f[x] = 0
    BY <2>1 DEF Init, Load
  <2>3. SumFunctionOnSet(f, Writers) = 0
    BY <2>2, SumZero, WriterAssumption
  <2> QED BY <2>1, <2>2, <2>3 DEF Init, SumFunction
<1> QED BY <1>1, <1>2 DEF LiveInv

(* What holds of zones, tokens and data together.                           *)
LEMMA LiveInvariant == Spec => [](Typed /\ ZoneExclusive /\ OpenInv /\ LiveInv)
<1>1. /\ Typed /\ Typed' /\ ZoneExclusive /\ OpenInv /\ LiveInv /\ [Next]_vars
      => LiveInv'
  <2> SUFFICES ASSUME TypeOK, TypeOK', Roles, ZoneExclusive, ClosesItsZone, LiveInv,
                      [Next]_vars
               PROVE  LiveInv'
    BY DEF Typed, OpenInv
  <2>1. CASE UNCHANGED vars
    BY <2>1 DEF vars, zoneVars, fileVars, LiveInv, Synced, Counted, Written, Load
  <2>2. ASSUME NEW t \in Writers, Step(t) \/ Call(t) PROVE LiveInv'
    BY <2>2, LiveStep
  <2> QED BY <2>1, <2>2 DEF Next
<1> QED BY <1>1, InitLive, InitTyped, NextTyped, ZonesExclusive, OpenInvariant, PTL DEF Spec

Pending(z) == [t \in Writers |-> IF act[t] = z THEN unsynced[t] ELSE 0]

(* used_capacity_, moved by AddExtent in PushExtent, BufferedAppend and     *)
(* SparseAppend and by the destructor of a file, is at every moment the sum *)
(* of the extents in the zone, and together with what the file writing to   *)
(* the zone has yet to sync it never passes the write pointer, for every    *)
(* number of writers and zones, whatever the device refuses.                *)
THEOREM UsedCapacityIsTrue == Spec => []UsedCapacityIsLive
<1>1. Typed /\ ZoneExclusive /\ OpenInv /\ LiveInv => UsedCapacityIsLive
  <2> SUFFICES ASSUME TypeOK, ZoneExclusive, LiveInv, NEW z \in Zone
               PROVE  /\ used[z] = SumFunction(Load(z))
                      /\ used[z] + SumFunction(Pending(z)) <= wp[z]
    BY DEF Typed, UsedCapacityIsLive, Load, Pending
  <2>1. used[z] = SumFunction(Load(z))
    BY DEF LiveInv, Counted
  <2>2. PICK h : h = Pending(z)
    OBVIOUS
  <2>3. /\ h \in [Writers -> Int]
        /\ \A u \in Writers : h[u] = IF act[u] = z THEN unsynced[u] ELSE 0
    BY <2>2 DEF Pending, TypeOK
  <2>4. SumFunction(Pending(z)) = SumFunctionOnSet(h, Writers)
    BY <2>2, <2>3 DEF SumFunction
  <2>5. used[z] <= wp[z] /\ used[z] \in Int
    BY DEF LiveInv, Written, TypeOK
  <2>6. CASE \A u \in Writers : act[u] # z
    <3>1. SumFunctionOnSet(h, Writers) = 0
      BY <2>3, <2>6, SumZero, WriterAssumption
    <3> QED BY <2>1, <2>4, <2>5, <3>1
  <2>7. ASSUME NEW t \in Writers, act[t] = z
        PROVE  used[z] + SumFunctionOnSet(h, Writers) <= wp[z]
    <3>1. PICK f : f = [u \in Writers |-> 0]
      OBVIOUS
    <3>2. f \in [Writers -> Int] /\ \A u \in Writers : f[u] = 0
      BY <3>1
    <3>3. SumFunctionOnSet(f, Writers) = 0
      BY <3>2, SumZero, WriterAssumption
    <3>4. \A u \in Writers : u # t => act[u] # z
      BY <2>7, ActiveAlone, ZoneFacts
    <3>5. \A x \in Writers : x # t => h[x] = f[x]
      BY <2>3, <3>2, <3>4
    <3>6. SumFunctionOnSet(h, Writers) = SumFunctionOnSet(f, Writers) - f[t] + h[t]
      BY <2>3, <3>2, <3>5, SumUpdate, WriterAssumption
    <3>7. h[t] = unsynced[t] /\ unsynced[t] \in Nat /\ used[z] + unsynced[t] <= wp[z]
      BY <2>3, <2>7 DEF LiveInv, Written, TypeOK
    <3>8. SumFunctionOnSet(h, Writers) = unsynced[t]
      BY <3>2, <3>3, <3>6, <3>7
    <3> QED BY <3>7, <3>8
  <2> QED BY <2>1, <2>4, <2>6, <2>7
<1> QED BY <1>1, LiveInvariant, PTL

(* Nothing but the reset of the zone in hand takes a write pointer back.    *)
LEMMA OnlyResetRewinds ==
  ASSUME TypeOK, NEW t \in Writers, Step(t) \/ Call(t), NEW z \in Zone,
         wp[z] > 0, wp'[z] = 0
  PROVE  ScanReset(t) /\ z = cur[t]
<1> USE DEF zoneVars, tokenVars, searchVars, fileVars
<1>0. wp[z] \in Nat /\ ZoneSize \in Nat /\ ZoneSize > 0
  BY DeviceAssumption DEF TypeOK
<1>1. ASSUME UNCHANGED wp PROVE FALSE
  BY <1>1
<1>2. ASSUME NEW y, Finish(y) PROVE FALSE
  <2>1. wp'[z] \in {wp[z], ZoneSize}
    BY <1>2 DEF Finish, TypeOK
  <2> QED BY <1>0, <2>1
<1>3. CASE Search(t)
  <2>1. CASE ScanAcquire(t) \/ ScanKeep(t) \/ ScanPass(t)
    BY <1>1, <2>1 DEF ScanAcquire, ScanKeep, ScanPass
  <2>2. CASE ScanFinish(t)
    BY <1>1, <1>2, <2>2 DEF ScanFinish
  <2>3. CASE ScanReset(t)
    <3>1. ASSUME NEW o, Reset(cur[t], o) PROVE z = cur[t]
      <4>1. z # cur[t] => wp'[z] = wp[z]
        BY <3>1 DEF Reset, TypeOK
      <4> QED BY <4>1
    <3>2. z = cur[t]
      BY <1>1, <2>3, <3>1 DEF ScanReset
    <3> QED BY <2>3, <3>2
  <2> QED BY <1>3, <2>1, <2>2, <2>3 DEF Search
<1>4. CASE Allocate(t)
  BY <1>1, <1>2, <1>4 DEF Allocate, AllocateIOZone, ThresholdDone, WaitForOpenIOZoneToken,
     BestMatchDone, TryActiveToken, DropCandidate, SpinForActiveToken, CheapestDone,
     FinishVictim, EmptyZoneDone, PutOpenIOZoneToken, PutActiveIOZoneToken
<1>5. CASE Write(t)
  <2>1. CASE AppendWrites(t)
    <3>1. PICK n \in Nat : n = WriteSize(t)
      BY <2>1 DEF AppendWrites, WriteSize, TypeOK
    <3>2. wp'[z] \in {wp[z], wp[z] + n}
      BY <2>1, <3>1 DEF AppendWrites, TypeOK
    <3> QED BY <1>0, <3>1, <3>2
  <2> QED BY <1>1, <1>5, <2>1 DEF Write, AppendNeedsZone, AppendReturns,
         AppendLeavesFullZone, AppendFails
<1>6. CASE Reclaim(t) \/ Close(t) \/ Call(t)
  BY <1>1, <1>6 DEF Reclaim, ClearExtent, ResetUnusedIOZones, ResetDone, Close, CloseFile,
     CloseActiveZone, SetZoneDeferredStatus, Call, OpenWritableFile, ReopenWritableFile,
     Append, Fsync, DeleteFile
<1> QED BY <1>3, <1>4, <1>5, <1>6 DEF Step

(* ResetUnusedIOZones, whichever deletion started it and however the other  *)
(* threads write and close meanwhile, resets only zones that hold no extent *)
(* of any file and that no file is writing to.                              *)
THEOREM ResetsSpareLiveData == Spec => ResetSparesLiveData
<1> DEFINE Spares == \A z \in Zone : wp[z] > 0 /\ wp'[z] = 0 =>
                       \A t \in Writers : ext[t][z] = 0 /\ act[t] # z /\ act'[t] # z
<1>1. Typed /\ ZoneExclusive /\ OpenInv /\ LiveInv /\ [Next]_vars => [Spares]_vars
  <2> SUFFICES ASSUME TypeOK, ZoneExclusive, LiveInv, Next,
                      NEW z \in Zone, wp[z] > 0, wp'[z] = 0, NEW u \in Writers
               PROVE  ext[u][z] = 0 /\ act[u] # z /\ act'[u] # z
    BY DEF Typed
  <2>1. PICK t \in Writers : Step(t) \/ Call(t)
    BY DEF Next
  <2>2. ScanReset(t) /\ z = cur[t]
    BY <2>1, OnlyResetRewinds
  <2>3. act' = act /\ cur[t] # NoZone /\ ~(used[z] > 0)
    BY <2>2 DEF ScanReset, MustReset, IsUsed
  <2>4. used[z] \in Nat /\ ext[u][z] \in Nat /\ ext[u][z] <= used[z]
    BY LoadFacts DEF LiveInv
  <2>5. act[u] # z
    BY <2>2, <2>3, ActiveAlone
  <2> QED BY <2>3, <2>4, <2>5
<1>2. Spec => [][Next]_vars
  BY DEF Spec
<1> QED BY <1>1, <1>2, LiveInvariant, PTL DEF ResetSparesLiveData

-----------------------------------------------------------------------------
(* Active tokens                                                            *)

(* The zones an active token is kept for: those that are partly written,    *)
(* and those a file has just got and may write to.                          *)
Engaged == {z \in Zone : Partial(z) \/ \E t \in Writers : act[t] = z}

(* The threads that carry an active token of no zone: they hold it for the  *)
(* empty zone they look for, or have it to give back.                       *)
Spoken(t) == \/ pc[t] = "putactive"
             \/ pc[t] = "putopen" /\ job[t] \in {"roll", "shutfull"}
             \/ pc[t] \in {"scan", "drop"} /\ job[t] = "empty"

Speakers == {t \in Writers : Spoken(t)}

(* What a thread's place in the code says about its candidate and about the *)
(* zone it closes: a file that leaves a zone for another leaves a full one, *)
(* and the candidate of a search for a zone in use is partly written.       *)
CourseOf(t) ==
  /\ pc[t] = "close" => job[t] \in {"roll", "shut"}
  /\ pc[t] = "close" /\ job[t] = "roll" => IsFull(act[t])
  /\ pc[t] = "active" => job[t] = "best"
  /\ pc[t] = "finish" => job[t] = "cheapest" /\ cand[t] # NoZone
  /\ cand[t] # NoZone => \/ Searching(t, {"best", "cheapest", "empty"})
                         \/ pc[t] \in {"active", "drop", "finish"}
  /\ cand[t] # NoZone /\ job[t] \in {"best", "cheapest"} /\ pc[t] # "drop" =>
       Partial(cand[t])

Course == \A t \in Writers : CourseOf(t)

ActiveInv ==
  /\ Course
  /\ Cardinality(Engaged) + Cardinality(Speakers) <= active
  /\ active <= MaxActive

(* A step of t changes only zones that t holds, and no other thread's       *)
(* candidate.                                                               *)
LEMMA ForeignZones ==
  ASSUME TypeOK, NEW t \in Writers, Step(t) \/ Call(t)
  PROVE  /\ \A z \in Zone : z \notin Holds(t) => wp'[z] = wp[z] /\ capacity'[z] = capacity[z]
         /\ \A u \in Writers : u # t => cand'[u] = cand[u]
<1> USE DEF zoneVars, tokenVars, searchVars, fileVars
<1>1. ASSUME NEW z \in Zone, z \notin Holds(t)
      PROVE  wp'[z] = wp[z] /\ capacity'[z] = capacity[z]
  <2>1. z # cur[t] /\ z # cand[t] /\ z # act[t]
    BY <1>1, ZoneFacts DEF Holds
  <2>2. ASSUME NEW y, y # z, Finish(y) PROVE wp'[z] = wp[z] /\ capacity'[z] = capacity[z]
    BY <2>2 DEF Finish, TypeOK
  <2>3. ASSUME NEW y, y # z, NEW o, Reset(y, o)
        PROVE  wp'[z] = wp[z] /\ capacity'[z] = capacity[z]
    BY <2>3 DEF Reset, TypeOK
  <2>4. CASE Search(t)
    BY <2>1, <2>2, <2>3, <2>4 DEF Search, ScanAcquire, ScanKeep, ScanPass, ScanFinish,
       ScanReset
  <2>5. CASE Allocate(t)
    BY <2>1, <2>2, <2>5 DEF Allocate, AllocateIOZone, ThresholdDone, WaitForOpenIOZoneToken,
       BestMatchDone, TryActiveToken, DropCandidate, SpinForActiveToken, CheapestDone,
       FinishVictim, EmptyZoneDone, PutOpenIOZoneToken, PutActiveIOZoneToken
  <2>6. CASE Write(t)
    BY <2>1, <2>6 DEF Write, AppendNeedsZone, AppendReturns, AppendLeavesFullZone,
       AppendWrites, AppendFails, TypeOK
  <2>7. CASE Reclaim(t) \/ Close(t) \/ Call(t)
    BY <2>7 DEF Reclaim, ClearExtent, ResetUnusedIOZones, ResetDone, Close, CloseFile,
       CloseActiveZone, SetZoneDeferredStatus, Call, OpenWritableFile, ReopenWritableFile,
       Append, Fsync, DeleteFile
  <2> QED BY <2>4, <2>5, <2>6, <2>7 DEF Step
<1>2. ASSUME NEW u \in Writers, u # t PROVE cand'[u] = cand[u]
  <2>1. CASE Search(t)
    BY <1>2, <2>1 DEF Search, ScanAcquire, ScanKeep, ScanPass, ScanFinish, ScanReset, TypeOK
  <2>2. CASE Allocate(t)
    BY <1>2, <2>2 DEF Allocate, AllocateIOZone, ThresholdDone, WaitForOpenIOZoneToken,
       BestMatchDone, TryActiveToken, DropCandidate, SpinForActiveToken, CheapestDone,
       FinishVictim, EmptyZoneDone, SetActiveZone, PutOpenIOZoneToken, PutActiveIOZoneToken,
       TypeOK
  <2>3. CASE Write(t)
    BY <2>3 DEF Write, AppendNeedsZone, AppendReturns, AppendLeavesFullZone, AppendWrites,
       AppendFails
  <2>4. CASE Reclaim(t) \/ Close(t) \/ Call(t)
    BY <2>4 DEF Reclaim, ClearExtent, ResetUnusedIOZones, ResetDone, Close, CloseFile,
       CloseActiveZone, SetZoneDeferredStatus, Call, OpenWritableFile, ReopenWritableFile,
       Append, Fsync, DeleteFile
  <2> QED BY <2>1, <2>2, <2>3, <2>4 DEF Step
<1> QED BY <1>1, <1>2

(* The other threads' zones are as they left them.                          *)
LEMMA OthersCourse ==
  ASSUME TypeOK, ZoneExclusive, Course, ClosesItsZone, NEW t \in Writers, Step(t) \/ Call(t),
         NEW u \in Writers, u # t
  PROVE  CourseOf(u)'
<1>1. /\ pc'[u] = pc[u] \/ (pc[u] = "asleep" /\ pc'[u] = "token")
      /\ job'[u] = job[u] /\ act'[u] = act[u] /\ cand'[u] = cand[u]
  BY OthersUnmoved, ForeignZones
<1>2. CourseOf(u) /\ (pc[u] = "close" => act[u] # NoZone)
  BY DEF Course, ClosesItsZone
<1>3. ASSUME NEW z \in Holds(u), z \in Zone PROVE wp'[z] = wp[z] /\ capacity'[z] = capacity[z]
  <2>1. z \notin Holds(t)
    BY <1>3 DEF ZoneExclusive
  <2> QED BY <1>3, <2>1, ForeignZones
<1>4. act[u] # NoZone => act[u] \in Holds(u) /\ act[u] \in Zone
  BY DEF Holds, TypeOK
<1>5. cand[u] # NoZone => cand[u] \in Holds(u) /\ cand[u] \in Zone
  BY DEF Holds, TypeOK
<1>6. pc[u] = "close" /\ job[u] = "roll" => IsFull(act[u])'
  BY <1>1, <1>2, <1>3, <1>4 DEF CourseOf, IsFull
<1>7. cand[u] # NoZone /\ Partial(cand[u]) => Partial(cand[u])'
  BY <1>1, <1>3, <1>5 DEF Partial, IsFull, IsEmpty
<1>8. CASE pc'[u] = pc[u]
  BY <1>1, <1>2, <1>6, <1>7, <1>8 DEF CourseOf, Searching
<1>9. CASE pc[u] = "asleep" /\ pc'[u] = "token"
  BY <1>1, <1>2, <1>9 DEF CourseOf, Searching
<1> QED BY <1>1, <1>8, <1>9

(* A thread without a candidate that is not about to close, to try for a    *)
(* token or to finish is on no course.                                      *)
LEMMA NoCourse ==
  ASSUME NEW t \in Writers, cand'[t] = NoZone, pc'[t] \notin {"close", "active", "finish"}
  PROVE  CourseOf(t)'
BY DEF CourseOf, Searching

(* Each step of a thread keeps it on its course.                            *)
LEMMA OwnCourse ==
  ASSUME TypeOK, Roles, LiveInv, Course, NEW t \in Writers, Step(t) \/ Call(t)
  PROVE  CourseOf(t)'
<1> USE DEF zoneVars, tokenVars, searchVars, fileVars
<1>0. CourseOf(t)
  BY DEF Course
<1>1. CASE Search(t)
  <2>1. pc[t] = "scan"
    BY <1>1 DEF Search, ScanAcquire, ScanKeep, ScanPass, ScanFinish, ScanReset, Searching
  <2>2. CASE ScanAcquire(t) \/ ScanPass(t)
    <3>1. UNCHANGED <<pc, job, cand, wp, capacity>>
      BY <2>2 DEF ScanAcquire, ScanPass
    <3> QED BY <1>0, <2>1, <3>1 DEF CourseOf, Searching, Partial, IsFull, IsEmpty
  <2>3. CASE ScanKeep(t)
    <3>1. /\ UNCHANGED <<pc, job, wp, capacity>> /\ cand'[t] = cur[t] /\ cur[t] \in Zone
          /\ job[t] \in {"best", "cheapest", "empty"} /\ Preferred(t)
      BY <2>3 DEF ScanKeep, Searching, TypeOK
    <3>2. job[t] \in {"best", "cheapest"} => Partial(cur[t])
      <4>1. used[cur[t]] <= wp[cur[t]] /\ used[cur[t]] \in Int /\ wp[cur[t]] \in Int
        BY <3>1 DEF LiveInv, Written, TypeOK
      <4>2. job[t] = "best" => used[cur[t]] > 0 /\ ~IsFull(cur[t])
        BY <3>1 DEF Preferred, IsUsed
      <4>3. job[t] = "cheapest" => Partial(cur[t])
        BY <3>1 DEF Preferred
      <4> QED BY <4>1, <4>2, <4>3 DEF Partial, IsEmpty
    <3>3. Partial(cur[t]) => Partial(cand[t])'
      BY <3>1 DEF Partial, IsFull, IsEmpty
    <3> QED BY <2>1, <3>1, <3>2, <3>3 DEF CourseOf, Searching
  <2>4. CASE ScanFinish(t) \/ ScanReset(t)
    <3>1. job[t] \in {"threshold", "reset"} /\ UNCHANGED cand
      BY <2>4 DEF ScanFinish, ScanReset, Searching
    <3>2. pc'[t] \notin {"close", "active", "finish"}
      BY <2>4 DEF ScanFinish, ScanReset, Fail, Goto, AfterReset, TypeOK
    <3>3. cand[t] = NoZone
      BY <1>0, <2>1, <3>1 DEF CourseOf, Searching
    <3> QED BY <3>1, <3>2, <3>3, NoCourse
  <2> QED BY <1>1, <2>2, <2>3, <2>4 DEF Search
<1>2. ASSUME pc[t] \notin {"scan", "active", "drop", "finish"}, UNCHANGED cand,
             pc'[t] \notin {"close", "active", "finish"}
      PROVE  CourseOf(t)'
  <2>1. cand'[t] = NoZone
    BY <1>0, <1>2 DEF CourseOf, Searching
  <2> QED BY <1>2, <2>1, NoCourse
<1>3. CASE Allocate(t)
  <2>1. CASE AllocateIOZone(t) \/ WaitForOpenIOZoneToken(t) \/ SpinForActiveToken(t)
    BY <1>2, <2>1 DEF AllocateIOZone, WaitForOpenIOZoneToken, SpinForActiveToken,
       StartSearch, Fail, Goto, TypeOK
  <2>2. CASE PutOpenIOZoneToken(t)
    BY <1>2, <2>2 DEF PutOpenIOZoneToken, NotifyAndGoto, Goto, Asleep, TypeOK
  <2>3. CASE PutActiveIOZoneToken(t)
    BY <1>2, <2>3 DEF PutActiveIOZoneToken, NotifyAndGoto, Goto, Asleep, TypeOK
  <2>4. CASE ThresholdDone(t)
    <3>1. cand'[t] = NoZone
      BY <1>0, <2>4 DEF ThresholdDone, SearchEnded, CourseOf, Searching
    <3> QED BY <2>4, <3>1, NoCourse DEF ThresholdDone, Goto, TypeOK
  <2>5. CASE SetActiveZone(t)
    BY <2>5, NoCourse DEF SetActiveZone, Goto, TypeOK
  <2>6. CASE BestMatchDone(t) /\ ~SetActiveZone(t)
    <3>1. pc[t] = "scan" /\ pc'[t] = "active" /\ job[t] = "best"
          /\ UNCHANGED <<job, cand, wp, capacity>>
      BY <2>6 DEF BestMatchDone, SearchEnded, Searching, Goto, TypeOK
    <3> QED BY <1>0, <3>1 DEF CourseOf, Searching, Partial, IsFull, IsEmpty
  <2>7. CASE TryActiveToken(t) /\ ~SetActiveZone(t)
    <3>1. pc'[t] = "drop" /\ UNCHANGED cand
      BY <2>7 DEF TryActiveToken, Goto, TypeOK
    <3> QED BY <3>1 DEF CourseOf, Searching
  <2>8. CASE DropCandidate(t)
    BY <2>8, NoCourse DEF DropCandidate, Goto, TypeOK
  <2>9. CASE CheapestDone(t)
    <3>1. /\ pc[t] = "scan" /\ job[t] = "cheapest" /\ UNCHANGED <<job, cand, wp, capacity>>
          /\ pc'[t] = IF cand[t] = NoZone THEN "spin" ELSE "finish"
      BY <2>9 DEF CheapestDone, SearchEnded, Searching, Goto, TypeOK
    <3> QED BY <1>0, <3>1 DEF CourseOf, Searching, Partial, IsFull, IsEmpty
  <2>10. CASE FinishVictim(t)
    BY <2>10, NoCourse DEF FinishVictim, Goto, TypeOK
  <2>11. CASE EmptyZoneDone(t) /\ ~SetActiveZone(t)
    BY <2>11, NoCourse DEF EmptyZoneDone, Goto, TypeOK
  <2> QED BY <1>3, <2>1, <2>2, <2>3, <2>4, <2>5, <2>6, <2>7, <2>8, <2>9, <2>10, <2>11
          DEF Allocate
<1>4. CASE Write(t)
  <2>1. CASE AppendNeedsZone(t) \/ AppendReturns(t) \/ AppendFails(t)
    BY <1>2, <2>1 DEF AppendNeedsZone, AppendReturns, AppendFails, Goto, TypeOK
  <2>2. CASE AppendLeavesFullZone(t)
    <3>1. /\ pc[t] = "append" /\ pc'[t] = "close" /\ job'[t] = "roll" /\ IsFull(act[t])
          /\ UNCHANGED <<act, capacity, cand>>
      BY <2>2 DEF AppendLeavesFullZone, Goto, TypeOK
    <3>2. cand[t] = NoZone
      BY <1>0, <3>1 DEF CourseOf, Searching
    <3> QED BY <3>1, <3>2 DEF CourseOf, Searching, IsFull
  <2>3. CASE AppendWrites(t)
    <3>1. /\ pc[t] = "append" /\ act[t] \in Zone /\ UNCHANGED <<act, cand>>
          /\ capacity'[act[t]] = capacity[act[t]] - WriteSize(t)
      BY <2>3 DEF AppendWrites, TypeOK
    <3>2. cand[t] = NoZone
      BY <1>0, <3>1 DEF CourseOf, Searching
    <3>3. CASE pc'[t] = "append"
      BY <3>1, <3>2, <3>3, NoCourse
    <3>4. CASE pc'[t] # "append"
      <4>1. pc'[t] = "close" /\ job'[t] = "roll" /\ WriteSize(t) = capacity[act[t]]
        BY <2>3, <3>1, <3>4 DEF AppendWrites, Goto, TypeOK
      <4>2. capacity[act[t]] \in Int
        BY <3>1 DEF TypeOK
      <4>3. capacity'[act'[t]] = 0
        BY <3>1, <4>1, <4>2
      <4> QED BY <3>1, <3>2, <4>1, <4>3 DEF CourseOf, Searching, IsFull
    <3> QED BY <3>3, <3>4
  <2> QED BY <1>4, <2>1, <2>2, <2>3 DEF Write
<1>5. CASE Reclaim(t)
  <2>1. CASE ClearExtent(t) \/ ResetUnusedIOZones(t)
    BY <1>2, <2>1 DEF ClearExtent, ResetUnusedIOZones, StartSearch, TypeOK
  <2>2. CASE ResetDone(t)
    <3>1. cand'[t] = NoZone
      BY <1>0, <2>2 DEF ResetDone, SearchEnded, CourseOf, Searching
    <3> QED BY <2>2, <3>1, NoCourse DEF ResetDone, Goto, TypeOK
  <2> QED BY <1>5, <2>1, <2>2 DEF Reclaim
<1>6. CASE Close(t)
  <2>1. CASE CloseFile(t)
    <3>1. /\ pc[t] = "ready" /\ UNCHANGED cand
          /\ pc'[t] = "closed" \/ (pc'[t] = "close" /\ job'[t] = "shut")
      BY <2>1 DEF CloseFile, Goto, TypeOK
    <3>2. cand[t] = NoZone
      BY <1>0, <3>1 DEF CourseOf, Searching
    <3> QED BY <3>1, <3>2 DEF CourseOf, Searching
  <2>2. CASE CloseActiveZone(t) \/ SetZoneDeferredStatus(t)
    BY <1>2, <2>2 DEF CloseActiveZone, SetZoneDeferredStatus, Goto, TypeOK
  <2> QED BY <1>6, <2>1, <2>2 DEF Close
<1>7. CASE Call(t)
  BY <1>2, <1>7 DEF Call, OpenWritableFile, ReopenWritableFile, Append, Fsync, DeleteFile,
     Goto, TypeOK
<1> QED BY <1>1, <1>3, <1>4, <1>5, <1>6, <1>7 DEF Step

(* The ways a step moves active tokens: not at all, a thread takes one or   *)
(* puts one back, a zone leaves its token to the thread that finished,      *)
(* reset or filled it, a thread spends its token on an empty zone.          *)
Kept(t)  == /\ active' = active /\ Speakers' = Speakers /\ Engaged' \subseteq Engaged
            /\ Engaged' # Engaged => CloseActiveZone(t) /\ IsEmpty(act[t])
Takes(t) == /\ active < MaxActive /\ active' = active + 1
            /\ t \notin Speakers /\ Speakers' = Speakers \cup {t} /\ Engaged' = Engaged
Puts(t)  == /\ active' = active - 1
            /\ t \in Speakers /\ Speakers' = Speakers \ {t} /\ Engaged' = Engaged
Frees(t) == /\ active' = active /\ t \notin Speakers /\ Speakers' = Speakers \cup {t}
            /\ \E z \in Engaged : Engaged' = Engaged \ {z}
Lends(t) == /\ active' = active /\ t \in Speakers /\ Speakers' = Speakers \ {t}
            /\ EmptyZoneDone(t) /\ cand[t] \in Zone /\ Engaged' = Engaged \cup {cand[t]}

(* Only t starts or stops carrying a token of no zone in a step of t.       *)
LEMMA SpeakerStep ==
  ASSUME TypeOK, NEW t \in Writers, Step(t) \/ Call(t)
  PROVE  /\ (Spoken(t)' <=> Spoken(t)) => Speakers' = Speakers
         /\ Spoken(t)' /\ ~Spoken(t) => t \notin Speakers /\ Speakers' = Speakers \cup {t}
         /\ ~Spoken(t)' /\ Spoken(t) => t \in Speakers /\ Speakers' = Speakers \ {t}
<1>1. ASSUME NEW u \in Writers, u # t PROVE Spoken(u)' <=> Spoken(u)
  <2>1. /\ pc'[u] = pc[u] \/ (pc[u] = "asleep" /\ pc'[u] = "token")
        /\ job'[u] = job[u]
    BY <1>1, OthersUnmoved
  <2> QED BY <2>1 DEF Spoken
<1> HIDE DEF Spoken
<1> QED BY <1>1 DEF Speakers

(* Zones that are not written, finished or reset, and files that keep their *)
(* zone, engage what they engaged.                                          *)
LEMMA EngagedSame ==
  ASSUME UNCHANGED <<wp, capacity, act>>
  PROVE  Engaged' = Engaged
BY DEF Engaged, Partial, IsFull, IsEmpty

(* A zone that is finished, or reset, by the thread that holds it.          *)
LEMMA EngagedFreed ==
  ASSUME TypeOK, NEW z \in Zone, Partial(z), ~Partial(z)', UNCHANGED act,
         \A y \in Zone : y # z => wp'[y] = wp[y] /\ capacity'[y] = capacity[y],
         \A u \in Writers : act[u] # z
  PROVE  z \in Engaged /\ Engaged' = Engaged \ {z}
<1>1. \A y \in Zone : y # z => (Partial(y)' <=> Partial(y))
  BY DEF Partial, IsFull, IsEmpty
<1> QED BY <1>1 DEF Engaged

(* The loops over io_zones move tokens only with the zones they finish and  *)
(* reset.                                                                   *)
LEMMA SearchTokens ==
  ASSUME TypeOK, ZoneExclusive, NEW t \in Writers, Search(t), UNCHANGED calls
  PROVE  Kept(t) \/ Frees(t)
<1> USE DEF zoneVars, tokenVars, searchVars, fileVars
<1>0. active' = active /\ UNCHANGED act /\ pc[t] = "scan" /\ Step(t)
  BY DEF Search, ScanAcquire, ScanKeep, ScanPass, ScanFinish, ScanReset, Searching, Step
<1>1. CASE ScanAcquire(t) \/ ScanKeep(t) \/ ScanPass(t)
  <2>1. UNCHANGED <<wp, capacity, pc, job>>
    BY <1>1 DEF ScanAcquire, ScanKeep, ScanPass
  <2>2. Spoken(t)' <=> Spoken(t)
    BY <2>1 DEF Spoken
  <2> QED BY <1>0, <2>1, <2>2, SpeakerStep, EngagedSame DEF Kept
<1>2. CASE ScanFinish(t) \/ ScanReset(t)
  <2>0. job[t] \in {"threshold", "reset"} /\ cur[t] \in Zone /\ cur[t] # NoZone
    BY <1>2 DEF ScanFinish, ScanReset, Searching, TypeOK
  <2>1. ~Spoken(t) /\ \A u \in Writers : act[u] # cur[t]
    BY <1>0, <2>0, ActiveAlone DEF Spoken
  <2>2. CASE Fail(t) /\ UNCHANGED <<wp, capacity>>
    <3>1. ~Spoken(t)'
      BY <2>2 DEF Fail, Goto, Spoken, TypeOK
    <3> QED BY <1>0, <2>1, <2>2, <3>1, SpeakerStep, EngagedSame DEF Kept
  <2>3. PICK z \in Zone : z = cur[t]
    BY <2>0
  <2>4. ASSUME pc'[t] = "putactive", Partial(z), ~Partial(z)',
               \A y \in Zone : y # z => wp'[y] = wp[y] /\ capacity'[y] = capacity[y]
        PROVE  Frees(t)
    <3>1. Spoken(t)'
      BY <2>4 DEF Spoken
    <3>2. z \in Engaged /\ Engaged' = Engaged \ {z}
      BY <1>0, <2>1, <2>3, <2>4, EngagedFreed
    <3> QED BY <1>0, <2>1, <3>1, <3>2, SpeakerStep DEF Frees
  <2>5. CASE ScanFinish(t) /\ ~Fail(t)
    <3>1. Finish(z) /\ pc'[t] = "putactive" /\ Partial(z)
      BY <2>3, <2>5 DEF ScanFinish, MustFinish, Goto, TypeOK
    <3>2. /\ capacity'[z] = 0
          /\ \A y \in Zone : y # z => wp'[y] = wp[y] /\ capacity'[y] = capacity[y]
      BY <3>1 DEF Finish, TypeOK
    <3>3. ~Partial(z)'
      BY <3>2 DEF Partial, IsFull
    <3> QED BY <2>4, <3>1, <3>2, <3>3
  <2>6. CASE ScanReset(t) /\ ~Fail(t)
    <3>1. PICK o : Reset(z, o)
      BY <2>3, <2>6 DEF ScanReset
    <3>2. /\ pc'[t] = IF IsFull(z) THEN "scan" ELSE "putactive"
          /\ ~IsEmpty(z) /\ job'[t] = "reset"
      BY <2>3, <2>6 DEF ScanReset, AfterReset, MustReset, Goto, TypeOK
    <3>3. /\ wp'[z] = 0
          /\ \A y \in Zone : y # z => wp'[y] = wp[y] /\ capacity'[y] = capacity[y]
      BY <3>1 DEF Reset, TypeOK
    <3>4. ~Partial(z)'
      BY <3>3 DEF Partial, IsEmpty
    <3>5. CASE IsFull(z)
      <4>1. ~Spoken(t)'
        BY <3>2, <3>5 DEF Spoken
      <4>2. \A y \in Zone : Partial(y)' <=> Partial(y)
        BY <3>3, <3>4, <3>5 DEF Partial, IsFull, IsEmpty
      <4>3. Engaged' = Engaged
        BY <1>0, <4>2 DEF Engaged
      <4> QED BY <1>0, <2>1, <4>1, <4>3, SpeakerStep DEF Kept
    <3>6. CASE ~IsFull(z)
      BY <2>4, <3>2, <3>3, <3>4, <3>6 DEF Partial
    <3> QED BY <3>5, <3>6
  <2>7. CASE Fail(t)
    <3>1. pc'[t] \notin {"putactive", "scan"}
      BY <2>7 DEF Fail, Goto, TypeOK
    <3>2. UNCHANGED <<wp, capacity>>
      BY <1>2, <3>1 DEF ScanFinish, ScanReset, Goto, AfterReset, TypeOK
    <3> QED BY <2>2, <2>7, <3>2
  <2> QED BY <1>2, <2>5, <2>6, <2>7
<1> QED BY <1>1, <1>2 DEF Search

(* The zone a search settles on: one that is engaged already, or the empty  *)
(* zone that takes the thread's token.                                      *)
LEMMA EngagedByActive ==
  ASSUME TypeOK, Roles, NEW t \in Writers, pc[t] \in {"scan", "active"}, SetActiveZone(t),
         UNCHANGED <<wp, capacity>>
  PROVE  Engaged' = Engaged \cup ({cand[t]} \cap Zone)
<1>1. act[t] = NoZone /\ \A u \in Writers : act'[u] = IF u = t THEN cand[t] ELSE act[u]
  BY DEF Roles, SetActiveZone, TypeOK
<1>2. \A z \in Zone : Partial(z)' <=> Partial(z)
  BY DEF Partial, IsFull, IsEmpty
<1>3. \A z \in Zone : (\E u \in Writers : act'[u] = z) <=> z = cand[t] \/ \E u \in Writers : act[u] = z
  BY <1>1, ZoneFacts
<1> QED BY <1>2, <1>3 DEF Engaged

(* AllocateIOZone and the functions of the tokens.                          *)
LEMMA AllocateTokens ==
  ASSUME TypeOK, Roles, ZoneExclusive, Course, NEW t \in Writers, Allocate(t), UNCHANGED calls
  PROVE  Kept(t) \/ Takes(t) \/ Puts(t) \/ Frees(t) \/ Lends(t)
<1> USE DEF zoneVars, tokenVars, searchVars, fileVars
<1>0. Step(t) /\ CourseOf(t)
  BY DEF Step, Course
<1>1. ASSUME UNCHANGED <<wp, capacity, act, active>>, Spoken(t)' <=> Spoken(t) PROVE Kept(t)
  BY <1>0, <1>1, SpeakerStep, EngagedSame DEF Kept
<1>2. CASE AllocateIOZone(t) \/ ThresholdDone(t)
  <2>1. ~Spoken(t) /\ ~Spoken(t)'
    BY <1>2 DEF AllocateIOZone, ThresholdDone, SearchEnded, Searching, StartSearch, Fail,
       Goto, Spoken, TypeOK
  <2> QED BY <1>1, <1>2, <2>1 DEF AllocateIOZone, ThresholdDone
<1>3. CASE WaitForOpenIOZoneToken(t)
  <2>1. ~Spoken(t) /\ ~Spoken(t)'
    BY <1>3 DEF WaitForOpenIOZoneToken, StartSearch, Goto, Spoken, TypeOK
  <2> QED BY <1>1, <1>3, <2>1 DEF WaitForOpenIOZoneToken
<1>4. CASE SetActiveZone(t) /\ (BestMatchDone(t) \/ TryActiveToken(t))
  <2>1. /\ pc[t] \in {"scan", "active"} /\ job[t] = "best" /\ pc'[t] = "append"
        /\ UNCHANGED <<wp, capacity>>
    BY <1>0, <1>4 DEF BestMatchDone, TryActiveToken, SearchEnded, Searching, CourseOf,
       SetActiveZone, Goto, TypeOK
  <2>2. active' = active
    BY <1>4, <2>1 DEF BestMatchDone, TryActiveToken, Goto, TypeOK
  <2>3. ~Spoken(t) /\ ~Spoken(t)'
    BY <2>1 DEF Spoken
  <2>4. cand[t] \in Zone => cand[t] \in Engaged
    BY <1>0, <2>1, ZoneFacts DEF CourseOf, Engaged
  <2>5. Engaged' = Engaged
    BY <1>4, <2>1, <2>4, EngagedByActive
  <2> QED BY <1>0, <2>2, <2>3, <2>5, SpeakerStep DEF Kept
<1>5. CASE BestMatchDone(t) /\ ~SetActiveZone(t)
  <2>1. ~Spoken(t) /\ ~Spoken(t)'
    BY <1>5 DEF BestMatchDone, SearchEnded, Searching, Goto, Spoken, TypeOK
  <2> QED BY <1>1, <1>5, <2>1 DEF BestMatchDone
<1>6. CASE TryActiveToken(t) /\ ~SetActiveZone(t)
  <2>1. UNCHANGED <<wp, capacity, act>> /\ pc[t] = "active" /\ ~Spoken(t)
    BY <1>6 DEF TryActiveToken, Spoken
  <2>2. CASE active < MaxActive
    <3>1. active' = active + 1 /\ Spoken(t)'
      BY <1>6, <2>2 DEF TryActiveToken, Goto, Spoken, TypeOK
    <3> QED BY <1>0, <2>1, <2>2, <3>1, SpeakerStep, EngagedSame DEF Takes
  <2>3. CASE ~(active < MaxActive)
    <3>1. active' = active /\ ~Spoken(t)'
      BY <1>6, <2>3 DEF TryActiveToken, Goto, Spoken, TypeOK
    <3> QED BY <1>1, <2>1, <3>1
  <2> QED BY <2>2, <2>3
<1>7. CASE DropCandidate(t)
  <2>1. Spoken(t)' <=> Spoken(t)
    BY <1>7 DEF DropCandidate, Goto, Spoken, TypeOK
  <2> QED BY <1>1, <1>7, <2>1 DEF DropCandidate
<1>8. CASE SpinForActiveToken(t)
  <2>1. UNCHANGED <<wp, capacity, act>> /\ ~Spoken(t)
    BY <1>8 DEF SpinForActiveToken, Spoken
  <2>2. CASE active < MaxActive
    <3>1. active' = active + 1 /\ Spoken(t)'
      BY <1>8, <2>2 DEF SpinForActiveToken, StartSearch, Spoken, TypeOK
    <3> QED BY <1>0, <2>1, <2>2, <3>1, SpeakerStep, EngagedSame DEF Takes
  <2>3. CASE ~(active < MaxActive)
    <3>1. active' = active /\ ~Spoken(t)'
      BY <1>8, <2>3 DEF SpinForActiveToken, StartSearch, Spoken, TypeOK
    <3> QED BY <1>1, <2>1, <3>1
  <2> QED BY <2>2, <2>3
<1>9. CASE CheapestDone(t)
  <2>1. ~Spoken(t) /\ ~Spoken(t)'
    BY <1>9 DEF CheapestDone, SearchEnded, Searching, Goto, Spoken, TypeOK
  <2> QED BY <1>1, <1>9, <2>1 DEF CheapestDone
<1>10. CASE FinishVictim(t)
  <2>1. /\ pc[t] = "finish" /\ job[t] = "cheapest" /\ ~Spoken(t) /\ cand[t] \in Zone
        /\ cand[t] # NoZone /\ Partial(cand[t]) /\ UNCHANGED <<act, active>>
    BY <1>0, <1>10 DEF FinishVictim, CourseOf, Spoken, TypeOK
  <2>2. PICK z \in Zone : z = cand[t]
    BY <2>1
  <2>3. CASE Finish(cand[t]) /\ pc'[t] = "putactive"
    <3>1. /\ capacity'[z] = 0
          /\ \A y \in Zone : y # z => wp'[y] = wp[y] /\ capacity'[y] = capacity[y]
      BY <2>2, <2>3 DEF Finish, TypeOK
    <3>2. ~Partial(z)' /\ Partial(z)
      BY <2>1, <2>2, <3>1 DEF Partial, IsFull
    <3>3. \A u \in Writers : act[u] # z
      BY <2>1, <2>2, ActiveAlone
    <3>4. z \in Engaged /\ Engaged' = Engaged \ {z}
      BY <2>1, <3>1, <3>2, <3>3, EngagedFreed
    <3>5. Spoken(t)'
      BY <2>3 DEF Spoken
    <3> QED BY <1>0, <2>1, <3>4, <3>5, SpeakerStep DEF Frees
  <2>4. CASE UNCHANGED <<wp, capacity>> /\ pc'[t] = "putopen" /\ job'[t] = "fail"
    <3>1. ~Spoken(t)'
      BY <2>4 DEF Spoken
    <3> QED BY <1>1, <2>1, <2>4, <3>1
  <2> QED BY <1>10, <2>3, <2>4 DEF FinishVictim, Goto, TypeOK
<1>11. CASE EmptyZoneDone(t)
  <2>1. /\ pc[t] = "scan" /\ job[t] = "empty" /\ Spoken(t)
        /\ UNCHANGED <<wp, capacity, active>>
    BY <1>11 DEF EmptyZoneDone, SearchEnded, Searching, Spoken
  <2>2. CASE cand[t] # NoZone
    <3>1. SetActiveZone(t) /\ cand[t] \in Zone
      BY <1>11, <2>2 DEF EmptyZoneDone, TypeOK
    <3>2. ~Spoken(t)'
      BY <3>1 DEF SetActiveZone, Goto, Spoken, TypeOK
    <3>3. Engaged' = Engaged \cup {cand[t]}
      BY <2>1, <3>1, EngagedByActive
    <3> QED BY <1>0, <1>11, <2>1, <3>1, <3>2, <3>3, SpeakerStep DEF Lends
  <2>3. CASE cand[t] = NoZone
    <3>1. Spoken(t)' /\ UNCHANGED act
      BY <1>11, <2>3 DEF EmptyZoneDone, Goto, Spoken, TypeOK
    <3> QED BY <1>1, <2>1, <3>1
  <2> QED BY <2>2, <2>3
<1>12. CASE PutOpenIOZoneToken(t)
  <2>1. Spoken(t)' <=> Spoken(t)
    BY <1>12 DEF PutOpenIOZoneToken, NotifyAndGoto, Goto, Asleep, Spoken, TypeOK
  <2> QED BY <1>1, <1>12, <2>1 DEF PutOpenIOZoneToken
<1>13. CASE PutActiveIOZoneToken(t)
  <2>1. Spoken(t) /\ ~Spoken(t)'
    BY <1>13 DEF PutActiveIOZoneToken, NotifyAndGoto, Goto, Asleep, Spoken, TypeOK
  <2>2. UNCHANGED <<wp, capacity, act>> /\ active' = active - 1
    BY <1>13 DEF PutActiveIOZoneToken
  <2> QED BY <1>0, <2>1, <2>2, SpeakerStep, EngagedSame DEF Puts
<1> QED BY <1>2, <1>3, <1>4, <1>5, <1>6, <1>7, <1>8, <1>9, <1>10, <1>11, <1>12, <1>13
        DEF Allocate

(* Files move tokens only when they close a zone.                           *)
LEMMA FileTokens ==
  ASSUME TypeOK, ZoneExclusive, ClosesItsZone, Course, NEW t \in Writers,
         Step(t) \/ Call(t), Write(t) \/ Reclaim(t) \/ Close(t) \/ Call(t)
  PROVE  Kept(t) \/ Frees(t)
<1> USE DEF zoneVars, tokenVars, searchVars, fileVars
<1>1. ASSUME UNCHANGED <<wp, capacity, act, active>>, ~Spoken(t), ~Spoken(t)' PROVE Kept(t)
  BY <1>1, SpeakerStep, EngagedSame DEF Kept
<1>2. CASE Write(t) /\ ~AppendWrites(t)
  <2>1. ~Spoken(t) /\ ~Spoken(t)'
    BY <1>2 DEF Write, AppendNeedsZone, AppendReturns, AppendLeavesFullZone, AppendFails,
       Goto, Spoken, TypeOK
  <2> QED BY <1>1, <1>2, <2>1 DEF Write, AppendNeedsZone, AppendReturns,
         AppendLeavesFullZone, AppendFails
<1>3. CASE AppendWrites(t)
  <2>1. ~Spoken(t) /\ ~Spoken(t)' /\ UNCHANGED <<act, active>> /\ act[t] \in Zone
    BY <1>3 DEF AppendWrites, Goto, Spoken, TypeOK
  <2>2. \A y \in Zone : y # act[t] => wp'[y] = wp[y] /\ capacity'[y] = capacity[y]
    BY <1>3 DEF AppendWrites, TypeOK
  <2>3. \A y \in Zone : y # act[t] => (Partial(y)' <=> Partial(y))
    BY <2>2 DEF Partial, IsFull, IsEmpty
  <2>4. Engaged' = Engaged
    BY <2>1, <2>3 DEF Engaged
  <2> QED BY <2>1, <2>4, SpeakerStep DEF Kept
<1>4. CASE Reclaim(t)
  <2>1. ~Spoken(t) /\ ~Spoken(t)'
    BY <1>4 DEF Reclaim, ClearExtent, ResetUnusedIOZones, ResetDone, SearchEnded, Searching,
       StartSearch, Goto, Spoken, TypeOK
  <2> QED BY <1>1, <1>4, <2>1 DEF Reclaim, ClearExtent, ResetUnusedIOZones, ResetDone
<1>5. CASE CloseFile(t) \/ SetZoneDeferredStatus(t)
  <2>1. ~Spoken(t) /\ ~Spoken(t)'
    BY <1>5 DEF CloseFile, SetZoneDeferredStatus, Goto, Spoken, TypeOK
  <2> QED BY <1>1, <1>5, <2>1 DEF CloseFile, SetZoneDeferredStatus
<1>6. CASE Call(t)
  <2>1. ~Spoken(t) /\ ~Spoken(t)'
    BY <1>6 DEF Call, OpenWritableFile, ReopenWritableFile, Append, Fsync, DeleteFile,
       Goto, Spoken, TypeOK
  <2> QED BY <1>1, <1>6, <2>1 DEF Call, OpenWritableFile, ReopenWritableFile, Append, Fsync,
         DeleteFile
<1>7. CASE CloseActiveZone(t)
  <2>1. /\ pc[t] = "close" /\ ~Spoken(t) /\ act[t] # NoZone /\ act[t] \in Zone
        /\ UNCHANGED <<wp, capacity, active>> /\ CourseOf(t)
    BY <1>7 DEF CloseActiveZone, ClosesItsZone, Course, Spoken, TypeOK
  <2>2. PICK z \in Zone : z = act[t]
    BY <2>1
  <2>3. \A u \in Writers : act'[u] = IF u = t THEN NoZone ELSE act[u]
    BY <1>7 DEF CloseActiveZone, TypeOK
  <2>4. \A y \in Zone : Partial(y)' <=> Partial(y)
    BY <2>1 DEF Partial, IsFull, IsEmpty
  <2>5. \A u \in Writers : u # t => act[u] # z
    BY <2>1, <2>2, ActiveAlone
  <2>6. \A y \in Zone : (\E u \in Writers : act'[u] = y) <=> y # z /\ \E u \in Writers : act[u] = y
    BY <2>2, <2>3, <2>5, ZoneFacts
  <2>7. z \in Engaged /\ Engaged' = IF Partial(z) THEN Engaged ELSE Engaged \ {z}
    BY <2>2, <2>4, <2>6 DEF Engaged
  <2>8. CASE IsFull(z)
    <3>1. Spoken(t)'
      BY <1>7, <2>1, <2>2, <2>8 DEF CloseActiveZone, CourseOf, Goto, Partial, Spoken, TypeOK
    <3>2. Engaged' = Engaged \ {z}
      BY <2>7, <2>8 DEF Partial
    <3> QED BY <2>1, <2>7, <3>1, <3>2, SpeakerStep DEF Frees
  <2>9. CASE ~IsFull(z)
    <3>1. job[t] = "shut"
      BY <2>1, <2>2, <2>9 DEF CourseOf
    <3>2. ~Spoken(t)'
      BY <1>7, <2>1, <2>2, <2>9, <3>1 DEF CloseActiveZone, Goto, Spoken, TypeOK
    <3>3. Engaged' \subseteq Engaged /\ (Engaged' # Engaged => IsEmpty(act[t]))
      BY <2>2, <2>7, <2>9 DEF Partial
    <3> QED BY <1>7, <2>1, <3>2, <3>3, SpeakerStep DEF Kept
  <2> QED BY <2>8, <2>9
<1> QED BY <1>2, <1>3, <1>4, <1>5, <1>6, <1>7 DEF Write, Close

(* Every step moves active tokens in one of the five ways.                  *)
LEMMA TokenStep ==
  ASSUME TypeOK, Roles, ZoneExclusive, ClosesItsZone, Course, NEW t \in Writers,
         Step(t) \/ Call(t)
  PROVE  Kept(t) \/ Takes(t) \/ Puts(t) \/ Frees(t) \/ Lends(t)
BY SearchTokens, AllocateTokens, FileTokens DEF Step

(* The zones and the threads that have a token are finitely many.           *)
LEMMA EngagedFinite ==
  /\ IsFiniteSet(Engaged) /\ Cardinality(Engaged) \in Nat
  /\ IsFiniteSet(Speakers) /\ Cardinality(Speakers) \in Nat
<1>1. IsFiniteSet(Zone)
  BY FS_Interval, DeviceAssumption DEF Zone
<1>2. Engaged \subseteq Zone /\ Speakers \subseteq Writers
  BY DEF Engaged, Speakers
<1>3. IsFiniteSet(Engaged) /\ IsFiniteSet(Speakers)
  BY <1>1, <1>2, FS_Subset, WriterAssumption
<1> QED BY <1>3, FS_CardinalityType

(* active_io_zones_ keeps up with the zones and threads that have a token.  *)
LEMMA ActiveStep ==
  ASSUME TypeOK, Roles, ZoneExclusive, ClosesItsZone, LiveInv, ActiveInv, NEW t \in Writers,
         Step(t) \/ Call(t)
  PROVE  ActiveInv'
<1> DEFINE E == Engaged
           S == Speakers
<1>1. Course /\ Cardinality(E) + Cardinality(S) <= active /\ active <= MaxActive
      /\ active \in Int /\ MaxActive \in Int
  BY DeviceAssumption DEF ActiveInv, TypeOK
<1>2. Course'
  BY <1>1, OwnCourse, OthersCourse DEF Course
<1>3. /\ IsFiniteSet(E) /\ Cardinality(E) \in Nat
      /\ IsFiniteSet(S) /\ Cardinality(S) \in Nat
  BY EngagedFinite
<1>4. Cardinality(E') + Cardinality(S') <= active' /\ active' <= MaxActive
  <2> HIDE DEF E, S
  <2>1. CASE Kept(t)
    <3>1. active' = active /\ S' = S /\ E' \subseteq E
      BY <2>1 DEF Kept, E, S
    <3>2. Cardinality(E') <= Cardinality(E) /\ Cardinality(E') \in Nat
      BY <1>3, <3>1, FS_Subset, FS_CardinalityType
    <3> QED BY <1>1, <1>3, <3>1, <3>2
  <2>2. CASE Takes(t)
    <3>1. /\ active < MaxActive /\ active' = active + 1 /\ E' = E
          /\ t \notin S /\ S' = S \cup {t}
      BY <2>2 DEF Takes, E, S
    <3>2. Cardinality(S') = Cardinality(S) + 1
      BY <1>3, <3>1, FS_AddElement
    <3> QED BY <1>1, <1>3, <3>1, <3>2
  <2>3. CASE Puts(t)
    <3>1. active' = active - 1 /\ E' = E /\ t \in S /\ S' = S \ {t}
      BY <2>3 DEF Puts, E, S
    <3>2. Cardinality(S') = Cardinality(S) - 1
      BY <1>3, <3>1, FS_RemoveElement
    <3> QED BY <1>1, <1>3, <3>1, <3>2
  <2>4. CASE Frees(t)
    <3>1. active' = active /\ t \notin S /\ S' = S \cup {t}
      BY <2>4 DEF Frees, E, S
    <3>2. PICK z \in E : E' = E \ {z}
      BY <2>4 DEF Frees, E, S
    <3>3. Cardinality(S') = Cardinality(S) + 1
      BY <1>3, <3>1, FS_AddElement
    <3>4. Cardinality(E') = Cardinality(E) - 1
      BY <1>3, <3>2, FS_RemoveElement
    <3> QED BY <1>1, <1>3, <3>1, <3>3, <3>4
  <2>5. CASE Lends(t)
    <3>1. active' = active /\ t \in S /\ S' = S \ {t} /\ E' = E \cup {cand[t]}
      BY <2>5 DEF Lends, E, S
    <3>2. Cardinality(S') = Cardinality(S) - 1
      BY <1>3, <3>1, FS_RemoveElement
    <3>3. Cardinality(E') <= Cardinality(E) + 1
      BY <1>3, <3>1, SubsetPlusOne
    <3>4. Cardinality(E') \in Nat
      <4>1. IsFiniteSet(E')
        BY <1>3, <3>1, FS_AddElement
      <4> QED BY <4>1, FS_CardinalityType
    <3> QED BY <1>1, <1>3, <3>1, <3>2, <3>3, <3>4
  <2> QED BY <1>1, <2>1, <2>2, <2>3, <2>4, <2>5, TokenStep
<1> QED BY <1>2, <1>4 DEF ActiveInv

(* An empty device has handed out no active token.                          *)
LEMMA InitActive == Init => ActiveInv
<1> SUFFICES ASSUME Init PROVE ActiveInv
  OBVIOUS
<1>1. Engaged = {} /\ Speakers = {}
  BY ZoneFacts DEF Init, Engaged, Speakers, Spoken, Partial, IsEmpty
<1>2. Cardinality(Engaged) = 0 /\ Cardinality(Speakers) = 0
  BY <1>1, FS_EmptySet
<1>3. Course
  BY DEF Init, Course, CourseOf, Searching
<1> QED BY <1>2, <1>3, DeviceAssumption DEF Init, ActiveInv

(* The tokens of the active zones add up in every state.                    *)
LEMMA ActiveInvariant == Spec => []ActiveInv
<1>1. /\ Typed /\ ZoneExclusive /\ OpenInv /\ LiveInv /\ ActiveInv /\ [Next]_vars
      => ActiveInv'
  <2> SUFFICES ASSUME TypeOK, Roles, ZoneExclusive, ClosesItsZone, LiveInv, ActiveInv,
                      [Next]_vars
               PROVE  ActiveInv'
    BY DEF Typed, OpenInv
  <2>1. CASE UNCHANGED vars
    <3>1. Course' /\ Engaged' = Engaged /\ Speakers' = Speakers /\ active' = active
      BY <2>1 DEF vars, zoneVars, tokenVars, searchVars, fileVars, ActiveInv, Course,
         CourseOf, Searching, Engaged, Speakers, Spoken, Partial, IsFull, IsEmpty
    <3> QED BY <3>1 DEF ActiveInv
  <2>2. ASSUME NEW t \in Writers, Step(t) \/ Call(t) PROVE ActiveInv'
    BY <2>2, ActiveStep
  <2> QED BY <2>1, <2>2 DEF Next
<1> QED BY <1>1, InitActive, LiveInvariant, PTL DEF Spec

(* active_io_zones_ is at least the number of partly written zones and at   *)
(* most max_nr_active_io_zones_ in every state, for every limit and every   *)
(* fault, although ApplyFinishThreshold, FinishCheapestIOZone,              *)
(* ResetUnusedIOZones and CloseActiveZone all give a zone away before they  *)
(* put its token back.                                                      *)
THEOREM ActiveZonesAreBounded == Spec => []ActiveZonesBounded
<1>1. ActiveInv /\ Typed => ActiveZonesBounded
  <2> SUFFICES ASSUME ActiveInv, active \in Int PROVE ActiveZonesBounded
    BY DEF Typed, TypeOK
  <2> DEFINE P == {z \in Zone : Partial(z)}
  <2>1. P \subseteq Engaged
    BY DEF Engaged
  <2>2. Cardinality(P) <= Cardinality(Engaged) /\ Cardinality(P) \in Nat
    BY <2>1, EngagedFinite, FS_Subset, FS_CardinalityType
  <2>3. Cardinality(Engaged) + Cardinality(Speakers) <= active /\ active <= MaxActive
    BY DEF ActiveInv
  <2> HIDE DEF P
  <2>4. Cardinality(P) <= active
    BY <2>2, <2>3, EngagedFinite
  <2> QED BY <2>3, <2>4 DEF ActiveZonesBounded, P
<1> QED BY <1>1, ActiveInvariant, LiveInvariant, PTL

-----------------------------------------------------------------------------
(* Every token comes back                                                   *)

(* The files append directly and neither a write nor a close fails.  A      *)
(* failed first write, and a buffered file that fills a zone with its last  *)
(* block, leave a file with an empty active zone, whose active token is     *)
(* lost when the file is closed; a failed close keeps both its tokens.      *)
Benign == Buffered = {} /\ Faults \cap {"write", "close"} = {}

(* The threads that are getting a zone for the rest of an append.           *)
Allocating(t) ==
  \/ pc[t] \in {"alloc", "token", "asleep", "active", "drop", "spin", "finish"}
  \/ /\ pc[t] \in {"scan", "putactive"}
     /\ job[t] \in {"threshold", "best", "cheapest", "empty", "roll"}
  \/ pc[t] \in {"close", "putopen"} /\ job[t] = "roll"
  \/ pc[t] = "append" /\ act[t] = NoZone

(* A zone is allocated only for blocks that are still to be written, so a   *)
(* file that is done with its append has written to its active zone.        *)
BegunOf(t) ==
  /\ Allocating(t) => left[t] > 0
  /\ act[t] # NoZone => \/ pc[t] = "append" /\ left[t] > 0
                        \/ pc[t] = "close" /\ job[t] = "roll"
                        \/ wp[act[t]] > 0
  /\ Searching(t, {"best"}) /\ cand[t] = NoZone => diff[t] = NotGood
  /\ Searching(t, {"empty"}) /\ cand[t] # NoZone => IsEmpty(cand[t])

Begun == \A t \in Writers : BegunOf(t)

ExactInv ==
  /\ Begun
  /\ Cardinality(Engaged) + Cardinality(Speakers) = active
  /\ Cardinality(OpenHolders) = open

(* A step of t leaves the appends and searches of the others alone.         *)
LEMMA ForeignAppends ==
  ASSUME TypeOK, NEW t \in Writers, Step(t) \/ Call(t), NEW u \in Writers, u # t
  PROVE  left'[u] = left[u] /\ diff'[u] = diff[u]
<1> USE DEF zoneVars, tokenVars, searchVars, fileVars
<1>1. CASE Search(t)
  BY <1>1 DEF Search, ScanAcquire, ScanKeep, ScanPass, ScanFinish, ScanReset, Fail, TypeOK
<1>2. CASE Allocate(t)
  BY <1>2 DEF Allocate, AllocateIOZone, ThresholdDone, WaitForOpenIOZoneToken,
     BestMatchDone, TryActiveToken, DropCandidate, SpinForActiveToken, CheapestDone,
     FinishVictim, EmptyZoneDone, SetActiveZone, PutOpenIOZoneToken, PutActiveIOZoneToken,
     StartSearch, Fail, TypeOK
<1>3. CASE Write(t)
  BY <1>3 DEF Write, AppendNeedsZone, AppendReturns, AppendLeavesFullZone, AppendWrites,
     AppendFails, TypeOK
<1>4. CASE Reclaim(t)
  BY <1>4 DEF Reclaim, ClearExtent, ResetUnusedIOZones, ResetDone, StartSearch, TypeOK
<1>5. CASE Close(t)
  BY <1>5 DEF Close, CloseFile, CloseActiveZone, SetZoneDeferredStatus, TypeOK
<1>6. CASE Call(t)
  BY <1>6 DEF Call, OpenWritableFile, ReopenWritableFile, Append, Fsync, DeleteFile, TypeOK
<1> QED BY <1>1, <1>2, <1>3, <1>4, <1>5, <1>6 DEF Step

(* What the others have begun stays begun.                                  *)
LEMMA OthersBegun ==
  ASSUME TypeOK, ZoneExclusive, Begun, NEW t \in Writers, Step(t) \/ Call(t),
         NEW u \in Writers, u # t
  PROVE  BegunOf(u)'
<1>1. /\ pc'[u] = pc[u] \/ (pc[u] = "asleep" /\ pc'[u] = "token")
      /\ job'[u] = job[u] /\ act'[u] = act[u] /\ cand'[u] = cand[u]
      /\ left'[u] = left[u] /\ diff'[u] = diff[u]
  BY OthersUnmoved, ForeignZones, ForeignAppends
<1>2. BegunOf(u)
  BY DEF Begun
<1>3. ASSUME NEW z \in Holds(u), z \in Zone PROVE wp'[z] = wp[z]
  <2>1. z \notin Holds(t)
    BY <1>3 DEF ZoneExclusive
  <2> QED BY <1>3, <2>1, ForeignZones
<1>4. act[u] # NoZone => wp'[act[u]] = wp[act[u]]
  BY <1>3 DEF Holds, TypeOK
<1>5. cand[u] # NoZone => wp'[cand[u]] = wp[cand[u]]
  BY <1>3 DEF Holds, TypeOK
<1>6. (Allocating(u) => left[u] > 0)'
  BY <1>1, <1>2 DEF BegunOf, Allocating
<1>7. /\ (Searching(u, {"best"}) /\ cand[u] = NoZone => diff[u] = NotGood)'
      /\ (Searching(u, {"empty"}) /\ cand[u] # NoZone => IsEmpty(cand[u]))'
  BY <1>1, <1>2, <1>5 DEF BegunOf, Searching, IsEmpty
<1>8. (act[u] # NoZone => \/ pc[u] = "append" /\ left[u] > 0
                          \/ pc[u] = "close" /\ job[u] = "roll"
                          \/ wp[act[u]] > 0)'
  BY <1>1, <1>2, <1>4 DEF BegunOf
<1> QED BY <1>6, <1>7, <1>8 DEF BegunOf

(* A thread that has no zone and no search, and allocates only for the rest *)
(* of its append.                                                           *)
LEMMA BegunIdle ==
  ASSUME NEW t \in Writers, act'[t] = NoZone, pc'[t] # "scan", Allocating(t)' => left'[t] > 0
  PROVE  BegunOf(t)'
BY DEF BegunOf, Searching

(* A file that gets its zone has blocks to write to it.                     *)
LEMMA BegunActive ==
  ASSUME TypeOK, NEW t \in Writers, SetActiveZone(t), left[t] > 0
  PROVE  BegunOf(t)'
<1>1. pc'[t] = "append" /\ left'[t] > 0 /\ job'[t] = "none"
  BY DEF SetActiveZone, Goto, TypeOK
<1> QED BY <1>1 DEF BegunOf, Searching

(* Each step of a thread keeps what it has begun.                           *)
LEMMA OwnBegun ==
  ASSUME Benign, TypeOK, Roles, Course, ClosesItsZone, Begun, NEW t \in Writers,
         Step(t) \/ Call(t)
  PROVE  BegunOf(t)'
<1> USE DEF zoneVars, tokenVars, searchVars, fileVars
<1>0. /\ BegunOf(t) /\ CourseOf(t)
      /\ act[t] # NoZone => pc[t] \in {"ready", "append", "close"}
      /\ pc[t] = "close" => act[t] # NoZone
  BY DEF Begun, Course, Roles, ClosesItsZone
<1>1. CASE Search(t)
  <2>1. pc[t] = "scan" /\ act'[t] = NoZone /\ UNCHANGED act
    BY <1>0, <1>1 DEF Search, ScanAcquire, ScanKeep, ScanPass, ScanFinish, ScanReset,
       Searching
  <2>2. CASE ScanAcquire(t) \/ ScanPass(t)
    <3>1. UNCHANGED <<pc, job, cand, diff, wp, act, left>>
      BY <2>2 DEF ScanAcquire, ScanPass
    <3> QED BY <1>0, <3>1 DEF BegunOf, Allocating, Searching, IsEmpty
  <2>3. CASE ScanKeep(t)
    <3>1. /\ UNCHANGED <<pc, job, wp, act, left>> /\ cand'[t] = cur[t] /\ cur[t] # NoZone
          /\ Preferred(t)
      BY <2>3 DEF ScanKeep, TypeOK
    <3>2. job[t] = "empty" => IsEmpty(cand[t])'
      BY <3>1 DEF Preferred, IsEmpty
    <3>3. (Allocating(t) => left[t] > 0)'
      BY <1>0, <3>1 DEF BegunOf, Allocating
    <3> QED BY <2>1, <3>1, <3>2, <3>3 DEF BegunOf, Searching
  <2>4. CASE ScanFinish(t)
    <3>1. left[t] > 0
      BY <1>0, <2>4 DEF ScanFinish, Searching, BegunOf, Allocating
    <3>2. \/ pc'[t] = "putactive" /\ left'[t] = left[t]
          \/ pc'[t] \in {"ready", "nofile"}
      BY <2>4 DEF ScanFinish, Fail, Goto, TypeOK
    <3>3. Allocating(t)' => left'[t] > 0
      BY <3>1, <3>2 DEF Allocating
    <3> QED BY <2>1, <3>2, <3>3, BegunIdle
  <2>5. CASE ScanReset(t)
    <3>1. \/ pc'[t] \in {"putactive", "scan"} /\ job'[t] = "reset"
          \/ pc'[t] \in {"ready", "nofile"}
      BY <2>5 DEF ScanReset, Searching, AfterReset, Fail, Goto, TypeOK
    <3>2. ~Allocating(t)'
      BY <3>1 DEF Allocating
    <3> QED BY <2>1, <3>1, <3>2 DEF BegunOf, Searching
  <2> QED BY <1>1, <2>2, <2>3, <2>4, <2>5 DEF Search
<1>2. CASE Allocate(t)
  <2>1. CASE SetActiveZone(t) /\ (BestMatchDone(t) \/ TryActiveToken(t) \/ EmptyZoneDone(t))
    <3>1. left[t] > 0
      BY <1>0, <2>1 DEF BestMatchDone, TryActiveToken, EmptyZoneDone, SearchEnded,
         Searching, BegunOf, Allocating
    <3> QED BY <2>1, <3>1, BegunActive
  <2>2. CASE AllocateIOZone(t)
    <3>1. left[t] > 0 /\ act'[t] = NoZone
      BY <1>0, <2>2 DEF AllocateIOZone, BegunOf, Allocating
    <3>2. \/ pc'[t] \in {"ready", "nofile"}
          \/ pc'[t] = "token" /\ left'[t] = left[t]
          \/ pc'[t] = "scan" /\ job'[t] = "threshold" /\ left'[t] = left[t]
      BY <2>2 DEF AllocateIOZone, Fail, StartSearch, Goto, TypeOK
    <3>3. Allocating(t)' => left'[t] > 0
      BY <3>1, <3>2 DEF Allocating
    <3> QED BY <3>1, <3>2, <3>3 DEF BegunOf, Searching
  <2>3. CASE ThresholdDone(t)
    <3>1. left[t] > 0 /\ act'[t] = NoZone /\ left' = left /\ pc'[t] = "token"
      BY <1>0, <2>3 DEF ThresholdDone, SearchEnded, Searching, BegunOf, Allocating, Goto,
         TypeOK
    <3> QED BY <3>1, BegunIdle
  <2>4. CASE WaitForOpenIOZoneToken(t)
    <3>1. left[t] > 0 /\ act'[t] = NoZone /\ left' = left
      BY <1>0, <2>4 DEF WaitForOpenIOZoneToken, BegunOf, Allocating
    <3>2. \/ pc'[t] = "scan" /\ job'[t] = "best" /\ diff'[t] = NotGood
          \/ pc'[t] = "asleep"
      BY <2>4 DEF WaitForOpenIOZoneToken, StartSearch, Goto, TypeOK
    <3> QED BY <3>1, <3>2 DEF BegunOf, Searching
  <2>5. CASE ~SetActiveZone(t) /\ (BestMatchDone(t) \/ TryActiveToken(t))
    <3>1. left[t] > 0 /\ act'[t] = NoZone /\ left' = left /\ pc'[t] \in {"active", "drop"}
      BY <1>0, <2>5 DEF BestMatchDone, TryActiveToken, SearchEnded, Searching, BegunOf,
         Allocating, Goto, TypeOK
    <3> QED BY <3>1, BegunIdle
  <2>6. CASE DropCandidate(t)
    <3>1. /\ left[t] > 0 /\ act'[t] = NoZone /\ left' = left /\ cand'[t] = NoZone
          /\ pc'[t] = "spin" \/ (pc'[t] = "scan" /\ job'[t] = "empty")
      BY <1>0, <2>6 DEF DropCandidate, BegunOf, Allocating, Goto, TypeOK
    <3> QED BY <3>1 DEF BegunOf, Searching
  <2>7. CASE SpinForActiveToken(t)
    <3>1. /\ left[t] > 0 /\ act'[t] = NoZone /\ left' = left /\ cand'[t] = NoZone
          /\ pc'[t] = "scan" /\ job'[t] \in {"empty", "cheapest"}
      BY <1>0, <2>7 DEF SpinForActiveToken, StartSearch, BegunOf, Allocating, CourseOf,
         Searching, TypeOK
    <3> QED BY <3>1 DEF BegunOf, Searching
  <2>8. CASE CheapestDone(t)
    <3>1. /\ left[t] > 0 /\ act'[t] = NoZone /\ left' = left
          /\ pc'[t] \in {"spin", "finish"}
      BY <1>0, <2>8 DEF CheapestDone, SearchEnded, Searching, BegunOf, Allocating, Goto,
         TypeOK
    <3> QED BY <3>1, BegunIdle
  <2>9. CASE FinishVictim(t)
    <3>1. left[t] > 0 /\ act'[t] = NoZone
      BY <1>0, <2>9 DEF FinishVictim, BegunOf, Allocating
    <3>2. \/ pc'[t] = "putactive" /\ left'[t] = left[t]
          \/ pc'[t] = "putopen" /\ job'[t] = "fail"
      BY <2>9 DEF FinishVictim, Goto, TypeOK
    <3>3. Allocating(t)' => left'[t] > 0
      BY <3>1, <3>2 DEF Allocating
    <3> QED BY <3>1, <3>2, <3>3, BegunIdle
  <2>10. CASE ~SetActiveZone(t) /\ EmptyZoneDone(t)
    <3>1. left[t] > 0 /\ act'[t] = NoZone /\ left' = left /\ pc'[t] = "putactive"
      BY <1>0, <2>10 DEF EmptyZoneDone, SearchEnded, Searching, BegunOf, Allocating, Goto,
         TypeOK
    <3> QED BY <3>1, BegunIdle
  <2>11. CASE PutOpenIOZoneToken(t)
    <3>1. act'[t] = NoZone /\ left' = left /\ (job[t] = "roll" => left[t] > 0)
      BY <1>0, <2>11 DEF PutOpenIOZoneToken, BegunOf, Allocating
    <3>2. \/ pc'[t] = "putactive" /\ job'[t] = job[t] /\ job[t] \in {"roll", "shutfull"}
          \/ pc'[t] \in {"closed", "ready"}
      BY <2>11 DEF PutOpenIOZoneToken, NotifyAndGoto, Goto, Asleep, TypeOK
    <3>3. Allocating(t)' => left'[t] > 0
      BY <3>1, <3>2 DEF Allocating
    <3> QED BY <3>1, <3>2, <3>3, BegunIdle
  <2>12. CASE PutActiveIOZoneToken(t)
    <3>1. /\ act'[t] = NoZone /\ pc[t] = "putactive"
          /\ job[t] \in {"threshold", "cheapest", "roll"} => left[t] > 0
      BY <1>0, <2>12 DEF PutActiveIOZoneToken, BegunOf, Allocating
    <3>2. /\ job[t] # "empty" => left'[t] = left[t]
          /\ \/ /\ pc'[t] = "scan" /\ job'[t] = job[t]
                /\ job[t] \in {"threshold", "reset"}
             \/ pc'[t] = "spin" /\ job[t] = "cheapest"
             \/ pc'[t] = "putopen" /\ job'[t] = "fail"
             \/ pc'[t] = "alloc" /\ job[t] = "roll"
             \/ pc'[t] = "closed"
      BY <2>12 DEF PutActiveIOZoneToken, NotifyAndGoto, Goto, Asleep, TypeOK
    <3>3. Allocating(t)' => left'[t] > 0
      BY <3>1, <3>2 DEF Allocating
    <3> QED BY <3>1, <3>2, <3>3 DEF BegunOf, Searching
  <2> QED BY <1>2, <2>1, <2>2, <2>3, <2>4, <2>5, <2>6, <2>7, <2>8, <2>9, <2>10, <2>11,
             <2>12 DEF Allocate
<1>3. CASE Write(t)
  <2>1. CASE AppendNeedsZone(t)
    <3>1. left[t] > 0 /\ act'[t] = NoZone /\ left' = left /\ pc'[t] = "alloc"
      BY <1>0, <2>1 DEF AppendNeedsZone, BegunOf, Allocating, Goto, TypeOK
    <3> QED BY <3>1, BegunIdle
  <2>2. CASE AppendReturns(t)
    <3>1. /\ act[t] # NoZone /\ left[t] = 0 /\ pc[t] = "append" /\ pc'[t] = "ready"
          /\ UNCHANGED <<act, wp>>
      BY <2>2 DEF AppendReturns, Goto, TypeOK
    <3>2. wp'[act'[t]] > 0
      BY <1>0, <3>1 DEF BegunOf
    <3> QED BY <3>1, <3>2 DEF BegunOf, Searching, Allocating
  <2>3. CASE AppendLeavesFullZone(t)
    <3>1. /\ act[t] # NoZone /\ left'[t] > 0 /\ pc'[t] = "close" /\ job'[t] = "roll"
      BY <2>3 DEF AppendLeavesFullZone, Goto, TypeOK
    <3> QED BY <3>1 DEF BegunOf, Searching, Allocating
  <2>4. CASE AppendWrites(t)
    <3>1. /\ act[t] \in Zone /\ act[t] # NoZone /\ left[t] > 0 /\ t \notin Buffered
          /\ capacity[act[t]] # 0 /\ UNCHANGED <<act, pc>> /\ pc[t] = "append"
          /\ wp'[act[t]] = wp[act[t]] + WriteSize(t)
      BY <2>4 DEF AppendWrites, Benign, IsFull, TypeOK
    <3>2. left[t] \in Nat /\ capacity[act[t]] \in Nat /\ wp[act[t]] \in Nat
      BY <3>1, DeviceAssumption DEF TypeOK
    <3>3. wp'[act'[t]] > 0
      BY <3>1, <3>2 DEF WriteSize
    <3> QED BY <3>1, <3>3 DEF BegunOf, Searching, Allocating
  <2>5. CASE AppendFails(t)
    BY <2>5 DEF AppendFails, Benign
  <2> QED BY <1>3, <2>1, <2>2, <2>3, <2>4, <2>5 DEF Write
<1>4. CASE Reclaim(t)
  <2>1. CASE ClearExtent(t)
    <3>1. UNCHANGED <<pc, job, cand, diff, wp, act, left>>
      BY <2>1 DEF ClearExtent
    <3> QED BY <1>0, <3>1 DEF BegunOf, Allocating, Searching, IsEmpty
  <2>2. CASE ResetUnusedIOZones(t) \/ ResetDone(t)
    <3>1. act'[t] = NoZone
      BY <1>0, <2>2 DEF ResetUnusedIOZones, ResetDone, SearchEnded, Searching
    <3>2. pc'[t] = "nofile" \/ (pc'[t] = "scan" /\ job'[t] = "reset")
      BY <2>2 DEF ResetUnusedIOZones, ResetDone, StartSearch, Goto, TypeOK
    <3> QED BY <3>1, <3>2 DEF BegunOf, Searching, Allocating
  <2> QED BY <1>4, <2>1, <2>2 DEF Reclaim
<1>5. CASE Close(t)
  <2>1. CASE CloseFile(t)
    <3>1. pc[t] = "ready" /\ UNCHANGED <<act, wp>> /\ (act[t] # NoZone => wp'[act'[t]] > 0)
      BY <1>0, <2>1 DEF CloseFile, BegunOf
    <3>2. pc'[t] = "closed" \/ (pc'[t] = "close" /\ job'[t] = "shut")
      BY <2>1 DEF CloseFile, Goto, TypeOK
    <3> QED BY <3>1, <3>2 DEF BegunOf, Searching, Allocating
  <2>2. CASE CloseActiveZone(t)
    <3>1. /\ pc[t] = "close" /\ act'[t] = NoZone /\ pc'[t] = "putopen" /\ left' = left
          /\ job'[t] = "roll" => job[t] = "roll"
      BY <2>2 DEF CloseActiveZone, Benign, Goto, TypeOK
    <3>2. Allocating(t)' => left'[t] > 0
      BY <1>0, <3>1 DEF BegunOf, Allocating
    <3> QED BY <3>1, <3>2, BegunIdle
  <2>3. CASE SetZoneDeferredStatus(t)
    <3>1. act'[t] = NoZone /\ pc'[t] = "closed"
      BY <1>0, <2>3 DEF SetZoneDeferredStatus, Goto, TypeOK
    <3> QED BY <3>1, BegunIdle DEF Allocating
  <2> QED BY <1>5, <2>1, <2>2, <2>3 DEF Close
<1>6. CASE Call(t)
  <2>1. CASE Append(t)
    <3>1. pc'[t] = "append" /\ left'[t] > 0
      BY <2>1 DEF Append, Goto, TypeOK
    <3> QED BY <3>1 DEF BegunOf, Searching
  <2>2. CASE Fsync(t)
    <3>1. UNCHANGED <<pc, job, cand, diff, wp, act, left>>
      BY <2>2 DEF Fsync
    <3> QED BY <1>0, <3>1 DEF BegunOf, Allocating, Searching, IsEmpty
  <2>3. CASE OpenWritableFile(t) \/ ReopenWritableFile(t) \/ DeleteFile(t)
    <3>1. act'[t] = NoZone /\ pc'[t] \in {"ready", "clear"}
      BY <1>0, <2>3 DEF OpenWritableFile, ReopenWritableFile, DeleteFile, Goto, TypeOK
    <3> QED BY <3>1, BegunIdle DEF Allocating
  <2> QED BY <1>6, <2>1, <2>2, <2>3 DEF Call
<1> QED BY <1>1, <1>2, <1>3, <1>4, <1>5, <1>6 DEF Step

(* A holder of an open token keeps it until it puts it back.                *)
LEMMA HolderKept ==
  ASSUME Benign, TypeOK, Roles, Course, Begun, NEW t \in Writers, Step(t) \/ Call(t),
         HoldsOpenToken(t), ~PutsToken(t)
  PROVE  HoldsOpenToken(t)'
<1> USE DEF TypeOK, zoneVars, tokenVars, searchVars, fileVars
<1>0. /\ BegunOf(t) /\ CourseOf(t)
      /\ act[t] # NoZone => pc[t] \in {"ready", "append", "close"}
  BY DEF Begun, Course, Roles
<1>1. CASE Search(t)
  <2>1. CASE ScanAcquire(t) \/ ScanKeep(t) \/ ScanPass(t)
    <3>1. UNCHANGED <<pc, job, act>>
      BY <2>1 DEF ScanAcquire, ScanKeep, ScanPass
    <3> QED BY <3>1, HolderUnmoved
  <2>2. CASE ScanFinish(t) \/ ScanReset(t)
    <3>1. pc[t] = "scan" /\ job[t] \in {"threshold", "reset"}
      BY <2>2 DEF ScanFinish, ScanReset, Searching
    <3> QED BY <1>0, <3>1 DEF HoldsOpenToken, Searching
  <2> QED BY <1>1, <2>1, <2>2 DEF Search
<1>2. CASE Allocate(t)
  <2>1. CASE AllocateIOZone(t) \/ ThresholdDone(t) \/ WaitForOpenIOZoneToken(t)
    <3>1. pc[t] \in {"alloc", "token"} \/ (pc[t] = "scan" /\ job[t] = "threshold")
      BY <2>1 DEF AllocateIOZone, ThresholdDone, WaitForOpenIOZoneToken, SearchEnded,
         Searching
    <3> QED BY <1>0, <3>1 DEF HoldsOpenToken, Searching
  <2>2. CASE BestMatchDone(t)
    <3>1. pc[t] = "scan" /\ job[t] = "best"
      BY <2>2 DEF BestMatchDone, SearchEnded, Searching
    <3>2. CASE diff[t] < CouldBeWorse
      <4>1. act'[t] = cand[t]
        BY <2>2, <3>2 DEF BestMatchDone, SetActiveZone
      <4>2. cand[t] # NoZone
        BY <1>0, <3>1, <3>2 DEF BegunOf, Searching, CouldBeWorse, NotGood
      <4> QED BY <4>1, <4>2 DEF HoldsOpenToken
    <3>3. CASE ~(diff[t] < CouldBeWorse)
      BY <2>2, <3>3 DEF BestMatchDone, Goto, HoldsOpenToken
    <3> QED BY <3>2, <3>3
  <2>3. CASE TryActiveToken(t)
    <3>1. (act'[t] = cand[t] /\ cand[t] # NoZone) \/ pc'[t] = "drop"
      BY <2>3 DEF TryActiveToken, SetActiveZone, Goto
    <3> QED BY <3>1 DEF HoldsOpenToken
  <2>4. CASE DropCandidate(t) \/ SpinForActiveToken(t) \/ CheapestDone(t)
    <3>1. \/ pc'[t] \in {"spin", "finish"}
          \/ pc'[t] = "scan" /\ job'[t] \in {"empty", "cheapest"}
      BY <2>4 DEF DropCandidate, SpinForActiveToken, CheapestDone, StartSearch, Goto
    <3> QED BY <3>1 DEF HoldsOpenToken, Searching
  <2>5. CASE FinishVictim(t)
    <3>1. job[t] = "cheapest"
      BY <1>0, <2>5 DEF FinishVictim, CourseOf
    <3>2. pc'[t] = "putopen" \/ (pc'[t] = "putactive" /\ job'[t] = "cheapest")
      BY <2>5, <3>1 DEF FinishVictim, Goto
    <3> QED BY <3>2 DEF HoldsOpenToken
  <2>6. CASE EmptyZoneDone(t)
    <3>1. \/ act'[t] = cand[t] /\ cand[t] # NoZone
          \/ pc'[t] = "putactive" /\ job'[t] = "empty"
      BY <2>6 DEF EmptyZoneDone, SearchEnded, Searching, SetActiveZone, Goto
    <3> QED BY <3>1 DEF HoldsOpenToken
  <2>7. CASE PutActiveIOZoneToken(t)
    <3>1. pc[t] = "putactive" /\ job[t] \in {"cheapest", "empty"}
      BY <1>0, <2>7 DEF PutActiveIOZoneToken, HoldsOpenToken, Searching
    <3>2. pc'[t] \in {"spin", "putopen"}
      BY <2>7, <3>1 DEF PutActiveIOZoneToken, NotifyAndGoto, Goto, Asleep
    <3> QED BY <3>2 DEF HoldsOpenToken
  <2> QED BY <1>2, <2>1, <2>2, <2>3, <2>4, <2>5, <2>6, <2>7 DEF Allocate, PutsToken
<1>3. CASE Write(t) \/ Call(t) \/ CloseFile(t)
  <2>1. pc[t] \in {"append", "nofile", "closed", "ready"} /\ UNCHANGED act
    BY <1>3 DEF Write, AppendNeedsZone, AppendReturns, AppendLeavesFullZone, AppendWrites,
       AppendFails, Call, OpenWritableFile, ReopenWritableFile, Append, Fsync, DeleteFile,
       CloseFile
  <2>2. act[t] # NoZone
    BY <2>1 DEF HoldsOpenToken, Searching
  <2> QED BY <2>1, <2>2 DEF HoldsOpenToken
<1>4. CASE Reclaim(t) \/ SetZoneDeferredStatus(t)
  <2>1. pc[t] \in {"clear", "dtor"} \/ (pc[t] = "scan" /\ job[t] = "reset")
    BY <1>4 DEF Reclaim, ClearExtent, ResetUnusedIOZones, ResetDone, SearchEnded, Searching,
       SetZoneDeferredStatus
  <2> QED BY <1>0, <2>1 DEF HoldsOpenToken, Searching
<1>5. CASE CloseActiveZone(t)
  <2>1. pc'[t] = "putopen"
    BY <1>5 DEF CloseActiveZone, Benign, Goto
  <2> QED BY <2>1 DEF HoldsOpenToken
<1> QED BY <1>1, <1>2, <1>3, <1>4, <1>5 DEF Step, Close

(* open_io_zones_ is exactly the number of holders.                         *)
LEMMA OpenExactStep ==
  ASSUME Benign, TypeOK, Roles, ClosesItsZone, Course, Begun, NEW t \in Writers,
         Step(t) \/ Call(t), Cardinality(OpenHolders) = open
  PROVE  Cardinality(OpenHolders') = open'
<1> DEFINE H == OpenHolders
<1>1. IsFiniteSet(H) /\ Cardinality(H) \in Nat /\ open \in Int
  <2>1. H \subseteq Writers
    BY DEF OpenHolders
  <2> HIDE DEF H
  <2>2. IsFiniteSet(H)
    BY <2>1, WriterAssumption, FS_Subset
  <2> QED BY <2>2, FS_CardinalityType DEF TypeOK
<1>2. ASSUME NEW u \in Writers, u # t PROVE HoldsOpenToken(u)' <=> HoldsOpenToken(u)
  <2>1. CASE pc'[u] = pc[u]
    BY <1>2, <2>1, OthersUnmoved, HolderUnmoved
  <2>2. CASE pc[u] = "asleep" /\ pc'[u] = "token"
    <3>1. act[u] = NoZone /\ act'[u] = act[u]
      BY <1>2, <2>2, OthersUnmoved DEF Roles
    <3> QED BY <2>2, <3>1 DEF HoldsOpenToken, Searching
  <2> QED BY <1>2, <2>1, <2>2, OthersUnmoved
<1>3. CASE TakesToken(t)
  <2>1. pc[t] = "token" /\ pc'[t] = "scan" /\ job'[t] = "best" /\ act[t] = NoZone
    BY <1>3 DEF TakesToken, WaitForOpenIOZoneToken, StartSearch, Roles, TypeOK
  <2>2. HoldsOpenToken(t)' /\ ~HoldsOpenToken(t)
    BY <2>1 DEF HoldsOpenToken, Searching
  <2>3. t \notin H /\ H' = H \cup {t}
    BY <1>2, <2>2 DEF OpenHolders
  <2>4. open' = open + 1
    BY <1>3, OpenStep
  <2> HIDE DEF H
  <2>5. Cardinality(H') = Cardinality(H) + 1
    BY <1>1, <2>3, FS_AddElement
  <2> QED BY <2>4, <2>5 DEF H
<1>4. CASE PutsToken(t)
  <2>1. HoldsOpenToken(t) /\ ~HoldsOpenToken(t)'
    BY <1>4, HolderStep
  <2>2. t \in H /\ H' = H \ {t}
    BY <1>2, <2>1 DEF OpenHolders
  <2>3. open' = open - 1
    BY <1>4, OpenStep DEF TakesToken, PutsToken, WaitForOpenIOZoneToken, PutOpenIOZoneToken
  <2> HIDE DEF H
  <2>4. Cardinality(H') = Cardinality(H) - 1
    BY <1>1, <2>2, FS_RemoveElement
  <2> QED BY <2>3, <2>4 DEF H
<1>5. CASE ~TakesToken(t) /\ ~PutsToken(t)
  <2>1. HoldsOpenToken(t)' <=> HoldsOpenToken(t)
    BY <1>5, HolderStep, HolderKept
  <2>2. H' = H
    BY <1>2, <2>1 DEF OpenHolders
  <2>3. open' = open
    BY <1>5, OpenStep
  <2> QED BY <2>2, <2>3
<1> QED BY <1>3, <1>4, <1>5

(* active_io_zones_ is exactly the number of engaged zones and of threads   *)
(* that carry a token.                                                      *)
LEMMA ActiveExactStep ==
  ASSUME Benign, TypeOK, Roles, ZoneExclusive, ClosesItsZone, Course, Begun,
         NEW t \in Writers, Step(t) \/ Call(t),
         Cardinality(Engaged) + Cardinality(Speakers) = active
  PROVE  Cardinality(Engaged') + Cardinality(Speakers') = active'
<1> DEFINE E == Engaged
           S == Speakers
<1>1. Cardinality(E) + Cardinality(S) = active /\ active \in Int
  BY DEF TypeOK
<1>3. /\ IsFiniteSet(E) /\ Cardinality(E) \in Nat
      /\ IsFiniteSet(S) /\ Cardinality(S) \in Nat
  BY EngagedFinite
<1>4. BegunOf(t) /\ CourseOf(t)
  BY DEF Begun, Course
<1> HIDE DEF E, S
<1>5. CASE Kept(t)
  <2>1. active' = active /\ S' = S
    BY <1>5 DEF Kept, S
  <2>2. E' = E
    <3> SUFFICES ASSUME CloseActiveZone(t), IsEmpty(act[t]) PROVE E' = E
      BY <1>5 DEF Kept, E
    <3>1. act[t] \in Zone /\ pc[t] = "close"
      BY DEF CloseActiveZone, ClosesItsZone, TypeOK
    <3>2. job[t] = "roll"
      BY <1>4, <3>1, ZoneFacts DEF BegunOf, IsEmpty
    <3>3. pc'[t] = "putopen" /\ job'[t] = "roll"
      BY <3>1, <3>2 DEF CloseActiveZone, Benign, Goto, TypeOK
    <3>4. Spoken(t)' /\ ~Spoken(t)
      BY <3>1, <3>3 DEF Spoken
    <3>5. t \in S' /\ t \notin S
      BY <3>4 DEF S, Speakers
    <3> QED BY <2>1, <3>5
  <2> QED BY <1>1, <2>1, <2>2 DEF E, S
<1>6. CASE Takes(t)
  <2>1. active' = active + 1 /\ E' = E /\ t \notin S /\ S' = S \cup {t}
    BY <1>6 DEF Takes, E, S
  <2>2. Cardinality(S') = Cardinality(S) + 1
    BY <1>3, <2>1, FS_AddElement
  <2>3. Cardinality(E') + Cardinality(S') = active'
    BY <1>1, <1>3, <2>1, <2>2
  <2> QED BY <2>3 DEF E, S
<1>7. CASE Puts(t)
  <2>1. active' = active - 1 /\ E' = E /\ t \in S /\ S' = S \ {t}
    BY <1>7 DEF Puts, E, S
  <2>2. Cardinality(S') = Cardinality(S) - 1
    BY <1>3, <2>1, FS_RemoveElement
  <2>3. Cardinality(E') + Cardinality(S') = active'
    BY <1>1, <1>3, <2>1, <2>2
  <2> QED BY <2>3 DEF E, S
<1>8. CASE Frees(t)
  <2>1. active' = active /\ t \notin S /\ S' = S \cup {t}
    BY <1>8 DEF Frees, S
  <2>2. PICK z \in E : E' = E \ {z}
    BY <1>8 DEF Frees, E
  <2>3. Cardinality(S') = Cardinality(S) + 1
    BY <1>3, <2>1, FS_AddElement
  <2>4. Cardinality(E') = Cardinality(E) - 1
    BY <1>3, <2>2, FS_RemoveElement
  <2>5. Cardinality(E') + Cardinality(S') = active'
    BY <1>1, <1>3, <2>1, <2>3, <2>4
  <2> QED BY <2>5 DEF E, S
<1>9. CASE Lends(t)
  <2>1. active' = active /\ t \in S /\ S' = S \ {t} /\ E' = E \cup {cand[t]}
    BY <1>9 DEF Lends, E, S
  <2>2. cand[t] \notin E
    <3>1. cand[t] \in Zone /\ cand[t] # NoZone /\ Searching(t, {"empty"})
      BY <1>9, ZoneFacts DEF Lends, EmptyZoneDone, SearchEnded
    <3>2. ~Partial(cand[t])
      BY <1>4, <3>1 DEF BegunOf, Partial
    <3>3. \A u \in Writers : act[u] # cand[t]
      BY <3>1, ActiveAlone
    <3> QED BY <3>2, <3>3 DEF E, Engaged
  <2>3. Cardinality(S') = Cardinality(S) - 1
    BY <1>3, <2>1, FS_RemoveElement
  <2>4. Cardinality(E') = Cardinality(E) + 1
    BY <1>3, <2>1, <2>2, FS_AddElement
  <2>5. Cardinality(E') + Cardinality(S') = active'
    BY <1>1, <1>3, <2>1, <2>3, <2>4
  <2> QED BY <2>5 DEF E, S
<1> QED BY <1>5, <1>6, <1>7, <1>8, <1>9, TokenStep

(* Both counters are exact in every state of a device whose writes and      *)
(* closes succeed and whose files append directly.                          *)
LEMMA ExactInvariant ==
  ASSUME Benign
  PROVE  Spec => []ExactInv
<1>1. Init => ExactInv
  <2> SUFFICES ASSUME Init PROVE ExactInv
    OBVIOUS
  <2>1. Engaged = {} /\ Speakers = {} /\ OpenHolders = {}
    BY ZoneFacts DEF Init, Engaged, Speakers, Spoken, Partial, IsEmpty, OpenHolders,
       HoldsOpenToken, Searching
  <2>2. Cardinality(Engaged) = 0 /\ Cardinality(Speakers) = 0 /\ Cardinality(OpenHolders) = 0
    BY <2>1, FS_EmptySet
  <2>3. Begun
    BY DEF Init, Begun, BegunOf, Allocating, Searching
  <2> QED BY <2>2, <2>3 DEF Init, ExactInv
<1>2. /\ Typed /\ ZoneExclusive /\ OpenInv /\ LiveInv /\ ActiveInv /\ ExactInv
      /\ [Next]_vars
      => ExactInv'
  <2> SUFFICES ASSUME TypeOK, Roles, ZoneExclusive, ClosesItsZone, Course, ExactInv,
                      [Next]_vars
               PROVE  ExactInv'
    BY DEF Typed, OpenInv, ActiveInv
  <2>1. CASE UNCHANGED vars
    <3>1. /\ Begun' /\ Engaged' = Engaged /\ Speakers' = Speakers /\ active' = active
          /\ OpenHolders' = OpenHolders /\ open' = open
      BY <2>1 DEF vars, zoneVars, tokenVars, searchVars, fileVars, ExactInv, Begun,
         BegunOf, Allocating, Searching, Engaged, Speakers, Spoken, Partial, IsFull,
         IsEmpty, OpenHolders, HoldsOpenToken
    <3> QED BY <3>1 DEF ExactInv
  <2>2. ASSUME NEW t \in Writers, Step(t) \/ Call(t) PROVE ExactInv'
    <3>1. Begun'
      BY <2>2, OwnBegun, OthersBegun DEF Begun, ExactInv
    <3>2. Cardinality(Engaged') + Cardinality(Speakers') = active'
      BY <2>2, ActiveExactStep DEF ExactInv
    <3>3. Cardinality(OpenHolders') = open'
      BY <2>2, OpenExactStep DEF ExactInv
    <3> QED BY <3>1, <3>2, <3>3 DEF ExactInv
  <2> QED BY <2>1, <2>2 DEF Next
<1> QED BY <1>1, <1>2, LiveInvariant, ActiveInvariant, PTL DEF Spec

(* When no file is open and no call is running, CloseActiveZone and the     *)
(* searches have put back every open token, and every active token but one  *)
(* for each partly written zone: no path through AllocateIOZone, an error   *)
(* of a reset, a finish or an offline zone included, loses a token.  It     *)
(* needs files that append directly and writes and closes that succeed; the *)
(* comment on Benign says which token is lost otherwise.                    *)
THEOREM TokensAreReturned ==
  ASSUME Buffered = {}, Faults \cap {"write", "close"} = {}
  PROVE  Spec => []TokensReturned
<1>1. ExactInv /\ Typed => TokensReturned
  <2> SUFFICES ASSUME ExactInv, Roles, \A t \in Writers : pc[t] \in {"nofile", "closed"}
               PROVE  open = 0 /\ active = Cardinality({z \in Zone : Partial(z)})
    BY DEF Typed, TokensReturned
  <2>1. \A t \in Writers : act[t] = NoZone
    BY DEF Roles
  <2>2. OpenHolders = {} /\ Speakers = {}
    BY <2>1 DEF OpenHolders, HoldsOpenToken, Searching, Speakers, Spoken
  <2>3. Engaged = {z \in Zone : Partial(z)}
    BY <2>1, ZoneFacts DEF Engaged
  <2>4. Cardinality(OpenHolders) = 0 /\ Cardinality(Speakers) = 0
    BY <2>2, FS_EmptySet
  <2>5. open = 0 /\ active = Cardinality(Engaged)
    BY <2>4, EngagedFinite DEF ExactInv
  <2> QED BY <2>3, <2>5
<1>2. Benign
  BY DEF Benign
<1>3. Spec => []ExactInv
  BY <1>2, ExactInvariant
<1> QED BY <1>1, <1>3, LiveInvariant, PTL

=============================================================================
