----------------------------- MODULE WearLeveling -----------------------------
(***************************************************************************)
(* When wear leveling runs: the reset counts and the trigger in            *)
(* Zone::Reset, WLWorker with its nap and its wait for a quiet device      *)
(* (JudgeQpsTrend), the destructor that joins it, and the life of the      *)
(* reset counts from one mount to the next (fs/zbd_zenfs.cc,               *)
(* fs/fs_zenfs.cc).  What the worker moves is the subject of Migration.    *)
(*                                                                         *)
(* Zone::Reset holds no lock and is six steps: the two increments, the     *)
(* loads of the counts (together), the judgement with its loads and stores *)
(* (together), the wake-up and the last store.  Standard deviation and     *)
(* ratio are compared by their squares, which are fractions.               *)
(***************************************************************************)
EXTENDS Integers, Sequences, FiniteSets, SequencesExt, Functions

CONSTANTS
  IoZones,      \* io_zones
  NrMetaZones,  \* ZENFS_META_ZONES
  Threads,      \* threads that reset zones and write metadata
  WordSize,     \* uint32_t has this many values
  InitRatio,    \* reset_ratio_threshold_ of a new device
  StdDevNum, StdDevDen, \* 1.5, in WLWorker and in the formula of Zone::Reset
  TriggerLimit, \* wl_trigger_count_ at which the ratio is adapted
  WriteDefault, ReadDefault, \* idle_qps_{write,read}_threshold_ at first
  FailLimit,    \* idle_qps_fail_count_ at which the thresholds are raised
  SuccessLimit, \* idle_qps_successive_count_ at which they are lowered
  DropPercent,  \* how much less than before is a falling load
  WriteLoads, ReadLoads, \* what 100 ms may count
  MetaCap,      \* records of a metadata zone
  InitialWear,  \* how often one io zone was reset before
  MaxResets,    \* bound: resets of io zones, these included
  MaxRolls,     \* bound: rolls of the metadata log
  MaxMounts     \* bound: mounts after the first

NrIOZones == Cardinality(IoZones)
NrZones   == NrIOZones + NrMetaZones

ASSUME WearLevelingAssumption ==
  /\ IsFiniteSet(IoZones) /\ IoZones # {} /\ IsFiniteSet(Threads)
  /\ {NrMetaZones, InitRatio, StdDevNum, StdDevDen, TriggerLimit, WriteDefault, ReadDefault,
      FailLimit, SuccessLimit} \subseteq Nat \ {0}
  /\ {DropPercent, InitialWear, MaxResets, MaxRolls, MaxMounts} \subseteq Nat
  /\ InitialWear <= MaxResets /\ MetaCap \in Nat /\ MetaCap > 2
  /\ WordSize \in Nat /\ WordSize > 100 * (MaxResets + MaxRolls + 2) /\ WordSize > NrZones
  /\ IsFiniteSet(WriteLoads) /\ IsFiniteSet(ReadLoads)
  /\ WriteLoads \subseteq Nat /\ ReadLoads \subseteq Nat /\ 0 \in WriteLoads \cap ReadLoads

VARIABLES
  resets,    \* Zone::reset_count_ of the io zones
  metaResets,\* and of the metadata zones together
  total, check,  \* total_reset_count_, check_reset_count_
  ratio,     \* reset_ratio_threshold_, squared, as a fraction
  triggers,  \* wl_trigger_count_
  qps,       \* the thresholds, window maxima and counts of JudgeQpsTrend
  sleep,     \* wl_worker_sleep_
  at,        \* where WLWorker is
  run,       \* run_wl_worker_
  phase,     \* the life of the ZenFS object: "mount", "up", "join", "closed"
  th,        \* where each thread is in Zone::Reset
  room,      \* records that fit in the metadata zone in use
  saved,     \* the reset count records in it
  worn,      \* how often each io zone was really reset
  lost,      \* whether a crash or an unmount has lost counts
  rolls, mounts

countVars == <<resets, metaResets, total, check, ratio, triggers>>
logVars   == <<room, saved, rolls>>
vars == <<countVars, qps, sleep, at, run, phase, th, logVars, worn, lost, mounts>>

Total(f) == SumFunction(f)
Word(n) == n % WordSize
Idle == [pc |-> "idle", io |-> 0]
Zero == [z \in IoZones |-> 0]
Calm == [wthr |-> WriteDefault, rthr |-> ReadDefault, wmax |-> 0, rmax |-> 0,
         fail |-> 0, succ |-> 0]

(* A device that has been in use, right after a mount and the roll it ends  *)
(* with.                                                                    *)
Init ==
  /\ resets = [Zero EXCEPT ![CHOOSE z \in IoZones : TRUE] = InitialWear]
  /\ metaResets = 1 /\ total = InitialWear + 1 /\ check = 0
  /\ ratio = <<InitRatio * InitRatio, 1>> /\ triggers = 0
  /\ qps = Calm
  /\ sleep = TRUE /\ at = "loop" /\ run = TRUE /\ phase = "up"
  /\ th = [t \in Threads |-> Idle]
  /\ room = MetaCap - 2 /\ saved = <<>>
  /\ worn = resets /\ lost = FALSE /\ rolls = 0 /\ mounts = 0

-----------------------------------------------------------------------------
(* Reset counts                                                             *)

(* GetResetCountStdDev, as the sum of the squares: the variance is that     *)
(* divided by NrIOZones.  The mean is rounded down.                         *)
SquareSum ==
  LET mean == Total(resets) \div NrIOZones IN
  Total([z \in IoZones |-> (resets[z] - mean) * (resets[z] - mean)])

StdDevHigh ==
  SquareSum * StdDevDen * StdDevDen > NrIOZones * StdDevNum * StdDevNum

Reduced(num, den) ==
  IF den = 0 THEN <<1, 0>>   \* division by zero: infinity
  ELSE LET d == Max({k \in 1..den : num % k = 0 /\ den % k = 0})
       IN  <<num \div d, den \div d>>

(* ratio / (1 + (stddev - 1.5) / 1.5), that is ratio * 1.5 / stddev.        *)
AdaptedRatio ==
  Reduced(ratio[1] * NrIOZones * StdDevNum * StdDevNum,
          ratio[2] * SquareSum * StdDevDen * StdDevDen)

(* 100 * diff > io * ratio                                                  *)
ExceedsRatio(diff, io) ==
  Word(100 * diff) * Word(100 * diff) * ratio[2] > io * io * ratio[1]

-----------------------------------------------------------------------------
(* Zone::Reset                                                              *)

(* Zones are reset while the file system is up, and by the migration that   *)
(* the destructor waits for.                                                *)
MayReset == phase = "up" \/ at = "migrate"

Step(t, from, to) == th[t].pc = from /\ th' = [th EXCEPT ![t].pc = to]

(* Mutant: the count goes up before it is known whether the reset worked.   *)
CountsFailedReset(t, z) ==
  /\ MayReset /\ Total(resets) < MaxResets
  /\ Step(t, "idle", "total")
  /\ resets' = [resets EXCEPT ![z] = @ + 1]
  /\ UNCHANGED <<metaResets, total, check, ratio, triggers, qps, sleep, at, run, phase,
                 logVars, worn, lost, mounts>>

ResetZone(t, z) ==
  /\ MayReset /\ Total(worn) < MaxResets
  /\ Step(t, "idle", "total")
  /\ resets' = [resets EXCEPT ![z] = @ + 1]
  /\ worn' = [worn EXCEPT ![z] = @ + 1]
  /\ UNCHANGED <<metaResets, total, check, ratio, triggers, qps, sleep, at, run, phase,
                 logVars, lost, mounts>>

CountTotal(t) ==
  /\ Step(t, "total", "read")
  /\ total' = total + 1
  /\ UNCHANGED <<resets, metaResets, check, ratio, triggers, qps, sleep, at, run, phase,
                 logVars, worn, lost, mounts>>

(* io_zones_reset_count, and the first condition.                           *)
ReadCounts(t) ==
  /\ th[t].pc = "read"
  /\ th' = [th EXCEPT ![t] = IF total > NrZones
                             THEN [pc |-> "judge", io |-> Word(total - metaResets)] ELSE Idle]
  /\ UNCHANGED <<countVars, qps, sleep, at, run, phase, logVars, worn, lost, mounts>>

(* The difference to the last check, which is raised to NrZones, in         *)
(* unsigned arithmetic.                                                     *)
JudgeReset(t) ==
  LET base == Max({check, NrZones})
      diff == Word(th[t].io - base) IN
  /\ th[t].pc = "judge"
  /\ check' = base
  /\ IF ExceedsRatio(diff, th[t].io) /\ diff >= NrZones
     THEN /\ th' = [th EXCEPT ![t].pc = "wake"]
          /\ IF triggers >= TriggerLimit THEN triggers' = 0 /\ ratio' = AdaptedRatio
             ELSE UNCHANGED <<triggers, ratio>>
     ELSE th' = [th EXCEPT ![t] = Idle] /\ UNCHANGED <<triggers, ratio>>
  /\ UNCHANGED <<resets, metaResets, total, qps, sleep, at, run, phase, logVars, worn, lost, mounts>>

(* Under wl_worker_mutex_: whoever waits is notified.                       *)
WakeupWLWorker(t) ==
  /\ Step(t, "wake", "store")
  /\ sleep' = FALSE
  /\ at' = IF at = "wait" THEN "woken" ELSE at
  /\ UNCHANGED <<countVars, qps, run, phase, logVars, worn, lost, mounts>>

SetCheckResetCount(t) ==
  /\ th[t].pc = "store"
  /\ check' = th[t].io
  /\ th' = [th EXCEPT ![t] = Idle]
  /\ UNCHANGED <<resets, metaResets, total, ratio, triggers, qps, sleep, at, run, phase,
                 logVars, worn, lost, mounts>>

-----------------------------------------------------------------------------
(* JudgeQpsTrend                                                            *)

Larger(m, a, b) == Max({m, a, b})
(* Mutant: rounded up.                                                      *)
RaisedRoundedUp(thr, max) == IF max > thr THEN (thr + max + 1) \div 2 ELSE thr
Raised(thr, max) == IF max > thr THEN (thr + max) \div 2 ELSE thr

(* Mutant: the failures are not forgotten.                                  *)
AdaptKeepsFailures(q, w1, w2, r1, r2) ==
  [q EXCEPT !.wmax = Larger(@, w1, w2), !.rmax = Larger(@, r1, r2),
            !.wthr = IF q.fail < FailLimit THEN @ ELSE Raised(@, Larger(q.wmax, w1, w2))]

(* The thresholds after the samples: raised towards the largest load after  *)
(* several failures, back at their defaults after several successes.        *)
AdaptThresholds(q, w1, w2, r1, r2) ==
  LET seen   == [q EXCEPT !.wmax = Larger(@, w1, w2), !.rmax = Larger(@, r1, r2)]
      raised == IF q.fail < FailLimit THEN seen
                ELSE [seen EXCEPT !.wthr = Raised(@, seen.wmax), !.rthr = Raised(@, seen.rmax),
                                  !.wmax = 0, !.rmax = 0, !.fail = 0]
  IN  IF /\ raised.wthr # WriteDefault \/ raised.rthr # ReadDefault
         /\ raised.succ >= SuccessLimit
      THEN [raised EXCEPT !.wthr = WriteDefault, !.rthr = ReadDefault, !.succ = 0]
      ELSE raised

Falls(a, b, thr) == a >= b /\ 100 * (a - b) > thr * DropPercent

(* Both loads low, or one low and the other falling.                        *)
IdleTrend(q, w1, w2, r1, r2) ==
  LET quietWrites == w1 < q.wthr /\ w2 < q.wthr
      quietReads  == r1 < q.rthr /\ r2 < q.rthr IN
  \/ quietWrites /\ (quietReads \/ Falls(r1, r2, q.rthr))
  \/ ~quietWrites /\ quietReads /\ Falls(w1, w2, q.wthr)

(* What the two samples may be: nobody reads or writes while the file       *)
(* system is being destroyed.                                               *)
Samples(loads) == IF phase = "up" THEN loads ELSE {0}

AtMost(n, limit) == IF n > limit THEN limit ELSE n

-----------------------------------------------------------------------------
(* WLWorker                                                                 *)

Worker(from) ==
  /\ at = from
  /\ UNCHANGED <<resets, metaResets, total, check, ratio, run, phase, th, logVars, worn, lost, mounts>>

(* Mutant: a loop without a condition.                                      *)
LoopForever ==
  /\ Worker("loop")
  /\ at' = IF sleep THEN "lock" ELSE "clear"
  /\ UNCHANGED <<triggers, qps, sleep>>

(* The loop condition, then IsWLSleep without the lock.                     *)
Loop ==
  /\ Worker("loop")
  /\ at' = IF ~run THEN "done" ELSE IF sleep THEN "lock" ELSE "clear"
  /\ UNCHANGED <<triggers, qps, sleep>>

Wait == Worker("lock") /\ at' = "wait" /\ UNCHANGED <<triggers, qps, sleep>>

(* Mutant: wait, and nobody to rely on but the notification.                *)
NoTimeout == FALSE

(* wait_for returns after 60 seconds, whether or not somebody notified.     *)
Timeout == Worker("wait") /\ at' = "woken" /\ UNCHANGED <<triggers, qps, sleep>>

Woken ==
  /\ Worker("woken")
  /\ at' = IF sleep THEN "loop" ELSE "clear"
  /\ UNCHANGED <<triggers, qps, sleep>>

Clear == Worker("clear") /\ sleep' = TRUE /\ at' = "eval" /\ UNCHANGED <<triggers, qps>>

Evaluate ==
  /\ Worker("eval")
  /\ IF StdDevHigh THEN at' = "judge1" /\ UNCHANGED triggers
     ELSE at' = "loop" /\ triggers' = 0
  /\ UNCHANGED <<qps, sleep>>

(* The loop that looks for a quiet device: the first call of JudgeQpsTrend  *)
(* counts a failure, the second one a success; if only the first call finds *)
(* the device quiet the loop goes on.  A count past its limit acts as the   *)
(* limit does, so it stops there.                                           *)
Judge ==
  /\ at \in {"judge1", "judge2"} /\ Worker(at)
  /\ \E w1, w2 \in Samples(WriteLoads), r1, r2 \in Samples(ReadLoads) :
       LET q    == AdaptThresholds(qps, w1, w2, r1, r2)
           idle == IdleTrend(q, w1, w2, r1, r2) IN
       IF at = "judge2" /\ idle
       THEN /\ at' = "migrate"
            /\ qps' = [q EXCEPT !.succ = AtMost(@ + 1, SuccessLimit), !.fail = 0]
            /\ triggers' = AtMost(triggers + 1, TriggerLimit)
       ELSE /\ at' = IF idle THEN "judge2" ELSE "judge1"
            /\ qps' = IF idle \/ at = "judge2" THEN q
                      ELSE [q EXCEPT !.fail = @ + 1, !.succ = 0]
            /\ UNCHANGED triggers
  /\ UNCHANGED sleep

(* WLMigrateExtents, with the resets of ResetUnusedIOZones by ResetZone; it *)
(* ends when they have returned.                                            *)
Migrated ==
  /\ Worker("migrate") /\ \A t \in Threads : phase = "up" \/ th[t] = Idle
  /\ at' = "loop"
  /\ UNCHANGED <<triggers, qps, sleep>>

-----------------------------------------------------------------------------
(* The metadata log, unmount and mount                                      *)

(* RollMetaZoneLocked: superblock and snapshot in a fresh zone; the old one *)
(* is reset, with everything in it, by the same Zone::Reset.                *)
RollMetaZone(t) ==
  /\ rolls' = rolls + 1
  /\ room' = MetaCap - 2 /\ saved' = <<>>
  /\ metaResets' = metaResets + 1
  /\ Step(t, "idle", "total")

(* A record of another kind.                                                *)
PersistRecord(t) ==
  /\ phase = "up" /\ th[t] = Idle
  /\ IF room > 0 THEN room' = room - 1 /\ UNCHANGED <<saved, rolls, metaResets, th>>
     ELSE rolls < MaxRolls /\ RollMetaZone(t)
  /\ UNCHANGED <<resets, total, check, ratio, triggers, qps, sleep, at, run, phase, worn, lost, mounts>>

(* ~ZenFS: the worker is told to stop and joined,                           *)
Shutdown ==
  /\ phase = "up" /\ \A t \in Threads : th[t] = Idle
  /\ phase' = "join" /\ run' = FALSE
  /\ UNCHANGED <<countVars, qps, sleep, at, th, logVars, worn, lost, mounts>>

(* then the reset counts are persisted; a roll takes the record's place.    *)
PersistResetCounts(t) ==
  /\ phase = "join" /\ at = "done" /\ phase' = "closed"
  /\ lost' = (lost \/ room = 0)
  /\ IF room > 0
     THEN room' = room - 1 /\ saved' = Append(saved, resets) /\ UNCHANGED <<rolls, metaResets, th>>
     ELSE RollMetaZone(t)
  /\ UNCHANGED <<resets, total, check, ratio, triggers, qps, sleep, at, run, worn, mounts>>

(* Mutant: no SetTotalResetCount.                                           *)
NewWithoutTotal(counts) ==
  /\ resets' = counts /\ metaResets' = 0 /\ total' = 0 /\ check' = 0
  /\ ratio' = <<InitRatio * InitRatio, 1>> /\ triggers' = 0 /\ qps' = Calm
  /\ sleep' = TRUE
(* The members of new ZonedBlockDevice and ZenFS objects, with these reset  *)
(* counts and SetTotalResetCount.                                           *)
New(counts) ==
  /\ resets' = counts /\ metaResets' = 0 /\ total' = Total(counts) /\ check' = 0
  /\ ratio' = <<InitRatio * InitRatio, 1>> /\ triggers' = 0 /\ qps' = Calm
  /\ sleep' = TRUE

(* The process dies, and with it the counts that no record has: all of them *)
(* once the mount has rolled the log.                                       *)
Crash ==
  /\ phase # "closed" /\ phase' = "closed"
  /\ th' = [t \in Threads |-> Idle]
  /\ at' = "done"
  /\ New(Zero) /\ lost' = (lost \/ phase # "mount")
  /\ UNCHANGED <<run, logVars, worn, mounts>>

(* DecodeIOZoneResetCountFrom, for every such record in turn.               *)
DecodeIOZoneResetCountFrom(counts, record) == record
Decoded == FoldLeft(DecodeIOZoneResetCountFrom, Zero, saved)

(* The constructor starts the worker; Mount then recovers from the log      *)
Mount ==
  /\ phase = "closed" /\ mounts < MaxMounts /\ \A t \in Threads : th[t] = Idle
  /\ mounts' = mounts + 1
  /\ New(Decoded)
  /\ at' = "loop" /\ run' = TRUE /\ phase' = "mount"
  /\ UNCHANGED <<th, logVars, worn, lost>>

(* and rolls it, which leaves no record of the counts.                      *)
MountRolls(t) ==
  /\ phase = "mount" /\ phase' = "up"
  /\ RollMetaZone(t)
  /\ UNCHANGED <<resets, total, check, ratio, triggers, qps, sleep, at, run, worn, lost, mounts>>

-----------------------------------------------------------------------------

(* What is left of a Zone::Reset that has begun.                            *)
RestOfReset(t) ==
  CountTotal(t) \/ ReadCounts(t) \/ JudgeReset(t) \/ WakeupWLWorker(t) \/ SetCheckResetCount(t)

WLWorker == Loop \/ Wait \/ Timeout \/ Woken \/ Clear \/ Evaluate \/ Judge \/ Migrated

Next ==
  \/ \E t \in Threads : \/ \E z \in IoZones : ResetZone(t, z)
                        \/ RestOfReset(t) \/ PersistRecord(t) \/ PersistResetCounts(t)
                        \/ MountRolls(t)
  \/ WLWorker
  \/ Shutdown \/ Crash \/ Mount

(* The scheduler runs somebody who has begun something, and the nap ends    *)
(* after 60 seconds.  That is enough, since a Zone::Reset has an end.       *)
(* Nothing is assumed of the load, nor that anybody resets or unmounts.     *)
Fairness == WF_vars(WLWorker \/ \E t \in Threads : RestOfReset(t) \/ PersistResetCounts(t))

Spec == Init /\ [][Next]_vars /\ Fairness

-----------------------------------------------------------------------------
(* Properties                                                               *)

(* The variables keep their types; the counters stay within their bounds.   *)
TypeOK ==
  /\ resets \in [IoZones -> 0..MaxResets] /\ worn \in [IoZones -> 0..MaxResets]
  /\ {metaResets, total, check} \subseteq 0..(WordSize - 1)
  /\ ratio[1] \in Nat \ {0} /\ ratio[2] \in Nat
  /\ triggers \in 0..TriggerLimit
  /\ qps.fail \in 0..FailLimit /\ qps.succ \in 0..SuccessLimit
  /\ sleep \in BOOLEAN /\ run \in BOOLEAN
  /\ phase \in {"mount", "up", "join", "closed"}
  /\ at \in {"loop", "lock", "wait", "woken", "clear", "eval", "judge1", "judge2", "migrate",
            "done"}

(* total_reset_count_ is the sum of the zones' counts but for the resets    *)
(* that have counted their zone and not yet the total, however resets of    *)
(* several threads interleave and whatever was restored at mount: the       *)
(* trigger subtracts one from the other.                                    *)
TotalAgrees ==
  phase # "closed" =>
    total + Cardinality({t \in Threads : th[t].pc = "total"}) = Total(resets) + metaResets

(* The counts in use, or the ones the next mount will find in the log, are  *)
(* the real wear until a crash of a mounted file system, or an unmount that *)
(* finds the metadata zone full, loses them; later on they are never more.  *)
CountsTrue ==
  LET counts == IF phase = "closed" THEN Decoded ELSE resets IN
  IF lost THEN \A z \in IoZones : counts[z] <= worn[z] ELSE counts = worn

(* The adaptive thresholds stay below the largest load there is: a device   *)
(* whose load stays at its peak is not taken for idle, however long the     *)
(* worker has been waiting and raising them.                                *)
PeakIsNotIdle ==
  /\ qps.wthr \in WriteDefault..Max({WriteDefault, Max(WriteLoads) - 1})
  /\ qps.rthr \in ReadDefault..Max({ReadDefault, Max(ReadLoads) - 1})

(* A wake-up is served, though WakeupWLWorker may notify before the worker  *)
(* waits and the worker clears the flag without the lock: an evaluation of  *)
(* the standard deviation, or one already made whose migration is due,      *)
(* follows unless the file system goes down.                                *)
WakeupServed ==
  ~sleep ~> (at \in {"eval", "judge1", "judge2"} \/ phase # "up")

(* ~ZenFS returns: the worker notices that it has to stop wherever it is,   *)
(* in its nap, waiting for a quiet device or migrating.                     *)
ShutdownEnds == phase = "join" ~> phase = "closed"
=============================================================================
