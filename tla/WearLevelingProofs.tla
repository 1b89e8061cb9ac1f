-------------------------- MODULE WearLevelingProofs --------------------------
(***************************************************************************)
(* Proofs about WearLeveling, for any number of zones, threads and mounts: *)
(* the total of the reset counts, the counts across mounts, the bounds of  *)
(* the counters and the thresholds of JudgeQpsTrend.                       *)
(***************************************************************************)
EXTENDS WearLeveling, FoldProofs

Pcs == {"idle", "total", "read", "judge", "wake", "store"}
Places == {"loop", "lock", "wait", "woken", "clear", "eval", "judge1", "judge2", "migrate", "done"}
Counting == {t \in Threads : th[t].pc = "total"}

(* The parts of the inductive invariant.                                    *)
Types ==
  /\ resets \in [IoZones -> Nat] /\ worn \in [IoZones -> Nat]
  /\ metaResets \in Nat /\ total \in Nat /\ check \in Nat
  /\ ratio \in (Nat \ {0}) \X Nat
  /\ triggers \in 0..TriggerLimit
  /\ sleep \in BOOLEAN /\ run \in BOOLEAN /\ lost \in BOOLEAN
  /\ at \in Places /\ phase \in {"mount", "up", "join", "closed"}
  /\ th \in [Threads -> [pc : Pcs, io : Nat]]
  /\ rolls \in Nat /\ room \in Nat

(* The loads and thresholds of JudgeQpsTrend.                               *)
Qps == [wthr : Nat, rthr : Nat, wmax : Nat, rmax : Nat,
        fail : 0..FailLimit, succ : 0..SuccessLimit]
LoadsOK(q) ==
  /\ q \in Qps
  /\ q.wmax <= Max(WriteLoads) /\ q.rmax <= Max(ReadLoads)
  /\ q.wthr \in WriteDefault..Max({WriteDefault, Max(WriteLoads) - 1})
  /\ q.rthr \in ReadDefault..Max({ReadDefault, Max(ReadLoads) - 1})
Loads == LoadsOK(qps)

(* The total, in every phase.                                               *)
Sum == total + Cardinality(Counting) = Total(resets) + metaResets

(* How large the counters get.                                              *)
Rolled ==
  /\ metaResets <= rolls + 1
  /\ metaResets <= MaxRolls + (IF phase = "closed" THEN 2 ELSE 1)
  /\ phase = "mount" => metaResets = 0
Words == check < WordSize /\ \A t \in Threads : th[t].io < WordSize
Bounds == Total(resets) <= Total(worn) /\ Total(worn) <= MaxResets /\ Rolled /\ Words

(* At most one record of the counts is in the log, and none while the file  *)
(* system is up.                                                            *)
Log ==
  /\ saved = <<>> \/ \E r \in [IoZones -> Nat] : saved = <<r>> /\ Total(r) <= Total(worn)
  /\ phase \in {"up", "join"} => saved = <<>>

(* Who may act in each phase: no zone is reset before the mount has rolled  *)
(* the log, nor after the worker has been joined.                           *)
Lives ==
  /\ phase = "mount" => /\ resets = Decoded /\ sleep
                        /\ at \in {"loop", "lock", "wait", "woken", "done"}
                        /\ \A t \in Threads : th[t] = Idle
  /\ phase = "closed" => at = "done"

WearInv == Types /\ Loads /\ Sum /\ Bounds /\ Log /\ Lives /\ CountsTrue

-----------------------------------------------------------------------------
(* Operators                                                                *)

(* The constants, one fact at a time.                                       *)
LEMMA Constants ==
  /\ IsFiniteSet(IoZones) /\ IoZones # {} /\ IsFiniteSet(Threads)
  /\ NrMetaZones \in Nat /\ NrMetaZones > 0 /\ InitRatio \in Nat /\ InitRatio > 0
  /\ StdDevNum \in Nat /\ StdDevNum > 0 /\ StdDevDen \in Nat /\ StdDevDen > 0
  /\ TriggerLimit \in Nat /\ TriggerLimit > 0
  /\ WriteDefault \in Nat /\ WriteDefault > 0 /\ ReadDefault \in Nat /\ ReadDefault > 0
  /\ FailLimit \in Nat /\ FailLimit > 0 /\ SuccessLimit \in Nat /\ SuccessLimit > 0
  /\ InitialWear \in Nat /\ MaxResets \in Nat /\ MaxRolls \in Nat
  /\ InitialWear <= MaxResets
  /\ WordSize \in Nat /\ WordSize > MaxResets + MaxRolls + 2
  /\ NrIOZones \in Nat /\ NrIOZones > 0 /\ NrZones \in Nat /\ WordSize > NrZones
<1>1. NrIOZones \in Nat /\ NrIOZones > 0
  <2>1. IsFiniteSet(IoZones) /\ IoZones # {}
    BY WearLevelingAssumption
  <2>2. Cardinality(IoZones) \in Nat /\ Cardinality(IoZones) # 0
    BY <2>1, FS_CardinalityType, FS_EmptySet
  <2> QED BY <2>2 DEF NrIOZones
<1>2. NrMetaZones \in Nat /\ NrMetaZones > 0
  BY WearLevelingAssumption
<1>3. NrZones \in Nat
  BY <1>1, <1>2 DEF NrZones
<1>4. /\ MaxResets \in Nat /\ MaxRolls \in Nat /\ WordSize \in Nat
      /\ WordSize > 100 * (MaxResets + MaxRolls + 2)
  BY WearLevelingAssumption
<1>5. WordSize > MaxResets + MaxRolls + 2
  BY <1>4
<1> QED BY <1>1, <1>2, <1>3, <1>4, <1>5, WearLevelingAssumption

(* Sums of counts.                                                          *)
LEMMA TotalNat ==
  ASSUME NEW f \in [IoZones -> Nat]
  PROVE  Total(f) \in Nat /\ \A z \in IoZones : f[z] <= Total(f)
<1>1. DOMAIN f = IoZones /\ \A z \in IoZones : f[z] \in Nat
  OBVIOUS
<1>2. /\ SumFunctionOnSet(f, IoZones) \in Nat
      /\ \A z \in IoZones : f[z] <= SumFunctionOnSet(f, IoZones)
  BY <1>1, Constants, SumNat
<1> QED BY <1>1, <1>2 DEF Total, SumFunction

(* One more reset of a zone is one more in the total.                       *)
LEMMA TotalBump ==
  ASSUME NEW f \in [IoZones -> Nat], NEW z \in IoZones
  PROVE  Total([f EXCEPT ![z] = @ + 1]) = Total(f) + 1
<1>1. PICK h : h = [f EXCEPT ![z] = @ + 1]
  OBVIOUS
<1>2. /\ h \in [IoZones -> Int] /\ f \in [IoZones -> Int] /\ f[z] \in Nat /\ h[z] = f[z] + 1
      /\ DOMAIN h = IoZones /\ DOMAIN f = IoZones /\ \A x \in IoZones : x # z => h[x] = f[x]
  BY <1>1
<1>3. SumFunctionOnSet(h, IoZones) = SumFunctionOnSet(f, IoZones) - f[z] + h[z]
  <2>1. IsFiniteSet(IoZones)
    BY Constants
  <2> QED BY <1>2, <2>1, SumUpdate
<1>4. Total(f) \in Nat
  BY TotalNat
<1>5. Total(h) = Total(f) + 1
  BY <1>2, <1>3, <1>4 DEF Total, SumFunction
<1> QED BY <1>1, <1>5

(* Without a record every count is zero, and so is the total.               *)
LEMMA ZeroFacts ==
  Zero \in [IoZones -> Nat] /\ Total(Zero) = 0
<1>1. Zero \in [IoZones -> Nat] /\ DOMAIN Zero = IoZones /\ \A z \in IoZones : Zero[z] = 0
  BY DEF Zero
<1>2. SumFunctionOnSet(Zero, IoZones) = 0
  BY <1>1, Constants, SumZero
<1> QED BY <1>1, <1>2 DEF Total, SumFunction

(* What the records of the log mean: none, and a single one.                *)
Decodes(log) == FoldLeft(DecodeIOZoneResetCountFrom, Zero, log)

(* An empty log decodes to no counts.                                       *)
LEMMA DecodedEmpty == Decodes(<<>>) = Zero
<1> DEFINE body(g, s) == IF s = {} THEN Zero
                         ELSE DecodeIOZoneResetCountFrom(g[s \ {Max(s)}], <<>>[Max(s)])
           table(g) == g = [s \in SUBSET {} |-> body(g, s)]
           T == CHOOSE g : table(g)
<1>1. DOMAIN <<>> = {}
  OBVIOUS
<1>2. Decodes(<<>>) = T[{}]
  BY <1>1 DEF Decodes, FoldLeft, MapThenFoldSet
<1>3. table([s \in SUBSET {} |-> Zero])
  OBVIOUS
<1>4. table(T)
  <2> HIDE DEF table
  <2> QED BY <1>3
<1>5. T[{}] = Zero
  <2> HIDE DEF T
  <2> QED BY <1>4
<1> QED BY <1>2, <1>5

(* A log with one record decodes to its counts: a record replaces those     *)
(* before it.                                                               *)
LEMMA DecodedOne ==
  ASSUME NEW r
  PROVE  Decodes(<<r>>) = r
<1> DEFINE body(g, s) == IF s = {} THEN Zero
                         ELSE DecodeIOZoneResetCountFrom(g[s \ {Max(s)}], <<r>>[Max(s)])
           table(g) == g = [s \in SUBSET {1} |-> body(g, s)]
           T == CHOOSE g : table(g)
<1>1. DOMAIN <<r>> = {1} /\ <<r>>[1] = r
  OBVIOUS
<1>2. Max({1}) = 1
  BY DEF Max
<1>3. Decodes(<<r>>) = T[{1}]
  BY <1>1 DEF Decodes, FoldLeft, MapThenFoldSet
<1>4. \A s \in SUBSET {1} : s = {} \/ s = {1}
  OBVIOUS
<1> DEFINE G == [s \in SUBSET {1} |-> IF s = {} THEN Zero ELSE r]
<1>5. table(G)
  <2>1. \A s \in SUBSET {1} : G[s] = body(G, s)
    BY <1>1, <1>2, <1>4 DEF DecodeIOZoneResetCountFrom
  <2>2. G = [s \in SUBSET {1} |-> G[s]]
    OBVIOUS
  <2> HIDE DEF G, body
  <2> QED BY <2>1, <2>2
<1>6. table(T)
  <2> HIDE DEF table
  <2> QED BY <1>5
<1>7. T[{1}] = r
  <2> HIDE DEF T
  <2>1. T[{1}] = body(T, {1})
    <3> HIDE DEF body
    <3> QED BY <1>6
  <2> QED BY <2>1, <1>1, <1>2 DEF DecodeIOZoneResetCountFrom
<1> QED BY <1>3, <1>7

(* The number of threads between their two counts.                          *)
LEMMA CountingNat ==
  ASSUME Types
  PROVE  IsFiniteSet(Counting) /\ Cardinality(Counting) \in Nat
<1>1. IsFiniteSet(Counting)
  BY Constants, FS_Subset DEF Counting
<1> QED BY <1>1, FS_CardinalityType

(* A thread that has counted its zone and not yet the total is one more.    *)
LEMMA CountingAdds ==
  ASSUME Types, NEW t \in Threads, Step(t, "idle", "total")
  PROVE  Cardinality(Counting') = Cardinality(Counting) + 1
<1>1. t \notin Counting /\ Counting' = Counting \cup {t}
  BY DEF Types, Step, Counting
<1> QED BY <1>1, CountingNat, FS_AddElement

(* A thread that counts the total is one less.                              *)
LEMMA CountingDrops ==
  ASSUME Types, NEW t \in Threads, Step(t, "total", "read")
  PROVE  Cardinality(Counting') = Cardinality(Counting) - 1
<1>1. t \in Counting /\ Counting' = Counting \ {t}
  BY DEF Types, Step, Counting
<1> QED BY <1>1, CountingNat, FS_RemoveElement

(* A fraction in lowest terms is still positive.                            *)
LEMMA ReducedType ==
  ASSUME NEW num \in Nat, NEW den \in Nat, num > 0
  PROVE  Reduced(num, den) \in (Nat \ {0}) \X Nat
<1>1. CASE den = 0
  BY <1>1 DEF Reduced
<1>2. CASE den # 0
  <2> DEFINE D == {k \in 1..den : num % k = 0 /\ den % k = 0}
             d == Max(D)
  <2>1. 1 \in D
    BY <1>2
  <2>2. D \in SUBSET Int /\ IsFiniteSet(D)
    <3>1. D \in SUBSET (1..den) /\ D \in SUBSET Int
      OBVIOUS
    <3>2. IsFiniteSet(1..den)
      BY FS_Interval
    <3> HIDE DEF D
    <3> QED BY <3>1, <3>2, FS_Subset
  <2>3. d \in D
    <3> HIDE DEF D
    <3> QED BY <2>1, <2>2, MaxFacts
  <2>4. d \in Nat /\ d > 0 /\ num % d = 0
    <3> HIDE DEF d
    <3> QED BY <2>3
  <2>5. Reduced(num, den) = <<num \div d, den \div d>>
    BY <1>2 DEF Reduced
  <2> HIDE DEF d
  <2>6. num \div d \in Nat /\ den \div d \in Nat
    BY <2>4
  <2>7. num \div d # 0
    BY <2>4
  <2> QED BY <2>5, <2>6, <2>7
<1> QED BY <1>1, <1>2

(* The sum of squares behind the deviation is a natural number.             *)
LEMMA SquareSumNat ==
  ASSUME Types
  PROVE  SquareSum \in Nat
<1> DEFINE mean == Total(resets) \div NrIOZones
           g == [z \in IoZones |-> (resets[z] - mean) * (resets[z] - mean)]
<1>1. mean \in Int
  BY Constants, TotalNat DEF Types
<1>2. \A x \in Int : x * x \in Nat
  OBVIOUS
<1>3. \A z \in IoZones : resets[z] - mean \in Int
  BY <1>1 DEF Types
<1> HIDE DEF mean
<1>4. g \in [IoZones -> Nat]
  BY <1>2, <1>3
<1>5. SquareSum = Total(g)
  BY DEF SquareSum, mean
<1> HIDE DEF g
<1> QED BY <1>4, <1>5, TotalNat

(* The ratio that is adapted is a fraction with a positive numerator.       *)
LEMMA AdaptedRatioType ==
  ASSUME Types
  PROVE  AdaptedRatio \in (Nat \ {0}) \X Nat
<1>1. ratio[1] \in Nat /\ ratio[1] > 0 /\ ratio[2] \in Nat
  BY DEF Types
<1>2. SquareSum \in Nat
  BY SquareSumNat
<1>3. \A a, b \in Nat : a * b \in Nat /\ (a > 0 /\ b > 0 => a * b > 0)
  OBVIOUS
<1>4. /\ ratio[1] * NrIOZones * StdDevNum * StdDevNum \in Nat
      /\ ratio[1] * NrIOZones * StdDevNum * StdDevNum > 0
  BY <1>1, <1>3, Constants
<1>5. ratio[2] * SquareSum * StdDevDen * StdDevDen \in Nat
  BY <1>1, <1>2, <1>3, Constants
<1> QED BY <1>4, <1>5, ReducedType DEF AdaptedRatio

-----------------------------------------------------------------------------
(* JudgeQpsTrend                                                            *)

(* The largest loads.                                                       *)
LEMMA LoadFacts ==
  /\ Max(WriteLoads) \in Nat /\ \A w \in WriteLoads : w \in Nat /\ w <= Max(WriteLoads)
  /\ Max(ReadLoads) \in Nat /\ \A r \in ReadLoads : r \in Nat /\ r <= Max(ReadLoads)
<1>1. /\ WriteLoads \in SUBSET Int /\ IsFiniteSet(WriteLoads) /\ WriteLoads # {}
      /\ ReadLoads \in SUBSET Int /\ IsFiniteSet(ReadLoads) /\ ReadLoads # {}
      /\ WriteLoads \subseteq Nat /\ ReadLoads \subseteq Nat
  BY WearLevelingAssumption
<1> QED BY <1>1, MaxFacts

(* Both maxima are those of the numbers they are of.                        *)
LEMMA MaxOfTwo ==
  ASSUME NEW a \in Int, NEW b \in Int
  PROVE  Max({a, b}) = IF a >= b THEN a ELSE b
<1>1. {a, b} \in SUBSET Int /\ IsFiniteSet({a, b}) /\ {a, b} # {}
  <2>1. {a, b} = {a} \cup {b}
    OBVIOUS
  <2>2. IsFiniteSet({a} \cup {b})
    BY FS_Singleton, FS_AddElement
  <2>3. IsFiniteSet({a, b})
    BY <2>1, <2>2
  <2>4. {a, b} \in SUBSET Int /\ {a, b} # {}
    OBVIOUS
  <2> QED BY <2>3, <2>4
<1>2. Max({a, b}) \in {a, b} /\ \A x \in {a, b} : x <= Max({a, b})
  BY <1>1, MaxFacts
<1> QED BY <1>2

(* The larger of the loads stays below what bounds them all.                *)
LEMMA LargerFacts ==
  ASSUME NEW m \in Nat, NEW a \in Nat, NEW b \in Nat, NEW top \in Nat,
         m <= top, a <= top, b <= top
  PROVE  Larger(m, a, b) \in Nat /\ Larger(m, a, b) <= top
<1>1. {m, a, b} \in SUBSET Int /\ {m, a, b} # {}
  OBVIOUS
<1>2. IsFiniteSet({m, a, b})
  <2>1. IsFiniteSet({m} \cup {a})
    BY FS_Singleton, FS_AddElement
  <2>2. IsFiniteSet(({m} \cup {a}) \cup {b})
    BY <2>1, FS_AddElement
  <2>3. {m, a, b} = ({m} \cup {a}) \cup {b}
    OBVIOUS
  <2> QED BY <2>2, <2>3
<1>3. Max({m, a, b}) \in {m, a, b}
  BY <1>1, <1>2, MaxFacts
<1> QED BY <1>3 DEF Larger

(* A raised threshold stays below the largest load, or is what it was.      *)
LEMMA RaisedFacts ==
  ASSUME NEW thr \in Nat, NEW max \in Nat, NEW def \in Nat, NEW top \in Nat,
         thr \in def..Max({def, top - 1}), max <= top
  PROVE  Raised(thr, max) \in Nat /\ Raised(thr, max) \in def..Max({def, top - 1})
<1>1. Max({def, top - 1}) = IF def >= top - 1 THEN def ELSE top - 1
  BY MaxOfTwo
<1> QED BY <1>1 DEF Raised

(* The QPS history starts calm.                                             *)
LEMMA CalmOK == LoadsOK(Calm)
<1>1. WriteDefault \in Nat /\ ReadDefault \in Nat /\ FailLimit \in Nat /\ SuccessLimit \in Nat
  BY Constants
<1>2. Max(WriteLoads) \in Nat /\ Max(ReadLoads) \in Nat
  BY LoadFacts
<1>3. /\ WriteDefault \in WriteDefault..Max({WriteDefault, Max(WriteLoads) - 1})
      /\ ReadDefault \in ReadDefault..Max({ReadDefault, Max(ReadLoads) - 1})
  BY <1>1, <1>2, MaxOfTwo
<1>4. Calm \in Qps
  BY <1>1 DEF Calm, Qps
<1> QED BY <1>2, <1>3, <1>4 DEF LoadsOK, Calm

(* After AdaptThresholds there is room for one more failure.                *)
LEMMA AdaptOK ==
  ASSUME NEW q, LoadsOK(q), NEW w1 \in WriteLoads, NEW w2 \in WriteLoads,
         NEW r1 \in ReadLoads, NEW r2 \in ReadLoads
  PROVE  LET a == AdaptThresholds(q, w1, w2, r1, r2) IN LoadsOK(a) /\ a.fail < FailLimit
<1> DEFINE seen == [q EXCEPT !.wmax = Larger(@, w1, w2), !.rmax = Larger(@, r1, r2)]
           raised == IF q.fail < FailLimit THEN seen
                     ELSE [seen EXCEPT !.wthr = Raised(@, seen.wmax),
                                       !.rthr = Raised(@, seen.rmax),
                                       !.wmax = 0, !.rmax = 0, !.fail = 0]
           last == [raised EXCEPT !.wthr = WriteDefault, !.rthr = ReadDefault, !.succ = 0]
           a == AdaptThresholds(q, w1, w2, r1, r2)
<1>1. /\ FailLimit \in Nat /\ FailLimit > 0 /\ SuccessLimit \in Nat
      /\ WriteDefault \in Nat /\ ReadDefault \in Nat
  BY Constants
<1>2. /\ w1 \in Nat /\ w2 \in Nat /\ r1 \in Nat /\ r2 \in Nat
      /\ Max(WriteLoads) \in Nat /\ Max(ReadLoads) \in Nat
      /\ w1 <= Max(WriteLoads) /\ w2 <= Max(WriteLoads)
      /\ r1 <= Max(ReadLoads) /\ r2 <= Max(ReadLoads)
  BY LoadFacts
<1>3. /\ q \in Qps /\ q.wmax \in Nat /\ q.rmax \in Nat
      /\ q.wmax <= Max(WriteLoads) /\ q.rmax <= Max(ReadLoads)
  BY DEF LoadsOK, Qps
<1>4. /\ Larger(q.wmax, w1, w2) \in Nat /\ Larger(q.wmax, w1, w2) <= Max(WriteLoads)
      /\ Larger(q.rmax, r1, r2) \in Nat /\ Larger(q.rmax, r1, r2) <= Max(ReadLoads)
  BY <1>2, <1>3, LargerFacts
<1>5. /\ seen \in Qps /\ seen.wmax = Larger(q.wmax, w1, w2) /\ seen.rmax = Larger(q.rmax, r1, r2)
      /\ seen.wthr = q.wthr /\ seen.rthr = q.rthr /\ seen.fail = q.fail /\ seen.succ = q.succ
  BY <1>3, <1>4 DEF Qps
<1>6. LoadsOK(seen)
  BY <1>4, <1>5 DEF LoadsOK
<1>7. LoadsOK(raised) /\ raised.fail < FailLimit
  <2> HIDE DEF seen
  <2>1. CASE q.fail < FailLimit
    BY <1>5, <1>6, <2>1
  <2>2. CASE ~ (q.fail < FailLimit)
    <3>1. /\ Raised(seen.wthr, seen.wmax) \in Nat
          /\ Raised(seen.wthr, seen.wmax) \in WriteDefault..Max({WriteDefault, Max(WriteLoads) - 1})
      <4>1. /\ seen.wthr \in Nat /\ seen.wmax \in Nat /\ seen.wmax <= Max(WriteLoads)
            /\ seen.wthr \in WriteDefault..Max({WriteDefault, Max(WriteLoads) - 1})
        BY <1>6 DEF LoadsOK, Qps
      <4> QED BY <1>1, <1>2, <4>1, RaisedFacts
    <3>2. /\ Raised(seen.rthr, seen.rmax) \in Nat
          /\ Raised(seen.rthr, seen.rmax) \in ReadDefault..Max({ReadDefault, Max(ReadLoads) - 1})
      <4>1. /\ seen.rthr \in Nat /\ seen.rmax \in Nat /\ seen.rmax <= Max(ReadLoads)
            /\ seen.rthr \in ReadDefault..Max({ReadDefault, Max(ReadLoads) - 1})
        BY <1>6 DEF LoadsOK, Qps
      <4> QED BY <1>1, <1>2, <4>1, RaisedFacts
    <3>3. /\ raised \in Qps /\ raised.fail = 0 /\ raised.wmax = 0 /\ raised.rmax = 0
          /\ raised.wthr = Raised(seen.wthr, seen.wmax)
          /\ raised.rthr = Raised(seen.rthr, seen.rmax)
      <4>1. 0 \in 0..FailLimit
        BY <1>1
      <4>2. raised = [seen EXCEPT !.wthr = Raised(@, seen.wmax),
                                  !.rthr = Raised(@, seen.rmax),
                                  !.wmax = 0, !.rmax = 0, !.fail = 0]
        BY <2>2
      <4> HIDE DEF raised
      <4>3. raised \in Qps
        BY <1>5, <3>1, <3>2, <4>1, <4>2 DEF Qps
      <4>4. raised.fail = 0 /\ raised.wmax = 0 /\ raised.rmax = 0
        BY <1>5, <4>2 DEF Qps
      <4>5. /\ raised.wthr = Raised(seen.wthr, seen.wmax)
            /\ raised.rthr = Raised(seen.rthr, seen.rmax)
        BY <1>5, <4>2 DEF Qps
      <4> QED BY <4>3, <4>4, <4>5
    <3> HIDE DEF raised
    <3> QED BY <1>1, <1>2, <3>1, <3>2, <3>3 DEF LoadsOK
  <2> QED BY <2>1, <2>2
<1>8. LoadsOK(last) /\ last.fail < FailLimit
  <2> HIDE DEF raised
  <2>1. /\ last \in Qps /\ last.fail = raised.fail
        /\ last.wmax = raised.wmax /\ last.rmax = raised.rmax
        /\ last.wthr = WriteDefault /\ last.rthr = ReadDefault
    <3>1. 0 \in 0..SuccessLimit /\ raised \in Qps
      BY <1>1, <1>7 DEF LoadsOK
    <3>2. last \in Qps
      BY <1>1, <3>1 DEF Qps
    <3>3. /\ last.fail = raised.fail
          /\ last.wmax = raised.wmax /\ last.rmax = raised.rmax
      BY <3>1 DEF Qps
    <3>4. last.wthr = WriteDefault /\ last.rthr = ReadDefault
      BY <3>1 DEF Qps
    <3> QED BY <3>2, <3>3, <3>4
  <2>2. /\ WriteDefault \in WriteDefault..Max({WriteDefault, Max(WriteLoads) - 1})
        /\ ReadDefault \in ReadDefault..Max({ReadDefault, Max(ReadLoads) - 1})
    BY <1>1, <1>2, MaxOfTwo
  <2> HIDE DEF last
  <2> QED BY <1>7, <2>1, <2>2 DEF LoadsOK
<1>9. a = last \/ a = raised
  BY DEF AdaptThresholds
<1> HIDE DEF last, raised, a
<1>10. LoadsOK(a) /\ a.fail < FailLimit
  BY <1>7, <1>8, <1>9
<1> QED BY <1>10 DEF a

(* The thresholds and the counts of JudgeQpsTrend stay within their bounds. *)
LEMMA NextLoads ==
  ASSUME Loads, [Next]_vars
  PROVE  Loads'
<1>1. UNCHANGED qps \/ qps' = Calm \/ Judge
  BY DEF Next, vars, ResetZone, RestOfReset, CountTotal, ReadCounts, JudgeReset, WakeupWLWorker,
         SetCheckResetCount, PersistRecord, PersistResetCounts, MountRolls, WLWorker, Loop, Wait,
         Timeout, Woken, Clear, Evaluate, Migrated, Shutdown, Crash, Mount, New
<1>2. CASE UNCHANGED qps
  BY <1>2 DEF Loads
<1>3. CASE qps' = Calm
  BY <1>3, CalmOK DEF Loads
<1>4. CASE Judge
  <2>1. PICK w1, w2 \in Samples(WriteLoads), r1, r2 \in Samples(ReadLoads) :
          LET q    == AdaptThresholds(qps, w1, w2, r1, r2)
              idle == IdleTrend(q, w1, w2, r1, r2) IN
          IF at = "judge2" /\ idle
          THEN /\ at' = "migrate"
               /\ qps' = [q EXCEPT !.succ = AtMost(@ + 1, SuccessLimit), !.fail = 0]
               /\ triggers' = AtMost(triggers + 1, TriggerLimit)
          ELSE /\ at' = IF idle THEN "judge2" ELSE "judge1"
               /\ qps' = IF idle \/ at = "judge2" THEN q
                         ELSE [q EXCEPT !.fail = @ + 1, !.succ = 0]
               /\ UNCHANGED triggers
    BY <1>4, Zenon DEF Judge
  <2>2. w1 \in WriteLoads /\ w2 \in WriteLoads /\ r1 \in ReadLoads /\ r2 \in ReadLoads
    BY WearLevelingAssumption DEF Samples
  <2>3. PICK q : q = AdaptThresholds(qps, w1, w2, r1, r2)
    OBVIOUS
  <2>4. LoadsOK(q) /\ q.fail < FailLimit
    BY <2>2, <2>3, AdaptOK DEF Loads
  <2>5. /\ q \in Qps /\ FailLimit \in Nat /\ SuccessLimit \in Nat
    BY <2>4, Constants DEF LoadsOK
  <2>6. LoadsOK([q EXCEPT !.fail = @ + 1, !.succ = 0])
    <3> DEFINE n == [q EXCEPT !.fail = @ + 1, !.succ = 0]
    <3>1. /\ n \in Qps /\ n.wmax = q.wmax /\ n.rmax = q.rmax
          /\ n.wthr = q.wthr /\ n.rthr = q.rthr
      <4>1. q.fail + 1 \in 0..FailLimit /\ 0 \in 0..SuccessLimit
        BY <2>4, <2>5 DEF Qps
      <4>2. n \in Qps
        BY <2>5, <4>1 DEF Qps
      <4>3. n.wmax = q.wmax /\ n.rmax = q.rmax /\ n.wthr = q.wthr /\ n.rthr = q.rthr
        BY <2>5 DEF Qps
      <4> QED BY <4>2, <4>3
    <3> HIDE DEF n
    <3>2. LoadsOK(n)
      BY <2>4, <3>1 DEF LoadsOK
    <3> QED BY <3>2 DEF n
  <2>7. LoadsOK([q EXCEPT !.succ = AtMost(@ + 1, SuccessLimit), !.fail = 0])
    <3> DEFINE n == [q EXCEPT !.succ = AtMost(@ + 1, SuccessLimit), !.fail = 0]
    <3>1. /\ n \in Qps /\ n.wmax = q.wmax /\ n.rmax = q.rmax
          /\ n.wthr = q.wthr /\ n.rthr = q.rthr
      <4>1. AtMost(q.succ + 1, SuccessLimit) \in 0..SuccessLimit /\ 0 \in 0..FailLimit
        BY <2>5 DEF Qps, AtMost
      <4>2. n \in Qps
        BY <2>5, <4>1 DEF Qps
      <4>3. n.wmax = q.wmax /\ n.rmax = q.rmax /\ n.wthr = q.wthr /\ n.rthr = q.rthr
        BY <2>5 DEF Qps
      <4> QED BY <4>2, <4>3
    <3> HIDE DEF n
    <3>2. LoadsOK(n)
      BY <2>4, <3>1 DEF LoadsOK
    <3> QED BY <3>2 DEF n
  <2>8. \/ qps' = [q EXCEPT !.succ = AtMost(@ + 1, SuccessLimit), !.fail = 0]
        \/ qps' = q
        \/ qps' = [q EXCEPT !.fail = @ + 1, !.succ = 0]
    BY <2>1, <2>3
  <2> QED BY <2>4, <2>6, <2>7, <2>8 DEF Loads
<1> QED BY <1>1, <1>2, <1>3, <1>4

-----------------------------------------------------------------------------
(* Steps of the threads, and records of the log                             *)

Records == [pc : Pcs, io : Nat]

(* A step of a thread changes its place and nothing of the others.          *)
LEMMA StepType ==
  ASSUME th \in [Threads -> Records], NEW t \in Threads, NEW from, NEW to \in Pcs,
         Step(t, from, to)
  PROVE  /\ th' \in [Threads -> Records]
         /\ th'[t].pc = to /\ th'[t].io = th[t].io
         /\ \A u \in Threads : u # t => th'[u] = th[u]
BY DEF Step, Records

(* A thread that does nothing.                                              *)
LEMMA IdleType == Idle \in Records /\ Idle.pc = "idle" /\ Idle.io = 0
BY DEF Idle, Records, Pcs

(* What a mount reads: the counts of the record, or zeros.                  *)
LEMMA DecodedFacts ==
  ASSUME Types, Log
  PROVE  Decoded \in [IoZones -> Nat] /\ Total(Decoded) <= Total(worn)
<1>1. CASE saved = <<>>
  <2>1. Total(worn) \in Nat
    BY TotalNat DEF Types
  <2>2. Decoded = Zero
    BY <1>1, DecodedEmpty DEF Decoded, Decodes
  <2> QED BY <2>1, <2>2, ZeroFacts
<1>2. CASE \E r \in [IoZones -> Nat] : saved = <<r>> /\ Total(r) <= Total(worn)
  <2>1. PICK r \in [IoZones -> Nat] : saved = <<r>> /\ Total(r) <= Total(worn)
    BY <1>2
  <2>2. Decoded = r
    BY <2>1, DecodedOne DEF Decoded, Decodes
  <2> QED BY <2>1, <2>2
<1> QED BY <1>1, <1>2 DEF Log

(* Initially                                                                *)
LEMMA InitWear == Init => WearInv
<1> SUFFICES ASSUME Init PROVE WearInv
  OBVIOUS
<1>1. PICK z \in IoZones : z = CHOOSE y \in IoZones : TRUE
  BY Constants
<1>2. resets = [Zero EXCEPT ![z] = InitialWear] /\ worn = resets
  BY <1>1 DEF Init
<1>3. resets \in [IoZones -> Nat]
  BY <1>2, ZeroFacts, Constants
<1>4. Total(resets) = InitialWear
  <2>1. /\ resets \in [IoZones -> Int] /\ Zero \in [IoZones -> Int] /\ DOMAIN resets = IoZones
        /\ \A x \in IoZones : x # z => resets[x] = Zero[x]
        /\ resets[z] = InitialWear /\ Zero[z] = 0 /\ DOMAIN Zero = IoZones
    <3>1. Zero \in [IoZones -> Int] /\ DOMAIN Zero = IoZones /\ Zero[z] = 0
      BY DEF Zero
    <3>2. InitialWear \in Int
      BY Constants
    <3> QED BY <1>2, <1>3, <3>1, <3>2
  <2>2. IsFiniteSet(IoZones) /\ InitialWear \in Nat
    BY Constants
  <2>3. SumFunctionOnSet(resets, IoZones)
          = SumFunctionOnSet(Zero, IoZones) - Zero[z] + resets[z]
    BY <2>1, <2>2, SumUpdate
  <2>4. SumFunctionOnSet(Zero, IoZones) = 0
    BY <2>1, ZeroFacts DEF Total, SumFunction
  <2> QED BY <2>1, <2>2, <2>3, <2>4 DEF Total, SumFunction
<1>5. th \in [Threads -> Records] /\ \A t \in Threads : th[t] = Idle
  BY IdleType DEF Init
<1>6. Types
  <2>1. ratio \in (Nat \ {0}) \X Nat
    BY Constants DEF Init
  <2>2. /\ metaResets \in Nat /\ total \in Nat /\ check \in Nat /\ rolls \in Nat
        /\ room \in Nat
    BY Constants, WearLevelingAssumption DEF Init
  <2>3. triggers \in 0..TriggerLimit
    BY Constants DEF Init
  <2>4. /\ sleep \in BOOLEAN /\ run \in BOOLEAN /\ lost \in BOOLEAN
        /\ at \in Places /\ phase \in {"mount", "up", "join", "closed"}
    BY DEF Init, Places
  <2> QED BY <1>2, <1>3, <1>5, <2>1, <2>2, <2>3, <2>4 DEF Types, Records
<1>7. Loads
  BY CalmOK DEF Loads, Init
<1>8. Counting = {}
  BY <1>5, IdleType DEF Counting
<1>9. Cardinality(Counting) = 0
  BY <1>8, FS_EmptySet
<1>10. Sum
  BY <1>4, <1>9, Constants DEF Sum, Init
<1>11. Bounds
  BY <1>2, <1>4, <1>5, IdleType, Constants DEF Bounds, Rolled, Words, Init
<1>12. Log
  BY DEF Log, Init
<1>13. Lives
  BY DEF Lives, Init
<1>14. CountsTrue
  BY <1>2 DEF CountsTrue, Init
<1> QED BY <1>6, <1>7, <1>10, <1>11, <1>12, <1>13, <1>14 DEF WearInv

-----------------------------------------------------------------------------
(* Types                                                                    *)

(* A new ZonedBlockDevice starts with the counts it is given.               *)
LEMMA NewTypes ==
  ASSUME NEW counts \in [IoZones -> Nat], New(counts)
  PROVE  /\ resets' \in [IoZones -> Nat] /\ metaResets' = 0 /\ total' \in Nat /\ check' = 0
         /\ ratio' \in (Nat \ {0}) \X Nat /\ triggers' \in 0..TriggerLimit /\ sleep' = TRUE
<1>1. Total(counts) \in Nat
  BY TotalNat
<1>2. <<InitRatio * InitRatio, 1>> \in (Nat \ {0}) \X Nat
  BY Constants
<1> QED BY <1>1, <1>2, Constants DEF New

(* Zone::Reset keeps the types.                                             *)
LEMMA ResetZoneTypes ==
  ASSUME Types, NEW t \in Threads, NEW z \in IoZones, ResetZone(t, z)
  PROVE  Types'
<1>1. th' \in [Threads -> Records]
  BY StepType DEF Types, Records, ResetZone, Pcs
<1>2. resets' \in [IoZones -> Nat] /\ worn' \in [IoZones -> Nat]
  BY DEF Types, ResetZone
<1> QED BY <1>1, <1>2 DEF Types, Records, ResetZone, logVars

(* So do the steps after it, up to the trigger.                             *)
LEMMA RestTypes ==
  ASSUME Types, NEW t \in Threads, RestOfReset(t)
  PROVE  Types'
<1>1. CASE CountTotal(t)
  <2>1. th' \in [Threads -> Records]
    BY <1>1, StepType DEF Types, Records, CountTotal, Pcs
  <2> QED BY <1>1, <2>1 DEF Types, Records, CountTotal, logVars
<1>2. CASE ReadCounts(t)
  <2>1. Word(total - metaResets) \in Nat
    BY Constants DEF Types, Word
  <2>2. th' \in [Threads -> Records]
    BY <1>2, <2>1, IdleType DEF Types, Records, ReadCounts, Pcs
  <2> QED BY <1>2, <2>2 DEF Types, Records, ReadCounts, logVars, countVars
<1>3. CASE JudgeReset(t)
  <2>1. th' \in [Threads -> Records]
    BY <1>3, IdleType DEF Types, Records, JudgeReset, Pcs
  <2>2. check' \in Nat
    <3>1. check' = Max({check, NrZones})
      BY <1>3 DEF JudgeReset
    <3> QED BY <3>1, Constants, MaxOfTwo DEF Types
  <2>3. ratio' \in (Nat \ {0}) \X Nat
    BY <1>3, AdaptedRatioType DEF Types, JudgeReset
  <2>4. triggers' \in 0..TriggerLimit
    BY <1>3, Constants DEF Types, JudgeReset
  <2> QED BY <1>3, <2>1, <2>2, <2>3, <2>4 DEF Types, Records, JudgeReset, logVars
<1>4. CASE WakeupWLWorker(t)
  <2>1. th' \in [Threads -> Records]
    BY <1>4, StepType DEF Types, Records, WakeupWLWorker, Pcs
  <2> QED BY <1>4, <2>1 DEF Types, Records, WakeupWLWorker, logVars, countVars, Places
<1>5. CASE SetCheckResetCount(t)
  <2>1. th' \in [Threads -> Records] /\ check' \in Nat
    BY <1>5, IdleType DEF Types, Records, SetCheckResetCount
  <2> QED BY <1>5, <2>1 DEF Types, Records, SetCheckResetCount, logVars
<1> QED BY <1>1, <1>2, <1>3, <1>4, <1>5 DEF RestOfReset

(* So does a roll of the metadata log,                                      *)
LEMMA RollTypes ==
  ASSUME Types, NEW t \in Threads, RollMetaZone(t)
  PROVE  th' \in [Threads -> Records] /\ metaResets' \in Nat /\ rolls' \in Nat /\ room' \in Nat
<1>1. MetaCap - 2 \in Nat
  BY WearLevelingAssumption
<1> QED BY <1>1, StepType DEF Types, Records, RollMetaZone, Pcs

(* a record that is persisted,                                              *)
LEMMA LogTypes ==
  ASSUME Types, NEW t \in Threads, PersistRecord(t) \/ PersistResetCounts(t) \/ MountRolls(t)
  PROVE  Types'
<1>1. th' \in [Threads -> Records] /\ metaResets' \in Nat /\ rolls' \in Nat /\ room' \in Nat
  BY RollTypes DEF Types, Records, PersistRecord, PersistResetCounts, MountRolls
<1>2. CASE PersistRecord(t)
  BY <1>1, <1>2 DEF Types, Records, PersistRecord
<1>3. CASE PersistResetCounts(t)
  BY <1>1, <1>3 DEF Types, Records, PersistResetCounts
<1>4. CASE MountRolls(t)
  BY <1>1, <1>4 DEF Types, Records, MountRolls
<1> QED BY <1>2, <1>3, <1>4

(* the wear leveling worker,                                                *)
LEMMA WorkerTypes ==
  ASSUME Types, WLWorker
  PROVE  Types'
<1>1. /\ UNCHANGED <<resets, metaResets, total, check, ratio, run, phase, th, worn, lost, rolls, room>>
  BY DEF WLWorker, Worker, Loop, Wait, Timeout, Woken, Clear, Evaluate, Judge, Migrated, logVars
<1>2. CASE Judge
  <2>1. /\ at' \in {"migrate", "judge1", "judge2"} /\ sleep' = sleep
        /\ triggers' = triggers \/ triggers' = AtMost(triggers + 1, TriggerLimit)
    <3>1. PICK w1, w2 \in Samples(WriteLoads), r1, r2 \in Samples(ReadLoads) :
            LET q    == AdaptThresholds(qps, w1, w2, r1, r2)
                idle == IdleTrend(q, w1, w2, r1, r2) IN
            IF at = "judge2" /\ idle
            THEN /\ at' = "migrate"
                 /\ qps' = [q EXCEPT !.succ = AtMost(@ + 1, SuccessLimit), !.fail = 0]
                 /\ triggers' = AtMost(triggers + 1, TriggerLimit)
            ELSE /\ at' = IF idle THEN "judge2" ELSE "judge1"
                 /\ qps' = IF idle \/ at = "judge2" THEN q
                           ELSE [q EXCEPT !.fail = @ + 1, !.succ = 0]
                 /\ UNCHANGED triggers
      BY <1>2, Zenon DEF Judge
    <3>2. sleep' = sleep
      BY <1>2 DEF Judge
    <3> QED BY <3>1, <3>2
  <2>2. triggers' \in 0..TriggerLimit
    BY <2>1, Constants DEF Types, AtMost
  <2> QED BY <1>1, <2>1, <2>2 DEF Types, Places
<1>3. CASE ~ Judge
  <2>1. at' \in Places /\ sleep' \in BOOLEAN
    BY <1>3 DEF Types, WLWorker, Loop, Wait, Timeout, Woken, Clear, Evaluate, Migrated, Places
  <2>2. triggers' \in 0..TriggerLimit
    BY <1>3, Constants DEF Types, WLWorker, Loop, Wait, Timeout, Woken, Clear, Evaluate, Migrated
  <2> QED BY <1>1, <2>1, <2>2 DEF Types
<1> QED BY <1>2, <1>3

(* and the end and the start of a process.                                  *)
LEMMA LifeTypes ==
  ASSUME Types, Log, Shutdown \/ Crash \/ Mount
  PROVE  Types'
<1>1. CASE Shutdown
  BY <1>1 DEF Types, Shutdown, countVars, logVars
<1>2. CASE Crash
  <2>1. th' \in [Threads -> Records]
    BY <1>2, IdleType DEF Crash
  <2>2. Zero \in [IoZones -> Nat] /\ New(Zero)
    BY <1>2, ZeroFacts DEF Crash
  <2>3. /\ resets' \in [IoZones -> Nat] /\ metaResets' = 0 /\ total' \in Nat /\ check' = 0
        /\ ratio' \in (Nat \ {0}) \X Nat /\ triggers' \in 0..TriggerLimit /\ sleep' = TRUE
    BY <2>2, NewTypes
  <2> QED BY <1>2, <2>1, <2>3 DEF Types, Records, Crash, logVars, Places
<1>3. CASE Mount
  <2>1. Decoded \in [IoZones -> Nat] /\ New(Decoded)
    BY <1>3, DecodedFacts DEF Mount
  <2>2. /\ resets' \in [IoZones -> Nat] /\ metaResets' = 0 /\ total' \in Nat /\ check' = 0
        /\ ratio' \in (Nat \ {0}) \X Nat /\ triggers' \in 0..TriggerLimit /\ sleep' = TRUE
    BY <2>1, NewTypes
  <2> QED BY <1>3, <2>2 DEF Types, Mount, logVars, Places
<1> QED BY <1>1, <1>2, <1>3

(* Every step keeps the types.                                              *)
LEMMA NextTypes ==
  ASSUME Types, Log, [Next]_vars
  PROVE  Types'
<1>1. CASE UNCHANGED vars
  BY <1>1 DEF Types, vars, countVars, logVars
<1>2. CASE Next
  BY <1>2, ResetZoneTypes, RestTypes, LogTypes, WorkerTypes, LifeTypes DEF Next
<1> QED BY <1>1, <1>2

-----------------------------------------------------------------------------
(* The total                                                                *)

(* A thread between the count of its zone and the total is the only         *)
(* difference there ever is.                                                *)
LEMMA NextSum ==
  ASSUME Types, Log, Sum, [Next]_vars
  PROVE  Sum'
<1>1. /\ total \in Nat /\ metaResets \in Nat /\ Total(resets) \in Nat
      /\ Cardinality(Counting) \in Nat
  BY TotalNat, CountingNat DEF Types
<1>2. ASSUME UNCHANGED <<total, metaResets, resets>>, Counting' = Counting
      PROVE  Sum'
  BY <1>2 DEF Sum
<1>3. ASSUME NEW t \in Threads, NEW z \in IoZones, ResetZone(t, z)
      PROVE  Sum'
  <2>1. Cardinality(Counting') = Cardinality(Counting) + 1
    BY <1>3, CountingAdds DEF ResetZone
  <2>2. Total(resets') = Total(resets) + 1
    <3>1. resets \in [IoZones -> Nat] /\ resets' = [resets EXCEPT ![z] = @ + 1]
      BY <1>3 DEF Types, ResetZone
    <3> QED BY <3>1, TotalBump
  <2>3. UNCHANGED <<total, metaResets>>
    BY <1>3 DEF ResetZone
  <2> QED BY <1>1, <2>1, <2>2, <2>3 DEF Sum
<1>4. ASSUME NEW t \in Threads, RestOfReset(t)
      PROVE  Sum'
  <2>1. CASE CountTotal(t)
    <3>1. Cardinality(Counting') = Cardinality(Counting) - 1
      BY <2>1, CountingDrops DEF CountTotal
    <3>2. total' = total + 1 /\ UNCHANGED <<resets, metaResets>>
      BY <2>1 DEF CountTotal
    <3> QED BY <1>1, <3>1, <3>2 DEF Sum
  <2>2. CASE ~ CountTotal(t)
    <3>1. UNCHANGED <<total, metaResets, resets>>
      BY <1>4, <2>2 DEF RestOfReset, ReadCounts, JudgeReset, WakeupWLWorker, SetCheckResetCount,
                        countVars
    <3>2. /\ th[t].pc # "total" /\ th'[t].pc # "total" /\ \A u \in Threads : u # t => th'[u] = th[u]
      <4>1. CASE ReadCounts(t)
        BY <4>1, IdleType DEF Types, ReadCounts
      <4>2. CASE JudgeReset(t)
        BY <4>2, IdleType DEF Types, JudgeReset
      <4>3. CASE WakeupWLWorker(t)
        BY <4>3 DEF Types, WakeupWLWorker, Step
      <4>4. CASE SetCheckResetCount(t)
        BY <4>4, IdleType DEF Types, SetCheckResetCount
      <4> QED BY <1>4, <2>2, <4>1, <4>2, <4>3, <4>4 DEF RestOfReset
    <3>3. Counting' = Counting
      BY <3>2 DEF Counting
    <3> QED BY <1>2, <3>1, <3>3
  <2> QED BY <2>1, <2>2
<1>5. ASSUME NEW t \in Threads, RollMetaZone(t), UNCHANGED <<total, resets>>
      PROVE  Sum'
  <2>1. Cardinality(Counting') = Cardinality(Counting) + 1
    BY <1>5, CountingAdds DEF RollMetaZone
  <2>2. metaResets' = metaResets + 1
    BY <1>5 DEF RollMetaZone
  <2> QED BY <1>1, <1>5, <2>1, <2>2 DEF Sum
<1>6. ASSUME NEW t \in Threads, PersistRecord(t) \/ PersistResetCounts(t) \/ MountRolls(t)
      PROVE  Sum'
  <2>1. UNCHANGED <<total, resets>> /\ (RollMetaZone(t) \/ UNCHANGED <<metaResets, th>>)
    BY <1>6 DEF PersistRecord, PersistResetCounts, MountRolls
  <2>2. CASE UNCHANGED <<metaResets, th>>
    <3>1. Counting' = Counting
      BY <2>2 DEF Counting
    <3> QED BY <1>2, <2>1, <2>2, <3>1
  <2> QED BY <1>5, <2>1, <2>2
<1>7. ASSUME WLWorker \/ Shutdown \/ UNCHANGED vars
      PROVE  Sum'
  <2>1. UNCHANGED <<total, metaResets, resets, th>>
    BY <1>7 DEF vars, countVars, Shutdown, WLWorker, Worker, Loop, Wait, Timeout, Woken, Clear,
                Evaluate, Judge, Migrated
  <2>2. Counting' = Counting
    BY <2>1 DEF Counting
  <2> QED BY <1>2, <2>1, <2>2
<1>8. ASSUME Crash \/ Mount
      PROVE  Sum'
  <2>1. PICK counts \in [IoZones -> Nat] : New(counts)
    BY <1>8, ZeroFacts, DecodedFacts DEF Crash, Mount
  <2>2. \A t \in Threads : th'[t] = Idle
    BY <1>8 DEF Crash, Mount
  <2>3. Counting' = {}
    BY <2>2, IdleType DEF Counting
  <2>4. Cardinality(Counting') = 0
    BY <2>3, FS_EmptySet
  <2>5. Total(counts) \in Nat
    BY TotalNat
  <2> QED BY <2>1, <2>4, <2>5 DEF Sum, New
<1> QED BY <1>3, <1>4, <1>6, <1>7, <1>8 DEF Next

-----------------------------------------------------------------------------
(* How large the counters get                                               *)

(* The counts in memory never exceed the resets that the zones have seen.   *)
LEMMA NextWorn ==
  ASSUME Types, Log, Lives, Bounds, [Next]_vars
  PROVE  /\ Total(resets') <= Total(worn') /\ Total(worn') <= MaxResets
         /\ Total(worn) <= Total(worn')
<1>1. /\ Total(worn) \in Nat /\ Total(resets) \in Nat /\ MaxResets \in Nat
      /\ Total(resets) <= Total(worn) /\ Total(worn) <= MaxResets
  BY TotalNat, Constants DEF Types, Bounds
<1>2. ASSUME NEW t \in Threads, NEW z \in IoZones, ResetZone(t, z)
      PROVE  /\ Total(resets') = Total(resets) + 1 /\ Total(worn') = Total(worn) + 1
             /\ Total(worn) < MaxResets
  <2>1. /\ resets \in [IoZones -> Nat] /\ resets' = [resets EXCEPT ![z] = @ + 1]
        /\ worn \in [IoZones -> Nat] /\ worn' = [worn EXCEPT ![z] = @ + 1]
        /\ Total(worn) < MaxResets
    BY <1>2 DEF Types, ResetZone
  <2> QED BY <2>1, TotalBump
<1>3. ASSUME ~ (\E t \in Threads : \E z \in IoZones : ResetZone(t, z))
      PROVE  worn' = worn /\ (UNCHANGED resets \/ Crash \/ Mount)
  BY <1>3 DEF Next, vars, countVars, RestOfReset, CountTotal, ReadCounts, JudgeReset, WakeupWLWorker,
              SetCheckResetCount, PersistRecord, PersistResetCounts, MountRolls, Worker, WLWorker,
              Loop, Wait, Timeout, Woken, Clear, Evaluate, Judge, Migrated, Shutdown, Crash, Mount
<1>4. ASSUME Crash \/ Mount
      PROVE  Total(resets') <= Total(worn)
  BY <1>1, <1>4, ZeroFacts, DecodedFacts DEF Crash, Mount, New
<1> QED BY <1>1, <1>2, <1>3, <1>4

(* The totals stay within the bounds on resets and rolls.                   *)
LEMMA NextBounds ==
  ASSUME Types, Log, Lives, Bounds, [Next]_vars
  PROVE  Bounds'
<1>1. Total(resets') <= Total(worn') /\ Total(worn') <= MaxResets
  BY NextWorn
<1>2. /\ metaResets \in Nat /\ rolls \in Nat /\ MaxRolls \in Nat
      /\ metaResets <= rolls + 1
      /\ metaResets <= MaxRolls + (IF phase = "closed" THEN 2 ELSE 1)
      /\ phase = "mount" => metaResets = 0
  BY Constants DEF Types, Bounds, Rolled
<1>3. Rolled'
  <2>1. CASE UNCHANGED <<metaResets, rolls, phase>>
    BY <1>2, <2>1 DEF Rolled
  <2>2. CASE metaResets' = 0 /\ rolls' = rolls
    BY <1>2, <2>2 DEF Rolled
  <2>3. ASSUME NEW t \in Threads, PersistRecord(t) \/ PersistResetCounts(t) \/ MountRolls(t)
        PROVE  Rolled'
    <3>1. CASE PersistRecord(t)
      BY <1>2, <3>1 DEF PersistRecord, RollMetaZone, Rolled
    <3>2. CASE PersistResetCounts(t)
      BY <1>2, <3>2 DEF PersistResetCounts, RollMetaZone, Rolled
    <3>3. CASE MountRolls(t)
      BY <1>2, <3>3 DEF MountRolls, RollMetaZone, Rolled
    <3> QED BY <2>3, <3>1, <3>2, <3>3
  <2>4. CASE Shutdown
    BY <1>2, <2>4 DEF Rolled, Shutdown, countVars, logVars
  <2>5. \/ UNCHANGED <<metaResets, rolls, phase>>
        \/ metaResets' = 0 /\ rolls' = rolls
        \/ \E t \in Threads : PersistRecord(t) \/ PersistResetCounts(t) \/ MountRolls(t)
        \/ Shutdown
    BY DEF Next, vars, countVars, logVars, ResetZone, RestOfReset, CountTotal, ReadCounts,
           JudgeReset, WakeupWLWorker, SetCheckResetCount, Worker, WLWorker, Loop, Wait, Timeout,
           Woken, Clear, Evaluate, Judge, Migrated, Crash, Mount, New
  <2> QED BY <2>1, <2>2, <2>3, <2>4, <2>5
<1>4. \A n \in Int : Word(n) \in Nat /\ Word(n) < WordSize
  <2>1. WordSize \in Nat /\ WordSize > 0
    BY Constants
  <2> QED BY <2>1 DEF Word
<1>5. Words'
  <2>1. /\ check \in Nat /\ check < WordSize /\ WordSize \in Nat /\ 0 < WordSize
        /\ NrZones \in Nat /\ NrZones < WordSize /\ \A t \in Threads : th[t].io < WordSize
        /\ th \in [Threads -> Records]
    BY Constants DEF Types, Bounds, Words, Records
  <2>2. ASSUME NEW t \in Threads, NEW from, NEW to, Step(t, from, to)
        PROVE  \A u \in Threads : th'[u].io = th[u].io
    BY <2>1, <2>2 DEF Step, Records
  <2>3. CASE UNCHANGED <<check, th>>
    BY <2>1, <2>3 DEF Words
  <2>4. CASE check' = 0 /\ \A t \in Threads : th'[t] = Idle
    BY <2>1, <2>4, IdleType DEF Words
  <2>5. ASSUME NEW t \in Threads, NEW from, NEW to, Step(t, from, to), UNCHANGED check
        PROVE  Words'
    BY <2>1, <2>2, <2>5 DEF Words
  <2>6. ASSUME NEW t \in Threads, ReadCounts(t)
        PROVE  Words'
    <3>1. total - metaResets \in Int
      BY DEF Types
    <3>2. /\ check' = check
          /\ th' = [th EXCEPT ![t] = IF total > NrZones
                                     THEN [pc |-> "judge", io |-> Word(total - metaResets)]
                                     ELSE Idle]
      BY <2>6 DEF ReadCounts, countVars
    <3> QED BY <1>4, <2>1, <3>1, <3>2, IdleType DEF Words
  <2>7. ASSUME NEW t \in Threads, JudgeReset(t)
        PROVE  Words'
    <3>1. check' = Max({check, NrZones})
      BY <2>7 DEF JudgeReset
    <3>2. check' < WordSize
      BY <2>1, <3>1, MaxOfTwo
    <3>3. \A u \in Threads : th'[u].io = th[u].io \/ th'[u].io = 0
      BY <2>1, <2>7, IdleType DEF JudgeReset, Records
    <3> QED BY <2>1, <3>2, <3>3 DEF Words
  <2>8. ASSUME NEW t \in Threads, SetCheckResetCount(t)
        PROVE  Words'
    BY <2>1, <2>8, IdleType DEF SetCheckResetCount, Words
  <2>9. \/ UNCHANGED <<check, th>>
        \/ check' = 0 /\ \A t \in Threads : th'[t] = Idle
        \/ \E t \in Threads : (\E from, to : Step(t, from, to) /\ UNCHANGED check)
        \/ \E t \in Threads : ReadCounts(t) \/ JudgeReset(t) \/ SetCheckResetCount(t)
    BY DEF Next, vars, countVars, logVars, ResetZone, RestOfReset, CountTotal,
           WakeupWLWorker, Worker, WLWorker, Loop, Wait, Timeout, PersistRecord,
           PersistResetCounts, MountRolls, RollMetaZone,
           Woken, Clear, Evaluate, Judge, Migrated, Crash, Mount, New, Shutdown
  <2> QED BY <2>3, <2>4, <2>5, <2>6, <2>7, <2>8, <2>9
<1> QED BY <1>1, <1>3, <1>5 DEF Bounds

-----------------------------------------------------------------------------
(* The counts across mounts                                                 *)

(* The log has the counts of the last orderly shutdown.                     *)
LEMMA NextLog ==
  ASSUME Types, Bounds, Lives, Log, [Next]_vars
  PROVE  Log'
<1>1. Total(worn) <= Total(worn') /\ Total(resets) <= Total(worn)
  BY NextWorn DEF Bounds
<1>2. Total(worn) \in Nat /\ Total(worn') \in Nat
  <2>1. worn \in [IoZones -> Nat] /\ worn' \in [IoZones -> Nat]
    BY NextTypes DEF Types
  <2> QED BY <2>1, TotalNat
<1>3. CASE saved' = <<>>
  BY <1>3 DEF Log
<1>4. ASSUME saved' = saved, phase' \in {"up", "join"} => phase \in {"up", "join"}
      PROVE  Log'
  <2>1. CASE saved = <<>>
    BY <1>4, <2>1 DEF Log
  <2>2. CASE saved # <<>>
    <3>1. PICK r \in [IoZones -> Nat] : saved = <<r>> /\ Total(r) <= Total(worn)
      BY <2>2 DEF Log
    <3>2. Total(r) \in Nat
      BY TotalNat
    <3>3. Total(r) <= Total(worn')
      BY <1>1, <1>2, <3>1, <3>2
    <3>4. phase' \notin {"up", "join"}
      BY <1>4, <2>2 DEF Log
    <3> QED BY <1>4, <3>1, <3>3, <3>4 DEF Log
  <2> QED BY <2>1, <2>2
<1>5. ASSUME NEW t \in Threads, PersistResetCounts(t), saved' # <<>>
      PROVE  Log'
  <2>1. saved' = Append(saved, resets) /\ phase = "join" /\ phase' = "closed"
    BY <1>5 DEF PersistResetCounts, RollMetaZone
  <2>2. saved = <<>>
    BY <2>1 DEF Log
  <2>3. saved' = <<resets>>
    BY <2>1, <2>2
  <2>4. resets \in [IoZones -> Nat] /\ Total(resets) \in Nat
    BY TotalNat DEF Types
  <2>5. Total(resets) <= Total(worn')
    BY <1>1, <1>2, <2>4
  <2> QED BY <2>1, <2>3, <2>4, <2>5 DEF Log
<1>6. \/ saved' = <<>>
      \/ saved' = saved /\ (phase' \in {"up", "join"} => phase \in {"up", "join"})
      \/ \E t \in Threads : PersistResetCounts(t)
  BY DEF Next, vars, countVars, logVars, ResetZone, RestOfReset, CountTotal, ReadCounts, JudgeReset,
         WakeupWLWorker, SetCheckResetCount, Worker, WLWorker, Loop, Wait, Timeout, Woken, Clear,
         Evaluate, Judge, Migrated, Crash, Mount, Shutdown, PersistRecord, MountRolls, RollMetaZone
<1> QED BY <1>3, <1>4, <1>5, <1>6

(* What Decoded depends on.                                                 *)
LEMMA DecodedSame ==
  ASSUME saved' = saved
  PROVE  Decoded' = Decoded
BY DEF Decoded

(* The life of the process, its threads and its counts go together.         *)
LEMMA NextLives ==
  ASSUME Types, Log, Lives, [Next]_vars
  PROVE  Lives'
<1>1. ASSUME phase' = "closed"
      PROVE  at' = "done"
  <2>1. CASE phase = "closed"
    <3>1. at = "done"
      BY <2>1 DEF Lives
    <3> QED BY <1>1, <2>1, <3>1
        DEF Next, vars, ResetZone, RestOfReset, CountTotal, ReadCounts, JudgeReset, WakeupWLWorker,
            SetCheckResetCount, Worker, WLWorker, Loop, Wait, Timeout, Woken, Clear, Evaluate,
            Judge, Migrated, Crash, Mount, Shutdown, PersistRecord, PersistResetCounts, MountRolls
  <2>2. CASE phase # "closed"
    BY <1>1, <2>2
       DEF Next, vars, ResetZone, RestOfReset, CountTotal, ReadCounts, JudgeReset, WakeupWLWorker,
           SetCheckResetCount, Worker, WLWorker, Loop, Wait, Timeout, Woken, Clear, Evaluate,
           Judge, Migrated, Crash, Mount, Shutdown, PersistRecord, PersistResetCounts, MountRolls
  <2> QED BY <2>1, <2>2
<1>2. ASSUME phase' = "mount"
      PROVE  /\ resets' = Decoded' /\ sleep'
             /\ at' \in {"loop", "lock", "wait", "woken", "done"}
             /\ \A t \in Threads : th'[t] = Idle
  <2>1. CASE Mount
    <3>1. saved' = saved
      BY <2>1 DEF Mount, logVars
    <3> QED BY <2>1, <3>1, DecodedSame DEF Mount, New
  <2>2. CASE ~ Mount
    <3>1. phase = "mount"
      BY <1>2, <2>2
         DEF Next, vars, ResetZone, RestOfReset, CountTotal, ReadCounts, JudgeReset, WakeupWLWorker,
             SetCheckResetCount, Worker, WLWorker, Loop, Wait, Timeout, Woken, Clear, Evaluate,
             Judge, Migrated, Crash, Shutdown, PersistRecord, PersistResetCounts, MountRolls
    <3>2. /\ resets = Decoded /\ sleep /\ at \in {"loop", "lock", "wait", "woken", "done"}
          /\ \A t \in Threads : th[t] = Idle
      BY <3>1 DEF Lives
    <3>3. \A t \in Threads : ~ RestOfReset(t)
      BY <3>2, IdleType DEF RestOfReset, CountTotal, ReadCounts, JudgeReset, WakeupWLWorker,
                            SetCheckResetCount, Step
    <3>4. Loop \/ Wait \/ Timeout \/ Woken \/ UNCHANGED vars
      BY <1>2, <2>2, <3>1, <3>2, <3>3
         DEF Next, ResetZone, MayReset, Worker, WLWorker, Clear, Evaluate, Judge, Migrated, Crash,
             Shutdown, PersistRecord, PersistResetCounts, MountRolls
    <3>5. UNCHANGED <<resets, saved, sleep, th>>
      BY <3>4 DEF Loop, Wait, Timeout, Woken, Worker, vars, countVars, logVars
    <3>6. at' \in {"loop", "lock", "wait", "woken", "done"}
      BY <3>2, <3>4 DEF Loop, Wait, Timeout, Woken, Worker, vars
    <3> QED BY <3>2, <3>5, <3>6, DecodedSame
  <2> QED BY <2>1, <2>2
<1> QED BY <1>1, <1>2 DEF Lives

(* The counts stay true, and are the ones a mount finds.                    *)
LEMMA NextCounts ==
  ASSUME Types, Log, Lives, CountsTrue, [Next]_vars
  PROVE  CountsTrue'
<1>1. ASSUME UNCHANGED <<resets, saved, worn, lost>>, phase' = "closed" <=> phase = "closed"
      PROVE  CountsTrue'
  BY <1>1, DecodedSame DEF CountsTrue
<1>2. ASSUME NEW t \in Threads, NEW z \in IoZones, ResetZone(t, z)
      PROVE  CountsTrue'
  <2>1. phase # "closed"
    BY <1>2 DEF ResetZone, MayReset, Lives
  <2>2. /\ resets' = [resets EXCEPT ![z] = @ + 1] /\ worn' = [worn EXCEPT ![z] = @ + 1]
        /\ UNCHANGED <<phase, lost>>
    BY <1>2 DEF ResetZone
  <2>3. resets \in [IoZones -> Nat] /\ worn \in [IoZones -> Nat]
    BY DEF Types
  <2>4. CASE lost
    <3>1. \A y \in IoZones : resets[y] <= worn[y]
      BY <2>1, <2>4 DEF CountsTrue
    <3>2. \A y \in IoZones : resets'[y] <= worn'[y]
      BY <2>2, <2>3, <3>1
    <3> QED BY <2>1, <2>2, <2>4, <3>2 DEF CountsTrue
  <2>5. CASE ~ lost
    <3>1. resets = worn
      BY <2>1, <2>5 DEF CountsTrue
    <3>2. resets' = worn'
      BY <2>2, <2>3, <3>1
    <3> QED BY <2>1, <2>2, <2>5, <3>2 DEF CountsTrue
  <2> QED BY <2>4, <2>5
<1>3. ASSUME saved' = <<>>, phase' = "closed", lost', UNCHANGED worn
      PROVE  CountsTrue'
  <2>1. Decoded' = Zero
    BY <1>3, DecodedEmpty DEF Decoded, Decodes
  <2>2. \A z \in IoZones : Zero[z] <= worn[z]
    BY DEF Types, Zero
  <2> QED BY <1>3, <2>1, <2>2 DEF CountsTrue
<1>4. ASSUME NEW t \in Threads, PersistResetCounts(t)
      PROVE  CountsTrue'
  <2>1. phase = "join" /\ phase' = "closed" /\ UNCHANGED <<resets, worn>>
    BY <1>4 DEF PersistResetCounts
  <2>2. CASE room > 0
    <3>1. saved' = Append(saved, resets) /\ saved = <<>>
      BY <1>4, <2>1, <2>2 DEF PersistResetCounts, Log
    <3>2. saved' = <<resets>>
      BY <3>1
    <3>3. Decoded' = resets
      BY <3>2, DecodedOne DEF Decoded, Decodes
    <3>4. lost' = lost
      <4>1. lost' = (lost \/ room = 0) /\ room # 0 /\ lost \in BOOLEAN
        BY <1>4, <2>2 DEF PersistResetCounts, Types
      <4> QED BY <4>1
    <3> QED BY <2>1, <3>3, <3>4 DEF CountsTrue
  <2>3. CASE ~ (room > 0)
    <3>1. saved' = <<>> /\ lost'
      <4>1. room = 0
        BY <2>3 DEF Types
      <4> QED BY <1>4, <2>3, <4>1 DEF PersistResetCounts, RollMetaZone
    <3> QED BY <1>3, <2>1, <3>1
  <2> QED BY <2>2, <2>3
<1>5. ASSUME Crash
      PROVE  CountsTrue'
  <2>1. /\ phase # "closed" /\ phase' = "closed" /\ UNCHANGED <<saved, worn>>
        /\ lost' = (lost \/ phase # "mount") /\ resets' = Zero
    BY <1>5 DEF Crash, New, logVars
  <2>2. CASE phase = "mount"
    <3>1. lost' = lost /\ resets = Decoded
      BY <2>1, <2>2 DEF Lives, Types
    <3> QED BY <2>1, <3>1, DecodedSame DEF CountsTrue
  <2>3. CASE phase # "mount"
    <3>1. phase \in {"up", "join"}
      BY <2>1, <2>3 DEF Types
    <3>2. saved' = <<>> /\ lost'
      BY <2>1, <2>3, <3>1 DEF Log
    <3> QED BY <1>3, <2>1, <3>2
  <2> QED BY <2>2, <2>3
<1>6. ASSUME Mount
      PROVE  CountsTrue'
  <2>1. /\ phase = "closed" /\ phase' = "mount" /\ resets' = Decoded
        /\ UNCHANGED <<saved, worn, lost>>
    BY <1>6 DEF Mount, New, logVars
  <2> QED BY <2>1 DEF CountsTrue
<1>7. ASSUME NEW t \in Threads, PersistRecord(t) \/ MountRolls(t)
      PROVE  CountsTrue'
  <2>1. phase # "closed" /\ phase' # "closed" /\ UNCHANGED <<resets, worn, lost>>
    BY <1>7 DEF PersistRecord, MountRolls
  <2> QED BY <2>1 DEF CountsTrue
<1>8. CASE UNCHANGED vars \/ (\E t \in Threads : RestOfReset(t)) \/ WLWorker \/ Shutdown
  <2>1. CASE \E t \in Threads : RestOfReset(t)
    BY <1>1, <2>1 DEF countVars, logVars, RestOfReset, CountTotal, ReadCounts, JudgeReset,
                      WakeupWLWorker, SetCheckResetCount
  <2>2. CASE WLWorker
    BY <1>1, <2>2 DEF logVars, Worker, WLWorker, Loop, Wait, Timeout, Woken, Clear, Evaluate,
                      Judge, Migrated
  <2>3. CASE UNCHANGED vars \/ Shutdown
    BY <1>1, <2>3 DEF vars, countVars, logVars, Shutdown
  <2> QED BY <1>8, <2>1, <2>2, <2>3
<1> QED BY <1>2, <1>4, <1>5, <1>6, <1>7, <1>8 DEF Next

-----------------------------------------------------------------------------
(* The invariant, and what follows                                          *)

(* WearInv is an invariant of the specification.                            *)
LEMMA WearInvariant == Spec => []WearInv
<1>1. ASSUME WearInv, [Next]_vars
      PROVE  WearInv'
  BY <1>1, NextTypes, NextLoads, NextSum, NextBounds, NextLog, NextLives, NextCounts DEF WearInv
<1> QED BY <1>1, InitWear, PTL DEF Spec

(* The counters of the reset counts stay within a uint32_t, the ratio stays *)
(* positive and the counts of JudgeQpsTrend within their limits, for every  *)
(* number of zones, threads and mounts.                                     *)
THEOREM CountersBounded == Spec => []TypeOK
<1>1. WearInv => TypeOK
  <2> SUFFICES ASSUME WearInv PROVE TypeOK
    OBVIOUS
  <2> USE DEF WearInv
  <2>1. /\ resets \in [IoZones -> Nat] /\ worn \in [IoZones -> Nat]
        /\ Total(resets) <= Total(worn) /\ Total(worn) <= MaxResets
    BY DEF Types, Bounds
  <2>2. /\ Total(resets) \in Nat /\ Total(worn) \in Nat /\ MaxResets \in Nat
        /\ \A z \in IoZones : resets[z] <= Total(resets) /\ worn[z] <= Total(worn)
    BY <2>1, TotalNat, Constants
  <2>3. resets \in [IoZones -> 0..MaxResets] /\ worn \in [IoZones -> 0..MaxResets]
    BY <2>1, <2>2
  <2>4. {metaResets, total, check} \subseteq 0..(WordSize - 1)
    <3>1. /\ metaResets \in Nat /\ total \in Nat /\ check \in Nat /\ MaxRolls \in Nat
          /\ WordSize \in Nat /\ WordSize > MaxResets + MaxRolls + 2
          /\ metaResets <= MaxRolls + 2 /\ check < WordSize
      BY Constants DEF Types, Bounds, Rolled, Words
    <3>2. total + Cardinality(Counting) = Total(resets) + metaResets
      BY DEF Sum
    <3>3. Cardinality(Counting) \in Nat
      BY CountingNat
    <3> QED BY <2>1, <2>2, <3>1, <3>2, <3>3
  <2>5. ratio[1] \in Nat \ {0} /\ ratio[2] \in Nat
    BY DEF Types
  <2>6. qps.fail \in 0..FailLimit /\ qps.succ \in 0..SuccessLimit
    BY DEF Loads, LoadsOK, Qps
  <2> QED BY <2>3, <2>4, <2>5, <2>6 DEF TypeOK, Types, Places
<1> QED BY <1>1, WearInvariant, PTL

(* total_reset_count_ is the sum of the zones' counts but for the resets    *)
(* between their two increments, for any number of threads and mounts.      *)
THEOREM TotalIsTheSum == Spec => []TotalAgrees
<1>1. WearInv => TotalAgrees
  BY DEF WearInv, Sum, Counting, TotalAgrees
<1> QED BY <1>1, WearInvariant, PTL

(* Reset counts survive unmount and mount, a crash before the first roll    *)
(* included, unless they are lost as a whole; then they are too small.      *)
THEOREM CountsAreTrue == Spec => []CountsTrue
<1>1. WearInv => CountsTrue
  BY DEF WearInv
<1> QED BY <1>1, WearInvariant, PTL

(* JudgeQpsTrend never raises its thresholds to the largest load, however   *)
(* many failures it counts.                                                 *)
THEOREM ThresholdsBelowPeak == Spec => []PeakIsNotIdle
<1>1. WearInv => PeakIsNotIdle
  BY DEF WearInv, Loads, LoadsOK, PeakIsNotIdle
<1> QED BY <1>1, WearInvariant, PTL
=============================================================================
