------------------------------- MODULE FoldProofs ------------------------------
(***************************************************************************)
(* What the maxima and sums of the models compute, for every finite set.   *)
(* SumFunctionOnSet(f, S) adds f[x] for the elements x of S in an order    *)
(* that CHOOSE picks: the lemmas say that the order does not matter and    *)
(* what a change of one value does to the sum.  Induction is by the least  *)
(* counterexample.                                                         *)
(***************************************************************************)
EXTENDS Integers, Functions, FiniteSets, FiniteSetsExt, FiniteSetTheorems,
        WellFoundedInduction, TLAPS

Pick(s) == CHOOSE x \in s : TRUE

(* g computes the sums of f over the subsets of S.                          *)
Added(f, g, s) == IF s = {} THEN 0 ELSE f[Pick(s)] + g[s \ {Pick(s)}]
Sums(g, f, S) == g = [s \in SUBSET S |-> Added(f, g, s)]
SumTable(f, S) == CHOOSE g : Sums(g, f, S)

-----------------------------------------------------------------------------
(* A set of numbers that is not empty has a least one.                      *)
LEMMA LeastNumber ==
  ASSUME NEW N \in SUBSET Nat, N # {}
  PROVE  \E x \in N : \A y \in N : x <= y
<1>1. PICK x \in N : \A y \in N : ~ (<<y, x>> \in OpToRel(<, Nat))
  BY WFMin, NatLessThanWellFounded
<1>2. \A y \in N : ~ (y < x)
  BY <1>1 DEF OpToRel
<1> QED BY <1>2

(* A finite set of integers that is not empty has a largest one.            *)
LEMMA MaxFacts ==
  ASSUME NEW S \in SUBSET Int, IsFiniteSet(S), S # {}
  PROVE  Max(S) \in S /\ \A x \in S : x <= Max(S)
<1> DEFINE top(s) == \E m \in s : \A x \in s : m >= x
           bad == {s \in SUBSET S : s # {} /\ ~ top(s)}
           N == {Cardinality(s) : s \in bad}
<1>1. \A s \in SUBSET S : IsFiniteSet(s) /\ Cardinality(s) \in Nat
  BY FS_Subset, FS_CardinalityType
<1>2. ASSUME bad # {} PROVE FALSE
  <2>1. N \in SUBSET Nat /\ N # {}
    BY <1>1, <1>2
  <2> HIDE DEF N
  <2>2. PICK n \in N : \A y \in N : n <= y
    BY <2>1, LeastNumber
  <2>3. PICK s \in bad : n = Cardinality(s)
    BY <2>2 DEF N
  <2>4. PICK e \in s : TRUE
    BY <2>3
  <2> DEFINE r == s \ {e}
  <2>5. r \in SUBSET S /\ s \in SUBSET S /\ ~ top(s)
    BY <2>3
  <2>6. Cardinality(r) = Cardinality(s) - 1
    BY <1>1, <2>4, <2>5, FS_RemoveElement
  <2>7. r \notin bad
    <3>1. ASSUME r \in bad PROVE FALSE
      <4>1. n <= Cardinality(r)
        BY <2>2, <3>1 DEF N
      <4> HIDE DEF r
      <4> QED BY <1>1, <2>3, <2>5, <2>6, <4>1
    <3> QED BY <3>1
  <2>8. CASE r = {}
    BY <2>4, <2>5, <2>8
  <2>9. CASE r # {}
    <3>1. PICK m \in r : \A x \in r : m >= x
      BY <2>5, <2>7, <2>9
    <3>2. CASE m >= e
      BY <2>5, <3>1, <3>2
    <3>3. CASE ~ (m >= e)
      <4>1. \A x \in s : e >= x
        BY <2>4, <2>5, <3>1, <3>3
      <4> QED BY <2>4, <2>5, <4>1
    <3> QED BY <3>2, <3>3
  <2> QED BY <2>8, <2>9
<1>3. PICK m \in S : \A x \in S : m >= x
  BY <1>2
<1>4. Max(S) \in S /\ \A x \in S : Max(S) >= x
  BY <1>3 DEF Max
<1> QED BY <1>4

(* Pick takes an element, and what is left is smaller.                      *)
LEMMA PickFacts ==
  ASSUME NEW s, IsFiniteSet(s), s # {}
  PROVE  /\ Pick(s) \in s /\ IsFiniteSet(s \ {Pick(s)})
         /\ Cardinality(s) \in Nat /\ Cardinality(s \ {Pick(s)}) \in Nat
         /\ Cardinality(s \ {Pick(s)}) < Cardinality(s)
<1>1. Pick(s) \in s
  BY DEF Pick
<1>2. /\ IsFiniteSet(s \ {Pick(s)})
      /\ Cardinality(s \ {Pick(s)}) = Cardinality(s) - 1
  BY <1>1, FS_RemoveElement
<1>3. Cardinality(s) \in Nat /\ Cardinality(s \ {Pick(s)}) \in Nat
  BY <1>2, FS_CardinalityType
<1> QED BY <1>1, <1>2, <1>3

(* Two tables agree wherever both are defined.                              *)
LEMMA SumsUnique ==
  ASSUME NEW f, NEW g, NEW h, NEW S, NEW T, IsFiniteSet(S), Sums(g, f, S), Sums(h, f, T)
  PROVE  \A s \in SUBSET (S \cap T) : g[s] = h[s]
<1> DEFINE bad == {s \in SUBSET (S \cap T) : g[s] # h[s]}
           N == {Cardinality(s) : s \in bad}
<1>1. \A s \in SUBSET S : IsFiniteSet(s) /\ Cardinality(s) \in Nat
  BY FS_Subset, FS_CardinalityType
<1>2. ASSUME bad # {} PROVE FALSE
  <2>1. N \in SUBSET Nat /\ N # {}
    BY <1>1, <1>2
  <2> HIDE DEF N
  <2>2. PICK n \in N : \A y \in N : n <= y
    BY <2>1, LeastNumber
  <2>3. PICK s \in bad : n = Cardinality(s)
    BY <2>2 DEF N
  <2>4. s \in SUBSET S /\ s \in SUBSET T /\ IsFiniteSet(s) /\ g[s] # h[s]
    BY <1>1, <2>3
  <2>5. g[s] = Added(f, g, s) /\ h[s] = Added(f, h, s)
    BY <2>4 DEF Sums
  <2>6. s # {}
    BY <2>4, <2>5 DEF Added
  <2> DEFINE r == s \ {Pick(s)}
  <2>7. Cardinality(r) < Cardinality(s) /\ Cardinality(r) \in Nat /\ Cardinality(s) \in Nat
    BY <2>4, <2>6, PickFacts
  <2>8. r \in SUBSET (S \cap T)
    BY <2>4
  <2>9. r \notin bad
    <3>1. ASSUME r \in bad PROVE FALSE
      <4>1. Cardinality(r) \in N
        BY <3>1 DEF N
      <4>2. n <= Cardinality(r)
        BY <2>2, <4>1
      <4> HIDE DEF r
      <4> QED BY <2>3, <2>7, <4>2
    <3> QED BY <3>1
  <2>10. g[r] = h[r]
    BY <2>8, <2>9
  <2> QED BY <2>4, <2>5, <2>6, <2>10 DEF Added
<1> QED BY <1>2

(* Every finite set has a table.                                            *)
LEMMA SumsExist ==
  ASSUME NEW f, NEW S, IsFiniteSet(S)
  PROVE  Sums(SumTable(f, S), f, S)
<1> DEFINE ok(s) == \E g : Sums(g, f, s)
           bad == {s \in SUBSET S : ~ ok(s)}
           N == {Cardinality(s) : s \in bad}
<1>1. \A s \in SUBSET S : IsFiniteSet(s) /\ Cardinality(s) \in Nat
  BY FS_Subset, FS_CardinalityType
<1>2. ASSUME bad # {} PROVE FALSE
  <2>1. N \in SUBSET Nat /\ N # {}
    BY <1>1, <1>2
  <2> HIDE DEF N
  <2>2. PICK n \in N : \A y \in N : n <= y
    BY <2>1, LeastNumber
  <2>3. PICK s \in bad : n = Cardinality(s)
    BY <2>2 DEF N
  <2>4. s \in SUBSET S /\ IsFiniteSet(s) /\ ~ ok(s)
    BY <1>1, <2>3
  <2> HIDE DEF ok
  <2>5. ASSUME NEW r \in SUBSET s, r # s
        PROVE  IsFiniteSet(r) /\ Sums(SumTable(f, r), f, r)
    <3>1. r \in SUBSET S /\ IsFiniteSet(r)
      BY <1>1, <2>4
    <3>2. Cardinality(r) < Cardinality(s)
      <4>1. Cardinality(r) <= Cardinality(s) /\ (Cardinality(s) = Cardinality(r) => s = r)
        BY <2>4, FS_Subset
      <4> QED BY <1>1, <2>4, <2>5, <3>1, <4>1
    <3>3. r \notin bad
      <4>1. ASSUME r \in bad PROVE FALSE
        <5>1. n <= Cardinality(r)
          BY <2>2, <4>1 DEF N
        <5> QED BY <1>1, <2>3, <2>4, <3>1, <3>2, <5>1
      <4> QED BY <4>1
    <3>4. \E g : Sums(g, f, r)
      BY <3>1, <3>3 DEF ok
    <3> QED BY <3>1, <3>4 DEF SumTable
  <2> DEFINE val(r) == SumTable(f, r)[r]
             G == [r \in SUBSET s |-> IF r = {} THEN 0 ELSE f[Pick(r)] + val(r \ {Pick(r)})]
  <2>6. ASSUME NEW r \in SUBSET s, r # s
        PROVE  G[r] = val(r)
    <3>1. Sums(SumTable(f, r), f, r) /\ IsFiniteSet(r)
      BY <2>5, <2>6
    <3>2. val(r) = Added(f, SumTable(f, r), r)
      BY <3>1 DEF Sums
    <3>3. CASE r = {}
      BY <3>2, <3>3 DEF Added
    <3>4. CASE r # {}
      <4> DEFINE q == r \ {Pick(r)}
      <4>1. Pick(r) \in r
        BY <3>4 DEF Pick
      <4>2. q \in SUBSET s /\ q # s /\ q \in SUBSET (r \cap q)
        BY <2>6, <4>1
      <4>3. Sums(SumTable(f, q), f, q)
        BY <2>5, <4>2
      <4>4. SumTable(f, r)[q] = SumTable(f, q)[q]
        BY <3>1, <4>2, <4>3, SumsUnique
      <4> QED BY <3>2, <3>4, <4>4 DEF Added
    <3> QED BY <3>3, <3>4
  <2>7. \A r \in SUBSET s : G[r] = Added(f, G, r)
    <3> SUFFICES ASSUME NEW r \in SUBSET s PROVE G[r] = Added(f, G, r)
      OBVIOUS
    <3>1. CASE r = {}
      BY <3>1 DEF Added
    <3>2. CASE r # {}
      <4>1. Pick(r) \in r
        BY <3>2 DEF Pick
      <4>2. r \ {Pick(r)} \in SUBSET s /\ r \ {Pick(r)} # s
        BY <4>1
      <4>3. G[r \ {Pick(r)}] = val(r \ {Pick(r)})
        BY <2>6, <4>2
      <4>4. G[r] = f[Pick(r)] + val(r \ {Pick(r)})
        BY <3>2
      <4> HIDE DEF G, val
      <4> QED BY <3>2, <4>3, <4>4 DEF Added
    <3> QED BY <3>1, <3>2
  <2>8. G = [r \in SUBSET s |-> G[r]]
    OBVIOUS
  <2> HIDE DEF G
  <2>9. Sums(G, f, s)
    BY <2>7, <2>8 DEF Sums
  <2> QED BY <2>4, <2>9 DEF ok
<1>3. ok(S)
  BY <1>2
<1> QED BY <1>3 DEF SumTable

-----------------------------------------------------------------------------
(* The sum of the library is the entry of the table for the whole set.      *)
LEMMA SumIsTable ==
  ASSUME NEW f, NEW S
  PROVE  SumFunctionOnSet(f, S) = SumTable(f, S)[S]
BY DEF SumFunctionOnSet, FoldFunctionOnSet, MapThenFoldSet, SumTable, Sums, Added, Pick

(* The sum over nothing.                                                    *)
LEMMA SumEmpty ==
  ASSUME NEW f
  PROVE  SumFunctionOnSet(f, {}) = 0
<1>1. Sums(SumTable(f, {}), f, {})
  BY FS_EmptySet, SumsExist
<1>2. SumTable(f, {})[{}] = 0
  BY <1>1 DEF Sums, Added
<1> QED BY <1>2, SumIsTable

(* The element that is picked first.                                        *)
LEMMA SumPicked ==
  ASSUME NEW f, NEW S, IsFiniteSet(S), S # {}
  PROVE  SumFunctionOnSet(f, S) = f[Pick(S)] + SumFunctionOnSet(f, S \ {Pick(S)})
<1> DEFINE r == S \ {Pick(S)}
<1>1. Sums(SumTable(f, S), f, S)
  BY SumsExist
<1>2. IsFiniteSet(r)
  BY PickFacts
<1>3. Sums(SumTable(f, r), f, r)
  BY <1>2, SumsExist
<1>4. SumTable(f, S)[r] = SumTable(f, r)[r]
  <2>1. r \in SUBSET (S \cap r)
    OBVIOUS
  <2> HIDE DEF r
  <2> QED BY <1>1, <1>3, <2>1, SumsUnique
<1>5. SumTable(f, S)[S] = f[Pick(S)] + SumTable(f, S)[r]
  BY <1>1 DEF Sums, Added
<1> QED BY <1>4, <1>5, SumIsTable

(* A sum of integers is an integer.                                         *)
LEMMA SumType ==
  ASSUME NEW f, NEW S, IsFiniteSet(S), \A x \in S : f[x] \in Int
  PROVE  SumFunctionOnSet(f, S) \in Int
<1> DEFINE bad == {s \in SUBSET S : SumFunctionOnSet(f, s) \notin Int}
           N == {Cardinality(s) : s \in bad}
<1>1. \A s \in SUBSET S : IsFiniteSet(s) /\ Cardinality(s) \in Nat
  BY FS_Subset, FS_CardinalityType
<1>2. ASSUME bad # {} PROVE FALSE
  <2>1. N \in SUBSET Nat /\ N # {}
    BY <1>1, <1>2
  <2> HIDE DEF N
  <2>2. PICK n \in N : \A y \in N : n <= y
    BY <2>1, LeastNumber
  <2>3. PICK s \in bad : n = Cardinality(s)
    BY <2>2 DEF N
  <2>4. s \in SUBSET S /\ IsFiniteSet(s) /\ SumFunctionOnSet(f, s) \notin Int
    BY <1>1, <2>3
  <2>5. s # {}
    BY <2>4, SumEmpty
  <2> DEFINE r == s \ {Pick(s)}
  <2>6. Pick(s) \in s /\ Cardinality(r) < Cardinality(s)
    BY <2>4, <2>5, PickFacts
  <2>7. SumFunctionOnSet(f, s) = f[Pick(s)] + SumFunctionOnSet(f, r)
    BY <2>4, <2>5, SumPicked
  <2>8. r \in SUBSET S
    BY <2>4
  <2> HIDE DEF r
  <2>9. r \notin bad
    <3>1. ASSUME r \in bad PROVE FALSE
      <4>1. n <= Cardinality(r)
        BY <2>2, <3>1 DEF N
      <4> QED BY <1>1, <2>3, <2>4, <2>6, <2>8, <4>1
    <3> QED BY <3>1
  <2>10. SumFunctionOnSet(f, r) \in Int /\ f[Pick(s)] \in Int
    BY <2>4, <2>6, <2>8, <2>9
  <2> QED BY <2>4, <2>7, <2>10
<1> QED BY <1>2

(* Any element may be added last: the order does not matter.                *)
LEMMA SumRemove ==
  ASSUME NEW f, NEW S, IsFiniteSet(S), \A x \in S : f[x] \in Int, NEW e \in S
  PROVE  SumFunctionOnSet(f, S) = f[e] + SumFunctionOnSet(f, S \ {e})
<1> DEFINE sum(s) == SumFunctionOnSet(f, s)
           ok(s) == \A x \in s : sum(s) = f[x] + sum(s \ {x})
           bad == {s \in SUBSET S : ~ ok(s)}
           N == {Cardinality(s) : s \in bad}
<1>1. \A s \in SUBSET S : IsFiniteSet(s) /\ Cardinality(s) \in Nat
  BY FS_Subset, FS_CardinalityType
<1>2. ASSUME bad # {} PROVE FALSE
  <2>1. N \in SUBSET Nat /\ N # {}
    BY <1>1, <1>2
  <2> HIDE DEF N
  <2>2. PICK n \in N : \A y \in N : n <= y
    BY <2>1, LeastNumber
  <2>3. PICK s \in bad : n = Cardinality(s)
    BY <2>2 DEF N
  <2>4. s \in SUBSET S /\ IsFiniteSet(s) /\ ~ ok(s)
    BY <1>1, <2>3
  <2>5. PICK x \in s : sum(s) # f[x] + sum(s \ {x})
    BY <2>4
  <2>6. ASSUME NEW r \in SUBSET s, r # s PROVE ok(r)
    <3>1. Cardinality(r) <= Cardinality(s) /\ (Cardinality(s) = Cardinality(r) => s = r)
      BY <2>4, FS_Subset
    <3>2. r \in SUBSET S
      BY <2>4
    <3>3. r \notin bad
      <4>1. ASSUME r \in bad PROVE FALSE
        <5>1. n <= Cardinality(r)
          BY <2>2, <4>1 DEF N
        <5> QED BY <1>1, <2>3, <2>4, <2>6, <3>1, <3>2, <5>1
      <4> QED BY <4>1
    <3> QED BY <3>2, <3>3
  <2> DEFINE p == Pick(s)
             q == (s \ {p}) \ {x}
  <2>7. p \in s /\ sum(s) = f[p] + sum(s \ {p})
    BY <2>4, <2>5, PickFacts, SumPicked
  <2> HIDE DEF p
  <2>8. x # p
    BY <2>5, <2>7
  <2>9. sum(s \ {p}) = f[x] + sum(q)
    <3>1. s \ {p} \in SUBSET s /\ s \ {p} # s /\ x \in s \ {p}
      BY <2>7, <2>8
    <3> QED BY <2>6, <3>1
  <2>10. sum(s \ {x}) = f[p] + sum(q)
    <3>1. s \ {x} \in SUBSET s /\ s \ {x} # s /\ p \in s \ {x}
      BY <2>7, <2>8
    <3>2. (s \ {x}) \ {p} = q
      OBVIOUS
    <3>3. sum(s \ {x}) = f[p] + sum((s \ {x}) \ {p})
      BY <2>6, <3>1
    <3> QED BY <3>2, <3>3
  <2>11. f[p] \in Int /\ f[x] \in Int /\ sum(q) \in Int
    <3>1. q \in SUBSET S
      BY <2>4
    <3> HIDE DEF q
    <3> QED BY <1>1, <2>4, <2>7, <3>1, SumType
  <2> HIDE DEF sum, q
  <2> QED BY <2>5, <2>7, <2>9, <2>10, <2>11
<1>3. ok(S)
  BY <1>2
<1> QED BY <1>3

(* Functions with the same values have the same sum.                        *)
LEMMA SumSame ==
  ASSUME NEW f, NEW h, NEW S, IsFiniteSet(S), \A x \in S : f[x] = h[x]
  PROVE  SumFunctionOnSet(f, S) = SumFunctionOnSet(h, S)
<1> DEFINE bad == {s \in SUBSET S : SumFunctionOnSet(f, s) # SumFunctionOnSet(h, s)}
           N == {Cardinality(s) : s \in bad}
<1>1. \A s \in SUBSET S : IsFiniteSet(s) /\ Cardinality(s) \in Nat
  BY FS_Subset, FS_CardinalityType
<1>2. ASSUME bad # {} PROVE FALSE
  <2>1. N \in SUBSET Nat /\ N # {}
    BY <1>1, <1>2
  <2> HIDE DEF N
  <2>2. PICK n \in N : \A y \in N : n <= y
    BY <2>1, LeastNumber
  <2>3. PICK s \in bad : n = Cardinality(s)
    BY <2>2 DEF N
  <2>4. s \in SUBSET S /\ IsFiniteSet(s) /\ SumFunctionOnSet(f, s) # SumFunctionOnSet(h, s)
    BY <1>1, <2>3
  <2>5. s # {}
    BY <2>4, SumEmpty
  <2> DEFINE r == s \ {Pick(s)}
  <2>6. Pick(s) \in s /\ Cardinality(r) < Cardinality(s)
    BY <2>4, <2>5, PickFacts
  <2>7. /\ SumFunctionOnSet(f, s) = f[Pick(s)] + SumFunctionOnSet(f, r)
        /\ SumFunctionOnSet(h, s) = h[Pick(s)] + SumFunctionOnSet(h, r)
    BY <2>4, <2>5, SumPicked
  <2>8. r \in SUBSET S
    BY <2>4
  <2> HIDE DEF r
  <2>9. r \notin bad
    <3>1. ASSUME r \in bad PROVE FALSE
      <4>1. n <= Cardinality(r)
        BY <2>2, <3>1 DEF N
      <4> QED BY <1>1, <2>3, <2>4, <2>6, <2>8, <4>1
    <3> QED BY <3>1
  <2>10. SumFunctionOnSet(f, r) = SumFunctionOnSet(h, r) /\ f[Pick(s)] = h[Pick(s)]
    BY <2>4, <2>6, <2>8, <2>9
  <2> QED BY <2>4, <2>7, <2>10
<1> QED BY <1>2

(* Two functions that differ in one place.                                  *)
LEMMA SumUpdate ==
  ASSUME NEW S, IsFiniteSet(S), NEW f \in [S -> Int], NEW h \in [S -> Int], NEW e \in S,
         \A x \in S : x # e => h[x] = f[x]
  PROVE  SumFunctionOnSet(h, S) = SumFunctionOnSet(f, S) - f[e] + h[e]
<1> DEFINE r == S \ {e}
<1>2. IsFiniteSet(r)
  BY FS_RemoveElement
<1>3. SumFunctionOnSet(h, S) = h[e] + SumFunctionOnSet(h, r)
  BY SumRemove
<1>4. SumFunctionOnSet(f, S) = f[e] + SumFunctionOnSet(f, r)
  BY SumRemove
<1>5. SumFunctionOnSet(h, r) = SumFunctionOnSet(f, r)
  BY <1>2, SumSame
<1>6. SumFunctionOnSet(f, r) \in Int /\ f[e] \in Int /\ h[e] \in Int
  BY <1>2, SumType
<1> QED BY <1>3, <1>4, <1>5, <1>6

(* A sum of natural numbers is one, and no less than any of them.           *)
LEMMA SumNat ==
  ASSUME NEW f, NEW S, IsFiniteSet(S), \A x \in S : f[x] \in Nat
  PROVE  SumFunctionOnSet(f, S) \in Nat /\ \A x \in S : f[x] <= SumFunctionOnSet(f, S)
<1> DEFINE sum(s) == SumFunctionOnSet(f, s)
           bad == {s \in SUBSET S : sum(s) \notin Nat}
           N == {Cardinality(s) : s \in bad}
<1>1. \A s \in SUBSET S : IsFiniteSet(s) /\ Cardinality(s) \in Nat
  BY FS_Subset, FS_CardinalityType
<1>2. ASSUME bad # {} PROVE FALSE
  <2>1. N \in SUBSET Nat /\ N # {}
    BY <1>1, <1>2
  <2> HIDE DEF N
  <2>2. PICK n \in N : \A y \in N : n <= y
    BY <2>1, LeastNumber
  <2>3. PICK s \in bad : n = Cardinality(s)
    BY <2>2 DEF N
  <2>4. s \in SUBSET S /\ IsFiniteSet(s) /\ sum(s) \notin Nat
    BY <1>1, <2>3
  <2>5. s # {}
    BY <2>4, SumEmpty
  <2> DEFINE r == s \ {Pick(s)}
  <2>6. Pick(s) \in s /\ Cardinality(r) < Cardinality(s)
    BY <2>4, <2>5, PickFacts
  <2>7. sum(s) = f[Pick(s)] + sum(r)
    BY <2>4, <2>5, SumPicked
  <2>8. r \in SUBSET S
    BY <2>4
  <2> HIDE DEF r, sum
  <2>9. r \notin bad
    <3>1. ASSUME r \in bad PROVE FALSE
      <4>1. n <= Cardinality(r)
        BY <2>2, <3>1 DEF N
      <4> QED BY <1>1, <2>3, <2>4, <2>6, <2>8, <4>1
    <3> QED BY <3>1
  <2>10. sum(r) \in Nat /\ f[Pick(s)] \in Nat
    BY <2>4, <2>6, <2>8, <2>9
  <2> QED BY <2>4, <2>7, <2>10
<1>3. \A s \in SUBSET S : sum(s) \in Nat
  BY <1>2
<1>4. ASSUME NEW x \in S PROVE f[x] <= sum(S)
  <2>1. sum(S) = f[x] + sum(S \ {x})
    BY SumRemove
  <2>2. sum(S \ {x}) \in Nat /\ f[x] \in Nat
    BY <1>3
  <2> HIDE DEF sum
  <2> QED BY <2>1, <2>2
<1> QED BY <1>3, <1>4

(* A sum of zeros.                                                          *)
LEMMA SumZero ==
  ASSUME NEW f, NEW S, IsFiniteSet(S), \A x \in S : f[x] = 0
  PROVE  SumFunctionOnSet(f, S) = 0
<1> DEFINE bad == {s \in SUBSET S : SumFunctionOnSet(f, s) # 0}
           N == {Cardinality(s) : s \in bad}
<1>1. \A s \in SUBSET S : IsFiniteSet(s) /\ Cardinality(s) \in Nat
  BY FS_Subset, FS_CardinalityType
<1>2. ASSUME bad # {} PROVE FALSE
  <2>1. N \in SUBSET Nat /\ N # {}
    BY <1>1, <1>2
  <2> HIDE DEF N
  <2>2. PICK n \in N : \A y \in N : n <= y
    BY <2>1, LeastNumber
  <2>3. PICK s \in bad : n = Cardinality(s)
    BY <2>2 DEF N
  <2>4. s \in SUBSET S /\ IsFiniteSet(s) /\ SumFunctionOnSet(f, s) # 0
    BY <1>1, <2>3
  <2>5. s # {}
    BY <2>4, SumEmpty
  <2> DEFINE r == s \ {Pick(s)}
  <2>6. Pick(s) \in s /\ Cardinality(r) < Cardinality(s)
    BY <2>4, <2>5, PickFacts
  <2>7. SumFunctionOnSet(f, s) = f[Pick(s)] + SumFunctionOnSet(f, r)
    BY <2>4, <2>5, SumPicked
  <2>8. r \in SUBSET S
    BY <2>4
  <2> HIDE DEF r
  <2>9. r \notin bad
    <3>1. ASSUME r \in bad PROVE FALSE
      <4>1. n <= Cardinality(r)
        BY <2>2, <3>1 DEF N
      <4> QED BY <1>1, <2>3, <2>4, <2>6, <2>8, <4>1
    <3> QED BY <3>1
  <2>10. SumFunctionOnSet(f, r) = 0 /\ f[Pick(s)] = 0
    BY <2>4, <2>6, <2>8, <2>9
  <2> QED BY <2>4, <2>7, <2>10
<1> QED BY <1>2
=============================================================================
