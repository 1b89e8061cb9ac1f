----------------------------- MODULE ZoneFsProofs -----------------------------
(***************************************************************************)
(* Proofs about ZoneFs for every number of zones, threads and descriptors, *)
(* every limit of the caches and every fault.                              *)
(***************************************************************************)
EXTENDS ZoneFs, SequenceTheorems, WellFoundedInduction, TLAPS

Entries == [zone : Zones, fd : Fds]
Thread  == [op : {"idle", "getwr", "getrd", "pwrite", "pread"}, zone : Zones \cup {NoZone},
            fd : Fds \cup {NoFd}, off : 0..ZoneSz, left : 0..ZoneSz, done : 0..ZoneSz]
Busy    == {"getwr", "pwrite"}   \* the operations that hold their zone
Open    == {"pwrite", "pread"}   \* the operations that have a descriptor

(* A list_ has one entry per zone: the keys of map_ are unique.             *)
CacheOK(c) ==
  /\ c \in Seq(Entries)
  /\ \A i, j \in 1..Len(c) : i # j => c[i].zone # c[j].zone

Types ==
  /\ fdtab \in [Fds -> Zones \cup {Free}]
  /\ size \in [Zones -> 0..ZoneSz] /\ wp \in [Zones -> 0..ZoneSz]
  /\ busy \subseteq Zones /\ shut \subseteq Zones
  /\ max \in [Caches -> 0..(WordSize - 1)]
  /\ cache \in [Caches -> Seq(Entries)] /\ \A k \in Caches : CacheOK(cache[k])
  /\ th \in [Threads -> Thread]

(* A thread has a descriptor exactly inside a loop of pwrite or pread, and  *)
(* what is left of its operation fits the zone.                             *)
ThreadsOK ==
  \A t \in Threads :
    /\ th[t].fd # NoFd <=> th[t].op \in Open
    /\ th[t].op # "idle" => th[t].zone \in Zones
    /\ th[t].off + th[t].left <= ZoneSz

(* A writer has its zone alone, as Zone::busy_ promises, and writes right   *)
(* behind wp_; its zone counts as open.                                     *)
WritersOK ==
  \A t \in Threads : th[t].op \in Busy =>
    /\ th[t].zone \in busy \ shut
    /\ th[t].off = wp[th[t].zone] + th[t].done
    /\ \A u \in Threads \ {t} : th[u].op \in Busy => th[u].zone # th[t].zone

(* Whoever refers to a descriptor, it is open on the zone of the reference. *)
References ==
  /\ \A t \in Threads : th[t].fd # NoFd => fdtab[th[t].fd] = th[t].zone
  /\ \A k \in Caches : \A e \in ToSet(cache[k]) : fdtab[e.fd] = e.zone

ShutUncached == \A e \in ToSet(cache["wr"]) : e.zone \notin shut

(* Every step of a write counts behind what the device has.                 *)
Written ==
  "stat" \notin Faults =>
    /\ \A z \in Zones : wp[z] <= size[z]
    /\ \A t \in Threads : th[t].op \in Busy =>
         wp[th[t].zone] + th[t].done <= size[th[t].zone]

CacheInv ==
  /\ Types /\ ThreadsOK /\ WritersOK /\ References /\ DescriptorsBounded
  /\ ShutUncached /\ Written

-----------------------------------------------------------------------------
(* The lists of the cache                                                   *)

(* A list without its p-th entry.                                           *)
LEMMA RemoveAtFacts ==
  ASSUME NEW S, NEW c \in Seq(S), NEW p \in 1..Len(c)
  PROVE  /\ RemoveAt(c, p) \in Seq(S) /\ Len(RemoveAt(c, p)) = Len(c) - 1
         /\ \A i \in 1..(Len(c) - 1) : RemoveAt(c, p)[i] = IF i < p THEN c[i] ELSE c[i + 1]
<1> DEFINE n == Len(c)
           l == SubSeq(c, 1, p - 1)
           r == SubSeq(c, p + 1, n)
           d == RemoveAt(c, p)
<1>1. n \in Nat /\ p \in 1..n /\ \A i \in 1..n : c[i] \in S
  BY SMTT(60)
<1>2. d = l \o r
  BY DEF RemoveAt
<1> HIDE DEF d
<1>3. l \in Seq(S) /\ Len(l) = p - 1 /\ \A i \in 1..(p - 1) : l[i] = c[i]
  BY <1>1
<1>4. /\ r \in Seq(S) /\ Len(r) = IF p + 1 <= n THEN n - (p + 1) + 1 ELSE 0
      /\ \A i \in 1..(n - (p + 1) + 1) : r[i] = c[(p + 1) + i - 1]
  <2>1. \A i \in (p + 1)..n : c[i] \in S
    BY <1>1
  <2>2. p + 1 \in Int /\ n \in Int
    BY <1>1
  <2> HIDE DEF n
  <2> QED BY <2>1, <2>2, SubSeqProperties
<1> HIDE DEF l, r, n
<1>5. Len(r) = n - p
  <2>1. Len(r) = IF p + 1 <= n THEN n - (p + 1) + 1 ELSE 0
    BY <1>4
  <2> QED BY <1>1, <2>1
<1>6. \A i \in 1..(n - p) : r[i] = c[p + i]
  <2>1. \A i \in 1..(n - p) : i \in 1..(n - (p + 1) + 1) /\ (p + 1) + i - 1 = p + i
    BY <1>1
  <2> QED BY <1>4, <2>1
<1>7. /\ d \in Seq(S) /\ Len(d) = Len(l) + Len(r)
      /\ \A i \in 1..(Len(l) + Len(r)) : d[i] = IF i <= Len(l) THEN l[i] ELSE r[i - Len(l)]
  BY <1>2, <1>3, <1>4, ConcatProperties
<1>8. Len(l) + Len(r) = n - 1
  BY <1>1, <1>3, <1>5
<1>9. ASSUME NEW i \in 1..(n - 1)
      PROVE  d[i] = IF i < p THEN c[i] ELSE c[i + 1]
  <2>1. d[i] = IF i <= p - 1 THEN l[i] ELSE r[i - (p - 1)]
    BY <1>3, <1>7, <1>8
  <2>2. CASE i < p
    <3>1. i \in 1..(p - 1)
      BY <1>1, <2>2
    <3> QED BY <1>1, <1>3, <2>1, <2>2, <3>1
  <2>3. CASE ~ (i < p)
    <3>1. i - (p - 1) \in 1..(n - p) /\ p + (i - (p - 1)) = i + 1 /\ ~ (i <= p - 1)
      BY <1>1, <2>3
    <3> QED BY <1>6, <2>1, <2>3, <3>1
  <2> QED BY <2>2, <2>3
<1> QED BY <1>7, <1>8, <1>9 DEF d, n

(* What erase leaves of a list: every entry but the zone's own, in order.   *)
LEMMA DropFacts ==
  ASSUME NEW c, CacheOK(c), NEW z
  PROVE  /\ CacheOK(Drop(c, z)) /\ Len(Drop(c, z)) <= Len(c)
         /\ ToSet(Drop(c, z)) = {e \in ToSet(c) : e.zone # z}
         /\ (\E e \in ToSet(c) : e.zone = z) => Len(Drop(c, z)) < Len(c)
<1> DEFINE at == {i \in DOMAIN c : c[i].zone = z}
<1>1. c \in Seq(Entries) /\ DOMAIN c = 1..Len(c) /\ Len(c) \in Nat
  BY DEF CacheOK
<1>2. CASE at = {}
  BY <1>1, <1>2 DEF Drop, ToSet, CacheOK
<1>3. CASE at # {}
  <2> DEFINE p == CHOOSE i \in at : TRUE
             d == Drop(c, z)
  <2>1. p \in 1..Len(c) /\ c[p].zone = z
    BY <1>1, <1>3
  <2>2. d = RemoveAt(c, p)
    BY <1>3 DEF Drop
  <2> HIDE DEF p, d
  <2>5. d \in Seq(Entries) /\ Len(d) = Len(c) - 1
    BY <1>1, <2>1, <2>2, RemoveAtFacts
  <2>6. \A i \in 1..(Len(c) - 1) : d[i] = IF i < p THEN c[i] ELSE c[i + 1]
    BY <1>1, <2>1, <2>2, RemoveAtFacts
  <2>7. CacheOK(d)
    BY <1>1, <2>1, <2>5, <2>6, SMTT(40) DEF CacheOK
  <2>8. ToSet(d) = {e \in ToSet(c) : e.zone # z}
    <3>1. \A i \in 1..Len(d) : d[i] \in ToSet(c) /\ d[i].zone # z
      <4> SUFFICES ASSUME NEW i \in 1..Len(d) PROVE d[i] \in ToSet(c) /\ d[i].zone # z
        OBVIOUS
      <4>1. PICK j \in 1..Len(c) : d[i] = c[j] /\ j # p
        BY <1>1, <2>1, <2>5, <2>6
      <4>2. c[j].zone # c[p].zone
        BY <2>1, <4>1 DEF CacheOK
      <4> QED
        BY <1>1, <2>1, <4>1, <4>2 DEF ToSet
    <3>2. \A e \in ToSet(c) : e.zone # z => e \in ToSet(d)
      <4> SUFFICES ASSUME NEW i \in 1..Len(c), c[i].zone # z PROVE c[i] \in ToSet(d)
        BY <1>1 DEF ToSet
      <4>1. i # p
        BY <2>1
      <4>2. PICK j \in 1..Len(d) : d[j] = c[i]
        <5>1. CASE i < p
          BY <1>1, <2>1, <2>5, <2>6, <5>1
        <5>2. CASE i > p
          <6>1. i - 1 \in 1..Len(d) /\ d[i - 1] = c[i]
            BY <1>1, <2>1, <2>5, <2>6, <5>2
          <6> QED BY <6>1
        <5> QED BY <2>1, <4>1, <5>1, <5>2
      <4> QED BY <2>5, <4>2 DEF ToSet
    <3>3. \A e \in ToSet(d) : e \in ToSet(c) /\ e.zone # z
      BY <2>5, <3>1 DEF ToSet
    <3> QED BY <3>2, <3>3
  <2> QED BY <1>1, <2>5, <2>7, <2>8 DEF d
<1> QED BY <1>2, <1>3

(* Prune keeps a front part of the list, no longer than the limit.          *)
LEMMA PruneFacts ==
  ASSUME NEW c, CacheOK(c), NEW n \in Nat
  PROVE  /\ CacheOK(Prune(c, n)) /\ Len(Prune(c, n)) <= n /\ Len(Prune(c, n)) <= Len(c)
         /\ ToSet(Prune(c, n)) \subseteq ToSet(c)
<1>1. c \in Seq(Entries) /\ DOMAIN c = 1..Len(c) /\ Len(c) \in Nat
  BY DEF CacheOK
<1>2. CASE Len(c) <= n
  BY <1>1, <1>2 DEF Prune
<1>3. CASE Len(c) > n
  <2> DEFINE d == SubSeq(c, 1, n)
  <2>1. Prune(c, n) = d
    BY <1>3 DEF Prune
  <2>2. d \in Seq(Entries) /\ Len(d) = n /\ \A i \in 1..n : d[i] = c[i]
    BY <1>1, <1>3
  <2> HIDE DEF d
  <2>3. CacheOK(d)
    BY <1>1, <1>3, <2>2 DEF CacheOK
  <2>4. ToSet(d) \subseteq ToSet(c)
    BY <1>1, <1>3, <2>2 DEF ToSet
  <2> QED BY <1>1, <1>3, <2>1, <2>2, <2>3, <2>4
<1> QED BY <1>1, <1>2, <1>3

(* emplace_front of a zone that the list does not have.                     *)
LEMMA PushFacts ==
  ASSUME NEW c, CacheOK(c), NEW e \in Entries, \A x \in ToSet(c) : x.zone # e.zone
  PROVE  /\ CacheOK(<<e>> \o c) /\ Len(<<e>> \o c) = Len(c) + 1
         /\ ToSet(<<e>> \o c) = ToSet(c) \cup {e}
<1> DEFINE d == <<e>> \o c
<1>1. c \in Seq(Entries) /\ DOMAIN c = 1..Len(c) /\ Len(c) \in Nat
  BY DEF CacheOK
<1>2. d \in Seq(Entries) /\ Len(d) = Len(c) + 1
  BY <1>1
<1>3. d[1] = e /\ \A i \in 1..Len(c) : d[i + 1] = c[i]
  BY <1>1
<1> HIDE DEF d
<1>4. \A i \in 1..Len(d) : i = 1 \/ (i - 1 \in 1..Len(c) /\ d[i] = c[i - 1])
  <2> SUFFICES ASSUME NEW i \in 1..Len(d), i # 1
               PROVE  i - 1 \in 1..Len(c) /\ d[i] = c[i - 1]
    OBVIOUS
  <2>1. i - 1 \in 1..Len(c) /\ (i - 1) + 1 = i
    BY <1>1, <1>2
  <2> QED BY <1>3, <2>1
<1>5. \A i \in 1..Len(c) : c[i].zone # e.zone
  BY <1>1 DEF ToSet
<1>6. CacheOK(d)
  <2>1. \A i, j \in 1..Len(d) : i # j => d[i].zone # d[j].zone
    BY <1>1, <1>2, <1>3, <1>4, <1>5, SMTT(40) DEF CacheOK
  <2> QED BY <1>2, <2>1 DEF CacheOK
<1>7. ToSet(d) = ToSet(c) \cup {e}
  <2>1. \A i \in 1..Len(d) : d[i] \in ToSet(c) \cup {e}
    BY <1>1, <1>3, <1>4 DEF ToSet
  <2>2. \A i \in 1..Len(c) : c[i] \in ToSet(d)
    <3> SUFFICES ASSUME NEW i \in 1..Len(c) PROVE c[i] \in ToSet(d)
      OBVIOUS
    <3>1. i + 1 \in 1..Len(d) /\ d[i + 1] = c[i]
      BY <1>1, <1>2, <1>3
    <3> QED BY <1>2, <3>1 DEF ToSet
  <2>3. e \in ToSet(d)
    BY <1>1, <1>2, <1>3 DEF ToSet
  <2> QED BY <1>1, <1>2, <2>1, <2>2, <2>3 DEF ToSet
<1> QED BY <1>2, <1>6, <1>7 DEF d

-----------------------------------------------------------------------------
(* Closing descriptors                                                      *)

(* The caches only lose entries.                                            *)
CacheShrinks ==
  /\ cache' \in [Caches -> Seq(Entries)]
  /\ \A k \in Caches : /\ CacheOK(cache'[k]) /\ Len(cache'[k]) <= Len(cache[k])
                        /\ ToSet(cache'[k]) \subseteq ToSet(cache[k])

(* No thread gets a descriptor that it did not have.                        *)
ThreadsShrink ==
  \A t \in Threads : th'[t].fd # NoFd => th'[t].fd = th[t].fd /\ th'[t].zone = th[t].zone

(* A list of the cache has entries only, and its length is a number.        *)
LEMMA EntryFacts ==
  ASSUME NEW c, CacheOK(c)
  PROVE  Len(c) \in Nat /\ ToSet(c) \subseteq Entries
BY DEF CacheOK, ToSet

(* Put takes the zone out of the write cache and touches nothing else.      *)
LEMMA PutFacts ==
  ASSUME Types, NEW z, Put(z)
  PROVE  CacheShrinks /\ \A e \in ToSet(cache'["wr"]) : e.zone # z
<1> DEFINE d == Drop(cache["wr"], z)
<1>1. CacheOK(d) /\ Len(d) <= Len(cache["wr"]) /\ ToSet(d) = {e \in ToSet(cache["wr"]) : e.zone # z}
  BY DropFacts DEF Types, Thread, Caches
<1>2. cache' = [cache EXCEPT !["wr"] = d]
  BY DEF Put
<1> HIDE DEF d
<1>3. d \in Seq(Entries)
  BY <1>1 DEF CacheOK
<1>4. cache'["wr"] = d /\ cache'["rd"] = cache["rd"] /\ cache' \in [Caches -> Seq(Entries)]
  BY <1>2, <1>3 DEF Types, Thread, Caches
<1>5. CacheOK(cache["rd"]) /\ Len(cache["rd"]) \in Nat
  BY EntryFacts DEF Types, Thread, Caches
<1> QED BY <1>1, <1>4, <1>5 DEF CacheShrinks, Caches

(* The caches lose nothing when they stay as they are.                      *)
LEMMA UnchangedShrinks == ASSUME Types, cache' = cache PROVE CacheShrinks
BY EntryFacts DEF Types, Thread, CacheShrinks

(* ~ZoneFsFile: the references that are left stay good, whatever table they *)
(* are good in, and what nobody refers to is closed.                        *)
LEMMA CloseFacts ==
  ASSUME NEW tab \in [Fds -> Zones \cup {Free}], CloseUnreferenced(tab),
         \A k \in Caches : CacheOK(cache'[k]),
         \A t \in Threads : th'[t].fd \in Fds \cup {NoFd},
         \A t \in Threads : th'[t].fd # NoFd => tab[th'[t].fd] = th'[t].zone,
         \A k \in Caches : \A e \in ToSet(cache'[k]) : tab[e.fd] = e.zone
  PROVE  /\ fdtab' \in [Fds -> Zones \cup {Free}]
         /\ References'
         /\ \A d \in Fds : fdtab'[d] # Free => d \in InUse(cache', th')
<1> DEFINE held == InUse(cache', th')
<1>1. fdtab' = [d \in Fds |-> IF d \in held THEN tab[d] ELSE Free]
  BY DEF CloseUnreferenced
<1>2. \A t \in Threads : th'[t].fd \in held
  BY DEF InUse
<1>3. \A k \in Caches : \A e \in ToSet(cache'[k]) : e.fd \in held /\ e.fd \in Fds
  <2> SUFFICES ASSUME NEW k \in Caches, NEW e \in ToSet(cache'[k])
               PROVE  e.fd \in held /\ e.fd \in Fds
    OBVIOUS
  <2>1. e \in Entries
    BY EntryFacts
  <2>2. e \in UNION {ToSet(cache'[j]) : j \in Caches}
    OBVIOUS
  <2> QED BY <2>1, <2>2 DEF InUse, Entries
<1> HIDE DEF held
<1>4. fdtab' \in [Fds -> Zones \cup {Free}]
  BY <1>1
<1>5. \A t \in Threads : th'[t].fd # NoFd => fdtab'[th'[t].fd] = th'[t].zone
  BY <1>1, <1>2
<1>6. \A k \in Caches : \A e \in ToSet(cache'[k]) : fdtab'[e.fd] = e.zone
  BY <1>1, <1>3
<1>7. \A d \in Fds : fdtab'[d] # Free => d \in held
  BY <1>1
<1> QED BY <1>4, <1>5, <1>6, <1>7 DEF References, held

(* A step after which fewer references remain.                              *)
LEMMA ShrinkFacts ==
  ASSUME CacheInv, CacheShrinks, ThreadsShrink, CloseUnreferenced(fdtab), max' = max
  PROVE  /\ fdtab' \in [Fds -> Zones \cup {Free}]
         /\ References' /\ DescriptorsBounded'
<1>1. \A k \in Caches : CacheOK(cache'[k])
  BY DEF CacheShrinks
<1>2. \A t \in Threads : th'[t].fd \in Fds \cup {NoFd}
  BY DEF ThreadsShrink, CacheInv, Types, Thread
<1>3. \A t \in Threads : th'[t].fd # NoFd => fdtab[th'[t].fd] = th'[t].zone
  BY DEF ThreadsShrink, CacheInv, References
<1>4. \A k \in Caches : \A e \in ToSet(cache'[k]) : fdtab[e.fd] = e.zone
  BY DEF CacheShrinks, CacheInv, References
<1>5. /\ fdtab' \in [Fds -> Zones \cup {Free}] /\ References'
      /\ \A d \in Fds : fdtab'[d] # Free => d \in InUse(cache', th')
  BY <1>1, <1>2, <1>3, <1>4, CloseFacts DEF CacheInv, Types, Thread
<1>6. ASSUME NEW k \in Caches, max[k] # 0 PROVE Len(cache'[k]) <= max[k]
  <2>1. Len(cache'[k]) <= Len(cache[k]) /\ Len(cache[k]) <= max[k]
    BY <1>6 DEF CacheShrinks, CacheInv, DescriptorsBounded
  <2>2. Len(cache[k]) \in Nat /\ Len(cache'[k]) \in Nat /\ max[k] \in Int
    BY <1>1, EntryFacts, ZoneFsAssumption DEF CacheInv, Types, Thread
  <2> QED BY <2>1, <2>2
<1> QED BY <1>5, <1>6 DEF DescriptorsBounded

-----------------------------------------------------------------------------
(* The operations                                                           *)

(* A new process: no descriptor, no entry, no thread inside the backend.    *)
LEMMA InitCache == Init => CacheInv
<1> SUFFICES ASSUME Init PROVE CacheInv
  OBVIOUS
<1>1. CacheOK(<<>>) /\ ToSet(<<>>) = {} /\ Len(<<>>) = 0
  BY SMTT(60) DEF CacheOK, ToSet
<1>2. /\ cache = [k \in Caches |-> <<>>] /\ th = [t \in Threads |-> Idle]
      /\ fdtab = [d \in Fds |-> Free]
  BY DEF Init
<1>3. Types
  BY <1>1, <1>2, ZoneFsAssumption DEF Init, Types, Thread, Idle, Caches
<1>4. ThreadsOK /\ WritersOK
  BY <1>2, ZoneFsAssumption DEF ThreadsOK, WritersOK, Idle, Busy, Open
<1>5. References /\ ShutUncached
  BY <1>1, <1>2 DEF References, ShutUncached, Idle, Caches
<1>6. DescriptorsBounded
  <2>1. \A k \in Caches : max[k] = 0 \/ Len(cache[k]) <= max[k]
    BY <1>1, <1>2, <1>3 DEF Types, Thread
  <2>2. \A d \in Fds : fdtab[d] = Free
    BY <1>2
  <2> QED BY <2>1, <2>2 DEF DescriptorsBounded
<1>7. Written
  BY <1>2, ZoneFsAssumption DEF Init, Written, Idle, Busy
<1> QED BY <1>3, <1>4, <1>5, <1>6, <1>7 DEF CacheInv

(* After a restart wp_ is what the device says.                             *)
LEMMA RestartCache == ASSUME CacheInv, Restart PROVE CacheInv'
<1>1. CacheOK(<<>>) /\ ToSet(<<>>) = {} /\ Len(<<>>) = 0
  BY DEF CacheOK, ToSet
<1>2. /\ cache' = [k \in Caches |-> <<>>] /\ th' = [t \in Threads |-> Idle]
      /\ fdtab' = [d \in Fds |-> Free]
      /\ wp' = size /\ size' = size /\ max' = max /\ busy' = {} /\ shut' = Zones
  BY DEF Restart
<1>3. Types'
  BY <1>1, <1>2, ZoneFsAssumption DEF CacheInv, Types, Thread, Idle, Caches
<1>4. ThreadsOK' /\ WritersOK'
  BY <1>2, ZoneFsAssumption DEF ThreadsOK, WritersOK, Idle, Busy, Open
<1>5. References' /\ ShutUncached'
  BY <1>1, <1>2 DEF References, ShutUncached, Idle, Caches
<1>6. DescriptorsBounded'
  <2>1. \A k \in Caches : max'[k] = 0 \/ Len(cache'[k]) <= max'[k]
    BY <1>1, <1>2, <1>3 DEF Types, Thread
  <2>2. \A d \in Fds : fdtab'[d] = Free
    BY <1>2
  <2> QED BY <2>1, <2>2 DEF DescriptorsBounded
<1>7. Written'
  BY <1>2, ZoneFsAssumption DEF CacheInv, Types, Thread, Written, Idle, Busy
<1> QED BY <1>3, <1>4, <1>5, <1>6, <1>7 DEF CacheInv

(* A call that starts has no descriptor yet: the references are those of    *)
(* before.                                                                  *)
LEMMA StartFacts ==
  ASSUME CacheInv, NEW t \in Threads, NEW op \in {"getwr", "getrd"}, NEW z \in Zones,
         NEW at \in 0..ZoneSz, NEW n \in 1..ZoneSz, Start(t, op, z, at, n), at + n <= ZoneSz,
         UNCHANGED <<fdtab, cache, max>>
  PROVE  /\ th[t] = Idle
         /\ th' = [th EXCEPT ![t] = [op |-> op, zone |-> z, fd |-> NoFd, off |-> at,
                                     left |-> n, done |-> 0]]
         /\ th' \in [Threads -> Thread]
         /\ ThreadsOK' /\ References' /\ DescriptorsBounded'
<1>1. /\ th[t] = Idle
      /\ th' = [th EXCEPT ![t] = [op |-> op, zone |-> z, fd |-> NoFd, off |-> at,
                                     left |-> n, done |-> 0]]
  BY DEF Start
<1>2. th' \in [Threads -> Thread]
  BY <1>1, ZoneFsAssumption DEF CacheInv, Types, Thread
<1>3. ThreadsOK'
  BY <1>1, ZoneFsAssumption DEF CacheInv, Types, Thread, ThreadsOK, Open
<1>4. \A u \in Threads : th'[u].fd = th[u].fd /\ (u # t => th'[u] = th[u])
  BY <1>1 DEF CacheInv, Types, Thread, Idle
<1>5. References'
  BY <1>1, <1>4 DEF CacheInv, References, Idle
<1>6. InUse(cache', th') = InUse(cache, th)
  BY <1>4 DEF InUse
<1>7. DescriptorsBounded'
  BY <1>6 DEF CacheInv, DescriptorsBounded
<1> QED BY <1>1, <1>2, <1>3, <1>5, <1>7

(* A write takes a zone that no other writer has, and opens it again.       *)
LEMMA WriteCache ==
  ASSUME CacheInv, NEW t \in Threads, NEW z \in Zones, NEW n \in 1..ZoneSz, Write(t, z, n)
  PROVE  CacheInv'
<1>1. wp[z] \in 0..ZoneSz /\ wp[z] + n <= ZoneSz
  BY ZoneFsAssumption DEF Write, CacheInv, Types, Thread
<1>2. /\ z \notin busy /\ Start(t, "getwr", z, wp[z], n) /\ UNCHANGED <<fdtab, cache, max>>
      /\ busy' = busy \cup {z} /\ shut' = shut \ {z} /\ size' = size /\ wp' = wp
  BY DEF Write
<1>3. /\ th[t] = Idle
      /\ th' = [th EXCEPT ![t] = [op |-> "getwr", zone |-> z, fd |-> NoFd, off |-> wp[z],
                                     left |-> n, done |-> 0]]
      /\ th' \in [Threads -> Thread]
      /\ ThreadsOK' /\ References' /\ DescriptorsBounded'
  BY <1>1, <1>2, StartFacts
<1>4. Types'
  BY <1>2, <1>3 DEF CacheInv, Types, Thread
<1>5. /\ th'[t].op = "getwr" /\ th'[t].zone = z /\ th'[t].off = wp[z] /\ th'[t].done = 0
      /\ \A u \in Threads \ {t} : th'[u] = th[u]
  BY <1>3 DEF CacheInv, Types, Thread
<1>6. \A u \in Threads : th[u].op \in Busy => th[u].zone \in busy
  BY DEF CacheInv, WritersOK
<1>7. WritersOK'
  BY <1>1, <1>2, <1>5, <1>6 DEF CacheInv, WritersOK
<1>8. ShutUncached'
  BY <1>2 DEF CacheInv, ShutUncached
<1>9. Written'
  BY <1>1, <1>2, <1>5 DEF CacheInv, Written
<1> QED BY <1>3, <1>4, <1>7, <1>8, <1>9 DEF CacheInv

(* A read takes nothing.                                                    *)
LEMMA ReadCache ==
  ASSUME CacheInv, NEW t \in Threads, NEW z \in Zones, NEW at \in 0..ZoneSz,
         NEW n \in 1..ZoneSz, Read(t, z, at, n)
  PROVE  CacheInv'
<1>1. at + n <= ZoneSz
  BY ZoneFsAssumption DEF Read, CacheInv, Types, Thread
<1>2. Start(t, "getrd", z, at, n) /\ UNCHANGED <<fdtab, cache, max, size, wp, busy, shut>>
  BY DEF Read
<1>3. /\ th[t] = Idle
      /\ th' = [th EXCEPT ![t] = [op |-> "getrd", zone |-> z, fd |-> NoFd, off |-> at,
                                     left |-> n, done |-> 0]]
      /\ th' \in [Threads -> Thread]
      /\ ThreadsOK' /\ References' /\ DescriptorsBounded'
  BY <1>1, <1>2, StartFacts
<1>4. Types' /\ ShutUncached'
  BY <1>2, <1>3 DEF CacheInv, Types, Thread, ShutUncached
<1>5. th'[t].op \notin Busy /\ \A u \in Threads \ {t} : th'[u] = th[u]
  BY <1>3 DEF CacheInv, Types, Thread, Busy
<1>6. WritersOK' /\ Written'
  BY <1>2, <1>5 DEF CacheInv, WritersOK, Written
<1> QED BY <1>3, <1>4, <1>6 DEF CacheInv

(* Every set of numbers that is not empty has a least one, so open finds    *)
(* the lowest free descriptor.                                              *)
LEMMA LowestFacts ==
  ASSUME NEW S \in SUBSET Nat, S # {}
  PROVE  Lowest(S) \in S
<1>1. PICK x \in S : \A y \in S : ~ (<<y, x>> \in OpToRel(<, Nat))
  BY WFMin, NatLessThanWellFounded
<1>2. \A y \in S : ~ (y < x)
  BY <1>1 DEF OpToRel
<1>3. \A y \in S : x <= y
  BY <1>2
<1> QED BY <1>3 DEF Lowest

(* max_ - 1 in unsigned arithmetic: the limit of Prune leaves room for the  *)
(* new entry, or there is no limit.                                         *)
LEMMA PruneLimitFacts ==
  ASSUME NEW m \in 0..(WordSize - 1)
  PROVE  PruneLimit(m) \in Nat /\ (m # 0 => PruneLimit(m) = m - 1)
BY ZoneFsAssumption DEF PruneLimit

GetDone(k) == IF k = "wr" THEN "pwrite" ELSE "pread"

(* A thread that comes out of Get with descriptor d is where it was, with d *)
(* in its hands.                                                            *)
LEMMA GotFacts ==
  ASSUME CacheInv, NEW t \in Threads, NEW k \in Caches, NEW d \in Fds,
         th[t].op = IF k = "wr" THEN "getwr" ELSE "getrd",
         th' = [th EXCEPT ![t].op = GetDone(k), ![t].fd = d],
         UNCHANGED <<busy, shut, size, wp>>
  PROVE  /\ th' \in [Threads -> Thread] /\ th'[t].fd = d /\ th'[t].zone = th[t].zone
         /\ th[t].zone \in Zones /\ th[t].fd = NoFd /\ \A u \in Threads \ {t} : th'[u] = th[u]
         /\ ThreadsOK' /\ WritersOK' /\ Written'
<1>1. th \in [Threads -> Thread] /\ GetDone(k) \in {"pwrite", "pread"}
  BY DEF CacheInv, Types, GetDone
<1>2. th[t].zone \in Zones /\ th[t].fd = NoFd
  BY DEF CacheInv, ThreadsOK, Open
<1>3. th'[t] = [th[t] EXCEPT !.op = GetDone(k), !.fd = d] /\ \A u \in Threads \ {t} : th'[u] = th[u]
  BY <1>1
<1>4. th' \in [Threads -> Thread]
  <2>1. th'[t] \in Thread
    BY <1>1, <1>3, ZenonT(60) DEF Thread
  <2>2. th' = [th EXCEPT ![t] = th'[t]]
    BY <1>1
  <2> HIDE DEF Thread
  <2> QED BY <1>1, <2>1, <2>2
<1>5. /\ th'[t].op = GetDone(k) /\ th'[t].fd = d /\ th'[t].zone = th[t].zone
      /\ th'[t].off = th[t].off /\ th'[t].left = th[t].left /\ th'[t].done = th[t].done
  BY <1>1, <1>3 DEF Thread
<1>6. d # NoFd
  BY ZoneFsAssumption DEF Fds, NoFd
<1>7. ThreadsOK'
  BY <1>1, <1>2, <1>3, <1>5, <1>6 DEF CacheInv, ThreadsOK, Open
<1>8. th'[t].op \in Busy <=> th[t].op \in Busy
  <2>1. CASE k = "wr"
    BY <1>5, <2>1 DEF GetDone, Busy
  <2>2. CASE k # "wr"
    BY <1>5, <2>2 DEF GetDone, Busy
  <2> QED BY <2>1, <2>2
<1>9. \A u \in Threads : /\ th'[u].op \in Busy <=> th[u].op \in Busy
                         /\ th'[u].zone = th[u].zone /\ th'[u].off = th[u].off
                         /\ th'[u].done = th[u].done
  BY <1>3, <1>5, <1>8
<1>10. wp' = wp /\ size' = size /\ busy' = busy /\ shut' = shut
  OBVIOUS
<1>11. WritersOK'
  <2> SUFFICES ASSUME NEW u \in Threads, th'[u].op \in Busy
               PROVE  /\ th'[u].zone \in busy \ shut
                      /\ th'[u].off = wp[th'[u].zone] + th'[u].done
                      /\ \A v \in Threads \ {u} : th'[v].op \in Busy => th'[v].zone # th'[u].zone
    BY <1>10, Zenon DEF WritersOK
  <2> QED BY <1>9, ZenonT(60) DEF CacheInv, WritersOK
<1>12. Written'
  BY <1>9, <1>10 DEF CacheInv, Written
<1> QED BY <1>2, <1>3, <1>4, <1>5, <1>7, <1>11, <1>12

(* Get of a zone that the cache has: the entry moves to the front, the      *)
(* entries stay the same.                                                   *)
LEMMA GetFound ==
  ASSUME CacheInv, NEW t \in Threads, NEW k \in Caches, Get(t, k),
         NEW i \in DOMAIN cache[k], cache[k][i].zone = th[t].zone
  PROVE  CacheInv'
<1> DEFINE z == th[t].zone
           found == {j \in DOMAIN cache[k] : cache[k][j].zone = z}
           e == cache[k][CHOOSE j \in found : TRUE]
           c == cache[k]
           d == Drop(c, z)
<1>1. CacheOK(c) /\ cache \in [Caches -> Seq(Entries)]
  BY DEF CacheInv, Types
<1>2. /\ cache' = [cache EXCEPT ![k] = <<e>> \o d]
      /\ th' = [th EXCEPT ![t].op = GetDone(k), ![t].fd = e.fd]
      /\ UNCHANGED <<fdtab, busy, max, size, wp, shut>>
      /\ th[t].op = IF k = "wr" THEN "getwr" ELSE "getrd"
  <2>1. found # {}
    OBVIOUS
  <2> QED BY <2>1 DEF Get, GetDone
<1>3. e \in ToSet(c) /\ e.zone = z
  BY DEF ToSet
<1>4. ToSet(c) \subseteq Entries /\ Len(c) \in Nat
  BY <1>1, EntryFacts
<1>5. \A x \in ToSet(c) : x.zone = z => x = e
  BY <1>1, <1>3 DEF ToSet, CacheOK
<1> HIDE DEF e, c
<1>6. /\ CacheOK(d) /\ Len(d) < Len(c) /\ Len(d) \in Nat
      /\ ToSet(d) = {x \in ToSet(c) : x.zone # z}
  BY <1>1, <1>3, DropFacts, EntryFacts
<1> HIDE DEF d
<1>7. e \in Entries /\ e.fd \in Fds
  BY <1>3, <1>4 DEF Entries
<1> DEFINE n == <<e>> \o d
<1>8. /\ CacheOK(n) /\ Len(n) = Len(d) + 1 /\ ToSet(n) = ToSet(d) \cup {e}
  BY <1>3, <1>6, <1>7, PushFacts
<1> HIDE DEF n
<1>9. ToSet(n) = ToSet(c) /\ Len(n) <= Len(c)
  BY <1>3, <1>4, <1>5, <1>6, <1>8
<1>10. /\ cache' \in [Caches -> Seq(Entries)] /\ cache'[k] = n
       /\ \A j \in Caches \ {k} : cache'[j] = cache[j]
  <2>1. n \in Seq(Entries) /\ cache' = [cache EXCEPT ![k] = n]
    BY <1>2, <1>8 DEF CacheOK, n
  <2> QED BY <1>1, <2>1
<1>11. \A j \in Caches : ToSet(cache'[j]) = ToSet(cache[j])
  BY <1>9, <1>10 DEF c
<1>12. /\ th' \in [Threads -> Thread] /\ th'[t].fd = e.fd /\ th'[t].zone = z
       /\ z \in Zones /\ th[t].fd = NoFd /\ \A u \in Threads \ {t} : th'[u] = th[u]
       /\ ThreadsOK' /\ WritersOK' /\ Written'
  BY <1>2, <1>7, GotFacts
<1>13. Types'
  BY <1>2, <1>8, <1>10, <1>12 DEF CacheInv, Types
<1>14. fdtab[e.fd] = z
  BY <1>3 DEF CacheInv, References, c
<1>15. References'
  BY <1>2, <1>11, <1>12, <1>14 DEF CacheInv, References
<1>16. ShutUncached'
  BY <1>2, <1>11 DEF CacheInv, ShutUncached, Caches
<1>17. DescriptorsBounded'
  <2>1. \A f \in InUse(cache, th) : f = NoFd \/ f \in InUse(cache', th')
    <3> SUFFICES ASSUME NEW f \in InUse(cache, th), f # NoFd PROVE f \in InUse(cache', th')
      OBVIOUS
    <3>1. CASE \E u \in Threads : f = th[u].fd
      BY <1>12, <3>1 DEF InUse
    <3>2. CASE f \in {x.fd : x \in UNION {ToSet(cache[j]) : j \in Caches}}
      BY <1>11, <3>2 DEF InUse
    <3> QED BY <3>1, <3>2 DEF InUse
  <2>2. \A f \in Fds : f # NoFd
    BY ZoneFsAssumption DEF Fds, NoFd
  <2>3. \A j \in Caches : max[j] = 0 \/ Len(cache'[j]) <= max[j]
    <3> SUFFICES ASSUME max[k] # 0 PROVE Len(n) <= max[k]
      BY <1>10 DEF CacheInv, DescriptorsBounded
    <3>1. Len(c) <= max[k] /\ max[k] \in Int
      BY ZoneFsAssumption DEF CacheInv, DescriptorsBounded, Types, c
    <3> QED BY <1>4, <1>6, <1>8, <3>1
  <2> QED BY <1>2, <2>1, <2>2, <2>3 DEF CacheInv, DescriptorsBounded
<1> QED BY <1>12, <1>13, <1>15, <1>16, <1>17 DEF CacheInv

(* Get of a zone that it has to open: the descriptor was free, so nobody    *)
(* refers to it, and what Prune drops stays open for the threads that still *)
(* use it.                                                                  *)
LEMMA GetOpened ==
  ASSUME CacheInv, NEW t \in Threads, NEW k \in Caches, NEW d \in Fds, fdtab[d] = Free,
         th[t].op = IF k = "wr" THEN "getwr" ELSE "getrd",
         \A i \in DOMAIN cache[k] : cache[k][i].zone # th[t].zone,
         cache' = [cache EXCEPT ![k] = <<Entry(th[t].zone, d)>> \o Prune(@, PruneLimit(max[k]))],
         th' = [th EXCEPT ![t].op = GetDone(k), ![t].fd = d],
         CloseUnreferenced([fdtab EXCEPT ![d] = th[t].zone]),
         UNCHANGED <<busy, max, size, wp, shut>>
  PROVE  CacheInv'
<1> DEFINE z == th[t].zone
           e == Entry(z, d)
           c == cache[k]
           p == Prune(c, PruneLimit(max[k]))
           n == <<e>> \o p
           tab == [fdtab EXCEPT ![d] = z]
<1>1. /\ th' \in [Threads -> Thread] /\ th'[t].fd = d /\ th'[t].zone = z
      /\ z \in Zones /\ th[t].fd = NoFd /\ \A u \in Threads \ {t} : th'[u] = th[u]
      /\ ThreadsOK' /\ WritersOK' /\ Written'
  BY GotFacts
<1>2. /\ CacheOK(c) /\ cache \in [Caches -> Seq(Entries)] /\ max[k] \in 0..(WordSize - 1)
      /\ fdtab \in [Fds -> Zones \cup {Free}]
  BY DEF CacheInv, Types
<1>3. PruneLimit(max[k]) \in Nat /\ (max[k] # 0 => PruneLimit(max[k]) = max[k] - 1)
  BY <1>2, PruneLimitFacts
<1>4. CacheOK(p) /\ Len(p) <= PruneLimit(max[k]) /\ ToSet(p) \subseteq ToSet(c)
  BY <1>2, <1>3, PruneFacts
<1>5. e \in Entries /\ e.zone = z /\ e.fd = d
  BY <1>1 DEF Entry, Entries
<1>6. \A x \in ToSet(c) : x.zone # z
  BY DEF ToSet
<1> HIDE DEF p, e
<1>7. CacheOK(n) /\ Len(n) = Len(p) + 1 /\ ToSet(n) = ToSet(p) \cup {e}
  BY <1>4, <1>5, <1>6, PushFacts
<1>8. cache' = [cache EXCEPT ![k] = n]
  BY DEF n, p, e
<1> HIDE DEF n
<1>9. /\ cache' \in [Caches -> Seq(Entries)] /\ cache'[k] = n
      /\ \A j \in Caches \ {k} : cache'[j] = cache[j]
  BY <1>2, <1>7, <1>8 DEF CacheOK
<1>10. \A j \in Caches : CacheOK(cache'[j])
  BY <1>7, <1>9 DEF CacheInv, Types
<1>11. \A j \in Caches : \A x \in ToSet(cache'[j]) : x \in ToSet(cache[j]) \/ (j = k /\ x = e)
  BY <1>4, <1>7, <1>9
<1>12. tab \in [Fds -> Zones \cup {Free}] /\ tab[d] = z /\ \A f \in Fds \ {d} : tab[f] = fdtab[f]
  BY <1>1, <1>2
<1>13. CloseUnreferenced(tab)
  OBVIOUS
<1> HIDE DEF tab
<1>14. \A u \in Threads : th'[u].fd # NoFd => tab[th'[u].fd] = th'[u].zone
  <2> SUFFICES ASSUME NEW u \in Threads, u # t, th[u].fd # NoFd
               PROVE  tab[th[u].fd] = th[u].zone
    BY <1>1, <1>12
  <2>1. th[u].fd \in Fds
    BY DEF CacheInv, Types, Thread
  <2>2. fdtab[th[u].fd] = th[u].zone /\ th[u].zone \in Zones
    BY DEF CacheInv, References, ThreadsOK, Open
  <2>3. th[u].fd # d
    BY <2>2, MarksAssumption
  <2> QED BY <1>12, <2>1, <2>2, <2>3
<1>15. \A j \in Caches : \A x \in ToSet(cache'[j]) : tab[x.fd] = x.zone
  <2> SUFFICES ASSUME NEW j \in Caches, NEW x \in ToSet(cache[j])
               PROVE  tab[x.fd] = x.zone
    BY <1>5, <1>11, <1>12
  <2>1. x \in Entries
    BY EntryFacts DEF CacheInv, Types
  <2>2. fdtab[x.fd] = x.zone /\ x.zone \in Zones /\ x.fd \in Fds
    BY <2>1 DEF CacheInv, References, Entries
  <2>3. x.fd # d
    BY <2>2, MarksAssumption
  <2> QED BY <1>12, <2>2, <2>3
<1>16. \A u \in Threads : th'[u].fd \in Fds \cup {NoFd}
  BY <1>1 DEF Thread
<1>17. /\ fdtab' \in [Fds -> Zones \cup {Free}] /\ References'
       /\ \A f \in Fds : fdtab'[f] # Free => f \in InUse(cache', th')
  BY <1>10, <1>12, <1>13, <1>14, <1>15, <1>16, CloseFacts
<1>18. Types'
  BY <1>1, <1>9, <1>10, <1>17 DEF CacheInv, Types
<1>19. DescriptorsBounded'
  <2>1. \A j \in Caches : max[j] = 0 \/ Len(cache'[j]) <= max[j]
    <3> SUFFICES ASSUME max[k] # 0 PROVE Len(n) <= max[k]
      BY <1>9 DEF CacheInv, DescriptorsBounded
    <3>1. Len(p) \in Nat /\ max[k] \in Int
      BY <1>2, <1>4, EntryFacts, ZoneFsAssumption
    <3> QED BY <1>3, <1>4, <1>7, <3>1
  <2> QED BY <1>17, <2>1 DEF DescriptorsBounded
<1>20. ShutUncached'
  <2> SUFFICES ASSUME NEW x \in ToSet(cache'["wr"]) PROVE x.zone \notin shut
    BY DEF ShutUncached
  <2>1. CASE x \in ToSet(cache["wr"])
    BY <2>1 DEF CacheInv, ShutUncached
  <2>2. CASE k = "wr" /\ x = e
    BY <1>5, <2>2 DEF CacheInv, WritersOK, Busy
  <2> QED BY <1>11, <2>1, <2>2 DEF Caches
<1> QED BY <1>1, <1>17, <1>18, <1>19, <1>20 DEF CacheInv

(* A thread that gives up holds nothing any more.                           *)
LEMMA IdleFacts ==
  ASSUME CacheInv, NEW t \in Threads, th' = [th EXCEPT ![t] = Idle]
  PROVE  /\ th' \in [Threads -> Thread] /\ ThreadsOK' /\ ThreadsShrink
         /\ th'[t].op \notin Busy /\ th'[t].fd = NoFd /\ \A u \in Threads \ {t} : th'[u] = th[u]
<1>1. th \in [Threads -> Thread] /\ Idle \in Thread
  BY ZoneFsAssumption DEF CacheInv, Types, Thread, Idle
<1>2. /\ th' \in [Threads -> Thread] /\ th'[t] = Idle
      /\ \A u \in Threads \ {t} : th'[u] = th[u]
  BY <1>1
<1>3. th'[t].op \notin Busy /\ th'[t].fd = NoFd
  BY <1>2 DEF Idle, Busy
<1>4. ThreadsOK'
  BY <1>2, ZoneFsAssumption DEF CacheInv, ThreadsOK, Idle, Open
<1>5. ThreadsShrink
  BY <1>2, <1>3 DEF ThreadsShrink
<1> QED BY <1>2, <1>3, <1>4, <1>5

(* Get that cannot open the zone.                                           *)
LEMMA GetFailed ==
  ASSUME CacheInv, NEW t \in Threads, NEW k \in Caches,
         th[t].op = IF k = "wr" THEN "getwr" ELSE "getrd",
         th' = [th EXCEPT ![t] = Idle],
         busy' = IF k = "wr" THEN busy \ {th[t].zone} ELSE busy,
         UNCHANGED <<cache, fdtab, max, size, wp, shut>>
  PROVE  CacheInv'
<1>1. /\ th' \in [Threads -> Thread] /\ ThreadsOK' /\ th'[t].op \notin Busy
      /\ th'[t].fd = NoFd /\ \A u \in Threads \ {t} : th'[u] = th[u]
  BY IdleFacts
<1>2. th[t].fd = NoFd
  BY DEF CacheInv, ThreadsOK, Open
<1>3. InUse(cache', th') = InUse(cache, th)
  <2>1. \A u \in Threads : th'[u].fd = th[u].fd
    BY <1>1, <1>2
  <2> QED BY <2>1 DEF InUse
<1>4. Types' /\ ShutUncached'
  BY <1>1 DEF CacheInv, Types, ShutUncached
<1>5. References' /\ DescriptorsBounded'
  BY <1>1, <1>3 DEF CacheInv, References, DescriptorsBounded
<1>6. \A u \in Threads \ {t} : th[u].op \in Busy => th[u].zone \in busy'
  <2>1. CASE k = "wr"
    BY <2>1 DEF CacheInv, WritersOK, Busy
  <2>2. CASE k # "wr"
    BY <2>2 DEF CacheInv, WritersOK
  <2> QED BY <2>1, <2>2
<1>7. WritersOK'
  BY <1>1, <1>6 DEF CacheInv, WritersOK
<1>8. Written'
  BY <1>1 DEF CacheInv, Written
<1> QED BY <1>1, <1>4, <1>5, <1>7, <1>8 DEF CacheInv

(* Get, however it ends.                                                    *)
LEMMA GetCache ==
  ASSUME CacheInv, NEW t \in Threads, NEW k \in Caches, Get(t, k)
  PROVE  CacheInv'
<1> DEFINE z == th[t].zone
           found == {i \in DOMAIN cache[k] : cache[k][i].zone = z}
           free  == {d \in Fds : fdtab[d] = Free}
<1>1. CASE found # {}
  BY <1>1, GetFound
<1>2. CASE found = {}
  <2>1. /\ th[t].op = IF k = "wr" THEN "getwr" ELSE "getrd"
        /\ \A i \in DOMAIN cache[k] : cache[k][i].zone # z
        /\ UNCHANGED <<max, size, wp, shut>>
    BY <1>2 DEF Get
  <2>2. CASE free # {} /\ LET d == Lowest(free) IN
                /\ cache' = [cache EXCEPT ![k] = <<Entry(z, d)>> \o Prune(@, PruneLimit(max[k]))]
                /\ th' = [th EXCEPT ![t].op = GetDone(k), ![t].fd = d]
                /\ CloseUnreferenced([fdtab EXCEPT ![d] = z])
                /\ UNCHANGED busy
    <3>1. free \in SUBSET Nat
      BY ZoneFsAssumption DEF Fds
    <3>2. Lowest(free) \in free
      BY <2>2, <3>1, LowestFacts
    <3>3. PICK d \in Fds : d = Lowest(free) /\ fdtab[d] = Free
      BY <3>2
    <3> HIDE DEF free
    <3> QED BY <2>1, <2>2, <3>3, GetOpened
  <2>3. CASE th' = [th EXCEPT ![t] = Idle] /\ UNCHANGED <<cache, fdtab>>
             /\ busy' = IF k = "wr" THEN busy \ {z} ELSE busy
    BY <2>1, <2>3, GetFailed
  <2> QED BY <1>2, <2>2, <2>3, Zenon DEF Get, GetDone
<1> QED BY <1>1, <1>2

(* Reset, Finish and Close of a zone that no writer has: the other zones    *)
(* are not touched, and every writer is at another one.                     *)
LEMMA ShutCache ==
  ASSUME CacheInv, NEW z \in Zones, z \notin busy, UNCHANGED <<max, busy, th>>,
         \/ Put(z) /\ shut' = shut \cup {z}
         \/ UNCHANGED <<cache, shut>>,
         NEW s \in 0..ZoneSz, NEW w \in 0..ZoneSz,
         size' = [size EXCEPT ![z] = s], wp' = [wp EXCEPT ![z] = w],
         "stat" \notin Faults => w <= s,
         CloseUnreferenced(fdtab)
  PROVE  CacheInv'
<1>1. CacheShrinks
  BY PutFacts, UnchangedShrinks DEF CacheInv
<1>2. ThreadsShrink
  BY DEF ThreadsShrink
<1>3. fdtab' \in [Fds -> Zones \cup {Free}] /\ References' /\ DescriptorsBounded'
  BY <1>1, <1>2, ShrinkFacts
<1>4. size' \in [Zones -> 0..ZoneSz] /\ wp' \in [Zones -> 0..ZoneSz] /\ shut' \subseteq Zones
  BY DEF CacheInv, Types
<1>5. Types'
  BY <1>1, <1>3, <1>4 DEF CacheInv, Types, CacheShrinks
<1>6. ThreadsOK'
  BY DEF CacheInv, ThreadsOK
<1>7. \A y \in Zones : y # z => wp'[y] = wp[y] /\ size'[y] = size[y]
  BY DEF CacheInv, Types
<1>8. \A t \in Threads : th[t].op \in Busy =>
        th[t].zone \in Zones /\ th[t].zone # z /\ th[t].zone \notin shut'
  BY DEF CacheInv, WritersOK, Types
<1>9. WritersOK'
  BY <1>7, <1>8 DEF CacheInv, WritersOK
<1>10. wp'[z] = w /\ size'[z] = s
  BY DEF CacheInv, Types
<1>11. Written'
  BY <1>7, <1>8, <1>10 DEF CacheInv, Written
<1>12. ShutUncached'
  <2>1. CASE Put(z) /\ shut' = shut \cup {z}
    <3>1. \A e \in ToSet(cache'["wr"]) : e.zone # z /\ e \in ToSet(cache["wr"])
      BY <1>1, <2>1, PutFacts DEF CacheInv, CacheShrinks, Caches
    <3> QED BY <2>1, <3>1 DEF CacheInv, ShutUncached
  <2>2. CASE UNCHANGED <<cache, shut>>
    BY <2>2 DEF CacheInv, ShutUncached
  <2> QED BY <2>1, <2>2
<1> QED BY <1>3, <1>5, <1>6, <1>9, <1>11, <1>12 DEF CacheInv

(* A zone keeps its size and its write pointer when nothing sets them.      *)
LEMMA SameFacts ==
  ASSUME CacheInv, NEW z \in Zones
  PROVE  /\ size = [size EXCEPT ![z] = size[z]] /\ wp = [wp EXCEPT ![z] = wp[z]]
         /\ size[z] \in 0..ZoneSz /\ wp[z] \in 0..ZoneSz
         /\ "stat" \notin Faults => wp[z] <= size[z]
BY DEF CacheInv, Types, Written

(* Reset, which truncates the file of a zone, keeps the invariant of the    *)
(* cache.                                                                   *)
LEMMA ResetCache ==
  ASSUME CacheInv, NEW t \in Threads, NEW z \in Zones, Reset(t, z)
  PROVE  CacheInv'
<1>1. z \notin busy /\ UNCHANGED <<max, busy, th>> /\ CloseUnreferenced(fdtab)
  BY DEF Reset
<1>2. 0 \in 0..ZoneSz /\ 0 <= 0
  BY ZoneFsAssumption
<1>3. CASE Put(z) /\ shut' = shut \cup {z} /\ size' = [size EXCEPT ![z] = 0]
             /\ wp' = [wp EXCEPT ![z] = 0]
  BY <1>1, <1>2, <1>3, ShutCache
<1>4. CASE Put(z) /\ shut' = shut \cup {z} /\ size' = [size EXCEPT ![z] = 0]
             /\ "stat" \in Faults /\ wp' = wp
  BY <1>1, <1>2, <1>4, ShutCache, SameFacts
<1>5. CASE UNCHANGED <<size, cache, shut, wp>>
  BY <1>1, <1>5, ShutCache, SameFacts
<1> QED BY <1>3, <1>4, <1>5 DEF Reset

(* So does Finish, which extends the file to its size,                      *)
LEMMA FinishCache ==
  ASSUME CacheInv, NEW t \in Threads, NEW z \in Zones, Finish(t, z)
  PROVE  CacheInv'
<1>1. z \notin busy /\ UNCHANGED <<max, busy, th>> /\ CloseUnreferenced(fdtab)
  BY DEF Finish
<1>2. ZoneSz \in 0..ZoneSz /\ ZoneSz <= ZoneSz
  BY ZoneFsAssumption
<1>3. CASE Put(z) /\ shut' = shut \cup {z} /\ size' = [size EXCEPT ![z] = ZoneSz]
             /\ wp' = [wp EXCEPT ![z] = ZoneSz]
  BY <1>1, <1>2, <1>3, ShutCache
<1>4. CASE UNCHANGED <<size, cache, shut, wp>>
  BY <1>1, <1>4, ShutCache, SameFacts
<1> QED BY <1>3, <1>4 DEF Finish

(* and Close, which puts the descriptor back.                               *)
LEMMA CloseCache ==
  ASSUME CacheInv, NEW t \in Threads, NEW z \in Zones, Close(t, z)
  PROVE  CacheInv'
BY ShutCache, SameFacts DEF Close

(* A loop that goes on: it keeps its descriptor, and what is left of it     *)
(* still fits the zone.                                                     *)
LEMMA AdvanceFacts ==
  ASSUME CacheInv, NEW t \in Threads, th[t].op \in Open, NEW n \in 1..th[t].left, n # th[t].left,
         NEW d \in 0..ZoneSz,
         th' = [th EXCEPT ![t].off = @ + n, ![t].left = @ - n, ![t].done = d]
  PROVE  /\ th' \in [Threads -> Thread] /\ ThreadsOK' /\ ThreadsShrink
         /\ \A u \in Threads \ {t} : th'[u] = th[u]
         /\ th'[t].op = th[t].op /\ th'[t].zone = th[t].zone /\ th'[t].done = d
         /\ th'[t].off = th[t].off + n
<1>1. th \in [Threads -> Thread] /\ th[t] \in Thread
  BY DEF CacheInv, Types
<1>2. /\ th'[t] = [th[t] EXCEPT !.off = th[t].off + n, !.left = th[t].left - n, !.done = d]
      /\ \A u \in Threads \ {t} : th'[u] = th[u]
  BY <1>1
<1>3. th[t].off + th[t].left <= ZoneSz /\ th[t].off \in 0..ZoneSz /\ th[t].left \in 0..ZoneSz
  BY <1>1 DEF CacheInv, ThreadsOK, Thread
<1>4. /\ th'[t].op = th[t].op /\ th'[t].fd = th[t].fd /\ th'[t].zone = th[t].zone
      /\ th'[t].done = d /\ th'[t].off = th[t].off + n /\ th'[t].left = th[t].left - n
  BY <1>1, <1>2 DEF Thread
<1>5. th[t].off + n \in 0..ZoneSz /\ th[t].left - n \in 0..ZoneSz
      /\ (th[t].off + n) + (th[t].left - n) <= ZoneSz
  BY <1>3, ZoneFsAssumption
<1>6. th' \in [Threads -> Thread]
  <2>1. th'[t] \in Thread
    BY <1>1, <1>2, <1>5 DEF Thread
  <2>2. th' = [th EXCEPT ![t] = th'[t]]
    BY <1>1
  <2> QED BY <1>1, <2>1, <2>2
<1>7. ThreadsOK'
  <2> SUFFICES ASSUME NEW u \in Threads
               PROVE  /\ th'[u].fd # NoFd <=> th'[u].op \in Open
                      /\ th'[u].op # "idle" => th'[u].zone \in Zones
                      /\ th'[u].off + th'[u].left <= ZoneSz
    BY Zenon DEF ThreadsOK
  <2>1. CASE u # t
    BY <1>2, <2>1 DEF CacheInv, ThreadsOK
  <2>2. CASE u = t
    BY <1>4, <1>5, <2>2 DEF CacheInv, ThreadsOK
  <2> QED BY <2>1, <2>2
<1>8. ThreadsShrink
  BY <1>2, <1>4 DEF ThreadsShrink
<1> QED BY <1>2, <1>4, <1>6, <1>7, <1>8

(* One pread, the last one or not.                                          *)
LEMMA PreadCache ==
  ASSUME CacheInv, NEW t \in Threads, Pread(t)
  PROVE  CacheInv'
<1>1. /\ th[t].op = "pread" /\ UNCHANGED <<cache, max, size, wp, busy, shut>>
      /\ CloseUnreferenced(fdtab)
  BY DEF Pread
<1>2. /\ th' \in [Threads -> Thread] /\ ThreadsOK' /\ ThreadsShrink
      /\ th'[t].op \notin Busy /\ \A u \in Threads \ {t} : th'[u] = th[u]
  <2>1. CASE th' = [th EXCEPT ![t] = Idle]
    BY <2>1, IdleFacts
  <2>2. ASSUME NEW n \in 1..th[t].left, n # th[t].left,
               th' = [th EXCEPT ![t].off = @ + n, ![t].left = @ - n]
        PROVE  /\ th' \in [Threads -> Thread] /\ ThreadsOK' /\ ThreadsShrink
               /\ th'[t].op \notin Busy /\ \A u \in Threads \ {t} : th'[u] = th[u]
    <3>1. th \in [Threads -> Thread] /\ th[t].done \in 0..ZoneSz
      BY DEF CacheInv, Types, Thread
    <3>2. th' = [th EXCEPT ![t].off = @ + n, ![t].left = @ - n, ![t].done = th[t].done]
      BY <2>2, <3>1 DEF Thread
    <3>3. th[t].op \in Open /\ th[t].op \notin Busy
      BY <1>1 DEF Open, Busy
    <3> QED BY <2>2, <3>1, <3>2, <3>3, AdvanceFacts
  <2> QED BY <2>1, <2>2 DEF Pread
<1>3. CacheShrinks
  BY <1>1, UnchangedShrinks DEF CacheInv
<1>4. fdtab' \in [Fds -> Zones \cup {Free}] /\ References' /\ DescriptorsBounded'
  BY <1>1, <1>2, <1>3, ShrinkFacts
<1>5. Types' /\ ShutUncached'
  BY <1>1, <1>2, <1>4 DEF CacheInv, Types, ShutUncached
<1>6. WritersOK' /\ Written'
  BY <1>1, <1>2 DEF CacheInv, WritersOK, Written
<1> QED BY <1>2, <1>4, <1>5, <1>6 DEF CacheInv

(* What a writer knows of its zone: it has it alone.                        *)
LEMMA WriterFacts ==
  ASSUME CacheInv, NEW t \in Threads, th[t].op = "pwrite"
  PROVE  /\ th[t].zone \in Zones /\ th[t].zone \in busy /\ th[t].zone \notin shut
         /\ th[t].off = wp[th[t].zone] + th[t].done
         /\ wp[th[t].zone] \in 0..ZoneSz /\ size[th[t].zone] \in 0..ZoneSz
         /\ th[t].off \in 0..ZoneSz /\ th[t].left \in 0..ZoneSz /\ th[t].done \in 0..ZoneSz
         /\ th[t].off + th[t].left <= ZoneSz
         /\ \A u \in Threads \ {t} : th[u].op \in Busy =>
              th[u].zone # th[t].zone /\ th[u].zone \in Zones /\ th[u].zone \in busy
<1>1. th[t].op \in Busy
  BY DEF Busy
<1>2. th[t].zone \in Zones /\ th[t] \in Thread
  BY DEF CacheInv, ThreadsOK, Types
<1>3. \A u \in Threads : th[u].op \in Busy => th[u].zone \in Zones
  BY DEF CacheInv, WritersOK, Types
<1> QED BY <1>1, <1>2, <1>3 DEF CacheInv, WritersOK, ThreadsOK, Types, Thread

(* The end of a write, by its last pwrite or by an error: the zone is free  *)
(* again, with wp_ not beyond what the device has.                          *)
LEMMA FinishedCache ==
  ASSUME CacheInv, NEW t \in Threads, th[t].op = "pwrite", Finished(t), max' = max,
         NEW s \in 0..ZoneSz, NEW w \in 0..ZoneSz,
         size' = [size EXCEPT ![th[t].zone] = s], wp' = [wp EXCEPT ![th[t].zone] = w],
         "stat" \notin Faults => w <= s,
         \/ Put(th[t].zone) /\ shut' = shut \cup {th[t].zone}
         \/ UNCHANGED <<cache, shut>>,
         CloseUnreferenced(fdtab)
  PROVE  CacheInv'
<1> DEFINE z == th[t].zone
<1>1. /\ z \in Zones /\ \A u \in Threads \ {t} : th[u].op \in Busy =>
              th[u].zone # z /\ th[u].zone \in Zones /\ th[u].zone \in busy
  BY WriterFacts
<1>2. /\ th' \in [Threads -> Thread] /\ ThreadsOK' /\ ThreadsShrink
      /\ th'[t].op \notin Busy /\ \A u \in Threads \ {t} : th'[u] = th[u]
  BY IdleFacts DEF Finished
<1>3. busy' = busy \ {z}
  BY DEF Finished
<1>4. CacheShrinks
  BY PutFacts, UnchangedShrinks DEF CacheInv
<1>5. fdtab' \in [Fds -> Zones \cup {Free}] /\ References' /\ DescriptorsBounded'
  BY <1>2, <1>4, ShrinkFacts
<1>6. size' \in [Zones -> 0..ZoneSz] /\ wp' \in [Zones -> 0..ZoneSz] /\ shut' \subseteq Zones
  BY <1>1 DEF CacheInv, Types
<1>7. Types'
  BY <1>2, <1>3, <1>4, <1>5, <1>6 DEF CacheInv, Types, CacheShrinks
<1>8. \A y \in Zones : y # z => wp'[y] = wp[y] /\ size'[y] = size[y]
  BY DEF CacheInv, Types
<1>9. \A y \in Zones : y # z => (y \in shut' <=> y \in shut)
  OBVIOUS
<1>10. WritersOK'
  <2> SUFFICES ASSUME NEW u \in Threads, th'[u].op \in Busy
               PROVE  /\ th'[u].zone \in busy' \ shut'
                      /\ th'[u].off = wp'[th'[u].zone] + th'[u].done
                      /\ \A v \in Threads \ {u} : th'[v].op \in Busy => th'[v].zone # th'[u].zone
    BY Zenon DEF WritersOK
  <2>1. u # t /\ th'[u] = th[u] /\ th[u].op \in Busy
    BY <1>2
  <2>2. th[u].zone \in Zones /\ th[u].zone # z
    BY <1>1, <2>1
  <2>3. th[u].zone \in busy \ shut /\ th[u].off = wp[th[u].zone] + th[u].done
    BY <2>1 DEF CacheInv, WritersOK
  <2>4. \A v \in Threads \ {u} : th'[v].op \in Busy => th'[v].zone # th'[u].zone
    BY <1>2, <2>1 DEF CacheInv, WritersOK
  <2> QED BY <1>3, <1>8, <1>9, <2>1, <2>2, <2>3, <2>4
<1>11. wp'[z] = w /\ size'[z] = s
  BY <1>1 DEF CacheInv, Types
<1>12. Written'
  BY <1>1, <1>2, <1>8, <1>11 DEF CacheInv, Written
<1>13. ShutUncached'
  <2>1. CASE Put(z) /\ shut' = shut \cup {z}
    <3>1. \A e \in ToSet(cache'["wr"]) : e.zone # z /\ e \in ToSet(cache["wr"])
      BY <1>4, <2>1, PutFacts DEF CacheInv, CacheShrinks, Caches
    <3> QED BY <2>1, <3>1 DEF CacheInv, ShutUncached
  <2>2. CASE UNCHANGED <<cache, shut>>
    BY <2>2 DEF CacheInv, ShutUncached
  <2> QED BY <2>1, <2>2
<1> QED BY <1>2, <1>5, <1>7, <1>10, <1>12, <1>13 DEF CacheInv

(* One pwrite of part of what is left: the zone is not full yet.            *)
LEMMA PartCache ==
  ASSUME CacheInv, NEW t \in Threads, th[t].op = "pwrite", NEW n \in 1..th[t].left,
         n # th[t].left, th[t].off = size[th[t].zone],
         size' = [size EXCEPT ![th[t].zone] = @ + n],
         th' = [th EXCEPT ![t].off = @ + n, ![t].left = @ - n, ![t].done = @ + n],
         UNCHANGED <<busy, wp, cache, shut, max>>, CloseUnreferenced(fdtab)
  PROVE  CacheInv'
<1> DEFINE z == th[t].zone
<1>1. /\ z \in Zones /\ z \in busy /\ z \notin shut /\ th[t].off = wp[z] + th[t].done
      /\ wp[z] \in 0..ZoneSz /\ size[z] \in 0..ZoneSz
      /\ th[t].off \in 0..ZoneSz /\ th[t].left \in 0..ZoneSz /\ th[t].done \in 0..ZoneSz
      /\ th[t].off + th[t].left <= ZoneSz
      /\ \A u \in Threads \ {t} : th[u].op \in Busy => th[u].zone # z /\ th[u].zone \in Zones
  BY WriterFacts
<1>0. th[t].done + n \in 0..ZoneSz
  BY <1>1, ZoneFsAssumption
<1>d. PICK d \in 0..ZoneSz : d = th[t].done + n
  BY <1>0
<1>2. size[z] + n \in 0..ZoneSz /\ th[t].off + n = wp[z] + d /\ wp[z] + d = size[z] + n
  BY <1>1, <1>d, ZoneFsAssumption
<1>3. th[t].op \in Open /\ th[t].op \in Busy
  BY DEF Open, Busy
<1>4. th' = [th EXCEPT ![t].off = @ + n, ![t].left = @ - n, ![t].done = d]
  BY <1>d
<1>5. /\ th' \in [Threads -> Thread] /\ ThreadsOK' /\ ThreadsShrink
      /\ \A u \in Threads \ {t} : th'[u] = th[u]
      /\ th'[t].op = th[t].op /\ th'[t].zone = z /\ th'[t].done = d
      /\ th'[t].off = th[t].off + n
  BY <1>3, <1>4, AdvanceFacts
<1>6. CacheShrinks
  BY UnchangedShrinks DEF CacheInv
<1>7. fdtab' \in [Fds -> Zones \cup {Free}] /\ References' /\ DescriptorsBounded'
  BY <1>5, <1>6, ShrinkFacts
<1>8. /\ size' \in [Zones -> 0..ZoneSz] /\ size'[z] = size[z] + n
      /\ \A y \in Zones : y # z => size'[y] = size[y]
  BY <1>1, <1>2 DEF CacheInv, Types
<1>9. Types' /\ ShutUncached'
  BY <1>5, <1>7, <1>8 DEF CacheInv, Types, ShutUncached
<1>10. WritersOK'
  <2> SUFFICES ASSUME NEW u \in Threads, th'[u].op \in Busy
               PROVE  /\ th'[u].zone \in busy' \ shut'
                      /\ th'[u].off = wp'[th'[u].zone] + th'[u].done
                      /\ \A v \in Threads \ {u} : th'[v].op \in Busy => th'[v].zone # th'[u].zone
    BY Zenon DEF WritersOK
  <2>1. th[u].op \in Busy /\ th'[u].zone = th[u].zone
    BY <1>3, <1>5
  <2>2. th'[u].zone \in busy' \ shut'
    BY <2>1 DEF CacheInv, WritersOK
  <2>3. th'[u].off = wp'[th'[u].zone] + th'[u].done
    <3>1. CASE u = t
      BY <1>2, <1>5, <3>1
    <3>2. CASE u # t
      BY <1>5, <2>1, <3>2 DEF CacheInv, WritersOK
    <3> QED BY <3>1, <3>2
  <2>4. \A v \in Threads : th'[v].zone = th[v].zone /\ th'[v].op = th[v].op
    BY <1>5
  <2>5. \A v \in Threads \ {u} : th[v].op \in Busy => th[v].zone # th[u].zone
    BY <2>1 DEF CacheInv, WritersOK
  <2> QED BY <2>2, <2>3, <2>4, <2>5
<1>11. Written'
  <2> SUFFICES ASSUME "stat" \notin Faults
               PROVE  /\ \A y \in Zones : wp'[y] <= size'[y]
                      /\ \A u \in Threads : th'[u].op \in Busy =>
                           wp'[th'[u].zone] + th'[u].done <= size'[th'[u].zone]
    BY Zenon DEF Written
  <2>1. \A y \in Zones : wp'[y] <= size'[y]
    <3>1. wp[z] <= size[z] + n
      BY <1>1
    <3> QED BY <1>8, <3>1 DEF CacheInv, Written
  <2>2. ASSUME NEW u \in Threads, th'[u].op \in Busy
        PROVE  wp'[th'[u].zone] + th'[u].done <= size'[th'[u].zone]
    <3>1. CASE u = t
      <4>1. size[z] + n <= size[z] + n
        BY <1>2
      <4> QED BY <1>2, <1>5, <1>8, <3>1, <4>1
    <3>2. CASE u # t
      BY <1>1, <1>5, <1>8, <2>2, <3>2 DEF CacheInv, Written
    <3> QED BY <3>1, <3>2
  <2> QED BY <2>1, <2>2
<1> QED BY <1>5, <1>7, <1>9, <1>10, <1>11 DEF CacheInv

(* One pwrite: the whole, a part, or an error.                              *)
LEMMA PwriteCache ==
  ASSUME CacheInv, NEW t \in Threads, Pwrite(t)
  PROVE  CacheInv'
<1> DEFINE z == th[t].zone
<1>1. th[t].op = "pwrite" /\ CloseUnreferenced(fdtab) /\ max' = max
  BY DEF Pwrite
<1>2. /\ z \in Zones /\ z \in busy /\ z \notin shut /\ th[t].off = wp[z] + th[t].done
      /\ wp[z] \in 0..ZoneSz /\ size[z] \in 0..ZoneSz
      /\ th[t].off \in 0..ZoneSz /\ th[t].left \in 0..ZoneSz /\ th[t].done \in 0..ZoneSz
      /\ th[t].off + th[t].left <= ZoneSz
  BY <1>1, WriterFacts
<1>3. ASSUME NEW n \in 1..th[t].left, th[t].off = size[z], size' = [size EXCEPT ![z] = @ + n],
             shut' = IF th[t].off + n = ZoneSz THEN shut \cup {z} ELSE shut,
             IF FillsZone(th[t].off + n) THEN Put(z) ELSE UNCHANGED cache,
             n = th[t].left, Finished(t), wp' = [wp EXCEPT ![z] = @ + th[t].done + n]
      PROVE  CacheInv'
  <2>1. /\ size[z] + n \in 0..ZoneSz /\ wp[z] + th[t].done + n \in 0..ZoneSz
        /\ wp[z] + th[t].done + n <= size[z] + n
    BY <1>2, <1>3, ZoneFsAssumption
  <2>2. \/ Put(z) /\ shut' = shut \cup {z}
        \/ UNCHANGED <<cache, shut>>
    BY <1>3 DEF FillsZone
  <2>3. /\ size' = [size EXCEPT ![z] = size[z] + n]
        /\ wp' = [wp EXCEPT ![z] = wp[z] + th[t].done + n]
    BY <1>3
  <2> QED BY <1>1, <1>3, <2>1, <2>2, <2>3, FinishedCache
<1>4. ASSUME NEW n \in 1..th[t].left, th[t].off = size[z], size' = [size EXCEPT ![z] = @ + n],
             shut' = IF th[t].off + n = ZoneSz THEN shut \cup {z} ELSE shut,
             IF FillsZone(th[t].off + n) THEN Put(z) ELSE UNCHANGED cache,
             n # th[t].left, UNCHANGED <<busy, wp>>,
             th' = [th EXCEPT ![t].off = @ + n, ![t].left = @ - n, ![t].done = @ + n]
      PROVE  CacheInv'
  <2>1. th[t].off + n # ZoneSz
    BY <1>2, <1>4, ZoneFsAssumption
  <2>2. shut' = shut /\ cache' = cache
    BY <1>4, <2>1 DEF FillsZone
  <2> QED BY <1>1, <1>4, <2>2, PartCache
<1>5. ASSUME Finished(t), wp' = [wp EXCEPT ![z] = @ + CountAfterError(t)],
             UNCHANGED <<size, cache, shut>>
      PROVE  CacheInv'
  <2>0. wp[z] + CountAfterError(t) = wp[z]
    BY <1>2 DEF CountAfterError
  <2>1. wp' = [wp EXCEPT ![z] = wp[z]] /\ size' = [size EXCEPT ![z] = size[z]]
    BY <1>2, <1>5, <2>0, SameFacts
  <2>2. "stat" \notin Faults => wp[z] <= size[z]
    BY <1>2, SameFacts
  <2> QED BY <1>1, <1>2, <1>5, <2>1, <2>2, FinishedCache
<1> QED BY <1>3, <1>4, <1>5 DEF Pwrite

(* Every step keeps the invariant.                                          *)
LEMMA NextCache == CacheInv /\ [Next]_vars => CacheInv'
<1> SUFFICES ASSUME CacheInv, [Next]_vars PROVE CacheInv'
  OBVIOUS
<1>1. ASSUME NEW t \in Threads, Get(t, "wr") \/ Get(t, "rd") PROVE CacheInv'
  BY <1>1, GetCache DEF Caches
<1>2. ASSUME NEW t \in Threads, Pwrite(t) PROVE CacheInv'
  BY <1>2, PwriteCache
<1>3. ASSUME NEW t \in Threads, Pread(t) PROVE CacheInv'
  BY <1>3, PreadCache
<1>4. ASSUME NEW t \in Threads, NEW z \in Zones, NEW n \in 1..ZoneSz, Write(t, z, n)
      PROVE  CacheInv'
  BY <1>4, WriteCache
<1>5. ASSUME NEW t \in Threads, NEW z \in Zones, NEW n \in 1..ZoneSz, NEW at \in 0..ZoneSz,
             Read(t, z, at, n)
      PROVE  CacheInv'
  BY <1>5, ReadCache
<1>6. ASSUME NEW t \in Threads, NEW z \in Zones, Reset(t, z) \/ Finish(t, z) \/ Close(t, z)
      PROVE  CacheInv'
  BY <1>6, ResetCache, FinishCache, CloseCache
<1>7. CASE Restart
  BY <1>7, RestartCache
<1>8. CASE UNCHANGED vars
  BY <1>8 DEF vars, CacheInv, Types, ThreadsOK, WritersOK, References, DescriptorsBounded,
              ShutUncached, Written, InUse
<1> QED BY <1>1, <1>2, <1>3, <1>4, <1>5, <1>6, <1>7, <1>8 DEF Next

-----------------------------------------------------------------------------
(* The results                                                              *)

(* CacheInv is an invariant of the specification.                           *)
LEMMA CacheInvariant == Spec => []CacheInv
BY InitCache, NextCache, PTL DEF Spec

(* The variables of the backend keep their types: sizes and write pointers  *)
(* stay within the zone, whatever Zone::Append, Reset and Finish do to it.  *)
THEOREM BackendTypes == Spec => []TypeOK
<1>1. CacheInv => TypeOK
  BY DEF CacheInv, Types, Thread, TypeOK
<1> QED BY <1>1, CacheInvariant, PTL

(* ZoneFsFileCache never closes a descriptor under a read or a write, and   *)
(* never has one for another zone, for any number of zones and threads, any *)
(* limit of the caches and any failure of open, pread, pwrite or truncate.  *)
THEOREM DescriptorsAreOwn == Spec => []OwnDescriptor
<1>1. CacheInv => OwnDescriptor
  <2> SUFFICES ASSUME CacheInv PROVE OwnDescriptor
    OBVIOUS
  <2>1. \A k \in Caches : \A i \in DOMAIN cache[k] : cache[k][i] \in ToSet(cache[k])
    BY DEF ToSet
  <2>2. \A k \in Caches : DOMAIN cache[k] = 1..Len(cache[k])
    BY DEF CacheInv, Types, CacheOK
  <2>3. \A k \in Caches : \A i, j \in DOMAIN cache[k] : i # j => cache[k][i].zone # cache[k][j].zone
    BY <2>2 DEF CacheInv, Types, CacheOK
  <2>4. \A k \in Caches : \A i \in DOMAIN cache[k] : fdtab[cache[k][i].fd] = cache[k][i].zone
    BY <2>1 DEF CacheInv, References
  <2>5. \A t \in Threads : th[t].fd # NoFd => fdtab[th[t].fd] = th[t].zone
    BY DEF CacheInv, References
  <2> QED BY <2>3, <2>4, <2>5 DEF OwnDescriptor
<1> QED BY <1>1, CacheInvariant, PTL

(* The caches stay within max_ and no descriptor is left behind: what is    *)
(* open is in a cache or in the hands of a thread.                          *)
THEOREM DescriptorsAreBounded == Spec => []DescriptorsBounded
<1>1. CacheInv => DescriptorsBounded
  BY DEF CacheInv
<1> QED BY <1>1, CacheInvariant, PTL

(* A zone that ZenFS closed, finished, reset or filled has no descriptor    *)
(* that is open for writing.                                                *)
THEOREM ShutZonesAreClosed == Spec => []ShutZonesNotOpen
<1>1. CacheInv => ShutZonesNotOpen
  <2> SUFFICES ASSUME CacheInv, NEW z \in shut, NEW d \in Fds, fdtab[d] = z
               PROVE  \/ \E e \in ToSet(cache["rd"]) : e.fd = d
                      \/ \E t \in Threads : th[t].op = "pread" /\ th[t].fd = d
    BY DEF ShutZonesNotOpen
  <2>1. z \in Zones /\ z # Free /\ d # NoFd
    BY MarksAssumption, ZoneFsAssumption DEF CacheInv, Types, Fds, NoFd
  <2>2. d \in InUse(cache, th)
    BY <2>1 DEF CacheInv, DescriptorsBounded
  <2>3. CASE \E t \in Threads : th[t].fd = d
    <3>1. PICK t \in Threads : th[t].fd = d
      BY <2>3
    <3>2. th[t].op \in Open /\ th[t].zone = z
      BY <2>1, <3>1 DEF CacheInv, ThreadsOK, References
    <3>3. th[t].op # "pwrite"
      BY <3>2 DEF CacheInv, WritersOK, Busy
    <3> QED BY <3>1, <3>2, <3>3 DEF Open
  <2>4. CASE \E e \in ToSet(cache["wr"]) \cup ToSet(cache["rd"]) : e.fd = d
    <3>1. \A e \in ToSet(cache["wr"]) : e.fd # d
      BY DEF CacheInv, References, ShutUncached, Caches
    <3> QED BY <2>4, <3>1
  <2> QED BY <2>2, <2>3, <2>4 DEF InUse, Caches
<1> QED BY <1>1, CacheInvariant, PTL

(* Without an error of the stat that follows a reset, wp_ never runs ahead  *)
(* of the size of the zone's file: no data counts as written that the       *)
(* device does not have.                                                    *)
THEOREM WpStaysBehind == ASSUME "stat" \notin Faults PROVE Spec => []WpNeverAhead
<1>1. CacheInv => WpNeverAhead
  BY DEF CacheInv, Written, WpNeverAhead
<1> QED BY <1>1, CacheInvariant, PTL
=============================================================================
