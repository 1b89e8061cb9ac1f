---------------------------- MODULE RecoveryProofs ----------------------------
(***************************************************************************)
(* What the recovery of ZenFS computes, for a log of any length: the       *)
(* state after one more record is DecodeRecord of the state before it, a   *)
(* snapshot restores the name space it was taken from, and a record of a   *)
(* call turns the name space from before the call into the one after it.   *)
(***************************************************************************)
EXTENDS ZenFS, FoldProofs, SequenceTheorems

(* The state after the records s.                                           *)
Decoded(s) == FoldLeft(DecodeRecord, Blank, s)

(* The types of what is in a log, and of what recovery makes of it.         *)
Image == [id : Id, exts : Seq(Nat), active : BOOLEAN, links : Seq(Names)]

Supers == [tag : {"super"}, seq : Nat]
Record == [tag : {"update", "replace"}, file : Image]
          \cup [tag : {"delete"}, id : Id, name : Names]
          \cup [tag : {"snapshot"}, files : {S \in SUBSET Image : IsFiniteSet(S)}]
          \cup Supers
          \cup {EndRecord, ResetCountRecord, TornRecord}

NameMap == [Names -> Id \cup {None}]

State == [status : {"ok", "corruption", "notfound"}, snapshot : BOOLEAN, ended : BOOLEAN,
          files : NameMap, image : [Id -> Image],
          next : 1..MaxFileId + 1]

-----------------------------------------------------------------------------
(* The names of file i, and a file that has each of its links once.         *)
Named(ns, i) == {n \in Names : ns[n] = i}
Once(s) == \A j, k \in DOMAIN s : s[j] = s[k] => j = k
LinkedTo(links, ns, i) == Once(links) /\ Range(links) = Named(ns, i)

(* A recovered state a mount can go on with: the links of every named file  *)
(* are its names, and no named file has a number still to be given out.     *)
Sound(st) ==
  /\ st \in State
  /\ st.status = "ok" /\ st.snapshot
  /\ \A i \in Id : Named(st.files, i) # {} => LinkedTo(st.image[i].links, st.files, i)
  /\ \A n \in Names : st.files[n] < st.next

(* ns and after differ in the names of i only, which come and go.           *)
Touches(ns, after, i) ==
  \A n \in Names : after[n] # ns[n] => {after[n], ns[n]} = {None, i}

(* f is a file that no name stands for yet, and that gets its first name.   *)
Enters(f, ns, after) ==
  /\ Named(ns, f.id) = {}
  /\ \E n \in Names : ns[n] = None /\ f.links = <<n>> /\ after = [ns EXCEPT ![n] = f.id]

(* r is what a call writes that turns the names ns into after.              *)
Turns(r, ns, after) ==
  \/ /\ r.tag \in {"update", "replace"}
     /\ Named(ns, r.file.id) # {}
     /\ LinkedTo(r.file.links, after, r.file.id)
     /\ Touches(ns, after, r.file.id)
  \/ /\ r.tag = "delete"
     /\ ns[r.name] = r.id
     /\ after = [ns EXCEPT ![r.name] = None]
  \/ r.tag = "resets" /\ after = ns
  \/ r.tag = "update" /\ Enters(r.file, ns, after)

(* The images of a snapshot of the names ns.                                *)
Pictures(images, ns) ==
  /\ \A f \in images : Named(ns, f.id) # {} /\ LinkedTo(f.links, ns, f.id)
  /\ \A f, g \in images : f.id = g.id => f = g
  /\ \A n \in Names : ns[n] # None => \E f \in images : f.id = ns[n]

(* A zone that recovery passes over, and one it restores.                   *)
Fragment(l) ==
  l = <<>> \/ (l[1] \in Supers /\ (Len(l) = 1 \/ (Len(l) = 2 /\ l[2] = ResetCountRecord)))
Whole(l) == Len(l) >= 2 /\ l[1] \in Supers /\ Sound(Decoded(Tail(l)))

(* The other zones are in order, and older than c.                          *)
Ahead(c) ==
  \A z \in MetaZone \ {c} :
    Fragment(log[z]) \/ (Whole(log[z]) /\ log[z][1].seq < log[c][1].seq)

(* c is the zone Mount picks.                                               *)
Leads(c) ==
  c \in MetaZone /\ Whole(log[c]) /\ Ahead(c)

(* c holds a snapshot cut short, of which Mount says corruption.            *)
Blocks(c) ==
  c \in MetaZone /\ Len(log[c]) = 2 /\ log[c][1] \in Supers /\ log[c][2] = TornRecord /\ Ahead(c)

-----------------------------------------------------------------------------
(* The fold of the log.  g is a table of the states after any selection of  *)
(* the records of s.                                                        *)
Entry(g, s, r) == IF r = {} THEN Blank ELSE DecodeRecord(g[r \ {Max(r)}], s[Max(r)])
IsTable(g, s, S) == g = [r \in SUBSET S |-> Entry(g, s, r)]
Alike(s, t, S) == \A k \in S : s[k] = t[k]
Table(s, S) == CHOOSE g : IsTable(g, s, S)

(* The last position, and what is left without it.                          *)
LEMMA LastFacts ==
  ASSUME NEW r \in SUBSET Int, IsFiniteSet(r), r # {}
  PROVE  /\ Max(r) \in r /\ IsFiniteSet(r \ {Max(r)})
         /\ Cardinality(r) \in Nat /\ Cardinality(r \ {Max(r)}) \in Nat
         /\ Cardinality(r \ {Max(r)}) < Cardinality(r)
<1>1. Max(r) \in r
  BY MaxFacts
<1>2. /\ IsFiniteSet(r \ {Max(r)})
      /\ Cardinality(r \ {Max(r)}) = Cardinality(r) - 1
  BY <1>1, FS_RemoveElement
<1>3. Cardinality(r) \in Nat /\ Cardinality(r \ {Max(r)}) \in Nat
  BY <1>2, FS_CardinalityType
<1> QED BY <1>1, <1>2, <1>3

(* Tables of two logs agree on the positions where the logs do.             *)
LEMMA TablesAgree ==
  ASSUME NEW s, NEW t, NEW g, NEW h, NEW S \in SUBSET Int, NEW T, IsFiniteSet(S),
         IsTable(g, s, S), IsTable(h, t, T), Alike(s, t, S \cap T)
  PROVE  \A r \in SUBSET (S \cap T) : g[r] = h[r]
<1> DEFINE bad == {r \in SUBSET (S \cap T) : g[r] # h[r]}
           N == {Cardinality(r) : r \in bad}
<1>1. \A r \in SUBSET S : IsFiniteSet(r) /\ Cardinality(r) \in Nat
  BY FS_Subset, FS_CardinalityType
<1>2. ASSUME bad # {} PROVE FALSE
  <2>1. N \in SUBSET Nat /\ N # {}
    BY <1>1, <1>2
  <2> HIDE DEF N
  <2>2. PICK n \in N : \A y \in N : n <= y
    BY <2>1, LeastNumber
  <2>3. PICK r \in bad : n = Cardinality(r)
    BY <2>2 DEF N
  <2>4. r \in SUBSET S /\ r \in SUBSET T /\ r \in SUBSET Int /\ IsFiniteSet(r) /\ g[r] # h[r]
    BY <1>1, <2>3
  <2>5. g[r] = Entry(g, s, r) /\ h[r] = Entry(h, t, r)
    BY <2>4 DEF IsTable
  <2>6. r # {}
    BY <2>4, <2>5 DEF Entry
  <2> DEFINE q == r \ {Max(r)}
  <2>7. /\ Cardinality(q) < Cardinality(r) /\ Cardinality(q) \in Nat
        /\ Cardinality(r) \in Nat /\ Max(r) \in r
    BY <2>4, <2>6, LastFacts
  <2>8. q \in SUBSET (S \cap T) /\ s[Max(r)] = t[Max(r)]
    BY <2>4, <2>7 DEF Alike
  <2>9. q \notin bad
    <3>1. ASSUME q \in bad PROVE FALSE
      <4>1. Cardinality(q) \in N
        BY <3>1 DEF N
      <4>2. n <= Cardinality(q)
        BY <2>2, <4>1
      <4> HIDE DEF q
      <4> QED BY <2>3, <2>7, <4>2
    <3> QED BY <3>1
  <2>10. g[q] = h[q]
    BY <2>8, <2>9
  <2> QED BY <2>4, <2>5, <2>6, <2>8, <2>10 DEF Entry
<1> QED BY <1>2

(* Every finite set of positions has a table.                               *)
LEMMA TableExists ==
  ASSUME NEW s, NEW S \in SUBSET Int, IsFiniteSet(S)
  PROVE  IsTable(Table(s, S), s, S)
<1> DEFINE ok(r) == \E g : IsTable(g, s, r)
           bad == {r \in SUBSET S : ~ ok(r)}
           N == {Cardinality(r) : r \in bad}
<1>1. \A r \in SUBSET S : IsFiniteSet(r) /\ Cardinality(r) \in Nat
  BY FS_Subset, FS_CardinalityType
<1>2. ASSUME bad # {} PROVE FALSE
  <2>1. N \in SUBSET Nat /\ N # {}
    BY <1>1, <1>2
  <2> HIDE DEF N
  <2>2. PICK n \in N : \A y \in N : n <= y
    BY <2>1, LeastNumber
  <2>3. PICK m \in bad : n = Cardinality(m)
    BY <2>2 DEF N
  <2>4. m \in SUBSET S /\ m \in SUBSET Int /\ IsFiniteSet(m) /\ ~ ok(m)
    BY <1>1, <2>3
  <2> HIDE DEF ok
  <2>5. ASSUME NEW r \in SUBSET m, r # m
        PROVE  IsFiniteSet(r) /\ r \in SUBSET Int /\ IsTable(Table(s, r), s, r)
    <3>1. r \in SUBSET S /\ r \in SUBSET Int /\ IsFiniteSet(r)
      BY <1>1, <2>4
    <3>2. Cardinality(r) < Cardinality(m)
      <4>1. Cardinality(r) <= Cardinality(m) /\ (Cardinality(m) = Cardinality(r) => m = r)
        BY <2>4, FS_Subset
      <4> QED BY <1>1, <2>4, <2>5, <3>1, <4>1
    <3>3. r \notin bad
      <4>1. ASSUME r \in bad PROVE FALSE
        <5>1. n <= Cardinality(r)
          BY <2>2, <4>1 DEF N
        <5> QED BY <1>1, <2>3, <2>4, <3>1, <3>2, <5>1
      <4> QED BY <4>1
    <3>4. \E g : IsTable(g, s, r)
      BY <3>1, <3>3 DEF ok
    <3> QED BY <3>1, <3>4 DEF Table
  <2> DEFINE val(r) == Table(s, r)[r]
             G == [r \in SUBSET m |->
                     IF r = {} THEN Blank ELSE DecodeRecord(val(r \ {Max(r)}), s[Max(r)])]
  <2>6. ASSUME NEW r \in SUBSET m, r # m
        PROVE  G[r] = val(r)
    <3>1. IsTable(Table(s, r), s, r) /\ IsFiniteSet(r) /\ r \in SUBSET Int
      BY <2>5, <2>6
    <3>2. val(r) = Entry(Table(s, r), s, r)
      BY <3>1 DEF IsTable
    <3>3. CASE r = {}
      BY <3>2, <3>3 DEF Entry
    <3>4. CASE r # {}
      <4> DEFINE q == r \ {Max(r)}
      <4>1. Max(r) \in r
        BY <3>1, <3>4, LastFacts
      <4>2. q \in SUBSET m /\ q # m /\ q \in SUBSET (r \cap q)
        BY <2>6, <4>1
      <4>3. IsTable(Table(s, q), s, q)
        BY <2>5, <4>2
      <4>4. Table(s, r)[q] = Table(s, q)[q]
        <5>1. Alike(s, s, r \cap q)
          BY DEF Alike
        <5> HIDE DEF q
        <5> QED BY <3>1, <4>2, <4>3, <5>1, TablesAgree
      <4> QED BY <3>2, <3>4, <4>4 DEF Entry
    <3> QED BY <3>3, <3>4
  <2>7. \A r \in SUBSET m : G[r] = Entry(G, s, r)
    <3> SUFFICES ASSUME NEW r \in SUBSET m PROVE G[r] = Entry(G, s, r)
      OBVIOUS
    <3>1. CASE r = {}
      BY <3>1 DEF Entry
    <3>2. CASE r # {}
      <4>0. IsFiniteSet(r) /\ r \in SUBSET Int
        BY <1>1, <2>4
      <4>1. Max(r) \in r
        BY <3>2, <4>0, LastFacts
      <4>2. r \ {Max(r)} \in SUBSET m /\ r \ {Max(r)} # m
        BY <4>1
      <4>3. G[r \ {Max(r)}] = val(r \ {Max(r)})
        BY <2>6, <4>2
      <4>4. G[r] = DecodeRecord(val(r \ {Max(r)}), s[Max(r)])
        BY <3>2
      <4> HIDE DEF G, val
      <4> QED BY <3>2, <4>3, <4>4 DEF Entry
    <3> QED BY <3>1, <3>2
  <2>8. G = [r \in SUBSET m |-> G[r]]
    OBVIOUS
  <2> HIDE DEF G
  <2>9. IsTable(G, s, m)
    BY <2>7, <2>8 DEF IsTable
  <2> QED BY <2>4, <2>9 DEF ok
<1>3. ok(S)
  BY <1>2
<1> QED BY <1>3 DEF Table

(* The library's fold is the entry of the table for the whole log.          *)
LEMMA DecodedIsTable ==
  ASSUME NEW s
  PROVE  Decoded(s) = Table(s, DOMAIN s)[DOMAIN s]
BY DEF Decoded, FoldLeft, MapThenFoldSet, Table, IsTable, Entry

(* An empty log leaves the blank state.                                     *)
LEMMA DecodedEmpty == Decoded(<<>>) = Blank
<1>1. DOMAIN <<>> = {}
  OBVIOUS
<1>2. IsTable(Table(<<>>, {}), <<>>, {})
  BY FS_EmptySet, TableExists
<1>3. Table(<<>>, {})[{}] = Blank
  BY <1>2 DEF IsTable, Entry
<1> QED BY <1>1, <1>3, DecodedIsTable

(* RecoverFrom decodes one record after the other: a further record acts on *)
(* the state that those before it have left.                                *)
LEMMA DecodedAppend ==
  ASSUME NEW R, NEW s \in Seq(R), NEW x \in R
  PROVE  Decoded(Append(s, x)) = DecodeRecord(Decoded(s), x)
<1> DEFINE t == Append(s, x)
           n == Len(s)
<1>1. n \in Nat /\ DOMAIN s = 1..n /\ DOMAIN t = 1..(n + 1)
  OBVIOUS
<1>2. t[n + 1] = x /\ \A k \in 1..n : t[k] = s[k]
  OBVIOUS
<1> HIDE DEF t, n
<1>3. IsFiniteSet(1..n) /\ IsFiniteSet(1..(n + 1)) /\ 1..n \in SUBSET Int /\ 1..(n + 1) \in SUBSET Int
  BY <1>1, FS_Interval
<1>4. IsTable(Table(s, 1..n), s, 1..n) /\ IsTable(Table(t, 1..(n + 1)), t, 1..(n + 1))
  BY <1>3, TableExists
<1>5. Max(1..(n + 1)) = n + 1
  <2>1. Max(1..(n + 1)) \in 1..(n + 1) /\ n + 1 <= Max(1..(n + 1))
    BY <1>1, <1>3, MaxFacts
  <2> QED BY <1>1, <2>1
<1>6. (1..(n + 1)) \ {n + 1} = 1..n /\ 1..(n + 1) # {}
  <2>1. n + 1 \in 1..(n + 1)
    BY <1>1
  <2>2. \A k : k \in (1..(n + 1)) \ {n + 1} <=> k \in 1..n
    BY <1>1
  <2> QED BY <2>1, <2>2, Zenon
<1>7. Table(t, 1..(n + 1))[1..(n + 1)] = DecodeRecord(Table(t, 1..(n + 1))[1..n], x)
  BY <1>2, <1>4, <1>5, <1>6, ZenonT(60) DEF IsTable, Entry
<1>8. 1..n \in SUBSET ((1..n) \cap (1..(n + 1)))
  BY <1>1
<1>9. \A k \in (1..n) \cap (1..(n + 1)) : s[k] = t[k]
  BY <1>2
<1>10. ASSUME NEW u, u = t, NEW lo, lo = 1..n, NEW hi, hi = 1..(n + 1),
              NEW g, g = Table(s, lo), NEW h, h = Table(u, hi)
       PROVE  g[lo] = h[lo]
  <2>1. lo \in SUBSET Int /\ IsFiniteSet(lo) /\ lo \in SUBSET (lo \cap hi)
    BY <1>3, <1>8, <1>10
  <2>2. IsTable(g, s, lo) /\ IsTable(h, u, hi)
    BY <1>4, <1>10
  <2>3. Alike(s, u, lo \cap hi)
    BY <1>9, <1>10 DEF Alike
  <2>4. \A r \in SUBSET (lo \cap hi) : g[r] = h[r]
    BY <2>1, <2>2, <2>3, TablesAgree
  <2> QED BY <2>1, <2>4
<1>11. Decoded(s) = Table(s, 1..n)[1..n] /\ Decoded(t) = Table(t, 1..(n + 1))[1..(n + 1)]
  BY <1>1, DecodedIsTable
<1>12. Table(s, 1..n)[1..n] = Table(t, 1..(n + 1))[1..n]
  BY <1>10
<1> QED BY <1>7, <1>11, <1>12 DEF t

-----------------------------------------------------------------------------
(* Types                                                                    *)

(* How an image is put together.                                            *)
LEMMA ImageFacts ==
  ASSUME NEW i \in Id, NEW e \in Seq(Nat), NEW a \in BOOLEAN, NEW l \in Seq(Names)
  PROVE  [id |-> i, exts |-> e, active |-> a, links |-> l] \in Image
BY DEF Image

(* A file that was never decoded is blank.                                  *)
LEMMA BlankFacts ==
  /\ Blank \in State
  /\ Blank.status = "ok" /\ ~Blank.snapshot /\ ~Blank.ended
  /\ Blank.files = NoNames /\ Blank.next = 1
<1>1. MaxFileId \in Nat
  BY MetaAssumption
<1>2. \A i \in Id : Encode([j \in Id |-> NoFile], i, 0) \in Image
  <2> SUFFICES ASSUME NEW i \in Id PROVE Encode([j \in Id |-> NoFile], i, 0) \in Image
    OBVIOUS
  <2>1. <<>> \in Seq(Nat) /\ <<>> \in Seq(Names)
    OBVIOUS
  <2>2. [j \in Id |-> NoFile][i] = NoFile
    OBVIOUS
  <2>3. NoFile.exts = <<>> /\ NoFile.active = FALSE /\ NoFile.links = <<>> /\ Len(<<>>) = 0
    BY DEF NoFile, NewFile
  <2>4. SubSeq(<<>>, 0 + 1, 0) = <<>>
    OBVIOUS
  <2> DEFINE none == [j \in Id |-> NoFile]
  <2>5. none[i].exts = <<>> /\ none[i].active = FALSE /\ none[i].links = <<>>
    BY <2>2, <2>3
  <2> HIDE DEF none
  <2>6. Encode(none, i, 0)
        = [id |-> i, exts |-> <<>>, active |-> FALSE, links |-> <<>>]
    BY <2>3, <2>4, <2>5 DEF Encode
  <2>7. Encode(none, i, 0) \in Image
    BY <2>1, <2>6, ImageFacts
  <2> QED BY <2>7 DEF none
<1>3. Blank.image \in [Id -> Image] /\ Blank.files \in [Names -> Id \cup {None}]
  BY <1>2 DEF Blank, NoNames
<1> QED BY <1>1, <1>3 DEF Blank, State, NameMap

(* Decoding a file never moves next_file_id_ back, and moves it past the    *)
(* file's number.                                                           *)
LEMMA RaiseFacts ==
  ASSUME NEW next \in 1..MaxFileId + 1, NEW i \in Id
  PROVE  /\ RaiseNextFileId(next, i) \in 1..MaxFileId + 1
         /\ next <= RaiseNextFileId(next, i) /\ i < RaiseNextFileId(next, i)
<1>1. MaxFileId \in Nat
  BY MetaAssumption
<1>2. next \in Int /\ i + 1 \in Int /\ i + 1 \in 1..MaxFileId + 1
  BY <1>1 DEF Id
<1>3. IsFiniteSet({next, i + 1})
  <2>1. IsFiniteSet({next})
    BY FS_Singleton
  <2>2. IsFiniteSet({next} \cup {i + 1})
    BY <2>1, FS_AddElement
  <2>3. {next} \cup {i + 1} = {next, i + 1}
    OBVIOUS
  <2> QED BY <2>2, <2>3
<1>4. /\ Max({next, i + 1}) \in {next, i + 1}
      /\ \A x \in {next, i + 1} : x <= Max({next, i + 1})
  <2> DEFINE S == {next, i + 1}
  <2>1. S \in SUBSET Int /\ S # {}
    BY <1>2
  <2> HIDE DEF S
  <2>2. IsFiniteSet(S) => Max(S) \in S /\ \A x \in S : x <= Max(S)
    BY <2>1, MaxFacts
  <2> QED BY <1>3, <2>2 DEF S
<1>5. /\ RaiseNextFileId(next, i) \in {next, i + 1}
      /\ next <= RaiseNextFileId(next, i) /\ i + 1 <= RaiseNextFileId(next, i)
  BY <1>4 DEF RaiseNextFileId
<1> HIDE DEF RaiseNextFileId
<1> QED BY <1>1, <1>2, <1>5 DEF Id

(* The same for the files of a snapshot.                                    *)
Raised(next, images) == Max({next} \cup {RaiseNextFileId(next, f.id) : f \in images})

(* After a snapshot next_file_id_ is past the number of every file in it.   *)
LEMMA RaisedFacts ==
  ASSUME NEW next \in 1..MaxFileId + 1, NEW images \in SUBSET Image
  PROVE  /\ Raised(next, images) \in 1..MaxFileId + 1
         /\ next <= Raised(next, images)
         /\ \A f \in images : f.id < Raised(next, images)
<1> DEFINE S == {next} \cup {RaiseNextFileId(next, f.id) : f \in images}
<1>1. MaxFileId \in Nat
  BY MetaAssumption
<1>2. \A f \in images : /\ RaiseNextFileId(next, f.id) \in 1..MaxFileId + 1
                        /\ f.id < RaiseNextFileId(next, f.id) /\ f.id \in Id
  BY RaiseFacts DEF Image
<1>3. S \in SUBSET (1..MaxFileId + 1) /\ next \in S
  BY <1>2
<1>4. \A f \in images : RaiseNextFileId(next, f.id) \in S
  OBVIOUS
<1> HIDE DEF S
<1>5. IsFiniteSet(1..MaxFileId + 1)
  BY <1>1, FS_Interval
<1>6. IsFiniteSet(S) /\ S \in SUBSET Int /\ S # {}
  <2>1. S \in SUBSET Int /\ S # {}
    BY <1>1, <1>3
  <2>2. IsFiniteSet(S)
    BY <1>3, <1>5, FS_Subset
  <2> QED BY <2>1, <2>2
<1>7. Max(S) \in S /\ \A x \in S : x <= Max(S)
  BY <1>6, MaxFacts
<1>8. Raised(next, images) = Max(S)
  BY DEF Raised, S
<1>9. \A f \in images : f.id < Max(S)
  <2> SUFFICES ASSUME NEW f \in images PROVE f.id < Max(S)
    OBVIOUS
  <2>1. RaiseNextFileId(next, f.id) <= Max(S) /\ RaiseNextFileId(next, f.id) \in S
    BY <1>4, <1>7
  <2>2. Max(S) \in Int
    BY <1>6, <1>7
  <2>3. RaiseNextFileId(next, f.id) \in Int /\ f.id \in Int
    BY <1>1, <1>2 DEF Id
  <2> QED BY <1>2, <2>1, <2>2, <2>3
<1>10. Max(S) \in 1..MaxFileId + 1 /\ next <= Max(S)
  BY <1>3, <1>7
<1> QED BY <1>8, <1>9, <1>10

(* The parts of a decoded snapshot.                                         *)
Holders(images, n) == {f \in images : n \in Range(f.links)}
Holder(images, n) == CHOOSE f \in Holders(images, n) : TRUE
ImageOf(images, i) == CHOOSE f \in images : f.id = i

(* A state with some of its parts replaced, and one that gets a snapshot.   *)
Rewritten(st, b, c, d) == [[st EXCEPT !.next = d] EXCEPT !.files = b, !.image = c]
Restored(st, b, c, d) == [st EXCEPT !.snapshot = TRUE, !.files = b, !.image = c, !.next = d]

(* What is in them.                                                         *)
LEMMA RewrittenFacts ==
  ASSUME NEW st \in State, NEW b \in NameMap, NEW c \in [Id -> Image],
         NEW d \in 1..MaxFileId + 1
  PROVE  LET st2 == Rewritten(st, b, c, d) IN
         /\ st2 \in State
         /\ st2.status = st.status /\ st2.snapshot = st.snapshot /\ st2.ended = st.ended
         /\ st2.files = b /\ st2.image = c /\ st2.next = d
BY DEF State, NameMap, Rewritten

(* The same for a snapshot.                                                 *)
LEMMA RestoredFacts ==
  ASSUME NEW st \in State, NEW b \in NameMap, NEW c \in [Id -> Image],
         NEW d \in 1..MaxFileId + 1
  PROVE  LET st2 == Restored(st, b, c, d) IN
         /\ st2 \in State
         /\ st2.status = st.status /\ st2.snapshot /\ st2.ended = st.ended
         /\ st2.files = b /\ st2.image = c /\ st2.next = d
BY DEF State, NameMap, Restored

(* What DecodeSnapshotFrom sets, and what it keeps.                         *)
LEMMA SnapshotFacts ==
  ASSUME NEW st \in State, NEW images \in SUBSET Image
  PROVE  LET st2 == DecodeSnapshotFrom(st, images) IN
         /\ st2 \in State
         /\ st2.status = st.status /\ st2.snapshot /\ st2.ended = st.ended
         /\ st2.files = [n \in Names |->
              IF Holders(images, n) = {} THEN None ELSE Holder(images, n).id]
         /\ st2.image = [i \in Id |->
              IF \E f \in images : f.id = i THEN ImageOf(images, i) ELSE Blank.image[i]]
         /\ st2.next = Raised(st.next, images)
<1> DEFINE b == [n \in Names |-> IF Holders(images, n) = {} THEN None ELSE Holder(images, n).id]
           c == [i \in Id |->
              IF \E f \in images : f.id = i THEN ImageOf(images, i) ELSE Blank.image[i]]
           d == Raised(st.next, images)
           st2 == DecodeSnapshotFrom(st, images)
<1>1. b \in NameMap
  <2>1. ASSUME NEW n \in Names, Holders(images, n) # {}
        PROVE  Holder(images, n).id \in Id
    <3>1. Holder(images, n) \in images
      BY <2>1 DEF Holder, Holders
    <3> QED BY <3>1 DEF Image
  <2> QED BY <2>1 DEF NameMap
<1>2. c \in [Id -> Image]
  <2>1. \A i \in Id : Blank.image[i] \in Image
    BY BlankFacts DEF State
  <2>2. ASSUME NEW i \in Id, \E f \in images : f.id = i PROVE ImageOf(images, i) \in Image
    BY <2>2 DEF ImageOf
  <2> QED BY <2>1, <2>2
<1>3. d \in 1..MaxFileId + 1
  BY RaisedFacts DEF State
<1>4. st2 = Restored(st, b, c, d)
  BY Zenon DEF DecodeSnapshotFrom, Holders, Holder, ImageOf, Raised, Restored
<1> HIDE DEF b, c, d, st2
<1>5. /\ st2 \in State
      /\ st2.status = st.status /\ st2.snapshot /\ st2.ended = st.ended
      /\ st2.files = b /\ st2.image = c /\ st2.next = d
  BY <1>1, <1>2, <1>3, <1>4, RestoredFacts
<1> QED BY <1>5 DEF b, c, d, st2

(* A state that has seen an update of a file it knows.                      *)
LEMMA UpdateFacts ==
  ASSUME NEW st \in State, NEW f \in Image, NEW replace \in BOOLEAN,
         \E n \in Names : st.files[n] = f.id,
         ~ \E n \in Range(st.image[f.id].links) : st.files[n] = None
  PROVE  LET old == st.image[f.id]
             st2 == DecodeFileUpdateFrom(st, f, replace) IN
         /\ st2 \in State
         /\ st2.status = st.status /\ st2.snapshot = st.snapshot /\ st2.ended = st.ended
         /\ st2.files = Insert(Erase(st.files, Range(old.links)), Range(f.links), f.id)
         /\ st2.image = [st.image EXCEPT ![f.id] = MergeUpdate(old, f, replace)]
         /\ st2.next = RaiseNextFileId(st.next, f.id)
<1> DEFINE old == st.image[f.id]
           m == MergeUpdate(old, f, replace)
           b == Insert(Erase(st.files, Range(old.links)), Range(f.links), f.id)
           c == [st.image EXCEPT ![f.id] = m]
           d == RaiseNextFileId(st.next, f.id)
           st2 == DecodeFileUpdateFrom(st, f, replace)
           seen == [st EXCEPT !.next = d]
<1>0. f.id \in Id /\ st.files \in NameMap /\ st.image \in [Id -> Image] /\ st.next \in 1..MaxFileId + 1
  BY DEF Image, State
<1>1. b \in NameMap
  BY <1>0 DEF Insert, Erase, NameMap
<1>2. c \in [Id -> Image]
  <2>1. old.exts \o f.exts \in Seq(Nat)
    BY <1>0 DEF Image
  <2>2. m \in Image
    BY <2>1 DEF MergeUpdate, Image
  <2> HIDE DEF m
  <2> QED BY <1>0, <2>2
<1>3. d \in 1..MaxFileId + 1
  BY <1>0, RaiseFacts
<1>4. st2 = Rewritten(st, b, c, d)
  <2>1. st2 = [seen EXCEPT
              !.files = Insert(Erase(seen.files, Range(old.links)), Range(f.links), f.id),
              !.image = [seen.image EXCEPT ![f.id] = m]]
    BY Zenon DEF DecodeFileUpdateFrom
  <2>2. seen.files = st.files /\ seen.image = st.image
    BY DEF State
  <2> HIDE DEF seen, m
  <2>3. st2 = [seen EXCEPT !.files = b, !.image = c]
    BY <2>1, <2>2
  <2> QED BY <2>3 DEF seen, Rewritten
<1> HIDE DEF b, c, d, st2
<1>5. /\ st2 \in State
      /\ st2.status = st.status /\ st2.snapshot = st.snapshot /\ st2.ended = st.ended
      /\ st2.files = b /\ st2.image = c /\ st2.next = d
  BY <1>1, <1>2, <1>3, <1>4, RewrittenFacts
<1> QED BY <1>5 DEF b, c, d, st2

(* A state that has seen an update it did not expect.                       *)
LEMMA CorruptTypes ==
  ASSUME NEW st \in State, NEW d \in 1..MaxFileId + 1
  PROVE  Corrupt(st) \in State /\ Corrupt([st EXCEPT !.next = d]) \in State
BY DEF State, Corrupt

(* An update of a file that no name stands for, field by field.             *)
LEMMA EnterFacts ==
  ASSUME NEW st \in State, NEW f \in Image, NEW replace \in BOOLEAN,
         ~ \E n \in Names : st.files[n] = f.id
  PROVE  LET st2 == DecodeFileUpdateFrom(st, f, replace) IN
         /\ st2 \in State
         /\ st2.status = st.status /\ st2.snapshot = st.snapshot /\ st2.ended = st.ended
         /\ st2.files = Insert(st.files, {f.links[1]}, f.id)
         /\ st2.image = [st.image EXCEPT ![f.id] = f]
         /\ st2.next = RaiseNextFileId(st.next, f.id)
<1> DEFINE d == RaiseNextFileId(st.next, f.id)
           b == Insert(st.files, {f.links[1]}, f.id)
           c == [st.image EXCEPT ![f.id] = f]
           st2 == DecodeFileUpdateFrom(st, f, replace)
           seen == [st EXCEPT !.next = d]
<1>0. f.id \in Id /\ st.files \in NameMap /\ st.image \in [Id -> Image] /\ st.next \in 1..MaxFileId + 1
  BY DEF Image, State
<1>1. d \in 1..MaxFileId + 1
  BY <1>0, RaiseFacts
<1>2. st2 = [seen EXCEPT !.files = Insert(seen.files, {f.links[1]}, f.id),
                         !.image = [seen.image EXCEPT ![f.id] = f]]
  BY Zenon DEF DecodeFileUpdateFrom
<1>3. seen.files = st.files /\ seen.image = st.image
  BY DEF State
<1>4. b \in NameMap /\ c \in [Id -> Image]
  BY <1>0 DEF Insert, NameMap
<1> HIDE DEF seen
<1>5. st2 = [seen EXCEPT !.files = b, !.image = c]
  BY <1>2, <1>3
<1>6. st2 = Rewritten(st, b, c, d)
  BY <1>5 DEF seen, Rewritten
<1> HIDE DEF b, c, d, st2
<1>7. /\ st2 \in State
      /\ st2.status = st.status /\ st2.snapshot = st.snapshot /\ st2.ended = st.ended
      /\ st2.files = b /\ st2.image = c /\ st2.next = d
  BY <1>1, <1>4, <1>6, RewrittenFacts
<1> QED BY <1>7 DEF st2, b, c, d

(* Whatever an update is of, it is decoded to a state.                      *)
LEMMA UpdateTypes ==
  ASSUME NEW st \in State, NEW f \in Image, NEW replace \in BOOLEAN
  PROVE  DecodeFileUpdateFrom(st, f, replace) \in State
<1> DEFINE d == RaiseNextFileId(st.next, f.id)
           st2 == DecodeFileUpdateFrom(st, f, replace)
<1>0. f.id \in Id /\ st.files \in NameMap /\ st.image \in [Id -> Image] /\ st.next \in 1..MaxFileId + 1
  BY DEF Image, State
<1>1. d \in 1..MaxFileId + 1
  BY <1>0, RaiseFacts
<1>2. CASE /\ \E n \in Names : st.files[n] = f.id
           /\ ~ \E n \in Range(st.image[f.id].links) : st.files[n] = None
  BY <1>2, UpdateFacts
<1>3. CASE /\ \E n \in Names : st.files[n] = f.id
           /\ \E n \in Range(st.image[f.id].links) : st.files[n] = None
  <2>1. st2 = Corrupt([st EXCEPT !.next = d])
    BY <1>3, Zenon DEF DecodeFileUpdateFrom
  <2> QED BY <1>1, <2>1, CorruptTypes
<1>4. CASE ~ \E n \in Names : st.files[n] = f.id
  BY <1>4, EnterFacts
<1> QED BY <1>2, <1>3, <1>4

-----------------------------------------------------------------------------
(* Links                                                                    *)

(* RemoveLinkName erases the place where find() found the name.             *)
LEMMA RemoveFirstPlace ==
  ASSUME NEW T, NEW s \in Seq(T), NEW n, n \in Range(s)
  PROVE  \E k \in 1..Len(s) : s[k] = n /\ RemoveFirst(s, n) = RemoveAt(s, k)
<1> DEFINE S == {i \in 1..Len(s) : s[i] = n}
<1>1. S # {} /\ S \in SUBSET Nat
  BY DEF Range
<1>2. PICK k \in S : \A y \in S : k <= y
  BY <1>1, LeastNumber
<1>3. Min(S) \in S
  BY <1>1, <1>2 DEF Min
<1>4. SelectInSeq(s, LAMBDA v : v = n) = Min(S)
  BY <1>1 DEF SelectInSeq
<1>5. \E i \in 1..Len(s) : s[i] = n
  BY <1>1
<1>6. RemoveFirst(s, n) = RemoveAt(s, Min(S))
  BY <1>4, <1>5 DEF RemoveFirst
<1> QED BY <1>3, <1>6

(* What is at which place after an element is taken out.                    *)
LEMMA RemoveAtFacts ==
  ASSUME NEW T, NEW s \in Seq(T), NEW k \in 1..Len(s)
  PROVE  /\ RemoveAt(s, k) \in Seq(T)
         /\ Len(RemoveAt(s, k)) = Len(s) - 1
         /\ \A j \in 1..Len(s) - 1 :
              RemoveAt(s, k)[j] = IF j < k THEN s[j] ELSE s[j + 1]
<1> DEFINE u == SubSeq(s, 1, k - 1)
           v == SubSeq(s, k + 1, Len(s))
<1>1. u \in Seq(T) /\ Len(u) = k - 1 /\ \A j \in 1..k - 1 : u[j] = s[j]
  OBVIOUS
<1>2. v \in Seq(T) /\ Len(v) = Len(s) - k /\ \A j \in 1..Len(s) - k : v[j] = s[j + k]
  OBVIOUS
<1>3. RemoveAt(s, k) = u \o v
  BY DEF RemoveAt
<1> HIDE DEF u, v
<1>4. u \o v \in Seq(T) /\ Len(u \o v) = Len(s) - 1
  BY <1>1, <1>2
<1>5. ASSUME NEW j \in 1..Len(s) - 1, j < k PROVE (u \o v)[j] = s[j]
  <2>1. j \in 1..Len(u) /\ j \in 1..k - 1
    BY <1>1, <1>5
  <2>2. (u \o v)[j] = u[j]
    BY <1>1, <1>2, <2>1
  <2> QED BY <1>1, <2>1, <2>2
<1>6. ASSUME NEW j \in 1..Len(s) - 1, ~(j < k) PROVE (u \o v)[j] = s[j + 1]
  <2>1. j - Len(u) \in 1..Len(s) - k /\ j \in Len(u) + 1..Len(u) + Len(v)
    BY <1>1, <1>2, <1>6
  <2>2. (u \o v)[j] = v[j - Len(u)]
    BY <1>1, <1>2, <2>1
  <2>3. v[j - Len(u)] = s[j - Len(u) + k] /\ j - Len(u) + k = j + 1
    BY <1>1, <1>2, <2>1
  <2> QED BY <2>2, <2>3
<1> QED BY <1>3, <1>4, <1>5, <1>6

(* Taking out the first of a name that is there once takes it out.          *)
LEMMA RemoveLinkFacts ==
  ASSUME NEW T, NEW s \in Seq(T), NEW n, n \in Range(s), Once(s)
  PROVE  /\ RemoveFirst(s, n) \in Seq(T) /\ Once(RemoveFirst(s, n))
         /\ Range(RemoveFirst(s, n)) = Range(s) \ {n}
<1>1. PICK k \in 1..Len(s) : s[k] = n /\ RemoveFirst(s, n) = RemoveAt(s, k)
  BY RemoveFirstPlace
<1> DEFINE u == RemoveAt(s, k)
<1>2. /\ u \in Seq(T) /\ Len(u) = Len(s) - 1
      /\ \A j \in 1..Len(s) - 1 : u[j] = IF j < k THEN s[j] ELSE s[j + 1]
  BY RemoveAtFacts
<1> HIDE DEF u
<1>3. Len(s) \in Nat /\ DOMAIN s = 1..Len(s) /\ DOMAIN u = 1..Len(s) - 1
  BY <1>2
<1>4. Once(u)
  <2> SUFFICES ASSUME NEW i \in 1..Len(s) - 1, NEW j \in 1..Len(s) - 1, u[i] = u[j]
               PROVE  i = j
    BY <1>3 DEF Once
  <2>1. PICK p \in DOMAIN s : u[i] = s[p] /\ p = IF i < k THEN i ELSE i + 1
    BY <1>2, <1>3
  <2>2. PICK q \in DOMAIN s : u[j] = s[q] /\ q = IF j < k THEN j ELSE j + 1
    BY <1>2, <1>3
  <2>3. p = q
    BY <2>1, <2>2 DEF Once
  <2> QED BY <2>1, <2>2, <2>3
<1>5. ASSUME NEW x \in Range(u) PROVE x \in Range(s) \ {n}
  <2>1. PICK i \in 1..Len(s) - 1 : x = u[i]
    BY <1>3 DEF Range
  <2>2. PICK p \in DOMAIN s : u[i] = s[p] /\ p = IF i < k THEN i ELSE i + 1
    BY <1>2, <1>3
  <2>3. p # k
    BY <1>3, <2>2
  <2>4. s[p] # s[k]
    BY <1>3, <2>3 DEF Once
  <2> QED BY <1>1, <2>1, <2>2, <2>4 DEF Range
<1>6. ASSUME NEW x \in Range(s) \ {n} PROVE x \in Range(u)
  <2>1. PICK p \in 1..Len(s) : x = s[p]
    BY <1>3 DEF Range
  <2>2. p # k
    BY <1>1, <1>6, <2>1
  <2>3. PICK i \in 1..Len(s) - 1 : p = IF i < k THEN i ELSE i + 1
    <3>1. CASE p < k
      BY <1>3, <3>1
    <3>2. CASE p > k
      <4>1. p - 1 \in 1..Len(s) - 1 /\ ~(p - 1 < k) /\ p = (p - 1) + 1
        BY <1>3, <3>2
      <4> QED BY <4>1
    <3> QED BY <2>2, <3>1, <3>2
  <2>4. u[i] = s[p]
    BY <1>2, <2>3
  <2> QED BY <1>3, <2>1, <2>4 DEF Range
<1> QED BY <1>1, <1>2, <1>4, <1>5, <1>6 DEF u

(* A sequence stays one without an element, whatever the element.           *)
LEMMA RemoveFirstType ==
  ASSUME NEW T, NEW s \in Seq(T), NEW n
  PROVE  RemoveFirst(s, n) \in Seq(T)
<1>1. CASE n \in Range(s)
  BY <1>1, RemoveFirstPlace, RemoveAtFacts
<1>2. CASE n \notin Range(s)
  <2>1. ~ \E i \in 1..Len(s) : s[i] = n
    BY <1>2 DEF Range
  <2> QED BY <2>1 DEF RemoveFirst
<1> QED BY <1>1, <1>2

(* A further link.                                                          *)
LEMMA AppendLinkFacts ==
  ASSUME NEW T, NEW s \in Seq(T), NEW n \in T, n \notin Range(s), Once(s)
  PROVE  /\ Append(s, n) \in Seq(T) /\ Once(Append(s, n))
         /\ Range(Append(s, n)) = Range(s) \cup {n}
<1> DEFINE u == Append(s, n)
<1>1. /\ u \in Seq(T) /\ Len(s) \in Nat /\ DOMAIN s = 1..Len(s) /\ DOMAIN u = 1..Len(s) + 1
      /\ u[Len(s) + 1] = n /\ \A j \in 1..Len(s) : u[j] = s[j]
  OBVIOUS
<1> HIDE DEF u
<1>2. \A j \in DOMAIN u : (j \in DOMAIN s /\ u[j] = s[j] /\ s[j] # n) \/ (j = Len(s) + 1 /\ u[j] = n)
  BY <1>1 DEF Range
<1>3. Once(u)
  BY <1>1, <1>2 DEF Once
<1>4. \A x : x \in Range(u) <=> x \in Range(s) \cup {n}
  BY <1>1, <1>2 DEF Range
<1> QED BY <1>1, <1>3, <1>4 DEF u

-----------------------------------------------------------------------------
(* Records                                                                  *)

(* The name space without n, the images when i has lost the link n.         *)
Unnamed(ns, n) == [ns EXCEPT ![n] = None]
Unlinked(img, i, n) == [img EXCEPT ![i].links = RemoveFirst(@, n)]

(* A state that has seen a deletion of a name it knows.                     *)
LEMMA DeletionFacts ==
  ASSUME NEW st \in State, NEW i \in Id, NEW n \in Names,
         st.files[n] = i, n \in Range(st.image[i].links)
  PROVE  LET st2 == DecodeFileDeletionFrom(st, i, n) IN
         /\ st2 \in State
         /\ st2.status = st.status /\ st2.snapshot = st.snapshot /\ st2.ended = st.ended
         /\ st2.files = Unnamed(st.files, n)
         /\ st2.image = Unlinked(st.image, i, n)
         /\ st2.next = st.next
<1> DEFINE b == [st.files EXCEPT ![n] = None]
           c == [st.image EXCEPT ![i].links = RemoveFirst(@, n)]
           st2 == DecodeFileDeletionFrom(st, i, n)
<1>0. st.files \in NameMap /\ st.image \in [Id -> Image] /\ st.next \in 1..MaxFileId + 1
  BY DEF State
<1>1. b \in NameMap
  BY <1>0 DEF NameMap
<1>2. c \in [Id -> Image]
  <2>1. RemoveFirst(st.image[i].links, n) \in Seq(Names)
    BY <1>0, RemoveFirstType DEF Image
  <2> QED BY <1>0, <2>1 DEF Image
<1>3. st2 = [st EXCEPT !.files = b, !.image = c]
  BY Zenon DEF DecodeFileDeletionFrom
<1>4. [st EXCEPT !.files = b, !.image = c] = Rewritten(st, b, c, st.next)
  <2> HIDE DEF b, c
  <2> QED BY DEF Rewritten, State
<1> HIDE DEF b, c, st2
<1>5. /\ st2 \in State
      /\ st2.status = st.status /\ st2.snapshot = st.snapshot /\ st2.ended = st.ended
      /\ st2.files = b /\ st2.image = c /\ st2.next = st.next
  BY <1>0, <1>1, <1>2, <1>3, <1>4, RewrittenFacts
<1> QED BY <1>5 DEF b, c, st2, Unnamed, Unlinked

(* What is in a record, by its tag.                                         *)
LEMMA RecordFacts ==
  ASSUME NEW r \in Record
  PROVE  /\ r.tag \in {"update", "replace"} => r.file \in Image
         /\ r.tag = "delete" => r.id \in Id /\ r.name \in Names
         /\ r.tag = "snapshot" => r.files \in SUBSET Image
         /\ r.tag = "super" => r \in Supers
         /\ r.tag \in {"update", "replace", "delete", "snapshot", "super", "end", "resets",
                       "torn"}
BY DEF Record, Supers, EndRecord, ResetCountRecord, TornRecord

(* A record takes a state to a state.                                       *)
LEMMA DecodeTypes ==
  ASSUME NEW st \in State, NEW r \in Record
  PROVE  DecodeRecord(st, r) \in State
<1> DEFINE st2 == DecodeRecord(st, r)
<1>1. CASE st.status # "ok" \/ st.ended
  BY <1>1 DEF DecodeRecord
<1>2. CASE ~ (st.status # "ok" \/ st.ended)
  <2>1. CASE r.tag = "snapshot"
    <3>1. st2 = DecodeSnapshotFrom(st, r.files)
      BY <1>2, <2>1 DEF DecodeRecord
    <3> QED BY <2>1, <3>1, RecordFacts, SnapshotFacts
  <2>2. CASE r.tag = "update"
    <3>1. st2 = DecodeFileUpdateFrom(st, r.file, FALSE)
      BY <1>2, <2>2 DEF DecodeRecord
    <3> QED BY <2>2, <3>1, RecordFacts, UpdateTypes
  <2>3. CASE r.tag = "replace"
    <3>1. st2 = DecodeFileUpdateFrom(st, r.file, TRUE)
      BY <1>2, <2>3 DEF DecodeRecord
    <3> QED BY <2>3, <3>1, RecordFacts, UpdateTypes
  <2>4. CASE r.tag = "delete"
    <3>1. st2 = DecodeFileDeletionFrom(st, r.id, r.name)
      BY <1>2, <2>4 DEF DecodeRecord
    <3>2. r.id \in Id /\ r.name \in Names
      BY <2>4, RecordFacts
    <3>3. CASE st.files[r.name] # r.id \/ r.name \notin Range(st.image[r.id].links)
      <4>1. st2 = Corrupt(st)
        BY <3>1, <3>3 DEF DecodeFileDeletionFrom
      <4>2. st.next \in 1..MaxFileId + 1
        BY DEF State
      <4> QED BY <4>1, <4>2, CorruptTypes
    <3>4. CASE ~ (st.files[r.name] # r.id \/ r.name \notin Range(st.image[r.id].links))
      <4>1. ASSUME NEW i \in Id, NEW n \in Names, st.files[n] = i, n \in Range(st.image[i].links)
            PROVE  DecodeFileDeletionFrom(st, i, n) \in State
        BY <4>1, DeletionFacts
      <4> QED BY <3>1, <3>2, <3>4, <4>1
    <3> QED BY <3>3, <3>4
  <2>5. CASE r.tag = "end"
    <3>1. st2 = [st EXCEPT !.ended = TRUE]
      BY <1>2, <2>5 DEF DecodeRecord
    <3> QED BY <3>1 DEF State
  <2>6. CASE r.tag = "resets"
    BY <1>2, <2>6 DEF DecodeRecord
  <2>7. CASE r.tag \in {"super", "torn"}
    <3>1. st2 = Corrupt(st)
      BY <1>2, <2>7 DEF DecodeRecord
    <3>2. st.next \in 1..MaxFileId + 1
      BY DEF State
    <3> QED BY <3>1, <3>2, CorruptTypes
  <2> QED BY <2>1, <2>2, <2>3, <2>4, <2>5, <2>6, <2>7, RecordFacts
<1> QED BY <1>1, <1>2

(* Recovery makes a state of every log.                                     *)
LEMMA DecodedTypes ==
  ASSUME NEW s \in Seq(Record)
  PROVE  Decoded(s) \in State
<1> DEFINE bad == {t \in Seq(Record) : Decoded(t) \notin State}
           N == {Len(t) : t \in bad}
<1>1. ASSUME bad # {} PROVE FALSE
  <2>1. N \in SUBSET Nat /\ N # {}
    <3>1. \A t \in Seq(Record) : Len(t) \in Nat
      OBVIOUS
    <3> QED BY <1>1, <3>1
  <2> HIDE DEF N
  <2>2. PICK n \in N : \A y \in N : n <= y
    BY <2>1, LeastNumber
  <2>3. PICK t \in bad : n = Len(t)
    BY <2>2 DEF N
  <2>4. t \in Seq(Record) /\ Decoded(t) \notin State
    BY <2>3
  <2>5. t # <<>>
    BY <2>4, DecodedEmpty, BlankFacts
  <2>6. PICK u \in Seq(Record), x \in Record : t = Append(u, x)
    BY <2>4, <2>5, SequenceEmptyOrAppend
  <2>7. u \notin bad
    <3>1. ASSUME u \in bad PROVE FALSE
      <4>1. Len(u) \in N
        BY <3>1 DEF N
      <4>2. n <= Len(u) /\ Len(u) \in Nat /\ Len(t) = Len(u) + 1
        BY <2>2, <2>6, <4>1
      <4> QED BY <2>3, <2>6, <4>2
    <3> QED BY <3>1
  <2>8. Decoded(u) \in State
    BY <2>6, <2>7
  <2>9. Decoded(t) = DecodeRecord(Decoded(u), x)
    BY <2>6, DecodedAppend
  <2> QED BY <2>4, <2>6, <2>8, <2>9, DecodeTypes
<1> QED BY <1>1

-----------------------------------------------------------------------------
(* What a log restores                                                      *)

(* A snapshot restores the name space it was taken of.                      *)
LEMMA SnapshotRestores ==
  ASSUME NEW r \in Record, r.tag = "snapshot", NEW ns \in NameMap, Pictures(r.files, ns)
  PROVE  /\ Sound(DecodeRecord(Blank, r)) /\ ~DecodeRecord(Blank, r).ended
         /\ DecodeRecord(Blank, r).files = ns
<1> DEFINE images == r.files
           st == DecodeRecord(Blank, r)
<1>0. images \in SUBSET Image
  BY RecordFacts
<1>1. st = DecodeSnapshotFrom(Blank, images)
  BY BlankFacts DEF DecodeRecord
<1>2. /\ st \in State
      /\ st.status = "ok" /\ st.snapshot /\ ~st.ended
      /\ st.files = [n \in Names |->
           IF Holders(images, n) = {} THEN None ELSE Holder(images, n).id]
      /\ st.image = [i \in Id |->
           IF \E f \in images : f.id = i THEN ImageOf(images, i) ELSE Blank.image[i]]
      /\ st.next = Raised(1, images)
  BY <1>0, <1>1, BlankFacts, SnapshotFacts
<1>3. /\ \A f \in images : /\ f.id \in Id /\ Named(ns, f.id) # {}
                           /\ Once(f.links) /\ Range(f.links) = Named(ns, f.id)
      /\ \A f, g \in images : f.id = g.id => f = g
      /\ \A n \in Names : ns[n] # None => \E f \in images : f.id = ns[n]
  BY <1>0 DEF Pictures, LinkedTo, Image
<1> HIDE DEF st, images
<1>4. ASSUME NEW n \in Names PROVE st.files[n] = ns[n]
  <2>1. \A f : f \in Holders(images, n) <=> f \in images /\ f.id = ns[n]
    BY <1>3 DEF Holders, Named
  <2>2. CASE ns[n] = None
    <3>1. Holders(images, n) = {}
      BY <1>3, <2>1, <2>2 DEF Id, None
    <3> QED BY <1>2, <2>2, <3>1
  <2>3. CASE ns[n] # None
    <3>1. Holders(images, n) # {}
      BY <1>3, <2>1, <2>3
    <3>2. Holder(images, n) \in Holders(images, n)
      BY <3>1 DEF Holder
    <3> QED BY <1>2, <2>1, <3>1, <3>2
  <2> QED BY <2>2, <2>3
<1>5. st.files = ns
  BY <1>2, <1>4 DEF NameMap
<1>6. ASSUME NEW i \in Id, Named(ns, i) # {}
      PROVE  LinkedTo(st.image[i].links, ns, i)
  <2>1. \E f \in images : f.id = i
    BY <1>3, <1>6 DEF Named, Id, None
  <2>2. ImageOf(images, i) \in images /\ ImageOf(images, i).id = i
    BY <2>1 DEF ImageOf
  <2>3. st.image[i] = ImageOf(images, i)
    BY <1>2, <2>1
  <2> QED BY <1>3, <2>2, <2>3 DEF LinkedTo
<1>7. ASSUME NEW n \in Names PROVE ns[n] < st.next
  <2>1. /\ Raised(1, images) \in 1..MaxFileId + 1
        /\ \A f \in images : f.id < Raised(1, images)
    <3>1. 1 \in 1..MaxFileId + 1
      BY MetaAssumption
    <3> QED BY <1>0, <3>1, RaisedFacts
  <2>2. CASE ns[n] = None
    BY <1>2, <2>1, <2>2 DEF None
  <2>3. CASE ns[n] # None
    BY <1>2, <1>3, <2>1, <2>3
  <2> QED BY <2>2, <2>3
<1>8. Sound(st)
  BY <1>2, <1>5, <1>6, <1>7 DEF Sound
<1> QED BY <1>2, <1>5, <1>8 DEF st

(* The update of a named file gives it the names of the record.             *)
LEMMA UpdateTurns ==
  ASSUME NEW st, Sound(st), ~st.ended, NEW f \in Image, NEW replace \in BOOLEAN,
         NEW after \in NameMap, Named(st.files, f.id) # {}, LinkedTo(f.links, after, f.id),
         Touches(st.files, after, f.id)
  PROVE  /\ Sound(DecodeFileUpdateFrom(st, f, replace))
         /\ ~DecodeFileUpdateFrom(st, f, replace).ended
         /\ DecodeFileUpdateFrom(st, f, replace).files = after
<1> DEFINE st2 == DecodeFileUpdateFrom(st, f, replace)
           old == st.image[f.id]
<1>1. /\ st \in State /\ f.id \in Id /\ st.files \in NameMap /\ st.image \in [Id -> Image]
      /\ st.next \in 1..MaxFileId + 1 /\ f.id # None
  BY DEF Sound, State, Image, Id, None
<1>2. Range(old.links) = Named(st.files, f.id)
  BY <1>1 DEF Sound, LinkedTo
<1>3. \E n \in Names : st.files[n] = f.id
  BY DEF Named
<1>4. ~ \E n \in Range(old.links) : st.files[n] = None
  BY <1>1, <1>2 DEF Named
<1>5. /\ st2 \in State
      /\ st2.status = st.status /\ st2.snapshot = st.snapshot /\ st2.ended = st.ended
      /\ st2.files = Insert(Erase(st.files, Range(old.links)), Range(f.links), f.id)
      /\ st2.image = [st.image EXCEPT ![f.id] = MergeUpdate(old, f, replace)]
      /\ st2.next = RaiseNextFileId(st.next, f.id)
  BY <1>1, <1>3, <1>4, UpdateFacts
<1> HIDE DEF st2
<1>6. ASSUME NEW n \in Names PROVE st2.files[n] = after[n]
  <2>1. /\ n \in Range(f.links) <=> after[n] = f.id
        /\ n \in Range(old.links) <=> st.files[n] = f.id
    BY <1>2 DEF LinkedTo, Named
  <2>2. st2.files[n] = IF /\ after[n] = f.id
                          /\ (st.files[n] = f.id \/ st.files[n] = None)
                       THEN f.id ELSE IF st.files[n] = f.id THEN None ELSE st.files[n]
    BY <1>1, <1>5, <2>1 DEF Insert, Erase
  <2>3. CASE after[n] = st.files[n]
    BY <2>2, <2>3
  <2>4. CASE after[n] = None /\ st.files[n] = f.id
    BY <1>1, <2>2, <2>4
  <2>5. CASE after[n] = f.id /\ st.files[n] = None
    BY <2>2, <2>5
  <2> QED BY <2>3, <2>4, <2>5 DEF Touches
<1>7. st2.files = after
  BY <1>5, <1>6, SMTT(40) DEF Insert, NameMap
<1>8. ASSUME NEW i \in Id, Named(after, i) # {}
      PROVE  LinkedTo(st2.image[i].links, after, i)
  <2>1. CASE i = f.id
    <3>1. st2.image[i].links = f.links
      BY <1>1, <1>5, <2>1 DEF MergeUpdate, Image
    <3> QED BY <2>1, <3>1
  <2>2. CASE i # f.id
    <3>1. st2.image[i] = st.image[i]
      BY <1>1, <1>5, <2>2
    <3>2. \A n \in Names : after[n] = i <=> st.files[n] = i
      BY <1>1, <2>2 DEF Id, None, Touches
    <3>3. Named(after, i) = Named(st.files, i)
      BY <3>2 DEF Named
    <3> QED BY <1>8, <3>1, <3>3 DEF Sound, LinkedTo
  <2> QED BY <2>1, <2>2
<1>9. ASSUME NEW n \in Names PROVE after[n] < st2.next
  <2>1. /\ RaiseNextFileId(st.next, f.id) \in 1..MaxFileId + 1
        /\ st.next <= RaiseNextFileId(st.next, f.id) /\ f.id < RaiseNextFileId(st.next, f.id)
    BY <1>1, RaiseFacts
  <2>2. st.files[n] < st.next /\ st.files[n] \in Id \cup {None}
    BY <1>1 DEF Sound, NameMap
  <2>3. CASE after[n] = st.files[n]
    BY <1>1, <1>5, <2>1, <2>2, <2>3 DEF Id, None
  <2>4. CASE after[n] = None
    BY <1>5, <2>1, <2>4 DEF None
  <2>5. CASE after[n] = f.id
    BY <1>5, <2>1, <2>5
  <2> QED BY <2>3, <2>4, <2>5 DEF Touches
<1>10. Sound(st2)
  BY <1>5, <1>7, <1>8, <1>9 DEF Sound
<1> QED BY <1>5, <1>7, <1>10 DEF st2

(* The first record of a new file enters it under its name.                 *)
LEMMA EnterTurns ==
  ASSUME NEW st, Sound(st), ~st.ended, NEW f \in Image, NEW replace \in BOOLEAN,
         NEW after \in NameMap, Enters(f, st.files, after)
  PROVE  /\ Sound(DecodeFileUpdateFrom(st, f, replace))
         /\ ~DecodeFileUpdateFrom(st, f, replace).ended
         /\ DecodeFileUpdateFrom(st, f, replace).files = after
<1> DEFINE st2 == DecodeFileUpdateFrom(st, f, replace)
<1>1. /\ st \in State /\ f.id \in Id /\ st.files \in NameMap /\ st.image \in [Id -> Image]
      /\ st.next \in 1..MaxFileId + 1 /\ f.id # None
  BY DEF Sound, State, Image, Id, None
<1>2. PICK n \in Names : /\ st.files[n] = None /\ f.links = <<n>>
                         /\ after = [st.files EXCEPT ![n] = f.id]
  BY DEF Enters
<1>3. ~ \E m \in Names : st.files[m] = f.id
  BY DEF Enters, Named
<1>4. /\ st2 \in State
      /\ st2.status = st.status /\ st2.snapshot = st.snapshot /\ st2.ended = st.ended
      /\ st2.files = Insert(st.files, {f.links[1]}, f.id)
      /\ st2.image = [st.image EXCEPT ![f.id] = f]
      /\ st2.next = RaiseNextFileId(st.next, f.id)
  BY <1>1, <1>3, EnterFacts
<1> HIDE DEF st2
<1>5. st2.files = after
  <2>1. f.links[1] = n
    BY <1>2
  <2> QED BY <1>1, <1>2, <1>4, <2>1 DEF Insert, NameMap
<1>6. ASSUME NEW i \in Id, Named(after, i) # {}
      PROVE  LinkedTo(st2.image[i].links, after, i)
  <2>1. CASE i = f.id
    <3>1. st2.image[i].links = <<n>>
      BY <1>1, <1>2, <1>4, <2>1
    <3>2. Named(after, i) = {n}
      BY <1>1, <1>2, <1>3, <2>1 DEF Named, NameMap
    <3>3. Range(<<n>>) = {n} /\ Once(<<n>>)
      BY DEF Range, Once
    <3> QED BY <3>1, <3>2, <3>3 DEF LinkedTo
  <2>2. CASE i # f.id
    <3>1. st2.image[i] = st.image[i]
      BY <1>1, <1>4, <2>2
    <3>2. \A m \in Names : after[m] = i <=> st.files[m] = i
      BY <1>1, <1>2, <2>2 DEF Id, None, NameMap
    <3>3. Named(after, i) = Named(st.files, i)
      BY <3>2 DEF Named
    <3> QED BY <1>6, <3>1, <3>3 DEF Sound, LinkedTo
  <2> QED BY <2>1, <2>2
<1>7. ASSUME NEW m \in Names PROVE after[m] < st2.next
  <2>1. /\ RaiseNextFileId(st.next, f.id) \in 1..MaxFileId + 1
        /\ st.next <= RaiseNextFileId(st.next, f.id) /\ f.id < RaiseNextFileId(st.next, f.id)
    BY <1>1, RaiseFacts
  <2>2. st.files[m] < st.next /\ st.files[m] \in Id \cup {None}
    BY <1>1 DEF Sound, NameMap
  <2>3. CASE m # n
    BY <1>1, <1>2, <1>4, <2>1, <2>2, <2>3 DEF Id, None, NameMap
  <2>4. CASE m = n
    BY <1>1, <1>2, <1>4, <2>1, <2>4 DEF NameMap
  <2> QED BY <2>3, <2>4
<1>8. Sound(st2)
  BY <1>4, <1>5, <1>6, <1>7 DEF Sound
<1> QED BY <1>4, <1>5, <1>8 DEF st2

(* The record of a deletion takes the name away.                            *)
LEMMA DeletionTurns ==
  ASSUME NEW st, Sound(st), ~st.ended, NEW i \in Id, NEW n \in Names, st.files[n] = i
  PROVE  /\ Sound(DecodeFileDeletionFrom(st, i, n)) /\ ~DecodeFileDeletionFrom(st, i, n).ended
         /\ DecodeFileDeletionFrom(st, i, n).files = [st.files EXCEPT ![n] = None]
<1> DEFINE st2 == DecodeFileDeletionFrom(st, i, n)
           after == [st.files EXCEPT ![n] = None]
<1>1. /\ st \in State /\ st.files \in NameMap /\ st.image \in [Id -> Image]
      /\ st.next \in 1..MaxFileId + 1
  BY DEF Sound, State
<1>2. Once(st.image[i].links) /\ Range(st.image[i].links) = Named(st.files, i)
  BY DEF Sound, LinkedTo, Named
<1>3. n \in Range(st.image[i].links)
  BY <1>2 DEF Named
<1>4. /\ st2 \in State
      /\ st2.status = st.status /\ st2.snapshot = st.snapshot /\ st2.ended = st.ended
      /\ st2.files = Unnamed(st.files, n)
      /\ st2.image = Unlinked(st.image, i, n)
      /\ st2.next = st.next
  BY <1>1, <1>3, DeletionFacts
<1>0. st2.files = after
  BY <1>4 DEF Unnamed
<1> HIDE DEF st2
<1>5. ASSUME NEW j \in Id, Named(after, j) # {} PROVE LinkedTo(st2.image[j].links, after, j)
  <2>1. CASE j = i
    <3>1. st2.image[j].links = RemoveFirst(st.image[i].links, n)
      BY <1>1, <1>4, <2>1 DEF Image, Unlinked
    <3>2. /\ Once(RemoveFirst(st.image[i].links, n))
          /\ Range(RemoveFirst(st.image[i].links, n)) = Range(st.image[i].links) \ {n}
      <4>1. st.image[i].links \in Seq(Names)
        BY <1>1 DEF Image
      <4> QED BY <1>2, <1>3, <4>1, RemoveLinkFacts
    <3>3. Named(after, j) = Named(st.files, i) \ {n}
      BY <1>1, <2>1 DEF Named, NameMap, Id, None
    <3> QED BY <1>2, <3>1, <3>2, <3>3 DEF LinkedTo
  <2>2. CASE j # i
    <3>1. st2.image[j] = st.image[j]
      BY <1>1, <1>4, <2>2 DEF Unlinked
    <3>2. Named(after, j) = Named(st.files, j)
      BY <1>1, <2>2 DEF Named, NameMap, Id, None
    <3> QED BY <1>5, <3>1, <3>2 DEF Sound, LinkedTo
  <2> QED BY <2>1, <2>2
<1>6. ASSUME NEW m \in Names PROVE after[m] < st2.next
  BY <1>1, <1>4 DEF Sound, NameMap, None
<1>7. Sound(st2)
  BY <1>0, <1>4, <1>5, <1>6 DEF Sound
<1> QED BY <1>0, <1>4, <1>7 DEF st2

(* The record of a call turns the name space from before the call into the  *)
(* one after it.                                                            *)
LEMMA RecordTurns ==
  ASSUME NEW st, Sound(st), ~st.ended, NEW r \in Record, NEW after \in NameMap,
         Turns(r, st.files, after)
  PROVE  /\ Sound(DecodeRecord(st, r)) /\ ~DecodeRecord(st, r).ended
         /\ DecodeRecord(st, r).files = after
<1>0. st.status = "ok"
  BY DEF Sound
<1>1. CASE r.tag \in {"update", "replace"}
  <2>1. /\ r.file \in Image
        /\ \/ /\ Named(st.files, r.file.id) # {} /\ LinkedTo(r.file.links, after, r.file.id)
              /\ Touches(st.files, after, r.file.id)
           \/ Enters(r.file, st.files, after)
    BY <1>1, RecordFacts DEF Turns
  <2>2. PICK replace \in BOOLEAN : DecodeRecord(st, r) = DecodeFileUpdateFrom(st, r.file, replace)
    BY <1>0, <1>1 DEF DecodeRecord
  <2>3. ASSUME NEW f \in Image, f = r.file
        PROVE  LET st2 == DecodeFileUpdateFrom(st, f, replace) IN
               Sound(st2) /\ ~st2.ended /\ st2.files = after
    <3>1. CASE /\ Named(st.files, f.id) # {} /\ LinkedTo(f.links, after, f.id)
               /\ Touches(st.files, after, f.id)
      BY <3>1, UpdateTurns
    <3>2. CASE Enters(f, st.files, after)
      BY <3>2, EnterTurns
    <3> QED BY <2>1, <2>3, <3>1, <3>2
  <2> QED BY <2>1, <2>2, <2>3
<1>2. CASE r.tag = "delete"
  <2>1. r.id \in Id /\ r.name \in Names /\ st.files[r.name] = r.id
        /\ after = [st.files EXCEPT ![r.name] = None]
    BY <1>2, RecordFacts DEF Turns
  <2>2. DecodeRecord(st, r) = DecodeFileDeletionFrom(st, r.id, r.name)
    BY <1>0, <1>2 DEF DecodeRecord
  <2> QED BY <2>1, <2>2, DeletionTurns
<1>3. CASE r.tag = "resets"
  BY <1>0, <1>3 DEF DecodeRecord, Turns
<1> QED BY <1>1, <1>2, <1>3 DEF Turns

(* The end record of a zone changes no name.                                *)
LEMMA EndTurns ==
  ASSUME NEW st, Sound(st)
  PROVE  /\ Sound(DecodeRecord(st, EndRecord))
         /\ DecodeRecord(st, EndRecord).files = st.files
<1>1. st \in State /\ st.status = "ok"
  BY DEF Sound
<1>2. CASE st.ended
  BY <1>2 DEF DecodeRecord
<1>3. CASE ~st.ended
  <2>1. DecodeRecord(st, EndRecord) = [st EXCEPT !.ended = TRUE]
    BY <1>1, <1>3 DEF DecodeRecord, EndRecord
  <2> DEFINE st2 == [st EXCEPT !.ended = TRUE]
  <2>2. /\ st2 \in State /\ st2.status = st.status /\ st2.snapshot = st.snapshot
        /\ st2.files = st.files /\ st2.image = st.image /\ st2.next = st.next
    BY <1>1 DEF State
  <2> HIDE DEF st2
  <2>3. Sound(st2)
    BY <2>2 DEF Sound
  <2> QED BY <2>1, <2>2, <2>3 DEF st2
<1> QED BY <1>2, <1>3

-----------------------------------------------------------------------------
(* What Mount picks                                                         *)

(* RecoverFrom makes a state of every zone.                                 *)
LEMMA RecoverTypes ==
  ASSUME NEW l \in Seq(Record), l # <<>>
  PROVE  RecoverFrom(l) \in State
<1> DEFINE st == Decoded(Tail(l))
<1>1. Tail(l) \in Seq(Record)
  OBVIOUS
<1>2. st \in State
  BY <1>1, DecodedTypes
<1>3. RecoverFrom(l) = IF st.status = "ok" /\ ~st.snapshot
                       THEN [st EXCEPT !.status = "notfound"] ELSE st
  BY Zenon DEF RecoverFrom, Decoded
<1> HIDE DEF st
<1> QED BY <1>2, <1>3 DEF State

(* A whole zone is restored, a fragment has no snapshot.                    *)
LEMMA RecoverWhole ==
  ASSUME NEW l, Whole(l)
  PROVE  RecoverFrom(l) = Decoded(Tail(l)) /\ RecoverFrom(l).status = "ok"
<1> DEFINE st == Decoded(Tail(l))
<1>1. RecoverFrom(l) = IF st.status = "ok" /\ ~st.snapshot
                       THEN [st EXCEPT !.status = "notfound"] ELSE st
  BY Zenon DEF RecoverFrom, Decoded
<1>2. st.status = "ok" /\ st.snapshot
  BY DEF Whole, Sound
<1> QED BY <1>1, <1>2

(* A zone with one record behind its superblock.                            *)
LEMMA ShortDecoded ==
  ASSUME NEW l \in Seq(Record), Len(l) = 2
  PROVE  l # <<>> /\ Decoded(Tail(l)) = DecodeRecord(Blank, l[2])
<1>1. l # <<>>
  OBVIOUS
<1>2. PICK t \in Seq(Record) : t = Tail(l) /\ Len(t) = 1 /\ t[1] = l[2]
  <2>1. /\ Tail(l) \in Seq(Record) /\ Len(Tail(l)) = Len(l) - 1
        /\ \A i \in 1..Len(Tail(l)) : Tail(l)[i] = l[i + 1]
    BY <1>1, HeadTailProperties, Zenon
  <2>2. PICK t : t = Tail(l)
    OBVIOUS
  <2>3. t \in Seq(Record) /\ Len(t) = Len(l) - 1 /\ \A i \in 1..Len(t) : t[i] = l[i + 1]
    BY <2>1, <2>2
  <2>4. Len(t) = 1 /\ t[1] = l[2]
    BY <2>3
  <2> QED BY <2>2, <2>3, <2>4
<1>3. t # <<>>
  <2>1. Len(t) = 1
    BY <1>2, Zenon
  <2>2. Len(<<>>) = 0
    OBVIOUS
  <2> QED BY <2>1, <2>2
<1>4. PICK s \in Seq(Record), x \in Record : t = Append(s, x)
  BY <1>3, SequenceEmptyOrAppend, Zenon
<1>5. s = <<>> /\ x = l[2]
  <2>1. Len(s) = 0
    BY <1>2, <1>4
  <2>2. s = <<>>
    BY <2>1, EmptySeq
  <2>3. Append(s, x)[Len(s) + 1] = x /\ Len(s) + 1 = 1
    BY <2>1
  <2>4. x = l[2]
    BY <1>2, <1>4, <2>3
  <2> QED BY <2>2, <2>4
<1>6. Decoded(Append(s, x)) = DecodeRecord(Decoded(s), x)
  BY DecodedAppend
<1> QED BY <1>1, <1>2, <1>4, <1>5, <1>6, DecodedEmpty

(* A zone with nothing but a superblock is passed over, and so is one with  *)
(* reset counts behind it.                                                  *)
LEMMA FragmentDecoded ==
  ASSUME NEW l \in Seq(Record), Fragment(l), l # <<>>
  PROVE  Decoded(Tail(l)) = Blank
<1>1. CASE Len(l) = 1
  <2>1. Tail(l) \in Seq(Record) /\ Len(Tail(l)) = 0
    BY <1>1, HeadTailProperties
  <2>2. Tail(l) = <<>>
    BY <2>1, EmptySeq
  <2> QED BY <2>2, DecodedEmpty
<1>2. CASE Len(l) = 2 /\ l[2] = ResetCountRecord
  <2>1. DecodeRecord(Blank, ResetCountRecord) = Blank
    BY BlankFacts DEF DecodeRecord, ResetCountRecord
  <2> QED BY <1>2, <2>1, ShortDecoded
<1> QED BY <1>1, <1>2 DEF Fragment

(* So its recovery finds no snapshot.                                       *)
LEMMA RecoverFragment ==
  ASSUME NEW l \in Seq(Record), Fragment(l), l # <<>>
  PROVE  RecoverFrom(l).status = "notfound" /\ RecoverFrom(l).next = 1
<1> DEFINE st == Decoded(Tail(l))
<1>2. st = Blank
  BY FragmentDecoded
<1>3. RecoverFrom(l) = IF st.status = "ok" /\ ~st.snapshot
                       THEN [st EXCEPT !.status = "notfound"] ELSE st
  BY Zenon DEF RecoverFrom, Decoded
<1> HIDE DEF st
<1> QED BY <1>2, <1>3, BlankFacts DEF State

(* Whichever zones were tried, next_file_id_ keeps its type.                *)
LEMMA SeenTypes ==
  ASSUME NEW S, S # {}, NEW f, \A y \in S : f[y] \in 1..MaxFileId + 1
  PROVE  /\ Max({f[y] : y \in S}) \in 1..MaxFileId + 1
         /\ \A y \in S : f[y] <= Max({f[y2] : y2 \in S})
<1> DEFINE M == {f[y] : y \in S}
<1>1. M \in SUBSET (1..MaxFileId + 1) /\ M # {} /\ \A y \in S : f[y] \in M
  OBVIOUS
<1> HIDE DEF M
<1>2. IsFiniteSet(M)
  <2>1. IsFiniteSet(1..MaxFileId + 1)
    BY MetaAssumption, FS_Interval
  <2> QED BY <1>1, <2>1, FS_Subset
<1>3. Max(M) \in M /\ \A x \in M : x <= Max(M)
  <2>1. M \in SUBSET Int
    BY <1>1
  <2> QED BY <1>1, <1>2, <2>1, MaxFacts
<1>4. Max(M) \in 1..MaxFileId + 1 /\ \A y \in S : f[y] <= Max(M)
  BY <1>1, <1>3
<1> QED BY <1>4 DEF M

(* There is a last one among the zones, in the order of their numbers.      *)
LEMMA NewestExists ==
  ASSUME NEW T \in SUBSET MetaZone, T # {}, \A z \in T : log[z][1].seq \in Nat
  PROVE  \E z \in T : \A y \in T \ {z} : TriedBefore(z, y)
<1> DEFINE sq == [z \in T |-> log[z][1].seq]
           M == {sq[z] : z \in T}
<1>1. IsFiniteSet(MetaZone) /\ IsFiniteSet(T) /\ T \in SUBSET Int
  <2>1. IsFiniteSet(MetaZone)
    BY MetaAssumption, FS_Interval DEF MetaZone
  <2>2. IsFiniteSet(T)
    BY <2>1, FS_Subset
  <2> QED BY <2>1, <2>2 DEF MetaZone
<1>2. sq \in [T -> Nat]
  OBVIOUS
<1>3. M \in SUBSET Int /\ M # {}
  BY <1>2
<1>4. IsFiniteSet(M)
  <2> HIDE DEF sq
  <2>1. sq \in Surjection(T, M)
    BY <1>2 DEF Surjection
  <2> QED BY <1>1, <2>1, FS_Surjection
<1> HIDE DEF M
<1>5. Max(M) \in M /\ \A x \in M : x <= Max(M)
  BY <1>3, <1>4, MaxFacts
<1> DEFINE U == {z \in T : sq[z] = Max(M)}
<1>6. U # {} /\ U \in SUBSET T /\ U \in SUBSET Int
  BY <1>1, <1>5 DEF M
<1>7. IsFiniteSet(U)
  BY <1>1, <1>6, FS_Subset
<1> HIDE DEF U
<1>8. Max(U) \in U /\ \A x \in U : x <= Max(U)
  BY <1>6, <1>7, MaxFacts
<1>9. PICK z \in U : \A x \in U : x <= z
  BY <1>8
<1>10. z \in T /\ log[z][1].seq = Max(M) /\ z \in Int
  BY <1>6, <1>9 DEF U
<1>11. ASSUME NEW y \in T \ {z} PROVE TriedBefore(z, y)
  <2>1. log[y][1].seq <= log[z][1].seq /\ log[y][1].seq \in Nat /\ log[z][1].seq \in Nat
    BY <1>5, <1>10 DEF M
  <2>2. CASE log[y][1].seq = log[z][1].seq
    <3>1. y \in U
      BY <1>10, <2>2 DEF U
    <3>2. y <= z /\ y \in Int /\ y # z
      BY <1>6, <1>9, <3>1
    <3> QED BY <1>10, <2>2, <3>2 DEF TriedBefore
  <2> QED BY <2>1, <2>2 DEF TriedBefore
<1> QED BY <1>10, <1>11

(* If Mount succeeds it has picked a zone, and what it restores is typed.   *)
LEMMA RecoveredTypes ==
  ASSUME log \in [MetaZone -> Seq(Record)], Recovered.status = "ok"
  PROVE  /\ NewestZone \in MetaZone /\ log[NewestZone] # <<>> /\ log[NewestZone][1] \in Supers
         /\ Recovered \in State
<1> DEFINE tried == Readable \ PassedOver
           z == NewestZone
           seen == {z} \cup {y \in PassedOver : TriedBefore(y, z)}
           nx == [y \in MetaZone |-> RecoverFrom(log[y]).next]
           d == Max({RecoverFrom(log[y]).next : y \in seen})
<1>1. z # None
  <2>1. Corrupt(Blank).status = "corruption"
    BY BlankFacts DEF Corrupt, State
  <2>2. z = None => Recovered = Corrupt(Blank)
    BY DEF Recovered
  <2> QED BY <2>1, <2>2
<1>2. /\ \A y \in Readable : log[y][1].tag = "super"
      /\ tried # {}
      /\ z = CHOOSE x \in tried : \A y \in tried \ {x} : TriedBefore(x, y)
  BY <1>1, Zenon DEF NewestZone
<1>3. \A y \in Readable : y \in MetaZone /\ log[y] # <<>> /\ log[y][1] \in Supers
  <2> SUFFICES ASSUME NEW y \in Readable
               PROVE  y \in MetaZone /\ log[y] # <<>> /\ log[y][1] \in Supers
    OBVIOUS
  <2>1. y \in MetaZone /\ log[y] # <<>> /\ log[y] \in Seq(Record)
    BY DEF Readable
  <2>2. log[y][1] \in Record
    BY <2>1
  <2> QED BY <1>2, <2>1, <2>2, RecordFacts
<1>4. z \in tried
  <2>1. tried \in SUBSET MetaZone /\ \A y \in tried : log[y][1].seq \in Nat
    BY <1>3 DEF Supers
  <2>2. \E x \in tried : \A y \in tried \ {x} : TriedBefore(x, y)
    <3> HIDE DEF tried
    <3> QED BY <1>2, <2>1, NewestExists
  <2> QED BY <1>2, <2>2
<1>5. z \in MetaZone /\ log[z] # <<>> /\ log[z][1] \in Supers
  BY <1>3, <1>4
<1>6. \A y \in seen : y \in MetaZone /\ log[y] # <<>> /\ log[y] \in Seq(Record)
  <2>1. \A y \in Readable : y \in MetaZone /\ log[y] # <<>> /\ log[y] \in Seq(Record)
    BY <1>3
  <2>2. seen \subseteq Readable
    BY <1>4 DEF PassedOver
  <2> QED BY <2>1, <2>2
<1>7. \A y \in seen : RecoverFrom(log[y]) \in State /\ nx[y] = RecoverFrom(log[y]).next
  BY <1>6, RecoverTypes
<1>8. d \in 1..MaxFileId + 1
  <2>1. \A y \in seen : nx[y] \in 1..MaxFileId + 1
    BY <1>7 DEF State
  <2>2. {RecoverFrom(log[y]).next : y \in seen} = {nx[y] : y \in seen}
    BY <1>7
  <2>3. seen # {}
    OBVIOUS
  <2>4. d = Max({nx[y] : y \in seen})
    BY <2>2
  <2> HIDE DEF seen, nx, d
  <2>5. Max({nx[y] : y \in seen}) \in 1..MaxFileId + 1
    BY <2>1, <2>3, SeenTypes
  <2> QED BY <2>4, <2>5
<1>9. Recovered = [RecoverFrom(log[z]) EXCEPT !.next = d]
  BY <1>1, Zenon DEF Recovered
<1>10. RecoverFrom(log[z]) \in State
  BY <1>7
<1> HIDE DEF d, z
<1>11. Recovered \in State
  BY <1>8, <1>9, <1>10 DEF State
<1> QED BY <1>5, <1>11 DEF z

(* A zone is not both.                                                      *)
LEMMA WholeFacts ==
  ASSUME NEW l \in Seq(Record), Whole(l)
  PROVE  l # <<>> /\ ~Fragment(l)
<1>1. Len(l) >= 2
  BY DEF Whole
<1>2. Len(<<>>) = 0
  OBVIOUS
<1>3. Len(l) # 0
  <2>1. PICK k : k = Len(l)
    OBVIOUS
  <2>2. k \in Nat /\ k >= 2
    BY <1>1, <2>1, LenProperties
  <2> QED BY <2>1, <2>2
<1>4. l # <<>>
  BY <1>2, <1>3
<1>5. Decoded(Tail(l)).snapshot
  BY DEF Whole, Sound
<1> QED BY <1>4, <1>5, FragmentDecoded, BlankFacts

(* Mount tries the zone first that is ahead of the others.                  *)
LEMMA AheadIsNewest ==
  ASSUME log \in [MetaZone -> Seq(Record)], NEW c \in MetaZone, Ahead(c),
         log[c] # <<>>, log[c][1] \in Supers, RecoverFrom(log[c]).status # "notfound"
  PROVE  /\ NewestZone = c
         /\ \A y \in PassedOver : y \in MetaZone \ {c} /\ RecoverFrom(log[y]).next = 1
<1> DEFINE tried == Readable \ PassedOver
<1>0. \A y \in MetaZone : log[y] \in Seq(Record)
  OBVIOUS
<1>1. \A y \in Readable : y \in MetaZone /\ log[y] # <<>> /\ log[y][1] \in Supers
  BY DEF Readable, Ahead, Fragment, Whole
<1>2. ASSUME NEW y \in Readable, y # c, ~Whole(log[y])
      PROVE  RecoverFrom(log[y]).status = "notfound" /\ RecoverFrom(log[y]).next = 1
  <2>1. y \in MetaZone /\ log[y] # <<>> /\ Fragment(log[y])
    BY <1>1, <1>2 DEF Ahead
  <2> QED BY <1>0, <2>1, RecoverFragment
<1>3. ASSUME NEW y \in PassedOver
      PROVE  y \in MetaZone \ {c} /\ RecoverFrom(log[y]).next = 1
  <2>1. y \in Readable /\ RecoverFrom(log[y]).status = "notfound" /\ y # c
    BY <1>3 DEF PassedOver
  <2>2. ~Whole(log[y])
    BY <2>1, RecoverWhole
  <2> QED BY <1>1, <1>2, <2>1, <2>2
<1>4. c \in tried
  BY DEF Readable, PassedOver, Supers
<1>5. \A y \in tried \ {c} : Whole(log[y]) /\ y \in MetaZone
  BY <1>1, <1>2 DEF PassedOver
<1>6. \A y \in tried : log[y][1].seq \in Nat
  BY <1>1 DEF Supers
<1>7. \A y \in tried \ {c} : log[y][1].seq < log[c][1].seq
  <2> SUFFICES ASSUME NEW y \in tried \ {c} PROVE log[y][1].seq < log[c][1].seq
    OBVIOUS
  <2>1. Whole(log[y]) /\ y \in MetaZone \ {c} /\ log[y] \in Seq(Record)
    BY <1>0, <1>5
  <2>2. ~Fragment(log[y])
    BY <2>1, WholeFacts
  <2> QED BY <2>1, <2>2 DEF Ahead
<1>8. NewestZone = c
  <2>1. ~ \E y \in Readable : log[y][1].tag # "super"
    BY <1>1 DEF Supers
  <2>2. tried # {} /\ c # None
    BY <1>4 DEF MetaZone, None
  <2>3. NewestZone = CHOOSE x \in tried : \A y \in tried \ {x} : TriedBefore(x, y)
    BY <2>1, <2>2, Zenon DEF NewestZone
  <2>4. \A y \in tried \ {c} : TriedBefore(c, y)
    BY <1>4, <1>6, <1>7 DEF TriedBefore
  <2>5. ASSUME NEW x \in tried, \A y \in tried \ {x} : TriedBefore(x, y) PROVE x = c
    <3>1. ASSUME x # c PROVE FALSE
      <4>1. TriedBefore(x, c)
        BY <1>4, <2>5, <3>1
      <4>2. log[x][1].seq < log[c][1].seq /\ log[x][1].seq \in Nat /\ log[c][1].seq \in Nat
        BY <1>4, <1>6, <1>7, <3>1
      <4> QED BY <4>1, <4>2 DEF TriedBefore
    <3> QED BY <3>1
  <2> HIDE DEF tried
  <2> QED BY <1>4, <2>3, <2>4, <2>5
<1> QED BY <1>3, <1>8

(* Mount picks the zone that leads, and restores what it says.              *)
LEMMA LeaderIsRecovered ==
  ASSUME log \in [MetaZone -> Seq(Record)], NEW c, Leads(c)
  PROVE  /\ NewestZone = c
         /\ LET st == Decoded(Tail(log[c])) IN
            /\ Recovered.status = "ok" /\ Recovered.files = st.files
            /\ Recovered.image = st.image /\ Recovered.next = st.next
<1> DEFINE st == Decoded(Tail(log[c]))
           seen == {c} \cup {y \in PassedOver : TriedBefore(y, c)}
           nx == [y \in MetaZone |-> RecoverFrom(log[y]).next]
           d == Max({RecoverFrom(log[y]).next : y \in seen})
<1>1. c \in MetaZone /\ c # None /\ Whole(log[c]) /\ Ahead(c) /\ log[c] # <<>> /\ log[c][1] \in Supers
  BY DEF Leads, Whole, MetaZone, None
<1>8. NewestZone = c /\ \A y \in PassedOver : y \in MetaZone /\ RecoverFrom(log[y]).next = 1
  BY <1>1, RecoverWhole, AheadIsNewest
<1>9. RecoverFrom(log[c]) = st /\ st \in State /\ st.status = "ok"
  BY <1>1, RecoverWhole DEF Whole, Sound
<1>10. Recovered = [st EXCEPT !.next = d]
  BY <1>1, <1>8, <1>9, Zenon DEF Recovered
<1>11. d = st.next
  <2>1. \A y \in seen : y = c \/ nx[y] = 1
    BY <1>8
  <2>2. nx[c] = st.next /\ st.next \in 1..MaxFileId + 1 /\ c \in seen
    BY <1>1, <1>9 DEF State
  <2>3. \A y \in seen : y \in MetaZone /\ nx[y] \in 1..MaxFileId + 1
    <3>1. \A y \in seen : y \in MetaZone
      BY <1>1, <1>8
    <3>2. 1 \in 1..MaxFileId + 1
      BY MetaAssumption
    <3> HIDE DEF seen, nx
    <3> QED BY <2>1, <2>2, <3>1, <3>2
  <2>4. {RecoverFrom(log[y]).next : y \in seen} = {nx[y] : y \in seen}
    BY <2>3
  <2>5. seen # {}
    OBVIOUS
  <2> DEFINE M == {nx[y] : y \in seen}
  <2>6. d = Max(M)
    BY <2>4
  <2> HIDE DEF seen, nx, d
  <2>8. M \subseteq {1, st.next} /\ st.next \in M
    BY <2>1, <2>2
  <2> HIDE DEF M, st
  <2>9. \A x \in M : st.next >= x
    BY <2>2, <2>8
  <2>10. \A x \in M : (\A y \in M : x >= y) => x = st.next
    BY <2>2, <2>8
  <2>11. Max(M) = st.next
    BY <2>8, <2>9, <2>10 DEF Max
  <2> QED BY <2>6, <2>11
<1> HIDE DEF st, d
<1>12. /\ Recovered.status = "ok" /\ Recovered.files = st.files
       /\ Recovered.image = st.image /\ Recovered.next = st.next
  BY <1>9, <1>10, <1>11 DEF State
<1> QED BY <1>8, <1>12 DEF st

(* A torn snapshot is decoded to corruption.                                *)
LEMMA TornDecoded ==
  ASSUME NEW l \in Seq(Record), Len(l) = 2, l[2] = TornRecord
  PROVE  l # <<>> /\ Decoded(Tail(l)) = Corrupt(Blank)
<1>1. DecodeRecord(Blank, TornRecord) = Corrupt(Blank)
  BY BlankFacts DEF DecodeRecord, TornRecord
<1> QED BY <1>1, ShortDecoded

(* After a crash in the middle of a snapshot Mount gives up.                *)
LEMMA BlockedIsCorrupt ==
  ASSUME log \in [MetaZone -> Seq(Record)], NEW c, Blocks(c)
  PROVE  Recovered.status = "corruption"
<1>1. /\ c \in MetaZone /\ c # None /\ Len(log[c]) = 2 /\ log[c][1] \in Supers
      /\ log[c][2] = TornRecord /\ Ahead(c)
  BY DEF Blocks, MetaZone, None
<1>0. log[c] \in Seq(Record)
  BY <1>1
<1>2. Decoded(Tail(log[c])) = Corrupt(Blank) /\ log[c] # <<>>
  BY <1>0, <1>1, TornDecoded
<1>3. RecoverFrom(log[c]) = Corrupt(Blank) /\ Corrupt(Blank) \in State
      /\ Corrupt(Blank).status = "corruption"
  <2> DEFINE st == Decoded(Tail(log[c]))
  <2>1. RecoverFrom(log[c]) = IF st.status = "ok" /\ ~st.snapshot
                              THEN [st EXCEPT !.status = "notfound"] ELSE st
    BY Zenon DEF RecoverFrom, Decoded
  <2>2. Corrupt(Blank) \in State /\ Corrupt(Blank).status = "corruption"
    BY BlankFacts DEF Corrupt, State
  <2> HIDE DEF st
  <2>3. st = Corrupt(Blank)
    BY <1>2 DEF st
  <2> QED BY <2>1, <2>2, <2>3
<1>4. NewestZone = c
  BY <1>1, <1>2, <1>3, AheadIsNewest
<1>5. PICK d : Recovered = [Corrupt(Blank) EXCEPT !.next = d]
  BY <1>1, <1>3, <1>4, Zenon DEF Recovered
<1> QED BY <1>3, <1>5 DEF State

(* With a zone that begins with anything but a superblock Mount gives up.   *)
LEMMA HeadlessIsCorrupt ==
  ASSUME log \in [MetaZone -> Seq(Record)], NEW z \in MetaZone, log[z] # <<>>,
         log[z][1].tag \notin {"super", "torn"}
  PROVE  Recovered.status = "corruption"
<1>1. NewestZone = None
  BY Zenon DEF NewestZone, Readable
<1>2. Recovered = Corrupt(Blank)
  BY <1>1, Zenon DEF Recovered
<1> QED BY <1>2, BlankFacts DEF Corrupt, State

(* A zone that is whole or a fragment is not spoiled.                       *)
LEMMA InOrder ==
  ASSUME NEW l \in Seq(Record), Whole(l) \/ Fragment(l), l # <<>>
  PROVE  l[1].tag = "super" /\ ~(Len(l) = 2 /\ l[2] = TornRecord)
<1>1. l[1].tag = "super"
  BY DEF Whole, Fragment, Supers
<1>2. ASSUME Len(l) = 2, l[2] = TornRecord PROVE FALSE
  <2>1. Decoded(Tail(l)) = Corrupt(Blank) /\ Corrupt(Blank).status = "corruption"
    BY <1>2, TornDecoded, BlankFacts DEF Corrupt, State
  <2>2. ~Whole(l)
    BY <2>1 DEF Whole, Sound
  <2>3. ~Fragment(l)
    BY <1>2, <2>1, FragmentDecoded, BlankFacts
  <2> QED BY <2>2, <2>3
<1> QED BY <1>1, <1>2

(* With a zone that leads, no zone is spoiled.                              *)
LEMMA LeaderUnspoiled ==
  ASSUME log \in [MetaZone -> Seq(Record)], NEW c, Leads(c)
  PROVE  ~Spoiled
<1>1. \A z \in MetaZone : log[z] \in Seq(Record) /\ (Whole(log[z]) \/ Fragment(log[z]))
  BY DEF Leads, Ahead
<1> QED BY <1>1, InOrder DEF Spoiled
=============================================================================
