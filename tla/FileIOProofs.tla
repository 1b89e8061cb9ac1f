----------------------------- MODULE FileIOProofs -----------------------------
(***************************************************************************)
(* Proofs about the bytes of a file, for any block, buffer and zone sizes, *)
(* any number of zones and any calls and crashes: extents never overlap,   *)
(* recovery finds the file's own bytes, reads return them, and the file    *)
(* keeps the promise of AppendFile.                                        *)
(***************************************************************************)
EXTENDS FileIO, FoldProofs, SequenceTheorems

-----------------------------------------------------------------------------
(* Numbers                                                                  *)

Aligned(n) == n % B = 0

(* The constants, one fact at a time.                                       *)
LEMMA Constants ==
  /\ B \in Nat /\ B > 0 /\ H \in Nat /\ H >= 1 /\ H < B
  /\ NrIOZones \in Nat /\ NrIOZones > 0
  /\ ZoneCap \in Nat /\ ZoneCap > 0 /\ ZoneSize \in Nat /\ ZoneCap <= ZoneSize
  /\ BufferSize \in Nat /\ BufferSize > 0 /\ MigrateStep \in Nat /\ MigrateStep > 0
  /\ Aligned(BufferSize) /\ Aligned(MigrateStep) /\ Aligned(ZoneCap) /\ Aligned(ZoneSize)
  /\ MaxBytes \in Nat
<1>1. \A n \in {BufferSize, MigrateStep, ZoneCap, ZoneSize} : n \in Nat /\ n > 0 /\ n % B = 0
  BY FileIOAssumption
<1>2. \A n \in {BufferSize, MigrateStep, ZoneCap, ZoneSize} : n \in Nat /\ n > 0 /\ Aligned(n)
  BY <1>1 DEF Aligned
<1>3. /\ B \in Nat /\ B > 0 /\ H \in Nat /\ H >= 1 /\ H < B
      /\ NrIOZones \in Nat /\ NrIOZones > 0 /\ ZoneCap <= ZoneSize /\ MaxBytes \in Nat
  BY FileIOAssumption
<1>4. /\ BufferSize \in Nat /\ BufferSize > 0 /\ Aligned(BufferSize)
      /\ MigrateStep \in Nat /\ MigrateStep > 0 /\ Aligned(MigrateStep)
  BY <1>2
<1>5. /\ ZoneCap \in Nat /\ ZoneCap > 0 /\ Aligned(ZoneCap)
      /\ ZoneSize \in Nat /\ Aligned(ZoneSize)
  BY <1>2
<1> QED BY <1>3, <1>4, <1>5

(* An aligned number is a number of blocks.                                 *)
LEMMA AlignedFacts ==
  ASSUME NEW n \in Int
  PROVE  Aligned(n) <=> \E k \in Int : n = k * B
<1>1. B \in Nat /\ B > 0
  BY Constants
<1>2. ASSUME Aligned(n) PROVE \E k \in Int : n = k * B
  BY <1>1, <1>2 DEF Aligned
<1>3. ASSUME NEW k \in Int, n = k * B PROVE Aligned(n)
  BY <1>1, <1>3 DEF Aligned
<1> QED BY <1>2, <1>3

(* Sums and differences of blocks are blocks.                               *)
LEMMA AlignedSum ==
  ASSUME NEW m \in Int, NEW n \in Int, Aligned(m), Aligned(n)
  PROVE  Aligned(m + n) /\ Aligned(m - n)
<1>1. PICK i \in Int, j \in Int : m = i * B /\ n = j * B
  BY AlignedFacts
<1>2. B \in Int
  BY Constants
<1>3. m + n = (i + j) * B /\ m - n = (i - j) * B
  BY <1>1, <1>2
<1>4. i + j \in Int /\ i - j \in Int
  OBVIOUS
<1> QED BY <1>3, <1>4, AlignedFacts

(* Nothing is a number of blocks, and what is less than a block is not.     *)
LEMMA AlignedZero ==
  /\ Aligned(0)
  /\ \A n \in Int : Aligned(n) /\ n > 0 => n >= B
<1>1. B \in Nat /\ B > 0
  BY Constants
<1>2. 0 = 0 * B
  BY <1>1
<1>3. ASSUME NEW n \in Int, Aligned(n), n > 0 PROVE n >= B
  <2>1. PICK k \in Int : n = k * B
    BY <1>3, AlignedFacts
  <2>2. k > 0
    BY <1>1, <1>3, <2>1
  <2> QED BY <1>1, <2>1, <2>2
<1> QED BY <1>2, <1>3, AlignedFacts

(* The blocks that n bytes take.                                            *)
LEMMA RoundUpFacts ==
  ASSUME NEW n \in Int
  PROVE  /\ RoundUp(n) \in Int /\ Aligned(RoundUp(n))
         /\ n <= RoundUp(n) /\ RoundUp(n) < n + B
         /\ \A m \in Int : Aligned(m) /\ n <= m => RoundUp(n) <= m
         /\ Aligned(n) => RoundUp(n) = n
<1>1. B \in Nat /\ B > 0
  BY Constants
<1>2. PICK q \in Int : q = (n + B - 1) \div B
  BY <1>1
<1>3. RoundUp(n) = q * B /\ q * B \in Int
  BY <1>1, <1>2 DEF RoundUp
<1>4. n <= q * B /\ q * B < n + B
  <2>1. PICK r \in Int : r = (n + B - 1) % B
    BY <1>1
  <2>2. n + B - 1 = q * B + r /\ r >= 0 /\ r <= B - 1
    BY <1>1, <1>2, <2>1
  <2> QED BY <1>1, <1>3, <2>2
<1>5. ASSUME NEW m \in Int, Aligned(m), n <= m PROVE q * B <= m
  <2>1. PICK k \in Int : m = k * B
    BY <1>5, AlignedFacts
  <2>2. q * B < (k + 1) * B
    BY <1>1, <1>4, <1>5, <2>1
  <2>3. q < k + 1
    BY <1>1, <2>2
  <2>4. q <= k
    BY <2>3
  <2> QED BY <1>1, <2>1, <2>4
<1>6. Aligned(n) => RoundUp(n) = n
  BY <1>3, <1>4, <1>5
<1> QED BY <1>3, <1>4, <1>5, <1>6, AlignedFacts

(* The smaller of two numbers.                                              *)
LEMMA MinFacts ==
  ASSUME NEW m \in Int, NEW n \in Int
  PROVE  /\ Min2(m, n) \in Int /\ Min2(m, n) <= m /\ Min2(m, n) <= n
         /\ Min2(m, n) = m \/ Min2(m, n) = n
BY DEF Min2

-----------------------------------------------------------------------------
(* Zones                                                                    *)

(* The zones lie one after the other on the device.                         *)
LEMMA ZoneFacts ==
  ASSUME NEW z \in Zone
  PROVE  /\ Start(z) \in Nat /\ Aligned(Start(z)) /\ z # NoZone
         /\ Start(z) + ZoneSize <= NrIOZones * ZoneSize
         /\ NrIOZones * ZoneSize \in Nat
<1>1. /\ z \in Int /\ 1 <= z /\ z <= NrIOZones /\ NrIOZones \in Nat
      /\ ZoneSize \in Nat /\ B \in Nat
  BY Constants DEF Zone
<1>2. Start(z) = (z - 1) * ZoneSize /\ z - 1 \in Nat
  BY <1>1 DEF Start
<1>3. PICK k \in Int : ZoneSize = k * B
  BY <1>1, Constants, AlignedFacts
<1>4. Start(z) = ((z - 1) * k) * B /\ (z - 1) * k \in Int
  BY <1>1, <1>2, <1>3
<1>5. Start(z) \in Nat
  BY <1>1, <1>2
<1>6. Start(z) + ZoneSize = z * ZoneSize
  BY <1>1, <1>2
<1>7. z * ZoneSize <= NrIOZones * ZoneSize /\ NrIOZones * ZoneSize \in Nat
  BY <1>1
<1>8. Aligned(Start(z))
  BY <1>4, <1>5, AlignedFacts
<1> QED BY <1>1, <1>5, <1>6, <1>7, <1>8 DEF NoZone

(* Two zones do not overlap.                                                *)
LEMMA ZonesApart ==
  ASSUME NEW y \in Zone, NEW z \in Zone, y # z
  PROVE  Start(y) + ZoneSize <= Start(z) \/ Start(z) + ZoneSize <= Start(y)
<1>1. y \in Int /\ z \in Int /\ ZoneSize \in Nat
  BY Constants DEF Zone
<1>2. ASSUME NEW a \in Int, NEW b \in Int, a < b
      PROVE  Start(a) + ZoneSize <= Start(b)
  <2>1. Start(a) + ZoneSize = a * ZoneSize /\ Start(b) = (b - 1) * ZoneSize
    BY <1>1 DEF Start
  <2>2. a <= b - 1
    BY <1>2
  <2> QED BY <1>1, <2>1, <2>2
<1>3. y < z \/ z < y
  BY <1>1
<1> QED BY <1>1, <1>2, <1>3

(* An address lies in one zone.                                             *)
LEMMA GetIOZoneFacts ==
  ASSUME NEW z \in Zone, NEW a \in Int, Start(z) <= a, a < Start(z) + ZoneSize
  PROVE  GetIOZone(a) = {z} /\ \A y \in Zone : Start(y) <= a /\ a < Start(y) + ZoneSize => y = z
<1>1. ASSUME NEW y \in Zone, Start(y) <= a, a < Start(y) + ZoneSize PROVE y = z
  <2>1. Start(y) \in Nat /\ Start(z) \in Nat /\ ZoneSize \in Nat
    BY ZoneFacts, Constants
  <2> QED BY <1>1, <2>1, ZonesApart
<1> QED BY <1>1 DEF GetIOZone

-----------------------------------------------------------------------------
(* The inductive invariant                                                  *)

Byte  == 0..MaxBytes
Cell  == (H - BufferSize)..(MaxBytes + 2)
Ext   == [start : Int, length : Nat \ {0}]
Files == [extents : Seq(Ext), size : Nat, start : Int, filepos : Nat,
          active : Zone \cup {NoZone}]
Metas == [extents : Seq(Ext), size : Nat, start : Int]
Writers == [open : BOOLEAN, failed : BOOLEAN, truncated : BOOLEAN, buffer : Seq(Byte),
            left : Nat, wp : Nat]
Names == {"none", "append", "sync", "fsync", "close"}
Ops   == [name : Names, size : Nat]
Steps == {"idle", "write", "buffer", "flush", "realloc", "persist", "close", "unmountable"}

(* Write pointers, and addresses a..(b-1) written in one zone.              *)
Pointers(w) ==
  /\ w \in [Zone -> Int]
  /\ \A z \in Zone : Start(z) <= w[z] /\ w[z] <= Start(z) + ZoneCap /\ Aligned(w[z])
Under(w, a, b) == \E z \in Zone : Start(z) <= a /\ b <= w[z]

(* The bytes of the extents x on the device d, and of the file f that is    *)
(* written in the mode md.                                                  *)
Bytes(d, x) == FlattenSeq([i \in DOMAIN x |-> Cells(d, x[i].start, x[i].length)])
Pending(md, d, f) ==
  IF md = "direct" /\ f.active # NoZone THEN Cells(d, f.start, f.size - f.filepos) ELSE <<>>
StoredIn(md, d, f) == Bytes(d, f.extents) \o Pending(md, d, f)
Stored == StoredIn(mode, dev, file)

Hs(md) == IF md = "sparse" THEN H ELSE 0
Span(h, e) == (e.start - h)..(e.start + e.length - 1)
Sound(h, w, x) ==
  \A i \in DOMAIN x : /\ Aligned(x[i].start - h)
                      /\ Under(w, x[i].start - h, x[i].start + x[i].length)
Apart(h, x) == \A i, j \in DOMAIN x : i # j => Span(h, x[i]) \cap Span(h, x[j]) = {}
Clear(h, x, a, b) == \A i \in DOMAIN x : Span(h, x[i]) \cap (a..(b - 1)) = {}
Begins(x, y) == Len(x) <= Len(y) /\ \A i \in 1..Len(x) : x[i] = y[i]

(* The data that is in no extent yet ends at the write pointer, or before   *)
(* it if it was cut.                                                        *)
Opened(md, w, f) ==
  f.active # NoZone =>
    IF md = "direct"
    THEN /\ f.filepos <= f.size /\ Start(f.active) <= f.start /\ Aligned(f.start)
         /\ f.start + (f.size - f.filepos) <= w[f.active]
    ELSE CapacityLeft(w, f.active) > 0 /\ f.start = w[f.active]

(* The file f and its record m are well placed on the device: extents lie   *)
(* below the write pointers, apart from each other and from the data that   *)
(* is in no extent yet; those of the record are the first ones.             *)
Placement(md, w, f) ==
  /\ Opened(md, w, f)
  /\ Sound(Hs(md), w, f.extents) /\ Apart(Hs(md), f.extents)
  /\ f.active # NoZone => Clear(Hs(md), f.extents, f.start, w[f.active])
Sizing(md, d, f, m) ==
  /\ f.size = SumLengths(f.extents) + Len(Pending(md, d, f))
  /\ m.size = SumLengths(m.extents)
  /\ Begins(m.extents, f.extents)
  /\ StoredIn(md, d, f) \in Seq(Byte)
Laid(md, d, w, f, m) ==
  /\ md \in Modes /\ Pointers(w) /\ d \in [Address -> Cell]
  /\ f \in Files /\ m \in Metas
  /\ Placement(md, w, f) /\ Sizing(md, d, f, m)

(* What recovery reads from the zone z in which the record says the file is *)
(* written: the file and what a Truncate cut off, and padding if it may.    *)
Home(md, w, f, m, z) ==
  /\ Start(z) <= m.start /\ m.start <= w[z] /\ m.start < Start(z) + ZoneSize
  /\ Aligned(m.start)
  /\ f.active # NoZone => f.active = z
  /\ Clear(Hs(md), m.extents, m.start, w[z])
Found(d, w, m, z) == Bytes(d, m.extents) \o Cells(d, m.start, w[z] - m.start)
Kept(d, w, m, z, s, p) == Found(d, w, m, z) = s \o Zeros(p)

(* Where the i-th segment of a sparse file starts, and the way from the     *)
(* start of the active extent over the headers to the write pointer.        *)
SegmentAt(a, k, x, i) ==
  IF i = k + 1 THEN a ELSE NextSegment(x[i - 1].start - H, x[i - 1].length)
Link(d, a, end, k, x, i) ==
  /\ x[i].start - H = SegmentAt(a, k, x, i) /\ SegmentAt(a, k, x, i) < end
  /\ d[SegmentAt(a, k, x, i)] = Header(x[i].length)
Chain(d, a, end, k, x) ==
  /\ \A i \in (k + 1)..Len(x) : Link(d, a, end, k, x, i)
  /\ SegmentAt(a, k, x, Len(x) + 1) = end

Reads(md, d, w, f, m, z, dr, pad) ==
  IF md = "sparse" THEN Chain(d, m.start, w[z], Len(m.extents), f.extents)
  ELSE \E p \in 0..(B - 1) : (p = 0 \/ pad) /\ Kept(d, w, m, z, StoredIn(md, d, f) \o dr, p)
Recovers(md, d, w, f, m, dr, pad) ==
  IF m.start = NoExtent THEN m.extents = f.extents /\ f.active = NoZone
  ELSE \E z \in Zone : Home(md, w, f, m, z) /\ Reads(md, d, w, f, m, z, dr, pad)

Types ==
  /\ mode \in Modes /\ wr \in Writers /\ pc \in Steps /\ op \in Ops
  /\ rest \in Seq(Byte) /\ dropped \in Seq(Byte)
  /\ synced \in Nat /\ given \in Byte

(* Where a call is, and what the writer holds there.                        *)
Control ==
  /\ pc # "unmountable"
  /\ pc = "write" => mode = "direct"
  /\ pc \in {"buffer", "flush", "realloc"} => mode # "direct"
  /\ pc \in {"write", "buffer"} => op.name = "append"
  /\ pc \in {"idle", "persist", "close"} => rest = <<>>
  /\ pc \in {"flush", "realloc"} /\ op.name # "append" => rest = <<>>
  /\ pc \in {"persist", "close"} => wr.buffer = <<>>
  /\ mode = "direct" => wr.buffer = <<>> /\ Aligned(Len(rest))
  /\ ~wr.open => wr = Closed /\ pc = "idle"
  /\ wr.failed => pc = "idle" \/ (pc = "close" /\ mode = "direct")
  /\ wr.truncated => mode = "direct" /\ pc \in {"idle", "persist", "close"}
  /\ ~wr.truncated => dropped = <<>>

(* The buffer of a writer and how much of it is in the file.                *)
Flushing == pc \in {"flush", "realloc"}
Buffer ==
  /\ wr.left <= Len(wr.buffer) /\ Len(wr.buffer) <= BufSize
  /\ pc = "flush" => wr.left >= 1
  /\ Flushing /\ op.name = "append" /\ mode = "buffered" => Aligned(wr.left)
  /\ mode # "direct" /\ ~wr.failed =>
       wr.wp + (IF Flushing THEN Len(wr.buffer) - wr.left ELSE 0) <= file.size

(* When there is an active zone, and where in it an extent starts.          *)
Active ==
  /\ ~wr.open => file.active = NoZone /\ file.start = NoExtent /\ meta.start = NoExtent
  /\ wr.truncated => file.active # NoZone
  /\ pc = "realloc" => file.active = NoZone
  /\ file.active = NoZone /\ ~wr.failed /\ pc # "realloc" =>
       file.start = NoExtent /\ meta.start = NoExtent
  /\ mode = "direct" /\ file.active # NoZone =>
       /\ ~wr.truncated => file.start + (file.size - file.filepos) = wp[file.active]
       /\ wr.truncated => file.filepos < file.size \/ file.start = wp[file.active]
       /\ pc \in {"persist", "close"} =>
            file.filepos = file.size /\ file.start = wp[file.active]

(* Padding follows the data only where no call goes on from.                *)
MayPad == mode = "buffered" /\ (pc \in {"persist", "realloc"} \/ wr.failed)

FileInv ==
  /\ Types /\ Control /\ Buffer /\ Active
  /\ Laid(mode, dev, wp, file, meta)
  /\ synced <= file.size
  /\ Recovers(mode, dev, wp, file, meta, dropped, MayPad)

-----------------------------------------------------------------------------
(* Cells of the device                                                      *)

(* The n cells from a on have values in V.                                  *)
AllIn(d, a, n, V) == \A i \in a..(a + n - 1) : d[i] \in V

(* Reading n cells gives n values.                                          *)
LEMMA CellsFacts ==
  ASSUME NEW V, NEW d, NEW a \in Int, NEW n \in Nat, AllIn(d, a, n, V)
  PROVE  /\ Cells(d, a, n) \in Seq(V) /\ Len(Cells(d, a, n)) = n
         /\ \A i \in 1..n : Cells(d, a, n)[i] = d[a + i - 1]
<1>1. \A i \in 1..n : d[a + i - 1] \in V
  <2> SUFFICES ASSUME NEW i \in 1..n PROVE d[a + i - 1] \in V
    OBVIOUS
  <2>1. a + i - 1 \in a..(a + n - 1)
    OBVIOUS
  <2> QED BY <2>1 DEF AllIn
<1>2. Cells(d, a, n) \in [1..n -> V]
  BY <1>1 DEF Cells
<1> QED BY <1>2 DEF Cells

(* How many they are, whatever they hold.                                   *)
LEMMA CellsCount ==
  ASSUME NEW d, NEW a \in Int, NEW n \in Nat
  PROVE  Len(Cells(d, a, n)) = n
<1>1. PICK V : \A c \in Int : d[c] \in V
  <2>1. \A c \in Int : d[c] \in {d[u] : u \in Int}
    OBVIOUS
  <2> QED BY <2>1
<1>2. AllIn(d, a, n, V)
  BY <1>1 DEF AllIn
<1> QED BY <1>2, CellsFacts

(* No cells.                                                                *)
LEMMA CellsNone ==
  ASSUME NEW d, NEW a \in Int
  PROVE  Cells(d, a, 0) = <<>>
<1>1. AllIn(d, a, 0, {})
  BY DEF AllIn
<1>2. Cells(d, a, 0) \in Seq({}) /\ Len(Cells(d, a, 0)) = 0
  BY <1>1, CellsFacts
<1> QED BY <1>2, EmptySeq

(* Cells read in two parts.                                                 *)
LEMMA CellsSplit ==
  ASSUME NEW V, NEW d, NEW a \in Int, NEW b \in Int, NEW m \in Nat, NEW n \in Nat, NEW k \in Nat,
         b = a + m, k = m + n, AllIn(d, a, k, V)
  PROVE  /\ Cells(d, a, k) = Cells(d, a, m) \o Cells(d, b, n)
         /\ Cells(d, a, m) \in Seq(V) /\ Cells(d, b, n) \in Seq(V)
<1> DEFINE s == Cells(d, a, k)
           t == Cells(d, a, m)
           u == Cells(d, b, n)
<1>2. s \in Seq(V) /\ Len(s) = k /\ \A i \in 1..k : s[i] = d[a + i - 1]
  BY CellsFacts
<1>3. AllIn(d, a, m, V)
  BY DEF AllIn
<1>4. AllIn(d, b, n, V)
  BY DEF AllIn
<1>5. t \in Seq(V) /\ Len(t) = m /\ \A i \in 1..m : t[i] = d[a + i - 1]
  BY <1>3, CellsFacts
<1>6. u \in Seq(V) /\ Len(u) = n /\ \A i \in 1..n : u[i] = d[b + i - 1]
  BY <1>4, CellsFacts
<1> HIDE DEF s, t, u
<1>7. /\ t \o u \in Seq(V) /\ Len(t \o u) = k
      /\ \A i \in 1..k : (t \o u)[i] = IF i <= m THEN t[i] ELSE u[i - m]
  BY <1>5, <1>6, ConcatProperties, ZenonT(60)
<1>8. ASSUME NEW i \in 1..k PROVE s[i] = (t \o u)[i]
  <2>1. CASE i <= m
    <3>1. i \in 1..m
      BY <2>1
    <3>2. (t \o u)[i] = t[i]
      BY <1>7, <2>1
    <3> QED BY <1>2, <1>5, <3>1, <3>2
  <2>2. CASE ~(i <= m)
    <3>1. i - m \in 1..n /\ b + (i - m) - 1 = a + i - 1
      BY <2>2
    <3>2. (t \o u)[i] = u[i - m]
      BY <1>7, <2>2
    <3> QED BY <1>2, <1>6, <3>1, <3>2
  <2> QED BY <2>1, <2>2
<1>9. s = t \o u
  BY <1>2, <1>7, <1>8, SeqEqual
<1> QED BY <1>5, <1>6, <1>9 DEF s, t, u

(* The same for numbers, and concatenation of sequences of numbers.         *)
LEMMA CellsSplitInt ==
  ASSUME NEW d, NEW a \in Int, NEW b \in Int, NEW m \in Nat, NEW n \in Nat, NEW k \in Nat,
         b = a + m, k = m + n, AllIn(d, a, k, Int)
  PROVE  /\ Cells(d, a, k) = Cells(d, a, m) \o Cells(d, b, n)
         /\ Cells(d, a, m) \in Seq(Int) /\ Cells(d, b, n) \in Seq(Int)
<1>1. PICK V : V = Int
  OBVIOUS
<1>2. AllIn(d, a, k, V)
  BY <1>1
<1>3. /\ Cells(d, a, k) = Cells(d, a, m) \o Cells(d, b, n)
      /\ Cells(d, a, m) \in Seq(V) /\ Cells(d, b, n) \in Seq(V)
  BY <1>2, CellsSplit, SMTT(40)
<1> QED BY <1>1, <1>3

(* Concatenation is associative.                                            *)
LEMMA Assoc ==
  ASSUME NEW s \in Seq(Int), NEW t \in Seq(Int), NEW u \in Seq(Int)
  PROVE  (s \o t) \o u = s \o (t \o u)
<1>1. PICK V : V = Int
  OBVIOUS
<1>2. s \in Seq(V) /\ t \in Seq(V) /\ u \in Seq(V)
  BY <1>1
<1> QED BY <1>2, ConcatAssociative, SMTT(40)

(* Cells that are the same on two devices.                                  *)
LEMMA CellsSame ==
  ASSUME NEW d, NEW e, NEW a \in Int, NEW b \in Int, NEW n \in Nat,
         \A i \in 0..(n - 1) : d[a + i] = e[b + i]
  PROVE  Cells(d, a, n) = Cells(e, b, n)
<1>1. ASSUME NEW i \in 1..n PROVE d[a + i - 1] = e[b + i - 1]
  <2>1. i - 1 \in 0..(n - 1) /\ a + (i - 1) = a + i - 1 /\ b + (i - 1) = b + i - 1
    OBVIOUS
  <2> QED BY <2>1
<1> QED BY <1>1 DEF Cells

(* Padding.                                                                 *)
LEMMA ZerosFacts ==
  ASSUME NEW n \in Nat
  PROVE  /\ Zeros(n) \in Seq(Byte) /\ Len(Zeros(n)) = n
         /\ \A i \in 1..n : Zeros(n)[i] = 0
         /\ Zeros(0) = <<>>
<1>1. 0 \in Byte
  BY Constants DEF Byte
<1>2. Zeros(n) \in [1..n -> Byte] /\ Zeros(0) \in [1..0 -> Byte]
  BY <1>1 DEF Zeros, Pad
<1>3. Zeros(0) \in Seq(Byte) /\ Len(Zeros(0)) = 0
  BY <1>2
<1>4. Zeros(0) = <<>>
  BY <1>3, EmptySeq
<1> QED BY <1>2, <1>4 DEF Zeros, Pad

(* A part of padding is padding.                                            *)
LEMMA ZerosPart ==
  ASSUME NEW n \in Nat, NEW m \in 0..n
  PROVE  SubSeq(Zeros(n), 1, m) = Zeros(m)
<1>1. m \in Nat /\ Zeros(n) \in Seq(Byte) /\ Len(Zeros(n)) = n /\ \A i \in 1..n : Zeros(n)[i] = 0
  BY ZerosFacts
<1>2. Zeros(m) \in Seq(Byte) /\ Len(Zeros(m)) = m /\ \A i \in 1..m : Zeros(m)[i] = 0
  BY <1>1, ZerosFacts
<1>3. \A i \in 1..m : Zeros(n)[i] \in Byte
  BY <1>1
<1>4. /\ SubSeq(Zeros(n), 1, m) \in Seq(Byte)
      /\ Len(SubSeq(Zeros(n), 1, m)) = m
      /\ \A i \in 1..m : SubSeq(Zeros(n), 1, m)[i] = Zeros(n)[i]
  BY <1>1, <1>3, SubSeqProperties
<1>5. \A i \in 1..m : SubSeq(Zeros(n), 1, m)[i] = Zeros(m)[i]
  BY <1>1, <1>2, <1>4
<1> QED BY <1>2, <1>4, <1>5, SeqEqual

-----------------------------------------------------------------------------
(* Induction, over a set that holds what is to be shown of its elements     *)

(* A set with every number whose predecessors it has has all numbers.       *)
LEMMA NumberInduction ==
  ASSUME NEW W, \A n \in Nat : (\A m \in 0..(n - 1) : m \in W) => n \in W
  PROVE  \A n \in Nat : n \in W
<1> DEFINE bad == {n \in Nat : n \notin W}
<1>1. ASSUME bad # {} PROVE FALSE
  <2>1. bad \in SUBSET Nat
    OBVIOUS
  <2>2. PICK n \in bad : \A y \in bad : n <= y
    BY <1>1, <2>1, LeastNumber
  <2>3. \A m \in 0..(n - 1) : m \in W
    BY <2>2
  <2> QED BY <2>2, <2>3
<1> QED BY <1>1

(* A set with the empty sequence and every extension of its sequences has   *)
(* all sequences.                                                           *)
LEMMA SequenceInduction ==
  ASSUME NEW S, NEW W, <<>> \in W, \A s \in Seq(S), e \in S : s \in W => Append(s, e) \in W
  PROVE  \A s \in Seq(S) : s \in W
<1> DEFINE N == {n \in Nat : \A s \in Seq(S) : Len(s) = n => s \in W}
<1>1. ASSUME NEW n \in Nat, \A m \in 0..(n - 1) : m \in N PROVE n \in N
  <2> SUFFICES ASSUME NEW s \in Seq(S), Len(s) = n PROVE s \in W
    OBVIOUS
  <2>1. CASE s = <<>>
    BY <2>1
  <2>2. CASE s # <<>>
    <3>1. PICK t \in Seq(S), e \in S : s = Append(t, e)
      BY <2>2, SequenceEmptyOrAppend
    <3>2. Len(t) \in Nat /\ n = Len(t) + 1
      BY <3>1, AppendProperties, LenProperties
    <3>3. Len(t) \in 0..(n - 1)
      BY <3>2
    <3>4. t \in W
      BY <1>1, <3>3
    <3> QED BY <3>1, <3>4
  <2> QED BY <2>1, <2>2
<1>2. \A n \in Nat : n \in N
  <2> HIDE DEF N
  <2> QED BY <1>1, NumberInduction
<1> QED BY <1>2, LenProperties

-----------------------------------------------------------------------------
(* Flattened sequences                                                      *)

(* f joins the first n sequences of s.                                      *)
Joined(f, s, i) == IF i = 1 THEN s[i] ELSE f[i - 1] \o s[i]
IsFlat(f, s, n) == f = [i \in 1..n |-> Joined(f, s, i)]
FlatTable(s, n) == CHOOSE f : IsFlat(f, s, n)

(* The recursion of FlattenSeq has a solution.                              *)
LEMMA FlatExists ==
  ASSUME NEW s
  PROVE  \A n \in Nat : IsFlat(FlatTable(s, n), s, n)
<1> DEFINE W == {n \in Nat : \E f : IsFlat(f, s, n)}
<1>1. ASSUME NEW n \in Nat, \A m \in 0..(n - 1) : m \in W PROVE n \in W
  <2>1. CASE n = 0
    <3>1. IsFlat([i \in 1..0 |-> 0], s, 0)
      BY DEF IsFlat
    <3> QED BY <2>1, <3>1
  <2>2. CASE n # 0
    <3>1. n - 1 \in Nat /\ n - 1 \in 0..(n - 1)
      BY <2>2
    <3>2. PICK f : IsFlat(f, s, n - 1)
      BY <1>1, <3>1
    <3> DEFINE g == [i \in 1..n |-> Joined(f, s, i)]
    <3>3. ASSUME NEW i \in 1..n PROVE Joined(f, s, i) = Joined(g, s, i)
      <4>1. CASE i = 1
        BY <4>1 DEF Joined
      <4>2. CASE i # 1
        <5>1. i - 1 \in 1..(n - 1) /\ i - 1 \in 1..n
          BY <4>2
        <5>2. f[i - 1] = Joined(f, s, i - 1)
          BY <3>2, <5>1 DEF IsFlat
        <5>3. g[i - 1] = f[i - 1]
          BY <5>1, <5>2
        <5> QED BY <4>2, <5>3 DEF Joined
      <4> QED BY <4>1, <4>2
    <3>4. IsFlat(g, s, n)
      <4>1. g = [i \in 1..n |-> Joined(g, s, i)]
        BY <3>3
      <4> HIDE DEF g
      <4> QED BY <4>1 DEF IsFlat
    <3> QED BY <3>4
  <2> QED BY <2>1, <2>2
<1>2. \A n \in Nat : n \in W
  <2> HIDE DEF W
  <2> QED BY <1>1, NumberInduction
<1> QED BY <1>2 DEF FlatTable

(* One step of the recursion.                                               *)
LEMMA FlatAt ==
  ASSUME NEW s, NEW n, NEW f, IsFlat(f, s, n), NEW i \in 1..n
  PROVE  f[i] = Joined(f, s, i)
<1>1. PICK g : g = [j \in 1..n |-> Joined(f, s, j)]
  OBVIOUS
<1>2. f = g
  BY <1>1, Zenon DEF IsFlat
<1>3. g[i] = Joined(f, s, i)
  BY <1>1
<1> QED BY <1>2, <1>3, Zenon

SameFirst(s, t, k) == \A i \in 1..k : s[i] = t[i]

(* Solutions for sequences that begin alike begin alike.                    *)
LEMMA FlatAgree ==
  ASSUME NEW s, NEW t, NEW k \in Nat, NEW m \in Nat, NEW n \in Nat, k <= m, k <= n,
         NEW f, NEW g, IsFlat(f, s, m), IsFlat(g, t, n), SameFirst(s, t, k)
  PROVE  SameFirst(f, g, k)
<1> DEFINE W == {i \in Nat : i \in 1..k => f[i] = g[i]}
<1>1. ASSUME NEW i \in Nat, \A j \in 0..(i - 1) : j \in W PROVE i \in W
  <2> SUFFICES ASSUME i \in 1..k PROVE f[i] = g[i]
    OBVIOUS
  <2>1. f[i] = Joined(f, s, i) /\ g[i] = Joined(g, t, i) /\ s[i] = t[i]
    <3>1. i \in 1..m /\ i \in 1..n
      OBVIOUS
    <3> QED BY <3>1, FlatAt DEF SameFirst
  <2>2. CASE i = 1
    BY <2>1, <2>2 DEF Joined
  <2>3. CASE i # 1
    <3>1. i - 1 \in 1..k /\ i - 1 \in 0..(i - 1)
      BY <2>3
    <3>2. f[i - 1] = g[i - 1]
      BY <1>1, <3>1
    <3> QED BY <2>1, <2>3, <3>2 DEF Joined
  <2> QED BY <2>2, <2>3
<1>2. \A i \in Nat : i \in W
  <2> HIDE DEF W
  <2> QED BY <1>1, NumberInduction
<1> QED BY <1>2 DEF SameFirst

(* FlattenSeq joins one more sequence at the end.                           *)
LEMMA FlattenAppend ==
  ASSUME NEW V, NEW s \in Seq(Seq(V)), NEW e \in Seq(V)
  PROVE  FlattenSeq(<<>>) = <<>> /\ FlattenSeq(Append(s, e)) = FlattenSeq(s) \o e
<1>1. FlattenSeq(<<>>) = <<>>
  BY DEF FlattenSeq
<1>2. PICK t \in Seq(Seq(V)) : t = Append(s, e)
  BY AppendProperties
<1>3. PICK n \in Nat : n = Len(s)
  BY LenProperties
<1>4. /\ Len(t) = n + 1 /\ t[n + 1] = e /\ \A i \in 1..n : t[i] = s[i]
  BY <1>2, <1>3, AppendProperties
<1>5. /\ FlattenSeq(t) = FlatTable(t, n + 1)[n + 1]
      /\ n # 0 => FlattenSeq(s) = FlatTable(s, n)[n]
  BY <1>3, <1>4 DEF FlattenSeq, FlatTable, IsFlat, Joined
<1>6. PICK k \in Nat : k = n + 1
  OBVIOUS
<1>7. PICK f, g : /\ f = FlatTable(t, k) /\ g = FlatTable(s, n)
                  /\ IsFlat(f, t, k) /\ IsFlat(g, s, n)
  BY FlatExists
<1>8. f[k] = Joined(f, t, k)
  <2>1. k \in 1..k
    BY <1>6
  <2> QED BY <1>7, <2>1, FlatAt
<1>9. CASE n = 0
  <2>1. f[k] = e
    BY <1>4, <1>6, <1>8, <1>9 DEF Joined
  <2>2. s = <<>>
    BY <1>3, <1>9, EmptySeq
  <2>3. FlattenSeq(t) = e /\ FlattenSeq(s) = <<>>
    BY <1>1, <1>5, <1>6, <1>7, <2>1, <2>2
  <2> QED BY <1>1, <1>2, <2>3, ConcatEmptySeq
<1>10. CASE n # 0
  <2>1. f[k] = f[n] \o e
    BY <1>4, <1>6, <1>8, <1>10 DEF Joined
  <2>2. \A i \in 1..n : f[i] = g[i]
    <3>1. n <= k /\ n <= n
      BY <1>6
    <3>2. SameFirst(t, s, n)
      BY <1>4 DEF SameFirst
    <3>3. IsFlat(f, t, k) /\ IsFlat(g, s, n)
      BY <1>7
    <3>4. SameFirst(f, g, n)
      BY <3>1, <3>2, <3>3, FlatAgree
    <3> QED BY <3>4 DEF SameFirst
  <2>3. f[n] = g[n]
    BY <1>10, <2>2
  <2> QED BY <1>1, <1>2, <1>5, <1>6, <1>7, <1>10, <2>1, <2>3
<1> QED BY <1>9, <1>10

-----------------------------------------------------------------------------
(* The lengths of extents                                                   *)

LengthEntry(g, x, r) == IF r = {} THEN 0 ELSE g[r \ {Max(r)}] + x[Max(r)].length
IsLengths(g, x, S) == g = [r \in SUBSET S |-> LengthEntry(g, x, r)]
LengthTable(x, S) == CHOOSE g : IsLengths(g, x, S)
LengthOf(x) == [i \in DOMAIN x |-> x[i].length]

(* An extent has a start and a length.                                      *)
LEMMA ExtFacts ==
  ASSUME NEW x \in Seq(Ext)
  PROVE  /\ Len(x) \in Nat /\ DOMAIN x = 1..Len(x)
         /\ \A i \in 1..Len(x) : /\ x[i] \in Ext /\ x[i].start \in Int
                                 /\ x[i].length \in Nat /\ x[i].length > 0
<1>1. Len(x) \in Nat /\ DOMAIN x = 1..Len(x)
  BY LenProperties
<1>2. \A i \in 1..Len(x) : x[i] \in Ext
  BY ElementOfSeq
<1> QED BY <1>1, <1>2 DEF Ext

(* The extent that Extent makes.                                            *)
LEMMA ExtentFacts ==
  ASSUME NEW a \in Int, NEW n \in Nat, n > 0
  PROVE  Extent(a, n) \in Ext /\ Extent(a, n).start = a /\ Extent(a, n).length = n
BY DEF Extent, Ext

(* The recursion of FoldLeft over lengths, one step.                        *)
LEMMA LengthsAt ==
  ASSUME NEW x, NEW S, NEW g, IsLengths(g, x, S), NEW r \in SUBSET S
  PROVE  g[r] = LengthEntry(g, x, r)
<1>1. PICK h : h = [q \in SUBSET S |-> LengthEntry(g, x, q)]
  OBVIOUS
<1>2. g = h
  BY <1>1, Zenon DEF IsLengths
<1>3. h[r] = LengthEntry(g, x, r)
  BY <1>1
<1> QED BY <1>2, <1>3, Zenon

(* SumLengths adds the lengths.                                             *)
LEMMA SumLengthsIsSum ==
  ASSUME NEW x \in Seq(Ext)
  PROVE  SumLengths(x) = SumFunctionOnSet(LengthOf(x), DOMAIN x)
<1> DEFINE S == DOMAIN x
           L == LengthOf(x)
           G == [r \in SUBSET S |-> SumFunctionOnSet(L, r)]
<1>1. S \in SUBSET Int /\ IsFiniteSet(S) /\ \A i \in S : L[i] \in Int /\ L[i] = x[i].length
  <2>1. S = 1..Len(x) /\ Len(x) \in Nat /\ \A i \in S : x[i].length \in Int
    BY ExtFacts
  <2> QED BY <2>1, FS_Interval DEF LengthOf
<1> HIDE DEF S, L
<1>2. ASSUME NEW r \in SUBSET S, r # {}
      PROVE  /\ Max(r) \in r /\ r \ {Max(r)} \in SUBSET S
             /\ SumFunctionOnSet(L, r) = SumFunctionOnSet(L, r \ {Max(r)}) + x[Max(r)].length
             /\ Cardinality(r \ {Max(r)}) \in Nat /\ Cardinality(r \ {Max(r)}) < Cardinality(r)
  <2>1. r \in SUBSET Int /\ IsFiniteSet(r)
    BY <1>1, FS_Subset
  <2>2. PICK m \in r : m = Max(r)
    BY <1>2, <2>1, MaxFacts
  <2>3. \A i \in r : L[i] \in Int
    BY <1>1
  <2>4. SumFunctionOnSet(L, r) = L[m] + SumFunctionOnSet(L, r \ {m})
    <3>1. PICK f : f = L
      OBVIOUS
    <3>2. \A i \in r : f[i] \in Int
      BY <2>3, <3>1
    <3>3. SumFunctionOnSet(f, r) = f[m] + SumFunctionOnSet(f, r \ {m})
      BY <2>1, <3>2, SumRemove, ZenonT(60)
    <3> QED BY <3>1, <3>3
  <2>5. IsFiniteSet(r \ {m}) /\ Cardinality(r \ {m}) = Cardinality(r) - 1
    BY <2>1, FS_RemoveElement
  <2>6. SumFunctionOnSet(L, r \ {m}) \in Int
    BY <2>3, <2>5, SumType
  <2>7. Cardinality(r \ {m}) \in Nat /\ Cardinality(r) \in Nat
    BY <2>1, <2>5, FS_CardinalityType
  <2>8. L[m] \in Int /\ L[m] = x[m].length
    BY <1>1
  <2> QED BY <2>2, <2>4, <2>5, <2>6, <2>7, <2>8
<1>3. IsLengths(G, x, S)
  <2>1. ASSUME NEW r \in SUBSET S PROVE SumFunctionOnSet(L, r) = LengthEntry(G, x, r)
    <3>1. CASE r = {}
      BY <3>1, SumEmpty DEF LengthEntry
    <3>2. CASE r # {}
      BY <1>2, <3>2 DEF LengthEntry
    <3> QED BY <3>1, <3>2
  <2>2. G = [r \in SUBSET S |-> LengthEntry(G, x, r)]
    BY <2>1
  <2> HIDE DEF G
  <2> QED BY <2>2 DEF IsLengths
<1>4. PICK g : g = LengthTable(x, S) /\ IsLengths(g, x, S)
  BY <1>3 DEF LengthTable
<1> HIDE DEF G
<1> DEFINE W == {n \in Nat : \A r \in SUBSET S : Cardinality(r) = n =>
                               g[r] = SumFunctionOnSet(L, r)}
<1>5. ASSUME NEW n \in Nat, \A m \in 0..(n - 1) : m \in W PROVE n \in W
  <2> SUFFICES ASSUME NEW r \in SUBSET S, Cardinality(r) = n
               PROVE  g[r] = SumFunctionOnSet(L, r)
    OBVIOUS
  <2>1. g[r] = LengthEntry(g, x, r)
    BY <1>4, LengthsAt
  <2>2. CASE r = {}
    BY <2>1, <2>2, SumEmpty DEF LengthEntry
  <2>3. CASE r # {}
    <3>1. PICK q \in SUBSET S : q = r \ {Max(r)}
      BY <1>2, <2>3
    <3>2. Cardinality(q) \in 0..(n - 1)
      BY <1>2, <2>3, <3>1
    <3>3. g[q] = SumFunctionOnSet(L, q)
      BY <1>5, <3>2
    <3>4. g[r] = g[q] + x[Max(r)].length
      BY <2>1, <2>3, <3>1 DEF LengthEntry
    <3> QED BY <1>2, <2>3, <3>1, <3>3, <3>4
  <2> QED BY <2>2, <2>3
<1>6. \A n \in Nat : n \in W
  <2> HIDE DEF W
  <2> QED BY <1>5, NumberInduction
<1>7. Cardinality(S) \in Nat
  BY <1>1, FS_CardinalityType
<1>8. g[S] = SumFunctionOnSet(L, S)
  BY <1>6, <1>7
<1>9. SumLengths(x) = LengthTable(x, S)[S]
  BY DEF S, SumLengths, FoldLeft, MapThenFoldSet, LengthTable, IsLengths, LengthEntry
<1> QED BY <1>4, <1>8, <1>9 DEF S, L

(* No extents, one more extent.                                             *)
LEMMA SumLengthsFacts ==
  /\ SumLengths(<<>>) = 0
  /\ \A x \in Seq(Ext) : SumLengths(x) \in Nat
  /\ \A x \in Seq(Ext), e \in Ext : SumLengths(Append(x, e)) = SumLengths(x) + e.length
<1>1. SumLengths(<<>>) = 0
  <2>1. <<>> \in Seq(Ext) /\ DOMAIN <<>> = {}
    BY EmptySeq
  <2> QED BY <2>1, SumLengthsIsSum, SumEmpty
<1>2. ASSUME NEW x \in Seq(Ext) PROVE SumLengths(x) \in Nat
  <2>1. DOMAIN x = 1..Len(x) /\ Len(x) \in Nat /\ \A i \in DOMAIN x : x[i].length \in Nat
    BY ExtFacts
  <2>2. PICK S : S = DOMAIN x
    OBVIOUS
  <2>3. IsFiniteSet(S) /\ \A i \in S : LengthOf(x)[i] \in Nat
    BY <2>1, <2>2, FS_Interval DEF LengthOf
  <2>4. SumFunctionOnSet(LengthOf(x), S) \in Nat
    BY <2>3, SumNat
  <2> QED BY <2>2, <2>4, SumLengthsIsSum
<1>3. ASSUME NEW x \in Seq(Ext), NEW e \in Ext
      PROVE  SumLengths(Append(x, e)) = SumLengths(x) + e.length
  <2>1. PICK y \in Seq(Ext), n \in Nat : y = Append(x, e) /\ n = Len(x)
    BY AppendProperties, LenProperties
  <2>2. Len(y) = n + 1 /\ y[n + 1] = e /\ \A i \in 1..n : y[i] = x[i]
    BY <2>1, AppendProperties
  <2>3. /\ DOMAIN x = 1..n /\ DOMAIN y = 1..(n + 1)
        /\ \A i \in 1..n : x[i].length \in Int
        /\ \A i \in 1..(n + 1) : y[i].length \in Int
    <3>1. DOMAIN x = 1..n /\ \A i \in 1..n : x[i].length \in Int
      BY <2>1, ExtFacts
    <3>2. DOMAIN y = 1..Len(y) /\ \A i \in 1..Len(y) : y[i].length \in Int
      BY ExtFacts
    <3> QED BY <2>2, <3>1, <3>2
  <2>4. PICK S, T, L, M : S = 1..n /\ T = 1..(n + 1) /\ L = LengthOf(x) /\ M = LengthOf(y)
    OBVIOUS
  <2>5. /\ \A i \in S : L[i] \in Int /\ L[i] = M[i]
        /\ \A i \in T : M[i] \in Int
        /\ M[n + 1] = e.length /\ n + 1 \in T /\ T \ {n + 1} = S
    <3>1. /\ \A i \in S : L[i] \in Int /\ L[i] = M[i]
          /\ \A i \in T : M[i] \in Int
      BY <2>2, <2>3, <2>4 DEF LengthOf
    <3>2. n + 1 \in T /\ M[n + 1] = e.length
      BY <2>2, <2>3, <2>4 DEF LengthOf
    <3>3. \A i : i \in T \ {n + 1} <=> i \in S
      BY <2>4
    <3> QED BY <3>1, <3>2, <3>3, Zenon
  <2>6. IsFiniteSet(S) /\ IsFiniteSet(T)
    BY <2>4, FS_Interval
  <2>7. PICK k \in T : k = n + 1
    BY <2>5
  <2>8. SumFunctionOnSet(M, T) = M[k] + SumFunctionOnSet(M, T \ {k})
    BY <2>5, <2>6, SumRemove
  <2>9. SumFunctionOnSet(L, S) = SumFunctionOnSet(M, S)
    BY <2>5, <2>6, SumSame
  <2>10. SumLengths(x) = SumFunctionOnSet(L, S) /\ SumLengths(y) = SumFunctionOnSet(M, T)
    BY <2>3, <2>4, SumLengthsIsSum
  <2>11. e.length \in Int /\ SumLengths(x) \in Int
    BY <1>2 DEF Ext
  <2>12. SumLengths(y) = M[k] + SumLengths(x) /\ M[k] = e.length
    BY <2>5, <2>7, <2>8, <2>9, <2>10
  <2> QED BY <2>1, <2>11, <2>12
<1> QED BY <1>1, <1>2, <1>3

(* Extents of the same lengths have the same size.                          *)
LEMMA SumLengthsSame ==
  ASSUME NEW x \in Seq(Ext), NEW y \in Seq(Ext), Len(x) = Len(y),
         \A i \in 1..Len(x) : x[i].length = y[i].length
  PROVE  SumLengths(x) = SumLengths(y)
<1>1. DOMAIN x = DOMAIN y /\ DOMAIN x = 1..Len(x)
  BY ExtFacts
<1>2. LengthOf(x) = LengthOf(y)
  BY <1>1 DEF LengthOf
<1> QED BY <1>1, <1>2, SumLengthsIsSum

-----------------------------------------------------------------------------
(* The bytes of extents                                                     *)

(* The cells of the extents x have values in V.                             *)
Placed(d, x, V) == \A i \in DOMAIN x : AllIn(d, x[i].start, x[i].length, V)
CellsOf(d, x) == [i \in DOMAIN x |-> Cells(d, x[i].start, x[i].length)]

(* The pieces that Content puts together.                                   *)
LEMMA CellsOfFacts ==
  ASSUME NEW V, NEW d, NEW x \in Seq(Ext), Placed(d, x, V)
  PROVE  /\ CellsOf(d, x) \in Seq(Seq(V)) /\ Len(CellsOf(d, x)) = Len(x)
         /\ Bytes(d, x) = FlattenSeq(CellsOf(d, x))
<1>1. Len(x) \in Nat /\ DOMAIN x = 1..Len(x)
  BY ExtFacts
<1>2. ASSUME NEW i \in 1..Len(x) PROVE Cells(d, x[i].start, x[i].length) \in Seq(V)
  <2>1. PICK a \in Int, n \in Nat : a = x[i].start /\ n = x[i].length
    BY ExtFacts
  <2>2. AllIn(d, a, n, V)
    BY <1>1, <2>1 DEF Placed
  <2>3. Cells(d, a, n) \in Seq(V)
    BY <2>2, CellsFacts
  <2> QED BY <2>1, <2>3
<1>3. CellsOf(d, x) \in [1..Len(x) -> Seq(V)]
  BY <1>1, <1>2 DEF CellsOf
<1> QED BY <1>1, <1>3 DEF Bytes, CellsOf

(* The bytes of one extent more.                                            *)
LEMMA BytesAppend ==
  ASSUME NEW V, NEW d, NEW x \in Seq(Ext), NEW e \in Ext, Placed(d, x, V),
         AllIn(d, e.start, e.length, V)
  PROVE  /\ Bytes(d, <<>>) = <<>>
         /\ Bytes(d, Append(x, e)) = Bytes(d, x) \o Cells(d, e.start, e.length)
         /\ Placed(d, Append(x, e), V)
<1>1. PICK y \in Seq(Ext), n \in Nat : y = Append(x, e) /\ n = Len(x)
  BY AppendProperties, LenProperties
<1>2. Len(y) = n + 1 /\ y[n + 1] = e /\ \A i \in 1..n : y[i] = x[i]
  BY <1>1, AppendProperties
<1>3. DOMAIN x = 1..n /\ DOMAIN y = 1..(n + 1)
  BY <1>1, <1>2, LenProperties
<1>4. Placed(d, y, V)
  <2>1. ASSUME NEW i \in 1..(n + 1) PROVE AllIn(d, y[i].start, y[i].length, V)
    <3>1. CASE i = n + 1
      BY <1>2, <3>1
    <3>2. CASE i # n + 1
      <4>1. i \in 1..n
        BY <3>2
      <4> QED BY <1>2, <1>3, <4>1 DEF Placed
    <3> QED BY <3>1, <3>2
  <2> QED BY <1>3, <2>1 DEF Placed
<1>5. PICK c \in Seq(V) : c = Cells(d, e.start, e.length)
  <2>1. PICK a \in Int, m \in Nat : a = e.start /\ m = e.length
    BY DEF Ext
  <2>2. Cells(d, a, m) \in Seq(V)
    BY <2>1, CellsFacts
  <2> QED BY <2>1, <2>2
<1>6. PICK s \in Seq(Seq(V)), t \in Seq(Seq(V)) :
        /\ s = CellsOf(d, x) /\ t = CellsOf(d, y) /\ Len(s) = n /\ Len(t) = n + 1
        /\ Bytes(d, x) = FlattenSeq(s) /\ Bytes(d, y) = FlattenSeq(t)
  BY <1>1, <1>2, <1>4, CellsOfFacts
<1>7. t = Append(s, c)
  <2>1. Append(s, c) \in Seq(Seq(V)) /\ Len(Append(s, c)) = n + 1
        /\ (\A i \in 1..n : Append(s, c)[i] = s[i]) /\ Append(s, c)[n + 1] = c
    BY <1>6, AppendProperties
  <2>2. ASSUME NEW i \in 1..(n + 1) PROVE t[i] = Append(s, c)[i]
    <3>1. CASE i = n + 1
      BY <1>2, <1>3, <1>5, <1>6, <2>1, <3>1 DEF CellsOf
    <3>2. CASE i # n + 1
      <4>1. i \in 1..n
        BY <3>2
      <4>2. t[i] = Cells(d, y[i].start, y[i].length) /\ s[i] = Cells(d, x[i].start, x[i].length)
        BY <1>3, <1>6, <4>1 DEF CellsOf
      <4> QED BY <1>2, <2>1, <4>1, <4>2
    <3> QED BY <3>1, <3>2
  <2>3. PICK u \in Seq(Seq(V)) : u = Append(s, c)
    BY <2>1
  <2>4. t = u
    BY <1>6, <2>1, <2>2, <2>3, SeqEqual
  <2> QED BY <2>3, <2>4
<1>8. FlattenSeq(<<>>) = <<>> /\ FlattenSeq(t) = FlattenSeq(s) \o c
  BY <1>7, FlattenAppend
<1>9. Bytes(d, <<>>) = <<>>
  <2>1. [i \in DOMAIN <<>> |-> Cells(d, <<>>[i].start, <<>>[i].length)] = <<>>
    OBVIOUS
  <2> QED BY <1>8, <2>1 DEF Bytes
<1> QED BY <1>1, <1>4, <1>5, <1>6, <1>8, <1>9

(* No extents, no bytes.                                                    *)
LEMMA BytesNone ==
  ASSUME NEW d
  PROVE  Bytes(d, <<>>) = <<>>
<1>1. [i \in DOMAIN <<>> |-> Cells(d, <<>>[i].start, <<>>[i].length)] = <<>>
  OBVIOUS
<1> QED BY <1>1 DEF Bytes, FlattenSeq

(* The bytes of extents are as many as their lengths say.                   *)
LEMMA BytesFacts ==
  ASSUME NEW V, NEW d, NEW x \in Seq(Ext), Placed(d, x, V)
  PROVE  Bytes(d, x) \in Seq(V) /\ Len(Bytes(d, x)) = SumLengths(x)
<1> DEFINE P(y) == Bytes(d, y) \in Seq(V) /\ Len(Bytes(d, y)) = SumLengths(y)
           W == {y \in Seq(Ext) : Placed(d, y, V) => P(y)}
<1>1. <<>> \in W
  <2>1. <<>> \in Seq(Ext) /\ <<>> \in Seq(V) /\ Len(<<>>) = 0
    BY EmptySeq
  <2> QED BY <2>1, BytesNone, SumLengthsFacts
<1>2. ASSUME NEW y \in Seq(Ext), NEW e \in Ext, y \in W PROVE Append(y, e) \in W
  <2>1. Append(y, e) \in Seq(Ext)
    BY AppendProperties
  <2> SUFFICES ASSUME Placed(d, Append(y, e), V) PROVE P(Append(y, e))
    BY <2>1
  <2>2. PICK n \in Nat : n = Len(y)
    BY LenProperties
  <2>3. PICK u \in Seq(Ext) : /\ u = Append(y, e) /\ Len(u) = n + 1 /\ u[n + 1] = e
                              /\ \A i \in 1..n : u[i] = y[i]
    <3>1. PICK u \in Seq(Ext) : u = Append(y, e)
      BY <2>1
    <3>2. Len(u) = n + 1 /\ u[n + 1] = e /\ \A i \in 1..n : u[i] = y[i]
      BY <2>2, <3>1, AppendProperties
    <3> QED BY <3>1, <3>2
  <2>4. DOMAIN u = 1..(n + 1) /\ DOMAIN y = 1..n
    BY <2>2, <2>3, LenProperties
  <2>5. AllIn(d, e.start, e.length, V)
    <3>1. n + 1 \in DOMAIN u
      BY <2>4
    <3> QED BY <2>3, <3>1 DEF Placed
  <2>6. Placed(d, y, V)
    <3>1. ASSUME NEW i \in DOMAIN y PROVE AllIn(d, y[i].start, y[i].length, V)
      <4>1. i \in DOMAIN u /\ u[i] = y[i]
        BY <2>3, <2>4
      <4> QED BY <2>3, <4>1 DEF Placed
    <3> QED BY <3>1 DEF Placed
  <2>7. P(y)
    BY <1>2, <2>6
  <2>8. Bytes(d, u) = Bytes(d, y) \o Cells(d, e.start, e.length)
    BY <2>3, <2>5, <2>6, BytesAppend
  <2>9. PICK a \in Int, m \in Nat : a = e.start /\ m = e.length
    BY DEF Ext
  <2>10. Cells(d, a, m) \in Seq(V) /\ Len(Cells(d, a, m)) = m
    BY <2>5, <2>9, CellsFacts
  <2>11. PICK s \in Seq(V), t \in Seq(V) : /\ s = Bytes(d, y) /\ t = Cells(d, e.start, e.length)
                                           /\ Len(s) = SumLengths(y) /\ Len(t) = e.length
    BY <2>7, <2>9, <2>10
  <2>12. s \o t \in Seq(V) /\ Len(s \o t) = Len(s) + Len(t)
    BY ConcatProperties
  <2>13. SumLengths(u) = SumLengths(y) + e.length
    BY <2>3, SumLengthsFacts
  <2> QED BY <2>3, <2>8, <2>11, <2>12, <2>13
<1>3. \A y \in Seq(Ext) : y \in W
  <2> HIDE DEF W
  <2> QED BY <1>1, <1>2, SequenceInduction
<1> QED BY <1>3

(* Extents of the same lengths with the same cells have the same bytes.     *)
LEMMA BytesSame ==
  ASSUME NEW d, NEW e, NEW x \in Seq(Ext), NEW y \in Seq(Ext), Len(x) = Len(y),
         \A i \in 1..Len(x) :
           Cells(d, x[i].start, x[i].length) = Cells(e, y[i].start, y[i].length)
  PROVE  Bytes(d, x) = Bytes(e, y)
<1>1. DOMAIN x = 1..Len(x) /\ DOMAIN y = 1..Len(x)
  BY ExtFacts
<1>2. [i \in DOMAIN x |-> Cells(d, x[i].start, x[i].length)]
        = [i \in DOMAIN y |-> Cells(e, y[i].start, y[i].length)]
  BY <1>1
<1> QED BY <1>2 DEF Bytes

-----------------------------------------------------------------------------
(* Written addresses                                                        *)

Written(w, i) == \E z \in Zone : Start(z) <= i /\ i < w[z]

(* Nothing that is written changes, and no write pointer goes back.         *)
Grown(d, w, e, v) ==
  /\ Pointers(w) /\ Pointers(v) /\ d \in [Address -> Cell] /\ e \in [Address -> Cell]
  /\ \A z \in Zone : w[z] <= v[z]
  /\ \A i \in Address : Written(w, i) => e[i] = d[i]

(* A write pointer is in its zone, on a block boundary.                     *)
LEMMA PointerFacts ==
  ASSUME NEW w, Pointers(w), NEW z \in Zone
  PROVE  /\ w[z] \in Int /\ Start(z) <= w[z] /\ w[z] <= Start(z) + ZoneCap /\ Aligned(w[z])
         /\ w[z] <= Start(z) + ZoneSize /\ Start(z) \in Nat
         /\ w[z] <= NrIOZones * ZoneSize /\ NrIOZones * ZoneSize \in Nat
<1>1. w[z] \in Int /\ Start(z) <= w[z] /\ w[z] <= Start(z) + ZoneCap /\ Aligned(w[z])
  BY DEF Pointers
<1>2. /\ Start(z) \in Nat /\ Start(z) + ZoneSize <= NrIOZones * ZoneSize
      /\ NrIOZones * ZoneSize \in Nat
  BY ZoneFacts
<1>3. ZoneCap \in Nat /\ ZoneSize \in Nat /\ ZoneCap <= ZoneSize
  BY Constants
<1>4. w[z] <= Start(z) + ZoneSize
  BY <1>1, <1>2, <1>3
<1>5. PICK n \in Nat : n = NrIOZones * ZoneSize
  BY <1>2
<1>6. w[z] <= n
  BY <1>1, <1>2, <1>3, <1>4, <1>5
<1> QED BY <1>1, <1>2, <1>4, <1>5, <1>6

(* An address below a write pointer is an address of one zone.              *)
LEMMA WrittenFacts ==
  ASSUME NEW w, Pointers(w), NEW z \in Zone, NEW i \in Int, Start(z) <= i, i < w[z]
  PROVE  /\ i \in Address /\ Written(w, i)
         /\ \A y \in Zone : Start(y) <= i /\ i < Start(y) + ZoneSize => y = z
<1>1. PICK s \in Nat, p \in Int, n \in Nat :
        s = Start(z) /\ p = w[z] /\ n = NrIOZones * ZoneSize
  BY PointerFacts
<1>2. p <= n /\ p <= s + ZoneSize /\ ZoneSize \in Nat
  BY <1>1, PointerFacts, Constants
<1>3. i \in 0..(n - 1) /\ i < s + ZoneSize
  BY <1>1, <1>2
<1>4. i \in Address
  BY <1>1, <1>3 DEF Address
<1>5. \A y \in Zone : Start(y) <= i /\ i < Start(y) + ZoneSize => y = z
  BY <1>1, <1>3, GetIOZoneFacts
<1> QED BY <1>4, <1>5 DEF Written

(* Addresses written in one zone.                                           *)
LEMMA UnderFacts ==
  ASSUME NEW w, Pointers(w), NEW a \in Int, NEW b \in Int, Under(w, a, b)
  PROVE  \A i \in a..(b - 1) : i \in Address /\ Written(w, i)
<1>1. PICK z \in Zone : Start(z) <= a /\ b <= w[z]
  BY DEF Under
<1>2. w[z] \in Int /\ Start(z) \in Nat
  BY PointerFacts
<1>3. ASSUME NEW i \in a..(b - 1) PROVE i \in Address /\ Written(w, i)
  <2>1. i \in Int /\ Start(z) <= i /\ i < w[z]
    BY <1>1, <1>2
  <2> QED BY <2>1, WrittenFacts
<1> QED BY <1>3

(* Cells below a write pointer are read as before.                          *)
LEMMA GrownCells ==
  ASSUME NEW d, NEW w, NEW e, NEW v, Grown(d, w, e, v), NEW a \in Int, NEW n \in Nat,
         NEW b \in Int, b = a + n, Under(w, a, b)
  PROVE  /\ Cells(d, a, n) = Cells(e, a, n) /\ AllIn(d, a, n, Cell) /\ Under(v, a, b)
         /\ Cells(d, a, n) \in Seq(Int) /\ Len(Cells(d, a, n)) = n
<1>1. Pointers(w) /\ Pointers(v) /\ d \in [Address -> Cell] /\ e \in [Address -> Cell]
  BY DEF Grown
<1>2. \A i \in a..(b - 1) : i \in Address /\ Written(w, i)
  BY <1>1, UnderFacts
<1>3. \A i \in a..(b - 1) : e[i] = d[i] /\ d[i] \in Cell
  BY <1>1, <1>2 DEF Grown
<1>4. ASSUME NEW i \in 0..(n - 1) PROVE d[a + i] = e[a + i]
  <2>1. a + i \in a..(b - 1)
    OBVIOUS
  <2> QED BY <1>3, <2>1
<1>5. Cells(d, a, n) = Cells(e, a, n)
  BY <1>4, CellsSame
<1>6. AllIn(d, a, n, Cell) /\ AllIn(d, a, n, Int)
  <2>1. ASSUME NEW i \in a..(a + n - 1) PROVE d[i] \in Cell /\ d[i] \in Int
    <3>1. i \in a..(b - 1)
      OBVIOUS
    <3> QED BY <1>3, <3>1 DEF Cell
  <2> QED BY <2>1 DEF AllIn
<1>7. Cells(d, a, n) \in Seq(Int) /\ Len(Cells(d, a, n)) = n
  BY <1>6, CellsFacts
<1>8. Under(v, a, b)
  <2>1. PICK z \in Zone : Start(z) <= a /\ b <= w[z]
    BY DEF Under
  <2>2. w[z] \in Int /\ v[z] \in Int /\ w[z] <= v[z]
    BY <1>1, PointerFacts DEF Grown
  <2> QED BY <2>1, <2>2 DEF Under
<1> QED BY <1>5, <1>6, <1>7, <1>8

(* A device has grown from itself.                                          *)
LEMMA GrownSelf ==
  ASSUME NEW d, NEW w, Pointers(w), d \in [Address -> Cell]
  PROVE  Grown(d, w, d, w)
<1>1. \A z \in Zone : w[z] <= w[z]
  BY PointerFacts
<1> QED BY <1>1 DEF Grown

(* The header of a mode.                                                    *)
LEMMA HsFacts ==
  ASSUME NEW md
  PROVE  /\ Hs(md) \in Nat /\ Hs(md) < B
         /\ md = "sparse" => Hs(md) = H
         /\ md # "sparse" => Hs(md) = 0
BY Constants DEF Hs

(* What an extent covers.                                                   *)
LEMMA SoundFacts ==
  ASSUME NEW h \in Nat, NEW w, Pointers(w), NEW x \in Seq(Ext), Sound(h, w, x), NEW i \in DOMAIN x
  PROVE  /\ Aligned(x[i].start - h)
         /\ \E z \in Zone : /\ Start(z) <= x[i].start - h
                            /\ x[i].start + x[i].length <= w[z]
         /\ Under(w, x[i].start, x[i].start + x[i].length)
         /\ \A a \in Span(h, x[i]) : a \in Address /\ Written(w, a)
         /\ x[i].start \in Span(h, x[i])
<1>1. PICK a \in Int, n \in Nat : a = x[i].start /\ n = x[i].length /\ n > 0
  BY ExtFacts
<1>2. Aligned(a - h) /\ Under(w, a - h, a + n)
  BY <1>1 DEF Sound
<1>3. PICK b \in Int, c \in Int : b = a - h /\ c = a + n
  OBVIOUS
<1>4. \A k \in b..(c - 1) : k \in Address /\ Written(w, k)
  BY <1>2, <1>3, UnderFacts
<1>5. PICK z \in Zone : Start(z) <= b /\ c <= w[z]
  BY <1>2, <1>3 DEF Under
<1>6. Start(z) \in Nat /\ w[z] \in Int
  BY PointerFacts
<1>7. Under(w, a, c)
  BY <1>3, <1>5, <1>6 DEF Under
<1>8. Span(h, x[i]) = b..(c - 1) /\ a \in b..(c - 1)
  BY <1>1, <1>3, SMTT(40) DEF Span
<1> QED BY <1>1, <1>2, <1>3, <1>4, <1>5, <1>7, <1>8

(* Extents stay where they are when the device grows.                       *)
LEMMA GrownSound ==
  ASSUME NEW d, NEW w, NEW e, NEW v, Grown(d, w, e, v), NEW h \in Nat, NEW x \in Seq(Ext),
         Sound(h, w, x)
  PROVE  Sound(h, v, x)
<1>1. Pointers(w) /\ Pointers(v)
  BY DEF Grown
<1>2. ASSUME NEW i \in DOMAIN x
      PROVE  /\ Aligned(x[i].start - h)
             /\ Under(v, x[i].start - h, x[i].start + x[i].length)
  <2>1. PICK a \in Int, n \in Nat : a = x[i].start /\ n = x[i].length
    BY ExtFacts
  <2>2. Aligned(a - h)
    BY <2>1 DEF Sound
  <2>3. PICK z \in Zone : Start(z) <= a - h /\ a + n <= w[z]
    BY <2>1 DEF Sound, Under
  <2>4. w[z] \in Int /\ v[z] \in Int /\ w[z] <= v[z]
    BY <1>1, PointerFacts DEF Grown
  <2>5. a + n <= v[z]
    BY <2>3, <2>4
  <2> QED BY <2>1, <2>2, <2>3, <2>5 DEF Under
<1> QED BY <1>2 DEF Sound

(* So do their bytes.                                                       *)
LEMMA GrownBytes ==
  ASSUME NEW d, NEW w, NEW e, NEW v, Grown(d, w, e, v), NEW h \in Nat, NEW x \in Seq(Ext),
         Sound(h, w, x)
  PROVE  /\ Bytes(d, x) = Bytes(e, x) /\ Placed(d, x, Cell) /\ Placed(d, x, Int)
         /\ Bytes(d, x) \in Seq(Int) /\ Len(Bytes(d, x)) = SumLengths(x)
<1>1. Pointers(w)
  BY DEF Grown
<1>2. ASSUME NEW i \in DOMAIN x
      PROVE  /\ Cells(d, x[i].start, x[i].length) = Cells(e, x[i].start, x[i].length)
             /\ AllIn(d, x[i].start, x[i].length, Cell)
             /\ AllIn(d, x[i].start, x[i].length, Int)
  <2>1. PICK a \in Int, n \in Nat, b \in Int :
          a = x[i].start /\ n = x[i].length /\ b = a + n
    BY ExtFacts
  <2>2. Under(w, a, b)
    BY <1>1, <2>1, SoundFacts
  <2>3. Cells(d, a, n) = Cells(e, a, n) /\ AllIn(d, a, n, Cell)
    BY <2>1, <2>2, GrownCells
  <2>4. AllIn(d, a, n, Int)
    BY <2>3 DEF AllIn, Cell
  <2> QED BY <2>1, <2>3, <2>4
<1>3. Placed(d, x, Cell) /\ Placed(d, x, Int)
  BY <1>2 DEF Placed
<1>4. DOMAIN x = 1..Len(x)
  BY ExtFacts
<1>5. Bytes(d, x) = Bytes(e, x)
  BY <1>2, <1>4, BytesSame
<1>6. Bytes(d, x) \in Seq(Int) /\ Len(Bytes(d, x)) = SumLengths(x)
  BY <1>3, BytesFacts
<1> QED BY <1>3, <1>5, <1>6

(* What is appended to a zone is in no extent.                              *)
LEMMA GrownClear ==
  ASSUME NEW d, NEW w, NEW e, NEW v, Grown(d, w, e, v), NEW h \in Nat, NEW x \in Seq(Ext),
         Sound(h, w, x), NEW z \in Zone, NEW a \in Int, Start(z) <= a, Clear(h, x, a, w[z])
  PROVE  Clear(h, x, a, v[z])
<1>1. Pointers(w) /\ Pointers(v)
  BY DEF Grown
<1>2. PICK p \in Int, q \in Int, s \in Nat :
        p = w[z] /\ q = v[z] /\ s = Start(z) /\ q <= s + ZoneSize
  BY <1>1, PointerFacts
<1>3. ASSUME NEW i \in DOMAIN x, NEW k \in Span(h, x[i]), k \in a..(q - 1) PROVE FALSE
  <2>1. Written(w, k) /\ k \in Int
    BY <1>1, <1>3, SoundFacts
  <2>2. PICK y \in Zone : Start(y) <= k /\ k < w[y]
    BY <2>1 DEF Written
  <2>3. s <= k /\ k < s + ZoneSize
    <3>1. s <= a /\ a <= k /\ k < q /\ ZoneSize \in Nat
      BY <1>2, <1>3, Constants
    <3> QED BY <1>2, <2>1, <3>1
  <2>4. z = y
    BY <1>1, <1>2, <2>1, <2>2, <2>3, WrittenFacts
  <2>5. k \in a..(p - 1)
    BY <1>2, <1>3, <2>1, <2>2, <2>4
  <2> QED BY <1>2, <2>5 DEF Clear
<1> QED BY <1>2, <1>3 DEF Clear

(* Zone::Append as a function of the device.                                *)
AppendDev(d, w, z, c) ==
  [a \in Address |-> IF w[z] <= a /\ a < w[z] + Len(c) THEN c[a - w[z] + 1] ELSE d[a]]
AppendWp(w, z, c) == [w EXCEPT ![z] = @ + Len(c)]

(* The cells c were appended to the zone z.                                 *)
Wrote(d, w, e, v, z, c) ==
  /\ Grown(d, w, e, v) /\ v[z] = w[z] + Len(c) /\ Cells(e, w[z], Len(c)) = c
  /\ \A y \in Zone : y # z => v[y] = w[y]
  /\ Under(v, w[z], v[z])

(* Zone::Append writes behind everything that is written.                   *)
LEMMA AppendFacts ==
  ASSUME NEW d, NEW w, Pointers(w), d \in [Address -> Cell], NEW z \in Zone, NEW c \in Seq(Cell),
         Aligned(Len(c)), w[z] + Len(c) <= Start(z) + ZoneCap,
         NEW e, NEW v, e = AppendDev(d, w, z, c), v = AppendWp(w, z, c)
  PROVE  Wrote(d, w, e, v, z, c)
<1>0. PICK n \in Nat : n = Len(c)
  BY LenProperties
<1>1. PICK p \in Int, s \in Nat : p = w[z] /\ s = Start(z)
  BY PointerFacts
<1>2. /\ s <= p /\ p + n <= s + ZoneCap /\ Aligned(p) /\ w \in [Zone -> Int]
      /\ ZoneCap <= ZoneSize /\ ZoneCap \in Nat /\ ZoneSize \in Nat
  BY <1>0, <1>1, PointerFacts, Constants DEF Pointers
<1>3. v \in [Zone -> Int] /\ v[z] = p + n /\ \A y \in Zone : y # z => v[y] = w[y]
  BY <1>0, <1>1, <1>2 DEF AppendWp
<1>4. Aligned(p + n)
  BY <1>0, <1>2, AlignedSum
<1>5. Pointers(v)
  <2>1. ASSUME NEW y \in Zone
        PROVE  Start(y) <= v[y] /\ v[y] <= Start(y) + ZoneCap /\ Aligned(v[y])
    <3>1. CASE y = z
      BY <1>1, <1>2, <1>3, <1>4, <3>1
    <3>2. CASE y # z
      BY <1>3, <3>2, PointerFacts
    <3> QED BY <3>1, <3>2
  <2> QED BY <1>3, <2>1 DEF Pointers
<1>6. e = [a \in Address |-> IF p <= a /\ a < p + n THEN c[a - p + 1] ELSE d[a]]
  BY <1>0, <1>1 DEF AppendDev
<1>7. ASSUME NEW a \in Address
      PROVE  /\ e[a] \in Cell
             /\ ~(p <= a /\ a < p + n) => e[a] = d[a]
             /\ p <= a /\ a < p + n => e[a] = c[a - p + 1]
  <2>1. a \in Int
    BY DEF Address
  <2>2. CASE p <= a /\ a < p + n
    <3>1. a - p + 1 \in 1..n
      BY <2>1, <2>2
    <3>2. c[a - p + 1] \in Cell
      BY <1>0, <3>1, ElementOfSeq
    <3> QED BY <1>6, <2>2, <3>2
  <2>3. CASE ~(p <= a /\ a < p + n)
    BY <1>6, <2>3
  <2> QED BY <2>2, <2>3
<1>8. e \in [Address -> Cell]
  BY <1>6, <1>7
<1>9. ASSUME NEW a \in Address, Written(w, a) PROVE e[a] = d[a]
  <2>1. a \in Int
    BY DEF Address
  <2>2. PICK y \in Zone : Start(y) <= a /\ a < w[y]
    BY <1>9 DEF Written
  <2>3. ASSUME p <= a /\ a < p + n PROVE FALSE
    <3>1. s <= a /\ a < s + ZoneSize
      BY <1>2, <2>1, <2>3
    <3>2. z = y
      BY <1>1, <2>1, <2>2, <3>1, WrittenFacts
    <3> QED BY <1>1, <2>1, <2>2, <2>3, <3>2
  <2> QED BY <1>7, <2>3
<1>10. \A y \in Zone : w[y] <= v[y]
  <2>1. ASSUME NEW y \in Zone PROVE w[y] <= v[y]
    <3>1. w[y] \in Int
      BY PointerFacts
    <3>2. CASE y = z
      BY <1>1, <1>3, <3>2
    <3>3. CASE y # z
      BY <1>3, <3>1, <3>3
    <3> QED BY <3>2, <3>3
  <2> QED BY <2>1
<1>11. Grown(d, w, e, v)
  BY <1>5, <1>8, <1>9, <1>10 DEF Grown
<1>12. Under(v, p, v[z])
  BY <1>1, <1>2, <1>3 DEF Under
<1>13. Cells(e, p, n) = c
  <2>1. PICK q \in Int : q = p + n
    OBVIOUS
  <2>2. \A i \in p..(q - 1) : i \in Address
    BY <1>3, <1>5, <1>12, <2>1, UnderFacts
  <2>3. AllIn(e, p, n, Cell)
    <3>1. ASSUME NEW i \in p..(p + n - 1) PROVE e[i] \in Cell
      <4>1. i \in Address
        BY <2>1, <2>2
      <4> QED BY <1>7, <4>1
    <3> QED BY <3>1 DEF AllIn
  <2>4. PICK s2 \in Seq(Cell) : s2 = Cells(e, p, n) /\ Len(s2) = n
                                /\ \A i \in 1..n : s2[i] = e[p + i - 1]
    BY <2>3, CellsFacts
  <2>5. ASSUME NEW i \in 1..n PROVE s2[i] = c[i]
    <3>1. PICK k \in Int : k = p + i - 1
      OBVIOUS
    <3>2. k \in Address /\ p <= k /\ k < p + n /\ k - p + 1 = i
      BY <2>1, <2>2, <3>1
    <3>3. e[k] = c[k - p + 1]
      BY <1>7, <3>2
    <3> QED BY <2>4, <3>1, <3>2, <3>3
  <2>6. s2 = c
    BY <1>0, <2>4, <2>5, SeqEqual
  <2> QED BY <2>4, <2>6
<1> QED BY <1>0, <1>1, <1>3, <1>11, <1>12, <1>13 DEF Wrote

-----------------------------------------------------------------------------
(* A file on the device                                                     *)

(* Sequences of cells and bytes are sequences of numbers.                   *)
LEMMA SeqInt ==
  /\ \A s \in Seq(Byte) : s \in Seq(Int) /\ s \in Seq(Cell)
  /\ \A s \in Seq(Cell) : s \in Seq(Int)
  /\ Byte \subseteq Cell /\ Cell \subseteq Int
<1>1. Byte \subseteq Cell /\ Cell \subseteq Int /\ Byte \subseteq Int
  <2>1. MaxBytes \in Nat /\ H \in Nat /\ BufferSize > 0 /\ BufferSize \in Int
    BY Constants
  <2>2. H < BufferSize
    <3>1. B \in Nat /\ H < B /\ Aligned(BufferSize)
      BY Constants
    <3>2. BufferSize >= B
      BY <2>1, <3>1, AlignedZero
    <3> QED BY <2>1, <3>1, <3>2
  <2> QED BY <2>1, <2>2 DEF Byte, Cell
<1> QED BY <1>1, SeqMonotonic

(* The parts of a file and of its record.                                   *)
LEMMA FieldFacts ==
  ASSUME NEW f \in Files, NEW m \in Metas
  PROVE  /\ f.extents \in Seq(Ext) /\ f.size \in Nat /\ f.start \in Int /\ f.filepos \in Nat
         /\ f.active \in Zone \cup {NoZone}
         /\ m.extents \in Seq(Ext) /\ m.size \in Nat /\ m.start \in Int
BY DEF Files, Metas

(* The bytes of a file that is well placed, as many as its size.            *)
LEMMA StoredFacts ==
  ASSUME NEW md, NEW d, NEW w, NEW f, NEW m, Laid(md, d, w, f, m)
  PROVE  /\ Bytes(d, f.extents) \in Seq(Int) /\ Len(Bytes(d, f.extents)) = SumLengths(f.extents)
         /\ SumLengths(f.extents) \in Nat
         /\ Placed(d, f.extents, Cell) /\ Placed(d, f.extents, Int)
         /\ Pending(md, d, f) \in Seq(Int)
         /\ md = "direct" /\ f.active # NoZone => Len(Pending(md, d, f)) = f.size - f.filepos
         /\ ~(md = "direct" /\ f.active # NoZone) => Pending(md, d, f) = <<>>
         /\ StoredIn(md, d, f) \in Seq(Int) /\ Len(StoredIn(md, d, f)) = f.size
<1>1. /\ f \in Files /\ m \in Metas /\ Pointers(w) /\ d \in [Address -> Cell]
      /\ Placement(md, w, f) /\ Sizing(md, d, f, m)
  BY DEF Laid
<1>2. /\ f.extents \in Seq(Ext) /\ f.size \in Nat /\ f.start \in Int /\ f.filepos \in Nat
      /\ f.active \in Zone \cup {NoZone}
  BY <1>1, FieldFacts
<1>3. PICK h \in Nat, x \in Seq(Ext) : h = Hs(md) /\ x = f.extents
  BY <1>2, HsFacts
<1>4. Sound(h, w, x) /\ Grown(d, w, d, w)
  BY <1>1, <1>3, GrownSelf DEF Placement
<1>5. /\ Bytes(d, x) \in Seq(Int) /\ Len(Bytes(d, x)) = SumLengths(x)
      /\ Placed(d, x, Cell) /\ Placed(d, x, Int)
  BY <1>4, GrownBytes
<1>6. SumLengths(x) \in Nat
  BY SumLengthsFacts
<1>7. ASSUME md = "direct", f.active # NoZone
      PROVE  Pending(md, d, f) \in Seq(Int) /\ Len(Pending(md, d, f)) = f.size - f.filepos
  <2>1. PICK z \in Zone : z = f.active
    BY <1>2, <1>7
  <2>2. /\ f.filepos <= f.size /\ Start(z) <= f.start
        /\ f.start + (f.size - f.filepos) <= w[z]
    BY <1>1, <1>7, <2>1 DEF Placement, Opened
  <2>3. PICK n \in Nat, a \in Int, b \in Int : n = f.size - f.filepos /\ a = f.start /\ b = a + n
    BY <1>2, <2>2
  <2>4. Under(w, a, b)
    BY <2>2, <2>3 DEF Under
  <2>5. Cells(d, a, n) \in Seq(Int) /\ Len(Cells(d, a, n)) = n
    BY <1>4, <2>3, <2>4, GrownCells
  <2>6. Pending(md, d, f) = Cells(d, a, n)
    BY <1>7, <2>3 DEF Pending
  <2> QED BY <2>3, <2>5, <2>6
<1>8. ASSUME ~(md = "direct" /\ f.active # NoZone)
      PROVE  Pending(md, d, f) = <<>> /\ Pending(md, d, f) \in Seq(Int)
  BY <1>8, EmptySeq DEF Pending
<1>9. PICK s \in Seq(Int), t \in Seq(Int) : s = Bytes(d, f.extents) /\ t = Pending(md, d, f)
  BY <1>3, <1>5, <1>7, <1>8
<1>10. s \o t \in Seq(Int) /\ Len(s \o t) = Len(s) + Len(t)
  BY ConcatProperties
<1>11. StoredIn(md, d, f) = s \o t /\ f.size = Len(s) + Len(t)
  BY <1>1, <1>3, <1>5, <1>9 DEF StoredIn, Sizing
<1> QED BY <1>3, <1>5, <1>6, <1>7, <1>8, <1>10, <1>11

(* A record of the file as it is lets recovery find the file.               *)
LEMMA FreshRecord ==
  ASSUME NEW md, NEW d, NEW w, NEW f, NEW m, NEW r, Laid(md, d, w, f, m), r = EncodeTo(f),
         Pending(md, d, f) = <<>>,
         f.active = NoZone => f.start = NoExtent,
         f.active # NoZone => /\ f.start = w[f.active]
                              /\ f.start < Start(f.active) + ZoneSize
  PROVE  /\ Laid(md, d, w, f, r) /\ Recovers(md, d, w, f, r, <<>>, FALSE)
         /\ r.start = f.start /\ r.extents = f.extents
<1>1. /\ f \in Files /\ m \in Metas /\ Pointers(w) /\ d \in [Address -> Cell] /\ md \in Modes
      /\ Placement(md, w, f) /\ Sizing(md, d, f, m)
  BY DEF Laid
<1>2. /\ f.extents \in Seq(Ext) /\ f.size \in Nat /\ f.start \in Int /\ f.filepos \in Nat
      /\ f.active \in Zone \cup {NoZone}
  BY <1>1, FieldFacts
<1>3. r \in Metas /\ r.extents = f.extents /\ r.size = f.size /\ r.start = f.start
  BY <1>2 DEF EncodeTo, Metas
<1>4. Len(<<>>) = 0 /\ SumLengths(f.extents) \in Nat /\ Len(f.extents) \in Nat
  BY <1>2, SumLengthsFacts, LenProperties
<1>5. Sizing(md, d, f, r)
  <2>1. f.size = SumLengths(f.extents)
    BY <1>1, <1>4 DEF Sizing
  <2>2. Begins(r.extents, f.extents)
    BY <1>3, <1>4 DEF Begins
  <2> QED BY <1>1, <1>3, <2>1, <2>2 DEF Sizing
<1>6. Laid(md, d, w, f, r)
  BY <1>1, <1>3, <1>5 DEF Laid
<1>7. CASE f.active = NoZone
  BY <1>3, <1>6, <1>7 DEF Recovers
<1>8. CASE f.active # NoZone
  <2>1. PICK z \in Zone, a \in Int : z = f.active /\ a = f.start
    BY <1>2, <1>8
  <2>2. /\ a = w[z] /\ Start(z) <= a /\ Aligned(a) /\ a < Start(z) + ZoneSize /\ Start(z) \in Nat
    BY <1>1, <1>8, <2>1, PointerFacts
  <2>3. r.start # NoExtent
    BY <1>3, <2>1, <2>2 DEF NoExtent
  <2>4. Home(md, w, f, r, z)
    <3>1. Clear(Hs(md), r.extents, r.start, w[z])
      BY <1>1, <1>3, <1>8, <2>1 DEF Placement
    <3> QED BY <1>3, <2>1, <2>2, <3>1 DEF Home
  <2>5. CASE md = "sparse"
    <3>1. \A i \in (Len(f.extents) + 1)..Len(f.extents) : FALSE
      BY <1>4
    <3>2. SegmentAt(a, Len(f.extents), f.extents, Len(f.extents) + 1) = a
      BY DEF SegmentAt
    <3>3. Chain(d, r.start, w[z], Len(r.extents), f.extents)
      BY <1>3, <2>1, <2>2, <3>1, <3>2 DEF Chain
    <3> QED BY <1>3, <1>6, <2>3, <2>4, <2>5, <3>3 DEF Recovers, Reads
  <2>6. CASE md # "sparse"
    <3>1. PICK s \in Seq(Int) : s = Bytes(d, f.extents)
      BY StoredFacts
    <3>2. StoredIn(md, d, f) = s
      BY <3>1, ConcatEmptySeq DEF StoredIn
    <3>3. Zeros(0) = <<>> /\ 0 \in 0..(B - 1)
      BY ZerosFacts, Constants
    <3>4. Cells(d, r.start, w[z] - r.start) = <<>>
      <4>1. w[z] - r.start = 0
        BY <1>3, <2>1, <2>2
      <4> QED BY <1>2, <1>3, <4>1, CellsNone
    <3>5. s \o <<>> = s
      BY ConcatEmptySeq
    <3>6. Kept(d, w, r, z, StoredIn(md, d, f) \o <<>>, 0)
      BY <1>3, <3>1, <3>2, <3>3, <3>4, <3>5 DEF Kept, Found
    <3>7. Reads(md, d, w, f, r, z, <<>>, FALSE)
      BY <2>6, <3>3, <3>6 DEF Reads
    <3> QED BY <1>3, <1>6, <2>3, <2>4, <3>7 DEF Recovers
  <2> QED BY <2>5, <2>6
<1> QED BY <1>7, <1>8

(* What recovery finds depends on the bytes of the file only.               *)
LEMMA RecoversSame ==
  ASSUME NEW md, NEW d, NEW w, NEW f, NEW g, NEW m, NEW dr, NEW er, NEW pad, NEW qad, md # "sparse",
         StoredIn(md, d, f) \o dr = StoredIn(md, d, g) \o er,
         g.active = f.active \/ g.active = NoZone,
         m.start # NoExtent, Recovers(md, d, w, f, m, dr, pad), pad => qad
  PROVE  Recovers(md, d, w, g, m, er, qad)
<1>1. PICK z \in Zone : Home(md, w, f, m, z) /\ Reads(md, d, w, f, m, z, dr, pad)
  BY DEF Recovers
<1>2. Home(md, w, g, m, z)
  BY <1>1 DEF Home
<1>3. Reads(md, d, w, g, m, z, er, qad)
  BY <1>1 DEF Reads
<1> QED BY <1>2, <1>3 DEF Recovers

(* The extent e has its place apart from the extents x.                     *)
Fits(h, w, x, e) ==
  /\ Sound(h, w, x) /\ Apart(h, x) /\ Aligned(e.start - h)
  /\ Under(w, e.start - h, e.start + e.length)
  /\ Clear(h, x, e.start - h, e.start + e.length)

(* y are the extents x and one more.                                        *)
Extended(h, w, x, e, y) ==
  /\ y \in Seq(Ext) /\ Len(y) = Len(x) + 1 /\ y[Len(x) + 1] = e
  /\ \A i \in 1..Len(x) : y[i] = x[i]
  /\ Sound(h, w, y) /\ Apart(h, y)
  /\ \A a, b : Clear(h, x, a, b) /\ Span(h, e) \cap (a..(b - 1)) = {} => Clear(h, y, a, b)
  /\ \A m \in Seq(Ext) : Begins(m, x) => Begins(m, y)

(* One extent more, apart from the others.                                  *)
LEMMA ExtentsAppend ==
  ASSUME NEW h \in Nat, NEW w, NEW x \in Seq(Ext), NEW e \in Ext, NEW y,
         Fits(h, w, x, e), y = Append(x, e)
  PROVE  Extended(h, w, x, e, y)
<1>0. PICK p \in Int, q \in Int : p = e.start - h /\ q = e.start + e.length
  BY DEF Ext
<1> Sound(h, w, x) /\ Apart(h, x) /\ Aligned(p) /\ Under(w, p, q) /\ Clear(h, x, p, q)
  BY <1>0 DEF Fits
<1>1. PICK n \in Nat : n = Len(x)
  BY LenProperties
<1>2. y \in Seq(Ext) /\ Len(y) = n + 1 /\ y[n + 1] = e /\ \A i \in 1..n : y[i] = x[i]
  BY <1>1, AppendProperties
<1>3. DOMAIN x = 1..n /\ DOMAIN y = 1..(n + 1)
  BY <1>1, <1>2, LenProperties
<1>4. ASSUME NEW i \in DOMAIN y PROVE (i \in DOMAIN x /\ y[i] = x[i]) \/ (i = n + 1 /\ y[i] = e)
  <2>1. i = n + 1 \/ i \in 1..n
    BY <1>3
  <2> QED BY <1>2, <1>3, <2>1
<1>5. Sound(h, w, y)
  BY <1>0, <1>4 DEF Sound
<1>6. ASSUME NEW i \in DOMAIN x PROVE Span(h, x[i]) \cap Span(h, e) = {}
  <2>1. Span(h, e) = p..(q - 1)
    BY <1>0 DEF Span, Ext
  <2> QED BY <2>1 DEF Clear
<1>7. Apart(h, y)
  <2> SUFFICES ASSUME NEW i \in DOMAIN y, NEW j \in DOMAIN y, i # j
               PROVE  Span(h, y[i]) \cap Span(h, y[j]) = {}
    BY DEF Apart
  <2>1. CASE i \in DOMAIN x /\ j \in DOMAIN x
    <3>1. y[i] = x[i] /\ y[j] = x[j]
      BY <1>2, <1>3, <2>1
    <3> QED BY <2>1, <3>1 DEF Apart
  <2>2. CASE i \in DOMAIN x /\ j \notin DOMAIN x
    <3>1. y[i] = x[i] /\ y[j] = e
      BY <1>2, <1>3, <1>4, <2>2
    <3> QED BY <1>6, <2>2, <3>1
  <2>3. CASE i \notin DOMAIN x /\ j \in DOMAIN x
    <3>1. y[j] = x[j] /\ y[i] = e
      BY <1>2, <1>3, <1>4, <2>3
    <3> QED BY <1>6, <2>3, <3>1
  <2> QED BY <1>4, <2>1, <2>2, <2>3
<1>8. ASSUME NEW a, NEW b, Clear(h, x, a, b), Span(h, e) \cap (a..(b - 1)) = {}
      PROVE  Clear(h, y, a, b)
  <2>1. ASSUME NEW i \in DOMAIN y PROVE Span(h, y[i]) \cap (a..(b - 1)) = {}
    <3>1. CASE i \in DOMAIN x /\ y[i] = x[i]
      BY <1>8, <3>1 DEF Clear
    <3>2. CASE y[i] = e
      BY <1>8, <3>2
    <3> QED BY <1>4, <3>1, <3>2
  <2> QED BY <2>1 DEF Clear
<1>9. ASSUME NEW m \in Seq(Ext), Begins(m, x) PROVE Begins(m, y)
  <2>1. Len(m) \in Nat /\ Len(m) <= n /\ \A i \in 1..Len(m) : m[i] = x[i]
    BY <1>1, <1>9, LenProperties DEF Begins
  <2>2. Len(m) <= n + 1 /\ \A i \in 1..Len(m) : i \in 1..n
    BY <2>1
  <2> QED BY <1>2, <2>1, <2>2 DEF Begins
<1> QED BY <1>1, <1>2, <1>5, <1>7, <1>8, <1>9 DEF Extended

(* PushExtent as a function of the write pointers.                          *)
Push(w, f) ==
  IF f.active = NoZone \/ f.size - f.filepos = 0 THEN f
  ELSE [f EXCEPT !.extents = Append(@, Extent(f.start, f.size - f.filepos)),
                 !.start = w[f.active], !.filepos = f.size]

(* PushExtent turns the data that is in no extent into one.                 *)
LEMMA PushFacts ==
  ASSUME NEW md, NEW d, NEW w, NEW f, NEW m, NEW g, Laid(md, d, w, f, m), md = "direct",
         f.active # NoZone, g = Push(w, f)
  PROVE  /\ Laid(md, d, w, g, m) /\ StoredIn(md, d, g) = StoredIn(md, d, f)
         /\ Pending(md, d, g) = <<>>
         /\ g.active = f.active /\ g.size = f.size /\ g.filepos = g.size
         /\ f.filepos = f.size => g = f
         /\ f.filepos # f.size => g.start = w[f.active]
<1>1. /\ f \in Files /\ m \in Metas /\ Pointers(w) /\ d \in [Address -> Cell] /\ md \in Modes
      /\ Placement(md, w, f) /\ Sizing(md, d, f, m)
  BY DEF Laid
<1>2. /\ f.extents \in Seq(Ext) /\ f.size \in Nat /\ f.start \in Int /\ f.filepos \in Nat
      /\ f.active \in Zone \cup {NoZone} /\ m.extents \in Seq(Ext)
  BY <1>1, FieldFacts
<1>3. PICK z \in Zone, a \in Int : z = f.active /\ a = f.start
  BY <1>2
<1>4. /\ f.filepos <= f.size /\ Start(z) <= a /\ Aligned(a)
      /\ a + (f.size - f.filepos) <= w[z] /\ Clear(Hs(md), f.extents, a, w[z])
      /\ Sound(Hs(md), w, f.extents) /\ Apart(Hs(md), f.extents)
  BY <1>1, <1>3 DEF Placement, Opened
<1>5. Hs(md) = 0
  BY HsFacts
<1>6. CASE f.filepos = f.size
  <2>1. g = f
    BY <1>2, <1>6 DEF Push
  <2>2. Pending(md, d, f) = <<>>
    <3>1. f.size - f.filepos = 0
      BY <1>2, <1>6
    <3> QED BY <1>2, <3>1, CellsNone DEF Pending
  <2> QED BY <1>6, <2>1, <2>2
<1>7. CASE f.filepos # f.size
  <2>1. PICK n \in Nat : n = f.size - f.filepos /\ n > 0
    BY <1>2, <1>4, <1>7
  <2>2. PICK e \in Ext : e = Extent(a, n) /\ e.start = a /\ e.length = n
    BY <2>1, ExtentFacts
  <2>3. PICK y : y = Append(f.extents, e)
    OBVIOUS
  <2>4. g = [f EXCEPT !.extents = y, !.start = w[z], !.filepos = f.size]
    BY <1>2, <1>3, <2>1, <2>2, <2>3 DEF Push
  <2>5. w[z] \in Int /\ Start(z) <= w[z] /\ Aligned(w[z]) /\ Start(z) \in Nat
    BY <1>1, PointerFacts
  <2>6. PICK b \in Int : b = a + n /\ b <= w[z]
    BY <1>4, <2>1
  <2>7. Under(w, a, b) /\ Clear(0, f.extents, a, b)
    <3>1. Under(w, a, b)
      BY <1>4, <2>6 DEF Under
    <3>2. \A k \in a..(b - 1) : k \in a..(w[z] - 1)
      BY <2>5, <2>6
    <3>3. a..(b - 1) \subseteq a..(w[z] - 1)
      BY <3>2
    <3>4. Clear(0, f.extents, a, w[z])
      BY <1>4, <1>5
    <3> QED BY <3>1, <3>3, <3>4 DEF Clear
  <2>8. /\ y \in Seq(Ext) /\ Sound(0, w, y) /\ Apart(0, y)
        /\ \A q \in Seq(Ext) : Begins(q, f.extents) => Begins(q, y)
    <3>1. PICK h \in Nat, x \in Seq(Ext) : h = 0 /\ x = f.extents
      BY <1>2
    <3>2. a = e.start - h /\ b = e.start + e.length
      BY <2>2, <2>6, <3>1
    <3>3. Sound(h, w, x) /\ Apart(h, x) /\ Clear(h, x, a, b) /\ y = Append(x, e)
      BY <1>4, <1>5, <2>3, <2>7, <3>1
    <3>5. Fits(h, w, x, e)
      BY <1>4, <2>7, <3>2, <3>3 DEF Fits
    <3>6. Extended(h, w, x, e, y)
      BY <3>3, <3>5, ExtentsAppend
    <3>4. /\ y \in Seq(Ext) /\ Sound(h, w, y) /\ Apart(h, y)
          /\ \A q \in Seq(Ext) : Begins(q, x) => Begins(q, y)
      BY <3>6 DEF Extended
    <3> QED BY <3>1, <3>4
  <2>9. /\ g \in Files /\ g.extents = y /\ g.start = w[z] /\ g.filepos = f.size /\ g.size = f.size
        /\ g.active = z
    BY <1>1, <1>2, <1>3, <2>4, <2>5, <2>8 DEF Files
  <2>10. Pending(md, d, g) = <<>> /\ Pending(md, d, f) = Cells(d, a, n)
    <3>1. g.size - g.filepos = 0
      BY <1>2, <2>9
    <3> QED BY <1>3, <2>1, <2>5, <2>9, <3>1, CellsNone DEF Pending
  <2>11. Bytes(d, y) = Bytes(d, f.extents) \o Cells(d, a, n)
    <3>1. Placed(d, f.extents, Int)
      BY StoredFacts
    <3>2. AllIn(d, a, n, Cell)
      BY <1>1, <2>6, <2>7, GrownSelf, GrownCells
    <3>3. AllIn(d, e.start, e.length, Int)
      BY <2>2, <3>2, SeqInt DEF AllIn
    <3> QED BY <1>2, <2>2, <2>3, <3>1, <3>3, BytesAppend, ZenonT(60)
  <2>12. StoredIn(md, d, g) = StoredIn(md, d, f)
    <3>3. PICK s \in Seq(Int), t \in Seq(Int) : s = Bytes(d, f.extents) /\ t = Cells(d, a, n)
      BY <2>10, StoredFacts
    <3>1. PICK u \in Seq(Int) : u = s \o t
      BY ConcatProperties
    <3>2. StoredIn(md, d, f) = u /\ StoredIn(md, d, g) = u \o <<>>
      BY <2>9, <2>10, <2>11, <3>1, <3>3 DEF StoredIn
    <3> QED BY <3>2, ConcatEmptySeq
  <2>13. Sizing(md, d, g, m)
    <3>1. SumLengths(y) = SumLengths(f.extents) + n /\ SumLengths(f.extents) \in Nat
      BY <1>2, <2>2, <2>3, SumLengthsFacts
    <3>2. f.size = SumLengths(f.extents) + n
      <4>1. Len(Pending(md, d, f)) = n
        BY <2>1, StoredFacts
      <4> QED BY <1>1, <4>1 DEF Sizing
    <3>3. Len(<<>>) = 0
      OBVIOUS
    <3> QED BY <1>1, <1>2, <2>8, <2>9, <2>10, <2>12, <3>1, <3>2, <3>3 DEF Sizing
  <2>14. Placement(md, w, g)
    <3>1. Opened(md, w, g)
      BY <1>2, <2>5, <2>9 DEF Opened
    <3>2. Clear(0, y, w[z], w[z])
      BY <2>5 DEF Clear
    <3> QED BY <1>5, <2>8, <2>9, <3>1, <3>2 DEF Placement
  <2> QED BY <1>1, <1>3, <1>7, <2>9, <2>10, <2>12, <2>13, <2>14 DEF Laid
<1> QED BY <1>6, <1>7

(* The first extents are as well placed as all.                             *)
LEMMA BeginsFacts ==
  ASSUME NEW h, NEW w, NEW x \in Seq(Ext), NEW y \in Seq(Ext), Begins(x, y),
         Sound(h, w, y), Apart(h, y)
  PROVE  /\ Sound(h, w, x) /\ Apart(h, x)
         /\ \A a, b : Clear(h, y, a, b) => Clear(h, x, a, b)
<1>1. /\ Len(x) \in Nat /\ DOMAIN x = 1..Len(x) /\ Len(y) \in Nat /\ DOMAIN y = 1..Len(y)
      /\ Len(x) <= Len(y)
  BY ExtFacts DEF Begins
<1>2. ASSUME NEW i \in DOMAIN x PROVE i \in DOMAIN y /\ x[i] = y[i]
  BY <1>1 DEF Begins
<1>3. Sound(h, w, x)
  BY <1>2 DEF Sound
<1>4. Apart(h, x)
  BY <1>2 DEF Apart
<1>5. ASSUME NEW a, NEW b, Clear(h, y, a, b) PROVE Clear(h, x, a, b)
  BY <1>2, <1>5 DEF Clear
<1> QED BY <1>3, <1>4, <1>5

(* A file without pending data may take another active zone, or none.       *)
LEMMA Retarget ==
  ASSUME NEW md, NEW d, NEW w, NEW f, NEW m, NEW g, Laid(md, d, w, f, m),
         Pending(md, d, f) = <<>>, g \in Files, g.extents = f.extents, g.size = f.size,
         g.active # NoZone => /\ g.start = w[g.active] /\ g.filepos = g.size
                              /\ CapacityLeft(w, g.active) > 0
  PROVE  /\ Laid(md, d, w, g, m) /\ StoredIn(md, d, g) = StoredIn(md, d, f)
         /\ Pending(md, d, g) = <<>>
<1>1. /\ f \in Files /\ m \in Metas /\ Pointers(w) /\ d \in [Address -> Cell] /\ md \in Modes
      /\ Placement(md, w, f) /\ Sizing(md, d, f, m)
  BY DEF Laid
<1>2. /\ g.extents \in Seq(Ext) /\ g.size \in Nat /\ g.start \in Int /\ g.filepos \in Nat
      /\ g.active \in Zone \cup {NoZone}
  BY <1>1, FieldFacts
<1>3. Pending(md, d, g) = <<>>
  <2>1. CASE g.active = NoZone
    BY <2>1 DEF Pending
  <2>2. CASE g.active # NoZone
    <3>1. g.size - g.filepos = 0
      BY <1>2, <2>2
    <3> QED BY <1>2, <3>1, CellsNone DEF Pending
  <2> QED BY <2>1, <2>2
<1>4. StoredIn(md, d, g) = StoredIn(md, d, f)
  BY <1>3 DEF StoredIn
<1>5. Sizing(md, d, g, m)
  BY <1>1, <1>3, <1>4 DEF Sizing
<1>6. Placement(md, w, g)
  <2>1. Sound(Hs(md), w, g.extents) /\ Apart(Hs(md), g.extents)
    BY <1>1 DEF Placement
  <2>2. ASSUME g.active # NoZone
        PROVE  Opened(md, w, g) /\ Clear(Hs(md), g.extents, g.start, w[g.active])
    <3>1. PICK z \in Zone : z = g.active
      BY <1>2, <2>2
    <3>2. w[z] \in Int /\ Start(z) <= w[z] /\ Aligned(w[z]) /\ g.start = w[z] /\ Start(z) \in Nat
      BY <1>1, <2>2, <3>1, PointerFacts
    <3>3. Opened(md, w, g)
      BY <1>2, <2>2, <3>1, <3>2 DEF Opened
    <3>4. g.start..(w[g.active] - 1) = {}
      BY <3>1, <3>2
    <3> QED BY <3>3, <3>4 DEF Clear
  <2>3. CASE g.active = NoZone
    BY <2>1, <2>3 DEF Placement, Opened
  <2>4. CASE g.active # NoZone
    BY <2>1, <2>2, <2>4 DEF Placement
  <2> QED BY <2>3, <2>4
<1> QED BY <1>1, <1>3, <1>4, <1>5, <1>6 DEF Laid

(* Where the record m says the file is written in z.                        *)
Starts(w, m, z) == Start(z) <= m.start /\ m.start <= w[z]
Growing(d, w, e, v, z, c, h, m, s) ==
  /\ Wrote(d, w, e, v, z, c) /\ m \in Metas /\ Sound(h, w, m.extents) /\ Starts(w, m, z)
  /\ Kept(d, w, m, z, s, 0)
  /\ z \in Zone /\ c \in Seq(Int) /\ h \in Nat /\ s \in Seq(Int)

(* What recovery reads grows by what is appended to the zone.               *)
LEMMA KeptGrows ==
  ASSUME NEW d, NEW w, NEW e, NEW v, NEW z, NEW c, NEW h, NEW m, NEW s,
         Growing(d, w, e, v, z, c, h, m, s)
  PROVE  Found(e, v, m, z) = s \o c
<1> Wrote(d, w, e, v, z, c) /\ m \in Metas /\ Sound(h, w, m.extents) /\ Starts(w, m, z)
    /\ Kept(d, w, m, z, s, 0)
    /\ z \in Zone /\ c \in Seq(Int) /\ h \in Nat /\ s \in Seq(Int)
  BY DEF Growing
<1>0. PICK n \in Nat : n = Len(c)
  BY LenProperties
<1>17. Grown(d, w, e, v) /\ v[z] = w[z] + n /\ Cells(e, w[z], n) = c
  BY <1>0 DEF Wrote
<1>10. PICK a \in Int, p \in Int, q \in Int : a = m.start /\ p = w[z] /\ q = v[z]
  BY <1>17, PointerFacts DEF Grown, Metas
<1>11. q = p + n /\ a <= p /\ Start(z) <= a
  BY <1>17, <1>10 DEF Starts
<1>1. PICK k \in Nat, l \in Nat : k = p - a /\ l = k + n
  BY <1>11
<1>2. l = q - a /\ p = a + k /\ q = a + l
  BY <1>1, <1>11
<1>3. m.extents \in Seq(Ext)
  BY DEF Metas
<1>4. Bytes(d, m.extents) = Bytes(e, m.extents) /\ Bytes(d, m.extents) \in Seq(Int)
  BY <1>17, <1>3, GrownBytes
<1>5. Under(w, a, p) /\ Under(v, a, q)
  <2>1. p <= w[z] /\ q <= v[z]
    BY <1>10
  <2> QED BY <1>11, <2>1 DEF Under
<1>6. Cells(d, a, k) = Cells(e, a, k) /\ Cells(d, a, k) \in Seq(Int)
  BY <1>17, <1>2, <1>5, GrownCells
<1>7. AllIn(e, a, l, Int)
  <2>1. Grown(e, v, e, v)
    BY <1>17, GrownSelf DEF Grown
  <2>3. AllIn(e, a, l, Cell)
    BY <1>2, <1>5, <2>1, GrownCells
  <2> QED BY <2>3, SeqInt DEF AllIn
<1>8. Cells(e, a, l) = Cells(e, a, k) \o Cells(e, p, n)
  BY <1>1, <1>2, <1>7, CellsSplitInt
<1>9. PICK b \in Seq(Int), r \in Seq(Int) : b = Bytes(d, m.extents) /\ r = Cells(d, a, k)
  BY <1>4, <1>6
<1>12. b \o r = s
  <2>1. b \o r = s \o Zeros(0)
    BY <1>1, <1>9, <1>10 DEF Kept, Found
  <2> QED BY <2>1, ZerosFacts, ConcatEmptySeq
<1>13. Cells(e, a, l) = r \o c
  BY <1>17, <1>6, <1>8, <1>9, <1>10
<1>14. Bytes(e, m.extents) \o Cells(e, a, l) = b \o (r \o c)
  BY <1>4, <1>9, <1>13
<1>15. (b \o r) \o c = b \o (r \o c)
  BY Assoc
<1>16. v[z] - m.start = l
  BY <1>2, <1>10
<1> QED BY <1>10, <1>12, <1>14, <1>15, <1>16 DEF Found

(* The record names the same zone after more was written.                   *)
LEMMA HomeGrows ==
  ASSUME NEW md, NEW d, NEW w, NEW f, NEW m, Laid(md, d, w, f, m), NEW e, NEW v, Grown(d, w, e, v),
         NEW z \in Zone, Home(md, w, f, m, z), NEW g, g.active = f.active \/ g.active = NoZone
  PROVE  /\ Home(md, v, g, m, z) /\ Starts(w, m, z)
         /\ Sound(Hs(md), w, m.extents) /\ Apart(Hs(md), m.extents)
<1>1. /\ f \in Files /\ m \in Metas /\ Pointers(w) /\ Pointers(v)
      /\ Placement(md, w, f) /\ Sizing(md, d, f, m)
  BY DEF Laid, Grown
<1>2. f.extents \in Seq(Ext) /\ m.extents \in Seq(Ext) /\ m.start \in Int
  BY <1>1, FieldFacts
<1>3. PICK h \in Nat, x \in Seq(Ext), a \in Int : h = Hs(md) /\ x = m.extents /\ a = m.start
  BY <1>2, HsFacts
<1>4. Sound(h, w, x) /\ Apart(h, x)
  <2>1. Begins(x, f.extents) /\ Sound(h, w, f.extents) /\ Apart(h, f.extents)
    BY <1>1, <1>3 DEF Placement, Sizing
  <2> QED BY <1>2, <2>1, BeginsFacts
<1>5. Start(z) <= a /\ a <= w[z] /\ Clear(h, x, a, w[z])
  BY <1>3 DEF Home
<1>6. Clear(h, x, a, v[z])
  BY <1>4, <1>5, GrownClear
<1>7. a <= v[z]
  <2>1. w[z] \in Int /\ v[z] \in Int /\ w[z] <= v[z]
    BY <1>1, PointerFacts DEF Grown
  <2> QED BY <1>5, <2>1
<1>8. Home(md, v, g, m, z)
  BY <1>3, <1>5, <1>6, <1>7 DEF Home
<1> QED BY <1>3, <1>4, <1>5, <1>8 DEF Starts

(* A write of the cells c to the active zone z turns the file f into g, so  *)
(* that it has the bytes b more; recovery would find the file before.       *)
Follows(f, g, z) == f.active = z /\ (g.active = z \/ g.active = NoZone)
Carries(md, d, f, e, g, c, b, p, pad) ==
  /\ md # "sparse" /\ StoredIn(md, e, g) = StoredIn(md, d, f) \o b
  /\ c = b \o Zeros(p) /\ (p = 0 \/ pad)
Storing(md, d, w, f, m, e, v, z, c, g, b, p, pad) ==
  /\ z \in Zone /\ c \in Seq(Int) /\ b \in Seq(Int) /\ p \in 0..(B - 1)
  /\ Laid(md, d, w, f, m) /\ Recovers(md, d, w, f, m, <<>>, FALSE)
  /\ Wrote(d, w, e, v, z, c) /\ Follows(f, g, z) /\ Carries(md, d, f, e, g, c, b, p, pad)

(* Recovery finds what is written behind the data it would find.            *)
LEMMA RecoversGrows ==
  ASSUME NEW md, NEW d, NEW w, NEW f, NEW m, NEW e, NEW v, NEW z, NEW c, NEW g, NEW b, NEW p,
         NEW pad, Storing(md, d, w, f, m, e, v, z, c, g, b, p, pad)
  PROVE  Recovers(md, e, v, g, m, <<>>, pad)
<1> /\ z \in Zone /\ c \in Seq(Int) /\ b \in Seq(Int) /\ p \in 0..(B - 1)
    /\ Laid(md, d, w, f, m) /\ Recovers(md, d, w, f, m, <<>>, FALSE)
    /\ Wrote(d, w, e, v, z, c) /\ Follows(f, g, z) /\ Carries(md, d, f, e, g, c, b, p, pad)
  BY DEF Storing
<1>1. m \in Metas /\ Grown(d, w, e, v) /\ z # NoZone
  BY ZoneFacts DEF Laid, Wrote
<1>2. f.active = z /\ (g.active = f.active \/ g.active = NoZone)
  BY DEF Follows
<1>3. m.start # NoExtent
  BY <1>1, <1>2 DEF Recovers
<1>4. PICK y \in Zone : Home(md, w, f, m, y) /\ Reads(md, d, w, f, m, y, <<>>, FALSE)
  BY <1>3 DEF Recovers
<1>5. y = z
  BY <1>1, <1>2, <1>4 DEF Home
<1>6. Home(md, w, f, m, z) /\ Reads(md, d, w, f, m, z, <<>>, FALSE)
  BY <1>4, <1>5
<1>7. g.active = f.active \/ g.active = NoZone
  BY <1>2
<1>8. Home(md, v, g, m, z) /\ Starts(w, m, z) /\ Sound(Hs(md), w, m.extents)
  BY <1>1, <1>6, <1>7, HomeGrows
<1>9. PICK s \in Seq(Int) : s = StoredIn(md, d, f)
  BY StoredFacts
<1>10. Kept(d, w, m, z, s, 0)
  <2>1. Kept(d, w, m, z, StoredIn(md, d, f) \o <<>>, 0)
    BY <1>6 DEF Reads, Carries
  <2>2. s \o <<>> = s
    BY ConcatEmptySeq
  <2> QED BY <1>9, <2>1, <2>2
<1>11. PICK h \in Nat : h = Hs(md)
  BY HsFacts
<1>12. Sound(h, w, m.extents)
  BY <1>8, <1>11
<1>13. Found(e, v, m, z) = s \o c
  <2>1. Growing(d, w, e, v, z, c, h, m, s)
    BY <1>1, <1>8, <1>10, <1>12 DEF Growing
  <2> QED BY <2>1, KeptGrows
<1>14. PICK o \in Seq(Int) : o = Zeros(p)
  BY ZerosFacts, SeqInt
<1>15. PICK t \in Seq(Int) : t = s \o b
  BY ConcatProperties
<1>16. s \o (b \o o) = t \o o /\ t \o <<>> = t
  BY <1>15, Assoc, ConcatEmptySeq, ZenonT(60)
<1>17. StoredIn(md, e, g) = t /\ c = b \o o /\ md # "sparse" /\ (p = 0 \/ pad)
  BY <1>9, <1>14, <1>15 DEF Carries
<1>18. Kept(e, v, m, z, StoredIn(md, e, g) \o <<>>, p)
  BY <1>13, <1>14, <1>16, <1>17 DEF Kept
<1>19. Reads(md, e, v, g, m, z, <<>>, pad)
  BY <1>17, <1>18 DEF Reads
<1> QED BY <1>3, <1>8, <1>19 DEF Recovers

(* Where the direct data ends, and what a direct write does to the file.    *)
Ends(w, f) == f.start + (f.size - f.filepos) = w[f.active]
Writes(md, w, f, z, c, g) ==
  md = "direct" /\ z = f.active /\ Ends(w, f) /\ g = [f EXCEPT !.size = @ + Len(c)]
Advanced(f, g, z, n) ==
  /\ g \in Files /\ g.size = f.size + n /\ g.extents = f.extents /\ g.start = f.start
  /\ g.filepos = f.filepos /\ g.active = z /\ f.active = z

(* A direct write appends to the file what it appends to the zone.          *)
LEMMA WriteFacts ==
  ASSUME NEW md, NEW d, NEW w, NEW f, NEW m, Laid(md, d, w, f, m), NEW e, NEW v, NEW z \in Zone,
         NEW c \in Seq(Byte), Wrote(d, w, e, v, z, c), NEW g, Writes(md, w, f, z, c, g),
         Recovers(md, d, w, f, m, <<>>, FALSE)
  PROVE  /\ Laid(md, e, v, g, m) /\ StoredIn(md, e, g) = StoredIn(md, d, f) \o c
         /\ Recovers(md, e, v, g, m, <<>>, FALSE) /\ Ends(v, g)
         /\ Advanced(f, g, z, Len(c))
<1>1. /\ f \in Files /\ m \in Metas /\ Pointers(w) /\ d \in [Address -> Cell] /\ md \in Modes
      /\ Placement(md, w, f) /\ Sizing(md, d, f, m)
  BY DEF Laid
<1>2. /\ f.extents \in Seq(Ext) /\ f.size \in Nat /\ f.start \in Int /\ f.filepos \in Nat
      /\ f.active \in Zone \cup {NoZone} /\ m.extents \in Seq(Ext) /\ m.start \in Int
  BY <1>1, FieldFacts
<1>3. Grown(d, w, e, v) /\ Pointers(v) /\ e \in [Address -> Cell] /\ c \in Seq(Int)
  BY SeqInt DEF Wrote, Grown
<1>4. PICK n \in Nat : n = Len(c)
  BY LenProperties
<1>5. Advanced(f, g, z, n) /\ md = "direct" /\ z # NoZone
  <2>1. g = [f EXCEPT !.size = f.size + n] /\ f.size + n \in Nat
    BY <1>2, <1>4 DEF Writes
  <2>2. /\ g \in Files /\ g.size = f.size + n /\ g.extents = f.extents /\ g.start = f.start
        /\ g.filepos = f.filepos /\ g.active = f.active
    BY <1>1, <2>1 DEF Files
  <2>3. f.active = z /\ md = "direct" /\ z # NoZone
    BY ZoneFacts DEF Writes
  <2> QED BY <2>2, <2>3 DEF Advanced
<1>6. PICK a \in Int, p \in Int, q \in Int : a = f.start /\ p = w[z] /\ q = v[z]
  BY <1>1, <1>2, <1>3, PointerFacts
<1>7. f.filepos <= f.size /\ Start(z) <= a /\ Aligned(a)
  BY <1>1, <1>5, <1>6 DEF Placement, Opened, Advanced
<1>8. PICK k \in Nat : k = f.size - f.filepos
  BY <1>2, <1>7
<1>9. p = a + k /\ q = p + n
  BY <1>4, <1>6, <1>8 DEF Ends, Wrote, Writes
<1>10. PICK l \in Nat : l = k + n
  OBVIOUS
<1>11. l = g.size - g.filepos /\ q = a + l /\ g.filepos <= g.size
  <2>1. PICK i \in Nat, j \in Nat : i = f.size /\ j = f.filepos
    BY <1>2
  <2>2. g.size = i + n /\ g.filepos = j /\ k = i - j /\ j <= i
    BY <1>5, <1>7, <1>8, <2>1 DEF Advanced
  <2>3. (i + n) - j = k + n /\ j <= i + n
    BY <2>2
  <2>4. q = a + l
    BY <1>9, <1>10
  <2> QED BY <1>10, <2>2, <2>3, <2>4
<1>12. Under(w, a, p) /\ Under(v, a, q)
  <2>1. p <= w[z] /\ q <= v[z]
    BY <1>6
  <2> QED BY <1>7, <2>1 DEF Under
<1>13. Cells(d, a, k) = Cells(e, a, k) /\ Cells(d, a, k) \in Seq(Int)
  BY <1>3, <1>9, <1>12, GrownCells
<1>14. Cells(e, a, l) = Cells(e, a, k) \o Cells(e, p, n)
  <2>1. Grown(e, v, e, v)
    BY <1>3, GrownSelf
  <2>2. q = a + l
    BY <1>11
  <2>3. AllIn(e, a, l, Cell)
    BY <1>12, <2>1, <2>2, GrownCells
  <2>4. AllIn(e, a, l, Int)
    BY <2>3, SeqInt DEF AllIn
  <2> QED BY <1>9, <1>10, <2>4, CellsSplitInt
<1>15. Cells(e, p, n) = c
  BY <1>4, <1>6 DEF Wrote
<1>16. PICK h \in Nat, x \in Seq(Ext) : h = Hs(md) /\ x = f.extents
  BY <1>2, HsFacts
<1>17. Sound(h, w, x) /\ Apart(h, x) /\ Clear(h, x, a, w[z])
  BY <1>1, <1>5, <1>6, <1>16 DEF Placement, Advanced
<1>18. Sound(h, v, x) /\ Bytes(d, x) = Bytes(e, x)
  BY <1>3, <1>17, GrownSound, GrownBytes
<1>19. Clear(h, x, a, v[z])
  BY <1>3, <1>7, <1>17, GrownClear
<1>20. PICK b \in Seq(Int) : b = Bytes(d, x)
  BY <1>16, StoredFacts
<1>21. PICK r \in Seq(Int) : r = Cells(d, a, k)
  BY <1>13
<1>22. Pending(md, d, f) = r /\ Pending(md, e, g) = r \o c
  <2>1. f.active # NoZone /\ g.active # NoZone /\ g.start = a /\ md = "direct"
    BY <1>5, <1>6 DEF Advanced
  <2>2. Pending(md, d, f) = Cells(d, a, k) /\ Pending(md, e, g) = Cells(e, a, l)
    BY <1>6, <1>8, <1>11, <2>1 DEF Pending
  <2> QED BY <1>13, <1>14, <1>15, <1>21, <2>2
<1>23. StoredIn(md, e, g) = b \o (r \o c) /\ StoredIn(md, d, f) = b \o r
  BY <1>5, <1>16, <1>18, <1>20, <1>22 DEF StoredIn, Advanced
<1>24. (b \o r) \o c = b \o (r \o c)
  BY <1>3, Assoc
<1>25. StoredIn(md, e, g) = StoredIn(md, d, f) \o c
  BY <1>23, <1>24
<1>26. Sizing(md, e, g, m)
  <2>1. Len(r) \in Nat /\ Len(r \o c) = Len(r) + Len(c)
    BY <1>3, ConcatProperties, LenProperties
  <2>2. f.size = SumLengths(x) + Len(r) /\ SumLengths(x) \in Nat
    BY <1>1, <1>16, <1>22, SumLengthsFacts DEF Sizing
  <2>3. g.size = f.size + n /\ g.extents = x
    BY <1>5, <1>16 DEF Advanced
  <2>6. PICK i \in Nat, j \in Nat : i = SumLengths(x) /\ j = Len(r)
    BY <2>1, <2>2
  <2>7. (i + j) + n = i + (j + n)
    OBVIOUS
  <2>8. f.size = i + j /\ Len(r \o c) = j + n
    BY <1>4, <2>1, <2>2, <2>6
  <2>4. g.size = SumLengths(g.extents) + Len(Pending(md, e, g))
    BY <1>22, <2>3, <2>6, <2>7, <2>8
  <2>5. StoredIn(md, d, f) \o c \in Seq(Byte)
    BY <1>1, ConcatProperties DEF Sizing
  <2> QED BY <1>1, <1>16, <1>25, <2>3, <2>4, <2>5 DEF Sizing
<1>27. Placement(md, v, g)
  <2>1. g.start = a /\ g.active = z /\ g.filepos = f.filepos /\ g.size = f.size + n /\ g.extents = x
    BY <1>5, <1>6, <1>16 DEF Advanced
  <2>2. g.start + (g.size - g.filepos) <= v[g.active] /\ g.filepos <= g.size
    <3>1. g.start + (g.size - g.filepos) = a + l /\ v[g.active] = q
      BY <1>6, <1>11, <2>1
    <3> QED BY <1>11, <3>1
  <2>3. Opened(md, v, g)
    BY <1>5, <1>7, <2>1, <2>2 DEF Opened
  <2> QED BY <1>16, <1>17, <1>18, <1>19, <2>1, <2>3 DEF Placement
<1>28. Laid(md, e, v, g, m)
  BY <1>1, <1>3, <1>5, <1>26, <1>27 DEF Laid, Advanced
<1>29. Ends(v, g)
  <2>1. g.start = a /\ g.active = z
    BY <1>5, <1>6 DEF Advanced
  <2> QED BY <1>6, <1>11, <2>1 DEF Ends
<1>30. Recovers(md, e, v, g, m, <<>>, FALSE)
  <2>1. Follows(f, g, z)
    BY <1>5 DEF Follows, Advanced
  <2>2. Zeros(0) = <<>> /\ c \o <<>> = c
    BY <1>3, ZerosFacts, ConcatEmptySeq
  <2>3. Carries(md, d, f, e, g, c, c, 0, FALSE)
    BY <1>5, <1>25, <2>2 DEF Carries
  <2>7. 0 \in 0..(B - 1)
    BY Constants
  <2>4. PICK o, pad : o \in 0..(B - 1) /\ o = 0 /\ pad = FALSE
    BY <2>7
  <2>5. Carries(md, d, f, e, g, c, c, o, pad)
    BY <2>3, <2>4
  <2>6. Recovers(md, e, v, g, m, <<>>, pad)
    <3>1. Storing(md, d, w, f, m, e, v, z, c, g, c, o, pad)
      BY <1>3, <2>1, <2>4, <2>5 DEF Storing
    <3> QED BY <3>1, RecoversGrows
  <2> QED BY <2>4, <2>6
<1> QED BY <1>4, <1>5, <1>25, <1>28, <1>29, <1>30


(* u is t behind s.                                                         *)
Joint(s, t, u) == s \in Seq(Int) /\ t \in Seq(Int) /\ u = s \o t

(* Concatenation of sequences of numbers.                                   *)
LEMMA JointFacts ==
  ASSUME NEW s, NEW t, NEW u, Joint(s, t, u)
  PROVE  /\ u \in Seq(Int) /\ Len(s) \in Nat /\ Len(t) \in Nat /\ Len(u) = Len(s) + Len(t)
         /\ \A i \in 1..Len(s) : u[i] = s[i]
         /\ \A i \in 1..Len(t) : u[Len(s) + i] = t[i]
<1>1. PICK V : V = Int
  OBVIOUS
<1>2. s \in Seq(V) /\ t \in Seq(V) /\ u = s \o t
  BY <1>1 DEF Joint
<1>3. /\ s \o t \in Seq(V) /\ Len(s \o t) = Len(s) + Len(t)
      /\ \A i \in 1..(Len(s) + Len(t)) :
           (s \o t)[i] = IF i <= Len(s) THEN s[i] ELSE t[i - Len(s)]
  BY <1>2, ConcatProperties
<1>4. PICK m \in Nat, n \in Nat : m = Len(s) /\ n = Len(t)
  BY <1>2, LenProperties
<1>5. u \in Seq(Int) /\ Len(u) = m + n
  BY <1>1, <1>2, <1>3, <1>4
<1>6. \A i \in 1..(m + n) : u[i] = IF i <= m THEN s[i] ELSE t[i - m]
  BY <1>2, <1>3, <1>4
<1>7. ASSUME NEW i \in 1..m PROVE u[i] = s[i]
  <2>1. i \in 1..(m + n) /\ i <= m
    OBVIOUS
  <2> QED BY <1>6, <2>1
<1>8. ASSUME NEW i \in 1..n PROVE u[m + i] = t[i]
  <2>1. m + i \in 1..(m + n) /\ ~(m + i <= m) /\ (m + i) - m = i
    OBVIOUS
  <2> QED BY <1>6, <2>1
<1> QED BY <1>4, <1>5, <1>7, <1>8

(* The bytes b behind a header, with q bytes of padding behind them.        *)
HeaderOf(md, n) == IF md = "sparse" THEN <<Header(n)>> \o Zeros(H - 1) ELSE <<>>
IsSegment(md, n, b, q, c) ==
  /\ n \in Nat /\ b \in Seq(Byte) /\ q \in Nat /\ Len(b) = n
  /\ c = HeaderOf(md, n) \o (b \o Zeros(q))

(* The header.                                                              *)
LEMMA HeaderFacts ==
  ASSUME NEW md, NEW n \in Nat
  PROVE  /\ HeaderOf(md, n) \in Seq(Int) /\ Len(HeaderOf(md, n)) = Hs(md)
         /\ md = "sparse" => HeaderOf(md, n)[1] = Header(n)
         /\ md # "sparse" => HeaderOf(md, n) = <<>>
<1>1. CASE md = "sparse"
  <2>1. PICK k \in Nat : k = H - 1 /\ Hs(md) = k + 1
    <3>1. H \in Nat /\ H >= 1 /\ Hs(md) = H
      BY <1>1, HsFacts, Constants
    <3> QED BY <3>1
  <2>2. PICK y \in Int : y = Header(n)
    BY DEF Header
  <2>3. PICK V : V = Int
    OBVIOUS
  <2>4. <<y>> \in Seq(V) /\ Len(<<y>>) = 1 /\ <<y>>[1] = y
    BY <2>2, <2>3
  <2>5. PICK s \in Seq(Int) : s = <<y>> /\ Len(s) = 1 /\ s[1] = y
    BY <2>3, <2>4
  <2>6. PICK r \in Seq(Int) : r = Zeros(H - 1) /\ Len(r) = k
    BY <2>1, ZerosFacts, SeqInt
  <2>7. PICK u : u = s \o r
    OBVIOUS
  <2>8. Joint(s, r, u)
    BY <2>7 DEF Joint
  <2>9. u \in Seq(Int) /\ Len(u) = Len(s) + Len(r) /\ \A i \in 1..Len(s) : u[i] = s[i]
    BY <2>8, JointFacts
  <2>10. u \in Seq(Int) /\ Len(u) = k + 1 /\ u[1] = y
    BY <2>5, <2>6, <2>9
  <2>11. HeaderOf(md, n) = u
    BY <1>1, <2>2, <2>5, <2>6, <2>7 DEF HeaderOf
  <2> QED BY <1>1, <2>1, <2>2, <2>10, <2>11
<1>2. CASE md # "sparse"
  <2>1. HeaderOf(md, n) = <<>> /\ Hs(md) = 0
    BY <1>2, HsFacts DEF HeaderOf
  <2> QED BY <1>2, <2>1, EmptySeq
<1> QED BY <1>1, <1>2

(* The cells of a segment.                                                  *)
LEMMA SegmentCells ==
  ASSUME NEW md, NEW n, NEW b, NEW q, NEW c, IsSegment(md, n, b, q, c)
  PROVE  /\ c \in Seq(Int) /\ Len(c) = Hs(md) + (n + q)
         /\ \A i \in 1..n : c[Hs(md) + i] = b[i]
         /\ md = "sparse" => c[1] = Header(n)
         /\ md # "sparse" => c = b \o Zeros(q)
<1>1. PICK h \in Nat : h = Hs(md)
  BY HsFacts
<1>2. n \in Nat /\ q \in Nat /\ b \in Seq(Int) /\ Len(b) = n
  BY SeqInt DEF IsSegment
<1>3. PICK o \in Seq(Int) : o = Zeros(q) /\ Len(o) = q
  BY <1>2, ZerosFacts, SeqInt
<1>4. PICK t : t = b \o o
  OBVIOUS
<1>5. Joint(b, o, t)
  BY <1>2, <1>4 DEF Joint
<1>6. t \in Seq(Int) /\ Len(t) = n + q /\ \A i \in 1..n : t[i] = b[i]
  BY <1>2, <1>3, <1>5, JointFacts
<1>7. PICK u : /\ u \in Seq(Int) /\ u = HeaderOf(md, n) /\ Len(u) = h
               /\ (md = "sparse" => u[1] = Header(n)) /\ (md # "sparse" => u = <<>>)
  BY <1>1, <1>2, HeaderFacts
<1>8. c = u \o t
  BY <1>3, <1>4, <1>7 DEF IsSegment
<1>9. Joint(u, t, c)
  BY <1>6, <1>7, <1>8 DEF Joint
<1>10. /\ c \in Seq(Int) /\ Len(c) = h + (n + q)
       /\ \A i \in 1..h : c[i] = u[i]
       /\ \A i \in 1..(n + q) : c[h + i] = t[i]
  <2>1. /\ c \in Seq(Int) /\ Len(c) = Len(u) + Len(t)
        /\ \A i \in 1..Len(u) : c[i] = u[i]
        /\ \A i \in 1..Len(t) : c[Len(u) + i] = t[i]
    BY <1>9, JointFacts
  <2> QED BY <1>2, <1>6, <1>7, <2>1
<1>11. ASSUME NEW i \in 1..n PROVE c[h + i] = b[i]
  <2>1. i \in 1..(n + q)
    BY <1>2
  <2> QED BY <1>6, <1>10, <2>1
<1>12. md = "sparse" => c[1] = Header(n)
  <2>1. md = "sparse" => 1 \in 1..h
    BY <1>1, HsFacts, Constants
  <2> QED BY <1>7, <1>10, <2>1
<1>13. md # "sparse" => c = b \o Zeros(q)
  BY <1>3, <1>4, <1>6, <1>7, <1>8, ConcatEmptySeq
<1> QED BY <1>1, <1>10, <1>11, <1>12, <1>13

(* What a turn of the flush loop does to the file f, which gets n bytes b.  *)
Filled(md, f, v, z, n, g) ==
  /\ g \in Files /\ g.extents = Append(f.extents, Extent(f.start + Hs(md), n))
  /\ g.start = v[z] /\ g.size = f.size + n
  /\ g.active = IF CapacityLeft(v, z) = 0 THEN NoZone ELSE z
Flushes(md, d, w, f, m, e, v, z, c, g, b, n, q) ==
  /\ z \in Zone /\ n > 0 /\ md # "direct" /\ f.active = z
  /\ Laid(md, d, w, f, m) /\ Wrote(d, w, e, v, z, c)
  /\ IsSegment(md, n, b, q, c) /\ q = RoundUp(n + Hs(md)) - n - Hs(md)
  /\ Filled(md, f, v, z, n, g)

(* Where the segment is: h bytes of header at a, the write pointer, up to   *)
(* the new write pointer k.                                                 *)
Placing(md, w, f, v, z, n, q, h, a, k) ==
  /\ h = Hs(md) /\ h \in Nat /\ h < B /\ n \in Nat /\ n > 0 /\ q \in Nat
  /\ a = w[z] /\ a = f.start /\ k = v[z] /\ a \in Int /\ k \in Int
  /\ k = a + (h + (n + q)) /\ k = a + RoundUp(n + h)
  /\ Aligned(a) /\ Start(z) <= a

(* The header, the data and the padding end at the new write pointer.       *)
LEMMA FlushPlace ==
  ASSUME NEW md, NEW d, NEW w, NEW f, NEW m, NEW e, NEW v, NEW z, NEW c, NEW g, NEW b, NEW n,
         NEW q, Flushes(md, d, w, f, m, e, v, z, c, g, b, n, q)
  PROVE  \E h, a, k : Placing(md, w, f, v, z, n, q, h, a, k)
<1>1. /\ z \in Zone /\ n > 0 /\ Pointers(w) /\ Pointers(v) /\ Opened(md, w, f) /\ f.active = z
      /\ md # "direct" /\ z # NoZone /\ n \in Nat /\ q \in Nat
  BY ZoneFacts DEF Flushes, Laid, Placement, Wrote, Grown, IsSegment
<1>2. PICK h \in Nat : h = Hs(md) /\ h < B
  BY HsFacts
<1>3. PICK a \in Int, k \in Int : a = w[z] /\ k = v[z]
  BY <1>1, PointerFacts
<1>4. a = f.start /\ Aligned(a) /\ Start(z) <= a
  BY <1>1, <1>3, PointerFacts DEF Opened
<1>5. k = a + Len(c)
  BY <1>3 DEF Flushes, Wrote
<1>6. IsSegment(md, n, b, q, c)
  BY DEF Flushes
<1>7. Len(c) = h + (n + q)
  BY <1>2, <1>6, SegmentCells
<1>8. PICK r \in Int : r = RoundUp(n + h)
  BY <1>1, <1>2, RoundUpFacts
<1>9. q = r - n - h
  BY <1>2, <1>8 DEF Flushes
<1>10. h + (n + q) = r
  BY <1>1, <1>9
<1> QED BY <1>1, <1>2, <1>3, <1>4, <1>5, <1>7, <1>8, <1>10 DEF Placing

(* The bytes of the segment are those of the new extent.                    *)
LEMMA FlushBytes ==
  ASSUME NEW md, NEW d, NEW w, NEW f, NEW m, NEW e, NEW v, NEW z, NEW c, NEW g, NEW b, NEW n,
         NEW q, Flushes(md, d, w, f, m, e, v, z, c, g, b, n, q), NEW h, NEW a, NEW k,
         Placing(md, w, f, v, z, n, q, h, a, k)
  PROVE  /\ Cells(e, a + h, n) = b /\ AllIn(e, a + h, n, Int)
         /\ md = "sparse" => e[a] = Header(n)
<1>1. /\ Grown(d, w, e, v) /\ Pointers(v) /\ Cells(e, a, Len(c)) = c /\ Under(v, a, k)
      /\ e \in [Address -> Cell]
  BY DEF Flushes, Wrote, Grown, Placing
<1>2. /\ h \in Nat /\ n \in Nat /\ q \in Nat /\ a \in Int /\ k \in Int /\ k = a + (h + (n + q))
      /\ h = Hs(md) /\ n > 0
  BY DEF Placing
<1>3. PICK l \in Nat : l = h + (n + q)
  BY <1>2
<1>4. /\ IsSegment(md, n, b, q, c) /\ b \in Seq(Byte) /\ b \in Seq(Int) /\ Len(b) = n
  BY SeqInt DEF Flushes, IsSegment
<1>5. /\ Len(c) = l /\ (\A i \in 1..n : c[h + i] = b[i])
      /\ (md = "sparse" => c[1] = Header(n))
  <2>1. /\ Len(c) = Hs(md) + (n + q) /\ (\A i \in 1..n : c[Hs(md) + i] = b[i])
        /\ (md = "sparse" => c[1] = Header(n))
    BY <1>4, SegmentCells
  <2> QED BY <1>2, <1>3, <2>1
<1>6. k = a + l
  BY <1>2, <1>3
<1>7. Grown(e, v, e, v)
  BY <1>1, GrownSelf
<1>8. AllIn(e, a, l, Cell)
  BY <1>1, <1>2, <1>6, <1>7, GrownCells
<1>9. \A i \in a..(a + l - 1) : e[i] \in Int
  BY <1>8, SeqInt DEF AllIn
<1>10. AllIn(e, a, l, Int)
  BY <1>9 DEF AllIn
<1>11. \A i \in 1..l : Cells(e, a, l)[i] = e[a + i - 1]
  BY <1>2, <1>10, CellsFacts
<1>12. ASSUME NEW i \in 1..l PROVE c[i] = e[a + i - 1]
  BY <1>1, <1>5, <1>11
<1>13. PICK p \in Int : p = a + h
  BY <1>2
<1>14. AllIn(e, p, n, Int)
  <2>1. ASSUME NEW i \in p..(p + n - 1) PROVE e[i] \in Int
    <3>1. i \in a..(a + l - 1)
      BY <1>2, <1>3, <1>13
    <3> QED BY <1>9, <3>1
  <2> QED BY <2>1 DEF AllIn
<1>15. PICK s : s \in Seq(Int) /\ s = Cells(e, p, n) /\ Len(s) = n
                /\ \A i \in 1..n : s[i] = e[p + i - 1]
  BY <1>2, <1>14, CellsFacts
<1>16. ASSUME NEW i \in 1..n PROVE s[i] = b[i]
  <2>1. PICK j \in 1..l : j = h + i /\ a + j - 1 = p + i - 1
    BY <1>2, <1>3, <1>13
  <2>2. c[j] = e[p + i - 1] /\ c[j] = b[i]
    BY <1>5, <1>12, <2>1
  <2> QED BY <1>15, <2>2
<1>17. s = b
  BY <1>4, <1>15, <1>16, SeqEqual
<1>18. md = "sparse" => e[a] = Header(n)
  <2>1. 1 \in 1..l /\ a + 1 - 1 = a
    BY <1>2, <1>3
  <2>2. c[1] = e[a]
    BY <1>12, <2>1
  <2> QED BY <1>5, <2>2
<1> QED BY <1>13, <1>14, <1>15, <1>17, <1>18

(* The segment becomes an extent, and the file has its bytes more.          *)
LEMMA FlushLaid ==
  ASSUME NEW md, NEW d, NEW w, NEW f, NEW m, NEW e, NEW v, NEW z, NEW c, NEW g, NEW b, NEW n,
         NEW q, Flushes(md, d, w, f, m, e, v, z, c, g, b, n, q)
  PROVE  Laid(md, e, v, g, m) /\ StoredIn(md, e, g) = StoredIn(md, d, f) \o b
<1>1. /\ f \in Files /\ m \in Metas /\ Pointers(w) /\ d \in [Address -> Cell] /\ md \in Modes
      /\ Placement(md, w, f) /\ Sizing(md, d, f, m) /\ Laid(md, d, w, f, m)
  BY DEF Flushes, Laid
<1>2. /\ f.extents \in Seq(Ext) /\ f.size \in Nat /\ f.start \in Int /\ f.filepos \in Nat
      /\ f.active \in Zone \cup {NoZone} /\ m.extents \in Seq(Ext) /\ m.start \in Int
  BY <1>1, FieldFacts
<1>3. PICK h, a, k : Placing(md, w, f, v, z, n, q, h, a, k)
  BY FlushPlace
<1>4. /\ Grown(d, w, e, v) /\ Pointers(v) /\ e \in [Address -> Cell] /\ z \in Zone /\ z # NoZone
      /\ f.active = z /\ md # "direct" /\ b \in Seq(Byte) /\ b \in Seq(Int) /\ Len(b) = n
      /\ Filled(md, f, v, z, n, g)
  BY ZoneFacts, SeqInt DEF Flushes, Wrote, Grown, IsSegment
<1>5. Cells(e, a + h, n) = b /\ AllIn(e, a + h, n, Int)
  BY <1>3, FlushBytes
<1>6. /\ h \in Nat /\ n \in Nat /\ n > 0 /\ q \in Nat /\ a \in Int /\ k \in Int
      /\ k = a + (h + (n + q)) /\ Aligned(a) /\ Start(z) <= a
  BY <1>3 DEF Placing
<1>7. h = Hs(md) /\ a = w[z] /\ a = f.start /\ k = v[z]
  BY <1>3 DEF Placing
<1>8. PICK p \in Int, j \in Int : p = a + h /\ j = p + n
  BY <1>6
<1>9. p - h = a /\ j <= k
  BY <1>6, <1>8
<1>10. PICK i : i = Extent(p, n)
  OBVIOUS
<1>11. i \in Ext /\ i.start = p /\ i.length = n
  BY <1>6, <1>10, ExtentFacts
<1>12. PICK x, y : x = f.extents /\ y = g.extents /\ x \in Seq(Ext)
  BY <1>2
<1>13. y = Append(x, i)
  BY <1>4, <1>7, <1>8, <1>10, <1>12 DEF Filled
<1>14. Sound(h, w, x) /\ Apart(h, x) /\ Clear(h, x, a, w[z])
  BY <1>1, <1>4, <1>7, <1>12 DEF Placement
<1>15. Sound(h, v, x) /\ Bytes(d, x) = Bytes(e, x)
  BY <1>4, <1>6, <1>12, <1>14, GrownSound, GrownBytes
<1>16. Clear(h, x, a, v[z])
  BY <1>4, <1>6, <1>12, <1>14, GrownClear
<1>17. Clear(h, x, a, j)
  <2>1. \A o \in a..(j - 1) : o \in a..(k - 1)
    BY <1>6, <1>9
  <2>2. a..(j - 1) \subseteq a..(k - 1)
    BY <2>1
  <2>3. Clear(h, x, a, k)
    BY <1>7, <1>16
  <2> QED BY <2>2, <2>3 DEF Clear
<1>18. Under(v, a, j)
  <2>1. j <= v[z]
    BY <1>7, <1>9
  <2> QED BY <1>4, <1>6, <2>1 DEF Under
<1>19. Fits(h, v, x, i)
  BY <1>6, <1>8, <1>9, <1>11, <1>14, <1>15, <1>17, <1>18 DEF Fits
<1>20. Extended(h, v, x, i, y)
  BY <1>6, <1>11, <1>12, <1>13, <1>19, ExtentsAppend
<1>21. /\ y \in Seq(Ext) /\ Sound(h, v, y) /\ Apart(h, y)
       /\ \A o \in Seq(Ext) : Begins(o, x) => Begins(o, y)
  BY <1>20 DEF Extended
<1>22. Bytes(e, y) = Bytes(e, x) \o b
  <2>1. Placed(d, x, Int) /\ Placed(e, x, Int)
    <3>1. Grown(e, v, e, v)
      BY <1>4, GrownSelf
    <3> QED BY <1>1, <1>6, <1>12, <1>15, <3>1, StoredFacts, GrownBytes
  <2>2. AllIn(e, i.start, i.length, Int)
    BY <1>5, <1>8, <1>11
  <2>3. Bytes(e, Append(x, i)) = Bytes(e, x) \o Cells(e, i.start, i.length)
    BY <1>11, <1>12, <2>1, <2>2, BytesAppend
  <2> QED BY <1>5, <1>8, <1>11, <1>13, <2>3
<1>23. Pending(md, d, f) = <<>> /\ Pending(md, e, g) = <<>>
  BY <1>4 DEF Pending
<1>24. PICK s : s \in Seq(Int) /\ s = Bytes(d, x)
  BY <1>1, <1>12, StoredFacts
<1>25. StoredIn(md, e, g) = (s \o b) \o <<>> /\ StoredIn(md, d, f) = s \o <<>>
  BY <1>12, <1>15, <1>22, <1>23, <1>24 DEF StoredIn
<1>26. PICK u : u = s \o b /\ Joint(s, b, u)
  BY <1>4, <1>24 DEF Joint
<1>27. u \in Seq(Int)
  BY <1>26, JointFacts
<1>28. StoredIn(md, e, g) = u /\ StoredIn(md, d, f) = s
  BY <1>24, <1>25, <1>26, <1>27, ConcatEmptySeq
<1>29. StoredIn(md, e, g) = StoredIn(md, d, f) \o b
  BY <1>26, <1>28
<1>30. Sizing(md, e, g, m)
  <2>1. SumLengths(y) = SumLengths(x) + n /\ SumLengths(x) \in Nat
    BY <1>11, <1>12, <1>13, SumLengthsFacts
  <2>2. f.size = SumLengths(x) + Len(<<>>) /\ m.size = SumLengths(m.extents) /\ Begins(m.extents, x)
    BY <1>1, <1>12, <1>23 DEF Sizing
  <2>3. PICK o \in Nat : o = SumLengths(x)
    BY <2>1
  <2>4. f.size = o /\ SumLengths(y) = o + n
    BY <2>1, <2>2, <2>3
  <2>5. g.size = f.size + n
    BY <1>4 DEF Filled
  <2>6. g.size = SumLengths(g.extents) + Len(Pending(md, e, g))
    BY <1>6, <1>12, <1>23, <2>4, <2>5
  <2>7. StoredIn(md, d, f) \in Seq(Byte)
    BY <1>1 DEF Sizing
  <2>8. StoredIn(md, e, g) \in Seq(Byte)
    BY <1>4, <1>29, <2>7, ConcatProperties
  <2>9. Begins(m.extents, y)
    BY <1>2, <1>21, <2>2
  <2> QED BY <1>12, <2>2, <2>6, <2>8, <2>9 DEF Sizing
<1>31. Placement(md, v, g)
  <2>1. g.start = v[z] /\ g.active = (IF CapacityLeft(v, z) = 0 THEN NoZone ELSE z)
    BY <1>4 DEF Filled
  <2>2. CapacityLeft(v, z) >= 0 /\ CapacityLeft(v, z) \in Int
    <3>1. v[z] \in Int /\ v[z] <= Start(z) + ZoneCap /\ Start(z) \in Nat /\ ZoneCap \in Nat
      BY <1>4, PointerFacts, Constants
    <3> QED BY <3>1 DEF CapacityLeft
  <2>3. Opened(md, v, g)
    BY <1>4, <2>1, <2>2 DEF Opened
  <2>4. g.active # NoZone => Clear(h, y, g.start, v[g.active])
    <3>1. ASSUME g.active # NoZone PROVE Clear(h, y, g.start, v[g.active])
      <4>1. g.start = k /\ v[g.active] = k
        BY <1>7, <2>1, <3>1
      <4>2. k..(k - 1) = {}
        BY <1>6
      <4>3. Clear(h, y, k, k)
        BY <4>2 DEF Clear
      <4> QED BY <4>1, <4>3
    <3> QED BY <3>1
  <2> QED BY <1>7, <1>12, <1>21, <2>3, <2>4 DEF Placement
<1>32. g \in Files
  BY <1>4 DEF Filled
<1>33. Laid(md, e, v, g, m)
  BY <1>1, <1>4, <1>30, <1>31, <1>32 DEF Laid
<1> QED BY <1>29, <1>33

(* The headers of a sparse file lead over one segment more.                 *)
LEMMA ChainGrows ==
  ASSUME NEW md, NEW d, NEW w, NEW f, NEW m, NEW e, NEW v, NEW z, NEW c, NEW g, NEW b, NEW n,
         NEW q, Flushes(md, d, w, f, m, e, v, z, c, g, b, n, q), md = "sparse",
         Chain(d, m.start, w[z], Len(m.extents), f.extents)
  PROVE  Chain(e, m.start, v[z], Len(m.extents), g.extents)
<1>1. /\ f \in Files /\ m \in Metas /\ Pointers(w) /\ d \in [Address -> Cell]
      /\ Placement(md, w, f) /\ Sizing(md, d, f, m)
  BY DEF Flushes, Laid
<1>2. PICK x, y, o : x = f.extents /\ y = g.extents /\ o = m.start /\ x \in Seq(Ext)
  BY <1>1, FieldFacts
<1>3. PICK h, a, j : Placing(md, w, f, v, z, n, q, h, a, j)
  BY FlushPlace
<1>4. Grown(d, w, e, v) /\ z \in Zone /\ Filled(md, f, v, z, n, g)
  BY DEF Flushes, Wrote
<1>5. /\ h \in Nat /\ n \in Nat /\ n > 0 /\ q \in Nat /\ a \in Int /\ j \in Int
      /\ j = a + (h + (n + q)) /\ j = a + RoundUp(n + h)
  BY <1>3 DEF Placing
<1>6. h = H /\ a = w[z] /\ a = f.start /\ j = v[z] /\ e[a] = Header(n)
  <2>1. h = Hs(md) /\ a = w[z] /\ a = f.start /\ j = v[z]
    BY <1>3 DEF Placing
  <2>2. Hs(md) = H
    BY HsFacts
  <2>3. e[a] = Header(n)
    BY <1>3, FlushBytes
  <2> QED BY <2>1, <2>2, <2>3
<1>7. a < j
  BY <1>5
<1>8. PICK k \in Nat, l \in Nat : k = Len(m.extents) /\ l = Len(x) /\ k <= l
  <2>1. m.extents \in Seq(Ext) /\ Len(m.extents) <= Len(x)
    BY <1>1, <1>2, FieldFacts DEF Sizing, Begins
  <2> QED BY <1>2, <2>1, LenProperties
<1>9. PICK i : i = Extent(a + h, n)
  OBVIOUS
<1>10. i \in Ext /\ i.start = a + h /\ i.length = n
  BY <1>5, <1>9, ExtentFacts
<1>11. y = Append(x, i)
  BY <1>2, <1>3, <1>4, <1>9 DEF Filled, Placing
<1>12. Len(y) = l + 1 /\ y[l + 1] = i /\ \A s \in 1..l : y[s] = x[s]
  BY <1>2, <1>8, <1>10, <1>11, AppendProperties
<1>13. \A s \in (k + 1)..l : Link(d, o, a, k, x, s)
  BY <1>2, <1>6, <1>8 DEF Chain
<1>14. SegmentAt(o, k, x, l + 1) = a
  BY <1>2, <1>6, <1>8 DEF Chain
<1>15. ASSUME NEW s \in (k + 1)..(l + 1) PROVE SegmentAt(o, k, y, s) = SegmentAt(o, k, x, s)
  <2>1. CASE s = k + 1
    BY <2>1 DEF SegmentAt
  <2>2. CASE s # k + 1
    <3>1. s - 1 \in 1..l
      BY <2>2
    <3>2. y[s - 1] = x[s - 1]
      BY <1>12, <3>1
    <3> QED BY <2>2, <3>2 DEF SegmentAt
  <2> QED BY <2>1, <2>2
<1>16. ASSUME NEW s \in (k + 1)..l PROVE Link(e, o, j, k, y, s)
  <2>1. s \in 1..l /\ s \in (k + 1)..(l + 1)
    OBVIOUS
  <2>2. PICK t : t = SegmentAt(o, k, x, s)
    OBVIOUS
  <2>3. x[s].start - H = t /\ t < a /\ d[t] = Header(x[s].length)
    BY <1>13, <2>2 DEF Link
  <2>4. t \in Int
    BY <1>2, <1>8, <2>1, <2>3, ExtFacts, Constants, SMTT(40)
  <2>5. e[t] = d[t]
    <3>1. Sound(h, w, x) /\ s \in DOMAIN x
      BY <1>1, <1>2, <1>3, <1>8, <2>1, LenProperties DEF Placement, Placing
    <3>2. \A r \in Span(h, x[s]) : r \in Address /\ Written(w, r)
      BY <1>1, <1>2, <1>5, <3>1, SoundFacts
    <3>3. t \in Span(h, x[s])
      <4>1. PICK r \in Int, u \in Nat : r = x[s].start /\ u = x[s].length /\ u > 0
        BY <1>2, <1>8, <2>1, ExtFacts
      <4>2. t = r - h /\ t \in (r - h)..(r + u - 1)
        <5>1. t = r - h
          BY <1>6, <2>3, <4>1
        <5>2. PICK hn \in Nat : hn = h
          BY <1>5
        <5>3. r - hn \in (r - hn)..(r + u - 1)
          BY <4>1, SMTT(40)
        <5> QED BY <5>1, <5>2, <5>3
      <4> QED BY <4>1, <4>2 DEF Span
    <3> QED BY <1>4, <3>2, <3>3 DEF Grown
  <2>6. t < j
    BY <1>5, <1>7, <2>3, <2>4
  <2>7. SegmentAt(o, k, y, s) = t /\ y[s] = x[s]
    BY <1>12, <1>15, <2>1, <2>2
  <2> QED BY <2>3, <2>5, <2>6, <2>7 DEF Link
<1>17. Link(e, o, j, k, y, l + 1)
  <2>1. SegmentAt(o, k, y, l + 1) = a
    <3>1. l + 1 \in (k + 1)..(l + 1)
      BY <1>8
    <3> QED BY <1>14, <1>15, <3>1
  <2>2. i.start - H = a
    BY <1>5, <1>6, <1>10
  <2> QED BY <1>6, <1>7, <1>10, <1>12, <2>1, <2>2 DEF Link
<1>18. ASSUME NEW s \in (k + 1)..Len(y) PROVE Link(e, o, j, k, y, s)
  <2>1. s \in (k + 1)..l \/ s = l + 1
    BY <1>8, <1>12
  <2> QED BY <1>16, <1>17, <2>1
<1>19. SegmentAt(o, k, y, Len(y) + 1) = j
  <2>1. Len(y) + 1 # k + 1 /\ (Len(y) + 1) - 1 = l + 1
    BY <1>8, <1>12
  <2>2. NextSegment(i.start - H, i.length) = j
    <3>1. i.start - H = a
      BY <1>5, <1>6, <1>10
    <3> QED BY <1>5, <1>6, <1>10, <3>1 DEF NextSegment
  <2> QED BY <1>12, <2>1, <2>2 DEF SegmentAt
<1>20. Chain(e, o, j, k, y)
  BY <1>18, <1>19 DEF Chain
<1> QED BY <1>2, <1>6, <1>8, <1>20

(* Recovery finds the segment, and padding behind it if it may.             *)
LEMMA FlushRecovers ==
  ASSUME NEW md, NEW d, NEW w, NEW f, NEW m, NEW e, NEW v, NEW z, NEW c, NEW g, NEW b, NEW n,
         NEW q, NEW pad, Flushes(md, d, w, f, m, e, v, z, c, g, b, n, q),
         Recovers(md, d, w, f, m, <<>>, FALSE), md = "sparse" \/ q = 0 \/ pad
  PROVE  Recovers(md, e, v, g, m, <<>>, pad)
<1>1. /\ Laid(md, d, w, f, m) /\ Wrote(d, w, e, v, z, c) /\ Grown(d, w, e, v) /\ z \in Zone
      /\ z # NoZone /\ f.active = z /\ Filled(md, f, v, z, n, g) /\ IsSegment(md, n, b, q, c)
      /\ n \in Nat /\ q \in Nat /\ b \in Seq(Int)
  BY ZoneFacts, SeqInt DEF Flushes, Wrote, IsSegment
<1>2. Follows(f, g, z)
  BY <1>1 DEF Follows, Filled
<1>3. CASE md # "sparse"
  <2>1. c \in Seq(Int) /\ c = b \o Zeros(q)
    BY <1>1, <1>3, SegmentCells
  <2>2. q \in 0..(B - 1)
    <3>1. PICK h \in Nat : h = Hs(md) /\ h = 0
      BY <1>3, HsFacts
    <3>2. PICK r \in Int : r = RoundUp(n + h) /\ r < n + h + B
      BY <1>1, <3>1, RoundUpFacts
    <3>3. q = r - n - h /\ B \in Nat
      BY <3>1, <3>2, Constants DEF Flushes
    <3> QED BY <1>1, <3>2, <3>3
  <2>3. Carries(md, d, f, e, g, c, b, q, pad)
    BY <1>3, <2>1, FlushLaid DEF Carries
  <2>4. Storing(md, d, w, f, m, e, v, z, c, g, b, q, pad)
    BY <1>1, <1>2, <2>1, <2>2, <2>3 DEF Storing
  <2> QED BY <2>4, RecoversGrows
<1>4. CASE md = "sparse"
  <2>1. m.start # NoExtent
    BY <1>1 DEF Recovers
  <2>2. PICK y \in Zone : Home(md, w, f, m, y) /\ Reads(md, d, w, f, m, y, <<>>, FALSE)
    BY <2>1 DEF Recovers
  <2>3. y = z
    BY <1>1, <2>2 DEF Home
  <2>4. Home(md, w, f, m, z) /\ Chain(d, m.start, w[z], Len(m.extents), f.extents)
    BY <1>4, <2>2, <2>3 DEF Reads
  <2>5. g.active = f.active \/ g.active = NoZone
    BY <1>2 DEF Follows
  <2>6. Home(md, v, g, m, z)
    BY <1>1, <2>4, <2>5, HomeGrows
  <2>7. Chain(e, m.start, v[z], Len(m.extents), g.extents)
    BY <1>4, <2>4, ChainGrows
  <2> QED BY <1>1, <1>4, <2>1, <2>6, <2>7 DEF Recovers, Reads
<1> QED BY <1>3, <1>4

(* Sequences of numbers that agree are equal.                               *)
Alike(s, t) ==
  s \in Seq(Int) /\ t \in Seq(Int) /\ Len(s) = Len(t) /\ \A i \in 1..Len(s) : s[i] = t[i]
(* Sequences that agree everywhere are equal.                               *)
LEMMA AlikeEqual ==
  ASSUME NEW s, NEW t, Alike(s, t)
  PROVE  s = t
<1>1. PICK V : V = Int
  OBVIOUS
<1>2. s \in Seq(V) /\ t \in Seq(V) /\ Len(s) = Len(t) /\ \A i \in 1..Len(s) : s[i] = t[i]
  BY <1>1 DEF Alike
<1> QED BY <1>2, SeqEqual

(* A part of a sequence of numbers.                                         *)
Within(s, m, n) == s \in Seq(Int) /\ m \in Nat /\ m > 0 /\ n \in Nat /\ m <= n + 1 /\ n <= Len(s)
IsPart(r, s, m, n) ==
  r \in Seq(Int) /\ Len(r) = n - m + 1 /\ \A i \in 1..(n - m + 1) : r[i] = s[m + i - 1]
(* What SubSeq returns.                                                     *)
LEMMA PartFacts ==
  ASSUME NEW s, NEW m, NEW n, Within(s, m, n)
  PROVE  IsPart(SubSeq(s, m, n), s, m, n)
<1>1. PICK j \in Nat, k \in Nat, l \in Nat : j = m /\ k = n /\ l = Len(s)
  BY LenProperties DEF Within
<1>2. s \in Seq(Int) /\ j > 0 /\ j <= k + 1 /\ k <= l
  BY <1>1 DEF Within
<1>3. \A i \in 1..l : s[i] \in Int
  BY <1>1, <1>2, ElementOfSeq
<1>4. \A i \in j..k : s[i] \in Int
  BY <1>2, <1>3
<1>5. PICK V : V = Int
  OBVIOUS
<1>6. \A i \in j..k : s[i] \in V
  BY <1>4, <1>5
<1>7. /\ SubSeq(s, j, k) \in Seq(V) /\ Len(SubSeq(s, j, k)) = IF j <= k THEN k - j + 1 ELSE 0
      /\ \A i \in 1..(k - j + 1) : SubSeq(s, j, k)[i] = s[j + i - 1]
  BY <1>6, SubSeqProperties
<1>8. (IF j <= k THEN k - j + 1 ELSE 0) = k - j + 1
  BY <1>2
<1>9. IsPart(SubSeq(s, j, k), s, j, k)
  BY <1>5, <1>7, <1>8 DEF IsPart
<1> QED BY <1>1, <1>9

(* All of a sequence.                                                       *)
LEMMA PartWhole ==
  ASSUME NEW s, s \in Seq(Int)
  PROVE  SubSeq(s, 1, Len(s)) = s
<1>1. PICK m \in Nat : m = Len(s)
  BY LenProperties
<1>2. Within(s, 1, m)
  BY <1>1 DEF Within
<1>3. PICK r : r = SubSeq(s, 1, m)
  OBVIOUS
<1>4. r \in Seq(Int) /\ Len(r) = m - 1 + 1 /\ \A i \in 1..(m - 1 + 1) : r[i] = s[1 + i - 1]
  <2>1. IsPart(SubSeq(s, 1, m), s, 1, m)
    BY <1>2, PartFacts
  <2>2. IsPart(r, s, 1, m)
    BY <1>3, <2>1
  <2> QED BY <2>2 DEF IsPart
<1>5. m - 1 + 1 = m /\ \A i \in 1..m : 1 + i - 1 = i
  OBVIOUS
<1>6. Alike(r, s)
  BY <1>1, <1>4, <1>5 DEF Alike
<1> QED BY <1>1, <1>3, <1>6, AlikeEqual

(* A sequence cut in two.                                                   *)
LEMMA JointParts ==
  ASSUME NEW s, NEW t, NEW u, Joint(s, t, u)
  PROVE  /\ SubSeq(u, 1, Len(s)) = s /\ SubSeq(u, Len(s) + 1, Len(u)) = t
         /\ IsPrefix(s, u)
<1>1. PICK m, n, l : m = Len(s) /\ n = Len(t) /\ l = Len(u)
  OBVIOUS
<1>2. /\ u \in Seq(Int) /\ m \in Nat /\ n \in Nat /\ l = m + n
      /\ (\A i \in 1..m : u[i] = s[i]) /\ (\A i \in 1..n : u[m + i] = t[i])
      /\ s \in Seq(Int) /\ t \in Seq(Int)
  <2>1. s \in Seq(Int) /\ t \in Seq(Int)
    BY DEF Joint
  <2>2. /\ u \in Seq(Int) /\ Len(s) \in Nat /\ Len(t) \in Nat /\ Len(u) = Len(s) + Len(t)
        /\ \A i \in 1..Len(s) : u[i] = s[i]
        /\ \A i \in 1..Len(t) : u[Len(s) + i] = t[i]
    BY JointFacts
  <2> QED BY <1>1, <2>1, <2>2
<1>3. PICK j \in Nat, k \in Nat : j = m /\ k = n
  BY <1>2
<1>4. Within(u, 1, m) /\ Within(u, m + 1, l)
  <2>1. l \in Nat /\ m + 1 \in Nat /\ 1 <= m + 1 /\ m + 1 <= l + 1 /\ m <= l /\ m + 1 > 0
    <3>1. l = j + k /\ j + 1 <= (j + k) + 1 /\ j <= j + k /\ 1 <= j + 1
      BY <1>2, <1>3
    <3> QED BY <1>3, <3>1
  <2> QED BY <1>1, <1>2, <2>1 DEF Within
<1>5. PICK p : p = SubSeq(u, 1, m)
  OBVIOUS
<1>6. p \in Seq(Int) /\ Len(p) = m - 1 + 1 /\ \A i \in 1..(m - 1 + 1) : p[i] = u[1 + i - 1]
  <2>1. IsPart(SubSeq(u, 1, m), u, 1, m)
    BY <1>4, PartFacts
  <2>2. IsPart(p, u, 1, m)
    BY <1>5, <2>1
  <2> QED BY <2>2 DEF IsPart
<1>7. m - 1 + 1 = m /\ \A i \in 1..m : 1 + i - 1 = i
  <2>1. j - 1 + 1 = j /\ \A i \in 1..j : 1 + i - 1 = i
    OBVIOUS
  <2> QED BY <1>3, <2>1
<1>8. Alike(p, s)
  BY <1>1, <1>2, <1>6, <1>7 DEF Alike
<1>9. PICK q : q = SubSeq(u, m + 1, l)
  OBVIOUS
<1>10. /\ q \in Seq(Int) /\ Len(q) = l - (m + 1) + 1
       /\ \A i \in 1..(l - (m + 1) + 1) : q[i] = u[m + 1 + i - 1]
  <2>1. IsPart(SubSeq(u, m + 1, l), u, m + 1, l)
    BY <1>4, PartFacts
  <2>2. IsPart(q, u, m + 1, l)
    BY <1>9, <2>1
  <2> QED BY <2>2 DEF IsPart
<1>11. l - (m + 1) + 1 = n /\ \A i \in 1..n : m + 1 + i - 1 = m + i
  <2>1. (j + k) - (j + 1) + 1 = k /\ \A i \in 1..k : j + 1 + i - 1 = j + i
    OBVIOUS
  <2> QED BY <1>2, <1>3, <2>1
<1>12. Alike(q, t)
  <2>1. \A i \in 1..n : q[i] = t[i]
    BY <1>2, <1>10, <1>11
  <2> QED BY <1>1, <1>2, <1>10, <1>11, <2>1 DEF Alike
<1>13. p = s /\ q = t
  BY <1>8, <1>12, AlikeEqual
<1>14. IsPrefix(s, u)
  <2>1. Len(s) <= Len(u)
    <3>1. j <= j + k
      OBVIOUS
    <3> QED BY <1>1, <1>2, <1>3, <3>1
  <2>2. SubSeq(s, 1, Len(s)) = s
    BY <1>2, PartWhole
  <2> QED BY <1>1, <1>5, <1>13, <2>1, <2>2 DEF IsPrefix
<1> QED BY <1>1, <1>5, <1>9, <1>13, <1>14

(* The first n numbers of s are the first m and the rest of them.           *)
Cut(s, m, n) == s \in Seq(Int) /\ m \in Nat /\ n \in Nat /\ m <= n /\ n <= Len(s)
Halves(s, m, n) ==
  /\ Joint(SubSeq(s, 1, m), SubSeq(s, m + 1, n), SubSeq(s, 1, n))
  /\ Len(SubSeq(s, 1, m)) = m /\ Len(SubSeq(s, m + 1, n)) = n - m /\ Len(SubSeq(s, 1, n)) = n
(* A sequence cut in two is put together again.                             *)
LEMMA CutFacts ==
  ASSUME NEW s, NEW m, NEW n, Cut(s, m, n)
  PROVE  Halves(s, m, n)
<1>1. PICK j \in Nat, k \in Nat, l \in Nat : j = m /\ k = n /\ l = Len(s) /\ j <= k /\ k <= l
  BY LenProperties DEF Cut
<1>2. Within(s, 1, j) /\ Within(s, j + 1, k) /\ Within(s, 1, k)
  <2>1. s \in Seq(Int)
    BY DEF Cut
  <2> QED BY <1>1, <2>1 DEF Within
<1>3. PICK p, q, r : p = SubSeq(s, 1, j) /\ q = SubSeq(s, j + 1, k) /\ r = SubSeq(s, 1, k)
  OBVIOUS
<1>4. p \in Seq(Int) /\ Len(p) = j - 1 + 1 /\ \A i \in 1..(j - 1 + 1) : p[i] = s[1 + i - 1]
  <2>1. IsPart(SubSeq(s, 1, j), s, 1, j)
    BY <1>2, PartFacts
  <2>2. IsPart(p, s, 1, j)
    BY <1>3, <2>1
  <2> QED BY <2>2 DEF IsPart
<1>5. /\ q \in Seq(Int) /\ Len(q) = k - (j + 1) + 1
      /\ \A i \in 1..(k - (j + 1) + 1) : q[i] = s[j + 1 + i - 1]
  <2>1. IsPart(SubSeq(s, j + 1, k), s, j + 1, k)
    BY <1>2, PartFacts
  <2>2. IsPart(q, s, j + 1, k)
    BY <1>3, <2>1
  <2> QED BY <2>2 DEF IsPart
<1>6. r \in Seq(Int) /\ Len(r) = k - 1 + 1 /\ \A i \in 1..(k - 1 + 1) : r[i] = s[1 + i - 1]
  <2>1. IsPart(SubSeq(s, 1, k), s, 1, k)
    BY <1>2, PartFacts
  <2>2. IsPart(r, s, 1, k)
    BY <1>3, <2>1
  <2> QED BY <2>2 DEF IsPart
<1>7. PICK o \in Nat : o = k - j
  BY <1>1
<1>8. j - 1 + 1 = j /\ k - (j + 1) + 1 = o /\ k - 1 + 1 = k /\ k = j + o
  BY <1>7
<1>9. Len(p) = j /\ Len(q) = o /\ Len(r) = k
  BY <1>4, <1>5, <1>6, <1>8
<1>10. PICK u : u = p \o q
  OBVIOUS
<1>11. Joint(p, q, u)
  BY <1>4, <1>5, <1>10 DEF Joint
<1>12. /\ u \in Seq(Int) /\ Len(u) = Len(p) + Len(q)
       /\ \A i \in 1..Len(p) : u[i] = p[i]
       /\ \A i \in 1..Len(q) : u[Len(p) + i] = q[i]
  BY <1>11, JointFacts
<1>13. /\ Len(u) = k /\ (\A i \in 1..j : u[i] = p[i])
       /\ \A i \in 1..o : u[j + i] = q[i]
  BY <1>8, <1>9, <1>12
<1>14. ASSUME NEW i \in 1..k PROVE u[i] = r[i]
  <2>0. 1 + i - 1 = i
    OBVIOUS
  <2>1. r[i] = s[i]
    BY <1>6, <1>8, <2>0
  <2>2. CASE i \in 1..j
    BY <1>4, <1>8, <1>13, <2>0, <2>1, <2>2
  <2>3. CASE i \notin 1..j
    <3>1. PICK h \in 1..o : i = j + h /\ j + 1 + h - 1 = i
      <4>1. i - j \in 1..o /\ i = j + (i - j) /\ j + 1 + (i - j) - 1 = i
        BY <1>8, <2>3
      <4> QED BY <4>1
    <3>2. u[i] = q[h]
      BY <1>13, <3>1
    <3>3. q[h] = s[i]
      BY <1>5, <1>8, <3>1
    <3> QED BY <2>1, <3>2, <3>3
  <2> QED BY <2>2, <2>3
<1>15. Alike(u, r)
  BY <1>6, <1>9, <1>12, <1>13, <1>14 DEF Alike
<1>16. u = r
  BY <1>15, AlikeEqual
<1>17. n - m = o
  BY <1>1, <1>7
<1> QED BY <1>1, <1>3, <1>9, <1>11, <1>16, <1>17 DEF Halves

(* The same for all of s.                                                   *)
LEMMA CutWhole ==
  ASSUME NEW s, NEW m, Cut(s, m, Len(s))
  PROVE  Halves(s, m, Len(s)) /\ Joint(SubSeq(s, 1, m), SubSeq(s, m + 1, Len(s)), s)
<1>1. s \in Seq(Int)
  BY DEF Cut
<1>2. Halves(s, m, Len(s))
  BY CutFacts
<1>3. SubSeq(s, 1, Len(s)) = s
  BY <1>1, PartWhole
<1> QED BY <1>2, <1>3 DEF Halves

(* Parts and joints of bytes are bytes.                                     *)
LEMMA ByteParts ==
  ASSUME NEW s \in Seq(Byte), NEW m, NEW n, Within(s, m, n)
  PROVE  SubSeq(s, m, n) \in Seq(Byte)
<1>1. PICK j \in Nat, k \in Nat, l \in Nat : j = m /\ k = n /\ l = Len(s) /\ j > 0 /\ k <= l
  BY LenProperties DEF Within
<1>2. \A i \in 1..l : s[i] \in Byte
  BY <1>1, ElementOfSeq
<1>3. \A i \in j..k : s[i] \in Byte
  BY <1>1, <1>2
<1>4. SubSeq(s, j, k) \in Seq(Byte)
  BY <1>3, SubSeqProperties
<1> QED BY <1>1, <1>4

(* A Truncate of the direct file f to n bytes, and what it leaves.          *)
Cutting(md, d, w, f, m, n, g) ==
  /\ Laid(md, d, w, f, m) /\ md = "direct" /\ f.active # NoZone /\ Ends(w, f)
  /\ n \in Nat /\ n < f.size /\ f.size - n < B /\ n >= f.filepos
  /\ g = [f EXCEPT !.size = n]
CutTo(f, n, g) ==
  /\ g \in Files /\ g.size = n /\ g.extents = f.extents /\ g.start = f.start
  /\ g.filepos = f.filepos /\ g.active = f.active

(* A Truncate cuts the pending data only, and not all of it.                *)
LEMMA TruncateFacts ==
  ASSUME NEW md, NEW d, NEW w, NEW f, NEW m, NEW n, NEW g, Cutting(md, d, w, f, m, n, g)
  PROVE  /\ Laid(md, d, w, g, m) /\ CutTo(f, n, g) /\ g.filepos < g.size
         /\ \E t \in Seq(Byte) : Joint(StoredIn(md, d, g), t, StoredIn(md, d, f))
<1>1. /\ f \in Files /\ m \in Metas /\ Pointers(w) /\ d \in [Address -> Cell] /\ md \in Modes
      /\ Placement(md, w, f) /\ Sizing(md, d, f, m) /\ Laid(md, d, w, f, m)
  BY DEF Cutting, Laid
<1>2. /\ f.extents \in Seq(Ext) /\ f.size \in Nat /\ f.start \in Int /\ f.filepos \in Nat
      /\ f.active \in Zone \cup {NoZone} /\ m.extents \in Seq(Ext) /\ m.start \in Int
  BY <1>1, FieldFacts
<1>3. md = "direct" /\ f.active # NoZone /\ Ends(w, f) /\ n \in Nat
  BY DEF Cutting
<1>4. PICK z \in Zone : z = f.active
  BY <1>2, <1>3
<1>5. PICK s \in Nat, p \in Nat, r \in Nat, a \in Int, e \in Int :
        s = f.size /\ p = f.filepos /\ r = n /\ a = f.start /\ e = w[z]
  BY <1>1, <1>2, <1>3, PointerFacts
<1>6. r < s /\ s - r < B /\ r >= p
  BY <1>5 DEF Cutting
<1>7. a + (s - p) = e
  BY <1>3, <1>4, <1>5 DEF Ends
<1>8. Start(z) <= a /\ Aligned(a) /\ Aligned(e)
  <2>1. Opened(md, w, f) /\ Aligned(w[z])
    BY <1>1, PointerFacts DEF Placement
  <2> QED BY <1>3, <1>4, <1>5, <2>1 DEF Opened
<1>9. p < r
  <2>1. Aligned(e - a) /\ e - a = s - p
    BY <1>7, <1>8, AlignedSum
  <2>2. s - p \in Int /\ s - p > 0
    BY <1>6
  <2>3. s - p >= B /\ B \in Nat
    BY <2>1, <2>2, AlignedZero, Constants
  <2> QED BY <1>6, <2>3
<1>10. CutTo(f, n, g)
  <2>1. g = [f EXCEPT !.size = n]
    BY DEF Cutting
  <2> QED BY <1>1, <1>3, <2>1 DEF Files, CutTo
<1>11. PICK j \in Nat, k \in Nat, l \in Nat, b \in Int :
         j = r - p /\ k = s - r /\ l = s - p /\ b = a + j
  BY <1>6
<1>12. l = j + k /\ e = a + l
  BY <1>6, <1>7, <1>11
<1>13. Under(w, a, e)
  <2>1. e <= w[z]
    BY <1>5
  <2> QED BY <1>8, <2>1 DEF Under
<1>14. AllIn(d, a, l, Cell)
  <2>1. Grown(d, w, d, w)
    BY <1>1, GrownSelf
  <2> QED BY <1>12, <1>13, <2>1, GrownCells
<1>15. AllIn(d, a, l, Int)
  BY <1>14, SeqInt DEF AllIn
<1>16. /\ Cells(d, a, l) = Cells(d, a, j) \o Cells(d, b, k)
       /\ Cells(d, a, j) \in Seq(Int) /\ Cells(d, b, k) \in Seq(Int)
  BY <1>11, <1>12, <1>15, CellsSplitInt
<1>17. AllIn(d, a, j, Int)
  BY <1>12, <1>15 DEF AllIn
<1>18. Len(Cells(d, a, j)) = j
  BY CellsCount
<1>19. Pending(md, d, f) = Cells(d, a, l) /\ Pending(md, d, g) = Cells(d, a, j)
  <2>1. g.active # NoZone /\ g.start = a /\ g.size = r /\ g.filepos = p
    BY <1>3, <1>5, <1>10 DEF CutTo
  <2>2. f.size - f.filepos = l /\ g.size - g.filepos = j
    BY <1>5, <1>11, <2>1
  <2> QED BY <1>3, <1>5, <2>1, <2>2 DEF Pending
<1>20. PICK x, u, t : /\ x = Bytes(d, f.extents) /\ u = Cells(d, a, j) /\ t = Cells(d, b, k)
                      /\ x \in Seq(Int) /\ u \in Seq(Int) /\ t \in Seq(Int)
  BY <1>1, <1>16, StoredFacts
<1>21. StoredIn(md, d, f) = x \o (u \o t) /\ StoredIn(md, d, g) = x \o u
  <2>1. g.extents = f.extents
    BY <1>10 DEF CutTo
  <2> QED BY <1>16, <1>19, <1>20, <2>1 DEF StoredIn
<1>22. PICK y : y = x \o u /\ Joint(x, u, y)
  BY <1>20 DEF Joint
<1>23. y \in Seq(Int)
  BY <1>22, JointFacts
<1>24. (x \o u) \o t = x \o (u \o t)
  BY <1>20, Assoc, ZenonT(60)
<1>25. PICK o : o = StoredIn(md, d, f) /\ o \in Seq(Byte) /\ Joint(y, t, o)
  <2>1. StoredIn(md, d, f) \in Seq(Byte)
    BY <1>1 DEF Sizing
  <2>2. StoredIn(md, d, f) = y \o t
    BY <1>21, <1>22, <1>24
  <2> QED BY <1>20, <1>23, <2>1, <2>2 DEF Joint
<1>26. y \in Seq(Byte) /\ t \in Seq(Byte)
  <2>1. SubSeq(o, 1, Len(y)) = y /\ SubSeq(o, Len(y) + 1, Len(o)) = t
    BY <1>25, JointParts
  <2>2. Len(y) \in Nat /\ Len(t) \in Nat /\ Len(o) = Len(y) + Len(t) /\ o \in Seq(Int)
    BY <1>25, JointFacts
  <2>3. Within(o, 1, Len(y)) /\ Within(o, Len(y) + 1, Len(o))
    BY <2>2 DEF Within
  <2>4. SubSeq(o, 1, Len(y)) \in Seq(Byte)
    BY <1>25, <2>3, ByteParts
  <2>5. SubSeq(o, Len(y) + 1, Len(o)) \in Seq(Byte)
    BY <1>25, <2>3, ByteParts
  <2> QED BY <2>1, <2>4, <2>5
<1>27. Joint(StoredIn(md, d, g), t, StoredIn(md, d, f))
  BY <1>21, <1>22, <1>25
<1>28. Sizing(md, d, g, m)
  <2>1. s = SumLengths(f.extents) + Len(Pending(md, d, f))
    BY <1>1, <1>5 DEF Sizing
  <2>2. AllIn(d, a, l, Int) /\ Len(Cells(d, a, l)) = l
    BY <1>15, CellsFacts
  <2>3. PICK q \in Nat : q = SumLengths(f.extents)
    BY <1>2, SumLengthsFacts
  <2>4. s = q + l
    BY <1>19, <2>1, <2>2, <2>3
  <2>5. r = q + j
    BY <1>11, <2>4
  <2>6. g.size = SumLengths(g.extents) + Len(Pending(md, d, g)) /\ g.extents = f.extents
    BY <1>5, <1>10, <1>18, <1>19, <2>3, <2>5 DEF CutTo
  <2>7. StoredIn(md, d, g) \in Seq(Byte)
    BY <1>21, <1>22, <1>26
  <2> QED BY <1>1, <2>6, <2>7 DEF Sizing
<1>29. Placement(md, w, g)
  <2>1. g.active = z /\ g.start = a /\ g.filepos = p /\ g.size = r /\ g.extents = f.extents
    BY <1>4, <1>5, <1>10 DEF CutTo
  <2>2. a + (r - p) <= e
    BY <1>6, <1>7
  <2>3. Opened(md, w, g)
    <3>1. g.start + (g.size - g.filepos) <= w[g.active] /\ g.filepos <= g.size
      BY <1>5, <1>6, <2>1, <2>2
    <3> QED BY <1>3, <1>8, <2>1, <3>1 DEF Opened
  <2> QED BY <1>1, <1>3, <1>4, <1>5, <2>1, <2>3 DEF Placement
<1>30. Laid(md, d, w, g, m)
  BY <1>1, <1>10, <1>28, <1>29 DEF Laid, CutTo
<1>31. g.filepos < g.size
  BY <1>5, <1>9, <1>10 DEF CutTo
<1> QED BY <1>10, <1>26, <1>27, <1>30, <1>31

-----------------------------------------------------------------------------
(* Migration                                                                *)

(* Two runs of cells, one behind the other.                                 *)
Consecutive(V, d, a, b, m, n, k) ==
  /\ a \in Int /\ b \in Int /\ m \in Nat /\ n \in Nat /\ k \in Nat
  /\ b = a + m /\ k = m + n /\ AllIn(d, a, k, V)
(* Consecutive cells are read in two parts.                                 *)
LEMMA CellsTwo ==
  ASSUME NEW V, NEW d, NEW a, NEW b, NEW m, NEW n, NEW k, Consecutive(V, d, a, b, m, n, k)
  PROVE  /\ Cells(d, a, k) = Cells(d, a, m) \o Cells(d, b, n)
         /\ Cells(d, a, m) \in Seq(V) /\ Cells(d, b, n) \in Seq(V)
<1>1. PICK a1 \in Int, b1 \in Int, m1 \in Nat, n1 \in Nat, k1 \in Nat :
        a1 = a /\ b1 = b /\ m1 = m /\ n1 = n /\ k1 = k
  BY DEF Consecutive
<1>2. b1 = a1 + m1 /\ k1 = m1 + n1 /\ AllIn(d, a1, k1, V)
  BY <1>1 DEF Consecutive
<1>3. /\ Cells(d, a1, k1) = Cells(d, a1, m1) \o Cells(d, b1, n1)
      /\ Cells(d, a1, m1) \in Seq(V) /\ Cells(d, b1, n1) \in Seq(V)
  BY <1>2, CellsSplit, SMTT(40)
<1> QED BY <1>1, <1>3

(* The recursion of MigrateData.                                            *)
CopyEntry(f, d, e, left) ==
  IF left = 0 THEN <<>>
  ELSE Cells(d, e.start + e.length - left, RoundUp(Min2(MigrateStep, left)))
         \o f[left - Min2(MigrateStep, left)]
IsCopy(f, d, e) == f = [left \in 0..e.length |-> CopyEntry(f, d, e, left)]
CopyTable(d, e) == CHOOSE f : IsCopy(f, d, e)

(* One step of the recursion.                                               *)
LEMMA CopyAt ==
  ASSUME NEW d, NEW e, NEW f, IsCopy(f, d, e), NEW i \in 0..e.length
  PROVE  f[i] = CopyEntry(f, d, e, i)
<1>1. PICK g : g = [j \in 0..e.length |-> CopyEntry(f, d, e, j)]
  OBVIOUS
<1>2. f = g
  BY <1>1, Zenon DEF IsCopy
<1>3. g[i] = CopyEntry(f, d, e, i)
  BY <1>1
<1> QED BY <1>2, <1>3, Zenon

(* The blocks of the last `left' bytes of an extent.                        *)
LastBlocks(d, e, left) == Cells(d, e.start + e.length - left, RoundUp(left))

(* They are those of a step and those of the bytes behind it.               *)
LEMMA LastBlocksStep ==
  ASSUME NEW d, NEW e \in Ext, NEW left \in 1..e.length, NEW n, n = Min2(MigrateStep, left)
  PROVE  /\ left - n \in 0..(left - 1)
         /\ LastBlocks(d, e, left)
              = Cells(d, e.start + e.length - left, RoundUp(n)) \o LastBlocks(d, e, left - n)
<1>1. PICK s \in Int, l \in Nat : s = e.start /\ l = e.length
  BY DEF Ext
<1>2. PICK k \in Nat : k = left /\ k >= 1 /\ k <= l
  BY <1>1
<1>3. PICK j \in Int : j = n
  BY <1>2, MinFacts, Constants
<1>4. MigrateStep \in Nat /\ MigrateStep > 0 /\ Aligned(MigrateStep)
  BY Constants
<1>5. j <= k /\ j >= 1 /\ (j = k \/ j = MigrateStep)
  <2>1. j = IF MigrateStep < k THEN MigrateStep ELSE k
    BY <1>2, <1>3 DEF Min2
  <2> QED BY <1>2, <1>4, <2>1
<1>6. PICK a \in Int, b \in Int, i \in Nat : a = s + l - k /\ i = k - j /\ b = s + l - i
  BY <1>5
<1>7. PICK p \in Nat, q \in Nat, r \in Nat :
        p = RoundUp(k) /\ q = RoundUp(j) /\ r = RoundUp(i)
  <2>1. /\ RoundUp(k) \in Int /\ RoundUp(j) \in Int /\ RoundUp(i) \in Int
        /\ k <= RoundUp(k) /\ j <= RoundUp(j) /\ i <= RoundUp(i)
    BY RoundUpFacts
  <2> QED BY <1>5, <2>1
<1>8. p >= k /\ q >= j /\ r >= i /\ Aligned(p) /\ Aligned(q) /\ Aligned(r)
  BY <1>7, RoundUpFacts
<1>9. p = q + r /\ (j = k => r = 0) /\ (j # k => b = a + q)
  <2>1. CASE j = k
    <3>1. i = 0 /\ Aligned(0) /\ p = q
      BY <1>6, <1>7, <2>1, AlignedZero
    <3>2. RoundUp(0) = 0
      BY <3>1, RoundUpFacts
    <3> QED BY <1>7, <2>1, <3>1, <3>2
  <2>2. CASE j # k
    <3>1. j = MigrateStep /\ Aligned(j)
      BY <1>4, <1>5, <2>2
    <3>2. q = j
      BY <1>7, <3>1, RoundUpFacts
    <3>3. p <= j + r
      <4>1. Aligned(j + r) /\ k <= j + r
        BY <1>6, <1>8, <3>1, AlignedSum
      <4> QED BY <1>7, <4>1, RoundUpFacts
    <3>4. r <= p - j
      <4>1. Aligned(p - j) /\ i <= p - j
        BY <1>6, <1>8, <3>1, AlignedSum
      <4> QED BY <1>7, <4>1, RoundUpFacts
    <3> QED BY <1>6, <2>2, <3>2, <3>3, <3>4
  <2> QED BY <2>1, <2>2
<1>10. PICK V : \A c \in Int : d[c] \in V
  <2>1. \A c \in Int : d[c] \in {d[u] : u \in Int}
    OBVIOUS
  <2> QED BY <2>1
<1>11. i \in 0..(k - 1)
  BY <1>5, <1>6, <1>8
<1>12. AllIn(d, a, p, V)
  BY <1>10 DEF AllIn
<1>13. Cells(d, a, p) = Cells(d, a, q) \o Cells(d, b, r)
  <2>1. CASE j = k
    <3>1. r = 0 /\ q = p
      BY <1>9, <2>1
    <3>2. Cells(d, b, r) = <<>> /\ Cells(d, a, p) \in Seq(V)
      BY <1>11, <1>12, <3>1, CellsNone, CellsFacts
    <3> QED BY <3>1, <3>2, ConcatEmptySeq
  <2>2. CASE j # k
    <3>1. b = a + q /\ p = q + r
      BY <1>9, <2>2
    <3>2. Consecutive(V, d, a, b, q, r, p)
      BY <1>12, <3>1 DEF Consecutive
    <3> QED BY <3>2, CellsTwo
  <2> QED BY <2>1, <2>2
<1>14. /\ LastBlocks(d, e, left) = Cells(d, a, p) /\ LastBlocks(d, e, i) = Cells(d, b, r)
  BY <1>1, <1>2, <1>6, <1>7 DEF LastBlocks
<1>15. left - n = i
  BY <1>2, <1>3, <1>6
<1> QED BY <1>1, <1>2, <1>3, <1>6, <1>7, <1>11, <1>13, <1>14, <1>15

(* MigrateData copies the blocks of the extent.                             *)
LEMMA CopyFacts ==
  ASSUME NEW d, NEW e \in Ext
  PROVE  CopyTable(d, e)[e.length] = Cells(d, e.start, RoundUp(e.length))
<1>1. PICK s \in Int, l \in Nat : s = e.start /\ l = e.length
  BY DEF Ext
<1> DEFINE F == [left \in 0..l |-> LastBlocks(d, e, left)]
<1>2. ASSUME NEW left \in 0..l PROVE LastBlocks(d, e, left) = CopyEntry(F, d, e, left)
  <2>1. CASE left = 0
    <3>1. RoundUp(0) = 0 /\ s + l - 0 \in Int
      BY AlignedZero, RoundUpFacts
    <3>2. Cells(d, s + l - 0, 0) = <<>>
      BY <3>1, CellsNone
    <3> QED BY <1>1, <2>1, <3>1, <3>2 DEF LastBlocks, CopyEntry
  <2>2. CASE left # 0
    <3>1. PICK n : n = Min2(MigrateStep, left)
      OBVIOUS
    <3>2. left \in 1..e.length
      BY <1>1, <2>2
    <3>3. /\ left - n \in 0..(left - 1)
          /\ LastBlocks(d, e, left)
               = Cells(d, e.start + e.length - left, RoundUp(n)) \o LastBlocks(d, e, left - n)
      BY <3>1, <3>2, LastBlocksStep
    <3>4. F[left - n] = LastBlocks(d, e, left - n)
      <4>1. left - n \in 0..l
        BY <3>3
      <4> QED BY <4>1
    <3> HIDE DEF F
    <3> QED BY <2>2, <3>1, <3>3, <3>4 DEF CopyEntry
  <2> QED BY <2>1, <2>2
<1>3. IsCopy(F, d, e)
  <2>1. F = [left \in 0..l |-> CopyEntry(F, d, e, left)]
    BY <1>2
  <2> HIDE DEF F
  <2> QED BY <1>1, <2>1 DEF IsCopy
<1>4. PICK f : f = CopyTable(d, e) /\ IsCopy(f, d, e)
  BY <1>3 DEF CopyTable
<1> HIDE DEF F
<1> DEFINE W == {i \in Nat : i <= l => f[i] = LastBlocks(d, e, i)}
<1>5. ASSUME NEW i \in Nat, \A j \in 0..(i - 1) : j \in W PROVE i \in W
  <2> SUFFICES ASSUME i <= l PROVE f[i] = LastBlocks(d, e, i)
    OBVIOUS
  <2>1. i \in 0..e.length
    BY <1>1
  <2>2. f[i] = CopyEntry(f, d, e, i)
    BY <1>4, <2>1, CopyAt
  <2>3. CASE i = 0
    <3>1. RoundUp(0) = 0 /\ s + l - 0 \in Int
      BY AlignedZero, RoundUpFacts
    <3>2. Cells(d, s + l - 0, 0) = <<>>
      BY <3>1, CellsNone
    <3> QED BY <1>1, <2>2, <2>3, <3>1, <3>2 DEF LastBlocks, CopyEntry
  <2>4. CASE i # 0
    <3>1. PICK n : n = Min2(MigrateStep, i)
      OBVIOUS
    <3>2. i \in 1..e.length
      BY <1>1, <2>4
    <3>3. /\ i - n \in 0..(i - 1)
          /\ LastBlocks(d, e, i)
               = Cells(d, e.start + e.length - i, RoundUp(n)) \o LastBlocks(d, e, i - n)
      BY <3>1, <3>2, LastBlocksStep
    <3>4. f[i - n] = LastBlocks(d, e, i - n)
      <4>1. i - n \in W /\ i - n <= l
        BY <1>5, <3>3
      <4> QED BY <4>1
    <3> QED BY <2>2, <2>4, <3>1, <3>3, <3>4 DEF CopyEntry
  <2> QED BY <2>3, <2>4
<1>6. \A i \in Nat : i \in W
  <2> HIDE DEF W
  <2> QED BY <1>5, NumberInduction
<1>7. f[l] = LastBlocks(d, e, l)
  BY <1>6
<1>8. s + l - l = s
  OBVIOUS
<1> QED BY <1>1, <1>4, <1>7, <1>8 DEF LastBlocks

(* The same for the model's operator.                                       *)
LEMMA MigrateDataFacts ==
  ASSUME NEW e \in Ext
  PROVE  MigrateData(e) = Cells(dev, e.start, RoundUp(e.length))
<1>1. MigrateData(e) = CopyTable(dev, e)[e.length]
  BY DEF MigrateData, CopyTable, IsCopy, CopyEntry
<1> QED BY <1>1, CopyFacts

(* The blocks c of the i-th extent of the closed file f move to the zone z. *)
Moved(f, i, a, g) ==
  /\ g \in Files /\ g.size = f.size /\ g.start = f.start /\ g.filepos = f.filepos
  /\ g.active = f.active /\ Len(g.extents) = Len(f.extents)
  /\ g.extents[i].start = a /\ g.extents[i].length = f.extents[i].length
  /\ \A j \in DOMAIN f.extents : j # i => g.extents[j] = f.extents[j]
Moving(md, d, w, f, m, e, v, z, c, i, g) ==
  /\ Laid(md, d, w, f, m) /\ md # "sparse" /\ f.active = NoZone /\ f.start = NoExtent
  /\ z \in Zone /\ i \in DOMAIN f.extents /\ Wrote(d, w, e, v, z, c)
  /\ c = Cells(d, f.extents[i].start, RoundUp(f.extents[i].length))
  /\ Moved(f, i, w[z], g)

(* The blocks that MigrateData reads are written.                           *)
LEMMA BlocksWritten ==
  ASSUME NEW w, NEW d, NEW x, NEW i, Pointers(w), d \in [Address -> Cell], x \in Seq(Ext),
         i \in DOMAIN x, Sound(0, w, x)
  PROVE  /\ AllIn(d, x[i].start, RoundUp(x[i].length), Cell)
         /\ RoundUp(x[i].length) \in Nat /\ x[i].length <= RoundUp(x[i].length)
<1>1. PICK a \in Int, n \in Nat : a = x[i].start /\ n = x[i].length
  BY ExtFacts
<1>2. Aligned(a - 0) /\ Under(w, a - 0, a + n)
  BY <1>1 DEF Sound
<1>3. a - 0 = a
  OBVIOUS
<1>4. PICK z \in Zone : Start(z) <= a /\ a + n <= w[z]
  BY <1>2, <1>3 DEF Under
<1>5. PICK p \in Int : p = w[z] /\ Aligned(p)
  BY PointerFacts
<1>6. Aligned(p - a)
  BY <1>2, <1>3, <1>5, AlignedSum
<1>7. PICK r \in Nat : r = RoundUp(n) /\ n <= r
  <2>1. RoundUp(n) \in Int /\ n <= RoundUp(n)
    BY RoundUpFacts
  <2> QED BY <2>1
<1>8. r <= p - a
  <2>1. n <= p - a /\ p - a \in Int
    BY <1>4, <1>5
  <2> QED BY <1>6, <1>7, <2>1, RoundUpFacts
<1>9. PICK b \in Int : b = a + r
  OBVIOUS
<1>10. Under(w, a, b)
  <2>1. b <= w[z]
    BY <1>5, <1>8, <1>9
  <2> QED BY <1>4, <2>1 DEF Under
<1>11. Grown(d, w, d, w)
  BY GrownSelf
<1>12. AllIn(d, a, r, Cell)
  BY <1>9, <1>10, <1>11, GrownCells
<1> QED BY <1>1, <1>7, <1>12

(* A moved extent has the bytes it had, below a write pointer and apart     *)
(* from the other extents.                                                  *)
LEMMA MoveFacts ==
  ASSUME NEW md, NEW d, NEW w, NEW f, NEW m, NEW e, NEW v, NEW z, NEW c, NEW i, NEW g,
         Moving(md, d, w, f, m, e, v, z, c, i, g)
  PROVE  /\ Laid(md, e, v, g, EncodeTo(g)) /\ StoredIn(md, e, g) = StoredIn(md, d, f)
         /\ \A dr, pad : Recovers(md, e, v, g, EncodeTo(g), dr, pad)
<1>1. /\ f \in Files /\ m \in Metas /\ Pointers(w) /\ d \in [Address -> Cell] /\ md \in Modes
      /\ Placement(md, w, f) /\ Sizing(md, d, f, m) /\ Laid(md, d, w, f, m)
  BY DEF Moving, Laid
<1>2. /\ Grown(d, w, e, v) /\ Pointers(v) /\ e \in [Address -> Cell] /\ z \in Zone
      /\ f.active = NoZone /\ f.start = NoExtent /\ md # "sparse" /\ i \in DOMAIN f.extents
      /\ Moved(f, i, w[z], g)
  BY DEF Moving, Wrote, Grown
<1>3. PICK x, y : x = f.extents /\ y = g.extents /\ x \in Seq(Ext) /\ y \in Seq(Ext)
  <2>1. f.extents \in Seq(Ext) /\ g.extents \in Seq(Ext)
    BY <1>1, <1>2 DEF Moved, Files
  <2> QED BY <2>1
<1>4. PICK l \in Nat : /\ l = Len(x) /\ l = Len(y) /\ DOMAIN x = 1..l /\ DOMAIN y = 1..l
  BY <1>2, <1>3, ExtFacts DEF Moved
<1>5. PICK a \in Int, n \in Nat, p \in Int, q \in Int :
        a = x[i].start /\ n = x[i].length /\ n > 0 /\ p = w[z] /\ q = v[z]
  BY <1>1, <1>2, <1>3, <1>4, ExtFacts, PointerFacts
<1>6. y[i].start = p /\ y[i].length = n /\ \A j \in 1..l : j # i => y[j] = x[j]
  BY <1>2, <1>3, <1>4, <1>5 DEF Moved
<1>7. Hs(md) = 0
  BY <1>2, HsFacts
<1>8. Sound(0, w, x) /\ Apart(0, x)
  BY <1>1, <1>3, <1>7 DEF Placement
<1>9. PICK r \in Nat : r = RoundUp(n) /\ n <= r /\ AllIn(d, a, r, Cell)
  <2>1. i \in DOMAIN x
    BY <1>2, <1>3
  <2>2. /\ AllIn(d, x[i].start, RoundUp(x[i].length), Cell)
        /\ RoundUp(x[i].length) \in Nat /\ x[i].length <= RoundUp(x[i].length)
    BY <1>1, <1>3, <1>8, <2>1, BlocksWritten
  <2> QED BY <1>5, <2>2
<1>10. PICK V : AllIn(d, a, r, V) /\ V = Cell
  BY <1>9
<1>11. c = Cells(d, a, r) /\ Len(c) = r /\ \A k \in 1..r : c[k] = d[a + k - 1]
  <2>1. c = Cells(d, a, r)
    BY <1>3, <1>5, <1>9 DEF Moving
  <2>2. Len(Cells(d, a, r)) = r /\ \A k \in 1..r : Cells(d, a, r)[k] = d[a + k - 1]
    BY <1>10, CellsFacts
  <2> QED BY <2>1, <2>2
<1>12. q = p + r /\ Cells(e, p, r) = c /\ Under(v, p, q)
  BY <1>5, <1>11 DEF Moving, Wrote
<1>13. AllIn(e, p, r, Cell)
  <2>1. Grown(e, v, e, v)
    BY <1>2, GrownSelf
  <2> QED BY <1>12, <2>1, GrownCells
<1>14. \A k \in 1..r : c[k] = e[p + k - 1]
  <2>1. PICK U : AllIn(e, p, r, U)
    BY <1>13
  <2>2. \A k \in 1..r : Cells(e, p, r)[k] = e[p + k - 1]
    BY <2>1, CellsFacts
  <2> QED BY <1>12, <2>2
<1>15. ASSUME NEW k \in 0..(n - 1) PROVE d[a + k] = e[p + k]
  <2>1. PICK o \in 1..r : o = k + 1 /\ a + o - 1 = a + k /\ p + o - 1 = p + k
    BY <1>9
  <2> QED BY <1>11, <1>14, <2>1
<1>16. Cells(d, a, n) = Cells(e, p, n)
  BY <1>15, CellsSame
<1>17. ASSUME NEW j \in 1..l
       PROVE  Cells(d, x[j].start, x[j].length) = Cells(e, y[j].start, y[j].length)
  <2>1. CASE j = i
    BY <1>5, <1>6, <1>16, <2>1
  <2>2. CASE j # i
    <3>1. PICK b \in Int, o \in Nat, u \in Int :
            b = x[j].start /\ o = x[j].length /\ u = b + o
      BY <1>3, <1>4, ExtFacts
    <3>2. Under(w, x[j].start, x[j].start + x[j].length)
      BY <1>1, <1>3, <1>4, <1>8, SoundFacts
    <3>3. Under(w, b, u)
      BY <3>1, <3>2
    <3>4. Cells(d, b, o) = Cells(e, b, o)
      BY <1>2, <3>1, <3>3, GrownCells
    <3>5. y[j] = x[j]
      BY <1>6, <2>2
    <3> QED BY <3>1, <3>4, <3>5
  <2> QED BY <2>1, <2>2
<1>18. Bytes(d, x) = Bytes(e, y)
  BY <1>3, <1>4, <1>17, BytesSame
<1>19. SumLengths(x) = SumLengths(y)
  <2>1. ASSUME NEW j \in 1..l PROVE x[j].length = y[j].length
    BY <1>5, <1>6
  <2> QED BY <1>3, <1>4, <2>1, SumLengthsSame
<1>20. Sound(0, v, x) /\ Clear(0, x, p, q)
  <2>1. PICK h \in Nat : h = 0
    OBVIOUS
  <2>2. Sound(h, w, x)
    BY <1>8, <2>1
  <2>3. Sound(h, v, x)
    BY <1>2, <1>3, <2>2, GrownSound
  <2>4. Start(z) <= p
    BY <1>1, <1>2, <1>5, PointerFacts
  <2>5. Clear(h, x, p, w[z])
    <3>1. p..(w[z] - 1) = {}
      BY <1>5
    <3> QED BY <3>1 DEF Clear
  <2>6. Clear(h, x, p, v[z])
    BY <1>2, <1>3, <2>2, <2>4, <2>5, GrownClear
  <2> QED BY <1>5, <2>1, <2>3, <2>6
<1>21. Sound(0, v, y)
  <2>1. ASSUME NEW j \in DOMAIN y
        PROVE  Aligned(y[j].start - 0) /\ Under(v, y[j].start - 0, y[j].start + y[j].length)
    <3>1. CASE j = i
      <4>1. Aligned(p)
        BY <1>1, <1>2, <1>5, PointerFacts
      <4>2. p - 0 = p /\ p + n <= q
        BY <1>9, <1>12
      <4>3. Under(v, p, p + n)
        <5>1. Start(z) <= p /\ p + n <= v[z]
          BY <1>1, <1>2, <1>5, <4>2, PointerFacts
        <5> QED BY <1>2, <5>1 DEF Under
      <4> QED BY <1>6, <3>1, <4>1, <4>2, <4>3
    <3>2. CASE j # i
      <4>1. y[j] = x[j] /\ j \in DOMAIN x
        BY <1>4, <1>6, <3>2
      <4> QED BY <1>20, <4>1 DEF Sound
    <3> QED BY <3>1, <3>2
  <2> QED BY <2>1 DEF Sound
<1>22. Apart(0, y)
  <2>1. ASSUME NEW j \in DOMAIN x, j # i PROVE Span(0, x[j]) \cap Span(0, y[i]) = {}
    <3>1. Span(0, y[i]) \subseteq p..(q - 1)
      <4>1. Span(0, y[i]) = (p - 0)..(p + n - 1)
        BY <1>6 DEF Span
      <4>2. \A k \in (p - 0)..(p + n - 1) : k \in p..(q - 1)
        BY <1>9, <1>12
      <4> QED BY <4>1, <4>2
    <3> QED BY <1>20, <3>1 DEF Clear
  <2>2. ASSUME NEW j \in DOMAIN y, NEW k \in DOMAIN y, j # k
        PROVE  Span(0, y[j]) \cap Span(0, y[k]) = {}
    <3>1. CASE j = i
      <4>1. y[k] = x[k] /\ k \in DOMAIN x /\ k # i
        BY <1>4, <1>6, <2>2, <3>1
      <4> QED BY <2>1, <3>1, <4>1
    <3>2. CASE k = i
      <4>1. y[j] = x[j] /\ j \in DOMAIN x /\ j # i
        BY <1>4, <1>6, <2>2, <3>2
      <4> QED BY <2>1, <3>2, <4>1
    <3>3. CASE j # i /\ k # i
      <4>1. y[j] = x[j] /\ y[k] = x[k] /\ j \in DOMAIN x /\ k \in DOMAIN x
        BY <1>4, <1>6, <3>3
      <4> QED BY <1>8, <2>2, <4>1 DEF Apart
    <3> QED BY <3>1, <3>2, <3>3
  <2> QED BY <2>2 DEF Apart
<1>23. PICK o : o = EncodeTo(g)
  OBVIOUS
<1>24. o \in Metas /\ o.extents = y /\ o.size = g.size /\ o.start = NoExtent
  BY <1>2, <1>3, <1>23 DEF EncodeTo, Metas, Moved, Files
<1>25. g.active = NoZone /\ g \in Files /\ g.size = f.size
  BY <1>2 DEF Moved
<1>26. Pending(md, d, f) = <<>> /\ Pending(md, e, g) = <<>>
  BY <1>2, <1>25 DEF Pending
<1>27. StoredIn(md, e, g) = StoredIn(md, d, f)
  BY <1>3, <1>18, <1>26 DEF StoredIn
<1>28. Sizing(md, e, g, o)
  <2>1. f.size = SumLengths(x) + Len(<<>>) /\ StoredIn(md, d, f) \in Seq(Byte)
    BY <1>1, <1>3, <1>26 DEF Sizing
  <2>2. Begins(y, y)
    BY <1>4 DEF Begins
  <2>3. SumLengths(x) \in Nat /\ Len(<<>>) = 0
    BY <1>3, SumLengthsFacts
  <2>4. f.size = SumLengths(y)
    BY <1>19, <2>1, <2>3
  <2> QED BY <1>3, <1>19, <1>24, <1>25, <1>26, <1>27, <2>1, <2>2, <2>4 DEF Sizing
<1>29. Placement(md, v, g)
  BY <1>3, <1>7, <1>21, <1>22, <1>25 DEF Placement, Opened
<1>30. Laid(md, e, v, g, o)
  BY <1>1, <1>2, <1>24, <1>25, <1>28, <1>29 DEF Laid
<1>31. \A dr, pad : Recovers(md, e, v, g, o, dr, pad)
  BY <1>3, <1>24, <1>25 DEF Recovers
<1> QED BY <1>23, <1>27, <1>30, <1>31

-----------------------------------------------------------------------------
(* Recovery                                                                 *)

(* The file g that recovery makes of the extents x, if the record is m.     *)
Restored(md, d, w, m, x, g) ==
  /\ md \in Modes /\ Pointers(w) /\ d \in [Address -> Cell] /\ x \in Seq(Ext)
  /\ Sound(Hs(md), w, x) /\ Apart(Hs(md), x) /\ m.size = SumLengths(m.extents)
  /\ Bytes(d, x) \in Seq(Byte)
  /\ g = [NewFile EXCEPT !.extents = x,
                         !.size = IF x = m.extents THEN m.size ELSE SumLengths(x)]

(* It is well placed and has the bytes of the extents.                      *)
LEMMA RestoredFacts ==
  ASSUME NEW md, NEW d, NEW w, NEW m, NEW x, NEW g, Restored(md, d, w, m, x, g)
  PROVE  /\ Laid(md, d, w, g, EncodeTo(g)) /\ StoredIn(md, d, g) = Bytes(d, x)
         /\ g.active = NoZone /\ g.start = NoExtent /\ g.extents = x
         /\ \A dr, pad : Recovers(md, d, w, g, EncodeTo(g), dr, pad)
<1>1. /\ md \in Modes /\ Pointers(w) /\ d \in [Address -> Cell] /\ x \in Seq(Ext)
      /\ Sound(Hs(md), w, x) /\ Apart(Hs(md), x) /\ Bytes(d, x) \in Seq(Byte)
  BY DEF Restored
<1>2. PICK n \in Nat : n = SumLengths(x)
  BY <1>1, SumLengthsFacts
<1>3. g = [extents |-> x, size |-> n, start |-> NoExtent, filepos |-> 0, active |-> NoZone]
  BY <1>2 DEF Restored, NewFile
<1>4. NoExtent \in Int
  BY DEF NoExtent
<1>5. /\ g \in Files /\ g.extents = x /\ g.size = n /\ g.start = NoExtent /\ g.active = NoZone
  BY <1>1, <1>3, <1>4 DEF Files
<1>6. PICK o : o = EncodeTo(g)
  OBVIOUS
<1>7. o \in Metas /\ o.extents = x /\ o.size = n /\ o.start = NoExtent
  BY <1>1, <1>4, <1>5, <1>6 DEF EncodeTo, Metas
<1>8. Pending(md, d, g) = <<>>
  BY <1>5 DEF Pending
<1>9. StoredIn(md, d, g) = Bytes(d, x)
  <2>1. StoredIn(md, d, g) = Bytes(d, x) \o <<>>
    BY <1>5, <1>8 DEF StoredIn
  <2> QED BY <1>1, <2>1, ConcatEmptySeq
<1>10. Sizing(md, d, g, o)
  <2>1. Begins(x, x)
    <3>1. Len(x) \in Nat
      BY <1>1, LenProperties
    <3> QED BY <3>1 DEF Begins
  <2>2. n = n + Len(<<>>)
    OBVIOUS
  <2> QED BY <1>1, <1>2, <1>5, <1>7, <1>8, <1>9, <2>1, <2>2 DEF Sizing
<1>11. Placement(md, w, g)
  BY <1>1, <1>5 DEF Placement, Opened
<1>12. Laid(md, d, w, g, o)
  BY <1>1, <1>5, <1>7, <1>10, <1>11 DEF Laid
<1>13. \A dr, pad : Recovers(md, d, w, g, o, dr, pad)
  BY <1>5, <1>7 DEF Recovers
<1> QED BY <1>5, <1>6, <1>9, <1>12, <1>13

(* The record m says that the file is written in z.                         *)
Resumes(d, w, m, z) ==
  /\ Pointers(w) /\ d \in [Address -> Cell] /\ z \in Zone /\ m \in Metas
  /\ Sound(0, w, m.extents) /\ Apart(0, m.extents)
  /\ Start(z) <= m.start /\ m.start <= w[z] /\ Aligned(m.start)
  /\ Clear(0, m.extents, m.start, w[z])

(* The extents of the record and one up to the write pointer.               *)
Resumed(w, m, z) ==
  IF w[z] - m.start = 0 THEN m.extents
  ELSE m.extents \o <<Extent(m.start, w[z] - m.start)>>

(* Their bytes are what recovery reads.                                     *)
LEMMA ResumedFacts ==
  ASSUME NEW d, NEW w, NEW m, NEW z, Resumes(d, w, m, z)
  PROVE  /\ Resumed(w, m, z) \in Seq(Ext) /\ Sound(0, w, Resumed(w, m, z))
         /\ Apart(0, Resumed(w, m, z)) /\ Bytes(d, Resumed(w, m, z)) = Found(d, w, m, z)
<1>1. /\ Pointers(w) /\ d \in [Address -> Cell] /\ z \in Zone /\ m \in Metas
      /\ Sound(0, w, m.extents) /\ Apart(0, m.extents)
  BY DEF Resumes
<1>2. PICK x, a, p : x = m.extents /\ a = m.start /\ p = w[z] /\ x \in Seq(Ext)
                     /\ a \in Int /\ p \in Int
  <2>1. m.extents \in Seq(Ext) /\ m.start \in Int /\ w[z] \in Int
    BY <1>1, PointerFacts DEF Metas
  <2> QED BY <2>1
<1>3. Start(z) <= a /\ a <= p /\ Aligned(a) /\ Clear(0, x, a, p)
  BY <1>2 DEF Resumes
<1>4. PICK n \in Nat : n = p - a
  BY <1>2, <1>3
<1>5. Grown(d, w, d, w)
  BY <1>1, GrownSelf
<1>6. Found(d, w, m, z) = Bytes(d, x) \o Cells(d, a, n)
  BY <1>2, <1>4 DEF Found
<1>7. PICK h \in Nat : h = 0
  OBVIOUS
<1>8. Sound(h, w, x) /\ Apart(h, x)
  BY <1>1, <1>2, <1>7
<1>9. Bytes(d, x) \in Seq(Int) /\ Placed(d, x, Int)
  BY <1>2, <1>5, <1>8, GrownBytes
<1>10. CASE n = 0
  <2>1. Resumed(w, m, z) = x
    BY <1>2, <1>4, <1>10 DEF Resumed
  <2>2. Cells(d, a, n) = <<>>
    BY <1>2, <1>10, CellsNone
  <2>3. Found(d, w, m, z) = Bytes(d, x)
    BY <1>6, <1>9, <2>2, ConcatEmptySeq
  <2> QED BY <1>2, <1>7, <1>8, <2>1, <2>3
<1>11. CASE n # 0
  <2>1. PICK e : e = Extent(a, n)
    OBVIOUS
  <2>2. e \in Ext /\ e.start = a /\ e.length = n
    BY <1>2, <1>11, <2>1, ExtentFacts
  <2>3. PICK y : y = Append(x, e)
    OBVIOUS
  <2>4. Resumed(w, m, z) = y
    <3>1. Append(x, e) = x \o <<e>>
      BY <1>2, <2>2, AppendIsConcat
    <3> QED BY <1>2, <1>4, <1>11, <2>1, <2>3, <3>1 DEF Resumed
  <2>5. a - h = a /\ a + n = p
    BY <1>2, <1>4, <1>7
  <2>6. Under(w, a, p)
    <3>1. p <= w[z]
      BY <1>2
    <3> QED BY <1>1, <1>3, <3>1 DEF Under
  <2>7. Clear(h, x, a, p)
    BY <1>3, <1>7
  <2>8. Fits(h, w, x, e)
    BY <1>3, <1>8, <2>2, <2>5, <2>6, <2>7 DEF Fits
  <2>9. Extended(h, w, x, e, y)
    BY <1>2, <2>2, <2>3, <2>8, ExtentsAppend
  <2>10. y \in Seq(Ext) /\ Sound(h, w, y) /\ Apart(h, y)
    BY <2>9 DEF Extended
  <2>11. AllIn(d, a, n, Int)
    <3>1. PICK a1 \in Int, p1 \in Int : a1 = a /\ p1 = p /\ p1 = a1 + n
      BY <1>2, <1>4
    <3>2. AllIn(d, a1, n, Cell)
      <4>1. Under(w, a1, p1)
        BY <2>6, <3>1
      <4> QED BY <1>5, <3>1, <4>1, GrownCells
    <3> QED BY <3>1, <3>2, SeqInt DEF AllIn
  <2>12. Bytes(d, Append(x, e)) = Bytes(d, x) \o Cells(d, e.start, e.length)
    <3>1. AllIn(d, e.start, e.length, Int)
      BY <2>2, <2>11
    <3> QED BY <1>2, <1>9, <2>2, <3>1, BytesAppend, ZenonT(60)
  <2> QED BY <1>6, <1>7, <2>2, <2>3, <2>4, <2>10, <2>12
<1> QED BY <1>10, <1>11

-----------------------------------------------------------------------------
(* Recovery of a sparse file                                                *)

(* One step of RecoverSparseExtents and the function of its recursion.      *)
ScanEntry(f, d, end, a) ==
  IF a >= end THEN [ok |-> TRUE, extents |-> <<>>]
  ELSE IF -d[a] <= 0 THEN Failure
  ELSE [ok |-> f[NextSegment(a, -d[a])].ok,
        extents |-> <<Extent(a + H, -d[a])>> \o f[NextSegment(a, -d[a])].extents]
IsScan(f, d, end, lo, top) == f = [a \in lo..top |-> ScanEntry(f, d, end, a)]
ScanTable(d, end, lo, top) == CHOOSE f : IsScan(f, d, end, lo, top)

(* The cells from start to end can be scanned.                              *)
Scanned(d, start, end, top) ==
  /\ start \in Int /\ end \in Int /\ top \in Int /\ top = end + BufferSize
  /\ AllIn(d, start, end - start, Cell)

(* A header leads forward, and no further than a buffer.                    *)
LEMMA NextFacts ==
  ASSUME NEW d, NEW start, NEW end, NEW top, Scanned(d, start, end, top), NEW a \in Int,
         start <= a, a < end, -d[a] > 0
  PROVE  NextSegment(a, -d[a]) \in (a + 1)..top
<1>1. start \in Int /\ end \in Int /\ top \in Int /\ top = end + BufferSize
  BY DEF Scanned
<1>2. a \in start..(start + (end - start) - 1)
  BY <1>1
<1>3. d[a] \in Cell
  BY <1>2 DEF Scanned, AllIn
<1>4. /\ H \in Nat /\ BufferSize \in Nat /\ Aligned(BufferSize) /\ MaxBytes \in Nat
  BY Constants
<1>5. PICK n \in Int : n = -d[a] /\ n <= BufferSize - H
  <2>1. d[a] \in Int /\ H - BufferSize <= d[a]
    BY <1>3, <1>4 DEF Cell
  <2> QED BY <1>4, <2>1
<1>6. PICK k \in Int : k = n + H
  BY <1>4
<1>7. RoundUp(k) \in Int /\ k <= RoundUp(k) /\ RoundUp(k) <= BufferSize
  <2>1. k <= BufferSize
    BY <1>4, <1>5, <1>6
  <2> QED BY <1>4, <2>1, RoundUpFacts
<1>8. NextSegment(a, -d[a]) = a + RoundUp(k)
  BY <1>5, <1>6 DEF NextSegment
<1> QED BY <1>1, <1>4, <1>5, <1>6, <1>7, <1>8

(* A step looks at later entries only.                                      *)
LEMMA ScanAgree ==
  ASSUME NEW d, NEW start, NEW end, NEW top, Scanned(d, start, end, top), NEW a \in Int,
         start <= a, NEW f, NEW g, \A b \in (a + 1)..top : f[b] = g[b]
  PROVE  ScanEntry(f, d, end, a) = ScanEntry(g, d, end, a)
<1>1. CASE a < end /\ -d[a] > 0
  <2>1. PICK b : b = NextSegment(a, -d[a])
    OBVIOUS
  <2>2. b \in (a + 1)..top
    BY <1>1, <2>1, NextFacts
  <2>3. f[b] = g[b]
    BY <2>2
  <2> QED BY <2>1, <2>3 DEF ScanEntry
<1>2. CASE a >= end
  BY <1>2 DEF ScanEntry
<1>3. CASE a < end /\ ~(-d[a] > 0)
  <2>1. d[a] \in Int
    <3>1. start \in Int /\ end \in Int
      BY DEF Scanned
    <3>2. a \in start..(start + (end - start) - 1)
      BY <1>3, <3>1
    <3> QED BY <3>2, SeqInt DEF Scanned, AllIn
  <2>2. -d[a] <= 0
    BY <1>3, <2>1
  <2> QED BY <1>3, <2>2 DEF ScanEntry
<1>4. end \in Int
  BY DEF Scanned
<1> QED BY <1>1, <1>2, <1>3, <1>4

(* An entry of the function.                                                *)
LEMMA ScanAt ==
  ASSUME NEW d, NEW end, NEW lo, NEW top, NEW f, IsScan(f, d, end, lo, top), NEW a \in lo..top
  PROVE  f[a] = ScanEntry(f, d, end, a)
<1>1. PICK g : g = [b \in lo..top |-> ScanEntry(f, d, end, b)]
  OBVIOUS
<1>2. f = g
  BY <1>1 DEF IsScan
<1>3. g[a] = ScanEntry(f, d, end, a)
  BY <1>1
<1> QED BY <1>2, <1>3, Zenon

(* The function exists.                                                     *)
LEMMA ScanExists ==
  ASSUME NEW d, NEW start, NEW end, NEW top, Scanned(d, start, end, top), start <= top + 1
  PROVE  \E f : IsScan(f, d, end, start, top)
<1>1. start \in Int /\ end \in Int /\ top \in Int
  BY DEF Scanned
<1> DEFINE P(n) == top + 1 - n >= start => \E f : IsScan(f, d, end, top + 1 - n, top)
           W == {n \in Nat : P(n)}
<1>2. ASSUME NEW n \in Nat, \A m \in 0..(n - 1) : m \in W PROVE n \in W
  <2> SUFFICES ASSUME top + 1 - n >= start PROVE \E f : IsScan(f, d, end, top + 1 - n, top)
    OBVIOUS
  <2>1. CASE n = 0
    <3>1. (top + 1 - n)..top = {}
      BY <1>1, <2>1
    <3>2. PICK f : f = [a \in (top + 1 - n)..top |-> 0]
      OBVIOUS
    <3>3. f = [a \in (top + 1 - n)..top |-> ScanEntry(f, d, end, a)]
      BY <3>1, <3>2
    <3> QED BY <3>3 DEF IsScan
  <2>2. CASE n # 0
    <3>1. PICK m \in Nat, lo \in Int : m = n - 1 /\ lo = top + 1 - n
      BY <1>1, <2>2
    <3>2. m \in 0..(n - 1) /\ top + 1 - m = lo + 1 /\ lo >= start /\ lo + 1 >= start
      BY <1>1, <3>1
    <3>3. PICK g : IsScan(g, d, end, lo + 1, top)
      <4>1. m \in W
        BY <1>2, <3>2
      <4> QED BY <3>2, <4>1
    <3>4. PICK f : f = [a \in lo..top |-> IF a = lo THEN ScanEntry(g, d, end, a) ELSE g[a]]
      OBVIOUS
    <3>5. \A b \in (lo + 1)..top : f[b] = g[b]
      BY <1>1, <3>4
    <3>6. ASSUME NEW a \in lo..top
          PROVE  (IF a = lo THEN ScanEntry(g, d, end, a) ELSE g[a]) = ScanEntry(f, d, end, a)
      <4>1. a \in Int /\ start <= a /\ \A b \in (a + 1)..top : f[b] = g[b]
        BY <1>1, <3>2, <3>5
      <4>2. ScanEntry(f, d, end, a) = ScanEntry(g, d, end, a)
        BY <4>1, ScanAgree
      <4>3. CASE a = lo
        BY <4>2, <4>3
      <4>4. CASE a # lo
        <5>1. a \in (lo + 1)..top
          BY <4>4
        <5>2. g[a] = ScanEntry(g, d, end, a)
          BY <3>3, <5>1, ScanAt
        <5> QED BY <4>2, <4>4, <5>2
      <4> QED BY <4>3, <4>4
    <3>7. f = [a \in lo..top |-> ScanEntry(f, d, end, a)]
      <4>1. PICK u : u = [a \in lo..top |-> ScanEntry(f, d, end, a)]
        OBVIOUS
      <4>2. f = u
        BY <3>4, <3>6, <4>1, Zenon
      <4> QED BY <4>1, <4>2, Zenon
    <3>8. IsScan(f, d, end, lo, top)
      BY <3>7, Zenon DEF IsScan
    <3> QED BY <3>1, <3>8
  <2> QED BY <2>1, <2>2
<1>3. \A n \in Nat : n \in W
  <2> HIDE DEF W
  <2> QED BY <1>2, NumberInduction
<1>4. PICK n \in Nat : n = top + 1 - start
  BY <1>1
<1>5. n \in W
  BY <1>3
<1>6. top + 1 - n = start
  BY <1>1, <1>4
<1> QED BY <1>1, <1>5, <1>6

(* The first element and the others.                                        *)
LEMMA PartHead ==
  ASSUME NEW V, NEW x \in Seq(V), NEW i \in 1..Len(x)
  PROVE  <<x[i]>> \o SubSeq(x, i + 1, Len(x)) = SubSeq(x, i, Len(x))
<1>1. PICK n \in Nat : n = Len(x)
  BY LenProperties
<1>2. \A j \in 1..n : x[j] \in V
  BY <1>1, ElementOfSeq
<1>3. i \in Int /\ 1 <= i /\ i <= n
  BY <1>1
<1>4. PICK s : s = SubSeq(x, i, n)
  OBVIOUS
<1>5. s = [j \in 1..(n - i + 1) |-> x[i + j - 1]]
  BY <1>4
<1>6. PICK t : t = SubSeq(x, i + 1, n)
  OBVIOUS
<1>7. t = [j \in 1..(n - i) |-> x[i + j]]
  <2>1. t = [j \in 1..(n - (i + 1) + 1) |-> x[(i + 1) + j - 1]]
    BY <1>6
  <2>2. n - (i + 1) + 1 = n - i /\ \A j \in 1..(n - i) : (i + 1) + j - 1 = i + j
    BY <1>3
  <2> QED BY <2>1, <2>2
<1>8. s \in Seq(V) /\ Len(s) = n - i + 1
  <2>1. \A j \in 1..(n - i + 1) : i + j - 1 \in 1..n
    BY <1>3
  <2>2. n - i + 1 \in Nat
    BY <1>3
  <2> QED BY <1>2, <1>5, <2>1, <2>2
<1>9. t \in Seq(V) /\ Len(t) = n - i
  <2>1. \A j \in 1..(n - i) : i + j \in 1..n
    BY <1>3
  <2>2. n - i \in Nat
    BY <1>3
  <2> QED BY <1>2, <1>7, <2>1, <2>2
<1>10. PICK u : u = <<x[i]>> \o t
  OBVIOUS
<1>11. x[i] \in V
  BY <1>2, <1>3
<1>12. <<x[i]>> \in Seq(V) /\ Len(<<x[i]>>) = 1 /\ <<x[i]>>[1] = x[i]
  BY <1>11
<1>13. u \in Seq(V) /\ Len(u) = n - i + 1
  <2>1. PICK h : h = <<x[i]>> /\ h \in Seq(V) /\ Len(h) = 1
    BY <1>12
  <2>2. u \in Seq(V) /\ Len(u) = Len(h) + Len(t)
    BY <1>9, <1>10, <2>1, ConcatProperties
  <2> QED BY <1>3, <1>9, <2>1, <2>2
<1>14. \A j \in 1..(n - i + 1) : u[j] = s[j]
  <2> SUFFICES ASSUME NEW j \in 1..(n - i + 1) PROVE u[j] = s[j]
    OBVIOUS
  <2>1. s[j] = x[i + j - 1]
    BY <1>5
  <2>2. CASE j = 1
    <3>1. u[1] = x[i]
      BY <1>9, <1>10, <1>12, ConcatProperties
    <3>2. i + j - 1 = i
      BY <1>3, <2>2
    <3> QED BY <2>1, <2>2, <3>1, <3>2
  <2>3. CASE j # 1
    <3>1. PICK k \in 1..(n - i) : j = k + 1
      <4>1. j - 1 \in 1..(n - i) /\ j = (j - 1) + 1
        BY <1>3, <2>3
      <4> QED BY <4>1
    <3>2. u[j] = t[k]
      BY <1>9, <1>10, <1>12, <3>1, ConcatProperties
    <3>3. t[k] = x[i + k] /\ i + k = i + j - 1
      BY <1>3, <1>7, <3>1
    <3> QED BY <2>1, <3>2, <3>3
  <2> QED BY <2>2, <2>3
<1>15. u = s
  <2>1. Len(u) = Len(s) /\ Len(s) = n - i + 1
    BY <1>8, <1>13
  <2> QED BY <1>8, <1>13, <1>14, <2>1, SeqEqual
<1> QED BY <1>1, <1>4, <1>6, <1>10, <1>15

(* Extents that begin with those of the record, and the others.             *)
LEMMA BeginsRest ==
  ASSUME NEW V, NEW x \in Seq(V), NEW y \in Seq(V), Begins(x, y)
  PROVE  x \o SubSeq(y, Len(x) + 1, Len(y)) = y
<1>1. PICK k \in Nat, n \in Nat : k = Len(x) /\ n = Len(y)
  BY LenProperties
<1>2. k <= n /\ \A i \in 1..k : x[i] = y[i]
  BY <1>1 DEF Begins
<1>3. \A j \in 1..n : y[j] \in V
  BY <1>1, ElementOfSeq
<1>4. PICK t : t = SubSeq(y, k + 1, n)
  OBVIOUS
<1>5. t = [j \in 1..(n - k) |-> y[k + j]]
  <2>1. t = [j \in 1..(n - (k + 1) + 1) |-> y[(k + 1) + j - 1]]
    BY <1>4
  <2>2. n - (k + 1) + 1 = n - k /\ \A j \in 1..(n - k) : (k + 1) + j - 1 = k + j
    OBVIOUS
  <2> QED BY <2>1, <2>2
<1>6. t \in Seq(V) /\ Len(t) = n - k
  <2>1. \A j \in 1..(n - k) : k + j \in 1..n
    BY <1>2
  <2>2. n - k \in Nat
    BY <1>2
  <2> QED BY <1>3, <1>5, <2>1, <2>2
<1>7. PICK u : u = x \o t
  OBVIOUS
<1>8. u \in Seq(V) /\ Len(u) = n
  <2>1. u \in Seq(V) /\ Len(u) = k + (n - k)
    BY <1>1, <1>6, <1>7, ConcatProperties
  <2> QED BY <2>1
<1>9. \A j \in 1..n : u[j] = y[j]
  <2> SUFFICES ASSUME NEW j \in 1..n PROVE u[j] = y[j]
    OBVIOUS
  <2>1. CASE j <= k
    BY <1>1, <1>2, <1>6, <1>7, <2>1, ConcatProperties
  <2>2. CASE j > k
    <3>1. PICK i \in 1..(n - k) : j = k + i
      <4>1. j - k \in 1..(n - k) /\ j = k + (j - k)
        BY <2>2
      <4> QED BY <4>1
    <3>2. u[j] = t[i]
      BY <1>1, <1>6, <1>7, <3>1, ConcatProperties
    <3>3. t[i] = y[j]
      BY <1>5, <3>1
    <3> QED BY <3>2, <3>3
  <2> QED BY <2>1, <2>2
<1>10. u = y
  <2>1. Len(u) = Len(y)
    BY <1>1, <1>8
  <2> QED BY <1>1, <1>8, <1>9, <2>1, SeqEqual
<1> QED BY <1>1, <1>4, <1>7, <1>10

(* The chain of the headers from a to end, over the extents x after k.      *)
Chained(d, a, end, top, k, x) ==
  /\ Scanned(d, a, end, top) /\ a <= end /\ x \in Seq(Ext) /\ k \in Nat /\ k <= Len(x)
  /\ Chain(d, a, end, k, x)

(* The segments start at a or behind it.                                    *)
LEMMA SegmentsAhead ==
  ASSUME NEW d, NEW a, NEW end, NEW top, NEW k, NEW x, Chained(d, a, end, top, k, x),
         NEW i \in (k + 1)..(Len(x) + 1)
  PROVE  SegmentAt(a, k, x, i) \in Int /\ a <= SegmentAt(a, k, x, i)
         /\ SegmentAt(a, k, x, i) <= end
<1>1. /\ a \in Int /\ end \in Int /\ a <= end /\ x \in Seq(Ext) /\ k \in Nat /\ k <= Len(x)
      /\ Chain(d, a, end, k, x)
  BY DEF Chained, Scanned
<1>2. Len(x) \in Nat
  BY <1>1, LenProperties
<1> DEFINE P(n) == k + 1 + n <= Len(x) + 1 =>
                     LET s == SegmentAt(a, k, x, k + 1 + n) IN s \in Int /\ a <= s /\ s <= end
           W == {n \in Nat : P(n)}
<1>3. ASSUME NEW n \in Nat, \A m \in 0..(n - 1) : m \in W PROVE n \in W
  <2> SUFFICES ASSUME k + 1 + n <= Len(x) + 1,
                      NEW s, s = SegmentAt(a, k, x, k + 1 + n)
               PROVE  s \in Int /\ a <= s /\ s <= end
    OBVIOUS
  <2>1. CASE n = 0
    BY <1>1, <2>1 DEF SegmentAt
  <2>2. CASE n # 0
    <3>1. PICK j \in Nat : j = k + n
      BY <1>1
    <3>2. PICK m \in Nat : m = n - 1
      BY <2>2
    <3>3. /\ j \in (k + 1)..Len(x) /\ k + 1 + m = j /\ k + 1 + n = j + 1 /\ j + 1 # k + 1
          /\ m \in 0..(n - 1) /\ k + 1 + m <= Len(x) + 1 /\ (j + 1) - 1 = j /\ j \in 1..Len(x)
      BY <1>1, <1>2, <2>2, <3>1, <3>2
    <3>4. PICK t : t = SegmentAt(a, k, x, j)
      OBVIOUS
    <3>5. t \in Int /\ a <= t
      <4>1. m \in W
        BY <1>3, <3>3
      <4> QED BY <3>3, <3>4, <4>1
    <3>6. x[j].start - H = t
      BY <1>1, <3>3, <3>4 DEF Chain, Link
    <3>7. PICK l \in Nat : l = x[j].length
      BY <1>1, <3>3, ExtFacts
    <3>8. s = NextSegment(t, l)
      BY <3>3, <3>6, <3>7 DEF SegmentAt
    <3>9. s = t + RoundUp(l + H)
      BY <3>8 DEF NextSegment
    <3>10. RoundUp(l + H) \in Int /\ RoundUp(l + H) >= 0
      <4>1. H \in Nat /\ l + H \in Int
        BY Constants
      <4> QED BY <4>1, RoundUpFacts
    <3>11. s \in Int /\ a <= s
      BY <1>1, <3>5, <3>9, <3>10
    <3>12. s <= end
      <4>1. CASE j = Len(x)
        <5>1. s = end
          BY <1>1, <3>3, <4>1 DEF Chain
        <5> QED BY <1>1, <5>1
      <4>2. CASE j # Len(x)
        <5>1. j + 1 \in (k + 1)..Len(x)
          BY <1>1, <1>2, <3>3, <4>2
        <5>2. s < end
          BY <1>1, <3>3, <5>1 DEF Chain, Link
        <5> QED BY <1>1, <3>11, <5>2
      <4> QED BY <4>1, <4>2
    <3> QED BY <3>11, <3>12
  <2> QED BY <2>1, <2>2
<1>4. \A n \in Nat : n \in W
  <2> HIDE DEF W
  <2> QED BY <1>3, NumberInduction
<1>5. PICK n \in Nat : n = i - (k + 1)
  BY <1>1, <1>2
<1>6. k + 1 + n = i /\ k + 1 + n <= Len(x) + 1
  BY <1>1, <1>2, <1>5
<1>7. n \in W
  BY <1>4
<1> QED BY <1>6, <1>7

(* From the header of an extent on, the scan finds it and all behind it.    *)
Finds(f, d, a, k, x, i) ==
  f[SegmentAt(a, k, x, i)] = [ok |-> TRUE, extents |-> SubSeq(x, i, Len(x))]

(* At the end there is nothing.                                             *)
LEMMA ScanEnds ==
  ASSUME NEW d, NEW a, NEW end, NEW top, NEW k, NEW x, Chained(d, a, end, top, k, x),
         NEW f, IsScan(f, d, end, a, top)
  PROVE  Finds(f, d, a, k, x, Len(x) + 1)
<1>1. /\ a \in Int /\ end \in Int /\ top \in Int /\ a <= end /\ x \in Seq(Ext)
      /\ Chain(d, a, end, k, x) /\ top = end + BufferSize /\ Len(x) \in Nat
  BY LenProperties DEF Chained, Scanned
<1>2. SegmentAt(a, k, x, Len(x) + 1) = end
  BY <1>1 DEF Chain
<1>3. end \in a..top
  BY <1>1, Constants
<1>4. f[end] = ScanEntry(f, d, end, end)
  BY <1>3, ScanAt
<1>5. ScanEntry(f, d, end, end) = [ok |-> TRUE, extents |-> <<>>]
  BY <1>1 DEF ScanEntry
<1>6. SubSeq(x, Len(x) + 1, Len(x)) = <<>>
  <2>1. Len(x) + 1 \in Int /\ Len(x) \in Int /\ Len(x) + 1 > Len(x)
    BY <1>1
  <2> QED BY <1>1, <2>1
<1> QED BY <1>2, <1>4, <1>5, <1>6 DEF Finds

(* A header, and what the scan finds behind the extent.                     *)
LEMMA ScanStep ==
  ASSUME NEW d, NEW a, NEW end, NEW top, NEW k, NEW x, Chained(d, a, end, top, k, x),
         NEW f, IsScan(f, d, end, a, top), NEW i \in (k + 1)..Len(x), Finds(f, d, a, k, x, i + 1)
  PROVE  Finds(f, d, a, k, x, i)
<1>1. /\ a \in Int /\ end \in Int /\ top \in Int /\ x \in Seq(Ext) /\ k \in Nat
      /\ Chain(d, a, end, k, x) /\ top = end + BufferSize /\ Len(x) \in Nat
  BY LenProperties DEF Chained, Scanned
<1>2. PICK s : s = SegmentAt(a, k, x, i)
  OBVIOUS
<1>3. s \in Int /\ a <= s
  <2>1. i \in (k + 1)..(Len(x) + 1)
    BY <1>1
  <2> QED BY <1>2, <2>1, SegmentsAhead
<1>4. x[i].start - H = s /\ s < end /\ d[s] = Header(x[i].length)
  BY <1>1, <1>2 DEF Chain, Link
<1>5. i \in 1..Len(x) /\ i + 1 # k + 1 /\ (i + 1) - 1 = i
  BY <1>1
<1>6. PICK l \in Nat, b \in Int : l = x[i].length /\ b = x[i].start /\ l > 0
  BY <1>1, <1>5, ExtFacts
<1>7. d[s] = -l /\ -d[s] = l /\ ~(-d[s] <= 0) /\ ~(s >= end)
  <2>1. d[s] = -l
    BY <1>4, <1>6 DEF Header
  <2> QED BY <1>1, <1>3, <1>4, <1>6, <2>1, SMTT(40)
<1>8. s + H = b
  BY <1>3, <1>4, <1>6, Constants, SMTT(40)
<1>9. Extent(b, l) = x[i]
  <2>1. x[i] \in Ext
    BY <1>1, <1>5, ExtFacts
  <2> QED BY <1>6, <2>1 DEF Ext, Extent
<1>10. PICK t : t = NextSegment(s, l)
  OBVIOUS
<1>11. t = SegmentAt(a, k, x, i + 1)
  BY <1>4, <1>5, <1>6, <1>10 DEF SegmentAt
<1>12. f[t] = [ok |-> TRUE, extents |-> SubSeq(x, i + 1, Len(x))]
  BY <1>11 DEF Finds
<1>13. s \in a..top
  BY <1>1, <1>3, <1>4, Constants
<1>14. f[s] = ScanEntry(f, d, end, s)
  BY <1>13, ScanAt
<1>15. ScanEntry(f, d, end, s)
         = [ok |-> f[t].ok, extents |-> <<Extent(b, l)>> \o f[t].extents]
  BY <1>7, <1>8, <1>10 DEF ScanEntry
<1>16. f[t].ok = TRUE /\ f[t].extents = SubSeq(x, i + 1, Len(x))
  BY <1>12
<1>17. <<x[i]>> \o SubSeq(x, i + 1, Len(x)) = SubSeq(x, i, Len(x))
  BY <1>1, <1>5, PartHead
<1> QED BY <1>2, <1>9, <1>14, <1>15, <1>16, <1>17 DEF Finds

(* The scan finds the extents behind those of the record.                   *)
LEMMA ScanFinds ==
  ASSUME NEW d, NEW a, NEW end, NEW top, NEW k, NEW x, Chained(d, a, end, top, k, x),
         NEW f, IsScan(f, d, end, a, top)
  PROVE  f[a] = [ok |-> TRUE, extents |-> SubSeq(x, k + 1, Len(x))]
<1>1. k \in Nat /\ k <= Len(x) /\ Len(x) \in Nat
  BY LenProperties DEF Chained
<1> DEFINE P(n) == k + 1 <= Len(x) + 1 - n => Finds(f, d, a, k, x, Len(x) + 1 - n)
           W == {n \in Nat : P(n)}
<1>2. ASSUME NEW n \in Nat, \A m \in 0..(n - 1) : m \in W PROVE n \in W
  <2> SUFFICES ASSUME k + 1 <= Len(x) + 1 - n PROVE Finds(f, d, a, k, x, Len(x) + 1 - n)
    OBVIOUS
  <2>1. CASE n = 0
    <3>1. Len(x) + 1 - n = Len(x) + 1
      BY <1>1, <2>1
    <3> QED BY <3>1, ScanEnds
  <2>2. CASE n # 0
    <3>1. PICK i \in Nat, m \in Nat : i = Len(x) + 1 - n /\ m = n - 1
      BY <1>1, <2>2
    <3>2. /\ i \in (k + 1)..Len(x) /\ Len(x) + 1 - m = i + 1 /\ m \in 0..(n - 1)
          /\ k + 1 <= Len(x) + 1 - m
      BY <1>1, <2>2, <3>1
    <3>3. m \in W
      BY <1>2, <3>2
    <3>4. Finds(f, d, a, k, x, i + 1)
      BY <3>2, <3>3
    <3>5. Finds(f, d, a, k, x, i)
      BY <3>2, <3>4, ScanStep
    <3> QED BY <3>1, <3>5
  <2> QED BY <2>1, <2>2
<1>3. \A n \in Nat : n \in W
  <2> HIDE DEF W
  <2> QED BY <1>2, NumberInduction
<1>4. PICK n \in Nat : n = Len(x) - k
  BY <1>1
<1>5. Len(x) + 1 - n = k + 1
  BY <1>1, <1>4
<1>6. Finds(f, d, a, k, x, k + 1)
  <2>1. n \in W
    BY <1>3
  <2> QED BY <1>1, <1>5, <2>1
<1> QED BY <1>6 DEF Finds, SegmentAt

(* The same for the model's operator.                                       *)
LEMMA RecoverSparseFacts ==
  ASSUME NEW d, NEW a, NEW end, NEW top, NEW k, NEW x, Chained(d, a, end, top, k, x)
  PROVE  RecoverSparseExtents(d, a, end) = [ok |-> TRUE, extents |-> SubSeq(x, k + 1, Len(x))]
<1>1. Scanned(d, a, end, top) /\ a \in Int /\ end \in Int /\ top = end + BufferSize /\ a <= end
  BY DEF Chained, Scanned
<1>2. a <= top + 1
  BY <1>1, Constants
<1>3. PICK f : f = ScanTable(d, end, a, top) /\ IsScan(f, d, end, a, top)
  BY <1>1, <1>2, ScanExists DEF ScanTable
<1>4. RecoverSparseExtents(d, a, end) = ScanTable(d, end, a, end + BufferSize)[a]
  BY DEF RecoverSparseExtents, ScanTable, IsScan, ScanEntry
<1>5. RecoverSparseExtents(d, a, end) = f[a]
  BY <1>1, <1>3, <1>4
<1> QED BY <1>3, <1>5, ScanFinds

(* The file f could be on the device d when the process dies, followed by   *)
(* the bytes dr that a Truncate cut off.                                    *)
Recoverable(md, d, w, f, m, dr, pad) ==
  /\ Laid(md, d, w, f, m) /\ Recovers(md, d, w, f, m, dr, pad) /\ dr \in Seq(Byte)
  /\ md = "sparse" \/ m.start = NoExtent => dr = <<>>
Recovered(md, d, w, f, dr, pad, x, p) ==
  /\ x \in Seq(Ext) /\ Sound(Hs(md), w, x) /\ Apart(Hs(md), x)
  /\ p \in 0..(B - 1) /\ (p = 0 \/ pad)
  /\ Bytes(d, x) = (StoredIn(md, d, f) \o dr) \o Zeros(p)

(* A file that is found whole.                                              *)
LEMMA RecoveredWhole ==
  ASSUME NEW md, NEW d, NEW w, NEW f, NEW m, NEW pad, Laid(md, d, w, f, m),
         md = "sparse" \/ f.active = NoZone
  PROVE  Recovered(md, d, w, f, <<>>, pad, f.extents, 0)
<1>1. f \in Files /\ f.extents \in Seq(Ext) /\ Sound(Hs(md), w, f.extents)
      /\ Apart(Hs(md), f.extents)
  BY FieldFacts DEF Laid, Placement
<1>2. Pending(md, d, f) = <<>>
  BY DEF Pending
<1>3. Bytes(d, f.extents) \in Seq(Int)
  BY StoredFacts
<1>4. StoredIn(md, d, f) = Bytes(d, f.extents)
  BY <1>2, <1>3, ConcatEmptySeq DEF StoredIn
<1>5. PICK s : s = Bytes(d, f.extents) /\ s \in Seq(Int)
  BY <1>3
<1>6. (s \o <<>>) \o <<>> = s /\ Zeros(0) = <<>>
  BY <1>5, ConcatEmptySeq, ZerosFacts
<1>7. Bytes(d, f.extents) = (StoredIn(md, d, f) \o <<>>) \o Zeros(0)
  BY <1>4, <1>5, <1>6
<1>8. 0 \in 0..(B - 1)
  BY Constants
<1> QED BY <1>1, <1>7, <1>8 DEF Recovered

(* Recover, when there is no active extent and when there is one.           *)
LEMMA RecoverCases ==
  ASSUME NEW d, NEW w
  PROVE  /\ meta.start = NoExtent => Recover(d, w) = [ok |-> TRUE, extents |-> meta.extents]
         /\ \A z \in Zone, n \in Nat :
              meta.start # NoExtent /\ GetIOZone(meta.start) = {z} /\ w[z] - meta.start = n =>
                LET more == IF mode = "sparse" THEN RecoverSparseExtents(d, meta.start, w[z])
                            ELSE [ok |-> TRUE, extents |-> <<Extent(meta.start, n)>>] IN
                Recover(d, w) = IF n = 0 THEN [ok |-> TRUE, extents |-> meta.extents]
                                ELSE [ok |-> more.ok, extents |-> meta.extents \o more.extents]
<1>1. meta.start = NoExtent => Recover(d, w) = [ok |-> TRUE, extents |-> meta.extents]
  BY DEF Recover
<1>2. ASSUME NEW z \in Zone, NEW n \in Nat, meta.start # NoExtent, GetIOZone(meta.start) = {z},
             w[z] - meta.start = n, NEW more,
             more = IF mode = "sparse" THEN RecoverSparseExtents(d, meta.start, w[z])
                    ELSE [ok |-> TRUE, extents |-> <<Extent(meta.start, n)>>]
      PROVE  Recover(d, w) = IF n = 0 THEN [ok |-> TRUE, extents |-> meta.extents]
                             ELSE [ok |-> more.ok, extents |-> meta.extents \o more.extents]
  <2>1. (CHOOSE x \in GetIOZone(meta.start) : TRUE) = z
    BY <1>2
  <2>2. GetIOZone(meta.start) # {} /\ ~(n < 0)
    BY <1>2
  <2>3. CASE n = 0
    BY <1>2, <2>1, <2>2, <2>3 DEF Recover
  <2>4. CASE n # 0
    BY <1>2, <2>1, <2>2, <2>4 DEF Recover
  <2> QED BY <2>3, <2>4
<1> QED BY <1>1, <1>2

(* Recovery succeeds and finds the bytes of the file.                       *)
LEMMA RecoverFacts ==
  ASSUME NEW d, NEW w, NEW f, NEW dr, NEW pad, Recoverable(mode, d, w, f, meta, dr, pad)
  PROVE  \E x, p : /\ Recover(d, w) = [ok |-> TRUE, extents |-> x]
                   /\ Recovered(mode, d, w, f, dr, pad, x, p)
<1>1. /\ Laid(mode, d, w, f, meta) /\ Recovers(mode, d, w, f, meta, dr, pad) /\ dr \in Seq(Byte)
      /\ mode = "sparse" \/ meta.start = NoExtent => dr = <<>>
  BY DEF Recoverable
<1>2. /\ mode \in Modes /\ Pointers(w) /\ d \in [Address -> Cell] /\ f \in Files /\ meta \in Metas
      /\ Begins(meta.extents, f.extents) /\ Sound(Hs(mode), w, f.extents)
      /\ Apart(Hs(mode), f.extents)
  BY <1>1 DEF Laid, Placement, Sizing
<1>3. meta.extents \in Seq(Ext) /\ meta.start \in Int /\ f.extents \in Seq(Ext)
  BY <1>2, FieldFacts
<1>4. Sound(Hs(mode), w, meta.extents) /\ Apart(Hs(mode), meta.extents)
  BY <1>2, <1>3, BeginsFacts
<1>5. CASE meta.start = NoExtent
  <2>1. meta.extents = f.extents /\ f.active = NoZone /\ dr = <<>>
    BY <1>1, <1>5 DEF Recovers
  <2>2. Recover(d, w) = [ok |-> TRUE, extents |-> f.extents]
    BY <1>5, <2>1, RecoverCases
  <2>3. Recovered(mode, d, w, f, dr, pad, f.extents, 0)
    BY <1>1, <2>1, RecoveredWhole
  <2> QED BY <2>2, <2>3
<1>6. CASE meta.start # NoExtent
  <2>1. PICK z \in Zone : Home(mode, w, f, meta, z) /\ Reads(mode, d, w, f, meta, z, dr, pad)
    BY <1>1, <1>6 DEF Recovers
  <2>2. /\ Start(z) <= meta.start /\ meta.start <= w[z] /\ meta.start < Start(z) + ZoneSize
        /\ Aligned(meta.start) /\ Clear(Hs(mode), meta.extents, meta.start, w[z])
    BY <2>1 DEF Home
  <2>3. GetIOZone(meta.start) = {z}
    BY <1>3, <2>2, GetIOZoneFacts
  <2>4. w[z] \in Int
    BY <1>2, PointerFacts
  <2>5. PICK n \in Nat : w[z] - meta.start = n
    BY <1>3, <2>2, <2>4
  <2>6. CASE mode = "sparse"
    <3>1. PICK a \in Int, end \in Int, k \in Nat :
            a = meta.start /\ end = w[z] /\ k = Len(meta.extents)
      BY <1>3, <2>4, LenProperties
    <3>2. a <= end /\ n = end - a
      BY <2>2, <2>5, <3>1
    <3>3. Chain(d, a, end, k, f.extents)
      BY <2>1, <2>6, <3>1 DEF Reads
    <3>4. PICK top \in Int : top = end + BufferSize
      BY Constants
    <3>5. Scanned(d, a, end, top)
      <4>1. Under(w, a, end)
        BY <2>2, <2>4, <3>1 DEF Under
      <4>2. AllIn(d, a, n, Cell)
        <5>1. end = a + n
          BY <3>2
        <5>2. Grown(d, w, d, w)
          BY <1>2, GrownSelf
        <5> QED BY <4>1, <5>1, <5>2, GrownCells
      <4> QED BY <3>2, <3>4, <4>2 DEF Scanned
    <3>6. k <= Len(f.extents)
      BY <1>2, <3>1 DEF Begins
    <3>7. Chained(d, a, end, top, k, f.extents)
      BY <1>3, <3>2, <3>3, <3>5, <3>6 DEF Chained
    <3>8. PICK x : x = f.extents /\ x \in Seq(Ext)
      BY <1>3
    <3>9. Recover(d, w) = [ok |-> TRUE, extents |-> x]
      <4>1. CASE n = 0
        <5>1. Len(x) = k
          <6> SUFFICES ASSUME Len(x) # k PROVE FALSE
            OBVIOUS
          <6>1. k + 1 \in (k + 1)..Len(x)
            BY <3>6, <3>8, LenProperties
          <6>2. SegmentAt(a, k, x, k + 1) < end
            BY <3>3, <3>8, <6>1 DEF Chain, Link
          <6>3. a < end
            BY <6>2 DEF SegmentAt
          <6> QED BY <3>2, <4>1, <6>3
        <5>2. meta.extents = x
          <6>1. \A i \in 1..Len(meta.extents) : meta.extents[i] = x[i]
            BY <1>2, <3>8 DEF Begins
          <6>2. Len(meta.extents) = Len(x)
            BY <3>1, <5>1
          <6> QED BY <1>3, <3>8, <6>1, <6>2, SeqEqual
        <5>3. Recover(d, w) = [ok |-> TRUE, extents |-> meta.extents]
          BY <1>6, <2>3, <2>5, <4>1, RecoverCases
        <5> QED BY <5>2, <5>3
      <4>2. CASE n # 0
        <5>1. PICK more : more = RecoverSparseExtents(d, a, end)
          OBVIOUS
        <5>2. more = [ok |-> TRUE, extents |-> SubSeq(x, k + 1, Len(x))]
          BY <3>7, <3>8, <5>1, RecoverSparseFacts
        <5>3. Recover(d, w) = [ok |-> more.ok, extents |-> meta.extents \o more.extents]
          BY <1>6, <2>3, <2>5, <2>6, <3>1, <4>2, <5>1, RecoverCases
        <5>4. more.ok = TRUE /\ more.extents = SubSeq(x, k + 1, Len(x))
          BY <5>2
        <5>5. meta.extents \o SubSeq(x, k + 1, Len(x)) = x
          <6>1. Begins(meta.extents, x)
            BY <1>2, <3>8
          <6> QED BY <1>3, <3>1, <3>8, <6>1, BeginsRest
        <5> QED BY <5>3, <5>4, <5>5
      <4> QED BY <4>1, <4>2
    <3>10. Recovered(mode, d, w, f, dr, pad, x, 0)
      BY <1>1, <2>6, <3>8, RecoveredWhole
    <3> QED BY <3>9, <3>10
  <2>7. CASE mode # "sparse"
    <3>1. Hs(mode) = 0
      BY <2>7, HsFacts
    <3>2. PICK p \in 0..(B - 1) :
            (p = 0 \/ pad) /\ Kept(d, w, meta, z, StoredIn(mode, d, f) \o dr, p)
      BY <2>1, <2>7 DEF Reads
    <3>3. Resumes(d, w, meta, z)
      BY <1>2, <1>4, <2>2, <3>1 DEF Resumes
    <3>4. PICK x : x = Resumed(w, meta, z)
      OBVIOUS
    <3>5. x \in Seq(Ext) /\ Sound(0, w, x) /\ Apart(0, x) /\ Bytes(d, x) = Found(d, w, meta, z)
      BY <3>3, <3>4, ResumedFacts
    <3>6. Recover(d, w) = [ok |-> TRUE, extents |-> x]
      <4>1. CASE n = 0
        BY <1>6, <2>3, <2>5, <3>4, <4>1, RecoverCases DEF Resumed
      <4>2. CASE n # 0
        <5>1. PICK more : more = [ok |-> TRUE, extents |-> <<Extent(meta.start, n)>>]
          OBVIOUS
        <5>2. Recover(d, w) = [ok |-> more.ok, extents |-> meta.extents \o more.extents]
          BY <1>6, <2>3, <2>5, <2>7, <4>2, <5>1, RecoverCases
        <5>3. more.ok = TRUE /\ more.extents = <<Extent(meta.start, n)>>
          BY <5>1
        <5>4. x = meta.extents \o <<Extent(meta.start, n)>>
          BY <2>5, <3>4, <4>2 DEF Resumed
        <5> QED BY <5>2, <5>3, <5>4
      <4> QED BY <4>1, <4>2
    <3>7. Bytes(d, x) = (StoredIn(mode, d, f) \o dr) \o Zeros(p)
      BY <3>2, <3>5 DEF Kept
    <3>8. Recovered(mode, d, w, f, dr, pad, x, p)
      BY <3>1, <3>2, <3>5, <3>7 DEF Recovered
    <3> QED BY <3>6, <3>8
  <2> QED BY <2>6, <2>7
<1> QED BY <1>5, <1>6

-----------------------------------------------------------------------------
(* The state                                                                *)

(* The bytes in the buffer that are not in a zone yet.                      *)
BufferIs(r, p) ==
  IF r.failed THEN <<>>
  ELSE IF p \in {"flush", "realloc"} THEN SubSeq(r.buffer, 1, r.left) ELSE r.buffer

(* The file's bytes are those of the extents and those on their way.        *)
LEMMA DataIs ==
  /\ Data = (Stored \o Buffered) \o rest /\ Buffered = BufferIs(wr, pc)
  /\ Content = Bytes(dev, file.extents) /\ Unpushed = Pending(mode, dev, file)
  /\ HeaderSize = Hs(mode)
<1>1. Content = Bytes(dev, file.extents)
  BY DEF Content, Bytes
<1>2. Unpushed = Pending(mode, dev, file)
  BY DEF Unpushed, Pending
<1>3. Data = (Stored \o Buffered) \o rest
  BY <1>1, <1>2 DEF Data, Stored, StoredIn
<1>4. Buffered = BufferIs(wr, pc)
  BY DEF Buffered, BufferIs
<1>5. HeaderSize = Hs(mode)
  BY DEF HeaderSize, Hs
<1> QED BY <1>1, <1>2, <1>3, <1>4, <1>5

(* The same after a step.                                                   *)
LEMMA DataNext ==
  Data' = (StoredIn(mode', dev', file') \o BufferIs(wr', pc')) \o rest'
<1>1. Content' = Bytes(dev', file'.extents)
  BY DEF Content, Bytes
<1>2. Unpushed' = Pending(mode', dev', file')
  BY DEF Unpushed, Pending
<1>3. Buffered' = BufferIs(wr', pc')
  BY DEF Buffered, BufferIs
<1>4. Data' = ((Content' \o Unpushed') \o Buffered') \o rest'
  BY DEF Data
<1> QED BY <1>1, <1>2, <1>3, <1>4 DEF StoredIn

(* The parts of the data.                                                   *)
Parts(s, b, r, d) ==
  s \in Seq(Byte) /\ b \in Seq(Byte) /\ r \in Seq(Byte) /\ d = (s \o b) \o r
(* The file is the bytes on the device, in the buffer and not buffered yet. *)
LEMMA PartsFacts ==
  ASSUME NEW s, NEW b, NEW r, NEW d, Parts(s, b, r, d)
  PROVE  /\ d \in Seq(Byte) /\ d \in Seq(Int) /\ Len(d) = Len(s) + (Len(b) + Len(r))
         /\ Len(s) \in Nat /\ Len(b) \in Nat /\ Len(r) \in Nat
         /\ d = s \o (b \o r) /\ Joint(s, b \o r, d) /\ Joint(s \o b, r, d)
         /\ s \o b \in Seq(Byte) /\ b \o r \in Seq(Byte)
         /\ r = <<>> => d = s \o b
         /\ b = <<>> => d = s \o r
<1>1. s \in Seq(Byte) /\ b \in Seq(Byte) /\ r \in Seq(Byte) /\ d = (s \o b) \o r
  BY DEF Parts
<1>2. s \in Seq(Int) /\ b \in Seq(Int) /\ r \in Seq(Int)
  BY <1>1, SeqInt
<1>3. d = s \o (b \o r)
  BY <1>1, <1>2, Assoc
<1>4. /\ s \o b \in Seq(Byte) /\ b \o r \in Seq(Byte) /\ d \in Seq(Byte)
      /\ Len(b \o r) = Len(b) + Len(r)
  BY <1>1, ConcatProperties
<1>5. s \o b \in Seq(Int) /\ b \o r \in Seq(Int) /\ d \in Seq(Int)
  BY <1>4, SeqInt
<1>6. Len(d) = Len(s) + Len(b \o r)
  BY <1>1, <1>3, <1>4, ConcatProperties
<1>7. Len(s) \in Nat /\ Len(b) \in Nat /\ Len(r) \in Nat
  BY <1>1, LenProperties
<1>8. Joint(s, b \o r, d) /\ Joint(s \o b, r, d)
  BY <1>1, <1>2, <1>3, <1>5 DEF Joint
<1>9. r = <<>> => d = s \o b
  BY <1>1, <1>4, ConcatEmptySeq
<1>10. b = <<>> => d = s \o r
  <2>1. <<>> \o r = r
    BY <1>1, ConcatEmptySeq
  <2> QED BY <1>3, <2>1
<1> QED BY <1>3, <1>4, <1>5, <1>6, <1>7, <1>8, <1>9, <1>10

(* Fields of a writer.                                                      *)
LEMMA WriterFacts ==
  ASSUME NEW r \in Writers
  PROVE  /\ r.open \in BOOLEAN /\ r.failed \in BOOLEAN /\ r.truncated \in BOOLEAN
         /\ r.buffer \in Seq(Byte) /\ r.left \in Nat /\ r.wp \in Nat /\ Len(r.buffer) \in Nat
<1>1. /\ r.open \in BOOLEAN /\ r.failed \in BOOLEAN /\ r.truncated \in BOOLEAN
      /\ r.buffer \in Seq(Byte) /\ r.left \in Nat /\ r.wp \in Nat
  BY DEF Writers
<1> QED BY <1>1, LenProperties

(* The bytes of the buffer are bytes.                                       *)
LEMMA BufferFacts ==
  ASSUME NEW r \in Writers, NEW p, r.left <= Len(r.buffer)
  PROVE  BufferIs(r, p) \in Seq(Byte)
<1>1. r.buffer \in Seq(Byte) /\ r.left \in Nat /\ Len(r.buffer) \in Nat
  BY WriterFacts
<1>2. Within(r.buffer, 1, r.left)
  BY <1>1, SeqInt DEF Within
<1>3. SubSeq(r.buffer, 1, r.left) \in Seq(Byte)
  BY <1>1, <1>2, ByteParts
<1>4. <<>> \in Seq(Byte)
  OBVIOUS
<1> QED BY <1>1, <1>3, <1>4 DEF BufferIs

(* What the invariant says of the state.                                    *)
LEMMA StateFacts ==
  ASSUME FileInv
  PROVE  /\ mode \in Modes /\ wr \in Writers /\ pc \in Steps /\ op \in Ops
         /\ rest \in Seq(Byte) /\ dropped \in Seq(Byte) /\ synced \in Nat /\ given \in Byte
         /\ Pointers(wp) /\ dev \in [Address -> Cell] /\ file \in Files /\ meta \in Metas
         /\ Stored \in Seq(Byte) /\ Len(Stored) = file.size /\ file.size \in Nat
         /\ Parts(Stored, BufferIs(wr, pc), rest, Data)
         /\ synced <= file.size
<1>1. /\ mode \in Modes /\ wr \in Writers /\ pc \in Steps /\ op \in Ops
      /\ rest \in Seq(Byte) /\ dropped \in Seq(Byte) /\ synced \in Nat /\ given \in Byte
  BY DEF FileInv, Types
<1>2. Laid(mode, dev, wp, file, meta) /\ synced <= file.size
  BY DEF FileInv
<1>3. /\ Pointers(wp) /\ dev \in [Address -> Cell] /\ file \in Files /\ meta \in Metas
      /\ Stored \in Seq(Byte)
  BY <1>2 DEF Laid, Sizing, Stored
<1>4. Len(Stored) = file.size /\ file.size \in Nat
  BY <1>2, <1>3, StoredFacts, FieldFacts DEF Stored
<1>5. BufferIs(wr, pc) \in Seq(Byte)
  BY <1>1, BufferFacts DEF FileInv, Buffer
<1>6. Parts(Stored, BufferIs(wr, pc), rest, Data)
  BY <1>1, <1>3, <1>5, DataIs DEF Parts
<1> QED BY <1>1, <1>2, <1>3, <1>4, <1>6

(* The constants TypeOK needs are in range.                                 *)
LEMMA InvTypeOK ==
  ASSUME FileInv
  PROVE  TypeOK
<1>1. /\ mode \in Modes /\ wr \in Writers /\ pc \in Steps /\ synced \in Nat
      /\ Pointers(wp) /\ dev \in [Address -> Cell] /\ file \in Files
      /\ Len(Stored) = file.size /\ file.size \in Nat
      /\ Parts(Stored, BufferIs(wr, pc), rest, Data) /\ synced <= file.size
  BY StateFacts
<1>2. \A z \in Zone : wp[z] - Start(z) \in 0..ZoneCap /\ wp[z] % B = 0
  <2> SUFFICES ASSUME NEW z \in Zone PROVE wp[z] - Start(z) \in 0..ZoneCap /\ wp[z] % B = 0
    OBVIOUS
  <2>1. /\ wp[z] \in Int /\ Start(z) <= wp[z] /\ wp[z] <= Start(z) + ZoneCap /\ Aligned(wp[z])
        /\ Start(z) \in Nat
    BY <1>1, PointerFacts
  <2>2. wp[z] % B = 0
    BY <2>1 DEF Aligned
  <2> QED BY <2>1, <2>2, Constants
<1>3. file.active \in Zone \cup {NoZone} /\ file.size \in Nat /\ file.filepos \in Nat
  BY <1>1 DEF Files
<1>4. wr.left \in 0..Len(wr.buffer) /\ Len(wr.buffer) <= BufSize
  BY <1>1, WriterFacts DEF FileInv, Buffer
<1>5. synced \in 0..Len(Data)
  <2>1. PICK l \in Nat, i \in Nat, j \in Nat, k \in Nat :
          l = Len(Data) /\ i = Len(Stored) /\ j = Len(BufferIs(wr, pc)) /\ k = Len(rest)
    BY <1>1, PartsFacts, LenProperties
  <2>2. l = i + (j + k)
    <3>1. Len(Data) = Len(Stored) + (Len(BufferIs(wr, pc)) + Len(rest))
      BY <1>1, PartsFacts
    <3> QED BY <2>1, <3>1
  <2>3. synced <= l
    BY <1>1, <2>1, <2>2
  <2> QED BY <1>1, <2>1, <2>3
<1>6. DOMAIN dev = Address
  BY <1>1
<1> QED BY <1>1, <1>2, <1>3, <1>4, <1>5, <1>6 DEF TypeOK, Steps

(* The extents and the data not pushed yet are as the assertions say.       *)
LEMMA InvExtentsSound ==
  ASSUME FileInv
  PROVE  ExtentsSound
<1>1. /\ Pointers(wp) /\ file \in Files /\ meta \in Metas /\ Laid(mode, dev, wp, file, meta)
      /\ mode \in Modes
  BY StateFacts DEF FileInv
<1>2. PICK x, h : x = file.extents /\ h = Hs(mode) /\ x \in Seq(Ext) /\ h \in Nat
  <2>1. file.extents \in Seq(Ext) /\ Hs(mode) \in Nat
    BY <1>1, FieldFacts, HsFacts
  <2> QED BY <2>1
<1>3. Sound(h, wp, x) /\ Apart(h, x) /\ Opened(mode, wp, file)
  BY <1>1, <1>2 DEF Laid, Placement
<1>4. HeaderSize = h /\ Unpushed = Pending(mode, dev, file)
  BY <1>2, DataIs
<1>5. \A e : Blocks(e) = Span(h, e)
  BY <1>4 DEF Blocks, Span
<1>6. ASSUME NEW i \in DOMAIN x
      PROVE  /\ (x[i].start - HeaderSize) % B = 0 /\ x[i].length > 0
             /\ \E z \in Zone : Start(z) <= x[i].start /\ x[i].start + x[i].length <= wp[z]
             /\ \A j \in DOMAIN x : i # j => Blocks(x[i]) \cap Blocks(x[j]) = {}
  <2>1. /\ Aligned(x[i].start - h)
        /\ \E z \in Zone : Start(z) <= x[i].start - h /\ x[i].start + x[i].length <= wp[z]
    BY <1>1, <1>2, <1>3, SoundFacts
  <2>2. x[i].start \in Int /\ x[i].length > 0
    BY <1>2, ExtFacts
  <2>3. \E z \in Zone : Start(z) <= x[i].start /\ x[i].start + x[i].length <= wp[z]
    <3>1. PICK z \in Zone : Start(z) <= x[i].start - h /\ x[i].start + x[i].length <= wp[z]
      BY <2>1
    <3>2. Start(z) \in Nat
      BY ZoneFacts
    <3>3. Start(z) <= x[i].start
      BY <1>2, <2>2, <3>1, <3>2
    <3> QED BY <3>1, <3>3
  <2>4. (x[i].start - HeaderSize) % B = 0
    BY <1>4, <2>1 DEF Aligned
  <2>5. \A j \in DOMAIN x : i # j => Blocks(x[i]) \cap Blocks(x[j]) = {}
    BY <1>3, <1>5 DEF Apart
  <2> QED BY <2>2, <2>3, <2>4, <2>5
<1>7. file.size = SumLengths(x) + Len(Unpushed)
  BY <1>1, <1>2, <1>4 DEF Laid, Sizing
<1>8. ASSUME file.active # NoZone PROVE file.start + Len(Unpushed) <= wp[file.active]
  <2>1. file.active \in Zone /\ file.start \in Int
    BY <1>1, <1>8, FieldFacts
  <2>2. CASE mode = "direct"
    <3>1. Len(Unpushed) = file.size - file.filepos
      BY <1>1, <1>4, <1>8, <2>2, StoredFacts
    <3> QED BY <1>3, <1>8, <2>2, <3>1 DEF Opened
  <2>3. CASE mode # "direct"
    <3>1. Len(Unpushed) = 0
      <4>1. Unpushed = <<>>
        BY <1>1, <1>4, <2>3, StoredFacts
      <4> QED BY <4>1
    <3>2. file.start = wp[file.active]
      BY <1>3, <1>8, <2>3 DEF Opened
    <3> QED BY <2>1, <3>1, <3>2
  <2> QED BY <2>2, <2>3
<1>9. \A i \in DOMAIN file.extents :
        LET e == file.extents[i] IN
        /\ (e.start - HeaderSize) % B = 0 /\ e.length > 0
        /\ \E z \in Zone : Start(z) <= e.start /\ e.start + e.length <= wp[z]
        /\ \A j \in DOMAIN file.extents : i # j => Blocks(e) \cap Blocks(file.extents[j]) = {}
  BY <1>2, <1>6
<1> QED BY <1>2, <1>7, <1>8, <1>9 DEF ExtentsSound

(* The bytes of the file are its own.                                       *)
LEMMA InvOwnBytes ==
  ASSUME FileInv
  PROVE  OwnBytes
<1>1. pc # "unmountable"
  BY DEF FileInv, Control
<1>2. Data \in Seq(Byte)
  BY StateFacts, PartsFacts
<1>3. \A i \in DOMAIN Data : Data[i] \in Byte
  <2>1. DOMAIN Data = 1..Len(Data)
    BY <1>2, LenProperties
  <2> QED BY <1>2, <2>1, ElementOfSeq
<1> QED BY <1>1, <1>3 DEF OwnBytes, Byte

-----------------------------------------------------------------------------
(* The steps                                                                *)

(* A crash tears no write of a sparse file, and a full zone does not end    *)
(* where the next one starts.                                               *)
Benign == "sparse" \notin TornModes /\ (ZoneCap < ZoneSize \/ "direct" \notin Modes)

(* Calls.                                                                   *)
LEMMA OpsFacts ==
  ASSUME NEW name \in Names, NEW n \in Nat
  PROVE  [name |-> name, size |-> n] \in Ops
BY DEF Ops

(* A prefix is one for both modules.                                        *)
LEMMA PrefixSame ==
  ASSUME NEW s, NEW t
  PROVE  File!IsPrefix(s, t) <=> IsPrefix(s, t)
BY DEF File!IsPrefix, IsPrefix

(* Append hands bytes to the file.                                          *)
LEMMA AppendCallStep ==
  ASSUME FileInv, NEW n \in Sizes, AppendCall(n)
  PROVE  FileInv' /\ File!AppendBytes
<1>1. /\ mode \in Modes /\ wr \in Writers /\ op \in Ops /\ rest \in Seq(Byte)
      /\ dropped \in Seq(Byte) /\ synced \in Nat /\ given \in Byte
      /\ Parts(Stored, BufferIs(wr, pc), rest, Data) /\ synced <= file.size
  BY StateFacts
<1>2. /\ wr.open /\ pc = "idle" /\ ~wr.failed /\ ~wr.truncated /\ given + n <= MaxBytes
      /\ op' = [name |-> "append", size |-> n] /\ rest' = [i \in 1..n |-> given + i]
      /\ given' = given + n /\ pc' = IF mode = "direct" THEN "write" ELSE "buffer"
      /\ mode = "direct" => n % B = 0
      /\ UNCHANGED <<mode, dev, wp, file, meta, wr, synced, dropped>>
  BY DEF AppendCall, Ready, Call, devVars
<1>3. n \in Nat /\ given \in Nat /\ MaxBytes \in Nat
  BY <1>1, FileIOAssumption DEF Byte
<1>4. rest' \in Seq(Byte) /\ Len(rest') = n
  <2>1. \A i \in 1..n : given + i \in Byte
    BY <1>2, <1>3 DEF Byte
  <2> QED BY <1>2, <1>3, <2>1
<1>5. Types'
  <2>1. given' \in Byte
    BY <1>2, <1>3 DEF Byte
  <2>2. op' \in Ops
    <3>1. "append" \in Names
      BY DEF Names
    <3>2. [name |-> "append", size |-> n] \in Ops
      BY <1>3, <3>1, OpsFacts
    <3> QED BY <1>2, <3>2
  <2>3. pc' \in Steps
    BY <1>2 DEF Steps
  <2> QED BY <1>1, <1>2, <1>4, <2>1, <2>2, <2>3 DEF Types
<1>6. Control'
  <2>1. mode = "direct" => Aligned(Len(rest'))
    BY <1>2, <1>4 DEF Aligned
  <2> QED BY <1>2, <2>1 DEF FileInv, Control
<1>7. Buffer'
  BY <1>2 DEF FileInv, Buffer, Flushing, BufSize, HeaderSize
<1>8. Active'
  BY <1>2 DEF FileInv, Active
<1>9. MayPad' = MayPad
  BY <1>2 DEF MayPad
<1>10. FileInv'
  BY <1>2, <1>5, <1>6, <1>7, <1>8, <1>9 DEF FileInv
<1>11. File!AppendBytes
  <2>1. rest = <<>>
    BY <1>2 DEF FileInv, Control
  <2>2. BufferIs(wr', pc') = BufferIs(wr, pc)
    BY <1>2 DEF BufferIs
  <2>3. Data' = (Stored \o BufferIs(wr, pc)) \o rest'
    BY <1>2, <2>2, DataNext DEF Stored
  <2>4. Data = Stored \o BufferIs(wr, pc)
    BY <1>1, <2>1, PartsFacts
  <2>5. Joint(Data, rest', Data')
    BY <1>1, <1>4, <2>3, <2>4, PartsFacts, SeqInt DEF Joint
  <2>6. IsPrefix(Data, Data')
    BY <2>5, JointParts
  <2>7. File!IsPrefix(Data, Data')
    BY <2>6, PrefixSame
  <2> QED BY <1>2, <2>7 DEF File!AppendBytes
<1> QED BY <1>10, <1>11

(* Room in a zone.                                                          *)
LEMMA CapacityFacts ==
  ASSUME NEW w, Pointers(w), NEW z \in Zone
  PROVE  /\ CapacityLeft(w, z) \in Nat /\ Aligned(CapacityLeft(w, z))
         /\ w[z] + CapacityLeft(w, z) = Start(z) + ZoneCap
         /\ CapacityLeft(w, z) > 0 => w[z] < Start(z) + ZoneSize
<1>1. /\ w[z] \in Int /\ Start(z) <= w[z] /\ w[z] <= Start(z) + ZoneCap /\ Aligned(w[z])
      /\ Start(z) \in Nat /\ Aligned(Start(z))
  BY PointerFacts, ZoneFacts
<1>2. ZoneCap \in Nat /\ ZoneSize \in Nat /\ ZoneCap <= ZoneSize /\ Aligned(ZoneCap)
  BY Constants
<1>3. CapacityLeft(w, z) = ZoneCap - (w[z] - Start(z))
  BY DEF CapacityLeft
<1>4. PICK p \in Int, q \in Int : p = w[z] /\ q = Start(z)
  BY <1>1
<1>5. PICK k \in Int : k = p - q
  OBVIOUS
<1>6. Aligned(k)
  BY <1>1, <1>4, <1>5, AlignedSum
<1>7. ZoneCap \in Int /\ Aligned(ZoneCap - k)
  BY <1>2, <1>6, AlignedSum
<1>8. CapacityLeft(w, z) = ZoneCap - k
  BY <1>3, <1>4, <1>5
<1>9. /\ ZoneCap - k \in Nat /\ p + (ZoneCap - k) = q + ZoneCap
      /\ ZoneCap - k > 0 => p < q + ZoneSize
  BY <1>1, <1>2, <1>4, <1>5
<1> QED BY <1>4, <1>7, <1>8, <1>9

(* Zone::Append of cells that fit.                                          *)
LEMMA ZoneAppendStep ==
  ASSUME FileInv, NEW z \in Zone, NEW c \in Seq(Cell), Aligned(Len(c)),
         Len(c) <= CapacityLeft(wp, z), ZoneAppend(z, c)
  PROVE  Wrote(dev, wp, dev', wp', z, c)
<1>1. Pointers(wp) /\ dev \in [Address -> Cell]
  BY StateFacts
<1>2. /\ wp[z] \in Int /\ Start(z) \in Nat /\ ZoneCap \in Nat /\ Len(c) \in Nat
      /\ CapacityLeft(wp, z) \in Nat /\ wp[z] + CapacityLeft(wp, z) = Start(z) + ZoneCap
  BY <1>1, PointerFacts, CapacityFacts, Constants, LenProperties
<1>3. wp[z] + Len(c) <= Start(z) + ZoneCap
  BY <1>2
<1>4. dev' = AppendDev(dev, wp, z, c) /\ wp' = AppendWp(wp, z, c)
  BY DEF ZoneAppend, AppendDev, AppendWp
<1> QED BY <1>1, <1>3, <1>4, AppendFacts

(* A step that the reader of the file does not see.                         *)
LEMMA QuietStep ==
  ASSUME FileInv, Data' = Data, mode' = mode, synced' = synced, dropped' = dropped
  PROVE  File!Sync
<1>1. synced \in 0..Len(Data) /\ synced \in Nat
  BY InvTypeOK, StateFacts DEF TypeOK
<1>2. Len(Data) \in Nat
  BY StateFacts, PartsFacts, LenProperties
<1>3. synced' \in synced..Len(Data)
  BY <1>1, <1>2
<1> QED BY <1>3 DEF File!Sync

(* An append that fails leaves the bytes that are in a zone.                *)
LEMMA FailStep ==
  ASSUME FileInv, pc \in {"write", "flush", "realloc"}, Fail,
         Laid(mode, dev, wp, file', meta), StoredIn(mode, dev, file') = Stored,
         file'.active = NoZone,
         Recovers(mode, dev, wp, file', meta, <<>>, mode = "buffered")
  PROVE  FileInv' /\ File!Fail
<1>1. /\ mode \in Modes /\ wr \in Writers /\ op \in Ops /\ rest \in Seq(Byte)
      /\ dropped \in Seq(Byte) /\ synced \in Nat /\ given \in Byte
      /\ Parts(Stored, BufferIs(wr, pc), rest, Data) /\ synced <= file.size
      /\ Len(Stored) = file.size /\ file.size \in Nat /\ Stored \in Seq(Byte)
  BY StateFacts
<1>2. /\ pc' = "idle" /\ rest' = <<>> /\ wr' = [wr EXCEPT !.failed = TRUE]
      /\ UNCHANGED <<mode, dev, wp, meta, op, synced, dropped, given>>
  BY DEF Fail, devVars
<1>3. wr.open /\ ~wr.failed /\ ~wr.truncated /\ dropped = <<>>
  BY <1>1, WriterFacts DEF FileInv, Control
<1>4. /\ wr' \in Writers /\ wr'.open = wr.open /\ wr'.failed /\ wr'.truncated = wr.truncated
      /\ wr'.buffer = wr.buffer /\ wr'.left = wr.left
  BY <1>1, <1>2 DEF Writers
<1>5. file'.size = file.size
  <2>1. Len(StoredIn(mode, dev, file')) = file'.size
    BY StoredFacts
  <2> QED BY <1>1, <2>1
<1>6. Types'
  <2>1. <<>> \in Seq(Byte) /\ "idle" \in Steps
    BY DEF Steps
  <2> QED BY <1>1, <1>2, <1>4, <2>1 DEF Types
<1>7. Control'
  <2>1. Aligned(Len(<<>>))
    <3>1. Len(<<>>) = 0
      OBVIOUS
    <3> QED BY <3>1, AlignedZero
  <2> QED BY <1>2, <1>3, <1>4, <2>1 DEF FileInv, Control
<1>8. Buffer'
  BY <1>2, <1>4 DEF FileInv, Buffer, Flushing, BufSize, HeaderSize
<1>9. Active'
  BY <1>2, <1>3, <1>4 DEF Active
<1>10. MayPad' = (mode = "buffered")
  BY <1>2, <1>4 DEF MayPad
<1>11. FileInv'
  BY <1>1, <1>2, <1>3, <1>5, <1>6, <1>7, <1>8, <1>9, <1>10 DEF FileInv
<1>12. Data' = Stored
  <2>1. BufferIs(wr', pc') = <<>>
    BY <1>4 DEF BufferIs
  <2>2. Data' = (Stored \o <<>>) \o <<>>
    BY <1>2, <2>1, DataNext
  <2> QED BY <1>1, <2>2, ConcatEmptySeq
<1>13. File!IsPrefix(Stored, Data)
  <2>1. Joint(Stored, BufferIs(wr, pc) \o rest, Data)
    BY <1>1, PartsFacts
  <2> QED BY <2>1, JointParts, PrefixSame
<1>14. Len(Data') >= synced
  BY <1>1, <1>12
<1> QED BY <1>2, <1>11, <1>12, <1>13, <1>14 DEF File!Fail

(* A new zone for a file whose data is all in extents.                      *)
Retargeted(f, z, g) ==
  /\ g \in Files /\ g.extents = f.extents /\ g.size = f.size /\ g.active = z
  /\ g.start = wp[z] /\ g.filepos = g.size
(* AllocateNewZone leaves the data alone, and its record recovers the file. *)
LEMMA AllocateFacts ==
  ASSUME NEW f, Laid(mode, dev, wp, f, meta), Pending(mode, dev, f) = <<>>, AllocateNewZone(f)
  PROVE  /\ Laid(mode, dev, wp, file', meta') /\ StoredIn(mode, dev, file') = StoredIn(mode, dev, f)
         /\ Recovers(mode, dev, wp, file', meta', <<>>, FALSE)
         /\ \E z \in Zone : Retargeted(f, z, file') /\ CapacityLeft(wp, z) > 0
<1>1. PICK z \in Zone : /\ CapacityLeft(wp, z) > 0
                        /\ file' = [f EXCEPT !.active = z, !.start = wp[z], !.filepos = f.size]
  BY DEF AllocateNewZone
<1>2. meta' = EncodeTo(file')
  BY DEF AllocateNewZone
<1>3. f \in Files /\ Pointers(wp)
  BY DEF Laid
<1>4. wp[z] \in Int /\ wp[z] < Start(z) + ZoneSize /\ z # NoZone
  BY <1>1, <1>3, PointerFacts, CapacityFacts, ZoneFacts
<1>5. PICK g : g = file'
  OBVIOUS
<1>6. /\ g \in Files /\ g.extents = f.extents /\ g.size = f.size /\ g.active = z
      /\ g.start = wp[z] /\ g.filepos = g.size
  BY <1>1, <1>3, <1>4, <1>5 DEF Files
<1>7. /\ Laid(mode, dev, wp, g, meta) /\ StoredIn(mode, dev, g) = StoredIn(mode, dev, f)
      /\ Pending(mode, dev, g) = <<>>
  BY <1>1, <1>6, Retarget
<1>8. PICK r : r = EncodeTo(g)
  OBVIOUS
<1>9. Laid(mode, dev, wp, g, r) /\ Recovers(mode, dev, wp, g, r, <<>>, FALSE)
  BY <1>4, <1>6, <1>7, <1>8, FreshRecord
<1>10. meta' = r
  BY <1>2, <1>5, <1>8
<1> QED BY <1>1, <1>5, <1>6, <1>7, <1>9, <1>10 DEF Retargeted

(* The data of a direct file in extents.                                    *)
LEMMA PushStep ==
  ASSUME FileInv, mode = "direct", NEW p, p = PushExtent(file), file.active # NoZone
  PROVE  /\ Laid(mode, dev, wp, p, meta) /\ StoredIn(mode, dev, p) = Stored
         /\ Pending(mode, dev, p) = <<>> /\ p.active = file.active /\ p.size = file.size
         /\ p.filepos = p.size /\ p \in Files
         /\ file.filepos = file.size => p = file
         /\ file.filepos # file.size => p.start = wp[file.active]
<1>1. Laid(mode, dev, wp, file, meta)
  BY DEF FileInv
<1>2. p = Push(wp, file)
  BY DEF PushExtent, Push
<1>3. p \in Files
  <2>1. Laid(mode, dev, wp, p, meta)
    BY <1>1, <1>2, PushFacts
  <2> QED BY <2>1 DEF Laid
<1> QED BY <1>1, <1>2, <1>3, PushFacts DEF Stored

(* A direct file that has no room gets a zone, or fails.                    *)
LEMMA DirectAllocateStep ==
  ASSUME FileInv, DirectAllocate
  PROVE  FileInv' /\ (File!Sync \/ File!Fail)
<1>1. /\ mode \in Modes /\ wr \in Writers /\ op \in Ops /\ rest \in Seq(Byte)
      /\ dropped \in Seq(Byte) /\ synced \in Nat /\ given \in Byte /\ pc \in Steps
      /\ synced <= file.size /\ file \in Files
      /\ Len(Stored) = file.size /\ file.size \in Nat /\ Stored \in Seq(Byte)
  BY StateFacts
<1>2. pc = "write" /\ mode = "direct" /\ wr.open /\ ~wr.failed /\ ~wr.truncated /\ dropped = <<>>
  BY <1>1, WriterFacts DEF DirectAllocate, FileInv, Control
<1>3. /\ Laid(mode, dev, wp, file, meta) /\ Recovers(mode, dev, wp, file, meta, <<>>, FALSE)
  <2>1. MayPad = FALSE
    BY <1>2 DEF MayPad
  <2> QED BY <1>2, <2>1 DEF FileInv
<1>4. PICK p : p = IF file.active = NoZone THEN file ELSE PushExtent(file)
  OBVIOUS
<1>5. /\ Laid(mode, dev, wp, p, meta) /\ StoredIn(mode, dev, p) = Stored
      /\ Pending(mode, dev, p) = <<>> /\ p \in Files
  <2>1. CASE file.active = NoZone
    BY <1>1, <1>3, <1>4, <2>1 DEF Pending, Stored
  <2>2. CASE file.active # NoZone
    BY <1>2, <1>4, <2>2, PushStep
  <2> QED BY <2>1, <2>2
<1>6. PICK f : f = IF file.active = NoZone THEN file ELSE CloseActiveZone(PushExtent(file))
  OBVIOUS
<1>7. f \in Files /\ f.extents = p.extents /\ f.size = p.size /\ f.active = NoZone
  <2>1. CASE file.active = NoZone
    BY <1>1, <1>4, <1>6, <2>1
  <2>2. CASE file.active # NoZone
    <3>1. f = [p EXCEPT !.active = NoZone]
      BY <1>4, <1>6, <2>2 DEF CloseActiveZone
    <3> QED BY <1>5, <3>1 DEF Files
  <2> QED BY <2>1, <2>2
<1>8. /\ Laid(mode, dev, wp, f, meta) /\ StoredIn(mode, dev, f) = Stored
      /\ Pending(mode, dev, f) = <<>>
  BY <1>5, <1>7, Retarget
<1>9. CASE AllocateNewZone(f)
           /\ UNCHANGED <<mode, devVars, wr, callVars, synced, dropped, given, calls, crashes>>
  <2>1. UNCHANGED <<mode, dev, wp, wr, pc, op, rest, synced, dropped, given>>
    BY <1>9 DEF devVars, callVars
  <2>2. /\ Laid(mode, dev, wp, file', meta') /\ StoredIn(mode, dev, file') = Stored
        /\ Recovers(mode, dev, wp, file', meta', <<>>, FALSE)
    BY <1>8, <1>9, AllocateFacts
  <2>3. PICK z \in Zone : Retargeted(f, z, file') /\ CapacityLeft(wp, z) > 0
    BY <1>8, <1>9, AllocateFacts
  <2>4. z # NoZone /\ wp[z] \in Int
    BY <1>8, <2>3, ZoneFacts, PointerFacts DEF Laid
  <2>5. /\ file'.active = z /\ file'.size = file.size /\ file'.start = wp[z]
        /\ file'.filepos = file'.size
    <3>1. f.size = file.size
      <4>1. Len(StoredIn(mode, dev, f)) = f.size
        BY <1>8, StoredFacts
      <4> QED BY <1>1, <1>8, <4>1
    <3> QED BY <2>3, <3>1 DEF Retargeted
  <2>6. Types'
    BY <1>1, <2>1 DEF Types
  <2>7. Control'
    BY <2>1 DEF FileInv, Control
  <2>8. Buffer'
    BY <1>2, <2>1 DEF FileInv, Buffer, Flushing, BufSize, HeaderSize
  <2>9. Active'
    <3>1. file'.start + (file'.size - file'.filepos) = wp[z]
      BY <1>1, <2>4, <2>5
    <3> QED BY <1>2, <2>1, <2>4, <2>5, <3>1 DEF Active
  <2>10. MayPad' = FALSE
    BY <1>2, <2>1 DEF MayPad
  <2>11. FileInv'
    BY <1>1, <1>2, <2>1, <2>2, <2>5, <2>6, <2>7, <2>8, <2>9, <2>10 DEF FileInv
  <2>12. Data' = Data
    <3>1. Data' = (Stored \o BufferIs(wr, pc)) \o rest
      BY <2>1, <2>2, DataNext
    <3> QED BY <3>1, DataIs
  <2>13. File!Sync
    BY <2>1, <2>12, QuietStep
  <2> QED BY <2>11, <2>13
<1>10. CASE NoSpace /\ file' = f /\ Fail
  <2>1. Recovers(mode, dev, wp, f, meta, <<>>, mode = "buffered")
    <3>1. CASE file.active = NoZone
      BY <1>2, <1>3, <1>6, <3>1
    <3>2. CASE file.active # NoZone
      <4>1. meta.start # NoExtent
        BY <1>3, <3>2 DEF Recovers
      <4>2. StoredIn(mode, dev, file) \o <<>> = StoredIn(mode, dev, f) \o <<>>
        BY <1>8 DEF Stored
      <4> QED BY <1>2, <1>3, <1>7, <4>1, <4>2, RecoversSame
    <3> QED BY <3>1, <3>2
  <2>2. FileInv' /\ File!Fail
    BY <1>2, <1>7, <1>8, <1>10, <2>1, FailStep
  <2> QED BY <2>2
<1>11. /\ \/ /\ AllocateNewZone(f)
             /\ UNCHANGED <<mode, devVars, wr, callVars, synced, dropped, given, calls, crashes>>
          \/ NoSpace /\ file' = f /\ Fail
  BY <1>6 DEF DirectAllocate
<1> QED BY <1>9, <1>10, <1>11

(* The blocks of a direct write.                                            *)
LEMMA DirectCellsFacts ==
  ASSUME FileInv, pc = "write", HasRoom
  PROVE  \E k \in Nat : /\ Cut(rest, k, Len(rest)) /\ Aligned(k) /\ Aligned(Len(rest))
                        /\ k <= CapacityLeft(wp, file.active)
                        /\ DirectCells = SubSeq(rest, 1, k) /\ Len(DirectCells) = k
                        /\ DirectCells \in Seq(Byte) /\ file.active \in Zone
<1>1. rest \in Seq(Byte) /\ Pointers(wp) /\ file \in Files /\ meta \in Metas
  BY StateFacts
<1>2. mode = "direct" /\ Aligned(Len(rest))
  BY DEF FileInv, Control
<1>3. file.active \in Zone
  BY <1>1, FieldFacts DEF HasRoom
<1>4. PICK l \in Nat, a \in Nat : l = Len(rest) /\ a = CapacityLeft(wp, file.active)
  BY <1>1, <1>3, LenProperties, CapacityFacts
<1>5. Aligned(a) /\ Aligned(l)
  BY <1>1, <1>2, <1>3, <1>4, CapacityFacts
<1>6. PICK k : k = Min2(l, a)
  OBVIOUS
<1>7. k \in Nat /\ k <= l /\ k <= a /\ Aligned(k)
  BY <1>5, <1>6 DEF Min2
<1>8. rest \in Seq(Int)
  BY <1>1, SeqInt
<1>9. Cut(rest, k, Len(rest))
  BY <1>4, <1>7, <1>8 DEF Cut
<1>10. DirectCells = SubSeq(rest, 1, k)
  BY <1>4, <1>6 DEF DirectCells
<1>11. Len(SubSeq(rest, 1, k)) = k
  BY <1>9, CutFacts DEF Halves
<1>12. SubSeq(rest, 1, k) \in Seq(Byte)
  <2>1. Within(rest, 1, k)
    BY <1>4, <1>7, <1>8 DEF Within
  <2> QED BY <1>1, <2>1, ByteParts
<1> QED BY <1>3, <1>4, <1>5, <1>7, <1>9, <1>10, <1>11, <1>12

(* A direct write of the cells c to the zone z.                             *)
Writing(md, d, w, f, m, e, v, z, c, g) ==
  /\ Laid(md, d, w, f, m) /\ z \in Zone /\ c \in Seq(Byte) /\ Wrote(d, w, e, v, z, c)
  /\ Writes(md, w, f, z, c, g) /\ Recovers(md, d, w, f, m, <<>>, FALSE)

(* The file has the cells then.                                             *)
LEMMA WriteWhole ==
  ASSUME NEW md, NEW d, NEW w, NEW f, NEW m, NEW e, NEW v, NEW z, NEW c, NEW g,
         Writing(md, d, w, f, m, e, v, z, c, g)
  PROVE  /\ Laid(md, e, v, g, m) /\ StoredIn(md, e, g) = StoredIn(md, d, f) \o c
         /\ Recovers(md, e, v, g, m, <<>>, FALSE) /\ Ends(v, g)
         /\ Advanced(f, g, z, Len(c))
<1>1. /\ Laid(md, d, w, f, m) /\ z \in Zone /\ c \in Seq(Byte) /\ Wrote(d, w, e, v, z, c)
      /\ Writes(md, w, f, z, c, g) /\ Recovers(md, d, w, f, m, <<>>, FALSE)
  BY DEF Writing
<1> QED BY <1>1, WriteFacts

(* A direct write moves bytes from the caller to the zone.                  *)
LEMMA DirectWriteStep ==
  ASSUME FileInv, DirectWrite
  PROVE  FileInv' /\ File!Sync
<1>1. /\ mode \in Modes /\ wr \in Writers /\ op \in Ops /\ rest \in Seq(Byte)
      /\ dropped \in Seq(Byte) /\ synced \in Nat /\ given \in Byte /\ pc \in Steps
      /\ synced <= file.size /\ file \in Files
      /\ Len(Stored) = file.size /\ file.size \in Nat /\ Stored \in Seq(Byte)
  BY StateFacts
<1>2. pc = "write" /\ HasRoom /\ mode = "direct" /\ wr.open /\ ~wr.failed /\ ~wr.truncated
      /\ dropped = <<>> /\ wr.buffer = <<>> /\ op.name = "append"
  BY <1>1, WriterFacts DEF DirectWrite, FileInv, Control
<1>3. PICK k \in Nat : /\ Cut(rest, k, Len(rest)) /\ Aligned(k) /\ Aligned(Len(rest))
                       /\ k <= CapacityLeft(wp, file.active)
                       /\ DirectCells = SubSeq(rest, 1, k) /\ Len(DirectCells) = k
                       /\ DirectCells \in Seq(Byte) /\ file.active \in Zone
  BY <1>2, DirectCellsFacts
<1>4. PICK c, z : c = DirectCells /\ z = file.active
  OBVIOUS
<1>5. /\ ZoneAppend(z, c) /\ file' = [file EXCEPT !.size = @ + Len(c)]
      /\ rest' = SubSeq(rest, k + 1, Len(rest))
      /\ IF rest' = <<>> THEN pc' = "idle" /\ wr' = [wr EXCEPT !.wp = @ + op.size]
         ELSE UNCHANGED <<pc, wr>>
      /\ UNCHANGED <<mode, meta, op, synced, dropped, given>>
  BY <1>3, <1>4 DEF DirectWrite
<1>6. c \in Seq(Byte) /\ c \in Seq(Cell) /\ Len(c) = k /\ Aligned(Len(c)) /\ z \in Zone
      /\ Len(c) <= CapacityLeft(wp, z)
  BY <1>3, <1>4, SeqInt
<1>7. Wrote(dev, wp, dev', wp', z, c)
  BY <1>5, <1>6, ZoneAppendStep
<1>8. Ends(wp, file) /\ z # NoZone
  BY <1>2, <1>4 DEF FileInv, Active, Ends, HasRoom
<1>9. /\ Laid(mode, dev, wp, file, meta) /\ Recovers(mode, dev, wp, file, meta, <<>>, FALSE)
  <2>1. MayPad = FALSE
    BY <1>2 DEF MayPad
  <2> QED BY <1>2, <2>1 DEF FileInv
<1>10. Writes(mode, wp, file, z, c, file')
  BY <1>2, <1>4, <1>5, <1>8 DEF Writes
<1>11. /\ Laid(mode, dev', wp', file', meta)
       /\ StoredIn(mode, dev', file') = StoredIn(mode, dev, file) \o c
       /\ Recovers(mode, dev', wp', file', meta, <<>>, FALSE) /\ Ends(wp', file')
       /\ Advanced(file, file', z, Len(c))
  <2>1. Writing(mode, dev, wp, file, meta, dev', wp', z, c, file')
    BY <1>6, <1>7, <1>9, <1>10 DEF Writing
  <2>2. PICK e, v, g : e = dev' /\ v = wp' /\ g = file'
    OBVIOUS
  <2>3. Writing(mode, dev, wp, file, meta, e, v, z, c, g)
    BY <2>1, <2>2
  <2>4. /\ Laid(mode, e, v, g, meta) /\ StoredIn(mode, e, g) = StoredIn(mode, dev, file) \o c
        /\ Recovers(mode, e, v, g, meta, <<>>, FALSE) /\ Ends(v, g)
        /\ Advanced(file, g, z, Len(c))
    BY <2>3, WriteWhole
  <2> QED BY <2>2, <2>4
<1>12. file'.size = file.size + k /\ file'.active = z
  BY <1>6, <1>11 DEF Advanced
<1>13. /\ wr' \in Writers /\ wr'.open = wr.open /\ wr'.failed = wr.failed
       /\ wr'.truncated = wr.truncated /\ wr'.buffer = wr.buffer /\ wr'.left = wr.left
  <2>1. op.size \in Nat
    BY <1>1 DEF Ops
  <2>2. CASE rest' = <<>>
    BY <1>1, <1>5, <2>1, <2>2 DEF Writers
  <2>3. CASE rest' # <<>>
    BY <1>1, <1>5, <2>3
  <2> QED BY <2>2, <2>3
<1>14. pc' = IF rest' = <<>> THEN "idle" ELSE "write"
  BY <1>2, <1>5
<1>15. Joint(c, rest', rest) /\ Len(rest') = Len(rest) - k
  BY <1>3, <1>4, <1>5, CutWhole DEF Halves
<1>16. rest' \in Seq(Byte)
  <2>1. Within(rest, k + 1, Len(rest))
    BY <1>1, <1>3, LenProperties DEF Within, Cut
  <2> QED BY <1>1, <1>5, <2>1, ByteParts
<1>17. Types'
  <2>1. pc' \in Steps
    BY <1>14 DEF Steps
  <2> QED BY <1>1, <1>5, <1>13, <1>16, <2>1 DEF Types
<1>18. Control'
  <2>1. Aligned(Len(rest'))
    <3>1. PICK l \in Nat : l = Len(rest)
      BY <1>1, LenProperties
    <3>2. Aligned(l - k)
      BY <1>3, <3>1, AlignedSum
    <3> QED BY <1>15, <3>1, <3>2
  <2> QED BY <1>2, <1>5, <1>13, <1>14, <2>1 DEF Control
<1>19. Buffer'
  BY <1>2, <1>5, <1>13, <1>14 DEF FileInv, Buffer, Flushing, BufSize, HeaderSize
<1>20. Active'
  BY <1>2, <1>8, <1>11, <1>12, <1>13, <1>14 DEF Active, Ends
<1>21. MayPad' = FALSE
  BY <1>2, <1>5 DEF MayPad
<1>22. synced' <= file'.size
  BY <1>1, <1>5, <1>12
<1>23. FileInv'
  BY <1>2, <1>5, <1>11, <1>17, <1>18, <1>19, <1>20, <1>21, <1>22 DEF FileInv
<1>24. Data' = Data
  <2>1. BufferIs(wr, pc) = <<>> /\ BufferIs(wr', pc') = <<>>
    BY <1>2, <1>13, <1>14 DEF BufferIs
  <2>2. PICK s, r : s = Stored /\ r = rest' /\ s \in Seq(Int) /\ c \in Seq(Int) /\ r \in Seq(Int)
    <3>1. Stored \in Seq(Int) /\ c \in Seq(Int) /\ rest' \in Seq(Int)
      BY <1>1, <1>6, <1>16, SeqInt
    <3> QED BY <3>1
  <2>3. Data' = ((s \o c) \o <<>>) \o r
    BY <1>5, <1>11, <2>1, <2>2, DataNext DEF Stored
  <2>4. Data = (s \o <<>>) \o (c \o r)
    <3>1. rest = c \o r
      BY <1>15, <2>2 DEF Joint
    <3> QED BY <2>1, <2>2, <3>1, DataIs
  <2>5. s \o c \in Seq(Int)
    BY <2>2, ConcatProperties
  <2>6. (s \o c) \o <<>> = s \o c /\ s \o <<>> = s
    BY <2>2, <2>5, ConcatEmptySeq
  <2>7. (s \o c) \o r = s \o (c \o r)
    BY <2>2, Assoc
  <2> QED BY <2>3, <2>4, <2>6, <2>7
<1>25. File!Sync
  BY <1>5, <1>24, QuietStep
<1> QED BY <1>23, <1>25

(* The size of the buffer.                                                  *)
LEMMA BufSizeFacts ==
  ASSUME NEW md
  PROVE  /\ BufferSize - Hs(md) \in Nat /\ BufferSize - Hs(md) >= 1
         /\ md # "sparse" => Aligned(BufferSize - Hs(md))
<1>1. BufferSize \in Nat /\ BufferSize > 0 /\ Aligned(BufferSize) /\ B \in Nat
  BY Constants
<1>2. BufferSize >= B
  BY <1>1, AlignedZero
<1>3. Hs(md) \in Nat /\ Hs(md) < B /\ (md # "sparse" => Hs(md) = 0)
  BY HsFacts
<1>4. md # "sparse" => BufferSize - Hs(md) = BufferSize
  BY <1>1, <1>3
<1> QED BY <1>1, <1>2, <1>3, <1>4

(* Four parts in two orders of concatenation.                               *)
FourOf(s, b, a, r) == s \in Seq(Int) /\ b \in Seq(Int) /\ a \in Seq(Int) /\ r \in Seq(Int)
Regroups(s, b, a, r) == (s \o (b \o a)) \o r = (s \o b) \o (a \o r)

(* They are the same.                                                       *)
LEMMA FourParts ==
  ASSUME NEW s, NEW b, NEW a, NEW r, FourOf(s, b, a, r)
  PROVE  Regroups(s, b, a, r)
<1>1. s \in Seq(Int) /\ b \in Seq(Int) /\ a \in Seq(Int) /\ r \in Seq(Int)
  BY DEF FourOf
<1>2. s \o b \in Seq(Int) /\ b \o a \in Seq(Int) /\ a \o r \in Seq(Int)
  BY <1>1, ConcatProperties
<1>3. s \o (b \o a) = (s \o b) \o a
  BY <1>1, Assoc
<1>4. PICK t : t = s \o b /\ t \in Seq(Int)
  BY <1>2
<1>5. (t \o a) \o r = t \o (a \o r)
  BY <1>1, <1>4, Assoc
<1>6. (s \o (b \o a)) \o r = (s \o b) \o (a \o r)
  BY <1>3, <1>4, <1>5
<1> QED BY <1>6 DEF Regroups

(* A full buffer is to be flushed.                                          *)
LEMMA BufferFull ==
  ASSUME FileInv, pc = "buffer", Len(wr.buffer) = BufSize, pc' = "flush",
         wr' = [wr EXCEPT !.left = Len(wr.buffer)],
         UNCHANGED <<rest, mode, dev, wp, file, meta, op, synced, dropped, given>>
  PROVE  FileInv' /\ File!Sync
<1>1. /\ mode \in Modes /\ wr \in Writers /\ op \in Ops /\ rest \in Seq(Byte)
      /\ dropped \in Seq(Byte) /\ synced \in Nat /\ given \in Byte
  BY StateFacts
<1>2. mode # "direct" /\ wr.open /\ ~wr.failed /\ ~wr.truncated /\ op.name = "append"
  BY <1>1, WriterFacts DEF FileInv, Control
<1>3. PICK l \in Nat : l = Len(wr.buffer) /\ wr.buffer \in Seq(Byte) /\ wr.wp \in Nat
  BY <1>1, WriterFacts
<1>4. /\ wr' \in Writers /\ wr'.open = wr.open /\ wr'.failed = wr.failed
      /\ wr'.truncated = wr.truncated /\ wr'.buffer = wr.buffer /\ wr'.left = l
      /\ wr'.wp = wr.wp
  BY <1>1, <1>3 DEF Writers
<1>5. l = BufferSize - Hs(mode) /\ BufSize' = BufSize /\ BufSize = l
  <2>1. BufSize = BufferSize - Hs(mode) /\ BufSize' = BufSize
    BY DataIs DEF BufSize, HeaderSize
  <2> QED BY <1>3, <2>1
<1>6. l >= 1 /\ (mode = "buffered" => Aligned(l))
  BY <1>5, BufSizeFacts
<1>7. Types'
  BY <1>1, <1>4 DEF Types, Steps
<1>8. Control'
  BY <1>2, <1>4 DEF FileInv, Control
<1>9. Buffer'
  <2>1. wr.wp + 0 <= file.size
    BY <1>2 DEF FileInv, Buffer, Flushing
  <2>2. l - l = 0
    OBVIOUS
  <2> QED BY <1>3, <1>4, <1>5, <1>6, <2>1, <2>2 DEF Buffer, Flushing
<1>10. Active'
  BY <1>2, <1>4 DEF FileInv, Active
<1>11. MayPad' = MayPad
  BY <1>2, <1>4 DEF MayPad
<1>12. FileInv'
  BY <1>7, <1>8, <1>9, <1>10, <1>11 DEF FileInv
<1>13. Data' = Data
  <2>1. BufferIs(wr', pc') = SubSeq(wr.buffer, 1, l) /\ BufferIs(wr, pc) = wr.buffer
    BY <1>2, <1>4 DEF BufferIs
  <2>2. SubSeq(wr.buffer, 1, Len(wr.buffer)) = wr.buffer
    BY <1>3, SeqInt, PartWhole
  <2>3. BufferIs(wr', pc') = BufferIs(wr, pc)
    BY <1>3, <2>1, <2>2
  <2> QED BY <2>3, DataIs, DataNext DEF Stored
<1> QED BY <1>12, <1>13, QuietStep

(* Bytes are copied into the buffer.                                        *)
LEMMA BufferCopy ==
  ASSUME FileInv, pc = "buffer", Len(wr.buffer) # BufSize,
         NEW n, n = Min2(Len(rest), BufSize - Len(wr.buffer)),
         wr' = [wr EXCEPT !.buffer = @ \o SubSeq(rest, 1, n)],
         rest' = SubSeq(rest, n + 1, Len(rest)),
         pc' = IF rest' = <<>> THEN "idle" ELSE "buffer",
         UNCHANGED <<mode, dev, wp, file, meta, op, synced, dropped, given>>
  PROVE  FileInv' /\ File!Sync
<1>1. /\ mode \in Modes /\ wr \in Writers /\ op \in Ops /\ rest \in Seq(Byte)
      /\ dropped \in Seq(Byte) /\ synced \in Nat /\ given \in Byte /\ Stored \in Seq(Byte)
  BY StateFacts
<1>2. mode # "direct" /\ wr.open /\ ~wr.failed /\ ~wr.truncated /\ op.name = "append"
  BY <1>1, WriterFacts DEF FileInv, Control
<1>3. PICK l \in Nat, k \in Nat, q \in Nat :
        l = Len(wr.buffer) /\ k = Len(rest) /\ q = BufSize /\ l <= q
  <2>1. BufSize \in Nat
    BY BufSizeFacts, DataIs DEF BufSize
  <2> QED BY <1>1, <2>1, WriterFacts, LenProperties DEF FileInv, Buffer
<1>4. n \in Nat /\ n <= k /\ l + n <= q
  <2>1. n = IF k < q - l THEN k ELSE q - l
    BY <1>3 DEF Min2
  <2> QED BY <1>3, <2>1, SMTT(40)
<1>5. PICK a, r : a = SubSeq(rest, 1, n) /\ r = rest'
  OBVIOUS
<1>6. Joint(a, r, rest) /\ Len(a) = n
  <2>1. Cut(rest, n, Len(rest))
    BY <1>1, <1>3, <1>4, SeqInt DEF Cut
  <2>2. /\ Halves(rest, n, Len(rest))
        /\ Joint(SubSeq(rest, 1, n), SubSeq(rest, n + 1, Len(rest)), rest)
    BY <2>1, CutWhole
  <2>3. Len(SubSeq(rest, 1, n)) = n
    BY <2>2 DEF Halves
  <2> QED BY <1>5, <2>2, <2>3
<1>7. a \in Seq(Byte) /\ r \in Seq(Byte)
  <2>1. Within(rest, 1, n) /\ Within(rest, n + 1, Len(rest))
    BY <1>1, <1>3, <1>4, SeqInt, SMTT(40) DEF Within
  <2> QED BY <1>1, <1>5, <2>1, ByteParts
<1>8. wr.buffer \in Seq(Byte) /\ wr.left \in Nat
  BY <1>1, WriterFacts
<1>9. wr.buffer \o a \in Seq(Byte) /\ Len(wr.buffer \o a) = l + n
  BY <1>3, <1>6, <1>7, <1>8, ConcatProperties
<1>10. /\ wr' \in Writers /\ wr'.open = wr.open /\ wr'.failed = wr.failed
       /\ wr'.truncated = wr.truncated /\ wr'.buffer = wr.buffer \o a /\ wr'.left = wr.left
       /\ wr'.wp = wr.wp
  BY <1>1, <1>5, <1>9 DEF Writers
<1>11. Types'
  BY <1>1, <1>5, <1>7, <1>10 DEF Types, Steps
<1>12. Control'
  BY <1>2, <1>10 DEF FileInv, Control
<1>13. Buffer'
  <2>1. BufSize' = BufSize
    BY DEF BufSize, HeaderSize
  <2>2. wr.left <= l + n /\ l + n <= BufSize
    <3>1. wr.left <= l
      BY <1>3 DEF FileInv, Buffer
    <3> QED BY <1>3, <1>4, <1>8, <3>1
  <2>3. wr.wp + 0 <= file.size
    BY <1>2 DEF FileInv, Buffer, Flushing
  <2> QED BY <1>9, <1>10, <2>1, <2>2, <2>3 DEF Buffer, Flushing
<1>14. Active'
  BY <1>2, <1>10 DEF FileInv, Active
<1>15. MayPad' = MayPad
  BY <1>2, <1>10 DEF MayPad
<1>16. FileInv'
  BY <1>11, <1>12, <1>13, <1>14, <1>15 DEF FileInv
<1>17. Data' = Data
  <2>1. BufferIs(wr', pc') = wr.buffer \o a /\ BufferIs(wr, pc) = wr.buffer
    BY <1>2, <1>10 DEF BufferIs
  <2>2. rest = a \o r
    BY <1>6 DEF Joint
  <2>3. Data' = (Stored \o (wr.buffer \o a)) \o r
    BY <1>5, <2>1, DataNext DEF Stored
  <2>4. Data = (Stored \o wr.buffer) \o (a \o r)
    BY <2>1, <2>2, DataIs
  <2>5. Stored \in Seq(Int) /\ wr.buffer \in Seq(Int) /\ a \in Seq(Int) /\ r \in Seq(Int)
    BY <1>1, <1>7, <1>8, SeqInt
  <2>6. FourOf(Stored, wr.buffer, a, r)
    BY <2>5 DEF FourOf
  <2>7. Regroups(Stored, wr.buffer, a, r)
    BY <2>6, FourParts
  <2> QED BY <2>3, <2>4, <2>7 DEF Regroups
<1> QED BY <1>16, <1>17, QuietStep

(* A buffered write.                                                        *)
LEMMA BufferedWriteStep ==
  ASSUME FileInv, BufferedWrite
  PROVE  FileInv' /\ File!Sync
<1>1. pc = "buffer" /\ UNCHANGED <<mode, dev, wp, file, meta, op, synced, dropped, given>>
  BY DEF BufferedWrite, devVars
<1>2. CASE Len(wr.buffer) = BufSize
  BY <1>1, <1>2, BufferFull DEF BufferedWrite
<1>3. CASE Len(wr.buffer) # BufSize
  BY <1>1, <1>3, BufferCopy DEF BufferedWrite
<1> QED BY <1>2, <1>3

(* A sync of everything, or none.                                           *)
LEMMA SyncStep ==
  ASSUME FileInv, Data' = Data, mode' = mode, synced' = synced \/ synced' = Len(Data),
         dropped' = dropped \/ (dropped' = <<>> /\ synced' = Len(Data))
  PROVE  File!Sync
<1>1. synced \in 0..Len(Data) /\ synced \in Nat
  BY InvTypeOK, StateFacts DEF TypeOK
<1>2. Len(Data) \in Nat
  BY StateFacts, PartsFacts, LenProperties
<1>3. synced' \in synced..Len(Data)
  BY <1>1, <1>2
<1> QED BY <1>3 DEF File!Sync

(* Where a flush goes on.                                                   *)
LEMMA AfterFacts ==
  ASSUME NEW name, mode # "direct"
  PROVE  /\ AfterDataSync(name) \in {"buffer", "persist", "close", "idle"}
         /\ AfterDataSync(name) = "buffer" <=> name = "append"
         /\ mode = "buffered" => AfterDataSync(name) = "buffer" \/ AfterDataSync(name) = "persist"
<1>1. CASE name = "append"
  BY <1>1 DEF AfterDataSync
<1>2. CASE name # "append" /\ (mode = "buffered" \/ name = "fsync")
  BY <1>2 DEF AfterDataSync
<1>3. CASE name # "append" /\ ~(mode = "buffered" \/ name = "fsync") /\ name = "close"
  BY <1>3 DEF AfterDataSync
<1>4. CASE name # "append" /\ ~(mode = "buffered" \/ name = "fsync") /\ name # "close"
  BY <1>4 DEF AfterDataSync
<1> QED BY <1>1, <1>2, <1>3, <1>4

(* The end of a flush.                                                      *)
LEMMA DoneStep ==
  ASSUME FileInv, pc \in {"flush", "realloc"}, FlushDone,
         UNCHANGED <<mode, op, rest, dropped, given>>,
         Laid(mode, dev', wp', file', meta'), file'.active # NoZone,
         Recovers(mode, dev', wp', file', meta', <<>>, MayPad'),
         StoredIn(mode, dev', file') = Stored \o SubSeq(wr.buffer, 1, wr.left)
  PROVE  FileInv' /\ File!Sync
<1>1. /\ mode \in Modes /\ wr \in Writers /\ op \in Ops /\ rest \in Seq(Byte)
      /\ dropped \in Seq(Byte) /\ synced \in Nat /\ given \in Byte /\ synced <= file.size
      /\ Stored \in Seq(Byte) /\ Len(Stored) = file.size /\ file.size \in Nat
  BY StateFacts
<1>2. mode # "direct" /\ wr.open /\ ~wr.failed /\ ~wr.truncated /\ dropped = <<>>
  BY <1>1, WriterFacts DEF FileInv, Control
<1>3. /\ wr' = [wr EXCEPT !.buffer = <<>>, !.left = 0, !.wp = @ + Len(wr.buffer)]
      /\ pc' = AfterDataSync(op.name) /\ synced' = IF pc' = "idle" THEN Len(Data') ELSE synced
  BY DEF FlushDone
<1>4. PICK l \in Nat, k \in Nat, p \in Nat :
        l = Len(wr.buffer) /\ k = wr.left /\ p = wr.wp /\ wr.buffer \in Seq(Byte) /\ k <= l
  BY <1>1, WriterFacts DEF FileInv, Buffer
<1>5. /\ wr' \in Writers /\ wr'.open = wr.open /\ wr'.failed = wr.failed
      /\ wr'.truncated = wr.truncated /\ wr'.buffer = <<>> /\ wr'.left = 0 /\ wr'.wp = p + l
  <2>1. <<>> \in Seq(Byte) /\ p + l \in Nat /\ 0 \in Nat
    OBVIOUS
  <2> QED BY <1>1, <1>3, <1>4, <2>1 DEF Writers
<1>6. PICK b : b = SubSeq(wr.buffer, 1, k) /\ b \in Seq(Byte) /\ Len(b) = k
  <2>1. Within(wr.buffer, 1, k) /\ Cut(wr.buffer, k, l)
    BY <1>4, SeqInt DEF Within, Cut
  <2>2. SubSeq(wr.buffer, 1, k) \in Seq(Byte)
    BY <1>4, <2>1, ByteParts
  <2>3. Halves(wr.buffer, k, l)
    BY <2>1, CutFacts
  <2>4. Len(SubSeq(wr.buffer, 1, k)) = k
    BY <2>3 DEF Halves
  <2> QED BY <2>2, <2>4
<1>7. file'.size = file.size + k
  <2>1. Len(StoredIn(mode, dev', file')) = file'.size
    BY StoredFacts
  <2>2. Len(Stored \o b) = Len(Stored) + Len(b)
    BY <1>1, <1>6, ConcatProperties
  <2> QED BY <1>1, <1>4, <1>6, <2>1, <2>2
<1>8. Data' = Data
  <2>1. BufferIs(wr, pc) = b /\ BufferIs(wr', pc') = <<>>
    BY <1>2, <1>4, <1>5, <1>6 DEF BufferIs
  <2>2. Data = (Stored \o b) \o rest
    BY <2>1, DataIs
  <2>3. Data' = ((Stored \o b) \o <<>>) \o rest
    BY <1>4, <1>6, <2>1, DataNext
  <2>4. (Stored \o b) \o <<>> = Stored \o b
    <3>1. Stored \o b \in Seq(Byte)
      BY <1>1, <1>6, ConcatProperties
    <3> QED BY <3>1, ConcatEmptySeq
  <2> QED BY <2>2, <2>3, <2>4
<1>9. /\ pc' \in {"buffer", "persist", "close", "idle"}
      /\ pc' = "buffer" <=> op.name = "append"
  BY <1>2, <1>3, AfterFacts
<1>10. op.name # "append" => rest = <<>>
  BY DEF FileInv, Control
<1>11. synced' <= file'.size /\ synced' \in Nat
  <2>1. CASE pc' = "idle"
    <3>1. rest = <<>>
      BY <1>9, <1>10, <2>1
    <3>2. Data' = Stored \o b
      <4>1. Data = (Stored \o b) \o <<>>
        BY <1>2, <1>4, <1>6, <3>1, DataIs DEF BufferIs
      <4>2. Stored \o b \in Seq(Byte)
        BY <1>1, <1>6, ConcatProperties
      <4> QED BY <1>8, <4>1, <4>2, ConcatEmptySeq
    <3>3. Len(Data') = file.size + k
      BY <1>1, <1>6, <3>2, ConcatProperties
    <3> QED BY <1>1, <1>3, <1>7, <2>1, <3>3
  <2>2. CASE pc' # "idle"
    BY <1>1, <1>3, <1>7, <2>2
  <2> QED BY <2>1, <2>2
<1>12. Types'
  <2>1. pc' \in Steps
    BY <1>9 DEF Steps
  <2> QED BY <1>1, <1>5, <1>11, <2>1 DEF Types
<1>13. Control'
  BY <1>2, <1>5, <1>9, <1>10 DEF FileInv, Control
<1>14. Buffer'
  <2>1. BufSize' \in Nat
    BY <1>1, BufSizeFacts, DataIs DEF BufSize, HeaderSize
  <2>2. p + (l - k) <= file.size
    BY <1>2, <1>4 DEF FileInv, Buffer, Flushing
  <2>3. (p + l) + 0 <= file'.size
    <3>1. PICK i \in Nat : i = file.size
      BY <1>1
    <3>2. p + (l - k) <= i /\ file'.size = i + k
      BY <1>7, <2>2, <3>1
    <3>3. (p + l) + 0 <= i + k
      BY <3>2
    <3> QED BY <3>2, <3>3
  <2>4. Len(<<>>) = 0 /\ ~Flushing'
    BY <1>9 DEF Flushing
  <2>5. pc' # "flush"
    BY <1>9
  <2> QED BY <1>5, <2>1, <2>3, <2>4, <2>5 DEF Buffer
<1>15. Active'
  BY <1>2, <1>5, <1>9 DEF Active
<1>16. FileInv'
  BY <1>2, <1>11, <1>12, <1>13, <1>14, <1>15 DEF FileInv
<1>17. synced' = synced \/ synced' = Len(Data)
  BY <1>3, <1>8
<1> QED BY <1>8, <1>16, <1>17, SyncStep

(* The cells c of a segment of the first n bytes of a buffer.               *)
Piece(md, n, q, buf, c) ==
  /\ n \in Nat /\ n >= 1 /\ buf \in Seq(Byte) /\ n <= Len(buf) /\ n <= BufferSize - Hs(md)
  /\ q = RoundUp(n + Hs(md)) - n - Hs(md)
  /\ c = (HeaderOf(md, n) \o SubSeq(buf, 1, n)) \o Zeros(q)

(* They are whole blocks.                                                   *)
LEMMA PieceFacts ==
  ASSUME NEW md, NEW n, NEW q, NEW buf, NEW c, Piece(md, n, q, buf, c)
  PROVE  /\ IsSegment(md, n, SubSeq(buf, 1, n), q, c) /\ Len(c) = RoundUp(n + Hs(md))
         /\ c \in Seq(Cell) /\ Aligned(Len(c)) /\ q \in Nat
         /\ SubSeq(buf, 1, n) \in Seq(Byte) /\ Len(SubSeq(buf, 1, n)) = n
<1>1. /\ n \in Nat /\ n >= 1 /\ buf \in Seq(Byte) /\ n <= Len(buf) /\ n <= BufferSize - Hs(md)
      /\ q = RoundUp(n + Hs(md)) - n - Hs(md)
      /\ c = (HeaderOf(md, n) \o SubSeq(buf, 1, n)) \o Zeros(q)
  BY DEF Piece
<1>2. PICK h \in Nat : h = Hs(md)
  BY HsFacts
<1>3. PICK k \in Int : k = RoundUp(n + h) /\ n + h <= k /\ Aligned(k)
  <2>1. n + h \in Int
    BY <1>1
  <2> QED BY <2>1, RoundUpFacts
<1>4. q \in Nat /\ h + (n + q) = k
  <2>1. q = k - n - h
    BY <1>1, <1>2, <1>3
  <2>2. PICK i \in Nat : i = n
    BY <1>1
  <2>3. q = k - i - h /\ i + h <= k
    BY <1>3, <2>1, <2>2
  <2>4. q \in Nat /\ h + (i + q) = k
    BY <2>3
  <2> QED BY <2>2, <2>4
<1>5. PICK b : b = SubSeq(buf, 1, n) /\ b \in Seq(Byte) /\ Len(b) = n
  <2>1. Len(buf) \in Nat
    BY <1>1, LenProperties
  <2>2. Within(buf, 1, n) /\ Cut(buf, n, n)
    BY <1>1, <2>1, SeqInt DEF Within, Cut
  <2>3. SubSeq(buf, 1, n) \in Seq(Byte)
    BY <1>1, <2>2, ByteParts
  <2>4. Halves(buf, n, n)
    BY <2>2, CutFacts
  <2>5. Len(SubSeq(buf, 1, n)) = n
    BY <2>4 DEF Halves
  <2> QED BY <2>3, <2>5
<1>6. PICK u : u = HeaderOf(md, n)
  OBVIOUS
<1>7. u \in Seq(Cell)
  <2>1. CASE md = "sparse"
    <3>1. H \in Nat /\ H >= 1 /\ BufferSize \in Nat /\ MaxBytes \in Nat
      BY Constants
    <3>2. Hs(md) = H
      BY <2>1, HsFacts
    <3>3. Header(n) \in Cell
      BY <1>1, <3>1, <3>2 DEF Header, Cell
    <3>4. H - 1 \in Nat
      BY <3>1
    <3>5. Zeros(H - 1) \in Seq(Cell)
      BY <3>4, ZerosFacts, SeqInt
    <3>6. <<Header(n)>> \in Seq(Cell)
      BY <3>3
    <3>7. u = <<Header(n)>> \o Zeros(H - 1)
      BY <1>6, <2>1 DEF HeaderOf
    <3> QED BY <3>5, <3>6, <3>7, ConcatProperties
  <2>2. CASE md # "sparse"
    <3>1. u = <<>>
      BY <1>6, <2>2 DEF HeaderOf
    <3> QED BY <3>1
  <2> QED BY <2>1, <2>2
<1>8. PICK r : r = Zeros(q) /\ r \in Seq(Byte)
  BY <1>4, ZerosFacts
<1>9. u \in Seq(Int) /\ b \in Seq(Int) /\ r \in Seq(Int) /\ b \in Seq(Cell) /\ r \in Seq(Cell)
  BY <1>5, <1>7, <1>8, SeqInt
<1>10. c = (u \o b) \o r
  BY <1>1, <1>5, <1>6, <1>8
<1>11. c = u \o (b \o r)
  BY <1>9, <1>10, Assoc
<1>12. c \in Seq(Cell)
  <2>1. u \o b \in Seq(Cell)
    BY <1>7, <1>9, ConcatProperties
  <2> QED BY <1>9, <1>10, <2>1, ConcatProperties
<1>13. IsSegment(md, n, b, q, c)
  BY <1>1, <1>4, <1>5, <1>6, <1>8, <1>11 DEF IsSegment
<1>14. Len(c) = h + (n + q)
  BY <1>2, <1>13, SegmentCells
<1>15. Len(c) = RoundUp(n + Hs(md)) /\ Aligned(Len(c))
  BY <1>2, <1>3, <1>4, <1>14
<1> QED BY <1>4, <1>5, <1>12, <1>13, <1>15

(* What a flush writes next: as much as fits, or all that is left.          *)
NextPiece(n, q, z) ==
  /\ Piece(mode, n, q, wr.buffer, Segment) /\ n = SegmentLength /\ n <= wr.left
  /\ z \in Zone /\ z = file.active /\ Len(Segment) <= CapacityLeft(wp, z)
  /\ n = wr.left \/ (Len(Segment) = CapacityLeft(wp, z) /\ (mode # "sparse" => Aligned(n)))
(* The segment a flush writes fits the zone and is all, or fills the zone.  *)
LEMMA SegmentFacts ==
  ASSUME FileInv, pc = "flush", file.active # NoZone
  PROVE  \E n, q, z : NextPiece(n, q, z)
<1>1. /\ wr \in Writers /\ Pointers(wp) /\ file \in Files /\ meta \in Metas
  BY StateFacts
<1>2. mode # "direct" /\ wr.left >= 1 /\ wr.left <= Len(wr.buffer) /\ Len(wr.buffer) <= BufSize
  BY DEF FileInv, Control, Buffer
<1>3. PICK z \in Zone : z = file.active
  BY <1>1, FieldFacts
<1>4. PICK l \in Nat, k \in Nat, h \in Nat, a \in Nat, m \in Nat :
        /\ l = Len(wr.buffer) /\ k = wr.left /\ h = Hs(mode) /\ a = CapacityLeft(wp, z)
        /\ m = BufferSize
  BY <1>1, <1>3, WriterFacts, HsFacts, CapacityFacts, Constants
<1>5. k >= 1 /\ k <= l /\ l <= m - h
  BY <1>2, <1>4, DataIs DEF BufSize
<1>6. a > h /\ Aligned(a)
  <2>1. a > 0
    <3>1. Opened(mode, wp, file)
      BY DEF FileInv, Laid, Placement
    <3> QED BY <1>2, <1>3, <1>4, <3>1 DEF Opened
  <2>2. Aligned(a) /\ h < B /\ B \in Nat
    BY <1>1, <1>4, CapacityFacts, HsFacts, Constants
  <2>3. a >= B
    BY <2>1, <2>2, AlignedZero
  <2> QED BY <2>2, <2>3
<1>7. PICK n : n = Min2(k + h, a) - h
  OBVIOUS
<1>8. n = SegmentLength
  BY <1>3, <1>4, <1>7, DataIs DEF SegmentLength
<1>9. n \in Nat /\ n >= 1 /\ n <= k /\ n + h <= a /\ (n = k \/ n + h = a)
  <2>1. Min2(k + h, a) = IF k + h < a THEN k + h ELSE a
    BY DEF Min2
  <2> QED BY <1>5, <1>6, <1>7, <2>1
<1>10. n <= l /\ n <= m - h
  BY <1>5, <1>9
<1>11. PICK q : q = RoundUp(n + h) - n - h
  OBVIOUS
<1>12. Segment = (HeaderOf(mode, n) \o SubSeq(wr.buffer, 1, n)) \o Zeros(q)
  <2>1. HeaderSize = h
    BY <1>4, DataIs
  <2> QED BY <1>8, <1>11, <2>1 DEF Segment, HeaderOf
<1>13. wr.buffer \in Seq(Byte)
  BY <1>1, WriterFacts
<1>14. Piece(mode, n, q, wr.buffer, Segment)
  BY <1>4, <1>9, <1>10, <1>11, <1>12, <1>13 DEF Piece
<1>15. Len(Segment) = RoundUp(n + h)
  BY <1>4, <1>14, PieceFacts
<1>16. PICK i \in Int : i = n + h
  BY <1>9
<1>17. RoundUp(i) <= a /\ (i = a => RoundUp(i) = a)
  BY <1>6, <1>9, <1>16, RoundUpFacts
<1>18. mode # "sparse" /\ i = a => Aligned(n)
  <2>1. mode # "sparse" => h = 0
    BY <1>4, HsFacts
  <2>2. ASSUME mode # "sparse", i = a PROVE n = a
    BY <1>9, <1>16, <2>1, <2>2
  <2> QED BY <1>6, <2>2
<1>19. n = wr.left \/ (Len(Segment) = CapacityLeft(wp, z) /\ (mode # "sparse" => Aligned(n)))
  BY <1>4, <1>9, <1>15, <1>16, <1>17, <1>18
<1>20. Len(Segment) <= CapacityLeft(wp, z) /\ n <= wr.left
  BY <1>4, <1>9, <1>15, <1>16, <1>17
<1> QED BY <1>3, <1>8, <1>14, <1>19, <1>20 DEF NextPiece

(* The first zone of a flush.                                               *)
LEMMA FlushAllocateStep ==
  ASSUME FileInv, FlushAllocate
  PROVE  FileInv' /\ (File!Sync \/ File!Fail)
<1>1. /\ mode \in Modes /\ wr \in Writers /\ op \in Ops /\ rest \in Seq(Byte)
      /\ dropped \in Seq(Byte) /\ synced \in Nat /\ given \in Byte /\ pc \in Steps
      /\ synced <= file.size
  BY StateFacts
<1>2. /\ pc = "flush" /\ file.active = NoZone /\ mode # "direct" /\ wr.open /\ ~wr.failed
      /\ ~wr.truncated /\ dropped = <<>>
  BY <1>1, WriterFacts DEF FlushAllocate, FileInv, Control
<1>3. Laid(mode, dev, wp, file, meta) /\ Pending(mode, dev, file) = <<>> /\ meta.start = NoExtent
  BY <1>2 DEF FileInv, Pending, Active
<1>4. CASE AllocateNewZone(file)
           /\ UNCHANGED <<mode, devVars, wr, callVars, synced, dropped, given, calls, crashes>>
  <2>1. UNCHANGED <<mode, dev, wp, wr, pc, op, rest, synced, dropped, given>>
    BY <1>4 DEF devVars, callVars
  <2>2. /\ Laid(mode, dev, wp, file', meta') /\ StoredIn(mode, dev, file') = Stored
        /\ Recovers(mode, dev, wp, file', meta', <<>>, FALSE)
    BY <1>3, <1>4, AllocateFacts DEF Stored
  <2>3. PICK z \in Zone : Retargeted(file, z, file')
    BY <1>3, <1>4, AllocateFacts
  <2>4. file'.active # NoZone /\ file'.size = file.size
    BY <2>3, ZoneFacts DEF Retargeted
  <2>5. Types'
    BY <1>1, <2>1 DEF Types
  <2>6. Control'
    BY <2>1 DEF FileInv, Control
  <2>7. Buffer'
    BY <2>1, <2>4 DEF FileInv, Buffer, Flushing, BufSize, HeaderSize
  <2>8. Active'
    BY <1>2, <2>1, <2>4 DEF Active
  <2>9. MayPad' = FALSE
    BY <1>2, <2>1 DEF MayPad
  <2>10. FileInv'
    BY <1>1, <1>2, <2>1, <2>2, <2>4, <2>5, <2>6, <2>7, <2>8, <2>9 DEF FileInv
  <2>11. Data' = Data
    BY <2>1, <2>2, DataNext, DataIs
  <2> QED BY <2>1, <2>10, <2>11, QuietStep
<1>5. CASE NoSpace /\ file' = file /\ Fail
  <2>1. Recovers(mode, dev, wp, file, meta, <<>>, mode = "buffered")
    BY <1>2, <1>3 DEF FileInv, Recovers
  <2> QED BY <1>2, <1>3, <1>5, <2>1, FailStep DEF Stored
<1> QED BY <1>4, <1>5 DEF FlushAllocate

(* A new zone for a full one.                                               *)
LEMMA FlushReallocateStep ==
  ASSUME FileInv, FlushReallocate
  PROVE  FileInv' /\ (File!Sync \/ File!Fail)
<1>1. /\ mode \in Modes /\ wr \in Writers /\ op \in Ops /\ rest \in Seq(Byte)
      /\ dropped \in Seq(Byte) /\ synced \in Nat /\ given \in Byte
      /\ synced <= file.size /\ Stored \in Seq(Byte)
  BY StateFacts
<1>2. /\ pc = "realloc" /\ file.active = NoZone /\ mode # "direct" /\ wr.open /\ ~wr.failed
      /\ ~wr.truncated /\ dropped = <<>>
  BY <1>1, WriterFacts DEF FlushReallocate, FileInv, Control, Active
<1>3. Laid(mode, dev, wp, file, meta) /\ Pending(mode, dev, file) = <<>>
  BY <1>2 DEF FileInv, Pending
<1>4. wr.buffer \in Seq(Byte) /\ wr.left \in Nat /\ Len(wr.buffer) \in Nat
  BY <1>1, WriterFacts
<1>5. CASE /\ AllocateNewZone(file)
           /\ UNCHANGED <<mode, devVars, op, rest, dropped, given, calls, crashes>>
           /\ IF wr.left = 0 THEN FlushDone ELSE pc' = "flush" /\ UNCHANGED <<wr, synced>>
  <2>1. UNCHANGED <<mode, dev, wp, op, rest, dropped, given>>
    BY <1>5 DEF devVars
  <2>2. /\ Laid(mode, dev, wp, file', meta') /\ StoredIn(mode, dev, file') = Stored
        /\ Recovers(mode, dev, wp, file', meta', <<>>, FALSE)
    BY <1>3, <1>5, AllocateFacts DEF Stored
  <2>3. PICK z \in Zone : Retargeted(file, z, file')
    BY <1>3, <1>5, AllocateFacts
  <2>4. file'.active # NoZone /\ file'.size = file.size
    BY <2>3, ZoneFacts DEF Retargeted
  <2>5. CASE wr.left = 0
    <3>1. FlushDone
      BY <1>5, <2>5
    <3>2. SubSeq(wr.buffer, 1, wr.left) = <<>>
      <4>1. 1 \in Int /\ 0 \in Int /\ 1 > 0
        OBVIOUS
      <4> QED BY <1>4, <2>5, <4>1
    <3>3. StoredIn(mode, dev', file') = Stored \o SubSeq(wr.buffer, 1, wr.left)
      BY <1>1, <2>1, <2>2, <3>2, ConcatEmptySeq
    <3>4. Recovers(mode, dev', wp', file', meta', <<>>, MayPad')
      <4>1. MayPad' \in BOOLEAN
        BY DEF MayPad
      <4>2. CASE MayPad' = FALSE
        BY <2>1, <2>2, <4>2
      <4>3. CASE MayPad' = TRUE
        <5>1. Recovers(mode, dev, wp, file', meta', <<>>, TRUE)
          BY <2>2 DEF Recovers, Reads
        <5> QED BY <2>1, <4>3, <5>1
      <4> QED BY <4>1, <4>2, <4>3
    <3>5. Laid(mode, dev', wp', file', meta')
      BY <2>1, <2>2
    <3> QED BY <1>2, <2>1, <2>4, <3>1, <3>3, <3>4, <3>5, DoneStep
  <2>6. CASE wr.left # 0
    <3>1. pc' = "flush" /\ UNCHANGED <<wr, synced>>
      BY <1>5, <2>6
    <3>2. Types'
      BY <1>1, <2>1, <3>1 DEF Types, Steps
    <3>3. Control'
      BY <1>2, <2>1, <3>1 DEF FileInv, Control
    <3>4. Buffer'
      BY <1>2, <1>4, <2>1, <2>4, <2>6, <3>1 DEF FileInv, Buffer, Flushing, BufSize, HeaderSize
    <3>5. Active'
      BY <1>2, <2>1, <2>4, <3>1 DEF Active
    <3>6. MayPad' = FALSE
      BY <1>2, <2>1, <3>1 DEF MayPad
    <3>7. FileInv'
      BY <1>1, <1>2, <2>1, <2>2, <2>4, <3>1, <3>2, <3>3, <3>4, <3>5, <3>6 DEF FileInv
    <3>8. Data' = Data
      <4>1. BufferIs(wr', pc') = BufferIs(wr, pc)
        BY <1>2, <3>1 DEF BufferIs
      <4> QED BY <2>1, <2>2, <4>1, DataNext, DataIs
    <3> QED BY <2>1, <3>1, <3>7, <3>8, QuietStep
  <2> QED BY <2>5, <2>6
<1>6. CASE NoSpace /\ file' = file /\ Fail
  <2>1. Recovers(mode, dev, wp, file, meta, <<>>, mode = "buffered")
    <3>1. MayPad = (mode = "buffered")
      BY <1>2 DEF MayPad
    <3> QED BY <1>2, <3>1 DEF FileInv
  <2> QED BY <1>2, <1>3, <1>6, <2>1, FailStep DEF Stored
<1> QED BY <1>5, <1>6 DEF FlushReallocate

(* The bytes still to be written are moved to the front of the buffer.      *)
Shifts(b, n, left) ==
  b \in Seq(Byte) /\ n \in Nat /\ left \in Nat /\ n <= left /\ left <= Len(b)
(* memmove brings what is left to the start of the buffer.                  *)
LEMMA MemmoveFacts ==
  ASSUME NEW b, NEW n, NEW left, Shifts(b, n, left)
  PROVE  /\ Memmove(b, n, left) \in Seq(Byte) /\ Len(Memmove(b, n, left)) = Len(b)
         /\ SubSeq(Memmove(b, n, left), 1, left - n) = SubSeq(b, n + 1, left)
<1>1. b \in Seq(Byte) /\ n \in Nat /\ left \in Nat /\ n <= left /\ left <= Len(b)
  BY DEF Shifts
<1>2. PICK l \in Nat : l = Len(b) /\ DOMAIN b = 1..l
  BY <1>1, LenProperties
<1>3. \A i \in 1..l : b[i] \in Byte
  BY <1>1, <1>2, ElementOfSeq
<1>4. PICK c : c = Memmove(b, n, left)
  OBVIOUS
<1>5. c = [i \in 1..l |-> IF i <= left - n THEN b[i + n] ELSE b[i]]
  BY <1>2, <1>4 DEF Memmove
<1>6. \A i \in 1..l : i <= left - n => i + n \in 1..l
  BY <1>1, <1>2
<1>7. c \in Seq(Byte) /\ Len(c) = l
  <2>1. \A i \in 1..l : (IF i <= left - n THEN b[i + n] ELSE b[i]) \in Byte
    BY <1>3, <1>6
  <2> QED BY <1>5, <2>1
<1>8. PICK k \in Nat : k = left - n
  BY <1>1
<1>9. Within(c, 1, k) /\ Within(b, n + 1, left)
  <2>1. c \in Seq(Int) /\ b \in Seq(Int)
    BY <1>1, <1>7, SeqInt
  <2> QED BY <1>1, <1>2, <1>7, <1>8, <2>1 DEF Within
<1>10. PICK s, t : s = SubSeq(c, 1, k) /\ t = SubSeq(b, n + 1, left)
  OBVIOUS
<1>11. IsPart(s, c, 1, k) /\ IsPart(t, b, n + 1, left)
  BY <1>9, <1>10, PartFacts
<1>12. /\ s \in Seq(Int) /\ Len(s) = k /\ \A i \in 1..k : s[i] = c[i]
  <2>1. s \in Seq(Int) /\ Len(s) = k - 1 + 1 /\ \A i \in 1..(k - 1 + 1) : s[i] = c[1 + i - 1]
    BY <1>11 DEF IsPart
  <2>2. k - 1 + 1 = k /\ \A i \in 1..k : 1 + i - 1 = i
    OBVIOUS
  <2> QED BY <2>1, <2>2
<1>13. /\ t \in Seq(Int) /\ Len(t) = k /\ \A i \in 1..k : t[i] = b[i + n]
  <2>1. /\ t \in Seq(Int) /\ Len(t) = left - (n + 1) + 1
        /\ \A i \in 1..(left - (n + 1) + 1) : t[i] = b[(n + 1) + i - 1]
    BY <1>11 DEF IsPart
  <2>2. left - (n + 1) + 1 = k /\ \A i \in 1..k : (n + 1) + i - 1 = i + n
    BY <1>1, <1>8
  <2> QED BY <2>1, <2>2
<1>14. \A i \in 1..k : c[i] = b[i + n]
  <2> SUFFICES ASSUME NEW i \in 1..k PROVE c[i] = b[i + n]
    OBVIOUS
  <2>1. i \in 1..l /\ i <= left - n
    BY <1>1, <1>2, <1>8
  <2> QED BY <1>5, <2>1
<1>15. Alike(s, t)
  BY <1>12, <1>13, <1>14 DEF Alike
<1>16. s = t
  BY <1>15, AlikeEqual
<1> QED BY <1>2, <1>4, <1>7, <1>8, <1>10, <1>16

(* What the segment makes of the file.                                      *)
LEMMA FlushFile ==
  ASSUME FileInv, FlushWrite, NEW n, NEW q, NEW z, NextPiece(n, q, z)
  PROVE  /\ Flushes(mode, dev, wp, file, meta, dev', wp', z, Segment, file',
                    SubSeq(wr.buffer, 1, n), n, q)
         /\ CapacityLeft(wp', z) = CapacityLeft(wp, z) - Len(Segment)
         /\ file'.active = IF CapacityLeft(wp', z) = 0 THEN NoZone ELSE z
         /\ file'.size = file.size + n
<1>1. /\ file \in Files /\ meta \in Metas /\ Pointers(wp) /\ Laid(mode, dev, wp, file, meta)
  BY StateFacts DEF FileInv
<1>2. /\ Piece(mode, n, q, wr.buffer, Segment) /\ n = SegmentLength
      /\ z \in Zone /\ z = file.active /\ Len(Segment) <= CapacityLeft(wp, z)
  BY DEF NextPiece
<1>3. PICK c, b, h : c = Segment /\ b = SubSeq(wr.buffer, 1, n) /\ h = Hs(mode)
  OBVIOUS
<1>4. Piece(mode, n, q, wr.buffer, c)
  BY <1>2, <1>3
<1>5. /\ IsSegment(mode, n, b, q, c) /\ c \in Seq(Cell) /\ Aligned(Len(c))
  BY <1>3, <1>4, PieceFacts
<1>6. n \in Nat /\ n >= 1 /\ q = RoundUp(n + Hs(mode)) - n - Hs(mode)
  BY <1>4 DEF Piece
<1>7. pc = "flush" /\ mode # "direct" /\ ZoneAppend(z, c)
  BY <1>2, <1>3 DEF FlushWrite, FileInv, Control
<1>8. Wrote(dev, wp, dev', wp', z, c)
  BY <1>2, <1>3, <1>5, <1>7, ZoneAppendStep
<1>9. wp'[z] = wp[z] + Len(c) /\ Pointers(wp')
  BY <1>8 DEF Wrote, Grown
<1>10. PICK f : f = [file EXCEPT !.extents = Append(@, Extent(file.start + HeaderSize, n)),
                                 !.start = wp[z] + Len(c), !.size = @ + n]
  OBVIOUS
<1>11. file' = IF CapacityLeft(wp', z) = 0 THEN CloseActiveZone(f) ELSE f
  BY <1>2, <1>3, <1>10 DEF FlushWrite
<1>12. /\ file.extents \in Seq(Ext) /\ file.start \in Int /\ file.size \in Nat
       /\ file.filepos \in Nat /\ h \in Nat
  BY <1>1, <1>3, FieldFacts, HsFacts
<1>13. PICK x : x = Append(file.extents, Extent(file.start + Hs(mode), n)) /\ x \in Seq(Ext)
  <2>1. file.start + Hs(mode) \in Int /\ n > 0
    BY <1>3, <1>6, <1>12
  <2>2. Extent(file.start + Hs(mode), n) \in Ext
    BY <1>6, <2>1, ExtentFacts
  <2> QED BY <1>12, <2>2, AppendProperties
<1>14. wp'[z] \in Int
  BY <1>2, <1>9, PointerFacts
<1>15. f = [file EXCEPT !.extents = x, !.start = wp'[z], !.size = file.size + n]
  BY <1>1, <1>9, <1>10, <1>13, DataIs DEF Files
<1>16. /\ f \in Files /\ f.extents = x /\ f.start = wp'[z] /\ f.size = file.size + n
       /\ f.active = z
  <2>1. file.size + n \in Nat
    BY <1>6, <1>12
  <2> QED BY <1>1, <1>2, <1>13, <1>14, <1>15, <2>1 DEF Files
<1>17. /\ file' \in Files /\ file'.extents = x /\ file'.start = wp'[z]
       /\ file'.size = file.size + n
       /\ file'.active = IF CapacityLeft(wp', z) = 0 THEN NoZone ELSE z
  BY <1>11, <1>16 DEF CloseActiveZone, Files
<1>18. Filled(mode, file, wp', z, n, file')
  BY <1>13, <1>17 DEF Filled
<1>19. Flushes(mode, dev, wp, file, meta, dev', wp', z, c, file', b, n, q)
  <2>1. n > 0
    BY <1>6
  <2> QED BY <1>1, <1>2, <1>5, <1>6, <1>7, <1>8, <1>18, <2>1 DEF Flushes
<1>20. CapacityLeft(wp', z) = CapacityLeft(wp, z) - Len(c)
  <2>1. PICK k \in Nat : k = Len(c)
    BY <1>5, LenProperties
  <2>2. wp[z] \in Int /\ Start(z) \in Nat /\ ZoneCap \in Nat
    BY <1>1, <1>2, PointerFacts, Constants
  <2>3. wp'[z] = wp[z] + k
    BY <1>9, <2>1
  <2> QED BY <2>1, <2>2, <2>3 DEF CapacityLeft
<1> QED BY <1>3, <1>17, <1>19, <1>20

(* A segment is written and fills its zone.                                 *)
LEMMA FlushFull ==
  ASSUME FileInv, FlushWrite, NEW n, NEW q, NEW z, NextPiece(n, q, z), CapacityLeft(wp', z) = 0
  PROVE  FileInv' /\ File!Sync
<1>1. /\ mode \in Modes /\ wr \in Writers /\ op \in Ops /\ rest \in Seq(Byte)
      /\ dropped \in Seq(Byte) /\ synced \in Nat /\ given \in Byte /\ synced <= file.size
      /\ Stored \in Seq(Byte) /\ file.size \in Nat
  BY StateFacts
<1>2. /\ pc = "flush" /\ mode # "direct" /\ wr.open /\ ~wr.failed /\ ~wr.truncated
      /\ dropped = <<>>
  BY <1>1, WriterFacts DEF FlushWrite, FileInv, Control
<1>3. /\ Piece(mode, n, q, wr.buffer, Segment) /\ n = SegmentLength /\ n <= wr.left
      /\ z = file.active
      /\ n = wr.left \/ (Len(Segment) = CapacityLeft(wp, z) /\ (mode # "sparse" => Aligned(n)))
  BY DEF NextPiece
<1>4. /\ wr' = [wr EXCEPT !.left = @ - n, !.buffer = Memmove(@, n, wr.left)]
      /\ pc' = "realloc" /\ synced' = synced /\ UNCHANGED <<mode, meta, op, rest, dropped, given>>
  BY <1>3 DEF FlushWrite
<1>5. PICK b : b = SubSeq(wr.buffer, 1, n)
  OBVIOUS
<1>6. /\ Flushes(mode, dev, wp, file, meta, dev', wp', z, Segment, file', b, n, q)
      /\ file'.active = NoZone /\ file'.size = file.size + n
  BY <1>5, FlushFile
<1>7. PICK e, v, g : e = dev' /\ v = wp' /\ g = file'
  OBVIOUS
<1>8. Flushes(mode, dev, wp, file, meta, e, v, z, Segment, g, b, n, q)
  BY <1>6, <1>7
<1>9. Laid(mode, e, v, g, meta) /\ StoredIn(mode, e, g) = StoredIn(mode, dev, file) \o b
  BY <1>8, FlushLaid
<1>10. Recovers(mode, dev, wp, file, meta, <<>>, FALSE)
  <2>1. MayPad = FALSE
    BY <1>2 DEF MayPad
  <2> QED BY <1>2, <2>1 DEF FileInv
<1>11. PICK pad : pad = MayPad' /\ pad = (mode = "buffered")
  <2>1. MayPad' = (mode = "buffered")
    BY <1>4 DEF MayPad
  <2> QED BY <2>1
<1>12. mode = "sparse" \/ q = 0 \/ pad
  <2>1. mode = "sparse" \/ mode = "buffered"
    BY <1>1, <1>2, FileIOAssumption
  <2> QED BY <1>11, <2>1
<1>13. Recovers(mode, e, v, g, meta, <<>>, pad)
  BY <1>8, <1>10, <1>12, FlushRecovers
<1>14. PICK i \in Nat, l \in Nat, k \in Nat, p \in Nat :
         /\ i = n /\ l = Len(wr.buffer) /\ k = wr.left /\ p = wr.wp
         /\ wr.buffer \in Seq(Byte) /\ i <= k /\ k <= l
  <2>1. n \in Nat
    BY <1>3 DEF Piece
  <2> QED BY <1>1, <1>3, <2>1, WriterFacts DEF FileInv, Buffer
<1>15. PICK u : u = Memmove(wr.buffer, n, wr.left)
  OBVIOUS
<1>16. u \in Seq(Byte) /\ Len(u) = l /\ SubSeq(u, 1, k - i) = SubSeq(wr.buffer, i + 1, k)
  <2>1. Shifts(wr.buffer, n, wr.left)
    BY <1>14 DEF Shifts
  <2>2. /\ u \in Seq(Byte) /\ Len(u) = Len(wr.buffer)
        /\ SubSeq(u, 1, wr.left - n) = SubSeq(wr.buffer, n + 1, wr.left)
    BY <1>15, <2>1, MemmoveFacts
  <2> QED BY <1>14, <2>2
<1>17. /\ wr' \in Writers /\ wr'.open = wr.open /\ wr'.failed = wr.failed
       /\ wr'.truncated = wr.truncated /\ wr'.buffer = u /\ wr'.left = k - i /\ wr'.wp = p
  <2>1. wr' = [wr EXCEPT !.left = k - i, !.buffer = u]
    BY <1>1, <1>4, <1>14, <1>15 DEF Writers
  <2>2. k - i \in Nat
    BY <1>14
  <2> QED BY <1>1, <1>14, <1>16, <2>1, <2>2 DEF Writers
<1>18. Types'
  BY <1>1, <1>4, <1>17 DEF Types, Steps
<1>19. Control'
  BY <1>2, <1>4, <1>17 DEF FileInv, Control
<1>20. Buffer'
  <2>1. BufSize' = BufSize /\ l <= BufSize
    BY <1>4, <1>14 DEF FileInv, Buffer, BufSize, HeaderSize
  <2>2. op.name = "append" /\ mode = "buffered" => Aligned(k - i)
    <3> SUFFICES ASSUME op.name = "append", mode = "buffered" PROVE Aligned(k - i)
      OBVIOUS
    <3>1. Aligned(k)
      BY <1>2, <1>14 DEF FileInv, Buffer, Flushing
    <3>2. i = k \/ Aligned(i)
      BY <1>3, <1>14
    <3>3. CASE i = k
      <4>1. k - i = 0
        BY <3>3
      <4> QED BY <4>1, AlignedZero
    <3>4. CASE Aligned(i)
      BY <3>1, <3>4, AlignedSum
    <3> QED BY <3>2, <3>3, <3>4
  <2>3. p + (l - (k - i)) <= file'.size
    <3>1. p + (l - k) <= file.size
      BY <1>2, <1>14 DEF FileInv, Buffer, Flushing
    <3>2. PICK m \in Nat : m = file.size
      BY <1>1
    <3>3. file'.size = m + i
      BY <1>6, <1>14, <3>2
    <3>4. p + (l - (k - i)) <= m + i
      <4>1. p + (l - k) <= m
        BY <3>1, <3>2
      <4> QED BY <4>1
    <3> QED BY <3>3, <3>4
  <2>4. k - i <= l
    BY <1>14
  <2> QED BY <1>4, <1>16, <1>17, <2>1, <2>2, <2>3, <2>4 DEF Buffer, Flushing
<1>21. Active'
  BY <1>2, <1>4, <1>6, <1>17 DEF Active
<1>22. synced' <= file'.size
  BY <1>1, <1>4, <1>6, <1>14
<1>23. FileInv'
  <2>1. Laid(mode', dev', wp', file', meta')
    BY <1>4, <1>7, <1>9
  <2>2. Recovers(mode', dev', wp', file', meta', dropped', MayPad')
    BY <1>2, <1>4, <1>7, <1>11, <1>13
  <2> QED BY <1>18, <1>19, <1>20, <1>21, <1>22, <2>1, <2>2 DEF FileInv
<1>24. Data' = Data
  <2>1. PICK t : t = SubSeq(wr.buffer, i + 1, k)
    OBVIOUS
  <2>2. BufferIs(wr', pc') = t /\ BufferIs(wr, pc) = SubSeq(wr.buffer, 1, k)
    BY <1>2, <1>4, <1>14, <1>16, <1>17, <2>1 DEF BufferIs
  <2>3. Cut(wr.buffer, i, k)
    BY <1>14, SeqInt DEF Cut
  <2>4. Halves(wr.buffer, i, k)
    BY <2>3, CutFacts
  <2>5. Joint(b, t, SubSeq(wr.buffer, 1, k))
    BY <1>5, <1>14, <2>1, <2>4 DEF Halves
  <2>6. b \in Seq(Int) /\ t \in Seq(Int) /\ SubSeq(wr.buffer, 1, k) = b \o t
    BY <2>5 DEF Joint
  <2>7. PICK s : s = Stored /\ s \in Seq(Int)
    BY <1>1, SeqInt
  <2>8. Data = (s \o (b \o t)) \o rest
    BY <2>2, <2>6, <2>7, DataIs
  <2>9. Data' = ((s \o b) \o t) \o rest
    <3>1. StoredIn(mode', dev', file') = s \o b
      BY <1>4, <1>7, <1>9, <2>7 DEF Stored
    <3> QED BY <1>4, <2>2, <3>1, DataNext
  <2>10. (s \o b) \o t = s \o (b \o t)
    BY <2>6, <2>7, Assoc
  <2> QED BY <2>8, <2>9, <2>10
<1>25. File!Sync
  BY <1>4, <1>24, QuietStep
<1> QED BY <1>23, <1>25

(* A segment is written and is the last one.                                *)
LEMMA FlushLast ==
  ASSUME FileInv, FlushWrite, NEW n, NEW q, NEW z, NextPiece(n, q, z), CapacityLeft(wp', z) # 0
  PROVE  FileInv' /\ File!Sync
<1>1. mode \in Modes /\ wr \in Writers /\ Pointers(wp) /\ op \in Ops
  BY StateFacts
<1>2. /\ pc = "flush" /\ mode # "direct" /\ ~wr.failed /\ ~wr.truncated /\ dropped = <<>>
  BY <1>1, WriterFacts DEF FlushWrite, FileInv, Control
<1>3. /\ Piece(mode, n, q, wr.buffer, Segment) /\ z = file.active /\ z \in Zone
      /\ n = wr.left \/ Len(Segment) = CapacityLeft(wp, z)
  BY DEF NextPiece
<1>4. FlushDone /\ UNCHANGED <<mode, meta, op, rest, dropped, given>>
  BY <1>3 DEF FlushWrite
<1>5. PICK b : b = SubSeq(wr.buffer, 1, n)
  OBVIOUS
<1>6. /\ Flushes(mode, dev, wp, file, meta, dev', wp', z, Segment, file', b, n, q)
      /\ file'.active = z /\ CapacityLeft(wp', z) = CapacityLeft(wp, z) - Len(Segment)
  BY <1>5, FlushFile
<1>7. n = wr.left
  <2>1. CapacityLeft(wp, z) \in Nat
    BY <1>1, <1>3, CapacityFacts
  <2>2. Len(Segment) = CapacityLeft(wp, z) => CapacityLeft(wp', z) = 0
    BY <1>6, <2>1
  <2> QED BY <1>3, <2>2
<1>8. PICK e, v, g : e = dev' /\ v = wp' /\ g = file'
  OBVIOUS
<1>9. Flushes(mode, dev, wp, file, meta, e, v, z, Segment, g, b, n, q)
  BY <1>6, <1>8
<1>10. Laid(mode, e, v, g, meta) /\ StoredIn(mode, e, g) = StoredIn(mode, dev, file) \o b
  BY <1>9, FlushLaid
<1>11. Recovers(mode, dev, wp, file, meta, <<>>, FALSE)
  <2>1. MayPad = FALSE
    BY <1>2 DEF MayPad
  <2> QED BY <1>2, <2>1 DEF FileInv
<1>12. PICK pad : pad = MayPad'
  OBVIOUS
<1>13. mode = "sparse" \/ q = 0 \/ pad
  <2> SUFFICES ASSUME mode # "sparse" PROVE q = 0 \/ pad
    OBVIOUS
  <2>1. mode = "buffered"
    BY <1>1, <1>2, FileIOAssumption
  <2>2. CASE op.name = "append"
    <3>1. Aligned(n) /\ n \in Nat /\ Hs(mode) = 0 /\ q = RoundUp(n + Hs(mode)) - n - Hs(mode)
      <4>1. Aligned(wr.left)
        BY <1>2, <2>1, <2>2 DEF FileInv, Buffer, Flushing
      <4> QED BY <1>3, <1>7, <4>1, HsFacts DEF Piece
    <3>2. PICK i \in Nat : i = n /\ i + 0 = i
      BY <3>1
    <3>3. RoundUp(i) = i
      BY <3>1, <3>2, RoundUpFacts
    <3>4. q = RoundUp(i + 0) - i - 0
      BY <3>1, <3>2
    <3>5. q = i - i - 0
      BY <3>2, <3>3, <3>4
    <3> QED BY <3>5
  <2>3. CASE op.name # "append"
    <3>1. pc' = "persist"
      <4>1. pc' = AfterDataSync(op.name)
        BY <1>4 DEF FlushDone
      <4> QED BY <1>2, <2>1, <2>3, <4>1, AfterFacts
    <3> QED BY <1>4, <1>12, <2>1, <3>1 DEF MayPad
  <2> QED BY <2>2, <2>3
<1>14. Recovers(mode, e, v, g, meta, <<>>, pad)
  BY <1>9, <1>11, <1>13, FlushRecovers
<1>15. /\ Laid(mode, dev', wp', file', meta') /\ file'.active # NoZone
       /\ StoredIn(mode, dev', file') = Stored \o SubSeq(wr.buffer, 1, wr.left)
  BY <1>3, <1>4, <1>5, <1>6, <1>7, <1>8, <1>10, ZoneFacts DEF Stored
<1>16. Recovers(mode, dev', wp', file', meta', <<>>, MayPad')
  BY <1>4, <1>8, <1>12, <1>14
<1> QED BY <1>2, <1>4, <1>15, <1>16, DoneStep

(* One turn of the loop of a flush.                                         *)
LEMMA FlushWriteStep ==
  ASSUME FileInv, FlushWrite
  PROVE  FileInv' /\ File!Sync
<1>1. pc = "flush" /\ file.active # NoZone
  BY DEF FlushWrite
<1>2. PICK n, q, z : NextPiece(n, q, z)
  BY <1>1, SegmentFacts
<1>3. CASE CapacityLeft(wp', z) = 0
  BY <1>2, <1>3, FlushFull
<1>4. CASE CapacityLeft(wp', z) # 0
  BY <1>2, <1>4, FlushLast
<1> QED BY <1>3, <1>4

(* What can be recovered can be recovered with padding.                     *)
LEMMA RecoversWeaker ==
  ASSUME NEW md, NEW d, NEW w, NEW f, NEW m, NEW dr, NEW pad, Recovers(md, d, w, f, m, dr, FALSE)
  PROVE  Recovers(md, d, w, f, m, dr, pad)
<1>1. CASE m.start = NoExtent
  BY <1>1 DEF Recovers
<1>2. CASE m.start # NoExtent
  <2>1. PICK z \in Zone : Home(md, w, f, m, z) /\ Reads(md, d, w, f, m, z, dr, FALSE)
    BY <1>2 DEF Recovers
  <2>2. Reads(md, d, w, f, m, z, dr, pad)
    <3>1. CASE md = "sparse"
      BY <2>1, <3>1 DEF Reads
    <3>2. CASE md # "sparse"
      BY <2>1, <3>2 DEF Reads
    <3> QED BY <3>1, <3>2
  <2> QED BY <1>2, <2>1, <2>2 DEF Recovers
<1> QED BY <1>1, <1>2

(* Where a sync goes on.                                                    *)
LEMMA AfterSync ==
  ASSUME NEW name \in {"sync", "fsync", "close"}
  PROVE  /\ AfterDataSync(name) \in {"persist", "close", "idle"}
         /\ name = "close" /\ mode # "buffered" => AfterDataSync(name) = "close"
<1>1. CASE mode = "buffered" \/ name = "fsync"
  BY <1>1 DEF AfterDataSync
<1>2. CASE ~(mode = "buffered" \/ name = "fsync") /\ name = "close"
  BY <1>2 DEF AfterDataSync
<1>3. CASE ~(mode = "buffered" \/ name = "fsync") /\ name # "close"
  BY <1>3 DEF AfterDataSync
<1> QED BY <1>1, <1>2, <1>3

(* A file with no bytes on their way.                                       *)
LEMMA DataStored ==
  ASSUME FileInv, rest = <<>>, BufferIs(wr, pc) = <<>>
  PROVE  Data = Stored /\ Len(Data) = file.size /\ file.size \in Nat /\ Data \in Seq(Byte)
<1>1. Stored \in Seq(Byte) /\ Len(Stored) = file.size /\ file.size \in Nat
  BY StateFacts
<1>2. Data = (Stored \o <<>>) \o <<>>
  BY DataIs
<1> QED BY <1>1, <1>2, ConcatEmptySeq

(* A sync that has to flush first.                                          *)
LEMMA SyncFlush ==
  ASSUME FileInv, wr.open, pc = "idle", mode # "direct", ~wr.failed, wr.buffer # <<>>,
         NEW name \in {"sync", "fsync", "close"}, op' = [name |-> name, size |-> 0],
         pc' = "flush", wr' = [wr EXCEPT !.left = Len(wr.buffer)],
         UNCHANGED <<mode, dev, wp, file, meta, rest, synced, dropped, given>>
  PROVE  FileInv' /\ File!Sync
<1>1. /\ mode \in Modes /\ wr \in Writers /\ rest \in Seq(Byte)
      /\ dropped \in Seq(Byte) /\ synced \in Nat /\ given \in Byte
  BY StateFacts
<1>2. rest = <<>> /\ ~wr.truncated
  BY DEF FileInv, Control
<1>3. PICK l \in Nat : l = Len(wr.buffer) /\ wr.buffer \in Seq(Byte) /\ wr.wp \in Nat /\ l >= 1
  <2>1. wr.buffer \in Seq(Byte) /\ Len(wr.buffer) \in Nat /\ wr.wp \in Nat
    BY <1>1, WriterFacts
  <2>2. Len(wr.buffer) # 0
    BY <2>1, EmptySeq
  <2> QED BY <2>1, <2>2
<1>4. /\ wr' \in Writers /\ wr'.open = wr.open /\ wr'.failed = wr.failed
      /\ wr'.truncated = wr.truncated /\ wr'.buffer = wr.buffer /\ wr'.left = l
      /\ wr'.wp = wr.wp
  BY <1>1, <1>3 DEF Writers
<1>5. op' \in Ops /\ op'.name # "append" /\ op'.name = name
  <2>1. name \in Names
    BY DEF Names
  <2>2. op' \in Ops
    BY <2>1, OpsFacts
  <2> QED BY <2>2
<1>6. Types'
  BY <1>1, <1>4, <1>5 DEF Types, Steps
<1>7. Control'
  BY <1>2, <1>4, <1>5 DEF FileInv, Control
<1>8. Buffer'
  <2>1. wr.wp + 0 <= file.size /\ l <= BufSize
    BY <1>3 DEF FileInv, Buffer, Flushing
  <2>2. l - l = 0 /\ BufSize' = BufSize
    BY DEF BufSize, HeaderSize
  <2> QED BY <1>3, <1>4, <1>5, <2>1, <2>2 DEF Buffer, Flushing
<1>9. Active'
  BY <1>4 DEF FileInv, Active
<1>10. MayPad' = MayPad
  BY <1>4 DEF MayPad
<1>11. FileInv'
  BY <1>6, <1>7, <1>8, <1>9, <1>10 DEF FileInv
<1>12. Data' = Data
  <2>1. BufferIs(wr', pc') = SubSeq(wr.buffer, 1, l) /\ BufferIs(wr, pc) = wr.buffer
    BY <1>4 DEF BufferIs
  <2>2. SubSeq(wr.buffer, 1, Len(wr.buffer)) = wr.buffer
    BY <1>3, SeqInt, PartWhole
  <2>3. BufferIs(wr', pc') = BufferIs(wr, pc)
    BY <1>3, <2>1, <2>2
  <2> QED BY <2>3, DataIs, DataNext DEF Stored
<1> QED BY <1>11, <1>12, QuietStep

(* A sync that has nothing to flush.                                        *)
LEMMA SyncNoFlush ==
  ASSUME FileInv, wr.open, pc = "idle", wr.buffer = <<>>,
         NEW name \in {"sync", "fsync", "close"}, wr.failed => name = "close" /\ mode = "direct",
         op' = [name |-> name, size |-> 0],
         file' = IF mode = "direct" THEN PushExtent(file) ELSE file, pc' = AfterDataSync(name),
         synced' = IF pc' = "idle" THEN Len(Data) ELSE synced,
         UNCHANGED <<mode, dev, wp, meta, wr, rest, dropped, given>>
  PROVE  FileInv' /\ File!Sync
<1>1. /\ mode \in Modes /\ wr \in Writers /\ rest \in Seq(Byte) /\ file \in Files
      /\ dropped \in Seq(Byte) /\ synced \in Nat /\ given \in Byte /\ synced <= file.size
      /\ Stored \in Seq(Byte) /\ Pointers(wp) /\ meta \in Metas
  BY StateFacts
<1>2. rest = <<>> /\ BufferIs(wr, pc) = <<>> /\ (wr.truncated => mode = "direct")
  BY DEF FileInv, Control, BufferIs
<1>3. Len(Data) = file.size /\ file.size \in Nat
  BY <1>2, DataStored
<1>4. op' \in Ops /\ op'.name = name
  <2>1. name \in Names
    BY DEF Names
  <2>2. op' \in Ops
    BY <2>1, OpsFacts
  <2> QED BY <2>2
<1>5. pc' \in {"persist", "close", "idle"} /\ (wr.failed => pc' = "close")
  BY AfterSync
<1>6. Laid(mode, dev, wp, file, meta) /\ Recovers(mode, dev, wp, file, meta, dropped, MayPad)
  BY DEF FileInv
<1>7. CASE mode = "direct" /\ file.active # NoZone
  <2>1. PICK g : g = PushExtent(file) /\ g = file'
    BY <1>7
  <2>2. /\ Laid(mode, dev, wp, g, meta) /\ StoredIn(mode, dev, g) = Stored
        /\ g.active = file.active /\ g.size = file.size
        /\ g.filepos = g.size /\ g \in Files
        /\ file.filepos = file.size => g = file
        /\ file.filepos # file.size => g.start = wp[file.active]
    BY <1>7, <2>1, PushStep
  <2>3. wp[file.active] \in Int /\ file.start \in Int /\ file.filepos \in Nat
    BY <1>1, <1>7, FieldFacts, PointerFacts
  <2>4. g.start = wp[file.active]
    <3>1. CASE file.filepos = file.size
      <4>1. /\ ~wr.truncated => file.start + (file.size - file.filepos) = wp[file.active]
            /\ wr.truncated => file.filepos < file.size \/ file.start = wp[file.active]
        BY <1>7 DEF FileInv, Active
      <4>2. file.start + (file.size - file.filepos) = file.start /\ ~(file.filepos < file.size)
        BY <1>3, <2>3, <3>1
      <4> QED BY <2>2, <3>1, <4>1, <4>2
    <3>2. CASE file.filepos # file.size
      BY <2>2, <3>2
    <3> QED BY <3>1, <3>2
  <2>5. MayPad = FALSE /\ MayPad' = FALSE
    BY <1>7 DEF MayPad
  <2>6. Recovers(mode, dev, wp, g, meta, dropped, FALSE)
    <3>1. meta.start # NoExtent
      BY <1>6, <1>7 DEF Recovers
    <3>2. StoredIn(mode, dev, file) \o dropped = StoredIn(mode, dev, g) \o dropped
      BY <2>2 DEF Stored
    <3>3. Recovers(mode, dev, wp, file, meta, dropped, FALSE) /\ mode # "sparse"
      BY <1>6, <1>7, <2>5
    <3> QED BY <2>2, <3>1, <3>2, <3>3, RecoversSame
  <2>7. Types'
    BY <1>1, <1>3, <1>4, <1>5 DEF Types, Steps
  <2>8. Control'
    BY <1>2, <1>4, <1>5, <1>7 DEF FileInv, Control
  <2>9. Buffer'
    BY <1>5, <1>7 DEF FileInv, Buffer, Flushing, BufSize, HeaderSize
  <2>10. Active'
    <3>1. g.start + (g.size - g.filepos) = wp[file.active]
      BY <1>3, <2>2, <2>3, <2>4
    <3> QED BY <1>5, <1>7, <2>1, <2>2, <2>4, <3>1 DEF Active
  <2>11. synced' <= file'.size
    BY <1>1, <1>3, <2>1, <2>2
  <2>12. FileInv'
    BY <2>1, <2>2, <2>5, <2>6, <2>7, <2>8, <2>9, <2>10, <2>11 DEF FileInv
  <2>13. Data' = Data
    <3>1. BufferIs(wr', pc') = BufferIs(wr, pc)
      BY <1>2, <1>5 DEF BufferIs
    <3> QED BY <2>1, <2>2, <3>1, DataIs, DataNext
  <2>14. File!Sync
    BY <2>13, SyncStep
  <2> QED BY <2>12, <2>14
<1>8. CASE ~(mode = "direct" /\ file.active # NoZone)
  <2>1. file' = file
    BY <1>8 DEF PushExtent
  <2>2. Recovers(mode, dev, wp, file, meta, dropped, MayPad')
    <3>1. CASE mode = "direct"
      BY <1>6, <3>1 DEF MayPad
    <3>2. CASE mode # "direct"
      <4>1. MayPad = FALSE
        BY <3>2 DEF MayPad
      <4>2. Recovers(mode, dev, wp, file, meta, dropped, FALSE)
        BY <1>6, <4>1
      <4> QED BY <4>2, RecoversWeaker
    <3> QED BY <3>1, <3>2
  <2>3. Types'
    BY <1>1, <1>3, <1>4, <1>5 DEF Types, Steps
  <2>4. Control'
    BY <1>2, <1>4, <1>5 DEF FileInv, Control
  <2>5. Buffer'
    BY <1>5, <2>1 DEF FileInv, Buffer, Flushing, BufSize, HeaderSize
  <2>6. Active'
    BY <1>5, <1>8, <2>1 DEF FileInv, Active
  <2>7. synced' <= file'.size
    BY <1>1, <1>3, <2>1
  <2>8. FileInv'
    BY <1>6, <2>1, <2>2, <2>3, <2>4, <2>5, <2>6, <2>7 DEF FileInv
  <2>9. Data' = Data
    <3>1. BufferIs(wr', pc') = BufferIs(wr, pc)
      BY <1>2, <1>5 DEF BufferIs
    <3> QED BY <2>1, <3>1, DataIs, DataNext DEF Stored
  <2>10. File!Sync
    BY <2>9, SyncStep
  <2> QED BY <2>8, <2>10
<1> QED BY <1>7, <1>8

(* DataSync.                                                                *)
LEMMA DataSyncStep ==
  ASSUME FileInv, NEW name \in {"sync", "fsync", "close"}, DataSync(name),
         wr.failed => name = "close" /\ mode = "direct"
  PROVE  FileInv' /\ File!Sync
<1>1. /\ wr.open /\ pc = "idle" /\ op' = [name |-> name, size |-> 0]
      /\ UNCHANGED <<mode, dev, wp, meta, rest, dropped, given>>
  BY DEF DataSync, Ready, Call, devVars
<1>2. CASE mode # "direct" /\ wr.buffer # <<>>
  <2>1. /\ pc' = "flush" /\ wr' = [wr EXCEPT !.left = Len(wr.buffer)]
        /\ UNCHANGED <<file, synced>>
    BY <1>2 DEF DataSync
  <2>2. ~wr.failed
    BY <1>2
  <2> QED BY <1>1, <1>2, <2>1, <2>2, SyncFlush
<1>3. CASE ~(mode # "direct" /\ wr.buffer # <<>>)
  <2>1. /\ file' = IF mode = "direct" THEN PushExtent(file) ELSE file
        /\ pc' = AfterDataSync(name) /\ synced' = IF pc' = "idle" THEN Len(Data) ELSE synced
        /\ UNCHANGED wr
    BY <1>3 DEF DataSync
  <2>2. wr.buffer = <<>>
    BY <1>3 DEF FileInv, Control
  <2> QED BY <1>1, <2>1, <2>2, SyncNoFlush
<1> QED BY <1>2, <1>3

(* RangeSync.                                                               *)
LEMMA RangeSyncStep ==
  ASSUME FileInv, NEW end \in 1..MaxBytes, RangeSync(end)
  PROVE  FileInv' /\ File!Sync
<1>1. /\ mode \in Modes /\ wr \in Writers /\ rest \in Seq(Byte) /\ dropped \in Seq(Byte)
      /\ synced \in Nat /\ given \in Byte /\ synced <= file.size /\ pc \in Steps
      /\ Stored \in Seq(Byte) /\ Len(Stored) = file.size /\ file.size \in Nat
      /\ Parts(Stored, BufferIs(wr, pc), rest, Data)
  BY StateFacts
<1>2. ~wr.failed /\ end \in Nat
  BY Constants DEF RangeSync
<1>3. CASE wr.wp < end
  <2>1. DataSync("sync")
    BY <1>3 DEF RangeSync
  <2> QED BY <1>2, <2>1, DataSyncStep
<1>4. CASE ~(wr.wp < end)
  <2>1. /\ wr.open /\ pc = "idle" /\ op' = [name |-> "none", size |-> 0]
        /\ synced' = IF synced < end THEN Min2(end, Len(Data)) ELSE synced
        /\ UNCHANGED <<mode, dev, wp, file, meta, wr, pc, rest, dropped, given>>
    BY <1>4 DEF RangeSync, Ready, Call, devVars
  <2>2. rest = <<>> /\ BufferIs(wr, pc) = wr.buffer
    BY <1>2, <2>1 DEF FileInv, Control, BufferIs
  <2>3. PICK k \in Nat, s \in Nat, l \in Nat, p \in Nat :
          k = Len(Data) /\ s = file.size /\ l = Len(wr.buffer) /\ p = wr.wp /\ k = s + l
    <3>0. Parts(Stored, wr.buffer, <<>>, Data)
      BY <1>1, <2>2
    <3>1. Len(Data) = Len(Stored) + (Len(wr.buffer) + Len(<<>>))
      BY <3>0, PartsFacts
    <3>2. Len(<<>>) = 0
      OBVIOUS
    <3> QED BY <1>1, <3>1, <3>2, WriterFacts
  <2>4. end <= s \/ l = 0
    <3>1. CASE mode = "direct"
      BY <2>3, <3>1 DEF FileInv, Control
    <3>2. CASE mode # "direct"
      <4>1. wr.wp + 0 <= file.size
        BY <1>2, <2>1, <3>2 DEF FileInv, Buffer, Flushing
      <4> QED BY <1>2, <1>4, <2>3, <4>1
    <3> QED BY <3>1, <3>2
  <2>5. PICK q \in Nat : q = synced' /\ synced <= q /\ q <= k /\ q <= s
    <3>1. synced <= s
      BY <1>1, <2>3
    <3>2. Min2(end, k) \in Int /\ Min2(end, k) <= end /\ Min2(end, k) <= k
          /\ (Min2(end, k) = end \/ Min2(end, k) = k)
      BY <1>2, MinFacts
    <3>3. synced' = IF synced < end THEN Min2(end, k) ELSE synced
      BY <2>1, <2>3
    <3> QED BY <1>1, <1>2, <2>3, <2>4, <3>1, <3>2, <3>3, SMTT(40)
  <2>6. op' \in Ops
    <3>1. "none" \in Names
      BY DEF Names
    <3> QED BY <2>1, <3>1, OpsFacts
  <2>7. Types'
    BY <1>1, <2>1, <2>5, <2>6 DEF Types
  <2>8. Control' /\ Active'
    BY <2>1 DEF FileInv, Control, Active
  <2>9. Buffer'
    BY <2>1 DEF FileInv, Buffer, Flushing, BufSize, HeaderSize
  <2>10. MayPad' = MayPad
    BY <2>1 DEF MayPad
  <2>11. synced' <= file'.size
    BY <2>1, <2>3, <2>5
  <2>12. FileInv'
    BY <2>1, <2>7, <2>8, <2>9, <2>10, <2>11 DEF FileInv
  <2>13. Data' = Data
    BY <2>1, DataIs, DataNext DEF Stored
  <2>14. synced' \in synced..Len(Data)
    BY <1>1, <2>3, <2>5
  <2>15. File!Sync
    BY <2>1, <2>13, <2>14 DEF File!Sync
  <2> QED BY <2>12, <2>15
<1> QED BY <1>3, <1>4

(* A file without data that is not pushed.                                  *)
LEMMA NothingPending ==
  ASSUME FileInv, pc \in {"persist", "close"}
  PROVE  Pending(mode, dev, file) = <<>>
<1>1. file \in Files /\ meta \in Metas
  BY StateFacts
<1>2. file.start \in Int /\ file.size \in Nat /\ file.filepos \in Nat
  BY <1>1, FieldFacts
<1>3. CASE mode = "direct" /\ file.active # NoZone
  <2>1. file.filepos = file.size
    BY <1>3 DEF FileInv, Active
  <2>2. file.size - file.filepos = 0
    BY <1>2, <2>1
  <2> QED BY <1>2, <1>3, <2>2, CellsNone DEF Pending
<1>4. CASE ~(mode = "direct" /\ file.active # NoZone)
  BY <1>4 DEF Pending
<1> QED BY <1>3, <1>4

(* r is a new record of the file f, whose data is pushed.                   *)
Fresh(md, d, w, f, m, r) ==
  /\ Laid(md, d, w, f, m) /\ r = EncodeTo(f) /\ Pending(md, d, f) = <<>>
  /\ f.active = NoZone => f.start = NoExtent
  /\ f.active # NoZone => f.start = w[f.active] /\ f.start < Start(f.active) + ZoneSize

(* FreshRecord with its hypotheses in one.                                  *)
LEMMA FreshWhole ==
  ASSUME NEW md, NEW d, NEW w, NEW f, NEW m, NEW r, Fresh(md, d, w, f, m, r)
  PROVE  Laid(md, d, w, f, r) /\ Recovers(md, d, w, f, r, <<>>, FALSE)
<1>1. /\ Laid(md, d, w, f, m) /\ r = EncodeTo(f) /\ Pending(md, d, f) = <<>>
      /\ f.active = NoZone => f.start = NoExtent
      /\ f.active # NoZone => f.start = w[f.active] /\ f.start < Start(f.active) + ZoneSize
  BY DEF Fresh
<1> QED BY <1>1, FreshRecord

(* The record of a synced file.                                             *)
LEMMA PersistMetadataStep ==
  ASSUME Benign, FileInv, PersistMetadata
  PROVE  FileInv' /\ File!Sync
<1>1. /\ mode \in Modes /\ wr \in Writers /\ op \in Ops /\ rest \in Seq(Byte) /\ given \in Byte
      /\ file \in Files /\ meta \in Metas /\ Pointers(wp)
  BY StateFacts
<1>2. /\ pc = "persist" /\ meta' = EncodeTo(file) /\ synced' = Len(Data) /\ dropped' = <<>>
      /\ pc' = IF op.name = "close" THEN "close" ELSE "idle"
      /\ UNCHANGED <<mode, dev, wp, file, wr, op, rest, given>>
  BY DEF PersistMetadata, devVars
<1>3. rest = <<>> /\ wr.buffer = <<>> /\ ~wr.failed /\ wr.open
  BY <1>1, <1>2, WriterFacts DEF FileInv, Control
<1>4. BufferIs(wr, pc) = <<>> /\ BufferIs(wr', pc') = <<>>
  BY <1>2, <1>3 DEF BufferIs
<1>5. Len(Data) = file.size /\ file.size \in Nat
  BY <1>3, <1>4, DataStored
<1>6. Laid(mode, dev, wp, file, meta) /\ Pending(mode, dev, file) = <<>>
  BY <1>2, NothingPending DEF FileInv
<1>7. file.active = NoZone => file.start = NoExtent
  BY <1>2, <1>3 DEF FileInv, Active
<1>8. ASSUME file.active # NoZone
      PROVE  file.start = wp[file.active] /\ file.start < Start(file.active) + ZoneSize
  <2>1. PICK z \in Zone : z = file.active
    BY <1>1, <1>8, FieldFacts
  <2>2. file.start = wp[z] /\ wp[z] < Start(z) + ZoneSize
    <3>1. CASE mode = "direct"
      <4>1. ZoneCap < ZoneSize /\ ZoneCap \in Nat /\ ZoneSize \in Nat
        BY <1>1, <3>1, Constants DEF Benign
      <4>2. wp[z] \in Int /\ Start(z) \in Nat /\ wp[z] <= Start(z) + ZoneCap
        BY <1>1, PointerFacts
      <4>3. file.start = wp[z]
        BY <1>2, <1>8, <2>1, <3>1 DEF FileInv, Active
      <4> QED BY <4>1, <4>2, <4>3
    <3>2. CASE mode # "direct"
      <4>1. CapacityLeft(wp, z) > 0 /\ file.start = wp[z]
        BY <1>6, <1>8, <2>1, <3>2 DEF Laid, Placement, Opened
      <4> QED BY <1>1, <4>1, CapacityFacts
    <3> QED BY <3>1, <3>2
  <2> QED BY <2>1, <2>2
<1>9. PICK r : r = meta' /\ r = EncodeTo(file)
  BY <1>2
<1>10. Laid(mode, dev, wp, file, r) /\ Recovers(mode, dev, wp, file, r, <<>>, FALSE)
  <2>1. Fresh(mode, dev, wp, file, meta, r)
    BY <1>6, <1>7, <1>8, <1>9 DEF Fresh
  <2> QED BY <2>1, FreshWhole
<1>11. MayPad' = FALSE /\ r.start = file.start
  BY <1>2, <1>3, <1>9 DEF MayPad, EncodeTo
<1>12. pc' \in {"idle", "close"}
  BY <1>2
<1>13. Types'
  <2>1. pc' \in Steps /\ <<>> \in Seq(Byte)
    BY <1>12 DEF Steps
  <2> QED BY <1>1, <1>2, <1>5, <2>1 DEF Types
<1>14. Control'
  BY <1>2, <1>3, <1>12 DEF FileInv, Control
<1>15. Buffer'
  BY <1>2, <1>12 DEF FileInv, Buffer, Flushing, BufSize, HeaderSize
<1>16. Active'
  BY <1>2, <1>3, <1>7, <1>9, <1>11, <1>12 DEF FileInv, Active
<1>17. FileInv'
  <2>1. Recovers(mode, dev, wp, file, meta, dropped, MayPad)'
    BY <1>2, <1>9, <1>10, <1>11
  <2>2. Laid(mode, dev, wp, file, meta)' /\ synced' <= file'.size
    BY <1>2, <1>5, <1>9, <1>10
  <2> QED BY <1>13, <1>14, <1>15, <1>16, <2>1, <2>2 DEF FileInv
<1>18. Data' = Data
  BY <1>2, <1>4, DataIs, DataNext DEF Stored
<1> QED BY <1>2, <1>17, <1>18, SyncStep

(* The writer that has closed the file.                                     *)
LEMMA ClosedFacts ==
  /\ Closed \in Writers /\ ~Closed.open /\ ~Closed.failed /\ ~Closed.truncated
  /\ Closed.buffer = <<>> /\ Closed.left = 0 /\ Closed.wp = 0
  /\ \A p : BufferIs(Closed, p) = <<>>
<1>1. /\ Closed \in Writers /\ ~Closed.open /\ ~Closed.failed /\ ~Closed.truncated
      /\ Closed.buffer = <<>> /\ Closed.left = 0 /\ Closed.wp = 0
  BY DEF Closed, Writers
<1>2. SubSeq(<<>>, 1, 0) = <<>>
  BY SeqInt, PartWhole
<1> QED BY <1>1, <1>2 DEF BufferIs

(* CloseWR.                                                                 *)
LEMMA CloseWRStep ==
  ASSUME FileInv, CloseWR
  PROVE  FileInv' /\ File!Sync
<1>1. /\ mode \in Modes /\ wr \in Writers /\ op \in Ops /\ rest \in Seq(Byte) /\ given \in Byte
      /\ file \in Files /\ meta \in Metas /\ Pointers(wp)
  BY StateFacts
<1>2. /\ pc = "close" /\ file' = CloseActiveZone([file EXCEPT !.start = NoExtent])
      /\ meta' = EncodeTo(file') /\ wr' = Closed /\ pc' = "idle"
      /\ synced' = Len(Data) /\ dropped' = <<>>
      /\ UNCHANGED <<mode, dev, wp, op, rest, given>>
  BY DEF CloseWR, devVars
<1>3. rest = <<>> /\ wr.buffer = <<>>
  BY <1>2 DEF FileInv, Control
<1>4. BufferIs(wr, pc) = <<>> /\ BufferIs(wr', pc') = <<>>
  BY <1>2, <1>3, ClosedFacts DEF BufferIs
<1>5. Len(Data) = file.size /\ file.size \in Nat
  BY <1>3, <1>4, DataStored
<1>6. Laid(mode, dev, wp, file, meta) /\ Pending(mode, dev, file) = <<>>
  BY <1>2, NothingPending DEF FileInv
<1>7. PICK g, r : g = file' /\ r = meta' /\ r = EncodeTo(g)
  BY <1>2
<1>8. /\ g \in Files /\ g.extents = file.extents /\ g.size = file.size
      /\ g.active = NoZone /\ g.start = NoExtent
  <2>1. PICK a \in Int, b \in Zone \cup {NoZone} : a = NoExtent /\ b = NoZone
    BY DEF NoExtent
  <2>2. g = [[file EXCEPT !.start = a] EXCEPT !.active = b]
    BY <1>2, <1>7, <2>1 DEF CloseActiveZone
  <2>3. /\ g \in Files /\ g.extents = file.extents /\ g.size = file.size
        /\ g.active = b /\ g.start = a
    BY <1>1, <2>2 DEF Files
  <2> QED BY <2>1, <2>3
<1>9. /\ Laid(mode, dev, wp, g, meta) /\ StoredIn(mode, dev, g) = StoredIn(mode, dev, file)
      /\ Pending(mode, dev, g) = <<>>
  BY <1>6, <1>8, Retarget
<1>10. Laid(mode, dev, wp, g, r) /\ Recovers(mode, dev, wp, g, r, <<>>, FALSE)
  <2>1. Fresh(mode, dev, wp, g, meta, r)
    BY <1>7, <1>8, <1>9 DEF Fresh
  <2> QED BY <2>1, FreshWhole
<1>11. MayPad' = FALSE /\ r.start = NoExtent
  BY <1>2, <1>7, <1>8, ClosedFacts DEF MayPad, EncodeTo
<1>12. Types'
  <2>1. "idle" \in Steps /\ <<>> \in Seq(Byte)
    BY DEF Steps
  <2> QED BY <1>1, <1>2, <1>5, <2>1, ClosedFacts DEF Types
<1>13. Control'
  BY <1>2, <1>3, ClosedFacts DEF FileInv, Control
<1>14. Buffer'
  <2>1. Len(<<>>) = 0 /\ 0 + 0 <= file.size /\ file'.size = file.size
    BY <1>5, <1>7, <1>8
  <2>2. BufSize' \in Nat
    BY <1>2, BufSizeFacts, DataIs DEF BufSize, HeaderSize
  <2> QED BY <1>2, <2>1, <2>2, ClosedFacts DEF Buffer, Flushing
<1>15. Active'
  BY <1>2, <1>7, <1>8, <1>11, ClosedFacts DEF Active
<1>16. FileInv'
  <2>1. Recovers(mode, dev, wp, file, meta, dropped, MayPad)'
    BY <1>2, <1>7, <1>10, <1>11
  <2>2. Laid(mode, dev, wp, file, meta)' /\ synced' <= file'.size
    BY <1>2, <1>5, <1>7, <1>8, <1>10
  <2> QED BY <1>12, <1>13, <1>14, <1>15, <2>1, <2>2 DEF FileInv
<1>17. Data' = Data
  BY <1>2, <1>4, <1>7, <1>9, DataIs, DataNext DEF Stored
<1> QED BY <1>2, <1>16, <1>17, SyncStep

(* Truncate.                                                                *)
LEMMA TruncateStep ==
  ASSUME FileInv, NEW n \in 1..MaxBytes, Truncate(n)
  PROVE  FileInv' /\ File!Truncate
<1>1. /\ mode \in Modes /\ wr \in Writers /\ rest \in Seq(Byte) /\ given \in Byte
      /\ file \in Files /\ meta \in Metas /\ Pointers(wp) /\ synced \in Nat /\ synced <= file.size
  BY StateFacts
<1>2. /\ wr.open /\ pc = "idle" /\ mode = "direct" /\ ~wr.failed /\ ~wr.truncated
      /\ file.active # NoZone /\ n < file.size /\ file.size - n < B /\ n >= file.filepos
      /\ op' = [name |-> "none", size |-> 0] /\ file' = [file EXCEPT !.size = n]
      /\ wr' = [wr EXCEPT !.truncated = TRUE]
      /\ dropped' = SubSeq(Data, n + 1, Len(Data)) /\ synced' = Min2(synced, n)
      /\ UNCHANGED <<mode, dev, wp, meta, pc, rest, given>>
  BY DEF Truncate, Ready, Call, devVars
<1>3. rest = <<>> /\ wr.buffer = <<>> /\ dropped = <<>> /\ n \in Nat
  BY <1>2, Constants DEF FileInv, Control
<1>4. /\ wr' \in Writers /\ wr'.open = wr.open /\ wr'.failed = wr.failed /\ wr'.truncated = TRUE
      /\ wr'.buffer = wr.buffer /\ wr'.left = wr.left /\ wr'.wp = wr.wp
  BY <1>1, <1>2 DEF Writers
<1>5. BufferIs(wr, pc) = <<>> /\ BufferIs(wr', pc') = <<>>
  BY <1>2, <1>3, <1>4 DEF BufferIs
<1>6. Data = Stored /\ Len(Data) = file.size /\ file.size \in Nat
  BY <1>3, <1>5, DataStored
<1>7. PICK g : g = file'
  OBVIOUS
<1>8. Cutting(mode, dev, wp, file, meta, n, g)
  <2>1. Ends(wp, file)
    BY <1>2 DEF FileInv, Active, Ends
  <2> QED BY <1>2, <1>3, <1>7, <2>1 DEF FileInv, Cutting
<1>9. PICK t \in Seq(Byte) : Joint(StoredIn(mode, dev, g), t, StoredIn(mode, dev, file))
  BY <1>8, TruncateFacts
<1>10. Laid(mode, dev, wp, g, meta) /\ CutTo(file, n, g) /\ g.filepos < g.size
  BY <1>8, TruncateFacts
<1>11. PICK s : s = StoredIn(mode, dev, g) /\ s \in Seq(Int) /\ Len(s) = n /\ s \in Seq(Byte)
  <2>1. StoredIn(mode, dev, g) \in Seq(Int) /\ Len(StoredIn(mode, dev, g)) = g.size
    BY <1>10, StoredFacts
  <2>2. StoredIn(mode, dev, g) \in Seq(Byte)
    BY <1>10 DEF Laid, Sizing
  <2> QED BY <1>10, <2>1, <2>2 DEF CutTo
<1>12. Joint(s, t, Data)
  BY <1>6, <1>9, <1>11 DEF Stored
<1>13. dropped' = t /\ IsPrefix(s, Data)
  BY <1>2, <1>11, <1>12, JointParts
<1>14. Data' = s
  <2>1. Data' = (s \o <<>>) \o <<>>
    BY <1>2, <1>3, <1>5, <1>7, <1>11, DataNext
  <2> QED BY <1>11, <2>1, ConcatEmptySeq
<1>15. Recovers(mode, dev, wp, g, meta, t, FALSE)
  <2>1. Recovers(mode, dev, wp, file, meta, <<>>, FALSE)
    <3>1. MayPad = FALSE
      BY <1>2 DEF MayPad
    <3>2. Recovers(mode, dev, wp, file, meta, dropped, MayPad)
      BY DEF FileInv
    <3> QED BY <1>3, <3>1, <3>2
  <2>2. meta.start # NoExtent
    BY <1>2, <2>1 DEF Recovers
  <2>3. StoredIn(mode, dev, file) \o <<>> = StoredIn(mode, dev, g) \o t
    <3>1. StoredIn(mode, dev, file) \o <<>> = StoredIn(mode, dev, file)
      BY <1>9, ConcatEmptySeq, JointFacts
    <3> QED BY <1>9, <3>1 DEF Joint
  <2>4. g.active = file.active
    BY <1>10 DEF CutTo
  <2>5. mode # "sparse"
    BY <1>2
  <2> QED BY <2>1, <2>2, <2>3, <2>4, <2>5, RecoversSame
<1>16. PICK q \in Nat : q = synced' /\ q <= n /\ q = IF synced < n THEN synced ELSE n
  BY <1>1, <1>2, <1>3 DEF Min2
<1>17. MayPad' = FALSE
  BY <1>2 DEF MayPad
<1>18. Types'
  <2>1. op' \in Ops
    <3>1. "none" \in Names
      BY DEF Names
    <3> QED BY <1>2, <3>1, OpsFacts
  <2>2. pc' \in Steps
    BY <1>2 DEF Steps
  <2> QED BY <1>1, <1>2, <1>4, <1>13, <1>16, <2>1, <2>2 DEF Types
<1>19. Control'
  BY <1>2, <1>3, <1>4 DEF FileInv, Control
<1>20. Buffer'
  BY <1>2, <1>4 DEF FileInv, Buffer, Flushing, BufSize, HeaderSize
<1>21. Active'
  BY <1>2, <1>4, <1>7, <1>10 DEF Active, CutTo
<1>22. FileInv'
  <2>1. Recovers(mode, dev, wp, file, meta, dropped, MayPad)'
    BY <1>2, <1>7, <1>13, <1>15, <1>17
  <2>2. Laid(mode, dev, wp, file, meta)' /\ synced' <= file'.size
    BY <1>2, <1>7, <1>10, <1>16 DEF CutTo
  <2> QED BY <1>18, <1>19, <1>20, <1>21, <2>1, <2>2 DEF FileInv
<1>23. File!Truncate
  <2>1. dropped' = SubSeq(Data, Len(Data') + 1, Len(Data)) \o dropped
    <3>1. SubSeq(Data, Len(Data') + 1, Len(Data)) = t
      BY <1>2, <1>11, <1>13, <1>14
    <3>2. t \o <<>> = t
      BY ConcatEmptySeq
    <3> QED BY <1>3, <1>13, <3>1, <3>2
  <2>2. synced' = IF synced < Len(Data') THEN synced ELSE Len(Data')
    BY <1>11, <1>14, <1>16
  <2>3. File!IsPrefix(Data', Data)
    BY <1>13, <1>14, PrefixSame
  <2> QED BY <1>2, <2>1, <2>2, <2>3 DEF File!Truncate
<1> QED BY <1>22, <1>23

(* ReopenWritableFile.                                                      *)
LEMMA ReopenStep ==
  ASSUME FileInv, Reopen
  PROVE  FileInv' /\ File!Sync
<1>1. /\ mode \in Modes /\ wr \in Writers /\ rest \in Seq(Byte) /\ given \in Byte
      /\ dropped \in Seq(Byte) /\ synced \in Nat /\ file.size \in Nat
  BY StateFacts
<1>2. /\ ~wr.open /\ pc = "idle" /\ op' = [name |-> "none", size |-> 0]
      /\ wr' = [Closed EXCEPT !.open = TRUE, !.wp = file.size]
      /\ UNCHANGED <<mode, dev, wp, file, meta, pc, rest, synced, dropped, given>>
  BY DEF Reopen, Call, devVars
<1>3. wr = Closed /\ rest = <<>>
  BY <1>2 DEF FileInv, Control
<1>4. dropped = <<>>
  BY <1>3, ClosedFacts DEF FileInv, Control
<1>5. /\ wr' \in Writers /\ wr'.open = TRUE /\ wr'.failed = FALSE /\ wr'.truncated = FALSE
      /\ wr'.buffer = <<>> /\ wr'.left = 0 /\ wr'.wp = file.size
  <2>1. PICK c \in Writers, k \in Nat :
          c = Closed /\ k = file.size /\ ~c.failed /\ ~c.truncated /\ c.buffer = <<>> /\ c.left = 0
    BY <1>1, ClosedFacts
  <2>2. wr' = [c EXCEPT !.open = TRUE, !.wp = k]
    BY <1>2, <2>1
  <2>3. /\ wr' \in Writers /\ wr'.open = TRUE /\ wr'.failed = c.failed
        /\ wr'.truncated = c.truncated /\ wr'.buffer = c.buffer /\ wr'.left = c.left /\ wr'.wp = k
    BY <2>2 DEF Writers
  <2>4. c.failed \in BOOLEAN /\ c.truncated \in BOOLEAN
    BY WriterFacts
  <2> QED BY <2>1, <2>3, <2>4
<1>6. Types'
  <2>1. op' \in Ops
    <3>1. "none" \in Names
      BY DEF Names
    <3> QED BY <1>2, <3>1, OpsFacts
  <2>2. pc' \in Steps
    BY <1>2 DEF Steps
  <2> QED BY <1>1, <1>2, <1>5, <2>1, <2>2 DEF Types
<1>7. Control'
  BY <1>2, <1>3, <1>4, <1>5 DEF FileInv, Control
<1>8. Buffer'
  <2>1. Len(<<>>) = 0 /\ file.size + 0 <= file.size /\ file'.size = file.size
    BY <1>1, <1>2
  <2>2. BufSize' \in Nat
    BY <1>2, BufSizeFacts, DataIs DEF BufSize, HeaderSize
  <2> QED BY <1>2, <1>5, <2>1, <2>2 DEF Buffer, Flushing
<1>9. Active'
  BY <1>2, <1>5 DEF FileInv, Active
<1>10. MayPad = FALSE /\ MayPad' = FALSE
  BY <1>2, <1>3, <1>5, ClosedFacts DEF MayPad
<1>11. FileInv'
  BY <1>2, <1>6, <1>7, <1>8, <1>9, <1>10 DEF FileInv
<1>12. Data' = Data
  <2>1. BufferIs(wr, pc) = <<>> /\ BufferIs(wr', pc') = <<>>
    BY <1>2, <1>3, <1>5, ClosedFacts DEF BufferIs
  <2> QED BY <1>2, <2>1, DataIs, DataNext DEF Stored
<1> QED BY <1>2, <1>11, <1>12, QuietStep

(* MigrateFileExtents.                                                      *)
LEMMA MigrateFileExtentsStep ==
  ASSUME FileInv, NEW i \in DOMAIN file.extents, NEW z \in Zone, MigrateFileExtents(i, z)
  PROVE  FileInv' /\ File!Sync
<1>1. /\ mode \in Modes /\ wr \in Writers /\ rest \in Seq(Byte) /\ given \in Byte
      /\ dropped \in Seq(Byte) /\ synced \in Nat /\ file.size \in Nat /\ synced <= file.size
      /\ file \in Files /\ meta \in Metas /\ Pointers(wp) /\ dev \in [Address -> Cell]
  BY StateFacts
<1>2. PICK e, c : e = file.extents[i] /\ c = MigrateData(e)
  OBVIOUS
<1>3. /\ ~wr.open /\ pc = "idle" /\ mode # "sparse" /\ CapacityLeft(wp, z) >= e.length
      /\ op' = [name |-> "none", size |-> 0] /\ ZoneAppend(z, c)
      /\ file' = [file EXCEPT !.extents[i].start = wp[z]] /\ meta' = EncodeTo(file')
      /\ UNCHANGED <<mode, wr, pc, rest, synced, dropped, given>>
  BY <1>2 DEF MigrateFileExtents, Call
<1>4. wr = Closed /\ rest = <<>> /\ file.active = NoZone /\ file.start = NoExtent
  BY <1>3 DEF FileInv, Control, Active
<1>5. dropped = <<>> /\ BufferIs(wr, pc) = <<>>
  BY <1>4, ClosedFacts DEF FileInv, Control
<1>6. Laid(mode, dev, wp, file, meta)
  BY DEF FileInv
<1>7. file.extents \in Seq(Ext) /\ e \in Ext /\ e.length \in Nat /\ e.start \in Int
  BY <1>1, <1>2, FieldFacts, ExtFacts
<1>8. PICK k \in Nat : k = RoundUp(e.length) /\ AllIn(dev, e.start, k, Cell)
  <2>1. Sound(0, wp, file.extents)
    BY <1>3, <1>6, HsFacts DEF Laid, Placement
  <2> QED BY <1>1, <1>2, <1>7, <2>1, BlocksWritten
<1>9. c = Cells(dev, e.start, k) /\ c \in Seq(Cell) /\ Len(c) = k
  BY <1>2, <1>7, <1>8, MigrateDataFacts, CellsFacts
<1>10. Aligned(k) /\ k <= CapacityLeft(wp, z)
  <2>1. CapacityLeft(wp, z) \in Nat /\ Aligned(CapacityLeft(wp, z))
    BY <1>1, CapacityFacts
  <2> QED BY <1>3, <1>7, <1>8, <2>1, RoundUpFacts
<1>11. Wrote(dev, wp, dev', wp', z, c)
  BY <1>3, <1>9, <1>10, ZoneAppendStep
<1>12. PICK d, w, g : d = dev' /\ w = wp' /\ g = file'
  OBVIOUS
<1>13. Moved(file, i, wp[z], g)
  <2>1. wp[z] \in Int
    BY <1>1, PointerFacts
  <2>2. /\ g.extents = [file.extents EXCEPT ![i].start = wp[z]] /\ g.size = file.size
        /\ g.start = file.start /\ g.filepos = file.filepos /\ g.active = file.active
    BY <1>1, <1>3, <1>12 DEF Files
  <2>3. [e EXCEPT !.start = wp[z]] \in Ext /\ [e EXCEPT !.start = wp[z]].start = wp[z]
        /\ [e EXCEPT !.start = wp[z]].length = e.length
    BY <1>7, <2>1 DEF Ext
  <2>4. g.extents = [file.extents EXCEPT ![i] = [e EXCEPT !.start = wp[z]]]
    BY <1>2, <1>7, <2>2
  <2>5. /\ g.extents \in Seq(Ext) /\ Len(g.extents) = Len(file.extents)
        /\ g.extents[i] = [e EXCEPT !.start = wp[z]]
        /\ \A j \in DOMAIN file.extents : j # i => g.extents[j] = file.extents[j]
    BY <1>7, <2>3, <2>4
  <2>6. g \in Files
    BY <1>1, <1>3, <1>12, <2>2, <2>5 DEF Files
  <2> QED BY <1>2, <2>2, <2>3, <2>5, <2>6 DEF Moved
<1>14. Moving(mode, dev, wp, file, meta, d, w, z, c, i, g)
  BY <1>2, <1>3, <1>4, <1>6, <1>8, <1>9, <1>11, <1>12, <1>13 DEF Moving
<1>15. PICK r : r = EncodeTo(g) /\ r = meta'
  BY <1>3, <1>12
<1>16. Laid(mode, d, w, g, r) /\ StoredIn(mode, d, g) = Stored
       /\ Recovers(mode, d, w, g, r, <<>>, FALSE)
  <2>1. /\ Laid(mode, d, w, g, EncodeTo(g)) /\ StoredIn(mode, d, g) = StoredIn(mode, dev, file)
        /\ \A dr, pad : Recovers(mode, d, w, g, EncodeTo(g), dr, pad)
    BY <1>14, MoveFacts
  <2>2. Recovers(mode, d, w, g, r, <<>>, FALSE)
    BY <1>15, <2>1
  <2> QED BY <1>15, <2>1, <2>2 DEF Stored
<1>17. MayPad' = FALSE /\ r.start = NoExtent
  BY <1>3, <1>4, <1>13, <1>15, ClosedFacts DEF MayPad, EncodeTo, Moved
<1>18. Types'
  <2>1. op' \in Ops
    <3>1. "none" \in Names
      BY DEF Names
    <3> QED BY <1>3, <3>1, OpsFacts
  <2>2. pc' \in Steps
    BY <1>3 DEF Steps
  <2> QED BY <1>1, <1>3, <2>1, <2>2 DEF Types
<1>19. Control'
  BY <1>3, <1>4 DEF FileInv, Control
<1>20. Buffer'
  BY <1>3, <1>12, <1>13 DEF FileInv, Buffer, Flushing, BufSize, HeaderSize, Moved
<1>21. Active'
  BY <1>3, <1>4, <1>12, <1>13, <1>15, <1>17, ClosedFacts DEF Active, Moved
<1>22. FileInv'
  <2>1. Recovers(mode, dev, wp, file, meta, dropped, MayPad)'
    BY <1>3, <1>5, <1>12, <1>15, <1>16, <1>17
  <2>2. Laid(mode, dev, wp, file, meta)' /\ synced' <= file'.size
    BY <1>1, <1>3, <1>12, <1>13, <1>15, <1>16 DEF Moved
  <2> QED BY <1>18, <1>19, <1>20, <1>21, <2>1, <2>2 DEF FileInv
<1>23. Data' = Data
  BY <1>3, <1>4, <1>12, <1>16, DataIs, DataNext
<1> QED BY <1>3, <1>22, <1>23, QuietStep

(* A part of a part.                                                        *)
LEMMA PartOfPart ==
  ASSUME NEW s, NEW m, NEW n, Cut(s, m, n)
  PROVE  SubSeq(SubSeq(s, 1, n), 1, m) = SubSeq(s, 1, m)
<1>1. Halves(s, m, n)
  BY CutFacts
<1>2. PICK a, b, u : a = SubSeq(s, 1, m) /\ b = SubSeq(s, m + 1, n) /\ u = SubSeq(s, 1, n)
  OBVIOUS
<1>3. Joint(a, b, u) /\ Len(a) = m
  BY <1>1, <1>2 DEF Halves
<1>4. SubSeq(u, 1, Len(a)) = a
  BY <1>3, JointParts
<1> QED BY <1>2, <1>3, <1>4

(* What is on the device after a crash, seen as the file f with the bytes   *)
(* dr that a Truncate cut off, holds the first bytes u of s, and t is the   *)
(* rest of s.                                                               *)
Survives(md, d, w, f, m, dr, pad, s, t, u) ==
  /\ Recoverable(md, d, w, f, m, dr, pad) /\ (pad => md = "buffered")
  /\ u = StoredIn(md, d, f) \o dr /\ Joint(u, t, s)

(* What a crash and the recovery leave of a file.                           *)
Left(d, w, u, g) ==
  /\ Laid(mode, d, w, g, EncodeTo(g)) /\ g.active = NoZone /\ g.start = NoExtent
  /\ Recovers(mode, d, w, g, EncodeTo(g), <<>>, FALSE)
  /\ \E p \in 0..(B - 1) : (p = 0 \/ mode = "buffered") /\ StoredIn(mode, d, g) = u \o Zeros(p)

(* The file of a recovery that found the extents x.                         *)
FileOf(m, x) ==
  [NewFile EXCEPT !.extents = x, !.size = IF x = m.extents THEN m.size ELSE SumLengths(x)]

(* The recovery keeps what survived.                                        *)
LEMMA RecoveryKeeps ==
  ASSUME NEW d, NEW w, NEW f, NEW dr, NEW pad, NEW s, NEW t, NEW u,
         Survives(mode, d, w, f, meta, dr, pad, s, t, u), NEW g, NEW r, r = Recover(d, w),
         g = FileOf(meta, r.extents)
  PROVE  r.ok = TRUE /\ Left(d, w, u, g)
<1>1. /\ Recoverable(mode, d, w, f, meta, dr, pad) /\ (pad => mode = "buffered")
      /\ u = StoredIn(mode, d, f) \o dr
  BY DEF Survives
<1>2. PICK x, p : /\ Recover(d, w) = [ok |-> TRUE, extents |-> x]
                  /\ Recovered(mode, d, w, f, dr, pad, x, p)
  BY <1>1, RecoverFacts
<1>3. r.ok = TRUE /\ r.extents = x
  BY <1>2
<1>4. /\ x \in Seq(Ext) /\ Sound(Hs(mode), w, x) /\ Apart(Hs(mode), x)
      /\ p \in 0..(B - 1) /\ (p = 0 \/ pad)
      /\ Bytes(d, x) = u \o Zeros(p)
  BY <1>1, <1>2 DEF Recovered
<1>5. Laid(mode, d, w, f, meta) /\ dr \in Seq(Byte)
  BY <1>1 DEF Recoverable
<1>6. /\ mode \in Modes /\ Pointers(w) /\ d \in [Address -> Cell]
      /\ meta.size = SumLengths(meta.extents) /\ StoredIn(mode, d, f) \in Seq(Byte)
  BY <1>5 DEF Laid, Sizing
<1>7. Bytes(d, x) \in Seq(Byte)
  <2>1. p \in Nat
    BY <1>4, Constants
  <2>2. Zeros(p) \in Seq(Byte)
    BY <2>1, ZerosFacts
  <2>3. u \in Seq(Byte)
    BY <1>1, <1>5, <1>6, ConcatProperties
  <2> QED BY <1>4, <2>2, <2>3, ConcatProperties
<1>8. Restored(mode, d, w, meta, x, g)
  BY <1>3, <1>4, <1>6, <1>7 DEF Restored, FileOf
<1>9. /\ Laid(mode, d, w, g, EncodeTo(g)) /\ StoredIn(mode, d, g) = Bytes(d, x)
      /\ g.active = NoZone /\ g.start = NoExtent
      /\ \A er, qad : Recovers(mode, d, w, g, EncodeTo(g), er, qad)
  <2>1. /\ Laid(mode, d, w, g, EncodeTo(g)) /\ StoredIn(mode, d, g) = Bytes(d, x)
        /\ \A er, qad : Recovers(mode, d, w, g, EncodeTo(g), er, qad)
    BY <1>8, RestoredFacts
  <2>2. g.active = NoZone /\ g.start = NoExtent
    BY <1>8, RestoredFacts
  <2> QED BY <2>1, <2>2
<1>10. Recovers(mode, d, w, g, EncodeTo(g), <<>>, FALSE)
  BY <1>9
<1>11. \E q \in 0..(B - 1) : (q = 0 \/ mode = "buffered") /\ StoredIn(mode, d, g) = u \o Zeros(q)
  BY <1>1, <1>4, <1>9
<1>12. Left(d, w, u, g)
  BY <1>9, <1>10, <1>11 DEF Left
<1> QED BY <1>3, <1>12

(* The file after a crash.                                                  *)
LEMMA CrashEnds ==
  ASSUME FileInv, Crash, NEW f, NEW dr, NEW pad, NEW t, NEW u, NEW s, s = Data \o dropped,
         Survives(mode, dev', wp', f, meta, dr, pad, s, t, u), Len(u) >= synced
  PROVE  FileInv' /\ File!Crash
<1>1. mode \in Modes /\ given \in Byte /\ synced \in Nat
  BY StateFacts
<1>2. PICK r : r = Recover(dev', wp')
  OBVIOUS
<1>3. /\ file' = FileOf(meta, r.extents)
      /\ pc' = IF r.ok THEN "idle" ELSE "unmountable"
      /\ meta' = EncodeTo(file') /\ wr' = Closed
      /\ op' = [name |-> "none", size |-> 0] /\ rest' = <<>> /\ dropped' = <<>>
      /\ mode' = mode /\ given' = given /\ synced' = Len(Data')
  BY <1>2 DEF Crash, FileOf
<1>4. PICK d, w, g : d = dev' /\ w = wp' /\ g = file'
  OBVIOUS
<1>5. r.ok = TRUE /\ Left(d, w, u, g)
  <2>1. Survives(mode, d, w, f, meta, dr, pad, s, t, u)
    BY <1>4
  <2>2. r = Recover(d, w)
    BY <1>2, <1>4
  <2>3. g = FileOf(meta, r.extents)
    BY <1>3, <1>4
  <2> QED BY <2>1, <2>2, <2>3, RecoveryKeeps
<1>6. pc' = "idle"
  BY <1>3, <1>5
<1>7. PICK k : k = EncodeTo(g) /\ k = meta'
  BY <1>3, <1>4
<1>8. /\ Laid(mode, d, w, g, k) /\ Recovers(mode, d, w, g, k, <<>>, FALSE)
      /\ g.active = NoZone /\ g.start = NoExtent
  BY <1>5, <1>7 DEF Left
<1>9. k.start = NoExtent /\ MayPad' = FALSE
  BY <1>3, <1>6, <1>7, <1>8, ClosedFacts DEF EncodeTo, MayPad
<1>10. PICK p \in 0..(B - 1) :
         (p = 0 \/ mode = "buffered") /\ StoredIn(mode, d, g) = u \o Zeros(p)
  BY <1>5 DEF Left
<1>11. StoredIn(mode, d, g) \in Seq(Int) /\ Len(StoredIn(mode, d, g)) = g.size /\ g.size \in Nat
  <2>1. g \in Files /\ k \in Metas
    BY <1>8 DEF Laid
  <2> QED BY <1>8, <2>1, StoredFacts, FieldFacts
<1>12. Data' = StoredIn(mode, d, g)
  <2>1. Data' = (StoredIn(mode, d, g) \o <<>>) \o <<>>
    BY <1>3, <1>4, ClosedFacts, DataNext
  <2> QED BY <1>11, <2>1, ConcatEmptySeq
<1>13. synced' = g.size
  BY <1>3, <1>11, <1>12
<1>14. Types'
  <2>1. op' \in Ops
    <3>1. "none" \in Names
      BY DEF Names
    <3> QED BY <1>3, <3>1, OpsFacts
  <2>2. pc' \in Steps /\ <<>> \in Seq(Byte)
    BY <1>6 DEF Steps
  <2> QED BY <1>1, <1>3, <1>11, <1>13, <2>1, <2>2, ClosedFacts DEF Types
<1>15. Control'
  <2>1. Aligned(Len(<<>>))
    <3>1. Len(<<>>) = 0
      OBVIOUS
    <3> QED BY <3>1, AlignedZero
  <2> QED BY <1>3, <1>6, <2>1, ClosedFacts DEF Control
<1>16. Buffer'
  <2>1. Len(<<>>) = 0 /\ 0 + 0 <= file'.size
    BY <1>4, <1>11
  <2>2. BufSize' \in Nat
    BY <1>3, BufSizeFacts, DataIs DEF BufSize, HeaderSize
  <2> QED BY <1>3, <1>6, <2>1, <2>2, ClosedFacts DEF Buffer, Flushing
<1>17. Active'
  BY <1>3, <1>4, <1>6, <1>7, <1>8, <1>9, ClosedFacts DEF Active
<1>18. FileInv'
  <2>1. Recovers(mode, dev, wp, file, meta, dropped, MayPad)'
    BY <1>3, <1>4, <1>7, <1>8, <1>9
  <2>2. Laid(mode, dev, wp, file, meta)' /\ synced' <= file'.size
    BY <1>3, <1>4, <1>7, <1>8, <1>11, <1>13
  <2> QED BY <1>14, <1>15, <1>16, <1>17, <2>1, <2>2 DEF FileInv
<1>19. File!Crash
  <2>1. Joint(u, t, s)
    BY DEF Survives
  <2>2. PICK n \in Nat : n = Len(u) /\ n \in synced..Len(s) /\ SubSeq(s, 1, n) = u
    <3>1. Len(u) \in Nat /\ Len(t) \in Nat /\ Len(s) = Len(u) + Len(t)
      BY <2>1, JointFacts
    <3>2. SubSeq(s, 1, Len(u)) = u
      BY <2>1, JointParts
    <3>3. Len(u) \in synced..Len(s)
      <4>1. PICK i \in Nat, j \in Nat : i = Len(u) /\ j = Len(t) /\ Len(s) = i + j
        BY <3>1
      <4>2. i >= synced
        BY <4>1
      <4>3. i \in synced..(i + j)
        BY <1>1, <4>2
      <4> QED BY <4>1, <4>3
    <3> QED BY <3>1, <3>2, <3>3
  <2>3. p \in 0..(IF mode = "buffered" THEN B - 1 ELSE 0)
    BY <1>10, Constants
  <2>4. File!Padding(p) = Zeros(p)
    BY DEF File!Padding, Zeros
  <2>5. Data' = SubSeq(Data \o dropped, 1, n) \o File!Padding(p)
    BY <1>10, <1>12, <2>2, <2>4
  <2>6. n \in synced..Len(Data \o dropped)
    BY <2>2
  <2> QED BY <1>3, <2>3, <2>5, <2>6 DEF File!Crash
<1> QED BY <1>18, <1>19

(* A crash between two writes: the file as it is on the device.             *)
LEMMA CrashBetween ==
  ASSUME FileInv, Crash, UNCHANGED <<dev, wp>>
  PROVE  FileInv' /\ File!Crash
<1>1. /\ Stored \in Seq(Byte) /\ Len(Stored) = file.size /\ file.size \in Nat
      /\ synced \in Nat /\ synced <= file.size /\ dropped \in Seq(Byte)
      /\ Parts(Stored, BufferIs(wr, pc), rest, Data) /\ wr \in Writers
  BY StateFacts
<1>2. Laid(mode, dev, wp, file, meta) /\ Recovers(mode, dev, wp, file, meta, dropped, MayPad)
  BY DEF FileInv
<1>3. ~wr.truncated => dropped = <<>>
  BY DEF FileInv, Control
<1>4. Recoverable(mode, dev, wp, file, meta, dropped, MayPad)
  <2>1. mode = "sparse" => dropped = <<>>
    BY <1>3 DEF FileInv, Control
  <2>2. meta.start = NoExtent => dropped = <<>>
    <3>1. meta.start = NoExtent => file.active = NoZone
      BY <1>2 DEF Recovers
    <3> QED BY <1>3, <3>1 DEF FileInv, Active
  <2> QED BY <1>1, <1>2, <2>1, <2>2 DEF Recoverable
<1>5. PICK u : u = StoredIn(mode, dev, file) \o dropped
  OBVIOUS
<1>6. PICK s : s = Data \o dropped
  OBVIOUS
<1>7. Len(u) >= synced
  <2>1. PICK i \in Nat, j \in Nat : i = Len(Stored) /\ j = Len(dropped)
    BY <1>1, LenProperties
  <2>2. Len(u) = i + j
    BY <1>1, <1>5, <2>1, ConcatProperties DEF Stored
  <2> QED BY <1>1, <2>1, <2>2
<1>8. \E t : Joint(u, t, s)
  <2>1. CASE wr.truncated
    <3>1. wr.buffer = <<>> /\ rest = <<>> /\ pc \notin {"flush", "realloc"}
      BY <2>1 DEF FileInv, Control
    <3>2. BufferIs(wr, pc) = <<>>
      BY <3>1 DEF BufferIs
    <3>3. Data = Stored
      BY <3>1, <3>2, DataStored
    <3>4. u \in Seq(Int) /\ s = u
      <4>1. Stored \o dropped \in Seq(Byte)
        BY <1>1, ConcatProperties
      <4> QED BY <1>5, <1>6, <3>3, <4>1, SeqInt DEF Stored
    <3>5. Joint(u, <<>>, s)
      BY <3>4, ConcatEmptySeq DEF Joint
    <3> QED BY <3>5
  <2>2. CASE ~wr.truncated
    <3>1. Data \in Seq(Byte) /\ Joint(Stored, BufferIs(wr, pc) \o rest, Data)
      BY <1>1, PartsFacts
    <3>2. u = Stored
      BY <1>1, <1>3, <1>5, <2>2, ConcatEmptySeq DEF Stored
    <3>3. s = Data
      BY <1>3, <1>6, <2>2, <3>1, ConcatEmptySeq
    <3> QED BY <3>1, <3>2, <3>3
  <2> QED BY <2>1, <2>2
<1>9. PICK t : Joint(u, t, s)
  BY <1>8
<1>10. PICK pad : pad = MayPad
  OBVIOUS
<1>11. Survives(mode, dev, wp, file, meta, dropped, pad, s, t, u)
  <2>1. pad => mode = "buffered"
    BY <1>10 DEF MayPad
  <2> QED BY <1>4, <1>5, <1>9, <1>10, <2>1 DEF Survives
<1>12. Survives(mode, dev', wp', file, meta, dropped, pad, s, t, u)
  BY <1>11
<1> QED BY <1>6, <1>7, <1>12, CrashEnds

(* The bytes a torn write adds to the file.                                 *)
LEMMA TornSurvives ==
  ASSUME FileInv, Crash, dropped = <<>>, NEW f, NEW b, NEW r, NEW pad,
         b \in Seq(Byte), r \in Seq(Byte), Data = Stored \o (b \o r),
         Laid(mode, dev', wp', f, meta), StoredIn(mode, dev', f) = Stored \o b,
         Recovers(mode, dev', wp', f, meta, <<>>, pad), pad => mode = "buffered"
  PROVE  FileInv' /\ File!Crash
<1>1. /\ Stored \in Seq(Byte) /\ Len(Stored) = file.size /\ file.size \in Nat
      /\ synced \in Nat /\ synced <= file.size
  BY StateFacts
<1>2. PICK u : u = StoredIn(mode, dev', f) \o <<>>
  OBVIOUS
<1>3. Stored \o b \in Seq(Byte) /\ u = Stored \o b
  BY <1>1, <1>2, ConcatProperties, ConcatEmptySeq
<1>4. PICK s : s = Data \o dropped
  OBVIOUS
<1>5. s = Stored \o (b \o r)
  <2>1. Stored \o (b \o r) \in Seq(Byte)
    BY <1>1, ConcatProperties
  <2> QED BY <1>4, <2>1, ConcatEmptySeq
<1>6. Joint(u, r, s)
  <2>1. Stored \in Seq(Int) /\ b \in Seq(Int) /\ r \in Seq(Int) /\ u \in Seq(Int)
    BY <1>1, <1>3, SeqInt
  <2>2. (Stored \o b) \o r = Stored \o (b \o r)
    BY <2>1, Assoc
  <2> QED BY <1>3, <1>5, <2>1, <2>2 DEF Joint
<1>7. Len(u) >= synced
  <2>1. PICK i \in Nat, j \in Nat : i = Len(Stored) /\ j = Len(b)
    BY <1>1, LenProperties
  <2>2. Len(u) = i + j
    BY <1>1, <1>3, <2>1, ConcatProperties
  <2> QED BY <1>1, <2>1, <2>2
<1>8. Recoverable(mode, dev', wp', f, meta, <<>>, pad)
  BY DEF Recoverable
<1>9. Survives(mode, dev', wp', f, meta, <<>>, pad, s, r, u)
  BY <1>2, <1>6, <1>8 DEF Survives
<1> QED BY <1>4, <1>7, <1>9, CrashEnds

(* A crash in the write of a direct append.                                 *)
LEMMA CrashInWrite ==
  ASSUME FileInv, Crash, pc = "write", HasRoom, NEW n \in Nat, n > 0, n <= Len(DirectCells),
         Aligned(n), ZoneAppend(file.active, SubSeq(DirectCells, 1, n))
  PROVE  FileInv' /\ File!Crash
<1>1. /\ rest \in Seq(Byte) /\ file \in Files /\ Parts(Stored, BufferIs(wr, pc), rest, Data)
      /\ wr \in Writers
  BY StateFacts
<1>2. mode = "direct" /\ ~wr.failed /\ ~wr.truncated /\ dropped = <<>> /\ wr.buffer = <<>>
  BY <1>1, WriterFacts DEF FileInv, Control
<1>3. PICK k \in Nat : /\ Cut(rest, k, Len(rest)) /\ k <= CapacityLeft(wp, file.active)
                       /\ DirectCells = SubSeq(rest, 1, k) /\ Len(DirectCells) = k
                       /\ file.active \in Zone
  BY DirectCellsFacts
<1>4. PICK z \in Zone : z = file.active
  BY <1>3
<1>5. PICK l \in Nat : l = Len(rest) /\ k <= l /\ rest \in Seq(Int)
  BY <1>3 DEF Cut
<1>6. PICK c : c = SubSeq(rest, 1, n)
  OBVIOUS
<1>7. n <= k /\ Cut(rest, n, k) /\ Cut(rest, n, Len(rest)) /\ Within(rest, 1, n)
  BY <1>3, <1>5 DEF Cut, Within
<1>8. SubSeq(DirectCells, 1, n) = c
  BY <1>3, <1>6, <1>7, PartOfPart
<1>9. PICK r : r = SubSeq(rest, n + 1, Len(rest))
  OBVIOUS
<1>10. Joint(c, r, rest) /\ Len(c) = n
  <2>1. /\ Halves(rest, n, Len(rest))
        /\ Joint(SubSeq(rest, 1, n), SubSeq(rest, n + 1, Len(rest)), rest)
    BY <1>7, CutWhole
  <2> QED BY <1>6, <1>9, <2>1 DEF Halves
<1>11. c \in Seq(Byte) /\ r \in Seq(Byte)
  <2>1. Within(rest, n + 1, l)
    BY <1>5, <1>7 DEF Within, Cut
  <2> QED BY <1>1, <1>5, <1>6, <1>7, <1>9, <2>1, ByteParts
<1>12. Wrote(dev, wp, dev', wp', z, c)
  <2>1. Len(c) <= CapacityLeft(wp, z) /\ CapacityLeft(wp, z) \in Nat /\ Aligned(Len(c))
    <3>1. CapacityLeft(wp, z) \in Nat
      BY StateFacts, CapacityFacts
    <3>2. n <= CapacityLeft(wp, z)
      BY <1>3, <1>4, <1>7, <3>1
    <3> QED BY <1>10, <3>1, <3>2
  <2>2. c \in Seq(Cell) /\ ZoneAppend(z, c)
    BY <1>4, <1>8, <1>11, SeqInt
  <2> QED BY <2>1, <2>2, ZoneAppendStep
<1>13. Laid(mode, dev, wp, file, meta) /\ Recovers(mode, dev, wp, file, meta, <<>>, FALSE)
  <2>1. MayPad = FALSE
    BY <1>2 DEF MayPad
  <2> QED BY <1>2, <2>1 DEF FileInv
<1>14. PICK g : g = [file EXCEPT !.size = @ + Len(c)]
  OBVIOUS
<1>15. Writes(mode, wp, file, z, c, g)
  <2>1. Ends(wp, file)
    BY <1>2 DEF FileInv, Active, Ends, HasRoom
  <2> QED BY <1>2, <1>4, <1>14, <2>1 DEF Writes
<1>16. PICK e, v : e = dev' /\ v = wp'
  OBVIOUS
<1>17. Writing(mode, dev, wp, file, meta, e, v, z, c, g)
  BY <1>11, <1>12, <1>13, <1>15, <1>16 DEF Writing
<1>18. /\ Laid(mode, e, v, g, meta) /\ StoredIn(mode, e, g) = StoredIn(mode, dev, file) \o c
       /\ Recovers(mode, e, v, g, meta, <<>>, FALSE) /\ Ends(v, g)
       /\ Advanced(file, g, z, Len(c))
  BY <1>17, WriteWhole
<1>19. Data = Stored \o (c \o r)
  <2>1. BufferIs(wr, pc) = <<>>
    BY <1>2 DEF BufferIs
  <2>2. Data = Stored \o rest
    BY <1>1, <2>1, PartsFacts
  <2> QED BY <1>10, <2>2 DEF Joint
<1>20. /\ Laid(mode, dev', wp', g, meta) /\ StoredIn(mode, dev', g) = Stored \o c
       /\ Recovers(mode, dev', wp', g, meta, <<>>, FALSE)
  BY <1>16, <1>18 DEF Stored
<1> QED BY <1>2, <1>11, <1>19, <1>20, TornSurvives

(* The blocks of a torn write of a buffered file are a segment of their     *)
(* own: bytes of the buffer only, or the whole segment.                     *)
LEMMA TornPiece ==
  ASSUME NEW md, md # "sparse", NEW n, NEW q, NEW buf, NEW c, Piece(md, n, q, buf, c),
         NEW k \in Nat, k > 0, k <= Len(c), Aligned(k)
  PROVE  \E i, j : Piece(md, i, j, buf, SubSeq(c, 1, k)) /\ i <= n
<1>1. /\ n \in Nat /\ n >= 1 /\ buf \in Seq(Byte) /\ n <= Len(buf) /\ n <= BufferSize - Hs(md)
      /\ q = RoundUp(n + Hs(md)) - n - Hs(md)
      /\ c = (HeaderOf(md, n) \o SubSeq(buf, 1, n)) \o Zeros(q)
  BY DEF Piece
<1>2. Hs(md) = 0 /\ HeaderOf(md, n) = <<>> /\ HeaderOf(md, k) = <<>>
  BY HsFacts DEF HeaderOf
<1>3. /\ Len(c) = RoundUp(n + Hs(md)) /\ c \in Seq(Cell) /\ q \in Nat
      /\ SubSeq(buf, 1, n) \in Seq(Byte) /\ Len(SubSeq(buf, 1, n)) = n
  BY PieceFacts
<1>4. PICK m \in Nat : m = n /\ Len(c) = RoundUp(m)
  <2>1. n + 0 = n
    BY <1>1
  <2> QED BY <1>1, <1>2, <1>3, <2>1
<1>5. CASE k <= m
  <2>1. PICK b, z : b = SubSeq(buf, 1, n) /\ z = Zeros(q) /\ b \in Seq(Int) /\ z \in Seq(Int)
    BY <1>3, ZerosFacts, SeqInt
  <2>2. c = b \o z
    <3>1. <<>> \o b = b
      BY <2>1, ConcatEmptySeq
    <3> QED BY <1>1, <1>2, <2>1, <3>1
  <2>3. Joint(b, z, c)
    BY <2>1, <2>2 DEF Joint
  <2>4. Len(buf) \in Nat /\ buf \in Seq(Int) /\ c \in Seq(Int) /\ Len(c) \in Nat
    BY <1>1, <1>3, SeqInt, LenProperties
  <2>5. Cut(buf, k, n) /\ Cut(c, k, m)
    <3>1. m <= Len(c)
      BY <1>4, RoundUpFacts
    <3> QED BY <1>1, <1>4, <1>5, <2>4, <3>1 DEF Cut
  <2>6. SubSeq(c, 1, m) = b
    <3>1. SubSeq(c, 1, Len(b)) = b
      BY <2>3, JointParts
    <3>2. Len(b) = m
      BY <1>3, <1>4, <2>1
    <3> QED BY <3>1, <3>2
  <2>7. SubSeq(c, 1, k) = SubSeq(buf, 1, k)
    <3>1. SubSeq(SubSeq(c, 1, m), 1, k) = SubSeq(c, 1, k)
      BY <2>5, PartOfPart
    <3>2. SubSeq(SubSeq(buf, 1, n), 1, k) = SubSeq(buf, 1, k)
      BY <2>5, PartOfPart
    <3> QED BY <2>1, <2>6, <3>1, <3>2
  <2>8. PICK a : a = SubSeq(buf, 1, k) /\ a \in Seq(Int)
    <3>1. Within(buf, 1, k)
      BY <1>1, <1>4, <1>5, <2>4 DEF Within
    <3> QED BY <1>1, <3>1, ByteParts, SeqInt
  <2>9. SubSeq(c, 1, k) = (HeaderOf(md, k) \o SubSeq(buf, 1, k)) \o Zeros(0)
    <3>1. (<<>> \o a) \o <<>> = a
      BY <2>8, ConcatEmptySeq
    <3>2. Zeros(0) = <<>>
      BY ZerosFacts
    <3> QED BY <1>2, <2>7, <2>8, <3>1, <3>2
  <2>10. 0 = RoundUp(k + Hs(md)) - k - Hs(md)
    <3>1. RoundUp(k) = k
      BY RoundUpFacts
    <3>2. k + 0 = k /\ k - k - 0 = 0
      OBVIOUS
    <3> QED BY <1>2, <3>1, <3>2
  <2>11. k >= 1 /\ k <= Len(buf) /\ k <= BufferSize - Hs(md) /\ k <= n
    <3>1. BufferSize - Hs(md) \in Nat
      BY BufSizeFacts
    <3> QED BY <1>1, <1>4, <1>5, <2>4, <3>1
  <2>12. Piece(md, k, 0, buf, SubSeq(c, 1, k))
    BY <1>1, <2>9, <2>10, <2>11 DEF Piece
  <2> QED BY <2>11, <2>12
<1>6. CASE ~(k <= m)
  <2>1. RoundUp(m) <= k /\ RoundUp(m) \in Int
    BY <1>6, RoundUpFacts
  <2>2. k = Len(c)
    BY <1>4, <2>1
  <2>3. SubSeq(c, 1, k) = c
    BY <1>3, <2>2, SeqInt, PartWhole
  <2>4. n <= n
    BY <1>1
  <2> QED BY <2>3, <2>4
<1> QED BY <1>5, <1>6

(* The file of a flush that ended with a torn segment of n bytes.           *)
TornFile(md, f, v, z, n) ==
  [f EXCEPT !.extents = Append(@, Extent(f.start + Hs(md), n)), !.start = v[z],
            !.size = @ + n, !.active = IF CapacityLeft(v, z) = 0 THEN NoZone ELSE z]

(* It is what a flush leaves.                                               *)
LEMMA TornFilled ==
  ASSUME NEW md, NEW f \in Files, NEW v, Pointers(v), NEW z \in Zone, NEW n \in Nat, n > 0
  PROVE  Filled(md, f, v, z, n, TornFile(md, f, v, z, n))
<1>1. /\ f.extents \in Seq(Ext) /\ f.start \in Int /\ f.size \in Nat /\ Hs(md) \in Nat
      /\ v[z] \in Int
  BY HsFacts, PointerFacts DEF Files
<1>2. PICK x \in Seq(Ext) : x = Append(f.extents, Extent(f.start + Hs(md), n))
  <2>1. f.start + Hs(md) \in Int
    BY <1>1
  <2>2. Extent(f.start + Hs(md), n) \in Ext
    BY <2>1, ExtentFacts
  <2> QED BY <1>1, <2>2, AppendProperties
<1>3. PICK a \in Int, k \in Nat, y \in Zone \cup {NoZone} :
        /\ a = v[z] /\ k = f.size + n
        /\ y = IF CapacityLeft(v, z) = 0 THEN NoZone ELSE z
  BY <1>1
<1>4. TornFile(md, f, v, z, n) = [f EXCEPT !.extents = x, !.start = a, !.size = k, !.active = y]
  BY <1>2, <1>3 DEF TornFile, Files
<1>5. PICK g : g = TornFile(md, f, v, z, n)
  OBVIOUS
<1>6. g \in Files /\ g.extents = x /\ g.start = a /\ g.size = k /\ g.active = y
  BY <1>4, <1>5 DEF Files
<1> QED BY <1>2, <1>3, <1>5, <1>6 DEF Filled

(* A crash in the write of a flush.                                         *)
LEMMA CrashInFlush ==
  ASSUME FileInv, Crash, pc = "flush", mode # "sparse", file.active # NoZone, NEW n \in Nat,
         n > 0, n <= Len(Segment), Aligned(n), ZoneAppend(file.active, SubSeq(Segment, 1, n))
  PROVE  FileInv' /\ File!Crash
<1>1. /\ rest \in Seq(Byte) /\ file \in Files /\ Parts(Stored, BufferIs(wr, pc), rest, Data)
      /\ wr \in Writers /\ mode \in Modes /\ Stored \in Seq(Byte)
  BY StateFacts
<1>2. mode = "buffered" /\ ~wr.failed /\ dropped = <<>>
  BY <1>1, FileIOAssumption, WriterFacts DEF FileInv, Control
<1>3. PICK m, p, z : NextPiece(m, p, z)
  BY SegmentFacts
<1>4. /\ Piece(mode, m, p, wr.buffer, Segment) /\ m <= wr.left
      /\ z \in Zone /\ z = file.active /\ Len(Segment) <= CapacityLeft(wp, z)
  BY <1>3 DEF NextPiece
<1>5. PICK c : c = SubSeq(Segment, 1, n)
  OBVIOUS
<1>6. PICK i, q : Piece(mode, i, q, wr.buffer, c) /\ i <= m
  BY <1>4, <1>5, TornPiece
<1>7. i \in Nat /\ i >= 1 /\ q = RoundUp(i + Hs(mode)) - i - Hs(mode) /\ m \in Nat
  BY <1>4, <1>6 DEF Piece
<1>8. PICK b : b = SubSeq(wr.buffer, 1, i)
  OBVIOUS
<1>9. IsSegment(mode, i, b, q, c) /\ c \in Seq(Cell) /\ Aligned(Len(c)) /\ b \in Seq(Byte)
  BY <1>6, <1>8, PieceFacts
<1>10. Len(c) = n
  <2>1. Segment \in Seq(Cell)
    BY <1>4, PieceFacts
  <2>2. Cut(Segment, n, n)
    BY <2>1, SeqInt DEF Cut
  <2>3. Halves(Segment, n, n)
    BY <2>2, CutFacts
  <2> QED BY <1>5, <2>3 DEF Halves
<1>11. Wrote(dev, wp, dev', wp', z, c)
  <2>1. CapacityLeft(wp, z) \in Nat /\ Len(Segment) \in Nat
    <3>1. Segment \in Seq(Cell)
      BY <1>4, PieceFacts
    <3> QED BY <1>4, <3>1, StateFacts, CapacityFacts, LenProperties
  <2>2. Len(c) <= CapacityLeft(wp, z)
    BY <1>4, <1>10, <2>1
  <2>3. ZoneAppend(z, c)
    BY <1>4, <1>5
  <2> QED BY <1>4, <1>9, <2>2, <2>3, ZoneAppendStep
<1>12. PICK e, v : e = dev' /\ v = wp'
  OBVIOUS
<1>13. PICK g : Filled(mode, file, v, z, i, g)
  <2>1. Pointers(v) /\ i > 0
    BY <1>7, <1>11, <1>12 DEF Wrote, Grown
  <2> QED BY <1>1, <1>4, <1>7, <2>1, TornFilled
<1>14. Laid(mode, dev, wp, file, meta) /\ Recovers(mode, dev, wp, file, meta, <<>>, FALSE)
  <2>1. MayPad = FALSE
    BY <1>2 DEF MayPad
  <2> QED BY <1>2, <2>1 DEF FileInv
<1>15. Flushes(mode, dev, wp, file, meta, e, v, z, c, g, b, i, q)
  <2>1. Wrote(dev, wp, e, v, z, c) /\ i > 0 /\ mode # "direct"
    BY <1>2, <1>7, <1>11, <1>12
  <2> QED BY <1>4, <1>7, <1>9, <1>13, <1>14, <2>1 DEF Flushes
<1>16. Laid(mode, e, v, g, meta) /\ StoredIn(mode, e, g) = StoredIn(mode, dev, file) \o b
  BY <1>15, FlushLaid
<1>17. Recovers(mode, e, v, g, meta, <<>>, TRUE)
  BY <1>14, <1>15, FlushRecovers
<1>18. PICK r : b \o r = SubSeq(wr.buffer, 1, wr.left) \o rest /\ r \in Seq(Byte)
  <2>1. PICK l \in Nat : l = wr.left /\ l <= Len(wr.buffer) /\ wr.buffer \in Seq(Byte)
    BY <1>1, WriterFacts DEF FileInv, Buffer
  <2>2. Len(wr.buffer) \in Nat /\ i <= l
    BY <1>1, <1>4, <1>6, <1>7, <2>1, WriterFacts
  <2>3. Cut(wr.buffer, i, l) /\ Within(wr.buffer, i + 1, l)
    BY <1>7, <2>1, <2>2, SeqInt DEF Cut, Within
  <2>4. Halves(wr.buffer, i, l)
    BY <2>3, CutFacts
  <2>5. PICK a : a = SubSeq(wr.buffer, i + 1, l) /\ a \in Seq(Byte)
    BY <2>1, <2>3, ByteParts
  <2>6. SubSeq(wr.buffer, 1, l) = b \o a
    BY <1>8, <2>4, <2>5 DEF Halves, Joint
  <2>7. (b \o a) \o rest = b \o (a \o rest)
    BY <1>1, <1>9, <2>5, SeqInt, Assoc
  <2>8. a \o rest \in Seq(Byte)
    BY <1>1, <2>5, ConcatProperties
  <2> QED BY <2>1, <2>6, <2>7, <2>8
<1>19. Data = Stored \o (b \o r)
  <2>1. BufferIs(wr, pc) = SubSeq(wr.buffer, 1, wr.left)
    BY <1>2 DEF BufferIs
  <2>2. Data = Stored \o (BufferIs(wr, pc) \o rest)
    <3>1. PICK a, d : a = BufferIs(wr, pc) /\ d = Data
      OBVIOUS
    <3>2. Parts(Stored, a, rest, d)
      BY <1>1, <3>1
    <3>3. d = Stored \o (a \o rest)
      BY <3>2, PartsFacts
    <3> QED BY <3>1, <3>3
  <2> QED BY <1>18, <2>1, <2>2
<1>20. /\ Laid(mode, dev', wp', g, meta) /\ StoredIn(mode, dev', g) = Stored \o b
       /\ Recovers(mode, dev', wp', g, meta, <<>>, TRUE)
  BY <1>12, <1>16, <1>17 DEF Stored
<1> QED BY <1>2, <1>9, <1>18, <1>19, <1>20, TornSurvives

(* Crash.                                                                   *)
LEMMA CrashStep ==
  ASSUME Benign, FileInv, Crash
  PROVE  FileInv' /\ File!Crash
<1>1. PICK n \in {m \in 0..Len(PendingCells) : m % B = 0} :
        /\ n > 0 => mode \in TornModes
        /\ IF n = 0 THEN UNCHANGED devVars
           ELSE ZoneAppend(file.active, SubSeq(PendingCells, 1, n))
  BY DEF Crash
<1>2. CASE n = 0
  BY <1>1, <1>2, CrashBetween DEF devVars
<1>3. CASE n # 0
  <2>1. mode # "sparse" /\ n \in Nat /\ n > 0 /\ n <= Len(PendingCells) /\ Aligned(n)
    <3>1. n \in 0..Len(PendingCells) /\ Aligned(n)
      BY <1>1 DEF Aligned
    <3>2. Len(<<>>) = 0
      OBVIOUS
    <3>3. n \in Nat /\ n > 0 /\ n <= Len(PendingCells)
      BY <1>3, <3>1
    <3> QED BY <1>1, <3>1, <3>3 DEF Benign
  <2>2. HasRoom /\ pc \in {"write", "flush"}
    <3>1. PendingCells # <<>>
      <4>1. Len(<<>>) = 0
        OBVIOUS
      <4> QED BY <2>1, <4>1
    <3>2. CASE ~HasRoom
      BY <3>1, <3>2 DEF PendingCells
    <3>3. CASE HasRoom /\ pc \notin {"write", "flush"}
      BY <3>1, <3>3 DEF PendingCells
    <3> QED BY <3>2, <3>3
  <2>3. CASE pc = "write"
    <3>1. PendingCells = DirectCells
      BY <2>2, <2>3 DEF PendingCells
    <3> QED BY <1>1, <1>3, <2>1, <2>2, <2>3, <3>1, CrashInWrite
  <2>4. CASE pc = "flush"
    <3>1. PendingCells = Segment /\ file.active # NoZone
      BY <2>2, <2>4 DEF PendingCells, HasRoom
    <3> QED BY <1>1, <1>3, <2>1, <2>2, <2>4, <3>1, CrashInFlush
  <2> QED BY <2>2, <2>3, <2>4
<1> QED BY <1>2, <1>3

(* The invariant holds at the start, and the file is empty.                 *)
LEMMA InitInv ==
  ASSUME Init
  PROVE  FileInv /\ File!Init
<1>1. /\ mode \in Modes /\ file = NewFile /\ meta = EncodeTo(NewFile)
      /\ wr = [Closed EXCEPT !.open = TRUE]
      /\ pc = "idle" /\ op = [name |-> "none", size |-> 0] /\ rest = <<>>
      /\ synced = 0 /\ dropped = <<>> /\ given = 0
  BY DEF Init
<1>2. Pointers(wp)
  <2>1. /\ wp \in [Zone -> Address \cup {NrIOZones * ZoneSize}]
        /\ \A z \in Zone : wp[z] - Start(z) \in {n \in 0..ZoneCap : n % B = 0}
    BY DEF Init
  <2>2. ASSUME NEW z \in Zone
        PROVE  wp[z] \in Int /\ Start(z) <= wp[z] /\ wp[z] <= Start(z) + ZoneCap /\ Aligned(wp[z])
    <3>1. Start(z) \in Nat /\ Aligned(Start(z)) /\ NrIOZones * ZoneSize \in Nat /\ ZoneCap \in Nat
      BY ZoneFacts, Constants
    <3>2. wp[z] \in Int
      BY <2>1, <3>1 DEF Address
    <3>3. PICK n \in 0..ZoneCap : n = wp[z] - Start(z) /\ Aligned(n)
      BY <2>1 DEF Aligned
    <3>4. PICK a \in Int : a = Start(z) /\ wp[z] = a + n
      BY <3>1, <3>2, <3>3
    <3>5. Aligned(a + n)
      <4>1. Aligned(a) /\ Aligned(n) /\ n \in Int
        BY <3>1, <3>3, <3>4
      <4> QED BY <4>1, AlignedSum
    <3> QED BY <3>1, <3>2, <3>4, <3>5
  <2> QED BY <2>1, <2>2 DEF Pointers
<1>3. dev \in [Address -> Cell]
  <2>1. Foreign \in Cell /\ Unwritten \in Cell
    <3>1. BufferSize >= B
      BY Constants, AlignedZero
    <3>2. H \in Nat /\ B \in Nat /\ H < B /\ BufferSize \in Nat /\ MaxBytes \in Nat
      BY Constants
    <3> QED BY <3>1, <3>2 DEF Foreign, Unwritten, Cell
  <2> QED BY <2>1 DEF Init
<1>4. PICK g, m : g = file /\ m = meta /\ m = EncodeTo(g) /\ g = NewFile
  BY <1>1
<1>5. Restored(mode, dev, wp, m, <<>>, g)
  <2>1. m.extents = <<>> /\ m.size = 0 /\ SumLengths(<<>>) = 0
    BY <1>4, SumLengthsFacts DEF EncodeTo, NewFile
  <2>2. g = [NewFile EXCEPT !.extents = <<>>, !.size = 0]
    <3>1. NewFile \in Files /\ NewFile.extents = <<>> /\ NewFile.size = 0
      <4>1. NoExtent \in Int /\ NoZone \in Zone \cup {NoZone} /\ <<>> \in Seq(Ext)
        BY DEF NoExtent
      <4> QED BY <4>1 DEF NewFile, Files
    <3>2. PICK f \in Files : f = NewFile /\ f.extents = <<>> /\ f.size = 0
      BY <3>1
    <3>3. f = [f EXCEPT !.extents = <<>>, !.size = 0]
      BY <3>2 DEF Files
    <3> QED BY <1>4, <3>2, <3>3
  <2>3. g = [NewFile EXCEPT !.extents = <<>>,
                            !.size = IF <<>> = m.extents THEN m.size ELSE SumLengths(<<>>)]
    BY <2>1, <2>2
  <2>4. <<>> \in Seq(Ext) /\ <<>> \in Seq(Byte) /\ DOMAIN <<>> = {}
    OBVIOUS
  <2>5. Sound(Hs(mode), wp, <<>>) /\ Apart(Hs(mode), <<>>)
    BY <2>4 DEF Sound, Apart
  <2>6. Bytes(dev, <<>>) \in Seq(Byte)
    BY <2>4, BytesNone
  <2> QED BY <1>1, <1>2, <1>3, <2>1, <2>3, <2>4, <2>5, <2>6 DEF Restored
<1>6. /\ Laid(mode, dev, wp, g, EncodeTo(g)) /\ StoredIn(mode, dev, g) = Bytes(dev, <<>>)
      /\ \A dr, pad : Recovers(mode, dev, wp, g, EncodeTo(g), dr, pad)
  BY <1>5, RestoredFacts
<1>7. g.active = NoZone /\ g.start = NoExtent /\ m.start = NoExtent /\ g.size = 0
  BY <1>4 DEF NewFile, EncodeTo
<1>8. Laid(mode, dev, wp, file, meta) /\ Stored = <<>>
  BY <1>4, <1>6, BytesNone DEF Stored
<1>9. Recovers(mode, dev, wp, file, meta, dropped, MayPad)
  BY <1>4, <1>6
<1>10. /\ wr \in Writers /\ wr.open = TRUE /\ wr.failed = FALSE /\ wr.truncated = FALSE
       /\ wr.buffer = <<>> /\ wr.left = 0 /\ wr.wp = 0
  <2>1. PICK c \in Writers :
          /\ c = Closed /\ ~c.failed /\ ~c.truncated /\ c.buffer = <<>> /\ c.left = 0 /\ c.wp = 0
    BY ClosedFacts
  <2>2. wr = [c EXCEPT !.open = TRUE]
    BY <1>1, <2>1
  <2>3. /\ wr \in Writers /\ wr.open = TRUE /\ wr.failed = c.failed
        /\ wr.truncated = c.truncated /\ wr.buffer = c.buffer /\ wr.left = c.left /\ wr.wp = c.wp
    BY <2>2 DEF Writers
  <2>4. c.failed \in BOOLEAN /\ c.truncated \in BOOLEAN
    BY WriterFacts
  <2> QED BY <2>1, <2>3, <2>4
<1>11. Types
  <2>1. op \in Ops
    <3>1. "none" \in Names
      BY DEF Names
    <3> QED BY <1>1, <3>1, OpsFacts
  <2>2. pc \in Steps /\ <<>> \in Seq(Byte) /\ 0 \in Byte
    BY <1>1, Constants DEF Steps, Byte
  <2> QED BY <1>1, <1>10, <2>1, <2>2 DEF Types
<1>12. Control
  <2>1. Aligned(Len(<<>>))
    <3>1. Len(<<>>) = 0
      OBVIOUS
    <3> QED BY <3>1, AlignedZero
  <2> QED BY <1>1, <1>10, <2>1 DEF Control
<1>13. Buffer
  <2>1. BufSize \in Nat
    BY BufSizeFacts, DataIs DEF BufSize
  <2>2. Len(<<>>) = 0 /\ 0 + 0 <= 0
    OBVIOUS
  <2> QED BY <1>1, <1>4, <1>7, <1>10, <2>1, <2>2 DEF Buffer, Flushing
<1>14. Active
  BY <1>1, <1>4, <1>7, <1>10 DEF Active
<1>15. FileInv
  <2>1. synced <= file.size
    BY <1>1, <1>4, <1>7
  <2> QED BY <1>8, <1>9, <1>11, <1>12, <1>13, <1>14, <2>1 DEF FileInv
<1>16. Data = <<>>
  <2>1. Data = (<<>> \o <<>>) \o <<>>
    BY <1>1, <1>8, <1>10, DataIs DEF BufferIs
  <2>2. <<>> \in Seq(Byte)
    OBVIOUS
  <2> QED BY <2>1, <2>2, ConcatEmptySeq
<1>17. (IF mode = "buffered" THEN B - 1 ELSE 0) \in Nat
  BY Constants
<1> QED BY <1>1, <1>15, <1>16, <1>17 DEF File!Init

(* Every step keeps the invariant and is a step of the append-only file.    *)
LEMMA NextStep ==
  ASSUME Benign, FileInv, Next
  PROVE  FileInv' /\ File!Next
<1>1. CASE \E n \in Sizes : AppendCall(n)
  BY <1>1, AppendCallStep DEF File!Next
<1>2. CASE DirectAllocate
  BY <1>2, DirectAllocateStep DEF File!Next
<1>3. CASE DirectWrite
  BY <1>3, DirectWriteStep DEF File!Next
<1>4. CASE BufferedWrite
  BY <1>4, BufferedWriteStep DEF File!Next
<1>5. CASE FlushAllocate
  BY <1>5, FlushAllocateStep DEF File!Next
<1>6. CASE FlushWrite
  BY <1>6, FlushWriteStep DEF File!Next
<1>7. CASE FlushReallocate
  BY <1>7, FlushReallocateStep DEF File!Next
<1>8. CASE Sync
  BY <1>8, DataSyncStep DEF Sync, File!Next
<1>9. CASE Fsync
  BY <1>9, DataSyncStep DEF Fsync, File!Next
<1>10. CASE Close
  BY <1>10, DataSyncStep DEF Close, File!Next
<1>11. CASE PersistMetadata
  BY <1>11, PersistMetadataStep DEF File!Next
<1>12. CASE CloseWR
  BY <1>12, CloseWRStep DEF File!Next
<1>13. CASE \E n \in 1..MaxBytes : RangeSync(n) \/ Truncate(n)
  <2>1. PICK n \in 1..MaxBytes : RangeSync(n) \/ Truncate(n)
    BY <1>13
  <2>2. CASE RangeSync(n)
    BY <2>2, RangeSyncStep DEF File!Next
  <2>3. CASE Truncate(n)
    BY <2>3, TruncateStep DEF File!Next
  <2> QED BY <2>1, <2>2, <2>3
<1>14. CASE Reopen
  BY <1>14, ReopenStep DEF File!Next
<1>15. CASE \E i \in DOMAIN file.extents, z \in Zone : MigrateFileExtents(i, z)
  BY <1>15, MigrateFileExtentsStep DEF File!Next
<1>16. CASE Crash
  BY <1>16, CrashStep DEF File!Next
<1> QED BY <1>1, <1>2, <1>3, <1>4, <1>5, <1>6, <1>7, <1>8, <1>9, <1>10, <1>11, <1>12, <1>13,
           <1>14, <1>15, <1>16 DEF Next

(* A step that changes nothing.                                             *)
LEMMA StutterStep ==
  ASSUME FileInv, UNCHANGED vars
  PROVE  FileInv' /\ UNCHANGED File!vars
<1>1. UNCHANGED <<mode, dev, wp, file, meta, wr, pc, op, rest, synced, dropped, given>>
  BY DEF vars
<1>2. Types' /\ Control' /\ Active'
  BY <1>1 DEF FileInv, Types, Control, Active
<1>3. Buffer' /\ MayPad' = MayPad
  BY <1>1 DEF FileInv, Buffer, Flushing, BufSize, HeaderSize, MayPad
<1>4. FileInv'
  BY <1>1, <1>2, <1>3 DEF FileInv
<1>5. Data' = Data
  BY <1>1, DataIs, DataNext DEF Stored
<1> QED BY <1>1, <1>4, <1>5 DEF File!vars

-----------------------------------------------------------------------------
(* Reads                                                                    *)

(* The bytes before the extent j of x, and what the extents of x do: they   *)
(* hold consecutive bytes of the file, in order, and all of them.           *)
Before(x, j) == SumLengths(SubSeq(x, 1, j - 1))
Holds(d, x, j) ==
  /\ Before(x, j) \in Nat /\ Before(x, j) + x[j].length <= SumLengths(x)
  /\ \A i \in 1..x[j].length : Bytes(d, x)[Before(x, j) + i] = d[x[j].start + i - 1]
Ordered(x, j, k) == j < k => Before(x, j) + x[j].length <= Before(x, k)
Covers(x, j, p) == Before(x, j) <= p /\ p < Before(x, j) + x[j].length
Tiled(d, x) ==
  /\ \A j \in 1..Len(x) : Holds(d, x, j)
  /\ \A j \in 1..Len(x), k \in 1..Len(x) : Ordered(x, j, k)
  /\ \A p \in 0..(SumLengths(x) - 1) : \E j \in 1..Len(x) : Covers(x, j, p)

(* y is x with the extent e at its end.                                     *)
Grows(x, n, e, y) ==
  /\ x \in Seq(Ext) /\ n = Len(x) /\ n \in Nat /\ e \in Ext
  /\ y \in Seq(Ext) /\ y = Append(x, e) /\ Len(y) = n + 1 /\ y[n + 1] = e
  /\ \A i \in 1..n : y[i] = x[i]

(* An extent at the end leaves the others where they are.                   *)
LEMMA BeforeSame ==
  ASSUME NEW x, NEW n, NEW e, NEW y, Grows(x, n, e, y)
  PROVE  /\ \A j \in 1..n : Before(y, j) = Before(x, j)
         /\ Before(y, n + 1) = SumLengths(x)
<1>1. /\ x \in Seq(Ext) /\ n = Len(x) /\ n \in Nat /\ e \in Ext
      /\ y \in Seq(Ext) /\ Len(y) = n + 1 /\ \A i \in 1..n : y[i] = x[i]
  BY DEF Grows
<1>2. ASSUME NEW m \in 0..n PROVE SubSeq(y, 1, m) = SubSeq(x, 1, m)
  <2>1. \A i \in 1..m : y[i] = x[i] /\ x[i] \in Ext
    BY <1>1, ExtFacts
  <2>2. PICK s : s = SubSeq(y, 1, m)
    OBVIOUS
  <2>3. PICK t : t = SubSeq(x, 1, m)
    OBVIOUS
  <2>4. s \in Seq(Ext) /\ Len(s) = m /\ \A i \in 1..m : s[i] = y[i]
    BY <1>1, <2>1, <2>2
  <2>5. t \in Seq(Ext) /\ Len(t) = m /\ \A i \in 1..m : t[i] = x[i]
    BY <1>1, <2>1, <2>3
  <2>6. \A i \in 1..m : s[i] = t[i]
    BY <2>1, <2>4, <2>5
  <2>7. s = t
    BY <2>4, <2>5, <2>6, SeqEqual
  <2> QED BY <2>2, <2>3, <2>7
<1>3. ASSUME NEW j \in 1..n PROVE Before(y, j) = Before(x, j)
  <2>1. PICK m \in 0..n : m = j - 1
    BY <1>1
  <2>2. SubSeq(y, 1, m) = SubSeq(x, 1, m)
    BY <1>2
  <2> QED BY <2>1, <2>2 DEF Before
<1>4. Before(y, n + 1) = SumLengths(x)
  <2>1. n \in 0..n /\ (n + 1) - 1 = n
    BY <1>1
  <2>2. SubSeq(y, 1, n) = SubSeq(x, 1, n)
    BY <1>2, <2>1
  <2>3. SubSeq(x, 1, n) = x
    BY <1>1, SubSeqFull
  <2> QED BY <2>1, <2>2, <2>3 DEF Before
<1> QED BY <1>3, <1>4

(* The numbers of an extent at the end: l is the sum of the lengths before  *)
(* it, k its own, s and t are the bytes before and of it.                   *)
Ending(d, x, n, e, y, l, k, a, s, t) ==
  /\ Grows(x, n, e, y) /\ l = SumLengths(x) /\ l \in Nat /\ k = e.length /\ k \in Nat /\ k > 0
  /\ a = e.start /\ a \in Int /\ SumLengths(y) = l + k
  /\ s = Bytes(d, x) /\ t = Cells(d, a, k) /\ Joint(s, t, Bytes(d, y)) /\ Len(s) = l /\ Len(t) = k
  /\ \A i \in 1..k : t[i] = d[a + i - 1]

(* They exist.                                                              *)
LEMMA EndingExists ==
  ASSUME NEW d, NEW x, NEW n, NEW e, NEW y, Grows(x, n, e, y), Placed(d, y, Int)
  PROVE  Placed(d, x, Int) /\ \E l, k, a, s, t : Ending(d, x, n, e, y, l, k, a, s, t)
<1>1. /\ x \in Seq(Ext) /\ n = Len(x) /\ n \in Nat /\ e \in Ext
      /\ y \in Seq(Ext) /\ y = Append(x, e) /\ Len(y) = n + 1 /\ y[n + 1] = e
      /\ \A i \in 1..n : y[i] = x[i]
  BY DEF Grows
<1>2. DOMAIN y = 1..(n + 1) /\ DOMAIN x = 1..n
  BY <1>1, LenProperties
<1>3. PICK k \in Nat, a \in Int : k = e.length /\ a = e.start /\ k > 0
  BY <1>1 DEF Ext
<1>4. AllIn(d, a, k, Int)
  <2>1. n + 1 \in DOMAIN y
    BY <1>1, <1>2
  <2>2. AllIn(d, y[n + 1].start, y[n + 1].length, Int)
    BY <2>1 DEF Placed
  <2> QED BY <1>1, <1>3, <2>2
<1>5. Placed(d, x, Int)
  <2>1. ASSUME NEW i \in DOMAIN x PROVE AllIn(d, x[i].start, x[i].length, Int)
    <3>1. i \in DOMAIN y /\ y[i] = x[i]
      BY <1>1, <1>2
    <3>2. AllIn(d, y[i].start, y[i].length, Int)
      BY <3>1 DEF Placed
    <3> QED BY <3>1, <3>2
  <2> QED BY <2>1 DEF Placed
<1>6. Bytes(d, x) \in Seq(Int) /\ Len(Bytes(d, x)) = SumLengths(x)
  BY <1>1, <1>5, BytesFacts
<1>7. Bytes(d, y) = Bytes(d, x) \o Cells(d, a, k)
  <2>1. AllIn(d, e.start, e.length, Int)
    BY <1>3, <1>4
  <2>2. Bytes(d, Append(x, e)) = Bytes(d, x) \o Cells(d, e.start, e.length)
    BY <1>1, <1>5, <2>1, BytesAppend
  <2> QED BY <1>1, <1>3, <2>2
<1>8. Cells(d, a, k) \in Seq(Int) /\ Len(Cells(d, a, k)) = k
      /\ \A i \in 1..k : Cells(d, a, k)[i] = d[a + i - 1]
  <2>1. PICK V : V = Int
    OBVIOUS
  <2>2. AllIn(d, a, k, V)
    BY <1>4, <2>1
  <2>3. Cells(d, a, k) \in Seq(V) /\ Len(Cells(d, a, k)) = k
        /\ \A i \in 1..k : Cells(d, a, k)[i] = d[a + i - 1]
    BY <2>2, CellsFacts
  <2> QED BY <2>1, <2>3
<1>9. SumLengths(x) \in Nat /\ SumLengths(y) = SumLengths(x) + k
  <2>1. SumLengths(Append(x, e)) = SumLengths(x) + e.length /\ SumLengths(x) \in Nat
    BY <1>1, SumLengthsFacts
  <2> QED BY <1>1, <1>3, <2>1
<1>10. PICK s, t, l : s = Bytes(d, x) /\ t = Cells(d, a, k) /\ l = SumLengths(x)
  OBVIOUS
<1>11. Joint(s, t, Bytes(d, y))
  BY <1>6, <1>7, <1>8, <1>10 DEF Joint
<1>12. Ending(d, x, n, e, y, l, k, a, s, t)
  BY <1>3, <1>6, <1>8, <1>9, <1>10, <1>11 DEF Ending
<1> QED BY <1>5, <1>12

(* The elements of s before the ones of t.                                  *)
LEMMA JointAt ==
  ASSUME NEW s, NEW t, NEW u, Joint(s, t, u)
  PROVE  \A l, k : Len(s) = l /\ Len(t) = k =>
           /\ \A i \in 1..l : u[i] = s[i]
           /\ \A i \in 1..k : u[l + i] = t[i]
<1>1. /\ u \in Seq(Int) /\ Len(s) \in Nat /\ Len(t) \in Nat /\ Len(u) = Len(s) + Len(t)
      /\ \A i \in 1..Len(s) : u[i] = s[i]
      /\ \A i \in 1..Len(t) : u[Len(s) + i] = t[i]
  BY JointFacts
<1> QED BY <1>1

(* Every extent holds its bytes.                                            *)
LEMMA HoldsGrows ==
  ASSUME NEW d, NEW x, NEW n, NEW e, NEW y, NEW l, NEW k, NEW a, NEW s, NEW t,
         Ending(d, x, n, e, y, l, k, a, s, t), Tiled(d, x), NEW j \in 1..(n + 1)
  PROVE  Holds(d, y, j)
<1>1. /\ Grows(x, n, e, y) /\ l = SumLengths(x) /\ l \in Nat /\ k = e.length /\ k \in Nat /\ k > 0
      /\ a = e.start /\ a \in Int /\ SumLengths(y) = l + k
      /\ s = Bytes(d, x) /\ Joint(s, t, Bytes(d, y)) /\ Len(s) = l /\ Len(t) = k
      /\ \A i \in 1..k : t[i] = d[a + i - 1]
  BY DEF Ending
<1>2. /\ n = Len(x) /\ n \in Nat /\ y[n + 1] = e /\ \A i \in 1..n : y[i] = x[i]
      /\ x \in Seq(Ext)
  BY <1>1 DEF Grows
<1>3. PICK u : u = Bytes(d, y)
  OBVIOUS
<1>4. /\ \A i \in 1..l : u[i] = s[i]
      /\ \A i \in 1..k : u[l + i] = t[i]
  <2>1. Joint(s, t, u)
    BY <1>1, <1>3
  <2> QED BY <1>1, <2>1, JointAt
<1>5. CASE j \in 1..n
  <2>1. Before(y, j) = Before(x, j) /\ y[j] = x[j]
    BY <1>1, <1>2, <1>5, BeforeSame
  <2>2. Holds(d, x, j)
    BY <1>2, <1>5 DEF Tiled
  <2>3. PICK b \in Nat, m \in Nat : b = Before(x, j) /\ m = x[j].length /\ b + m <= l
    BY <1>1, <1>2, <1>5, <2>2, ExtFacts DEF Holds
  <2>4. \A i \in 1..m : s[b + i] = d[x[j].start + i - 1]
    BY <1>1, <2>2, <2>3 DEF Holds
  <2>5. ASSUME NEW i \in 1..m PROVE u[b + i] = d[x[j].start + i - 1]
    <3>1. b + i \in 1..l
      BY <1>1, <2>3
    <3> QED BY <1>4, <2>4, <3>1
  <2>6. b + m <= l + k
    BY <1>1, <2>3
  <2> QED BY <1>1, <1>3, <2>1, <2>3, <2>5, <2>6 DEF Holds
<1>6. CASE j = n + 1
  <2>1. Before(y, j) = l /\ y[j] = e
    BY <1>1, <1>2, <1>6, BeforeSame
  <2>2. \A i \in 1..k : u[l + i] = d[a + i - 1]
    BY <1>1, <1>4
  <2>3. l + k <= l + k
    BY <1>1
  <2> QED BY <1>1, <1>3, <2>1, <2>2, <2>3 DEF Holds
<1> QED BY <1>2, <1>5, <1>6

(* They stay in order and cover the file.                                   *)
LEMMA TiledGrows ==
  ASSUME NEW d, NEW x, NEW n, NEW e, NEW y, NEW l, NEW k, NEW a, NEW s, NEW t,
         Ending(d, x, n, e, y, l, k, a, s, t), Tiled(d, x)
  PROVE  Tiled(d, y)
<1>1. /\ Grows(x, n, e, y) /\ l = SumLengths(x) /\ l \in Nat /\ k = e.length /\ k \in Nat
      /\ SumLengths(y) = l + k
  BY DEF Ending
<1>2. /\ n = Len(x) /\ n \in Nat /\ y[n + 1] = e /\ \A i \in 1..n : y[i] = x[i]
      /\ Len(y) = n + 1 /\ x \in Seq(Ext)
  BY <1>1 DEF Grows
<1>3. \A j \in 1..n : Before(y, j) = Before(x, j)
  BY <1>1, BeforeSame
<1>4. Before(y, n + 1) = l
  BY <1>1, BeforeSame
<1>5. \A j \in 1..Len(y) : Holds(d, y, j)
  BY <1>2, HoldsGrows
<1>6. ASSUME NEW i \in 1..Len(y), NEW j \in 1..Len(y) PROVE Ordered(y, i, j)
  <2> SUFFICES ASSUME i < j PROVE Before(y, i) + y[i].length <= Before(y, j)
    BY DEF Ordered
  <2>1. i \in 1..n /\ (j \in 1..n \/ j = n + 1)
    BY <1>2
  <2>2. Before(y, i) = Before(x, i) /\ y[i] = x[i]
    BY <1>2, <1>3, <2>1
  <2>3. CASE j \in 1..n
    <3>1. Ordered(x, i, j)
      BY <1>2, <2>1, <2>3 DEF Tiled
    <3>2. Before(y, j) = Before(x, j)
      BY <1>3, <2>3
    <3> QED BY <2>2, <3>1, <3>2 DEF Ordered
  <2>4. CASE j = n + 1
    <3>1. Holds(d, x, i)
      BY <1>2, <2>1 DEF Tiled
    <3> QED BY <1>1, <1>4, <2>2, <2>4, <3>1 DEF Holds
  <2> QED BY <2>1, <2>3, <2>4
<1>7. ASSUME NEW p \in 0..(SumLengths(y) - 1) PROVE \E j \in 1..Len(y) : Covers(y, j, p)
  <2>1. p \in Nat /\ p < l + k
    BY <1>1
  <2>2. CASE p < l
    <3>1. p \in 0..(SumLengths(x) - 1)
      BY <1>1, <2>1, <2>2
    <3>2. PICK j \in 1..n : Covers(x, j, p)
      BY <1>2, <3>1 DEF Tiled
    <3>3. Before(y, j) = Before(x, j) /\ y[j] = x[j] /\ j \in 1..Len(y)
      BY <1>2, <1>3
    <3>4. Covers(y, j, p)
      BY <3>2, <3>3 DEF Covers
    <3> QED BY <3>3, <3>4
  <2>3. CASE ~(p < l)
    <3>1. Before(y, n + 1) <= p /\ p < Before(y, n + 1) + y[n + 1].length
      BY <1>1, <1>2, <1>4, <2>1, <2>3
    <3>2. Covers(y, n + 1, p) /\ n + 1 \in 1..Len(y)
      BY <1>2, <3>1 DEF Covers
    <3> QED BY <3>2
  <2> QED BY <2>2, <2>3
<1> QED BY <1>5, <1>6, <1>7 DEF Tiled

(* The extents of a file hold its bytes, in order and without a gap.        *)
LEMMA ExtentsTile ==
  ASSUME NEW d, NEW x \in Seq(Ext), Placed(d, x, Int)
  PROVE  Tiled(d, x)
<1> DEFINE W == {y \in Seq(Ext) : Placed(d, y, Int) => Tiled(d, y)}
<1>1. <<>> \in W
  <2>1. <<>> \in Seq(Ext) /\ Len(<<>>) = 0 /\ SumLengths(<<>>) = 0
    BY SumLengthsFacts
  <2>2. 1..Len(<<>>) = {} /\ 0..(SumLengths(<<>>) - 1) = {}
    BY <2>1
  <2>3. Tiled(d, <<>>)
    BY <2>2 DEF Tiled
  <2> QED BY <2>1, <2>3
<1>2. ASSUME NEW y \in Seq(Ext), NEW e \in Ext, y \in W PROVE Append(y, e) \in W
  <2>1. PICK n, u : n = Len(y) /\ u = Append(y, e)
    OBVIOUS
  <2>2. Grows(y, n, e, u)
    <3>1. n \in Nat
      BY <2>1, LenProperties
    <3>2. u \in Seq(Ext) /\ Len(u) = n + 1 /\ u[n + 1] = e /\ \A i \in 1..n : u[i] = y[i]
      BY <2>1, AppendProperties
    <3> QED BY <2>1, <3>1, <3>2 DEF Grows
  <2>3. ASSUME Placed(d, u, Int) PROVE Tiled(d, u)
    <3>1. Placed(d, y, Int) /\ \E l, k, a, s, t : Ending(d, y, n, e, u, l, k, a, s, t)
      BY <2>2, <2>3, EndingExists
    <3>2. PICK l, k, a, s, t : Ending(d, y, n, e, u, l, k, a, s, t)
      BY <3>1
    <3>3. Tiled(d, y)
      BY <1>2, <3>1
    <3> QED BY <3>2, <3>3, TiledGrows
  <2>4. u \in Seq(Ext)
    BY <2>2 DEF Grows
  <2> QED BY <2>1, <2>3, <2>4
<1>3. \A y \in Seq(Ext) : y \in W
  <2> HIDE DEF W
  <2> QED BY <1>1, <1>2, SequenceInduction
<1> QED BY <1>3

(* A file whose extents x lie on the device and hold the l bytes c.         *)
Readable(x, c, l) ==
  /\ x = file.extents /\ x \in Seq(Ext) /\ Tiled(dev, x)
  /\ c = Bytes(dev, x) /\ c \in Seq(Int) /\ l = Len(c) /\ l = SumLengths(x) /\ l \in Nat
  /\ \A j \in 1..Len(x) : x[j].start + x[j].length <= NrIOZones * ZoneSize

(* The numbers of the byte p of the file: it is in the extent j, of k bytes *)
(* from a, with b bytes before it.                                          *)
At(x, p, j, a, k, b) ==
  /\ j \in 1..Len(x) /\ a = x[j].start /\ k = x[j].length /\ b = Before(x, j)
  /\ a \in Int /\ k \in Nat /\ b \in Nat /\ b <= p /\ p < b + k

(* GetExtent finds nothing behind the end.                                  *)
LEMMA GetExtentNone ==
  ASSUME NEW x, NEW c, NEW l, Readable(x, c, l), NEW p \in Nat, p >= l
  PROVE  GetExtent(p) = {}
<1>1. x = file.extents /\ x \in Seq(Ext) /\ Tiled(dev, x) /\ l = SumLengths(x) /\ l \in Nat
  BY DEF Readable
<1>2. Len(x) \in Nat /\ DOMAIN x = 1..Len(x)
  BY <1>1, ExtFacts
<1>3. ASSUME NEW j \in DOMAIN x PROVE ~(Before(x, j) <= p /\ p < Before(x, j) + x[j].length)
  <2>1. Holds(dev, x, j)
    BY <1>1, <1>2 DEF Tiled
  <2>2. PICK b \in Nat, k \in Nat : b = Before(x, j) /\ k = x[j].length /\ b + k <= l
    BY <1>1, <1>2, <2>1, ExtFacts DEF Holds
  <2> QED BY <1>1, <2>2
<1>4. {j \in DOMAIN x : Before(x, j) <= p /\ p < Before(x, j) + x[j].length} = {}
  BY <1>3
<1> QED BY <1>1, <1>4 DEF GetExtent, Before

(* Every other byte is in an extent.                                        *)
LEMMA AtExists ==
  ASSUME NEW x, NEW c, NEW l, Readable(x, c, l), NEW p \in Nat, p < l
  PROVE  \E j, a, k, b : At(x, p, j, a, k, b)
<1>1. x \in Seq(Ext) /\ Tiled(dev, x) /\ l = SumLengths(x) /\ l \in Nat
  BY DEF Readable
<1>2. p \in 0..(SumLengths(x) - 1)
  BY <1>1
<1>3. PICK j \in 1..Len(x) : Covers(x, j, p)
  BY <1>1, <1>2 DEF Tiled
<1>4. Holds(dev, x, j)
  BY <1>1 DEF Tiled
<1>5. PICK a \in Int, k \in Nat, b \in Nat : a = x[j].start /\ k = x[j].length /\ b = Before(x, j)
  BY <1>1, <1>4, ExtFacts DEF Holds
<1>6. At(x, p, j, a, k, b)
  BY <1>3, <1>5 DEF At, Covers
<1> QED BY <1>6

(* GetExtent finds that extent and no other.                                *)
LEMMA GetExtentOne ==
  ASSUME NEW x, NEW c, NEW l, Readable(x, c, l), NEW p \in Nat,
         NEW j, NEW a, NEW k, NEW b, At(x, p, j, a, k, b)
  PROVE  GetExtent(p) = {[extent |-> x[j], dev |-> a + p - b]}
<1>1. x = file.extents /\ x \in Seq(Ext) /\ Tiled(dev, x)
  BY DEF Readable
<1>2. Len(x) \in Nat /\ DOMAIN x = 1..Len(x)
  BY <1>1, ExtFacts
<1>3. /\ j \in 1..Len(x) /\ a = x[j].start /\ k = x[j].length /\ b = Before(x, j)
      /\ a \in Int /\ k \in Nat /\ b \in Nat /\ b <= p /\ p < b + k
  BY DEF At
<1>4. ASSUME NEW i \in DOMAIN x, Before(x, i) <= p, p < Before(x, i) + x[i].length PROVE i = j
  <2>1. Holds(dev, x, i) /\ Ordered(x, i, j) /\ Ordered(x, j, i)
    BY <1>1, <1>2, <1>3 DEF Tiled
  <2>2. PICK u \in Nat, v \in Nat : u = Before(x, i) /\ v = x[i].length
    BY <1>1, <1>2, <2>1, ExtFacts DEF Holds
  <2>3. (i < j => u + v <= b) /\ (j < i => b + k <= u)
    BY <1>3, <2>1, <2>2 DEF Ordered
  <2>4. u <= p /\ p < u + v
    BY <1>4, <2>2
  <2> QED BY <1>2, <1>3, <2>2, <2>3, <2>4
<1>5. j \in DOMAIN x /\ Before(x, j) <= p /\ p < Before(x, j) + x[j].length
  BY <1>2, <1>3
<1>6. {i \in DOMAIN x : Before(x, i) <= p /\ p < Before(x, i) + x[i].length} = {j}
  BY <1>4, <1>5
<1>7. PICK J : J = {i \in DOMAIN x : Before(x, i) <= p /\ p < Before(x, i) + x[i].length}
  OBVIOUS
<1>8. GetExtent(p) = {[extent |-> x[i], dev |-> x[i].start + p - Before(x, i)] : i \in J}
  BY <1>1, <1>7 DEF GetExtent, Before
<1>9. {[extent |-> x[i], dev |-> x[i].start + p - Before(x, i)] : i \in {j}}
        = {[extent |-> x[j], dev |-> x[j].start + p - Before(x, j)]}
  BY Zenon
<1> QED BY <1>3, <1>6, <1>7, <1>8, <1>9

(* The first n of m cells.                                                  *)
LEMMA CellsWanted ==
  ASSUME NEW d, NEW a \in Int, NEW m \in Nat, NEW n \in Nat, n <= m
  PROVE  Wanted(Cells(d, a, m), n) = Cells(d, a, n)
<1>1. PICK V : \A c \in Int : d[c] \in V
  <2>1. \A c \in Int : d[c] \in {d[u] : u \in Int}
    OBVIOUS
  <2> QED BY <2>1
<1>2. AllIn(d, a, m, V) /\ AllIn(d, a, n, V)
  BY <1>1 DEF AllIn
<1>3. PICK s : s = Cells(d, a, m)
  OBVIOUS
<1>4. PICK t : t = Cells(d, a, n)
  OBVIOUS
<1>5. s \in Seq(V) /\ Len(s) = m /\ \A i \in 1..m : s[i] = d[a + i - 1]
  <2>1. /\ Cells(d, a, m) \in Seq(V) /\ Len(Cells(d, a, m)) = m
        /\ \A i \in 1..m : Cells(d, a, m)[i] = d[a + i - 1]
    BY <1>2, CellsFacts, Zenon
  <2> QED BY <1>3, <2>1, Zenon
<1>6. t \in Seq(V) /\ Len(t) = n /\ \A i \in 1..n : t[i] = d[a + i - 1]
  <2>1. /\ Cells(d, a, n) \in Seq(V) /\ Len(Cells(d, a, n)) = n
        /\ \A i \in 1..n : Cells(d, a, n)[i] = d[a + i - 1]
    BY <1>2, CellsFacts, Zenon
  <2> QED BY <1>4, <2>1, Zenon
<1>7. PICK r : r = SubSeq(s, 1, n)
  OBVIOUS
<1>8. r \in Seq(V) /\ Len(r) = n /\ \A i \in 1..n : r[i] = s[i]
  BY <1>5, <1>7
<1>9. \A i \in 1..n : r[i] = t[i]
  BY <1>5, <1>6, <1>8
<1>10. r = t
  BY <1>6, <1>8, <1>9, SeqEqual
<1> QED BY <1>3, <1>4, <1>7, <1>10 DEF Wanted

(* Bytes of one extent are cells of the device.                             *)
LEMMA PartIsCells ==
  ASSUME NEW x, NEW c, NEW l, Readable(x, c, l), NEW p \in Nat,
         NEW j, NEW a, NEW k, NEW b, At(x, p, j, a, k, b), NEW n \in Nat, p + n <= b + k
  PROVE  /\ p + n <= l /\ a + p - b \in Int
         /\ SubSeq(c, p + 1, p + n) = Cells(dev, a + p - b, n)
<1>1. /\ Tiled(dev, x) /\ c = Bytes(dev, x) /\ c \in Seq(Int) /\ l = Len(c)
      /\ l = SumLengths(x) /\ l \in Nat
  BY DEF Readable
<1>2. /\ j \in 1..Len(x) /\ a = x[j].start /\ k = x[j].length /\ b = Before(x, j)
      /\ a \in Int /\ k \in Nat /\ b \in Nat /\ b <= p /\ p < b + k
  BY DEF At
<1>3. Holds(dev, x, j)
  BY <1>1, <1>2 DEF Tiled
<1>4. b + k <= l /\ \A i \in 1..k : c[b + i] = dev[a + i - 1]
  BY <1>1, <1>2, <1>3 DEF Holds
<1>5. PICK q \in Int : q = a + p - b
  BY <1>2
<1>6. p + n <= l
  BY <1>1, <1>2, <1>4
<1>7. PICK s : s = SubSeq(c, p + 1, p + n)
  OBVIOUS
<1>8. s \in Seq(Int) /\ Len(s) = n /\ \A i \in 1..n : s[i] = c[p + i]
  <2>1. Within(c, p + 1, p + n)
    BY <1>1, <1>6 DEF Within
  <2>2. IsPart(s, c, p + 1, p + n)
    BY <1>7, <2>1, PartFacts
  <2>3. p + n - (p + 1) + 1 = n /\ \A i \in 1..n : p + 1 + i - 1 = p + i
    OBVIOUS
  <2> QED BY <2>2, <2>3 DEF IsPart
<1>9. ASSUME NEW i \in 1..n PROVE c[p + i] = dev[q + i - 1]
  <2>1. PICK h \in 1..k : h = p - b + i
    BY <1>2
  <2>2. p + i = b + h /\ q + i - 1 = a + h - 1
    <3>1. a \in Int /\ b \in Int /\ h \in Int /\ i \in Int
      BY <1>2, <2>1
    <3> QED BY <1>5, <2>1, <3>1
  <2> QED BY <1>4, <2>2
<1>10. PICK V : V = Int
  OBVIOUS
<1>11. AllIn(dev, q, n, V)
  <2>1. ASSUME NEW i \in q..(q + n - 1) PROVE dev[i] \in Int
    <3>1. PICK h \in 1..n : h = i - q + 1
      BY <1>5
    <3>2. i = q + h - 1
      BY <1>5, <3>1
    <3>3. dev[i] = c[p + h] /\ c[p + h] = s[h]
      BY <1>8, <1>9, <3>2
    <3> QED BY <1>8, <3>3
  <2> QED BY <1>10, <2>1 DEF AllIn
<1>12. PICK t : t = Cells(dev, q, n)
  OBVIOUS
<1>13. t \in Seq(V) /\ Len(t) = n /\ \A i \in 1..n : t[i] = dev[q + i - 1]
  BY <1>11, <1>12, CellsFacts
<1>14. t \in Seq(Int) /\ \A i \in 1..n : s[i] = t[i]
  BY <1>8, <1>9, <1>10, <1>13
<1>15. s = t
  BY <1>8, <1>13, <1>14, SeqEqual
<1> QED BY <1>5, <1>6, <1>7, <1>12, <1>15

(* Two parts that follow each other.                                        *)
TwoParts(c, p, q, e) == Cut(c, q, e) /\ p \in Nat /\ p <= q
PartsOf(c, p, q, e) == SubSeq(c, p + 1, q) \o SubSeq(c, q + 1, e) = SubSeq(c, p + 1, e)

(* They are one.                                                            *)
LEMMA PartsJoin ==
  ASSUME NEW c, NEW p, NEW q, NEW e, TwoParts(c, p, q, e)
  PROVE  PartsOf(c, p, q, e)
<1>1. /\ c \in Seq(Int) /\ q \in Nat /\ e \in Nat /\ q <= e /\ e <= Len(c) /\ Len(c) \in Nat
      /\ p \in Nat /\ p <= q
  BY LenProperties DEF TwoParts, Cut
<1>2. PICK s : s = SubSeq(c, p + 1, q)
  OBVIOUS
<1>3. PICK t : t = SubSeq(c, q + 1, e)
  OBVIOUS
<1>4. PICK u : u = SubSeq(c, p + 1, e)
  OBVIOUS
<1>5. s \in Seq(Int) /\ Len(s) = q - p /\ \A i \in 1..(q - p) : s[i] = c[p + i]
  <2>1. IsPart(s, c, p + 1, q)
    <3>1. Within(c, p + 1, q)
      BY <1>1 DEF Within
    <3> QED BY <1>2, <3>1, PartFacts
  <2>2. q - (p + 1) + 1 = q - p /\ \A i \in 1..(q - p) : p + 1 + i - 1 = p + i
    BY <1>1
  <2> QED BY <2>1, <2>2 DEF IsPart
<1>6. t \in Seq(Int) /\ Len(t) = e - q /\ \A i \in 1..(e - q) : t[i] = c[q + i]
  <2>1. IsPart(t, c, q + 1, e)
    <3>1. Within(c, q + 1, e)
      BY <1>1 DEF Within
    <3> QED BY <1>3, <3>1, PartFacts
  <2>2. e - (q + 1) + 1 = e - q /\ \A i \in 1..(e - q) : q + 1 + i - 1 = q + i
    BY <1>1
  <2> QED BY <2>1, <2>2 DEF IsPart
<1>7. u \in Seq(Int) /\ Len(u) = e - p /\ \A i \in 1..(e - p) : u[i] = c[p + i]
  <2>1. IsPart(u, c, p + 1, e)
    <3>1. Within(c, p + 1, e)
      BY <1>1 DEF Within
    <3> QED BY <1>4, <3>1, PartFacts
  <2>2. e - (p + 1) + 1 = e - p /\ \A i \in 1..(e - p) : p + 1 + i - 1 = p + i
    BY <1>1
  <2> QED BY <2>1, <2>2 DEF IsPart
<1>8. PICK v : v = s \o t
  OBVIOUS
<1>9. Joint(s, t, v)
  BY <1>5, <1>6, <1>8 DEF Joint
<1>10. /\ v \in Seq(Int) /\ Len(s) \in Nat /\ Len(t) \in Nat /\ Len(v) = Len(s) + Len(t)
       /\ \A i \in 1..Len(s) : v[i] = s[i]
       /\ \A i \in 1..Len(t) : v[Len(s) + i] = t[i]
  BY <1>9, JointFacts
<1>11. ASSUME NEW i \in 1..(e - p) PROVE v[i] = u[i]
  <2>1. CASE i <= q - p
    <3>1. i \in 1..(q - p)
      BY <1>1, <2>1
    <3> QED BY <1>5, <1>7, <1>10, <3>1
  <2>2. CASE ~(i <= q - p)
    <3>1. PICK h \in 1..(e - q) : h = i - (q - p)
      BY <1>1, <2>2
    <3>2. i = Len(s) + h /\ q + h = p + i
      BY <1>1, <1>5, <3>1
    <3>3. v[i] = t[h]
      BY <1>6, <1>10, <3>2
    <3>4. t[h] = c[q + h] /\ u[i] = c[p + i]
      BY <1>6, <1>7
    <3> QED BY <3>2, <3>3, <3>4
  <2> QED BY <2>1, <2>2
<1>12. Len(v) = Len(u) /\ Len(u) = e - p
  BY <1>1, <1>5, <1>6, <1>7, <1>10
<1>13. v = u
  BY <1>7, <1>10, <1>11, <1>12, SeqEqual
<1> QED BY <1>2, <1>3, <1>4, <1>8, <1>13 DEF PartsOf

(* The loop of PositionedRead.                                              *)
LoopTurn(f, size, direct, read, found, at) ==
  LET want == Min2(size - read, at.extent.start + at.extent.length - at.dev)
      ask  == Min2(IF direct THEN RoundUp(want) ELSE want, NrIOZones * ZoneSize - at.dev) IN
  IF read = size \/ found = {} THEN <<>>
  ELSE Wanted(Cells(dev, at.dev, ask), want) \o f[read + want]
LoopEntry(f, off, size, direct, read) ==
  LoopTurn(f, size, direct, read, GetExtent(off + read),
           CHOOSE x \in GetExtent(off + read) : TRUE)
IsLoop(f, off, size, direct) == f = [read \in 0..size |-> LoopEntry(f, off, size, direct, read)]
LoopTable(off, size, direct) == CHOOSE f : IsLoop(f, off, size, direct)

(* What a table of the loop has at a place.                                 *)
LEMMA LoopAt ==
  ASSUME NEW off, NEW size, NEW direct, NEW f, IsLoop(f, off, size, direct), NEW i \in 0..size
  PROVE  f[i] = LoopEntry(f, off, size, direct, i)
<1>1. PICK g : g = [j \in 0..size |-> LoopEntry(f, off, size, direct, j)]
  OBVIOUS
<1>2. f = g
  BY <1>1, Zenon DEF IsLoop
<1>3. g[i] = LoopEntry(f, off, size, direct, i)
  BY <1>1
<1> QED BY <1>2, <1>3, Zenon

(* The end of a read, and what is still to be read.                         *)
End(l, off, size) == Min2(off + size, l)
Unread(c, l, off, size, read) == SubSeq(c, off + read + 1, End(l, off, size))
Reading(x, c, l, off, size, direct) ==
  /\ Readable(x, c, l) /\ off \in Nat /\ size \in Nat /\ direct \in BOOLEAN

(* There is nothing to read at the end.                                     *)
LEMMA LoopEnds ==
  ASSUME NEW x, NEW c, NEW l, NEW off, NEW size, NEW direct,
         Reading(x, c, l, off, size, direct), NEW read \in 0..size, NEW f,
         read = size \/ off + read >= l
  PROVE  LoopEntry(f, off, size, direct, read) = Unread(c, l, off, size, read)
<1>1. Readable(x, c, l) /\ off \in Nat /\ size \in Nat
  BY DEF Reading
<1>2. c \in Seq(Int) /\ l = Len(c) /\ l \in Nat
  BY <1>1 DEF Readable
<1>3. PICK e \in Int : e = End(l, off, size) /\ e <= off + size /\ e <= l
  <2>1. PICK h \in Int, m \in Int : h = off + size /\ m = l
    BY <1>1, <1>2
  <2>2. Min2(h, m) \in Int /\ Min2(h, m) <= h /\ Min2(h, m) <= m
    BY MinFacts
  <2> QED BY <2>1, <2>2 DEF End
<1>4. off + read \in Nat /\ off + read + 1 > e
  BY <1>1, <1>2, <1>3
<1>5. Unread(c, l, off, size, read) = <<>>
  <2>1. SubSeq(c, off + read + 1, e) = <<>>
    BY <1>2, <1>4
  <2> QED BY <1>3, <2>1 DEF Unread
<1>6. read = size \/ GetExtent(off + read) = {}
  <2>1. CASE off + read >= l
    BY <1>1, <1>4, <2>1, GetExtentNone
  <2> QED BY <2>1
<1> QED BY <1>5, <1>6 DEF LoopEntry, LoopTurn

(* The numbers of a turn: n bytes are wanted, m asked for.                  *)
Turn(l, off, size, read, p, b, k, n, e) ==
  /\ p = off + read /\ n = Min2(size - read, b + k - p) /\ e = End(l, off, size)
  /\ p \in Nat /\ n \in Nat /\ e \in Nat /\ n > 0 /\ p + n <= b + k /\ p + n <= e /\ e <= l
  /\ read + n <= size

(* A turn makes progress and stays in its extent and before the end.        *)
LEMMA TurnExists ==
  ASSUME NEW l \in Nat, NEW off \in Nat, NEW size \in Nat, NEW read \in 0..size,
         NEW b \in Nat, NEW k \in Nat, read # size, off + read < b + k, b + k <= l
  PROVE  \E p, n, e : Turn(l, off, size, read, p, b, k, n, e)
<1>1. PICK p \in Nat, r \in Nat, t \in Nat : p = off + read /\ r = size - read /\ t = b + k - p
  <2>1. off + read \in Nat /\ size - read \in Nat /\ b + k - (off + read) \in Nat
    OBVIOUS
  <2> QED BY <2>1
<1>2. r > 0 /\ t > 0
  BY <1>1
<1>3. PICK h \in Int : h = off + size
  OBVIOUS
<1>4. PICK n \in Int : n = Min2(r, t) /\ n <= r /\ n <= t /\ (n = r \/ n = t)
  <2>1. /\ Min2(r, t) \in Int /\ Min2(r, t) <= r /\ Min2(r, t) <= t
        /\ Min2(r, t) = r \/ Min2(r, t) = t
    BY MinFacts
  <2> QED BY <2>1
<1>5. PICK e \in Int : e = Min2(h, l) /\ e <= h /\ e <= l /\ (e = h \/ e = l)
  <2>1. /\ Min2(h, l) \in Int /\ Min2(h, l) <= h /\ Min2(h, l) <= l
        /\ Min2(h, l) = h \/ Min2(h, l) = l
    BY MinFacts
  <2> QED BY <2>1
<1>6. n \in Nat /\ n > 0 /\ p + n <= b + k /\ read + n <= size
  BY <1>1, <1>2, <1>4
<1>7. p + n <= e /\ e \in Nat
  BY <1>1, <1>2, <1>3, <1>4, <1>5
<1>8. Turn(l, off, size, read, p, b, k, n, e)
  BY <1>1, <1>3, <1>4, <1>5, <1>6, <1>7 DEF Turn, End
<1> QED BY <1>8

(* f has what is to be read behind read.                                    *)
Behind(f, c, l, off, size, read) ==
  \A r \in (read + 1)..size : f[r] = Unread(c, l, off, size, r)

(* What a turn does once GetExtent has found r.                             *)
TurnAt(r, size, direct, read, n, m) ==
  /\ n = Min2(size - read, r.extent.start + r.extent.length - r.dev)
  /\ m = Min2(IF direct THEN RoundUp(n) ELSE n, NrIOZones * ZoneSize - r.dev)
GoesOn(off, size, direct, read, r, n, m) ==
  read # size /\ GetExtent(off + read) = {r} /\ TurnAt(r, size, direct, read, n, m)
TurnReads(f, off, size, direct, read, r, n, m) ==
  LoopEntry(f, off, size, direct, read) = Wanted(Cells(dev, r.dev, m), n) \o f[read + n]

(* Then it reads that extent.                                               *)
LEMMA LoopGoesOn ==
  ASSUME NEW f, NEW off, NEW size, NEW direct, NEW read, NEW r, NEW n, NEW m,
         GoesOn(off, size, direct, read, r, n, m)
  PROVE  TurnReads(f, off, size, direct, read, r, n, m)
<1>1. PICK S : S = GetExtent(off + read)
  OBVIOUS
<1>2. S = {r} /\ S # {}
  BY <1>1 DEF GoesOn
<1>3. (CHOOSE y \in S : TRUE) = r
  BY <1>2
<1>4. LoopEntry(f, off, size, direct, read) = LoopTurn(f, size, direct, read, S, r)
  BY <1>1, <1>3, Zenon DEF LoopEntry
<1>5. LoopTurn(f, size, direct, read, S, r) = Wanted(Cells(dev, r.dev, m), n) \o f[read + n]
  BY <1>2, Zenon DEF LoopTurn, TurnAt, GoesOn
<1> QED BY <1>4, <1>5, Zenon DEF TurnReads

(* It asks for at least the bytes it wants.                                 *)
LEMMA AskEnough ==
  ASSUME NEW direct, NEW n \in Nat, NEW v \in Int, n <= v
  PROVE  /\ Min2(IF direct THEN RoundUp(n) ELSE n, v) \in Nat
         /\ n <= Min2(IF direct THEN RoundUp(n) ELSE n, v)
<1>1. PICK h \in Int : h = (IF direct THEN RoundUp(n) ELSE n) /\ n <= h
  <2>1. RoundUp(n) \in Int /\ n <= RoundUp(n)
    BY RoundUpFacts
  <2> QED BY <2>1
<1>2. /\ Min2(h, v) \in Int /\ Min2(h, v) <= h /\ Min2(h, v) <= v
      /\ Min2(h, v) = h \/ Min2(h, v) = v
  BY MinFacts
<1> QED BY <1>1, <1>2

(* A turn reads the bytes of one extent, the next turns the others.         *)
LEMMA LoopTurns ==
  ASSUME NEW x, NEW c, NEW l, NEW off, NEW size, NEW direct,
         Reading(x, c, l, off, size, direct), NEW read \in 0..size, NEW f,
         read # size, off + read < l, Behind(f, c, l, off, size, read)
  PROVE  LoopEntry(f, off, size, direct, read) = Unread(c, l, off, size, read)
<1>1. Readable(x, c, l) /\ off \in Nat /\ size \in Nat
  BY DEF Reading
<1>2. x \in Seq(Ext) /\ Tiled(dev, x) /\ c \in Seq(Int) /\ l = Len(c) /\ l \in Nat /\ l = SumLengths(x)
  BY <1>1 DEF Readable
<1>3. PICK p \in Nat : p = off + read
  BY <1>1
<1>4. p < l
  BY <1>3
<1>5. PICK j, a, k, b : At(x, p, j, a, k, b)
  BY <1>1, <1>4, AtExists
<1>6. j \in 1..Len(x) /\ a = x[j].start /\ k = x[j].length /\ b = Before(x, j)
  BY <1>5 DEF At
<1>7. a \in Int /\ k \in Nat /\ b \in Nat /\ b <= p /\ p < b + k
  BY <1>5 DEF At
<1>8. b + k <= l
  <2>1. Holds(dev, x, j)
    BY <1>2, <1>6 DEF Tiled
  <2> QED BY <1>2, <1>6, <2>1 DEF Holds
<1>9. PICK N \in Int : N = NrIOZones * ZoneSize
  BY Constants
<1>10. a + k <= N
  BY <1>1, <1>6, <1>9 DEF Readable
<1>11. \E u, n, e : Turn(l, off, size, read, u, b, k, n, e)
  BY <1>1, <1>2, <1>3, <1>7, <1>8, TurnExists
<1>12. PICK u, n, e : Turn(l, off, size, read, u, b, k, n, e)
  BY <1>11
<1>13. u = off + read /\ n = Min2(size - read, b + k - u) /\ e = End(l, off, size)
  BY <1>12 DEF Turn
<1>14. n \in Nat /\ e \in Nat /\ n > 0 /\ p + n <= b + k /\ p + n <= e /\ e <= l
       /\ read + n <= size /\ u = p
  BY <1>3, <1>12 DEF Turn
<1>15. PICK q \in Int : q = a + p - b
  BY <1>7
<1>16. PICK r : r = [extent |-> x[j], dev |-> q]
  OBVIOUS
<1>17. r.extent.start = a /\ r.extent.length = k /\ r.dev = q
  BY <1>6, <1>16
<1>18. GetExtent(off + read) = {r}
  <2>1. GetExtent(p) = {[extent |-> x[j], dev |-> a + p - b]}
    BY <1>1, <1>5, GetExtentOne
  <2> QED BY <1>3, <1>15, <1>16, <2>1
<1>19. n <= N - q /\ a + k - q = b + k - p
  BY <1>7, <1>10, <1>14, <1>15
<1>20. PICK m \in Nat : m = Min2(IF direct THEN RoundUp(n) ELSE n, N - q) /\ n <= m
  <2>1. PICK v \in Int : v = N - q
    OBVIOUS
  <2>2. n \in Nat /\ n <= v
    BY <1>14, <1>19, <2>1
  <2>3. /\ Min2(IF direct THEN RoundUp(n) ELSE n, v) \in Nat
        /\ n <= Min2(IF direct THEN RoundUp(n) ELSE n, v)
    BY <2>2, AskEnough
  <2> QED BY <2>1, <2>3
<1>21. TurnAt(r, size, direct, read, n, m)
  BY <1>9, <1>13, <1>14, <1>17, <1>19, <1>20 DEF TurnAt
<1>22. LoopEntry(f, off, size, direct, read) = Wanted(Cells(dev, q, m), n) \o f[read + n]
  <2>1. GoesOn(off, size, direct, read, r, n, m)
    BY <1>18, <1>21 DEF GoesOn
  <2>2. TurnReads(f, off, size, direct, read, r, n, m)
    BY <2>1, LoopGoesOn
  <2> QED BY <1>17, <2>2, Zenon DEF TurnReads
<1>23. Wanted(Cells(dev, q, m), n) = SubSeq(c, p + 1, p + n)
  <2>1. Wanted(Cells(dev, q, m), n) = Cells(dev, q, n)
    BY <1>14, <1>20, CellsWanted
  <2>2. SubSeq(c, p + 1, p + n) = Cells(dev, a + p - b, n)
    BY <1>1, <1>5, <1>14, PartIsCells
  <2> QED BY <1>15, <2>1, <2>2
<1>24. f[read + n] = SubSeq(c, p + n + 1, e)
  <2>1. read + n \in (read + 1)..size
    BY <1>1, <1>14
  <2>2. f[read + n] = Unread(c, l, off, size, read + n)
    BY <2>1 DEF Behind
  <2>3. off + (read + n) + 1 = p + n + 1
    BY <1>1, <1>3, <1>14
  <2> QED BY <1>13, <2>2, <2>3 DEF Unread
<1>25. SubSeq(c, p + 1, p + n) \o SubSeq(c, p + n + 1, e) = SubSeq(c, p + 1, e)
  <2>1. PICK y \in Nat : y = p + n
    BY <1>14
  <2>2. TwoParts(c, p, y, e)
    BY <1>2, <1>14, <2>1 DEF TwoParts, Cut
  <2>3. PartsOf(c, p, y, e)
    BY <2>2, PartsJoin
  <2> QED BY <2>1, <2>3 DEF PartsOf
<1>26. Unread(c, l, off, size, read) = SubSeq(c, p + 1, e)
  BY <1>3, <1>13 DEF Unread
<1> QED BY <1>22, <1>23, <1>24, <1>25, <1>26, Zenon

(* One turn of the loop.                                                    *)
LEMMA LoopStep ==
  ASSUME NEW x, NEW c, NEW l, NEW off, NEW size, NEW direct,
         Reading(x, c, l, off, size, direct), NEW read \in 0..size, NEW f,
         Behind(f, c, l, off, size, read)
  PROVE  LoopEntry(f, off, size, direct, read) = Unread(c, l, off, size, read)
<1>1. off \in Nat /\ size \in Nat /\ l \in Nat
  BY DEF Reading, Readable
<1>2. CASE read = size \/ off + read >= l
  BY <1>2, LoopEnds
<1>3. CASE ~(read = size \/ off + read >= l)
  <2>1. read # size /\ off + read < l
    BY <1>1, <1>3
  <2> QED BY <2>1, LoopTurns
<1> QED BY <1>2, <1>3

(* PositionedRead's loop returns the bytes up to the end of the read or of  *)
(* the extents.                                                             *)
LEMMA LoopFacts ==
  ASSUME NEW x, NEW c, NEW l, NEW off, NEW size, NEW direct,
         Reading(x, c, l, off, size, direct)
  PROVE  LoopTable(off, size, direct)[0] = Unread(c, l, off, size, 0)
<1>1. size \in Nat
  BY DEF Reading
<1> DEFINE F == [read \in 0..size |-> Unread(c, l, off, size, read)]
<1>2. ASSUME NEW read \in 0..size
      PROVE  Unread(c, l, off, size, read) = LoopEntry(F, off, size, direct, read)
  <2>1. Behind(F, c, l, off, size, read)
    <3>1. ASSUME NEW r \in (read + 1)..size PROVE F[r] = Unread(c, l, off, size, r)
      <4>1. r \in 0..size
        BY <1>1
      <4> QED BY <4>1
    <3> HIDE DEF F
    <3> QED BY <3>1 DEF Behind
  <2> HIDE DEF F
  <2> QED BY <2>1, LoopStep
<1>3. IsLoop(F, off, size, direct)
  <2>1. F = [read \in 0..size |-> LoopEntry(F, off, size, direct, read)]
    BY <1>2
  <2> HIDE DEF F
  <2> QED BY <2>1 DEF IsLoop
<1>4. PICK f : f = LoopTable(off, size, direct) /\ IsLoop(f, off, size, direct)
  BY <1>3 DEF LoopTable
<1> HIDE DEF F
<1> DEFINE W == {i \in Nat : i <= size => f[size - i] = Unread(c, l, off, size, size - i)}
<1>5. ASSUME NEW i \in Nat, \A j \in 0..(i - 1) : j \in W PROVE i \in W
  <2> SUFFICES ASSUME i <= size PROVE f[size - i] = Unread(c, l, off, size, size - i)
    OBVIOUS
  <2>1. PICK read \in 0..size : read = size - i
    BY <1>1
  <2>2. ASSUME NEW r \in (read + 1)..size PROVE f[r] = Unread(c, l, off, size, r)
    <3>1. PICK j \in 0..(i - 1) : j = size - r
      BY <1>1, <2>1
    <3>2. j \in W
      BY <1>5
    <3>3. j <= size /\ size - j = r
      BY <1>1, <2>1, <3>1
    <3> QED BY <3>2, <3>3
  <2>3. Behind(f, c, l, off, size, read)
    BY <2>2 DEF Behind
  <2>4. f[read] = LoopEntry(f, off, size, direct, read)
    BY <1>4, LoopAt
  <2>5. LoopEntry(f, off, size, direct, read) = Unread(c, l, off, size, read)
    BY <2>3, LoopStep
  <2> QED BY <2>1, <2>4, <2>5
<1>6. \A i \in Nat : i \in W
  <2> HIDE DEF W
  <2> QED BY <1>5, NumberInduction
<1>7. size \in W /\ size - size = 0
  BY <1>1, <1>6
<1>8. f[0] = Unread(c, l, off, size, 0)
  BY <1>1, <1>7
<1> QED BY <1>4, <1>8

(* The model's operator is that loop.                                       *)
LEMMA PositionedReadIs ==
  ASSUME NEW off, NEW n, NEW direct
  PROVE  PositionedRead(off, n, direct)
           = IF off >= file.size THEN <<>>
             ELSE LoopTable(off, Min2(n, file.size - off), direct)[0]
BY DEF PositionedRead, LoopTable, IsLoop, LoopEntry, LoopTurn

(* The bytes of the extents can be read.                                    *)
LEMMA InvReadable ==
  ASSUME FileInv
  PROVE  /\ \E x, c, l : Readable(x, c, l) /\ c = Content /\ l <= file.size
         /\ file.size \in Nat
<1>1. /\ Pointers(wp) /\ file \in Files /\ meta \in Metas /\ Laid(mode, dev, wp, file, meta)
      /\ mode \in Modes /\ file.size \in Nat
  BY StateFacts DEF FileInv
<1>2. PICK x, h : x = file.extents /\ h = Hs(mode) /\ x \in Seq(Ext) /\ h \in Nat
  <2>1. file.extents \in Seq(Ext) /\ Hs(mode) \in Nat
    BY <1>1, FieldFacts, HsFacts
  <2> QED BY <2>1
<1>3. Sound(h, wp, x)
  BY <1>1, <1>2 DEF Laid, Placement
<1>4. Len(x) \in Nat /\ DOMAIN x = 1..Len(x)
  BY <1>2, ExtFacts
<1>5. ASSUME NEW j \in 1..Len(x) PROVE x[j].start + x[j].length <= NrIOZones * ZoneSize
  <2>1. j \in DOMAIN x
    BY <1>4
  <2>2. \E z \in Zone : Start(z) <= x[j].start - h /\ x[j].start + x[j].length <= wp[z]
    BY <1>1, <1>2, <1>3, <2>1, SoundFacts
  <2>3. PICK z \in Zone : x[j].start + x[j].length <= wp[z]
    BY <2>2
  <2>4. wp[z] \in Int /\ wp[z] <= NrIOZones * ZoneSize /\ NrIOZones * ZoneSize \in Nat
    BY <1>1, PointerFacts
  <2>5. x[j].start \in Int /\ x[j].length \in Nat
    BY <1>2, ExtFacts
  <2> QED BY <2>3, <2>4, <2>5
<1>6. /\ Bytes(dev, x) \in Seq(Int) /\ Len(Bytes(dev, x)) = SumLengths(x)
      /\ SumLengths(x) \in Nat /\ Placed(dev, x, Int)
  BY <1>1, <1>2, StoredFacts
<1>7. Tiled(dev, x)
  BY <1>2, <1>6, ExtentsTile
<1>8. PICK c, l : c = Bytes(dev, x) /\ l = Len(c)
  OBVIOUS
<1>9. Readable(x, c, l)
  BY <1>2, <1>5, <1>6, <1>7, <1>8 DEF Readable
<1>10. c = Content
  BY <1>2, <1>8, DataIs
<1>11. l <= file.size
  <2>1. PICK n \in Nat : n = Len(Pending(mode, dev, file))
    BY <1>1, StoredFacts, LenProperties
  <2>2. file.size = l + n
    BY <1>1, <1>2, <1>6, <1>8, <2>1 DEF Laid, Sizing
  <2> QED BY <1>6, <1>8, <2>1, <2>2
<1> QED BY <1>1, <1>9, <1>10, <1>11

(* Every read returns the bytes of the extents.                             *)
LEMMA InvReadsAgree ==
  ASSUME FileInv
  PROVE  ReadsAgree
<1>1. PICK x, c, l : Readable(x, c, l) /\ c = Content /\ l <= file.size
  BY InvReadable
<1>2. PICK s \in Nat : s = file.size
  BY InvReadable
<1>3. c \in Seq(Int) /\ l = Len(c) /\ l \in Nat
  BY <1>1 DEF Readable
<1>4. ASSUME NEW off \in 0..s, NEW n \in 0..(s - off + 1), NEW direct \in BOOLEAN
      PROVE  PositionedRead(off, n, direct) = SubSeq(c, off + 1, Min2(off + n, Min2(s, l)))
  <2>1. Min2(s, l) = l
    BY <1>1, <1>2, <1>3 DEF Min2
  <2>2. off \in Nat /\ n \in Nat
    BY <1>2
  <2>3. CASE off >= s
    <3>1. PositionedRead(off, n, direct) = <<>>
      BY <1>2, <2>3, PositionedReadIs
    <3>2. PICK e \in Int : e = Min2(off + n, l) /\ e <= l
      BY <1>3, <2>2 DEF Min2
    <3>3. SubSeq(c, off + 1, e) = <<>>
      BY <1>1, <1>2, <1>3, <2>2, <2>3, <3>2, SMTT(40)
    <3> QED BY <2>1, <3>1, <3>2, <3>3
  <2>4. CASE ~(off >= s)
    <3>1. PICK size \in Nat : size = Min2(n, s - off)
      BY <1>2, <2>2, <2>4 DEF Min2
    <3>2. PositionedRead(off, n, direct) = LoopTable(off, size, direct)[0]
      BY <1>2, <2>4, <3>1, PositionedReadIs
    <3>3. Reading(x, c, l, off, size, direct)
      BY <1>1, <2>2 DEF Reading
    <3>4. LoopTable(off, size, direct)[0] = Unread(c, l, off, size, 0)
      BY <3>3, LoopFacts
    <3>5. Min2(off + size, l) = Min2(off + n, l) /\ off + 0 + 1 = off + 1
      BY <1>1, <1>2, <1>3, <2>2, <2>4, <3>1, SMTT(40) DEF Min2
    <3> QED BY <2>1, <3>2, <3>4, <3>5 DEF Unread, End
  <2> QED BY <2>3, <2>4
<1> QED BY <1>1, <1>2, <1>3, <1>4 DEF ReadsAgree

-----------------------------------------------------------------------------
(* The theorems                                                             *)

(* Whatever is called, wherever a write fails and wherever the process dies *)
(* between two Zone::Append or in a direct or buffered one, the invariant   *)
(* holds: the extents lie below the write pointers of their zones and apart *)
(* from each other, and the record with the zone's write pointer leads a    *)
(* recovery to the bytes the file has on the device.                        *)
THEOREM FileInvariant ==
  ASSUME Benign
  PROVE  Spec => []FileInv
<1>1. Init => FileInv
  BY InitInv
<1>2. FileInv /\ [Next]_vars => FileInv'
  BY NextStep, StutterStep
<1> QED BY <1>1, <1>2, PTL DEF Spec

(* The variables keep their types: write pointers stay in their zones and   *)
(* on block boundaries, the buffer never holds more than its size, and no   *)
(* more is promised to survive than the file has.                           *)
THEOREM FileTypes ==
  ASSUME Benign
  PROVE  Spec => []TypeOK
<1>1. FileInv => TypeOK
  BY InvTypeOK
<1> QED BY <1>1, FileInvariant, PTL

(* What PushExtent, BufferedAppend and SparseAppend push, what MigrateData  *)
(* moves and what Recover finds are extents that start on a block boundary, *)
(* lie below the write pointer of one zone, never overlap, and add up with  *)
(* the data not pushed yet to file_size_.                                   *)
THEOREM ExtentsAreSound ==
  ASSUME Benign
  PROVE  Spec => []ExtentsSound
<1>1. FileInv => ExtentsSound
  BY InvExtentsSound
<1> QED BY <1>1, FileInvariant, PTL

(* What EncodeTo says of the active extent is true: every mount recovers    *)
(* the file, and finds nothing but the file's own bytes and padding.        *)
THEOREM BytesAreOwn ==
  ASSUME Benign
  PROVE  Spec => []OwnBytes
<1>1. FileInv => OwnBytes
  BY InvOwnBytes
<1> QED BY <1>1, FileInvariant, PTL

(* PositionedRead returns the bytes of the extents, from any offset and for *)
(* any size, by direct reads or not, in every state of the file: it skips,  *)
(* repeats and invents none where an extent ends off a block boundary.      *)
THEOREM ReadsAreTrue ==
  ASSUME Benign
  PROVE  Spec => []ReadsAgree
<1>1. FileInv => ReadsAgree
  BY InvReadsAgree
<1> QED BY <1>1, FileInvariant, PTL

(* ZonedWritableFile and ZoneFile are the append-only file of AppendFile:   *)
(* the bytes come back in the order of the appends, a sync, an Fsync, a     *)
(* RangeSync or a Close protects them, a migration changes none, a failed   *)
(* append takes back only a tail, and a crash takes only what was not       *)
(* synced and adds less than a block of padding, to a buffered file only.   *)
THEOREM ImplementsAppendFile ==
  ASSUME Benign
  PROVE  Spec => RefinesAppendFile
<1>1. Init => File!Init
  BY InitInv
<1>2. FileInv /\ [Next]_vars => [File!Next]_(File!vars)
  BY NextStep, StutterStep
<1> QED BY <1>1, <1>2, FileInvariant, PTL DEF Spec, RefinesAppendFile, File!Spec

=============================================================================
