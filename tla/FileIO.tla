-------------------------------- MODULE FileIO --------------------------------
(***************************************************************************)
(* The bytes of one file on their way to the device: ZonedWritableFile     *)
(* with its buffer and ZoneFile with its extents, in the three ways of     *)
(* writing (direct, buffered, sparse: buffered with a length header before *)
(* every segment), the reads, the copy a migration makes, and what a crash *)
(* and ZoneFile::Recover leave of the file (fs/io_zenfs.{h,cc}).           *)
(*                                                                         *)
(* Addresses are those of the device, in bytes of which a block has a few. *)
(* A step is what happens between two durable events: one Zone::Append or  *)
(* one record of the file's metadata.  A byte is the number of its         *)
(* position in the order of all bytes handed to the file.  Other files are *)
(* the data found in the zones at the start.                               *)
(***************************************************************************)
EXTENDS Integers, Sequences, FiniteSets, SequencesExt

CONSTANTS
  Modes,      \* the ways of writing: "direct", "buffered", "sparse"
  B,          \* block size
  H,          \* ZoneFile::SPARSE_HEADER_SIZE
  BufferSize, \* the 1 MiB of ZonedWritableFile, a multiple of B
  MigrateStep,\* the 128 KiB that MigrateData reads at a time
  NrIOZones,
  ZoneSize,   \* distance of the starts of two zones
  ZoneCap,    \* max_capacity_ of a zone
  Sizes,      \* sizes of an append
  TornModes,  \* modes in which a crash may cut a Zone::Append between blocks
  MaxBytes,   \* bound: bytes handed to the file
  MaxCalls,   \* bound: calls
  MaxCrashes  \* bound: crashes

ASSUME FileIOAssumption ==
  /\ Modes \subseteq {"direct", "buffered", "sparse"} /\ TornModes \subseteq Modes
  /\ B \in Nat \ {0} /\ H \in 1..(B - 1)
  /\ NrIOZones \in Nat \ {0}
  /\ ZoneCap \in Nat \ {0} /\ ZoneSize \in Nat /\ ZoneCap <= ZoneSize
  /\ \A n \in {BufferSize, MigrateStep, ZoneCap, ZoneSize} : n \in Nat /\ n > 0 /\ n % B = 0
  /\ Sizes \subseteq Nat \ {0}
  /\ MaxBytes \in Nat /\ MaxCalls \in Nat /\ MaxCrashes \in Nat

Zone     == 1..NrIOZones
NoZone   == 0
NoExtent == -1
Start(z) == (z - 1) * ZoneSize
Address  == 0..(NrIOZones * ZoneSize - 1)

(* What a cell of the device may hold besides the bytes 1, 2, ...           *)
Pad       == 0
Foreign   == MaxBytes + 1       \* a byte of another file
Unwritten == MaxBytes + 2
Header(n) == -n                 \* the length that starts a sparse segment

VARIABLES
  mode,     \* how the file is written
  dev,      \* the cells of the device
  wp,       \* Zone::wp_
  file,     \* ZoneFile: extents_, file_size_, extent_start_, extent_filepos_, active_zone_
  meta,     \* the file in the metadata log
  wr,       \* ZonedWritableFile: open, buffer, wp; left: what a flush still has to write
  pc,       \* where the call under way is
  op,       \* the call under way
  rest,     \* the bytes of an Append that are in no buffer and no zone yet
  synced,   \* bytes that were promised to survive
  dropped,  \* bytes cut off by a Truncate that is in no record yet
  given,    \* bytes handed to the file so far
  calls,
  crashes

devVars == <<dev, wp>>
callVars == <<pc, op, rest>>
vars == <<mode, dev, wp, file, meta, wr, pc, op, rest, synced, dropped, given, calls, crashes>>

Closed == [open |-> FALSE, failed |-> FALSE, truncated |-> FALSE, buffer |-> <<>>, left |-> 0,
           wp |-> 0]
NewFile == [extents |-> <<>>, size |-> 0, start |-> NoExtent, filepos |-> 0, active |-> NoZone]

(* EncodeTo: what the metadata log has of a file.                           *)
EncodeTo(f) == [extents |-> f.extents, size |-> f.size, start |-> f.start]

Min2(m, n) == IF m < n THEN m ELSE n
Cells(d, start, length) == [i \in 1..length |-> d[start + i - 1]]
Zeros(n) == [i \in 1..n |-> Pad]
RoundUp(n) == ((n + B - 1) \div B) * B
CapacityLeft(w, z) == ZoneCap - (w[z] - Start(z))

(* The zones hold data of other files, and the file has just been created.  *)
Init ==
  /\ mode \in Modes
  /\ wp \in {w \in [Zone -> Address \cup {NrIOZones * ZoneSize}] :
               \A z \in Zone : w[z] - Start(z) \in {n \in 0..ZoneCap : n % B = 0}}
  /\ dev = [a \in Address |-> IF \E z \in Zone : Start(z) <= a /\ a < wp[z] THEN Foreign
                              ELSE Unwritten]
  /\ file = NewFile /\ meta = EncodeTo(NewFile)
  /\ wr = [Closed EXCEPT !.open = TRUE]
  /\ pc = "idle" /\ op = [name |-> "none", size |-> 0] /\ rest = <<>>
  /\ synced = 0 /\ dropped = <<>> /\ given = 0 /\ calls = 0 /\ crashes = 0

-----------------------------------------------------------------------------
(* The parts of ZoneFile                                                    *)

Extent(start, length) == [start |-> start, length |-> length]

GetIOZone(a) == {z \in Zone : Start(z) <= a /\ a < Start(z) + ZoneSize}

(* Zone::Append of the cells c to the zone z.                               *)
ZoneAppend(z, c) ==
  /\ dev' = [a \in Address |-> IF wp[z] <= a /\ a < wp[z] + Len(c) THEN c[a - wp[z] + 1]
                               ELSE dev[a]]
  /\ wp' = [wp EXCEPT ![z] = @ + Len(c)]

(* Mutant: the next extent starts where this one does.                      *)
PushExtentKeepsStart(f) ==
  LET length == f.size - f.filepos IN
  IF f.active = NoZone \/ length = 0 THEN f
  ELSE [f EXCEPT !.extents = Append(@, Extent(f.start, length)), !.filepos = f.size]

(* The data written since extent_filepos_ becomes an extent.                *)
PushExtent(f) ==
  LET length == f.size - f.filepos IN
  IF f.active = NoZone \/ length = 0 THEN f
  ELSE [f EXCEPT !.extents = Append(@, Extent(f.start, length)),
                 !.start = wp[f.active], !.filepos = f.size]

(* CloseActiveZone as far as the file is concerned; extent_start_ stays.    *)
CloseActiveZone(f) == [f EXCEPT !.active = NoZone]

(* AllocateNewZone: any zone with room may be chosen, and the file is       *)
(* persisted with it.                                                       *)
AllocateNewZone(f) ==
  \E z \in Zone :
    /\ CapacityLeft(wp, z) > 0
    /\ file' = [f EXCEPT !.active = z, !.start = wp[z], !.filepos = f.size]
    /\ meta' = EncodeTo(file')

HasRoom == file.active # NoZone /\ CapacityLeft(wp, file.active) > 0
NoSpace == \A z \in Zone : CapacityLeft(wp, z) = 0

(* What BufferedAppend and SparseAppend write next: as much of the buffer   *)
(* as fits, after a header if the file is sparse, padded to a block.        *)
HeaderSize == IF mode = "sparse" THEN H ELSE 0
SegmentLengthUncapped == wr.left  \* Mutant: whether it fits or not.
SegmentLength == Min2(wr.left + HeaderSize, CapacityLeft(wp, file.active)) - HeaderSize
Segment ==
  LET n == SegmentLength IN
  (IF mode = "sparse" THEN <<Header(n)>> \o Zeros(H - 1) ELSE <<>>)
  \o SubSeq(wr.buffer, 1, n) \o Zeros(RoundUp(n + HeaderSize) - n - HeaderSize)

(* The blocks the pending Zone::Append would write.                         *)
DirectCells == SubSeq(rest, 1, Min2(Len(rest), CapacityLeft(wp, file.active)))
PendingCells ==
  IF ~HasRoom THEN <<>>
  ELSE CASE pc = "write" -> DirectCells
         [] pc = "flush" -> Segment
         [] OTHER -> <<>>

(* The bytes of the extents, and after them the ones still on their way.    *)
Content == FlattenSeq([i \in DOMAIN file.extents |->
                         Cells(dev, file.extents[i].start, file.extents[i].length)])
Unpushed ==
  IF mode = "direct" /\ file.active # NoZone
  THEN Cells(dev, file.start, file.size - file.filepos) ELSE <<>>
Buffered ==
  IF wr.failed THEN <<>>
  ELSE IF pc \in {"flush", "realloc"} THEN SubSeq(wr.buffer, 1, wr.left) ELSE wr.buffer
Data == Content \o Unpushed \o Buffered \o rest

-----------------------------------------------------------------------------
(* Calls                                                                    *)

Ready == wr.open /\ pc = "idle" /\ calls < MaxCalls
Call(name, n) == op' = [name |-> name, size |-> n] /\ calls' = calls + 1
BufSize == BufferSize - HeaderSize

(* ZonedWritableFile::Append; direct data is made of blocks.                *)
AppendCall(n) ==
  /\ Ready /\ ~wr.failed /\ ~wr.truncated
  /\ given + n <= MaxBytes
  /\ mode = "direct" => n % B = 0
  /\ Call("append", n)
  /\ rest' = [i \in 1..n |-> given + i]
  /\ given' = given + n
  /\ pc' = IF mode = "direct" THEN "write" ELSE "buffer"
  /\ UNCHANGED <<mode, devVars, file, meta, wr, synced, dropped, crashes>>

(* An error ends the call and the use of the file: what is in no zone is    *)
(* lost.                                                                    *)
Fail ==
  /\ pc' = "idle" /\ rest' = <<>>
  /\ wr' = [wr EXCEPT !.failed = TRUE]
  /\ UNCHANGED <<mode, devVars, meta, op, synced, dropped, given, calls, crashes>>

(* ZoneFile::Append: a new zone when there is none or it is full.           *)
DirectAllocate ==
  LET f == IF file.active = NoZone THEN file ELSE CloseActiveZone(PushExtent(file)) IN
  /\ pc = "write"
  /\ ~HasRoom
  /\ \/ /\ AllocateNewZone(f)
        /\ UNCHANGED <<mode, devVars, wr, callVars, synced, dropped, given, calls, crashes>>
     \/ NoSpace /\ file' = f /\ Fail

DirectWrite ==
  LET c == DirectCells IN
  /\ pc = "write"
  /\ HasRoom
  /\ ZoneAppend(file.active, c)
  /\ file' = [file EXCEPT !.size = @ + Len(c)]
  /\ rest' = SubSeq(rest, Len(c) + 1, Len(rest))
  /\ IF rest' = <<>> THEN pc' = "idle" /\ wr' = [wr EXCEPT !.wp = @ + op.size]
     ELSE UNCHANGED <<pc, wr>>
  /\ UNCHANGED <<mode, meta, op, synced, dropped, given, calls, crashes>>

(* BufferedWrite: flush a full buffer, or copy what fits.                   *)
BufferedWrite ==
  LET n == Min2(Len(rest), BufSize - Len(wr.buffer)) IN
  /\ pc = "buffer"
  /\ IF Len(wr.buffer) = BufSize
     THEN /\ pc' = "flush"
          /\ wr' = [wr EXCEPT !.left = Len(wr.buffer)]
          /\ UNCHANGED rest
     ELSE /\ wr' = [wr EXCEPT !.buffer = @ \o SubSeq(rest, 1, n)]
          /\ rest' = SubSeq(rest, n + 1, Len(rest))
          /\ pc' = IF rest' = <<>> THEN "idle" ELSE "buffer"
  /\ UNCHANGED <<mode, devVars, file, meta, op, synced, dropped, given, calls, crashes>>

(* Where DataSync goes on once everything is in a zone: a file that is not  *)
(* sparse needs a record, as its size is no multiple of the block.          *)
AfterDataSync(name) ==
  CASE name = "append" -> "buffer"
    [] name # "append" /\ (mode = "buffered" \/ name = "fsync") -> "persist"
    [] name = "close" /\ mode # "buffered" -> "close"
    [] OTHER -> "idle"

(* FlushBuffer after the last block of the buffer.                          *)
FlushDone ==
  /\ wr' = [wr EXCEPT !.buffer = <<>>, !.left = 0, !.wp = @ + Len(wr.buffer)]
  /\ pc' = AfterDataSync(op.name)
  /\ synced' = IF pc' = "idle" THEN Len(Data') ELSE synced

(* The first zone of a flush.                                               *)
FlushAllocate ==
  /\ pc = "flush" /\ file.active = NoZone
  /\ \/ /\ AllocateNewZone(file)
        /\ UNCHANGED <<mode, devVars, wr, callVars, synced, dropped, given, calls, crashes>>
     \/ NoSpace /\ file' = file /\ Fail

(* Mutant: no memmove.                                                      *)
MemmoveNothing(b, n, left) == b

(* memmove of the bytes that are still to be written.                       *)
Memmove(b, n, left) == [i \in DOMAIN b |-> IF i <= left - n THEN b[i + n] ELSE b[i]]

(* One turn of the loop of BufferedAppend or SparseAppend: a segment is     *)
(* written and becomes an extent; a full zone is closed.                    *)
FlushWrite ==
  LET n    == SegmentLength
      z    == file.active
      next == wp[z] + Len(Segment)
      f    == [file EXCEPT !.extents = Append(@, Extent(file.start + HeaderSize, n)),
                           !.start = next, !.size = @ + n] IN
  /\ pc = "flush" /\ z # NoZone
  /\ ZoneAppend(z, Segment)
  /\ UNCHANGED <<mode, meta, op, rest, dropped, given, calls, crashes>>
  /\ IF CapacityLeft(wp', z) = 0
     THEN /\ file' = CloseActiveZone(f)
          /\ wr' = [wr EXCEPT !.left = @ - n, !.buffer = Memmove(@, n, wr.left)]
          /\ pc' = "realloc"
          /\ UNCHANGED synced
     ELSE file' = f /\ FlushDone

(* A full zone is replaced at once, even if nothing is left to write.       *)
FlushReallocate ==
  /\ pc = "realloc"
  /\ \/ /\ AllocateNewZone(file)
        /\ UNCHANGED <<mode, devVars, op, rest, dropped, given, calls, crashes>>
        /\ IF wr.left = 0 THEN FlushDone ELSE pc' = "flush" /\ UNCHANGED <<wr, synced>>
     \/ NoSpace /\ file' = file /\ Fail

(* DataSync, called by Sync, Fsync, RangeSync and CloseInternal.            *)
DataSync(name) ==
  /\ Ready
  /\ Call(name, 0)
  /\ IF mode # "direct" /\ wr.buffer # <<>>
     THEN /\ pc' = "flush"
          /\ wr' = [wr EXCEPT !.left = Len(wr.buffer)]
          /\ UNCHANGED <<file, synced>>
     ELSE /\ file' = IF mode = "direct" THEN PushExtent(file) ELSE file
          /\ pc' = AfterDataSync(name)
          /\ synced' = IF pc' = "idle" THEN Len(Data) ELSE synced
          /\ UNCHANGED wr
  /\ UNCHANGED <<mode, devVars, meta, rest, dropped, given, crashes>>

Sync  == ~wr.failed /\ DataSync("sync")
Fsync == ~wr.failed /\ DataSync("fsync")

(* A file whose flush failed is not closed here (see the README).           *)
Close == (wr.failed => mode = "direct") /\ DataSync("close")

(* RangeSync of the bytes up to end: nothing to do once they left the       *)
(* buffer.                                                                  *)
RangeSync(end) ==
  /\ ~wr.failed
  /\ IF wr.wp < end THEN DataSync("sync")
     ELSE /\ Ready
          /\ Call("none", 0)
          /\ synced' = IF synced < end THEN Min2(end, Len(Data)) ELSE synced
          /\ UNCHANGED <<mode, devVars, file, meta, wr, pc, rest, dropped, given, crashes>>

(* PersistMetadata at the end of a sync.                                    *)
PersistMetadata ==
  /\ pc = "persist"
  /\ meta' = EncodeTo(file)
  /\ pc' = IF op.name = "close" THEN "close" ELSE "idle"
  /\ synced' = Len(Data)
  /\ dropped' = <<>>
  /\ UNCHANGED <<mode, devVars, file, wr, op, rest, given, calls, crashes>>

(* CloseWR: the file has no active extent any more.                         *)
CloseWR ==
  /\ pc = "close"
  /\ file' = CloseActiveZone([file EXCEPT !.start = NoExtent])
  /\ meta' = EncodeTo(file')
  /\ wr' = Closed
  /\ pc' = "idle"
  /\ synced' = Len(Data) /\ dropped' = <<>>
  /\ UNCHANGED <<mode, devVars, op, rest, given, calls, crashes>>

(* Truncate: a direct writer cuts off the padding of its last block before  *)
(* it closes the file, having written them and not synced since: PushExtent *)
(* asserts that no extent is cut.                                           *)
Truncate(n) ==
  /\ Ready /\ mode = "direct" /\ ~wr.failed /\ ~wr.truncated
  /\ file.active # NoZone /\ n < file.size /\ file.size - n < B /\ n >= file.filepos
  /\ Call("none", 0)
  /\ file' = [file EXCEPT !.size = n]
  /\ wr' = [wr EXCEPT !.truncated = TRUE]
  /\ dropped' = SubSeq(Data, n + 1, Len(Data))
  /\ synced' = Min2(synced, n)
  /\ UNCHANGED <<mode, devVars, meta, pc, rest, given, crashes>>

(* ReopenWritableFile, with a new ZonedWritableFile.                        *)
Reopen ==
  /\ ~wr.open /\ pc = "idle" /\ calls < MaxCalls
  /\ Call("none", 0)
  /\ wr' = [Closed EXCEPT !.open = TRUE, !.wp = file.size]
  /\ UNCHANGED <<mode, devVars, file, meta, pc, rest, synced, dropped, given, crashes>>

-----------------------------------------------------------------------------
(* Migration of an extent of a closed file that is not sparse.              *)

(* MigrateData: the cells it appends to the target, read a step at a time   *)
(* and padded to a block.                                                   *)
MigrateData(e) ==
  LET copy[left \in 0..e.length] ==
        LET n == Min2(MigrateStep, left) IN
        IF left = 0 THEN <<>>
        ELSE Cells(dev, e.start + e.length - left, RoundUp(n)) \o copy[left - n]
  IN copy[e.length]

MigrateFileExtents(i, z) ==
  LET e == file.extents[i] IN
  /\ ~wr.open /\ pc = "idle" /\ calls < MaxCalls
  /\ mode # "sparse"
  /\ z \notin GetIOZone(e.start) /\ CapacityLeft(wp, z) >= e.length
  /\ Call("none", 0)
  /\ ZoneAppend(z, MigrateData(e))
  /\ file' = [file EXCEPT !.extents[i].start = wp[z]]
  /\ meta' = EncodeTo(file')
  /\ UNCHANGED <<mode, wr, pc, rest, synced, dropped, given, crashes>>

-----------------------------------------------------------------------------
(* Crash and recovery                                                       *)

Failure == [ok |-> FALSE, extents |-> <<>>]

(* Where the segment after one of n bytes at a starts.  Mutant: no padding. *)
NextSegmentUnaligned(a, n) == a + n + H
NextSegment(a, n) == a + RoundUp(n + H)

(* RecoverSparseExtents: from header to header up to the write pointer.     *)
RecoverSparseExtents(d, start, end) ==
  LET from[a \in start..(end + BufferSize)] ==
        LET n == -d[a]
            more == from[NextSegment(a, n)] IN
        IF a >= end THEN [ok |-> TRUE, extents |-> <<>>]
        ELSE IF n <= 0 THEN Failure
        ELSE [ok |-> more.ok, extents |-> <<Extent(a + H, n)>> \o more.extents]
  IN from[start]

(* ZoneFile::Recover: the data between the active extent's start and the    *)
(* write pointer of the zone that start lies in.                            *)
Recover(d, w) ==
  LET zones == GetIOZone(meta.start)
      z     == CHOOSE x \in zones : TRUE
      n     == w[z] - meta.start
      more  == IF mode = "sparse" THEN RecoverSparseExtents(d, meta.start, w[z])
               ELSE [ok |-> TRUE, extents |-> <<Extent(meta.start, n)>>] IN
  CASE meta.start = NoExtent -> [ok |-> TRUE, extents |-> meta.extents]
    [] meta.start # NoExtent /\ zones = {} -> Failure
    [] meta.start # NoExtent /\ zones # {} /\ n < 0 -> Failure
    [] meta.start # NoExtent /\ zones # {} /\ n = 0 -> [ok |-> TRUE, extents |-> meta.extents]
    [] OTHER -> [ok |-> more.ok, extents |-> meta.extents \o more.extents]

SumLengths(x) == FoldLeft(LAMBDA n, e : n + e.length, 0, x)

(* The process dies, possibly with blocks of its last write on the device,  *)
(* and the next mount recovers the file and writes a snapshot.              *)
Crash ==
  /\ pc # "unmountable" /\ crashes < MaxCrashes
  /\ crashes' = crashes + 1
  /\ \E n \in {m \in 0..Len(PendingCells) : m % B = 0} :
       /\ n > 0 => mode \in TornModes
       /\ IF n = 0 THEN UNCHANGED devVars
          ELSE ZoneAppend(file.active, SubSeq(PendingCells, 1, n))
  /\ LET r == Recover(dev', wp') IN
     /\ file' = [NewFile EXCEPT !.extents = r.extents,
                                !.size = IF r.extents = meta.extents THEN meta.size
                                         ELSE SumLengths(r.extents)]
     /\ pc' = IF r.ok THEN "idle" ELSE "unmountable"
  /\ meta' = EncodeTo(file')
  /\ wr' = Closed
  /\ op' = [name |-> "none", size |-> 0] /\ rest' = <<>>
  /\ dropped' = <<>>
  /\ UNCHANGED <<mode, given, calls>>
  /\ synced' = Len(Data')

Next ==
  \/ \E n \in Sizes : AppendCall(n)
  \/ DirectAllocate \/ DirectWrite
  \/ BufferedWrite \/ FlushAllocate \/ FlushWrite \/ FlushReallocate
  \/ Sync \/ Fsync \/ Close \/ PersistMetadata \/ CloseWR
  \/ \E n \in 1..MaxBytes : RangeSync(n) \/ Truncate(n)
  \/ Reopen
  \/ \E i \in DOMAIN file.extents, z \in Zone : MigrateFileExtents(i, z)
  \/ Crash

Spec == Init /\ [][Next]_vars

-----------------------------------------------------------------------------
(* Reads                                                                    *)

(* GetExtent: the extent that holds an offset of the file, as {[extent,     *)
(* dev_offset]}, or nothing.                                                *)
GetExtent(off) ==
  LET before(i) == SumLengths(SubSeq(file.extents, 1, i - 1)) IN
  {[extent |-> file.extents[i], dev |-> file.extents[i].start + off - before(i)] :
     i \in {j \in DOMAIN file.extents : before(j) <= off /\ off < before(j)
                                                             + file.extents[j].length}}

(* What PositionedRead keeps of the blocks it read.  Mutant: everything.    *)
WantedAll(cells, want) == cells
Wanted(cells, want) == SubSeq(cells, 1, want)

(* PositionedRead: extent by extent up to the end of the file; a direct     *)
(* read asks for whole blocks and drops what it did not want.               *)
PositionedRead(off, n, direct) ==
  LET size == Min2(n, file.size - off)
      loop[read \in 0..size] ==
        LET at   == CHOOSE x \in GetExtent(off + read) : TRUE
            want == Min2(size - read, at.extent.start + at.extent.length - at.dev)
            ask  == Min2(IF direct THEN RoundUp(want) ELSE want, NrIOZones * ZoneSize - at.dev) IN
        IF read = size \/ GetExtent(off + read) = {} THEN <<>>
        ELSE Wanted(Cells(dev, at.dev, ask), want) \o loop[read + want]
  IN IF off >= file.size THEN <<>> ELSE loop[0]
-----------------------------------------------------------------------------
(* Properties                                                               *)

(* The variables keep their types; the write pointers stay in their zones   *)
(* and on block boundaries.                                                 *)
TypeOK ==
  /\ mode \in Modes
  /\ \A z \in Zone : wp[z] - Start(z) \in 0..ZoneCap /\ wp[z] % B = 0
  /\ DOMAIN dev = Address
  /\ file.active \in Zone \cup {NoZone} /\ file.size \in Nat /\ file.filepos \in Nat
  /\ pc \in {"idle", "write", "buffer", "flush", "realloc", "persist", "close", "unmountable"}
  /\ wr.left \in 0..Len(wr.buffer) /\ Len(wr.buffer) <= BufSize
  /\ synced \in 0..Len(Data)

(* The promise of AppendFile: whatever is buffered, split over zones, moved *)
(* in the buffer, synced, closed, migrated or cut off by a crash, the file  *)
(* is what was appended to it in that order, a crash takes only an unsynced *)
(* tail, and only a buffered file that is not sparse may gain padding.      *)
File == INSTANCE AppendFile WITH
          data <- Data, durable <- synced, slack <- IF mode = "buffered" THEN B - 1 ELSE 0
RefinesAppendFile == File!Spec

(* PositionedRead returns the bytes of the extents from any offset, for any *)
(* size, by direct reads or not: it never skips, repeats or invents one     *)
(* where an extent ends off a block boundary or before the end of the file. *)
ReadsAgree ==
  \A off \in 0..file.size : \A n \in 0..(file.size - off + 1) : \A direct \in BOOLEAN :
    PositionedRead(off, n, direct)
      = SubSeq(Content, off + 1, Min2(off + n, Min2(file.size, Len(Content))))

(* The addresses of an extent with its header.                              *)
Blocks(e) == (e.start - HeaderSize)..(e.start + e.length - 1)

(* The assertions of PushExtent and MigrateData: extents start on a block   *)
(* boundary, lie below the write pointer of one zone, never overlap, and    *)
(* with the data not pushed yet they are the size of the file.              *)
ExtentsSound ==
  /\ \A i \in DOMAIN file.extents :
       LET e == file.extents[i] IN
       /\ (e.start - HeaderSize) % B = 0 /\ e.length > 0
       /\ \E z \in Zone : Start(z) <= e.start /\ e.start + e.length <= wp[z]
       /\ \A j \in DOMAIN file.extents : i # j => Blocks(e) \cap Blocks(file.extents[j]) = {}
  /\ file.size = SumLengths(file.extents) + Len(Unpushed)
  /\ file.active # NoZone => file.start + Len(Unpushed) <= wp[file.active]

(* "If there is a crash we know that this file wrote the data starting from *)
(* active extent start up to the zone write pointer" (EncodeTo): the file   *)
(* can be recovered, and nothing but its own bytes and padding is in it.    *)
OwnBytes ==
  pc # "unmountable" /\ \A i \in DOMAIN Data : Data[i] \in 0..MaxBytes

=============================================================================
