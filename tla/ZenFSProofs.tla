------------------------------ MODULE ZenFSProofs ------------------------------
(***************************************************************************)
(* Theorems about the metadata of ZenFS, for any number of files, names,   *)
(* threads, zones and records per zone.                                    *)
(***************************************************************************)
EXTENDS RecoveryProofs

FileType == [exts : Seq(Nat), synced : Nat, active : BOOLEAN, links : Seq(Names),
             deleted : BOOLEAN, wr : Threads \cup {NoThread}, moved : BOOLEAN]

Files(f) == f \in [Id -> FileType] /\ \A i \in Id : f[i].synced <= Len(f[i].exts)

Kinds == {"none", "create", "reopen", "delete", "rename", "link", "sync", "close",
          "replace", "unmount", "mount", "abort"}

OpType == [kind : Kinds, who : Threads \cup {NoThread}, id : Id \cup {None},
           name : Names \cup {None}, src : Names \cup {None}, victim : Id \cup {None},
           deleting : BOOLEAN, n : Nat, pre : NameMap, mid : NameMap, post : NameMap]

Rolling == {"end", "finish", "superblock", "encode", "snapshot"}

(* The variables have their types.                                          *)
DeviceTypes ==
  /\ log \in [MetaZone -> Seq(Record)]
  /\ \A z \in MetaZone : Len(log[z]) <= MetaCap
  /\ finished \subseteq MetaZone

ZoneTypes ==
  /\ metaLog \in MetaZone \cup {None} /\ oldLog \in MetaZone \cup {None}
  /\ seq \in Nat

MemoryTypes ==
  /\ files \in NameMap
  /\ Files(file)
  /\ nextId \in 1..MaxFileId + 1

CallTypes == at \in Ats /\ op \in OpType /\ rec \in Record

CountTypes ==
  /\ acked \in [Id -> Nat]
  /\ calls \in 0..MaxCalls /\ crashes \in 0..MaxCrashes

Types == DeviceTypes /\ ZoneTypes /\ MemoryTypes /\ CallTypes /\ CountTypes

(* The zones are as far as the roll has come.                               *)
Where ==
  /\ Up => metaLog \in MetaZone
  /\ at \in Rolling \cup {"synced", "reset"} => oldLog \in MetaZone /\ oldLog # metaLog
  /\ at \in {"end", "finish", "superblock"} => log[metaLog] = <<>>
  /\ at \in {"encode", "snapshot"} => Len(log[metaLog]) = 1

(* A call knows its file and its names.                                     *)
Valid ==
  /\ at = "wrlock" => op.id \in Id
  /\ op.deleting => op.victim \in Id /\ op.name \in Names
  /\ op.kind \in {"create", "rename", "link", "sync", "close", "replace"} => op.id \in Id
  /\ op.kind \in {"create", "rename", "link"} => op.name \in Names
  /\ op.kind = "rename" => op.src \in Names
  /\ op.kind = "create" /\ op.deleting => op.id = nextId

TypeInv == Types /\ Where /\ Valid

-----------------------------------------------------------------------------
(* Either the metadata zones have room for all that is written between two  *)
(* mounts, or no file is created and no roll of the log fails half-way: a   *)
(* roll in the middle of a creation loses the new file, which is in no      *)
(* snapshot, and a roll that fails leaves meta_log_ in the new zone.        *)
Roomy == MetaCap >= 2 + 2 * MaxCalls
Plain == "create" \notin Ops /\ "roll" \notin Faults

RollAts == {"allocate", "synced", "reset"} \cup Rolling
Settled == {"idle", "wrlock", "synced", "reset", "done"}

(* The zone that Mount would recover from, and what it would find there.    *)
Cur == IF at \in Rolling \/ (at = "error" /\ oldLog # None) THEN oldLog ELSE metaLog
Disk == Decoded(Tail(log[Cur]))

(* Leads and Blocks, for a log l.                                           *)
Newer(l, c) == \A z \in MetaZone \ {c} :
  Fragment(l[z]) \/ (Whole(l[z]) /\ l[z][1].seq < l[c][1].seq)
Heads(l, c) == c \in MetaZone /\ Whole(l[c]) /\ Newer(l, c)
Stops(l, c) == /\ c \in MetaZone /\ Len(l[c]) = 2
               /\ l[c][1] \in Supers /\ l[c][2] = TornRecord /\ Newer(l, c)

(* The reset counts that the destructor of a failed mount has left in a     *)
(* zone without a superblock.                                               *)
Headless(l, c) == l[c] # <<>> /\ l[c][1] = ResetCountRecord

(* The zone in use leads, but for the part of a roll up to the snapshot, in *)
(* which the old one still does, as it does when the roll of a mount fails. *)
(* Without a process, a zone leads unless one is spoiled.                   *)
LogInv ==
  /\ Up => Heads(log, Cur)
  /\ at \in {"encode", "snapshot"} =>
       log[metaLog][1] = SuperblockRecord(seq) /\ log[oldLog][1].seq < seq
  /\ Up /\ at \notin {"encode", "snapshot", "error"} => seq = log[Cur][1].seq
  /\ at = "error" /\ oldLog = None => seq = log[Cur][1].seq
  /\ Up /\ at \notin Rolling /\ (at \in {"allocate", "error"} => op.kind \notin {"mount", "abort"})
       => ~Disk.ended
  /\ at \notin Rolling \cup {"synced", "reset", "error"} => oldLog = None
  /\ at = "error" /\ oldLog # None =>
       op.kind \in {"mount", "abort"} /\ metaLog # oldLog /\ Len(log[metaLog]) <= 1 /\ metaLog \notin finished
  /\ at \in Rolling => metaLog \notin finished
  /\ ~Up => \E c \in MetaZone : Heads(log, c) \/ Stops(log, c) \/ Headless(log, c)

(* A file that is created gets its name when its record is on the device.   *)
Creating == op.kind = "create" /\ ~op.deleting
Newborn == IF Creating THEN op.id ELSE None
Victim == IF op.deleting THEN op.victim ELSE None

(* The links of a file are its names, and an open file without a name is    *)
(* marked deleted.                                                          *)
Linked(f, ns, x) == \A i \in Id \ {x} : LinkedTo(f[i].links, ns, i)
Homed(f, v) == \A i \in Id \ {v} : f[i].wr # NoThread /\ ~f[i].deleted => f[i].links # <<>>

NameInv ==
  /\ Linked(file, files, Newborn)
  /\ Homed(file, Victim)
  /\ Creating => /\ file[op.id].links = <<op.name>> /\ file[op.id].wr = NoThread
                 /\ Named(files, op.id) = {} /\ op.id < nextId
  /\ \A n \in Names : files[n] < nextId /\ op.pre[n] < nextId /\ op.mid[n] < nextId

(* What a call has done so far.                                             *)
Before == IF op.deleting THEN op.pre ELSE op.mid
After == IF op.deleting THEN op.mid ELSE op.post

Moves(ns) ==
  IF op.src = op.name THEN op.post = op.mid
  ELSE ns[op.src] = op.id /\ op.post = [ns EXCEPT ![op.src] = None, ![op.name] = op.id]

OpInv ==
  /\ at \in {"idle", "down", "unmountable"} <=> op.kind = "none"
  /\ op.kind = "none" => op = NoOp
  /\ op.kind = "create" => "create" \in Ops
  /\ at = "wrlock" <=> op.kind = "reopen"
  /\ at = "persist" => op.kind \notin {"mount", "abort"}
  /\ op.kind = "abort" => at \in RollAts \cup {"done", "error"}
  /\ op.deleting => op.kind \in {"delete", "rename", "create"}

CallInv ==
  /\ op.kind # "none" => files = IF Creating THEN op.mid ELSE After
  /\ op.deleting => op.pre[op.name] = op.victim /\ op.mid = [op.pre EXCEPT ![op.name] = None]
  /\ op.kind = "reopen" => Named(files, op.id) # {}
  /\ op.kind = "delete" => op.deleting
  /\ op.kind = "rename" => /\ Moves(op.mid) /\ op.mid[op.name] = None
                           /\ ~op.deleting => op.src # op.name
  /\ op.kind = "link" => /\ op.mid[op.name] = None /\ Named(op.mid, op.id) # {}
                         /\ op.post = [op.mid EXCEPT ![op.name] = op.id]
  /\ op.kind = "create" => /\ op.mid[op.name] = None
                           /\ op.post = [op.mid EXCEPT ![op.name] = op.id]
  /\ op.kind \in {"sync", "close", "replace"} => op.post = op.mid /\ Named(op.mid, op.id) # {}
  /\ op.kind \in {"unmount", "mount", "abort", "reopen"} => op.post = op.mid

(* What the log says of the names.                                          *)
AgreeInv ==
  /\ Up => Disk.files = IF at \notin Settled THEN Before
                        ELSE IF op.kind = "none" THEN files ELSE After
  /\ at = "persist" => Turns(rec, Before, After)
  /\ at = "snapshot" => rec.tag = "snapshot" /\ Pictures(rec.files, files)

(* The records that are still to come, for a zone with room for all of them.*)
Due == IF op.deleting /\ op.kind # "delete" /\ at # "error" THEN 1 ELSE 0
Unwritten == IF at = "persist" THEN 1 ELSE 0
Moved == {i \in Id : file[i].moved /\ ~(op.kind = "replace" /\ op.id = i)}
Used == IF op.kind \in {"mount", "abort"} THEN 2 ELSE Len(log[metaLog]) + Unwritten + Due

Budget == Up => Used + Cardinality(Moved) <= 2 + 2 * calls
Unfinished ==
  Up /\ (at \in {"allocate", "error"} => op.kind \notin {"mount", "abort"}) => metaLog \notin finished
Rolled == op.kind \in {"mount", "abort"} /\ at \in {"synced", "reset", "done"} => Len(log[metaLog]) = 2
Unrolled == at \in RollAts => op.kind \in {"mount", "abort"}

RoomInv == Roomy => Budget /\ Unfinished /\ Rolled /\ Unrolled

-----------------------------------------------------------------------------
(* Types                                                                    *)

(* EncodeTo makes an image of a file.                                       *)
LEMMA EncodeTypes ==
  ASSUME NEW f \in [Id -> FileType], NEW i \in Id, NEW n \in Nat
  PROVE  /\ Encode(f, i, n) \in Image /\ Encode(f, i, n).id = i
         /\ Encode(f, i, n).links = f[i].links
<1>1. f[i].exts \in Seq(Nat) /\ f[i].active \in BOOLEAN /\ f[i].links \in Seq(Names)
  BY DEF FileType
<1>2. PICK e \in Seq(Nat) : e = SubSeq(f[i].exts, n + 1, Len(f[i].exts))
  <2>1. PICK s \in Seq(Nat) : s = f[i].exts
    BY <1>1
  <2>2. SubSeq(s, n + 1, Len(s)) \in Seq(Nat)
    OBVIOUS
  <2> QED BY <2>1, <2>2
<1>3. Encode(f, i, n) = [id |-> i, exts |-> e, active |-> f[i].active, links |-> f[i].links]
  BY <1>2 DEF Encode
<1> QED BY <1>1, <1>3, ImageFacts

(* The records of a call are records.                                       *)
LEMMA RecordTypes ==
  ASSUME NEW f \in [Id -> FileType], NEW i \in Id
  PROVE  /\ UpdateRecord(f, i) \in Record /\ ReplaceRecord(f, i) \in Record
         /\ UpdateRecord(f, i).tag = "update" /\ ReplaceRecord(f, i).tag = "replace"
         /\ UpdateRecord(f, i).file = EncodeUpdateTo(f, i)
         /\ ReplaceRecord(f, i).file = EncodeUpdateTo(f, i)
         /\ EncodeUpdateTo(f, i) \in Image /\ EncodeUpdateTo(f, i).id = i
         /\ EncodeUpdateTo(f, i).links = f[i].links
<1>1. f[i].synced \in Nat
  BY DEF FileType
<1>2. /\ EncodeUpdateTo(f, i) \in Image /\ EncodeUpdateTo(f, i).id = i
      /\ EncodeUpdateTo(f, i).links = f[i].links
  BY <1>1, EncodeTypes DEF EncodeUpdateTo
<1>3. PICK e \in Image : e = EncodeUpdateTo(f, i)
  BY <1>2
<1>4. UpdateRecord(f, i) = [tag |-> "update", file |-> e]
      /\ ReplaceRecord(f, i) = [tag |-> "replace", file |-> e]
  BY <1>3 DEF UpdateRecord, ReplaceRecord
<1> QED BY <1>2, <1>3, <1>4 DEF Record

(* So are the others.                                                       *)
LEMMA OtherRecordTypes ==
  /\ EndRecord \in Record /\ ResetCountRecord \in Record /\ TornRecord \in Record
  /\ \A i \in Id, n \in Names : DeletionRecord(i, n) \in Record
  /\ \A s \in Nat : SuperblockRecord(s) \in Record /\ SuperblockRecord(s) \in Supers
BY DEF Record, DeletionRecord, SuperblockRecord, Supers

(* The name space that a snapshot encodes is finite.                        *)
LEMMA SnapshotRecordTypes ==
  ASSUME NEW ns \in NameMap, NEW f \in [Id -> FileType]
  PROVE  /\ EncodeSnapshotTo(ns, f) \in SUBSET Image
         /\ SnapshotRecord(EncodeSnapshotTo(ns, f)) \in Record
<1> DEFINE D == {m \in Names : ns[m] # None}
           g == [n \in D |-> Encode(f, ns[n], 0)]
           S == EncodeSnapshotTo(ns, f)
<1>1. \A n \in D : ns[n] \in Id /\ Encode(f, ns[n], 0) \in Image
  <2>1. \A n \in D : ns[n] \in Id
    BY DEF NameMap
  <2> QED BY <2>1, EncodeTypes
<1>2. S = {g[n] : n \in D} /\ S \in SUBSET Image
  <2>1. S = {Encode(f, ns[n], 0) : n \in D}
    BY DEF EncodeSnapshotTo
  <2> HIDE DEF S, D
  <2> QED BY <1>1, <2>1
<1>3. IsFiniteSet(D)
  BY MetaAssumption, FS_Subset
<1>4. IsFiniteSet(S)
  <2> HIDE DEF S, D
  <2>1. g \in [D -> S] /\ \A x \in S : \E n \in D : g[n] = x
    BY <1>2
  <2> HIDE DEF g
  <2>2. g \in Surjection(D, S)
    BY <2>1 DEF Surjection
  <2> QED BY <1>3, <2>2, FS_Surjection
<1> HIDE DEF S
<1>5. [tag |-> "snapshot", files |-> S] \in Record
  BY <1>2, <1>4 DEF Record
<1> QED BY <1>2, <1>5 DEF SnapshotRecord, S

(* A file replaced by another.                                              *)
LEMMA FilesReplace ==
  ASSUME NEW f, Files(f), NEW i \in Id, NEW g \in FileType, g.synced <= Len(g.exts)
  PROVE  Files([f EXCEPT ![i] = g])
BY DEF Files

(* The parts of a file that a call changes, one at a time.                  *)
LEMMA FileParts ==
  ASSUME NEW f, Files(f), NEW i \in Id
  PROVE  /\ \A l \in Seq(Names) : Files([f EXCEPT ![i].links = l])
         /\ \A w \in Threads \cup {NoThread} : Files([f EXCEPT ![i].wr = w])
         /\ \A b \in BOOLEAN : Files([f EXCEPT ![i].active = b])
         /\ Files([f EXCEPT ![i].deleted = TRUE])
         /\ \A w \in Threads \cup {NoThread} :
              /\ Files([f EXCEPT ![i].wr = w, ![i].moved = FALSE])
              /\ Files([f EXCEPT ![i].wr = w, ![i].moved = TRUE, ![i].synced = 0])
<1>1. /\ f \in [Id -> FileType] /\ f[i] \in FileType /\ f[i].synced <= Len(f[i].exts)
      /\ f[i].exts \in Seq(Nat) /\ 0 <= Len(f[i].exts)
  BY DEF Files, FileType
<1>2. ASSUME NEW l \in Seq(Names) PROVE Files([f EXCEPT ![i].links = l])
  <2>1. [f[i] EXCEPT !.links = l] \in FileType
    BY <1>1 DEF FileType
  <2>2. [f[i] EXCEPT !.links = l].synced = f[i].synced /\ [f[i] EXCEPT !.links = l].exts = f[i].exts
    BY <1>1 DEF FileType
  <2> QED BY <1>1, <2>1, <2>2, FilesReplace
<1>3. ASSUME NEW w \in Threads \cup {NoThread} PROVE Files([f EXCEPT ![i].wr = w])
  <2>1. [f[i] EXCEPT !.wr = w] \in FileType
    BY <1>1 DEF FileType
  <2>2. [f[i] EXCEPT !.wr = w].synced = f[i].synced /\ [f[i] EXCEPT !.wr = w].exts = f[i].exts
    BY <1>1 DEF FileType
  <2> QED BY <1>1, <2>1, <2>2, FilesReplace
<1>4. ASSUME NEW b \in BOOLEAN PROVE Files([f EXCEPT ![i].active = b])
  <2>1. [f[i] EXCEPT !.active = b] \in FileType
    BY <1>1 DEF FileType
  <2>2. [f[i] EXCEPT !.active = b].synced = f[i].synced /\ [f[i] EXCEPT !.active = b].exts = f[i].exts
    BY <1>1 DEF FileType
  <2> QED BY <1>1, <2>1, <2>2, FilesReplace
<1>5. Files([f EXCEPT ![i].deleted = TRUE])
  <2> DEFINE g == [f[i] EXCEPT !.deleted = TRUE]
  <2>1. g \in FileType
    BY <1>1 DEF FileType
  <2>2. g.synced = f[i].synced /\ g.exts = f[i].exts
    BY <1>1 DEF FileType
  <2> QED BY <1>1, <2>1, <2>2, FilesReplace
<1>6. ASSUME NEW w \in Threads \cup {NoThread}
      PROVE  Files([f EXCEPT ![i].wr = w, ![i].moved = FALSE])
  <2> DEFINE g == [f[i] EXCEPT !.wr = w, !.moved = FALSE]
  <2>1. g \in FileType
    BY <1>1 DEF FileType
  <2>2. g.synced = f[i].synced /\ g.exts = f[i].exts
    BY <1>1 DEF FileType
  <2>3. [f EXCEPT ![i].wr = w, ![i].moved = FALSE] = [f EXCEPT ![i] = g]
    BY <1>1
  <2> HIDE DEF g
  <2> QED BY <1>1, <2>1, <2>2, <2>3, FilesReplace
<1>7. ASSUME NEW w \in Threads \cup {NoThread}
      PROVE  Files([f EXCEPT ![i].wr = w, ![i].moved = TRUE, ![i].synced = 0])
  <2> DEFINE g == [f[i] EXCEPT !.wr = w, !.moved = TRUE, !.synced = 0]
  <2>1. g \in FileType
    BY <1>1 DEF FileType
  <2>2. g.synced = 0 /\ g.exts = f[i].exts
    BY <1>1 DEF FileType
  <2>3. [f EXCEPT ![i].wr = w, ![i].moved = TRUE, ![i].synced = 0] = [f EXCEPT ![i] = g]
    BY <1>1
  <2> HIDE DEF g
  <2> QED BY <1>1, <2>1, <2>2, <2>3, FilesReplace
<1> QED BY <1>2, <1>3, <1>4, <1>5, <1>6, <1>7

(* A new file, and none.                                                    *)
LEMMA NewFileTypes ==
  ASSUME NEW l \in Seq(Names)
  PROVE  /\ NewFile(l) \in FileType /\ NewFile(l).synced <= Len(NewFile(l).exts)
         /\ NewFile(l).links = l /\ NewFile(l).wr = NoThread
         /\ ~NewFile(l).deleted /\ ~NewFile(l).moved
<1>1. PICK x \in Seq(Nat) : x = <<>> /\ Len(x) = 0
  BY EmptySeq
<1>2. NewFile(l) = [exts |-> x, synced |-> 0, active |-> FALSE, links |-> l,
                    deleted |-> FALSE, wr |-> NoThread, moved |-> FALSE]
  BY <1>1 DEF NewFile
<1> QED BY <1>1, <1>2 DEF FileType

(* The file that a record of the log stands for, repaired or not, with or   *)
(* without the data that Recover finds.                                     *)
Decodes(g, e) == g = DecodeFrom(e) \/ \E w \in BOOLEAN : g = Recover(DecodeFrom(e), w)

(* The file that Recover makes has its type.                                *)
LEMMA RecoverFileTypes ==
  ASSUME NEW e \in Image, NEW w \in BOOLEAN
  PROVE  /\ Recover(DecodeFrom(e), w) \in FileType
         /\ Recover(DecodeFrom(e), w).synced <= Len(Recover(DecodeFrom(e), w).exts)
         /\ Recover(DecodeFrom(e), w).links = e.links
         /\ Recover(DecodeFrom(e), w).wr = NoThread
         /\ ~Recover(DecodeFrom(e), w).deleted /\ ~Recover(DecodeFrom(e), w).moved
         /\ DecodeFrom(e) \in FileType
         /\ DecodeFrom(e).synced <= Len(DecodeFrom(e).exts)
         /\ DecodeFrom(e).links = e.links
         /\ DecodeFrom(e).wr = NoThread
         /\ ~DecodeFrom(e).deleted /\ ~DecodeFrom(e).moved
<1>1. PICK x \in Seq(Nat), l \in Seq(Names), a \in BOOLEAN :
        x = e.exts /\ l = e.links /\ a = e.active
  BY DEF Image
<1>2. /\ Len(x) \in Nat
      /\ Append(x, Len(x) + 1) \in Seq(Nat) /\ Len(Append(x, Len(x) + 1)) = Len(x) + 1
  BY AppendProperties, LenProperties
<1>3. PICK k \in Nat : k = Len(x)
  BY <1>2
<1>4. PICK g \in FileType :
        /\ g = DecodeFrom(e) /\ g.exts = x /\ g.synced = k /\ g.links = l
        /\ g.wr = NoThread /\ ~g.deleted /\ ~g.moved
  <2>2. PICK b \in FileType : b = NewFile(l) /\ b.wr = NoThread /\ ~b.deleted /\ ~b.moved
                             /\ b.links = l
    BY NewFileTypes
  <2>3. DecodeFrom(e) = [b EXCEPT !.exts = x, !.synced = k, !.active = a]
    BY <1>1, <1>3, <2>2 DEF DecodeFrom
  <2> QED BY <2>2, <2>3 DEF FileType
<1>5. PICK y \in Seq(Nat) : y = (IF w THEN Append(g.exts, Len(g.exts) + 1) ELSE g.exts)
                             /\ k <= Len(y)
  <2>1. k \in Nat /\ g.exts = x
    BY <1>4
  <2>2. CASE w
    <3>1. PICK y \in Seq(Nat) : y = Append(x, Len(x) + 1)
      BY <1>2, Zenon
    <3>2. k <= Len(y)
      BY <1>2, <1>3, <3>1
    <3> QED BY <2>1, <2>2, <3>1, <3>2
  <2>3. CASE ~w
    BY <1>2, <1>3, <2>1, <2>3
  <2> QED BY <2>2, <2>3
<1>6. Recover(g, w) = [g EXCEPT !.exts = y, !.active = FALSE]
  BY <1>5 DEF Recover
<1>7. /\ Recover(g, w) \in FileType
      /\ Recover(g, w).exts = y /\ Recover(g, w).synced = k /\ Recover(g, w).links = l
      /\ Recover(g, w).wr = NoThread /\ ~Recover(g, w).deleted /\ ~Recover(g, w).moved
  BY <1>4, <1>5, <1>6 DEF FileType
<1>8. k <= Len(g.exts)
  BY <1>3, <1>4
<1> QED BY <1>1, <1>4, <1>5, <1>7, <1>8

(* So does the file that a mount decodes.                                   *)
LEMMA DecodesTypes ==
  ASSUME NEW e \in Image, NEW g, Decodes(g, e)
  PROVE  /\ g \in FileType /\ g.synced <= Len(g.exts) /\ g.links = e.links
         /\ g.wr = NoThread /\ ~g.deleted /\ ~g.moved
<1>1. CASE g = DecodeFrom(e)
  BY <1>1, RecoverFileTypes
<1>2. ASSUME NEW w \in BOOLEAN, g = Recover(DecodeFrom(e), w)
      PROVE  /\ g \in FileType /\ g.synced <= Len(g.exts) /\ g.links = e.links
             /\ g.wr = NoThread /\ ~g.deleted /\ ~g.moved
  BY <1>2, RecoverFileTypes
<1> QED BY <1>1, <1>2 DEF Decodes

(* There is no file in memory when there is no process.                     *)
LEMMA NoFilesTypes == Files([i \in Id |-> NoFile]) /\ NoNames \in NameMap
<1>1. <<>> \in Seq(Names)
  BY EmptySeq
<1>2. NoFile \in FileType /\ NoFile.synced <= Len(NoFile.exts)
  BY <1>1, NewFileTypes DEF NoFile
<1>3. NoNames \in NameMap
  BY DEF NoNames, NameMap
<1> QED BY <1>2, <1>3 DEF Files

(* The changes to the links of a file.                                      *)
LEMMA LinkTypes ==
  ASSUME NEW f, Files(f), NEW i \in Id, NEW m \in Names, NEW n \in Names
  PROVE  /\ Files(RemoveLinkName(f, i, m)) /\ Files(AddLinkName(f, i, n))
         /\ Files(RenameLink(f, i, m, n))
<1>1. ASSUME NEW g, Files(g) PROVE Files(RemoveLinkName(g, i, m)) /\ Files(AddLinkName(g, i, n))
  <2>1. PICK s \in Seq(Names) : s = g[i].links
    BY <1>1 DEF Files, FileType
  <2>2. RemoveFirst(s, m) \in Seq(Names) /\ Append(s, n) \in Seq(Names)
    BY RemoveFirstType, AppendProperties
  <2>3. RemoveFirst(g[i].links, m) \in Seq(Names) /\ Append(g[i].links, n) \in Seq(Names)
    BY <2>1, <2>2
  <2>4. /\ Files([g EXCEPT ![i].links = RemoveFirst(g[i].links, m)])
        /\ Files([g EXCEPT ![i].links = Append(g[i].links, n)])
    BY <1>1, <2>3, FileParts
  <2> QED BY <2>4 DEF RemoveLinkName, AddLinkName
<1> QED BY <1>1 DEF RenameLink

(* MetadataSynced and SetDeleted.                                           *)
LEMMA MarkTypes ==
  ASSUME NEW f, Files(f), NEW ids, NEW i \in Id
  PROVE  Files(MetadataSynced(f, ids)) /\ Files(SetDeleted(f, i))
<1>1. Files(SetDeleted(f, i))
  BY FileParts DEF SetDeleted
<1>2. ASSUME NEW j \in Id
      PROVE  /\ MetadataSynced(f, ids)[j] \in FileType
             /\ MetadataSynced(f, ids)[j].synced <= Len(MetadataSynced(f, ids)[j].exts)
  <2>1. f[j] \in FileType /\ f[j].synced <= Len(f[j].exts) /\ f[j].exts \in Seq(Nat)
    BY DEF Files, FileType
  <2>2. PICK k \in Nat : k = Len(f[j].exts)
    BY <2>1, LenProperties
  <2>3. [f[j] EXCEPT !.synced = k] \in FileType /\ [f[j] EXCEPT !.synced = k].synced = k
        /\ [f[j] EXCEPT !.synced = k].exts = f[j].exts
    BY <2>1 DEF FileType
  <2>4. MetadataSynced(f, ids)[j] = IF j \in ids THEN [f[j] EXCEPT !.synced = k] ELSE f[j]
    BY <2>2 DEF MetadataSynced
  <2> QED BY <2>1, <2>2, <2>3, <2>4
<1>3. MetadataSynced(f, ids) \in [Id -> FileType]
  BY <1>2 DEF MetadataSynced
<1> QED BY <1>1, <1>2, <1>3 DEF Files

(* No call, and what a call starts with.                                    *)
LEMMA NoOpTypes ==
  /\ NoOp \in OpType /\ NoOp.kind = "none" /\ NoOp.who = NoThread /\ ~NoOp.deleting
  /\ NoOp.pre = NoNames /\ NoOp.mid = NoNames /\ NoOp.post = NoNames
BY NoFilesTypes DEF NoOp, OpType, Kinds

(* The call that Request makes.                                             *)
LEMMA RequestTypes ==
  ASSUME files \in NameMap, NEW kind \in Kinds, NEW t \in Threads, NEW i \in Id \cup {None}
  PROVE  LET o == Request(kind, t, i) IN
         /\ o \in OpType
         /\ o.kind = kind /\ o.who = t /\ o.id = i /\ ~o.deleting
         /\ o.pre = files /\ o.mid = files /\ o.post = files
BY NoOpTypes DEF Request, OpType

(* A call that takes a name from the file it stands for.                    *)
Overwrites(o, call, n, post) ==
  /\ o \in OpType
  /\ o.kind = call.kind /\ o.who = call.who /\ o.id = call.id
  /\ o.name = n /\ o.victim = files[n] /\ (o.deleting <=> files[n] # None)
  /\ o.pre = call.pre /\ o.mid = Erase(files, {n}) /\ o.post = post

(* Overwriting changes what it is meant to change, and nothing else.        *)
LEMMA OverwritingTypes ==
  ASSUME files \in NameMap, NEW call \in OpType, NEW n \in Names, NEW post \in NameMap,
         NEW o, o = Overwriting(call, n, post)
  PROVE  Overwrites(o, call, n, post)
<1>1. PICK d \in BOOLEAN : d <=> files[n] # None
  OBVIOUS
<1>2. PICK v \in Id \cup {None} : v = files[n]
  BY DEF NameMap
<1>3. PICK m \in NameMap : m = Erase(files, {n})
  BY DEF Erase, NameMap
<1>4. o = [call EXCEPT !.name = n, !.victim = v, !.deleting = d, !.mid = m, !.post = post]
  BY <1>1, <1>2, <1>3 DEF Overwriting
<1> QED BY <1>1, <1>2, <1>3, <1>4 DEF OpType, Overwrites

-----------------------------------------------------------------------------
(* Every step keeps the types                                               *)

(* Names given to a file and taken from one.                                *)
LEMMA NameMapParts ==
  ASSUME NEW ns \in NameMap, NEW m \in Names, NEW n \in Names, NEW i \in Id
  PROVE  /\ [ns EXCEPT ![n] = None] \in NameMap /\ [ns EXCEPT ![n] = i] \in NameMap
         /\ [ns EXCEPT ![m] = None, ![n] = i] \in NameMap
         /\ Erase(ns, {n}) \in NameMap /\ Insert(ns, {n}, i) \in NameMap
BY DEF NameMap, Erase, Insert

(* DeleteFileNoLock, up to its record.                                      *)
LEMMA DeleteTypes ==
  ASSUME MemoryTypes, NEW n \in Names, files[n] # None, DeleteFileNoLock(n)
  PROVE  MemoryTypes' /\ rec' \in Record /\ at' = "persist" /\ files[n] \in Id
<1>1. files[n] \in Id
  BY DEF MemoryTypes, NameMap
<1>2. files' \in NameMap
  BY <1>1, NameMapParts DEF MemoryTypes, DeleteFileNoLock
<1>3. Files(file')
  BY <1>1, LinkTypes DEF MemoryTypes, DeleteFileNoLock
<1>4. rec' \in Record
  BY <1>1, OtherRecordTypes DEF DeleteFileNoLock, Persist
<1> QED BY <1>1, <1>2, <1>3, <1>4 DEF MemoryTypes, DeleteFileNoLock, Persist

(* RenameFileNoLock, up to its record.                                      *)
LEMMA MoveTypes ==
  ASSUME MemoryTypes, NEW f, Files(f), NEW i \in Id, NEW s \in Names, NEW d \in Names,
         MoveFile(f, i, s, d)
  PROVE  MemoryTypes' /\ rec' \in Record /\ at' = "persist"
<1>1. files' \in NameMap
  BY NameMapParts DEF MemoryTypes, MoveFile
<1>2. Files(file')
  BY LinkTypes DEF MoveFile
<1>3. rec' \in Record
  <2>1. rec' = UpdateRecord(file', i)
    BY DEF MoveFile, Persist
  <2>2. file' \in [Id -> FileType]
    BY <1>2 DEF Files
  <2> QED BY <2>1, <2>2, RecordTypes
<1> QED BY <1>1, <1>2, <1>3 DEF MemoryTypes, MoveFile, Persist

(* OpenWritableFile, up to the record of the new file.                      *)
LEMMA CreateTypes ==
  ASSUME MemoryTypes, NEW f, Files(f), NEW n \in Names, nextId <= MaxFileId, CreateFile(f, n)
  PROVE  MemoryTypes' /\ rec' \in Record /\ at' = "persist"
<1>1. nextId \in Id /\ nextId' \in 1..MaxFileId + 1
  BY MetaAssumption DEF MemoryTypes, Id, CreateFile
<1>2. Files(file')
  <2>1. <<n>> \in Seq(Names)
    OBVIOUS
  <2> QED BY <1>1, <2>1, NewFileTypes, FilesReplace DEF CreateFile
<1>3. rec' \in Record
  <2>1. rec' = UpdateRecord(file', nextId)
    BY DEF CreateFile, Persist
  <2>2. file' \in [Id -> FileType]
    BY <1>2 DEF Files
  <2> QED BY <1>1, <2>1, <2>2, RecordTypes
<1> QED BY <1>1, <1>2, <1>3 DEF MemoryTypes, CreateFile, Persist

(* What all calls have in common: the device is as it was between calls.    *)
LEMMA CallsTypes ==
  ASSUME TypeInv, NEW t, NEW what, Calls(t, what)
  PROVE  /\ at = "idle" /\ metaLog \in MetaZone
         /\ DeviceTypes' /\ ZoneTypes' /\ CountTypes'
         /\ at' \in {"idle", "wrlock", "persist"} => Where'
<1>1. at = "idle" /\ metaLog \in MetaZone
  BY DEF Calls, TypeInv, Where, Up
<1>2. /\ UNCHANGED <<log, finished, metaLog, oldLog, seq, acked, crashes>>
      /\ calls < MaxCalls /\ calls' = calls + 1
  BY DEF Calls, deviceVars
<1>3. DeviceTypes' /\ ZoneTypes'
  BY <1>2 DEF TypeInv, Types, DeviceTypes, ZoneTypes
<1>4. CountTypes'
  BY <1>2, MetaAssumption DEF TypeInv, Types, CountTypes
<1>5. at' \in {"idle", "wrlock", "persist"} => Where'
  BY <1>1, <1>2 DEF Where, Rolling
<1> QED BY <1>1, <1>3, <1>4, <1>5

(* DeleteFile keeps the types.                                              *)
LEMMA DeleteFileTypes ==
  ASSUME TypeInv, NEW t \in Threads, NEW n \in Names, DeleteFile(t, n)
  PROVE  TypeInv'
<1>1. MemoryTypes /\ files \in NameMap
  BY DEF TypeInv, Types, MemoryTypes
<1>2. MemoryTypes' /\ rec' \in Record /\ at' = "persist" /\ files[n] \in Id
  BY <1>1, DeleteTypes DEF DeleteFile
<1>3. PICK r \in OpType : /\ r = Request("delete", t, files[n]) /\ r.kind = "delete"
  BY <1>1, <1>2, RequestTypes DEF Kinds
<1>4. PICK p \in NameMap : p = Erase(files, {n})
  BY <1>1, <1>2, NameMapParts
<1>5. op' = Overwriting(r, n, p)
  BY <1>3, <1>4 DEF DeleteFile
<1>6. op' \in OpType /\ op'.kind = "delete" /\ op'.name = n /\ op'.victim = files[n]
  <2>1. Overwrites(op', r, n, p)
    BY <1>1, <1>3, <1>5, OverwritingTypes
  <2> QED BY <1>3, <2>1 DEF Overwrites
<1>7. Valid'
  BY <1>2, <1>6 DEF Valid
<1> QED BY <1>2, <1>6, <1>7, CallsTypes DEF TypeInv, Types, CallTypes, Ats, DeleteFile

(* OpenWritableFile keeps the types.                                        *)
LEMMA OpenWritableFileTypes ==
  ASSUME TypeInv, NEW t \in Threads, NEW n \in Names, OpenWritableFile(t, n)
  PROVE  TypeInv'
<1>1. MemoryTypes /\ files \in NameMap /\ nextId \in Id /\ Files(file)
  BY MetaAssumption DEF TypeInv, Types, MemoryTypes, OpenWritableFile, Id
<1>2. PICK r \in OpType : /\ r = Request("create", t, nextId) /\ r.kind = "create"
                          /\ r.id = nextId
  BY <1>1, RequestTypes DEF Kinds
<1>3. PICK p \in NameMap : p = [files EXCEPT ![n] = nextId]
  BY <1>1, NameMapParts
<1>4. op' = Overwriting(r, n, p)
  BY <1>2, <1>3 DEF OpenWritableFile
<1>5. /\ op' \in OpType /\ op'.kind = "create" /\ op'.name = n /\ op'.victim = files[n]
      /\ op'.id = nextId /\ (op'.deleting <=> files[n] # None)
  <2>1. Overwrites(op', r, n, p)
    BY <1>1, <1>2, <1>4, OverwritingTypes
  <2> QED BY <1>2, <2>1 DEF Overwrites
<1>6. MemoryTypes' /\ rec' \in Record /\ at' = "persist"
  BY <1>1, DeleteTypes, CreateTypes DEF OpenWritableFile
<1>7. Valid'
  <2>1. files[n] # None => files[n] \in Id /\ nextId' = nextId
    BY <1>1 DEF NameMap, OpenWritableFile, DeleteFileNoLock
  <2> QED BY <1>1, <1>5, <1>6, <2>1 DEF Valid
<1> QED BY <1>5, <1>6, <1>7, CallsTypes DEF TypeInv, Types, CallTypes, Ats, OpenWritableFile

(* ReopenWritableFile keeps the types.                                      *)
LEMMA ReopenWritableFileTypes ==
  ASSUME TypeInv, NEW t \in Threads, NEW n \in Names, ReopenWritableFile(t, n)
  PROVE  TypeInv'
<1>1. MemoryTypes /\ files \in NameMap /\ files[n] \in Id
  BY DEF TypeInv, Types, MemoryTypes, NameMap, ReopenWritableFile
<1>2. op' \in OpType /\ op'.kind = "reopen" /\ op'.id = files[n] /\ ~op'.deleting
  BY <1>1, RequestTypes DEF Kinds, ReopenWritableFile
<1>3. MemoryTypes' /\ rec' = rec /\ at' = "wrlock"
  BY <1>1 DEF ReopenWritableFile, memoryVars, MemoryTypes
<1>4. Valid'
  BY <1>1, <1>2, <1>3 DEF Valid
<1> QED BY <1>2, <1>3, <1>4, CallsTypes DEF TypeInv, Types, CallTypes, Ats, ReopenWritableFile

(* RenameFile keeps the types.                                              *)
LEMMA RenameFileTypes ==
  ASSUME TypeInv, NEW t \in Threads, NEW s \in Names, NEW d \in Names, RenameFile(t, s, d)
  PROVE  TypeInv'
<1>1. MemoryTypes /\ files \in NameMap /\ files[s] \in Id /\ Files(file)
  BY DEF TypeInv, Types, MemoryTypes, NameMap, RenameFile
<1>2. PICK r \in OpType : /\ r = Request("rename", t, files[s]) /\ r.kind = "rename"
                          /\ r.id = files[s]
  BY <1>1, RequestTypes DEF Kinds
<1>3. PICK p \in NameMap :
        p = IF s = d THEN Erase(files, {s}) ELSE [files EXCEPT ![s] = None, ![d] = files[s]]
  BY <1>1, NameMapParts
<1>4. PICK o \in OpType :
        /\ o = Overwriting(r, d, p) /\ o.kind = "rename" /\ o.name = d /\ o.victim = files[d]
        /\ o.id = files[s] /\ (o.deleting <=> files[d] # None)
  <2>1. PICK o : o = Overwriting(r, d, p)
    OBVIOUS
  <2>2. Overwrites(o, r, d, p)
    BY <1>1, <1>2, <2>1, OverwritingTypes
  <2> QED BY <1>2, <2>1, <2>2 DEF Overwrites
<1>5. op' = [o EXCEPT !.src = s]
  BY <1>2, <1>3, <1>4 DEF RenameFile
<1>6. /\ op' \in OpType /\ op'.kind = "rename" /\ op'.name = d /\ op'.victim = files[d]
      /\ op'.id = files[s] /\ op'.src = s /\ (op'.deleting <=> files[d] # None)
  BY <1>4, <1>5 DEF OpType
<1>7. MemoryTypes' /\ rec' \in Record /\ at' = "persist"
  BY <1>1, DeleteTypes, MoveTypes DEF RenameFile
<1>8. Valid'
  <2>1. files[d] # None => files[d] \in Id
    BY <1>1 DEF NameMap
  <2> QED BY <1>1, <1>6, <1>7, <2>1 DEF Valid
<1> QED BY <1>6, <1>7, <1>8, CallsTypes DEF TypeInv, Types, CallTypes, Ats, RenameFile

(* LinkFile keeps the types.                                                *)
LEMMA LinkFileTypes ==
  ASSUME TypeInv, NEW t \in Threads, NEW s \in Names, NEW l \in Names, LinkFile(t, s, l)
  PROVE  TypeInv'
<1>1. /\ MemoryTypes /\ files \in NameMap /\ files[s] \in Id /\ Files(file) /\ files[l] = None
  BY DEF TypeInv, Types, MemoryTypes, NameMap, LinkFile
<1>2. PICK r \in OpType : /\ r = Request("link", t, files[s]) /\ r.kind = "link"
                          /\ r.id = files[s]
  BY <1>1, RequestTypes DEF Kinds
<1>3. PICK p \in NameMap : p = [files EXCEPT ![l] = files[s]]
  BY <1>1, NameMapParts
<1>4. op' = Overwriting(r, l, p)
  BY <1>2, <1>3 DEF LinkFile
<1>5. /\ op' \in OpType /\ op'.kind = "link" /\ op'.name = l /\ op'.id = files[s]
      /\ ~op'.deleting
  <2>1. Overwrites(op', r, l, p)
    BY <1>1, <1>2, <1>4, OverwritingTypes
  <2> QED BY <1>1, <1>2, <2>1 DEF Overwrites
<1>6. Files(file') /\ files' \in NameMap
  BY <1>1, <1>3, LinkTypes DEF LinkFile
<1>7. rec' \in Record
  <2>1. rec' = UpdateRecord(file', files[s])
    BY DEF LinkFile, Persist
  <2>2. file' \in [Id -> FileType]
    BY <1>6 DEF Files
  <2> QED BY <1>1, <2>1, <2>2, RecordTypes
<1>8. MemoryTypes' /\ at' = "persist"
  BY <1>1, <1>6 DEF MemoryTypes, LinkFile, Persist
<1>9. Valid'
  BY <1>1, <1>5, <1>8 DEF Valid
<1> QED BY <1>5, <1>7, <1>8, <1>9, CallsTypes DEF TypeInv, Types, CallTypes, Ats, LinkFile

(* SyncFileMetadata keeps the types.                                        *)
LEMMA SyncFileMetadataTypes ==
  ASSUME TypeInv, NEW t \in Threads, NEW i \in Id, NEW what \in {"sync", "close"},
         NEW active \in BOOLEAN, SyncFileMetadata(t, i, what, active)
  PROVE  TypeInv'
<1>1. MemoryTypes /\ files \in NameMap /\ Files(file)
  BY DEF TypeInv, Types, MemoryTypes
<1>2. PICK r \in OpType : /\ r = Request(what, t, i) /\ r.kind = what
                          /\ r.id = i /\ ~r.deleting
  BY <1>1, RequestTypes DEF Kinds
<1>3. PICK k \in Nat : k = Len(file[i].exts)
  BY <1>1, LenProperties DEF Files, FileType
<1>4. op' \in OpType /\ op'.kind = what /\ op'.id = i /\ ~op'.deleting
  BY <1>2, <1>3 DEF SyncFileMetadata, OpType
<1>5. Files(file')
  BY <1>1, FileParts DEF SyncFileMetadata
<1>6. rec' \in Record
  <2>1. rec' = UpdateRecord(file', i)
    BY DEF SyncFileMetadata, Persist
  <2>2. file' \in [Id -> FileType]
    BY <1>5 DEF Files
  <2> QED BY <2>1, <2>2, RecordTypes
<1>7. MemoryTypes' /\ at' = "persist"
  BY <1>1, <1>5 DEF MemoryTypes, SyncFileMetadata, Persist
<1>8. Valid'
  BY <1>4, <1>7 DEF Valid
<1> QED BY <1>4, <1>6, <1>7, <1>8, CallsTypes DEF TypeInv, Types, CallTypes, Ats,
        SyncFileMetadata

(* CloseWR keeps the types.                                                 *)
LEMMA CloseWRTypes ==
  ASSUME TypeInv, NEW t \in Threads, NEW i \in Id, CloseWR(t, i)
  PROVE  TypeInv'
<1>1. CASE SyncFileMetadata(t, i, "close", FALSE)
  BY <1>1, SyncFileMetadataTypes
<1>2. CASE ~SyncFileMetadata(t, i, "close", FALSE)
  <2>1. /\ Calls(t, "close") /\ file' = [file EXCEPT ![i].wr = NoThread]
        /\ UNCHANGED <<files, nextId, at, op, rec>>
    BY <1>2 DEF CloseWR
  <2>2. MemoryTypes /\ Files(file)
    BY DEF TypeInv, Types, MemoryTypes
  <2>3. MemoryTypes'
    BY <2>1, <2>2, FileParts DEF MemoryTypes
  <2>4. CallTypes' /\ Valid' /\ at' = at
    BY <2>1 DEF TypeInv, Types, CallTypes, Valid
  <2> QED BY <2>1, <2>3, <2>4, CallsTypes DEF TypeInv, Types
<1> QED BY <1>1, <1>2

(* The steps of a thread that do not touch files_mtx_.                      *)
LEMMA UnlockedTypes ==
  ASSUME TypeInv, Files(file'),
         UNCHANGED <<deviceVars, metaLog, oldLog, seq, files, nextId, at, op, rec, acked,
                     crashes>>,
         calls' \in 0..MaxCalls
  PROVE  TypeInv'
<1>1. Types'
  BY DEF TypeInv, Types, DeviceTypes, ZoneTypes, MemoryTypes, CallTypes, CountTypes, deviceVars
<1>2. Where' /\ Valid'
  BY DEF TypeInv, Where, Valid, Up, deviceVars
<1> QED BY <1>1, <1>2 DEF TypeInv

(* PushExtent keeps the types.                                              *)
LEMMA PushExtentTypes ==
  ASSUME TypeInv, NEW t \in Threads, NEW i \in Id, PushExtent(t, i)
  PROVE  TypeInv'
<1>1. Files(file) /\ file \in [Id -> FileType] /\ file[i] \in FileType
      /\ file[i].synced <= Len(file[i].exts) /\ file[i].synced \in Nat
  BY DEF TypeInv, Types, MemoryTypes, Files, FileType
<1>2. PICK e \in Seq(Nat) : e = file[i].exts
  BY <1>1 DEF FileType
<1>3. PICK k \in Nat : k = Len(e) + 1
  BY <1>2, LenProperties
<1>4. PICK x \in Seq(Nat) : x = Append(e, k)
  BY <1>2, <1>3, AppendProperties
<1>5. Len(x) = Len(e) + 1 /\ Len(e) \in Nat
  BY <1>2, <1>3, <1>4, AppendProperties, LenProperties
<1>6. PICK g \in FileType : g = [file[i] EXCEPT !.exts = x] /\ g.synced = file[i].synced
                            /\ g.exts = x
  <2>1. PICK g : g = [file[i] EXCEPT !.exts = x]
    OBVIOUS
  <2>2. g \in FileType /\ g.synced = file[i].synced /\ g.exts = x
    BY <1>1, <2>1 DEF FileType
  <2> QED BY <2>1, <2>2
<1>7. file' = [file EXCEPT ![i] = g]
  BY <1>1, <1>2, <1>3, <1>4, <1>6 DEF PushExtent
<1>8. Files(file')
  <2>1. g.synced <= Len(g.exts)
    BY <1>1, <1>2, <1>5, <1>6
  <2> QED BY <1>1, <1>7, <2>1, FilesReplace
<1>9. calls' \in 0..MaxCalls
  BY DEF TypeInv, Types, CountTypes, PushExtent
<1> QED BY <1>8, <1>9, UnlockedTypes DEF PushExtent

(* ReplaceExtentList keeps the types.                                       *)
LEMMA ReplaceExtentListTypes ==
  ASSUME TypeInv, NEW t \in Threads, NEW i \in Id, ReplaceExtentList(t, i)
  PROVE  TypeInv'
<1>1. Files(file) /\ calls \in 0..MaxCalls
  BY DEF TypeInv, Types, MemoryTypes, CountTypes
<1>2. Files(file')
  BY <1>1, FileParts DEF ReplaceExtentList
<1>3. calls' \in 0..MaxCalls
  BY <1>1, MetaAssumption DEF ReplaceExtentList
<1> QED BY <1>2, <1>3, UnlockedTypes DEF ReplaceExtentList

(* SyncFileExtents keeps the types.                                         *)
LEMMA SyncFileExtentsTypes ==
  ASSUME TypeInv, NEW t \in Threads, NEW i \in Id, SyncFileExtents(t, i)
  PROVE  TypeInv'
<1>1. /\ MemoryTypes /\ Files(file) /\ files \in NameMap /\ calls \in 0..MaxCalls
      /\ file \in [Id -> FileType]
  BY DEF TypeInv, Types, MemoryTypes, CountTypes, Files
<1>2. CASE file[i].deleted
  <2>1. Files(file')
    <3>1. file' = [file EXCEPT ![i].wr = NoThread, ![i].moved = FALSE]
      BY <1>2 DEF SyncFileExtents
    <3> QED BY <1>1, <3>1, FileParts
  <2> QED BY <1>1, <1>2, <2>1, UnlockedTypes DEF SyncFileExtents
<1>3. CASE ~file[i].deleted
  <2>1. /\ op' = Request("replace", t, i) /\ rec' = ReplaceRecord(file, i) /\ at' = "persist"
        /\ UNCHANGED <<deviceVars, metaLog, oldLog, seq, files, file, nextId, acked, calls,
                       crashes>>
    BY <1>3 DEF SyncFileExtents, Persist
  <2>2. op' \in OpType /\ op'.kind = "replace" /\ op'.id = i /\ ~op'.deleting
    BY <1>1, <2>1, RequestTypes DEF Kinds
  <2>3. rec' \in Record
    BY <1>1, <2>1, RecordTypes
  <2>4. Types'
    BY <2>1, <2>2, <2>3 DEF TypeInv, Types, DeviceTypes, ZoneTypes, MemoryTypes, CallTypes,
       CountTypes, deviceVars, Ats
  <2>5. Where' /\ Valid'
    <3>1. Valid'
      BY <2>1, <2>2 DEF Valid
    <3>2. metaLog \in MetaZone
      BY DEF TypeInv, Where, Up, SyncFileExtents
    <3> QED BY <2>1, <3>1, <3>2 DEF Where, Rolling
  <2> QED BY <2>4, <2>5 DEF TypeInv
<1> QED BY <1>2, <1>3

(* Unmount keeps the types.                                                 *)
LEMMA UnmountTypes ==
  ASSUME TypeInv, NEW t \in Threads, Unmount(t)
  PROVE  TypeInv'
<1>1. MemoryTypes /\ files \in NameMap
  BY DEF TypeInv, Types, MemoryTypes
<1>2. op' \in OpType /\ op'.kind = "unmount" /\ ~op'.deleting
  BY <1>1, RequestTypes DEF Unmount, Kinds
<1>3. rec' \in Record /\ at' = "persist"
  BY OtherRecordTypes DEF Unmount, Persist
<1>4. MemoryTypes'
  BY <1>1 DEF MemoryTypes, Unmount, memoryVars
<1>5. Valid'
  BY <1>2, <1>3 DEF Valid
<1> QED BY <1>2, <1>3, <1>4, <1>5, CallsTypes DEF TypeInv, Types, CallTypes, Ats, Unmount

(* A call of a thread, or a step of it that takes no lock.                  *)
LEMMA CallTypesKept ==
  ASSUME TypeInv, NEW t \in Threads, Call(t)
  PROVE  TypeInv'
<1>1. CASE \E n \in Names : DeleteFile(t, n) \/ OpenWritableFile(t, n) \/ ReopenWritableFile(t, n)
  BY <1>1, DeleteFileTypes, OpenWritableFileTypes, ReopenWritableFileTypes
<1>2. CASE \E s, d \in Names : RenameFile(t, s, d) \/ LinkFile(t, s, d)
  BY <1>2, RenameFileTypes, LinkFileTypes
<1>3. ASSUME NEW i \in Id,
             AllocateNewZone(t, i) \/ PushExtent(t, i) \/ Fsync(t, i) \/ CloseWR(t, i)
             \/ ReplaceExtentList(t, i) \/ SyncFileExtents(t, i)
      PROVE  TypeInv'
  <2>1. file[i].active \in BOOLEAN
    BY DEF TypeInv, Types, MemoryTypes, Files, FileType
  <2>2. CASE AllocateNewZone(t, i)
    BY <2>2, SyncFileMetadataTypes DEF AllocateNewZone
  <2>3. CASE Fsync(t, i)
    BY <2>1, <2>3, SyncFileMetadataTypes DEF Fsync
  <2> QED BY <1>3, <2>2, <2>3, PushExtentTypes, CloseWRTypes, ReplaceExtentListTypes,
          SyncFileExtentsTypes
<1> QED BY <1>1, <1>2, <1>3, UnmountTypes DEF Call

(* A record added to a zone that has room for it, and a zone emptied.       *)
LEMMA AddRecordTypes ==
  ASSUME DeviceTypes, NEW z \in MetaZone, NEW r \in Record, Len(log[z]) < MetaCap,
         AddRecord(z, r)
  PROVE  /\ log' \in [MetaZone -> Seq(Record)] /\ \A y \in MetaZone : Len(log'[y]) <= MetaCap
         /\ log'[z] = Append(log[z], r) /\ Len(log'[z]) = Len(log[z]) + 1
         /\ \A y \in MetaZone \ {z} : log'[y] = log[y]
<1>1. log \in [MetaZone -> Seq(Record)]
  BY DEF DeviceTypes
<1>2. PICK s \in Seq(Record) : s = log[z]
  BY <1>1
<1>3. PICK a \in Seq(Record) : a = Append(s, r)
  BY AppendProperties
<1>4. Len(a) = Len(s) + 1 /\ Len(s) \in Nat
  BY <1>3, AppendProperties, LenProperties
<1>5. log' = [log EXCEPT ![z] = a]
  BY <1>2, <1>3 DEF AddRecord
<1>6. log' \in [MetaZone -> Seq(Record)] /\ log'[z] = a
      /\ \A y \in MetaZone \ {z} : log'[y] = log[y]
  BY <1>1, <1>5
<1>7. \A y \in MetaZone : Len(log'[y]) <= MetaCap
  BY <1>2, <1>4, <1>6, MetaAssumption DEF DeviceTypes
<1> QED BY <1>2, <1>3, <1>4, <1>6, <1>7

(* A zone is reset.                                                         *)
LEMMA EmptiedTypes ==
  ASSUME DeviceTypes, NEW z \in MetaZone, Emptied(z)
  PROVE  DeviceTypes' /\ log'[z] = <<>> /\ \A y \in MetaZone \ {z} : log'[y] = log[y]
<1>1. PICK s \in Seq(Record) : s = <<>> /\ Len(s) = 0
  BY EmptySeq
<1>2. log' = [log EXCEPT ![z] = s] /\ finished' = finished \ {z}
  BY <1>1 DEF Emptied
<1>3. log \in [MetaZone -> Seq(Record)]
  BY DEF DeviceTypes
<1>4. log' \in [MetaZone -> Seq(Record)] /\ log'[z] = s
      /\ \A y \in MetaZone \ {z} : log'[y] = log[y]
  BY <1>2, <1>3
<1>5. ASSUME NEW y \in MetaZone PROVE Len(log'[y]) <= MetaCap
  <2>1. CASE y = z
    BY <1>1, <1>4, <2>1, MetaAssumption
  <2>2. CASE y # z
    BY <1>4, <2>2 DEF DeviceTypes
  <2> QED BY <2>1, <2>2
<1> QED BY <1>1, <1>2, <1>4, <1>5 DEF DeviceTypes

(* What a device step leaves alone.                                         *)
LEMMA DeviceStepTypes ==
  ASSUME TypeInv, UNCHANGED <<memoryVars, op, otherVars>>,
         at' \in Ats, at' # "wrlock", rec' \in Record
  PROVE  MemoryTypes' /\ CallTypes' /\ CountTypes' /\ Valid'
BY DEF TypeInv, Types, MemoryTypes, CallTypes, CountTypes, Valid, memoryVars, otherVars

(* PersistRecord keeps the types.                                           *)
LEMMA PersistRecordTypes ==
  ASSUME TypeInv, PersistRecord
  PROVE  TypeInv'
<1>1. /\ at = "persist" /\ at' \in {"done", "allocate", "error"}
      /\ UNCHANGED <<finished, metaLog, oldLog, seq, memoryVars, op, rec, otherVars>>
      /\ log' = log \/ (AddRecord(metaLog, rec) /\ Room(metaLog) > 0)
  BY DEF PersistRecord
<1>2. DeviceTypes /\ ZoneTypes /\ rec \in Record /\ metaLog \in MetaZone
  BY <1>1 DEF TypeInv, Types, CallTypes, Where, Up
<1>3. DeviceTypes'
  <2>1. CASE log' = log
    BY <1>1, <1>2, <2>1 DEF DeviceTypes
  <2>2. CASE AddRecord(metaLog, rec) /\ Room(metaLog) > 0
    <3>1. Len(log[metaLog]) < MetaCap
      <4>1. Len(log[metaLog]) \in Nat
        BY <1>2, LenProperties DEF DeviceTypes
      <4> QED BY <2>2, <4>1, MetaAssumption DEF Room
    <3> QED BY <1>1, <1>2, <2>2, <3>1, AddRecordTypes DEF DeviceTypes
  <2> QED BY <1>1, <2>1, <2>2
<1>4. ZoneTypes'
  BY <1>1, <1>2 DEF ZoneTypes
<1>5. Where'
  BY <1>1, <1>2 DEF Where, Rolling
<1>6. MemoryTypes' /\ CallTypes' /\ CountTypes' /\ Valid'
  <2>1. at' \in Ats /\ at' # "wrlock" /\ rec' \in Record
    BY <1>1, <1>2 DEF Ats
  <2> QED BY <1>1, <2>1, DeviceStepTypes
<1> QED BY <1>3, <1>4, <1>5, <1>6 DEF TypeInv, Types

(* AllocateMetaZone keeps the types.                                        *)
LEMMA AllocateMetaZoneTypes ==
  ASSUME TypeInv, AllocateMetaZone
  PROVE  TypeInv'
<1>1. /\ at = "allocate" /\ at' \in {"end", "error"}
      /\ UNCHANGED <<seq, memoryVars, op, rec, otherVars>>
  BY DEF AllocateMetaZone
<1>2. DeviceTypes /\ ZoneTypes /\ rec \in Record /\ metaLog \in MetaZone
  BY <1>1 DEF TypeInv, Types, CallTypes, Where, Up
<1>3. MemoryTypes' /\ CallTypes' /\ CountTypes' /\ Valid'
  <2>1. at' \in Ats /\ at' # "wrlock" /\ rec' \in Record
    BY <1>1, <1>2 DEF Ats
  <2> QED BY <1>1, <2>1, DeviceStepTypes
<1>4. CASE at' = "error"
  <2>1. UNCHANGED <<deviceVars, metaLog, oldLog>>
    BY <1>4 DEF AllocateMetaZone
  <2>2. DeviceTypes' /\ ZoneTypes' /\ Where'
    BY <1>1, <1>2, <1>4, <2>1 DEF DeviceTypes, ZoneTypes, Where, deviceVars, Rolling
  <2> QED BY <1>3, <2>2 DEF TypeInv, Types
<1>5. CASE at' = "end"
  <2>1. PICK z \in Allocatable : Emptied(z) /\ metaLog' = z /\ oldLog' = metaLog
    BY <1>5 DEF AllocateMetaZone
  <2>2. z \in MetaZone /\ z # metaLog
    BY <2>1 DEF Allocatable
  <2>3. DeviceTypes' /\ log'[z] = <<>>
    BY <1>2, <2>1, <2>2, EmptiedTypes
  <2>4. ZoneTypes' /\ Where'
    BY <1>1, <1>2, <1>5, <2>1, <2>2, <2>3 DEF ZoneTypes, Where, Rolling
  <2> QED BY <1>3, <2>3, <2>4 DEF TypeInv, Types
<1> QED BY <1>1, <1>4, <1>5

(* WriteEndRecord keeps the types.                                          *)
LEMMA WriteEndRecordTypes ==
  ASSUME TypeInv, WriteEndRecord
  PROVE  TypeInv'
<1>1. /\ at = "end" /\ at' = "finish"
      /\ UNCHANGED <<finished, metaLog, oldLog, seq, memoryVars, op, rec, otherVars>>
      /\ log' = log \/ (AddRecord(oldLog, EndRecord) /\ Room(oldLog) > 0)
  BY DEF WriteEndRecord
<1>2. /\ DeviceTypes /\ ZoneTypes /\ rec \in Record /\ metaLog \in MetaZone
      /\ oldLog \in MetaZone /\ oldLog # metaLog /\ log[metaLog] = <<>>
  BY <1>1 DEF TypeInv, Types, CallTypes, Where, Up, Rolling
<1>3. DeviceTypes' /\ log'[metaLog] = <<>>
  <2>1. CASE log' = log
    BY <1>1, <1>2, <2>1 DEF DeviceTypes
  <2>2. CASE AddRecord(oldLog, EndRecord) /\ Room(oldLog) > 0
    <3>1. Len(log[oldLog]) < MetaCap
      <4>1. Len(log[oldLog]) \in Nat
        BY <1>2, LenProperties DEF DeviceTypes
      <4> QED BY <2>2, <4>1, MetaAssumption DEF Room
    <3>2. EndRecord \in Record
      BY OtherRecordTypes
    <3> QED BY <1>1, <1>2, <2>2, <3>1, <3>2, AddRecordTypes DEF DeviceTypes
  <2> QED BY <1>1, <2>1, <2>2
<1>4. ZoneTypes' /\ Where'
  BY <1>1, <1>2, <1>3 DEF ZoneTypes, Where, Rolling
<1>5. MemoryTypes' /\ CallTypes' /\ CountTypes' /\ Valid'
  <2>1. at' \in Ats /\ at' # "wrlock" /\ rec' \in Record
    BY <1>1, <1>2 DEF Ats
  <2> QED BY <1>1, <2>1, DeviceStepTypes
<1> QED BY <1>3, <1>4, <1>5 DEF TypeInv, Types

(* FinishOldZone keeps the types.                                           *)
LEMMA FinishOldZoneTypes ==
  ASSUME TypeInv, FinishOldZone
  PROVE  TypeInv'
<1>1. /\ at = "finish" /\ at' = "superblock"
      /\ UNCHANGED <<log, metaLog, oldLog, seq, memoryVars, op, rec, otherVars>>
      /\ finished' \subseteq finished \cup {oldLog}
  BY DEF FinishOldZone
<1>2. /\ DeviceTypes /\ ZoneTypes /\ rec \in Record /\ metaLog \in MetaZone
      /\ oldLog \in MetaZone /\ oldLog # metaLog /\ log[metaLog] = <<>>
  BY <1>1 DEF TypeInv, Types, CallTypes, Where, Up, Rolling
<1>3. DeviceTypes' /\ ZoneTypes' /\ Where'
  BY <1>1, <1>2 DEF DeviceTypes, ZoneTypes, Where, Rolling
<1>4. MemoryTypes' /\ CallTypes' /\ CountTypes' /\ Valid'
  <2>1. at' \in Ats /\ at' # "wrlock" /\ rec' \in Record
    BY <1>1, <1>2 DEF Ats
  <2> QED BY <1>1, <2>1, DeviceStepTypes
<1> QED BY <1>3, <1>4 DEF TypeInv, Types

(* WriteSuperblock keeps the types.                                         *)
LEMMA WriteSuperblockTypes ==
  ASSUME TypeInv, WriteSuperblock
  PROVE  TypeInv'
<1>1. /\ at = "superblock" /\ seq' = seq + 1
      /\ UNCHANGED <<finished, metaLog, oldLog, memoryVars, op, rec, otherVars>>
      /\ \/ AddRecord(metaLog, SuperblockRecord(seq')) /\ at' = "encode"
         \/ log' = log /\ at' = "error"
  BY DEF WriteSuperblock, NextSeq
<1>2. /\ DeviceTypes /\ ZoneTypes /\ rec \in Record /\ metaLog \in MetaZone
      /\ oldLog \in MetaZone /\ oldLog # metaLog /\ log[metaLog] = <<>>
  BY <1>1 DEF TypeInv, Types, CallTypes, Where, Up, Rolling
<1>3. seq' \in Nat
  BY <1>1, <1>2 DEF ZoneTypes
<1>4. DeviceTypes' /\ (at' = "encode" => Len(log'[metaLog]) = 1)
  <2>1. CASE log' = log /\ at' = "error"
    BY <1>1, <1>2, <2>1 DEF DeviceTypes
  <2>2. CASE AddRecord(metaLog, SuperblockRecord(seq')) /\ at' = "encode"
    <3>1. PICK r \in Record : r = SuperblockRecord(seq')
      BY <1>3, OtherRecordTypes
    <3>2. Len(log[metaLog]) = 0
      BY <1>2
    <3>3. AddRecord(metaLog, r)
      BY <2>2, <3>1
    <3>4. /\ log' \in [MetaZone -> Seq(Record)] /\ \A y \in MetaZone : Len(log'[y]) <= MetaCap
          /\ Len(log'[metaLog]) = Len(log[metaLog]) + 1
      <4>1. Len(log[metaLog]) < MetaCap
        BY <3>2, MetaAssumption
      <4> QED BY <1>2, <3>3, <4>1, AddRecordTypes
    <3> QED BY <1>1, <1>2, <3>2, <3>4 DEF DeviceTypes
  <2> QED BY <1>1, <2>1, <2>2
<1>5. ZoneTypes' /\ Where'
  BY <1>1, <1>2, <1>3, <1>4 DEF ZoneTypes, Where, Rolling
<1>6. MemoryTypes' /\ CallTypes' /\ CountTypes' /\ Valid'
  <2>1. at' \in Ats /\ at' # "wrlock" /\ rec' \in Record
    BY <1>1, <1>2 DEF Ats
  <2> QED BY <1>1, <2>1, DeviceStepTypes
<1> QED BY <1>4, <1>5, <1>6 DEF TypeInv, Types

(* EncodeSnapshot keeps the types.                                          *)
LEMMA EncodeSnapshotTypes ==
  ASSUME TypeInv, EncodeSnapshot
  PROVE  TypeInv'
<1>1. /\ at = "encode" /\ at' = "snapshot"
      /\ rec' = SnapshotRecord(EncodeSnapshotTo(files, file))
      /\ UNCHANGED <<deviceVars, metaLog, oldLog, seq, memoryVars, op, otherVars>>
  BY DEF EncodeSnapshot
<1>2. DeviceTypes' /\ ZoneTypes' /\ Where'
  BY <1>1 DEF TypeInv, Types, DeviceTypes, ZoneTypes, Where, Rolling, Up, deviceVars
<1>3. rec' \in Record
  BY <1>1, SnapshotRecordTypes DEF TypeInv, Types, MemoryTypes, Files
<1>4. MemoryTypes' /\ CallTypes' /\ CountTypes' /\ Valid'
  <2>1. at' \in Ats /\ at' # "wrlock"
    BY <1>1 DEF Ats
  <2> QED BY <1>1, <1>3, <2>1, DeviceStepTypes
<1> QED BY <1>2, <1>4 DEF TypeInv, Types

(* WriteSnapshot keeps the types.                                           *)
LEMMA WriteSnapshotTypes ==
  ASSUME TypeInv, WriteSnapshot
  PROVE  TypeInv'
<1>1. /\ at = "snapshot"
      /\ UNCHANGED <<finished, metaLog, oldLog, seq, memoryVars, op, rec, otherVars>>
      /\ \/ AddRecord(metaLog, rec) /\ at' = "synced"
         \/ log' = log /\ at' = "error"
  BY DEF WriteSnapshot
<1>2. /\ DeviceTypes /\ ZoneTypes /\ rec \in Record /\ metaLog \in MetaZone
      /\ oldLog \in MetaZone /\ oldLog # metaLog /\ Len(log[metaLog]) = 1
  BY <1>1 DEF TypeInv, Types, CallTypes, Where, Up, Rolling
<1>3. DeviceTypes'
  <2>1. CASE log' = log
    BY <1>1, <1>2, <2>1 DEF DeviceTypes
  <2>2. CASE AddRecord(metaLog, rec)
    <3>1. Len(log[metaLog]) < MetaCap
      BY <1>2, MetaAssumption
    <3> QED BY <1>1, <1>2, <2>2, <3>1, AddRecordTypes DEF DeviceTypes
  <2> QED BY <1>1, <2>1, <2>2
<1>4. ZoneTypes' /\ Where'
  BY <1>1, <1>2 DEF ZoneTypes, Where, Rolling
<1>5. MemoryTypes' /\ CallTypes' /\ CountTypes' /\ Valid'
  <2>1. at' \in Ats /\ at' # "wrlock" /\ rec' \in Record
    BY <1>1, <1>2 DEF Ats
  <2> QED BY <1>1, <2>1, DeviceStepTypes
<1> QED BY <1>3, <1>4, <1>5 DEF TypeInv, Types

(* SnapshotSynced keeps the types.                                          *)
LEMMA SnapshotSyncedTypes ==
  ASSUME TypeInv, SnapshotSynced
  PROVE  TypeInv'
<1>1. /\ at = "synced" /\ at' = "reset" /\ file' = MetadataSynced(file, Range(files))
      /\ UNCHANGED <<log, finished, metaLog, oldLog, seq, files, nextId, op, rec, acked, calls,
                     crashes>>
  BY DEF SnapshotSynced, deviceVars, otherVars
<1>2. Files(file')
  <2>1. CASE Id = {}
    BY <1>1, <2>1 DEF Files, MetadataSynced
  <2>2. CASE Id # {}
    <3>1. PICK i : i \in Id
      BY <2>2
    <3> QED BY <1>1, <3>1, MarkTypes DEF TypeInv, Types, MemoryTypes
  <2> QED BY <2>1, <2>2
<1>3. Types'
  BY <1>1, <1>2 DEF TypeInv, Types, DeviceTypes, ZoneTypes, MemoryTypes, CallTypes, CountTypes,
     Ats
<1>4. Where' /\ Valid'
  BY <1>1 DEF TypeInv, Where, Valid, Rolling, Up
<1> QED BY <1>3, <1>4 DEF TypeInv

(* ResetOldZone keeps the types.                                            *)
LEMMA ResetOldZoneTypes ==
  ASSUME TypeInv, ResetOldZone
  PROVE  TypeInv'
<1>1. /\ at = "reset" /\ at' = "done" /\ oldLog' = None
      /\ UNCHANGED <<metaLog, seq, memoryVars, op, rec, otherVars>>
      /\ Emptied(oldLog) \/ UNCHANGED deviceVars
  BY DEF ResetOldZone
<1>2. /\ DeviceTypes /\ ZoneTypes /\ rec \in Record /\ metaLog \in MetaZone
      /\ oldLog \in MetaZone /\ oldLog # metaLog
  BY <1>1 DEF TypeInv, Types, CallTypes, Where, Up, Rolling
<1>3. DeviceTypes'
  <2>1. CASE UNCHANGED deviceVars
    BY <1>1, <1>2, <2>1 DEF DeviceTypes, deviceVars
  <2>2. CASE Emptied(oldLog)
    BY <1>2, <2>2, EmptiedTypes
  <2> QED BY <1>1, <2>1, <2>2
<1>4. ZoneTypes' /\ Where'
  BY <1>1, <1>2 DEF ZoneTypes, Where, Rolling
<1>5. MemoryTypes' /\ CallTypes' /\ CountTypes' /\ Valid'
  <2>1. at' \in Ats /\ at' # "wrlock" /\ rec' \in Record
    BY <1>1, <1>2 DEF Ats
  <2> QED BY <1>1, <2>1, DeviceStepTypes
<1> QED BY <1>3, <1>4, <1>5 DEF TypeInv, Types

(* What a call leaves behind when it returns.                               *)
LEMMA ReturnTypes ==
  ASSUME TypeInv, Up, Return, MemoryTypes', acked' \in [Id -> Nat],
         UNCHANGED <<deviceVars, metaLog, seq, calls, crashes>>,
         oldLog' \in {oldLog, None}
  PROVE  TypeInv'
<1>1. at' = "idle" /\ op' = NoOp /\ rec' = EndRecord
  BY DEF Return
<1>2. op' \in OpType /\ op'.kind = "none" /\ ~op'.deleting /\ rec' \in Record
  BY <1>1, NoOpTypes, OtherRecordTypes
<1>3. Types'
  BY <1>1, <1>2 DEF TypeInv, Types, DeviceTypes, ZoneTypes, CallTypes, CountTypes, deviceVars,
     Ats
<1>4. Where'
  BY <1>1 DEF TypeInv, Where, Rolling, Up
<1>5. Valid'
  BY <1>1, <1>2 DEF Valid
<1> QED BY <1>3, <1>4, <1>5 DEF TypeInv

(* AcquireWRLock keeps the types.                                           *)
LEMMA AcquireWRLockTypes ==
  ASSUME TypeInv, AcquireWRLock
  PROVE  TypeInv'
<1>1. op.id \in Id /\ op.who \in Threads \cup {NoThread} /\ MemoryTypes /\ Up
  BY DEF TypeInv, Types, CallTypes, Valid, OpType, AcquireWRLock, Up
<1>2. MemoryTypes'
  BY <1>1, FileParts DEF MemoryTypes, AcquireWRLock
<1>3. acked' \in [Id -> Nat]
  BY DEF TypeInv, Types, CountTypes, AcquireWRLock, otherVars
<1> QED BY <1>1, <1>2, <1>3, ReturnTypes DEF AcquireWRLock, otherVars

(* Deleted keeps the types.                                                 *)
LEMMA DeletedTypes ==
  ASSUME TypeInv, Deleted
  PROVE  TypeInv'
<1> DEFINE f == SetDeleted(file, op.victim)
<1>1. /\ at = "done" /\ op.deleting /\ op.victim \in Id /\ op.name \in Names
      /\ MemoryTypes /\ Files(file) /\ op \in OpType
      /\ UNCHANGED <<deviceVars, metaLog, oldLog, seq, calls, crashes>>
  BY DEF TypeInv, Types, MemoryTypes, CallTypes, Valid, Deleted
<1>2. Files(f)
  BY <1>1, MarkTypes
<1>3. acked' \in [Id -> Nat]
  <2>1. acked \in [Id -> Nat]
    BY DEF TypeInv, Types, CountTypes
  <2>2. acked' = acked \/ acked' = [acked EXCEPT ![op.victim] = 0]
    BY DEF Deleted
  <2> QED BY <1>1, <2>1, <2>2
<1>4. \/ /\ op.kind = "create"
         /\ CreateFile(f, op.name)
         /\ op' = [op EXCEPT !.deleting = FALSE]
      \/ /\ op.kind = "rename"
         /\ MoveFile(f, op.id, op.src, op.name)
         /\ op' = [op EXCEPT !.deleting = FALSE]
      \/ /\ file' = f /\ Return
         /\ UNCHANGED <<files, nextId>>
  BY DEF Deleted
<1> HIDE DEF f
<1>5. CASE file' = f /\ Return /\ UNCHANGED <<files, nextId>>
  <2>1. MemoryTypes' /\ Up
    BY <1>1, <1>2, <1>5 DEF MemoryTypes, Up
  <2> QED BY <1>1, <1>3, <1>5, <2>1, ReturnTypes
<1>6. ASSUME op' = [op EXCEPT !.deleting = FALSE], at' = "persist", rec' \in Record, MemoryTypes'
      PROVE  TypeInv'
  <2>1. /\ op' \in OpType /\ ~op'.deleting /\ op'.kind = op.kind /\ op'.id = op.id
        /\ op'.name = op.name /\ op'.src = op.src
    BY <1>1, <1>6 DEF OpType
  <2>2. Types'
    BY <1>1, <1>3, <1>6, <2>1 DEF TypeInv, Types, DeviceTypes, ZoneTypes, CallTypes, CountTypes,
       deviceVars, Ats
  <2>3. Where'
    BY <1>1, <1>6 DEF TypeInv, Where, Rolling, Up
  <2>4. Valid'
    BY <1>6, <2>1 DEF TypeInv, Valid
  <2> QED BY <2>2, <2>3, <2>4 DEF TypeInv
<1>7. CASE op.kind = "create" /\ CreateFile(f, op.name) /\ op' = [op EXCEPT !.deleting = FALSE]
  <2>1. nextId <= MaxFileId
    BY <1>1, <1>7, MetaAssumption DEF TypeInv, Valid, Id
  <2>2. MemoryTypes' /\ rec' \in Record /\ at' = "persist"
    BY <1>1, <1>2, <1>7, <2>1, CreateTypes
  <2> QED BY <1>6, <1>7, <2>2
<1>8. CASE /\ op.kind = "rename" /\ MoveFile(f, op.id, op.src, op.name)
           /\ op' = [op EXCEPT !.deleting = FALSE]
  <2>1. op.id \in Id /\ op.src \in Names
    BY <1>8 DEF TypeInv, Valid
  <2>2. MemoryTypes' /\ rec' \in Record /\ at' = "persist"
    BY <1>1, <1>2, <1>8, <2>1, MoveTypes
  <2> QED BY <1>6, <1>8, <2>2
<1> QED BY <1>4, <1>5, <1>7, <1>8

(* Persisted keeps the types.                                               *)
LEMMA PersistedTypes ==
  ASSUME TypeInv, Persisted
  PROVE  TypeInv'
<1>1. /\ at = "done" /\ op.id \in Id /\ MemoryTypes /\ Files(file) /\ files \in NameMap
      /\ op.who \in Threads \cup {NoThread} /\ op.n \in Nat /\ Return
      /\ op.kind \in {"create", "rename", "link", "sync", "close", "replace"}
      /\ UNCHANGED <<deviceVars, metaLog, oldLog, seq, nextId, calls, crashes>>
  BY DEF TypeInv, Types, MemoryTypes, CallTypes, Valid, Persisted, OpType
<1>2. PICK f : f = MetadataSynced(file, {op.id}) /\ Files(f)
  BY <1>1, MarkTypes
<1>3. Files(file')
  <2>1. \/ file' = [f EXCEPT ![op.id].wr = op.who]
        \/ file' = [f EXCEPT ![op.id].wr = NoThread, ![op.id].moved = FALSE]
        \/ file' = f
    BY <1>1, <1>2 DEF Persisted
  <2>2. Files([f EXCEPT ![op.id].wr = op.who])
    BY <1>1, <1>2, FileParts
  <2>3. Files([f EXCEPT ![op.id].wr = NoThread, ![op.id].moved = FALSE])
    BY <1>1, <1>2, FileParts
  <2> QED BY <1>2, <2>1, <2>2, <2>3
<1>4. files' \in NameMap
  <2>1. op.kind = "create" => op.name \in Names
    BY DEF TypeInv, Valid
  <2> QED BY <1>1, <2>1, NameMapParts DEF Persisted
<1>5. acked' \in [Id -> Nat]
  <2>1. acked \in [Id -> Nat]
    BY DEF TypeInv, Types, CountTypes
  <2> QED BY <1>1, <2>1 DEF Persisted
<1>6. MemoryTypes' /\ Up
  BY <1>1, <1>3, <1>4 DEF MemoryTypes, Up
<1> QED BY <1>1, <1>5, <1>6, ReturnTypes

(* RollBack keeps the types.                                                *)
LEMMA RollBackTypes ==
  ASSUME TypeInv, RollBack
  PROVE  TypeInv'
<1>1. /\ at = "error" /\ Return /\ oldLog' = None
      /\ MemoryTypes /\ Files(file) /\ files \in NameMap
      /\ UNCHANGED <<deviceVars, metaLog, seq, nextId, acked, calls, crashes>>
  BY DEF TypeInv, Types, MemoryTypes, RollBack, otherVars
<1>2. files' \in NameMap /\ Files(file')
  <2>1. CASE /\ op.deleting
             /\ files' = [files EXCEPT ![op.name] = op.victim]
             /\ file' = AddLinkName(file, op.victim, op.name)
    <3>1. op.victim \in Id /\ op.name \in Names
      BY <2>1 DEF TypeInv, Valid
    <3> QED BY <1>1, <2>1, <3>1, NameMapParts, LinkTypes
  <2>2. CASE /\ op.kind = "create" /\ file' = [file EXCEPT ![op.id] = NoFile]
             /\ UNCHANGED files
    <3>1. op.id \in Id /\ <<>> \in Seq(Names)
      BY <2>2, EmptySeq DEF TypeInv, Valid
    <3>2. NoFile \in FileType /\ NoFile.synced <= Len(NoFile.exts)
      BY <3>1, NewFileTypes DEF NoFile
    <3> QED BY <1>1, <2>2, <3>1, <3>2, FilesReplace
  <2>3. CASE /\ op.kind = "link"
             /\ files' = [files EXCEPT ![op.name] = None]
             /\ file' = RemoveLinkName(file, op.id, op.name)
    <3>1. op.id \in Id /\ op.name \in Names
      BY <2>3 DEF TypeInv, Valid
    <3> QED BY <1>1, <2>3, <3>1, NameMapParts, LinkTypes
  <2>4. CASE /\ op.kind = "rename"
             /\ files' = [files EXCEPT ![op.name] = None, ![op.src] = op.id]
             /\ file' = RenameLink(file, op.id, op.name, op.src)
    <3>1. op.id \in Id /\ op.name \in Names /\ op.src \in Names
      BY <2>4 DEF TypeInv, Valid
    <3> QED BY <1>1, <2>4, <3>1, NameMapParts, LinkTypes
  <2>5. CASE /\ op.kind = "replace"
             /\ file' = [file EXCEPT ![op.id].wr = NoThread, ![op.id].moved = FALSE]
             /\ UNCHANGED files
    <3>1. op.id \in Id
      BY <2>5 DEF TypeInv, Valid
    <3> QED BY <1>1, <2>5, <3>1, FileParts
  <2>6. CASE UNCHANGED <<files, file>>
    BY <1>1, <2>6
  <2> QED BY <2>1, <2>2, <2>3, <2>4, <2>5, <2>6 DEF RollBack
<1>3. MemoryTypes' /\ Up
  BY <1>1, <1>2 DEF MemoryTypes, Up
<1>4. acked' \in [Id -> Nat]
  BY <1>1 DEF TypeInv, Types, CountTypes
<1> QED BY <1>1, <1>3, <1>4, ReturnTypes

(* The end of a process, of its own accord or not.                          *)
LEMMA ForgetTypes ==
  ASSUME TypeInv, Forget, DeviceTypes', calls' = calls, crashes' \in 0..MaxCrashes
  PROVE  TypeInv'
<1>1. MemoryTypes'
  BY NoFilesTypes, MetaAssumption DEF Forget, MemoryTypes
<1>2. op' \in OpType /\ op'.kind = "none" /\ ~op'.deleting /\ rec' \in Record
  BY NoOpTypes, OtherRecordTypes DEF Forget
<1>3. Types'
  BY <1>1, <1>2 DEF TypeInv, Types, ZoneTypes, CallTypes, CountTypes, Forget, Ats
<1>4. Where' /\ Valid'
  BY <1>2 DEF Where, Valid, Rolling, Forget, Up
<1> QED BY <1>3, <1>4 DEF TypeInv

(* Shutdown keeps the types.                                                *)
LEMMA ShutdownTypes ==
  ASSUME TypeInv, Shutdown
  PROVE  TypeInv'
<1>1. DeviceTypes' /\ calls' = calls /\ crashes' \in 0..MaxCrashes
  BY DEF TypeInv, Types, DeviceTypes, CountTypes, Shutdown, deviceVars
<1> QED BY <1>1, ForgetTypes DEF Shutdown

(* DeleteZenFS keeps the types.                                             *)
LEMMA DeleteZenFSTypes ==
  ASSUME TypeInv, DeleteZenFS
  PROVE  TypeInv'
<1>1. /\ calls' = calls /\ crashes' \in 0..MaxCrashes /\ finished' = finished
      /\ at = "error" /\ op.kind = "mount" /\ metaLog \in MetaZone
  BY MetaAssumption DEF TypeInv, Types, CountTypes, DeleteZenFS, Where, Up
<1>2. CASE Forget
  <2>1. DeviceTypes'
    <3>1. CASE log' = log
      BY <1>1, <3>1 DEF TypeInv, Types, DeviceTypes
    <3>2. CASE Room(metaLog) > 0 /\ AddRecord(metaLog, ResetCountRecord)
      <4>1. DeviceTypes /\ Len(log[metaLog]) \in Nat
        BY <1>1 DEF TypeInv, Types, DeviceTypes
      <4>2. ResetCountRecord \in Record /\ Len(log[metaLog]) < MetaCap
        BY <3>2, <4>1, OtherRecordTypes, MetaAssumption DEF Room
      <4> QED BY <1>1, <3>2, <4>1, <4>2, AddRecordTypes DEF DeviceTypes
    <3>3. Room(metaLog) > 0 /\ (AddRecord(metaLog, ResetCountRecord) \/ log' = log)
      BY <1>1, <1>2 DEF DeleteZenFS, Forget
    <3> QED BY <3>1, <3>2, <3>3
  <2> QED BY <1>1, <1>2, <2>1, ForgetTypes
<1>3. CASE at' = "allocate"
  <2>1. /\ op' = [op EXCEPT !.kind = "abort"]
        /\ UNCHANGED <<log, metaLog, oldLog, seq, memoryVars, rec, acked>>
    BY <1>3 DEF DeleteZenFS, Forget
  <2>2. op' \in OpType /\ op'.kind = "abort" /\ op'.deleting = op.deleting
        /\ op'.victim = op.victim /\ op'.name = op.name
    BY <2>1 DEF TypeInv, Types, CallTypes, OpType, Kinds
  <2>3. Types'
    BY <1>1, <1>3, <2>1, <2>2 DEF TypeInv, Types, DeviceTypes, ZoneTypes, MemoryTypes, CallTypes,
       CountTypes, memoryVars, Ats
  <2>4. Where' /\ Valid'
    BY <1>1, <1>3, <2>1, <2>2 DEF TypeInv, Where, Valid, Rolling, Up
  <2> QED BY <2>3, <2>4 DEF TypeInv
<1> QED BY <1>2, <1>3 DEF DeleteZenFS

(* Crash keeps the types.                                                   *)
LEMMA CrashTypes ==
  ASSUME TypeInv, Crash
  PROVE  TypeInv'
<1>1. calls' = calls /\ crashes' \in 0..MaxCrashes /\ finished' = finished /\ Forget
  BY MetaAssumption DEF TypeInv, Types, CountTypes, Crash
<1>2. DeviceTypes'
  <2>1. CASE log' = log
    BY <1>1, <2>1 DEF TypeInv, Types, DeviceTypes
  <2>2. CASE at = "snapshot" /\ AddRecord(metaLog, TornRecord)
    <3>1. DeviceTypes /\ metaLog \in MetaZone /\ Len(log[metaLog]) = 1
      BY <2>2 DEF TypeInv, Types, Where, Up
    <3>2. TornRecord \in Record /\ Len(log[metaLog]) < MetaCap
      BY <3>1, OtherRecordTypes, MetaAssumption
    <3> QED BY <1>1, <2>2, <3>1, <3>2, AddRecordTypes DEF DeviceTypes
  <2> QED BY <2>1, <2>2 DEF Crash
<1> QED BY <1>1, <1>2, ForgetTypes

(* The files that a mount decodes and repairs.                              *)
LEMMA RestoredFiles ==
  ASSUME NEW st, NEW repaired, NEW written, NEW f, f = Repaired(st, repaired, written)
  PROVE  /\ f = [i \in Id |-> f[i]]
         /\ \A i \in Id : IF i \in Range(st.files) THEN Decodes(f[i], st.image[i])
                         ELSE f[i] = NoFile
<1>1. f = [i \in Id |-> f[i]]
  BY DEF Repaired
<1>2. ASSUME NEW i \in Id, i \in Range(st.files) PROVE Decodes(f[i], st.image[i])
  <2>1. PICK d : d = DecodeFrom(st.image[i])
    OBVIOUS
  <2>2. f[i] = IF i \in repaired THEN Recover(d, i \in written) ELSE d
    BY <1>2, <2>1 DEF Repaired
  <2>3. CASE i \in written
    <3>1. Recover(d, i \in written) = Recover(d, TRUE)
      BY <2>3 DEF Recover
    <3> QED BY <2>1, <2>2, <3>1 DEF Decodes
  <2>4. CASE i \notin written
    <3>1. Recover(d, i \in written) = Recover(d, FALSE)
      BY <2>4 DEF Recover
    <3> QED BY <2>1, <2>2, <3>1 DEF Decodes
  <2> QED BY <2>3, <2>4
<1>3. \A i \in Id : i \notin Range(st.files) => f[i] = NoFile
  BY DEF Repaired
<1> QED BY <1>1, <1>2, <1>3

(* What a mount that finds a log to recover from does.                      *)
MountSets(st) ==
  /\ at' \in {"allocate", "error"}
  /\ metaLog' = NewestZone /\ seq' = log[NewestZone][1].seq
  /\ files' = st.files /\ nextId' = st.next
  /\ file' = [i \in Id |-> file'[i]]
  /\ \A i \in Id : IF i \in Range(st.files) THEN Decodes(file'[i], st.image[i])
                  ELSE file'[i] = NoFile
  /\ op' = [NoOp EXCEPT !.kind = "mount",
                        !.pre = st.files, !.mid = st.files, !.post = st.files]
  /\ acked' = [i \in Id |-> IF i \in Range(st.files) THEN Len(st.image[i].exts) ELSE 0]

(* It does so whether or not a file can be repaired.                        *)
LEMMA MountRestores ==
  ASSUME Mount, Recovered.status = "ok"
  PROVE  MountSets(Recovered)
<1>1. PICK st : st = Recovered
  OBVIOUS
<1>2. /\ metaLog' = NewestZone /\ seq' = log[NewestZone][1].seq
      /\ files' = st.files /\ nextId' = st.next
      /\ op' = [NoOp EXCEPT !.kind = "mount",
                            !.pre = st.files, !.mid = st.files, !.post = st.files]
      /\ acked' = [i \in Id |-> IF i \in Range(st.files) THEN Len(st.image[i].exts) ELSE 0]
  BY <1>1, Zenon DEF Mount
<1>3. \E written \in SUBSET Repairable(st) :
        \/ at' = "allocate" /\ file' = Repaired(st, Id, written)
        \/ at' = "error" /\ \E repaired \in SUBSET Id : file' = Repaired(st, repaired, written)
  BY <1>1, Zenon DEF Mount
<1>4. PICK repaired, written : file' = Repaired(st, repaired, written)
  BY <1>3, Zenon
<1>5. at' \in {"allocate", "error"}
  BY <1>3, Zenon
<1>6. /\ file' = [i \in Id |-> file'[i]]
      /\ \A i \in Id : IF i \in Range(st.files) THEN Decodes(file'[i], st.image[i])
                      ELSE file'[i] = NoFile
  <2>1. PICK f : f = file'
    OBVIOUS
  <2> QED BY <1>4, <2>1, RestoredFiles
<1> QED BY <1>1, <1>2, <1>5, <1>6, Zenon DEF MountSets

(* Mount keeps the types.                                                   *)
LEMMA MountTypes ==
  ASSUME TypeInv, Mount
  PROVE  TypeInv'
<1> DEFINE st == Recovered
<1>1. at = "down" /\ UNCHANGED <<deviceVars, oldLog, rec, calls, crashes>>
  BY DEF Mount
<1>2. DeviceTypes'
  BY <1>1 DEF TypeInv, Types, DeviceTypes, deviceVars
<1>3. CASE st.status # "ok"
  <2>1. at' = "unmountable" /\ UNCHANGED <<metaLog, seq, memoryVars, op, acked>>
    BY <1>3 DEF Mount
  <2>2. Types'
    BY <1>1, <1>2, <2>1 DEF TypeInv, Types, ZoneTypes, MemoryTypes, CallTypes, CountTypes,
       memoryVars, Ats
  <2>3. Where' /\ Valid'
    BY <1>1, <2>1 DEF TypeInv, Where, Valid, Rolling, Up, memoryVars
  <2> QED BY <2>2, <2>3 DEF TypeInv
<1>4. CASE st.status = "ok"
  <2>1. /\ NewestZone \in MetaZone /\ log[NewestZone][1] \in Supers /\ st \in State
    BY <1>4, RecoveredTypes DEF TypeInv, Types, DeviceTypes
  <2>2. MountSets(st)
    BY <1>4, MountRestores
  <2> HIDE DEF st
  <2>3. PICK ns \in NameMap, img \in [Id -> Image] :
          ns = st.files /\ img = st.image /\ st.next \in 1..MaxFileId + 1
    BY <2>1 DEF State
  <2>4. ZoneTypes' /\ files' \in NameMap /\ nextId' \in 1..MaxFileId + 1
    BY <1>1, <2>1, <2>2, <2>3 DEF MountSets, TypeInv, Types, ZoneTypes, Supers
  <2>5. Files(file')
    <3>1. ASSUME NEW i \in Id
          PROVE  file'[i] \in FileType /\ file'[i].synced <= Len(file'[i].exts)
      <4>1. <<>> \in Seq(Names)
        BY EmptySeq
      <4>2. NoFile \in FileType /\ NoFile.synced <= Len(NoFile.exts)
        BY <4>1, NewFileTypes DEF NoFile
      <4>3. PICK e \in Image : e = img[i]
        OBVIOUS
      <4>4. PICK g : g = file'[i] /\ (Decodes(g, e) \/ g = NoFile)
        BY <2>2, <2>3, <4>3 DEF MountSets
      <4> QED BY <4>2, <4>4, DecodesTypes
    <3>2. DOMAIN file' = Id /\ file' = [i \in Id |-> file'[i]]
      BY <2>2 DEF MountSets
    <3> QED BY <3>1, <3>2 DEF Files
  <2>6. op' \in OpType /\ op'.kind = "mount" /\ ~op'.deleting
    BY <2>2, <2>3, NoOpTypes DEF MountSets, OpType, Kinds
  <2>7. acked' \in [Id -> Nat]
    <3>1. \A i \in Id : Len(img[i].exts) \in Nat
      BY LenProperties DEF Image
    <3> QED BY <2>2, <2>3, <3>1 DEF MountSets
  <2>8. Types'
    BY <1>1, <1>2, <2>2, <2>4, <2>5, <2>6, <2>7 DEF MountSets, TypeInv, Types, MemoryTypes,
       CallTypes, CountTypes, Ats
  <2>9. Where' /\ Valid'
    BY <2>1, <2>2, <2>6 DEF MountSets, Where, Valid, Rolling
  <2> QED BY <2>8, <2>9 DEF TypeInv
<1> QED BY <1>3, <1>4

(* Mounted keeps the types.                                                 *)
LEMMA MountedTypes ==
  ASSUME TypeInv, Mounted
  PROVE  TypeInv'
<1>1. Up /\ MemoryTypes' /\ acked' \in [Id -> Nat]
  BY DEF TypeInv, Types, MemoryTypes, CountTypes, Mounted, memoryVars, otherVars, Up
<1> QED BY <1>1, ReturnTypes DEF Mounted, otherVars

(* SetToSeq lists the elements of a finite set, each of them once.          *)
LEMMA SetToSeqFacts ==
  ASSUME NEW S, IsFiniteSet(S)
  PROVE  /\ SetToSeq(S) \in Seq(S) /\ Len(SetToSeq(S)) = Cardinality(S)
         /\ \A j, k \in 1..Cardinality(S) : SetToSeq(S)[j] = SetToSeq(S)[k] => j = k
         /\ \A x \in S : \E j \in 1..Cardinality(S) : SetToSeq(S)[j] = x
<1>1. PICK n \in Nat : n = Cardinality(S) /\ ExistsBijection(1..n, S)
  BY FS_CardinalityType
<1>2. \E f \in [1..n -> S] : IsInjective(f)
  <2>1. PICK f : f \in Bijection(1..n, S)
    BY <1>1 DEF ExistsBijection
  <2> QED BY <2>1 DEF Bijection, Injection, IsInjective
<1>3. PICK s : s = SetToSeq(S) /\ s \in [1..n -> S] /\ IsInjective(s)
  BY <1>1, <1>2 DEF SetToSeq
<1>4. s \in Injection(1..n, S)
  BY <1>3 DEF Injection, IsInjective
<1>5. IsFiniteSet(1..n) /\ Cardinality(1..n) = n
  BY FS_Interval
<1>6. s \in Surjection(1..n, S)
  BY <1>1, <1>4, <1>5, FS_Injection
<1>7. s \in Seq(S) /\ Len(s) = n
  BY <1>3
<1>8. \A x \in S : \E j \in 1..n : s[j] = x
  BY <1>6 DEF Surjection
<1>9. \A j, k \in 1..n : s[j] = s[k] => j = k
  BY <1>3 DEF IsInjective
<1> QED BY <1>1, <1>3, <1>7, <1>8, <1>9

(* A file of an existing name, and the name it stands for.                  *)
Born(n) == [NewFile(<<n>>) EXCEPT !.exts = <<1>>, !.synced = 1]
First(s, n) == CHOOSE i \in 1..Len(s) : s[i] = n

(* A file that is there when the file system is first mounted.              *)
LEMMA BornTypes ==
  ASSUME NEW n \in Names
  PROVE  /\ Born(n) \in FileType /\ Born(n).synced <= Len(Born(n).exts)
         /\ Born(n).links = <<n>> /\ Born(n).wr = NoThread
         /\ ~Born(n).deleted /\ ~Born(n).moved
<1>1. <<n>> \in Seq(Names)
  OBVIOUS
<1>2. PICK f \in FileType : /\ f = NewFile(<<n>>) /\ f.links = <<n>> /\ f.wr = NoThread
                              /\ ~f.deleted /\ ~f.moved
  BY <1>1, NewFileTypes
<1>3. PICK x \in Seq(Nat) : x = <<1>> /\ Len(x) = 1
  <2>1. <<1>> \in Seq(Nat) /\ Len(<<1>>) = 1
    OBVIOUS
  <2> QED BY <2>1
<1>4. Born(n) = [f EXCEPT !.exts = x, !.synced = 1]
  BY <1>2, <1>3 DEF Born
<1>5. PICK b : b = [f EXCEPT !.exts = x, !.synced = 1]
  OBVIOUS
<1>6. b \in FileType /\ b.exts = x /\ b.synced = 1 /\ b.links = f.links /\ b.wr = f.wr
  BY <1>5 DEF FileType
<1>7. ~b.deleted /\ ~b.moved
  BY <1>2, <1>5 DEF FileType
<1> QED BY <1>2, <1>3, <1>4, <1>5, <1>6, <1>7

(* What Init says, name by name and file by file.                           *)
LEMMA InitFacts ==
  ASSUME Init
  PROVE  \E s \in Seq(Existing) :
         /\ Len(s) = Cardinality(Existing) /\ Len(s) \in 0..MaxFileId
         /\ \A j, k \in 1..Len(s) : s[j] = s[k] => j = k
         /\ \A n \in Existing : /\ First(s, n) \in 1..Len(s) /\ s[First(s, n)] = n
                                /\ files[n] = First(s, n)
         /\ \A n \in Names \ Existing : files[n] = None
         /\ files \in NameMap
         /\ file = [i \in Id |-> IF i <= Len(s) THEN Born(s[i]) ELSE NoFile]
         /\ nextId = Len(s) + 1
<1>1. IsFiniteSet(Existing) /\ Existing \subseteq Names
  BY MetaAssumption, FS_Subset
<1>2. PICK s \in Seq(Existing) :
        /\ s = SetToSeq(Existing) /\ Len(s) = Cardinality(Existing)
        /\ \A j, k \in 1..Len(s) : s[j] = s[k] => j = k
        /\ \A n \in Existing : \E j \in 1..Len(s) : s[j] = n
  BY <1>1, SetToSeqFacts
<1>3. Len(s) \in 0..MaxFileId
  BY <1>2, LenProperties, MetaAssumption
<1>4. /\ file = [i \in Id |-> IF i <= Len(s) THEN Born(s[i]) ELSE NoFile]
      /\ files = [n \in Names |-> IF n \in Existing THEN First(s, n) ELSE None]
      /\ nextId = Len(s) + 1
  <2> DEFINE q == SetToSeq(Existing)
  <2>1. /\ file = [i \in Id |-> IF i <= Len(q) THEN Born(q[i]) ELSE NoFile]
        /\ files = [n \in Names |-> IF n \in Existing THEN First(q, n) ELSE None]
        /\ nextId = Len(q) + 1
    BY Zenon DEF Init, Born, First
  <2> HIDE DEF q
  <2>2. q = s
    BY <1>2 DEF q
  <2> QED BY <2>1, <2>2
<1>5. \A n \in Existing : First(s, n) \in 1..Len(s) /\ s[First(s, n)] = n
  BY <1>2 DEF First
<1>6. files \in NameMap
  <2>1. \A n \in Existing : First(s, n) \in Id
    BY <1>3, <1>5, MetaAssumption DEF Id
  <2> QED BY <1>4, <2>1 DEF NameMap
<1>7. /\ \A n \in Existing : files[n] = First(s, n)
      /\ \A n \in Names \ Existing : files[n] = None
  BY <1>1, <1>4
<1> QED BY <1>2, <1>3, <1>4, <1>5, <1>6, <1>7

(* The first states have their types.                                       *)
LEMMA InitTypes == Init => TypeInv
<1> SUFFICES ASSUME Init PROVE TypeInv
  OBVIOUS
<1>1. PICK s \in Seq(Existing) :
         /\ Len(s) \in 0..MaxFileId
         /\ files \in NameMap
         /\ file = [i \in Id |-> IF i <= Len(s) THEN Born(s[i]) ELSE NoFile]
         /\ nextId = Len(s) + 1
  BY InitFacts
<1>2. Files(file)
  <2>1. ASSUME NEW i \in Id PROVE file[i] \in FileType /\ file[i].synced <= Len(file[i].exts)
    <3>1. CASE i <= Len(s)
      <4>1. s[i] \in Names
        BY <1>1, <3>1, MetaAssumption DEF Id
      <4> QED BY <1>1, <3>1, <4>1, BornTypes
    <3>2. CASE ~(i <= Len(s))
      <4>1. <<>> \in Seq(Names)
        BY EmptySeq
      <4> QED BY <1>1, <3>2, <4>1, NewFileTypes DEF NoFile
    <3> QED BY <3>1, <3>2
  <2> QED BY <1>1, <2>1 DEF Files
<1>3. MemoryTypes
  BY <1>1, <1>2, MetaAssumption DEF MemoryTypes
<1>4. PICK r \in Record : r = SnapshotRecord(EncodeSnapshotTo(files, file))
  BY <1>1, <1>2, SnapshotRecordTypes DEF Files
<1>5. DeviceTypes
  <2>1. PICK q \in Record : q = SuperblockRecord(1)
    BY OtherRecordTypes
  <2>2. <<q, r>> \in Seq(Record) /\ Len(<<q, r>>) = 2 /\ <<>> \in Seq(Record)
    BY EmptySeq
  <2>3. log = [z \in MetaZone |-> IF z = 1 THEN <<q, r>> ELSE <<>>] /\ finished = {}
    BY <1>4, <2>1 DEF Init
  <2>4. \A z \in MetaZone : log[z] \in Seq(Record) /\ Len(log[z]) <= MetaCap
    BY <2>2, <2>3, MetaAssumption
  <2> QED BY <2>3, <2>4 DEF DeviceTypes
<1>6. ZoneTypes /\ metaLog \in MetaZone
  <2>1. metaLog = 1 /\ oldLog = None /\ seq = 1
    BY Zenon DEF Init
  <2> QED BY <2>1, MetaAssumption DEF ZoneTypes, MetaZone
<1>7. CallTypes /\ at = "idle" /\ op = NoOp /\ ~op.deleting /\ op.kind = "none"
  BY NoOpTypes, OtherRecordTypes DEF Init, CallTypes, Ats
<1>8. CountTypes
  <2>1. \A i \in Id : Len(file[i].exts) \in Nat
    BY <1>2, LenProperties DEF Files, FileType
  <2>2. acked = [i \in Id |-> Len(file[i].exts)] /\ calls = 0 /\ crashes = 0
    BY Zenon DEF Init
  <2> QED BY <2>1, <2>2, MetaAssumption DEF CountTypes
<1>9. Where /\ Valid
  BY <1>6, <1>7 DEF Where, Valid, Rolling
<1> QED BY <1>3, <1>5, <1>6, <1>7, <1>8, <1>9 DEF TypeInv, Types

(* TypeInv is an invariant of the specification.                            *)
LEMMA TypesInvariant == Spec => []TypeInv
<1>1. TypeInv /\ [Next]_vars => TypeInv'
  <2> SUFFICES ASSUME TypeInv, [Next]_vars PROVE TypeInv'
    OBVIOUS
  <2>1. CASE UNCHANGED vars
    <3>1. Types'
      BY <2>1 DEF vars, deviceVars, memoryVars, TypeInv, Types, DeviceTypes, ZoneTypes,
         MemoryTypes, CallTypes, CountTypes
    <3>2. Where' /\ Valid'
      BY <2>1 DEF vars, deviceVars, memoryVars, TypeInv, Where, Valid, Up
    <3> QED BY <3>1, <3>2 DEF TypeInv
  <2>2. CASE Roll
    BY <2>2, AllocateMetaZoneTypes, WriteEndRecordTypes, FinishOldZoneTypes,
       WriteSuperblockTypes, EncodeSnapshotTypes, WriteSnapshotTypes, SnapshotSyncedTypes,
       ResetOldZoneTypes DEF Roll
  <2>3. CASE Step
    BY <2>2, <2>3, PersistRecordTypes, AcquireWRLockTypes, DeletedTypes, PersistedTypes,
       RollBackTypes, ShutdownTypes, DeleteZenFSTypes, MountTypes, MountedTypes DEF Step
  <2>4. CASE \E t \in Threads : Call(t)
    BY <2>4, CallTypesKept
  <2> QED BY <2>1, <2>3, <2>4, CrashTypes DEF Next
<1> QED BY <1>1, InitTypes, PTL DEF Spec

(* No record is written past the end of a metadata zone, and the variables  *)
(* of ZenFS keep their types, whatever fails and wherever a crash comes     *)
(* (ZenMetaLog::AddRecord, ZoneFile::MetadataSynced).                       *)
THEOREM MetadataTypes == Spec => []TypeOK
<1>1. TypeInv => TypeOK
  <2> SUFFICES ASSUME TypeInv PROVE TypeOK
    OBVIOUS
  <2>1. ASSUME NEW i \in Id
        PROVE  /\ file[i].synced \in 0..Len(file[i].exts)
               /\ Range(file[i].links) \subseteq Names
               /\ file[i].wr \in Threads \cup {NoThread}
    <3>1. file[i] \in FileType /\ file[i].synced <= Len(file[i].exts)
      BY DEF TypeInv, Types, MemoryTypes, Files
    <3>2. /\ file[i].exts \in Seq(Nat) /\ file[i].synced \in Nat /\ file[i].links \in Seq(Names)
          /\ file[i].wr \in Threads \cup {NoThread}
      BY <3>1 DEF FileType
    <3>3. Len(file[i].exts) \in Nat
      BY <3>2, LenProperties
    <3>4. Range(file[i].links) \subseteq Names
      BY <3>2, LenProperties DEF Range
    <3> QED BY <3>1, <3>2, <3>3, <3>4
  <2>2. DOMAIN file = Id
    BY DEF TypeInv, Types, MemoryTypes, Files
  <2> QED BY <2>1, <2>2 DEF TypeInv, Types, DeviceTypes, ZoneTypes, MemoryTypes, CallTypes,
          CountTypes, TypeOK, NameMap
<1> QED BY <1>1, TypesInvariant, PTL

-----------------------------------------------------------------------------
(* What a change of a file leaves alone                                     *)

(* Nothing but the links of i is different.                                 *)
Relinked(f, g, i) ==
  \A j \in Id : /\ g[j].wr = f[j].wr /\ (g[j].deleted <=> f[j].deleted)
                /\ (g[j].moved <=> f[j].moved)
                /\ (j # i => g[j].links = f[j].links)

(* Neither the links nor the marks are different.                           *)
Kept(f, g) ==
  \A j \in Id : /\ g[j].wr = f[j].wr /\ (g[j].deleted <=> f[j].deleted)
                /\ (g[j].moved <=> f[j].moved) /\ g[j].links = f[j].links

(* Adding, removing and moving a link changes the links of one file.        *)
LEMMA RelinkFacts ==
  ASSUME NEW f, Files(f), NEW i \in Id, NEW m \in Names, NEW n \in Names
  PROVE  /\ Relinked(f, RemoveLinkName(f, i, m), i)
         /\ RemoveLinkName(f, i, m)[i].links = RemoveFirst(f[i].links, m)
         /\ Relinked(f, AddLinkName(f, i, n), i)
         /\ AddLinkName(f, i, n)[i].links = Append(f[i].links, n)
         /\ Relinked(f, RenameLink(f, i, m, n), i)
         /\ RenameLink(f, i, m, n)[i].links = Append(RemoveFirst(f[i].links, m), n)
<1>1. ASSUME NEW g, Files(g), NEW l, NEW h, h = [g EXCEPT ![i].links = l]
      PROVE  Relinked(g, h, i) /\ h[i].links = l
  BY <1>1 DEF Files, FileType, Relinked
<1>2. ASSUME NEW g, Files(g)
      PROVE  /\ Relinked(g, RemoveLinkName(g, i, m), i)
             /\ RemoveLinkName(g, i, m)[i].links = RemoveFirst(g[i].links, m)
             /\ Relinked(g, AddLinkName(g, i, n), i)
             /\ AddLinkName(g, i, n)[i].links = Append(g[i].links, n)
  <2>1. /\ RemoveLinkName(g, i, m) = [g EXCEPT ![i].links = RemoveFirst(g[i].links, m)]
        /\ AddLinkName(g, i, n) = [g EXCEPT ![i].links = Append(g[i].links, n)]
    BY DEF RemoveLinkName, AddLinkName
  <2>2. PICK r, a : r = RemoveFirst(g[i].links, m) /\ a = Append(g[i].links, n)
    OBVIOUS
  <2>3. Relinked(g, RemoveLinkName(g, i, m), i) /\ RemoveLinkName(g, i, m)[i].links = r
    BY <1>1, <1>2, <2>1, <2>2
  <2>4. Relinked(g, AddLinkName(g, i, n), i) /\ AddLinkName(g, i, n)[i].links = a
    BY <1>1, <1>2, <2>1, <2>2
  <2> QED BY <2>2, <2>3, <2>4
<1>3. PICK h : h = RemoveLinkName(f, i, m) /\ Files(h)
  BY LinkTypes
<1>4. Relinked(f, h, i) /\ Relinked(h, AddLinkName(h, i, n), i)
  BY <1>2, <1>3
<1>5. Relinked(f, AddLinkName(h, i, n), i)
  BY <1>4 DEF Relinked
<1>6. AddLinkName(h, i, n)[i].links = Append(RemoveFirst(f[i].links, m), n)
  BY <1>2, <1>3
<1> QED BY <1>2, <1>3, <1>5, <1>6 DEF RenameLink

(* What neither the links, nor the lock, nor the marks of a file depend on. *)
LEMMA KeptFacts ==
  ASSUME NEW f, Files(f), NEW ids, NEW i \in Id, NEW b \in BOOLEAN, NEW x
  PROVE  /\ Kept(f, f)
         /\ Kept(f, MetadataSynced(f, ids))
         /\ Kept(f, [f EXCEPT ![i].active = b])
         /\ Kept(f, [f EXCEPT ![i].exts = x])
<1>1. Kept(f, [f EXCEPT ![i].active = b]) /\ Kept(f, [f EXCEPT ![i].exts = x])
  BY DEF Files, FileType, Kept
<1>2. ASSUME NEW j \in Id, NEW k
      PROVE  /\ [f[j] EXCEPT !.synced = k].wr = f[j].wr
             /\ ([f[j] EXCEPT !.synced = k].deleted <=> f[j].deleted)
             /\ ([f[j] EXCEPT !.synced = k].moved <=> f[j].moved)
             /\ [f[j] EXCEPT !.synced = k].links = f[j].links
  BY DEF Files, FileType
<1>3. ASSUME NEW j \in Id
      PROVE  LET g == MetadataSynced(f, ids) IN
             /\ g[j].wr = f[j].wr /\ (g[j].deleted <=> f[j].deleted)
             /\ (g[j].moved <=> f[j].moved) /\ g[j].links = f[j].links
  <2>1. PICK k : k = Len(f[j].exts)
    OBVIOUS
  <2>2. MetadataSynced(f, ids)[j] = IF j \in ids THEN [f[j] EXCEPT !.synced = k] ELSE f[j]
    BY <2>1 DEF MetadataSynced
  <2> QED BY <1>2, <2>2
<1>4. Kept(f, MetadataSynced(f, ids))
  BY <1>3 DEF Kept
<1> QED BY <1>1, <1>4 DEF Kept

(* The lock of a file and the mark of a migrated one.                       *)
LEMMA LockFacts ==
  ASSUME NEW f, Files(f), NEW i \in Id, NEW w \in Threads \cup {NoThread}
  PROVE  /\ \A j \in Id : [f EXCEPT ![i].wr = w][j].wr = IF j = i THEN w ELSE f[j].wr
         /\ \A j \in Id : [f EXCEPT ![i].wr = w][j].links = f[j].links
         /\ \A j \in Id : [f EXCEPT ![i].wr = w][j].deleted <=> f[j].deleted
         /\ \A j \in Id : [f EXCEPT ![i].wr = w][j].moved <=> f[j].moved
BY DEF Files, FileType

(* The lock of i is given back, with the mark; or it is taken, with it.     *)
Unlocked(f, g, i) ==
  /\ \A j \in Id : g[j].wr = IF j = i THEN NoThread ELSE f[j].wr
  /\ \A j \in Id : g[j].links = f[j].links /\ (g[j].deleted <=> f[j].deleted)
  /\ \A j \in Id : g[j].moved <=> (f[j].moved /\ j # i)

Marked(f, g, i, t) ==
  /\ \A j \in Id : g[j].wr = IF j = i THEN t ELSE f[j].wr
  /\ \A j \in Id : g[j].links = f[j].links /\ (g[j].deleted <=> f[j].deleted)
  /\ \A j \in Id : g[j].moved <=> (f[j].moved \/ j = i)

(* What the end of a migration does, and what its beginning does.           *)
LEMMA UnlockFacts ==
  ASSUME NEW f, Files(f), NEW i \in Id, NEW t
  PROVE  /\ Unlocked(f, [f EXCEPT ![i].wr = NoThread, ![i].moved = FALSE], i)
         /\ Marked(f, [f EXCEPT ![i].wr = t, ![i].moved = TRUE, ![i].synced = 0], i, t)
BY DEF Files, FileType, Unlocked, Marked

(* A file marked deleted.                                                   *)
LEMMA SetDeletedFacts ==
  ASSUME NEW f, Files(f), NEW i \in Id, NEW g, g = SetDeleted(f, i)
  PROVE  /\ Files(g)
         /\ \A j \in Id : /\ g[j].wr = f[j].wr /\ g[j].links = f[j].links
                          /\ (g[j].moved <=> f[j].moved)
                          /\ (g[j].deleted <=> f[j].deleted \/ (j = i /\ f[j].links = <<>>))
<1>1. Files(g)
  BY MarkTypes
<1>2. CASE f[i].links = <<>>
  <2>1. g = [f EXCEPT ![i].deleted = TRUE]
    BY <1>2 DEF SetDeleted
  <2> QED BY <1>1, <1>2, <2>1 DEF Files, FileType
<1>3. CASE f[i].links # <<>>
  BY <1>1, <1>3 DEF SetDeleted
<1> QED BY <1>2, <1>3

(* A file in the place of another.                                          *)
LEMMA ReplaceFacts ==
  ASSUME NEW f, Files(f), NEW i \in Id, NEW x, NEW g, g = [f EXCEPT ![i] = x]
  PROVE  g[i] = x /\ \A j \in Id \ {i} : g[j] = f[j]
BY DEF Files

-----------------------------------------------------------------------------
(* Zones with room for every record are never rolled by a call              *)

(* What the budget of records counts are natural numbers.                   *)
LEMMA RoomTypes ==
  ASSUME TypeInv
  PROVE  /\ Moved \in SUBSET Id /\ IsFiniteSet(Moved) /\ Cardinality(Moved) \in Nat
         /\ Unwritten \in 0..1 /\ Due \in 0..1
         /\ Up => Used \in Nat /\ Len(log[metaLog]) \in Nat
         /\ calls \in Nat
<1>1. Moved \in SUBSET Id
  BY DEF Moved
<1>2. IsFiniteSet(Id)
  BY FS_Interval, MetaAssumption DEF Id
<1>3. IsFiniteSet(Moved) /\ Cardinality(Moved) \in Nat
  BY <1>1, <1>2, FS_Subset, FS_CardinalityType
<1>4. Unwritten \in 0..1 /\ Due \in 0..1
  BY DEF Unwritten, Due
<1>5. Up => Len(log[metaLog]) \in Nat
  BY LenProperties DEF TypeInv, Types, DeviceTypes, Where
<1>6. Up => Used \in Nat
  BY <1>4, <1>5 DEF Used
<1>7. calls \in Nat
  BY DEF TypeInv, Types, CountTypes
<1> QED BY <1>1, <1>3, <1>4, <1>5, <1>6, <1>7

(* The same after a step.                                                   *)
LEMMA RoomTypesNext ==
  ASSUME TypeInv'
  PROVE  /\ Moved' \in SUBSET Id /\ Unwritten' \in 0..1 /\ Due' \in 0..1
         /\ Up' => Used' \in Nat /\ Len(log'[metaLog']) \in Nat
         /\ calls' \in Nat
<1>1. Moved' \in SUBSET Id /\ Unwritten' \in 0..1 /\ Due' \in 0..1
  BY DEF Moved, Unwritten, Due
<1>2. Up' => Len(log'[metaLog']) \in Nat
  BY LenProperties DEF TypeInv, Types, DeviceTypes, Where
<1>3. Up' => Used' \in Nat
  BY <1>1, <1>2 DEF Used
<1>4. calls' \in Nat
  BY DEF TypeInv, Types, CountTypes
<1> QED BY <1>1, <1>2, <1>3, <1>4

(* The room left does not shrink by more than a call brings.                *)
LEMMA BudgetKept ==
  ASSUME TypeInv, TypeInv', Budget, Up, Up' => Moved' \subseteq Moved,
         Up' => Used' + 2 * calls <= Used + 2 * calls'
  PROVE  Budget'
<1> SUFFICES ASSUME Up' PROVE (Used + Cardinality(Moved) <= 2 + 2 * calls)'
  BY DEF Budget
<1>1. PICK S, T : S = Moved /\ T = Moved' /\ T \in SUBSET S /\ IsFiniteSet(S)
  BY RoomTypes
<1>2. Cardinality(T) <= Cardinality(S) /\ IsFiniteSet(T)
  BY <1>1, FS_Subset
<1>3. Cardinality(T) \in Nat /\ Cardinality(S) \in Nat
  BY <1>1, <1>2, FS_CardinalityType
<1>4. /\ Used \in Nat /\ Used' \in Nat /\ calls \in Nat /\ calls' \in Nat
      /\ Used + Cardinality(S) <= 2 + 2 * calls
  BY <1>1, RoomTypes, RoomTypesNext DEF Budget
<1>5. Used' + Cardinality(T) <= 2 + 2 * calls'
  <2>1. PICK u \in Nat, v \in Nat, c \in Nat, d \in Nat, x \in Nat, y \in Nat :
          /\ u = Used /\ v = Used' /\ c = calls /\ d = calls'
          /\ x = Cardinality(S) /\ y = Cardinality(T)
    BY <1>3, <1>4
  <2>2. v + 2 * c <= u + 2 * d /\ u + x <= 2 + 2 * c /\ y <= x
    BY <1>2, <1>4, <2>1
  <2>3. v + y <= 2 + 2 * d
    BY <2>2
  <2> QED BY <2>1, <2>3
<1> QED BY <1>1, <1>5

(* A call may write two records.                                            *)
LEMMA CallsRoom ==
  ASSUME TypeInv, TypeInv', OpInv, RoomInv, NEW t, NEW what, Calls(t, what),
         at' \in {"idle", "wrlock", "persist"}, op'.kind \notin {"mount", "abort", "replace"},
         \A i \in Id : file'[i].moved => file[i].moved
  PROVE  RoomInv'
<1> SUFFICES ASSUME Roomy PROVE (Budget /\ Unfinished /\ Rolled /\ Unrolled)'
  BY DEF RoomInv, Roomy
<1>1. /\ at = "idle" /\ op = NoOp /\ op.kind = "none" /\ ~op.deleting
      /\ UNCHANGED <<log, finished, metaLog>> /\ calls' = calls + 1
  BY NoOpTypes DEF Calls, OpInv, deviceVars
<1>2. Budget /\ Unfinished
  BY DEF RoomInv
<1>3. Budget'
  <2>1. Up /\ Up'
    BY <1>1 DEF Up
  <2>2. Moved' \subseteq Moved
    BY <1>1 DEF Moved
  <2>3. Used = Len(log[metaLog]) /\ Used' = Len(log[metaLog]) + Unwritten' + Due'
    <3>1. Unwritten = 0 /\ Due = 0
      BY <1>1 DEF Unwritten, Due
    <3> QED BY <1>1, <2>1, <3>1, RoomTypes DEF Used
  <2>4. Used' + 2 * calls <= Used + 2 * calls'
    <3>1. PICK l \in Nat, c \in Nat, x \in 0..1, y \in 0..1 :
            l = Len(log[metaLog]) /\ c = calls /\ x = Unwritten' /\ y = Due'
      BY <2>1, RoomTypes, RoomTypesNext
    <3>2. l + x + y + 2 * c <= l + 2 * (c + 1)
      OBVIOUS
    <3> QED BY <1>1, <2>3, <3>1, <3>2
  <2> QED BY <1>2, <2>1, <2>2, <2>4, BudgetKept
<1>4. Unfinished' /\ Rolled' /\ Unrolled'
  BY <1>1, <1>2 DEF Unfinished, Rolled, Unrolled, RollAts, Rolling, Up
<1> QED BY <1>3, <1>4

(* The calls that change names.                                             *)
LEMMA DeleteNoLockMoved ==
  ASSUME TypeInv, NEW n \in Names, files[n] # None, DeleteFileNoLock(n)
  PROVE  at' = "persist" /\ \A i \in Id : file'[i].moved <=> file[i].moved
<1>1. files[n] \in Id /\ Files(file)
  BY DEF TypeInv, Types, MemoryTypes, NameMap
<1> QED BY <1>1, RelinkFacts DEF DeleteFileNoLock, Persist, Relinked

(* A rename marks no file as migrated.                                      *)
LEMMA MoveFileMoved ==
  ASSUME NEW f, Files(f), NEW i \in Id, NEW s \in Names, NEW d \in Names, MoveFile(f, i, s, d)
  PROVE  at' = "persist" /\ \A j \in Id : file'[j].moved <=> f[j].moved
BY RelinkFacts DEF MoveFile, Persist, Relinked

(* Nor does a creation.                                                     *)
LEMMA CreateFileMoved ==
  ASSUME NEW f, Files(f), NEW n \in Names, nextId \in Id, CreateFile(f, n)
  PROVE  at' = "persist" /\ \A j \in Id : file'[j].moved => f[j].moved
<1>1. <<n>> \in Seq(Names)
  OBVIOUS
<1>2. ~NewFile(<<n>>).moved
  BY <1>1, NewFileTypes
<1>3. file'[nextId] = NewFile(<<n>>) /\ \A j \in Id \ {nextId} : file'[j] = f[j]
  BY ReplaceFacts DEF CreateFile
<1> QED BY <1>2, <1>3 DEF CreateFile, Persist

(* How the calls begin: with a name to take, or without.                    *)
Starts(o, kind, i, n, post) ==
  /\ o.kind = kind /\ o.id = i /\ o.name = n
  /\ o.victim = files[n] /\ (o.deleting <=> files[n] # None)
  /\ o.pre = files /\ o.mid = [files EXCEPT ![n] = None] /\ o.post = post

Asks(o, kind, i) ==
  /\ o.kind = kind /\ o.id = i /\ ~o.deleting
  /\ o.pre = files /\ o.mid = files /\ o.post = files

(* The call that Overwriting makes, as Starts describes it.                 *)
LEMMA OverwritingStarts ==
  ASSUME files \in NameMap, NEW kind \in Kinds, NEW t \in Threads, NEW i \in Id \cup {None},
         NEW n \in Names, NEW post \in NameMap,
         NEW o, o = Overwriting(Request(kind, t, i), n, post)
  PROVE  Starts(o, kind, i, n, post) /\ o \in OpType
<1>1. PICK r \in OpType : /\ r = Request(kind, t, i) /\ r.kind = kind /\ r.id = i
                          /\ r.pre = files
  BY RequestTypes
<1>2. o = Overwriting(r, n, post)
  BY <1>1
<1>3. Overwrites(o, r, n, post)
  BY <1>2, OverwritingTypes
<1>4. Erase(files, {n}) = [files EXCEPT ![n] = None]
  BY DEF Erase, NameMap
<1> QED BY <1>1, <1>3, <1>4 DEF Overwrites, Starts

(* The call that DeleteFile makes.                                          *)
LEMMA DeleteFileOp ==
  ASSUME TypeInv, NEW t \in Threads, NEW n \in Names, DeleteFile(t, n)
  PROVE  Starts(op', "delete", files[n], n, [files EXCEPT ![n] = None]) /\ files[n] \in Id
<1>1. files \in NameMap /\ files[n] \in Id
  BY DEF TypeInv, Types, MemoryTypes, NameMap, DeleteFile
<1>2. PICK p \in NameMap : p = Erase(files, {n}) /\ p = [files EXCEPT ![n] = None]
  BY <1>1 DEF Erase, NameMap
<1>3. op' = Overwriting(Request("delete", t, files[n]), n, p)
  BY <1>2 DEF DeleteFile
<1>4. Starts(op', "delete", files[n], n, p)
  BY <1>1, <1>3, OverwritingStarts DEF Kinds
<1> QED BY <1>1, <1>2, <1>4

(* The call that OpenWritableFile makes.                                    *)
LEMMA OpenWritableFileOp ==
  ASSUME TypeInv, NEW t \in Threads, NEW n \in Names, OpenWritableFile(t, n)
  PROVE  Starts(op', "create", nextId, n, [files EXCEPT ![n] = nextId]) /\ nextId \in Id
<1>1. files \in NameMap /\ nextId \in Id
  BY MetaAssumption DEF TypeInv, Types, MemoryTypes, OpenWritableFile, Id
<1>2. PICK p \in NameMap : p = [files EXCEPT ![n] = nextId]
  BY <1>1, NameMapParts
<1>3. op' = Overwriting(Request("create", t, nextId), n, p)
  BY <1>2 DEF OpenWritableFile
<1>4. Starts(op', "create", nextId, n, p)
  BY <1>1, <1>3, OverwritingStarts DEF Kinds
<1> QED BY <1>1, <1>2, <1>4

(* The call that LinkFile makes.                                            *)
LEMMA LinkFileOp ==
  ASSUME TypeInv, NEW t \in Threads, NEW s \in Names, NEW l \in Names, LinkFile(t, s, l)
  PROVE  Starts(op', "link", files[s], l, [files EXCEPT ![l] = files[s]]) /\ files[s] \in Id
<1>1. files \in NameMap /\ files[s] \in Id
  BY DEF TypeInv, Types, MemoryTypes, NameMap, LinkFile
<1>2. PICK p \in NameMap : p = [files EXCEPT ![l] = files[s]]
  BY <1>1, NameMapParts
<1>3. op' = Overwriting(Request("link", t, files[s]), l, p)
  BY <1>2 DEF LinkFile
<1>4. Starts(op', "link", files[s], l, p)
  BY <1>1, <1>3, OverwritingStarts DEF Kinds
<1> QED BY <1>1, <1>2, <1>4

(* The name space after a rename; one to the same name loses it.            *)
Renamed(s, d) == IF s = d THEN [files EXCEPT ![s] = None]
                          ELSE [files EXCEPT ![s] = None, ![d] = files[s]]

(* The call that RenameFile makes.                                          *)
LEMMA RenameFileOp ==
  ASSUME TypeInv, NEW t \in Threads, NEW s \in Names, NEW d \in Names, RenameFile(t, s, d)
  PROVE  /\ Starts(op', "rename", files[s], d, Renamed(s, d)) /\ op'.src = s
         /\ files[s] \in Id
<1>1. files \in NameMap /\ files[s] \in Id
  BY DEF TypeInv, Types, MemoryTypes, NameMap, RenameFile
<1>2. PICK p \in NameMap :
        /\ p = IF s = d THEN Erase(files, {s}) ELSE [files EXCEPT ![s] = None, ![d] = files[s]]
        /\ p = Renamed(s, d)
  <2>1. Erase(files, {s}) = [files EXCEPT ![s] = None]
    BY <1>1 DEF Erase, NameMap
  <2> QED BY <1>1, <2>1, NameMapParts DEF Renamed
<1>3. PICK o : o = Overwriting(Request("rename", t, files[s]), d, p)
  OBVIOUS
<1>4. Starts(o, "rename", files[s], d, p) /\ o \in OpType
  BY <1>1, <1>3, OverwritingStarts DEF Kinds
<1>5. op' = [o EXCEPT !.src = s]
  BY <1>2, <1>3 DEF RenameFile
<1>6. Starts(op', "rename", files[s], d, p) /\ op'.src = s
  BY <1>4, <1>5 DEF Starts, OpType
<1> QED BY <1>1, <1>2, <1>6

(* A call that leaves the names alone.                                      *)
LEMMA RequestAsks ==
  ASSUME TypeInv, NEW kind \in Kinds, NEW t \in Threads, NEW i \in Id \cup {None}, NEW o,
         \/ o = Request(kind, t, i)
         \/ \E k \in Nat : o = [Request(kind, t, i) EXCEPT !.n = k]
  PROVE  Asks(o, kind, i)
<1>1. files \in NameMap
  BY DEF TypeInv, Types, MemoryTypes
<1>2. PICK r \in OpType : r = Request(kind, t, i) /\ Asks(r, kind, i)
  BY <1>1, RequestTypes DEF Asks
<1>3. CASE o = r
  BY <1>2, <1>3
<1>4. ASSUME NEW k \in Nat, o = [r EXCEPT !.n = k] PROVE Asks(o, kind, i)
  BY <1>2, <1>4 DEF Asks, OpType
<1> QED BY <1>2, <1>3, <1>4

(* The call that SyncFileMetadata makes.                                    *)
LEMMA SyncFileMetadataOp ==
  ASSUME TypeInv, NEW t \in Threads, NEW i \in Id, NEW what \in {"sync", "close"},
         NEW active, SyncFileMetadata(t, i, what, active)
  PROVE  Asks(op', what, i)
<1>1. PICK k \in Nat : k = Len(file[i].exts)
  BY LenProperties DEF TypeInv, Types, MemoryTypes, Files, FileType
<1>2. op' = [Request(what, t, i) EXCEPT !.n = k]
  BY <1>1 DEF SyncFileMetadata
<1> QED BY <1>2, RequestAsks DEF Kinds

-----------------------------------------------------------------------------
(* Each call of a client, with room or without.                             *)
FrameInv == OpInv /\ RoomInv

(* DeleteFile keeps FrameInv.                                               *)
LEMMA DeleteFileFrame ==
  ASSUME TypeInv, TypeInv', FrameInv, NEW t \in Threads, NEW n \in Names, DeleteFile(t, n)
  PROVE  FrameInv'
<1>1. Calls(t, "delete") /\ files[n] # None /\ DeleteFileNoLock(n)
  BY DEF DeleteFile
<1>2. op'.kind = "delete"
  BY DeleteFileOp DEF Starts
<1>3. at' = "persist" /\ \A i \in Id : file'[i].moved => file[i].moved
  BY <1>1, DeleteNoLockMoved
<1>4. RoomInv'
  BY <1>1, <1>2, <1>3, CallsRoom DEF FrameInv
<1> QED BY <1>2, <1>3, <1>4 DEF FrameInv, OpInv

(* OpenWritableFile keeps FrameInv.                                         *)
LEMMA OpenWritableFileFrame ==
  ASSUME TypeInv, TypeInv', FrameInv, NEW t \in Threads, NEW n \in Names,
         OpenWritableFile(t, n)
  PROVE  FrameInv'
<1>1. Calls(t, "create") /\ "create" \in Ops
  BY DEF OpenWritableFile, Calls
<1>2. op'.kind = "create" /\ nextId \in Id
  BY OpenWritableFileOp DEF Starts
<1>3. at' = "persist" /\ \A i \in Id : file'[i].moved => file[i].moved
  <2>1. CASE files[n] # None
    BY <2>1, DeleteNoLockMoved DEF OpenWritableFile
  <2>2. CASE files[n] = None
    <3>1. CreateFile(file, n) /\ Files(file)
      BY <2>2 DEF OpenWritableFile, TypeInv, Types, MemoryTypes
    <3> QED BY <1>2, <3>1, CreateFileMoved
  <2> QED BY <2>1, <2>2
<1>4. RoomInv'
  BY <1>1, <1>2, <1>3, CallsRoom DEF FrameInv
<1> QED BY <1>1, <1>2, <1>3, <1>4 DEF FrameInv, OpInv

(* ReopenWritableFile keeps FrameInv.                                       *)
LEMMA ReopenWritableFileFrame ==
  ASSUME TypeInv, TypeInv', FrameInv, NEW t \in Threads, NEW n \in Names,
         ReopenWritableFile(t, n)
  PROVE  FrameInv' /\ Asks(op', "reopen", files[n])
<1>1. Calls(t, "reopen") /\ at' = "wrlock" /\ file' = file
  BY DEF ReopenWritableFile, memoryVars
<1>2. Asks(op', "reopen", files[n])
  <2>1. files[n] \in Id \cup {None} /\ "reopen" \in Kinds
    BY DEF TypeInv, Types, MemoryTypes, NameMap, Kinds
  <2>2. op' = Request("reopen", t, files[n])
    BY DEF ReopenWritableFile
  <2> QED BY <2>1, <2>2, RequestAsks
<1>3. op'.kind = "reopen" /\ ~op'.deleting
  BY <1>2 DEF Asks
<1>4. RoomInv'
  BY <1>1, <1>3, CallsRoom DEF FrameInv
<1> QED BY <1>1, <1>2, <1>3, <1>4 DEF FrameInv, OpInv

(* RenameFile keeps FrameInv.                                               *)
LEMMA RenameFileFrame ==
  ASSUME TypeInv, TypeInv', FrameInv, NEW t \in Threads, NEW s \in Names, NEW d \in Names,
         RenameFile(t, s, d)
  PROVE  FrameInv'
<1>1. Calls(t, "rename")
  BY DEF RenameFile
<1>2. op'.kind = "rename" /\ files[s] \in Id
  BY RenameFileOp DEF Starts
<1>3. at' = "persist" /\ \A i \in Id : file'[i].moved => file[i].moved
  <2>1. CASE files[d] # None
    BY <2>1, DeleteNoLockMoved DEF RenameFile
  <2>2. CASE files[d] = None
    <3>1. MoveFile(file, files[s], s, d) /\ Files(file)
      BY <2>2 DEF RenameFile, TypeInv, Types, MemoryTypes
    <3> QED BY <1>2, <3>1, MoveFileMoved
  <2> QED BY <2>1, <2>2
<1>4. RoomInv'
  BY <1>1, <1>2, <1>3, CallsRoom DEF FrameInv
<1> QED BY <1>2, <1>3, <1>4 DEF FrameInv, OpInv

(* LinkFile keeps FrameInv.                                                 *)
LEMMA LinkFileFrame ==
  ASSUME TypeInv, TypeInv', FrameInv, NEW t \in Threads, NEW s \in Names, NEW l \in Names,
         LinkFile(t, s, l)
  PROVE  FrameInv'
<1>1. Calls(t, "link") /\ at' = "persist" /\ files[l] = None
  BY DEF LinkFile, Persist
<1>2. op'.kind = "link" /\ ~op'.deleting /\ files[s] \in Id
  BY <1>1, LinkFileOp DEF Starts
<1>3. \A i \in Id : file'[i].moved => file[i].moved
  <2>1. Files(file) /\ file' = AddLinkName(file, files[s], l)
    BY DEF LinkFile, TypeInv, Types, MemoryTypes
  <2>2. Relinked(file, file', files[s])
    BY <1>2, <2>1, RelinkFacts
  <2> QED BY <2>2 DEF Relinked
<1>4. RoomInv'
  BY <1>1, <1>2, <1>3, CallsRoom DEF FrameInv
<1> QED BY <1>1, <1>2, <1>4 DEF FrameInv, OpInv

(* SyncFileMetadata keeps FrameInv.                                         *)
LEMMA SyncFileMetadataFrame ==
  ASSUME TypeInv, TypeInv', FrameInv, NEW t \in Threads, NEW i \in Id,
         NEW what \in {"sync", "close"}, NEW active \in BOOLEAN,
         SyncFileMetadata(t, i, what, active)
  PROVE  FrameInv'
<1>1. Calls(t, what) /\ at' = "persist"
  BY DEF SyncFileMetadata, Persist
<1>2. op'.kind = what /\ ~op'.deleting
  BY SyncFileMetadataOp DEF Asks
<1>3. \A j \in Id : file'[j].moved => file[j].moved
  <2>1. Files(file) /\ file' = [file EXCEPT ![i].active = active]
    BY DEF SyncFileMetadata, TypeInv, Types, MemoryTypes
  <2>2. Kept(file, file')
    BY <2>1, KeptFacts
  <2> QED BY <2>2 DEF Kept
<1>4. RoomInv'
  BY <1>1, <1>2, <1>3, CallsRoom DEF FrameInv
<1> QED BY <1>1, <1>2, <1>4 DEF FrameInv, OpInv

(* Unmount keeps FrameInv.                                                  *)
LEMMA UnmountFrame ==
  ASSUME TypeInv, TypeInv', FrameInv, NEW t \in Threads, Unmount(t)
  PROVE  FrameInv' /\ Asks(op', "unmount", None)
<1>1. Calls(t, "unmount") /\ at' = "persist" /\ file' = file
  BY DEF Unmount, Persist, memoryVars
<1>2. Asks(op', "unmount", None)
  <2>1. op' = Request("unmount", t, None) /\ "unmount" \in Kinds
    BY DEF Unmount, Kinds
  <2> QED BY <2>1, RequestAsks
<1>3. op'.kind = "unmount" /\ ~op'.deleting
  BY <1>2 DEF Asks
<1>4. RoomInv'
  BY <1>1, <1>3, CallsRoom DEF FrameInv
<1> QED BY <1>1, <1>2, <1>3, <1>4 DEF FrameInv, OpInv

(* A step that leaves the log and the call alone.                           *)
LEMMA SameRoom ==
  ASSUME TypeInv, TypeInv', FrameInv, UNCHANGED <<log, finished, metaLog, at, op, calls>>,
         \A i \in Id : file'[i].moved => file[i].moved
  PROVE  FrameInv'
<1>1. OpInv'
  BY DEF FrameInv, OpInv
<1>2. ASSUME Roomy, Budget, Unfinished, Rolled, Unrolled
      PROVE  (Budget /\ Unfinished /\ Rolled /\ Unrolled)'
  <2>1. Unfinished' /\ Rolled' /\ Unrolled'
    BY <1>2 DEF Unfinished, Rolled, Unrolled, Up
  <2>2. Budget'
    <3>1. Moved' \subseteq Moved
      BY DEF Moved
    <3>2. Used' = Used
      BY DEF Used, Unwritten, Due
    <3>3. (Up' <=> Up) /\ calls' = calls
      BY DEF Up
    <3>4. CASE ~Up
      BY <3>3, <3>4 DEF Budget
    <3>5. CASE Up
      <4>1. Used' + 2 * calls <= Used + 2 * calls'
        <5>1. PICK u \in Nat, c \in Nat : u = Used /\ c = calls
          BY <3>5, RoomTypes
        <5>2. u + 2 * c <= u + 2 * c
          OBVIOUS
        <5> QED BY <3>2, <3>3, <5>1, <5>2
      <4> QED BY <1>2, <3>1, <3>5, <4>1, BudgetKept
    <3> QED BY <3>4, <3>5
  <2> QED BY <2>1, <2>2
<1>3. RoomInv'
  BY <1>2 DEF FrameInv, RoomInv, Roomy
<1> QED BY <1>1, <1>3 DEF FrameInv

(* CloseWR keeps FrameInv.                                                  *)
LEMMA CloseWRFrame ==
  ASSUME TypeInv, TypeInv', FrameInv, NEW t \in Threads, NEW i \in Id, CloseWR(t, i)
  PROVE  FrameInv'
<1>1. CASE SyncFileMetadata(t, i, "close", FALSE)
  BY <1>1, SyncFileMetadataFrame
<1>2. CASE ~SyncFileMetadata(t, i, "close", FALSE)
  <2>1. /\ Calls(t, "close") /\ file' = [file EXCEPT ![i].wr = NoThread]
        /\ UNCHANGED <<at, op>>
    BY <1>2 DEF CloseWR
  <2>2. at = "idle" /\ op.kind = "none"
    BY <2>1 DEF Calls, FrameInv, OpInv
  <2>3. \A j \in Id : file'[j].moved => file[j].moved
    BY <2>1, LockFacts DEF TypeInv, Types, MemoryTypes
  <2>4. RoomInv'
    BY <2>1, <2>2, <2>3, CallsRoom DEF FrameInv
  <2> QED BY <2>1, <2>2, <2>4 DEF FrameInv, OpInv
<1> QED BY <1>1, <1>2

(* PushExtent keeps FrameInv.                                               *)
LEMMA PushExtentFrame ==
  ASSUME TypeInv, TypeInv', FrameInv, NEW t \in Threads, NEW i \in Id, PushExtent(t, i)
  PROVE  FrameInv'
<1>1. PICK x : file' = [file EXCEPT ![i].exts = x]
  BY DEF PushExtent
<1>2. Kept(file, file')
  BY <1>1, KeptFacts DEF TypeInv, Types, MemoryTypes
<1>3. \A j \in Id : file'[j].moved => file[j].moved
  BY <1>2 DEF Kept
<1>4. UNCHANGED <<log, finished, metaLog, at, op, calls>>
  BY DEF PushExtent, deviceVars
<1> QED BY <1>3, <1>4, SameRoom

(* A migration brings the room for the record that ends it.                 *)
LEMMA ReplaceExtentListFrame ==
  ASSUME TypeInv, TypeInv', FrameInv, NEW t \in Threads, NEW i \in Id,
         ReplaceExtentList(t, i)
  PROVE  FrameInv'
<1>1. /\ UNCHANGED <<log, finished, metaLog, at, op>> /\ calls' = calls + 1
      /\ file' = [file EXCEPT ![i].wr = t, ![i].moved = TRUE, ![i].synced = 0]
  BY DEF ReplaceExtentList, deviceVars
<1>2. OpInv'
  BY <1>1 DEF FrameInv, OpInv
<1>3. ASSUME Roomy, Budget, Unfinished, Rolled, Unrolled
      PROVE  (Budget /\ Unfinished /\ Rolled /\ Unrolled)'
  <2>1. Unfinished' /\ Rolled' /\ Unrolled'
    BY <1>1, <1>3 DEF Unfinished, Rolled, Unrolled, Up
  <2>2. Budget'
    <3>1. Moved' \subseteq Moved \cup {i}
      <4>1. \A j \in Id : file'[j].moved <=> (file[j].moved \/ j = i)
        BY <1>1, UnlockFacts DEF Marked, TypeInv, Types, MemoryTypes
      <4> QED BY <1>1, <4>1 DEF Moved
    <3>2. Used' = Used /\ (Up' <=> Up)
      BY <1>1 DEF Used, Unwritten, Due, Up
    <3> SUFFICES ASSUME Up PROVE (Used + Cardinality(Moved) <= 2 + 2 * calls)'
      BY <3>2 DEF Budget
    <3>3. PICK S, T : S = Moved /\ T = Moved' /\ T \in SUBSET (S \cup {i}) /\ IsFiniteSet(S)
      BY <3>1, RoomTypes
    <3>4. /\ IsFiniteSet(S \cup {i}) /\ Cardinality(S) \in Nat
          /\ Cardinality(S \cup {i}) \in Nat /\ Cardinality(S \cup {i}) <= Cardinality(S) + 1
      <4>1. /\ IsFiniteSet(S \cup {i}) /\ Cardinality(S) \in Nat
            /\ Cardinality(S \cup {i}) = IF i \in S THEN Cardinality(S) ELSE Cardinality(S) + 1
        BY <3>3, FS_AddElement, FS_CardinalityType
      <4> QED BY <4>1
    <3>5. Cardinality(T) <= Cardinality(S \cup {i}) /\ IsFiniteSet(T)
      BY <3>3, <3>4, FS_Subset
    <3>6. Cardinality(T) \in Nat
      BY <3>5, FS_CardinalityType
    <3>7. PICK u \in Nat, c \in Nat, x \in Nat, y \in Nat :
            u = Used /\ c = calls /\ x = Cardinality(S) /\ y = Cardinality(T)
      BY <3>4, <3>6, RoomTypes
    <3>8. u + x <= 2 + 2 * c /\ y <= x + 1
      BY <1>3, <3>3, <3>4, <3>5, <3>7 DEF Budget
    <3>9. u + y <= 2 + 2 * (c + 1)
      BY <3>8
    <3> QED BY <1>1, <3>2, <3>3, <3>7, <3>9
  <2> QED BY <2>1, <2>2
<1>4. RoomInv'
  BY <1>3 DEF FrameInv, RoomInv, Roomy
<1> QED BY <1>2, <1>4 DEF FrameInv

(* SyncFileExtents asks for files_mtx_.                                     *)
LEMMA SyncFileExtentsFrame ==
  ASSUME TypeInv, TypeInv', FrameInv, NEW t \in Threads, NEW i \in Id,
         SyncFileExtents(t, i)
  PROVE  FrameInv'
<1>0. at = "idle" /\ UNCHANGED <<log, finished, metaLog, calls>> /\ Files(file)
  BY DEF SyncFileExtents, deviceVars, TypeInv, Types, MemoryTypes
<1>1. CASE file[i].deleted
  <2>1. file' = [file EXCEPT ![i].wr = NoThread, ![i].moved = FALSE] /\ UNCHANGED <<at, op>>
    BY <1>1 DEF SyncFileExtents
  <2>2. \A j \in Id : file'[j].moved <=> (file[j].moved /\ j # i)
    BY <1>0, <2>1, UnlockFacts DEF Unlocked
  <2> QED BY <1>0, <2>1, <2>2, SameRoom
<1>2. CASE ~file[i].deleted
  <2>1. /\ op' = Request("replace", t, i) /\ at' = "persist" /\ file' = file
        /\ file[i].moved
    BY <1>2 DEF SyncFileExtents, Persist
  <2>2. Asks(op', "replace", i)
    BY <2>1, RequestAsks DEF Kinds
  <2>3. op'.kind = "replace" /\ op'.id = i /\ ~op'.deleting
    BY <2>2 DEF Asks
  <2>4. OpInv'
    BY <2>1, <2>3 DEF OpInv
  <2>5. ASSUME Roomy, Budget, Unfinished, Rolled, Unrolled
        PROVE  (Budget /\ Unfinished /\ Rolled /\ Unrolled)'
    <3>1. Unfinished' /\ Rolled' /\ Unrolled'
      BY <1>0, <2>1, <2>3, <2>5 DEF Unfinished, Rolled, Unrolled, Up, RollAts, Rolling
    <3>2. op.kind = "none" /\ ~op.deleting /\ Up
      BY <1>0, NoOpTypes DEF FrameInv, OpInv, Up
    <3>3. Moved' = Moved \ {i} /\ i \in Moved
      BY <2>1, <2>3, <3>2 DEF Moved
    <3>4. Used = Len(log[metaLog]) /\ Used' = Len(log[metaLog]) + 1 /\ Len(log[metaLog]) \in Nat
      <4>1. Unwritten = 0 /\ Due = 0 /\ Unwritten' = 1 /\ Due' = 0
        BY <1>0, <2>1, <2>3, <3>2 DEF Unwritten, Due
      <4> QED BY <1>0, <2>3, <3>2, <4>1, RoomTypes DEF Used
    <3>5. PICK S, T : S = Moved /\ T = Moved' /\ T = S \ {i} /\ i \in S /\ IsFiniteSet(S)
      BY <3>3, RoomTypes
    <3>6. Cardinality(T) = Cardinality(S) - 1 /\ Cardinality(S) \in Nat
      BY <3>5, FS_RemoveElement, FS_CardinalityType
    <3>7. PICK l \in Nat, c \in Nat, x \in Nat :
            l = Len(log[metaLog]) /\ c = calls /\ x = Cardinality(S)
      BY <3>4, <3>6, RoomTypes
    <3>8. l + x <= 2 + 2 * c
      BY <2>5, <3>2, <3>4, <3>5, <3>7 DEF Budget
    <3>9. (l + 1) + (x - 1) <= 2 + 2 * c
      BY <3>8
    <3>10. Budget'
      BY <1>0, <3>4, <3>5, <3>6, <3>7, <3>9 DEF Budget
    <3> QED BY <3>1, <3>10
  <2>6. RoomInv'
    BY <2>5 DEF FrameInv, RoomInv, Roomy
  <2> QED BY <2>4, <2>6 DEF FrameInv
<1> QED BY <1>1, <1>2

(* Every call of a client keeps FrameInv.                                   *)
LEMMA CallFrame ==
  ASSUME TypeInv, TypeInv', FrameInv, NEW t \in Threads, Call(t)
  PROVE  FrameInv'
<1>1. CASE \E n \in Names : DeleteFile(t, n) \/ OpenWritableFile(t, n) \/ ReopenWritableFile(t, n)
  BY <1>1, DeleteFileFrame, OpenWritableFileFrame, ReopenWritableFileFrame
<1>2. CASE \E s, d \in Names : RenameFile(t, s, d) \/ LinkFile(t, s, d)
  BY <1>2, RenameFileFrame, LinkFileFrame
<1>3. ASSUME NEW i \in Id, AllocateNewZone(t, i) \/ Fsync(t, i) PROVE FrameInv'
  <2>1. file[i].active \in BOOLEAN
    BY DEF TypeInv, Types, MemoryTypes, Files, FileType
  <2> QED BY <1>3, <2>1, SyncFileMetadataFrame DEF AllocateNewZone, Fsync
<1>4. ASSUME NEW i \in Id,
             \/ PushExtent(t, i) \/ CloseWR(t, i)
             \/ ReplaceExtentList(t, i) \/ SyncFileExtents(t, i)
      PROVE FrameInv'
  BY <1>4, PushExtentFrame, CloseWRFrame, ReplaceExtentListFrame, SyncFileExtentsFrame
<1> QED BY <1>1, <1>2, <1>3, <1>4, UnmountFrame DEF Call

-----------------------------------------------------------------------------
(* A record is written, with room for it.                                   *)
LEMMA PersistRecordFrame ==
  ASSUME TypeInv, TypeInv', FrameInv, PersistRecord
  PROVE  FrameInv'
<1>1. /\ at = "persist" /\ at' \in {"done", "allocate", "error"}
      /\ op.kind \notin {"mount", "abort"}
      /\ UNCHANGED <<finished, metaLog, file, op, calls>> /\ metaLog \in MetaZone
  BY DEF PersistRecord, memoryVars, otherVars, FrameInv, OpInv, TypeInv, Where, Up
<1>2. OpInv'
  BY <1>1 DEF FrameInv, OpInv
<1>3. ASSUME Roomy, Budget, Unfinished, Rolled, Unrolled
      PROVE  (Budget /\ Unfinished /\ Rolled /\ Unrolled)'
  <2>1. metaLog \notin finished /\ Unwritten = 1 /\ Unwritten' = 0 /\ Up /\ Up'
    BY <1>1, <1>3 DEF Unfinished, Unwritten, Up
  <2>2. Used = Len(log[metaLog]) + 1 + Due
    BY <1>1, <2>1 DEF Used
  <2>3. PICK l \in Nat, d \in 0..1, c \in Nat, m \in Nat :
          l = Len(log[metaLog]) /\ d = Due /\ c = calls /\ m = Cardinality(Moved)
    BY <2>1, RoomTypes
  <2>4. l + 1 + d + m <= 2 + 2 * c
    BY <1>3, <2>1, <2>2, <2>3 DEF Budget
  <2>5. Room(metaLog) # 0
    <3>1. c <= MaxCalls /\ MaxCalls \in Nat /\ MetaCap \in Nat /\ MetaCap >= 2 + 2 * MaxCalls
      BY <1>3, <2>3, MetaAssumption DEF TypeInv, Types, CountTypes, Roomy
    <3>2. MetaCap - l # 0
      BY <2>4, <3>1
    <3> QED BY <2>1, <2>3, <3>2 DEF Room
  <2>6. CASE at' = "done"
    <3>1. log' = [log EXCEPT ![metaLog] = Append(@, rec)]
      BY <2>6 DEF PersistRecord, AddRecord
    <3>2. PICK s \in Seq(Record) : s = log[metaLog] /\ rec \in Record
      BY <1>1 DEF TypeInv, Types, DeviceTypes, CallTypes
    <3>3. Len(Append(s, rec)) = Len(s) + 1
      BY <3>2
    <3>4. log'[metaLog] = Append(s, rec)
      BY <1>1, <3>1, <3>2 DEF TypeInv, Types, DeviceTypes
    <3>5. Len(log'[metaLog']) = l + 1
      BY <1>1, <2>3, <3>2, <3>3, <3>4
    <3>6. Due' = d /\ Moved' = Moved
      BY <1>1, <2>3, <2>6 DEF Due, Moved
    <3>7. Used' = l + 1 + 0 + d
      BY <1>1, <2>1, <3>5, <3>6 DEF Used
    <3>8. Used' + 2 * calls <= Used + 2 * calls'
      <4>1. l + 1 + 0 + d + 2 * c <= l + 1 + d + 2 * c
        OBVIOUS
      <4> QED BY <1>1, <2>2, <2>3, <3>7, <4>1
    <3>9. Budget'
      BY <1>3, <2>1, <3>6, <3>8, BudgetKept
    <3> QED BY <1>1, <2>1, <2>6, <3>9 DEF Unfinished, Rolled, Unrolled, RollAts, Rolling
  <2>7. CASE at' = "error"
    <3>1. log' = log
      BY <2>7 DEF PersistRecord
    <3>2. Due' = 0 /\ Moved' = Moved
      BY <1>1, <2>7 DEF Due, Moved
    <3>3. Used' = l + 0 + 0
      BY <1>1, <2>1, <2>3, <3>1, <3>2 DEF Used
    <3>4. Used' + 2 * calls <= Used + 2 * calls'
      <4>1. l + 0 + 0 + 2 * c <= l + 1 + d + 2 * c
        OBVIOUS
      <4> QED BY <1>1, <2>2, <2>3, <3>3, <4>1
    <3>5. Budget'
      BY <1>3, <2>1, <3>2, <3>4, BudgetKept
    <3> QED BY <1>1, <2>1, <2>7, <3>5 DEF Unfinished, Rolled, Unrolled, RollAts, Rolling
  <2>8. at' # "allocate"
    BY <2>5 DEF PersistRecord
  <2> QED BY <1>1, <2>6, <2>7, <2>8
<1>4. RoomInv'
  BY <1>3 DEF FrameInv, RoomInv, Roomy
<1> QED BY <1>2, <1>4 DEF FrameInv

(* With room, only a mount rolls the log.                                   *)
LEMMA RollRoom ==
  ASSUME TypeInv, TypeInv', FrameInv, at \in RollAts, at' \in RollAts \cup {"done", "error"},
         UNCHANGED <<op, calls>>, \A i \in Id : file'[i].moved => file[i].moved,
         Roomy /\ Unfinished /\ op.kind \in {"mount", "abort"} => Unfinished',
         Roomy /\ Rolled /\ op.kind \in {"mount", "abort"} => Rolled'
  PROVE  FrameInv'
<1>1. OpInv'
  BY DEF FrameInv, OpInv, RollAts, Rolling
<1>2. ASSUME Roomy, Budget, Unfinished, Rolled, Unrolled
      PROVE  (Budget /\ Unfinished /\ Rolled /\ Unrolled)'
  <2>1. op.kind \in {"mount", "abort"} /\ Up
    BY <1>2 DEF Unrolled, RollAts, Rolling, Up
  <2>2. Used = 2 /\ Used' = 2 /\ Moved' \subseteq Moved
    BY <2>1 DEF Used, Moved
  <2>3. Used' + 2 * calls <= Used + 2 * calls'
    <3>1. PICK c \in Nat : c = calls
      BY RoomTypes
    <3>2. 2 + 2 * c <= 2 + 2 * c
      OBVIOUS
    <3> QED BY <2>2, <3>1, <3>2
  <2>4. Budget'
    BY <1>2, <2>1, <2>2, <2>3, BudgetKept
  <2> QED BY <1>2, <2>1, <2>4 DEF Unrolled
<1>3. RoomInv'
  BY <1>2 DEF FrameInv, RoomInv, Roomy
<1> QED BY <1>1, <1>3 DEF FrameInv

(* Every step of a roll keeps FrameInv.                                     *)
LEMMA RollFrame ==
  ASSUME TypeInv, TypeInv', FrameInv, Roll
  PROVE  FrameInv'
<1>1. CASE AllocateMetaZone
  <2>1. /\ at = "allocate" /\ at' \in {"end", "error"} /\ UNCHANGED <<op, calls, file>>
        /\ at' = "end" => metaLog' \notin finished'
    BY <1>1 DEF AllocateMetaZone, memoryVars, otherVars, Emptied
  <2>2. op.kind \in {"mount", "abort"} => Unfinished' /\ Rolled'
    BY <2>1 DEF Unfinished, Rolled
  <2> QED BY <2>1, <2>2, RollRoom DEF RollAts, Rolling
<1>2. CASE WriteEndRecord
  <2>1. at = "end" /\ at' = "finish" /\ UNCHANGED <<op, calls, file, metaLog, finished>>
    BY <1>2 DEF WriteEndRecord, memoryVars, otherVars
  <2>2. (Unfinished => Unfinished') /\ Rolled'
    BY <2>1 DEF Unfinished, Rolled, Up
  <2> QED BY <2>1, <2>2, RollRoom DEF RollAts, Rolling
<1>3. CASE FinishOldZone
  <2>1. /\ at = "finish" /\ at' = "superblock" /\ UNCHANGED <<op, calls, file, metaLog>>
        /\ finished' \subseteq finished \cup {oldLog}
    BY <1>3 DEF FinishOldZone, memoryVars, otherVars
  <2>2. (Unfinished => Unfinished') /\ Rolled'
    BY <2>1 DEF Unfinished, Rolled, Up, TypeInv, Where, Rolling
  <2> QED BY <2>1, <2>2, RollRoom DEF RollAts, Rolling
<1>4. CASE WriteSuperblock
  <2>1. /\ at = "superblock" /\ at' \in {"encode", "error"}
        /\ UNCHANGED <<op, calls, file, metaLog, finished>>
    BY <1>4 DEF WriteSuperblock, memoryVars, otherVars
  <2>2. (Unfinished => Unfinished') /\ Rolled'
    BY <2>1 DEF Unfinished, Rolled, Up
  <2> QED BY <2>1, <2>2, RollRoom DEF RollAts, Rolling
<1>5. CASE EncodeSnapshot
  <2>1. /\ at = "encode" /\ at' = "snapshot"
        /\ UNCHANGED <<op, calls, file, metaLog, finished>>
    BY <1>5 DEF EncodeSnapshot, memoryVars, otherVars, deviceVars
  <2>2. (Unfinished => Unfinished') /\ Rolled'
    BY <2>1 DEF Unfinished, Rolled, Up
  <2> QED BY <2>1, <2>2, RollRoom DEF RollAts, Rolling
<1>6. CASE WriteSnapshot
  <2>1. /\ at = "snapshot" /\ at' \in {"synced", "error"}
        /\ UNCHANGED <<op, calls, file, metaLog, finished>>
    BY <1>6 DEF WriteSnapshot, memoryVars, otherVars
  <2>2. Unfinished => Unfinished'
    BY <2>1 DEF Unfinished, Up
  <2>3. at' = "synced" => Len(log'[metaLog']) = 2
    <3> SUFFICES ASSUME at' = "synced" PROVE Len(log'[metaLog]) = 2
      BY <2>1
    <3>1. log' = [log EXCEPT ![metaLog] = Append(@, rec)]
      BY <1>6 DEF WriteSnapshot, AddRecord
    <3>2. PICK s \in Seq(Record) : /\ s = log[metaLog] /\ rec \in Record /\ Len(s) = 1
                                   /\ metaLog \in MetaZone
      BY <2>1 DEF TypeInv, Types, DeviceTypes, CallTypes, Where, Up
    <3>3. Len(Append(s, rec)) = 2
      <4>1. Len(Append(s, rec)) = Len(s) + 1
        BY <3>2, AppendProperties
      <4> QED BY <3>2, <4>1
    <3>4. log'[metaLog] = Append(s, rec)
      BY <3>1, <3>2 DEF TypeInv, Types, DeviceTypes
    <3> QED BY <3>3, <3>4
  <2>4. Rolled'
    BY <2>1, <2>3 DEF Rolled
  <2> QED BY <2>1, <2>2, <2>4, RollRoom DEF RollAts, Rolling
<1>7. CASE SnapshotSynced
  <2>1. /\ at = "synced" /\ at' = "reset" /\ UNCHANGED <<op, calls, metaLog, log, finished>>
        /\ file' = MetadataSynced(file, Range(files)) /\ Files(file)
    BY <1>7 DEF SnapshotSynced, otherVars, deviceVars, TypeInv, Types, MemoryTypes
  <2>2. (Unfinished => Unfinished') /\ (Rolled => Rolled')
    BY <2>1 DEF Unfinished, Up, Rolled
  <2>3. CASE Id = {}
    BY <2>1, <2>2, <2>3, RollRoom DEF RollAts, Rolling
  <2>4. CASE Id # {}
    <3>1. PICK i \in Id : TRUE
      BY <2>4
    <3>2. Kept(file, file')
      BY <2>1, <3>1, KeptFacts
    <3>3. \A j \in Id : file'[j].moved => file[j].moved
      BY <3>2 DEF Kept
    <3> QED BY <2>1, <2>2, <3>3, RollRoom DEF RollAts, Rolling
  <2> QED BY <2>3, <2>4
<1>8. CASE ResetOldZone
  <2>1. /\ at = "reset" /\ at' = "done" /\ UNCHANGED <<op, calls, file, metaLog>>
        /\ finished' \subseteq finished /\ log'[metaLog] = log[metaLog]
    BY <1>8 DEF ResetOldZone, memoryVars, otherVars, deviceVars, Emptied, TypeInv, Where,
       Types, DeviceTypes, Up
  <2>2. (Unfinished => Unfinished') /\ (Rolled => Rolled')
    BY <2>1 DEF Unfinished, Up, Rolled
  <2> QED BY <2>1, <2>2, RollRoom DEF RollAts, Rolling
<1> QED BY <1>1, <1>2, <1>3, <1>4, <1>5, <1>6, <1>7, <1>8 DEF Roll

(* A call returns, and has written no more than it asked for.               *)
LEMMA ReturnRoom ==
  ASSUME TypeInv, TypeInv', FrameInv, at \in {"wrlock", "done", "error"},
         at = "error" => op.kind # "mount", op.kind # "abort", Return,
         UNCHANGED <<log, finished, metaLog, calls>>,
         \A i \in Id : file'[i].moved => file[i].moved /\ ~(op.kind = "replace" /\ op.id = i)
  PROVE  FrameInv'
<1>1. at' = "idle" /\ op' = NoOp /\ op'.kind = "none" /\ ~op'.deleting
  BY NoOpTypes DEF Return
<1>2. OpInv'
  BY <1>1 DEF OpInv
<1>3. ASSUME Roomy, Budget, Unfinished, Rolled, Unrolled
      PROVE  (Budget /\ Unfinished /\ Rolled /\ Unrolled)'
  <2>1. Up /\ Up' /\ Moved' \subseteq Moved /\ metaLog' \notin finished'
    BY <1>1, <1>3 DEF Up, Moved, Unfinished
  <2>2. Used' = Len(log[metaLog]) /\ Used >= Len(log[metaLog])
    <3>1. Unwritten' = 0 /\ Due' = 0
      BY <1>1 DEF Unwritten, Due
    <3>2. PICK l \in Nat, x \in 0..1, y \in 0..1 :
            l = Len(log[metaLog]) /\ x = Unwritten /\ y = Due
      BY <2>1, RoomTypes
    <3>3. Used' = l
      BY <1>1, <3>1, <3>2 DEF Used
    <3>4. CASE op.kind = "mount"
      <4>1. at = "done"
        BY <3>4 DEF FrameInv, OpInv
      <4>2. l = 2
        BY <1>3, <3>2, <3>4, <4>1 DEF Rolled
      <4> QED BY <3>2, <3>3, <3>4, <4>2 DEF Used
    <3>5. CASE op.kind # "mount"
      <4>1. op.kind \notin {"mount", "abort"}
        BY <3>5
      <4> QED BY <3>2, <3>3, <4>1 DEF Used
    <3> QED BY <3>4, <3>5
  <2>3. Used' + 2 * calls <= Used + 2 * calls'
    <3>1. PICK l \in Nat, u \in Nat, c \in Nat : l = Len(log[metaLog]) /\ u = Used /\ c = calls
      BY <2>1, RoomTypes
    <3>2. l + 2 * c <= u + 2 * c
      BY <2>2, <3>1
    <3> QED BY <2>2, <3>1, <3>2
  <2>4. Budget'
    BY <1>3, <2>1, <2>3, BudgetKept
  <2> QED BY <1>1, <2>1, <2>4 DEF Unfinished, Rolled, Unrolled, RollAts, Rolling
<1>4. RoomInv'
  BY <1>3 DEF FrameInv, RoomInv, Roomy
<1> QED BY <1>2, <1>4 DEF FrameInv

(* AcquireWRLock keeps FrameInv.                                            *)
LEMMA AcquireWRLockFrame ==
  ASSUME TypeInv, TypeInv', FrameInv, AcquireWRLock
  PROVE  FrameInv'
<1>1. /\ at = "wrlock" /\ op.id \in Id /\ op.who \in Threads \cup {NoThread} /\ Return
      /\ Files(file) /\ op.kind = "reopen"
      /\ file' = [file EXCEPT ![op.id].wr = op.who]
      /\ UNCHANGED <<log, finished, metaLog, calls>>
  BY DEF AcquireWRLock, TypeInv, Valid, Types, MemoryTypes, CallTypes, OpType, deviceVars,
     otherVars, FrameInv, OpInv
<1>2. \A i \in Id : file'[i].moved => file[i].moved
  BY <1>1, LockFacts
<1> QED BY <1>1, <1>2, ReturnRoom

(* Mounted keeps FrameInv.                                                  *)
LEMMA MountedFrame ==
  ASSUME TypeInv, TypeInv', FrameInv, Mounted
  PROVE  FrameInv'
<1>1. /\ at = "done" /\ op.kind = "mount" /\ Return
      /\ UNCHANGED <<log, finished, metaLog, calls, file>>
  BY DEF Mounted, deviceVars, otherVars, memoryVars
<1> QED BY <1>1, ReturnRoom

(* Persisted keeps FrameInv.                                                *)
LEMMA PersistedFrame ==
  ASSUME TypeInv, TypeInv', FrameInv, Persisted
  PROVE  FrameInv'
<1>1. /\ at = "done" /\ op.id \in Id /\ op.who \in Threads \cup {NoThread} /\ Return
      /\ op.kind # "abort"
      /\ UNCHANGED <<log, finished, metaLog, calls>>
  BY DEF Persisted, TypeInv, Valid, Types, CallTypes, OpType, deviceVars
<1>2. PICK f : f = MetadataSynced(file, {op.id}) /\ Files(f) /\ Kept(file, f)
  BY <1>1, MarkTypes, KeptFacts DEF TypeInv, Types, MemoryTypes
<1>3. \A i \in Id : file'[i].moved => file[i].moved /\ ~(op.kind = "replace" /\ op.id = i)
  <2>1. CASE op.kind = "create"
    <3>1. file' = [f EXCEPT ![op.id].wr = op.who]
      BY <1>2, <2>1 DEF Persisted
    <3>2. \A i \in Id : file'[i].moved => f[i].moved
      BY <1>1, <1>2, <3>1, LockFacts
    <3> QED BY <1>2, <2>1, <3>2 DEF Kept
  <2>2. CASE op.kind \in {"close", "replace"}
    <3>1. file' = [f EXCEPT ![op.id].wr = NoThread, ![op.id].moved = FALSE]
      BY <1>2, <2>2 DEF Persisted
    <3>2. Unlocked(f, file', op.id)
      BY <1>1, <1>2, <3>1, UnlockFacts
    <3> QED BY <1>2, <3>2 DEF Kept, Unlocked
  <2>3. CASE op.kind \notin {"create", "close", "replace"}
    <3>1. file' = f
      BY <1>2, <2>3 DEF Persisted
    <3> QED BY <1>2, <2>3, <3>1 DEF Kept
  <2> QED BY <2>1, <2>2, <2>3
<1> QED BY <1>1, <1>3, ReturnRoom

(* RollBack keeps FrameInv.                                                 *)
LEMMA RollBackFrame ==
  ASSUME TypeInv, TypeInv', FrameInv, RollBack
  PROVE  FrameInv'
<1>1. /\ at = "error" /\ op.kind \notin {"mount", "abort"} /\ Return /\ Files(file)
      /\ UNCHANGED <<log, finished, metaLog, calls>>
  BY DEF RollBack, TypeInv, Types, MemoryTypes, deviceVars, otherVars
<1>2. \A i \in Id : file'[i].moved => file[i].moved /\ ~(op.kind = "replace" /\ op.id = i)
  <2>1. CASE op.deleting
    <3>1. op.victim \in Id /\ op.name \in Names /\ op.kind # "replace"
      BY <2>1 DEF TypeInv, Valid, FrameInv, OpInv
    <3>2. file' = AddLinkName(file, op.victim, op.name)
      BY <2>1 DEF RollBack, FrameInv, OpInv
    <3>3. Relinked(file, file', op.victim)
      BY <1>1, <3>1, <3>2, RelinkFacts
    <3> QED BY <3>1, <3>3 DEF Relinked
  <2>2. CASE ~op.deleting /\ op.kind = "create"
    <3>1. op.id \in Id /\ file' = [file EXCEPT ![op.id] = NoFile]
      BY <2>2 DEF RollBack, TypeInv, Valid
    <3>2. file'[op.id] = NoFile /\ \A j \in Id \ {op.id} : file'[j] = file[j]
      BY <1>1, <3>1, ReplaceFacts
    <3>3. ~NoFile.moved
      BY EmptySeq, NewFileTypes DEF NoFile
    <3> QED BY <2>2, <3>1, <3>2, <3>3
  <2>3. CASE op.kind = "link"
    <3>1. op.id \in Id /\ op.name \in Names /\ file' = RemoveLinkName(file, op.id, op.name)
      BY <2>3 DEF RollBack, TypeInv, Valid, FrameInv, OpInv
    <3>2. Relinked(file, file', op.id)
      BY <1>1, <3>1, RelinkFacts
    <3> QED BY <2>3, <3>2 DEF Relinked
  <2>4. CASE ~op.deleting /\ op.kind = "rename"
    <3>1. /\ op.id \in Id /\ op.name \in Names /\ op.src \in Names
          /\ file' = RenameLink(file, op.id, op.name, op.src)
      BY <2>4 DEF RollBack, TypeInv, Valid
    <3>2. Relinked(file, file', op.id)
      BY <1>1, <3>1, RelinkFacts
    <3> QED BY <2>4, <3>2 DEF Relinked
  <2>5. CASE op.kind = "replace"
    <3>1. op.id \in Id /\ file' = [file EXCEPT ![op.id].wr = NoThread, ![op.id].moved = FALSE]
      BY <2>5 DEF RollBack, TypeInv, Valid, FrameInv, OpInv
    <3>2. Unlocked(file, file', op.id)
      BY <1>1, <3>1, UnlockFacts
    <3> QED BY <3>2 DEF Unlocked
  <2>6. CASE op.kind \in {"sync", "close"}
    <3>1. file' = file
      BY <2>6 DEF RollBack, FrameInv, OpInv
    <3> QED BY <2>6, <3>1
  <2> QED BY <2>1, <2>2, <2>3, <2>4, <2>5, <2>6 DEF RollBack
<1> QED BY <1>1, <1>2, ReturnRoom

(* Deleted keeps FrameInv.                                                  *)
LEMMA DeletedFrame ==
  ASSUME TypeInv, TypeInv', FrameInv, Deleted
  PROVE  FrameInv'
<1>1. /\ at = "done" /\ op.deleting /\ op.kind \in {"delete", "rename", "create"}
      /\ op.victim \in Id /\ op.name \in Names /\ op \in OpType /\ Files(file)
      /\ UNCHANGED <<log, finished, metaLog, calls>>
  BY DEF Deleted, TypeInv, Valid, Types, CallTypes, MemoryTypes, deviceVars, FrameInv, OpInv
<1>2. PICK f : /\ f = SetDeleted(file, op.victim) /\ Files(f)
               /\ \A j \in Id : f[j].moved <=> file[j].moved
  BY <1>1, SetDeletedFacts
<1>3. CASE op.kind \in {"create", "rename"} /\ op' = [op EXCEPT !.deleting = FALSE]
           /\ at' = "persist" /\ \A j \in Id : file'[j].moved => f[j].moved
  <2>1. op'.kind = op.kind /\ op'.id = op.id /\ ~op'.deleting
    BY <1>1, <1>3 DEF OpType
  <2>2. OpInv'
    BY <1>3, <2>1 DEF FrameInv, OpInv
  <2>3. ASSUME Roomy, Budget, Unfinished, Rolled, Unrolled
        PROVE  (Budget /\ Unfinished /\ Rolled /\ Unrolled)'
    <3>1. Up /\ Up' /\ Moved' \subseteq Moved /\ metaLog' \notin finished'
      BY <1>1, <1>2, <1>3, <2>1, <2>3 DEF Up, Moved, Unfinished
    <3>2. Unwritten = 0 /\ Due = 1 /\ Unwritten' = 1 /\ Due' = 0
      BY <1>1, <1>3, <2>1 DEF Unwritten, Due
    <3>3. PICK l \in Nat, c \in Nat : l = Len(log[metaLog]) /\ c = calls
      BY <3>1, RoomTypes
    <3>4. Used = l + 0 + 1 /\ Used' = l + 1 + 0
      BY <1>1, <1>3, <2>1, <3>2, <3>3 DEF Used
    <3>5. Used' + 2 * calls <= Used + 2 * calls'
      <4>1. l + 1 + 0 + 2 * c <= l + 0 + 1 + 2 * c
        OBVIOUS
      <4> QED BY <1>1, <3>3, <3>4, <4>1
    <3>6. Budget'
      BY <2>3, <3>1, <3>5, BudgetKept
    <3> QED BY <1>3, <2>1, <3>1, <3>6 DEF Unfinished, Rolled, Unrolled, RollAts, Rolling
  <2>4. RoomInv'
    BY <2>3 DEF FrameInv, RoomInv, Roomy
  <2> QED BY <2>2, <2>4 DEF FrameInv
<1>4. CASE op.kind = "create" /\ CreateFile(f, op.name) /\ op' = [op EXCEPT !.deleting = FALSE]
  <2>1. nextId \in Id
    BY <1>1, <1>4 DEF TypeInv, Valid
  <2>2. at' = "persist" /\ \A j \in Id : file'[j].moved => f[j].moved
    BY <1>1, <1>2, <1>4, <2>1, CreateFileMoved
  <2> QED BY <1>3, <1>4, <2>2
<1>5. CASE op.kind = "rename" /\ MoveFile(f, op.id, op.src, op.name)
           /\ op' = [op EXCEPT !.deleting = FALSE]
  <2>1. op.id \in Id /\ op.src \in Names
    BY <1>5 DEF TypeInv, Valid
  <2>2. at' = "persist" /\ \A j \in Id : file'[j].moved => f[j].moved
    BY <1>1, <1>2, <1>5, <2>1, MoveFileMoved
  <2> QED BY <1>3, <1>5, <2>2
<1>6. CASE file' = f /\ Return
  <2>1. \A i \in Id : file'[i].moved => file[i].moved /\ ~(op.kind = "replace" /\ op.id = i)
    BY <1>1, <1>2, <1>6
  <2> QED BY <1>1, <1>6, <2>1, ReturnRoom
<1> QED BY <1>2, <1>4, <1>5, <1>6 DEF Deleted

(* A process that ends keeps nothing.                                       *)
LEMMA ForgetFrame ==
  ASSUME Forget
  PROVE  FrameInv'
<1>1. at' = "down" /\ op' = NoOp /\ op'.kind = "none" /\ ~op'.deleting
  BY NoOpTypes DEF Forget
<1> QED BY <1>1 DEF FrameInv, OpInv, RoomInv, Budget, Unfinished, Rolled, Unrolled, Up, RollAts,
           Rolling

(* The files that a mount restores: those that have a name, unlocked.       *)
Remounted(f, st) ==
  \A i \in Id : /\ f[i].wr = NoThread /\ ~f[i].deleted /\ ~f[i].moved
                /\ f[i].links = IF i \in Range(st.files) THEN st.image[i].links ELSE <<>>

(* What Mount sets.                                                         *)
LEMMA MountFiles ==
  ASSUME TypeInv, Mount, Recovered.status = "ok"
  PROVE  /\ Remounted(file', Recovered) /\ Recovered \in State
         /\ at' \in {"allocate", "error"}
         /\ metaLog' = NewestZone /\ seq' = log[NewestZone][1].seq
         /\ files' = Recovered.files /\ nextId' = Recovered.next
         /\ op'.kind = "mount" /\ ~op'.deleting
         /\ op'.pre = Recovered.files /\ op'.mid = Recovered.files /\ op'.post = Recovered.files
<1> DEFINE st == Recovered
<1>1. st \in State
  BY RecoveredTypes DEF TypeInv, Types, DeviceTypes
<1>2. MountSets(st)
  BY MountRestores
<1> HIDE DEF st
<1>3. PICK ns \in NameMap, img \in [Id -> Image] : ns = st.files /\ img = st.image
  BY <1>1 DEF State
<1>4. ASSUME NEW i \in Id
      PROVE  /\ file'[i].wr = NoThread /\ ~file'[i].deleted /\ ~file'[i].moved
             /\ file'[i].links = IF i \in Range(ns) THEN img[i].links ELSE <<>>
  <2>1. /\ NoFile.wr = NoThread /\ ~NoFile.deleted /\ ~NoFile.moved /\ NoFile.links = <<>>
    BY EmptySeq, NewFileTypes DEF NoFile
  <2>2. PICK e \in Image : e = img[i]
    OBVIOUS
  <2>3. PICK g : g = file'[i] /\ IF i \in Range(ns) THEN Decodes(g, e) ELSE g = NoFile
    BY <1>2, <1>3, <2>2 DEF MountSets
  <2> QED BY <2>1, <2>2, <2>3, DecodesTypes
<1>5. Remounted(file', st)
  BY <1>3, <1>4 DEF Remounted
<1>6. /\ op'.kind = "mount" /\ ~op'.deleting
      /\ op'.pre = st.files /\ op'.mid = st.files /\ op'.post = st.files
  BY <1>2, <1>3, NoOpTypes DEF MountSets, OpType
<1> QED BY <1>1, <1>2, <1>5, <1>6 DEF MountSets, st

(* Mount keeps FrameInv.                                                    *)
LEMMA MountFrame ==
  ASSUME TypeInv, TypeInv', FrameInv, Mount
  PROVE  FrameInv'
<1>1. CASE Recovered.status # "ok"
  <2>1. at = "down" /\ at' = "unmountable" /\ op' = op
    BY <1>1 DEF Mount
  <2> QED BY <2>1 DEF FrameInv, OpInv, RoomInv, Budget, Unfinished, Rolled, Unrolled, Up,
             RollAts, Rolling
<1>2. CASE Recovered.status = "ok"
  <2>1. /\ at' \in {"allocate", "error"} /\ op'.kind = "mount" /\ ~op'.deleting
        /\ Remounted(file', Recovered)
    BY <1>2, MountFiles
  <2>2. OpInv'
    BY <2>1 DEF OpInv
  <2>3. Moved' = {} /\ Used' = 2 /\ calls' \in Nat
    BY <2>1, RoomTypesNext DEF Moved, Remounted, Used
  <2>4. Budget'
    <3>1. PICK c \in Nat : c = calls'
      BY <2>3
    <3>2. Cardinality({}) = 0
      BY FS_EmptySet
    <3>3. 2 + 0 <= 2 + 2 * c
      OBVIOUS
    <3> QED BY <2>3, <3>1, <3>2, <3>3 DEF Budget
  <2>5. Unfinished' /\ Rolled' /\ Unrolled'
    BY <2>1 DEF Unfinished, Rolled, Unrolled
  <2> QED BY <2>2, <2>4, <2>5 DEF FrameInv, RoomInv
<1> QED BY <1>1, <1>2

(* DeleteZenFS keeps FrameInv.                                              *)
LEMMA DeleteZenFSFrame ==
  ASSUME TypeInv, TypeInv', FrameInv, DeleteZenFS
  PROVE  FrameInv'
<1>1. CASE at' = "allocate"
  <2>1. /\ at = "error" /\ op.kind = "mount" /\ op' = [op EXCEPT !.kind = "abort"]
        /\ UNCHANGED <<log, metaLog, file, finished, calls>>
    BY <1>1 DEF DeleteZenFS, Forget, memoryVars
  <2>2. op'.kind = "abort" /\ op'.deleting = op.deleting /\ op'.id = op.id
    BY <2>1 DEF TypeInv, Types, CallTypes, OpType
  <2>3. OpInv'
    BY <1>1, <2>1, <2>2 DEF FrameInv, OpInv, RollAts
  <2>4. ASSUME Roomy, Budget PROVE Budget'
    <3>1. Moved' = Moved
      BY <2>1, <2>2 DEF Moved
    <3>2. Used = 2 /\ Used' = 2 /\ Up
      BY <2>1, <2>2 DEF Used, Up
    <3> QED BY <2>1, <2>4, <3>1, <3>2 DEF Budget
  <2>5. Unfinished' /\ Rolled' /\ Unrolled'
    BY <1>1, <2>2 DEF Unfinished, Rolled, Unrolled
  <2>6. RoomInv'
    BY <2>4, <2>5 DEF FrameInv, RoomInv, Roomy
  <2> QED BY <2>3, <2>6 DEF FrameInv
<1>2. CASE Forget
  BY <1>2, ForgetFrame
<1> QED BY <1>1, <1>2 DEF DeleteZenFS

(* The links of a file with one name, and of one without.                   *)
LEMMA FewLinks ==
  ASSUME NEW n
  PROVE  /\ Once(<<n>>) /\ Range(<<n>>) = {n}
         /\ Once(<<>>) /\ Range(<<>>) = {} /\ <<n>> # <<>>
<1>1. DOMAIN <<n>> = {1} /\ <<n>>[1] = n /\ DOMAIN <<>> = {} /\ Len(<<n>>) = 1 /\ Len(<<>>) = 0
  OBVIOUS
<1> QED BY <1>1 DEF Once, Range

(* The first files have their names as links.                               *)
LEMMA InitFiles ==
  ASSUME Init
  PROVE  /\ \A i \in Id : /\ file[i].wr = NoThread /\ ~file[i].deleted /\ ~file[i].moved
                          /\ LinkedTo(file[i].links, files, i)
         /\ \A n \in Names : files[n] < nextId
<1>1. PICK s \in Seq(Existing) :
         /\ Len(s) \in 0..MaxFileId
         /\ \A j, k \in 1..Len(s) : s[j] = s[k] => j = k
         /\ \A n \in Existing : /\ First(s, n) \in 1..Len(s) /\ s[First(s, n)] = n
                                /\ files[n] = First(s, n)
         /\ \A n \in Names \ Existing : files[n] = None
         /\ file = [i \in Id |-> IF i <= Len(s) THEN Born(s[i]) ELSE NoFile]
         /\ nextId = Len(s) + 1
  BY InitFacts
<1>2. PICK l \in Nat : l = Len(s) /\ l <= MaxFileId /\ MaxFileId \in Nat
  BY <1>1, MetaAssumption
<1>3. \A j \in 1..l : s[j] \in Existing /\ s[j] \in Names
  BY <1>2, MetaAssumption
<1>4. ASSUME NEW i \in Id
      PROVE  /\ file[i].wr = NoThread /\ ~file[i].deleted /\ ~file[i].moved
             /\ LinkedTo(file[i].links, files, i)
  <2>1. i \in Nat /\ i # None /\ i >= 1
    BY DEF Id, None
  <2>2. CASE i <= l
    <3>1. i \in 1..l
      BY <2>1, <2>2
    <3>2. PICK x \in Names : x = s[i] /\ x \in Existing
      BY <1>3, <3>1
    <3>3. file[i] = Born(x)
      BY <1>1, <1>2, <2>2, <3>2
    <3>4. Named(files, i) = {x}
      <4>1. files[x] = First(s, x) /\ First(s, x) \in 1..Len(s) /\ s[First(s, x)] = s[i]
        BY <1>1, <3>2
      <4>2. files[x] = i
        BY <1>1, <1>2, <3>1, <4>1
      <4>3. ASSUME NEW n \in Names, files[n] = i PROVE n = x
        <5>1. n \in Existing
          BY <1>1, <2>1, <4>3
        <5> QED BY <1>1, <3>2, <4>3, <5>1
      <4> QED BY <4>2, <4>3 DEF Named
    <3> QED BY <3>3, <3>4, BornTypes, FewLinks DEF LinkedTo
  <2>3. CASE ~(i <= l)
    <3>1. file[i] = NoFile
      BY <1>1, <1>2, <2>3
    <3>2. Named(files, i) = {}
      <4>1. ASSUME NEW n \in Names, files[n] = i PROVE FALSE
        <5>1. n \in Existing
          BY <1>1, <2>1, <4>1
        <5>2. i \in 1..l
          BY <1>1, <1>2, <4>1, <5>1
        <5> QED BY <2>3, <5>2
      <4> QED BY <4>1 DEF Named
    <3>3. /\ NoFile.wr = NoThread /\ ~NoFile.deleted /\ ~NoFile.moved /\ NoFile.links = <<>>
      BY EmptySeq, NewFileTypes DEF NoFile
    <3> QED BY <3>1, <3>2, <3>3, FewLinks DEF LinkedTo
  <2> QED BY <2>2, <2>3
<1>5. ASSUME NEW n \in Names PROVE files[n] < nextId
  <2>1. CASE n \in Existing
    <3>1. PICK k \in 1..l : k = files[n]
      BY <1>1, <1>2, <2>1
    <3> QED BY <1>1, <1>2, <3>1
  <2>2. CASE n \notin Existing
    <3>1. files[n] = 0 /\ nextId = l + 1
      BY <1>1, <1>2, <2>2 DEF None
    <3> QED BY <3>1
  <2> QED BY <2>1, <2>2
<1> QED BY <1>4, <1>5

(* The first states satisfy FrameInv.                                       *)
LEMMA InitFrame == Init => FrameInv
<1> SUFFICES ASSUME Init PROVE FrameInv
  OBVIOUS
<1>1. at = "idle" /\ op = NoOp /\ metaLog = 1 /\ finished = {} /\ calls = 0
  BY Zenon DEF Init
<1>2. op.kind = "none" /\ ~op.deleting
  BY <1>1, NoOpTypes
<1>3. OpInv
  BY <1>1, <1>2 DEF OpInv
<1>4. Moved = {}
  BY InitFiles DEF Moved
<1>5. Len(log[metaLog]) = 2
  <2>1. PICK q, r : log = [z \in MetaZone |-> IF z = 1 THEN <<q, r>> ELSE <<>>]
    BY Zenon DEF Init
  <2>2. 1 \in MetaZone
    BY MetaAssumption DEF MetaZone
  <2>3. log[metaLog] = <<q, r>>
    BY <1>1, <2>1, <2>2
  <2> QED BY <2>3
<1>6. Used = 2
  <2>1. Unwritten = 0 /\ Due = 0
    BY <1>1, <1>2 DEF Unwritten, Due
  <2> QED BY <1>2, <1>5, <2>1 DEF Used
<1>7. Budget
  <2>1. Cardinality({}) = 0
    BY FS_EmptySet
  <2> QED BY <1>1, <1>4, <1>6, <2>1 DEF Budget
<1>8. Unfinished /\ Rolled /\ Unrolled
  BY <1>1, <1>2 DEF Unfinished, Rolled, Unrolled, RollAts, Rolling
<1> QED BY <1>3, <1>7, <1>8 DEF FrameInv, RoomInv

(* The call in progress is as far as at says; and a metadata zone with room *)
(* for the records of all calls is rolled by Mount alone.                   *)
LEMMA FrameInvariant == Spec => []FrameInv
<1>1. TypeInv /\ TypeInv' /\ FrameInv /\ [Next]_vars => FrameInv'
  <2> SUFFICES ASSUME TypeInv, TypeInv', FrameInv, [Next]_vars PROVE FrameInv'
    OBVIOUS
  <2>1. CASE UNCHANGED vars
    BY <2>1, SameRoom DEF vars, deviceVars, memoryVars
  <2>2. CASE Step
    BY <2>2, PersistRecordFrame, RollFrame, AcquireWRLockFrame, DeletedFrame, PersistedFrame,
       RollBackFrame, MountFrame, MountedFrame, DeleteZenFSFrame, ForgetFrame DEF Step, Shutdown
  <2>3. CASE \E t \in Threads : Call(t)
    BY <2>3, CallFrame
  <2>4. CASE Crash
    BY <2>4, ForgetFrame DEF Crash
  <2> QED BY <2>1, <2>2, <2>3, <2>4 DEF Next
<1> QED BY <1>1, InitFrame, TypesInvariant, PTL DEF Spec

-----------------------------------------------------------------------------
(* Links and names change together                                          *)

(* A name taken from a file, and one given to it.                           *)
LEMMA UnlinkName ==
  ASSUME NEW f, Files(f), NEW ns \in NameMap, NEW n \in Names, NEW i \in Id, ns[n] = i,
         Linked(f, ns, None)
  PROVE  Linked(RemoveLinkName(f, i, n), [ns EXCEPT ![n] = None], None)
<1>1. PICK g : g = RemoveLinkName(f, i, n) /\ Relinked(f, g, i)
               /\ g[i].links = RemoveFirst(f[i].links, n)
  BY RelinkFacts
<1>2. PICK s \in Seq(Names) : s = f[i].links
  BY DEF Files, FileType
<1>3. PICK after : after = [ns EXCEPT ![n] = None]
  OBVIOUS
<1>4. \A j \in Id : Named(after, j) = Named(ns, j) \ {n}
  BY <1>3 DEF Named, NameMap, Id, None
<1>5. i # None /\ Once(s) /\ Range(s) = Named(ns, i) /\ n \in Range(s)
  BY <1>2 DEF Linked, LinkedTo, Named, Id, None
<1>6. Once(RemoveFirst(s, n)) /\ Range(RemoveFirst(s, n)) = Range(s) \ {n}
  BY <1>5, RemoveLinkFacts
<1>7. ASSUME NEW j \in Id \ {None} PROVE LinkedTo(g[j].links, after, j)
  <2>1. CASE j = i
    BY <1>1, <1>2, <1>4, <1>5, <1>6, <2>1 DEF LinkedTo
  <2>2. CASE j # i
    <3>1. g[j].links = f[j].links /\ n \notin Named(ns, j)
      BY <1>1, <2>2 DEF Relinked, Named
    <3> QED BY <1>4, <3>1 DEF Linked, LinkedTo
  <2> QED BY <2>1, <2>2
<1>8. Linked(g, after, None)
  BY <1>7 DEF Linked
<1> QED BY <1>1, <1>3, <1>8

(* A name given to a file.                                                  *)
LEMMA LinkName ==
  ASSUME NEW f, Files(f), NEW ns \in NameMap, NEW n \in Names, NEW i \in Id, ns[n] = None,
         Linked(f, ns, None)
  PROVE  Linked(AddLinkName(f, i, n), [ns EXCEPT ![n] = i], None)
<1>1. PICK g : g = AddLinkName(f, i, n) /\ Relinked(f, g, i)
               /\ g[i].links = Append(f[i].links, n)
  BY RelinkFacts
<1>2. PICK s \in Seq(Names) : s = f[i].links
  BY DEF Files, FileType
<1>3. PICK after : after = [ns EXCEPT ![n] = i]
  OBVIOUS
<1>4. /\ Named(after, i) = Named(ns, i) \cup {n}
      /\ \A j \in Id \ {i} : Named(after, j) = Named(ns, j)
  BY <1>3 DEF Named, NameMap, Id, None
<1>5. i # None /\ Once(s) /\ Range(s) = Named(ns, i) /\ n \notin Range(s)
  BY <1>2 DEF Linked, LinkedTo, Named, Id, None
<1>6. Once(Append(s, n)) /\ Range(Append(s, n)) = Range(s) \cup {n}
  BY <1>5, AppendLinkFacts
<1>7. ASSUME NEW j \in Id \ {None} PROVE LinkedTo(g[j].links, after, j)
  <2>1. CASE j = i
    BY <1>1, <1>2, <1>4, <1>5, <1>6, <2>1 DEF LinkedTo
  <2>2. CASE j # i
    <3>1. g[j].links = f[j].links
      BY <1>1, <2>2 DEF Relinked
    <3> QED BY <1>4, <2>2, <3>1 DEF Linked, LinkedTo
  <2> QED BY <2>1, <2>2
<1>8. Linked(g, after, None)
  BY <1>7 DEF Linked
<1> QED BY <1>1, <1>3, <1>8

(* A file with a name has a link, and one with a link a name.               *)
LEMMA NamedHasLink ==
  ASSUME NEW f, Files(f), NEW ns, NEW i \in Id, LinkedTo(f[i].links, ns, i)
  PROVE  Named(ns, i) # {} <=> f[i].links # <<>>
<1>1. PICK s \in Seq(Names) : s = f[i].links
  BY DEF Files, FileType
<1>2. Range(s) # {} <=> s # <<>>
  <2>1. s # <<>> => Len(s) >= 1 /\ 1 \in DOMAIN s
    BY EmptySeq, LenProperties
  <2> QED BY <2>1, FewLinks DEF Range
<1> QED BY <1>1, <1>2 DEF LinkedTo

(* A rename moves a link.                                                   *)
LEMMA MoveName ==
  ASSUME NEW f, Files(f), NEW ns \in NameMap, NEW s \in Names, NEW d \in Names, NEW i \in Id,
         ns[s] = i, ns[d] = None, Linked(f, ns, None),
         NEW after, after = [ns EXCEPT ![s] = None, ![d] = i]
  PROVE  /\ Linked(RenameLink(f, i, s, d), after, None)
         /\ RenameLink(f, i, s, d)[i].links # <<>>
         /\ after \in NameMap
<1>1. PICK g : g = RemoveLinkName(f, i, s) /\ Files(g)
  BY LinkTypes
<1>2. PICK m \in NameMap : m = [ns EXCEPT ![s] = None]
  BY NameMapParts
<1>3. m[d] = None /\ after = [m EXCEPT ![d] = i] /\ after \in NameMap
  BY <1>2 DEF NameMap
<1>4. Linked(g, m, None)
  BY <1>1, <1>2, UnlinkName
<1>5. Linked(AddLinkName(g, i, d), after, None)
  <2>1. Linked(AddLinkName(g, i, d), [m EXCEPT ![d] = i], None)
    BY <1>1, <1>3, <1>4, LinkName
  <2> QED BY <1>3, <2>1
<1>6. Files(AddLinkName(g, i, d)) /\ AddLinkName(g, i, d) = RenameLink(f, i, s, d)
  BY <1>1, LinkTypes DEF RenameLink
<1>7. Named(after, i) # {}
  BY <1>3 DEF Named, NameMap
<1>8. LinkedTo(RenameLink(f, i, s, d)[i].links, after, i)
  <2>1. i \in Id \ {None}
    BY DEF Id, None
  <2> QED BY <1>5, <1>6, <2>1 DEF Linked
<1>9. PICK h : h = RenameLink(f, i, s, d)
  OBVIOUS
<1>10. Files(h) /\ LinkedTo(h[i].links, after, i)
  BY <1>6, <1>8, <1>9
<1>11. h[i].links # <<>>
  BY <1>7, <1>10, NamedHasLink
<1> QED BY <1>3, <1>5, <1>6, <1>9, <1>11

(* The same links, the same names.                                          *)
LEMMA KeepNames ==
  ASSUME NEW f, NEW g, NEW ns, NEW x, NEW v, Linked(f, ns, x), Homed(f, v), Kept(f, g)
  PROVE  Linked(g, ns, x) /\ Homed(g, v)
BY DEF Linked, Homed, Kept

(* Neither a link nor a name of file i, so that its record changes no name. *)
LEMMA RecordKeepsNames ==
  ASSUME NEW f, Files(f), NEW ns \in NameMap, NEW i \in Id, LinkedTo(f[i].links, ns, i),
         f[i].links # <<>>, NEW r, r = UpdateRecord(f, i) \/ r = ReplaceRecord(f, i)
  PROVE  Turns(r, ns, ns)
<1>1. /\ r.tag \in {"update", "replace"} /\ r.file.id = i /\ r.file.links = f[i].links
  BY RecordTypes DEF Files
<1>2. Named(ns, i) # {}
  BY NamedHasLink
<1>3. Touches(ns, ns, i)
  BY DEF Touches
<1> QED BY <1>1, <1>2, <1>3 DEF Turns

(* The update of a named file that gets or loses a name.                    *)
LEMMA RecordTurnsNames ==
  ASSUME NEW f, Files(f), NEW ns \in NameMap, NEW after \in NameMap, NEW i \in Id,
         LinkedTo(f[i].links, after, i), Named(ns, i) # {}, Touches(ns, after, i)
  PROVE  Turns(UpdateRecord(f, i), ns, after)
<1>1. PICK r : r = UpdateRecord(f, i)
  OBVIOUS
<1>2. r.tag = "update" /\ r.file.id = i /\ r.file.links = f[i].links
  BY <1>1, RecordTypes DEF Files
<1> QED BY <1>1, <1>2 DEF Turns

-----------------------------------------------------------------------------
(* The log grows                                                            *)

(* The zone that is picked.                                                 *)
LEMMA HeadsLeads ==
  ASSUME NEW c
  PROVE  (Heads(log, c) <=> Leads(c)) /\ (Stops(log, c) <=> Blocks(c))
BY DEF Heads, Stops, Newer, Leads, Blocks, Ahead

(* A further record is decoded after those before it.                       *)
LEMMA DecodedTail ==
  ASSUME NEW l \in Seq(Record), l # <<>>, NEW r \in Record
  PROVE  /\ Append(l, r) \in Seq(Record) /\ Len(Append(l, r)) = Len(l) + 1
         /\ Append(l, r)[1] = l[1]
         /\ Append(l, r)[Len(l) + 1] = r
         /\ Decoded(Tail(Append(l, r))) = DecodeRecord(Decoded(Tail(l)), r)
<1>1. /\ Append(l, r) \in Seq(Record) /\ Len(Append(l, r)) = Len(l) + 1
      /\ Append(l, r)[Len(l) + 1] = r
      /\ \A k \in 1..Len(l) : Append(l, r)[k] = l[k]
  BY AppendProperties
<1>2. 1 \in 1..Len(l)
  BY EmptySeq, LenProperties
<1>3. Tail(l) \in Seq(Record)
  OBVIOUS
<1>4. Tail(Append(l, r)) = Append(Tail(l), r)
  BY HeadTailAppend
<1>5. PICK s \in Seq(Record) : s = Tail(l)
  BY <1>3
<1>6. Decoded(Append(s, r)) = DecodeRecord(Decoded(s), r)
  BY DecodedAppend
<1> QED BY <1>1, <1>2, <1>4, <1>5, <1>6

(* A log with a further record in a zone, and one with another content.     *)
Grown(l, m, c, r) == m = [l EXCEPT ![c] = Append(@, r)]
Put(l, m, z, x) == m = [l EXCEPT ![z] = x]

(* A record in the zone that leads.                                         *)
LEMMA HeadsAppend ==
  ASSUME NEW l \in [MetaZone -> Seq(Record)], NEW c, Heads(l, c), NEW r \in Record,
         Sound(DecodeRecord(Decoded(Tail(l[c])), r)),
         NEW m, Grown(l, m, c, r)
  PROVE  /\ Heads(m, c) /\ m[c][1].seq = l[c][1].seq
         /\ Decoded(Tail(m[c])) = DecodeRecord(Decoded(Tail(l[c])), r)
<1>1. c \in MetaZone /\ Whole(l[c]) /\ Newer(l, c)
  BY DEF Heads
<1>2. PICK x \in Seq(Record) : x = l[c] /\ Len(x) >= 2 /\ x[1] \in Supers /\ Len(x) \in Nat
  BY <1>1, LenProperties DEF Whole
<1>3. x # <<>>
  BY <1>2, EmptySeq
<1>4. PICK y \in Seq(Record) :
        /\ y = Append(x, r) /\ Len(y) = Len(x) + 1 /\ y[1] = x[1]
        /\ Decoded(Tail(y)) = DecodeRecord(Decoded(Tail(x)), r)
  BY <1>3, DecodedTail
<1>5. m[c] = y /\ \A z \in MetaZone \ {c} : m[z] = l[z]
  BY <1>1, <1>2, <1>4 DEF Grown
<1>6. Len(y) >= 2
  BY <1>2, <1>4
<1>7. Whole(y)
  BY <1>2, <1>4, <1>6 DEF Whole
<1>8. Newer(m, c)
  BY <1>1, <1>2, <1>4, <1>5 DEF Newer
<1> QED BY <1>1, <1>2, <1>4, <1>5, <1>7, <1>8 DEF Heads

(* Another zone is emptied, or gets its superblock.                         *)
LEMMA HeadsOther ==
  ASSUME NEW l \in [MetaZone -> Seq(Record)], NEW c, Heads(l, c), NEW z \in MetaZone, z # c,
         NEW x, Fragment(x), NEW m, Put(l, m, z, x)
  PROVE  Heads(m, c) /\ m[c] = l[c]
<1>1. c \in MetaZone /\ m[c] = l[c] /\ m[z] = x /\ \A y \in MetaZone \ {z} : m[y] = l[y]
  BY DEF Heads, Put
<1> QED BY <1>1 DEF Heads, Newer

(* Another zone gets its snapshot, or a part of it.                         *)
LEMMA HeadsNew ==
  ASSUME NEW l \in [MetaZone -> Seq(Record)], NEW c, Heads(l, c), NEW z \in MetaZone, z # c,
         Len(l[z]) = 1, l[z][1] \in Supers, l[c][1].seq < l[z][1].seq, NEW r \in Record,
         NEW m, Grown(l, m, z, r)
  PROVE  /\ m[z][1] = l[z][1]
         /\ Decoded(Tail(m[z])) = DecodeRecord(Blank, r)
         /\ r = TornRecord => Stops(m, z)
         /\ Sound(DecodeRecord(Blank, r)) => Heads(m, z)
<1>1. c \in MetaZone /\ Whole(l[c]) /\ Newer(l, c) /\ l[c][1] \in Supers
  BY DEF Heads, Whole
<1>2. PICK x \in Seq(Record) : x = l[z] /\ Len(x) = 1 /\ x[1] \in Supers
  OBVIOUS
<1>3. x # <<>> /\ Tail(x) = <<>>
  <2>1. x # <<>>
    <3>1. Len(<<>>) = 0 /\ Len(x) = 1 /\ 0 # 1
      BY <1>2
    <3> QED BY <3>1, Zenon
  <2>2. Tail(x) \in Seq(Record) /\ Len(Tail(x)) = 0
    BY <1>2, <2>1, HeadTailProperties
  <2> QED BY <2>1, <2>2, EmptySeq
<1>4. PICK y \in Seq(Record) :
        /\ y = Append(x, r) /\ Len(y) = Len(x) + 1 /\ y[1] = x[1] /\ y[Len(x) + 1] = r
        /\ Decoded(Tail(y)) = DecodeRecord(Decoded(Tail(x)), r)
  BY <1>3, DecodedTail
<1>5. Len(y) = 2 /\ y[2] = r /\ Decoded(Tail(y)) = DecodeRecord(Blank, r)
  <2>1. Len(x) + 1 = 2
    <3>1. Len(x) = 1
      BY <1>2
    <3>2. 1 + 1 = 2
      OBVIOUS
    <3> QED BY <3>1, <3>2, Zenon
  <2>2. Len(y) = 2 /\ y[2] = r
    BY <1>4, <2>1, Zenon
  <2>3. Decoded(Tail(x)) = Blank
    BY <1>3, DecodedEmpty
  <2> QED BY <1>4, <2>2, <2>3
<1>6. m[z] = y /\ \A w \in MetaZone \ {z} : m[w] = l[w]
  BY <1>2, <1>4 DEF Grown
<1>7. Newer(m, z)
  <2>1. ASSUME NEW w \in MetaZone \ {z}
        PROVE  Fragment(m[w]) \/ (Whole(m[w]) /\ m[w][1].seq < m[z][1].seq)
    <3>1. m[w] = l[w] /\ m[z][1] = l[z][1]
      BY <1>2, <1>4, <1>6, <2>1
    <3>2. CASE w = c
      BY <1>1, <3>1, <3>2
    <3>3. CASE w # c /\ Fragment(l[w])
      BY <3>1, <3>3
    <3>4. CASE w # c /\ ~Fragment(l[w])
      <4>1. Whole(l[w]) /\ l[w][1].seq < l[c][1].seq /\ l[w][1] \in Supers
        BY <1>1, <2>1, <3>4 DEF Newer, Whole
      <4>2. PICK p \in Nat, q \in Nat, k \in Nat :
              p = l[w][1].seq /\ q = l[c][1].seq /\ k = l[z][1].seq
        BY <1>1, <4>1 DEF Supers
      <4>3. p < q /\ q < k
        BY <4>1, <4>2
      <4>4. p < k
        BY <4>3
      <4> QED BY <3>1, <4>1, <4>2, <4>4
    <3> QED BY <3>2, <3>3, <3>4
  <2> QED BY <2>1 DEF Newer
<1>8. Sound(DecodeRecord(Blank, r)) => Whole(y)
  BY <1>2, <1>4, <1>5 DEF Whole
<1> QED BY <1>2, <1>4, <1>5, <1>6, <1>7, <1>8 DEF Heads, Stops

-----------------------------------------------------------------------------
(* Every call, from its start to its end                                    *)

CrashInv == LogInv /\ NameInv /\ CallInv /\ AgreeInv
Safe == Roomy \/ Plain

(* The moments at which no roll is under way.                               *)
Quiet == {"idle", "wrlock", "persist", "done"}

(* A step that leaves the log alone, with no roll under way.                *)
LEMMA SameLog ==
  ASSUME LogInv, at \in Quiet \/ (at = "error" /\ op.kind \notin {"mount", "abort"}), at' \in Quiet,
         oldLog' = None, UNCHANGED <<log, metaLog, seq>>
  PROVE  /\ LogInv' /\ Disk' = Disk /\ oldLog = None /\ ~Disk.ended
<1>1. oldLog = None /\ Up /\ Up' /\ at \notin Rolling /\ at' \notin Rolling
  BY DEF LogInv, Quiet, Up, Rolling
<1>2. Cur = metaLog /\ Cur' = metaLog
  BY <1>1 DEF Cur
<1>3. Disk' = Disk
  BY <1>2 DEF Disk
<1>4. Heads(log, Cur) /\ seq = log[Cur][1].seq /\ ~Disk.ended
  BY <1>1 DEF LogInv, Quiet
<1>5. Heads(log', Cur') /\ seq' = log'[Cur'][1].seq
  BY <1>2, <1>4
<1>6. LogInv'
  BY <1>1, <1>3, <1>4, <1>5 DEF LogInv, Quiet, Rolling
<1> QED BY <1>1, <1>3, <1>4, <1>6

(* Between calls memory and log agree.                                      *)
LEMMA IdleFacts ==
  ASSUME FrameInv, CrashInv, at = "idle"
  PROVE  /\ Linked(file, files, None) /\ Homed(file, None)
         /\ \A n \in Names : files[n] < nextId
         /\ Disk.files = files /\ op = NoOp /\ oldLog = None
<1>1. op = NoOp /\ op.kind = "none" /\ ~op.deleting
  BY NoOpTypes DEF FrameInv, OpInv
<1>2. Newborn = None /\ Victim = None
  BY <1>1 DEF Newborn, Victim, Creating
<1>3. oldLog = None
  BY DEF CrashInv, LogInv, Rolling
<1>4. Disk.files = files
  BY <1>1 DEF CrashInv, AgreeInv, Settled, Up
<1> QED BY <1>1, <1>2, <1>3, <1>4 DEF CrashInv, NameInv

(* A call returns.                                                          *)
LEMMA ReturnInv ==
  ASSUME TypeInv', Return, Linked(file', files', None), Homed(file', None),
         \A n \in Names : files'[n] < nextId', Disk'.files = files'
  PROVE  NameInv' /\ CallInv' /\ AgreeInv'
<1>1. /\ at' = "idle" /\ op' = NoOp /\ op'.kind = "none" /\ ~op'.deleting
      /\ op'.pre = NoNames /\ op'.mid = NoNames
  BY NoOpTypes DEF Return
<1>2. ~Creating' /\ Newborn' = None /\ Victim' = None
  BY <1>1 DEF Newborn, Victim, Creating
<1>3. \A n \in Names : NoNames[n] < nextId'
  <2>1. \A n \in Names : NoNames[n] = 0
    BY DEF NoNames, None
  <2>2. nextId' \in 1..MaxFileId + 1 /\ MaxFileId \in Nat
    BY MetaAssumption DEF TypeInv, Types, MemoryTypes
  <2> QED BY <2>1, <2>2
<1>4. NameInv'
  BY <1>1, <1>2, <1>3 DEF NameInv
<1>5. CallInv'
  BY <1>1 DEF CallInv
<1>6. AgreeInv'
  BY <1>1 DEF AgreeInv, Settled
<1> QED BY <1>4, <1>5, <1>6

(* A call has a record to write.                                            *)
LEMMA PersistInv ==
  ASSUME TypeInv', FrameInv', at' = "persist", CallInv',
         \/ /\ op'.deleting /\ Disk'.files = op'.pre /\ Turns(rec', op'.pre, op'.mid)
            /\ Linked(file', files', None) /\ Homed(file', op'.victim)
         \/ /\ ~op'.deleting /\ op'.kind # "create"
            /\ Disk'.files = op'.mid /\ Turns(rec', op'.mid, op'.post)
            /\ Linked(file', files', None) /\ Homed(file', None),
         \A n \in Names : files'[n] < nextId' /\ op'.pre[n] < nextId' /\ op'.mid[n] < nextId'
  PROVE  NameInv' /\ AgreeInv'
<1>1. op'.kind # "none"
  BY DEF FrameInv, OpInv
<1>2. ~Creating' /\ Newborn' = None
  BY DEF Creating, Newborn
<1>3. CASE op'.deleting
  <2>1. Victim' = op'.victim /\ Before' = op'.pre /\ After' = op'.mid
    BY <1>3 DEF Victim, Before, After
  <2>2. NameInv'
    BY <1>2, <1>3, <2>1 DEF NameInv
  <2>3. AgreeInv'
    BY <1>1, <1>3, <2>1 DEF AgreeInv, Settled
  <2> QED BY <2>2, <2>3
<1>4. CASE ~op'.deleting
  <2>1. Victim' = None /\ Before' = op'.mid /\ After' = op'.post
    BY <1>4 DEF Victim, Before, After
  <2>2. NameInv'
    BY <1>2, <1>4, <2>1 DEF NameInv
  <2>3. AgreeInv'
    BY <1>1, <1>4, <2>1 DEF AgreeInv, Settled
  <2> QED BY <2>2, <2>3
<1> QED BY <1>3, <1>4

(* A name is taken away: the deletion is still to be written.               *)
LEMMA DeleteBegins ==
  ASSUME TypeInv, NEW n \in Names, files[n] # None, DeleteFileNoLock(n),
         Linked(file, files, None), Homed(file, None)
  PROVE  /\ files' = [files EXCEPT ![n] = None] /\ nextId' = nextId /\ at' = "persist"
         /\ Linked(file', files', None) /\ Homed(file', files[n])
         /\ Turns(rec', files, [files EXCEPT ![n] = None])
<1>1. files[n] \in Id /\ files \in NameMap /\ Files(file)
  BY DEF TypeInv, Types, MemoryTypes, NameMap
<1>2. /\ files' = [files EXCEPT ![n] = None] /\ nextId' = nextId /\ at' = "persist"
      /\ file' = RemoveLinkName(file, files[n], n) /\ rec' = DeletionRecord(files[n], n)
  BY DEF DeleteFileNoLock, Persist
<1>3. Linked(file', files', None)
  <2>1. Linked(RemoveLinkName(file, files[n], n), [files EXCEPT ![n] = None], None)
    BY <1>1, UnlinkName
  <2> QED BY <1>2, <2>1
<1>4. Relinked(file, file', files[n])
  BY <1>1, <1>2, RelinkFacts
<1>5. Homed(file', files[n])
  BY <1>4 DEF Homed, Relinked, Id, None
<1>6. Turns(rec', files, [files EXCEPT ![n] = None])
  <2>1. rec'.tag = "delete" /\ rec'.id = files[n] /\ rec'.name = n
    BY <1>2 DEF DeletionRecord
  <2> QED BY <2>1 DEF Turns
<1> QED BY <1>2, <1>3, <1>5, <1>6

(* No number that is yet to be given out comes from taking a name away.     *)
LEMMA BoundKept ==
  ASSUME TypeInv, \A m \in Names : files[m] < nextId, NEW n \in Names
  PROVE  \A m \in Names : [files EXCEPT ![n] = None][m] < nextId
<1>1. nextId \in 1..MaxFileId + 1 /\ MaxFileId \in Nat /\ files \in NameMap
  BY MetaAssumption DEF TypeInv, Types, MemoryTypes
<1>2. 0 < nextId
  BY <1>1
<1> QED BY <1>1, <1>2 DEF NameMap, None

(* A call that begins by taking a name away.                                *)
LEMMA DeleteStart ==
  ASSUME TypeInv, TypeInv', FrameInv, FrameInv', CrashInv, NEW t, NEW what, Calls(t, what),
         NEW n \in Names, files[n] # None, NEW kind, NEW i, NEW post,
         Starts(op', kind, i, n, post), DeleteFileNoLock(n), CallInv'
  PROVE  CrashInv'
<1>1. /\ at = "idle" /\ UNCHANGED <<log, metaLog, oldLog, seq>>
  BY DEF Calls, deviceVars
<1>2. /\ Linked(file, files, None) /\ Homed(file, None)
      /\ \A m \in Names : files[m] < nextId
      /\ Disk.files = files /\ oldLog = None
  BY <1>1, IdleFacts
<1>3. /\ files' = [files EXCEPT ![n] = None] /\ nextId' = nextId /\ at' = "persist"
      /\ Linked(file', files', None) /\ Homed(file', files[n])
      /\ Turns(rec', files, [files EXCEPT ![n] = None])
  BY <1>2, DeleteBegins
<1>4. /\ op'.deleting /\ op'.pre = files /\ op'.mid = [files EXCEPT ![n] = None]
      /\ op'.victim = files[n]
  BY DEF Starts
<1>5. LogInv' /\ Disk' = Disk
  BY <1>1, <1>2, <1>3, SameLog DEF CrashInv, Quiet
<1>6. \A m \in Names : files'[m] < nextId' /\ op'.pre[m] < nextId' /\ op'.mid[m] < nextId'
  BY <1>2, <1>3, <1>4, BoundKept
<1>7. NameInv' /\ AgreeInv'
  BY <1>2, <1>3, <1>4, <1>5, <1>6, PersistInv
<1> QED BY <1>5, <1>7 DEF CrashInv

(* DeleteFile keeps CrashInv.                                               *)
LEMMA DeleteFileCrash ==
  ASSUME TypeInv, TypeInv', FrameInv, FrameInv', CrashInv, NEW t \in Threads, NEW n \in Names,
         DeleteFile(t, n)
  PROVE  CrashInv'
<1>1. Calls(t, "delete") /\ files[n] # None /\ DeleteFileNoLock(n)
  BY DEF DeleteFile
<1>2. Starts(op', "delete", files[n], n, [files EXCEPT ![n] = None])
  BY DeleteFileOp
<1>3. files' = [files EXCEPT ![n] = None]
  BY <1>1 DEF DeleteFileNoLock
<1>4. CallInv'
  BY <1>1, <1>2, <1>3 DEF CallInv, Starts, After, Creating
<1>5. PICK p : p = [files EXCEPT ![n] = None]
  OBVIOUS
<1>6. Starts(op', "delete", files[n], n, p)
  BY <1>2, <1>5
<1> QED BY <1>1, <1>4, <1>6, DeleteStart

(* A new file: its first record is still to be written, and nobody knows    *)
(* its name.                                                                *)
LEMMA CreateBegins ==
  ASSUME TypeInv, TypeInv', NEW f, Files(f), Linked(f, files, None), Homed(f, None),
         NEW n \in Names, files[n] = None, nextId \in Id, CreateFile(f, n),
         \A m \in Names : files[m] < nextId, NEW post, post = [files EXCEPT ![n] = nextId]
  PROVE  /\ files' = files /\ nextId' = nextId + 1 /\ at' = "persist"
         /\ Linked(file', files, nextId) /\ Homed(file', None)
         /\ file'[nextId].links = <<n>> /\ file'[nextId].wr = NoThread
         /\ Named(files, nextId) = {}
         /\ Turns(rec', files, post)
<1>1. /\ files' = files /\ nextId' = nextId + 1 /\ at' = "persist"
      /\ file' = [f EXCEPT ![nextId] = NewFile(<<n>>)] /\ rec' = UpdateRecord(file', nextId)
  BY DEF CreateFile, Persist
<1>2. <<n>> \in Seq(Names)
  OBVIOUS
<1>3. NewFile(<<n>>).links = <<n>> /\ NewFile(<<n>>).wr = NoThread
  BY <1>2, NewFileTypes
<1>4. file'[nextId] = NewFile(<<n>>) /\ \A j \in Id \ {nextId} : file'[j] = f[j]
  <2>1. PICK x : x = NewFile(<<n>>)
    OBVIOUS
  <2>2. file' = [f EXCEPT ![nextId] = x]
    BY <1>1, <2>1
  <2>3. file'[nextId] = x /\ \A j \in Id \ {nextId} : file'[j] = f[j]
    BY <2>2 DEF Files
  <2> QED BY <2>1, <2>3
<1>5. Named(files, nextId) = {}
  <2>1. ASSUME NEW m \in Names, files[m] = nextId PROVE FALSE
    <3>1. nextId < nextId /\ nextId \in Nat
      BY <2>1 DEF Id
    <3> QED BY <3>1
  <2> QED BY <2>1 DEF Named
<1>6. Linked(file', files, nextId)
  BY <1>4 DEF Linked, Id, None
<1>7. Homed(file', None)
  BY <1>3, <1>4 DEF Homed
<1>8. PICK i \in Id : i = nextId
  OBVIOUS
<1>9. file' \in [Id -> FileType]
  BY DEF TypeInv, Types, MemoryTypes, Files
<1>10. PICK r, e : /\ r = UpdateRecord(file', i) /\ e = r.file
                   /\ r.tag = "update" /\ e.id = i /\ e.links = <<n>>
  BY <1>3, <1>4, <1>8, <1>9, RecordTypes
<1>11. Enters(e, files, post)
  BY <1>5, <1>8, <1>10 DEF Enters
<1>12. Turns(rec', files, post)
  BY <1>1, <1>8, <1>10, <1>11 DEF Turns
<1> QED BY <1>1, <1>3, <1>4, <1>5, <1>6, <1>7, <1>12

(* The call that creates a file.                                            *)
LEMMA CreateInv ==
  ASSUME TypeInv, TypeInv', FrameInv', at' = "persist", CallInv', op'.kind = "create",
         ~op'.deleting, op'.id = nextId, nextId \in Id, nextId' = nextId + 1,
         op'.mid = files, files' = files, Disk'.files = op'.mid, op'.name \in Names,
         Turns(rec', op'.mid, op'.post),
         Linked(file', files, nextId), Homed(file', None), Named(files, nextId) = {},
         file'[nextId].links = <<op'.name>>, file'[nextId].wr = NoThread,
         \A n \in Names : files[n] < nextId /\ op'.pre[n] < nextId
  PROVE  NameInv' /\ AgreeInv'
<1>1. Creating' /\ Newborn' = nextId /\ Victim' = None /\ Before' = op'.mid /\ After' = op'.post
  BY DEF Creating, Newborn, Victim, Before, After
<1>2. PICK k \in Nat : k = nextId
  BY DEF Id
<1>3. \A n \in Names : files[n] \in Int /\ op'.pre[n] \in Int
  BY DEF TypeInv, Types, MemoryTypes, CallTypes, OpType, NameMap, Id, None
<1>4. \A n \in Names : files'[n] < nextId' /\ op'.pre[n] < nextId' /\ op'.mid[n] < nextId'
  BY <1>2, <1>3
<1>5. op'.id < nextId'
  BY <1>2
<1>6. NameInv'
  BY <1>1, <1>4, <1>5 DEF NameInv
<1>7. AgreeInv'
  BY <1>1 DEF AgreeInv, Settled
<1> QED BY <1>6, <1>7

(* OpenWritableFile keeps CrashInv.                                         *)
LEMMA OpenWritableFileCrash ==
  ASSUME TypeInv, TypeInv', FrameInv, FrameInv', CrashInv, NEW t \in Threads, NEW n \in Names,
         OpenWritableFile(t, n)
  PROVE  CrashInv'
<1>1. Calls(t, "create")
  BY DEF OpenWritableFile
<1>2. PICK p : /\ p = [files EXCEPT ![n] = nextId] /\ Starts(op', "create", nextId, n, p)
               /\ nextId \in Id
  BY OpenWritableFileOp
<1>3. files \in NameMap
  BY DEF TypeInv, Types, MemoryTypes
<1>4. /\ op'.kind = "create" /\ op'.id = nextId /\ op'.name = n /\ op'.pre = files
      /\ op'.mid = [files EXCEPT ![n] = None] /\ op'.post = p
      /\ op'.mid[n] = None /\ op'.post = [op'.mid EXCEPT ![n] = nextId]
      /\ (op'.deleting <=> files[n] # None) /\ op'.victim = files[n]
  <2>1. PICK q \in OpType : q = op'
    BY DEF TypeInv, Types, CallTypes
  <2>2. /\ q.kind = "create" /\ q.id = nextId /\ q.name = n /\ q.pre = files
        /\ q.mid = [files EXCEPT ![n] = None] /\ q.post = p
        /\ (q.deleting <=> files[n] # None) /\ q.victim = files[n]
    BY <1>2, <2>1 DEF Starts
  <2>3. PICK m : m = [files EXCEPT ![n] = None]
    OBVIOUS
  <2>4. m[n] = None /\ p = [m EXCEPT ![n] = nextId]
    BY <1>2, <1>3, <2>3 DEF NameMap
  <2> QED BY <2>1, <2>2, <2>3, <2>4
<1>5. CASE files[n] # None
  <2>1. DeleteFileNoLock(n) /\ files' = [files EXCEPT ![n] = None]
    BY <1>5 DEF OpenWritableFile, DeleteFileNoLock
  <2>2. CallInv'
    BY <1>4, <1>5, <2>1 DEF CallInv, After, Creating
  <2> QED BY <1>1, <1>2, <1>5, <2>1, <2>2, DeleteStart
<1>6. CASE files[n] = None
  <2>1. CreateFile(file, n) /\ Files(file)
    BY <1>6 DEF OpenWritableFile, TypeInv, Types, MemoryTypes
  <2>2. /\ at = "idle" /\ UNCHANGED <<log, metaLog, oldLog, seq>>
    BY <1>1 DEF Calls, deviceVars
  <2>3. /\ Linked(file, files, None) /\ Homed(file, None)
        /\ \A m \in Names : files[m] < nextId
        /\ Disk.files = files /\ oldLog = None
    BY <2>2, IdleFacts
  <2>4. /\ files' = files /\ nextId' = nextId + 1 /\ at' = "persist"
        /\ Linked(file', files, nextId) /\ Homed(file', None)
        /\ file'[nextId].links = <<n>> /\ file'[nextId].wr = NoThread
        /\ Named(files, nextId) = {}
        /\ Turns(rec', files, p)
    BY <1>2, <1>6, <2>1, <2>3, CreateBegins
  <2>5. op'.mid = files
    BY <1>3, <1>4, <1>6 DEF NameMap
  <2>6. CallInv'
    BY <1>4, <1>6, <2>4, <2>5 DEF CallInv, After, Creating
  <2>7. LogInv' /\ Disk' = Disk
    BY <2>2, <2>3, <2>4, SameLog DEF CrashInv, Quiet
  <2>8. NameInv' /\ AgreeInv'
    BY <1>2, <1>4, <1>6, <2>3, <2>4, <2>5, <2>6, <2>7, CreateInv
  <2> QED BY <2>6, <2>7, <2>8 DEF CrashInv
<1> QED BY <1>5, <1>6

(* A file moves to another name: its update is still to be written.         *)
LEMMA MoveBegins ==
  ASSUME TypeInv, TypeInv', NEW f, Files(f), Linked(f, files, None), Homed(f, None),
         NEW i \in Id, NEW s \in Names, NEW d \in Names, files[s] = i, files[d] = None,
         MoveFile(f, i, s, d), \A m \in Names : files[m] < nextId
  PROVE  /\ files' = [files EXCEPT ![s] = None, ![d] = i] /\ nextId' = nextId
         /\ at' = "persist" /\ s # d
         /\ Linked(file', files', None) /\ Homed(file', None)
         /\ Turns(rec', files, files')
         /\ \A m \in Names : files'[m] < nextId'
<1>1. /\ files' = [files EXCEPT ![s] = None, ![d] = i] /\ nextId' = nextId
      /\ at' = "persist" /\ rec' = UpdateRecord(file', i)
      /\ file' = RenameLink(f, i, s, d)
  BY DEF MoveFile, Persist
<1>2. i # None /\ i \in Id \ {None} /\ s # d
  BY DEF Id, None
<1>3. files \in NameMap /\ nextId \in 1..MaxFileId + 1 /\ MaxFileId \in Nat
  BY MetaAssumption DEF TypeInv, Types, MemoryTypes
<1>4. /\ Linked(file', files', None) /\ file'[i].links # <<>> /\ files' \in NameMap
  <2>1. PICK after : after = [files EXCEPT ![s] = None, ![d] = i]
    OBVIOUS
  <2>2. /\ Linked(RenameLink(f, i, s, d), after, None)
        /\ RenameLink(f, i, s, d)[i].links # <<>> /\ after \in NameMap
    BY <1>3, <2>1, MoveName
  <2> QED BY <1>1, <2>1, <2>2
<1>5. Homed(file', None)
  <2>1. Relinked(f, file', i)
    BY <1>1, RelinkFacts
  <2> QED BY <1>4, <2>1 DEF Homed, Relinked
<1>6. Turns(rec', files, files')
  <2>1. LinkedTo(file'[i].links, files', i)
    BY <1>2, <1>4 DEF Linked
  <2>2. Named(files, i) # {} /\ Touches(files, files', i)
    BY <1>1, <1>2, <1>3 DEF Named, Touches, NameMap
  <2>3. PICK g, after : g = file' /\ after = files' /\ Files(g) /\ after \in NameMap
    BY <1>4 DEF TypeInv, Types, MemoryTypes
  <2>4. Turns(UpdateRecord(g, i), files, after)
    BY <1>3, <2>1, <2>2, <2>3, RecordTurnsNames
  <2> QED BY <1>1, <2>3, <2>4
<1>7. ASSUME NEW m \in Names PROVE files'[m] < nextId'
  <2>1. 0 < nextId
    BY <1>3
  <2>2. files'[m] \in {None, files[s], files[m]}
    BY <1>1, <1>3 DEF NameMap
  <2> QED BY <1>1, <2>1, <2>2 DEF None
<1> QED BY <1>1, <1>2, <1>4, <1>5, <1>6, <1>7

(* RenameFile keeps CrashInv.                                               *)
LEMMA RenameFileCrash ==
  ASSUME TypeInv, TypeInv', FrameInv, FrameInv', CrashInv, NEW t \in Threads, NEW s \in Names,
         NEW d \in Names, RenameFile(t, s, d)
  PROVE  CrashInv'
<1>1. Calls(t, "rename") /\ files[s] # None
  BY DEF RenameFile
<1>2. PICK p : /\ p = Renamed(s, d) /\ Starts(op', "rename", files[s], d, p)
               /\ op'.src = s /\ files[s] \in Id
  BY RenameFileOp
<1>3. files \in NameMap
  BY DEF TypeInv, Types, MemoryTypes
<1>4. /\ op'.kind = "rename" /\ op'.id = files[s] /\ op'.name = d /\ op'.pre = files
      /\ op'.mid = [files EXCEPT ![d] = None] /\ op'.post = p /\ op'.mid[d] = None
      /\ (op'.deleting <=> files[d] # None) /\ op'.victim = files[d]
  BY <1>2, <1>3 DEF Starts, NameMap
<1>5. Moves(op.mid)'
  <2>1. CASE s = d
    BY <1>2, <1>4, <2>1 DEF Moves, Renamed
  <2>2. CASE s # d
    <3>1. p = [files EXCEPT ![s] = None, ![d] = files[s]]
      BY <1>2, <2>2 DEF Renamed
    <3>2. PICK m \in NameMap : m = [files EXCEPT ![d] = None]
      BY <1>3, <1>2, NameMapParts
    <3>3. m[s] = files[s] /\ p = [m EXCEPT ![s] = None, ![d] = files[s]]
      BY <1>3, <2>2, <3>1, <3>2 DEF NameMap
    <3> QED BY <1>2, <1>4, <2>2, <3>2, <3>3 DEF Moves
  <2> QED BY <2>1, <2>2
<1>6. CASE files[d] # None
  <2>1. DeleteFileNoLock(d) /\ files' = [files EXCEPT ![d] = None]
    BY <1>6 DEF RenameFile, DeleteFileNoLock
  <2>2. CallInv'
    BY <1>4, <1>5, <1>6, <2>1 DEF CallInv, After, Creating
  <2> QED BY <1>1, <1>2, <1>6, <2>1, <2>2, DeleteStart
<1>7. CASE files[d] = None
  <2>1. MoveFile(file, files[s], s, d) /\ Files(file)
    BY <1>7 DEF RenameFile, TypeInv, Types, MemoryTypes
  <2>2. /\ at = "idle" /\ UNCHANGED <<log, metaLog, oldLog, seq>>
    BY <1>1 DEF Calls, deviceVars
  <2>3. /\ Linked(file, files, None) /\ Homed(file, None)
        /\ \A m \in Names : files[m] < nextId
        /\ Disk.files = files /\ oldLog = None
    BY <2>2, IdleFacts
  <2>4. /\ files' = [files EXCEPT ![s] = None, ![d] = files[s]] /\ nextId' = nextId
        /\ at' = "persist" /\ s # d
        /\ Linked(file', files', None) /\ Homed(file', None)
        /\ Turns(rec', files, files')
        /\ \A m \in Names : files'[m] < nextId'
    <3>1. PICK i \in Id : i = files[s]
      BY <1>2
    <3> QED BY <1>7, <2>1, <2>3, <3>1, MoveBegins
  <2>5. op'.mid = files /\ op'.post = files' /\ ~op'.deleting
    BY <1>2, <1>3, <1>4, <1>7, <2>4 DEF NameMap, Renamed
  <2>6. CallInv'
    BY <1>2, <1>4, <1>5, <2>4, <2>5 DEF CallInv, After, Creating
  <2>7. LogInv' /\ Disk' = Disk
    BY <2>2, <2>3, <2>4, SameLog DEF CrashInv, Quiet
  <2>8. NameInv' /\ AgreeInv'
    BY <1>4, <2>3, <2>4, <2>5, <2>6, <2>7, PersistInv
  <2> QED BY <2>6, <2>7, <2>8 DEF CrashInv
<1> QED BY <1>6, <1>7

(* LinkFile keeps CrashInv.                                                 *)
LEMMA LinkFileCrash ==
  ASSUME TypeInv, TypeInv', FrameInv, FrameInv', CrashInv, NEW t \in Threads, NEW s \in Names,
         NEW l \in Names, LinkFile(t, s, l)
  PROVE  CrashInv'
<1>1. /\ Calls(t, "link") /\ files[s] # None /\ files[l] = None /\ at' = "persist"
      /\ files' = [files EXCEPT ![l] = files[s]] /\ nextId' = nextId
      /\ file' = AddLinkName(file, files[s], l) /\ rec' = UpdateRecord(file', files[s])
  BY DEF LinkFile, Persist
<1>2. PICK i \in Id : /\ i = files[s] /\ i # None /\ i \in Id \ {None}
                      /\ Starts(op', "link", i, l, [files EXCEPT ![l] = i])
  BY LinkFileOp DEF Id, None
<1>3. files \in NameMap /\ Files(file) /\ files' \in NameMap /\ Files(file')
  BY DEF TypeInv, Types, MemoryTypes
<1>4. /\ op'.kind = "link" /\ op'.id = i /\ op'.name = l /\ op'.pre = files
      /\ op'.mid = files /\ op'.post = files' /\ ~op'.deleting
  BY <1>1, <1>2, <1>3 DEF Starts, NameMap
<1>5. /\ at = "idle" /\ UNCHANGED <<log, metaLog, oldLog, seq>>
  BY <1>1 DEF Calls, deviceVars
<1>6. /\ Linked(file, files, None) /\ Homed(file, None)
      /\ \A m \in Names : files[m] < nextId
      /\ Disk.files = files /\ oldLog = None
  BY <1>5, IdleFacts
<1>7. Linked(file', files', None)
  <2>1. Linked(AddLinkName(file, i, l), [files EXCEPT ![l] = i], None)
    BY <1>1, <1>3, <1>6, LinkName
  <2> QED BY <1>1, <1>2, <2>1
<1>8. Named(files, i) # {} /\ Touches(files, files', i) /\ Named(files', i) # {}
  BY <1>1, <1>2, <1>3 DEF Named, Touches, NameMap
<1>9. LinkedTo(file'[i].links, files', i)
  BY <1>2, <1>7 DEF Linked
<1>10. PICK g, after : g = file' /\ after = files' /\ Files(g) /\ after \in NameMap
  BY <1>3
<1>11. Turns(rec', files, files')
  <2>1. Turns(UpdateRecord(g, i), files, after)
    BY <1>3, <1>8, <1>9, <1>10, RecordTurnsNames
  <2> QED BY <1>1, <1>2, <1>10, <2>1
<1>12. Homed(file', None)
  <2>1. Relinked(file, file', i)
    BY <1>1, <1>2, <1>3, RelinkFacts
  <2>2. file'[i].links # <<>>
    BY <1>8, <1>9, <1>10, NamedHasLink
  <2> QED BY <1>6, <2>1, <2>2 DEF Homed, Relinked
<1>13. CallInv'
  BY <1>1, <1>2, <1>4, <1>8 DEF CallInv, After, Creating
<1>14. LogInv' /\ Disk' = Disk
  BY <1>1, <1>5, <1>6, SameLog DEF CrashInv, Quiet
<1>15. \A m \in Names : files'[m] < nextId'
  BY <1>1, <1>3, <1>6 DEF NameMap
<1>16. NameInv' /\ AgreeInv'
  BY <1>1, <1>4, <1>6, <1>7, <1>11, <1>12, <1>13, <1>14, <1>15, PersistInv
<1> QED BY <1>13, <1>14, <1>16 DEF CrashInv

(* A call that persists a file and changes no name.                         *)
LEMMA AskInv ==
  ASSUME TypeInv, TypeInv', FrameInv, FrameInv', CrashInv, at = "idle", at' = "persist",
         UNCHANGED <<log, metaLog, oldLog, seq, files, nextId>>,
         NEW kind, kind \in {"sync", "close", "replace", "unmount"}, NEW i, Asks(op', kind, i),
         kind # "unmount" => Named(files, i) # {},
         Kept(file, file'), Turns(rec', files, files)
  PROVE  CrashInv'
<1>1. /\ Linked(file, files, None) /\ Homed(file, None)
      /\ \A m \in Names : files[m] < nextId
      /\ Disk.files = files /\ oldLog = None
  BY IdleFacts
<1>2. Linked(file', files', None) /\ Homed(file', None)
  BY <1>1, KeepNames
<1>3. /\ op'.kind = kind /\ op'.id = i /\ ~op'.deleting
      /\ op'.pre = files /\ op'.mid = files /\ op'.post = files
  BY DEF Asks
<1>4. CallInv'
  BY <1>3 DEF CallInv, After, Creating
<1>5. LogInv' /\ Disk' = Disk
  BY <1>1, SameLog DEF CrashInv, Quiet
<1>6. NameInv' /\ AgreeInv'
  BY <1>1, <1>2, <1>3, <1>4, <1>5, PersistInv
<1> QED BY <1>4, <1>5, <1>6 DEF CrashInv

(* An open file that is not marked deleted has a name.                      *)
LEMMA OpenIsNamed ==
  ASSUME TypeInv, FrameInv, CrashInv, at = "idle", NEW i \in Id, NEW t \in Threads,
         file[i].wr = t, ~file[i].deleted
  PROVE  /\ LinkedTo(file[i].links, files, i) /\ file[i].links # <<>> /\ Named(files, i) # {}
<1>1. Linked(file, files, None) /\ Homed(file, None)
  BY IdleFacts
<1>2. i \in Id \ {None} /\ t # NoThread /\ Files(file)
  BY MetaAssumption DEF Id, None, TypeInv, Types, MemoryTypes
<1>3. LinkedTo(file[i].links, files, i) /\ file[i].links # <<>>
  BY <1>1, <1>2 DEF Linked, Homed
<1> QED BY <1>2, <1>3, NamedHasLink

(* SyncFileMetadata keeps CrashInv.                                         *)
LEMMA SyncFileMetadataCrash ==
  ASSUME TypeInv, TypeInv', FrameInv, FrameInv', CrashInv, NEW t \in Threads, NEW i \in Id,
         NEW what \in {"sync", "close"}, NEW active \in BOOLEAN,
         SyncFileMetadata(t, i, what, active)
  PROVE  CrashInv'
<1>1. /\ at = "idle" /\ at' = "persist" /\ rec' = UpdateRecord(file', i)
      /\ UNCHANGED <<log, metaLog, oldLog, seq, files, nextId>>
      /\ file[i].wr = t /\ ~file[i].deleted
      /\ file' = [file EXCEPT ![i].active = active]
  BY DEF SyncFileMetadata, Calls, deviceVars, Persist
<1>2. Asks(op', what, i)
  BY SyncFileMetadataOp
<1>3. Kept(file, file') /\ files \in NameMap /\ Files(file')
  BY <1>1, KeptFacts DEF TypeInv, Types, MemoryTypes
<1>4. /\ LinkedTo(file[i].links, files, i) /\ file[i].links # <<>> /\ Named(files, i) # {}
  BY <1>1, OpenIsNamed
<1>5. Turns(rec', files, files)
  <2>1. PICK g : g = file' /\ Files(g) /\ g[i].links = file[i].links
    BY <1>3 DEF Kept
  <2>2. Turns(UpdateRecord(g, i), files, files)
    BY <1>3, <1>4, <2>1, RecordKeepsNames
  <2> QED BY <1>1, <2>1, <2>2
<1> QED BY <1>1, <1>2, <1>3, <1>4, <1>5, AskInv

(* Unmount keeps CrashInv.                                                  *)
LEMMA UnmountCrash ==
  ASSUME TypeInv, TypeInv', FrameInv, FrameInv', CrashInv, NEW t \in Threads, Unmount(t)
  PROVE  CrashInv'
<1>1. /\ at = "idle" /\ at' = "persist" /\ rec' = ResetCountRecord
      /\ UNCHANGED <<log, metaLog, oldLog, seq, files, nextId, file>>
  BY DEF Unmount, Calls, deviceVars, memoryVars, Persist
<1>2. Asks(op', "unmount", None)
  BY UnmountFrame
<1>3. Kept(file, file')
  BY <1>1 DEF Kept
<1>4. Turns(rec', files, files)
  BY <1>1 DEF Turns, ResetCountRecord
<1> QED BY <1>1, <1>2, <1>3, <1>4, AskInv

(* A step that changes nothing but the files.                               *)
LEMMA StayInv ==
  ASSUME CrashInv,
         UNCHANGED <<log, finished, metaLog, oldLog, seq, at, op, rec, files, nextId>>,
         Linked(file', files, Newborn), Homed(file', Victim),
         Creating => file'[op.id].links = file[op.id].links /\ file'[op.id].wr = file[op.id].wr
  PROVE  CrashInv'
<1>1. Cur' = Cur /\ (Up' <=> Up)
  BY DEF Cur, Up
<1>2. Disk' = Disk
  BY <1>1 DEF Disk
<1>3. LogInv'
  BY <1>1, <1>2 DEF CrashInv, LogInv
<1>4. Newborn' = Newborn /\ Victim' = Victim /\ (Creating' <=> Creating)
  BY DEF Newborn, Victim, Creating
<1>5. NameInv'
  BY <1>4 DEF CrashInv, NameInv
<1>6. Before' = Before /\ After' = After
  BY DEF Before, After
<1>7. CallInv'
  BY <1>4, <1>6 DEF CrashInv, CallInv, Moves
<1>8. AgreeInv'
  BY <1>1, <1>2, <1>6 DEF CrashInv, AgreeInv
<1> QED BY <1>3, <1>5, <1>7, <1>8 DEF CrashInv

(* ReopenWritableFile keeps CrashInv.                                       *)
LEMMA ReopenWritableFileCrash ==
  ASSUME TypeInv, TypeInv', FrameInv, FrameInv', CrashInv, NEW t \in Threads, NEW n \in Names,
         ReopenWritableFile(t, n)
  PROVE  CrashInv'
<1>1. /\ at = "idle" /\ at' = "wrlock" /\ files[n] # None
      /\ UNCHANGED <<log, metaLog, oldLog, seq, files, nextId, file>>
  BY DEF ReopenWritableFile, Calls, deviceVars, memoryVars
<1>2. Asks(op', "reopen", files[n])
  BY ReopenWritableFileFrame
<1>3. /\ op'.kind = "reopen" /\ op'.id = files[n] /\ ~op'.deleting
      /\ op'.pre = files /\ op'.mid = files /\ op'.post = files
  BY <1>2 DEF Asks
<1>4. /\ Linked(file, files, None) /\ Homed(file, None)
      /\ \A m \in Names : files[m] < nextId
      /\ Disk.files = files /\ oldLog = None
  BY <1>1, IdleFacts
<1>5. LogInv' /\ Disk' = Disk
  BY <1>1, <1>4, SameLog DEF CrashInv, Quiet
<1>6. ~Creating' /\ Newborn' = None /\ Victim' = None
  BY <1>3 DEF Creating, Newborn, Victim
<1>7. NameInv'
  BY <1>1, <1>3, <1>4, <1>6 DEF NameInv
<1>8. Named(files', op'.id) # {}
  BY <1>1, <1>3 DEF Named
<1>9. CallInv'
  BY <1>1, <1>3, <1>8 DEF CallInv, After, Creating
<1>10. AgreeInv'
  BY <1>1, <1>3, <1>4, <1>5 DEF AgreeInv, Settled, After
<1> QED BY <1>5, <1>7, <1>9, <1>10 DEF CrashInv

(* CloseWR keeps CrashInv.                                                  *)
LEMMA CloseWRCrash ==
  ASSUME TypeInv, TypeInv', FrameInv, FrameInv', CrashInv, NEW t \in Threads, NEW i \in Id,
         CloseWR(t, i)
  PROVE  CrashInv'
<1>1. CASE SyncFileMetadata(t, i, "close", FALSE)
  BY <1>1, SyncFileMetadataCrash
<1>2. CASE ~SyncFileMetadata(t, i, "close", FALSE)
  <2>1. /\ file' = [file EXCEPT ![i].wr = NoThread] /\ at = "idle"
        /\ UNCHANGED <<log, finished, metaLog, oldLog, seq, at, op, rec, files, nextId>>
    BY <1>2 DEF CloseWR, Calls, deviceVars
  <2>2. op.kind = "none" /\ ~Creating
    BY <2>1 DEF FrameInv, OpInv, Creating
  <2>3. /\ \A j \in Id : file'[j].wr = IF j = i THEN NoThread ELSE file[j].wr
        /\ \A j \in Id : file'[j].links = file[j].links
        /\ \A j \in Id : file'[j].deleted <=> file[j].deleted
    BY <2>1, LockFacts DEF TypeInv, Types, MemoryTypes
  <2>4. Linked(file', files, Newborn) /\ Homed(file', Victim)
    BY <2>3 DEF CrashInv, NameInv, Linked, Homed
  <2> QED BY <2>1, <2>2, <2>4, StayInv
<1> QED BY <1>1, <1>2

(* PushExtent keeps CrashInv.                                               *)
LEMMA PushExtentCrash ==
  ASSUME TypeInv, TypeInv', CrashInv, NEW t \in Threads, NEW i \in Id, PushExtent(t, i)
  PROVE  CrashInv'
<1>1. PICK x : file' = [file EXCEPT ![i].exts = x]
  BY DEF PushExtent
<1>2. Kept(file, file')
  BY <1>1, KeptFacts DEF TypeInv, Types, MemoryTypes
<1>3. UNCHANGED <<log, finished, metaLog, oldLog, seq, at, op, rec, files, nextId>>
  BY DEF PushExtent, deviceVars
<1>4. Linked(file', files, Newborn) /\ Homed(file', Victim)
  BY <1>2, KeepNames DEF CrashInv, NameInv
<1>5. Creating => file'[op.id].links = file[op.id].links /\ file'[op.id].wr = file[op.id].wr
  BY <1>2 DEF Kept, Creating, TypeInv, Valid
<1> QED BY <1>3, <1>4, <1>5, StayInv

(* A migration locks a file that has a name, whatever call is under way.    *)
LEMMA ReplaceExtentListCrash ==
  ASSUME TypeInv, TypeInv', CrashInv, NEW t \in Threads, NEW i \in Id,
         ReplaceExtentList(t, i)
  PROVE  CrashInv'
<1>1. /\ UNCHANGED <<log, finished, metaLog, oldLog, seq, at, op, rec, files, nextId>>
      /\ file' = [file EXCEPT ![i].wr = t, ![i].moved = TRUE, ![i].synced = 0]
      /\ \E n \in Names : files[n] = i
  BY DEF ReplaceExtentList, deviceVars
<1>2. Marked(file, file', i, t) /\ Files(file)
  BY <1>1, UnlockFacts DEF TypeInv, Types, MemoryTypes
<1>3. Named(files, i) # {}
  BY <1>1 DEF Named
<1>4. i # Newborn
  BY <1>3 DEF CrashInv, NameInv, Newborn, Id, None
<1>5. file[i].links # <<>>
  <2>1. LinkedTo(file[i].links, files, i)
    BY <1>4 DEF CrashInv, NameInv, Linked
  <2> QED BY <1>2, <1>3, <2>1, NamedHasLink
<1>6. Linked(file', files, Newborn) /\ Homed(file', Victim)
  BY <1>2, <1>5 DEF CrashInv, NameInv, Linked, Homed, Marked
<1>7. Creating => file'[op.id].links = file[op.id].links /\ file'[op.id].wr = file[op.id].wr
  BY <1>2, <1>4 DEF Marked, Creating, TypeInv, Valid, Newborn
<1> QED BY <1>1, <1>6, <1>7, StayInv

(* SyncFileExtents keeps CrashInv.                                          *)
LEMMA SyncFileExtentsCrash ==
  ASSUME TypeInv, TypeInv', FrameInv, FrameInv', CrashInv, NEW t \in Threads, NEW i \in Id,
         SyncFileExtents(t, i)
  PROVE  CrashInv'
<1>0. /\ at = "idle" /\ UNCHANGED <<log, finished, metaLog, oldLog, seq, files, nextId>>
      /\ Files(file)
      /\ file[i].wr = t /\ files \in NameMap
  BY DEF SyncFileExtents, deviceVars, TypeInv, Types, MemoryTypes
<1>1. CASE file[i].deleted
  <2>1. /\ file' = [file EXCEPT ![i].wr = NoThread, ![i].moved = FALSE]
        /\ UNCHANGED <<at, op, rec>>
    BY <1>1 DEF SyncFileExtents
  <2>2. Unlocked(file, file', i)
    BY <1>0, <2>1, UnlockFacts
  <2>3. Linked(file', files, Newborn) /\ Homed(file', Victim)
    BY <2>2 DEF CrashInv, NameInv, Linked, Homed, Unlocked
  <2>4. ~Creating
    BY <1>0 DEF FrameInv, OpInv, Creating
  <2> QED BY <1>0, <2>1, <2>3, <2>4, StayInv
<1>2. CASE ~file[i].deleted
  <2>1. /\ op' = Request("replace", t, i) /\ at' = "persist" /\ file' = file
        /\ rec' = ReplaceRecord(file, i)
    BY <1>2 DEF SyncFileExtents, Persist
  <2>2. Asks(op', "replace", i)
    BY <2>1, RequestAsks DEF Kinds
  <2>3. /\ LinkedTo(file[i].links, files, i) /\ file[i].links # <<>> /\ Named(files, i) # {}
    BY <1>0, <1>2, OpenIsNamed
  <2>4. Turns(rec', files, files)
    BY <1>0, <2>1, <2>3, RecordKeepsNames
  <2>5. Kept(file, file')
    BY <2>1 DEF Kept
  <2> QED BY <1>0, <2>1, <2>2, <2>3, <2>4, <2>5, AskInv
<1> QED BY <1>1, <1>2

(* Every call of a client keeps CrashInv.                                   *)
LEMMA CallCrash ==
  ASSUME TypeInv, TypeInv', FrameInv, FrameInv', CrashInv, NEW t \in Threads, Call(t)
  PROVE  CrashInv'
<1>1. CASE \E n \in Names : DeleteFile(t, n) \/ OpenWritableFile(t, n) \/ ReopenWritableFile(t, n)
  BY <1>1, DeleteFileCrash, OpenWritableFileCrash, ReopenWritableFileCrash
<1>2. CASE \E s, d \in Names : RenameFile(t, s, d) \/ LinkFile(t, s, d)
  BY <1>2, RenameFileCrash, LinkFileCrash
<1>3. ASSUME NEW i \in Id, AllocateNewZone(t, i) \/ Fsync(t, i) PROVE CrashInv'
  <2>1. file[i].active \in BOOLEAN
    BY DEF TypeInv, Types, MemoryTypes, Files, FileType
  <2> QED BY <1>3, <2>1, SyncFileMetadataCrash DEF AllocateNewZone, Fsync
<1>4. ASSUME NEW i \in Id,
             \/ PushExtent(t, i) \/ CloseWR(t, i)
             \/ ReplaceExtentList(t, i) \/ SyncFileExtents(t, i)
      PROVE CrashInv'
  BY <1>4, PushExtentCrash, CloseWRCrash, ReplaceExtentListCrash, SyncFileExtentsCrash
<1> QED BY <1>1, <1>2, <1>3, <1>4, UnmountCrash DEF Call

(* A call that has changed no name, or has its record in the log, returns.  *)
LEMMA DoneInv ==
  ASSUME TypeInv, TypeInv', CrashInv, at \in {"wrlock", "done"}, Return,
         UNCHANGED <<log, metaLog, oldLog, seq, nextId>>,
         Disk.files = files', Linked(file', files', None), Homed(file', None),
         \A n \in Names : files'[n] < nextId
  PROVE  CrashInv'
<1>1. at' = "idle" /\ oldLog = None
  BY DEF Return, CrashInv, LogInv, Rolling
<1>2. LogInv' /\ Disk' = Disk
  BY <1>1, SameLog DEF CrashInv, Quiet
<1>3. NameInv' /\ CallInv' /\ AgreeInv'
  BY <1>2, ReturnInv
<1> QED BY <1>2, <1>3 DEF CrashInv

(* A reopened file has a name.                                              *)
LEMMA AcquireWRLockCrash ==
  ASSUME TypeInv, TypeInv', FrameInv, CrashInv, AcquireWRLock
  PROVE  CrashInv'
<1>1. /\ at = "wrlock" /\ op.id \in Id /\ op.who \in Threads \cup {NoThread} /\ Return
      /\ Files(file) /\ op.kind = "reopen" /\ ~op.deleting
      /\ file' = [file EXCEPT ![op.id].wr = op.who]
      /\ UNCHANGED <<log, metaLog, oldLog, seq, files, nextId>>
  BY DEF AcquireWRLock, TypeInv, Valid, Types, MemoryTypes, CallTypes, OpType, deviceVars,
     FrameInv, OpInv
<1>2. Newborn = None /\ Victim = None /\ ~Creating
  BY <1>1 DEF Newborn, Victim, Creating
<1>3. /\ Linked(file, files, None) /\ Homed(file, None)
      /\ \A m \in Names : files[m] < nextId
  BY <1>2 DEF CrashInv, NameInv
<1>4. files = op.post /\ Disk.files = op.post /\ Named(files, op.id) # {}
  BY <1>1, <1>2 DEF CrashInv, CallInv, AgreeInv, Settled, Up, After
<1>5. file[op.id].links # <<>>
  <2>1. op.id \in Id \ {None}
    BY <1>1 DEF Id, None
  <2>2. LinkedTo(file[op.id].links, files, op.id)
    BY <1>3, <2>1 DEF Linked
  <2> QED BY <1>1, <1>4, <2>2, NamedHasLink
<1>6. /\ \A j \in Id : file'[j].links = file[j].links
      /\ \A j \in Id : file'[j].deleted <=> file[j].deleted
      /\ \A j \in Id : file'[j].wr = IF j = op.id THEN op.who ELSE file[j].wr
  BY <1>1, LockFacts
<1>7. Linked(file', files', None) /\ Homed(file', None)
  BY <1>1, <1>3, <1>5, <1>6 DEF Linked, Homed
<1> QED BY <1>1, <1>3, <1>4, <1>7, DoneInv

(* A mount is over when its roll is.                                        *)
LEMMA MountedCrash ==
  ASSUME TypeInv, TypeInv', FrameInv, CrashInv, Mounted
  PROVE  CrashInv'
<1>1. /\ at = "done" /\ op.kind = "mount" /\ Return /\ ~op.deleting
      /\ UNCHANGED <<log, metaLog, oldLog, seq, files, file, nextId>>
  BY DEF Mounted, deviceVars, memoryVars, FrameInv, OpInv
<1>2. Newborn = None /\ Victim = None /\ ~Creating
  BY <1>1 DEF Newborn, Victim, Creating
<1>3. /\ Linked(file, files, None) /\ Homed(file, None)
      /\ \A m \in Names : files[m] < nextId
  BY <1>2 DEF CrashInv, NameInv
<1>4. files = op.post /\ Disk.files = op.post
  BY <1>1, <1>2 DEF CrashInv, CallInv, AgreeInv, Settled, Up, After
<1> QED BY <1>1, <1>3, <1>4, DoneInv

(* The record of a call is in the log.                                      *)
LEMMA PersistedCrash ==
  ASSUME TypeInv, TypeInv', FrameInv, CrashInv, Persisted
  PROVE  CrashInv'
<1>1. /\ at = "done" /\ op.id \in Id /\ op.who \in Threads \cup {NoThread} /\ Return
      /\ ~op.deleting /\ op.kind \in {"create", "rename", "link", "sync", "close", "replace"}
      /\ UNCHANGED <<log, metaLog, oldLog, seq, nextId>>
      /\ Files(file) /\ files \in NameMap
  BY DEF Persisted, TypeInv, Valid, Types, CallTypes, MemoryTypes, OpType, deviceVars
<1>2. PICK f : f = MetadataSynced(file, {op.id}) /\ Files(f) /\ Kept(file, f)
  BY <1>1, MarkTypes, KeptFacts
<1>3. Victim = None /\ Disk.files = op.post /\ op.id \in Id \ {None}
  BY <1>1 DEF Victim, CrashInv, AgreeInv, Settled, Up, After, Id, None
<1>4. CASE op.kind = "create"
  <2>1. /\ op.name \in Names /\ files = op.mid /\ op.mid[op.name] = None
        /\ op.post = [op.mid EXCEPT ![op.name] = op.id]
        /\ Creating /\ Newborn = op.id
    BY <1>1, <1>4 DEF CrashInv, CallInv, Creating, Newborn, TypeInv, Valid
  <2>2. file' = [f EXCEPT ![op.id].wr = op.who] /\ files' = Insert(files, {op.name}, op.id)
    BY <1>2, <1>4 DEF Persisted
  <2>3. files' = op.post
    BY <1>1, <2>1, <2>2 DEF Insert, NameMap
  <2>4. /\ \A j \in Id : file'[j].links = file[j].links
        /\ \A j \in Id : file'[j].deleted <=> file[j].deleted
        /\ \A j \in Id : file'[j].wr = IF j = op.id THEN op.who ELSE file[j].wr
    <3>1. /\ \A j \in Id : file'[j].links = f[j].links
          /\ \A j \in Id : file'[j].deleted <=> f[j].deleted
          /\ \A j \in Id : file'[j].wr = IF j = op.id THEN op.who ELSE f[j].wr
      <4>1. PICK i \in Id, w \in Threads \cup {NoThread} : i = op.id /\ w = op.who
        BY <1>1
      <4>2. file' = [f EXCEPT ![i].wr = w]
        BY <2>2, <4>1
      <4>3. /\ \A j \in Id : file'[j].links = f[j].links
            /\ \A j \in Id : file'[j].deleted <=> f[j].deleted
            /\ \A j \in Id : file'[j].wr = IF j = i THEN w ELSE f[j].wr
        BY <1>2, <4>2 DEF Files, FileType
      <4> QED BY <4>1, <4>3
    <3> QED BY <1>2, <3>1 DEF Kept
  <2>5. /\ Linked(file, files, op.id) /\ Homed(file, None) /\ file[op.id].links = <<op.name>>
        /\ Named(files, op.id) = {} /\ op.id < nextId /\ \A n \in Names : files[n] < nextId
    BY <1>3, <2>1 DEF CrashInv, NameInv
  <2>6. /\ Named(files', op.id) = {op.name}
        /\ \A j \in Id \ {op.id} : Named(files', j) = Named(files, j)
    BY <1>1, <2>1, <2>3, <2>5 DEF Named, NameMap, Id, None
  <2>7. Linked(file', files', None)
    <3>1. LinkedTo(file'[op.id].links, files', op.id)
      <4>1. file'[op.id].links = <<op.name>>
        BY <1>1, <2>4, <2>5
      <4>2. Once(<<op.name>>) /\ Range(<<op.name>>) = {op.name}
        BY FewLinks
      <4> QED BY <2>6, <4>1, <4>2 DEF LinkedTo
    <3>2. ASSUME NEW j \in Id, j # op.id PROVE LinkedTo(file'[j].links, files', j)
      BY <2>4, <2>5, <2>6, <3>2 DEF Linked, LinkedTo
    <3> QED BY <3>1, <3>2 DEF Linked
  <2>8. Homed(file', None)
    BY <2>4, <2>5, FewLinks DEF Homed
  <2>9. \A n \in Names : files'[n] < nextId
    BY <1>1, <2>1, <2>3, <2>5 DEF NameMap
  <2> QED BY <1>1, <1>3, <2>3, <2>7, <2>8, <2>9, DoneInv
<1>5. CASE op.kind # "create"
  <2>1. ~Creating /\ Newborn = None
    BY <1>5 DEF Creating, Newborn
  <2>2. files = op.post /\ files' = files
    BY <1>1, <1>5, <2>1 DEF CrashInv, CallInv, After, Persisted
  <2>3. /\ Linked(file, files, None) /\ Homed(file, None)
        /\ \A m \in Names : files[m] < nextId
    BY <1>3, <2>1 DEF CrashInv, NameInv
  <2>4. Linked(f, files, None) /\ Homed(f, None)
    BY <1>2, <2>3, KeepNames
  <2>5. Linked(file', files, None) /\ Homed(file', None)
    <3>1. CASE op.kind \in {"close", "replace"}
      <4>1. file' = [f EXCEPT ![op.id].wr = NoThread, ![op.id].moved = FALSE]
        BY <1>2, <3>1 DEF Persisted
      <4>2. Unlocked(f, file', op.id)
        BY <1>1, <1>2, <4>1, UnlockFacts
      <4> QED BY <2>4, <4>2 DEF Linked, Homed, Unlocked
    <3>2. CASE op.kind \notin {"close", "replace"}
      <4>1. file' = f
        BY <1>2, <1>5, <3>2 DEF Persisted
      <4> QED BY <2>4, <4>1
    <3> QED BY <3>1, <3>2
  <2> QED BY <1>1, <1>3, <2>2, <2>3, <2>5, DoneInv
<1> QED BY <1>4, <1>5

(* The deletion is in the log: the call ends, or goes on.                   *)
LEMMA DeletedCrash ==
  ASSUME TypeInv, TypeInv', FrameInv, FrameInv', CrashInv, Deleted
  PROVE  CrashInv'
<1>1. /\ at = "done" /\ op.deleting /\ op.kind \in {"delete", "rename", "create"}
      /\ op.victim \in Id /\ op.name \in Names /\ op \in OpType /\ Files(file)
      /\ files \in NameMap
      /\ UNCHANGED <<log, metaLog, oldLog, seq>>
  BY DEF Deleted, TypeInv, Valid, Types, CallTypes, MemoryTypes, deviceVars, FrameInv, OpInv
<1>2. ~Creating /\ Newborn = None /\ Victim = op.victim
  BY <1>1 DEF Creating, Newborn, Victim
<1>3. /\ Linked(file, files, None) /\ Homed(file, op.victim)
      /\ \A n \in Names : files[n] < nextId /\ op.pre[n] < nextId
  BY <1>2 DEF CrashInv, NameInv
<1>4. files = op.mid /\ Disk.files = op.mid
  BY <1>1, <1>2 DEF CrashInv, CallInv, AgreeInv, Settled, Up, After
<1>5. PICK f : /\ f = SetDeleted(file, op.victim) /\ Files(f)
               /\ \A j \in Id : /\ f[j].wr = file[j].wr /\ f[j].links = file[j].links
                                /\ (f[j].deleted <=> file[j].deleted
                                       \/ (j = op.victim /\ file[j].links = <<>>))
  BY <1>1, SetDeletedFacts
<1>6. Linked(f, files, None) /\ Homed(f, None)
  BY <1>3, <1>5 DEF Linked, Homed
<1>7. CASE op.kind = "create" /\ CreateFile(f, op.name) /\ op' = [op EXCEPT !.deleting = FALSE]
  <2>1. /\ op'.kind = "create" /\ op'.id = op.id /\ ~op'.deleting /\ op'.name = op.name
        /\ op'.pre = op.pre /\ op'.mid = op.mid /\ op'.post = op.post
    BY <1>1, <1>7 DEF OpType
  <2>2. /\ nextId \in Id /\ op.id = nextId /\ files[op.name] = None
        /\ op.post = [files EXCEPT ![op.name] = nextId]
    BY <1>1, <1>4, <1>7 DEF TypeInv, Valid, CrashInv, CallInv
  <2>3. PICK n, p : n \in Names /\ n = op.name /\ p = op.post /\ p = [files EXCEPT ![n] = nextId]
    BY <1>1, <2>2
  <2>4. /\ files' = files /\ nextId' = nextId + 1 /\ at' = "persist"
        /\ Linked(file', files, nextId) /\ Homed(file', None)
        /\ file'[nextId].links = <<n>> /\ file'[nextId].wr = NoThread
        /\ Named(files, nextId) = {}
        /\ Turns(rec', files, p)
    BY <1>3, <1>5, <1>6, <1>7, <2>2, <2>3, CreateBegins
  <2>5. CallInv'
    BY <1>4, <2>1, <2>2, <2>4 DEF CallInv, After, Creating
  <2>6. LogInv' /\ Disk' = Disk
    <3>1. oldLog = None
      BY <1>1 DEF CrashInv, LogInv, Rolling
    <3> QED BY <1>1, <2>4, <3>1, SameLog DEF CrashInv, Quiet
  <2>7. NameInv' /\ AgreeInv'
    BY <1>1, <1>3, <1>4, <2>1, <2>2, <2>3, <2>4, <2>5, <2>6, CreateInv
  <2> QED BY <2>5, <2>6, <2>7 DEF CrashInv
<1>8. CASE op.kind = "rename" /\ MoveFile(f, op.id, op.src, op.name)
           /\ op.src \in Range(f[op.id].links) /\ op' = [op EXCEPT !.deleting = FALSE]
  <2>1. /\ op'.kind = "rename" /\ op'.id = op.id /\ ~op'.deleting /\ op'.name = op.name
        /\ op'.pre = op.pre /\ op'.mid = op.mid /\ op'.post = op.post /\ op'.src = op.src
    BY <1>1, <1>8 DEF OpType
  <2>2. PICK i \in Id, s \in Names, d \in Names : i = op.id /\ s = op.src /\ d = op.name
    BY <1>1, <1>8 DEF TypeInv, Valid
  <2>3. files[s] = i /\ files[d] = None
    <3>1. i \in Id \ {None}
      BY DEF Id, None
    <3>2. LinkedTo(f[i].links, files, i)
      BY <1>6, <3>1 DEF Linked
    <3>3. s \in Range(f[i].links)
      BY <1>8, <2>2
    <3>4. files[s] = i
      BY <3>2, <3>3 DEF LinkedTo, Named
    <3> QED BY <1>4, <1>8, <2>2, <3>4 DEF CrashInv, CallInv
  <2>4. /\ files' = [files EXCEPT ![s] = None, ![d] = i] /\ nextId' = nextId
        /\ at' = "persist" /\ s # d
        /\ Linked(file', files', None) /\ Homed(file', None)
        /\ Turns(rec', files, files')
        /\ \A m \in Names : files'[m] < nextId'
    BY <1>3, <1>5, <1>6, <1>8, <2>2, <2>3, MoveBegins
  <2>5. op.post = files'
    BY <1>4, <1>8, <2>2, <2>4 DEF CrashInv, CallInv, Moves
  <2>6. CallInv'
    BY <1>4, <1>8, <2>1, <2>2, <2>3, <2>4, <2>5 DEF CrashInv, CallInv, After, Creating, Moves
  <2>7. LogInv' /\ Disk' = Disk
    <3>1. oldLog = None
      BY <1>1 DEF CrashInv, LogInv, Rolling
    <3> QED BY <1>1, <2>4, <3>1, SameLog DEF CrashInv, Quiet
  <2>8. NameInv' /\ AgreeInv'
    BY <1>3, <1>4, <2>1, <2>4, <2>5, <2>6, <2>7, PersistInv
  <2> QED BY <2>6, <2>7, <2>8 DEF CrashInv
<1>9. CASE file' = f /\ Return /\ UNCHANGED <<files, nextId>>
  BY <1>1, <1>3, <1>4, <1>6, <1>9, DoneInv
<1> QED BY <1>5, <1>7, <1>8, <1>9 DEF Deleted

(* A call takes back what it did: memory is as the log says.                *)
LEMMA RollBackCrash ==
  ASSUME TypeInv, TypeInv', FrameInv, CrashInv, RollBack
  PROVE  CrashInv'
<1>1. /\ at = "error" /\ op.kind \notin {"mount", "unmount", "abort"} /\ Return
      /\ Files(file) /\ files \in NameMap /\ op \in OpType
      /\ oldLog' = None /\ UNCHANGED <<log, metaLog, seq, nextId>>
  BY DEF RollBack, TypeInv, Types, MemoryTypes, CallTypes, deviceVars
<1>2. at' = "idle" /\ LogInv' /\ Disk' = Disk
  <2>1. at' = "idle"
    BY <1>1 DEF Return
  <2> QED BY <1>1, <2>1, SameLog DEF CrashInv, Quiet
<1>3. Disk.files = Before /\ files = IF Creating THEN op.mid ELSE After
  BY <1>1 DEF CrashInv, AgreeInv, CallInv, Settled, Up, FrameInv, OpInv
<1>4. \A n \in Names : Before[n] < nextId
  BY DEF CrashInv, NameInv, Before
<1>5. Linked(file', files', None) /\ Homed(file', None) /\ files' = Before
  <2>1. CASE op.deleting
    <3>1. PICK v \in Id, n \in Names : v = op.victim /\ n = op.name
      BY <2>1 DEF TypeInv, Valid
    <3>2. /\ files' = [files EXCEPT ![n] = v] /\ file' = AddLinkName(file, v, n)
      BY <2>1, <3>1 DEF RollBack, FrameInv, OpInv
    <3>3. Newborn = None /\ Victim = v /\ Before = op.pre /\ files = op.mid
      BY <1>3, <2>1, <3>1 DEF Newborn, Victim, Creating, Before, After
    <3>4. op.pre[n] = v /\ op.mid = [op.pre EXCEPT ![n] = None] /\ op.pre \in NameMap
      BY <1>1, <2>1, <3>1 DEF CrashInv, CallInv, OpType
    <3>5. files[n] = None /\ files' = op.pre
      BY <3>2, <3>3, <3>4 DEF NameMap
    <3>6. Linked(file, files, None) /\ Homed(file, v)
      BY <3>3 DEF CrashInv, NameInv
    <3>7. Linked(file', files', None)
      <4>1. Linked(AddLinkName(file, v, n), [files EXCEPT ![n] = v], None)
        BY <1>1, <3>5, <3>6, LinkName
      <4> QED BY <3>2, <4>1
    <3>8. file'[v].links # <<>>
      <4>1. Named(files', v) # {} /\ v \in Id \ {None}
        BY <3>4, <3>5 DEF Named, Id, None
      <4>2. LinkedTo(file'[v].links, files', v)
        BY <3>7, <4>1 DEF Linked
      <4>3. PICK g, after : g = file' /\ after = files' /\ Files(g)
        BY DEF TypeInv, Types, MemoryTypes
      <4> QED BY <4>1, <4>2, <4>3, NamedHasLink
    <3>9. Relinked(file, file', v)
      BY <1>1, <3>2, RelinkFacts
    <3> QED BY <3>3, <3>5, <3>6, <3>7, <3>8, <3>9 DEF Homed, Relinked
  <2>2. CASE ~op.deleting /\ op.kind = "create"
    <3>1. PICK i \in Id : i = op.id /\ i # None
      BY <2>2 DEF TypeInv, Valid, Id, None
    <3>2. file' = [file EXCEPT ![i] = NoFile] /\ files' = files
      BY <2>2, <3>1 DEF RollBack
    <3>3. /\ NoFile.wr = NoThread /\ NoFile.links = <<>>
      BY EmptySeq, NewFileTypes DEF NoFile
    <3>4. PICK x : x = NoFile
      OBVIOUS
    <3>5. file'[i] = x /\ \A j \in Id \ {i} : file'[j] = file[j]
      <4>1. Files(file) /\ file' = [file EXCEPT ![i] = x]
        BY <1>1, <3>2, <3>4, Zenon
      <4> QED BY <4>1 DEF Files
    <3>6. Creating /\ Newborn = i /\ Victim = None /\ Before = op.mid /\ files = op.mid
      BY <1>3, <2>2, <3>1 DEF Creating, Newborn, Victim, Before
    <3>7. Linked(file, files, i) /\ Homed(file, None) /\ Named(files, i) = {}
      BY <3>1, <3>6 DEF CrashInv, NameInv
    <3>8. LinkedTo(file'[i].links, files', i)
      BY <3>2, <3>3, <3>4, <3>5, <3>7, FewLinks DEF LinkedTo
    <3>9. Linked(file', files', None)
      BY <3>2, <3>5, <3>7, <3>8 DEF Linked
    <3>10. Homed(file', None)
      BY <3>3, <3>4, <3>5, <3>7 DEF Homed
    <3> QED BY <3>2, <3>6, <3>9, <3>10
  <2>3. CASE ~op.deleting /\ op.kind # "create"
    <3>1. /\ Newborn = None /\ Victim = None /\ Before = op.mid /\ files = op.post
          /\ Linked(file, files, None) /\ Homed(file, None) /\ op.mid \in NameMap
      BY <1>1, <1>3, <2>3 DEF Newborn, Victim, Creating, Before, After, CrashInv, NameInv, OpType
    <3>2. CASE op.kind = "link"
      <4>1. PICK i \in Id, n \in Names : i = op.id /\ n = op.name /\ i \in Id \ {None}
        BY <3>2 DEF TypeInv, Valid, Id, None
      <4>2. files' = [files EXCEPT ![n] = None] /\ file' = RemoveLinkName(file, i, n)
        BY <2>3, <3>2, <4>1 DEF RollBack
      <4>3. /\ op.mid[n] = None /\ Named(op.mid, i) # {}
            /\ op.post = [op.mid EXCEPT ![n] = i]
        BY <3>2, <4>1 DEF CrashInv, CallInv
      <4>4. files[n] = i /\ files' = op.mid
        BY <3>1, <4>2, <4>3 DEF NameMap
      <4>5. Linked(file', files', None)
        <5>1. Linked(RemoveLinkName(file, i, n), [files EXCEPT ![n] = None], None)
          BY <1>1, <3>1, <4>4, UnlinkName
        <5> QED BY <4>2, <5>1
      <4>6. file'[i].links # <<>>
        <5>1. LinkedTo(file'[i].links, files', i) /\ Named(files', i) # {}
          BY <4>1, <4>3, <4>4, <4>5 DEF Linked
        <5>2. PICK g, after : g = file' /\ after = files' /\ Files(g)
          BY DEF TypeInv, Types, MemoryTypes
        <5> QED BY <5>1, <5>2, NamedHasLink
      <4>7. Relinked(file, file', i)
        BY <1>1, <4>2, RelinkFacts
      <4> QED BY <3>1, <4>4, <4>5, <4>6, <4>7 DEF Homed, Relinked
    <3>3. CASE op.kind = "rename"
      <4>1. PICK i \in Id, s \in Names, d \in Names :
              i = op.id /\ s = op.src /\ d = op.name /\ i \in Id \ {None}
        BY <3>3 DEF TypeInv, Valid, Id, None
      <4>2. /\ files' = [files EXCEPT ![d] = None, ![s] = i]
            /\ file' = RenameLink(file, i, d, s)
        BY <2>3, <3>3, <4>1 DEF RollBack
      <4>3. /\ s # d /\ op.mid[s] = i /\ op.mid[d] = None
            /\ op.post = [op.mid EXCEPT ![s] = None, ![d] = i]
        BY <2>3, <3>3, <4>1 DEF CrashInv, CallInv, Moves
      <4>4. files[d] = i /\ files[s] = None /\ files' = op.mid
        BY <3>1, <4>2, <4>3 DEF NameMap
      <4>5. Linked(file', files', None) /\ file'[i].links # <<>>
        <5>1. PICK after : after = [files EXCEPT ![d] = None, ![s] = i]
          OBVIOUS
        <5>2. /\ Linked(RenameLink(file, i, d, s), after, None)
              /\ RenameLink(file, i, d, s)[i].links # <<>>
          BY <1>1, <3>1, <4>4, <5>1, MoveName
        <5> QED BY <4>2, <5>1, <5>2
      <4>6. Relinked(file, file', i)
        BY <1>1, <4>2, RelinkFacts
      <4> QED BY <3>1, <4>4, <4>5, <4>6 DEF Homed, Relinked
    <3>4. CASE op.kind = "replace"
      <4>1. /\ op.id \in Id /\ files' = files
            /\ file' = [file EXCEPT ![op.id].wr = NoThread, ![op.id].moved = FALSE]
        BY <2>3, <3>4 DEF RollBack, TypeInv, Valid
      <4>2. Unlocked(file, file', op.id)
        BY <1>1, <4>1, UnlockFacts
      <4>3. op.post = op.mid
        BY <3>4 DEF CrashInv, CallInv
      <4>4. PICK x, h : x \in Id /\ x = op.id /\ h = file' /\ Unlocked(file, h, x)
        BY <4>1, <4>2
      <4>5. Linked(h, files, None)
        BY <3>1, <4>4 DEF Linked, Unlocked
      <4>6. Homed(h, None)
        BY <3>1, <4>4 DEF Homed, Unlocked
      <4> QED BY <3>1, <4>1, <4>3, <4>4, <4>5, <4>6
    <3>5. CASE op.kind \in {"sync", "close"}
      <4>1. file' = file /\ files' = files
        BY <2>3, <3>5 DEF RollBack
      <4>2. op.post = op.mid
        BY <3>5 DEF CrashInv, CallInv
      <4> QED BY <3>1, <4>1, <4>2
    <3> QED BY <2>3, <3>2, <3>3, <3>4, <3>5 DEF RollBack
  <2> QED BY <2>1, <2>2, <2>3
<1>6. NameInv' /\ CallInv' /\ AgreeInv'
  BY <1>1, <1>2, <1>3, <1>4, <1>5, ReturnInv
<1> QED BY <1>2, <1>6 DEF CrashInv

-----------------------------------------------------------------------------
(* A process ends, and another mounts                                       *)

(* Nothing of the process is left, and the log has a zone to mount from, or *)
(* one that a crash or a failed mount has spoiled.                          *)
LEMMA ForgetInv ==
  ASSUME TypeInv', Forget,
         \E c \in MetaZone : Heads(log', c) \/ Stops(log', c) \/ Headless(log', c)
  PROVE  CrashInv'
<1>1. /\ at' = "down" /\ op' = NoOp /\ op'.kind = "none" /\ ~op'.deleting
      /\ op'.pre = NoNames /\ op'.mid = NoNames /\ files' = NoNames /\ nextId' = 1
      /\ file' = [i \in Id |-> NoFile] /\ oldLog' = None
  BY NoOpTypes DEF Forget
<1>2. ~Creating' /\ Newborn' = None /\ Victim' = None /\ ~Up'
  BY <1>1 DEF Newborn, Victim, Creating, Up
<1>3. LogInv'
  BY <1>1, <1>2 DEF LogInv, Rolling
<1>4. \A n \in Names : NoNames[n] = 0 /\ NoNames[n] < nextId'
  BY <1>1 DEF NoNames, None
<1>5. /\ NoFile.wr = NoThread /\ NoFile.links = <<>>
  BY EmptySeq, NewFileTypes DEF NoFile
<1>6. Homed(file', None)
  BY <1>1, <1>5 DEF Homed
<1>7. Linked(file', files', None)
  <2>1. ASSUME NEW i \in Id PROVE LinkedTo(file'[i].links, files', i)
    <3>1. Named(files', i) = {}
      BY <1>1, <1>4 DEF Named, Id
    <3>2. file'[i].links = <<>>
      BY <1>1, <1>5
    <3> QED BY <3>1, <3>2, FewLinks DEF LinkedTo
  <2> QED BY <2>1 DEF Linked
<1>8. NameInv'
  BY <1>1, <1>2, <1>4, <1>6, <1>7 DEF NameInv
<1>9. CallInv'
  BY <1>1 DEF CallInv
<1>10. AgreeInv'
  BY <1>1, <1>2 DEF AgreeInv
<1> QED BY <1>3, <1>8, <1>9, <1>10 DEF CrashInv

(* The end of an unmount, or of a destructor that had to roll the log,      *)
(* leaves a log to mount from.                                              *)
LEMMA ShutdownCrash ==
  ASSUME TypeInv, TypeInv', CrashInv, Shutdown
  PROVE  CrashInv'
<1>1. Forget /\ log' = log /\ Up
  BY DEF Shutdown, deviceVars, Up
<1>2. Heads(log, Cur) /\ Cur \in MetaZone
  BY <1>1 DEF CrashInv, LogInv, Heads
<1> QED BY <1>1, <1>2, ForgetInv

(* A crash, which may cut a snapshot short.                                 *)
LEMMA CrashCrash ==
  ASSUME TypeInv, TypeInv', CrashInv, Crash
  PROVE  CrashInv'
<1>1. Forget /\ Up /\ log \in [MetaZone -> Seq(Record)]
  BY DEF Crash, Up, TypeInv, Types, DeviceTypes
<1>2. Heads(log, Cur) /\ Cur \in MetaZone
  BY <1>1 DEF CrashInv, LogInv, Heads
<1>3. CASE log' = log
  BY <1>1, <1>2, <1>3, ForgetInv
<1>4. CASE at = "snapshot" /\ AddRecord(metaLog, TornRecord)
  <2>1. /\ Cur = oldLog /\ oldLog # metaLog /\ metaLog \in MetaZone /\ Len(log[metaLog]) = 1
        /\ log[metaLog][1] = SuperblockRecord(seq) /\ log[oldLog][1].seq < seq /\ seq \in Nat
    BY <1>1, <1>4 DEF Cur, Rolling, TypeInv, Where, CrashInv, LogInv, Types, ZoneTypes
  <2>2. PICK q \in Supers : q = log[metaLog][1] /\ q.seq = seq
    BY <2>1 DEF SuperblockRecord, Supers
  <2>3. PICK r \in Record : r = TornRecord
    BY DEF Record
  <2>4. PICK m : m = log' /\ Grown(log, m, metaLog, r)
    BY <1>4, <2>3 DEF AddRecord, Grown
  <2>5. Stops(m, metaLog)
    BY <1>1, <1>2, <2>1, <2>2, <2>3, <2>4, HeadsNew
  <2> QED BY <1>1, <2>1, <2>4, <2>5, ForgetInv
<1> QED BY <1>3, <1>4 DEF Crash

(* A zone that no Mount gets past.                                          *)
LEMMA HeadlessFacts ==
  ASSUME log \in [MetaZone -> Seq(Record)], NEW c \in MetaZone, Headless(log, c)
  PROVE  Recovered.status = "corruption" /\ Spoiled
<1>1. log[c] # <<>> /\ log[c][1].tag = "resets"
  BY DEF Headless, ResetCountRecord
<1>2. log[c][1].tag \notin {"super", "torn"}
  BY <1>1
<1> QED BY <1>1, <1>2, HeadlessIsCorrupt DEF Spoiled

(* When Mount succeeds, a zone leads.                                       *)
LEMMA OkHeads ==
  ASSUME log \in [MetaZone -> Seq(Record)], CrashInv, ~Up, Recovered.status = "ok"
  PROVE  \E c \in MetaZone : Heads(log, c)
<1>1. PICK c \in MetaZone : Heads(log, c) \/ Stops(log, c) \/ Headless(log, c)
  BY DEF CrashInv, LogInv
<1>2. ~Stops(log, c)
  BY HeadsLeads, BlockedIsCorrupt
<1>3. ~Headless(log, c)
  BY HeadlessFacts
<1> QED BY <1>1, <1>2, <1>3

(* Mount restores what the log says, or gives up.                           *)
LEMMA MountCrash ==
  ASSUME TypeInv, TypeInv', FrameInv, CrashInv, Mount
  PROVE  CrashInv'
<1>1. /\ at = "down" /\ log \in [MetaZone -> Seq(Record)] /\ op.kind = "none" /\ oldLog = None
      /\ UNCHANGED <<log, oldLog, rec>>
  BY DEF Mount, TypeInv, Types, DeviceTypes, deviceVars, FrameInv, OpInv, CrashInv, LogInv,
     Rolling
<1>2. CASE Recovered.status # "ok"
  <2>1. /\ at' = "unmountable" /\ UNCHANGED <<files, file, nextId, op>>
    BY <1>2 DEF Mount, memoryVars
  <2>2. ~Up'
    BY <2>1 DEF Up
  <2>3. LogInv'
    BY <1>1, <2>1, <2>2 DEF CrashInv, LogInv, Rolling, Up
  <2>4. Newborn' = Newborn /\ Victim' = Victim /\ (Creating' <=> Creating)
    BY <2>1 DEF Newborn, Victim, Creating
  <2>5. NameInv'
    BY <2>1, <2>4 DEF CrashInv, NameInv
  <2>6. CallInv'
    BY <1>1, <2>1 DEF CrashInv, CallInv, Moves
  <2>7. AgreeInv'
    BY <2>1, <2>2 DEF AgreeInv
  <2> QED BY <2>3, <2>5, <2>6, <2>7 DEF CrashInv
<1>3. CASE Recovered.status = "ok"
  <2>1. PICK c \in MetaZone : Heads(log, c)
    BY <1>1, <1>3, OkHeads DEF Up
  <2>2. PICK st : st = Decoded(Tail(log[c])) /\ Sound(st)
    BY <2>1 DEF Heads, Whole
  <2>3. /\ NewestZone = c /\ Recovered.files = st.files
        /\ Recovered.image = st.image /\ Recovered.next = st.next
    BY <1>1, <2>1, <2>2, HeadsLeads, LeaderIsRecovered
  <2>4. /\ Remounted(file', Recovered)
        /\ at' \in {"allocate", "error"} /\ metaLog' = c /\ seq' = log[c][1].seq
        /\ files' = st.files /\ nextId' = st.next
        /\ op'.kind = "mount" /\ ~op'.deleting
        /\ op'.pre = st.files /\ op'.mid = st.files /\ op'.post = st.files
    BY <1>3, <2>3, MountFiles
  <2>5. ~Creating' /\ Newborn' = None /\ Victim' = None /\ Up' /\ Cur' = c
    BY <1>1, <2>4 DEF Creating, Newborn, Victim, Up, Cur, Rolling
  <2>6. Disk' = st
    BY <1>1, <2>2, <2>5 DEF Disk
  <2>7. LogInv'
    BY <1>1, <2>1, <2>4, <2>5 DEF LogInv, Rolling
  <2>8. Linked(file', files', None) /\ Homed(file', None)
    <3>1. \A i \in Id : /\ file'[i].wr = NoThread
                        /\ file'[i].links = IF i \in Range(st.files) THEN st.image[i].links ELSE <<>>
      BY <2>3, <2>4 DEF Remounted
    <3>2. ASSUME NEW i \in Id PROVE LinkedTo(file'[i].links, files', i)
      <4>1. DOMAIN st.files = Names
        BY <2>2 DEF Sound, State, NameMap
      <4>2. i \in Range(st.files) <=> Named(st.files, i) # {}
        BY <4>1 DEF Range, Named
      <4>3. CASE Named(st.files, i) # {}
        BY <2>2, <2>4, <3>1, <4>2, <4>3 DEF Sound
      <4>4. CASE Named(st.files, i) = {}
        BY <2>4, <3>1, <4>2, <4>4, FewLinks DEF LinkedTo
      <4> QED BY <4>3, <4>4
    <3> QED BY <3>1, <3>2 DEF Linked, Homed
  <2>9. \A n \in Names : st.files[n] < st.next
    BY <2>2 DEF Sound
  <2>10. NameInv'
    BY <2>4, <2>5, <2>8, <2>9 DEF NameInv
  <2>11. CallInv'
    BY <2>4, <2>5 DEF CallInv, After
  <2>12. AgreeInv'
    BY <2>4, <2>6 DEF AgreeInv, Settled, Before
  <2> QED BY <2>7, <2>10, <2>11, <2>12 DEF CrashInv
<1> QED BY <1>2, <1>3

-----------------------------------------------------------------------------
(* The device                                                               *)

(* A step of the device changes neither the names nor the call.             *)
LEMMA SameCall ==
  ASSUME TypeInv, NameInv, CallInv, UNCHANGED <<files, nextId, op>>, Kept(file, file')
  PROVE  /\ NameInv' /\ CallInv' /\ Before' = Before /\ After' = After
         /\ (Creating' <=> Creating)
<1>1. /\ Newborn' = Newborn /\ Victim' = Victim /\ (Creating' <=> Creating)
      /\ Before' = Before /\ After' = After
  BY DEF Newborn, Victim, Creating, Before, After
<1>2. Linked(file', files', Newborn') /\ Homed(file', Victim')
  BY <1>1, KeepNames DEF NameInv
<1>3. Creating => file'[op.id].links = file[op.id].links /\ file'[op.id].wr = file[op.id].wr
  BY DEF Kept, Creating, TypeInv, Valid
<1>4. NameInv'
  BY <1>1, <1>2, <1>3 DEF NameInv
<1>5. CallInv'
  BY <1>1 DEF CallInv, Moves
<1> QED BY <1>1, <1>4, <1>5

(* A step of the device that leaves the names on it as the call expects.    *)
LEMMA DeviceInv ==
  ASSUME TypeInv, FrameInv, CrashInv, LogInv', UNCHANGED <<files, nextId, op>>, Kept(file, file'),
         at \notin {"idle", "down", "unmountable"}, at' \notin {"persist", "snapshot"},
         Disk'.files = IF at' \notin Settled THEN Before ELSE After
  PROVE  CrashInv'
<1>1. NameInv' /\ CallInv' /\ Before' = Before /\ After' = After
  BY SameCall DEF CrashInv
<1>2. op'.kind # "none"
  BY DEF FrameInv, OpInv
<1>3. AgreeInv'
  BY <1>1, <1>2 DEF AgreeInv
<1> QED BY <1>1, <1>3 DEF CrashInv

(* What the log says is sound.                                              *)
LEMMA DiskFacts ==
  ASSUME TypeInv, CrashInv, Up
  PROVE  /\ log \in [MetaZone -> Seq(Record)] /\ Heads(log, Cur) /\ Cur \in MetaZone
         /\ Sound(Disk) /\ Before \in NameMap /\ After \in NameMap
<1>1. log \in [MetaZone -> Seq(Record)] /\ op \in OpType
  BY DEF TypeInv, Types, DeviceTypes, CallTypes
<1>2. Heads(log, Cur)
  BY DEF CrashInv, LogInv
<1>3. Before \in NameMap /\ After \in NameMap
  BY <1>1 DEF Before, After, OpType
<1> QED BY <1>1, <1>2, <1>3 DEF Heads, Whole, Disk

(* Of the zones that a failed mount leaves, the recovered one alone can be  *)
(* full.                                                                    *)
LEMMA FullIsOld ==
  ASSUME TypeInv, CrashInv, at = "error", Room(metaLog) = 0
  PROVE  oldLog = None
<1>1. SUFFICES ASSUME oldLog # None PROVE FALSE
  OBVIOUS
<1>2. Len(log[metaLog]) <= 1 /\ metaLog \notin finished
  BY <1>1 DEF CrashInv, LogInv
<1>3. metaLog \in MetaZone /\ log \in [MetaZone -> Seq(Record)]
  BY DEF TypeInv, Where, Up, Types, DeviceTypes
<1>4. PICK k \in Nat : k = Len(log[metaLog])
  BY <1>3, LenProperties
<1>5. MetaCap - k = 0 /\ k <= 1
  BY <1>2, <1>4 DEF Room
<1> QED BY <1>5, MetaAssumption

(* The destructor of a failed mount writes the reset counts behind the log, *)
(* behind the superblock of a roll that failed, or in place of one.         *)
LEMMA DeleteZenFSCrash ==
  ASSUME TypeInv, TypeInv', FrameInv, CrashInv, DeleteZenFS
  PROVE  CrashInv'
<1>1. /\ at = "error" /\ op.kind = "mount" /\ Up /\ metaLog \in MetaZone
      /\ log \in [MetaZone -> Seq(Record)] /\ ~op.deleting /\ op \in OpType
  BY DEF DeleteZenFS, Up, TypeInv, Where, Types, DeviceTypes, CallTypes, FrameInv, OpInv
<1>2. Heads(log, Cur) /\ Cur \in MetaZone /\ Sound(Disk) /\ Disk.files = op.mid
  BY <1>1, DiskFacts DEF CrashInv, AgreeInv, Settled, Before
<1>3. oldLog = None => Cur = metaLog /\ seq = log[metaLog][1].seq
  BY <1>1 DEF Cur, Rolling, CrashInv, LogInv
<1>4. oldLog # None => /\ Cur = oldLog /\ metaLog # oldLog /\ Len(log[metaLog]) <= 1
                       /\ metaLog \notin finished
  BY <1>1 DEF Cur, CrashInv, LogInv
<1>5. CASE Room(metaLog) = 0
  <2>1. oldLog = None
    BY <1>1, <1>5, FullIsOld
  <2>2. /\ at' = "allocate" /\ op' = [op EXCEPT !.kind = "abort"]
        /\ UNCHANGED <<log, metaLog, oldLog, seq, files, file, nextId, rec>>
    BY <1>5 DEF DeleteZenFS, memoryVars
  <2>3. /\ op'.kind = "abort" /\ ~op'.deleting /\ op'.pre = op.pre /\ op'.mid = op.mid
        /\ op'.post = op.post
    BY <1>1, <2>2 DEF OpType
  <2>4. Cur' = metaLog /\ Up' /\ Up
    BY <1>1, <2>1, <2>2 DEF Cur, Rolling, Up
  <2>5. Disk' = Disk
    BY <1>3, <2>1, <2>2, <2>4 DEF Disk
  <2>6. LogInv'
    BY <1>2, <1>3, <2>1, <2>2, <2>3, <2>4 DEF LogInv, Rolling
  <2>7. /\ Newborn' = None /\ Victim' = None /\ ~Creating'
        /\ Newborn = None /\ Victim = None /\ ~Creating
    BY <1>1, <2>3 DEF Newborn, Victim, Creating
  <2>8. NameInv'
    BY <2>2, <2>3, <2>7 DEF CrashInv, NameInv
  <2>9. files = op.post /\ op.post = op.mid
    BY <1>1, <2>7 DEF CrashInv, CallInv, After
  <2>10. CallInv'
    BY <2>2, <2>3, <2>7, <2>9 DEF CallInv, After
  <2>11. AgreeInv'
    BY <1>2, <2>2, <2>3, <2>5 DEF AgreeInv, Settled, Before
  <2> QED BY <2>6, <2>8, <2>10, <2>11 DEF CrashInv
<1>6. CASE Forget /\ log' = log
  BY <1>2, <1>6, ForgetInv
<1>7. CASE Forget /\ AddRecord(metaLog, ResetCountRecord)
  <2>1. PICK r \in Record : r = ResetCountRecord /\ r.tag = "resets"
    <3>1. ResetCountRecord \in Record
      BY OtherRecordTypes
    <3>2. ResetCountRecord.tag = "resets"
      BY DEF ResetCountRecord
    <3> QED BY <3>1, <3>2
  <2>2. PICK m : m = log' /\ Grown(log, m, metaLog, r)
    BY <1>7, <2>1 DEF AddRecord, Grown
  <2>3. CASE oldLog = None
    <3>1. PICK st : st = Disk /\ st = Decoded(Tail(log[metaLog]))
      BY <1>3, <2>3 DEF Disk
    <3>2. DecodeRecord(st, r) = st
      BY <2>1 DEF DecodeRecord
    <3>3. Sound(DecodeRecord(Decoded(Tail(log[metaLog])), r))
      BY <1>2, <3>1, <3>2
    <3>4. Heads(m, metaLog)
      BY <1>1, <1>2, <1>3, <2>2, <2>3, <3>3, HeadsAppend
    <3> QED BY <1>1, <1>7, <2>2, <3>4, ForgetInv
  <2>4. CASE oldLog # None
    <3>1. PICK l \in Seq(Record) : l = log[metaLog]
      BY <1>1
    <3>2. PICK x \in Seq(Record) :
            /\ x = Append(l, r) /\ Len(x) = Len(l) + 1 /\ x[Len(l) + 1] = r
            /\ \A k \in 1..Len(l) : x[k] = l[k]
      <4>1. Append(l, r) \in Seq(Record) /\ Len(Append(l, r)) = Len(l) + 1
        BY AppendProperties, Zenon
      <4>2. Append(l, r)[Len(l) + 1] = r
        BY AppendProperties, Zenon
      <4>3. \A k \in 1..Len(l) : Append(l, r)[k] = l[k]
        BY AppendProperties
      <4> QED BY <4>1, <4>2, <4>3, Zenon
    <3>3. Put(log, m, metaLog, x) /\ m[metaLog] = x
      BY <1>1, <2>2, <3>1, <3>2 DEF Put, Grown
    <3>4. Fragment(l) /\ Len(l) \in Nat /\ Len(l) <= 1
      <4>1. Fragment(l) \/ Whole(l)
        BY <1>1, <1>2, <1>4, <2>4, <3>1 DEF Heads, Newer
      <4> QED BY <1>4, <2>4, <3>1, <4>1, LenProperties DEF Whole
    <3>5. CASE Len(l) = 0
      <4>1. x[1] = r /\ x # <<>>
        <5>1. Len(l) + 1 = 1 /\ Len(x) = 1
          BY <3>2, <3>5
        <5>2. x[1] = r
          BY <3>2, <5>1, Zenon
        <5> QED BY <5>1, <5>2, EmptySeq
      <4>2. Headless(m, metaLog)
        BY <2>1, <3>3, <4>1 DEF Headless
      <4> QED BY <1>1, <1>7, <2>2, <4>2, ForgetInv
    <3>6. CASE Len(l) = 1
      <4>1. l # <<>> /\ l[1] \in Supers
        BY <3>4, <3>6 DEF Fragment
      <4>2. Len(x) = 2 /\ x[2] = r /\ x[1] = l[1]
        <5>1. Len(l) + 1 = 2 /\ 1 \in 1..Len(l)
          BY <3>6
        <5> QED BY <3>2, <5>1, Zenon
      <4>3. Fragment(x)
        BY <2>1, <4>1, <4>2 DEF Fragment
      <4>4. Heads(m, Cur)
        BY <1>1, <1>2, <1>4, <2>4, <3>3, <4>3, HeadsOther
      <4>5. PICK c \in MetaZone : c = Cur
        BY <1>2
      <4>6. Heads(log', c)
        BY <2>2, <4>4, <4>5, Zenon
      <4> QED BY <1>7, <4>6, ForgetInv
    <3>7. Len(l) = 0 \/ Len(l) = 1
      <4>1. PICK k \in Nat : k = Len(l) /\ k <= 1
        BY <3>4
      <4> QED BY <4>1
    <3> QED BY <3>5, <3>6, <3>7, Zenon
  <2> QED BY <2>3, <2>4
<1> QED BY <1>5, <1>6, <1>7 DEF DeleteZenFS

(* The record of a call, written or not.                                    *)
LEMMA PersistRecordCrash ==
  ASSUME TypeInv, FrameInv, CrashInv, PersistRecord
  PROVE  CrashInv'
<1>1. /\ at = "persist" /\ UNCHANGED <<metaLog, oldLog, seq, files, file, nextId, op>>
      /\ Up /\ rec \in Record /\ op.kind \notin {"mount", "abort"}
  BY DEF PersistRecord, memoryVars, Up, TypeInv, Types, CallTypes, FrameInv, OpInv
<1>2. /\ oldLog = None /\ Cur = metaLog /\ seq = log[metaLog][1].seq /\ ~Disk.ended
      /\ Disk.files = Before /\ Turns(rec, Before, After)
  BY <1>1 DEF Cur, CrashInv, LogInv, AgreeInv, Rolling, Settled
<1>3. /\ log \in [MetaZone -> Seq(Record)] /\ Heads(log, metaLog) /\ metaLog \in MetaZone
      /\ Sound(Disk) /\ After \in NameMap
  BY <1>1, <1>2, DiskFacts
<1>4. Kept(file, file')
  BY <1>1 DEF Kept
<1>5. CASE AddRecord(metaLog, rec) /\ at' = "done"
  <2>1. PICK st : st = Disk /\ st = Decoded(Tail(log[metaLog]))
    BY <1>2 DEF Disk
  <2>2. PICK after : after = After
    OBVIOUS
  <2>3. /\ Sound(DecodeRecord(st, rec)) /\ ~DecodeRecord(st, rec).ended
        /\ DecodeRecord(st, rec).files = after
    BY <1>1, <1>2, <1>3, <2>1, <2>2, RecordTurns
  <2>4. PICK m : m = log' /\ Grown(log, m, metaLog, rec)
    BY <1>5 DEF AddRecord, Grown
  <2>5. /\ Heads(m, metaLog) /\ m[metaLog][1].seq = log[metaLog][1].seq
        /\ Decoded(Tail(m[metaLog])) = DecodeRecord(Decoded(Tail(log[metaLog])), rec)
    <3>1. Sound(DecodeRecord(Decoded(Tail(log[metaLog])), rec))
      BY <2>1, <2>3
    <3> QED BY <1>1, <1>3, <2>4, <3>1, HeadsAppend
  <2>6. Cur' = metaLog /\ Up'
    BY <1>1, <1>5 DEF Cur, Rolling, Up
  <2>7. Disk' = DecodeRecord(st, rec)
    BY <1>1, <2>1, <2>4, <2>5, <2>6 DEF Disk
  <2>8. LogInv'
    BY <1>1, <1>2, <1>5, <2>3, <2>4, <2>5, <2>6, <2>7 DEF LogInv, Rolling
  <2> QED BY <1>1, <1>4, <1>5, <2>2, <2>3, <2>7, <2>8, DeviceInv DEF Settled
<1>6. CASE log' = log /\ at' \in {"allocate", "error"}
  <2>1. Cur' = metaLog /\ Up'
    BY <1>1, <1>2, <1>6 DEF Cur, Rolling, Up
  <2>2. Disk' = Disk
    BY <1>1, <1>2, <1>6, <2>1 DEF Disk
  <2>3. LogInv'
    BY <1>1, <1>2, <1>3, <1>6, <2>1, <2>2 DEF LogInv, Rolling
  <2> QED BY <1>1, <1>2, <1>4, <1>6, <2>2, <2>3, DeviceInv DEF Settled
<1> QED BY <1>5, <1>6 DEF PersistRecord

(* The next zone is emptied; or there is none.                              *)
LEMMA AllocateMetaZoneCrash ==
  ASSUME TypeInv, FrameInv, CrashInv, AllocateMetaZone
  PROVE  CrashInv'
<1>1. /\ at = "allocate" /\ UNCHANGED <<seq, files, file, nextId, op>> /\ Up
  BY DEF AllocateMetaZone, memoryVars, Up
<1>2. /\ oldLog = None /\ Cur = metaLog /\ seq = log[metaLog][1].seq
      /\ (op.kind \notin {"mount", "abort"} => ~Disk.ended) /\ Disk.files = Before
  BY <1>1 DEF Cur, CrashInv, LogInv, AgreeInv, Rolling, Settled
<1>3. log \in [MetaZone -> Seq(Record)] /\ Heads(log, metaLog) /\ metaLog \in MetaZone
  BY <1>1, <1>2, DiskFacts
<1>4. Kept(file, file')
  BY <1>1 DEF Kept
<1>5. ASSUME NEW z \in MetaZone \ {metaLog}, Emptied(z), metaLog' = z, oldLog' = metaLog, at' = "end"
      PROVE  CrashInv'
  <2>1. PICK m : m = log' /\ Put(log, m, z, <<>>)
    BY <1>5 DEF Emptied, Put
  <2>2. Heads(m, metaLog) /\ m[metaLog] = log[metaLog]
    <3>1. Fragment(<<>>)
      BY DEF Fragment
    <3> QED BY <1>3, <2>1, <3>1, HeadsOther
  <2>3. Cur' = metaLog /\ Up'
    BY <1>5 DEF Cur, Rolling, Up
  <2>4. Disk' = Disk
    BY <1>2, <2>1, <2>2, <2>3 DEF Disk
  <2>5. LogInv'
    BY <1>1, <1>2, <1>5, <2>1, <2>2, <2>3 DEF LogInv, Rolling, Emptied
  <2> QED BY <1>1, <1>2, <1>4, <1>5, <2>4, <2>5, DeviceInv DEF Settled
<1>6. CASE at' = "error" /\ UNCHANGED <<log, metaLog, oldLog>>
  <2>1. Cur' = metaLog /\ Up'
    BY <1>2, <1>6 DEF Cur, Rolling, Up
  <2>2. Disk' = Disk
    BY <1>2, <1>6, <2>1 DEF Disk
  <2>3. LogInv'
    BY <1>1, <1>2, <1>3, <1>6, <2>1, <2>2 DEF LogInv, Rolling
  <2> QED BY <1>1, <1>2, <1>4, <1>6, <2>2, <2>3, DeviceInv DEF Settled
<1> QED BY <1>5, <1>6 DEF AllocateMetaZone, Allocatable, deviceVars

(* The old zone is closed.                                                  *)
LEMMA CloseOldZoneCrash ==
  ASSUME TypeInv, FrameInv, CrashInv, WriteEndRecord \/ FinishOldZone
  PROVE  CrashInv'
<1>1. /\ at \in {"end", "finish"} /\ at' \in {"finish", "superblock"} /\ Up
      /\ UNCHANGED <<metaLog, oldLog, seq, files, file, nextId, op>>
  BY DEF WriteEndRecord, FinishOldZone, memoryVars, Up
<1>2. /\ Cur = oldLog /\ Cur' = oldLog /\ seq = log[oldLog][1].seq /\ Disk.files = Before /\ Up'
  BY <1>1 DEF Cur, CrashInv, LogInv, AgreeInv, Rolling, Settled, Up
<1>3. log \in [MetaZone -> Seq(Record)] /\ Heads(log, oldLog) /\ Sound(Disk)
  BY <1>1, <1>2, DiskFacts
<1>4. Kept(file, file')
  BY <1>1 DEF Kept
<1>5. Heads(log', oldLog) /\ log'[oldLog][1].seq = seq /\ Disk'.files = Disk.files
  <2>1. CASE log' = log
    <3>1. Disk' = Disk
      BY <1>2, <2>1 DEF Disk
    <3> QED BY <1>2, <1>3, <2>1, <3>1
  <2>2. CASE AddRecord(oldLog, EndRecord)
    <3>1. PICK st : st = Disk /\ st = Decoded(Tail(log[oldLog]))
      BY <1>2 DEF Disk
    <3>2. PICK r \in Record : r = EndRecord
      BY OtherRecordTypes
    <3>3. Sound(DecodeRecord(st, r)) /\ DecodeRecord(st, r).files = st.files
      BY <1>3, <3>1, <3>2, EndTurns
    <3>4. PICK m : m = log' /\ Grown(log, m, oldLog, r)
      BY <2>2, <3>2 DEF AddRecord, Grown
    <3>5. /\ Heads(m, oldLog) /\ m[oldLog][1].seq = log[oldLog][1].seq
          /\ Decoded(Tail(m[oldLog])) = DecodeRecord(Decoded(Tail(log[oldLog])), r)
      <4>1. Sound(DecodeRecord(Decoded(Tail(log[oldLog])), r))
        BY <3>1, <3>3
      <4> QED BY <1>3, <3>4, <4>1, HeadsAppend
    <3>6. Disk' = DecodeRecord(st, r)
      BY <1>2, <3>1, <3>4, <3>5 DEF Disk
    <3> QED BY <1>2, <3>1, <3>3, <3>4, <3>5, <3>6
  <2> QED BY <2>1, <2>2 DEF WriteEndRecord, FinishOldZone
<1>6. metaLog' \notin finished'
  BY <1>1 DEF WriteEndRecord, FinishOldZone, CrashInv, LogInv, Rolling, TypeInv, Where
<1>7. LogInv'
  BY <1>1, <1>2, <1>5, <1>6 DEF LogInv, Rolling
<1> QED BY <1>1, <1>2, <1>4, <1>5, <1>7, DeviceInv DEF Settled

(* Under Safe, a roll that may fail is that of a mount, or of the           *)
(* destructor after it.                                                     *)
LEMMA RollMounts ==
  ASSUME Safe, FrameInv, at \in RollAts
  PROVE  /\ "roll" \in Faults => op.kind \in {"mount", "abort"}
         /\ ~Creating
BY DEF Safe, Plain, FrameInv, OpInv, RoomInv, Unrolled, Creating

(* A roll that fails half-way: meta_log_ is a zone without a snapshot.      *)
LEMMA RollFails ==
  ASSUME TypeInv, FrameInv, CrashInv, at \in {"superblock", "snapshot"}, at' = "error",
         op.kind \in {"mount", "abort"},
         UNCHANGED <<log, finished, metaLog, oldLog, files, file, nextId, op>>
  PROVE  CrashInv'
<1>1. Up /\ Up' /\ oldLog # None /\ oldLog # metaLog /\ Len(log[metaLog]) <= 1
  <2>1. at = "superblock" => log[metaLog] = <<>>
    BY DEF TypeInv, Where
  <2>2. at = "snapshot" => Len(log[metaLog]) = 1
    BY DEF TypeInv, Where
  <2>3. Len(<<>>) = 0 /\ 0 <= 1 /\ 1 <= 1
    OBVIOUS
  <2>4. Len(log[metaLog]) <= 1
    BY <2>1, <2>2, <2>3, Zenon
  <2> QED BY <2>4 DEF Up, TypeInv, Where, Rolling, MetaZone, None
<1>2. Cur = oldLog /\ Cur' = oldLog /\ Disk.files = Before
  BY <1>1 DEF Cur, Rolling, CrashInv, AgreeInv, Settled
<1>3. Heads(log, oldLog)
  BY <1>1, <1>2, DiskFacts
<1>4. Disk' = Disk
  BY <1>2 DEF Disk
<1>5. LogInv'
  BY <1>1, <1>2, <1>3 DEF CrashInv, LogInv, Rolling
<1>6. Kept(file, file')
  BY DEF Kept
<1> QED BY <1>2, <1>4, <1>5, <1>6, DeviceInv DEF Settled

(* The new zone gets its superblock, with the next number.                  *)
LEMMA WriteSuperblockCrash ==
  ASSUME Safe, TypeInv, FrameInv, CrashInv, WriteSuperblock
  PROVE  CrashInv'
<1>1. /\ at = "superblock" /\ Up /\ seq' = seq + 1 /\ seq \in Nat
      /\ UNCHANGED <<finished, metaLog, oldLog, files, file, nextId, op>>
  BY DEF WriteSuperblock, memoryVars, Up, NextSeq, TypeInv, Types, ZoneTypes
<1>2. CASE at' = "error" /\ "roll" \in Faults /\ log' = log
  <2>1. op.kind \in {"mount", "abort"}
    BY <1>1, <1>2, RollMounts DEF RollAts, Rolling
  <2> QED BY <1>1, <1>2, <2>1, RollFails
<1>3. CASE at' = "encode" /\ AddRecord(metaLog, SuperblockRecord(seq'))
  <2>1. /\ Cur = oldLog /\ Cur' = oldLog /\ seq = log[oldLog][1].seq /\ Disk.files = Before
        /\ Up' /\ metaLog \in MetaZone /\ oldLog # metaLog /\ log[metaLog] = <<>>
    BY <1>1, <1>3 DEF Cur, CrashInv, LogInv, AgreeInv, Rolling, Settled, Up, TypeInv, Where
  <2>2. log \in [MetaZone -> Seq(Record)] /\ Heads(log, oldLog) /\ oldLog \in MetaZone
    BY <1>1, <2>1, DiskFacts
  <2>3. PICK q \in Supers : q = SuperblockRecord(seq')
    BY <1>1, OtherRecordTypes
  <2>4. PICK m : m = log' /\ Put(log, m, metaLog, <<q>>)
    <3>1. log' = [log EXCEPT ![metaLog] = Append(@, q)]
      BY <1>3, <2>3 DEF AddRecord
    <3>2. Append(<<>>, q) = <<q>>
      OBVIOUS
    <3> QED BY <2>1, <2>2, <3>1, <3>2 DEF Put
  <2>5. Fragment(<<q>>) /\ <<q>>[1] = q
    BY DEF Fragment
  <2>6. Heads(m, oldLog) /\ m[oldLog] = log[oldLog]
    <3>1. PICK x : x = <<q>> /\ Fragment(x)
      BY <2>5
    <3> QED BY <2>1, <2>2, <2>4, <3>1, HeadsOther
  <2>7. m[metaLog] = <<q>>
    BY <2>1, <2>2, <2>4 DEF Put
  <2>8. /\ log'[metaLog'][1] = SuperblockRecord(seq') /\ log'[oldLog'][1].seq < seq'
    <3>1. PICK k \in Nat : k = seq
      BY <1>1
    <3>2. k < k + 1
      OBVIOUS
    <3> QED BY <1>1, <2>1, <2>3, <2>4, <2>5, <2>6, <2>7, <3>1, <3>2
  <2>9. Disk' = Disk
    BY <2>1, <2>4, <2>6 DEF Disk
  <2>10. LogInv'
    BY <1>1, <1>3, <2>1, <2>4, <2>6, <2>8 DEF CrashInv, LogInv, Rolling
  <2>11. Kept(file, file')
    BY <1>1 DEF Kept
  <2> QED BY <1>1, <1>3, <2>1, <2>9, <2>10, <2>11, DeviceInv DEF Settled
<1> QED BY <1>2, <1>3 DEF WriteSuperblock

(* A snapshot has the files that have a name.                               *)
LEMMA SnapshotPictures ==
  ASSUME NEW f, Files(f), NEW ns \in NameMap,
         \A i \in Id : Named(ns, i) # {} => LinkedTo(f[i].links, ns, i)
  PROVE  Pictures(EncodeSnapshotTo(ns, f), ns)
<1>1. f \in [Id -> FileType] /\ 0 \in Nat
  BY DEF Files
<1>2. PICK S : S = EncodeSnapshotTo(ns, f)
  OBVIOUS
<1>3. \A e \in S : \E n \in Names : ns[n] # None /\ e = Encode(f, ns[n], 0)
  BY <1>2 DEF EncodeSnapshotTo
<1>4. \A n \in Names : ns[n] # None => Encode(f, ns[n], 0) \in S
  BY <1>2 DEF EncodeSnapshotTo
<1>5. ASSUME NEW n \in Names, ns[n] # None
      PROVE  /\ ns[n] \in Id /\ Encode(f, ns[n], 0).id = ns[n]
             /\ Encode(f, ns[n], 0).links = f[ns[n]].links /\ Named(ns, ns[n]) # {}
  <2>1. PICK i \in Id : i = ns[n]
    BY <1>5 DEF NameMap
  <2>2. Encode(f, i, 0).id = i /\ Encode(f, i, 0).links = f[i].links
    BY <1>1, EncodeTypes
  <2>3. Named(ns, i) # {}
    BY <2>1 DEF Named
  <2> QED BY <2>1, <2>2, <2>3
<1>6. ASSUME NEW e \in S PROVE Named(ns, e.id) # {} /\ LinkedTo(e.links, ns, e.id)
  BY <1>3, <1>5
<1>7. ASSUME NEW e \in S, NEW g \in S, e.id = g.id PROVE e = g
  <2>1. PICK n \in Names : ns[n] # None /\ e = Encode(f, ns[n], 0)
    BY <1>3
  <2>2. PICK k \in Names : ns[k] # None /\ g = Encode(f, ns[k], 0)
    BY <1>3
  <2>3. ns[n] = ns[k]
    BY <1>5, <1>7, <2>1, <2>2
  <2> QED BY <2>1, <2>2, <2>3
<1>8. ASSUME NEW n \in Names, ns[n] # None PROVE \E e \in S : e.id = ns[n]
  BY <1>4, <1>5, <1>8
<1>9. Pictures(S, ns)
  BY <1>6, <1>7, <1>8 DEF Pictures
<1> QED BY <1>2, <1>9

(* The snapshot that is to be written has every named file.                 *)
LEMMA EncodeSnapshotCrash ==
  ASSUME TypeInv, FrameInv, CrashInv, EncodeSnapshot
  PROVE  CrashInv'
<1>1. /\ at = "encode" /\ at' = "snapshot" /\ Up /\ Up'
      /\ rec' = SnapshotRecord(EncodeSnapshotTo(files, file))
      /\ UNCHANGED <<log, finished, metaLog, oldLog, seq, files, file, nextId, op>>
      /\ Files(file) /\ files \in NameMap
  BY DEF EncodeSnapshot, deviceVars, memoryVars, Up, TypeInv, Types, MemoryTypes
<1>2. Cur' = Cur /\ Cur = oldLog
  BY <1>1 DEF Cur, Rolling
<1>3. Disk' = Disk /\ Disk.files = Before
  BY <1>1, <1>2 DEF Disk, CrashInv, AgreeInv, Settled
<1>4. LogInv'
  BY <1>1, <1>2 DEF CrashInv, LogInv, Rolling
<1>5. NameInv' /\ CallInv' /\ Before' = Before
  <2>1. Kept(file, file')
    BY <1>1 DEF Kept
  <2> QED BY <1>1, <2>1, SameCall DEF CrashInv
<1>6. \A i \in Id : Named(files, i) # {} => LinkedTo(file[i].links, files, i)
  <2> SUFFICES ASSUME NEW i \in Id, Named(files, i) # {} PROVE LinkedTo(file[i].links, files, i)
    OBVIOUS
  <2>1. i # Newborn
    BY DEF CrashInv, NameInv, Newborn, Id, None
  <2> QED BY <2>1 DEF CrashInv, NameInv, Linked
<1>7. Pictures(EncodeSnapshotTo(files, file), files)
  BY <1>1, <1>6, SnapshotPictures
<1>8. rec'.tag = "snapshot" /\ rec'.files = EncodeSnapshotTo(files, file)
  BY <1>1 DEF SnapshotRecord
<1>9. AgreeInv'
  BY <1>1, <1>3, <1>5, <1>7, <1>8 DEF AgreeInv, Settled
<1> QED BY <1>4, <1>5, <1>9 DEF CrashInv

(* The snapshot is in the new zone, which now leads.                        *)
LEMMA WriteSnapshotCrash ==
  ASSUME Safe, TypeInv, FrameInv, CrashInv, WriteSnapshot
  PROVE  CrashInv'
<1>1. /\ at = "snapshot" /\ Up /\ rec \in Record /\ files \in NameMap
      /\ UNCHANGED <<finished, metaLog, oldLog, seq, files, file, nextId, op>>
  BY DEF WriteSnapshot, memoryVars, Up, TypeInv, Types, CallTypes, MemoryTypes
<1>2. ("roll" \in Faults => op.kind \in {"mount", "abort"}) /\ ~Creating
  BY <1>1, RollMounts DEF RollAts, Rolling
<1>3. CASE at' = "error" /\ "roll" \in Faults /\ log' = log
  BY <1>1, <1>2, <1>3, RollFails
<1>4. CASE at' = "synced" /\ AddRecord(metaLog, rec)
  <2>1. /\ Cur = oldLog /\ oldLog # metaLog /\ metaLog \in MetaZone /\ Len(log[metaLog]) = 1
        /\ log[metaLog][1] = SuperblockRecord(seq) /\ log[oldLog][1].seq < seq /\ seq \in Nat
    BY <1>1 DEF Cur, Rolling, TypeInv, Where, CrashInv, LogInv, Types, ZoneTypes
  <2>2. log \in [MetaZone -> Seq(Record)] /\ Heads(log, oldLog)
    BY <1>1, <2>1, DiskFacts
  <2>3. PICK q \in Supers : q = log[metaLog][1] /\ q.seq = seq
    BY <2>1 DEF SuperblockRecord, Supers
  <2>4. /\ Sound(DecodeRecord(Blank, rec)) /\ ~DecodeRecord(Blank, rec).ended
        /\ DecodeRecord(Blank, rec).files = files
    BY <1>1, SnapshotRestores DEF CrashInv, AgreeInv
  <2>5. PICK m : m = log' /\ Grown(log, m, metaLog, rec)
    BY <1>4 DEF AddRecord, Grown
  <2>6. /\ Heads(m, metaLog) /\ m[metaLog][1] = q
        /\ Decoded(Tail(m[metaLog])) = DecodeRecord(Blank, rec)
    <3>1. PICK l, c, z, r : /\ l = log /\ c = oldLog /\ z = metaLog /\ r = rec
                            /\ l \in [MetaZone -> Seq(Record)] /\ r \in Record
      BY <1>1, <2>2
    <3>2. /\ Heads(l, c) /\ z \in MetaZone /\ z # c /\ Len(l[z]) = 1 /\ l[z][1] \in Supers
          /\ l[c][1].seq < l[z][1].seq /\ Grown(l, m, z, r)
      BY <2>1, <2>2, <2>3, <2>5, <3>1
    <3>3. /\ m[z][1] = l[z][1] /\ Decoded(Tail(m[z])) = DecodeRecord(Blank, r)
          /\ Sound(DecodeRecord(Blank, r)) => Heads(m, z)
      BY <3>1, <3>2, HeadsNew
    <3> QED BY <2>3, <2>4, <3>1, <3>3
  <2>7. Cur' = metaLog /\ Up'
    BY <1>1, <1>4 DEF Cur, Rolling, Up
  <2>8. Disk' = DecodeRecord(Blank, rec)
    BY <2>5, <2>6, <2>7 DEF Disk
  <2>9. LogInv'
    BY <1>1, <1>4, <2>3, <2>4, <2>5, <2>6, <2>7, <2>8 DEF LogInv, Rolling
  <2>10. files = After
    BY <1>1, <1>2 DEF CrashInv, CallInv, FrameInv, OpInv
  <2>11. Kept(file, file')
    BY <1>1 DEF Kept
  <2> QED BY <1>1, <1>4, <2>4, <2>8, <2>9, <2>10, <2>11, DeviceInv DEF Settled
<1> QED BY <1>3, <1>4 DEF WriteSnapshot

(* The files of the snapshot are marked synced.                             *)
LEMMA SnapshotSyncedCrash ==
  ASSUME TypeInv, FrameInv, CrashInv, SnapshotSynced
  PROVE  CrashInv'
<1>1. /\ at = "synced" /\ at' = "reset" /\ Up /\ Up' /\ Files(file)
      /\ file' = MetadataSynced(file, Range(files))
      /\ UNCHANGED <<log, metaLog, oldLog, seq, files, nextId, op>>
  BY DEF SnapshotSynced, deviceVars, Up, TypeInv, Types, MemoryTypes
<1>2. Cur' = Cur /\ Cur = metaLog
  BY <1>1 DEF Cur, Rolling
<1>3. Disk' = Disk /\ Disk.files = After
  <2>1. op.kind # "none"
    BY <1>1 DEF FrameInv, OpInv
  <2> QED BY <1>1, <1>2, <2>1 DEF Disk, CrashInv, AgreeInv, Settled
<1>4. LogInv'
  BY <1>1, <1>2, <1>3 DEF CrashInv, LogInv, Rolling
<1>5. Kept(file, file')
  <2>1. CASE Id = {}
    BY <2>1 DEF Kept
  <2>2. CASE Id # {}
    <3>1. PICK i \in Id : TRUE
      BY <2>2
    <3> QED BY <1>1, <3>1, KeptFacts
  <2> QED BY <2>1, <2>2
<1> QED BY <1>1, <1>3, <1>4, <1>5, DeviceInv DEF Settled

(* The old zone is emptied, or stays behind with an older superblock.       *)
LEMMA ResetOldZoneCrash ==
  ASSUME TypeInv, FrameInv, CrashInv, ResetOldZone
  PROVE  CrashInv'
<1>1. /\ at = "reset" /\ at' = "done" /\ Up /\ Up' /\ oldLog' = None
      /\ oldLog \in MetaZone /\ oldLog # metaLog
      /\ UNCHANGED <<metaLog, seq, files, file, nextId, op>>
  BY DEF ResetOldZone, memoryVars, Up, TypeInv, Where
<1>2. Cur' = metaLog /\ Cur = metaLog
  BY <1>1 DEF Cur, Rolling
<1>3. /\ Disk.files = After /\ ~Disk.ended /\ seq = log[metaLog][1].seq
  <2>1. op.kind # "none"
    BY <1>1 DEF FrameInv, OpInv
  <2> QED BY <1>1, <1>2, <2>1 DEF CrashInv, AgreeInv, Settled, LogInv, Rolling
<1>4. log \in [MetaZone -> Seq(Record)] /\ Heads(log, metaLog)
  BY <1>1, <1>2, DiskFacts
<1>5. Heads(log', metaLog) /\ log'[metaLog] = log[metaLog]
  <2>1. CASE log' = log
    BY <1>4, <2>1
  <2>2. CASE Emptied(oldLog)
    <3>1. PICK m : m = log' /\ Put(log, m, oldLog, <<>>)
      BY <2>2 DEF Emptied, Put
    <3>2. Fragment(<<>>)
      BY DEF Fragment
    <3> QED BY <1>1, <1>4, <3>1, <3>2, HeadsOther
  <2> QED BY <2>1, <2>2 DEF ResetOldZone, deviceVars
<1>6. Disk' = Disk
  BY <1>2, <1>5 DEF Disk
<1>7. LogInv'
  BY <1>1, <1>2, <1>3, <1>5, <1>6 DEF LogInv, Rolling
<1>8. Kept(file, file')
  BY <1>1 DEF Kept
<1> QED BY <1>1, <1>3, <1>6, <1>7, <1>8, DeviceInv DEF Settled

(* Every step of a roll keeps CrashInv.                                     *)
LEMMA RollCrash ==
  ASSUME Safe, TypeInv, FrameInv, CrashInv, Roll
  PROVE  CrashInv'
BY AllocateMetaZoneCrash, CloseOldZoneCrash, WriteSuperblockCrash, EncodeSnapshotCrash,
   WriteSnapshotCrash, SnapshotSyncedCrash, ResetOldZoneCrash DEF Roll

(* A zone with two records.                                                 *)
LEMMA PairIsAppend ==
  ASSUME NEW R, NEW a \in R, NEW r \in R
  PROVE  Append(<<a>>, r) = <<a, r>>
<1>1. <<a>> \in Seq(R) /\ Len(<<a>>) = 1 /\ <<a>>[1] = a
  OBVIOUS
<1>2. PICK s \in Seq(R) : s = <<a>> /\ Len(s) = 1 /\ s[1] = a
  BY <1>1
<1>3. <<a, r>> \in Seq(R) /\ Len(<<a, r>>) = 2 /\ <<a, r>>[1] = a /\ <<a, r>>[2] = r
  OBVIOUS
<1>4. PICK w \in Seq(R) : w = <<a, r>> /\ Len(w) = 2 /\ w[1] = a /\ w[2] = r
  BY <1>3
<1>5. PICK u \in Seq(R) : u = Append(s, r) /\ Len(u) = Len(s) + 1 /\ u[1] = s[1] /\ u[Len(s) + 1] = r
  <2>1. /\ Append(s, r) \in Seq(R) /\ Len(Append(s, r)) = Len(s) + 1
        /\ \A k \in 1..Len(s) : Append(s, r)[k] = s[k]
        /\ Append(s, r)[Len(s) + 1] = r
    BY AppendProperties
  <2>2. 1 \in 1..Len(s)
    BY <1>2
  <2> QED BY <2>1, <2>2, Zenon
<1>6. 1 + 1 = 2
  OBVIOUS
<1>7. Len(u) = 2 /\ u[1] = a /\ u[2] = r
  BY <1>2, <1>5, <1>6, Zenon
<1>8. Len(u) = Len(w) /\ \A k \in 1..Len(u) : u[k] = w[k]
  BY <1>4, <1>7
<1> QED BY <1>2, <1>4, <1>5, <1>8, SeqEqual

(* MkFS has written a superblock and a snapshot of the first files.         *)
LEMMA InitCrash ==
  ASSUME Init
  PROVE  CrashInv
<1>1. /\ at = "idle" /\ op = NoOp /\ metaLog = 1 /\ oldLog = None /\ seq = 1
      /\ op.kind = "none" /\ ~op.deleting /\ op.pre = NoNames /\ op.mid = NoNames
  <2>1. at = "idle" /\ op = NoOp /\ metaLog = 1 /\ oldLog = None /\ seq = 1
    BY Zenon DEF Init
  <2> QED BY <2>1, NoOpTypes
<1>2. TypeInv
  BY InitTypes
<1>3. /\ Files(file) /\ files \in NameMap /\ log \in [MetaZone -> Seq(Record)]
      /\ nextId \in 1..MaxFileId + 1 /\ MaxFileId \in Nat /\ 1 \in MetaZone
  BY <1>2, MetaAssumption DEF TypeInv, Types, MemoryTypes, DeviceTypes, MetaZone
<1>4. PICK r \in Record : r = SnapshotRecord(EncodeSnapshotTo(files, file))
  BY <1>3, SnapshotRecordTypes DEF Files
<1>5. PICK q \in Supers : q = SuperblockRecord(1) /\ q.seq = 1
  <2>1. SuperblockRecord(1) \in Supers
    BY OtherRecordTypes
  <2>2. SuperblockRecord(1).seq = 1
    BY DEF SuperblockRecord
  <2> QED BY <2>1, <2>2
<1>6. log = [z \in MetaZone |-> IF z = 1 THEN <<q, r>> ELSE <<>>]
  BY <1>4, <1>5 DEF Init
<1>7. /\ Sound(DecodeRecord(Blank, r)) /\ ~DecodeRecord(Blank, r).ended
      /\ DecodeRecord(Blank, r).files = files
  <2>1. Pictures(EncodeSnapshotTo(files, file), files)
    BY <1>3, InitFiles, SnapshotPictures
  <2>2. r.tag = "snapshot" /\ r.files = EncodeSnapshotTo(files, file)
    BY <1>4 DEF SnapshotRecord
  <2> QED BY <1>3, <2>1, <2>2, SnapshotRestores
<1>8. PICK l \in Seq(Record) : l = <<q, r>> /\ Len(l) = 2 /\ l[1] = q
  <2>1. PICK a \in Record : a = q
    BY DEF Record
  <2>2. <<a, r>> \in Seq(Record) /\ Len(<<a, r>>) = 2 /\ <<a, r>>[1] = a
    OBVIOUS
  <2> QED BY <2>1, <2>2
<1>9. Decoded(Tail(l)) = DecodeRecord(Blank, r)
  <2>1. PICK s \in Seq(Record) : s = <<q>> /\ s # <<>> /\ Tail(s) = <<>> /\ Append(s, r) = l
    <3>1. PICK a \in Record : a = q
      BY DEF Record
    <3>2. <<a>> \in Seq(Record) /\ <<a>> # <<>>
      OBVIOUS
    <3>3. Tail(<<a>>) = <<>>
      OBVIOUS
    <3>4. Append(<<a>>, r) = <<a, r>>
      BY PairIsAppend
    <3> QED BY <1>8, <3>1, <3>2, <3>3, <3>4
  <2>2. Decoded(Tail(Append(s, r))) = DecodeRecord(Decoded(Tail(s)), r)
    BY <2>1, DecodedTail
  <2> QED BY <2>1, <2>2, DecodedEmpty
<1>10. Cur = 1 /\ log[1] = l
  BY <1>1, <1>3, <1>6, <1>8 DEF Cur, Rolling
<1>11. Heads(log, 1)
  <2>1. Whole(l)
    BY <1>7, <1>8, <1>9 DEF Whole
  <2>2. \A z \in MetaZone \ {1} : log[z] = <<>>
    BY <1>6
  <2> QED BY <1>3, <1>10, <2>1, <2>2 DEF Heads, Newer, Fragment
<1>12. Disk.files = files /\ ~Disk.ended
  BY <1>7, <1>9, <1>10 DEF Disk
<1>13. LogInv
  BY <1>1, <1>5, <1>8, <1>10, <1>11, <1>12 DEF LogInv, Rolling, Up
<1>14. ~Creating /\ Newborn = None /\ Victim = None
  BY <1>1 DEF Creating, Newborn, Victim
<1>15. \A n \in Names : NoNames[n] < nextId
  BY <1>3 DEF NoNames, None
<1>16. NameInv
  BY <1>1, <1>14, <1>15, InitFiles DEF NameInv, Linked, Homed
<1>17. CallInv
  BY <1>1 DEF CallInv
<1>18. AgreeInv
  BY <1>1, <1>12 DEF AgreeInv, Settled
<1> QED BY <1>13, <1>16, <1>17, <1>18 DEF CrashInv

(* Log, names, links and the call under way agree at every step, under the  *)
(* hypothesis that a roll of the log neither meets a creation nor fails.    *)
LEMMA CrashInvariant ==
  ASSUME Safe
  PROVE  Spec => []CrashInv
<1>1. TypeInv /\ TypeInv' /\ FrameInv /\ FrameInv' /\ CrashInv /\ [Next]_vars => CrashInv'
  <2> SUFFICES ASSUME TypeInv, TypeInv', FrameInv, FrameInv', CrashInv, [Next]_vars
               PROVE  CrashInv'
    OBVIOUS
  <2>1. CASE UNCHANGED vars
    <3>1. UNCHANGED <<log, finished, metaLog, oldLog, seq, at, op, rec, files, nextId, file>>
      BY <2>1 DEF vars, deviceVars, memoryVars
    <3> QED BY <3>1, StayInv DEF CrashInv, NameInv
  <2>2. CASE Step
    BY <2>2, PersistRecordCrash, RollCrash, AcquireWRLockCrash, DeletedCrash, PersistedCrash,
       RollBackCrash, ShutdownCrash, DeleteZenFSCrash, MountCrash, MountedCrash DEF Step
  <2>3. CASE \E t \in Threads : Call(t)
    BY <2>3, CallCrash
  <2> QED BY <2>1, <2>2, <2>3, CrashCrash DEF Next
<1>2. Init => CrashInv
  BY InitCrash
<1> QED BY <1>1, <1>2, TypesInvariant, FrameInvariant, PTL DEF Spec

-----------------------------------------------------------------------------
(* What a mount would restore                                               *)

(* What Mount would restore is what the zone in use says.                   *)
LEMMA RecoveredIsDisk ==
  ASSUME TypeInv, CrashInv, Up
  PROVE  /\ Recovered.status = "ok" /\ Recovered.files = Disk.files /\ NewestZone = Cur
         /\ ~Spoiled
<1>1. log \in [MetaZone -> Seq(Record)] /\ Leads(Cur)
  BY DiskFacts, HeadsLeads
<1> QED BY <1>1, LeaderIsRecovered, LeaderUnspoiled DEF Disk

(* With no process, Mount succeeds unless a zone is spoiled.                *)
LEMMA DownMounts ==
  ASSUME TypeInv, CrashInv, ~Up
  PROVE  Recovered.status = "ok" <=> ~Spoiled
<1>1. log \in [MetaZone -> Seq(Record)]
  BY DEF TypeInv, Types, DeviceTypes
<1>2. PICK c \in MetaZone : Heads(log, c) \/ Stops(log, c) \/ Headless(log, c)
  BY DEF CrashInv, LogInv
<1>3. CASE Heads(log, c)
  BY <1>1, <1>3, HeadsLeads, LeaderIsRecovered, LeaderUnspoiled
<1>4. CASE Stops(log, c)
  <2>1. Recovered.status = "corruption"
    BY <1>1, <1>4, HeadsLeads, BlockedIsCorrupt
  <2>2. log[c] # <<>>
    <3>1. PICK l \in Seq(Record) : l = log[c]
      BY <1>1
    <3>2. Len(l) = 2
      BY <1>4, <3>1 DEF Stops
    <3> QED BY <3>1, <3>2
  <2>3. Spoiled
    BY <1>4, <2>2 DEF Stops, Spoiled
  <2> QED BY <2>1, <2>3
<1>5. CASE Headless(log, c)
  BY <1>1, <1>5, HeadlessFacts
<1> QED BY <1>2, <1>3, <1>4, <1>5

(* Wherever a crash comes between two writes, no zone is spoiled and Mount  *)
(* restores the name space from before or after the call under way, or the  *)
(* one without the file that the call replaces; between calls, files_.      *)
(* With the file system down, too, Mount succeeds exactly if no zone is     *)
(* spoiled: by a snapshot that a crash cut short or by the record that the  *)
(* destructor of a failed mount writes to a zone without a superblock       *)
(* (ZenFS::Mount, RecoverFrom, RollMetaZoneLocked, PersistRecord, ~ZenFS).  *)
THEOREM CrashesAreAtomic ==
  ASSUME Safe
  PROVE  Spec => []CrashAtomic
<1>1. TypeInv /\ FrameInv /\ CrashInv => CrashAtomic
  <2> SUFFICES ASSUME TypeInv, FrameInv, CrashInv, Up
               PROVE  /\ Recovered.status = "ok" /\ ~Spoiled
                      /\ Recovered.files \in IF at = "idle" THEN {files} ELSE {op.pre, op.mid, op.post}
    BY DownMounts DEF CrashAtomic
  <2>1. Recovered.status = "ok" /\ Recovered.files = Disk.files /\ ~Spoiled
    BY RecoveredIsDisk
  <2>2. CASE at = "idle"
    BY <2>1, <2>2, IdleFacts
  <2>3. CASE at # "idle"
    <3>1. op.kind # "none"
      BY <2>3 DEF FrameInv, OpInv, Up
    <3>2. Disk.files \in {Before, After}
      BY <3>1 DEF CrashInv, AgreeInv
    <3> QED BY <2>1, <2>3, <3>2 DEF Before, After
  <2> QED BY <2>2, <2>3, <2>1
<1>2. Spec => []CrashInv
  BY CrashInvariant
<1> QED BY <1>1, <1>2, TypesInvariant, FrameInvariant, PTL

(* Between calls, and while a record is about to be written, the zone of    *)
(* meta_log_ is the one Mount would choose, whatever superblocks crashed    *)
(* rolls, failed mounts with their destructors and failed resets have left  *)
(* (Superblock, ZenFS::Mount, PersistRecord, ~ZenFS).                       *)
THEOREM NewestIsInUse ==
  ASSUME Safe
  PROVE  Spec => []NewestInUse
<1>1. TypeInv /\ CrashInv => NewestInUse
  <2> SUFFICES ASSUME TypeInv, CrashInv, at \in {"idle", "persist"} PROVE NewestZone = metaLog
    BY DEF NewestInUse
  <2>1. Up /\ Cur = metaLog
    BY DEF Up, Cur, Rolling
  <2> QED BY <2>1, RecoveredIsDisk
<1>2. Spec => []CrashInv
  BY CrashInvariant
<1> QED BY <1>1, <1>2, TypesInvariant, PTL

(* next_file_id_ is past the number of every file that Mount would restore, *)
(* so that no new file is taken for an update of an old one                 *)
(* (DecodeFileUpdateFrom, OpenWritableFile).                                *)
THEOREM NumbersAreFresh ==
  ASSUME Safe
  PROVE  Spec => []FreshIds
<1>1. TypeInv /\ FrameInv /\ CrashInv => FreshIds
  <2> SUFFICES ASSUME TypeInv, FrameInv, CrashInv, Up, NEW i \in Range(Recovered.files)
               PROVE  i < nextId
    BY DEF FreshIds
  <2>1. Recovered.files = Disk.files /\ Disk.files \in NameMap
    BY RecoveredIsDisk, DiskFacts DEF Sound, State
  <2>2. PICK n \in Names : i = Disk.files[n]
    BY <2>1 DEF Range, NameMap
  <2>3. files[n] < nextId /\ op.pre[n] < nextId /\ op.mid[n] < nextId
    BY DEF CrashInv, NameInv
  <2>4. Disk.files \in {files, op.pre, op.mid, op.post}
    BY DEF CrashInv, AgreeInv, Before, After
  <2>5. CASE Disk.files \in {files, op.pre, op.mid}
    BY <2>2, <2>3, <2>5
  <2>6. CASE Disk.files \notin {files, op.pre, op.mid}
    <3>1. Disk.files = op.post /\ Disk.files = After /\ After = op.post /\ op.kind # "none"
          /\ files # After
      BY <2>4, <2>6 DEF CrashInv, AgreeInv, Before, After
    <3>2. Creating
      BY <3>1 DEF CrashInv, CallInv
    <3>3. op.id < nextId /\ op.post = [op.mid EXCEPT ![op.name] = op.id] /\ op.mid \in NameMap
      BY <3>2 DEF CrashInv, NameInv, CallInv, Creating, TypeInv, Types, CallTypes, OpType
    <3>4. i \in {op.id, op.mid[n]}
      BY <2>2, <3>1, <3>3 DEF NameMap
    <3> QED BY <2>3, <3>3, <3>4
  <2> QED BY <2>5, <2>6
<1>2. Spec => []CrashInv
  BY CrashInvariant
<1> QED BY <1>1, <1>2, TypesInvariant, FrameInvariant, PTL

(* Between calls the names that stand for a file are its links, after calls *)
(* that were taken back and after mounts, too (ZoneFile::linkfiles_ and     *)
(* ZenFS::files_).                                                          *)
THEOREM LinksAreNames ==
  ASSUME Safe
  PROVE  Spec => []LinksMatchNames
<1>1. FrameInv /\ CrashInv => LinksMatchNames
  <2> SUFFICES ASSUME FrameInv, CrashInv, at = "idle", NEW i \in Id
               PROVE  {n \in Names : files[n] = i} = Range(file[i].links)
    BY DEF LinksMatchNames
  <2>1. i \in Id \ {None} /\ Linked(file, files, None)
    BY IdleFacts DEF Id, None
  <2> QED BY <2>1 DEF Linked, LinkedTo, Named
<1>2. Spec => []CrashInv
  BY CrashInvariant
<1> QED BY <1>1, <1>2, FrameInvariant, PTL

-----------------------------------------------------------------------------
(* What a mount would restore of the extents.  Each record of a file has    *)
(* only the extents since nr_synced_extents_, so that what the log has of a *)
(* file is a running sum: DurInv says that the sum is the first Count(i)    *)
(* extents of the file, through every call, roll, failure and mount.        *)

(* One thread writes, and no file is migrated: with a second thread an      *)
(* extent pushed while a snapshot is written counts as synced, and a        *)
(* migration declares the extents that are in the log unsynced.             *)
Solo == (\A t, u \in Threads : t = u) /\ "migrate" \notin Ops

(* Nothing is being migrated; a call is its thread's, and before the first  *)
(* one nobody writes.                                                       *)
AloneInv ==
  /\ op.kind # "replace" /\ \A i \in Id : ~file[i].moved
  /\ op.kind \notin {"none", "mount", "abort"} => op.who \in Threads
  /\ op.kind \in {"mount", "abort"} => \A i \in Id : file[i].wr = NoThread

(* A call that a client begins.                                             *)
Began(o) == o.kind \notin {"none", "mount", "abort", "replace"} /\ o.who \in Threads

(* The caller of a request is its thread.                                   *)
LEMMA RequestBegins ==
  ASSUME files \in NameMap, NEW kind \in Kinds, NEW t \in Threads, NEW i \in Id \cup {None},
         kind \notin {"none", "mount", "abort", "replace"}, NEW n \in Names,
         NEW post \in NameMap,
         NEW o,
         \/ o = Request(kind, t, i)
         \/ \E k \in Nat : o = [Request(kind, t, i) EXCEPT !.n = k]
         \/ o = Overwriting(Request(kind, t, i), n, post)
         \/ \E v : /\ v = Overwriting(Request(kind, t, i), n, post)
                  /\ \E s \in Names : o = [v EXCEPT !.src = s]
  PROVE  Began(o)
<1>1. PICK r : r = Request(kind, t, i)
  OBVIOUS
<1>2. r \in OpType /\ r.kind = kind /\ r.who = t
  BY <1>1, RequestTypes
<1>3. PICK v : v = Overwriting(r, n, post)
  OBVIOUS
<1>4. v \in OpType /\ v.kind = kind /\ v.who = t
  <2>1. Overwrites(v, r, n, post)
    BY <1>2, <1>3, OverwritingTypes
  <2> QED BY <1>2, <2>1 DEF Overwrites
<1>5. CASE o = r \/ o = v
  BY <1>2, <1>4, <1>5 DEF Began
<1>6. CASE \E k \in Nat : o = [r EXCEPT !.n = k]
  BY <1>2, <1>6 DEF Began, OpType
<1>7. CASE \E s \in Names : o = [v EXCEPT !.src = s]
  BY <1>4, <1>7 DEF Began, OpType
<1> QED BY <1>1, <1>3, <1>5, <1>6, <1>7

(* Every call of a client begins with its thread's request.                 *)
LEMMA CallBegins ==
  ASSUME TypeInv, NEW t \in Threads
  PROVE  /\ \A n \in Names : DeleteFile(t, n) => Began(op')
         /\ \A n \in Names : OpenWritableFile(t, n) => Began(op')
         /\ \A n \in Names : ReopenWritableFile(t, n) => Began(op')
         /\ \A s, d \in Names : RenameFile(t, s, d) => Began(op')
         /\ \A s, l \in Names : LinkFile(t, s, l) => Began(op')
         /\ \A i \in Id, what \in {"sync", "close"}, active \in BOOLEAN :
              SyncFileMetadata(t, i, what, active) => Began(op')
         /\ Unmount(t) => Began(op')
<1>1. files \in NameMap /\ nextId \in 1..MaxFileId + 1 /\ Files(file)
  BY DEF TypeInv, Types, MemoryTypes
<1>2. None \in Id \cup {None} /\ \A n \in Names : files[n] \in Id \cup {None}
  BY <1>1 DEF NameMap
<1>3. ASSUME NEW n \in Names, DeleteFile(t, n) PROVE Began(op')
  <2>1. op' = Overwriting(Request("delete", t, files[n]), n, Erase(files, {n}))
    BY <1>3 DEF DeleteFile
  <2>2. Erase(files, {n}) \in NameMap
    BY <1>1 DEF Erase, NameMap
  <2> QED BY <1>1, <1>2, <2>1, <2>2, RequestBegins DEF Kinds
<1>4. ASSUME NEW n \in Names, OpenWritableFile(t, n) PROVE Began(op')
  <2>1. /\ op' = Overwriting(Request("create", t, nextId), n, [files EXCEPT ![n] = nextId])
        /\ nextId \in Id
    BY <1>1, <1>4, MetaAssumption DEF OpenWritableFile, Id
  <2>2. [files EXCEPT ![n] = nextId] \in NameMap
    BY <1>1, <2>1 DEF NameMap
  <2> QED BY <1>1, <2>1, <2>2, RequestBegins DEF Kinds
<1>5. ASSUME NEW n \in Names, ReopenWritableFile(t, n) PROVE Began(op')
  <2>1. op' = Request("reopen", t, files[n])
    BY <1>5 DEF ReopenWritableFile
  <2> QED BY <1>1, <1>2, <2>1, RequestBegins DEF Kinds
<1>6. ASSUME NEW s \in Names, NEW d \in Names, RenameFile(t, s, d) PROVE Began(op')
  <2>1. PICK post : /\ post = IF s = d THEN Erase(files, {s})
                                ELSE [files EXCEPT ![s] = None, ![d] = files[s]]
                    /\ op' = [Overwriting(Request("rename", t, files[s]), d, post)
                                EXCEPT !.src = s]
    BY <1>6 DEF RenameFile
  <2>2. post \in NameMap
    BY <1>1, <2>1 DEF NameMap, Erase
  <2>3. PICK v : /\ v = Overwriting(Request("rename", t, files[s]), d, post)
                 /\ op' = [v EXCEPT !.src = s]
    BY <2>1
  <2> QED BY <1>1, <1>2, <2>2, <2>3, RequestBegins DEF Kinds
<1>7. ASSUME NEW s \in Names, NEW l \in Names, LinkFile(t, s, l) PROVE Began(op')
  <2>1. op' = Overwriting(Request("link", t, files[s]), l, [files EXCEPT ![l] = files[s]])
    BY <1>7 DEF LinkFile
  <2>2. [files EXCEPT ![l] = files[s]] \in NameMap
    BY <1>1 DEF NameMap
  <2> QED BY <1>1, <1>2, <2>1, <2>2, RequestBegins DEF Kinds
<1>8. ASSUME NEW i \in Id, NEW what \in {"sync", "close"}, NEW active \in BOOLEAN,
             SyncFileMetadata(t, i, what, active)
      PROVE  Began(op')
  <2>1. PICK k \in Nat : op' = [Request(what, t, i) EXCEPT !.n = k]
    BY <1>1, <1>8, LenProperties DEF SyncFileMetadata, Files, FileType
  <2>2. PICK r : r = Request(what, t, i)
    OBVIOUS
  <2>3. r \in OpType /\ r.kind = what /\ r.who = t
    BY <1>1, <2>2, RequestTypes DEF Kinds
  <2> QED BY <2>1, <2>2, <2>3 DEF Began, OpType
<1>9. ASSUME Unmount(t) PROVE Began(op')
  <2>1. op' = Request("unmount", t, None)
    BY <1>9 DEF Unmount
  <2>2. PICK r : r = Request("unmount", t, None)
    OBVIOUS
  <2>3. r \in OpType /\ r.kind = "unmount" /\ r.who = t
    BY <1>1, <2>2, RequestTypes DEF Kinds
  <2> QED BY <2>1, <2>2, <2>3 DEF Began
<1> QED BY <1>3, <1>4, <1>5, <1>6, <1>7, <1>8, <1>9

(* The calls keep AloneInv: none of them moves a file.                      *)
LEMMA CallAlone ==
  ASSUME Solo, TypeInv, TypeInv', FrameInv, AloneInv, NEW t \in Threads, Call(t)
  PROVE  AloneInv'
<1>1. files \in NameMap /\ Files(file) /\ t \in Threads \cup {NoThread}
  BY DEF TypeInv, Types, MemoryTypes
<1>2. \A i \in Id : ~file[i].moved
  BY DEF AloneInv
<1>3. ASSUME Began(op'), \A i \in Id : file'[i].moved => file[i].moved PROVE AloneInv'
  BY <1>2, <1>3 DEF AloneInv, Began
<1>4. CASE \E n \in Names : DeleteFile(t, n)
  <2>1. PICK n \in Names : DeleteFile(t, n)
    BY <1>4
  <2>2. \A i \in Id : file'[i].moved <=> file[i].moved
    BY <2>1, DeleteNoLockMoved DEF DeleteFile
  <2> QED BY <1>3, <2>1, <2>2, CallBegins
<1>5. CASE \E n \in Names : OpenWritableFile(t, n)
  <2>1. PICK n \in Names : OpenWritableFile(t, n)
    BY <1>5
  <2>2. nextId \in Id
    BY <2>1, OpenWritableFileOp
  <2>3. \A i \in Id : file'[i].moved => file[i].moved
    <3>1. CASE files[n] # None
      BY <2>1, <3>1, DeleteNoLockMoved DEF OpenWritableFile
    <3>2. CASE files[n] = None
      <4>1. CreateFile(file, n)
        BY <2>1, <3>2 DEF OpenWritableFile
      <4> QED BY <1>1, <2>2, <4>1, CreateFileMoved
    <3> QED BY <3>1, <3>2
  <2> QED BY <1>3, <2>1, <2>3, CallBegins
<1>6. CASE \E n \in Names : ReopenWritableFile(t, n)
  <2>1. PICK n \in Names : ReopenWritableFile(t, n)
    BY <1>6
  <2>2. file' = file
    BY <2>1 DEF ReopenWritableFile, memoryVars
  <2> QED BY <1>3, <2>1, <2>2, CallBegins
<1>7. CASE \E s, d \in Names : RenameFile(t, s, d)
  <2>1. PICK s \in Names, d \in Names : RenameFile(t, s, d)
    BY <1>7
  <2>2. PICK i \in Id : i = files[s]
    BY <2>1, RenameFileOp
  <2>3. \A j \in Id : file'[j].moved => file[j].moved
    <3>1. CASE files[d] # None
      BY <2>1, <3>1, DeleteNoLockMoved DEF RenameFile
    <3>2. CASE files[d] = None
      <4>1. MoveFile(file, i, s, d)
        BY <2>1, <2>2, <3>2 DEF RenameFile
      <4> QED BY <1>1, <4>1, MoveFileMoved
    <3> QED BY <3>1, <3>2
  <2> QED BY <1>3, <2>1, <2>3, CallBegins
<1>8. CASE \E s, l \in Names : LinkFile(t, s, l)
  <2>1. PICK s \in Names, l \in Names : LinkFile(t, s, l)
    BY <1>8
  <2>2. PICK i \in Id : i = files[s]
    BY <2>1, LinkFileOp
  <2>3. file' = AddLinkName(file, i, l)
    BY <2>1, <2>2 DEF LinkFile
  <2>4. Relinked(file, file', i)
    BY <1>1, <2>3, RelinkFacts
  <2> QED BY <1>3, <2>1, <2>4, CallBegins DEF Relinked
<1>9. ASSUME NEW i \in Id, NEW what \in {"sync", "close"}, NEW active \in BOOLEAN,
             SyncFileMetadata(t, i, what, active)
      PROVE  AloneInv'
  <2>1. file' = [file EXCEPT ![i].active = active]
    BY <1>9 DEF SyncFileMetadata
  <2>2. Kept(file, file')
    BY <1>1, <2>1, KeptFacts
  <2> QED BY <1>3, <1>9, <2>2, CallBegins DEF Kept
<1>10. ASSUME NEW i \in Id, CloseWR(t, i) PROVE AloneInv'
  <2>1. CASE SyncFileMetadata(t, i, "close", FALSE)
    BY <1>9, <2>1
  <2>2. CASE ~SyncFileMetadata(t, i, "close", FALSE)
    <3>1. /\ at = "idle" /\ file' = [file EXCEPT ![i].wr = NoThread] /\ op' = op
      BY <1>10, <2>2 DEF CloseWR, Calls
    <3>2. \A j \in Id : file'[j].moved <=> file[j].moved
      BY <1>1, <3>1, LockFacts
    <3>3. op.kind = "none"
      BY <3>1 DEF FrameInv, OpInv
    <3> QED BY <1>2, <3>1, <3>2, <3>3 DEF AloneInv
  <2> QED BY <2>1, <2>2
<1>11. ASSUME NEW i \in Id, AllocateNewZone(t, i) \/ Fsync(t, i) PROVE AloneInv'
  <2>1. file[i].active \in BOOLEAN
    BY <1>1 DEF Files, FileType
  <2> QED BY <1>9, <1>11, <2>1 DEF AllocateNewZone, Fsync
<1>12. ASSUME NEW i \in Id, PushExtent(t, i) PROVE AloneInv'
  <2>1. file' = [file EXCEPT ![i].exts = Append(@, Len(@) + 1)] /\ op' = op
    BY <1>12 DEF PushExtent
  <2>2. PICK x : file' = [file EXCEPT ![i].exts = x]
    BY <1>1, <2>1
  <2>3. Kept(file, file')
    <3>1. TRUE \in BOOLEAN
      OBVIOUS
    <3> QED BY <1>1, <2>2, <3>1, KeptFacts
  <2> QED BY <2>1, <2>3 DEF AloneInv, Kept
<1>13. ASSUME NEW i \in Id, ReplaceExtentList(t, i) \/ SyncFileExtents(t, i) PROVE FALSE
  BY <1>2, <1>13 DEF Solo, ReplaceExtentList, SyncFileExtents
<1>14. CASE Unmount(t)
  <2>1. file' = file
    BY <1>14 DEF Unmount, memoryVars
  <2> QED BY <1>3, <1>14, <2>1, CallBegins
<1> QED BY <1>4, <1>5, <1>6, <1>7, <1>8, <1>10, <1>11, <1>12, <1>13, <1>14 DEF Call

(* So do the steps of a call.                                               *)
LEMMA StepAlone ==
  ASSUME TypeInv, TypeInv', FrameInv, AloneInv, Step \/ Crash
  PROVE  AloneInv'
<1>1. /\ files \in NameMap /\ Files(file) /\ op \in OpType
      /\ op.who \in Threads \cup {NoThread}
  BY DEF TypeInv, Types, MemoryTypes, CallTypes, OpType
<1>2. op.kind # "replace" /\ \A i \in Id : ~file[i].moved
  BY DEF AloneInv
<1>3. NoOp.kind = "none"
  BY NoOpTypes
<1>4. ASSUME op' = op, Kept(file, file') PROVE AloneInv'
  BY <1>4 DEF AloneInv, Kept
<1>5. ASSUME op' = NoOp, \A i \in Id : ~file'[i].moved PROVE AloneInv'
  BY <1>3, <1>5 DEF AloneInv
<1>6. ASSUME NEW j \in Id, NoFile.moved PROVE FALSE
  BY <1>6, EmptySeq, NewFileTypes DEF NoFile
<1>7. CASE PersistRecord \/ Roll
  <2>1. op' = op
    BY <1>7 DEF PersistRecord, Roll, AllocateMetaZone, WriteEndRecord, FinishOldZone,
       WriteSuperblock, EncodeSnapshot, WriteSnapshot, SnapshotSynced, ResetOldZone
  <2>2. file' = file \/ file' = MetadataSynced(file, Range(files))
    BY <1>7 DEF PersistRecord, Roll, AllocateMetaZone, WriteEndRecord, FinishOldZone,
       WriteSuperblock, EncodeSnapshot, WriteSnapshot, SnapshotSynced, ResetOldZone, memoryVars
  <2>3. Kept(file, file')
    <3>1. CASE file' = file
      BY <3>1 DEF Kept
    <3>2. CASE Id = {}
      BY <3>2 DEF Kept
    <3>3. CASE file' = MetadataSynced(file, Range(files)) /\ Id # {}
      <4>1. PICK i \in Id : TRUE
        BY <3>3
      <4>2. TRUE \in BOOLEAN
        OBVIOUS
      <4> QED BY <1>1, <3>3, <4>1, <4>2, KeptFacts
    <3> QED BY <2>2, <3>1, <3>2, <3>3
  <2> QED BY <1>4, <2>1, <2>3
<1>8. CASE AcquireWRLock
  <2>1. /\ file' = [file EXCEPT ![op.id].wr = op.who] /\ op' = NoOp /\ op.id \in Id
    BY <1>8 DEF AcquireWRLock, Return, TypeInv, Valid
  <2>2. \A j \in Id : file'[j].moved <=> file[j].moved
    BY <1>1, <2>1, LockFacts
  <2> QED BY <1>2, <1>5, <2>1, <2>2
<1>9. CASE Deleted
  <2>1. /\ op.victim \in Id /\ op.name \in Names /\ op.deleting
        /\ op.kind \notin {"none", "mount", "abort"}
    BY <1>9 DEF Deleted, TypeInv, Valid, FrameInv, OpInv
  <2>2. PICK f : /\ f = SetDeleted(file, op.victim) /\ Files(f)
                 /\ \A j \in Id : f[j].moved <=> file[j].moved
    BY <1>1, <2>1, SetDeletedFacts
  <2>3. ASSUME op' = [op EXCEPT !.deleting = FALSE], \A j \in Id : file'[j].moved => f[j].moved
        PROVE  AloneInv'
    <3>1. op'.kind = op.kind /\ op'.who = op.who
      BY <1>1, <2>3 DEF OpType
    <3> QED BY <1>2, <2>1, <2>2, <2>3, <3>1 DEF AloneInv
  <2>4. CASE op.kind = "create" /\ CreateFile(f, op.name) /\ op' = [op EXCEPT !.deleting = FALSE]
    <3>1. nextId \in Id
      BY <2>1, <2>4 DEF TypeInv, Valid
    <3>2. \A j \in Id : file'[j].moved => f[j].moved
      BY <2>1, <2>2, <2>4, <3>1, CreateFileMoved
    <3> QED BY <2>3, <2>4, <3>2
  <2>5. CASE op.kind = "rename" /\ MoveFile(f, op.id, op.src, op.name)
             /\ op' = [op EXCEPT !.deleting = FALSE]
    <3>1. op.id \in Id /\ op.src \in Names
      BY <2>5 DEF TypeInv, Valid
    <3>2. \A j \in Id : file'[j].moved <=> f[j].moved
      BY <2>1, <2>2, <2>5, <3>1, MoveFileMoved
    <3> QED BY <2>3, <2>5, <3>2
  <2>6. CASE file' = f /\ Return
    BY <1>2, <1>5, <2>2, <2>6 DEF Return
  <2> QED BY <1>9, <2>2, <2>4, <2>5, <2>6 DEF Deleted
<1>10. CASE Persisted
  <2>1. op' = NoOp /\ op.id \in Id
    BY <1>10 DEF Persisted, Return, TypeInv, Valid
  <2>2. PICK f : f = MetadataSynced(file, {op.id}) /\ Files(f) /\ Kept(file, f)
    BY <1>1, <2>1, MarkTypes, KeptFacts
  <2>3. \A j \in Id : ~file'[j].moved
    <3>1. \A j \in Id : ~f[j].moved
      BY <1>2, <2>2 DEF Kept
    <3>2. CASE op.kind = "create"
      <4>1. file' = [f EXCEPT ![op.id].wr = op.who]
        BY <1>10, <2>2, <3>2 DEF Persisted
      <4> QED BY <1>1, <2>1, <2>2, <3>1, <4>1, LockFacts
    <3>3. CASE op.kind \in {"close", "replace"}
      <4>1. file' = [f EXCEPT ![op.id].wr = NoThread, ![op.id].moved = FALSE]
        BY <1>10, <2>2, <3>3 DEF Persisted
      <4>2. Unlocked(f, file', op.id)
        BY <2>1, <2>2, <4>1, UnlockFacts
      <4> QED BY <3>1, <4>2 DEF Unlocked
    <3>4. CASE op.kind \notin {"create", "close", "replace"}
      <4>1. file' = f
        BY <1>10, <2>2, <3>4 DEF Persisted
      <4> QED BY <3>1, <4>1
    <3> QED BY <3>2, <3>3, <3>4
  <2> QED BY <1>5, <2>1, <2>3
<1>11. CASE RollBack
  <2>1. op' = NoOp
    BY <1>11 DEF RollBack, Return
  <2>2. \A j \in Id : ~file'[j].moved
    <3>1. CASE op.deleting /\ file' = AddLinkName(file, op.victim, op.name)
      <4>1. op.victim \in Id /\ op.name \in Names
        BY <3>1 DEF TypeInv, Valid
      <4>2. Relinked(file, file', op.victim)
        BY <1>1, <3>1, <4>1, RelinkFacts
      <4> QED BY <1>2, <4>2 DEF Relinked
    <3>2. CASE op.kind = "create" /\ file' = [file EXCEPT ![op.id] = NoFile]
      <4>1. op.id \in Id
        BY <3>2 DEF TypeInv, Valid
      <4>2. file'[op.id] = NoFile /\ \A j \in Id \ {op.id} : file'[j] = file[j]
        BY <1>1, <3>2, <4>1, ReplaceFacts
      <4> QED BY <1>2, <1>6, <4>1, <4>2
    <3>3. CASE op.kind = "link" /\ file' = RemoveLinkName(file, op.id, op.name)
      <4>1. op.id \in Id /\ op.name \in Names
        BY <3>3 DEF TypeInv, Valid
      <4>2. Relinked(file, file', op.id)
        BY <1>1, <3>3, <4>1, RelinkFacts
      <4> QED BY <1>2, <4>2 DEF Relinked
    <3>4. CASE op.kind = "rename" /\ file' = RenameLink(file, op.id, op.name, op.src)
      <4>1. op.id \in Id /\ op.name \in Names /\ op.src \in Names
        BY <3>4 DEF TypeInv, Valid
      <4>2. Relinked(file, file', op.id)
        BY <1>1, <3>4, <4>1, RelinkFacts
      <4> QED BY <1>2, <4>2 DEF Relinked
    <3>5. CASE file' = file
      BY <1>2, <3>5
    <3> QED BY <1>2, <1>11, <3>1, <3>2, <3>3, <3>4, <3>5 DEF RollBack
  <2> QED BY <1>5, <2>1, <2>2
<1>12. CASE Shutdown \/ Crash
  <2>1. op' = NoOp /\ file' = [i \in Id |-> NoFile]
    BY <1>12 DEF Shutdown, Crash, Forget
  <2> QED BY <1>5, <1>6, <2>1
<1>13. CASE Mount
  <2>1. CASE Recovered.status = "ok"
    <3>1. Remounted(file', Recovered) /\ op'.kind = "mount"
      BY <1>13, <2>1, MountFiles
    <3> QED BY <3>1 DEF Remounted, AloneInv
  <2>2. CASE Recovered.status # "ok"
    <3>1. op' = op /\ file' = file
      BY <1>13, <2>2 DEF Mount, memoryVars
    <3> QED BY <1>4, <3>1 DEF Kept
  <2> QED BY <2>1, <2>2
<1>14. CASE Mounted
  <2>1. op' = NoOp /\ file' = file
    BY <1>14 DEF Mounted, Return, memoryVars
  <2> QED BY <1>2, <1>5, <2>1
<1>15. CASE DeleteZenFS
  <2>1. CASE Forget
    <3>1. op' = NoOp /\ file' = [i \in Id |-> NoFile]
      BY <2>1 DEF Forget
    <3> QED BY <1>5, <1>6, <3>1
  <2>2. CASE ~Forget
    <3>1. op.kind = "mount" /\ op' = [op EXCEPT !.kind = "abort"] /\ file' = file
      BY <1>15, <2>2 DEF DeleteZenFS, memoryVars
    <3>2. op'.kind = "abort"
      BY <1>1, <3>1 DEF OpType
    <3> QED BY <3>1, <3>2 DEF AloneInv
  <2> QED BY <2>1, <2>2
<1> QED BY <1>7, <1>8, <1>9, <1>10, <1>11, <1>12, <1>13, <1>14, <1>15 DEF Step

(* Nothing is ever migrated, and only the caller has the file system.       *)
LEMMA AloneInvariant ==
  ASSUME Solo
  PROVE  Spec => []AloneInv
<1>1. Init => AloneInv
  <2> SUFFICES ASSUME Init PROVE AloneInv
    OBVIOUS
  <2>1. op = NoOp /\ \A i \in Id : ~file[i].moved
    BY InitFiles DEF Init
  <2> QED BY <2>1, NoOpTypes DEF AloneInv
<1>2. TypeInv /\ TypeInv' /\ FrameInv /\ AloneInv /\ [Next]_vars => AloneInv'
  <2> SUFFICES ASSUME TypeInv, TypeInv', FrameInv, AloneInv, [Next]_vars PROVE AloneInv'
    OBVIOUS
  <2>1. CASE UNCHANGED vars
    BY <2>1 DEF vars, memoryVars, AloneInv
  <2>2. CASE Step \/ Crash
    BY <2>2, StepAlone
  <2>3. CASE \E t \in Threads : Call(t)
    BY <2>3, CallAlone
  <2> QED BY <2>1, <2>2, <2>3 DEF Next
<1> QED BY <1>1, <1>2, TypesInvariant, FrameInvariant, PTL DEF Spec

(* The extents of the file i that the log has: after the record of a call,  *)
(* and after a snapshot, all of them, although they are marked synced only  *)
(* in the next step.                                                        *)
Writing == ~op.deleting /\ op.kind \in {"create", "rename", "link", "sync", "close"}
Full(i) == at = "synced" \/ (at = "done" /\ Writing /\ i = op.id)
Count(i) == IF Full(i) THEN Len(file[i].exts) ELSE file[i].synced

(* The log has the first extents of every file, those that an Fsync or a    *)
(* Close covered among them.                                                *)
Saved ==
  \A i \in Id : Named(Disk.files, i) # {} =>
    /\ Disk.image[i].exts = SubSeq(file[i].exts, 1, Count(i))
    /\ acked[i] <= Count(i)

(* The record that is to be written holds what is not synced.               *)
Carries ==
  IF op.deleting THEN rec.tag = "delete"
  ELSE IF op.kind = "unmount" THEN rec.tag = "resets"
  ELSE rec = UpdateRecord(file, op.id)

SaveInv ==
  /\ Up => Saved
  /\ at = "reset" =>
       \A i \in Id : Named(Disk.files, i) # {} => file[i].synced = Len(file[i].exts)

CarryInv ==
  /\ at = "persist" => Carries
  /\ at = "snapshot" => rec = SnapshotRecord(EncodeSnapshotTo(files, file))

CoverInv ==
  /\ op.kind \in {"sync", "close"} => op.n = Len(file[op.id].exts)
  /\ Creating => file[op.id].exts = <<>>
  /\ \A i \in Id : acked[i] <= Len(file[i].exts) /\ (i >= nextId => acked[i] = 0)

DurInv == SaveInv /\ CarryInv /\ CoverInv

(* The extents of the files S, and how many of them are synced.             *)
SameData(f, g, S) == \A i \in S : g[i].exts = f[i].exts /\ g[i].synced = f[i].synced

(* Changes of the other parts of a file.                                    *)
LEMMA DataFacts ==
  ASSUME NEW f, Files(f), NEW i \in Id, NEW b \in BOOLEAN, NEW w, NEW l
  PROVE  /\ SameData(f, f, Id)
         /\ SameData(f, [f EXCEPT ![i].links = l], Id)
         /\ SameData(f, [f EXCEPT ![i].active = b], Id)
         /\ SameData(f, [f EXCEPT ![i].wr = w], Id)
         /\ SameData(f, [f EXCEPT ![i].deleted = b], Id)
         /\ SameData(f, [f EXCEPT ![i].wr = w, ![i].moved = b], Id)
<1>1. f \in [Id -> FileType]
  BY DEF Files
<1>2. PICK F, g : F = FileType /\ g = f
  OBVIOUS
<1>3. \A j \in Id : DOMAIN f[j] = {"exts", "synced", "active", "links", "deleted", "wr", "moved"}
  BY <1>1 DEF FileType
<1>4. SameData(f, f, Id)
  BY DEF SameData
<1>5. SameData(f, [f EXCEPT ![i].links = l], Id)
  BY <1>1, <1>3 DEF SameData
<1>6. SameData(f, [f EXCEPT ![i].active = b], Id)
  BY <1>1, <1>3 DEF SameData
<1>7. SameData(f, [f EXCEPT ![i].wr = w], Id)
  BY <1>1, <1>3 DEF SameData
<1>8. SameData(f, [f EXCEPT ![i].deleted = b], Id)
  BY <1>1, <1>3 DEF SameData
<1>9. SameData(f, [f EXCEPT ![i].wr = w, ![i].moved = b], Id)
  BY <1>1, <1>3 DEF SameData
<1> QED BY <1>4, <1>5, <1>6, <1>7, <1>8, <1>9

(* A file's links come and go, its extents stay.                            *)
LEMMA LinkData ==
  ASSUME NEW f, Files(f), NEW i \in Id, NEW m \in Names, NEW n \in Names
  PROVE  /\ SameData(f, RemoveLinkName(f, i, m), Id)
         /\ SameData(f, AddLinkName(f, i, n), Id)
         /\ SameData(f, RenameLink(f, i, m, n), Id)
         /\ SameData(f, SetDeleted(f, i), Id)
<1>1. SameData(f, f, Id) /\ TRUE \in BOOLEAN
  BY DEF SameData
<1>2. ASSUME NEW g, Files(g), NEW l PROVE SameData(g, [g EXCEPT ![i].links = l], Id)
  BY <1>1, <1>2, DataFacts
<1>3. SameData(f, RemoveLinkName(f, i, m), Id)
  BY <1>2 DEF RemoveLinkName
<1>4. \A g : Files(g) => SameData(g, AddLinkName(g, i, n), Id)
  BY <1>2 DEF AddLinkName
<1>5. SameData(f, RenameLink(f, i, m, n), Id)
  <2>1. Files(RemoveLinkName(f, i, m))
    BY LinkTypes
  <2> QED BY <1>3, <1>4, <2>1 DEF RenameLink, SameData
<1>6. SameData(f, SetDeleted(f, i), Id)
  <2>1. SameData(f, [f EXCEPT ![i].deleted = TRUE], Id)
    BY <1>1, DataFacts
  <2> QED BY <1>1, <2>1 DEF SetDeleted
<1> QED BY <1>3, <1>4, <1>5, <1>6

(* MetadataSynced marks all extents of its files.                           *)
LEMMA SyncedData ==
  ASSUME NEW f, Files(f), NEW ids, NEW g, g = MetadataSynced(f, ids)
  PROVE  \A i \in Id : /\ g[i].exts = f[i].exts
                       /\ g[i].synced = IF i \in ids THEN Len(f[i].exts) ELSE f[i].synced
<1> SUFFICES ASSUME NEW i \in Id
             PROVE  /\ g[i].exts = f[i].exts
                    /\ g[i].synced = IF i \in ids THEN Len(f[i].exts) ELSE f[i].synced
  OBVIOUS
<1>1. PICK e \in FileType : e = f[i]
  BY DEF Files
<1>2. g[i] = IF i \in ids THEN [e EXCEPT !.synced = Len(e.exts)] ELSE e
  BY <1>1 DEF MetadataSynced
<1>3. /\ [e EXCEPT !.synced = Len(e.exts)].exts = e.exts
      /\ [e EXCEPT !.synced = Len(e.exts)].synced = Len(e.exts)
  BY DEF FileType
<1> QED BY <1>1, <1>2, <1>3

(* Parts of a sequence.                                                     *)
LEMMA PartFacts ==
  ASSUME NEW V, NEW e \in Seq(V), NEW k \in Nat, k <= Len(e)
  PROVE  /\ SubSeq(e, 1, k) \o SubSeq(e, k + 1, Len(e)) = SubSeq(e, 1, Len(e))
         /\ Len(SubSeq(e, 1, k)) = k
         /\ SubSeq(e, 1, Len(e)) = e
         /\ IsPrefix(SubSeq(e, 1, k), e)
<1>1. /\ Len(e) \in Nat /\ SubSeq(e, 1, Len(e)) = e /\ \A j \in 1..Len(e) : e[j] \in V
  BY LenProperties, SubSeqFull, ElementOfSeq
<1>2. SubSeq(e, 1, k) \o SubSeq(e, k + 1, Len(e)) = SubSeq(e, 1, Len(e))
  <2>1. /\ 1 \in 1..Len(e) + 1 /\ k \in 1 - 1..Len(e) /\ Len(e) \in k..Len(e)
    BY <1>1
  <2> QED BY <2>1, ConcatAdjacentSubSeq
<1>3. SubSeq(e, 1, k) \in Seq(V) /\ Len(SubSeq(e, 1, k)) = k
  <2>1. \A j \in 1..k : e[j] \in V
    BY <1>1
  <2>2. /\ SubSeq(e, 1, k) \in Seq(V)
        /\ Len(SubSeq(e, 1, k)) = IF 1 <= k THEN k - 1 + 1 ELSE 0
    <3>1. 1 \in Int /\ k \in Int
      OBVIOUS
    <3> QED BY <2>1, <3>1, SubSeqProperties
  <2> QED BY <2>2
<1>4. IsPrefix(SubSeq(e, 1, k), e)
  <2>1. SubSeq(SubSeq(e, 1, k), 1, k) = SubSeq(e, 1, k)
    BY <1>3, SubSeqFull
  <2> QED BY <1>3, <2>1 DEF IsPrefix
<1> QED BY <1>1, <1>2, <1>3, <1>4

(* A further element leaves the parts before it as they are.                *)
LEMMA GrownPart ==
  ASSUME NEW V, NEW e \in Seq(V), NEW k \in Nat, k <= Len(e), NEW x \in V
  PROVE  SubSeq(Append(e, x), 1, k) = SubSeq(e, 1, k)
<1>1. PICK l \in Nat : l = Len(e) /\ \A j \in 1..l : e[j] \in V
  BY LenProperties, ElementOfSeq
<1>2. PICK a : /\ a = Append(e, x) /\ \A j \in 1..l : a[j] = e[j]
  <2>1. \A j \in 1..Len(e) : Append(e, x)[j] = e[j]
    BY AppendProperties
  <2> QED BY <1>1, <2>1
<1>3. \A j \in 1..k : a[j] = e[j] /\ a[j] \in V /\ e[j] \in V
  BY <1>1, <1>2
<1>4. 1 \in Int /\ k \in Int
  OBVIOUS
<1>5. /\ SubSeq(a, 1, k) \in Seq(V) /\ Len(SubSeq(a, 1, k)) = IF 1 <= k THEN k - 1 + 1 ELSE 0
      /\ \A j \in 1..k - 1 + 1 : SubSeq(a, 1, k)[j] = a[1 + j - 1]
  BY <1>3, <1>4, SubSeqProperties
<1>6. /\ SubSeq(e, 1, k) \in Seq(V) /\ Len(SubSeq(e, 1, k)) = IF 1 <= k THEN k - 1 + 1 ELSE 0
      /\ \A j \in 1..k - 1 + 1 : SubSeq(e, 1, k)[j] = e[1 + j - 1]
  BY <1>3, <1>4, SubSeqProperties
<1>7. PICK s \in Seq(V), u \in Seq(V) : s = SubSeq(a, 1, k) /\ u = SubSeq(e, 1, k)
  BY <1>5, <1>6
<1>8. Len(s) = k /\ Len(u) = k /\ \A j \in 1..k : s[j] = u[j]
  BY <1>3, <1>5, <1>6, <1>7
<1>9. s = u
  BY <1>8, SeqEqual
<1> QED BY <1>2, <1>7, <1>9

(* What the log has of a file after a record that is not about its extents. *)
SameImage(st, st2, i) == st2.image[i].exts = st.image[i].exts /\ Named(st.files, i) # {}

(* A deletion and the reset counts leave the extents as they are.           *)
LEMMA OtherRecordData ==
  ASSUME NEW st, Sound(st), ~st.ended, NEW r \in Record, NEW after \in NameMap,
         Turns(r, st.files, after), r.tag \in {"delete", "resets"},
         NEW i \in Id, Named(after, i) # {}
  PROVE  SameImage(st, DecodeRecord(st, r), i)
<1>1. st \in State /\ st.status = "ok" /\ st.files \in NameMap /\ st.image \in [Id -> Image]
  BY DEF Sound, State
<1>2. CASE r.tag = "resets"
  BY <1>1, <1>2 DEF DecodeRecord, Turns, SameImage
<1>3. CASE r.tag = "delete"
  <2>1. PICK k \in Id, n \in Names : /\ k = r.id /\ n = r.name /\ st.files[n] = k
                                     /\ after = [st.files EXCEPT ![n] = None]
    BY <1>3, RecordFacts DEF Turns
  <2>2. DecodeRecord(st, r) = DecodeFileDeletionFrom(st, k, n)
    BY <1>1, <1>3, <2>1 DEF DecodeRecord
  <2>3. n \in Range(st.image[k].links)
    BY <2>1 DEF Sound, LinkedTo, Named
  <2>4. DecodeFileDeletionFrom(st, k, n).image = Unlinked(st.image, k, n)
    BY <1>1, <2>1, <2>3, DeletionFacts
  <2>5. Unlinked(st.image, k, n)[i].exts = st.image[i].exts
    BY <1>1 DEF Unlinked, Image
  <2>6. Named(st.files, i) # {}
    BY <1>1, <2>1 DEF Named, NameMap, Id, None
  <2> QED BY <2>2, <2>4, <2>5, <2>6 DEF SameImage
<1> QED BY <1>2, <1>3

(* An update adds its extents to those of its file, if the log has it, and  *)
(* leaves the other files as they are.                                      *)
Updates(st, st2, f, i) ==
  IF i # f.id THEN SameImage(st, st2, i)
  ELSE IF Named(st.files, i) # {} THEN st2.image[i].exts = st.image[i].exts \o f.exts
  ELSE st2.image[i].exts = f.exts

(* The update of a file that has a name, or of a new one.                   *)
LEMMA UpdateData ==
  ASSUME NEW st, Sound(st), ~st.ended, NEW r \in Record, NEW after \in NameMap,
         Turns(r, st.files, after), r.tag = "update", NEW i \in Id, Named(after, i) # {}
  PROVE  Updates(st, DecodeRecord(st, r), r.file, i)
<1>1. st \in State /\ st.status = "ok" /\ st.files \in NameMap /\ st.image \in [Id -> Image]
  BY DEF Sound, State
<1>2. PICK f \in Image : f = r.file
  BY RecordFacts
<1>3. f.id \in Id /\ f.id # None /\ FALSE \in BOOLEAN
  BY DEF Image, Id, None
<1>4. DecodeRecord(st, r) = DecodeFileUpdateFrom(st, f, FALSE)
  BY <1>1, <1>2 DEF DecodeRecord
<1>5. CASE Named(st.files, f.id) # {}
  <2>1. Touches(st.files, after, f.id)
    BY <1>2, <1>5 DEF Turns, Enters
  <2>2. Range(st.image[f.id].links) = Named(st.files, f.id)
    BY <1>3, <1>5 DEF Sound, LinkedTo
  <2>3. /\ \E n \in Names : st.files[n] = f.id
        /\ ~ \E n \in Range(st.image[f.id].links) : st.files[n] = None
    BY <1>3, <1>5, <2>2 DEF Named
  <2>4. DecodeFileUpdateFrom(st, f, FALSE).image
          = [st.image EXCEPT ![f.id] = MergeUpdate(st.image[f.id], f, FALSE)]
    BY <1>1, <1>3, <2>3, UpdateFacts
  <2>5. CASE i = f.id
    <3>1. MergeUpdate(st.image[i], f, FALSE).exts = st.image[i].exts \o f.exts
      BY DEF MergeUpdate, Image
    <3>2. DecodeFileUpdateFrom(st, f, FALSE).image[i] = MergeUpdate(st.image[i], f, FALSE)
      BY <1>1, <2>4, <2>5
    <3> QED BY <1>2, <1>4, <1>5, <2>5, <3>1, <3>2 DEF Updates
  <2>6. CASE i # f.id
    <3>1. DecodeFileUpdateFrom(st, f, FALSE).image[i] = st.image[i]
      BY <1>1, <2>4, <2>6
    <3>2. \A n \in Names : after[n] = i <=> st.files[n] = i
      BY <2>1, <2>6 DEF Touches, Id, None
    <3>3. Named(st.files, i) # {}
      BY <3>2 DEF Named
    <3> QED BY <1>2, <1>4, <2>6, <3>1, <3>3 DEF Updates, SameImage
  <2> QED BY <2>5, <2>6
<1>6. CASE Named(st.files, f.id) = {}
  <2>1. PICK n \in Names : st.files[n] = None /\ after = [st.files EXCEPT ![n] = f.id]
    BY <1>2, <1>6 DEF Turns, Enters
  <2>2. ~ \E m \in Names : st.files[m] = f.id
    BY <1>6 DEF Named
  <2>3. DecodeFileUpdateFrom(st, f, FALSE).image = [st.image EXCEPT ![f.id] = f]
    BY <1>1, <1>3, <2>2, EnterFacts
  <2>4. CASE i = f.id
    <3>1. DecodeFileUpdateFrom(st, f, FALSE).image[i] = f
      BY <1>1, <2>3, <2>4
    <3> QED BY <1>2, <1>4, <1>6, <2>4, <3>1 DEF Updates
  <2>5. CASE i # f.id
    <3>1. DecodeFileUpdateFrom(st, f, FALSE).image[i] = st.image[i]
      BY <1>1, <2>3, <2>5
    <3>2. Named(st.files, i) # {}
      BY <1>1, <2>1, <2>5 DEF Named, NameMap, Id, None
    <3> QED BY <1>2, <1>4, <2>5, <3>1, <3>2 DEF Updates, SameImage
  <2> QED BY <2>4, <2>5
<1> QED BY <1>5, <1>6

(* The end record keeps everything.                                         *)
LEMMA EndData ==
  ASSUME NEW st, Sound(st)
  PROVE  /\ DecodeRecord(st, EndRecord).files = st.files
         /\ DecodeRecord(st, EndRecord).image = st.image
<1>1. st \in State /\ st.status = "ok"
  BY DEF Sound
<1>2. CASE st.ended
  BY <1>2 DEF DecodeRecord
<1>3. CASE ~st.ended
  <2>1. DecodeRecord(st, EndRecord) = [st EXCEPT !.ended = TRUE]
    BY <1>1, <1>3 DEF DecodeRecord, EndRecord
  <2> QED BY <1>1, <2>1 DEF State
<1> QED BY <1>2, <1>3

(* The log has all extents of the files in a snapshot.                      *)
LEMMA SnapshotData ==
  ASSUME NEW f, Files(f), NEW ns \in NameMap, NEW i \in Id, Named(ns, i) # {},
         NEW r \in Record, r = SnapshotRecord(EncodeSnapshotTo(ns, f))
  PROVE  DecodeRecord(Blank, r).image[i].exts = SubSeq(f[i].exts, 1, Len(f[i].exts))
<1>1. PICK images \in SUBSET Image : /\ images = EncodeSnapshotTo(ns, f)
                                     /\ r.tag = "snapshot" /\ r.files = images
  BY SnapshotRecordTypes DEF Files, SnapshotRecord
<1>2. DecodeRecord(Blank, r) = DecodeSnapshotFrom(Blank, images)
  BY <1>1, BlankFacts DEF DecodeRecord
<1>3. DecodeSnapshotFrom(Blank, images).image = [j \in Id |->
        IF \E g \in images : g.id = j THEN ImageOf(images, j) ELSE Blank.image[j]]
  BY BlankFacts, SnapshotFacts
<1>4. \A j \in Id : Encode(f, j, 0).id = j
  BY EncodeTypes DEF Files
<1>5. \A g \in images : \E j \in Id : g = Encode(f, j, 0) /\ g.id = j
  <2>1. \A n \in Names : ns[n] # None => ns[n] \in Id
    BY DEF NameMap
  <2> QED BY <1>1, <1>4, <2>1 DEF EncodeSnapshotTo
<1>6. Encode(f, i, 0) \in images
  BY <1>1 DEF EncodeSnapshotTo, Named, Id, None
<1>7. ImageOf(images, i) = Encode(f, i, 0)
  <2>1. ImageOf(images, i) \in images /\ ImageOf(images, i).id = i
    BY <1>4, <1>6 DEF ImageOf
  <2> QED BY <1>5, <2>1
<1>8. DecodeSnapshotFrom(Blank, images).image[i] = Encode(f, i, 0)
  BY <1>3, <1>4, <1>6, <1>7
<1>9. Encode(f, i, 0).exts = SubSeq(f[i].exts, 1, Len(f[i].exts))
  <2>1. 0 + 1 = 1
    OBVIOUS
  <2> QED BY <2>1 DEF Encode
<1> QED BY <1>2, <1>8, <1>9

(* What the counts are.                                                     *)
LEMMA CountTypesHold ==
  ASSUME TypeInv
  PROVE  \A i \in Id : /\ file[i].exts \in Seq(Nat) /\ Len(file[i].exts) \in Nat
                       /\ file[i].synced \in Nat /\ file[i].synced <= Len(file[i].exts)
                       /\ acked[i] \in Nat /\ Count(i) \in Nat
                       /\ Count(i) <= Len(file[i].exts)
<1> SUFFICES ASSUME NEW i \in Id
             PROVE  /\ file[i].exts \in Seq(Nat) /\ Len(file[i].exts) \in Nat
                    /\ file[i].synced \in Nat /\ file[i].synced <= Len(file[i].exts)
                    /\ acked[i] \in Nat /\ Count(i) \in Nat
                    /\ Count(i) <= Len(file[i].exts)
  OBVIOUS
<1>1. Files(file) /\ acked \in [Id -> Nat]
  BY DEF TypeInv, Types, MemoryTypes, CountTypes
<1>2. /\ file[i].exts \in Seq(Nat) /\ file[i].synced \in Nat
      /\ file[i].synced <= Len(file[i].exts) /\ acked[i] \in Nat
  BY <1>1 DEF Files, FileType
<1>3. Len(file[i].exts) \in Nat
  BY <1>2, LenProperties
<1>4. Count(i) \in {Len(file[i].exts), file[i].synced}
  BY DEF Count
<1> QED BY <1>2, <1>3, <1>4

(* The files in the log keep what it has of them.                           *)
Holds(g, a, S) ==
  \A i \in S : /\ g[i].exts = file[i].exts /\ g[i].synced = Count(i)
               /\ a[i] <= acked[i] \/ a[i] <= Count(i)

(* A step that writes no record.                                            *)
LEMMA QuietDur ==
  ASSUME TypeInv, TypeInv', CrashInv, DurInv,
         at \in Quiet \/ (at = "error" /\ op.kind \notin {"mount", "abort"}),
         at' \in {"idle", "wrlock", "persist"}, oldLog' = None, UNCHANGED <<log, metaLog, seq>>,
         NEW S \in SUBSET Id, \A i \in Id : Named(Disk.files, i) # {} => i \in S,
         Holds(file', acked', S), at' = "persist" => Carries', CoverInv'
  PROVE  DurInv'
<1>1. Disk' = Disk
  BY SameLog DEF CrashInv, Quiet
<1>2. Up /\ Saved
  BY DEF Up, Quiet, DurInv, SaveInv
<1>3. PICK d : d = Disk
  OBVIOUS
<1>4. Saved'
  <2> SUFFICES ASSUME NEW i \in Id, Named(d.files, i) # {}
               PROVE  /\ d.image[i].exts = SubSeq(file'[i].exts, 1, Count(i)')
                      /\ acked'[i] <= Count(i)'
    BY <1>1, <1>3 DEF Saved
  <2>1. /\ d.image[i].exts = SubSeq(file[i].exts, 1, Count(i))
        /\ acked[i] <= Count(i) /\ i \in S
    BY <1>2, <1>3 DEF Saved
  <2>2. ~Full(i)'
    BY DEF Full
  <2>3. Count(i)' = file'[i].synced
    BY <2>2 DEF Count
  <2>4. /\ file'[i].exts = file[i].exts /\ file'[i].synced = Count(i)
        /\ acked'[i] <= acked[i] \/ acked'[i] <= Count(i)
    BY <2>1 DEF Holds
  <2>5. acked[i] \in Nat /\ Count(i) \in Nat
    BY CountTypesHold
  <2>6. acked'[i] \in Nat
    BY DEF TypeInv, Types, CountTypes
  <2> QED BY <2>1, <2>3, <2>4, <2>5, <2>6
<1>5. SaveInv' /\ CarryInv'
  BY <1>4 DEF SaveInv, CarryInv
<1> QED BY <1>5 DEF DurInv

(* Between calls the counts are those of the files.                         *)
LEMMA IdleHolds ==
  ASSUME TypeInv, at \in {"idle", "wrlock", "error"} \/ (at = "done" /\ op.deleting),
         NEW g, NEW S \in SUBSET Id, SameData(file, g, S), NEW a \in [Id -> Nat],
         \A i \in Id : a[i] <= acked[i]
  PROVE  Holds(g, a, S)
<1> SUFFICES ASSUME NEW i \in S
             PROVE  /\ g[i].exts = file[i].exts /\ g[i].synced = Count(i)
                    /\ a[i] <= acked[i] \/ a[i] <= Count(i)
  BY DEF Holds
<1>1. ~Full(i)
  BY DEF Full, Writing
<1> QED BY <1>1 DEF Count, SameData

(* A call that begins.                                                      *)
LEMMA CallDur ==
  ASSUME TypeInv, TypeInv', FrameInv, CrashInv, DurInv, NEW t, NEW what, Calls(t, what),
         at' \in {"idle", "wrlock", "persist"}, SameData(file, file', Id), nextId' = nextId,
         ~Creating', at' = "persist" => Carries',
         op'.kind \in {"sync", "close"} => op'.id \in Id /\ op'.n = Len(file[op'.id].exts)
  PROVE  DurInv'
<1>1. /\ at = "idle" /\ UNCHANGED <<log, metaLog, oldLog, seq, acked>> /\ oldLog = None
  BY IdleFacts DEF Calls, deviceVars
<1>2. \A i \in Id : acked[i] \in Nat
  BY CountTypesHold
<1>3. acked' \in [Id -> Nat] /\ \A i \in Id : acked'[i] <= acked[i]
  BY <1>1, <1>2 DEF TypeInv, Types, CountTypes
<1>4. Holds(file', acked', Id)
  BY <1>1, <1>3, IdleHolds
<1>5. CoverInv'
  BY <1>1 DEF DurInv, CoverInv, SameData
<1> QED BY <1>1, <1>4, <1>5, QuietDur DEF Quiet

(* A new file: nothing of it is in the log, and nobody synced it.           *)
LEMMA CreateDur ==
  ASSUME TypeInv, TypeInv', FrameInv, CrashInv, DurInv,
         at = "idle" \/ (at = "done" /\ op.deleting),
         NEW f, Files(f), SameData(file, f, Id), NEW n \in Names, nextId \in Id,
         CreateFile(f, n), Named(Disk.files, nextId) = {},
         op'.kind = "create", ~op'.deleting, op'.id = nextId,
         UNCHANGED <<log, metaLog, oldLog, seq>>, \A i \in Id : acked'[i] <= acked[i]
  PROVE  DurInv'
<1>1. /\ file' = [f EXCEPT ![nextId] = NewFile(<<n>>)] /\ nextId' = nextId + 1
      /\ at' = "persist" /\ rec' = UpdateRecord(file', nextId)
  BY DEF CreateFile, Persist
<1>2. file'[nextId] = NewFile(<<n>>) /\ \A j \in Id \ {nextId} : file'[j] = f[j]
  BY <1>1, ReplaceFacts
<1>3. file'[nextId].exts = <<>>
  BY <1>2 DEF NewFile
<1>4. acked' \in [Id -> Nat] /\ acked \in [Id -> Nat]
  BY DEF TypeInv, Types, CountTypes
<1>5. PICK S : S = Id \ {nextId}
  OBVIOUS
<1>6. SameData(file, file', S)
  BY <1>2, <1>5 DEF SameData
<1>7. S \in SUBSET Id /\ \A i \in Id : Named(Disk.files, i) # {} => i \in S
  BY <1>5
<1>8. Holds(file', acked', S)
  BY <1>4, <1>6, <1>7, IdleHolds
<1>9. Carries'
  BY <1>1 DEF Carries
<1>10. CoverInv'
  <2>1. \A i \in Id : i >= nextId => acked[i] = 0
    BY DEF DurInv, CoverInv
  <2>2. ASSUME NEW i \in Id, i # nextId PROVE acked'[i] <= Len(file'[i].exts)
    <3>1. file'[i].exts = file[i].exts /\ acked[i] <= Len(file[i].exts)
      BY <1>5, <1>6, <2>2 DEF SameData, DurInv, CoverInv
    <3>2. Len(file[i].exts) \in Nat
      BY CountTypesHold
    <3> QED BY <1>4, <3>1, <3>2
  <2>3. acked'[nextId] <= Len(file'[nextId].exts)
    <3>1. nextId >= nextId
      BY DEF Id
    <3>2. acked[nextId] = 0
      BY <2>1, <3>1
    <3>3. Len(<<>>) = 0 /\ acked'[nextId] \in Nat
      BY <1>4
    <3> QED BY <1>3, <3>2, <3>3
  <2>4. ASSUME NEW i \in Id, i >= nextId' PROVE acked'[i] = 0
    <3>1. acked[i] = 0
      BY <1>1, <2>1, <2>4 DEF Id
    <3> QED BY <1>4, <3>1
  <2>5. \A i \in Id : acked'[i] <= Len(file'[i].exts) /\ (i >= nextId' => acked'[i] = 0)
    BY <2>2, <2>3, <2>4
  <2> QED BY <1>3, <2>5 DEF CoverInv
<1>11. oldLog' = None
  BY DEF CrashInv, LogInv, Rolling
<1> QED BY <1>1, <1>7, <1>8, <1>9, <1>10, <1>11, QuietDur DEF Quiet

(* The removal of a name.                                                   *)
LEMMA DeleteNoLockDur ==
  ASSUME TypeInv, TypeInv', FrameInv, CrashInv, DurInv, NEW t, NEW what, Calls(t, what),
         NEW n \in Names, files[n] # None, DeleteFileNoLock(n),
         op'.deleting, op'.kind \notin {"sync", "close"}
  PROVE  DurInv'
<1>1. PICK i \in Id : i = files[n]
  BY DEF TypeInv, Types, MemoryTypes, NameMap
<1>2. /\ file' = RemoveLinkName(file, i, n) /\ nextId' = nextId /\ at' = "persist"
      /\ rec' = DeletionRecord(i, n)
  BY <1>1 DEF DeleteFileNoLock, Persist
<1>3. SameData(file, file', Id)
  BY <1>2, LinkData DEF TypeInv, Types, MemoryTypes
<1>4. Carries' /\ ~Creating'
  BY <1>2 DEF Carries, Creating, DeletionRecord
<1> QED BY <1>2, <1>3, <1>4, CallDur

(* A file that gets another name.                                           *)
LEMMA MoveFileDur ==
  ASSUME TypeInv, TypeInv', FrameInv, CrashInv, DurInv, NEW t, NEW what, Calls(t, what),
         NEW i \in Id, NEW s \in Names, NEW d \in Names, MoveFile(file, i, s, d),
         ~op'.deleting, op'.kind = "rename", op'.id = i
  PROVE  DurInv'
<1>1. /\ file' = RenameLink(file, i, s, d) /\ nextId' = nextId /\ at' = "persist"
      /\ rec' = UpdateRecord(file', i)
  BY DEF MoveFile, Persist
<1>2. SameData(file, file', Id)
  BY <1>1, LinkData DEF TypeInv, Types, MemoryTypes
<1>3. Carries' /\ ~Creating'
  BY <1>1 DEF Carries, Creating
<1> QED BY <1>1, <1>2, <1>3, CallDur

(* SyncFileMetadata writes what the file has pushed.                        *)
LEMMA SyncFileMetadataDur ==
  ASSUME TypeInv, TypeInv', FrameInv, CrashInv, DurInv, NEW t \in Threads, NEW i \in Id,
         NEW what \in {"sync", "close"}, NEW active \in BOOLEAN,
         SyncFileMetadata(t, i, what, active)
  PROVE  DurInv'
<1>1. /\ file' = [file EXCEPT ![i].active = active] /\ nextId' = nextId /\ at' = "persist"
      /\ rec' = UpdateRecord(file', i) /\ Calls(t, what)
      /\ op' = [Request(what, t, i) EXCEPT !.n = Len(file[i].exts)]
  BY DEF SyncFileMetadata, Persist
<1>2. Asks(op', what, i)
  BY SyncFileMetadataOp
<1>3. SameData(file, file', Id)
  BY <1>1, DataFacts DEF TypeInv, Types, MemoryTypes
<1>4. op'.n = Len(file[i].exts)
  <2>1. PICK r : r = Request(what, t, i) /\ r \in OpType
    BY RequestTypes DEF Kinds, TypeInv, Types, MemoryTypes
  <2> QED BY <1>1, <2>1 DEF OpType
<1>5. Carries' /\ ~Creating'
  BY <1>1, <1>2 DEF Carries, Creating, Asks
<1> QED BY <1>1, <1>2, <1>3, <1>4, <1>5, CallDur DEF Asks

(* PushExtent comes between calls only, and the log does not know of it.    *)
LEMMA PushExtentDur ==
  ASSUME Solo, TypeInv, TypeInv', FrameInv, AloneInv, DurInv, NEW t \in Threads, NEW i \in Id,
         PushExtent(t, i)
  PROVE  DurInv'
<1>1. /\ op.who # t /\ file[i].wr = t
      /\ file' = [file EXCEPT ![i].exts = Append(@, Len(@) + 1)]
      /\ UNCHANGED <<log, metaLog, oldLog, files, nextId, at, op, rec, acked>>
  BY DEF PushExtent, deviceVars
<1>2. op.kind = "none" /\ at \in {"idle", "down", "unmountable"}
  BY <1>1, MetaAssumption DEF Solo, AloneInv, FrameInv, OpInv
<1>3. PICK e \in Seq(Nat) : e = file[i].exts /\ Len(e) \in Nat
  BY CountTypesHold
<1>4. /\ \A j \in Id : file'[j].exts = IF j = i THEN Append(e, Len(e) + 1) ELSE file[j].exts
      /\ \A j \in Id : file'[j].synced = file[j].synced
  BY <1>1, <1>3 DEF TypeInv, Types, MemoryTypes, Files, FileType
<1>5. Len(Append(e, Len(e) + 1)) = Len(e) + 1
  BY <1>3, AppendProperties
<1>6. Disk' = Disk
  <2>1. log' = log /\ Cur' = Cur
    BY <1>1 DEF Cur
  <2> QED BY <2>1 DEF Disk
<1>7. Up => Saved'
  <2> SUFFICES ASSUME Up, NEW j \in Id, Named(Disk.files, j) # {}
               PROVE  /\ Disk.image[j].exts = SubSeq(file'[j].exts, 1, Count(j)')
                      /\ acked[j] <= Count(j)'
    BY <1>1, <1>6 DEF Saved
  <2>1. /\ Disk.image[j].exts = SubSeq(file[j].exts, 1, Count(j))
        /\ acked[j] <= Count(j)
    BY DEF DurInv, SaveInv, Saved
  <2>2. ~Full(j) /\ ~Full(j)'
    BY <1>1, <1>2 DEF Full
  <2>3. Count(j) = file[j].synced /\ Count(j)' = file[j].synced
    BY <1>4, <2>2 DEF Count
  <2>4. SubSeq(file'[j].exts, 1, file[j].synced) = SubSeq(file[j].exts, 1, file[j].synced)
    <3>1. CASE j # i
      BY <1>4, <3>1
    <3>2. CASE j = i
      <4>1. file'[j].exts = Append(e, Len(e) + 1) /\ file[j].exts = e
        BY <1>3, <1>4, <3>2
      <4>2. PICK k \in Nat : k = file[j].synced /\ k <= Len(e)
        BY <1>3, <3>2, CountTypesHold
      <4>3. PICK V : V = Nat
        OBVIOUS
      <4>4. e \in Seq(V) /\ Len(e) + 1 \in V
        BY <1>3, <4>3
      <4>5. SubSeq(Append(e, Len(e) + 1), 1, k) = SubSeq(e, 1, k)
        BY <4>2, <4>4, GrownPart
      <4> QED BY <4>1, <4>2, <4>5
    <3> QED BY <3>1, <3>2
  <2> QED BY <2>1, <2>3, <2>4
<1>8. SaveInv' /\ CarryInv'
  BY <1>1, <1>2, <1>7 DEF SaveInv, CarryInv, Up
<1>9. CoverInv'
  <2>1. ASSUME NEW j \in Id PROVE acked[j] <= Len(file'[j].exts)
    <3>1. acked[j] <= Len(file[j].exts) /\ acked[j] \in Nat /\ Len(file[j].exts) \in Nat
      BY CountTypesHold DEF DurInv, CoverInv
    <3>2. PICK l \in Nat, k \in Nat, a \in Nat :
            l = Len(file[j].exts) /\ k = Len(e) /\ a = acked[j] /\ a <= l
      BY <1>3, <3>1
    <3>3. CASE j # i
      BY <1>4, <3>1, <3>3
    <3>4. CASE j = i
      <4>1. Len(file'[j].exts) = k + 1 /\ l = k
        BY <1>3, <1>4, <1>5, <3>2, <3>4
      <4>2. a <= k + 1
        BY <3>2, <4>1
      <4> QED BY <3>2, <4>1, <4>2
    <3> QED BY <3>3, <3>4
  <2>2. \A j \in Id : j >= nextId => acked[j] = 0
    BY DEF DurInv, CoverInv
  <2> QED BY <1>1, <1>2, <2>1, <2>2 DEF CoverInv, Creating
<1> QED BY <1>8, <1>9 DEF DurInv

(* The calls of the client.                                                 *)
LEMMA ClientDur ==
  ASSUME Solo, TypeInv, TypeInv', FrameInv, CrashInv, AloneInv, DurInv, NEW t \in Threads,
         Call(t)
  PROVE  DurInv'
<1>1. Files(file) /\ files \in NameMap
  BY DEF TypeInv, Types, MemoryTypes
<1>2. ASSUME NEW n \in Names, DeleteFile(t, n) PROVE DurInv'
  <2>1. Starts(op', "delete", files[n], n, [files EXCEPT ![n] = None])
    BY <1>2, DeleteFileOp
  <2> QED BY <1>2, <2>1, DeleteNoLockDur DEF DeleteFile, Starts
<1>3. ASSUME NEW n \in Names, OpenWritableFile(t, n) PROVE DurInv'
  <2>1. /\ Starts(op', "create", nextId, n, [files EXCEPT ![n] = nextId]) /\ nextId \in Id
        /\ Calls(t, "create")
    BY <1>3, OpenWritableFileOp DEF OpenWritableFile
  <2>2. CASE files[n] # None
    BY <1>3, <2>1, <2>2, DeleteNoLockDur DEF OpenWritableFile, Starts
  <2>3. CASE files[n] = None
    <3>1. CreateFile(file, n)
      BY <1>3, <2>3 DEF OpenWritableFile
    <3>2. op'.kind = "create" /\ ~op'.deleting /\ op'.id = nextId
      BY <2>1, <2>3 DEF Starts
    <3>3. /\ at = "idle" /\ UNCHANGED <<log, metaLog, oldLog, seq>> /\ acked' = acked
      BY <2>1 DEF Calls, deviceVars
    <3>4. Named(Disk.files, nextId) = {}
      <4>1. Disk.files = files /\ \A m \in Names : files[m] < nextId
        BY <3>3, IdleFacts
      <4> QED BY <2>1, <4>1 DEF Named, Id
    <3>5. \A i \in Id : acked'[i] <= acked[i]
      BY <3>3, CountTypesHold
    <3>6. SameData(file, file, Id)
      BY DEF SameData
    <3> QED BY <1>1, <2>1, <3>1, <3>2, <3>3, <3>4, <3>5, <3>6, CreateDur
  <2> QED BY <2>2, <2>3
<1>4. ASSUME NEW n \in Names, ReopenWritableFile(t, n) PROVE DurInv'
  <2>1. Asks(op', "reopen", files[n])
    BY <1>4, ReopenWritableFileFrame
  <2>2. /\ Calls(t, "reopen") /\ at' = "wrlock" /\ file' = file /\ nextId' = nextId
    BY <1>4 DEF ReopenWritableFile, memoryVars
  <2>3. SameData(file, file', Id)
    BY <2>2 DEF SameData
  <2> QED BY <2>1, <2>2, <2>3, CallDur DEF Asks, Creating
<1>5. ASSUME NEW s \in Names, NEW d \in Names, RenameFile(t, s, d) PROVE DurInv'
  <2>1. /\ Starts(op', "rename", files[s], d, Renamed(s, d)) /\ files[s] \in Id
        /\ Calls(t, "rename")
    BY <1>5, RenameFileOp DEF RenameFile
  <2>2. CASE files[d] # None
    BY <1>5, <2>1, <2>2, DeleteNoLockDur DEF RenameFile, Starts
  <2>3. CASE files[d] = None
    <3>1. PICK i \in Id : i = files[s] /\ MoveFile(file, i, s, d)
      BY <1>5, <2>1, <2>3 DEF RenameFile
    <3>2. op'.kind = "rename" /\ ~op'.deleting /\ op'.id = i
      BY <2>1, <2>3, <3>1 DEF Starts
    <3> QED BY <2>1, <3>1, <3>2, MoveFileDur
  <2> QED BY <2>2, <2>3
<1>6. ASSUME NEW s \in Names, NEW l \in Names, LinkFile(t, s, l) PROVE DurInv'
  <2>1. /\ Starts(op', "link", files[s], l, [files EXCEPT ![l] = files[s]])
        /\ Calls(t, "link") /\ files[l] = None
    BY <1>6, LinkFileOp DEF LinkFile
  <2>2. PICK i \in Id : i = files[s]
    BY <1>6, LinkFileOp
  <2>3. /\ file' = AddLinkName(file, i, l) /\ nextId' = nextId /\ at' = "persist"
        /\ rec' = UpdateRecord(file', i)
    BY <1>6, <2>2 DEF LinkFile, Persist
  <2>4. SameData(file, file', Id)
    BY <1>1, <2>3, LinkData
  <2>5. Carries' /\ ~Creating'
    BY <2>1, <2>2, <2>3 DEF Carries, Creating, Starts
  <2> QED BY <2>1, <2>3, <2>4, <2>5, CallDur DEF Starts
<1>7. ASSUME NEW i \in Id, AllocateNewZone(t, i) \/ Fsync(t, i) PROVE DurInv'
  <2>1. file[i].active \in BOOLEAN
    BY <1>1 DEF Files, FileType
  <2> QED BY <1>7, <2>1, SyncFileMetadataDur DEF AllocateNewZone, Fsync
<1>8. ASSUME NEW i \in Id, CloseWR(t, i) PROVE DurInv'
  <2>1. CASE SyncFileMetadata(t, i, "close", FALSE)
    BY <2>1, SyncFileMetadataDur
  <2>2. CASE ~SyncFileMetadata(t, i, "close", FALSE)
    <3>1. /\ Calls(t, "close") /\ file' = [file EXCEPT ![i].wr = NoThread]
          /\ UNCHANGED <<nextId, at, op>>
      BY <1>8, <2>2 DEF CloseWR
    <3>2. SameData(file, file', Id)
      <4>1. TRUE \in BOOLEAN
        OBVIOUS
      <4> QED BY <1>1, <3>1, <4>1, DataFacts
    <3>3. at = "idle" /\ op.kind = "none"
      BY <3>1 DEF Calls, FrameInv, OpInv
    <3> QED BY <3>1, <3>2, <3>3, CallDur DEF Creating
  <2> QED BY <2>1, <2>2
<1>9. ASSUME NEW i \in Id, PushExtent(t, i) PROVE DurInv'
  BY <1>9, PushExtentDur
<1>10. ASSUME NEW i \in Id, ReplaceExtentList(t, i) \/ SyncFileExtents(t, i) PROVE FALSE
  BY <1>10 DEF Solo, AloneInv, ReplaceExtentList, SyncFileExtents
<1>11. CASE Unmount(t)
  <2>1. Asks(op', "unmount", None)
    BY <1>11, UnmountFrame
  <2>2. /\ Calls(t, "unmount") /\ at' = "persist" /\ file' = file /\ nextId' = nextId
        /\ rec' = ResetCountRecord
    BY <1>11 DEF Unmount, memoryVars, Persist
  <2>3. SameData(file, file', Id)
    BY <2>2 DEF SameData
  <2>4. Carries' /\ ~Creating'
    BY <2>1, <2>2 DEF Carries, Creating, Asks, ResetCountRecord
  <2> QED BY <2>1, <2>2, <2>3, <2>4, CallDur DEF Asks
<1> QED BY <1>2, <1>3, <1>4, <1>5, <1>6, <1>7, <1>8, <1>9, <1>10, <1>11 DEF Call

(* A call that returns.                                                     *)
LEMMA ReturnDur ==
  ASSUME TypeInv, TypeInv', CrashInv, DurInv,
         at \in {"wrlock", "done"} \/ (at = "error" /\ op.kind \notin {"mount", "abort"}),
         Return, oldLog' = None, UNCHANGED <<log, metaLog, seq, nextId>>,
         NEW S \in SUBSET Id, \A i \in Id : Named(Disk.files, i) # {} => i \in S,
         Holds(file', acked', S),
         \A i \in Id : acked'[i] <= Len(file'[i].exts) /\ (i >= nextId => acked'[i] = 0)
  PROVE  DurInv'
<1>1. at' = "idle" /\ op' = NoOp
  BY DEF Return
<1>2. op'.kind = "none"
  BY <1>1, NoOpTypes
<1>3. CoverInv'
  BY <1>2 DEF CoverInv, Creating
<1> QED BY <1>1, <1>3, QuietDur DEF Quiet

(* The bound on what is acknowledged, when the extents stay.                *)
LEMMA AckedKept ==
  ASSUME TypeInv, DurInv, NEW g, SameData(file, g, Id), NEW a \in [Id -> Nat],
         \A i \in Id : a[i] <= acked[i]
  PROVE  \A i \in Id : a[i] <= Len(g[i].exts) /\ (i >= nextId => a[i] = 0)
<1> SUFFICES ASSUME NEW i \in Id PROVE a[i] <= Len(g[i].exts) /\ (i >= nextId => a[i] = 0)
  OBVIOUS
<1>1. acked[i] <= Len(file[i].exts) /\ (i >= nextId => acked[i] = 0)
  BY DEF DurInv, CoverInv
<1>2. g[i].exts = file[i].exts /\ a[i] <= acked[i]
  BY DEF SameData
<1>3. acked[i] \in Nat /\ a[i] \in Nat /\ Len(file[i].exts) \in Nat
  BY CountTypesHold
<1> QED BY <1>1, <1>2, <1>3

(* A call that returns and leaves the extents as they are.                  *)
LEMMA PlainReturn ==
  ASSUME TypeInv, TypeInv', CrashInv, DurInv,
         \/ at = "wrlock" \/ (at = "done" /\ (op.deleting \/ op.kind = "mount"))
         \/ (at = "error" /\ op.kind \notin {"mount", "abort"}),
         Return, oldLog' = None, UNCHANGED <<log, metaLog, seq, nextId>>,
         SameData(file, file', Id), \A i \in Id : acked'[i] <= acked[i]
  PROVE  DurInv'
<1>1. acked' \in [Id -> Nat]
  BY DEF TypeInv, Types, CountTypes
<1>2. Holds(file', acked', Id)
  <2> SUFFICES ASSUME NEW i \in Id
               PROVE  file'[i].exts = file[i].exts /\ file'[i].synced = Count(i)
    BY DEF Holds
  <2>1. ~Full(i)
    BY DEF Full, Writing
  <2> QED BY <2>1 DEF Count, SameData
<1>3. \A i \in Id : acked'[i] <= Len(file'[i].exts) /\ (i >= nextId => acked'[i] = 0)
  <2>1. PICK g, a : g = file' /\ a = acked'
    OBVIOUS
  <2>2. \A i \in Id : a[i] <= Len(g[i].exts) /\ (i >= nextId => a[i] = 0)
    BY <1>1, <2>1, AckedKept
  <2> QED BY <2>1, <2>2
<1> QED BY <1>2, <1>3, ReturnDur

(* The deletion is in the log.                                              *)
LEMMA DeletedDur ==
  ASSUME TypeInv, TypeInv', FrameInv, CrashInv, DurInv, Deleted
  PROVE  DurInv'
<1>1. /\ at = "done" /\ op.deleting /\ op.kind \in {"delete", "rename", "create"}
      /\ op.victim \in Id /\ op.name \in Names /\ op \in OpType /\ Files(file)
      /\ files \in NameMap
      /\ UNCHANGED <<log, metaLog, oldLog, seq>> /\ oldLog = None
  BY DEF Deleted, TypeInv, Valid, Types, CallTypes, MemoryTypes, deviceVars, FrameInv, OpInv,
     CrashInv, LogInv, Rolling
<1>2. PICK f : /\ f = SetDeleted(file, op.victim) /\ Files(f) /\ SameData(file, f, Id)
  <2>1. PICK v \in Id, n \in Names : v = op.victim /\ n = op.name
    BY <1>1
  <2>2. SameData(file, SetDeleted(file, v), Id)
    BY <1>1, <2>1, LinkData
  <2>3. Files(SetDeleted(file, v))
    BY <1>1, MarkTypes
  <2> QED BY <2>1, <2>2, <2>3
<1>3. \A i \in Id : acked'[i] <= acked[i]
  <2>1. acked \in [Id -> Nat]
    BY DEF TypeInv, Types, CountTypes
  <2>2. acked' = [acked EXCEPT ![op.victim] = 0] \/ acked' = acked
    BY DEF Deleted
  <2> QED BY <1>1, <2>1, <2>2
<1>4. CASE op.kind = "create" /\ CreateFile(f, op.name) /\ op' = [op EXCEPT !.deleting = FALSE]
  <2>1. op'.kind = "create" /\ op'.id = op.id /\ ~op'.deleting
    BY <1>1, <1>4 DEF OpType
  <2>2. nextId \in Id /\ op.id = nextId
    BY <1>1, <1>4 DEF TypeInv, Valid
  <2>3. Named(Disk.files, nextId) = {}
    <3>1. Disk.files = files
      BY <1>1 DEF CrashInv, CallInv, AgreeInv, Settled, Up, After, Creating
    <3>2. \A m \in Names : files[m] < nextId
      BY DEF CrashInv, NameInv
    <3> QED BY <2>2, <3>1, <3>2 DEF Named, Id
  <2> QED BY <1>1, <1>2, <1>3, <1>4, <2>1, <2>2, <2>3, CreateDur
<1>5. CASE op.kind = "rename" /\ MoveFile(f, op.id, op.src, op.name)
           /\ op' = [op EXCEPT !.deleting = FALSE]
  <2>1. op'.kind = "rename" /\ op'.id = op.id /\ ~op'.deleting
    BY <1>1, <1>5 DEF OpType
  <2>2. PICK i \in Id, s \in Names, d \in Names : i = op.id /\ s = op.src /\ d = op.name
    BY <1>1, <1>5 DEF TypeInv, Valid
  <2>3. /\ file' = RenameLink(f, i, s, d) /\ rec' = UpdateRecord(file', i) /\ at' = "persist"
        /\ nextId' = nextId
    BY <1>5, <2>2 DEF MoveFile, Persist
  <2>4. SameData(file, file', Id)
    <3>1. SameData(f, file', Id)
      BY <1>2, <2>3, LinkData
    <3> QED BY <1>2, <3>1 DEF SameData
  <2>5. Carries'
    BY <2>1, <2>2, <2>3 DEF Carries
  <2>6. acked' \in [Id -> Nat]
    BY DEF TypeInv, Types, CountTypes
  <2>7. CoverInv'
    <3>1. PICK g, a : g = file' /\ a = acked'
      OBVIOUS
    <3>2. \A j \in Id : a[j] <= Len(g[j].exts) /\ (j >= nextId => a[j] = 0)
      BY <1>3, <2>4, <2>6, <3>1, AckedKept
    <3> QED BY <2>1, <2>3, <3>1, <3>2 DEF CoverInv, Creating
  <2>8. Holds(file', acked', Id)
    BY <1>1, <1>3, <2>4, <2>6, IdleHolds
  <2> QED BY <1>1, <2>3, <2>5, <2>7, <2>8, QuietDur DEF Quiet
<1>6. CASE file' = f /\ Return /\ UNCHANGED <<files, nextId>>
  BY <1>1, <1>2, <1>3, <1>6, PlainReturn
<1> QED BY <1>2, <1>4, <1>5, <1>6 DEF Deleted

(* The record is in the log: its extents are marked synced, and the caller  *)
(* is told so.                                                              *)
LEMMA PersistedDur ==
  ASSUME TypeInv, TypeInv', FrameInv, CrashInv, AloneInv, DurInv, Persisted
  PROVE  DurInv'
<1>1. /\ at = "done" /\ op.id \in Id /\ op.who \in Threads \cup {NoThread} /\ Return
      /\ ~op.deleting /\ op.kind \in {"create", "rename", "link", "sync", "close"}
      /\ UNCHANGED <<log, metaLog, oldLog, seq, nextId>> /\ Files(file) /\ oldLog = None
  BY DEF Persisted, TypeInv, Valid, Types, CallTypes, MemoryTypes, OpType, deviceVars,
     AloneInv, CrashInv, LogInv, Rolling
<1>2. PICK f : f = MetadataSynced(file, {op.id}) /\ Files(f)
  <2>1. PICK i \in Id : i = op.id
    BY <1>1
  <2> QED BY <1>1, <2>1, MarkTypes
<1>3. \A i \in Id : f[i].exts = file[i].exts /\ f[i].synced = Count(i)
  <2>1. \A i \in Id : /\ f[i].exts = file[i].exts
                      /\ f[i].synced = IF i \in {op.id} THEN Len(file[i].exts) ELSE file[i].synced
    BY <1>1, <1>2, SyncedData
  <2>2. \A i \in Id : Full(i) <=> i \in {op.id}
    BY <1>1 DEF Full, Writing
  <2> QED BY <2>1, <2>2 DEF Count
<1>4. SameData(f, file', Id)
  <2>1. CASE op.kind = "create"
    <3>1. file' = [f EXCEPT ![op.id].wr = op.who]
      BY <1>2, <2>1 DEF Persisted
    <3>2. FALSE \in BOOLEAN
      OBVIOUS
    <3> QED BY <1>1, <1>2, <3>1, <3>2, DataFacts
  <2>2. CASE op.kind = "close"
    <3>1. file' = [f EXCEPT ![op.id].wr = NoThread, ![op.id].moved = FALSE]
      BY <1>2, <2>2 DEF Persisted
    <3>2. FALSE \in BOOLEAN
      OBVIOUS
    <3> QED BY <1>1, <1>2, <3>1, <3>2, DataFacts
  <2>3. CASE op.kind \notin {"create", "close"}
    <3>1. file' = f
      BY <1>1, <1>2, <2>3 DEF Persisted
    <3> QED BY <3>1 DEF SameData
  <2> QED BY <2>1, <2>2, <2>3
<1>5. ASSUME NEW i \in Id
      PROVE  /\ acked'[i] = acked[i] \/ (i = op.id /\ acked'[i] = Len(file[i].exts))
  <2>1. acked \in [Id -> Nat]
    BY DEF TypeInv, Types, CountTypes
  <2>2. \/ acked' = acked
        \/ op.kind \in {"sync", "close"} /\ acked' = [acked EXCEPT ![op.id] = op.n]
    BY DEF Persisted
  <2>3. op.kind \in {"sync", "close"} => op.n = Len(file[op.id].exts)
    BY DEF DurInv, CoverInv
  <2> QED BY <1>1, <2>1, <2>2, <2>3
<1>6. ASSUME NEW i \in Id
      PROVE  /\ file'[i].exts = file[i].exts /\ file'[i].synced = Count(i)
             /\ acked'[i] <= acked[i] \/ acked'[i] <= Count(i)
             /\ acked'[i] <= Len(file'[i].exts)
  <2>1. file'[i].exts = file[i].exts /\ file'[i].synced = Count(i)
    BY <1>3, <1>4 DEF SameData
  <2>2. i = op.id => Count(i) = Len(file[i].exts)
    BY <1>1 DEF Full, Count, Writing
  <2>3. acked[i] \in Nat /\ Len(file[i].exts) \in Nat /\ acked[i] <= Len(file[i].exts)
    BY CountTypesHold DEF DurInv, CoverInv
  <2> QED BY <1>5, <2>1, <2>2, <2>3
<1>7. Holds(file', acked', Id)
  BY <1>6 DEF Holds
<1>8. ASSUME NEW i \in Id, i >= nextId PROVE acked'[i] = 0
  <2>1. op.id < nextId
    <3>1. op.id < nextId
      <4>1. CASE op.kind = "create"
        BY <1>1, <4>1 DEF CrashInv, NameInv, Creating
      <4>2. CASE op.kind # "create"
        <5>1. files = op.post /\ Named(files, op.id) # {}
          <6>1. files = op.post /\ ~Creating
            BY <1>1, <4>2 DEF CrashInv, CallInv, After, Creating
          <6>2. CASE op.kind \in {"sync", "close"}
            BY <6>1, <6>2 DEF CrashInv, CallInv
          <6>3. CASE op.kind = "link"
            <7>1. op.post = [op.mid EXCEPT ![op.name] = op.id] /\ op.mid \in NameMap
                  /\ op.name \in Names
              BY <6>3 DEF CrashInv, CallInv, TypeInv, Valid, Types, CallTypes, OpType
            <7> QED BY <1>1, <6>1, <7>1 DEF Named, NameMap
          <6>4. CASE op.kind = "rename"
            <7>1. /\ op.post = [op.mid EXCEPT ![op.src] = None, ![op.name] = op.id]
                  /\ op.mid \in NameMap /\ op.name \in Names
              BY <1>1, <6>4 DEF CrashInv, CallInv, Moves, TypeInv, Valid, Types, CallTypes, OpType
            <7> QED BY <1>1, <6>1, <7>1 DEF Named, NameMap
          <6> QED BY <1>1, <4>2, <6>1, <6>2, <6>3, <6>4
        <5>2. \A n \in Names : files[n] < nextId
          BY DEF CrashInv, NameInv
        <5> QED BY <5>1, <5>2 DEF Named
      <4> QED BY <4>1, <4>2
    <3> QED BY <3>1
  <2>2. nextId \in Nat /\ op.id \in Nat /\ i \in Nat
    BY <1>1 DEF TypeInv, Types, MemoryTypes, Id
  <2>3. i # op.id
    BY <1>8, <2>1, <2>2
  <2> QED BY <1>5, <1>8, <2>3 DEF DurInv, CoverInv
<1> QED BY <1>1, <1>6, <1>7, <1>8, ReturnDur

(* A reopened file, and the first mount.                                    *)
LEMMA SimpleReturnDur ==
  ASSUME TypeInv, TypeInv', FrameInv, CrashInv, DurInv, AcquireWRLock \/ Mounted
  PROVE  DurInv'
<1>1. /\ at = "wrlock" \/ (at = "done" /\ op.kind = "mount")
      /\ Return
      /\ UNCHANGED <<log, metaLog, oldLog, seq, nextId, acked>> /\ oldLog = None
  BY DEF AcquireWRLock, Mounted, deviceVars, memoryVars, otherVars, CrashInv, LogInv, Rolling
<1>2. SameData(file, file', Id)
  <2>1. CASE AcquireWRLock
    <3>1. file' = [file EXCEPT ![op.id].wr = op.who] /\ op.id \in Id /\ FALSE \in BOOLEAN
      BY <2>1 DEF AcquireWRLock, TypeInv, Valid
    <3> QED BY <3>1, DataFacts DEF TypeInv, Types, MemoryTypes
  <2>2. CASE Mounted
    BY <2>2 DEF Mounted, memoryVars, SameData
  <2> QED BY <2>1, <2>2
<1>3. \A i \in Id : acked'[i] <= acked[i]
  BY <1>1, CountTypesHold
<1> QED BY <1>1, <1>2, <1>3, PlainReturn

(* A call that takes back what it did: the extents stay, and what goes is   *)
(* not in the log.                                                          *)
LEMMA RollBackDur ==
  ASSUME TypeInv, TypeInv', FrameInv, CrashInv, AloneInv, DurInv, RollBack
  PROVE  DurInv'
<1>1. /\ at = "error" /\ op.kind \notin {"mount", "abort"} /\ Return /\ Files(file)
      /\ oldLog' = None /\ UNCHANGED <<log, metaLog, seq, nextId, acked>>
  BY DEF RollBack, TypeInv, Types, MemoryTypes, deviceVars, otherVars
<1>2. \A i \in Id : acked'[i] <= acked[i]
  BY <1>1, CountTypesHold
<1>3. ASSUME SameData(file, file', Id) PROVE DurInv'
  BY <1>1, <1>2, <1>3, PlainReturn
<1>4. CASE op.deleting /\ file' = AddLinkName(file, op.victim, op.name)
  <2>1. op.victim \in Id /\ op.name \in Names
    BY <1>4 DEF TypeInv, Valid
  <2> QED BY <1>1, <1>3, <1>4, <2>1, LinkData
<1>5. CASE op.kind = "link" /\ file' = RemoveLinkName(file, op.id, op.name)
  <2>1. op.id \in Id /\ op.name \in Names
    BY <1>5 DEF TypeInv, Valid
  <2> QED BY <1>1, <1>3, <1>5, <2>1, LinkData
<1>6. CASE op.kind = "rename" /\ file' = RenameLink(file, op.id, op.name, op.src)
  <2>1. op.id \in Id /\ op.name \in Names /\ op.src \in Names
    BY <1>6 DEF TypeInv, Valid
  <2> QED BY <1>1, <1>3, <1>6, <2>1, LinkData
<1>7. CASE file' = file
  BY <1>3, <1>7 DEF SameData
<1>8. CASE ~op.deleting /\ op.kind = "create" /\ file' = [file EXCEPT ![op.id] = NoFile]
  <2>1. PICK k \in Id : k = op.id
    BY <1>8 DEF TypeInv, Valid
  <2>2. file'[k] = NoFile /\ \A j \in Id \ {k} : file'[j] = file[j]
    BY <1>1, <1>8, <2>1, ReplaceFacts
  <2>3. Creating /\ file[k].exts = <<>> /\ acked[k] <= Len(file[k].exts)
    BY <1>8, <2>1 DEF Creating, DurInv, CoverInv
  <2>4. file'[k].exts = <<>>
    BY <2>2 DEF NoFile, NewFile
  <2>5. Named(Disk.files, k) = {}
    <3>1. Disk.files = op.mid
      BY <1>1, <1>8 DEF CrashInv, AgreeInv, Settled, Up, Before
    <3>2. files = op.mid /\ Named(files, k) = {}
      BY <1>8, <2>1, <2>3 DEF CrashInv, CallInv, NameInv
    <3> QED BY <3>1, <3>2
  <2>6. PICK S : S = Id \ {k}
    OBVIOUS
  <2>7. S \in SUBSET Id /\ SameData(file, file', S) /\ acked' \in [Id -> Nat]
    BY <2>2, <2>6 DEF SameData, TypeInv, Types, CountTypes
  <2>8. Holds(file', acked', S)
    BY <1>1, <1>2, <2>7, IdleHolds
  <2>9. \A i \in Id : acked'[i] <= Len(file'[i].exts) /\ (i >= nextId => acked'[i] = 0)
    BY <1>1, <2>2, <2>3, <2>4 DEF DurInv, CoverInv
  <2>10. \A i \in Id : Named(Disk.files, i) # {} => i \in S
    BY <2>5, <2>6
  <2> QED BY <1>1, <2>7, <2>8, <2>9, <2>10, ReturnDur
<1> QED BY <1>4, <1>5, <1>6, <1>7, <1>8 DEF RollBack, AloneInv

(* A process that ends has nothing to keep.                                 *)
LEMMA ForgetDur ==
  ASSUME Forget
  PROVE  DurInv'
<1>1. /\ at' = "down" /\ op' = NoOp /\ file' = [i \in Id |-> NoFile]
      /\ acked' = [i \in Id |-> 0]
  BY DEF Forget
<1>2. op'.kind = "none" /\ NoFile.exts = <<>> /\ Len(<<>>) = 0 /\ 0 <= 0
  BY <1>1, NoOpTypes DEF NoFile, NewFile
<1>3. \A i \in Id : acked'[i] <= Len(file'[i].exts) /\ (i >= nextId' => acked'[i] = 0)
  BY <1>1, <1>2
<1>4. CoverInv'
  BY <1>2, <1>3 DEF CoverInv, Creating
<1> QED BY <1>1, <1>4 DEF DurInv, SaveInv, CarryInv, Up

(* The extents of a file that is decoded, and recovered or not.             *)
LEMMA RecoverData ==
  ASSUME NEW e \in Image, NEW g, Decodes(g, e)
  PROVE  /\ g.synced = Len(e.exts) /\ Len(e.exts) \in Nat
         /\ e.exts = SubSeq(g.exts, 1, Len(e.exts))
         /\ Len(e.exts) <= Len(g.exts)
<1>1. PICK x \in Seq(Nat) : x = e.exts /\ Len(x) \in Nat
  <2>1. e.exts \in Seq(Nat)
    BY DEF Image
  <2> QED BY <2>1, LenProperties
<1>2. PICK d : /\ d = DecodeFrom(e) /\ d.exts = x /\ d.synced = Len(x) /\ d \in FileType
  <2>1. PICK n : n = NewFile(e.links) /\ n \in FileType
    BY NewFileTypes DEF Image
  <2>2. PICK a \in BOOLEAN, k \in Nat : a = e.active /\ k = Len(x)
    BY <1>1 DEF Image
  <2>3. DecodeFrom(e) = [n EXCEPT !.exts = x, !.synced = k, !.active = a]
    BY <1>1, <2>1, <2>2 DEF DecodeFrom
  <2>4. PICK d : d = [n EXCEPT !.exts = x, !.synced = k, !.active = a]
    OBVIOUS
  <2>5. d \in FileType /\ d.exts = x /\ d.synced = k
    BY <2>1, <2>4 DEF FileType
  <2> QED BY <2>2, <2>3, <2>4, <2>5
<1>3. g = d \/ \E w \in BOOLEAN : g = Recover(d, w)
  BY <1>2 DEF Decodes
<1>4. PICK w \in BOOLEAN : g.synced = Len(x) /\ g.exts = IF w THEN Append(x, Len(x) + 1) ELSE x
  <2>1. CASE g = d
    BY <1>2, <2>1
  <2>2. ASSUME NEW w \in BOOLEAN, g = Recover(d, w)
        PROVE  g.synced = Len(x) /\ g.exts = IF w THEN Append(x, Len(x) + 1) ELSE x
    BY <1>2, <2>2 DEF Recover, FileType
  <2> QED BY <1>3, <2>1, <2>2
<1>5. PICK V : V = Nat
  OBVIOUS
<1>6. x \in Seq(V) /\ Len(x) + 1 \in V
  BY <1>1, <1>5
<1>7. Len(x) <= Len(x) /\ SubSeq(x, 1, Len(x)) = x
  BY <1>1, <1>6, SubSeqFull
<1>8. /\ SubSeq(Append(x, Len(x) + 1), 1, Len(x)) = SubSeq(x, 1, Len(x))
      /\ Len(Append(x, Len(x) + 1)) = Len(x) + 1
  BY <1>1, <1>6, <1>7, GrownPart, AppendProperties
<1>9. x = SubSeq(g.exts, 1, Len(x)) /\ Len(x) <= Len(g.exts)
  <2>1. CASE w
    BY <1>1, <1>4, <1>7, <1>8, <2>1
  <2>2. CASE ~w
    BY <1>1, <1>4, <1>7, <2>2
  <2> QED BY <2>1, <2>2
<1> QED BY <1>1, <1>2, <1>3, <1>4, <1>9

(* Mount restores what the log has.                                         *)
LEMMA MountDur ==
  ASSUME TypeInv, TypeInv', FrameInv, CrashInv, DurInv, Mount
  PROVE  DurInv'
<1>1. /\ at = "down" /\ log \in [MetaZone -> Seq(Record)] /\ op.kind = "none" /\ oldLog = None
      /\ UNCHANGED <<log, oldLog, rec>>
  BY DEF Mount, TypeInv, Types, DeviceTypes, deviceVars, FrameInv, OpInv, CrashInv, LogInv,
     Rolling
<1>2. CASE Recovered.status # "ok"
  <2>1. at' = "unmountable" /\ UNCHANGED <<files, file, nextId, op, acked>>
    BY <1>2 DEF Mount, memoryVars
  <2>2. CoverInv'
    BY <2>1 DEF DurInv, CoverInv, Creating
  <2> QED BY <2>1, <2>2 DEF DurInv, SaveInv, CarryInv, Up
<1>3. CASE Recovered.status = "ok"
  <2>1. PICK c \in MetaZone : Heads(log, c)
    BY <1>1, <1>3, OkHeads DEF Up
  <2>2. PICK st : st = Decoded(Tail(log[c])) /\ Sound(st)
    BY <2>1 DEF Heads, Whole
  <2>3. /\ NewestZone = c /\ Recovered.files = st.files
        /\ Recovered.image = st.image /\ Recovered.next = st.next
    BY <1>1, <2>1, <2>2, HeadsLeads, LeaderIsRecovered
  <2>4. /\ at' \in {"allocate", "error"} /\ metaLog' = c /\ files' = st.files
        /\ nextId' = st.next /\ op'.kind = "mount"
    BY <1>3, <2>3, MountFiles
  <2>5. ~Creating' /\ Up' /\ Cur' = c
    BY <1>1, <2>4 DEF Creating, Up, Cur, Rolling
  <2>6. Disk' = st
    BY <1>1, <2>2, <2>5 DEF Disk
  <2>7. /\ \A i \in Id : IF i \in Range(st.files) THEN Decodes(file'[i], st.image[i])
                         ELSE file'[i] = NoFile
        /\ acked' = [i \in Id |-> IF i \in Range(st.files) THEN Len(st.image[i].exts) ELSE 0]
    <3>1. PICK rs : rs = Recovered
      OBVIOUS
    <3>2. MountSets(rs)
      BY <1>3, <3>1, MountRestores
    <3>3. rs.files = st.files /\ rs.image = st.image
      BY <2>3, <3>1
    <3> QED BY <3>2, <3>3, Zenon DEF MountSets
  <2>9. \A i \in Id : i \in Range(st.files) <=> Named(st.files, i) # {}
    <3>1. DOMAIN st.files = Names
      BY <2>2 DEF Sound, State, NameMap
    <3> QED BY <3>1 DEF Range, Named
  <2>10. ASSUME NEW i \in Id, i \in Range(st.files)
         PROVE  /\ file'[i].synced = Len(st.image[i].exts) /\ Len(st.image[i].exts) \in Nat
                /\ st.image[i].exts = SubSeq(file'[i].exts, 1, Len(st.image[i].exts))
                /\ Len(st.image[i].exts) <= Len(file'[i].exts)
                /\ acked'[i] = Len(st.image[i].exts)
    <3>1. PICK e \in Image : e = st.image[i]
      BY <2>2 DEF Sound, State
    <3>2. Decodes(file'[i], e)
      BY <2>7, <2>10, <3>1
    <3>3. PICK g : /\ g = file'[i] /\ g.synced = Len(e.exts) /\ Len(e.exts) \in Nat
                   /\ e.exts = SubSeq(g.exts, 1, Len(e.exts))
                   /\ Len(e.exts) <= Len(g.exts)
      BY <3>2, RecoverData
    <3>4. acked'[i] = Len(e.exts)
      BY <2>7, <2>10, <3>1
    <3> QED BY <3>1, <3>3, <3>4
  <2>11. Saved'
    <3> SUFFICES ASSUME NEW i \in Id, Named(st.files, i) # {}
                 PROVE  /\ st.image[i].exts = SubSeq(file'[i].exts, 1, Count(i)')
                        /\ acked'[i] <= Count(i)'
      BY <2>6 DEF Saved
    <3>1. i \in Range(st.files)
      BY <2>9
    <3>2. Count(i)' = file'[i].synced
      BY <2>4 DEF Count, Full
    <3> QED BY <2>10, <3>1, <3>2
  <2>12. ASSUME NEW i \in Id
         PROVE  acked'[i] <= Len(file'[i].exts) /\ (i >= nextId' => acked'[i] = 0)
    <3>1. CASE i \in Range(st.files)
      <4>1. PICK n \in Names : st.files[n] = i
        BY <2>9, <3>1 DEF Named
      <4>2. i < st.next /\ st.next \in Nat /\ i \in Nat
        BY <2>2, <4>1, MetaAssumption DEF Sound, State, Id
      <4>3. ~(i >= nextId')
        BY <2>4, <4>2
      <4> QED BY <2>10, <3>1, <4>3
    <3>2. CASE i \notin Range(st.files)
      <4>1. file'[i] = NoFile /\ acked'[i] = 0
        BY <2>7, <3>2
      <4>2. NoFile.exts = <<>> /\ Len(<<>>) = 0 /\ 0 <= 0
        BY DEF NoFile, NewFile
      <4> QED BY <4>1, <4>2
    <3> QED BY <3>1, <3>2
  <2>13. CoverInv'
    BY <2>4, <2>5, <2>12 DEF CoverInv
  <2> QED BY <2>4, <2>11, <2>13 DEF DurInv, SaveInv, CarryInv
<1> QED BY <1>2, <1>3

(* The destructor of a failed mount writes no file.                         *)
LEMMA DeleteZenFSDur ==
  ASSUME TypeInv, CrashInv, DurInv, DeleteZenFS
  PROVE  DurInv'
<1>1. CASE Forget
  BY <1>1, ForgetDur
<1>2. CASE ~Forget
  <2>1. /\ at = "error" /\ at' = "allocate" /\ op.kind = "mount" /\ Room(metaLog) = 0
        /\ op' = [op EXCEPT !.kind = "abort"] /\ op \in OpType
        /\ UNCHANGED <<log, metaLog, oldLog, files, file, nextId, acked>>
    BY <1>2 DEF DeleteZenFS, memoryVars, TypeInv, Types, CallTypes
  <2>2. op'.kind = "abort"
    BY <2>1 DEF OpType
  <2>3. oldLog = None
    BY <2>1, FullIsOld
  <2>4. Cur' = Cur /\ Up
    BY <2>1, <2>3 DEF Cur, Rolling, Up
  <2>5. Disk' = Disk
    BY <2>1, <2>4 DEF Disk
  <2>6. \A i \in Id : Count(i) = file[i].synced /\ Count(i)' = file[i].synced
    BY <2>1 DEF Count, Full
  <2>7. SaveInv'
    BY <2>1, <2>4, <2>5, <2>6 DEF DurInv, SaveInv, Saved
  <2>8. CarryInv'
    BY <2>1 DEF CarryInv
  <2>9. CoverInv'
    BY <2>1, <2>2 DEF DurInv, CoverInv, Creating
  <2> QED BY <2>7, <2>8, <2>9 DEF DurInv
<1> QED BY <1>1, <1>2

(* A step of the device between the first and the last write of a roll.     *)
LEMMA DeviceDur ==
  ASSUME DurInv, Up, UNCHANGED <<file, op, nextId, acked>>,
         at \notin {"synced", "done"}, at' \notin {"synced", "done", "reset", "persist"},
         at' = "snapshot" => rec' = SnapshotRecord(EncodeSnapshotTo(files', file')),
         Disk'.files = Disk.files, Disk'.image = Disk.image
  PROVE  DurInv'
<1>1. Saved
  BY DEF DurInv, SaveInv
<1>2. \A i \in Id : Count(i) = file[i].synced /\ Count(i)' = file[i].synced
  BY DEF Count, Full
<1>3. Saved'
  BY <1>1, <1>2 DEF Saved
<1>4. SaveInv'
  BY <1>3 DEF SaveInv
<1>5. CarryInv'
  BY DEF CarryInv
<1>6. CoverInv'
  BY DEF DurInv, CoverInv, Creating
<1> QED BY <1>4, <1>5, <1>6 DEF DurInv

(* The next zone is emptied; or there is none.                              *)
LEMMA AllocateMetaZoneDur ==
  ASSUME TypeInv, FrameInv, CrashInv, DurInv, AllocateMetaZone
  PROVE  DurInv'
<1>1. /\ at = "allocate" /\ UNCHANGED <<file, op, nextId, acked>> /\ Up
  BY DEF AllocateMetaZone, memoryVars, otherVars, Up
<1>2. Cur = metaLog /\ oldLog = None
  BY <1>1 DEF Cur, CrashInv, LogInv, Rolling
<1>3. log \in [MetaZone -> Seq(Record)] /\ Heads(log, metaLog)
  BY <1>1, <1>2, DiskFacts
<1>4. ASSUME NEW z \in MetaZone \ {metaLog}, Emptied(z), oldLog' = metaLog, at' = "end"
      PROVE  DurInv'
  <2>1. PICK m : m = log' /\ Put(log, m, z, <<>>)
    BY <1>4 DEF Emptied, Put
  <2>2. m[metaLog] = log[metaLog]
    <3>1. Fragment(<<>>)
      BY DEF Fragment
    <3> QED BY <1>3, <1>4, <2>1, <3>1, HeadsOther
  <2>3. Cur' = metaLog
    BY <1>4 DEF Cur, Rolling
  <2>4. Disk' = Disk
    BY <1>2, <2>1, <2>2, <2>3 DEF Disk
  <2> QED BY <1>1, <1>4, <2>4, DeviceDur
<1>5. CASE at' = "error" /\ UNCHANGED <<log, metaLog, oldLog>>
  <2>1. Disk' = Disk
    BY <1>2, <1>5 DEF Disk, Cur, Rolling
  <2> QED BY <1>1, <1>5, <2>1, DeviceDur
<1> QED BY <1>4, <1>5 DEF AllocateMetaZone, Allocatable, deviceVars

(* The old zone is closed.                                                  *)
LEMMA CloseOldZoneDur ==
  ASSUME TypeInv, FrameInv, CrashInv, DurInv, WriteEndRecord \/ FinishOldZone
  PROVE  DurInv'
<1>1. /\ at \in {"end", "finish"} /\ at' \in {"finish", "superblock"} /\ Up
      /\ UNCHANGED <<oldLog, file, op, nextId, acked>>
  BY DEF WriteEndRecord, FinishOldZone, memoryVars, otherVars, Up
<1>2. Cur = oldLog /\ Cur' = oldLog
  BY <1>1 DEF Cur, Rolling
<1>3. log \in [MetaZone -> Seq(Record)] /\ Heads(log, oldLog) /\ Sound(Disk)
  BY <1>1, <1>2, DiskFacts
<1>4. Disk'.files = Disk.files /\ Disk'.image = Disk.image
  <2>1. CASE log' = log
    BY <1>2, <2>1 DEF Disk
  <2>2. CASE AddRecord(oldLog, EndRecord)
    <3>1. PICK st : st = Disk /\ st = Decoded(Tail(log[oldLog]))
      BY <1>2 DEF Disk
    <3>2. PICK r \in Record : r = EndRecord
      BY OtherRecordTypes
    <3>3. Sound(DecodeRecord(st, r))
      BY <1>3, <3>1, <3>2, EndTurns
    <3>4. DecodeRecord(st, r).files = st.files /\ DecodeRecord(st, r).image = st.image
      BY <1>3, <3>1, <3>2, EndData
    <3>5. PICK m : m = log' /\ Grown(log, m, oldLog, r)
      BY <2>2, <3>2 DEF AddRecord, Grown
    <3>6. Decoded(Tail(m[oldLog])) = DecodeRecord(Decoded(Tail(log[oldLog])), r)
      <4>1. Sound(DecodeRecord(Decoded(Tail(log[oldLog])), r))
        BY <3>1, <3>3
      <4> QED BY <1>3, <3>5, <4>1, HeadsAppend
    <3>7. Disk' = DecodeRecord(st, r)
      BY <1>2, <3>1, <3>5, <3>6 DEF Disk
    <3> QED BY <3>1, <3>4, <3>7
  <2> QED BY <2>1, <2>2 DEF WriteEndRecord, FinishOldZone
<1> QED BY <1>1, <1>4, DeviceDur

(* The superblock and the snapshot of a roll, up to its write.              *)
LEMMA OpenNewZoneDur ==
  ASSUME TypeInv, FrameInv, CrashInv, DurInv, WriteSuperblock \/ EncodeSnapshot
  PROVE  DurInv'
<1>1. /\ at \in {"superblock", "encode"} /\ at' \in {"encode", "snapshot", "error"} /\ Up
      /\ UNCHANGED <<oldLog, metaLog, files, file, op, nextId, acked>>
  BY DEF WriteSuperblock, EncodeSnapshot, memoryVars, otherVars, Up
<1>2. /\ Cur = oldLog /\ oldLog # metaLog /\ oldLog # None
      /\ at = "superblock" => log[metaLog] = <<>> /\ metaLog \in MetaZone
  BY <1>1 DEF Cur, Rolling, TypeInv, Where, MetaZone, None
<1>3. Cur' = oldLog
  BY <1>1, <1>2 DEF Cur, Rolling
<1>4. log'[oldLog] = log[oldLog]
  <2>1. CASE log' = log
    BY <2>1
  <2>2. CASE at = "superblock" /\ AddRecord(metaLog, SuperblockRecord(seq'))
    <3>1. log \in [MetaZone -> Seq(Record)] /\ oldLog \in MetaZone
      BY <1>1, <1>2, DiskFacts
    <3> QED BY <1>2, <2>2, <3>1 DEF AddRecord
  <2> QED BY <2>1, <2>2 DEF WriteSuperblock, EncodeSnapshot, deviceVars
<1>5. Disk' = Disk
  BY <1>2, <1>3, <1>4 DEF Disk
<1>6. at' = "snapshot" => rec' = SnapshotRecord(EncodeSnapshotTo(files', file'))
  BY <1>1 DEF WriteSuperblock, EncodeSnapshot
<1> QED BY <1>1, <1>5, <1>6, DeviceDur

(* The snapshot has all extents of every named file.                        *)
LEMMA WriteSnapshotDur ==
  ASSUME TypeInv, TypeInv', FrameInv, CrashInv, DurInv, WriteSnapshot
  PROVE  DurInv'
<1>1. /\ at = "snapshot" /\ Up /\ rec \in Record /\ files \in NameMap /\ Files(file)
      /\ UNCHANGED <<metaLog, oldLog, files, file, nextId, op, acked>>
  BY DEF WriteSnapshot, memoryVars, otherVars, Up, TypeInv, Types, CallTypes, MemoryTypes
<1>2. /\ Cur = oldLog /\ oldLog # metaLog /\ oldLog # None
  BY <1>1 DEF Cur, Rolling, TypeInv, Where, MetaZone, None
<1>3. CASE at' = "error" /\ log' = log
  <2>1. Disk' = Disk
    BY <1>1, <1>2, <1>3 DEF Disk, Cur, Rolling
  <2> QED BY <1>1, <1>3, <2>1, DeviceDur
<1>4. CASE at' = "synced" /\ AddRecord(metaLog, rec)
  <2>1. /\ metaLog \in MetaZone /\ Len(log[metaLog]) = 1
        /\ log[metaLog][1] = SuperblockRecord(seq) /\ log[oldLog][1].seq < seq /\ seq \in Nat
    BY <1>1 DEF TypeInv, Where, CrashInv, LogInv, Types, ZoneTypes
  <2>2. log \in [MetaZone -> Seq(Record)] /\ Heads(log, oldLog)
    BY <1>1, <1>2, DiskFacts
  <2>3. PICK q \in Supers : q = log[metaLog][1] /\ q.seq = seq
    BY <2>1 DEF SuperblockRecord, Supers
  <2>4. DecodeRecord(Blank, rec).files = files
    BY <1>1, SnapshotRestores DEF CrashInv, AgreeInv
  <2>5. PICK m : m = log' /\ Grown(log, m, metaLog, rec)
    BY <1>4 DEF AddRecord, Grown
  <2>6. Decoded(Tail(m[metaLog])) = DecodeRecord(Blank, rec)
    <3>1. PICK l, c, z, r : /\ l = log /\ c = oldLog /\ z = metaLog /\ r = rec
                            /\ l \in [MetaZone -> Seq(Record)] /\ r \in Record
      BY <1>1, <2>2
    <3>2. /\ Heads(l, c) /\ z \in MetaZone /\ z # c /\ Len(l[z]) = 1 /\ l[z][1] \in Supers
          /\ l[c][1].seq < l[z][1].seq /\ Grown(l, m, z, r)
      BY <1>2, <2>1, <2>2, <2>3, <2>5, <3>1
    <3>3. /\ m[z][1] = l[z][1] /\ Decoded(Tail(m[z])) = DecodeRecord(Blank, r)
          /\ Sound(DecodeRecord(Blank, r)) => Heads(m, z)
      BY <3>1, <3>2, HeadsNew
    <3> QED BY <3>1, <3>3
  <2>7. Disk' = DecodeRecord(Blank, rec)
    BY <1>1, <1>4, <2>5, <2>6 DEF Disk, Cur, Rolling
  <2>8. Saved'
    <3> SUFFICES ASSUME NEW i \in Id, Named(Disk'.files, i) # {}
                 PROVE  /\ Disk'.image[i].exts = SubSeq(file'[i].exts, 1, Count(i)')
                        /\ acked'[i] <= Count(i)'
      BY DEF Saved
    <3>1. Named(files, i) # {}
      BY <2>4, <2>7
    <3>2. rec = SnapshotRecord(EncodeSnapshotTo(files, file))
      BY <1>1 DEF DurInv, CarryInv
    <3>3. DecodeRecord(Blank, rec).image[i].exts = SubSeq(file[i].exts, 1, Len(file[i].exts))
      BY <1>1, <3>1, <3>2, SnapshotData
    <3>4. Count(i)' = Len(file[i].exts)
      BY <1>1, <1>4 DEF Count, Full
    <3> QED BY <1>1, <2>7, <3>3, <3>4 DEF DurInv, CoverInv
  <2>9. CoverInv'
    BY <1>1 DEF DurInv, CoverInv, Creating
  <2> QED BY <1>4, <2>8, <2>9 DEF DurInv, SaveInv, CarryInv
<1> QED BY <1>3, <1>4 DEF WriteSnapshot

(* The files of the snapshot are marked synced, which the log has already.  *)
LEMMA SnapshotSyncedDur ==
  ASSUME Safe, TypeInv, FrameInv, CrashInv, DurInv, SnapshotSynced
  PROVE  DurInv'
<1>1. /\ at = "synced" /\ at' = "reset" /\ Up /\ Files(file) /\ files \in NameMap
      /\ file' = MetadataSynced(file, Range(files))
      /\ UNCHANGED <<log, metaLog, oldLog, nextId, op, acked>>
  BY DEF SnapshotSynced, deviceVars, otherVars, Up, TypeInv, Types, MemoryTypes
<1>2. Disk' = Disk
  BY <1>1 DEF Disk, Cur, Rolling
<1>3. Disk.files = files
  <2>1. op.kind # "none"
    BY <1>1 DEF FrameInv, OpInv
  <2>2. ~Creating
    BY <1>1, RollMounts DEF RollAts
  <2> QED BY <1>1, <2>1, <2>2 DEF CrashInv, AgreeInv, CallInv, Settled
<1>4. PICK g : g = file'
  OBVIOUS
<1>5. PICK ids : ids = Range(files)
  OBVIOUS
<1>6. \A i \in Id : /\ g[i].exts = file[i].exts
                    /\ g[i].synced = IF i \in ids THEN Len(file[i].exts) ELSE file[i].synced
  BY <1>1, <1>4, <1>5, SyncedData
<1>7. \A i \in Id : Named(Disk.files, i) # {} => i \in ids
  <2>1. DOMAIN files = Names
    BY <1>1 DEF NameMap
  <2> QED BY <1>3, <1>5, <2>1 DEF Named, Range
<1>8. Saved /\ CoverInv
  BY <1>1 DEF DurInv, SaveInv
<1>9. \A i \in Id : Count(i) = Len(file[i].exts) /\ Count(i)' = g[i].synced
  BY <1>1, <1>4 DEF Count, Full
<1>10. Saved'
  BY <1>1, <1>2, <1>4, <1>6, <1>7, <1>8, <1>9 DEF Saved
<1>11. \A i \in Id : Named(Disk'.files, i) # {} => file'[i].synced = Len(file'[i].exts)
  BY <1>2, <1>4, <1>6, <1>7
<1>12. SaveInv' /\ CarryInv'
  BY <1>1, <1>10, <1>11 DEF SaveInv, CarryInv
<1>13. CoverInv'
  <2>1. op.kind \in {"sync", "close"} => op.id \in Id
    BY DEF TypeInv, Valid
  <2>2. Creating => op.id \in Id
    BY DEF Creating, TypeInv, Valid
  <2> QED BY <1>1, <1>4, <1>6, <1>8, <2>1, <2>2 DEF CoverInv, Creating
<1> QED BY <1>12, <1>13 DEF DurInv

(* The old zone is emptied, or stays behind with an older superblock.       *)
LEMMA ResetOldZoneDur ==
  ASSUME TypeInv, FrameInv, CrashInv, DurInv, ResetOldZone
  PROVE  DurInv'
<1>1. /\ at = "reset" /\ at' = "done" /\ Up /\ oldLog \in MetaZone /\ oldLog # metaLog
      /\ UNCHANGED <<metaLog, file, nextId, op, acked>>
  BY DEF ResetOldZone, memoryVars, otherVars, Up, TypeInv, Where
<1>2. Cur' = metaLog /\ Cur = metaLog
  BY <1>1 DEF Cur, Rolling
<1>3. log \in [MetaZone -> Seq(Record)] /\ Heads(log, metaLog)
  BY <1>1, <1>2, DiskFacts
<1>4. log'[metaLog] = log[metaLog]
  <2>1. CASE log' = log
    BY <2>1
  <2>2. CASE Emptied(oldLog)
    <3>1. PICK m : m = log' /\ Put(log, m, oldLog, <<>>)
      BY <2>2 DEF Emptied, Put
    <3>2. Fragment(<<>>)
      BY DEF Fragment
    <3> QED BY <1>1, <1>3, <3>1, <3>2, HeadsOther
  <2> QED BY <2>1, <2>2 DEF ResetOldZone, deviceVars
<1>5. Disk' = Disk
  BY <1>2, <1>4 DEF Disk
<1>6. ASSUME NEW i \in Id, Named(Disk.files, i) # {}
      PROVE  Count(i) = file[i].synced /\ Count(i)' = file[i].synced
  <2>1. file[i].synced = Len(file[i].exts)
    BY <1>1, <1>6 DEF DurInv, SaveInv
  <2> QED BY <1>1, <2>1 DEF Count, Full
<1>7. Saved
  BY <1>1 DEF DurInv, SaveInv
<1>8. Saved'
  BY <1>1, <1>5, <1>6, <1>7 DEF Saved
<1>9. CoverInv'
  BY <1>1 DEF DurInv, CoverInv, Creating
<1> QED BY <1>1, <1>8, <1>9 DEF DurInv, SaveInv, CarryInv

(* The record of a call on a file has the extents that the log lacks.       *)
LEMMA UpdateSaves ==
  ASSUME NEW f, Files(f), NEW i \in Id, NEW old,
         \/ old = SubSeq(f[i].exts, 1, f[i].synced)
         \/ old = <<>> /\ f[i].exts = <<>>,
         NEW new, \/ new = old \o EncodeUpdateTo(f, i).exts
                  \/ f[i].exts = <<>> /\ new = EncodeUpdateTo(f, i).exts
  PROVE  new = SubSeq(f[i].exts, 1, Len(f[i].exts))
<1>1. PICK e \in Seq(Nat) : e = f[i].exts
  BY DEF Files, FileType
<1>2. PICK k \in Nat : k = f[i].synced /\ k <= Len(e)
  BY <1>1 DEF Files, FileType
<1>3. PICK V : V = Nat
  OBVIOUS
<1>4. e \in Seq(V)
  BY <1>1, <1>3
<1>5. /\ SubSeq(e, 1, k) \o SubSeq(e, k + 1, Len(e)) = SubSeq(e, 1, Len(e))
      /\ SubSeq(e, 1, Len(e)) = e
  BY <1>2, <1>4, PartFacts
<1>6. EncodeUpdateTo(f, i).exts = SubSeq(e, k + 1, Len(e))
  BY <1>1, <1>2 DEF EncodeUpdateTo, Encode
<1>7. CASE e = <<>>
  <2>1. Len(e) = 0 /\ k = 0 /\ 0 + 1 = 1
    BY <1>2, <1>7
  <2>2. SubSeq(e, k + 1, Len(e)) = <<>> /\ SubSeq(e, 1, k) = <<>>
    BY <1>5, <1>7, <2>1
  <2>3. <<>> \o <<>> = <<>>
    OBVIOUS
  <2> QED BY <1>1, <1>2, <1>5, <1>6, <1>7, <2>2, <2>3
<1>8. CASE e # <<>>
  BY <1>1, <1>2, <1>5, <1>6, <1>8
<1> QED BY <1>7, <1>8

(* What a record that is written adds to the log.                           *)
LEMMA WrittenData ==
  ASSUME TypeInv, FrameInv, CrashInv, AloneInv, DurInv, at = "persist",
         NEW st, st = DecodeRecord(Disk, rec), NEW i \in Id, Named(After, i) # {}
  PROVE  /\ ~(Writing /\ i = op.id) => SameImage(Disk, st, i)
         /\ Writing /\ i = op.id => st.image[i].exts = SubSeq(file[i].exts, 1, Len(file[i].exts))
<1>1. /\ Up /\ rec \in Record /\ op.kind \notin {"none", "mount", "abort", "reopen", "replace"}
      /\ op.kind \in Kinds /\ Files(file)
  BY DEF Up, TypeInv, Types, CallTypes, OpType, MemoryTypes, FrameInv, OpInv, AloneInv
<1>2. /\ ~Disk.ended /\ Disk.files = Before /\ Turns(rec, Before, After)
  BY <1>1 DEF Cur, CrashInv, LogInv, AgreeInv, Rolling, Settled
<1>3. Sound(Disk) /\ After \in NameMap
  BY <1>1, DiskFacts
<1>4. Carries
  BY DEF DurInv, CarryInv
<1>5. PICK d, r, after : d = Disk /\ r = rec /\ after = After
  OBVIOUS
<1>6. /\ Sound(d) /\ ~d.ended /\ r \in Record /\ after \in NameMap /\ Turns(r, d.files, after)
      /\ Named(after, i) # {}
  BY <1>1, <1>2, <1>3, <1>5
<1>7. CASE op.deleting \/ op.kind = "unmount"
  <2>1. r.tag \in {"delete", "resets"} /\ ~Writing
    BY <1>4, <1>5, <1>7 DEF Carries, Writing
  <2>2. SameImage(d, DecodeRecord(d, r), i)
    BY <1>6, <2>1, OtherRecordData
  <2> QED BY <1>5, <2>1, <2>2
<1>8. CASE ~op.deleting /\ op.kind # "unmount"
  <2>1. /\ op.kind # "delete" /\ Writing
    BY <1>1, <1>8 DEF CrashInv, CallInv, Kinds, Writing
  <2>2. PICK j \in Id : j = op.id
    BY <2>1 DEF Writing, TypeInv, Valid
  <2>3. /\ r = UpdateRecord(file, j) /\ r.tag = "update" /\ r.file = EncodeUpdateTo(file, j)
        /\ r.file.id = j
    BY <1>1, <1>4, <1>5, <1>8, <2>2, RecordTypes DEF Carries, Files
  <2>4. Updates(d, DecodeRecord(d, r), r.file, i)
    BY <1>6, <2>3, UpdateData
  <2>5. CASE i # j
    BY <1>5, <2>2, <2>3, <2>4, <2>5 DEF Updates
  <2>6. CASE i = j /\ Named(d.files, i) # {}
    <3>1. d.image[i].exts = SubSeq(file[i].exts, 1, file[i].synced)
      <4>1. Count(i) = file[i].synced
        BY DEF Count, Full
      <4> QED BY <1>1, <1>5, <2>6, <4>1 DEF DurInv, SaveInv, Saved
    <3>2. DecodeRecord(d, r).image[i].exts = d.image[i].exts \o EncodeUpdateTo(file, i).exts
      BY <2>3, <2>4, <2>6 DEF Updates
    <3>3. DecodeRecord(d, r).image[i].exts = SubSeq(file[i].exts, 1, Len(file[i].exts))
      BY <1>1, <3>1, <3>2, UpdateSaves
    <3> QED BY <1>5, <2>1, <2>2, <2>6, <3>3
  <2>7. CASE i = j /\ Named(d.files, i) = {}
    <3>1. d.files = op.mid
      BY <1>2, <1>5, <1>8 DEF Before
    <3>2. op.kind \notin {"sync", "close", "link"}
      BY <2>2, <2>7, <3>1 DEF CrashInv, CallInv
    <3>3. op.kind # "rename"
      <4>1. ASSUME op.kind = "rename" PROVE FALSE
        <5>1. op.src # op.name /\ op.mid[op.src] = op.id /\ op.src \in Names
          BY <1>8, <4>1 DEF CrashInv, CallInv, Moves, TypeInv, Valid
        <5> QED BY <2>2, <2>7, <3>1, <5>1 DEF Named
      <4> QED BY <4>1
    <3>4. Creating /\ file[i].exts = <<>>
      BY <2>1, <2>2, <2>7, <3>2, <3>3 DEF Writing, Creating, DurInv, CoverInv
    <3>5. DecodeRecord(d, r).image[i].exts = EncodeUpdateTo(file, i).exts
      BY <2>3, <2>4, <2>7 DEF Updates
    <3>6. PICK old : old = <<>>
      OBVIOUS
    <3>7. DecodeRecord(d, r).image[i].exts = SubSeq(file[i].exts, 1, Len(file[i].exts))
      BY <1>1, <3>4, <3>5, <3>6, UpdateSaves
    <3> QED BY <1>5, <2>1, <2>2, <2>7, <3>7
  <2> QED BY <2>5, <2>6, <2>7
<1> QED BY <1>7, <1>8

(* The record of a call, written or not.                                    *)
LEMMA PersistRecordDur ==
  ASSUME TypeInv, TypeInv', FrameInv, CrashInv, AloneInv, DurInv, PersistRecord
  PROVE  DurInv'
<1>1. /\ at = "persist" /\ UNCHANGED <<metaLog, oldLog, files, file, nextId, op, acked>>
      /\ Up /\ rec \in Record
  BY DEF PersistRecord, memoryVars, otherVars, Up, TypeInv, Types, CallTypes
<1>2. /\ oldLog = None /\ Cur = metaLog /\ ~Disk.ended
      /\ Disk.files = Before /\ Turns(rec, Before, After)
  BY <1>1 DEF Cur, CrashInv, LogInv, AgreeInv, Rolling, Settled, FrameInv, OpInv
<1>3. /\ log \in [MetaZone -> Seq(Record)] /\ Heads(log, metaLog)
      /\ Sound(Disk) /\ After \in NameMap
  BY <1>1, <1>2, DiskFacts
<1>4. CASE AddRecord(metaLog, rec) /\ at' = "done"
  <2>1. PICK st : st = Disk /\ st = Decoded(Tail(log[metaLog]))
    BY <1>2 DEF Disk
  <2>2. PICK after : after = After
    OBVIOUS
  <2>3. Sound(DecodeRecord(st, rec)) /\ DecodeRecord(st, rec).files = after
    BY <1>1, <1>2, <1>3, <2>1, <2>2, RecordTurns
  <2>4. PICK m : m = log' /\ Grown(log, m, metaLog, rec)
    BY <1>4 DEF AddRecord, Grown
  <2>5. Decoded(Tail(m[metaLog])) = DecodeRecord(Decoded(Tail(log[metaLog])), rec)
    <3>1. Sound(DecodeRecord(Decoded(Tail(log[metaLog])), rec))
      BY <2>1, <2>3
    <3> QED BY <1>1, <1>3, <2>4, <3>1, HeadsAppend
  <2>6. PICK s : s = Disk' /\ s = DecodeRecord(Disk, rec)
    <3>1. Cur' = metaLog
      BY <1>1, <1>4 DEF Cur, Rolling
    <3> QED BY <1>1, <2>1, <2>4, <2>5, <3>1 DEF Disk
  <2>7. Saved /\ CoverInv
    BY <1>1 DEF DurInv, SaveInv
  <2>8. Writing' <=> Writing
    BY <1>1 DEF Writing
  <2>9. ASSUME NEW i \in Id, Named(s.files, i) # {}
        PROVE  s.image[i].exts = SubSeq(file[i].exts, 1, Count(i)') /\ acked[i] <= Count(i)'
    <3>1. Named(After, i) # {}
      BY <2>1, <2>2, <2>3, <2>6, <2>9
    <3>2. /\ ~(Writing /\ i = op.id) => SameImage(Disk, s, i)
          /\ Writing /\ i = op.id => s.image[i].exts = SubSeq(file[i].exts, 1, Len(file[i].exts))
      BY <1>1, <2>6, <3>1, WrittenData
    <3>3. CASE Writing /\ i = op.id
      <4>1. Count(i)' = Len(file[i].exts)
        BY <1>1, <1>4, <2>8, <3>3 DEF Count, Full
      <4> QED BY <2>7, <3>2, <3>3, <4>1 DEF CoverInv
    <3>4. CASE ~(Writing /\ i = op.id)
      <4>1. Count(i)' = file[i].synced /\ Count(i) = file[i].synced
        BY <1>1, <1>4, <2>8, <3>4 DEF Count, Full
      <4> QED BY <2>7, <3>2, <3>4, <4>1 DEF Saved, SameImage
    <3> QED BY <3>3, <3>4
  <2>10. Saved'
    BY <1>1, <2>6, <2>9 DEF Saved
  <2>11. CoverInv'
    BY <1>1, <2>7 DEF CoverInv, Creating
  <2> QED BY <1>4, <2>10, <2>11 DEF DurInv, SaveInv, CarryInv
<1>5. CASE log' = log /\ at' \in {"allocate", "error"}
  <2>1. Disk' = Disk
    BY <1>1, <1>2, <1>5 DEF Disk, Cur, Rolling
  <2> QED BY <1>1, <1>5, <2>1, DeviceDur
<1> QED BY <1>4, <1>5 DEF PersistRecord

(* MkFS has written a snapshot of the first files.                          *)
LEMMA InitDur ==
  ASSUME Init
  PROVE  DurInv
<1>1. /\ at = "idle" /\ op = NoOp /\ op.kind = "none" /\ metaLog = 1 /\ oldLog = None
  <2>1. at = "idle" /\ op = NoOp /\ metaLog = 1 /\ oldLog = None
    BY Zenon DEF Init
  <2> QED BY <2>1, NoOpTypes
<1>2. TypeInv /\ CrashInv
  BY InitTypes, InitCrash
<1>3. /\ Files(file) /\ files \in NameMap /\ log \in [MetaZone -> Seq(Record)]
      /\ MaxFileId \in Nat /\ 1 \in MetaZone
  BY <1>2, MetaAssumption DEF TypeInv, Types, MemoryTypes, DeviceTypes, MetaZone
<1>4. PICK r \in Record : r = SnapshotRecord(EncodeSnapshotTo(files, file))
  BY <1>3, SnapshotRecordTypes DEF Files
<1>5. PICK q \in Supers : q = SuperblockRecord(1)
  BY OtherRecordTypes
<1>6. log = [z \in MetaZone |-> IF z = 1 THEN <<q, r>> ELSE <<>>]
  BY <1>4, <1>5 DEF Init
<1>7. Decoded(Tail(<<q, r>>)) = DecodeRecord(Blank, r)
  <2>1. PICK a \in Record : a = q
    BY DEF Record
  <2>2. PICK s \in Seq(Record) : s = <<a>> /\ s # <<>> /\ Tail(s) = <<>>
    <3>1. <<a>> \in Seq(Record) /\ <<a>> # <<>>
      OBVIOUS
    <3>2. Tail(<<a>>) = <<>>
      OBVIOUS
    <3> QED BY <3>1, <3>2
  <2>3. Append(<<a>>, r) = <<a, r>>
    BY PairIsAppend
  <2>4. Decoded(Tail(Append(s, r))) = DecodeRecord(Decoded(Tail(s)), r)
    BY <2>2, DecodedTail
  <2> QED BY <2>1, <2>2, <2>3, <2>4, DecodedEmpty
<1>8. Disk = DecodeRecord(Blank, r)
  <2>1. Cur = 1 /\ log[1] = <<q, r>>
    BY <1>1, <1>3, <1>6 DEF Cur, Rolling
  <2> QED BY <1>7, <2>1 DEF Disk
<1>9. Disk.files = files
  BY <1>1, <1>2 DEF CrashInv, AgreeInv, Settled, Up
<1>10. acked = [i \in Id |-> Len(file[i].exts)]
  BY Zenon DEF Init
<1>11. PICK s \in Seq(Existing) : /\ Len(s) \in 0..MaxFileId /\ nextId = Len(s) + 1
              /\ file = [i \in Id |-> IF i <= Len(s) THEN Born(s[i]) ELSE NoFile]
  BY InitFacts
<1>12. ASSUME NEW i \in Id
       PROVE  file[i].synced = Len(file[i].exts) /\ (i >= nextId => file[i].exts = <<>>)
  <2>1. PICK n \in Nat, k \in Nat : n = Len(s) /\ k = i
    BY <1>3, <1>11 DEF Id
  <2>2. CASE k <= n
    <3>1. file[i] = Born(s[i]) /\ ~(i >= nextId)
      BY <1>11, <2>1, <2>2
    <3>2. Born(s[i]).exts = <<1>> /\ Born(s[i]).synced = 1
      BY DEF Born, NewFile
    <3>3. Len(<<1>>) = 1
      OBVIOUS
    <3> QED BY <3>1, <3>2, <3>3
  <2>3. CASE ~(k <= n)
    <3>1. file[i] = NoFile
      BY <1>11, <2>1, <2>3
    <3>2. NoFile.exts = <<>> /\ NoFile.synced = 0 /\ Len(<<>>) = 0
      BY DEF NoFile, NewFile
    <3> QED BY <3>1, <3>2
  <2> QED BY <2>2, <2>3
<1>13. \A i \in Id : acked[i] = Len(file[i].exts) /\ acked[i] \in Nat
  BY <1>2, <1>10, CountTypesHold
<1>14. CoverInv
  <2>1. \A i \in Id : acked[i] <= Len(file[i].exts)
    BY <1>13
  <2>2. \A i \in Id : i >= nextId => acked[i] = 0
    <3>1. Len(<<>>) = 0
      OBVIOUS
    <3> QED BY <1>12, <1>13, <3>1
  <2> QED BY <1>1, <2>1, <2>2 DEF CoverInv, Creating
<1>15. Saved
  <2> SUFFICES ASSUME NEW i \in Id, Named(Disk.files, i) # {}
               PROVE  /\ Disk.image[i].exts = SubSeq(file[i].exts, 1, Count(i))
                      /\ acked[i] <= Count(i)
    BY DEF Saved
  <2>1. Count(i) = Len(file[i].exts)
    BY <1>1, <1>12 DEF Count, Full
  <2>2. DecodeRecord(Blank, r).image[i].exts = SubSeq(file[i].exts, 1, Len(file[i].exts))
    BY <1>3, <1>4, <1>9, SnapshotData
  <2> QED BY <1>8, <1>14, <2>1, <2>2 DEF CoverInv
<1> QED BY <1>1, <1>14, <1>15 DEF DurInv, SaveInv, CarryInv

(* Every step of a roll keeps DurInv.                                       *)
LEMMA RollDur ==
  ASSUME Safe, TypeInv, TypeInv', FrameInv, CrashInv, DurInv, Roll
  PROVE  DurInv'
BY AllocateMetaZoneDur, CloseOldZoneDur, OpenNewZoneDur, WriteSnapshotDur, SnapshotSyncedDur,
   ResetOldZoneDur DEF Roll

(* The log has the first extents of every file, at least the synced ones,   *)
(* at every step.                                                           *)
LEMMA DurInvariant ==
  ASSUME Safe, Solo
  PROVE  Spec => []DurInv
<1>1. TypeInv /\ TypeInv' /\ FrameInv /\ CrashInv /\ AloneInv /\ DurInv /\ [Next]_vars => DurInv'
  <2> SUFFICES ASSUME TypeInv, TypeInv', FrameInv, CrashInv, AloneInv, DurInv, [Next]_vars
               PROVE  DurInv'
    OBVIOUS
  <2>1. CASE UNCHANGED vars
    <3>1. UNCHANGED <<log, metaLog, oldLog, seq, at, op, rec, files, nextId, file, acked>>
      BY <2>1 DEF vars, deviceVars, memoryVars
    <3>2. Disk' = Disk /\ \A i \in Id : Count(i)' = Count(i)
      BY <3>1 DEF Disk, Cur, Count, Full, Writing
    <3>3. SaveInv'
      BY <3>1, <3>2 DEF DurInv, SaveInv, Saved, Up
    <3>4. CarryInv'
      BY <3>1 DEF DurInv, CarryInv, Carries
    <3>5. CoverInv'
      BY <3>1 DEF DurInv, CoverInv, Creating
    <3> QED BY <3>3, <3>4, <3>5 DEF DurInv
  <2>2. CASE Step
    BY <2>2, PersistRecordDur, RollDur, SimpleReturnDur, DeletedDur, PersistedDur, RollBackDur,
       ForgetDur, DeleteZenFSDur, MountDur DEF Step, Shutdown
  <2>3. CASE \E t \in Threads : Call(t)
    BY <2>3, ClientDur
  <2>4. CASE Crash
    BY <2>4, ForgetDur DEF Crash
  <2> QED BY <2>1, <2>2, <2>3, <2>4 DEF Next
<1>2. Init => DurInv
  BY InitDur
<1>3. (Spec => []CrashInv) /\ (Spec => []AloneInv)
  BY CrashInvariant, AloneInvariant
<1> QED BY <1>1, <1>2, <1>3, TypesInvariant, FrameInvariant, PTL DEF Spec

(* Wherever a crash comes, every named file comes back with a prefix of its *)
(* extents that has all those a returned Fsync or Close covered, although   *)
(* records hold only the extents since the last one and a roll of the log   *)
(* rewrites them all (ZoneFile::EncodeUpdateTo, MetadataSynced, MergeUpdate, *)
(* ZenFS::RollMetaZoneLocked), when one thread calls ZenFS and no file is   *)
(* migrated.                                                                *)
THEOREM ExtentsAreDurable ==
  ASSUME Safe, Solo
  PROVE  Spec => []ExtentsDurable
<1>1. TypeInv /\ CrashInv /\ DurInv => ExtentsDurable
  <2> SUFFICES ASSUME TypeInv, CrashInv, DurInv, Up,
                      NEW i \in Id \cap Range(files) \cap Range(Recovered.files)
               PROVE  /\ IsPrefix(Recovered.image[i].exts, file[i].exts)
                      /\ Len(Recovered.image[i].exts) >= acked[i]
    BY DEF ExtentsDurable
  <2>1. log \in [MetaZone -> Seq(Record)] /\ Leads(Cur) /\ Sound(Disk)
    BY DiskFacts, HeadsLeads
  <2>2. Recovered.files = Disk.files /\ Recovered.image = Disk.image
    BY <2>1, LeaderIsRecovered DEF Disk
  <2>3. Named(Disk.files, i) # {}
    <3>1. DOMAIN Disk.files = Names
      BY <2>1 DEF Sound, State, NameMap
    <3> QED BY <2>2, <3>1 DEF Range, Named
  <2>4. PICK e \in Seq(Nat), k \in Nat, n \in Nat :
          e = file[i].exts /\ k = Count(i) /\ k <= Len(e) /\ n = acked[i]
    BY CountTypesHold
  <2>5. Disk.image[i].exts = SubSeq(e, 1, k) /\ n <= k
    BY <2>3, <2>4 DEF DurInv, SaveInv, Saved
  <2>6. Len(SubSeq(e, 1, k)) = k /\ IsPrefix(SubSeq(e, 1, k), e)
    <3>1. PICK V : V = Nat
      OBVIOUS
    <3> QED BY <2>4, <3>1, PartFacts
  <2> QED BY <2>2, <2>4, <2>5, <2>6
<1>2. Spec => []CrashInv
  BY CrashInvariant
<1>3. Spec => []DurInv
  BY DurInvariant
<1> QED BY <1>1, <1>2, <1>3, TypesInvariant, PTL
=============================================================================
