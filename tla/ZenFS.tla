-------------------------------- MODULE ZenFS --------------------------------
(***************************************************************************)
(* The metadata of ZenFS: the name space files_, the rolling log in the    *)
(* metadata zones (ZenMetaLog, Superblock), and the recovery of the one    *)
(* from the other (fs/fs_zenfs.{h,cc}, with the encoding of ZoneFile in    *)
(* fs/io_zenfs.{h,cc}).                                                    *)
(*                                                                         *)
(* A call holds files_mtx_ from its first to its last step; between two    *)
(* steps lies a write to the device, so that a crash can come between any  *)
(* two records, and so can the PushExtent of a thread that writes a file,  *)
(* which takes no lock.  A record fills one block of a metadata zone.      *)
(***************************************************************************)
EXTENDS Integers, Sequences, FiniteSets, SequencesExt

CONSTANTS
  Names,        \* file names
  Existing,     \* the names in the file system when it is first mounted
  Threads,      \* the threads that call ZenFS
  NrMetaZones,  \* ZENFS_META_ZONES
  MetaCap,      \* records that fit in a metadata zone
  Ops,          \* the calls that clients make
  Faults,       \* the device errors that may happen: "write" of a record,
                \* "roll" of a new zone's superblock or snapshot, "reset",
                \* "repair" of a file in a mount
  Torn,         \* whether a crash can cut a snapshot record short
  MaxFileId,    \* bound: files created
  MaxExtents,   \* bound: extents of a file
  MaxCalls,     \* bound: calls of all threads together
  MaxCrashes    \* bound: crashes and failed mounts

NoThread == "nobody"   \* who holds no lock

AllOps == {"create", "reopen", "delete", "rename", "link", "sync", "close",
           "migrate", "unmount"}

ASSUME MetaAssumption ==
  /\ NrMetaZones \in Nat /\ NrMetaZones >= 2
  /\ MetaCap \in Nat /\ MetaCap >= 2
  /\ IsFiniteSet(Names) /\ Existing \subseteq Names
  /\ Ops \subseteq AllOps /\ NoThread \notin Threads
  /\ Faults \subseteq {"write", "roll", "reset", "repair"}
  /\ Torn \in BOOLEAN
  /\ MaxFileId \in Nat /\ Cardinality(Existing) <= MaxFileId
  /\ MaxExtents \in Nat \ {0} /\ MaxCalls \in Nat /\ MaxCrashes \in Nat

MetaZone == 1..NrMetaZones
Id       == 1..MaxFileId
None     == 0      \* no file, no zone

VARIABLES
  log,      \* the records in each metadata zone
  finished, \* the metadata zones closed by Zone::Finish
  metaLog,  \* the zone of meta_log_
  oldLog,   \* the zone of old_meta_log, from a roll to the end of its call
  seq,      \* superblock_->sequence_
  files,    \* files_: the file a name stands for
  file,     \* the ZoneFile objects
  nextId,   \* next_file_id_
  at,       \* how far the call that holds files_mtx_ has come
  op,       \* that call
  rec,      \* the record it persists, or the snapshot a roll has encoded
  acked,    \* extents of each file that a returned Fsync or Close covered
  calls,    \* calls made so far
  crashes   \* crashes and failed mounts so far

deviceVars == <<log, finished>>
memoryVars == <<files, file, nextId>>
vars == <<deviceVars, metaLog, oldLog, seq, memoryVars, at, op, rec, acked, calls,
          crashes>>

-----------------------------------------------------------------------------
(* Records                                                                  *)

(* extents_ holds the parts of the file in order; where the data lies is    *)
(* ZonedBlockDevice's affair.  active is HasActiveExtent(): extent_start_   *)
(* tells where the file is being written.                                   *)
NewFile(links) == [exts |-> <<>>, synced |-> 0, active |-> FALSE, links |-> links,
                   deleted |-> FALSE, wr |-> NoThread, moved |-> FALSE]
NoFile == NewFile(<<>>)

(* ZoneFile::EncodeTo, from the extent after the first n.                   *)
Encode(f, i, n) ==
  [id |-> i, exts |-> SubSeq(f[i].exts, n + 1, Len(f[i].exts)), active |-> f[i].active,
   links |-> f[i].links]

EncodeUpdateSkipsOne(f, i) == Encode(f, i, f[i].synced + 1)

EncodeUpdateTo(f, i) == Encode(f, i, f[i].synced)

UpdateRecord(f, i)  == [tag |-> "update", file |-> EncodeUpdateTo(f, i)]
ReplaceRecord(f, i) == [tag |-> "replace", file |-> EncodeUpdateTo(f, i)]
DeletionRecord(i, n) == [tag |-> "delete", id |-> i, name |-> n]
SuperblockRecord(s) == [tag |-> "super", seq |-> s]
SnapshotRecord(images) == [tag |-> "snapshot", files |-> images]
EndRecord == [tag |-> "end"]
ResetCountRecord == [tag |-> "resets"]
TornRecord == [tag |-> "torn"]

(* ZenFS::EncodeSnapshotTo: every file that has a name, with all extents.   *)
EncodeSnapshotTo(ns, f) == {Encode(f, ns[n], 0) : n \in {m \in Names : ns[m] # None}}

RoomOffByOne(z) == IF z \in finished THEN 0 ELSE MetaCap + 1 - Len(log[z])

(* Zone::GetCapacityLeft, in records.                                       *)
Room(z) == IF z \in finished THEN 0 ELSE MetaCap - Len(log[z])

(* ZenMetaLog::AddRecord to a zone that has room.                           *)
AddRecord(z, r) == log' = [log EXCEPT ![z] = Append(@, r)]

-----------------------------------------------------------------------------
(* Recovery                                                                 *)

NoNames == [n \in Names |-> None]

Blank == [status |-> "ok", snapshot |-> FALSE, ended |-> FALSE, files |-> NoNames,
          image |-> [i \in Id |-> Encode([j \in Id |-> NoFile], i, 0)], next |-> 1]

Corrupt(st) == [st EXCEPT !.status = "corruption"]

(* A std::map insert: a name that is taken stays as it is.                  *)
Insert(ns, names, i) ==
  [n \in Names |-> IF n \in names /\ ns[n] = None THEN i ELSE ns[n]]

Erase(ns, names) == [n \in Names |-> IF n \in names THEN None ELSE ns[n]]

RaiseNextFileIdOffByOne(next, i) == Max({next, i})

(* Decoding a file moves next_file_id_ past its number.                     *)
RaiseNextFileId(next, i) == Max({next, i + 1})

DecodeSnapshotFrom(st, images) ==
  LET Of(n) == {f \in images : n \in Range(f.links)} IN
  [st EXCEPT
     !.snapshot = TRUE,
     !.files = [n \in Names |-> IF Of(n) = {} THEN None ELSE (CHOOSE f \in Of(n) : TRUE).id],
     !.image = [i \in Id |-> IF \E f \in images : f.id = i
                               THEN CHOOSE f \in images : f.id = i ELSE Blank.image[i]],
     !.next = Max({@} \cup {RaiseNextFileId(@, f.id) : f \in images})]

(* ZoneFile::MergeUpdate, on the decoded files.                             *)
MergeUpdate(old, update, replace) ==
  [update EXCEPT !.exts = IF replace THEN @ ELSE old.exts \o @]

(* An update of a file that some name stands for is merged into it, and its *)
(* names are replaced by the new ones; otherwise it is a new file, which is *)
(* entered under its first name.                                            *)
DecodeFileUpdateFrom(st, f, replace) ==
  LET old == st.image[f.id]
      seen == [st EXCEPT !.next = RaiseNextFileId(@, f.id)] IN
  IF \E n \in Names : st.files[n] = f.id
    THEN IF \E n \in Range(old.links) : st.files[n] = None
      THEN Corrupt(seen)
      ELSE [seen EXCEPT
              !.files = Insert(Erase(@, Range(old.links)), Range(f.links), f.id),
              !.image[f.id] = MergeUpdate(old, f, replace)]
    ELSE [seen EXCEPT !.files = Insert(@, {f.links[1]}, f.id),
                      !.image[f.id] = f]

DecodeFileDeletionFrom(st, i, n) ==
  IF st.files[n] # i \/ n \notin Range(st.image[i].links)
    THEN Corrupt(st)
    ELSE [st EXCEPT !.files[n] = None,
                    !.image[i].links = RemoveFirst(@, n)]

DecodeRecord(st, r) ==
  IF st.status # "ok" \/ st.ended THEN st
  ELSE CASE r.tag = "snapshot" -> DecodeSnapshotFrom(st, r.files)
         [] r.tag = "update"   -> DecodeFileUpdateFrom(st, r.file, FALSE)
         [] r.tag = "replace"  -> DecodeFileUpdateFrom(st, r.file, TRUE)
         [] r.tag = "delete"   -> DecodeFileDeletionFrom(st, r.id, r.name)
         [] r.tag = "end"      -> [st EXCEPT !.ended = TRUE]
         [] r.tag = "resets"   -> st
         [] OTHER              -> Corrupt(st)

(* RecoverFrom: the records after the superblock, one after the other.      *)
RecoverFrom(records) ==
  LET st == FoldLeft(DecodeRecord, Blank, Tail(records)) IN
  IF st.status = "ok" /\ ~st.snapshot THEN [st EXCEPT !.status = "notfound"] ELSE st

(* The zones whose first record can be read; Mount gives up if one of them  *)
(* does not hold a superblock.                                              *)
Readable == {z \in MetaZone : log[z] # <<>> /\ log[z][1].tag # "torn"}

(* The order in which Mount tries the zones: by descending sequence number. *)
TriedBefore(y, z) ==
  \/ log[y][1].seq > log[z][1].seq
  \/ log[y][1].seq = log[z][1].seq /\ y > z

(* A zone without a snapshot is passed over; any other failure is final.    *)
PassedOver == {z \in Readable : RecoverFrom(log[z]).status = "notfound"}

NewestZone ==
  LET tried == Readable \ PassedOver IN
  IF \/ \E z \in Readable : log[z][1].tag # "super"
     \/ tried = {}
    THEN None
    ELSE CHOOSE z \in tried : \A y \in tried \ {z} : TriedBefore(z, y)

(* What Mount restores; next_file_id_ has seen the zones passed over, too.  *)
Recovered ==
  LET z == NewestZone
      seen == {z} \cup {y \in PassedOver : TriedBefore(y, z)} IN
  IF z = None THEN Corrupt(Blank)
  ELSE [RecoverFrom(log[z]) EXCEPT !.next = Max({RecoverFrom(log[y]).next : y \in seen})]

-----------------------------------------------------------------------------
(* Calls                                                                    *)

(* A call on file id under name, from src in a rename; victim is the file   *)
(* that loses name first.  The name space before the call, after the        *)
(* victim is gone and after the call is kept to state what it must do.      *)
NoOp == [kind |-> "none", who |-> NoThread, id |-> None, name |-> None, src |-> None,
         victim |-> None, deleting |-> FALSE, n |-> 0,
         pre |-> NoNames, mid |-> NoNames, post |-> NoNames]

Request(kind, t, i) ==
  [NoOp EXCEPT !.kind = kind, !.who = t, !.id = i,
               !.pre = files, !.mid = files, !.post = files]

Overwriting(call, n, post) ==
  [call EXCEPT !.name = n, !.victim = files[n], !.deleting = files[n] # None,
               !.mid = Erase(files, {n}), !.post = post]

Migrating(t) == \E i \in Id : file[i].wr = t /\ file[i].moved

(* t, not in the middle of anything, calls ZenFS and gets files_mtx_.       *)
Calls(t, what) ==
  /\ what \in Ops
  /\ at = "idle" /\ ~Migrating(t)
  /\ calls < MaxCalls
  /\ calls' = calls + 1
  /\ UNCHANGED <<deviceVars, metaLog, oldLog, seq, acked, crashes>>

Persist(r) == rec' = r /\ at' = "persist"

Return == at' = "idle" /\ op' = NoOp /\ rec' = EndRecord

RemoveLastLinkName(f, i, n) == [f EXCEPT ![i].links = Front(@)]

RemoveLinkName(f, i, n) == [f EXCEPT ![i].links = RemoveFirst(@, n)]
AddLinkName(f, i, n)    == [f EXCEPT ![i].links = Append(@, n)]

RenameKeepsOldLink(f, i, s, d) == AddLinkName(f, i, d)

RenameLink(f, i, s, d) == AddLinkName(RemoveLinkName(f, i, s), i, d)

(* DeleteFileNoLock up to its record: the name goes first.                  *)
DeleteFileNoLock(n) ==
  /\ files' = [files EXCEPT ![n] = None]
  /\ file' = RemoveLinkName(file, files[n], n)
  /\ Persist(DeletionRecord(files[n], n))
  /\ UNCHANGED nextId

(* The part of OpenWritableFile that persists a new file: it is not yet in  *)
(* files_.                                                                  *)
CreateFile(f, n) ==
  /\ file' = [f EXCEPT ![nextId] = NewFile(<<n>>)]
  /\ nextId' = nextId + 1
  /\ Persist(UpdateRecord(file', nextId))
  /\ UNCHANGED files

(* The part of RenameFileNoLock after the destination is gone.              *)
MoveFile(f, i, s, d) ==
  /\ files' = [files EXCEPT ![s] = None, ![d] = i]
  /\ file' = RenameLink(f, i, s, d)
  /\ Persist(UpdateRecord(file', i))
  /\ UNCHANGED nextId

DeleteFile(t, n) ==
  /\ Calls(t, "delete")
  /\ files[n] # None
  /\ op' = Overwriting(Request("delete", t, files[n]), n, Erase(files, {n}))
  /\ DeleteFileNoLock(n)

OpenWritableFile(t, n) ==
  /\ Calls(t, "create")
  /\ nextId <= MaxFileId
  /\ op' = Overwriting(Request("create", t, nextId), n, [files EXCEPT ![n] = nextId])
  /\ IF files[n] # None THEN DeleteFileNoLock(n) ELSE CreateFile(file, n)

(* Reopening blocks on the file's write lock with files_mtx_ held.          *)
ReopenWritableFile(t, n) ==
  /\ Calls(t, "reopen")
  /\ files[n] # None
  /\ op' = Request("reopen", t, files[n])
  /\ at' = "wrlock"
  /\ UNCHANGED <<memoryVars, rec>>

RenameFile(t, s, d) ==
  /\ Calls(t, "rename")
  /\ files[s] # None
  /\ op' = [Overwriting(Request("rename", t, files[s]), d,
              IF s = d THEN Erase(files, {s})
                       ELSE [files EXCEPT ![s] = None, ![d] = files[s]]) EXCEPT !.src = s]
  /\ IF files[d] # None THEN DeleteFileNoLock(d) ELSE MoveFile(file, files[s], s, d)

LinkFile(t, s, l) ==
  /\ Calls(t, "link")
  /\ files[l] = None /\ files[s] # None
  /\ op' = Overwriting(Request("link", t, files[s]), l, [files EXCEPT ![l] = files[s]])
  /\ files' = [files EXCEPT ![l] = files[s]]
  /\ file' = AddLinkName(file, files[s], l)
  /\ Persist(UpdateRecord(file', files[s]))
  /\ UNCHANGED nextId

(* SyncFileMetadata for the writer of i, of what it has pushed, in the      *)
(* course of a call that leaves the file with or without an active extent;  *)
(* a deleted file is skipped.                                               *)
SyncFileMetadata(t, i, what, active) ==
  /\ Calls(t, what)
  /\ file[i].wr = t /\ ~file[i].deleted
  /\ op' = [Request(what, t, i) EXCEPT !.n = Len(file[i].exts)]
  /\ file' = [file EXCEPT ![i].active = active]
  /\ Persist(UpdateRecord(file', i))
  /\ UNCHANGED <<files, nextId>>

(* A zone for the first write: its start is persisted before it is used.    *)
AllocateNewZone(t, i) == ~file[i].active /\ SyncFileMetadata(t, i, "sync", TRUE)

Fsync(t, i) == SyncFileMetadata(t, i, "sync", file[i].active)

CloseWR(t, i) ==
  \/ SyncFileMetadata(t, i, "close", FALSE)
  \/ /\ Calls(t, "close")
     /\ file[i].wr = t /\ file[i].deleted
     /\ file' = [file EXCEPT ![i].wr = NoThread]
     /\ UNCHANGED <<files, nextId, at, op, rec>>

(* The writer of i gets a further extent, whoever holds files_mtx_.         *)
PushExtent(t, i) ==
  /\ op.who # t /\ file[i].wr = t /\ file[i].active
  /\ Len(file[i].exts) < MaxExtents
  /\ file' = [file EXCEPT ![i].exts = Append(@, Len(@) + 1)]
  /\ UNCHANGED <<deviceVars, metaLog, oldLog, seq, files, nextId, at, op, rec, acked,
                 calls, crashes>>

(* MigrateFileExtents has copied the data of i: SyncFileExtents replaces    *)
(* the extents and declares them unsynced before it asks for files_mtx_.    *)
ReplaceExtentList(t, i) ==
  /\ "migrate" \in Ops /\ op.who # t /\ ~Migrating(t)
  /\ calls < MaxCalls
  /\ file[i].wr = NoThread /\ file[i].exts # <<>>
  /\ \E n \in Names : files[n] = i
  /\ file' = [file EXCEPT ![i].wr = t, ![i].moved = TRUE, ![i].synced = 0]
  /\ calls' = calls + 1
  /\ UNCHANGED <<deviceVars, metaLog, oldLog, seq, files, nextId, at, op, rec, acked,
                 crashes>>

SyncFileExtents(t, i) ==
  /\ at = "idle"
  /\ file[i].wr = t /\ file[i].moved
  /\ IF file[i].deleted
       THEN /\ file' = [file EXCEPT ![i].wr = NoThread, ![i].moved = FALSE]
            /\ UNCHANGED <<at, op, rec>>
       ELSE /\ op' = Request("replace", t, i)
            /\ Persist(ReplaceRecord(file, i))
            /\ UNCHANGED file
  /\ UNCHANGED <<deviceVars, metaLog, oldLog, seq, files, nextId, acked, calls, crashes>>

(* ~ZenFS, once no file is open: the reset counts are the last record.      *)
Unmount(t) ==
  /\ Calls(t, "unmount")
  /\ \A i \in Id : file[i].wr = NoThread
  /\ op' = Request("unmount", t, None)
  /\ Persist(ResetCountRecord)
  /\ UNCHANGED memoryVars

Call(t) ==
  \/ \E n \in Names : DeleteFile(t, n) \/ OpenWritableFile(t, n) \/ ReopenWritableFile(t, n)
  \/ \E s, d \in Names : RenameFile(t, s, d) \/ LinkFile(t, s, d)
  \/ \E i \in Id : \/ AllocateNewZone(t, i) \/ PushExtent(t, i)
                   \/ Fsync(t, i) \/ CloseWR(t, i)
                   \/ ReplaceExtentList(t, i) \/ SyncFileExtents(t, i)
  \/ Unmount(t)

-----------------------------------------------------------------------------
(* Persisting a record, rolling the log                                     *)

otherVars == <<acked, calls, crashes>>

PersistRecord ==
  /\ at = "persist"
  /\ \/ /\ Room(metaLog) > 0
        /\ AddRecord(metaLog, rec)
        /\ at' = "done"
     \/ /\ Room(metaLog) = 0
        /\ at' = "allocate"
        /\ UNCHANGED log
     \/ /\ Room(metaLog) > 0 /\ "write" \in Faults
        /\ at' = "error"
        /\ UNCHANGED log
  /\ UNCHANGED <<finished, metaLog, oldLog, seq, memoryVars, op, rec, otherVars>>

Emptied(z) == log' = [log EXCEPT ![z] = <<>>] /\ finished' = finished \ {z}

AllocatableEvenInUse == MetaZone

(* The zones that are not busy with meta_log_.                              *)
Allocatable == MetaZone \ {metaLog}

(* AllocateMetaZone: the first free zone, reset if there is something in it.*)
AllocateMetaZone ==
  /\ at = "allocate"
  /\ \/ \E z \in Allocatable :
          /\ \A y \in Allocatable : y < z => log[y] # <<>> /\ "reset" \in Faults
          /\ Emptied(z)
          /\ metaLog' = z
          /\ oldLog' = metaLog
          /\ at' = "end"
     \/ /\ \A y \in Allocatable : log[y] # <<>> /\ "reset" \in Faults
        /\ at' = "error"
        /\ UNCHANGED <<deviceVars, metaLog, oldLog>>
  /\ UNCHANGED <<seq, memoryVars, op, rec, otherVars>>

(* The old zone is closed by an end record and finished, if it has room;    *)
(* nobody looks whether that works.                                         *)
WriteEndRecord ==
  /\ at = "end"
  /\ at' = "finish"
  /\ \/ Room(oldLog) > 0 /\ AddRecord(oldLog, EndRecord)
     \/ (Room(oldLog) = 0 \/ "write" \in Faults) /\ UNCHANGED log
  /\ UNCHANGED <<finished, metaLog, oldLog, seq, memoryVars, op, rec, otherVars>>

FinishOldZone ==
  /\ at = "finish"
  /\ at' = "superblock"
  /\ \/ finished' = IF Room(oldLog) > 0 THEN finished \cup {oldLog} ELSE finished
     \/ "write" \in Faults /\ UNCHANGED finished
  /\ UNCHANGED <<log, metaLog, oldLog, seq, memoryVars, op, rec, otherVars>>

NextSeqUnchanged(s) == s

NextSeq(s) == s + 1

WriteSuperblock ==
  /\ at = "superblock"
  /\ seq' = NextSeq(seq)
  /\ \/ AddRecord(metaLog, SuperblockRecord(seq')) /\ at' = "encode"
     \/ "roll" \in Faults /\ at' = "error" /\ UNCHANGED log
  /\ UNCHANGED <<finished, metaLog, oldLog, memoryVars, op, rec, otherVars>>

EncodeSnapshot ==
  /\ at = "encode"
  /\ at' = "snapshot"
  /\ rec' = SnapshotRecord(EncodeSnapshotTo(files, file))
  /\ UNCHANGED <<deviceVars, metaLog, oldLog, seq, memoryVars, op, otherVars>>

WriteSnapshot ==
  /\ at = "snapshot"
  /\ \/ AddRecord(metaLog, rec) /\ at' = "synced"
     \/ "roll" \in Faults /\ at' = "error" /\ UNCHANGED log
  /\ UNCHANGED <<finished, metaLog, oldLog, seq, memoryVars, op, rec, otherVars>>

MetadataSynced(f, ids) == [i \in Id |->
  IF i \in ids THEN [f[i] EXCEPT !.synced = Len(f[i].exts)] ELSE f[i]]

SnapshotSynced ==
  /\ at = "synced"
  /\ at' = "reset"
  /\ file' = MetadataSynced(file, Range(files))
  /\ UNCHANGED <<deviceVars, metaLog, oldLog, seq, files, nextId, op, rec, otherVars>>

ResetOldZone ==
  /\ at = "reset"
  /\ at' = "done"
  /\ oldLog' = None
  /\ Emptied(oldLog) \/ ("reset" \in Faults /\ UNCHANGED deviceVars)
  /\ UNCHANGED <<metaLog, seq, memoryVars, op, rec, otherVars>>

-----------------------------------------------------------------------------
(* The end of a call                                                        *)

(* AcquireWRLock() in OpenWritableFile waits for the file's writer.         *)
AcquireWRLock ==
  /\ at = "wrlock"
  /\ file[op.id].wr = NoThread
  /\ file' = [file EXCEPT ![op.id].wr = op.who]
  /\ Return
  /\ UNCHANGED <<deviceVars, metaLog, oldLog, seq, files, nextId, otherVars>>

(* A file without a name is marked deleted.                                 *)
SetDeleted(f, i) == IF f[i].links = <<>> THEN [f EXCEPT ![i].deleted = TRUE] ELSE f

(* DeleteFileNoLock returns, to DeleteFile or to a call that goes on.       *)
Deleted ==
  /\ at = "done" /\ op.deleting
  /\ LET f == SetDeleted(file, op.victim) IN
     /\ \/ /\ op.kind = "create"
           /\ CreateFile(f, op.name)
           /\ op' = [op EXCEPT !.deleting = FALSE]
        \/ /\ op.kind = "rename" /\ op.src \in Range(f[op.id].links)
           /\ MoveFile(f, op.id, op.src, op.name)
           /\ op' = [op EXCEPT !.deleting = FALSE]
        \/ /\ op.kind = "delete" \/ (op.kind = "rename" /\ op.src \notin Range(f[op.id].links))
           /\ file' = f
           /\ Return
           /\ UNCHANGED <<files, nextId>>
     /\ acked' = IF f[op.victim].deleted THEN [acked EXCEPT ![op.victim] = 0] ELSE acked
  /\ UNCHANGED <<deviceVars, metaLog, oldLog, seq, calls, crashes>>

(* SyncFileMetadataNoLock returns: the file is marked synced, a new file    *)
(* is entered in files_, a closed or migrated one is unlocked.              *)
Persisted ==
  /\ at = "done" /\ ~op.deleting
  /\ op.kind \in {"create", "rename", "link", "sync", "close", "replace"}
  /\ LET f == MetadataSynced(file, {op.id}) IN
     file' = CASE op.kind = "create" -> [f EXCEPT ![op.id].wr = op.who]
               [] op.kind \in {"close", "replace"} ->
                    [f EXCEPT ![op.id].wr = NoThread, ![op.id].moved = FALSE]
               [] OTHER -> f
  /\ files' = IF op.kind = "create" THEN Insert(files, {op.name}, op.id) ELSE files
  /\ acked' = IF op.kind \in {"sync", "close"} THEN [acked EXCEPT ![op.id] = op.n] ELSE acked
  /\ Return
  /\ UNCHANGED <<deviceVars, metaLog, oldLog, seq, nextId, calls, crashes>>

(* What a process loses when it ends.                                       *)
Forget ==
  /\ files' = NoNames
  /\ file' = [i \in Id |-> NoFile]
  /\ nextId' = 1
  /\ metaLog' = None /\ oldLog' = None
  /\ seq' = 0
  /\ at' = "down"
  /\ op' = NoOp /\ rec' = EndRecord
  /\ acked' = [i \in Id |-> 0]

(* The record could not be written and the call takes back what it did in   *)
(* memory; a failed roll leaves meta_log_ in the new zone.                  *)
RollBack ==
  /\ at = "error" /\ op.kind \notin {"mount", "unmount", "abort"}
  /\ Return
  /\ oldLog' = None
  /\ \/ /\ op.deleting
        /\ files' = [files EXCEPT ![op.name] = op.victim]
        /\ file' = AddLinkName(file, op.victim, op.name)
     \/ /\ ~op.deleting /\ op.kind = "create"
        /\ file' = [file EXCEPT ![op.id] = NoFile]
        /\ UNCHANGED files
     \/ /\ op.kind = "link"
        /\ files' = [files EXCEPT ![op.name] = None]
        /\ file' = RemoveLinkName(file, op.id, op.name)
     \/ /\ ~op.deleting /\ op.kind = "rename"
        /\ files' = [files EXCEPT ![op.name] = None, ![op.src] = op.id]
        /\ file' = RenameLink(file, op.id, op.name, op.src)
     \/ /\ op.kind = "replace"
        /\ file' = [file EXCEPT ![op.id].wr = NoThread, ![op.id].moved = FALSE]
        /\ UNCHANGED files
     \/ /\ op.kind \in {"sync", "close"}
        /\ UNCHANGED <<files, file>>
  /\ UNCHANGED <<deviceVars, metaLog, seq, nextId, otherVars>>

(* ~ZenFS ends.                                                             *)
Shutdown ==
  /\ at \in {"done", "error"} /\ op.kind \in {"unmount", "abort"}
  /\ Forget
  /\ UNCHANGED <<deviceVars, calls, crashes>>

(* NewZenFS deletes the object whose mount failed.  Its destructor persists *)
(* the reset counts in meta_log_, which a failed roll has left in the new   *)
(* zone: behind its superblock, or as its first record.  Only the recovered *)
(* zone can be full, and is rolled then, before the process ends.           *)
DeleteZenFS ==
  /\ at = "error" /\ op.kind = "mount"
  /\ crashes < MaxCrashes
  /\ crashes' = crashes + 1
  /\ \/ /\ Room(metaLog) > 0
        /\ AddRecord(metaLog, ResetCountRecord) \/ ("write" \in Faults /\ UNCHANGED log)
        /\ Forget
     \/ /\ Room(metaLog) = 0
        /\ op' = [op EXCEPT !.kind = "abort"]
        /\ at' = "allocate"
        /\ UNCHANGED <<log, metaLog, oldLog, seq, memoryVars, rec, acked>>
  /\ UNCHANGED <<finished, calls>>

-----------------------------------------------------------------------------
(* Mount                                                                    *)

(* ZoneFile::DecodeFrom, from a record or a snapshot.                       *)
DecodeFrom(image) ==
  [NewFile(image.links) EXCEPT !.exts = image.exts, !.synced = Len(image.exts),
                               !.active = image.active]

(* ZoneFile::Recover of a file that has an active extent: what was written  *)
(* and not persisted, if anything was, becomes a further extent.            *)
Recover(f, written) ==
  [f EXCEPT !.exts = IF written THEN Append(@, Len(@) + 1) ELSE @, !.active = FALSE]

(* Repair recovers the files that were being written.                       *)
Repairable(st) ==
  {i \in Id \cap Range(st.files) : st.image[i].active /\ Len(st.image[i].exts) < MaxExtents}

(* The files of a mount that has repaired some, of which some had data.     *)
Repaired(st, repaired, written) ==
  [i \in Id |-> IF i \notin Range(st.files) THEN NoFile
                ELSE IF i \in repaired THEN Recover(DecodeFrom(st.image[i]), i \in written)
                ELSE DecodeFrom(st.image[i])]

(* Mount up to its RollMetaZoneLocked(), or to the file it cannot repair.   *)
Mount ==
  /\ at = "down"
  /\ LET st == Recovered IN
     \/ /\ st.status # "ok"
        /\ at' = "unmountable"
        /\ UNCHANGED <<metaLog, seq, memoryVars, op, acked>>
     \/ /\ st.status = "ok"
        /\ metaLog' = NewestZone
        /\ seq' = log[NewestZone][1].seq
        /\ files' = st.files
        /\ \E written \in SUBSET Repairable(st) :
             \/ at' = "allocate" /\ file' = Repaired(st, Id, written)
             \/ /\ "repair" \in Faults /\ at' = "error"
                /\ \E repaired \in SUBSET Id : file' = Repaired(st, repaired, written)
        /\ nextId' = st.next
        /\ op' = [NoOp EXCEPT !.kind = "mount",
                              !.pre = st.files, !.mid = st.files, !.post = st.files]
        /\ acked' = [i \in Id |-> IF i \in Range(st.files) THEN Len(st.image[i].exts) ELSE 0]
  /\ UNCHANGED <<deviceVars, oldLog, rec, calls, crashes>>

Mounted ==
  /\ at = "done" /\ op.kind = "mount"
  /\ Return
  /\ UNCHANGED <<deviceVars, metaLog, oldLog, seq, memoryVars, otherVars>>

(* A crash, at any moment; one in the middle of a long record may leave a   *)
(* part of it behind.                                                       *)
Crash ==
  /\ at \notin {"down", "unmountable"}
  /\ crashes < MaxCrashes
  /\ crashes' = crashes + 1
  /\ Forget
  /\ \/ UNCHANGED log
     \/ Torn /\ at = "snapshot" /\ AddRecord(metaLog, TornRecord)
  /\ UNCHANGED <<finished, calls>>

-----------------------------------------------------------------------------
(* A file system made by MkFS, with the files Existing, of an extent each,  *)
(* just mounted.                                                            *)
Init ==
  LET names == SetToSeq(Existing)
      born(i) == [NewFile(<<names[i]>>) EXCEPT !.exts = <<1>>, !.synced = 1] IN
  /\ file = [i \in Id |-> IF i <= Len(names) THEN born(i) ELSE NoFile]
  /\ files = [n \in Names |-> IF n \in Existing THEN CHOOSE i \in 1..Len(names) : names[i] = n
                                                ELSE None]
  /\ nextId = Len(names) + 1
  /\ log = [z \in MetaZone |-> IF z = 1
       THEN <<SuperblockRecord(1), SnapshotRecord(EncodeSnapshotTo(files, file))>> ELSE <<>>]
  /\ finished = {}
  /\ metaLog = 1 /\ oldLog = None
  /\ seq = 1
  /\ at = "idle" /\ op = NoOp /\ rec = EndRecord
  /\ acked = [i \in Id |-> Len(file[i].exts)]
  /\ calls = 0 /\ crashes = 0

Roll == \/ AllocateMetaZone \/ WriteEndRecord \/ FinishOldZone \/ WriteSuperblock
        \/ EncodeSnapshot \/ WriteSnapshot \/ SnapshotSynced \/ ResetOldZone

Step == \/ PersistRecord \/ Roll \/ AcquireWRLock
        \/ Deleted \/ Persisted \/ RollBack \/ Shutdown \/ DeleteZenFS
        \/ Mount \/ Mounted

Next == Step \/ Crash \/ \E t \in Threads : Call(t)

Spec == Init /\ [][Next]_vars

-----------------------------------------------------------------------------
(* Properties                                                               *)

Up == at \notin {"down", "unmountable"}

Ats == {"idle", "wrlock", "persist", "allocate", "end", "finish", "superblock", "encode",
        "snapshot", "synced", "reset", "done", "error", "down", "unmountable"}

(* The variables keep their types: in particular no record is written past  *)
(* the end of a metadata zone and nr_synced_extents_ never passes the       *)
(* number of extents (ZenMetaLog::AddRecord, ZoneFile::MetadataSynced).     *)
TypeOK ==
  /\ \A z \in MetaZone : Len(log[z]) <= MetaCap
  /\ finished \subseteq MetaZone
  /\ metaLog \in MetaZone \cup {None} /\ oldLog \in MetaZone \cup {None}
  /\ files \in [Names -> Id \cup {None}]
  /\ DOMAIN file = Id
  /\ \A i \in Id : /\ file[i].synced \in 0..Len(file[i].exts)
                   /\ Range(file[i].links) \subseteq Names
                   /\ file[i].wr \in Threads \cup {NoThread}
  /\ nextId \in 1..MaxFileId + 1
  /\ at \in Ats
  /\ calls \in 0..MaxCalls /\ crashes \in 0..MaxCrashes

(* What no Mount gets past: a zone whose first record is no superblock, and *)
(* one whose snapshot was cut short.                                        *)
Spoiled ==
  \E z \in MetaZone :
    /\ log[z] # <<>>
    /\ log[z][1].tag # "super" \/ (Len(log[z]) = 2 /\ log[z][2] = TornRecord)

(* A crash between two writes finds a log that Mount recovers the name      *)
(* space from: the one before or after the call that was under way, or,     *)
(* when that call replaced a file, the one without it; between calls it is  *)
(* files_.  At any time, with the file system down as well, Mount succeeds  *)
(* unless a zone is spoiled: by a crash inside the write of a snapshot, or  *)
(* by the destructor of a mount that could not write its superblock.        *)
CrashAtomic ==
  LET st == Recovered IN
  /\ Up => st.files \in IF at = "idle" THEN {files} ELSE {op.pre, op.mid, op.post}
  /\ Up => ~Spoiled
  /\ st.status = "ok" <=> ~Spoiled

(* Whatever a crash has interrupted, Mount finds a zone to recover from: it *)
(* goes on to the previous one, "as we might have crashed when rolling      *)
(* metadata zone".                                                          *)
MountFallsBack == at = "down" => Recovered.status = "ok"

(* Wherever a crash comes, every named file comes back with a prefix of its *)
(* extents that has all those a returned Fsync or Close covered.            *)
ExtentsDurable ==
  Up => LET st == Recovered IN
        \A i \in Id \cap Range(files) \cap Range(st.files) :
          /\ IsPrefix(st.image[i].exts, file[i].exts)
          /\ Len(st.image[i].exts) >= acked[i]

(* Between calls, and when a call is about to write its record, the log in  *)
(* use is the one Mount would choose, although crashed rolls, failed mounts *)
(* and failed resets leave other superblocks behind.  The record that the   *)
(* destructor of a failed mount writes is no record of a call: it may go to *)
(* a zone Mount does not choose (DeleteZenFS).                              *)
NewestInUse == at \in {"idle", "persist"} => NewestZone = metaLog

(* A new file never gets the number of a file that Mount would restore: its *)
(* first record would be merged into that file.                             *)
FreshIds == Up => \A i \in Range(Recovered.files) : i < nextId

(* Names and links agree: a name stands for a file that has it as a link,   *)
(* and a link of a file that is not being changed stands for that file.     *)
LinksMatchNames ==
  at = "idle" => \A i \in Id :
    {n \in Names : files[n] = i} = Range(file[i].links)

=============================================================================
