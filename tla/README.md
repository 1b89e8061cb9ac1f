# A TLA+ development for ZenFS

ZenFS is a RocksDB file system on a zoned block device. This directory holds
TLA+ modules that model its zone allocator, the way of a file's bytes to the device, its
metadata log, its migration workers and their trigger, and its zonefs backend, the TLC configurations that check them on small instances, and TLAPS
proofs for instances of any size. File names such as `zbd_zenfs.cc` are under `fs/`.

## 1. Inventory

| Component | State | Operations | Works with |
|---|---|---|---|
| IO zone allocator, `ZonedBlockDevice` (`zbd_zenfs`) | per zone `busy_`, `wp_`, `capacity_`, `used_capacity_`, `lifetime_`, `reset_count_`; `open_io_zones_`, `active_io_zones_`, `zone_deferred_status_` | `AllocateIOZone`, `ApplyFinishThreshold`, `GetBestOpenZoneMatch`, `FinishCheapestIOZone`, `AllocateEmptyZone`, `ResetUnusedIOZones`, token waits and puts | called by every thread that appends or deletes |
| Files, `ZoneFile`/`ZonedWritableFile` (`io_zenfs`) | `extents_`, `active_zone_`, `extent_start_`, `file_size_`, `nr_synced_extents_`, `linkfiles_`, write lock, `readers_` | `Append`, `BufferedAppend`, `SparseAppend`, `PushExtent`, `Fsync`, `Close`, `PositionedRead`, `MigrateData`, `Recover`, encoding | allocates zones, persists itself through `ZenFS` |
| Name space, `ZenFS` (`fs_zenfs`) | `files_` under `files_mtx_`, `next_file_id_` | create, reopen, delete, rename, link, sync | writes a record per change |
| Metadata log (`ZenMetaLog`, `Superblock`, `fs_zenfs`) | three metadata zones, `meta_log_`, the superblock's sequence number | `PersistRecord`, `RollMetaZoneLocked`, `RecoverFrom`, `Mount`, `MkFS` | shared by all calls, under `metadata_sync_mtx_` |
| Garbage collector (`GCWorker`) | a snapshot of extents, `new_extent_list`, the target zone, `migrating_` | `MigrateExtents`, `MigrateFileExtents`, `TakeMigrateZone`, `ReleaseMigrateZone`, `SyncFileExtents` | runs against writers, readers and deletions |
| Wear leveler (`WLWorker`) | the same, reset counts, QPS history | `GetLeastResetCountZone`, `WLMigrateFileExtents`, `GetMigrateTargetZone` | shares `migrating_` and the tokens |
| Backends (`zonefs_zenfs`, `zbdlib_zenfs`) | descriptors, an LRU cache of them | open, report, reset, finish, close, read, write | called by `Zone` |
| Metrics, snapshots, path helpers, `util/zenfs.cc` | counters | reporting, command line | nothing depends on them |

What is hard here, and what would make each part correct:

* **Allocator.** A zone's only lock is an atomic flag that searches take and drop
  zone by zone; two token counters are kept apart from the zones they count;
  one condition variable serves waiters with different limits; CloseActiveZone and
  ResetUnusedIOZones change the zone first and the counters later. Correct: zones have one holder,
  the device's limits hold, tokens come back, no live data is reset, no wake-up is lost.
* **Metadata log.** A call is several writes, a full zone turns a record into a
  roll of five more, and a crash can come between any two. Writers push extents
  without `files_mtx_`. Correct: a mount finds the name space from before or after the
  call, with every extent whose Fsync returned; the zone in use is the one a mount picks.
* **Bytes of a file.** Data goes through a buffer, is padded, cut at zone ends, moved inside
  the buffer and preceded by headers; what a crash leaves is guessed from one address in the log and a
  write pointer. Correct: the file is what was appended, in order, and a crash takes only an unsynced tail.
* **Wear leveling trigger.** Counters and flags shared without locks, a worker that naps and polls
  and that the destructor joins, counts that live in one record at the very end of the log. Correct:
  the counts are the wear, a wake-up is served, a shutdown ends.
* **ZoneFS backend.** Descriptors cached under a limit, shared by threads and reused by the kernel;
  writes that end half-way. Correct: nobody works on another zone's descriptor, closed
  zones are not kept open, no data is taken for written that is not.
* **Migration.** Two workers, one flag, file names that may be gone, renamed or
  deleted while their data is copied, a swap of extents before the record that
  persists it. Correct: no extent loses its zone, in memory or in the log; used
  capacity is exact; targets are exclusive; both workers finish.

`PROJECT.json` lists every hazard with its line and the properties that cover it.

## 2. Modules

**`ZonedBlockDevice`**: the allocator with the writers that use it. A thread's place in
the code is `pc`; a loop over `io_zones` is a *search* (`job` says which) with loop
variable `nxt`, and each iteration is two steps, `ScanAcquire` and what follows,
because `busy_` is held in between: threads meet inside each other's loops.
Token waits are `WaitForOpenIOZoneToken` with the set of sleepers, and
`NotifyAndGoto` wakes one of them. A file's data is counted in blocks per zone (`ext`,
`unsynced`). Faults: failing reset, finish, close and write, and zones that go offline.

**`ZenFS`**: the name space and the log. The log is a sequence of records per
metadata zone; `RecoverFrom` folds `DecodeRecord` over it, as the code's loop does, and
`Mount` tries the zones in the order of their sequence numbers. A call holds
`files_mtx_` from its first to its last step and has one step per device write:
`PersistRecord`, then if there is no room the steps of `Roll`. `PushExtent` and
`ReplaceExtentList` take no lock and may come between any of them. `Crash` may come
anywhere and may leave a torn snapshot (`Torn`). Faults: a record, end record or finish that fails
(`write`), a superblock or snapshot that fails (`roll`), a zone that cannot be reset, a file that cannot be recovered in a mount (`repair`).
After a failed mount `NewZenFS` deletes the object, and its destructor persists the reset counts in whatever `meta_log_` is then:
the recovered zone, which may be full and be rolled, or the new one of a failed roll, with its superblock or without (`DeleteZenFS`). `Recovered` is what a mount would find now; the
invariants speak about it in every state, so a crash need not be taken to be checked.

**`Migration`**: both workers against clients that read, rename and delete. An extent is
one block, known by its place and by the number of resets its zone had when it was
written, so an extent whose zone was reset under it can be told. A worker's steps
follow `MigrateFileExtents`/`WLMigrateFileExtents`: look up the file and try its
write lock, take a target (`TakeMigrateZone`, or `GetMigrateTargetZone` with its
two searches), copy, look the name up again, adopt the copy, release, and at the end
swap the extents under `WriteLock`, persist, free the old ones, unlock, reset
unused zones. Which zones are worth moving and which target is best depend on
percentages, scores and lifetimes; any eligible one may be chosen, which allows every
choice of the code and more.

**`AppendFile`** says what an append-only file promises: appended bytes come back in order, a sync
makes them durable, a crash leaves a prefix with all durable bytes. Nothing of zones, buffers or blocks is in it.

**`FileIO`**: `ZonedWritableFile` and `ZoneFile` for one file, byte by byte, with blocks of two bytes. A byte is the number of its
position among all bytes ever handed to the file, so that order, loss and repetition show. A call is a sequence of steps, one
per `Zone::Append` and one per metadata record (`meta` is what the log has of the file), and `Crash` comes between
any two, with any number of whole blocks of the pending write on the device (`TornModes`). `Crash` includes what the next mount
does: `Recover` and the snapshot. `File == INSTANCE AppendFile WITH data <- Data, durable <- synced, ...` is
the refinement: `Data` is the extents' bytes, then the direct data not pushed yet, then the buffer, then what the call under
way has not taken up. A buffered file that is not sparse may come back with up to a block less one byte of padding
after a crash, which is the `slack` of the mapping. Allocation chooses any zone with room, and `PositionedRead` is an operator that
`ReadsAgree` compares with the content for every offset and length.

**`ZoneFs`**: the descriptor caches of `zonefs_zenfs.cc` with the kernel's descriptor table, which hands out the lowest
free number. `Get`, a `pread` and a `pwrite` are steps of their own, since the cache's mutex is not held
between them; `CloseUnreferenced` is the destructor of the `shared_ptr`. One read cache stands for the two of the code.

**`WearLeveling`**: when the wear leveler runs. `Zone::Reset` is six steps, as its loads and stores of shared counters
take no lock; `WLWorker` is a loop with its nap (`Wait`, `Timeout`, `Woken`), its test of the standard
deviation and its wait for a quiet device (`Judge`, with any two samples). `Shutdown`, `PersistResetCounts`, `Crash`, `Mount`
and `MountRolls` are the life of the object and of its reset counts. Standard deviations are compared by their squares, which are
fractions. The migration is one step, `Migrated`.

`MCZonedBlockDevice`, `MCZenFS`, `MCMigration`, `MCZoneFs` and `MCWearLeveling` declare the model values; `MCMigration`
also fixes the initial layouts: `Worn`, two files, each in a full zone that is half garbage, so that both workers have
work at once, and `Uneven`, two extents of one file and one of another, with garbage behind each.

The theorems are in `ZonedBlockDeviceProofs`, `MigrationProofs`, `FileIOProofs`, `ZoneFsProofs`, `WearLevelingProofs` and `ZenFSProofs`. Two modules hold the lemmas about operators they share:
`FoldProofs`, what sums and maxima over finite sets are, and `RecoveryProofs`, what the recovery of `ZenFS` makes of a log.

The modules overlap where the code does (`ResetUnusedIOZones`, tokens, extents, `Recover`)
and each keeps of the others what its own properties need: `ZenFS` does not know
where extents lie, `Migration` has no writers, `ZonedBlockDevice` no names and no bytes, `FileIO` one file.

## 3. Runs

Passing runs (`CHECK_DEADLOCK FALSE` throughout: clients are bounded and may stop):

| Run | Shows | Bounds |
|---|---|---|
| `zbd_direct` | used capacity is what the extents occupy, resets spare live data, tokens come back, partly written zones stay within the active limit, every allocation returns | 2 writers, 2 zones of 2 blocks, 3 calls each; 1 active token, so that allocators finish each other's zones |
| `zbd_tokens` | `busy_` stays a lock, the open limit, the reserved WAL token, no lost wake-up for ordinary allocators, under every fault | 3 writers, one of them a buffered WAL, 2 open tokens, finish threshold 100 %; the two ordinary writers are symmetric |
| `meta_crash` | crash atomicity, durable extents, the right zone after any roll, with records, resets and repairs that fail and the destructor of a failed mount | 3 zones of 3 records, so that every second call rolls; 3 calls, 2 crashes or failed mounts |
| `meta_create` | crash atomicity of creation, replacement and links with failing writes, file numbers never reused, names and links agree after every roll-back | 2 threads, 3 files, 2 crashes or failed mounts; only mounts roll (`MetaCap` 8); their roll may fail, followed by the destructor's record, or be torn; both can end in `"unmountable"` |
| `mig_live` | no extent loses its zone, used capacity exact and zones never overfilled with both workers, and both finish | layout `Worn`, 3 zones of 2 blocks, 1 reader per file, 1 deletion or rename |
| `mig_faults` | exclusive targets, active limit, with failing copies and records | layout `Uneven`, 3 zones of 3 blocks |
| `file_io` | a file implements `AppendFile` through buffering, zone ends, headers, syncs, truncation, migration and crashes; reads agree with the extents; extents are sound; recovery takes the file's own bytes only | blocks of 2 bytes, buffer of 4, 2 zones of 4 with a gap of 2 in every state of filling, appends of 1 to 4 bytes, 6 calls, 2 crashes |
| `zonefs_fds` | no thread uses another zone's descriptor, caches keep within their limit (also 0, no limit), closed zones are not open, `wp_` never ahead of the device | 3 zones of 2 blocks, 2 threads, limits 0, 1, 2, 6 calls; zones and threads are symmetric |
| `wl_trigger` | total and counts agree, counts are the wear unless lost, the thresholds stay below the peak, wake-ups are served, shutdown ends | 2 io zones of which one was reset 5 times, 2 threads, 2 more resets, 1 roll, 1 remount; thresholds and limits scaled down |

Two zones, two writers and one token too few are enough for each pair of searches to
meet in a zone, and for every path of `AllocateIOZone` to be taken; three metadata
zones are what the code has, and a zone of three records holds superblock, snapshot
and one record, so rolls follow each other. In `file_io` a segment can end before, at and after the end of a block, of the
buffer and of a zone, with and without data left over, which is what the arithmetic tells apart; a third zone would only repeat it. `wl_trigger` starts
with a worn device because the trigger needs more resets than there are zones; its constants are the code's limits
(50 %, 1.5, 2, 76, 5000, 5, 5) made small, and 1024 stands for the range of `uint32_t`, which no difference reaches by accident.
The larger `zbd_direct` with four calls, and `DataIntact` on the layout `Uneven` with records that fail (`Faults = {"persist"}`), were
checked once as well.
With `MaxOpen = 4` the open tokens the wear leveler leaks (below) do not run out.

Runs that find a disagreement between the code and what a comment says
(details under "findings" in `PROJECT.json`):

| Run | Shows |
|---|---|
| `mig_openleak` | the wear leveler keeps the open token it takes for a migration |
| `meta_torn` | a crash in the middle of a roll's snapshot makes the file system unmountable, although the previous zone is whole |
| `file_nextzone` | a direct append that fills a zone as large as its capacity leaves the active extent at the next zone, whose data a recovery then takes |

The properties of the passing runs hold under limits that the models show to be necessary.
Changing a constant as said shows the behaviour:

* `CrashAtomic`: no creation where calls roll. `OpenWritableFile` persists a file before it is in `files_`, so a record that does
  not fit becomes a snapshot without it, although `PersistRecord` says (`fs_zenfs.cc:712`) that "a complete snapshot has been persisted -
  no need to write the record update": `MetaCap = 3` in `meta_create`. And no failed superblock or
  snapshot in a call's roll: `meta_log_` is already the new zone, and later records go where no mount finds
  them (`"roll"` added to `Faults` of `meta_crash`).
* `CrashAtomic` says that no crash between two writes spoils a zone, and that `Mount` succeeds exactly if none is spoiled. Two things do spoil one.
  A snapshot cut short (`Torn`) makes `RecoverFrom` report corruption, on which `Mount` returns, though its comment (`fs_zenfs.cc:1677`) says "If that
  fails go to the previous as we might have crashed when rolling metadata zone" (`meta_torn`). And a mount that cannot write its new
  superblock fails, and its destructor makes the reset counts the first record of that zone (`fs_zenfs.cc:277-279`), which is no superblock, so that every
  later `Mount` returns (`fs_zenfs.cc:1655-1657`). `meta_create` has both and reaches the state `"unmountable"` in both ways.
* `ExtentsDurable`: one thread. With two an extent pushed between the encoding of a snapshot and `MetadataSynced` counts as synced and is in no record
  (`Threads = {t1, t2}`, `Ops = {"reopen", "delete", "sync"}`). And no migration: a record or a roll between
  `ReplaceExtentList` and `SyncFileMetadata(replace)` doubles or loses extents (`"migrate"` and two threads).
* `LinksMatchNames`: no creation where calls roll; the lost file comes back under its first link only.
* `TokensReturned`: direct writers. A buffered append that fills its zone takes an empty one at once,
  and closing the file then keeps that zone's active token (`Buffered = {w1}`, `MaxAppend = 2`).
* `NoLostWakeup`: ordinary allocators. `notify_one` serves all waiters, so a put may wake one
  that may not proceed and leave a WAL allocator asleep beside a free token.
* `UsedCapacityExact`: no failed replace record, after which the originals stay counted until the next mount.
* `DataIntact`: no failed copy; the result of `MigrateData` is not looked at.
* `OwnBytes`: a gap between a zone's capacity and the next zone (`file_nextzone`).
* `ExtentsSound`: no sparse segment cut between two blocks by a crash. Its header has the full length, which `RecoverSparseExtents`
  takes (`"sparse"` in `TornModes`).
* `WpNeverAhead`: no `stat` that fails in `ZoneFsBackend::Reset` after the truncation (`"stat"` in `Faults`). A write that fails half-way
  leaves `wp_` behind the device instead, and the zone takes no more data until it is reset.
* `ShutdownEnds`: nobody reads or writes during `~ZenFS`; under a steady load the worker never leaves its loop. The join
  takes up to a minute, since the destructor does not notify the worker.
* `CountsTrue`: a mount ends with a roll that drops the record of the counts, so a crash before the next clean unmount
  sets them back to zero, and so does an unmount whose record does not fit.
* The ratio of the trigger is divided by the standard deviation; zero or less than 0.75 turns wear leveling off until the next mount
  (`zbd_zenfs.cc:125`), and the unsigned difference before it wraps while metadata resets lead (`zbd_zenfs.cc:118`).
* The read caches of `ZoneFs` have the limit 14, not 100: `flags & O_RDONLY` is always 0. A limit of 0 means none, by the wrap-around
  of `max_ - 1`; `open` comes before `Prune`, so one more descriptor than the limit is open for a moment.
* `SetZoneDeferredStatus` stores an error only over an error, so the deferred status is always ok; a
  migration never gives back the active token of a zone it fills; and `ReleaseMigrateZone(nullptr)` clears `migrating_`
  for the other worker, so two migrations can write at once with one zone reserved.

The README of ZenFS (lines 177-178) says there is no garbage collection; there is.

### Fairness

`zbd_direct`: weak fairness of `Step(t)`, every step a thread takes inside a
call, and closing a file; nothing makes a client open or append. An OS thread that can
run does run, and the token waits are modelled so that a sleeper is enabled only after a wake-up.
`mig_live`: weak fairness of each worker, of a client's reset loop and of
`EndRead`. `WriteLock` spins until the readers are gone and keeps new ones out, so
weak fairness is enough. `wl_trigger`: one weak fairness of the worker, of resets that have begun and of the
destructor together: somebody who has begun something goes on, and the nap ends after 60 seconds. Nothing is assumed of the load. None of
them assumes that anyone calls anything.

## 4. Proofs

The theorems hold for every number of zones, files, names, threads, tokens and calls, and with every fault unless a hypothesis is named.
They rest on the named assumptions on the constants (`DeviceAssumption`, `WriterAssumption`,
`BoundAssumption`, `MigrationAssumption`, `MetaAssumption` and those of `ZoneFs` and `WearLeveling`), which every run evaluates.
Each follows from an inductive invariant, with one lemma per action and conjunct that the action can disturb.

**`ZonedBlockDevice`.**

* `TypeCorrect`. `TypeOK` alone is not inductive: an active zone must be held only where the code uses it, a search must look
  at the zone of its loop variable, and `wp + capacity` must stay within the zone. `Roles` says so; `Typed == TypeOK /\ Roles` is inductive.
* `ZonesExclusive`. Every step moves a zone between the roles of a single thread (`ExclusiveTrade`) or leaves the zones of
  all threads alone (`ExclusiveKept`); only `ScanAcquire` adds one, under its guard.
* `OpenZonesAreBounded`, `WalSlotIsReserved`. A thread becomes a holder only in `WaitForOpenIOZoneToken`, whose guard has room, and gives a token
  back only when it stops being one, so the count of holders follows `open` (`OpenInv`).
* `NoWakeupIsLost`. Inductive together with the types: a put that leaves a token free wakes a sleeper, who then counts as on its way.
* `UsedCapacityIsTrue`, `ResetsSpareLiveData`. `LiveInv` says that a zone's used capacity is the sum of all writers' extents, that a writer has
  unpushed bytes only in its active zone, and that extents and unpushed bytes lie below the write pointer.
  A reset needs the zone's lock and a used capacity of zero; exclusivity keeps unpushed bytes out of the zone, so nothing is lost.
* `ActiveZonesAreBounded`. `ActiveInv`: partly written zones and allocators that have a token together are at most `active`, which never passes the limit.
  An inequality, because faults leave tokens behind.
* `TokensAreReturned`, for direct writers (`Buffered = {}`) and neither `"write"` nor `"close"` in `Faults`: there the inequality is an equality (`ExactInv`). Both
  hypotheses are needed: a buffered append leaks a token (section 3), and so do the error paths.

**`Migration`.**

* `TargetsAreExclusive`. The invariant adds `Held`: a worker has a target exactly from taking it to releasing it. The flag
  `migrating_` plays no part: `busy_` alone keeps the workers apart.
* `ActiveZonesAreBounded`. The zones that need a token (`Needy`) include an empty one that a worker has taken, or that counts as used because a copy into it failed.
  Zones start with any extents and any garbage.
* `DataStaysIntact`, for `"copy"` not in `Faults` (section 3). An extent may live in memory, in the log, in the list of a worker, or in several of them.
  `KeepInv`: the extents of different files and slots lie apart, what the log has is in memory or on a worker's list, the place of a copy under way is nobody else's,
  every live extent's zone has the generation it was written in, and used capacity covers the live extents of a zone (`Covered`), so a reset finds none.
  It needs only `>=`, so it holds with failing records.
* `MigrationTypes`, under the same hypothesis, is the types with `used >= 0`: `used_capacity_` does not wrap.
* `UsedCapacityIsExact`, for `Faults = {}`: `ExactInv` sharpens `Covered` to an equality and adds that a worker's loop never looks back at what it has copied.
  A failed record leaves the originals counted, a failed copy leaves a block counted that is not there.

**`ZoneFs`.** `CacheInv` carries all five theorems: a list has one entry per zone, an open descriptor belongs to an entry or to a thread that
works with it, a writing thread holds its zone, a shut zone is not in the write cache, and the bytes a thread has written lie between `wp_` and
the device's pointer. `WpStaysBehind` assumes that `"stat"` is not in `Faults` (section 3); the other four hold with every fault.

**`WearLeveling`.** `WearInv` carries all four: the total is the sum of the counts less the threads between the two increments, counts are at most the wear, a log
has at most the counts of the last orderly shutdown, and threads are at rest while no file system is mounted.

**`ZenFS`.** `RecoveryProofs` says what `RecoverFrom` computes for a log of any length: one more record is one more `DecodeRecord`, a snapshot restores the name space it was
taken from, and the record of a call turns the name space before it into the one after it. On top of that:

* `MetadataTypes`, with every operation and fault. `TypeInv` adds the types of records and calls and which of a call's fields are set where.
* `CrashesAreAtomic`, `NewestIsInUse`, `NumbersAreFresh`, `LinksAreNames`. `CrashInv` has four parts: `LogInv`, which zone leads at each step of a roll (the old
  one up to the snapshot) and what stands at its start; `NameInv`, the links of a file are its names but for the file being created; `CallInv`, what the call has done so far, in `pre`,
  `mid` and `post`; `AgreeInv`, the name space the log decodes to at each step, and that the pending record turns it into the next one.
  They assume `Safe == Roomy \/ Plain`. *Plain*: no `"create"` in `Ops`, no `"roll"` in `Faults`; calls may roll as often as they like, records and resets may fail
  (as in `meta_crash`). *Roomy*: `MetaCap >= 2 + 2 * MaxCalls`, superblock and snapshot and two records per call, so that only
  mounts roll; all operations and all faults, torn snapshots and failed mounts too (as in `meta_create`). Without either the properties fail in the code, as
  section 3 says: a roll in the middle of a creation loses the new file, and a roll that fails leaves `meta_log_` in a zone without a snapshot.
  That a roomy zone is never rolled by a call is itself an invariant (`RoomInv`: the records still due fit).
  What a failed mount leaves is part of `LogInv`: a zone with a superblock and perhaps the destructor's record but no snapshot, which `Mount` passes over because `RecoverFrom`
  finds none (`Fragment`), or a zone that begins with the destructor's record, of which the file system is down from then on (`Headless`, `HeadlessFacts`). A mount of a full zone that
  fails is followed by the destructor's roll, which is treated as the roll of a mount that forgets everything at its end (`"abort"`). That `Mount` succeeds exactly
  without a spoiled zone is shown from this shape of the zones, for a file system that is down too (`DownMounts`).
* `ExtentsAreDurable`, for `Safe` and `Solo`: one thread, no `"migrate"` in `Ops` (as in `meta_crash`; section 3 says how the code breaks it otherwise). A record has only the extents
  since `nr_synced_extents_`, so what the log has of a file is a sum of records. `DurInv` says at every step of a call and a roll how far that sum goes:
  `SaveInv`, the log decodes to the first `Count(i)` extents, which is `nr_synced_extents_` except between a write and the `MetadataSynced` after it, and `Count(i)` covers what was acknowledged;
  `CarryInv`, the pending record or snapshot is that of the files as they are now; `CoverInv`, no acknowledgement is ahead of the file. `AloneInv`, which `Solo` gives, keeps
  the file from changing between the encoding of a record and its write.

**`FileIO`.** All six theorems assume `Benign`: no `"sparse"` in `TornModes`, and `ZoneCap < ZoneSize` or no `"direct"` in `Modes`. `file_io` satisfies it, `file_nextzone` is what
happens without the second part, and section 3 says what happens without the first. Block, header, buffer and zone sizes, the number of zones, appends, calls and crashes are arbitrary.

* `FileInvariant`. `FileInv` is inductive: `Types`; `Control`, which fields of the writer are set at each place in the code; `Buffer`, how much of the buffer the file has already;
  `Active`, how the active zone, `extent_start_` and the write pointer hang together; `Laid`, extents lie below the write pointers, apart from each other and from what is in no extent yet, and those
  of the log are the first ones of the file; and `Recovers`, what `Recover` would read now from the log's `extent_start_` to the write pointer: the file's data with what a `Truncate` cut off
  and, for a buffered file, less than a block of padding; in a sparse file, a chain of headers that ends at the write pointer.
  Each action has a lemma; those for a write are shared by the three ways of writing, with a crash inside the write for any number of whole blocks.
* `FileTypes`, `ExtentsAreSound`, `BytesAreOwn` follow from it.
* `ReadsAreTrue`. The extents tile the content (`Tiled`), so that `GetExtent` finds exactly one, and the loop of `PositionedRead` is followed by induction on the bytes still wanted.
* `ImplementsAppendFile`. Initial states map to initial states, and each step to a step of `AppendFile` or a stutter: an append hands over the bytes at once (`Data` counts what the call has not taken
  up yet), the `Zone::Append`s after it stutter because they move bytes from one part of `Data` to the next, and a crash is `AppendFile`'s crash because of `Recovers`.

**Induction over data.** The library's induction rules take an operator as a parameter, which the provers cannot instantiate. `FoldProofs`, `RecoveryProofs`, `ZoneFsProofs` and `FileIOProofs` use the
least counterexample instead: the lengths, or subsets, for which the claim fails form a set, which has a minimal element if it is not empty, and that one is refuted by
unfolding the recursive function once. So sums over writers or zones, recovery of a log and pruning of a cache, the scan of sparse headers and the loop of a read need no bound.

Only model-checked: liveness (`AllocationReturns`, `MigrationEnds`, `WakeupServed`, `ShutdownEnds`), which the prover does not handle.
Every invariant and the refinement that a passing run checks is a theorem.

## 5. What is left out

Contents of files other than their order; lifetimes beyond their order; log and JSON output;
the auxiliary file system. Errors of `ResetUnusedIOZones` inside a worker, and a zone
that fails to be released, are modelled in `ZonedBlockDevice` only. A write to a metadata
zone that fails half way is modelled as writing nothing, except for a torn snapshot in a crash.

* `ZonedBlockDevice`: a metadata record that fails when a file is closed (`io_zenfs.cc:311-316`), after which `CloseWR` returns with the active zone still held; the destructor
  of the file tries once more, and if that fails too the zone and its tokens are not given back before the next mount. `Init` is an empty device, the loop of `Open` over
  zones without data.
* `ZenFS`: a mount that fails before it has chosen a log leaves `meta_log_` null, which the destructor then uses; in the model it ends in `"unmountable"`. A mount that
  fails in `ResetUnusedIOZones`, after its roll: it leaves a complete log with one record more, like an unmount. `RollBack` undoes a failed call; its caller may try again, which is another call.
* `Migration`: the zones to move and the files with their extents are read in one step. The code reads the zones first (`fs_zenfs.cc:1992`, and `fs_zenfs.cc:328` for the wear
  leveler) and then the files under `files_mtx_`; a file written or deleted in between changes what is worth moving, which is a free choice here, and an extent
  that is gone is looked up again before it is moved.

* `FileIO`: a `Zone::Append` that fails (`io_zenfs.cc:524, 581, 637`) and a record that fails in `AllocateNewZone` (`io_zenfs.cc:493`): of the errors of a write only the lack of
  space is modelled; the others end the call in the same way, before the extent is pushed. A migration within one zone, which `TakeMigrateZone` allows if the zone has
  room: a migration moves an extent to another zone here. Two threads on one file object (RocksDB serialises them, and `buffer_mtx_` covers the buffered ones); a `Close` after a failed
  flush, which flushes again what is already in an extent; `Truncate` other than of the padding of the last block, for which
  `PushExtent` would compute a negative length; the header of a sparse extent in a migration (tables are not sparse).
* `ZoneFs`: a zone that a reset finds offline (`zonefs_zenfs.cc:253-255`), which only takes writes away; the zone report, `/proc` and sysfs, read-only mounts. A `pwrite` that returns 0 would make `Zone::Append` loop; zonefs does not.
* `WearLeveling`: zones that go offline between two mounts. The record of the counts has no zone numbers: it is the list of `io_zones` in order (`zbd_zenfs.cc:243-259`), from which
  `Open` leaves out zones that are offline (`zbd_zenfs.cc:475`), so after such a loss the counts of the zones behind it are those of their neighbours. The zones of
  the model are fixed. The loads of `ReadCounts` and the loads and stores of `JudgeReset` are one step each. The adapted ratio is computed exactly (`AdaptedRatio`, `Reduced`), but
  apart from its type no property reads it: it decides when the worker is woken, which the properties allow at any time. Doubles and their `eps`; the sample history, a vector that several threads push to and clear without the mutex
  that is commented out (`metrics_qps.h:46`), which is undefined behaviour; `~ZenFS` of an object that was never mounted, as `util/zenfs.cc`
  makes for `mkfs`, where `PersistRecord` uses a null `meta_log_`.
* The limits `Open` computes from the device's; the libzbd backend, one system call per operation; metrics, path helpers; `util/zenfs.cc`, a sequence of file
  system calls from one thread.

## 6. Plan

1. *Done*: `ZonedBlockDevice`, `ZenFS`, `Migration` with their runs; exclusivity, token bounds and types proved.
2. *Done*: `FileIO` with its refinement of `AppendFile`, `ZoneFs`, `WearLeveling` with reset counts, trigger and shutdown.
3. *Done*: proofs of all safety properties of `ZonedBlockDevice`, `Migration`, `ZoneFs`, `WearLeveling`, `ZenFS` and `FileIO`, and of the refinement of `AppendFile`.
4. An abstract durable name space (a map from names to extents with atomic calls and crashes) that `ZenFS`
   implements by refinement, under the limits of `meta_crash`; writers composed with migration.
