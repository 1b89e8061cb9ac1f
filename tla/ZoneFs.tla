-------------------------------- MODULE ZoneFs --------------------------------
(***************************************************************************)
(* The zonefs backend: every zone is a file, and ZoneFsFileCache keeps the *)
(* descriptors of the most recently used ones (fs/zonefs_zenfs.{h,cc}).    *)
(* Get, Put and Resize run under the cache's mtx_; what Get returns is a   *)
(* shared_ptr, so a descriptor that is pruned while a read or a write uses *)
(* it is closed only afterwards.  The kernel hands out the lowest free     *)
(* descriptor, so a number that was closed too early comes back as another *)
(* zone.                                                                   *)
(*                                                                         *)
(* Above the backend there is Zone: its busy_ flag lets one thread at a    *)
(* time write, reset, finish or close a zone, its wp_ is where it writes.  *)
(* direct_rd_fds_ is used as rd_fds_ is; one cache stands for both.        *)
(***************************************************************************)
EXTENDS Integers, Sequences, FiniteSets, SequencesExt

CONSTANTS
  Zones,        \* the zone files
  Threads,
  Limits,       \* what max_active_seq_files may say; 0: no limit
  DefaultLimit, \* ZENFS_ZONEFS_DEFAULT_MAX_LIMIT
  WordSize,     \* unsigned has this many values
  ZoneSz,       \* zone_sz_
  NrFds,        \* descriptors of the process
  Faults,       \* "open", "read", "write", "truncate", "stat"
  MaxOps        \* bound: calls

ASSUME ZoneFsAssumption ==
  /\ Limits \subseteq 0..(WordSize - 1) /\ DefaultLimit \in 1..(WordSize - 1)
  /\ WordSize \in Nat \ {0} /\ ZoneSz \in Nat \ {0} /\ NrFds \in Nat \ {0}
  /\ Faults \subseteq {"open", "read", "write", "truncate", "stat"}
  /\ MaxOps \in Nat

Fds    == 1..NrFds
Caches == {"wr", "rd"}
Free   == "free"
NoFd   == 0
NoZone == "none"

(* Neither mark is the name of a zone.                                      *)
ASSUME MarksAssumption == Free \notin Zones /\ NoZone \notin Zones

VARIABLES
  fdtab,  \* the kernel's descriptors: the zone each is open on
  cache,  \* ZoneFsFileCache::list_, front first
  max,    \* ZoneFsFileCache::max_
  size,   \* size of the zone file: the device's write pointer
  wp,     \* Zone::wp_ - Zone::start_
  busy,   \* zones that a thread has acquired
  shut,   \* zones that were closed, finished, reset or filled after their last write
  th,     \* what each thread is doing
  ops

vars == <<fdtab, cache, max, size, wp, busy, shut, th, ops>>

Idle == [op |-> "idle", zone |-> NoZone, fd |-> NoFd, off |-> 0, left |-> 0, done |-> 0]

(* The constructor takes 14 for both: O_RDONLY is 0, so flags & O_RDONLY    *)
(* never holds.  Open gives the write cache the limit of the device.        *)
Init ==
  /\ \E limit \in Limits : max = [k \in Caches |-> IF k = "wr" THEN limit ELSE DefaultLimit]
  /\ fdtab = [d \in Fds |-> Free]
  /\ cache = [k \in Caches |-> <<>>]
  /\ size = [z \in Zones |-> 0]
  /\ wp = [z \in Zones |-> 0]
  /\ busy = {} /\ shut = Zones
  /\ th = [t \in Threads |-> Idle]
  /\ ops = 0

-----------------------------------------------------------------------------
(* ZoneFsFileCache                                                          *)

Entry(z, d) == [zone |-> z, fd |-> d]
(* The entry that map_ has for the zone leaves the list.                    *)
Drop(c, z) ==
  LET at == {i \in DOMAIN c : c[i].zone = z} IN
  IF at = {} THEN c ELSE RemoveAt(c, CHOOSE i \in at : TRUE)

(* Prune keeps the first limit entries.                                     *)
Prune(c, limit) == IF Len(c) > limit THEN SubSeq(c, 1, limit) ELSE c

(* Mutant: one entry too many.                                              *)
PruneLimitOffByOne(m) == m % WordSize
(* The limit of Prune in Get: max_ - 1 in unsigned arithmetic.              *)
PruneLimit(m) == (m - 1) % WordSize

Put(z) == cache' = [cache EXCEPT !["wr"] = Drop(@, z)]

(* ~ZoneFsFile: a descriptor is closed once neither a cache nor a thread    *)
(* has a reference to it.                                                   *)
InUse(c, h) ==
  {e.fd : e \in UNION {ToSet(c[k]) : k \in Caches}} \cup {h[t].fd : t \in Threads}
(* Mutant: a descriptor that leaves the caches is closed at once.           *)
CloseUncached(tab) ==
  \E held \in {InUse(cache', [t \in Threads |-> Idle])} :
    fdtab' = [d \in Fds |-> IF d \in held THEN tab[d] ELSE Free]
CloseUnreferenced(tab) ==
  \E held \in {InUse(cache', th')} : fdtab' = [d \in Fds |-> IF d \in held THEN tab[d] ELSE Free]

Lowest(S) == CHOOSE d \in S : \A e \in S : d <= e

Finished(t) == th' = [th EXCEPT ![t] = Idle] /\ busy' = busy \ {th[t].zone}

(* Get finds the zone and moves it to the front, or opens it: open comes    *)
(* before Prune, and a failed open returns nullptr.                         *)
Get(t, k) ==
  LET z     == th[t].zone
      found == {i \in DOMAIN cache[k] : cache[k][i].zone = z}
      free  == {d \in Fds : fdtab[d] = Free} IN
  /\ th[t].op = IF k = "wr" THEN "getwr" ELSE "getrd"
  /\ IF found # {}
     THEN LET e == cache[k][CHOOSE i \in found : TRUE] IN
          /\ cache' = [cache EXCEPT ![k] = <<e>> \o Drop(@, z)]
          /\ th' = [th EXCEPT ![t].op = IF k = "wr" THEN "pwrite" ELSE "pread", ![t].fd = e.fd]
          /\ UNCHANGED <<fdtab, busy>>
     ELSE \/ /\ free # {}
             /\ LET d == Lowest(free) IN
                /\ cache' = [cache EXCEPT ![k] = <<Entry(z, d)>> \o Prune(@, PruneLimit(max[k]))]
                /\ th' = [th EXCEPT ![t].op = IF k = "wr" THEN "pwrite" ELSE "pread",
                                    ![t].fd = d]
                /\ CloseUnreferenced([fdtab EXCEPT ![d] = z])
             /\ UNCHANGED busy
          \/ /\ free = {} \/ "open" \in Faults
             /\ th' = [th EXCEPT ![t] = Idle]
             /\ busy' = IF k = "wr" THEN busy \ {z} ELSE busy
             /\ UNCHANGED <<cache, fdtab>>
  /\ UNCHANGED <<max, size, wp, shut, ops>>

-----------------------------------------------------------------------------
(* ZoneFsBackend, called by Zone                                            *)

Start(t, op, z, at, n) ==
  /\ th[t] = Idle /\ ops < MaxOps
  /\ ops' = ops + 1
  /\ th' = [th EXCEPT ![t] = [op |-> op, zone |-> z, fd |-> NoFd, off |-> at, left |-> n,
                              done |-> 0]]

(* Mutant: no check of the capacity that is left.                           *)
WriteUnchecked(t, z, n) ==
  /\ z \notin busy
  /\ Start(t, "getwr", z, wp[z], n)
  /\ busy' = busy \cup {z}
  /\ shut' = shut \ {z}
  /\ UNCHANGED <<fdtab, cache, max, size, wp>>

(* Zone::Append of n blocks by the thread that has the zone.                *)
Write(t, z, n) ==
  /\ z \notin busy /\ n <= ZoneSz - wp[z]
  /\ Start(t, "getwr", z, wp[z], n)
  /\ busy' = busy \cup {z}
  /\ shut' = shut \ {z}
  /\ UNCHANGED <<fdtab, cache, max, size, wp>>

(* What a write that fails half-way returns: an error replaces the count.   *)
(* Mutant: what the caller asked for.                                       *)
CountAfterErrorAll(t) == th[t].done + th[t].left
CountAfterError(t) == 0

(* Whether the write that ends at off fills the zone: its file leaves the   *)
(* cache.  Mutant: never.                                                   *)
FillsZoneNever(off) == FALSE
FillsZone(off) == off = ZoneSz

(* One pwrite of Write's loop: zonefs takes data at the end of the file     *)
(* only, possibly a part; an error replaces the count of what was written   *)
(* before.  A full zone leaves the cache.                                   *)
Pwrite(t) ==
  LET z == th[t].zone IN
  /\ th[t].op = "pwrite"
  /\ \/ \E n \in 1..th[t].left :
          /\ th[t].off = size[z]
          /\ size' = [size EXCEPT ![z] = @ + n]
          /\ shut' = IF th[t].off + n = ZoneSz THEN shut \cup {z} ELSE shut
          /\ IF FillsZone(th[t].off + n) THEN Put(z) ELSE UNCHANGED cache
          /\ IF n = th[t].left
             THEN Finished(t) /\ wp' = [wp EXCEPT ![z] = @ + th[t].done + n]
             ELSE /\ th' = [th EXCEPT ![t].off = @ + n, ![t].left = @ - n, ![t].done = @ + n]
                  /\ UNCHANGED <<busy, wp>>
     \/ /\ th[t].off # size[z] \/ "write" \in Faults
        /\ Finished(t) /\ wp' = [wp EXCEPT ![z] = @ + CountAfterError(t)]
        /\ UNCHANGED <<size, cache, shut>>
  /\ CloseUnreferenced(fdtab)
  /\ UNCHANGED <<max, ops>>

(* A read of written data, beside whatever else happens to the zone.        *)
(* InvalidateCache is the same Get followed by one fadvise.                 *)
Read(t, z, at, n) ==
  /\ at + n <= wp[z]
  /\ Start(t, "getrd", z, at, n)
  /\ UNCHANGED <<fdtab, cache, max, size, wp, busy, shut>>

(* One pread of Read's loop; the end of the file, as after a reset of the   *)
(* zone, or an error ends the loop.                                         *)
Pread(t) ==
  LET there == size[th[t].zone] - th[t].off IN
  /\ th[t].op = "pread"
  /\ \/ \E n \in 1..th[t].left :
          /\ n <= there
          /\ th' = IF n = th[t].left THEN [th EXCEPT ![t] = Idle]
                   ELSE [th EXCEPT ![t].off = @ + n, ![t].left = @ - n]
     \/ /\ there <= 0 \/ "read" \in Faults
        /\ th' = [th EXCEPT ![t] = Idle]
  /\ UNCHANGED <<cache, max, size, wp, busy, shut, ops>>
  /\ CloseUnreferenced(fdtab)

(* Reset and Finish truncate the file, then drop the descriptor; Reset asks *)
(* for the zone's state afterwards, and an error there comes too late for   *)
(* the data but Zone::Reset leaves wp_ alone.                               *)
Reset(t, z) ==
  /\ z \notin busy /\ th[t] = Idle /\ ops < MaxOps /\ ops' = ops + 1
  /\ \/ /\ size' = [size EXCEPT ![z] = 0]
        /\ Put(z) /\ shut' = shut \cup {z}
        /\ \/ wp' = [wp EXCEPT ![z] = 0]
           \/ "stat" \in Faults /\ UNCHANGED wp
     \/ "truncate" \in Faults /\ UNCHANGED <<size, cache, shut, wp>>
  /\ UNCHANGED <<max, busy, th>>
  /\ CloseUnreferenced(fdtab)

Finish(t, z) ==
  /\ z \notin busy /\ th[t] = Idle /\ ops < MaxOps /\ ops' = ops + 1
  /\ \/ /\ size' = [size EXCEPT ![z] = ZoneSz]
        /\ Put(z) /\ shut' = shut \cup {z}
        /\ wp' = [wp EXCEPT ![z] = ZoneSz]
     \/ "truncate" \in Faults /\ UNCHANGED <<size, cache, shut, wp>>
  /\ UNCHANGED <<max, busy, th>>
  /\ CloseUnreferenced(fdtab)

(* Zone::Close asks the backend only if the zone is neither empty nor full. *)
Close(t, z) ==
  /\ z \notin busy /\ th[t] = Idle /\ ops < MaxOps /\ ops' = ops + 1
  /\ wp[z] \in 1..(ZoneSz - 1)
  /\ Put(z) /\ shut' = shut \cup {z}
  /\ UNCHANGED <<max, size, wp, busy, th>>
  /\ CloseUnreferenced(fdtab)

(* The process dies, at any point of a write, and starts again: the kernel  *)
(* closes its descriptors and releases zone 0's lock, Open makes the caches *)
(* anew, and ZoneWp takes a zone's write pointer from the size of its file. *)
Restart ==
  /\ ops < MaxOps /\ ops' = ops + 1
  /\ fdtab' = [d \in Fds |-> Free]
  /\ cache' = [k \in Caches |-> <<>>]
  /\ wp' = size
  /\ busy' = {} /\ shut' = Zones
  /\ th' = [t \in Threads |-> Idle]
  /\ UNCHANGED <<max, size>>

Next ==
  \/ \E t \in Threads :
       \/ Get(t, "wr") \/ Get(t, "rd") \/ Pwrite(t) \/ Pread(t)
       \/ \E z \in Zones :
            \/ \E n \in 1..ZoneSz : Write(t, z, n) \/ \E at \in 0..ZoneSz : Read(t, z, at, n)
            \/ Reset(t, z) \/ Finish(t, z) \/ Close(t, z)
  \/ Restart

Spec == Init /\ [][Next]_vars

-----------------------------------------------------------------------------
(* Properties                                                               *)

(* The variables keep their types.                                          *)
TypeOK ==
  /\ fdtab \in [Fds -> Zones \cup {Free}]
  /\ size \in [Zones -> 0..ZoneSz] /\ wp \in [Zones -> 0..ZoneSz]
  /\ busy \subseteq Zones /\ shut \subseteq Zones
  /\ \A t \in Threads : /\ th[t].op \in {"idle", "getwr", "getrd", "pwrite", "pread"}
                        /\ th[t].fd \in Fds \cup {NoFd}

(* A read or write under way has an open descriptor of its own zone, and so *)
(* has every cache entry, of which there is one for a zone: however Get,    *)
(* Prune and Put of other threads interleave with the loop, no descriptor   *)
(* is closed, or closed and reused for another zone, under it.              *)
OwnDescriptor ==
  /\ \A t \in Threads : th[t].fd # NoFd => fdtab[th[t].fd] = th[t].zone
  /\ \A k \in Caches : \A i, j \in DOMAIN cache[k] :
       /\ fdtab[cache[k][i].fd] = cache[k][i].zone
       /\ i # j => cache[k][i].zone # cache[k][j].zone

(* The caches keep within max_ (0 stands for no limit, by the wrap-around   *)
(* of max_ - 1), and beyond what they hold only the calls under way keep    *)
(* descriptors open: zones the threads move between leave none behind.      *)
DescriptorsBounded ==
  /\ \A k \in Caches : max[k] = 0 \/ Len(cache[k]) <= max[k]
  /\ \A d \in Fds : fdtab[d] # Free => d \in InUse(cache, th)

(* A zone that was closed, finished, reset or filled is not open for        *)
(* writing, whoever opened it and however often: it does not count against  *)
(* the device's open zones behind ZenFS's back.                             *)
ShutZonesNotOpen ==
  \A z \in shut : \A d \in Fds : fdtab[d] = z =>
    \/ \E e \in ToSet(cache["rd"]) : e.fd = d
    \/ \E t \in Threads : th[t].op = "pread" /\ th[t].fd = d

(* ZenFS never takes data for written that the device does not have, though *)
(* writes are split, fail half-way and are tried again.                     *)
WpNeverAhead == \A z \in Zones : z \notin busy => wp[z] <= size[z]

=============================================================================
