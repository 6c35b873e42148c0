------------------------------ MODULE DiskCache ------------------------------
(***************************************************************************)
(* The sector cache of kernel/disk.c over the ATA driver of kernel/ata.c.  *)
(* A sector is written through to the drive and stays dirty in its slot    *)
(* only when the drive refuses it; a dirty slot is written back when it is *)
(* evicted or flushed.  Only the shell's commands use the disk, so a call  *)
(* is one step, except for the loop of disk_cache_flush, and the power may *)
(* go off between any two steps.                                           *)
(*                                                                         *)
(* latest and acked are what callers know: the sector as they last wrote   *)
(* it, and the sector of a write that returned 1 and was not followed by   *)
(* another write of that sector.                                           *)
(***************************************************************************)
EXTENDS Integers

CONSTANTS DISK_CACHE_SLOTS,  \* disk.h:14
          Lba,               \* the sector numbers in use
          Data,              \* the contents of a sector
          Faults             \* the places where the drive may report an error

ASSUME DiskCacheAssumption ==
    /\ DISK_CACHE_SLOTS \in Nat \ {0}
    /\ Lba # {} /\ Data # {}
    /\ Faults \subseteq {"read", "write", "evict", "flush"}

VARIABLES cache,         \* disk.c:21
          disk_present,  \* disk.c:22
          disk,          \* the sectors on the drive
          flush_i,       \* the index of disk_cache_flush's loop, or NONE
          latest, acked

vars == <<cache, disk_present, disk, flush_i, latest, acked>>

Slots == 0..(DISK_CACHE_SLOTS - 1)
NONE  == -1

Slot == [lba : Lba, data : Data, valid : BOOLEAN, dirty : BOOLEAN]

\* memset(cache, 0, sizeof(cache)): sector 0 and a sector of zeros, invalid.
Cleared == [i \in Slots |-> [lba |-> CHOOSE l \in Lba : TRUE, data |-> CHOOSE x \in Data : TRUE,
                            valid |-> FALSE, dirty |-> FALSE]]

\* disk_init
Init ==
    /\ cache = Cleared
    /\ disk_present \in BOOLEAN
    /\ disk \in [Lba -> Data]
    /\ flush_i = NONE
    /\ latest = disk
    /\ acked = [l \in Lba |-> {}]

-----------------------------------------------------------------------------
(* The drive.                                                               *)

\* ata_write of data x to sector l of drive d: the drive as it is left.  An
\* error is reported before the data was sent or while it was committed.
ata_write(site, ok, d, l, x) ==
    IF ok THEN {[d EXCEPT ![l] = x]}
    ELSE IF site \in Faults THEN {d, [d EXCEPT ![l] = x]}
    ELSE {}

\* The results ata_read can have; on an error no word was transferred.
ata_read == {TRUE} \cup (IF "read" \in Faults THEN {FALSE} ELSE {})

-----------------------------------------------------------------------------
(* The cache.                                                               *)

Holds(i, l) == cache[i].valid /\ cache[i].lba = l

\* Mutant: the cache is searched by sector number in its first slot only.
Mut_Hit(l) == Holds(0, l)

\* cache_find finds sector l, and where.
Hit(l) == \E i \in Slots : Holds(i, l)
Found(l) == CHOOSE i \in Slots : Holds(i, l) /\ \A j \in Slots : Holds(j, l) => i <= j

Full == \A i \in Slots : cache[i].valid

\* The slot that cache_evict gives away: the first invalid one, else slot 0.
Victim ==
    IF Full THEN 0
    ELSE CHOOSE i \in Slots :
            ~ cache[i].valid /\ \A j \in Slots : ~ cache[j].valid => i <= j

\* Mutant: the slot is given away without being written back.
Mut_Evicted == {disk}

\* The drive after cache_evict has written back the slot it gives away; the
\* result of that ata_write is ignored.
Evicted ==
    IF Full /\ cache[0].dirty /\ disk_present
      THEN UNION {ata_write("evict", ok, disk, cache[0].lba, cache[0].data) : ok \in BOOLEAN}
      ELSE {disk}

\* disk_read_sector, answered from the cache; or failing without a drive.
ReadHit(l) ==
    /\ flush_i = NONE
    /\ Hit(l) \/ ~ disk_present
    /\ UNCHANGED vars

\* disk_read_sector, from the drive.
ReadMiss(l) ==
    /\ flush_i = NONE
    /\ ~ Hit(l) /\ disk_present
    /\ \E d \in Evicted, ok \in ata_read :
          /\ disk' = d
          /\ cache' = [cache EXCEPT ![Victim] =
                 [lba |-> l, data |-> IF ok THEN d[l] ELSE cache[Victim].data,
                  valid |-> ok, dirty |-> FALSE]]
    /\ UNCHANGED <<disk_present, flush_i, latest, acked>>

\* The slot of a sector that was written.
Remembers(l, x, ok) == [lba |-> l, data |-> x, valid |-> TRUE, dirty |-> ~ ok]

\* disk_write_sector.  FAT12, its only caller, is not mounted without a drive.
disk_write_sector(l, x) ==
    /\ flush_i = NONE
    /\ disk_present
    /\ LET s == IF Hit(l) THEN Found(l) ELSE Victim
       IN  \E d \in (IF Hit(l) THEN {disk} ELSE Evicted), ok \in BOOLEAN :
              /\ disk' \in ata_write("write", ok, d, l, x)
              /\ cache' = [cache EXCEPT ![s] = Remembers(l, x, ok)]
              /\ acked' = [acked EXCEPT ![l] = IF ok THEN {x} ELSE {}]
    /\ latest' = [latest EXCEPT ![l] = x]
    /\ UNCHANGED <<disk_present, flush_i>>

\* disk_cache_flush is called: by FAT12, by disksync, halt and reboot.
disk_cache_flush ==
    /\ flush_i = NONE
    /\ disk_present
    /\ flush_i' = 0
    /\ UNCHANGED <<cache, disk_present, disk, latest, acked>>

\* Mutant: the loop leaves out every other slot.
Mut_FlushSlot ==
    /\ flush_i \in Slots
    /\ IF cache[flush_i].valid /\ cache[flush_i].dirty
         THEN /\ disk' = [disk EXCEPT ![cache[flush_i].lba] = cache[flush_i].data]
              /\ cache' = [cache EXCEPT ![flush_i].dirty = FALSE]
         ELSE UNCHANGED <<cache, disk>>
    /\ flush_i' = flush_i + 2
    /\ UNCHANGED <<disk_present, latest, acked>>

\* One iteration: a dirty slot is written and marked clean whatever the drive
\* said.
FlushSlot ==
    /\ flush_i \in Slots
    /\ IF cache[flush_i].valid /\ cache[flush_i].dirty
         THEN /\ \E ok \in BOOLEAN :
                    disk' \in ata_write("flush", ok, disk, cache[flush_i].lba,
                                        cache[flush_i].data)
              /\ cache' = [cache EXCEPT ![flush_i].dirty = FALSE]
         ELSE UNCHANGED <<cache, disk>>
    /\ flush_i' = flush_i + 1
    /\ UNCHANGED <<disk_present, latest, acked>>

\* The loop has passed the last slot.
FlushReturn ==
    /\ flush_i = DISK_CACHE_SLOTS
    /\ flush_i' = NONE
    /\ UNCHANGED <<cache, disk_present, disk, latest, acked>>

\* The machine is switched off, or reset by reboot, and starts again.
PowerCycle ==
    /\ cache' = Cleared
    /\ flush_i' = NONE
    /\ latest' = disk
    /\ UNCHANGED <<disk_present, disk, acked>>

Next ==
    \/ \E l \in Lba : ReadHit(l) \/ ReadMiss(l)
    \/ \E l \in Lba, x \in Data : disk_write_sector(l, x)
    \/ disk_cache_flush \/ FlushSlot \/ FlushReturn
    \/ PowerCycle

Spec == Init /\ [][Next]_vars

-----------------------------------------------------------------------------
(* Properties.                                                              *)

\* The slots hold sectors, the flush loop stays within the cache.
TypeOK ==
    /\ cache \in [Slots -> Slot]
    /\ disk_present \in BOOLEAN
    /\ disk \in [Lba -> Data]
    /\ flush_i \in {NONE} \cup 0..DISK_CACHE_SLOTS
    /\ latest \in [Lba -> Data]
    /\ acked \in [Lba -> SUBSET Data]

\* No sector is in two slots: cache_find, which takes the first, never returns
\* an older copy than a later write made (disk.c:32-38, 80-81).
NoAlias ==
    \A i, j \in Slots :
        (cache[i].valid /\ cache[j].valid /\ cache[i].lba = cache[j].lba) => i = j

\* What disk_read_sector returns for sector l.
Current(l) == IF Hit(l) THEN cache[Found(l)].data ELSE disk[l]

\* A read returns what was written last, through evictions, refused writes and
\* failing reads (disk.c:61-88).
NothingLost == \A l \in Lba : Current(l) = latest[l]

\* A write that returned 1 is on the drive, and no later write-back, eviction
\* or flush puts an older version over it; so it survives a loss of power
\* (disk.c:53-54, 85-87, 95).
Durable == \A l \in Lba : \A x \in acked[l] : disk[l] = x

\* Documentation/DOCS.md:288: "disk_cache_flush() writes all dirty slots — called
\* before halt/reboot": when it returns, the drive holds what was written
\* last to every sector (disk.c:90-99).
FlushCompletes ==
    flush_i = DISK_CACHE_SLOTS => \A l \in Lba : disk[l] = latest[l]
=============================================================================
