-------------------------------- MODULE Fat12 --------------------------------
(***************************************************************************)
(* The FAT12 driver, kernel/fat12.c.  A file is a directory entry in the   *)
(* root directory and a chain of clusters; the chain is kept in the file   *)
(* allocation table, of which the driver works on a copy in memory         *)
(* (fat_data) and writes it to the disk at the end of a call.              *)
(*                                                                         *)
(* Only the shell's commands call the driver, one call at a time.  A call  *)
(* takes one step per sector it writes, with the work in memory up to the  *)
(* next write; the machine may stop and start again between any two steps, *)
(* in the middle of a call too.  The sectors are those that                *)
(* disk_write_sector has accepted: by module DiskCache they are read back  *)
(* as written and stay on the drive.  No read fails here: the driver       *)
(* ignores the result of disk_read_sector (fat12.c:68, 217, 264, 294, 324, *)
(* 373, 399) and goes on with, and writes back, whatever its stack held.   *)
(*                                                                         *)
(* fat_data is an array of bytes with two 12-bit entries in three of them. *)
(* It holds two sectors of the table and the driver checks no index: a     *)
(* call that would go past it ends the model in the state "overrun".       *)
(* Sizes are counted in sectors, and the k-th sector of contents v is the  *)
(* pair <<v, k>>.                                                          *)
(***************************************************************************)
EXTENDS Integers, Sequences, FiniteSets

CONSTANTS TotalClusters,     \* total_clusters: the clusters of the data region
          SectorsPerCluster, \* sectors_per_cluster
          RootEntries,       \* root_entry_count
          FatSectorBytes,    \* bytes of a sector of the table (512)
          FatSectors,        \* sectors_per_fat, as far as fat_data holds them
          NumFats,           \* num_fats
          ShortNames,        \* names that fit the 8.3 form
          LongNames, Cut,    \* names that str_to_fat83 cuts off, and what is left
          Values, MaxSectors, ABSENT

ASSUME Fat12Assumption ==
    /\ TotalClusters \in Nat \ {0} /\ SectorsPerCluster \in Nat \ {0}
    /\ RootEntries \in Nat \ {0}
    /\ FatSectorBytes \in 4..512 /\ FatSectors \in {1, 2} /\ NumFats \in {1, 2}
    \* A table of one sector has an entry for every cluster of its disk.
    /\ FatSectors = 1 => (((TotalClusters + 1) * 3) \div 2) + 1 < FatSectorBytes
    /\ Cut \in ShortNames
    /\ MaxSectors \in Nat

\* ABSENT is no name and no contents.
ASSUME AbsentAssumption ==
    /\ ABSENT \notin Values \cup ShortNames \cup LongNames
    /\ ABSENT \notin {<<v, n>> : v \in Values, n \in 0..MaxSectors}

VARIABLES fat_data,   \* fat12.c:27
          fat_dirty,  \* fat12.c:28
          disk_fat,   \* the copies of the table on the disk
          dir,        \* the root directory on the disk
          data,       \* the data region on the disk
          op,         \* the call in progress and its locals
          torn        \* history: the power went while the table was in pieces

vars == <<fat_data, fat_dirty, disk_fat, dir, data, op, torn>>

\* The clusters that have an entry in fat_data: all of them, on a disk whose
\* table is no larger than the array.
TableClusters == (((2 * FatSectors * FatSectorBytes) - 3) \div 3) - 1

Held == IF TotalClusters <= TableClusters THEN TotalClusters ELSE TableClusters

Names    == ShortNames \cup LongNames
Contents == {<<v, n>> : v \in Values, n \in 0..MaxSectors}
Clusters == 2..(Held + 1)
Entries  == 0..(RootEntries - 1)
Bytes    == 0..(FatSectors * FatSectorBytes - 1)
NONE     == -1
EOC      == 4095     \* 0xFFF, the end of a chain

\* A cluster that the loops over a chain go on with.
Linked(c) == c >= 2 /\ c <= 4079

-----------------------------------------------------------------------------
(* The table: two entries of 12 bits share the middle one of three bytes.   *)

Offset(c) == c + (c \div 2)

fat12_get(f, c) ==
    IF c % 2 = 1
      THEN (f[Offset(c)] \div 16) + (f[Offset(c) + 1] * 16)
      ELSE f[Offset(c)] + ((f[Offset(c) + 1] % 16) * 256)

\* Mutant: an even entry overwrites the half byte of its neighbour.
Mut_fat12_set(f, c, v) ==
    IF c % 2 = 1
      THEN [f EXCEPT ![Offset(c)] = (@ % 16) + ((v % 16) * 16),
                     ![Offset(c) + 1] = v \div 16]
      ELSE [f EXCEPT ![Offset(c)] = v % 256,
                     ![Offset(c) + 1] = v \div 256]

fat12_set(f, c, v) ==
    IF c % 2 = 1
      THEN [f EXCEPT ![Offset(c)] = (@ % 16) + ((v % 16) * 16),
                     ![Offset(c) + 1] = v \div 16]
      ELSE [f EXCEPT ![Offset(c)] = v % 256,
                     ![Offset(c) + 1] = ((@ \div 16) * 16) + (v \div 256)]

FreeClusters(f) == {c \in Clusters : fat12_get(f, c) = 0}

\* fat12_alloc_cluster; 0 when there is none.
fat12_alloc_cluster(f) ==
    IF FreeClusters(f) = {} THEN 0
    ELSE CHOOSE c \in FreeClusters(f) : \A b \in FreeClusters(f) : c <= b

\* Where a loop over the chain that starts at c is after k rounds; what is no
\* cluster ends it.
Walk(f, c) ==
    LET at[k \in 0..Held] ==
            IF k = 0 THEN c
            ELSE LET b == at[k - 1] IN IF b \in Clusters THEN fat12_get(f, b) ELSE 0
    IN  at

\* Mutant: the last cluster of a chain is not freed.
Mut_free_chain(f, c) ==
    LET loop[k \in 0..Held] ==
            IF k = 0 THEN [fat |-> f, cluster |-> c]
            ELSE LET l    == loop[k - 1]
                     next == fat12_get(l.fat, l.cluster)
                 IN  IF Linked(l.cluster) /\ Linked(next)
                       THEN [fat |-> fat12_set(l.fat, l.cluster, 0), cluster |-> next] ELSE l
    IN  loop[Held].fat

\* free_chain: the table without the chain that starts at c.  Every round of
\* the loop frees a cluster, so that it ends after Held of them.
free_chain(f, c) ==
    LET loop[k \in 0..Held] ==
            IF k = 0 THEN [fat |-> f, cluster |-> c]
            ELSE LET l    == loop[k - 1]
                     next == fat12_get(l.fat, l.cluster)
                 IN  IF Linked(l.cluster)
                       THEN [fat |-> fat12_set(l.fat, l.cluster, 0), cluster |-> next] ELSE l
    IN  loop[Held].fat

\* The loop of fat12_write that takes n clusters and links them: the table
\* after it.  Only called with enough free clusters.
Chained(f, n) ==
    LET loop[k \in 0..n] ==
            IF k = 0 THEN [fat |-> f, prev |-> 0]
            ELSE LET l  == loop[k - 1]
                     nc == fat12_alloc_cluster(l.fat)
                     g  == fat12_set(l.fat, nc, EOC)
                 IN  [fat |-> IF l.prev # 0 THEN fat12_set(g, l.prev, nc) ELSE g, prev |-> nc]
    IN  loop[n].fat

-----------------------------------------------------------------------------
(* The directory.                                                           *)

FREE    == [mark |-> "end", name |-> ABSENT, first |-> 0, size |-> 0]
DELETED == [mark |-> "deleted", name |-> ABSENT, first |-> 0, size |-> 0]

\* str_to_fat83: the name that is stored.  What is left of a longer name may
\* be the name of another file, and the longer name itself is never found.
Stored(n) == IF n \in ShortNames THEN n ELSE Cut

\* The searches stop at the first entry that was never used.
Visible(i) == \A j \in 0..i : dir[j].mark # "end"

\* Mutant: names_match compares the lengths only.
Mut_Matching(n) == {i \in Entries : Visible(i) /\ dir[i].mark = "used"}

Matching(n) == {i \in Entries : Visible(i) /\ dir[i].mark = "used" /\ dir[i].name = n}

find_entry(n) ==
    IF Matching(n) = {} THEN NONE
    ELSE CHOOSE i \in Matching(n) : \A j \in Matching(n) : i <= j

Reusable == {i \in Entries : dir[i].mark \in {"end", "deleted"}}

\* Mutant: the last free entry is taken.
Mut_alloc_root_entry ==
    IF Reusable = {} THEN NONE ELSE CHOOSE i \in Reusable : \A j \in Reusable : i >= j

alloc_root_entry ==
    IF Reusable = {} THEN NONE ELSE CHOOSE i \in Reusable : \A j \in Reusable : i <= j

-----------------------------------------------------------------------------
(* The calls.                                                               *)

Idle == [pc |-> "idle", name |-> ABSENT, content |-> ABSENT, first |-> 0,
         cluster |-> 0, s |-> 0, written |-> 0, k |-> 0]

\* A disk with an empty FAT12 file system: entries 0 and 1 are reserved.
EmptyFat == fat12_set(fat12_set([b \in Bytes |-> 0], 0, 4080), 1, EOC)

\* fat12_init on such a disk.
Init ==
    /\ fat_data = EmptyFat
    /\ fat_dirty = FALSE
    /\ disk_fat = [k \in 1..NumFats |-> EmptyFat]
    /\ dir = [i \in Entries |-> FREE]
    /\ data = [x \in Clusters \X (0..(SectorsPerCluster - 1)) |-> ABSENT]
    /\ op = Idle
    /\ torn = FALSE

\* clusters_needed
Needed(size) ==
    IF size \div SectorsPerCluster = 0 THEN 1 ELSE size \div SectorsPerCluster

\* The directory, and the table, without the file that entry i is about.
Unlinked(i) == IF i = NONE THEN dir ELSE [dir EXCEPT ![i] = DELETED]

WithoutOld(i) == IF i = NONE THEN fat_data ELSE free_chain(fat_data, dir[i].first)

\* The table leads from cluster c out of the data region.  Only a torn disk has
\* such a chain, and the model ends where the driver would follow it.
Strays(f, c) == \E k \in 0..Held : LET b == Walk(f, c)[k] IN Linked(b) /\ b \notin Clusters

\* A write of c, or a delete, under the name n that accesses entries past the
\* array: on the chain of the old file, or on the search for a free cluster.
Overruns(n, c) ==
    IF find_entry(n) # NONE /\ Strays(fat_data, dir[find_entry(n)].first)
      THEN TRUE
      ELSE /\ Held < TotalClusters
           /\ Cardinality(FreeClusters(WithoutOld(find_entry(n)))) < Needed(c[2])

\* What the memory behind fat_data holds is read as entries of the table, and
\* is written: the model says nothing about what follows.
Overrun ==
    /\ op = Idle
    /\ \E n \in Names, c \in Contents : Overruns(n, c)
    /\ op' = [Idle EXCEPT !.pc = "overrun"]
    /\ UNCHANGED <<fat_data, fat_dirty, disk_fat, dir, data, torn>>

Undefined == op.pc = "overrun" /\ UNCHANGED vars

\* fat12_write up to its first sector of data: the old file is unlinked and
\* the clusters are taken; on a full disk the call returns here.
fat12_write(n, c) ==
    /\ op = Idle
    /\ ~ Overruns(n, c)
    /\ LET old   == find_entry(n)
           f     == WithoutOld(old)
           first == fat12_alloc_cluster(f)
       IN  /\ dir' = Unlinked(old)
           /\ fat_dirty' = (fat_dirty \/ old # NONE \/ first # 0)
           /\ \/ /\ Cardinality(FreeClusters(f)) < Needed(c[2])
                 /\ fat_data' = f
                 /\ UNCHANGED op
              \/ /\ Cardinality(FreeClusters(f)) >= Needed(c[2])
                 /\ fat_data' = Chained(f, Needed(c[2]))
                 /\ op' = [Idle EXCEPT !.pc = "data", !.name = n, !.content = c,
                                       !.first = first, !.cluster = first]
    /\ UNCHANGED <<disk_fat, data, torn>>

\* The condition of the two loops over the clusters and their sectors.
DataGoesOn == Linked(op.cluster) /\ op.written < op.content[2]

\* Where the loops are after a sector.
NextCluster ==
    IF op.s + 1 < SectorsPerCluster THEN op.cluster ELSE fat12_get(fat_data, op.cluster)

WriteData ==
    /\ op.pc = "data" /\ DataGoesOn
    /\ data' = [data EXCEPT ![<<op.cluster, op.s>>] = <<op.content[1], op.written + 1>>]
    /\ op' = [op EXCEPT !.written = @ + 1, !.cluster = NextCluster,
                        !.s = (@ + 1) % SectorsPerCluster]
    /\ UNCHANGED <<fat_data, fat_dirty, disk_fat, dir, torn>>

NewEntry == [mark |-> "used", name |-> Stored(op.name), first |-> op.first,
             size |-> op.content[2]]

\* The directory entry of the new file, or the end of the call when the
\* directory is full.
WriteEntry ==
    /\ op.pc = "data" /\ ~ DataGoesOn
    /\ IF alloc_root_entry = NONE
         THEN /\ fat_data' = free_chain(fat_data, op.first)
              /\ op' = Idle
              /\ UNCHANGED dir
         ELSE /\ dir' = [dir EXCEPT ![alloc_root_entry] = NewEntry]
              /\ op' = [op EXCEPT !.pc = "flush"]
              /\ UNCHANGED fat_data
    /\ UNCHANGED <<fat_dirty, disk_fat, data, torn>>

\* fat12_delete of a file that exists, up to fat_flush.
fat12_delete(n) ==
    /\ op = Idle
    /\ find_entry(n) # NONE
    /\ ~ Strays(fat_data, dir[find_entry(n)].first)
    /\ fat_data' = WithoutOld(find_entry(n))
    /\ fat_dirty' = TRUE
    /\ dir' = Unlinked(find_entry(n))
    /\ op' = [Idle EXCEPT !.pc = "flush", !.name = n]
    /\ UNCHANGED <<disk_fat, data, torn>>

\* Mutant: the first 512 bytes are written to each sector of the table.
Mut_FlushSector ==
    /\ op.pc = "flush" /\ op.k < NumFats * FatSectors
    /\ LET copy == (op.k \div FatSectors) + 1
           from == (op.k % FatSectors) * FatSectorBytes
       IN  disk_fat' = [disk_fat EXCEPT ![copy] =
               [b \in Bytes |-> IF b \in from..(from + FatSectorBytes - 1)
                                  THEN fat_data[b - from] ELSE @[b]]]
    /\ op' = [op EXCEPT !.k = @ + 1]
    /\ UNCHANGED <<fat_data, fat_dirty, dir, data, torn>>

\* fat_flush writes sector k % FatSectors of copy k \div FatSectors of the table.
FlushSector ==
    /\ op.pc = "flush" /\ op.k < NumFats * FatSectors
    /\ LET copy == (op.k \div FatSectors) + 1
           from == (op.k % FatSectors) * FatSectorBytes
       IN  disk_fat' = [disk_fat EXCEPT ![copy] =
               [b \in Bytes |-> IF b \in from..(from + FatSectorBytes - 1)
                                  THEN fat_data[b] ELSE @[b]]]
    /\ op' = [op EXCEPT !.k = @ + 1]
    /\ UNCHANGED <<fat_data, fat_dirty, dir, data, torn>>

\* The call returns.
FlushReturn ==
    /\ op.pc = "flush" /\ op.k = NumFats * FatSectors
    /\ fat_dirty' = FALSE
    /\ op' = Idle
    /\ UNCHANGED <<fat_data, disk_fat, dir, data, torn>>

\* The first copy of the table is not yet that of the call that has begun, or
\* that has failed and will never write it.
TableBehind == fat_dirty /\ ~ (op.pc = "flush" /\ op.k >= FatSectors)

\* The new entry is on the disk and its chain is not, or one half of the table
\* is new and the other one old.
InPieces == op.pc = "flush" /\ op.k < FatSectors /\ (op.content # ABSENT \/ op.k > 0)

\* The machine starts again and fat12_init reads the first copy of the table:
\* after reboot or halt, which flush the sector cache and do not write
\* fat_data, or after a loss of power, between any two sectors of a call.
Reboot ==
    /\ op.pc # "overrun"
    /\ fat_data' = disk_fat[1]
    /\ fat_dirty' = FALSE
    /\ op' = Idle
    /\ torn' = (torn \/ InPieces)
    /\ UNCHANGED <<disk_fat, dir, data>>

Next ==
    \/ \E n \in Names, c \in Contents : fat12_write(n, c)
    \/ WriteData \/ WriteEntry
    \/ \E n \in Names : fat12_delete(n)
    \/ FlushSector \/ FlushReturn
    \/ Reboot
    \/ Overrun \/ Undefined

Spec == Init /\ [][Next]_vars

-----------------------------------------------------------------------------
(* Reading.                                                                 *)

\* The clusters of the chain, in order; one more than there are if it is a loop.
WholeChain(f, c) ==
    [k \in 1..Cardinality({j \in 0..Held : Walk(f, c)[j] \in Clusters}) |-> Walk(f, c)[k - 1]]

\* fat12_read into a buffer that is large enough, with the table f: the
\* sectors it copies.
fat12_read(f, n) ==
    LET e     == dir[find_entry(n)]
        chain == WholeChain(f, e.first)
        total == Len(chain) * SectorsPerCluster
    IN  [k \in 1..(IF e.size < total THEN e.size ELSE total) |->
            data[<<chain[((k - 1) \div SectorsPerCluster) + 1], (k - 1) % SectorsPerCluster>>]]

\* The sectors of contents c.
Sectors(c) == [k \in 1..c[2] |-> <<c[1], k>>]

-----------------------------------------------------------------------------
(* Properties.                                                              *)

\* The disk was not torn and the table did not overrun its array.  On a torn
\* disk the driver hands out the clusters of a file whose chain is missing, and
\* what is shared then is lost with the next write or delete.
Whole == ~ torn /\ op.pc # "overrun"

\* No cluster belongs to two files, nor twice to one, and no chain leads out of
\* the data region: whatever was written, overwritten, deleted, given up on a
\* full disk or cut short by a loss of power before, unless the power went
\* between a new entry and the end of the first copy of the table
\* (fat12.c:79-101, 118-123, 277-284, 333-345, 380-382).
Used == {i \in Entries : dir[i].mark = "used"}

Proper(s) == /\ Len(s) <= Held
             /\ \A j, k \in 1..Len(s) : s[j] = s[k] => j = k
             /\ fat12_get(fat_data, s[Len(s)]) = EOC

ChainsDisjoint ==
    Whole =>
    /\ \A i \in Used : Proper(WholeChain(fat_data, dir[i].first))
    /\ \A i, j \in Used : i # j =>
          LET a == WholeChain(fat_data, dir[i].first)
              b == WholeChain(fat_data, dir[j].first)
          IN  \A x \in 1..Len(a), y \in 1..Len(b) : a[x] # b[y]

\* Clusters that are taken and belong to no file.
Lost ==
    {c \in Clusters :
        /\ fat12_get(fat_data, c) # 0
        /\ \A h \in {dir[i].first : i \in Used} \cup {op.first} :
              LET s == WholeChain(fat_data, h) IN \A k \in 1..Len(s) : s[k] # c}

\* Space is lost in one way only: the machine starts again before the first
\* copy of the table has followed the directory.  That is so in the middle of a
\* call up to that point, and after a call that failed on a full disk or a full
\* directory, which never writes the table
\* (fat12.c:321, 326, 338, 368, 379, 382, 401, 403).
NoLeak == [][Whole => Lost' \subseteq Lost \/ (Reboot /\ TableBehind)]_vars

\* Names that no longer name is cut to.
OwnNames == ShortNames \ {Cut}

\* Whatever sector was written last, a machine that stops now and mounts the
\* disk again finds the whole chain of every file but the one that the call in
\* progress is writing; so a call that has returned is on the disk and a call
\* that is cut short takes no cluster from another file (fat12.c:103-116,
\* 319-327, 380-382, 395-403).
CrashKeepsOthers ==
    Whole =>
    \A i \in Used :
        dir[i].first # op.first =>
            LET s == WholeChain(fat_data, dir[i].first)
            IN  \A k \in 1..Len(s) :
                    fat12_get(disk_fat[1], s[k]) = fat12_get(fat_data, s[k])

\* No used entry lies behind the end mark, where no search would find it, and
\* no name is used twice unless a longer name was cut to it (fat12.c:224, 301).
EntriesFound ==
    Whole =>
    \A i \in Used :
        /\ Visible(i)
        /\ \A j \in Used : (dir[i].name = dir[j].name /\ dir[i].name \in OwnNames) => i = j

\* What can be read under the names that nothing is cut to, and the call that
\* is in progress if it is about one of them.
Shown(n) == IF find_entry(n) = NONE THEN ABSENT ELSE fat12_read(fat_data, n)

Seen == [n \in OwnNames |-> Shown(n)]

Called ==
    IF op.name \notin OwnNames THEN <<ABSENT, ABSENT>>
    ELSE <<op.name, IF op.content = ABSENT THEN ABSENT ELSE Sectors(op.content)>>

Store == INSTANCE FileStore WITH
    Names <- OwnNames, Contents <- {Sectors(c) : c \in Contents},
    store <- Seen, call <- Called, gone <- ~ Whole

\* The driver is a file store: no step of a call, of its error paths or of a
\* reboot in the middle of it changes what can be read under a name that the
\* call is not about, and a name never shows part of a file, until the power
\* goes while the table is in pieces (fat12.c:312-405).
IsFileStore == Store!Spec
=============================================================================
