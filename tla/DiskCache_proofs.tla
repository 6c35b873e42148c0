--------------------------- MODULE DiskCache_proofs ---------------------------
(***************************************************************************)
(* Proofs about the sector cache, for every number of slots, set of        *)
(* sectors and contents.  What holds whatever the drive reports is proved  *)
(* for every Faults; what holds only while write-backs succeed is proved   *)
(* from the assumption Reliable.                                           *)
(***************************************************************************)
EXTENDS DiskCache, TLAPS, WellFoundedInduction

-----------------------------------------------------------------------------
(* Searches.                                                                *)

\* A loop over the slots of the cache stops at the least of those it looks for.
LEMMA LeastNat ==
  ASSUME NEW T \in SUBSET Nat, T # {}
  PROVE  \E x \in T : \A y \in T : x <= y
<1>1. PICK x \in T : \A y \in T : <<y, x>> \notin OpToRel(<, Nat)
  BY NatLessThanWellFounded, WFMin, Zenon
<1>2. ASSUME NEW y \in T PROVE ~ (y < x)
  <2>1. y \in Nat /\ x \in Nat
    OBVIOUS
  <2>2. QED
    BY <1>1, <2>1 DEF OpToRel
<1>3. QED
  BY <1>2

\* The drive accepts what cache_evict and disk_cache_flush write back.
Reliable == "evict" \notin Faults /\ "flush" \notin Faults

\* A sector that is dirty in the cache was refused by the drive when it was
\* written last, so nobody was told that it is on the drive.
DirtyUnacked ==
    \A i \in Slots : (cache[i].valid /\ cache[i].dirty) => acked[cache[i].lba] = {}

\* What holds for every Faults.
IInv == TypeOK /\ NoAlias /\ DirtyUnacked /\ Durable

SlotsLatest ==
    \A i \in Slots : cache[i].valid => cache[i].data = latest[cache[i].lba]

CleanOnDisk ==
    \A i \in Slots :
        (cache[i].valid /\ ~ cache[i].dirty) => disk[cache[i].lba] = cache[i].data

AbsentOnDisk ==
    \A l \in Lba : (\A i \in Slots : ~ Holds(i, l)) => disk[l] = latest[l]

FlushedSoFar ==
    \A i \in Slots : i < flush_i => ~ (cache[i].valid /\ cache[i].dirty)

\* What holds while write-backs succeed.
RInv == SlotsLatest /\ CleanOnDisk /\ AbsentOnDisk /\ FlushedSoFar

-----------------------------------------------------------------------------
(* The searches, the drive and the slots.                                   *)

\* A hit is a valid slot that holds the sector.
LEMMA FoundHolds ==
    ASSUME NEW l, Hit(l)
    PROVE  Found(l) \in Slots /\ Holds(Found(l), l)
<1> DEFINE S == {i \in Slots : Holds(i, l)}
<1>1. S \in SUBSET Nat /\ S # {}
  BY DiskCacheAssumption DEF Hit, Slots
<1>2. \E i \in S : \A j \in S : i <= j
  BY <1>1, LeastNat
<1> QED BY <1>2, Zenon DEF Found

\* The slot a new sector goes to: a free one, and slot 0 when none is free.
LEMMA VictimSlot ==
    /\ Victim \in Slots
    /\ Full => Victim = 0
    /\ ~ Full => ~ cache[Victim].valid
<1>1. CASE Full
  BY <1>1, DiskCacheAssumption DEF Victim, Slots
<1>2. CASE ~ Full
  <2> DEFINE S == {i \in Slots : ~ cache[i].valid}
  <2>1. S \in SUBSET Nat /\ S # {}
    BY <1>2, DiskCacheAssumption DEF Full, Slots
  <2>2. \E i \in S : \A j \in S : i <= j
    BY <2>1, LeastNat
  <2>3. Victim \in Slots /\ ~ cache[Victim].valid
    BY <2>2, <1>2, Zenon DEF Victim
  <2> QED BY <2>3, <1>2
<1> QED BY <1>1, <1>2

\* What disk_cache stores in a slot is a slot record.
LEMMA NewSlot ==
    ASSUME NEW l \in Lba, NEW x \in Data, NEW v \in BOOLEAN, NEW m \in BOOLEAN
    PROVE  [lba |-> l, data |-> x, valid |-> v, dirty |-> m] \in Slot
BY Zenon DEF Slot

\* A write leaves every other sector alone.
LEMMA Written ==
    ASSUME NEW site, NEW ok \in BOOLEAN, NEW d \in [Lba -> Data], NEW l \in Lba,
           NEW x \in Data, NEW e \in ata_write(site, ok, d, l, x)
    PROVE  /\ e \in [Lba -> Data]
           /\ \A k \in Lba : k # l => e[k] = d[k]
           /\ e[l] \in {d[l], x}
           /\ (ok \/ site \notin Faults) => e[l] = x
<1>1. e \in {d, [d EXCEPT ![l] = x]}
  BY DEF ata_write
<1>2. (ok \/ site \notin Faults) => e = [d EXCEPT ![l] = x]
  BY DEF ata_write
<1> QED BY <1>1, <1>2

\* An eviction changes at most the sector of slot 0, and writes what is there.
LEMMA EvictedDisk ==
    ASSUME TypeOK, disk_present, NEW d \in Evicted
    PROVE  /\ d \in [Lba -> Data]
           /\ \A k \in Lba :
                 d[k] # disk[k] => Full /\ cache[0].dirty /\ k = cache[0].lba
           /\ (Reliable /\ Full /\ cache[0].dirty) => d[cache[0].lba] = cache[0].data
<1>1. CASE Full /\ cache[0].dirty
  <2>1. cache[0] \in Slot
    BY DiskCacheAssumption DEF TypeOK, Slots
  <2>2. cache[0].lba \in Lba /\ cache[0].data \in Data
    BY <2>1 DEF Slot
  <2>3. PICK ok \in BOOLEAN :
           d \in ata_write("evict", ok, disk, cache[0].lba, cache[0].data)
    BY <1>1 DEF Evicted
  <2>4. disk \in [Lba -> Data]
    BY DEF TypeOK
  <2>5. /\ d \in [Lba -> Data]
        /\ \A k \in Lba : k # cache[0].lba => d[k] = disk[k]
        /\ "evict" \notin Faults => d[cache[0].lba] = cache[0].data
    <3> DEFINE a == cache[0].lba
               y == cache[0].data
    <3>1. a \in Lba /\ y \in Data /\ d \in ata_write("evict", ok, disk, a, y)
      BY <2>2, <2>3
    <3> HIDE DEF a, y
    <3>2. /\ d \in [Lba -> Data]
          /\ \A k \in Lba : k # a => d[k] = disk[k]
          /\ (ok \/ "evict" \notin Faults) => d[a] = y
      BY <2>4, <3>1, Written
    <3> QED BY <3>2 DEF a, y
  <2> QED BY <1>1, <2>5 DEF Reliable
<1>2. CASE ~ (Full /\ cache[0].dirty)
  BY <1>2 DEF Evicted, TypeOK
<1> QED BY <1>1, <1>2
\* Giving slot s to sector l, which no other slot holds, makes no alias.
LEMMA Filling ==
    ASSUME TypeOK, NoAlias, NEW l \in Lba, NEW s \in Slots, NEW r \in Slot, r.lba = l,
           \A i \in Slots : i # s => ~ Holds(i, l),
           cache' = [cache EXCEPT ![s] = r]
    PROVE  /\ cache' \in [Slots -> Slot]
           /\ \A i \in Slots : cache'[i] = IF i = s THEN r ELSE cache[i]
           /\ NoAlias'
<1>1. cache' \in [Slots -> Slot]
  BY DEF TypeOK
<1>2. \A i \in Slots : cache'[i] = IF i = s THEN r ELSE cache[i]
  BY DEF TypeOK
<1>3. NoAlias'
  <2> SUFFICES ASSUME NEW i \in Slots, NEW j \in Slots,
                      cache'[i].valid, cache'[j].valid, cache'[i].lba = cache'[j].lba
               PROVE  i = j
    BY DEF NoAlias
  <2>1. CASE i # s /\ j # s
    BY <2>1, <1>2 DEF NoAlias
  <2>2. CASE i = s /\ j # s
    BY <2>2, <1>2 DEF Holds
  <2>3. CASE i # s /\ j = s
    BY <2>3, <1>2 DEF Holds
  <2> QED BY <2>1, <2>2, <2>3
<1> QED BY <1>1, <1>2, <1>3

\* Slots of the cache hold a sector each, and no two the same.
LEMMA SlotTypes ==
    ASSUME TypeOK, NEW i \in Slots
    PROVE  /\ cache[i].lba \in Lba /\ cache[i].data \in Data
           /\ cache[i].valid \in BOOLEAN /\ cache[i].dirty \in BOOLEAN
<1>1. cache[i] \in Slot
  BY DEF TypeOK
<1> QED BY <1>1 DEF Slot

-----------------------------------------------------------------------------
(* The steps.                                                               *)

\* A miss that is read from the drive.
LEMMA ReadMissSafe ==
    ASSUME IInv, NEW l \in Lba, ReadMiss(l)
    PROVE  IInv' /\ (Reliable /\ RInv => RInv')
<1>1. PICK d \in Evicted, ok \in ata_read :
        /\ disk' = d
        /\ cache' = [cache EXCEPT ![Victim] =
               [lba |-> l, data |-> IF ok THEN d[l] ELSE cache[Victim].data,
                valid |-> ok, dirty |-> FALSE]]
  BY DEF ReadMiss
<1> DEFINE v == Victim
           x == IF ok THEN d[l] ELSE cache[v].data
           r == [lba |-> l, data |-> x, valid |-> ok, dirty |-> FALSE]
<1>2. /\ disk_present /\ flush_i = NONE
      /\ \A i \in Slots : ~ Holds(i, l)
      /\ UNCHANGED <<disk_present, flush_i, latest, acked>>
  BY DEF ReadMiss, Hit
<1>3. v \in Slots /\ (Full => v = 0) /\ (~ Full => ~ cache[v].valid)
  BY VictimSlot
<1>4. /\ d \in [Lba -> Data]
      /\ \A k \in Lba : d[k] # disk[k] => Full /\ cache[0].dirty /\ k = cache[0].lba
      /\ (Reliable /\ Full /\ cache[0].dirty) => d[cache[0].lba] = cache[0].data
  BY <1>2, EvictedDisk DEF IInv
<1>5. ok \in BOOLEAN /\ x \in Data
  <2>1. ok \in BOOLEAN
    BY DEF ata_read
  <2>2. cache[v].data \in Data
    BY <1>3, SlotTypes DEF IInv
  <2> QED BY <2>1, <2>2, <1>4
<1>6. r \in Slot /\ r.lba = l /\ r.valid = ok /\ r.dirty = FALSE /\ r.data = x
  BY <1>5, NewSlot
<1>7. cache' = [cache EXCEPT ![v] = r] /\ disk' = d
  BY <1>1
<1> HIDE DEF v, x, r
<1>8. /\ cache' \in [Slots -> Slot] /\ NoAlias'
      /\ \A i \in Slots : cache'[i] = IF i = v THEN r ELSE cache[i]
  BY <1>2, <1>3, <1>6, <1>7, Filling DEF IInv
<1>9. TypeOK'
  BY <1>2, <1>3, <1>4, <1>7, <1>8 DEF IInv, TypeOK
<1>10. DirtyUnacked'
  BY <1>2, <1>6, <1>8 DEF IInv, DirtyUnacked
<1>11. Durable'
  <2> SUFFICES ASSUME NEW k \in Lba, NEW y \in acked[k] PROVE d[k] = y
    BY <1>2, <1>7 DEF Durable
  <2>1. disk[k] = y
    BY DEF IInv, Durable
  <2>2. CASE d[k] # disk[k]
    <3>1. Full /\ cache[0].dirty /\ k = cache[0].lba
      BY <2>2, <1>4
    <3>2. 0 \in Slots /\ cache[0].valid
      BY <3>1, DiskCacheAssumption DEF Full, Slots
    <3>3. acked[k] = {}
      BY <3>1, <3>2 DEF IInv, DirtyUnacked
    <3> QED BY <3>3
  <2> QED BY <2>1, <2>2
<1>12. ASSUME Reliable, RInv PROVE RInv'
  <2>1. d[l] = disk[l] /\ disk[l] = latest[l]
    <3>1. 0 \in Slots /\ (Full => Holds(0, cache[0].lba))
      BY DiskCacheAssumption DEF Full, Slots, Holds
    <3> QED BY <3>1, <1>2, <1>4, <1>12 DEF RInv, AbsentOnDisk
  <2>2. SlotsLatest'
    BY <2>1, <1>2, <1>6, <1>8, <1>12 DEF RInv, SlotsLatest, x
  <2>3. CleanOnDisk'
    <3> SUFFICES ASSUME NEW i \in Slots, cache'[i].valid, ~ cache'[i].dirty
                 PROVE  d[cache'[i].lba] = cache'[i].data
      BY <1>7 DEF CleanOnDisk
    <3>1. CASE i = v
      BY <3>1, <1>6, <1>8 DEF x
    <3>2. CASE i # v
      <4>1. cache'[i] = cache[i] /\ disk[cache[i].lba] = cache[i].data /\ cache[i].lba \in Lba
        BY <3>2, <1>8, <1>12, SlotTypes DEF RInv, CleanOnDisk, IInv
      <4>2. ASSUME Full, cache[i].lba = cache[0].lba PROVE FALSE
        BY <4>2, <3>2, <1>3, DiskCacheAssumption DEF IInv, NoAlias, Full, Slots
      <4> QED BY <4>1, <4>2, <1>4
    <3> QED BY <3>1, <3>2
  <2>4. AbsentOnDisk'
    <3> SUFFICES ASSUME NEW k \in Lba,
                        \A i \in Slots : ~ (cache'[i].valid /\ cache'[i].lba = k)
                 PROVE  d[k] = latest[k]
      BY <1>2, <1>7 DEF AbsentOnDisk, Holds
    <3>1. CASE \A i \in Slots : ~ Holds(i, k)
      <4>1. Full => k # cache[0].lba
        BY <3>1, DiskCacheAssumption DEF Full, Slots, Holds
      <4> QED BY <4>1, <3>1, <1>4, <1>12 DEF RInv, AbsentOnDisk
    <3>2. CASE ~ \A i \in Slots : ~ Holds(i, k)
      <4>1. PICK i \in Slots : Holds(i, k)
        BY <3>2
      <4>2. i = v
        BY <4>1, <1>8 DEF Holds
      <4>3. Full /\ v = 0 /\ cache[0].valid /\ cache[0].lba = k
        BY <4>1, <4>2, <1>3 DEF Holds
      <4>4. cache[0].data = latest[k]
        BY <4>2, <4>3, <1>12 DEF RInv, SlotsLatest
      <4>5. CASE cache[0].dirty
        BY <4>3, <4>4, <4>5, <1>4, <1>12
      <4>6. CASE ~ cache[0].dirty
        BY <4>2, <4>3, <4>4, <4>6, <1>4, <1>12 DEF RInv, CleanOnDisk
      <4> QED BY <4>5, <4>6
    <3> QED BY <3>1, <3>2
  <2>5. FlushedSoFar'
    BY <1>2, DiskCacheAssumption DEF FlushedSoFar, NONE, Slots
  <2> QED BY <2>2, <2>3, <2>4, <2>5 DEF RInv
<1> QED BY <1>8, <1>9, <1>10, <1>11, <1>12 DEF IInv
\* A write, to a slot that holds the sector already or to one that is evicted.
LEMMA WriteSafe ==
    ASSUME IInv, NEW l \in Lba, NEW x \in Data, disk_write_sector(l, x)
    PROVE  IInv' /\ (Reliable /\ RInv => RInv')
<1> DEFINE s == IF Hit(l) THEN Found(l) ELSE Victim
<1>1. PICK d \in (IF Hit(l) THEN {disk} ELSE Evicted), ok \in BOOLEAN :
        /\ disk' \in ata_write("write", ok, d, l, x)
        /\ cache' = [cache EXCEPT ![s] = Remembers(l, x, ok)]
        /\ acked' = [acked EXCEPT ![l] = IF ok THEN {x} ELSE {}]
  BY DEF disk_write_sector
<1> DEFINE r == Remembers(l, x, ok)
<1>2. /\ disk_present /\ flush_i = NONE
      /\ latest' = [latest EXCEPT ![l] = x]
      /\ UNCHANGED <<disk_present, flush_i>>
  BY DEF disk_write_sector
<1>3. /\ s \in Slots
      /\ \A i \in Slots : i # s => ~ Holds(i, l)
      /\ Hit(l) => Holds(s, l)
  <2>1. CASE Hit(l)
    <3>1. s \in Slots /\ Holds(s, l)
      BY <2>1, FoundHolds
    <3> QED BY <2>1, <3>1 DEF IInv, NoAlias, Holds
  <2>2. CASE ~ Hit(l)
    BY <2>2, VictimSlot DEF Hit
  <2> QED BY <2>1, <2>2
<1>4. ~ Hit(l) => (Full => s = 0) /\ (~ Full => ~ cache[s].valid)
  BY VictimSlot
<1>5. /\ d \in [Lba -> Data]
      /\ Hit(l) => d = disk
      /\ \A k \in Lba :
            d[k] # disk[k] => Full /\ cache[0].dirty /\ k = cache[0].lba
      /\ (~ Hit(l) /\ Reliable /\ Full /\ cache[0].dirty) => d[cache[0].lba] = cache[0].data
  <2>1. CASE Hit(l)
    BY <2>1 DEF IInv, TypeOK
  <2>2. CASE ~ Hit(l)
    BY <2>2, <1>2, EvictedDisk DEF IInv
  <2> QED BY <2>1, <2>2
<1>6. /\ disk' \in [Lba -> Data]
      /\ \A k \in Lba : k # l => disk'[k] = d[k]
      /\ ok => disk'[l] = x
  <2> DEFINE e == disk'
  <2>1. e \in ata_write("write", ok, d, l, x) /\ d \in [Lba -> Data]
    BY <1>1, <1>5
  <2> HIDE DEF e
  <2>2. /\ e \in [Lba -> Data]
        /\ \A k \in Lba : k # l => e[k] = d[k]
        /\ (ok \/ "write" \notin Faults) => e[l] = x
    BY <2>1, Written
  <2> QED BY <2>2 DEF e
<1>7. r \in Slot /\ r.lba = l /\ r.data = x /\ r.valid = TRUE /\ r.dirty = ~ ok
  BY NewSlot DEF Remembers
<1>8. cache' = [cache EXCEPT ![s] = r]
  BY <1>1
<1> HIDE DEF s, r
<1>9. /\ cache' \in [Slots -> Slot] /\ NoAlias'
      /\ \A i \in Slots : cache'[i] = IF i = s THEN r ELSE cache[i]
  BY <1>3, <1>7, <1>8, Filling DEF IInv
<1>10. /\ acked' \in [Lba -> SUBSET Data]
       /\ acked'[l] = (IF ok THEN {x} ELSE {})
       /\ \A k \in Lba : k # l => acked'[k] = acked[k]
  BY <1>1 DEF IInv, TypeOK
<1>11. /\ latest' \in [Lba -> Data] /\ latest'[l] = x
       /\ \A k \in Lba : k # l => latest'[k] = latest[k]
  BY <1>2 DEF IInv, TypeOK
<1>12. TypeOK'
  BY <1>1, <1>2, <1>3, <1>6, <1>9, <1>10, <1>11 DEF IInv, TypeOK
<1>13. \A i \in Slots : (i # s /\ cache[i].valid) => cache[i].lba \in Lba /\ cache[i].lba # l
  BY <1>3, SlotTypes DEF IInv, Holds
<1>14. DirtyUnacked'
  <2> SUFFICES ASSUME NEW i \in Slots, cache'[i].valid, cache'[i].dirty
               PROVE  acked'[cache'[i].lba] = {}
    BY DEF DirtyUnacked
  <2>1. CASE i = s
    BY <2>1, <1>7, <1>9, <1>10
  <2>2. CASE i # s
    BY <2>2, <1>9, <1>10, <1>13 DEF IInv, DirtyUnacked
  <2> QED BY <2>1, <2>2
<1>15. Durable'
  <2> SUFFICES ASSUME NEW k \in Lba, NEW y \in acked'[k] PROVE disk'[k] = y
    BY DEF Durable
  <2>1. CASE k = l
    BY <2>1, <1>6, <1>10
  <2>2. CASE k # l
    <3>1. disk'[k] = d[k] /\ y \in acked[k] /\ disk[k] = y
      BY <2>2, <1>6, <1>10 DEF IInv, Durable
    <3>2. ASSUME d[k] # disk[k] PROVE FALSE
      <4>1. Full /\ cache[0].dirty /\ k = cache[0].lba
        BY <3>2, <1>5
      <4>2. 0 \in Slots /\ cache[0].valid
        BY <4>1, DiskCacheAssumption DEF Full, Slots
      <4>3. acked[k] = {}
        BY <4>1, <4>2 DEF IInv, DirtyUnacked
      <4> QED BY <4>3, <3>1
    <3> QED BY <3>1, <3>2
  <2> QED BY <2>1, <2>2
<1>16. ASSUME Reliable, RInv PROVE RInv'
  <2>1. SlotsLatest'
    <3> SUFFICES ASSUME NEW i \in Slots, cache'[i].valid
                 PROVE  cache'[i].data = latest'[cache'[i].lba]
      BY DEF SlotsLatest
    <3>1. CASE i = s
      BY <3>1, <1>7, <1>9, <1>11
    <3>2. CASE i # s
      BY <3>2, <1>9, <1>11, <1>13, <1>16 DEF RInv, SlotsLatest
    <3> QED BY <3>1, <3>2
  <2>2. CleanOnDisk'
    <3> SUFFICES ASSUME NEW i \in Slots, cache'[i].valid, ~ cache'[i].dirty
                 PROVE  disk'[cache'[i].lba] = cache'[i].data
      BY DEF CleanOnDisk
    <3>1. CASE i = s
      BY <3>1, <1>6, <1>7, <1>9
    <3>2. CASE i # s
      <4>1. /\ cache'[i] = cache[i] /\ disk[cache[i].lba] = cache[i].data
            /\ cache[i].lba \in Lba /\ disk'[cache[i].lba] = d[cache[i].lba]
        BY <3>2, <1>6, <1>9, <1>13, <1>16 DEF RInv, CleanOnDisk
      <4>2. ASSUME d[cache[i].lba] # disk[cache[i].lba] PROVE FALSE
        <5>1. /\ Full /\ cache[0].dirty /\ cache[i].lba = cache[0].lba
              /\ ~ Hit(l) /\ s = 0
          BY <4>1, <4>2, <1>4, <1>5
        <5>2. 0 \in Slots /\ cache[0].valid /\ cache[i].valid
          BY <5>1, DiskCacheAssumption DEF Full, Slots
        <5> QED BY <5>1, <5>2, <3>2 DEF IInv, NoAlias
      <4> QED BY <4>1, <4>2
    <3> QED BY <3>1, <3>2
  <2>3. AbsentOnDisk'
    <3> SUFFICES ASSUME NEW k \in Lba,
                        \A i \in Slots : ~ (cache'[i].valid /\ cache'[i].lba = k)
                 PROVE  disk'[k] = latest'[k]
      BY DEF AbsentOnDisk, Holds
    <3>1. k # l
      BY <1>3, <1>7, <1>9
    <3>2. disk'[k] = d[k] /\ latest'[k] = latest[k]
      BY <3>1, <1>6, <1>11
    <3>3. CASE \A i \in Slots : ~ Holds(i, k)
      <4>1. Full => k # cache[0].lba
        BY <3>3, DiskCacheAssumption DEF Full, Slots, Holds
      <4> QED BY <4>1, <3>2, <3>3, <1>5, <1>16 DEF RInv, AbsentOnDisk
    <3>4. CASE ~ \A i \in Slots : ~ Holds(i, k)
      <4>1. PICK i \in Slots : Holds(i, k)
        BY <3>4
      <4>2. i = s
        BY <4>1, <1>9 DEF Holds
      <4>3. ~ Hit(l)
        BY <4>1, <4>2, <3>1, <1>3 DEF Holds
      <4>4. Full /\ s = 0 /\ cache[0].valid /\ cache[0].lba = k /\ 0 \in Slots
        BY <4>1, <4>2, <4>3, <1>4 DEF Holds
      <4>5. cache[0].data = latest[k]
        BY <4>4, <1>16 DEF RInv, SlotsLatest
      <4>6. CASE cache[0].dirty
        BY <4>3, <4>4, <4>5, <4>6, <3>2, <1>5, <1>16
      <4>7. CASE ~ cache[0].dirty
        BY <4>4, <4>5, <4>7, <3>2, <1>5, <1>16 DEF RInv, CleanOnDisk
      <4> QED BY <4>6, <4>7
    <3> QED BY <3>3, <3>4
  <2>4. FlushedSoFar'
    BY <1>2, DiskCacheAssumption DEF FlushedSoFar, NONE, Slots
  <2> QED BY <2>1, <2>2, <2>3, <2>4 DEF RInv
<1> QED BY <1>9, <1>12, <1>14, <1>15, <1>16 DEF IInv
\* One slot of a flush.
LEMMA FlushSlotSafe ==
    ASSUME IInv, FlushSlot
    PROVE  IInv' /\ (Reliable /\ RInv => RInv')
<1>1. /\ flush_i \in Slots /\ flush_i' = flush_i + 1
      /\ UNCHANGED <<disk_present, latest, acked>>
      /\ flush_i' \in {NONE} \cup 0..DISK_CACHE_SLOTS
  BY DiskCacheAssumption DEF FlushSlot, Slots
<1>2. CASE ~ (cache[flush_i].valid /\ cache[flush_i].dirty)
  <2>1. UNCHANGED <<cache, disk>>
    BY <1>2 DEF FlushSlot
  <2>2. IInv'
    BY <1>1, <2>1 DEF IInv, TypeOK, NoAlias, DirtyUnacked, Durable
  <2>3. ASSUME RInv PROVE RInv'
    <3>1. FlushedSoFar'
      BY <1>1, <1>2, <2>1, <2>3, DiskCacheAssumption DEF RInv, FlushedSoFar, Slots
    <3>2. SlotsLatest' /\ CleanOnDisk' /\ AbsentOnDisk'
      BY <1>1, <2>1, <2>3 DEF RInv, SlotsLatest, CleanOnDisk, AbsentOnDisk, Holds
    <3> QED BY <3>1, <3>2 DEF RInv
  <2> QED BY <2>2, <2>3
<1>3. CASE cache[flush_i].valid /\ cache[flush_i].dirty
  <2> DEFINE f == flush_i
             l == cache[f].lba
             x == cache[f].data
             e == disk'
  <2>1. f \in Slots /\ l \in Lba /\ x \in Data
    BY <1>1, SlotTypes DEF IInv
  <2>2. \E ok \in BOOLEAN : e \in ata_write("flush", ok, disk, l, x)
    BY <1>3 DEF FlushSlot
  <2>3. cache' = [cache EXCEPT ![f].dirty = FALSE]
    BY <1>3 DEF FlushSlot
  <2>4. /\ cache' \in [Slots -> Slot]
        /\ \A i \in Slots : i # f => cache'[i] = cache[i]
        /\ cache'[f].lba = l /\ cache'[f].data = x
        /\ cache'[f].valid = cache[f].valid /\ ~ cache'[f].dirty
    <3>1. /\ cache[f] \in Slot /\ cache \in [Slots -> Slot]
      BY <2>1 DEF IInv, TypeOK
    <3>2. /\ [cache[f] EXCEPT !.dirty = FALSE] \in Slot
          /\ [cache[f] EXCEPT !.dirty = FALSE].lba = l
          /\ [cache[f] EXCEPT !.dirty = FALSE].data = x
          /\ [cache[f] EXCEPT !.dirty = FALSE].valid = cache[f].valid
          /\ [cache[f] EXCEPT !.dirty = FALSE].dirty = FALSE
      BY <3>1 DEF Slot
    <3>3. cache' = [cache EXCEPT ![f] = [cache[f] EXCEPT !.dirty = FALSE]]
      BY <2>3
    <3> QED BY <2>1, <3>1, <3>2, <3>3
  <2>5. disk \in [Lba -> Data]
    BY DEF IInv, TypeOK
  <2> HIDE DEF f, l, x, e
  <2>6. /\ e \in [Lba -> Data]
        /\ \A k \in Lba : k # l => e[k] = disk[k]
        /\ "flush" \notin Faults => e[l] = x
    <3>1. PICK ok \in BOOLEAN : e \in ata_write("flush", ok, disk, l, x)
      BY <2>2
    <3> QED BY <2>1, <2>5, <3>1, Written
  <2>7. cache[f].valid /\ cache[f].dirty /\ cache[f].lba = l /\ cache[f].data = x
    BY <1>3 DEF f, l, x
  <2>8. disk' = e /\ flush_i = f
    BY DEF e, f
  <2>9. acked[l] = {}
    BY <2>1, <2>7 DEF IInv, DirtyUnacked
  <2>10. \A i \in Slots : cache'[i].lba = cache[i].lba /\ cache'[i].data = cache[i].data
                             /\ cache'[i].valid = cache[i].valid
    BY <2>4, <2>7
  <2>11. TypeOK'
    BY <1>1, <2>4, <2>6, <2>8 DEF IInv, TypeOK
  <2>12. NoAlias'
    BY <2>10 DEF IInv, NoAlias
  <2>13. DirtyUnacked'
    BY <1>1, <2>4 DEF IInv, DirtyUnacked
  <2>14. Durable'
    BY <1>1, <2>6, <2>8, <2>9 DEF IInv, Durable
  <2>15. ASSUME Reliable, RInv PROVE RInv'
    <3>1. e[l] = x
      BY <2>6, <2>15 DEF Reliable
    <3>2. SlotsLatest'
      BY <1>1, <2>10, <2>15 DEF RInv, SlotsLatest
    <3>3. CleanOnDisk'
      <4> SUFFICES ASSUME NEW i \in Slots, cache'[i].valid, ~ cache'[i].dirty
                   PROVE  e[cache'[i].lba] = cache'[i].data
        BY <2>8 DEF CleanOnDisk
      <4>1. CASE i = f
        BY <4>1, <2>4, <3>1
      <4>2. CASE i # f
        <5>1. /\ cache'[i] = cache[i] /\ disk[cache[i].lba] = cache[i].data
              /\ cache[i].lba \in Lba
          BY <4>2, <2>4, <2>15, SlotTypes DEF RInv, CleanOnDisk, IInv
        <5>2. cache[i].lba # l
          BY <4>2, <5>1, <2>1, <2>7 DEF IInv, NoAlias
        <5> QED BY <5>1, <5>2, <2>6
      <4> QED BY <4>1, <4>2
    <3>4. AbsentOnDisk'
      <4> SUFFICES ASSUME NEW k \in Lba,
                          \A i \in Slots : ~ (cache'[i].valid /\ cache'[i].lba = k)
                   PROVE  e[k] = latest[k]
        BY <1>1, <2>8 DEF AbsentOnDisk, Holds
      <4>1. \A i \in Slots : ~ Holds(i, k)
        BY <2>10 DEF Holds
      <4>2. k # l
        BY <4>1, <2>1, <2>7 DEF Holds
      <4> QED BY <4>1, <4>2, <2>6, <2>15 DEF RInv, AbsentOnDisk
    <3>5. FlushedSoFar'
      <4> SUFFICES ASSUME NEW i \in Slots, i < f + 1
                   PROVE  ~ (cache'[i].valid /\ cache'[i].dirty)
        BY <1>1, <2>8 DEF FlushedSoFar
      <4>1. CASE i = f
        BY <4>1, <2>4
      <4>2. CASE i # f
        <5>1. i < flush_i
          BY <4>2, <2>1, <2>8, DiskCacheAssumption DEF Slots
        <5> QED BY <5>1, <4>2, <2>4, <2>15 DEF RInv, FlushedSoFar
      <4> QED BY <4>1, <4>2
    <3> QED BY <3>2, <3>3, <3>4, <3>5 DEF RInv
  <2> QED BY <2>11, <2>12, <2>13, <2>14, <2>15 DEF IInv
<1> QED BY <1>2, <1>3

\* An empty cache, at boot and when the power comes back.
LEMMA ClearedSafe ==
    /\ Cleared \in [Slots -> Slot]
    /\ \A i \in Slots : Cleared[i].valid = FALSE
<1>1. (CHOOSE l \in Lba : TRUE) \in Lba /\ (CHOOSE x \in Data : TRUE) \in Data
  BY DiskCacheAssumption, Zenon
<1>2. [lba |-> CHOOSE l \in Lba : TRUE, data |-> CHOOSE x \in Data : TRUE,
       valid |-> FALSE, dirty |-> FALSE] \in Slot
  BY <1>1, NewSlot
<1> QED BY <1>2 DEF Cleared

\* The empty cache satisfies the invariants.
LEMMA InitSafe == Init => IInv /\ RInv
<1> SUFFICES ASSUME Init PROVE IInv /\ RInv
  OBVIOUS
<1>1. cache \in [Slots -> Slot] /\ \A i \in Slots : cache[i].valid = FALSE
  BY ClearedSafe DEF Init
<1>2. TypeOK
  BY <1>1 DEF Init, TypeOK
<1>3. NoAlias /\ DirtyUnacked /\ Durable
  BY <1>1 DEF Init, NoAlias, DirtyUnacked, Durable
<1>4. RInv
  BY <1>1 DEF Init, RInv, SlotsLatest, CleanOnDisk, AbsentOnDisk, FlushedSoFar
<1> QED BY <1>2, <1>3, <1>4 DEF IInv

\* Every step keeps the invariants.
LEMMA NextSafe == IInv /\ [Next]_vars => IInv' /\ (Reliable /\ RInv => RInv')
<1> SUFFICES ASSUME IInv, [Next]_vars PROVE IInv' /\ (Reliable /\ RInv => RInv')
  OBVIOUS
<1>1. ASSUME NEW l \in Lba, ReadMiss(l) PROVE IInv' /\ (Reliable /\ RInv => RInv')
  BY <1>1, ReadMissSafe
<1>2. ASSUME NEW l \in Lba, NEW x \in Data, disk_write_sector(l, x)
      PROVE  IInv' /\ (Reliable /\ RInv => RInv')
  BY <1>2, WriteSafe
<1>3. CASE FlushSlot
  BY <1>3, FlushSlotSafe
<1>4. CASE disk_cache_flush \/ FlushReturn
  <2>1. /\ UNCHANGED <<cache, disk_present, disk, latest, acked>>
        /\ flush_i' \in {NONE, 0}
    BY <1>4 DEF disk_cache_flush, FlushReturn
  <2>2. IInv'
    BY <2>1, DiskCacheAssumption DEF IInv, TypeOK, NoAlias, DirtyUnacked, Durable
  <2>3. RInv => RInv'
    BY <2>1, DiskCacheAssumption
       DEF RInv, SlotsLatest, CleanOnDisk, AbsentOnDisk, FlushedSoFar, Holds, NONE, Slots
  <2> QED BY <2>2, <2>3
<1>5. CASE PowerCycle
  <2>1. /\ cache' \in [Slots -> Slot] /\ \A i \in Slots : cache'[i].valid = FALSE
        /\ flush_i' = NONE /\ latest' = disk
        /\ UNCHANGED <<disk_present, disk, acked>>
    BY <1>5, ClearedSafe DEF PowerCycle
  <2>2. IInv'
    BY <2>1 DEF IInv, TypeOK, NoAlias, DirtyUnacked, Durable
  <2>3. RInv'
    BY <2>1 DEF RInv, SlotsLatest, CleanOnDisk, AbsentOnDisk, FlushedSoFar
  <2> QED BY <2>2, <2>3
<1>6. CASE UNCHANGED vars
  BY <1>6 DEF vars, IInv, TypeOK, NoAlias, DirtyUnacked, Durable, RInv, SlotsLatest,
              CleanOnDisk, AbsentOnDisk, FlushedSoFar, Holds
<1>7. ASSUME NEW l \in Lba, ReadHit(l) PROVE UNCHANGED vars
  BY <1>7 DEF ReadHit
<1> QED BY <1>1, <1>2, <1>3, <1>4, <1>5, <1>6, <1>7 DEF Next

-----------------------------------------------------------------------------

\* The invariant holds in every reachable state, whatever the drive does.
THEOREM Invariance == Spec => []IInv
<1>1. Init => IInv
  BY InitSafe
<1>2. IInv /\ [Next]_vars => IInv'
  BY NextSafe
<1> QED BY <1>1, <1>2, PTL DEF Spec

\* Every variable keeps its type.
THEOREM TypeCorrect == Spec => []TypeOK
<1>1. IInv => TypeOK
  BY DEF IInv
<1> QED BY <1>1, Invariance, PTL

\* cache_find has at most one slot to find, whatever the drive reports: no read
\* sees an older copy of a sector (disk.c:32-59).
THEOREM OneSlotPerSector == Spec => []NoAlias
<1>1. IInv => NoAlias
  BY DEF IInv
<1> QED BY <1>1, Invariance, PTL

\* A disk_write_sector that returned 1 is on the drive until the sector is
\* written again, through evictions, flushes, errors and losses of power
\* (disk.c:78-99).
THEOREM AcknowledgedIsDurable == Spec => []Durable
<1>1. IInv => Durable
  BY DEF IInv
<1> QED BY <1>1, Invariance, PTL

\* With a drive that never fails, so does the part about what is on the disk.
LEMMA ReliableInvariance == Reliable /\ Spec => []RInv
<1>1. Init => RInv
  BY InitSafe
<1>2. Reliable /\ IInv /\ RInv /\ [Next]_vars => RInv'
  BY NextSafe
<1>3. Reliable => []Reliable
  <2>1. Reliable => Reliable'
    BY DEF Reliable
  <2> QED BY <2>1, PTL
<1> QED BY <1>1, <1>2, <1>3, Invariance, PTL DEF Spec

\* While write-backs succeed, a read returns what was written last, although
\* the drive may have refused that write (disk.c:61-88).
THEOREM ReadsSeeWrites == Reliable /\ Spec => []NothingLost
<1>1. RInv => NothingLost
  <2> SUFFICES ASSUME RInv, NEW l \in Lba PROVE Current(l) = latest[l]
    BY DEF NothingLost
  <2>1. CASE Hit(l)
    BY <2>1, FoundHolds DEF Current, Holds, RInv, SlotsLatest
  <2>2. CASE ~ Hit(l)
    BY <2>2 DEF Current, Hit, RInv, AbsentOnDisk
  <2> QED BY <2>1, <2>2
<1> QED BY <1>1, ReliableInvariance, PTL

\* While write-backs succeed, the drive holds everything that was written when
\* disk_cache_flush returns (disk.c:90-99).
THEOREM FlushLeavesNothing == Reliable /\ Spec => []FlushCompletes
<1>1. RInv /\ TypeOK => FlushCompletes
  <2> SUFFICES ASSUME RInv, TypeOK, flush_i = DISK_CACHE_SLOTS, NEW l \in Lba
               PROVE  disk[l] = latest[l]
    BY DEF FlushCompletes
  <2>1. \A i \in Slots : ~ (cache[i].valid /\ cache[i].dirty)
    BY DiskCacheAssumption DEF RInv, FlushedSoFar, Slots
  <2>2. CASE \E i \in Slots : Holds(i, l)
    BY <2>1, <2>2 DEF Holds, RInv, SlotsLatest, CleanOnDisk
  <2>3. CASE ~ \E i \in Slots : Holds(i, l)
    BY <2>3 DEF RInv, AbsentOnDisk
  <2> QED BY <2>2, <2>3
<1> QED BY <1>1, ReliableInvariance, TypeCorrect, PTL
=============================================================================
