----------------------------- MODULE Fat12_proofs -----------------------------
(***************************************************************************)
(* Proofs about module Fat12, for all sizes of the disk, of the directory  *)
(* and of a cluster.                                                       *)
(***************************************************************************)
EXTENDS Fat12, TLAPS, WellFoundedInduction, FiniteSetTheorems

-----------------------------------------------------------------------------
(* Least elements and loops.                                                *)

\* A loop over the clusters or the entries stops at the least of those it looks
\* for.
LEMMA LeastNat ==
  ASSUME NEW T \in SUBSET Nat, T # {}
  PROVE  \E x \in T : \A y \in T : x <= y
<1>1. PICK x \in T : \A y \in T : <<y, x>> \notin OpToRel(<, Nat)
  BY NatLessThanWellFounded, WFMin, Zenon
<1>2. ASSUME NEW y \in T PROVE ~ (y < x)
  <2>1. y \in Nat /\ x \in Nat
    OBVIOUS
  <2>2. QED
    BY <1>1, <2>1 DEF OpToRel
<1>3. QED
  BY <1>2

\* Induction, for the set of the numbers that have a property: what holds
\* before a loop and after every round of it holds after all of them.
LEMMA SetInduction ==
  ASSUME NEW n \in Nat, NEW T, 0 \in T,
         \A k \in 0..(n - 1) : k \in T => k + 1 \in T
  PROVE  0..n \subseteq T
<1> DEFINE Rest == {k \in 0..n : k \notin T}
<1>1. SUFFICES ASSUME Rest # {}
               PROVE  FALSE
  OBVIOUS
<1>2. Rest \in SUBSET Nat
  OBVIOUS
<1>3. PICK m \in Rest : \A k \in Rest : m <= k
  BY <1>1, <1>2, LeastNat
<1>4. m \in 0..n /\ m \notin T /\ m # 0
  BY <1>3
<1>5. m - 1 \in 0..(n - 1) /\ m - 1 \in 0..n /\ m - 1 + 1 = m
  BY <1>4
<1>6. m - 1 \notin Rest
  BY <1>3, <1>4, <1>5
<1>7. QED
  BY <1>4, <1>5, <1>6

\* The values after each of n rounds of a loop that starts with a and turns x
\* into step[k, x] in round k.
IsLoop(f, S, a, n, step) ==
    f \in [0..n -> S] /\ f[0] = a /\ \A k \in 1..n : f[k] = step[<<k, f[k - 1]>>]

\* Such a loop has a value after each round.
LEMMA Iteration ==
  ASSUME NEW S, NEW a \in S, NEW n \in Nat, NEW step \in [(1..n) \X S -> S]
  PROVE  \E f : IsLoop(f, S, a, n, step)
<1> DEFINE Loop(f, m) == f[0] = a /\ \A k \in 1..m : f[k] = step[<<k, f[k - 1]>>]
           T == {m \in 0..n : \E f \in [0..m -> S] : Loop(f, m)}
<1>1. 0 \in T
  <2> DEFINE f == [k \in 0..0 |-> a]
  <2>1. f \in [0..0 -> S] /\ Loop(f, 0)
    OBVIOUS
  <2> HIDE DEF f
  <2>2. QED
    BY <2>1
<1>2. ASSUME NEW m \in 0..(n - 1), m \in T
      PROVE  m + 1 \in T
  <2>1. PICK f \in [0..m -> S] : Loop(f, m)
    BY <1>2
  <2> DEFINE g == [k \in 0..(m + 1) |-> IF k = m + 1 THEN step[<<m + 1, f[m]>>] ELSE f[k]]
  <2>2. m + 1 \in 1..n /\ f[m] \in S
    OBVIOUS
  <2>3. <<m + 1, f[m]>> \in (1..n) \X S
    BY <2>2
  <2>4. step[<<m + 1, f[m]>>] \in S
    BY <2>3
  <2>5. g \in [0..(m + 1) -> S]
    BY <2>4
  <2>6. g[0] = a
    BY <2>1
  <2>7. ASSUME NEW k \in 1..(m + 1)
        PROVE  g[k] = step[<<k, g[k - 1]>>]
    <3>1. CASE k = m + 1
      <4>1. k \in 0..(m + 1) /\ k - 1 = m /\ m \in 0..(m + 1) /\ m # m + 1
        BY <3>1
      <4>2. g[k] = step[<<k, f[m]>>] /\ g[k - 1] = f[m]
        BY <4>1, <3>1
      <4>3. QED
        BY <4>2
    <3>2. CASE k # m + 1
      <4>1. k \in 1..m /\ k - 1 \in 0..(m + 1) /\ k - 1 # m + 1 /\ k \in 0..(m + 1)
        BY <3>2
      <4>2. g[k] = f[k] /\ g[k - 1] = f[k - 1]
        BY <4>1, <3>2
      <4>3. f[k] = step[<<k, f[k - 1]>>]
        BY <4>1, <2>1
      <4>4. QED
        BY <4>2, <4>3
    <3>3. QED
      BY <3>1, <3>2
  <2> HIDE DEF g
  <2>8. Loop(g, m + 1)
    BY <2>6, <2>7
  <2>9. m + 1 \in 0..n
    OBVIOUS
  <2>10. QED
    BY <2>5, <2>8, <2>9
<1>3. 0..n \subseteq T
  <2> HIDE DEF T
  <2>1. QED
    BY <1>1, <1>2, SetInduction
<1>4. n \in T
  BY <1>3
<1>5. PICK f \in [0..n -> S] : Loop(f, n)
  BY <1>4
<1>6. IsLoop(f, S, a, n, step)
  BY <1>5 DEF IsLoop
<1>7. QED
  BY <1>6

\* A loop stays where each of its rounds stays.
LEMMA LoopStays ==
  ASSUME NEW S, NEW n \in Nat, NEW f, f[0] \in S,
         \A k \in 1..n : f[k - 1] \in S => f[k] \in S
  PROVE  \A k \in 0..n : f[k] \in S
<1> DEFINE T == {k \in 0..n : f[k] \in S}
<1>1. 0 \in T
  OBVIOUS
<1>2. ASSUME NEW k \in 0..(n - 1), k \in T
      PROVE  k + 1 \in T
  <2>1. k + 1 \in 1..n /\ k + 1 \in 0..n /\ (k + 1) - 1 = k
    OBVIOUS
  <2>2. f[k + 1] \in S
    BY <1>2, <2>1
  <2>3. QED
    BY <2>1, <2>2
<1>3. 0..n \subseteq T
  <2> HIDE DEF T
  <2>1. QED
    BY <1>1, <1>2, SetInduction
<1>4. QED
  BY <1>3

-----------------------------------------------------------------------------
(* The clusters that fat_data holds.                                        *)

\* There are some, whatever the size of the disk, and the entry of each lies
\* within the array.
LEMMA HeldFits ==
  /\ Held \in Nat \ {0}
  /\ (((Held + 1) * 3) \div 2) + 1 < FatSectors * FatSectorBytes
  /\ FatSectors * FatSectorBytes \in Nat
<1> DEFINE size == FatSectors * FatSectorBytes
           most == (((2 * FatSectors * FatSectorBytes) - 3) \div 3) - 1
<1>1. size \in Nat /\ size >= 5
  BY Fat12Assumption
<1>2. 2 * FatSectors * FatSectorBytes = 2 * size
  BY Fat12Assumption
<1>3. most = (((2 * size) - 3) \div 3) - 1
  BY <1>2
<1>4. TableClusters = most
  BY DEF TableClusters
<1>5. FatSectors = 1 => size = FatSectorBytes
  BY Fat12Assumption
<1>6. TotalClusters \in Nat \ {0}
  BY Fat12Assumption
<1> HIDE DEF size, most
<1>7. most \in Nat \ {0} /\ (((most + 1) * 3) \div 2) + 1 < size
  BY <1>1, <1>3
<1>8. TotalClusters <= most => (((TotalClusters + 1) * 3) \div 2) + 1 < size
  BY <1>1, <1>6, <1>7
<1>9. QED
  BY <1>1, <1>4, <1>6, <1>7, <1>8 DEF Held, size

-----------------------------------------------------------------------------
(* The table: an entry of 12 bits reads as it was set, and so do all others. *)

Table == [Bytes -> 0..255]
Words == 0..4095

\* The entries of the table: the clusters and the two reserved ones.
Slots == 0..(Held + 1)

\* The two bytes of an entry are bytes of fat_data.
LEMMA Room ==
  ASSUME NEW c \in Slots
  PROVE  Offset(c) \in Bytes /\ Offset(c) + 1 \in Bytes /\ Offset(c) \in Nat
<1> DEFINE size == FatSectors * FatSectorBytes
           m == Held + 1
<1>1. size \in Nat
  BY HeldFits, Fat12Assumption
<1>2. m \in Nat /\ c \in 0..m /\ ((m * 3) \div 2) + 1 < size
  BY HeldFits, Fat12Assumption DEF Slots
<1>3. Bytes = 0..(size - 1)
  BY DEF Bytes
<1> HIDE DEF size, m
<1>4. c + (c \div 2) \in Nat /\ c + (c \div 2) <= (m * 3) \div 2
  BY <1>2
<1>5. QED
  BY <1>1, <1>2, <1>3, <1>4 DEF Offset

\* Two entries share no byte, or they are the two halves of three bytes.
LEMMA Halves ==
  ASSUME NEW c \in Nat
  PROVE  \E a \in Nat : \/ c = 2 * a /\ c % 2 = 0 /\ Offset(c) = 3 * a
                        \/ c = 2 * a + 1 /\ c % 2 = 1 /\ Offset(c) = 3 * a + 1
<1>1. c \div 2 \in Nat /\ ((c = 2 * (c \div 2) /\ c % 2 = 0) \/ (c = 2 * (c \div 2) + 1 /\ c % 2 = 1))
  OBVIOUS
<1>2. QED
  BY <1>1 DEF Offset

\* fat12_set keeps bytes bytes.
LEMMA SetType ==
  ASSUME NEW f \in Table, NEW c \in Slots, NEW v \in Words
  PROVE  fat12_set(f, c, v) \in Table
<1>1. Offset(c) \in Bytes /\ Offset(c) + 1 \in Bytes /\ Offset(c) \in Nat
  BY Room
<1>2. f[Offset(c)] \in 0..255 /\ f[Offset(c) + 1] \in 0..255
  BY <1>1 DEF Table
<1>3. \A x \in 0..255 : (x % 16) + ((v % 16) * 16) \in 0..255
  BY DEF Words
<1>4. v \div 16 \in 0..255 /\ v % 256 \in 0..255
  BY DEF Words
<1>5. \A x \in 0..255 : ((x \div 16) * 16) + (v \div 256) \in 0..255
  BY DEF Words
<1>6. QED
  BY <1>1, <1>2, <1>3, <1>4, <1>5 DEF fat12_set, Table

\* What fat12_set does to the two bytes of the entry, and to no other.
LEMMA SetBytes ==
  ASSUME NEW f \in Table, NEW c \in Slots, NEW v \in Words
  PROVE  /\ \A b \in Bytes : b # Offset(c) /\ b # Offset(c) + 1 => fat12_set(f, c, v)[b] = f[b]
         /\ c % 2 = 1 => /\ fat12_set(f, c, v)[Offset(c)] = (f[Offset(c)] % 16) + ((v % 16) * 16)
                         /\ fat12_set(f, c, v)[Offset(c) + 1] = v \div 16
         /\ c % 2 # 1 => /\ fat12_set(f, c, v)[Offset(c)] = v % 256
                         /\ fat12_set(f, c, v)[Offset(c) + 1] = ((f[Offset(c) + 1] \div 16) * 16) + (v \div 256)
<1>1. Offset(c) \in Bytes /\ Offset(c) + 1 \in Bytes /\ Offset(c) \in Nat /\ Offset(c) # Offset(c) + 1
  BY Room
<1>2. f = [b \in Bytes |-> f[b]]
  BY DEF Table
<1>3. QED
  BY <1>1, <1>2 DEF fat12_set

\* An entry is a word.
LEMMA GetType ==
  ASSUME NEW f \in Table, NEW c \in Slots
  PROVE  fat12_get(f, c) \in Words
<1>1. f[Offset(c)] \in 0..255 /\ f[Offset(c) + 1] \in 0..255
  BY Room DEF Table
<1> DEFINE x == f[Offset(c)]
           y == f[Offset(c) + 1]
<1>3. fat12_get(f, c) = IF c % 2 = 1 THEN (x \div 16) + (y * 16) ELSE x + ((y % 16) * 256)
  BY DEF fat12_get
<1> HIDE DEF x, y
<1>4. x \in 0..255 /\ y \in 0..255
  BY <1>1 DEF x, y
<1>5. (x \div 16) + (y * 16) \in 0..4095 /\ x + ((y % 16) * 256) \in 0..4095
  <2>1. x \div 16 \in 0..15 /\ y % 16 \in 0..15
    BY <1>4
  <2> DEFINE u == x \div 16
             w == y % 16
  <2> HIDE DEF u, w
  <2>2. u + (y * 16) \in 0..4095 /\ x + (w * 256) \in 0..4095
    BY <1>4, <2>1 DEF u, w
  <2>3. QED
    BY <2>2 DEF u, w
<1> DEFINE u == (x \div 16) + (y * 16)
           w == x + ((y % 16) * 256)
<1>6. u \in Words /\ w \in Words
  BY <1>5 DEF Words
<1>7. fat12_get(f, c) = u \/ fat12_get(f, c) = w
  BY <1>3
<1> HIDE DEF u, w
<1>8. QED
  BY <1>6, <1>7

\* fat12_get after fat12_set.
LEMMA GetSet ==
  ASSUME NEW f \in Table, NEW c \in Slots, NEW v \in Words, NEW d \in Slots
  PROVE  fat12_get(fat12_set(f, c, v), d) = IF d = c THEN v ELSE fat12_get(f, d)
<1> DEFINE g == fat12_set(f, c, v)
           oc == Offset(c)
           od == Offset(d)
<1>1. c \in Nat /\ d \in Nat
  BY HeldFits, Fat12Assumption DEF Slots
<1>2. PICK a \in Nat : \/ c = 2 * a /\ c % 2 = 0 /\ oc = 3 * a
                       \/ c = 2 * a + 1 /\ c % 2 = 1 /\ oc = 3 * a + 1
  BY <1>1, Halves
<1>3. PICK b \in Nat : \/ d = 2 * b /\ d % 2 = 0 /\ od = 3 * b
                       \/ d = 2 * b + 1 /\ d % 2 = 1 /\ od = 3 * b + 1
  BY <1>1, Halves
<1>4. /\ oc \in Bytes /\ oc + 1 \in Bytes /\ oc \in Nat
      /\ od \in Bytes /\ od + 1 \in Bytes /\ od \in Nat
  BY Room
<1>5. /\ \A x \in Bytes : x # oc /\ x # oc + 1 => g[x] = f[x]
      /\ c % 2 = 1 => g[oc] = (f[oc] % 16) + ((v % 16) * 16) /\ g[oc + 1] = v \div 16
      /\ c % 2 # 1 => g[oc] = v % 256 /\ g[oc + 1] = ((f[oc + 1] \div 16) * 16) + (v \div 256)
  BY SetBytes
<1>6. /\ fat12_get(g, d) = IF d % 2 = 1 THEN (g[od] \div 16) + (g[od + 1] * 16) ELSE g[od] + ((g[od + 1] % 16) * 256)
      /\ fat12_get(f, d) = IF d % 2 = 1 THEN (f[od] \div 16) + (f[od + 1] * 16) ELSE f[od] + ((f[od + 1] % 16) * 256)
  BY DEF fat12_get
<1>7. f[oc] \in 0..255 /\ f[oc + 1] \in 0..255
  BY <1>4 DEF Table
<1> SUFFICES fat12_get(g, d) = IF d = c THEN v ELSE fat12_get(f, d)
  OBVIOUS
<1> HIDE DEF g, oc, od
<1>8. CASE d = c
  <2>1. od = oc
    BY <1>8 DEF oc, od
  <2>2. \A x \in 0..255 : (((x % 16) + ((v % 16) * 16)) \div 16) + ((v \div 16) * 16) = v
    BY DEF Words
  <2>3. \A x \in 0..255 : (v % 256) + (((((x \div 16) * 16) + (v \div 256)) % 16) * 256) = v
    BY DEF Words
  <2>4. QED
    BY <1>8, <2>1, <2>2, <2>3, <1>2, <1>5, <1>6, <1>7
<1>9. CASE d # c
  <2>1. CASE a # b
    <3>1. od # oc /\ od # oc + 1 /\ od + 1 # oc /\ od + 1 # oc + 1
      BY <2>1, <1>2, <1>3
    <3>2. g[od] = f[od] /\ g[od + 1] = f[od + 1]
      BY <3>1, <1>4, <1>5
    <3>3. QED
      BY <1>9, <3>2, <1>6
  <2>2. CASE a = b /\ c = 2 * a
    <3>1. c % 2 = 0 /\ d % 2 = 1 /\ oc = 3 * a /\ od = 3 * a + 1
      BY <2>2, <1>9, <1>2, <1>3
    <3>2. od = oc + 1 /\ od + 1 # oc /\ od + 1 # oc + 1
      BY <3>1, <1>4
    <3>3. g[od + 1] = f[od + 1] /\ g[od] = ((f[od] \div 16) * 16) + (v \div 256)
      BY <3>1, <3>2, <1>4, <1>5
    <3>4. \A x \in 0..255 : (((x \div 16) * 16) + (v \div 256)) \div 16 = x \div 16
      BY DEF Words
    <3>5. QED
      BY <1>9, <3>1, <3>2, <3>3, <3>4, <1>6, <1>7
  <2>3. CASE a = b /\ c = 2 * a + 1
    <3>1. c % 2 = 1 /\ d % 2 = 0 /\ oc = 3 * a + 1 /\ od = 3 * a
      BY <2>3, <1>9, <1>2, <1>3
    <3>2. od + 1 = oc /\ od # oc /\ od # oc + 1
      BY <3>1, <1>4
    <3>3. g[od] = f[od] /\ g[od + 1] = (f[od + 1] % 16) + ((v % 16) * 16)
      BY <3>1, <3>2, <1>4, <1>5
    <3>4. \A x \in 0..255 : ((x % 16) + ((v % 16) * 16)) % 16 = x % 16
      BY DEF Words
    <3>5. QED
      BY <1>9, <3>1, <3>2, <3>3, <3>4, <1>6, <1>7
  <2>4. QED
    BY <2>1, <2>2, <2>3, <1>2
<1>10. QED
  BY <1>8, <1>9

-----------------------------------------------------------------------------
(* Chains.  H is a set of clusters at which chains begin: every cluster has *)
(* at most one predecessor, what is pointed at is taken, and nothing points *)
(* at a beginning.  So a chain neither branches nor joins nor closes.       *)

Sound(f, H) ==
    /\ f \in Table
    /\ H \subseteq Clusters
    /\ \A h \in H : fat12_get(f, h) # 0
    /\ \A c \in Clusters : fat12_get(f, c) \in Clusters \cup {0, EOC}
    /\ \A c \in Clusters : fat12_get(f, c) \in Clusters =>
          fat12_get(f, fat12_get(f, c)) # 0 /\ fat12_get(f, c) \notin H
    /\ \A c, d \in Clusters : fat12_get(f, c) \in Clusters /\ fat12_get(f, c) = fat12_get(f, d) => c = d

\* The disk has fewer clusters than the marks that end a chain: fat_data holds
\* 682 entries.
LEMMA ClusterFacts ==
  /\ Clusters \subseteq Slots /\ Clusters \subseteq Words /\ Clusters \subseteq Nat
  /\ 0 \in Slots /\ 1 \in Slots /\ 0 \notin Clusters /\ 1 \notin Clusters /\ EOC \notin Clusters
  /\ EOC \in Words /\ 0 \in Words /\ EOC # 0
  /\ \A c \in Clusters \cup {0, EOC} : Linked(c) <=> c \in Clusters
<1> DEFINE m == Held + 1
<1>1. m \in Nat /\ m >= 2
  BY HeldFits, Fat12Assumption
<1>2. FatSectors * FatSectorBytes <= 1024
  <2>1. CASE FatSectors = 1
    BY <2>1, HeldFits, Fat12Assumption
  <2>2. CASE FatSectors = 2
    BY <2>2, HeldFits, Fat12Assumption
  <2>3. QED
    BY <2>1, <2>2, HeldFits, Fat12Assumption
<1>3. ((m * 3) \div 2) + 1 < 1024
  <2>1. FatSectors * FatSectorBytes \in Nat
    BY HeldFits, Fat12Assumption
  <2>2. ((m * 3) \div 2) + 1 < FatSectors * FatSectorBytes
    BY HeldFits, Fat12Assumption
  <2> HIDE DEF m
  <2>3. QED
    BY <1>1, <1>2, <2>1, <2>2
<1>4. Clusters = 2..m /\ Slots = 0..m
  BY DEF Clusters, Slots
<1> HIDE DEF m
<1>5. m <= 1024
  BY <1>1, <1>3
<1>6. QED
  BY <1>1, <1>4, <1>5 DEF Words, EOC, Linked

\* GetSet for clusters.
LEMMA SetIs ==
  ASSUME NEW f \in Table, NEW c \in Clusters, NEW v \in Words
  PROVE  /\ fat12_set(f, c, v) \in Table
         /\ \A d \in Clusters : fat12_get(fat12_set(f, c, v), d) = IF d = c THEN v ELSE fat12_get(f, d)
<1>1. c \in Slots /\ \A d \in Clusters : d \in Slots
  BY ClusterFacts
<1>2. QED
  BY <1>1, SetType, GetSet

\* Fewer beginnings.
LEMMA SoundSubset ==
  ASSUME NEW f, NEW H, NEW G, Sound(f, H), G \subseteq H
  PROVE  Sound(f, G)
BY DEF Sound

\* A free cluster is taken: a new chain of one cluster.
LEMMA Take ==
  ASSUME NEW f, NEW H, Sound(f, H), NEW n \in Clusters, fat12_get(f, n) = 0
  PROVE  Sound(fat12_set(f, n, EOC), H \cup {n}) /\ n \notin H
<1> DEFINE g == fat12_set(f, n, EOC)
<1>1. f \in Table /\ n \in Slots /\ n \notin H /\ H \cup {n} \subseteq Clusters
  BY ClusterFacts DEF Sound
<1>2. g \in Table
  BY <1>1, ClusterFacts, SetType
<1>3. \A d \in Clusters : fat12_get(g, d) = IF d = n THEN EOC ELSE fat12_get(f, d)
  BY <1>1, ClusterFacts, GetSet
<1> HIDE DEF g
<1>4. \A x \in H \cup {n} : fat12_get(g, x) # 0
  BY <1>1, <1>3, ClusterFacts DEF Sound
<1>5. \A c \in Clusters : fat12_get(g, c) \in Clusters \cup {0, EOC}
  BY <1>3 DEF Sound
<1>6. ASSUME NEW c \in Clusters, fat12_get(g, c) \in Clusters
      PROVE  fat12_get(g, fat12_get(g, c)) # 0 /\ fat12_get(g, c) \notin H \cup {n}
  <2>1. fat12_get(g, c) = fat12_get(f, c)
    BY <1>3, <1>6, ClusterFacts
  <2>2. fat12_get(f, c) \notin H /\ fat12_get(f, fat12_get(f, c)) # 0
    BY <1>6, <2>1 DEF Sound
  <2>3. fat12_get(f, c) # n
    BY <2>2
  <2>4. QED
    BY <1>3, <1>6, <2>1, <2>2, <2>3
<1>7. \A c, d \in Clusters : fat12_get(g, c) \in Clusters /\ fat12_get(g, c) = fat12_get(g, d) => c = d
  BY <1>3, ClusterFacts DEF Sound
<1>8. Sound(g, H \cup {n})
  BY <1>1, <1>2, <1>4, <1>5, <1>6, <1>7 DEF Sound
<1>9. QED
  BY <1>1, <1>8 DEF g

\* A chain that begins at n is linked behind the last cluster of another one.
LEMMA LinkBehind ==
  ASSUME NEW f, NEW H, NEW n \in H, Sound(f, H), NEW p \in Clusters, fat12_get(f, p) = EOC
  PROVE  Sound(fat12_set(f, p, n), H \ {n})
<1> DEFINE g == fat12_set(f, p, n)
<1>1. f \in Table /\ n \in Clusters /\ p \in Slots /\ n \in Words /\ n # 0
  BY ClusterFacts DEF Sound
<1>2. g \in Table
  BY <1>1, SetType
<1>3. \A d \in Clusters : fat12_get(g, d) = IF d = p THEN n ELSE fat12_get(f, d)
  BY <1>1, ClusterFacts, GetSet
<1> HIDE DEF g
<1>4. \A d \in Clusters : fat12_get(f, d) # 0 => fat12_get(g, d) # 0
  BY <1>1, <1>3
<1>5. \A c \in Clusters : fat12_get(g, c) \in Clusters \cup {0, EOC}
  BY <1>1, <1>3 DEF Sound
<1>6. ASSUME NEW c \in Clusters, fat12_get(g, c) \in Clusters
      PROVE  fat12_get(g, fat12_get(g, c)) # 0 /\ fat12_get(g, c) \notin H \ {n}
  <2>1. CASE c = p
    BY <1>1, <1>3, <1>4, <2>1 DEF Sound
  <2>2. CASE c # p
    BY <1>3, <1>4, <1>6, <2>2 DEF Sound
  <2>3. QED
    BY <2>1, <2>2
<1>7. \A c \in Clusters : fat12_get(f, c) # n
  BY <1>1 DEF Sound
<1>8. \A c, d \in Clusters : fat12_get(g, c) \in Clusters /\ fat12_get(g, c) = fat12_get(g, d) => c = d
  BY <1>3, <1>7 DEF Sound
<1>9. Sound(g, H \ {n})
  BY <1>2, <1>4, <1>5, <1>6, <1>8 DEF Sound
<1>10. QED
  BY <1>9 DEF g

-----------------------------------------------------------------------------
(* Walking along a chain.                                                   *)

\* The recursive function of Walk has a value, and so it is what it says.
LEMMA WalkIs ==
  ASSUME NEW f \in Table, NEW c \in Words
  PROVE  /\ Walk(f, c) \in [0..Held -> Words]
         /\ Walk(f, c)[0] = c
         /\ \A k \in 1..Held :
               Walk(f, c)[k] = IF Walk(f, c)[k - 1] \in Clusters THEN fat12_get(f, Walk(f, c)[k - 1]) ELSE 0
<1> DEFINE n == Held
           next(b) == IF b \in Clusters THEN fat12_get(f, b) ELSE 0
           step == [x \in (1..n) \X Words |-> next(x[2])]
           Body(w) == [k \in 0..n |->
                         IF k = 0 THEN c
                         ELSE LET b == w[k - 1] IN IF b \in Clusters THEN fat12_get(f, b) ELSE 0]
           W == CHOOSE w : w = Body(w)
<1>1. n \in Nat
  BY HeldFits, Fat12Assumption
<1>2. Walk(f, c) = W
  BY DEF Walk
<1>3. \A b : next(b) \in Words
  BY ClusterFacts, GetType
<1>4. step \in [(1..n) \X Words -> Words]
  BY <1>3
<1>5. PICK w : IsLoop(w, Words, c, n, step)
  <2> HIDE DEF step, n
  <2>1. QED
    BY <1>1, <1>4, Iteration, Zenon
<1>6. w = Body(w)
  <2>1. w \in [0..n -> Words] /\ w[0] = c
    BY <1>5 DEF IsLoop
  <2>2. ASSUME NEW k \in 1..n
        PROVE  w[k] = next(w[k - 1])
    <3>1. w[k - 1] \in Words
      BY <1>1, <2>1
    <3>2. <<k, w[k - 1]>> \in (1..n) \X Words
      BY <3>1
    <3>3. step[<<k, w[k - 1]>>] = next(w[k - 1])
      BY <3>2
    <3>4. QED
      BY <3>3, <1>5 DEF IsLoop
  <2>3. QED
    BY <1>1, <2>1, <2>2
<1>7. W = Body(W)
  BY <1>6
<1> HIDE DEF W
<1>8. W[0] = c /\ \A k \in 1..n : W[k] = next(W[k - 1])
  <2>1. 0 \in 0..n /\ \A k \in 1..n : k \in 0..n /\ k # 0
    BY <1>1
  <2>2. \A k \in 0..n : W[k] = IF k = 0 THEN c ELSE next(W[k - 1])
    BY <1>7
  <2>3. QED
    BY <2>1, <2>2
<1>9. W \in [0..n -> Words]
  <2>1. \A k \in 0..n : W[k] \in Words
    <3>1. \A k \in 0..n : k = 0 \/ k \in 1..n
      BY <1>1
    <3>2. QED
      BY <1>3, <1>8, <3>1
  <2>2. W = [k \in 0..n |-> W[k]]
    BY <1>7
  <2>3. QED
    BY <2>1, <2>2
<1>10. QED
  BY <1>2, <1>8, <1>9

\* What is not freed: every cluster of a chain is taken.
LEMMA ChainTaken ==
  ASSUME NEW f, NEW H, NEW h \in H, Sound(f, H), NEW k \in 0..Held, Walk(f, h)[k] \in Clusters
  PROVE  fat12_get(f, Walk(f, h)[k]) # 0
<1>1. f \in Table /\ h \in Words
  BY ClusterFacts DEF Sound
<1>2. CASE k = 0
  BY <1>1, <1>2, WalkIs DEF Sound
<1>3. CASE k # 0
  <2>1. k \in 1..Held
    BY <1>3, HeldFits, Fat12Assumption
  <2>2. Walk(f, h)[k] = IF Walk(f, h)[k - 1] \in Clusters THEN fat12_get(f, Walk(f, h)[k - 1]) ELSE 0
    BY <1>1, <2>1, WalkIs
  <2> DEFINE b == Walk(f, h)[k - 1]
  <2>3. b \in Clusters /\ Walk(f, h)[k] = fat12_get(f, b)
    BY <2>2, ClusterFacts
  <2>4. QED
    BY <2>3 DEF Sound
<1>4. QED
  BY <1>2, <1>3

\* Where a walk is in the data region, it was there in every round before.
LEMMA ChainPrefix ==
  ASSUME NEW f \in Table, NEW c \in Words, NEW k \in 1..Held, Walk(f, c)[k] \in Clusters
  PROVE  /\ Walk(f, c)[k - 1] \in Clusters
         /\ Walk(f, c)[k] = fat12_get(f, Walk(f, c)[k - 1])
BY WalkIs, ClusterFacts

\* Two walks meet only if they are the same walk in the same round.
LEMMA Meet ==
  ASSUME NEW f, NEW H, NEW h \in H, NEW g \in H, Sound(f, H)
  PROVE  \A j, k \in 0..Held :
            Walk(f, h)[j] \in Clusters /\ Walk(f, h)[j] = Walk(f, g)[k] => h = g /\ j = k
<1> DEFINE n == Held
           v == Walk(f, h)
           w == Walk(f, g)
           T == {j \in 0..n : \A k \in 0..n : v[j] \in Clusters /\ v[j] = w[k] => h = g /\ j = k}
<1>1. n \in Nat /\ f \in Table /\ h \in Words /\ g \in Words /\ h \in Clusters
  BY ClusterFacts, HeldFits, Fat12Assumption DEF Sound
<1>2. v[0] = h /\ w[0] = g
  BY <1>1, WalkIs
<1>3. ASSUME NEW k \in 1..n, w[k] \in Clusters
      PROVE  w[k - 1] \in Clusters /\ w[k] = fat12_get(f, w[k - 1]) /\ w[k] \notin H
  BY <1>1, <1>3, ChainPrefix DEF Sound
<1>4. ASSUME NEW k \in 1..n, v[k] \in Clusters
      PROVE  v[k - 1] \in Clusters /\ v[k] = fat12_get(f, v[k - 1]) /\ v[k] \notin H
  BY <1>1, <1>4, ChainPrefix DEF Sound
<1>5. \A a, b \in Clusters : fat12_get(f, a) \in Clusters /\ fat12_get(f, a) = fat12_get(f, b) => a = b
  BY DEF Sound
<1> HIDE DEF v, w
<1>6. 0 \in T
  <2> SUFFICES ASSUME NEW k \in 0..n, v[0] = w[k]
               PROVE  h = g /\ 0 = k
    BY <1>1
  <2>1. CASE k = 0
    BY <2>1, <1>2
  <2>2. CASE k # 0
    <3>1. k \in 1..n /\ w[k] \in Clusters /\ w[k] \in H
      BY <1>1, <1>2, <2>2
    <3>2. QED
      BY <3>1, <1>3
  <2>3. QED
    BY <2>1, <2>2
<1>7. ASSUME NEW j \in 0..(n - 1), j \in T
      PROVE  j + 1 \in T
  <2>0. j + 1 \in 0..n /\ j + 1 \in 1..n /\ (j + 1) - 1 = j
    BY <1>1
  <2> SUFFICES ASSUME NEW k \in 0..n, v[j + 1] \in Clusters, v[j + 1] = w[k]
               PROVE  h = g /\ j + 1 = k
    BY <2>0
  <2>1. v[j] \in Clusters /\ v[j + 1] = fat12_get(f, v[j]) /\ v[j + 1] \notin H
    BY <2>0, <1>4
  <2>2. k # 0
    BY <2>1, <1>2
  <2>3. k \in 1..n /\ k - 1 \in 0..n
    BY <2>2, <1>1
  <2>4. w[k - 1] \in Clusters /\ w[k] = fat12_get(f, w[k - 1])
    BY <2>3, <1>3
  <2>5. v[j] = w[k - 1]
    BY <2>1, <2>4, <1>5
  <2>6. h = g /\ j = k - 1
    BY <2>1, <2>3, <2>5, <1>7
  <2>7. QED
    BY <2>3, <2>6
<1>8. 0..n \subseteq T
  <2> HIDE DEF T
  <2>1. QED
    BY <1>1, <1>6, <1>7, SetInduction
<1>9. QED
  BY <1>8 DEF v, w

\* A chain ends, with the mark for it, after no more clusters than there are.
LEMMA ChainIs ==
  ASSUME NEW f, NEW H, NEW h \in H, Sound(f, H)
  PROVE  \E m \in 1..Held :
            /\ WholeChain(f, h) = [k \in 1..m |-> Walk(f, h)[k - 1]]
            /\ \A j \in 0..Held : Walk(f, h)[j] \in Clusters <=> j < m
            /\ fat12_get(f, Walk(f, h)[m - 1]) = EOC
<1> DEFINE n == Held
           w == Walk(f, h)
           P == {j \in 0..n : w[j] \in Clusters}
           Q == {j \in 0..n : w[j] \notin Clusters}
<1>1. n \in Nat /\ n >= 1 /\ f \in Table /\ h \in Words /\ h \in Clusters
  BY ClusterFacts, HeldFits, Fat12Assumption DEF Sound
<1>2. w \in [0..n -> Words] /\ w[0] = h
  BY <1>1, WalkIs
<1>3. ASSUME NEW k \in 1..n, w[k] \in Clusters
      PROVE  w[k - 1] \in Clusters
  BY <1>1, <1>3, ChainPrefix
<1>4. \A j, k \in 0..n : w[j] \in Clusters /\ w[j] = w[k] => j = k
  BY Meet
<1>5. WholeChain(f, h) = [k \in 1..Cardinality(P) |-> w[k - 1]]
  BY DEF WholeChain
<1>6. \A k \in 0..n : w[k] \in Clusters => fat12_get(f, w[k]) # 0
  BY ChainTaken
<1>7. \A k \in 1..n : w[k - 1] \in Clusters => w[k] = fat12_get(f, w[k - 1])
  BY <1>1, WalkIs
<1> HIDE DEF w
<1>8. Q # {}
  <2> SUFFICES ASSUME Q = {} PROVE FALSE
    OBVIOUS
  <2>1. w \in [0..n -> Clusters]
    <3>1. \A j \in 0..n : w[j] \in Clusters
      OBVIOUS
    <3>2. w = [j \in 0..n |-> w[j]]
      BY <1>2
    <3>3. QED
      BY <3>1, <3>2
  <2>2. IsFiniteSet(Clusters) /\ Cardinality(Clusters) = n
    BY <1>1, FS_Interval DEF Clusters
  <2>3. IsFiniteSet(0..n) /\ Cardinality(0..n) = n + 1
    BY <1>1, FS_Interval
  <2>4. \E x, y \in 0..n : x # y /\ w[x] = w[y]
    <3>1. Cardinality(Clusters) < Cardinality(0..n)
      BY <1>1, <2>2, <2>3
    <3> DEFINE D == 0..n
    <3>2. w \in [D -> Clusters] /\ IsFiniteSet(D) /\ Cardinality(Clusters) < Cardinality(D)
      BY <2>1, <2>3, <3>1
    <3> HIDE DEF D
    <3>3. \E x, y \in D : x # y /\ w[x] = w[y]
      BY <2>2, <3>2, FS_PigeonHole
    <3>4. QED
      BY <3>3 DEF D
  <2>5. QED
    BY <1>4, <2>1, <2>4
<1>9. PICK m \in Q : \A k \in Q : m <= k
  <2>1. Q \in SUBSET Nat
    BY <1>1
  <2>2. QED
    BY <1>8, <2>1, LeastNat
<1>10. m \in 1..n /\ m - 1 \in 0..n /\ w[m] \notin Clusters /\ w[m - 1] \in Clusters
  <2>1. m \in 0..n /\ w[m] \notin Clusters /\ m # 0
    BY <1>1, <1>2, <1>9
  <2>2. m - 1 \in 0..n /\ ~ (m <= m - 1)
    BY <1>1, <2>1
  <2>3. w[m - 1] \in Clusters
    BY <1>9, <2>2
  <2>4. QED
    BY <1>1, <2>1, <2>2, <2>3
<1>11. \A j \in 0..n : w[j] \in Clusters <=> j < m
  <2> DEFINE T == {j \in 0..n : j >= m => w[j] \notin Clusters}
  <2>1. 0 \in T
    BY <1>1, <1>10
  <2>2. ASSUME NEW j \in 0..(n - 1), j \in T
        PROVE  j + 1 \in T
    <3>1. j + 1 \in 1..n /\ j + 1 \in 0..n /\ (j + 1) - 1 = j
      BY <1>1
    <3>2. CASE j >= m
      BY <2>2, <3>1, <3>2, <1>3
    <3>3. CASE ~ (j >= m)
      <4>1. j + 1 >= m => j + 1 = m
        BY <3>1, <3>3, <1>10
      <4>2. QED
        BY <3>1, <4>1, <1>10
    <3>4. QED
      BY <3>2, <3>3
  <2>3. 0..n \subseteq T
    <3> HIDE DEF T
    <3>1. QED
      BY <1>1, <2>1, <2>2, SetInduction
  <2>4. ASSUME NEW j \in 0..n
        PROVE  w[j] \in Clusters <=> j < m
    <3>1. CASE j < m
      <4>1. j \notin Q
        BY <1>9, <1>10, <3>1
      <4>2. QED
        BY <3>1, <4>1
    <3>2. CASE ~ (j < m)
      BY <2>3, <3>2, <1>10
    <3>3. QED
      BY <3>1, <3>2
  <2>5. QED
    BY <2>4
<1>12. Cardinality(P) = m
  <2>1. P = 0..(m - 1)
    <3>1. \A j : j \in 0..(m - 1) <=> j \in 0..n /\ j < m
      BY <1>1, <1>10
    <3>2. QED
      BY <1>11, <3>1
  <2>2. Cardinality(0..(m - 1)) = m
    <3>1. m - 1 \in Int /\ m \in Nat /\ ~ (0 > m - 1) /\ m - 1 - 0 + 1 = m
      BY <1>10
    <3>2. QED
      BY <3>1, FS_Interval
  <2>3. QED
    BY <2>1, <2>2
<1>13. fat12_get(f, w[m - 1]) = EOC
  <2>1. w[m] = fat12_get(f, w[m - 1])
    BY <1>7, <1>10
  <2>2. fat12_get(f, w[m - 1]) \in Clusters \cup {0, EOC}
    BY <1>10 DEF Sound
  <2>3. QED
    BY <2>1, <2>2, <1>6, <1>10
<1>14. QED
  BY <1>5, <1>10, <1>11, <1>12, <1>13 DEF w

-----------------------------------------------------------------------------
(* What leaves a chain alone.                                               *)

\* Table g has the chain that begins at h in table f.
Kept(f, g, h) ==
    \A j \in 0..Held :
        Walk(f, h)[j] \in Clusters => fat12_get(g, Walk(f, h)[j]) = fat12_get(f, Walk(f, h)[j])

\* The walk is then the same.
LEMMA KeptWalk ==
  ASSUME NEW f \in Table, NEW g \in Table, NEW h \in Words, Kept(f, g, h)
  PROVE  Walk(g, h) = Walk(f, h)
<1> DEFINE n == Held
           v == Walk(f, h)
           w == Walk(g, h)
           T == {j \in 0..n : w[j] = v[j]}
<1>1. n \in Nat
  BY HeldFits, Fat12Assumption
<1>2. /\ v \in [0..n -> Words] /\ v[0] = h
      /\ \A k \in 1..n : v[k] = IF v[k - 1] \in Clusters THEN fat12_get(f, v[k - 1]) ELSE 0
  BY WalkIs
<1>3. /\ w \in [0..n -> Words] /\ w[0] = h
      /\ \A k \in 1..n : w[k] = IF w[k - 1] \in Clusters THEN fat12_get(g, w[k - 1]) ELSE 0
  BY WalkIs
<1>4. \A j \in 0..n : v[j] \in Clusters => fat12_get(g, v[j]) = fat12_get(f, v[j])
  BY DEF Kept
<1> SUFFICES w = v
  OBVIOUS
<1> HIDE DEF v, w
<1>5. 0 \in T
  BY <1>1, <1>2, <1>3
<1>6. ASSUME NEW j \in 0..(n - 1), j \in T
      PROVE  j + 1 \in T
  <2>1. j + 1 \in 1..n /\ j + 1 \in 0..n /\ (j + 1) - 1 = j /\ j \in 0..n /\ w[j] = v[j]
    BY <1>1, <1>6
  <2>2. v[j + 1] = IF v[j] \in Clusters THEN fat12_get(f, v[j]) ELSE 0
    BY <1>2, <2>1
  <2>3. w[j + 1] = IF v[j] \in Clusters THEN fat12_get(g, v[j]) ELSE 0
    BY <1>3, <2>1
  <2>4. w[j + 1] = v[j + 1]
    BY <1>4, <2>1, <2>2, <2>3
  <2>5. QED
    BY <2>1, <2>4
<1>7. 0..n \subseteq T
  <2> HIDE DEF T
  <2>1. QED
    BY <1>1, <1>5, <1>6, SetInduction
<1>8. \A j \in 0..n : w[j] = v[j]
  BY <1>7
<1>9. v = [j \in 0..n |-> v[j]] /\ w = [j \in 0..n |-> w[j]]
  BY <1>2, <1>3
<1>10. QED
  BY <1>8, <1>9

\* Chains that two tables share with a third one they share with each other.
LEMMA KeptBoth ==
  ASSUME NEW f \in Table, NEW g \in Table, NEW d, NEW h \in Words, Kept(f, g, h), Kept(f, d, h)
  PROVE  Kept(g, d, h)
BY KeptWalk DEF Kept

LEMMA KeptTwice ==
  ASSUME NEW f \in Table, NEW g \in Table, NEW d, NEW h \in Words, Kept(f, g, h), Kept(g, d, h)
  PROVE  Kept(f, d, h)
BY KeptWalk DEF Kept

\* Setting an entry that is not on the chain.
LEMMA KeptSet ==
  ASSUME NEW f \in Table, NEW c \in Clusters, NEW v \in Words, NEW h \in Words,
         \A j \in 0..Held : Walk(f, h)[j] # c
  PROVE  Kept(f, fat12_set(f, c, v), h)
<1>1. c \in Slots /\ \A d \in Clusters : d \in Slots
  BY ClusterFacts
<1>2. \A d \in Clusters : d # c => fat12_get(fat12_set(f, c, v), d) = fat12_get(f, d)
  BY <1>1, GetSet
<1>3. QED
  BY <1>2 DEF Kept

-----------------------------------------------------------------------------
(* free_chain.                                                              *)

\* Cluster c is on the chain that begins at h.
On(f, h, c) == \E j \in 0..Held : Walk(f, h)[j] = c

\* A round of the loop.
FreeRound(l) ==
    IF Linked(l.cluster)
      THEN [fat |-> fat12_set(l.fat, l.cluster, 0), cluster |-> fat12_get(l.fat, l.cluster)]
      ELSE l

\* The tables and clusters the loop may meet.
FreeStates ==
    {l \in [fat : Table, cluster : Clusters \cup {0, EOC}] :
        \A c \in Clusters : fat12_get(l.fat, c) \in Clusters \cup {0, EOC}}

LEMMA FreeRoundStays ==
  ASSUME NEW l \in FreeStates
  PROVE  FreeRound(l) \in FreeStates
<1>1. l.fat \in Table /\ l.cluster \in Clusters \cup {0, EOC}
      /\ \A c \in Clusters : fat12_get(l.fat, c) \in Clusters \cup {0, EOC}
  BY DEF FreeStates
<1>2. CASE l.cluster \in Clusters
  <2> DEFINE g == fat12_set(l.fat, l.cluster, 0)
             n == fat12_get(l.fat, l.cluster)
  <2>1. 0 \in Words
    BY ClusterFacts
  <2>2. g \in Table
    BY <1>1, <1>2, <2>1, SetIs
  <2>3. \A c \in Clusters : fat12_get(g, c) = IF c = l.cluster THEN 0 ELSE fat12_get(l.fat, c)
    BY <1>1, <1>2, <2>1, SetIs
  <2>4. n \in Clusters \cup {0, EOC}
    BY <1>1, <1>2
  <2>5. FreeRound(l) = [fat |-> g, cluster |-> n]
    BY <1>1, <1>2, ClusterFacts DEF FreeRound
  <2> HIDE DEF g, n
  <2>6. \A c \in Clusters : fat12_get(g, c) \in Clusters \cup {0, EOC}
    BY <1>1, <2>3
  <2>7. QED
    BY <2>2, <2>4, <2>5, <2>6 DEF FreeStates
<1>3. CASE l.cluster \notin Clusters
  BY <1>1, <1>3, ClusterFacts DEF FreeRound
<1>4. QED
  BY <1>2, <1>3

\* free_chain is what the loop has after Held rounds.
LEMMA FreeLoop ==
  ASSUME NEW f, NEW h, [fat |-> f, cluster |-> h] \in FreeStates
  PROVE  \E R : /\ free_chain(f, h) = R[Held].fat
                /\ R[0] = [fat |-> f, cluster |-> h]
                /\ \A k \in 1..Held : R[k] = FreeRound(R[k - 1])
                /\ \A k \in 0..Held : R[k] \in FreeStates
<1> DEFINE n == Held
           a == [fat |-> f, cluster |-> h]
           S == FreeStates
           step == [x \in (1..n) \X S |-> FreeRound(x[2])]
           Body(L) == [k \in 0..n |->
                         IF k = 0 THEN [fat |-> f, cluster |-> h]
                         ELSE LET l == L[k - 1]
                                  next == fat12_get(l.fat, l.cluster)
                              IN  IF Linked(l.cluster)
                                    THEN [fat |-> fat12_set(l.fat, l.cluster, 0), cluster |-> next] ELSE l]
           R == CHOOSE L : L = Body(L)
<1>1. n \in Nat
  BY HeldFits, Fat12Assumption
<1>2. free_chain(f, h) = R[n].fat
  BY DEF free_chain
<1>3. step \in [(1..n) \X S -> S]
  BY FreeRoundStays
<1>4. PICK L : IsLoop(L, S, a, n, step)
  <2> HIDE DEF step, n, S, a
  <2>1. a \in S
    BY DEF a, S
  <2>2. QED
    BY <1>1, <1>3, <2>1, Iteration, Zenon
<1>5. L = Body(L)
  <2>1. L \in [0..n -> S] /\ L[0] = a
    BY <1>4 DEF IsLoop
  <2>2. ASSUME NEW k \in 1..n
        PROVE  L[k] = FreeRound(L[k - 1])
    <3>1. L[k - 1] \in S
      BY <1>1, <2>1
    <3>2. <<k, L[k - 1]>> \in (1..n) \X S
      BY <3>1
    <3>3. step[<<k, L[k - 1]>>] = FreeRound(L[k - 1])
      BY <3>2
    <3>4. QED
      BY <3>3, <1>4 DEF IsLoop
  <2>3. \A k \in 0..n : L[k] = IF k = 0 THEN a ELSE FreeRound(L[k - 1])
    <3>1. \A k \in 0..n : k = 0 \/ k \in 1..n
      BY <1>1
    <3>2. QED
      BY <2>1, <2>2, <3>1
  <2>4. L = [k \in 0..n |-> L[k]]
    BY <2>1
  <2>5. QED
    BY <2>3, <2>4 DEF FreeRound
<1>6. R = Body(R)
  BY <1>5
<1> HIDE DEF R
<1>7. R[0] = a /\ \A k \in 1..n : R[k] = FreeRound(R[k - 1])
  <2>1. 0 \in 0..n /\ \A k \in 1..n : k \in 0..n /\ k # 0
    BY <1>1
  <2>2. \A k \in 0..n : R[k] = IF k = 0 THEN a ELSE FreeRound(R[k - 1])
    BY <1>6 DEF FreeRound
  <2>3. QED
    BY <2>1, <2>2
<1>8. \A k \in 0..n : R[k] \in S
  <2>1. \A k \in 1..n : R[k - 1] \in S => R[k] \in S
    BY <1>7, FreeRoundStays
  <2>2. R[0] \in S
    BY <1>7
  <2> HIDE DEF S
  <2>3. QED
    BY <1>1, <2>1, <2>2, LoopStays
<1>9. QED
  BY <1>2, <1>7, <1>8

\* free_chain frees the clusters of the chain and no other.
LEMMA FreedIs ==
  ASSUME NEW f, NEW H, NEW h \in H, Sound(f, H)
  PROVE  /\ free_chain(f, h) \in Table
         /\ \A c \in Clusters : fat12_get(free_chain(f, h), c) = IF On(f, h, c) THEN 0 ELSE fat12_get(f, c)
<1> DEFINE n == Held
           w == Walk(f, h)
<1>1. n \in Nat /\ n >= 1 /\ f \in Table /\ h \in Words /\ h \in Clusters
  BY ClusterFacts, HeldFits, Fat12Assumption DEF Sound
<1>2. \A c \in Clusters : fat12_get(f, c) \in Clusters \cup {0, EOC}
  BY DEF Sound
<1>3. [fat |-> f, cluster |-> h] \in FreeStates
  BY <1>1, <1>2 DEF FreeStates
<1>4. PICK R : /\ free_chain(f, h) = R[n].fat
               /\ R[0] = [fat |-> f, cluster |-> h]
               /\ \A k \in 1..n : R[k] = FreeRound(R[k - 1])
               /\ \A k \in 0..n : R[k] \in FreeStates
  BY <1>3, FreeLoop
<1>5. \A k \in 0..n : R[k].fat \in Table /\ R[k].cluster \in Clusters \cup {0, EOC}
  BY <1>4 DEF FreeStates
<1>6. /\ w[0] = h
      /\ \A k \in 1..n : w[k] = IF w[k - 1] \in Clusters THEN fat12_get(f, w[k - 1]) ELSE 0
  BY <1>1, WalkIs
<1>7. \A j, k \in 0..n : w[j] \in Clusters /\ w[j] = w[k] => j = k
  BY Meet
<1>8. PICK m \in 1..n : \A j \in 0..n : w[j] \in Clusters <=> j < m
  BY ChainIs
<1>9. \A c : On(f, h, c) <=> \E j \in 0..n : w[j] = c
  BY DEF On
<1> HIDE DEF w
<1> DEFINE Freed(k, c) == \E j \in 0..n : j < k /\ w[j] = c
           Inv(k) == /\ (w[k] \in Clusters => R[k].cluster = w[k])
                     /\ (w[k] \notin Clusters => R[k].cluster \notin Clusters)
                     /\ \A c \in Clusters : fat12_get(R[k].fat, c) = IF Freed(k, c) THEN 0 ELSE fat12_get(f, c)
           T == {k \in 0..n : Inv(k)}
<1>10. 0 \in T
  <2>1. R[0].fat = f /\ R[0].cluster = h /\ \A c : ~ Freed(0, c)
    BY <1>4
  <2>2. QED
    BY <1>1, <1>6, <2>1
<1>11. ASSUME NEW k \in 0..(n - 1), k \in T
       PROVE  k + 1 \in T
  <2>0. k + 1 \in 1..n /\ k + 1 \in 0..n /\ (k + 1) - 1 = k /\ k \in 0..n
    BY <1>1
  <2>1. R[k + 1] = FreeRound(R[k]) /\ Inv(k) /\ R[k].fat \in Table
    BY <2>0, <1>4, <1>5, <1>11
  <2>2. CASE w[k] \in Clusters
    <3>1. R[k].cluster = w[k] /\ Linked(R[k].cluster) /\ w[k] \in Slots
      BY <2>1, <2>2, ClusterFacts
    <3>2. R[k + 1] = [fat |-> fat12_set(R[k].fat, w[k], 0), cluster |-> fat12_get(R[k].fat, w[k])]
      BY <2>1, <3>1 DEF FreeRound
    <3>3. ~ Freed(k, w[k])
      <4>1. ASSUME NEW j \in 0..n, j < k, w[j] = w[k]
            PROVE  FALSE
        <5>1. j = k
          BY <1>7, <2>0, <2>2, <4>1
        <5>2. QED
          BY <4>1, <5>1, <2>0
      <4>2. QED
        BY <4>1
    <3>4. fat12_get(R[k].fat, w[k]) = fat12_get(f, w[k])
      BY <2>1, <2>2, <3>3
    <3>5. w[k + 1] = fat12_get(f, w[k])
      BY <2>0, <2>2, <1>6
    <3>6. R[k + 1].cluster = w[k + 1]
      BY <3>2, <3>4, <3>5
    <3>7. \A c \in Clusters : fat12_get(R[k + 1].fat, c) = IF c = w[k] THEN 0 ELSE fat12_get(R[k].fat, c)
      <4>1. 0 \in Words /\ R[k + 1].fat = fat12_set(R[k].fat, w[k], 0)
        BY <3>2, ClusterFacts
      <4>2. QED
        BY <2>1, <2>2, <4>1, SetIs
    <3>8. \A c : Freed(k + 1, c) <=> Freed(k, c) \/ c = w[k]
      <4>1. \A j \in 0..n : j < k + 1 <=> j < k \/ j = k
        BY <2>0
      <4>2. QED
        BY <2>0, <4>1
    <3> HIDE DEF Freed
    <3>9. Inv(k + 1)
      BY <2>1, <3>6, <3>7, <3>8
    <3>10. QED
      BY <2>0, <3>9
  <2>3. CASE w[k] \notin Clusters
    <3>1. w[k + 1] \notin Clusters
      BY <2>0, <2>3, <1>6, ClusterFacts
    <3>2. R[k + 1] = R[k]
      BY <2>0, <2>1, <2>3, <1>5, ClusterFacts DEF FreeRound
    <3>3. \A c \in Clusters : Freed(k + 1, c) <=> Freed(k, c)
      <4>1. \A j \in 0..n : j < k + 1 <=> j < k \/ j = k
        BY <2>0
      <4>2. QED
        BY <2>3, <4>1
    <3> HIDE DEF Freed
    <3>4. Inv(k + 1)
      BY <2>1, <2>3, <3>1, <3>2, <3>3
    <3>5. QED
      BY <2>0, <3>4
  <2>4. QED
    BY <2>2, <2>3
<1>12. 0..n \subseteq T
  <2> HIDE DEF T
  <2>1. QED
    BY <1>1, <1>10, <1>11, SetInduction
<1>13. Inv(n)
  BY <1>1, <1>12
<1>14. \A c \in Clusters : Freed(n, c) <=> On(f, h, c)
  <2>1. ASSUME NEW c \in Clusters, NEW j \in 0..n, w[j] = c
        PROVE  j < n
    BY <2>1, <1>1, <1>8
  <2>2. QED
    BY <2>1, <1>9
<1> HIDE DEF Freed
<1>15. QED
  BY <1>1, <1>4, <1>5, <1>13, <1>14

\* Without the chain, the others are sound, and they are what they were.
LEMMA FreeChain ==
  ASSUME NEW f, NEW H, NEW h \in H, Sound(f, H)
  PROVE  /\ Sound(free_chain(f, h), H \ {h})
         /\ \A g \in H \ {h} : Kept(f, free_chain(f, h), g)
<1> DEFINE n == Held
           t == free_chain(f, h)
           G == H \ {h}
<1>1. n \in Nat /\ f \in Table /\ h \in Words /\ h \in Clusters /\ H \subseteq Clusters /\ H \subseteq Words
  BY ClusterFacts, HeldFits, Fat12Assumption DEF Sound
<1>2. t \in Table /\ \A c \in Clusters : fat12_get(t, c) = IF On(f, h, c) THEN 0 ELSE fat12_get(f, c)
  BY FreedIs
<1> HIDE DEF t
<1>3. ASSUME NEW g \in G, NEW j \in 0..n, Walk(f, g)[j] \in Clusters
      PROVE  ~ On(f, h, Walk(f, g)[j])
  <2> SUFFICES ASSUME NEW i \in 0..n, Walk(f, h)[i] = Walk(f, g)[j]
               PROVE  FALSE
    BY DEF On
  <2>1. Walk(f, h)[i] \in Clusters
    BY <1>3
  <2>2. h = g
    BY <2>1, Meet
  <2>3. QED
    BY <2>2
<1>4. \A g \in G : Kept(f, t, g)
  BY <1>2, <1>3 DEF Kept
<1>5. \A g \in G : fat12_get(t, g) # 0
  <2> SUFFICES ASSUME NEW g \in G
               PROVE  fat12_get(t, g) # 0
    OBVIOUS
  <2>1. g \in Words /\ g \in Clusters /\ 0 \in 0..n
    BY <1>1
  <2>2. Walk(f, g)[0] = g
    BY <1>1, <2>1, WalkIs
  <2>3. ~ On(f, h, g)
    BY <1>3, <2>1, <2>2
  <2>4. QED
    BY <1>2, <2>1, <2>3 DEF Sound
<1>6. ASSUME NEW c \in Clusters, fat12_get(t, c) \in Clusters
      PROVE  fat12_get(t, fat12_get(t, c)) # 0 /\ fat12_get(t, c) \notin G
  <2> DEFINE d == fat12_get(f, c)
  <2>1. ~ On(f, h, c) /\ fat12_get(t, c) = d
    BY <1>2, <1>6, ClusterFacts
  <2>2. d \in Clusters /\ d \notin H /\ fat12_get(f, d) # 0
    BY <1>6, <2>1 DEF Sound
  <2>3. ~ On(f, h, d)
    <3> SUFFICES ASSUME NEW j \in 0..n, Walk(f, h)[j] = d
                 PROVE  FALSE
      BY DEF On
    <3>1. j # 0
      BY <1>1, <2>2, WalkIs
    <3>2. j \in 1..n /\ j - 1 \in 0..n /\ Walk(f, h)[j] \in Clusters
      BY <1>1, <2>2, <3>1
    <3>3. Walk(f, h)[j - 1] \in Clusters /\ d = fat12_get(f, Walk(f, h)[j - 1])
      BY <1>1, <3>2, ChainPrefix
    <3>4. Walk(f, h)[j - 1] = c
      BY <2>2, <3>3 DEF Sound
    <3>5. QED
      BY <2>1, <3>2, <3>4 DEF On
  <2> HIDE DEF d
  <2>4. QED
    BY <1>2, <2>1, <2>2, <2>3
<1>7. \A c, d \in Clusters : fat12_get(t, c) \in Clusters /\ fat12_get(t, c) = fat12_get(t, d) => c = d
  BY <1>2, ClusterFacts DEF Sound
<1>8. \A c \in Clusters : fat12_get(t, c) \in Clusters \cup {0, EOC}
  BY <1>2 DEF Sound
<1>9. Sound(t, G)
  BY <1>1, <1>2, <1>5, <1>6, <1>7, <1>8 DEF Sound
<1>10. QED
  BY <1>4, <1>9 DEF t

-----------------------------------------------------------------------------
(* Taking clusters.                                                         *)

\* fat12_alloc_cluster finds a free cluster if there is one.
LEMMA AllocIs ==
  ASSUME NEW f
  PROVE  /\ FreeClusters(f) # {} => fat12_alloc_cluster(f) \in FreeClusters(f)
         /\ FreeClusters(f) = {} => fat12_alloc_cluster(f) = 0
<1>1. FreeClusters(f) \in SUBSET Nat
  BY ClusterFacts DEF FreeClusters
<1>2. FreeClusters(f) # {} => \E x \in FreeClusters(f) : \A y \in FreeClusters(f) : x <= y
  BY <1>1, LeastNat
<1>3. QED
  BY <1>2 DEF fat12_alloc_cluster

\* A round of the loop in fat12_write.
TakeRound(l) ==
    LET nc == fat12_alloc_cluster(l.fat)
        g  == fat12_set(l.fat, nc, EOC)
    IN  [fat |-> IF l.prev # 0 THEN fat12_set(g, l.prev, nc) ELSE g, prev |-> nc]

TakeStates == [fat : Table, prev : Clusters \cup {0}]

LEMMA TakeRoundStays ==
  ASSUME NEW l \in TakeStates
  PROVE  TakeRound(l) \in TakeStates
<1> DEFINE nc == fat12_alloc_cluster(l.fat)
           g  == fat12_set(l.fat, nc, EOC)
<1>1. l.fat \in Table /\ l.prev \in Clusters \cup {0} /\ l.prev \in Slots
  BY ClusterFacts DEF TakeStates
<1>2. nc \in Clusters \cup {0}
  BY AllocIs DEF FreeClusters
<1>3. nc \in Slots /\ nc \in Words /\ EOC \in Words
  BY <1>2, ClusterFacts
<1>4. g \in Table
  BY <1>1, <1>3, SetType
<1>5. fat12_set(g, l.prev, nc) \in Table
  BY <1>1, <1>3, <1>4, SetType
<1>6. TakeRound(l) = [fat |-> IF l.prev # 0 THEN fat12_set(g, l.prev, nc) ELSE g, prev |-> nc]
  BY DEF TakeRound
<1> HIDE DEF g, nc
<1>7. QED
  BY <1>2, <1>4, <1>5, <1>6 DEF TakeStates

\* Chained is what the loop has after n rounds.
LEMMA TakeLoop ==
  ASSUME NEW f \in Table, NEW n \in Nat
  PROVE  \E R : /\ Chained(f, n) = R[n].fat
                /\ R[0] = [fat |-> f, prev |-> 0]
                /\ \A k \in 1..n : R[k] = TakeRound(R[k - 1])
                /\ \A k \in 0..n : R[k] \in TakeStates
<1> DEFINE a == [fat |-> f, prev |-> 0]
           S == TakeStates
           step == [x \in (1..n) \X S |-> TakeRound(x[2])]
           Body(L) == [k \in 0..n |->
                         IF k = 0 THEN [fat |-> f, prev |-> 0]
                         ELSE LET l  == L[k - 1]
                                  nc == fat12_alloc_cluster(l.fat)
                                  g  == fat12_set(l.fat, nc, EOC)
                              IN  [fat |-> IF l.prev # 0 THEN fat12_set(g, l.prev, nc) ELSE g, prev |-> nc]]
           R == CHOOSE L : L = Body(L)
<1>1. Chained(f, n) = R[n].fat
  BY DEF Chained
<1>2. a \in S
  BY DEF TakeStates
<1>3. step \in [(1..n) \X S -> S]
  BY TakeRoundStays
<1>4. PICK L : IsLoop(L, S, a, n, step)
  <2> HIDE DEF step, S, a
  <2>1. QED
    BY <1>2, <1>3, Iteration, Zenon
<1>5. L = Body(L)
  <2>1. L \in [0..n -> S] /\ L[0] = a
    BY <1>4 DEF IsLoop
  <2>2. ASSUME NEW k \in 1..n
        PROVE  L[k] = TakeRound(L[k - 1])
    <3>1. L[k - 1] \in S
      BY <2>1
    <3>2. <<k, L[k - 1]>> \in (1..n) \X S
      BY <3>1
    <3>3. step[<<k, L[k - 1]>>] = TakeRound(L[k - 1])
      BY <3>2
    <3>4. QED
      BY <3>3, <1>4 DEF IsLoop
  <2>3. \A k \in 0..n : L[k] = IF k = 0 THEN a ELSE TakeRound(L[k - 1])
    <3>1. \A k \in 0..n : k = 0 \/ k \in 1..n
      OBVIOUS
    <3>2. QED
      BY <2>1, <2>2, <3>1
  <2>4. L = [k \in 0..n |-> L[k]]
    BY <2>1
  <2>5. QED
    BY <2>3, <2>4 DEF TakeRound
<1>6. R = Body(R)
  BY <1>5
<1> HIDE DEF R
<1>7. R[0] = a /\ \A k \in 1..n : R[k] = TakeRound(R[k - 1])
  <2>1. 0 \in 0..n /\ \A k \in 1..n : k \in 0..n /\ k # 0
    OBVIOUS
  <2>2. \A k \in 0..n : R[k] = IF k = 0 THEN a ELSE TakeRound(R[k - 1])
    BY <1>6 DEF TakeRound
  <2>3. QED
    BY <2>1, <2>2
<1>8. \A k \in 0..n : R[k] \in S
  <2>1. \A k \in 1..n : R[k - 1] \in S => R[k] \in S
    BY <1>7, TakeRoundStays
  <2>2. R[0] \in S
    BY <1>2, <1>7
  <2> HIDE DEF S
  <2>3. QED
    BY <2>1, <2>2, LoopStays
<1>9. QED
  BY <1>1, <1>7, <1>8

\* The free clusters can be counted.
LEMMA FreeFinite ==
  ASSUME NEW f
  PROVE  /\ IsFiniteSet(FreeClusters(f)) /\ Cardinality(FreeClusters(f)) \in Nat
         /\ Cardinality(FreeClusters(f)) <= Held
         /\ Cardinality(FreeClusters(f)) > 0 => FreeClusters(f) # {}
<1>1. Held \in Nat /\ IsFiniteSet(Clusters) /\ Cardinality(Clusters) = Held
  <2>1. Held \in Nat
    BY HeldFits, Fat12Assumption
  <2>2. QED
    BY <2>1, FS_Interval DEF Clusters
<1>2. FreeClusters(f) \in SUBSET Clusters
  BY DEF FreeClusters
<1>3. IsFiniteSet(FreeClusters(f)) /\ Cardinality(FreeClusters(f)) <= Cardinality(Clusters)
  BY <1>1, <1>2, FS_Subset
<1>4. Cardinality(FreeClusters(f)) \in Nat
  BY <1>3, FS_CardinalityType
<1>5. Cardinality(FreeClusters(f)) > 0 => FreeClusters(f) # {}
  BY FS_EmptySet
<1>6. QED
  BY <1>1, <1>3, <1>4, <1>5

\* The loop of fat12_write after k rounds from table f: the chain that begins
\* at h has k clusters and ends at prev; the chains that begin in H are as
\* they were, and what is not on the new one has its old entry.
Taking(f, H, h, k, l) ==
    /\ h \in Clusters /\ h \notin H
    /\ Sound(l.fat, H \cup {h})
    /\ l.prev \in Clusters /\ fat12_get(l.fat, l.prev) = EOC
    /\ Walk(l.fat, h)[k - 1] = l.prev
    /\ \A g \in H : Kept(f, l.fat, g) /\ ~ On(f, g, l.prev)
    /\ \A c \in Clusters : fat12_get(l.fat, c) = fat12_get(f, c) \/ On(l.fat, h, c)
    /\ Cardinality(FreeClusters(l.fat)) = Cardinality(FreeClusters(f)) - k

LEMMA TakeFirst ==
  ASSUME NEW f, NEW H, Sound(f, H), FreeClusters(f) # {}
  PROVE  Taking(f, H, fat12_alloc_cluster(f), 1, TakeRound([fat |-> f, prev |-> 0]))
<1> DEFINE h == fat12_alloc_cluster(f)
           t == fat12_set(f, h, EOC)
           l == TakeRound([fat |-> f, prev |-> 0])
<1>1. f \in Table /\ h \in FreeClusters(f) /\ h \in Clusters /\ fat12_get(f, h) = 0 /\ EOC \in Words /\ H \subseteq Words
  BY AllocIs, ClusterFacts DEF FreeClusters, Sound
<1>2. l = [fat |-> t, prev |-> h]
  BY DEF TakeRound
<1>3. l.fat = t /\ l.prev = h
  BY <1>2
<1> HIDE DEF l
<1>4. Sound(t, H \cup {h}) /\ h \notin H
  BY <1>1, Take
<1>5. t \in Table /\ \A d \in Clusters : fat12_get(t, d) = IF d = h THEN EOC ELSE fat12_get(f, d)
  BY <1>1, SetIs
<1>6. ASSUME NEW g \in H
      PROVE  Kept(f, t, g) /\ ~ On(f, g, h)
  <2>1. \A j \in 0..Held : Walk(f, g)[j] # h
    BY <1>1, ChainTaken
  <2>2. QED
    BY <1>1, <2>1, KeptSet DEF On
<1> HIDE DEF t, h
<1>7. h \in Words /\ 0 \in 0..Held
  BY <1>1, ClusterFacts, HeldFits, Fat12Assumption
<1>8. Walk(t, h)[0] = h /\ On(t, h, h)
  BY <1>5, <1>7, WalkIs DEF On
<1>9. FreeClusters(t) = FreeClusters(f) \ {h}
  BY <1>1, <1>5, ClusterFacts DEF FreeClusters
<1>10. Cardinality(FreeClusters(t)) = Cardinality(FreeClusters(f)) - 1
  BY <1>1, <1>9, FreeFinite, FS_RemoveElement
<1>11. fat12_get(t, h) = EOC /\ \A c \in Clusters : fat12_get(t, c) = fat12_get(f, c) \/ On(t, h, c)
  BY <1>1, <1>5, <1>8
<1>12. Taking(f, H, h, 1, l)
  BY <1>1, <1>3, <1>4, <1>6, <1>8, <1>10, <1>11 DEF Taking
<1>13. QED
  BY <1>12 DEF l, h

LEMMA TakeNext ==
  ASSUME NEW f \in Table, NEW H, NEW h, NEW k \in Nat, NEW l, Taking(f, H, h, k, l),
         k >= 1, k < Cardinality(FreeClusters(f))
  PROVE  Taking(f, H, h, k + 1, TakeRound(l))
<1> DEFINE n == Held
           u == l.fat
           p == l.prev
           c == fat12_alloc_cluster(u)
           g == fat12_set(u, c, EOC)
           t == fat12_set(g, p, c)
           v == Walk(u, h)
           w == Walk(t, h)
<1>1. /\ h \in Clusters /\ h \notin H /\ Sound(u, H \cup {h})
      /\ p \in Clusters /\ fat12_get(u, p) = EOC /\ v[k - 1] = p
      /\ \A x \in H : Kept(f, u, x) /\ ~ On(f, x, p)
      /\ \A d \in Clusters : fat12_get(u, d) = fat12_get(f, d) \/ On(u, h, d)
      /\ Cardinality(FreeClusters(u)) = Cardinality(FreeClusters(f)) - k
  BY DEF Taking
<1>2. n \in Nat /\ k \in 1..n /\ k < n /\ k \in 0..n /\ k - 1 \in 0..n /\ Cardinality(FreeClusters(u)) > 0
  <2>1. Cardinality(FreeClusters(f)) \in Nat /\ Cardinality(FreeClusters(f)) <= n /\ n \in Nat
    BY FreeFinite, HeldFits, Fat12Assumption
  <2>2. QED
    BY <1>1, <2>1
<1>3. u \in Table /\ H \subseteq Clusters /\ H \subseteq Words /\ h \in Words /\ EOC \in Words /\ EOC # 0
  BY <1>1, ClusterFacts DEF Sound
<1>4. c \in FreeClusters(u) /\ c \in Clusters /\ fat12_get(u, c) = 0 /\ c \in Words
  BY <1>2, FreeFinite, AllocIs, ClusterFacts DEF FreeClusters
<1> HIDE DEF c
<1>5. Sound(g, (H \cup {h}) \cup {c}) /\ c \notin H \cup {h}
  BY <1>1, <1>4, Take
<1>6. g \in Table /\ \A d \in Clusters : fat12_get(g, d) = IF d = c THEN EOC ELSE fat12_get(u, d)
  BY <1>3, <1>4, SetIs
<1> HIDE DEF g
<1>7. p # c /\ fat12_get(g, p) = EOC
  BY <1>1, <1>3, <1>4, <1>6
<1>8. Sound(t, H \cup {h})
  <2> DEFINE G == (H \cup {h}) \cup {c}
  <2>1. c \in G /\ G \ {c} = H \cup {h}
    BY <1>5
  <2>2. Sound(t, G \ {c})
    <3> HIDE DEF G
    <3>1. Sound(g, G)
      BY <1>5 DEF G
    <3>2. QED
      BY <1>1, <1>7, <2>1, <3>1, LinkBehind
  <2>3. QED
    BY <2>1, <2>2
<1>9. t \in Table /\ \A d \in Clusters : fat12_get(t, d) = IF d = p THEN c ELSE fat12_get(g, d)
  BY <1>1, <1>4, <1>6, SetIs
<1>10. TakeRound(l) = [fat |-> t, prev |-> c]
  BY <1>1, ClusterFacts DEF TakeRound, c, g
<1> HIDE DEF t
<1>11. \A d \in Clusters : fat12_get(t, d) = IF d = p THEN c ELSE IF d = c THEN EOC ELSE fat12_get(u, d)
  BY <1>6, <1>9
<1>12. ASSUME NEW x \in H
       PROVE  Kept(f, t, x) /\ ~ On(f, x, c)
  <2>1. Kept(f, u, x) /\ ~ On(f, x, p) /\ x \in Words /\ x \in H \cup {h}
    BY <1>1, <1>3
  <2>2. Walk(u, x) = Walk(f, x)
    BY <1>3, <2>1, KeptWalk
  <2>3. \A j \in 0..n : Walk(f, x)[j] # c
    BY <1>1, <1>4, <2>1, <2>2, ChainTaken
  <2>4. \A j \in 0..n : Walk(f, x)[j] # p
    BY <2>1 DEF On
  <2>5. Kept(f, t, x)
    BY <1>11, <2>1, <2>3, <2>4 DEF Kept
  <2>6. QED
    BY <2>3, <2>5 DEF On
<1>13. Cardinality(FreeClusters(t)) = Cardinality(FreeClusters(f)) - (k + 1)
  <2>1. FreeClusters(t) = FreeClusters(u) \ {c}
    BY <1>1, <1>3, <1>4, <1>11, ClusterFacts DEF FreeClusters
  <2>2. Cardinality(FreeClusters(t)) = Cardinality(FreeClusters(u)) - 1
    BY <1>4, <2>1, FreeFinite, FS_RemoveElement
  <2>3. Cardinality(FreeClusters(f)) \in Nat
    BY FreeFinite
  <2>4. QED
    BY <1>1, <2>2, <2>3
<1>14. PICK m \in 1..n : \A j \in 0..n : v[j] \in Clusters <=> j < m
  <2>1. h \in H \cup {h}
    OBVIOUS
  <2>2. QED
    BY <1>1, <2>1, ChainIs
<1>15. /\ v[0] = h /\ \A j \in 1..n : v[j] = IF v[j - 1] \in Clusters THEN fat12_get(u, v[j - 1]) ELSE 0
       /\ w[0] = h /\ \A j \in 1..n : w[j] = IF w[j - 1] \in Clusters THEN fat12_get(t, w[j - 1]) ELSE 0
  <2> HIDE DEF n
  <2>1. u \in Table /\ t \in Table /\ h \in Words
    BY <1>3, <1>9
  <2>2. QED
    BY <2>1, WalkIs DEF n
<1>16. \A i, j \in 0..n : v[i] \in Clusters /\ v[i] = v[j] => i = j
  BY <1>1, Meet
<1>17. \A j \in 0..n : v[j] # c
  BY <1>1, <1>4, ChainTaken
<1>18. \A d : (On(u, h, d) <=> \E j \in 0..n : v[j] = d) /\ (On(t, h, d) <=> \E j \in 0..n : w[j] = d)
  BY DEF On
<1> HIDE DEF u, p, v, w, n
<1>19. m = k
  <2>1. k - 1 < m
    BY <1>1, <1>2, <1>14
  <2>2. v[k] = EOC
    BY <1>1, <1>2, <1>15
  <2>3. ~ (k < m)
    BY <1>2, <1>14, <2>2, ClusterFacts
  <2>4. QED
    BY <1>2, <2>1, <2>3
<1>20. \A j \in 0..(k - 1) : w[j] = v[j]
  <2> DEFINE T == {j \in 0..(k - 1) : w[j] = v[j]}
  <2>1. 0 \in T /\ k - 1 \in Nat
    BY <1>2, <1>15
  <2>2. ASSUME NEW j \in 0..(k - 1 - 1), j \in T
        PROVE  j + 1 \in T
    <3>1. /\ j \in 0..n /\ j + 1 \in 1..n /\ (j + 1) - 1 = j /\ j + 1 \in 0..(k - 1)
          /\ j < k /\ j # k - 1
      BY <1>2
    <3>2. w[j] = v[j] /\ v[j] \in Clusters
      BY <2>2, <3>1, <1>14, <1>19
    <3>3. v[j] # p
      BY <1>1, <1>2, <1>16, <3>1, <3>2
    <3>4. v[j] # c
      BY <1>17, <3>1
    <3>5. fat12_get(t, v[j]) = fat12_get(u, v[j])
      BY <1>11, <3>2, <3>3, <3>4
    <3>6. w[j + 1] = fat12_get(t, w[j]) /\ v[j + 1] = fat12_get(u, v[j])
      BY <1>15, <3>1, <3>2
    <3>7. QED
      BY <3>1, <3>2, <3>5, <3>6
  <2>3. 0..(k - 1) \subseteq T
    <3> HIDE DEF T
    <3>1. QED
      BY <2>1, <2>2, SetInduction
  <2>4. QED
    BY <2>3
<1>21. w[k - 1] = p /\ w[k] = c
  <2>1. w[k - 1] = p
    BY <1>1, <1>2, <1>20
  <2>2. w[k] = fat12_get(t, p)
    BY <1>1, <1>2, <1>15, <2>1
  <2>3. QED
    BY <1>1, <1>11, <2>1, <2>2
<1>22. ASSUME NEW d \in Clusters
       PROVE  fat12_get(t, d) = fat12_get(f, d) \/ On(t, h, d)
  <2>1. CASE d = c \/ d = p
    BY <1>2, <1>18, <1>21, <2>1
  <2>2. CASE d # c /\ d # p /\ On(u, h, d)
    <3>1. PICK j \in 0..n : v[j] = d
      BY <1>18, <2>2
    <3>2. j < k
      BY <1>14, <1>19, <3>1
    <3>3. j \in 0..(k - 1)
      BY <1>2, <3>2
    <3>4. w[j] = d
      BY <1>20, <3>1, <3>3
    <3>5. QED
      BY <1>18, <3>4
  <2>3. CASE d # c /\ d # p /\ ~ On(u, h, d)
    BY <1>1, <1>11, <2>3
  <2>4. QED
    BY <2>1, <2>2, <2>3
<1>23. fat12_get(t, c) = EOC
  BY <1>4, <1>7, <1>11
<1> DEFINE r == TakeRound(l)
<1>24. r.fat = t /\ r.prev = c
  BY <1>10
<1> HIDE DEF r
<1>25. Walk(r.fat, h)[(k + 1) - 1] = r.prev
  <2>1. (k + 1) - 1 = k
    BY <1>2
  <2>2. QED
    BY <1>21, <1>24, <2>1 DEF w
<1>26. Taking(f, H, h, k + 1, r)
  BY <1>1, <1>4, <1>8, <1>12, <1>13, <1>22, <1>23, <1>24, <1>25 DEF Taking
<1>27. QED
  BY <1>26 DEF r

\* The table after the loop of fat12_write: a new chain of n clusters, and the
\* old chains as they were.
LEMMA ChainTake ==
  ASSUME NEW f, NEW H, Sound(f, H), NEW n \in Nat, n >= 1, Cardinality(FreeClusters(f)) >= n
  PROVE  \E l : l.fat = Chained(f, n) /\ Taking(f, H, fat12_alloc_cluster(f), n, l)
<1> DEFINE h == fat12_alloc_cluster(f)
<1>1. f \in Table /\ FreeClusters(f) # {} /\ Cardinality(FreeClusters(f)) \in Nat
  BY FreeFinite DEF Sound
<1>2. PICK R : /\ Chained(f, n) = R[n].fat
               /\ R[0] = [fat |-> f, prev |-> 0]
               /\ \A k \in 1..n : R[k] = TakeRound(R[k - 1])
  BY <1>1, TakeLoop
<1> DEFINE T == {k \in 0..(n - 1) : Taking(f, H, h, k + 1, R[k + 1])}
<1>3. 0 \in T
  <2>1. 0 \in 0..(n - 1) /\ 1 \in 1..n /\ 1 - 1 = 0 /\ 0 + 1 = 1
    OBVIOUS
  <2>2. R[1] = TakeRound([fat |-> f, prev |-> 0])
    BY <1>2, <2>1
  <2>3. Taking(f, H, h, 1, R[1])
    BY <1>1, <2>2, TakeFirst
  <2> HIDE DEF h
  <2>4. QED
    BY <2>1, <2>3
<1> HIDE DEF h
<1>4. ASSUME NEW k \in 0..(n - 1 - 1), k \in T
      PROVE  k + 1 \in T
  <2>1. /\ k + 1 \in 0..(n - 1) /\ k + 1 \in Nat /\ k + 1 >= 1 /\ k + 1 < Cardinality(FreeClusters(f))
        /\ (k + 1) + 1 \in 1..n /\ ((k + 1) + 1) - 1 = k + 1
    BY <1>1
  <2>2. Taking(f, H, h, k + 1, R[k + 1])
    BY <1>4
  <2>3. R[(k + 1) + 1] = TakeRound(R[k + 1])
    BY <1>2, <2>1
  <2>4. Taking(f, H, h, (k + 1) + 1, TakeRound(R[k + 1]))
    BY <1>1, <2>1, <2>2, TakeNext
  <2>5. QED
    BY <2>1, <2>3, <2>4
<1>5. 0..(n - 1) \subseteq T
  <2>1. n - 1 \in Nat
    OBVIOUS
  <2> HIDE DEF T
  <2>2. QED
    BY <1>3, <1>4, <2>1, SetInduction
<1>6. n - 1 \in 0..(n - 1) /\ (n - 1) + 1 = n
  OBVIOUS
<1>7. Taking(f, H, h, n, R[n])
  BY <1>5, <1>6
<1>8. QED
  BY <1>2, <1>7 DEF h

-----------------------------------------------------------------------------
(* Clusters that are taken and on no chain.                                 *)

LostIn(f, H) == {c \in Clusters : fat12_get(f, c) # 0 /\ \A h \in H : ~ On(f, h, c)}

\* A chain that is kept has the same clusters.
LEMMA KeptOn ==
  ASSUME NEW f \in Table, NEW g \in Table, NEW h \in Words, Kept(f, g, h), NEW c
  PROVE  On(g, h, c) <=> On(f, h, c)
BY KeptWalk DEF On

\* free_chain loses none: the clusters of the chain are free.
LEMMA FreeLosesNone ==
  ASSUME NEW f, NEW H, NEW h \in H, Sound(f, H)
  PROVE  LostIn(free_chain(f, h), H \ {h}) \subseteq LostIn(f, H)
<1> DEFINE t == free_chain(f, h)
<1>1. f \in Table /\ t \in Table /\ H \subseteq Words
  BY FreedIs, ClusterFacts DEF Sound
<1>2. \A c \in Clusters : fat12_get(t, c) = IF On(f, h, c) THEN 0 ELSE fat12_get(f, c)
  BY FreedIs
<1>3. \A g \in H \ {h} : Kept(f, t, g)
  BY FreeChain
<1> HIDE DEF t
<1>4. ASSUME NEW c \in LostIn(t, H \ {h})
      PROVE  c \in LostIn(f, H)
  <2>1. c \in Clusters /\ fat12_get(t, c) # 0 /\ \A g \in H \ {h} : ~ On(t, g, c)
    BY DEF LostIn
  <2>2. ~ On(f, h, c) /\ fat12_get(f, c) # 0
    BY <1>2, <2>1
  <2>3. \A g \in H \ {h} : ~ On(f, g, c)
    BY <1>1, <1>3, <2>1, KeptOn
  <2>4. QED
    BY <2>1, <2>2, <2>3 DEF LostIn
<1>5. QED
  BY <1>4 DEF t

\* The loop of fat12_write loses none: what it takes is on the new chain.
LEMMA TakeLosesNone ==
  ASSUME NEW f, NEW H, Sound(f, H), NEW h, NEW n, NEW l, Taking(f, H, h, n, l)
  PROVE  LostIn(l.fat, H \cup {h}) \subseteq LostIn(f, H)
<1> DEFINE t == l.fat
<1>1. f \in Table /\ t \in Table /\ H \subseteq Words
  BY ClusterFacts DEF Sound, Taking
<1>2. (\A g \in H : Kept(f, t, g)) /\ \A c \in Clusters : fat12_get(t, c) = fat12_get(f, c) \/ On(t, h, c)
  BY DEF Taking
<1> HIDE DEF t
<1>3. ASSUME NEW c \in LostIn(t, H \cup {h})
      PROVE  c \in LostIn(f, H)
  <2>1. c \in Clusters /\ fat12_get(t, c) # 0 /\ \A g \in H \cup {h} : ~ On(t, g, c)
    BY DEF LostIn
  <2>2. fat12_get(f, c) # 0
    BY <1>2, <2>1
  <2>3. \A g \in H : ~ On(f, g, c)
    BY <1>1, <1>2, <2>1, KeptOn
  <2>4. QED
    BY <2>1, <2>2, <2>3 DEF LostIn
<1>4. QED
  BY <1>3 DEF t

\* The clusters of a chain are those on it.
LEMMA ChainOn ==
  ASSUME NEW f, NEW H, NEW h \in H, Sound(f, H), NEW c \in Clusters
  PROVE  (\A k \in 1..Len(WholeChain(f, h)) : WholeChain(f, h)[k] # c) <=> ~ On(f, h, c)
<1> DEFINE s == WholeChain(f, h)
<1>1. Held \in Nat
  BY HeldFits, Fat12Assumption
<1>2. PICK m \in 1..Held :
        /\ s = [k \in 1..m |-> Walk(f, h)[k - 1]]
        /\ \A j \in 0..Held : Walk(f, h)[j] \in Clusters <=> j < m
  BY ChainIs
<1>3. Len(s) = m /\ m \in Nat /\ \A k \in 1..m : s[k] = Walk(f, h)[k - 1] /\ k - 1 \in 0..Held
  BY <1>1, <1>2
<1> HIDE DEF s
<1>4. ASSUME NEW k \in 1..m, s[k] = c
      PROVE  On(f, h, c)
  BY <1>3, <1>4 DEF On
<1>5. ASSUME On(f, h, c)
      PROVE  \E k \in 1..m : s[k] = c
  <2>1. PICK j \in 0..Held : Walk(f, h)[j] = c
    BY <1>5 DEF On
  <2>2. j + 1 \in 1..m /\ (j + 1) - 1 = j
    BY <1>1, <1>2, <1>3, <2>1
  <2>3. s[j + 1] = c
    BY <1>3, <2>1, <2>2
  <2>4. QED
    BY <2>2, <2>3
<1>6. QED
  BY <1>3, <1>4, <1>5 DEF s

\* Nothing begins at 0.
LEMMA NoChain ==
  ASSUME NEW f \in Table
  PROVE  Len(WholeChain(f, 0)) = 0
<1> DEFINE n == Held
           w == Walk(f, 0)
           T == {j \in 0..n : w[j] = 0}
<1>1. n \in Nat /\ 0 \in Words /\ 0 \notin Clusters
  BY HeldFits, Fat12Assumption, ClusterFacts
<1>2. w[0] = 0 /\ \A k \in 1..n : w[k] = IF w[k - 1] \in Clusters THEN fat12_get(f, w[k - 1]) ELSE 0
  BY <1>1, WalkIs
<1> HIDE DEF w
<1>3. 0 \in T
  BY <1>1, <1>2
<1>4. ASSUME NEW j \in 0..(n - 1), j \in T
      PROVE  j + 1 \in T
  <2>1. j + 1 \in 1..n /\ j + 1 \in 0..n /\ (j + 1) - 1 = j /\ w[j] = 0
    BY <1>1, <1>4
  <2>2. w[j + 1] = 0
    BY <1>1, <1>2, <2>1
  <2>3. QED
    BY <2>1, <2>2
<1>5. 0..n \subseteq T
  <2> HIDE DEF T
  <2>1. QED
    BY <1>1, <1>3, <1>4, SetInduction
<1>6. {j \in 0..n : w[j] \in Clusters} = {}
  BY <1>1, <1>5
<1>7. Cardinality({j \in 0..n : w[j] \in Clusters}) = 0
  BY <1>6, FS_EmptySet
<1>8. WholeChain(f, 0) = [k \in 1..0 |-> w[k - 1]]
  BY <1>7 DEF WholeChain, w
<1>9. QED
  BY <1>8

\* The number of clusters a file takes.
LEMMA NeededIs ==
  ASSUME NEW c \in Contents
  PROVE  c[2] \in Nat /\ Needed(c[2]) \in Nat /\ Needed(c[2]) >= 1
<1>1. c[2] \in Nat
  BY HeldFits, Fat12Assumption DEF Contents
<1> DEFINE a == c[2]
           b == SectorsPerCluster
<1>2. a \in Nat /\ b \in Nat /\ b > 0
  BY <1>1, HeldFits, Fat12Assumption
<1> HIDE DEF a, b
<1>3. a \div b \in Nat
  BY <1>2
<1>4. QED
  BY <1>1, <1>3 DEF Needed, a, b

-----------------------------------------------------------------------------
(* The inductive invariant.                                                 *)

\* Where the chains of the files begin; and that of the file that is written.
Firsts == {dir[i].first : i \in Used}
Heads  == Firsts \cup (IF op.pc = "data" THEN {op.first} ELSE {})

Marked == [mark : {"end", "deleted", "used"}, name : ShortNames \cup {ABSENT},
           first : Clusters \cup {0}, size : Nat]

Calls == [pc : {"idle", "data", "flush"}, name : Names \cup {ABSENT}, content : Contents \cup {ABSENT},
          first : Clusters \cup {0}, cluster : Clusters \cup {0, EOC}, s : 0..(SectorsPerCluster - 1),
          written : Nat, k : Nat]

TypeOK ==
    /\ fat_data \in Table
    /\ fat_dirty \in BOOLEAN
    /\ disk_fat \in [1..NumFats -> Table]
    /\ dir \in [Entries -> Marked]
    /\ data \in [Clusters \X (0..(SectorsPerCluster - 1)) -> (Values \X Nat) \cup {ABSENT}]
    /\ op \in Calls

\* The fields of a call that matter in each of its phases.
CallShape ==
    /\ op.pc = "idle" => op = Idle
    /\ op.pc = "data" => op.name \in Names /\ op.content \in Contents /\ op.first \in Clusters /\ op.k = 0
    /\ op.pc = "flush" => op.name \in Names /\ op.k <= NumFats * FatSectors /\ op.first \in Firsts \cup {0}

\* Every file has a chain of its own.
ChainsSound ==
    /\ Sound(fat_data, Heads)
    /\ \A i, j \in Used : dir[i].first = dir[j].first => i = j
    /\ op.pc = "data" => op.first \notin Firsts

\* The end marks come last, and a name is used once; it is not used while a
\* file of that name is written.
DirectoryShape ==
    /\ \A i, j \in Entries : i <= j /\ dir[i].mark = "end" => dir[j].mark = "end"
    /\ \A i, j \in Used : dir[i].name = dir[j].name /\ dir[i].name \in OwnNames => i = j
    /\ op.pc = "data" /\ op.name \in OwnNames => \A i \in Used : dir[i].name # op.name

\* Until a call begins to write the table, the disk has the chain of every
\* file; then it has those of all files but its own.
DiskBefore ==
    op.pc # "flush" => /\ Sound(disk_fat[1], Firsts)
                       /\ \A h \in Firsts : Kept(fat_data, disk_fat[1], h)

DiskDuring ==
    op.pc = "flush" =>
        /\ \A b \in Bytes : (op.k >= FatSectors \/ (op.k >= 1 /\ b < FatSectorBytes)) =>
                                disk_fat[1][b] = fat_data[b]
        /\ \A i \in Used : dir[i].first # op.first => Kept(fat_data, disk_fat[1], dir[i].first)
        /\ op.content = ABSENT => op.first = 0 /\ (op.k = 0 => Sound(disk_fat[1], Firsts))

\* A table that is not dirty is the one on the disk.
CleanIsOnDisk == ~ fat_dirty => op.pc = "idle" /\ disk_fat[1] = fat_data

IInv == TypeOK /\ CallShape /\ ChainsSound /\ DirectoryShape /\ DiskBefore /\ DiskDuring /\ CleanIsOnDisk

\* An empty table: every cluster is free.
LEMMA EmptyIs == Sound(EmptyFat, {})
<1> DEFINE z == [b \in Bytes |-> 0]
           y == fat12_set(z, 0, 4080)
<1>1. z \in Table
  BY DEF Table
<1>2. 0 \in Slots /\ 1 \in Slots /\ 4080 \in Words /\ EOC \in Words
  BY ClusterFacts DEF Words
<1>3. y \in Table /\ EmptyFat \in Table
  BY <1>1, <1>2, SetType DEF EmptyFat
<1>4. ASSUME NEW c \in Clusters
      PROVE  fat12_get(EmptyFat, c) = 0
  <2>1. c \in Slots /\ c # 0 /\ c # 1 /\ c \in Nat
    BY ClusterFacts
  <2>2. z[Offset(c)] = 0 /\ z[Offset(c) + 1] = 0
    BY <2>1, Room
  <2>3. fat12_get(z, c) = 0
    BY <2>2 DEF fat12_get
  <2> HIDE DEF z
  <2>4. fat12_get(y, c) = fat12_get(z, c)
    BY <1>1, <1>2, <2>1, GetSet
  <2>5. fat12_get(fat12_set(y, 1, EOC), c) = fat12_get(y, c)
    BY <1>2, <1>3, <2>1, GetSet
  <2>6. QED
    BY <2>3, <2>4, <2>5 DEF EmptyFat, z
<1>5. QED
  BY <1>3, <1>4, ClusterFacts DEF Sound

\* A table that has some bytes of f and some of d has the entries in which the
\* two agree.
LEMMA Mixed ==
  ASSUME NEW f \in Table, NEW d \in Table, NEW e \in Table, NEW c \in Clusters,
         \A b \in Bytes : e[b] = d[b] \/ e[b] = f[b],
         fat12_get(d, c) = fat12_get(f, c)
  PROVE  fat12_get(e, c) = fat12_get(f, c)
<1> DEFINE o == Offset(c)
<1>1. c \in Nat /\ o \in Bytes /\ o + 1 \in Bytes
  BY ClusterFacts, Room
<1>2. /\ f[o] \in 0..255 /\ f[o + 1] \in 0..255 /\ d[o] \in 0..255 /\ d[o + 1] \in 0..255
      /\ (e[o] = d[o] \/ e[o] = f[o]) /\ (e[o + 1] = d[o + 1] \/ e[o + 1] = f[o + 1])
  BY <1>1 DEF Table
<1> HIDE DEF o
<1> DEFINE a == f[o]
           b == f[o + 1]
           s == d[o]
           t == d[o + 1]
<1>3. CASE c % 2 = 1
  <2>1. (a \div 16) + (b * 16) = (s \div 16) + (t * 16)
    BY <1>3 DEF fat12_get, o
  <2> HIDE DEF a, b, s, t
  <2>2. a \in 0..255 /\ b \in 0..255 /\ s \in 0..255 /\ t \in 0..255
    BY <1>2 DEF a, b, s, t
  <2>3. a \div 16 \in 0..15 /\ s \div 16 \in 0..15
    BY <2>2
  <2>4. a \div 16 = s \div 16 /\ b = t
    BY <2>1, <2>2, <2>3
  <2>5. e[o] \div 16 = a \div 16 /\ e[o + 1] = b
    BY <1>2, <2>4 DEF a, b, s, t
  <2>6. QED
    BY <1>3, <2>5 DEF fat12_get, o, a, b
<1>4. CASE c % 2 # 1
  <2>1. a + ((b % 16) * 256) = s + ((t % 16) * 256)
    BY <1>4 DEF fat12_get, o
  <2> HIDE DEF a, b, s, t
  <2>2. a \in 0..255 /\ b \in 0..255 /\ s \in 0..255 /\ t \in 0..255
    BY <1>2 DEF a, b, s, t
  <2>3. b % 16 \in 0..15 /\ t % 16 \in 0..15
    BY <2>2
  <2>4. b % 16 = t % 16 /\ a = s
    BY <2>1, <2>2, <2>3
  <2>5. e[o] = a /\ e[o + 1] % 16 = b % 16
    BY <1>2, <2>4 DEF a, b, s, t
  <2>6. QED
    BY <1>4, <2>5 DEF fat12_get, o, a, b
<1>5. QED
  BY <1>3, <1>4

\* A chain is its own.
LEMMA KeptSelf == ASSUME NEW f, NEW h PROVE Kept(f, f, h)
BY DEF Kept

\* The state after fat12_init.
LEMMA InitIInv == Init => IInv
<1> SUFFICES ASSUME Init PROVE IInv
  OBVIOUS
<1>1. Sound(EmptyFat, {}) /\ EmptyFat \in Table
  BY EmptyIs DEF Sound
<1>2. NumFats \in {1, 2} /\ 1 \in 1..NumFats
  BY HeldFits, Fat12Assumption
<1>3. fat_data = EmptyFat /\ disk_fat[1] = EmptyFat /\ disk_fat \in [1..NumFats -> Table]
  BY <1>1, <1>2 DEF Init
<1>4. \A i \in Entries : dir[i] = FREE
  BY DEF Init
<1>5. Used = {} /\ Firsts = {} /\ \A i \in Entries : dir[i].mark = "end"
  BY <1>4 DEF Used, Firsts, FREE
<1>6. op.pc = "idle" /\ op = Idle /\ Heads = {}
  BY <1>5 DEF Init, Idle, Heads
<1>7. op \in Calls
  <2>1. 0 \in 0..(SectorsPerCluster - 1)
    BY HeldFits, Fat12Assumption
  <2>2. QED
    BY <1>6, <2>1 DEF Calls, Idle
<1>8. dir \in [Entries -> Marked]
  BY DEF Init, FREE, Marked
<1>9. data \in [Clusters \X (0..(SectorsPerCluster - 1)) -> (Values \X Nat) \cup {ABSENT}]
  BY DEF Init
<1>10. TypeOK
  BY <1>1, <1>3, <1>7, <1>8, <1>9 DEF TypeOK, Init
<1>11. CallShape
  BY <1>6 DEF CallShape
<1>12. ChainsSound
  BY <1>1, <1>3, <1>5, <1>6 DEF ChainsSound
<1>13. DirectoryShape
  BY <1>5, <1>6 DEF DirectoryShape
<1>14. DiskBefore /\ DiskDuring
  BY <1>1, <1>3, <1>5, <1>6 DEF DiskBefore, DiskDuring
<1>15. CleanIsOnDisk
  BY <1>3, <1>6 DEF CleanIsOnDisk
<1>16. QED
  BY <1>10, <1>11, <1>12, <1>13, <1>14, <1>15 DEF IInv

-----------------------------------------------------------------------------
(* The directory.                                                           *)

\* Every used entry is found: no end mark comes before it.
LEMMA UsedVisible ==
  ASSUME DirectoryShape, NEW i \in Used
  PROVE  Visible(i)
<1>1. i \in Entries /\ dir[i].mark = "used"
  BY DEF Used
<1>2. \A j \in 0..i : j \in Entries /\ j <= i
  BY <1>1, HeldFits, Fat12Assumption DEF Entries
<1>3. QED
  BY <1>1, <1>2 DEF DirectoryShape, Visible

\* find_entry finds the file of the name, if there is one.
LEMMA FindIs ==
  ASSUME DirectoryShape, NEW n
  PROVE  /\ find_entry(n) # NONE => find_entry(n) \in Used /\ dir[find_entry(n)].name = n
         /\ find_entry(n) = NONE => \A i \in Used : dir[i].name # n
<1>1. Matching(n) \in SUBSET Nat
  BY HeldFits, Fat12Assumption DEF Matching, Entries
<1>2. Matching(n) # {} => \E x \in Matching(n) : \A y \in Matching(n) : x <= y
  BY <1>1, LeastNat
<1>3. Matching(n) # {} => find_entry(n) \in Matching(n)
  BY <1>2 DEF find_entry
<1>4. \A i \in Matching(n) : i \in Used /\ dir[i].name = n
  BY DEF Matching, Used
<1>5. \A i \in Used : dir[i].name = n => i \in Matching(n)
  BY UsedVisible DEF Matching, Used
<1>6. NONE \notin Matching(n)
  BY <1>1 DEF NONE
<1>7. QED
  BY <1>3, <1>4, <1>5, <1>6 DEF find_entry

UsedIn(D) == {i \in Entries : D[i].mark = "used"}
FirstsIn(D) == {D[i].first : i \in UsedIn(D)}

\* The file of a name is taken out of the directory and its chain is freed:
\* the other files keep their entries and their chains.
LEMMA Unlink ==
  ASSUME TypeOK, ChainsSound, DirectoryShape, op.pc = "idle", NEW n,
         NEW D, D = Unlinked(find_entry(n)), NEW f, f = WithoutOld(find_entry(n))
  PROVE  /\ D \in [Entries -> Marked]
         /\ UsedIn(D) \subseteq Used /\ \A i \in UsedIn(D) : D[i] = dir[i]
         /\ \A i \in Used : dir[i].name # n => i \in UsedIn(D)
         /\ FirstsIn(D) \subseteq Firsts
         /\ Sound(f, FirstsIn(D))
         /\ \A h \in FirstsIn(D) : Kept(fat_data, f, h)
         /\ LostIn(f, FirstsIn(D)) \subseteq LostIn(fat_data, Firsts)
         /\ \A i, j \in Entries : i <= j /\ D[i].mark = "end" => D[j].mark = "end"
         /\ n \in OwnNames => \A i \in UsedIn(D) : D[i].name # n
<1>1. Heads = Firsts /\ Sound(fat_data, Firsts) /\ dir \in [Entries -> Marked]
  BY DEF Heads, ChainsSound, TypeOK
<1>2. \A i, j \in Entries : i <= j /\ dir[i].mark = "end" => dir[j].mark = "end"
  BY DEF DirectoryShape
<1>3. CASE find_entry(n) = NONE
  <2>1. D = dir /\ f = fat_data
    BY <1>3 DEF Unlinked, WithoutOld
  <2>2. UsedIn(D) = Used /\ FirstsIn(D) = Firsts
    BY <2>1 DEF UsedIn, FirstsIn, Used, Firsts
  <2>3. \A i \in UsedIn(D) : D[i].name # n
    BY <1>3, <2>1, <2>2, FindIs
  <2>4. QED
    BY <1>1, <1>2, <2>1, <2>2, <2>3, KeptSelf
<1>4. CASE find_entry(n) # NONE
  <2> DEFINE e == find_entry(n)
             h == dir[e].first
  <2>1. e \in Used /\ dir[e].name = n /\ e \in Entries /\ dir[e].mark = "used"
    BY <1>4, FindIs DEF Used
  <2>2. D = [dir EXCEPT ![e] = DELETED] /\ f = free_chain(fat_data, h)
    BY <1>4 DEF Unlinked, WithoutOld
  <2> HIDE DEF e
  <2>3. \A i \in Entries : D[i] = IF i = e THEN DELETED ELSE dir[i]
    BY <1>1, <2>1, <2>2
  <2>4. DELETED \in Marked /\ DELETED.mark = "deleted"
    BY DEF DELETED, Marked
  <2>5. D \in [Entries -> Marked]
    BY <1>1, <2>1, <2>2, <2>4
  <2>6. UsedIn(D) = Used \ {e}
    BY <2>3, <2>4 DEF UsedIn, Used
  <2>7. \A i \in UsedIn(D) : D[i] = dir[i] /\ i \in Used /\ i # e
    BY <2>3, <2>6 DEF Used
  <2>8. \A i \in UsedIn(D) : dir[i].first # h
    BY <2>1, <2>7 DEF ChainsSound
  <2>9. FirstsIn(D) = Firsts \ {h}
    <3>1. FirstsIn(D) \subseteq Firsts \ {h}
      BY <2>7, <2>8 DEF FirstsIn, Firsts
    <3>2. ASSUME NEW x \in Firsts, x # h
          PROVE  x \in FirstsIn(D)
      <4>1. PICK i \in Used : x = dir[i].first
        BY DEF Firsts
      <4>2. i \in UsedIn(D)
        BY <2>6, <3>2, <4>1
      <4>3. QED
        BY <2>7, <4>1, <4>2 DEF FirstsIn
    <3>3. QED
      BY <3>1, <3>2
  <2>10. h \in Firsts
    BY <2>1 DEF Firsts
  <2>11. /\ Sound(f, FirstsIn(D)) /\ \A x \in FirstsIn(D) : Kept(fat_data, f, x)
         /\ LostIn(f, FirstsIn(D)) \subseteq LostIn(fat_data, Firsts)
    <3> HIDE DEF h
    <3>1. /\ Sound(free_chain(fat_data, h), Firsts \ {h})
          /\ \A x \in Firsts \ {h} : Kept(fat_data, free_chain(fat_data, h), x)
          /\ LostIn(free_chain(fat_data, h), Firsts \ {h}) \subseteq LostIn(fat_data, Firsts)
      BY <1>1, <2>10, FreeChain, FreeLosesNone
    <3>2. QED
      BY <2>2, <2>9, <3>1
  <2>12. \A i, j \in Entries : i <= j /\ D[i].mark = "end" => D[j].mark = "end"
    BY <1>2, <2>1, <2>3, <2>4
  <2>13. ASSUME n \in OwnNames, NEW i \in UsedIn(D)
         PROVE  D[i].name # n
    BY <2>1, <2>7, <2>13 DEF DirectoryShape
  <2>14. QED
    BY <2>1, <2>5, <2>6, <2>7, <2>9, <2>11, <2>12, <2>13
<1>5. QED
  BY <1>3, <1>4

-----------------------------------------------------------------------------
(* One step per action.                                                     *)

\* fat12_write, up to its first sector.
LEMMA WriteStep ==
  ASSUME IInv, NEW n \in Names, NEW c \in Contents, fat12_write(n, c)
  PROVE  IInv'
<1> DEFINE e == find_entry(n)
           f == WithoutOld(e)
           D == Unlinked(e)
           h == fat12_alloc_cluster(f)
           N == Needed(c[2])
<1>1. TypeOK /\ CallShape /\ ChainsSound /\ DirectoryShape /\ DiskBefore /\ DiskDuring /\ CleanIsOnDisk
  BY DEF IInv
<1>2. /\ op = Idle /\ op.pc = "idle" /\ dir' = D /\ UNCHANGED <<disk_fat, data>>
      /\ fat_dirty' \in BOOLEAN /\ fat_dirty' = (fat_dirty \/ e # NONE \/ h # 0)
  BY DEF fat12_write, Idle
<1>3. /\ D \in [Entries -> Marked]
      /\ UsedIn(D) \subseteq Used /\ \A i \in UsedIn(D) : D[i] = dir[i]
      /\ FirstsIn(D) \subseteq Firsts
      /\ Sound(f, FirstsIn(D))
      /\ \A x \in FirstsIn(D) : Kept(fat_data, f, x)
      /\ \A i, j \in Entries : i <= j /\ D[i].mark = "end" => D[j].mark = "end"
      /\ n \in OwnNames => \A i \in UsedIn(D) : D[i].name # n
  BY <1>1, <1>2, Unlink
<1>4. \/ fat_data' = f /\ op' = op /\ Cardinality(FreeClusters(f)) < N
      \/ /\ Cardinality(FreeClusters(f)) >= N /\ fat_data' = Chained(f, N)
         /\ op' = [Idle EXCEPT !.pc = "data", !.name = n, !.content = c, !.first = h, !.cluster = h]
  BY DEF fat12_write
<1>5. /\ Sound(disk_fat[1], Firsts) /\ \A x \in Firsts : Kept(fat_data, disk_fat[1], x)
      /\ Firsts \subseteq Words /\ fat_data \in Table /\ f \in Table
  BY <1>1, <1>2, <1>3, ClusterFacts DEF DiskBefore, Sound, TypeOK
<1> HIDE DEF e, f, D, h, N
<1>6. Used' = UsedIn(D) /\ Firsts' = FirstsIn(D)
  BY <1>2 DEF Used, Firsts, UsedIn, FirstsIn
<1>7. /\ \A i, j \in UsedIn(D) : D[i].first = D[j].first => i = j
      /\ \A i, j \in UsedIn(D) : D[i].name = D[j].name /\ D[i].name \in OwnNames => i = j
  BY <1>1, <1>3 DEF ChainsSound, DirectoryShape
<1>8. Sound(disk_fat[1], FirstsIn(D))
  BY <1>3, <1>5, SoundSubset
<1>9. CASE fat_data' = f /\ op' = op /\ Cardinality(FreeClusters(f)) < N
  <2>1. op' = Idle /\ op'.pc = "idle" /\ Heads' = FirstsIn(D)
    BY <1>2, <1>6, <1>9 DEF Heads
  <2>2. TypeOK'
    BY <1>1, <1>2, <1>3, <1>5, <1>9 DEF TypeOK
  <2>3. CallShape'
    BY <2>1 DEF CallShape
  <2>4. ChainsSound'
    BY <1>2, <1>3, <1>6, <1>7, <1>9, <2>1 DEF ChainsSound
  <2>5. DirectoryShape'
    BY <1>2, <1>3, <1>6, <1>7, <2>1 DEF DirectoryShape
  <2>6. \A x \in FirstsIn(D) : Kept(f, disk_fat[1], x)
    BY <1>3, <1>5, KeptBoth
  <2>7. DiskBefore' /\ DiskDuring'
    BY <1>2, <1>6, <1>8, <1>9, <2>1, <2>6 DEF DiskBefore, DiskDuring
  <2>8. CleanIsOnDisk'
    <3>1. e = NONE => f = fat_data
      BY DEF f, WithoutOld
    <3>2. QED
      BY <1>1, <1>2, <1>9, <2>1, <3>1 DEF CleanIsOnDisk
  <2>9. QED
    BY <2>2, <2>3, <2>4, <2>5, <2>7, <2>8 DEF IInv
<1>10. CASE /\ Cardinality(FreeClusters(f)) >= N /\ fat_data' = Chained(f, N)
            /\ op' = [Idle EXCEPT !.pc = "data", !.name = n, !.content = c, !.first = h, !.cluster = h]
  <2>1. N \in Nat /\ N >= 1
    BY NeededIs DEF N
  <2>2. PICK l : l.fat = Chained(f, N) /\ Taking(f, FirstsIn(D), h, N, l)
    BY <1>3, <1>10, <2>1, ChainTake DEF h
  <2> DEFINE t == Chained(f, N)
  <2>3. /\ h \in Clusters /\ h \notin FirstsIn(D) /\ Sound(t, FirstsIn(D) \cup {h}) /\ t \in Table
        /\ \A x \in FirstsIn(D) : Kept(f, t, x)
    BY <2>2 DEF Taking, Sound
  <2> HIDE DEF t
  <2>4. fat_data' = t
    BY <1>10 DEF t
  <2>5. op' = [pc |-> "data", name |-> n, content |-> c, first |-> h,
               cluster |-> h, s |-> 0, written |-> 0, k |-> 0]
    BY <1>10 DEF Idle
  <2>6. op' \in Calls
    <3>1. 0 \in 0..(SectorsPerCluster - 1)
      BY HeldFits, Fat12Assumption
    <3>2. QED
      BY <2>3, <2>5, <3>1 DEF Calls
  <2>7. op'.pc = "data" /\ op'.name = n /\ op'.content = c /\ op'.first = h /\ op'.k = 0
    BY <2>5
  <2>8. Heads' = FirstsIn(D) \cup {h}
    BY <1>6, <2>7 DEF Heads
  <2>9. TypeOK'
    BY <1>1, <1>2, <1>3, <2>3, <2>4, <2>6 DEF TypeOK
  <2>10. CallShape'
    BY <2>3, <2>7 DEF CallShape
  <2>11. ChainsSound'
    BY <1>2, <1>6, <1>7, <2>3, <2>4, <2>7, <2>8 DEF ChainsSound
  <2>12. DirectoryShape'
    BY <1>2, <1>3, <1>6, <1>7, <2>7 DEF DirectoryShape
  <2>13. ASSUME NEW x \in FirstsIn(D)
         PROVE  Kept(t, disk_fat[1], x)
    <3>1. Kept(fat_data, f, x) /\ Kept(f, t, x) /\ Kept(fat_data, disk_fat[1], x) /\ x \in Words
      BY <1>3, <1>5, <2>3
    <3>2. Kept(fat_data, t, x)
      BY <1>5, <3>1, KeptTwice
    <3>3. QED
      BY <1>5, <2>3, <3>1, <3>2, KeptBoth
  <2>14. DiskBefore' /\ DiskDuring'
    BY <1>2, <1>6, <1>8, <2>4, <2>7, <2>13 DEF DiskBefore, DiskDuring
  <2>15. CleanIsOnDisk'
    BY <1>2, <2>3, ClusterFacts DEF CleanIsOnDisk
  <2>16. QED
    BY <2>9, <2>10, <2>11, <2>12, <2>14, <2>15 DEF IInv
<1>11. QED
  BY <1>4, <1>9, <1>10

\* fat12_delete, up to fat_flush.
LEMMA DeleteStep ==
  ASSUME IInv, NEW n \in Names, fat12_delete(n)
  PROVE  IInv'
<1> DEFINE e == find_entry(n)
           f == WithoutOld(e)
           D == Unlinked(e)
<1>1. TypeOK /\ CallShape /\ ChainsSound /\ DirectoryShape /\ DiskBefore /\ DiskDuring /\ CleanIsOnDisk
  BY DEF IInv
<1>2. /\ op = Idle /\ op.pc = "idle" /\ dir' = D /\ fat_data' = f /\ UNCHANGED <<disk_fat, data>>
      /\ fat_dirty' = TRUE /\ op' = [Idle EXCEPT !.pc = "flush", !.name = n]
  BY DEF fat12_delete, Idle
<1>3. /\ D \in [Entries -> Marked]
      /\ UsedIn(D) \subseteq Used /\ \A i \in UsedIn(D) : D[i] = dir[i]
      /\ FirstsIn(D) \subseteq Firsts
      /\ Sound(f, FirstsIn(D))
      /\ \A x \in FirstsIn(D) : Kept(fat_data, f, x)
      /\ \A i, j \in Entries : i <= j /\ D[i].mark = "end" => D[j].mark = "end"
      /\ n \in OwnNames => \A i \in UsedIn(D) : D[i].name # n
  BY <1>1, <1>2, Unlink
<1>4. /\ \A x \in Firsts : Kept(fat_data, disk_fat[1], x)
      /\ Firsts \subseteq Words /\ fat_data \in Table /\ f \in Table
      /\ Sound(disk_fat[1], FirstsIn(D))
  BY <1>1, <1>2, <1>3, ClusterFacts, SoundSubset DEF DiskBefore, Sound, TypeOK
<1> HIDE DEF e, f, D
<1>5. Used' = UsedIn(D) /\ Firsts' = FirstsIn(D)
  BY <1>2 DEF Used, Firsts, UsedIn, FirstsIn
<1>6. /\ \A i, j \in UsedIn(D) : D[i].first = D[j].first => i = j
      /\ \A i, j \in UsedIn(D) : D[i].name = D[j].name /\ D[i].name \in OwnNames => i = j
  BY <1>1, <1>3 DEF ChainsSound, DirectoryShape
<1>7. op' = [pc |-> "flush", name |-> n, content |-> ABSENT, first |-> 0,
             cluster |-> 0, s |-> 0, written |-> 0, k |-> 0]
  BY <1>2 DEF Idle
<1>8. op' \in Calls
  <2>1. 0 \in 0..(SectorsPerCluster - 1)
    BY HeldFits, Fat12Assumption
  <2>2. QED
    BY <1>7, <2>1 DEF Calls
<1>9. op'.pc = "flush" /\ op'.name = n /\ op'.k = 0 /\ op'.first = 0
  BY <1>7
<1>10. Heads' = FirstsIn(D)
  BY <1>5, <1>9 DEF Heads
<1>11. TypeOK'
  BY <1>1, <1>2, <1>3, <1>4, <1>8 DEF TypeOK
<1>12. CallShape'
  <2>1. NumFats * FatSectors \in Nat
    BY HeldFits, Fat12Assumption
  <2>2. QED
    BY <1>9, <2>1 DEF CallShape
<1>13. ChainsSound'
  BY <1>2, <1>3, <1>5, <1>6, <1>9, <1>10 DEF ChainsSound
<1>14. DirectoryShape'
  BY <1>2, <1>3, <1>5, <1>6, <1>9 DEF DirectoryShape
<1>15. \A x \in FirstsIn(D) : Kept(f, disk_fat[1], x)
  BY <1>3, <1>4, KeptBoth
<1>16. DiskDuring'
  <2>1. ~ (0 >= FatSectors) /\ ~ (0 >= 1)
    BY HeldFits, Fat12Assumption
  <2>2. \A i \in UsedIn(D) : D[i].first \in FirstsIn(D)
    BY DEF FirstsIn
  <2>3. QED
    BY <1>2, <1>4, <1>5, <1>9, <1>15, <2>1, <2>2 DEF DiskDuring
<1>17. DiskBefore'
  BY <1>9 DEF DiskBefore
<1>18. CleanIsOnDisk'
  BY <1>2 DEF CleanIsOnDisk
<1>19. QED
  BY <1>11, <1>12, <1>13, <1>14, <1>16, <1>17, <1>18 DEF IInv

\* A sector of the data: neither the table nor the directory is touched.
LEMMA WriteDataStep ==
  ASSUME IInv, WriteData
  PROVE  IInv'
<1>1. TypeOK /\ CallShape /\ ChainsSound /\ DirectoryShape /\ DiskBefore /\ DiskDuring /\ CleanIsOnDisk
  BY DEF IInv
<1>2. /\ op.pc = "data" /\ DataGoesOn /\ UNCHANGED <<fat_data, fat_dirty, disk_fat, dir>>
      /\ op \in Calls /\ op.content \in Contents
  BY <1>1 DEF WriteData, TypeOK, CallShape
<1>3. op.cluster \in Clusters /\ op.s \in 0..(SectorsPerCluster - 1) /\ op.written \in Nat
  <2>1. op.cluster \in Clusters \cup {0, EOC} /\ op.s \in 0..(SectorsPerCluster - 1) /\ op.written \in Nat
    BY <1>2 DEF Calls
  <2>2. QED
    BY <1>2, <2>1, ClusterFacts DEF DataGoesOn
<1>4. NextCluster \in Clusters \cup {0, EOC}
  <2>1. fat12_get(fat_data, op.cluster) \in Clusters \cup {0, EOC}
    BY <1>1, <1>3 DEF ChainsSound, Sound
  <2>2. QED
    BY <1>3, <2>1 DEF NextCluster
<1>5. (op.s + 1) % SectorsPerCluster \in 0..(SectorsPerCluster - 1)
  <2> DEFINE a == op.s + 1
             b == SectorsPerCluster
  <2>1. a \in Nat /\ b \in Nat /\ b > 0
    BY <1>3, HeldFits, Fat12Assumption
  <2> HIDE DEF a, b
  <2>2. a % b \in 0..(b - 1)
    BY <2>1
  <2>3. QED
    BY <2>2 DEF a, b
<1>6. op' = [op EXCEPT !.written = @ + 1, !.cluster = NextCluster, !.s = (@ + 1) % SectorsPerCluster]
  BY DEF WriteData
<1>7. op' \in Calls
  <2> DEFINE a == (op.s + 1) % SectorsPerCluster
             b == NextCluster
             d == op.written + 1
  <2>1. op' = [op EXCEPT !.written = d, !.cluster = b, !.s = a]
    BY <1>6
  <2>2. d \in Nat /\ a \in 0..(SectorsPerCluster - 1) /\ b \in Clusters \cup {0, EOC}
    BY <1>3, <1>4, <1>5
  <2> HIDE DEF a, b, d
  <2>3. QED
    BY <1>2, <2>1, <2>2 DEF Calls
<1>8. /\ op'.pc = op.pc /\ op'.name = op.name /\ op'.content = op.content
      /\ op'.first = op.first /\ op'.k = op.k
  BY <1>2, <1>6 DEF Calls
<1>9. data' \in [Clusters \X (0..(SectorsPerCluster - 1)) -> (Values \X Nat) \cup {ABSENT}]
  <2>1. op.content[1] \in Values
    BY <1>2 DEF Contents
  <2>2. <<op.content[1], op.written + 1>> \in Values \X Nat
    BY <1>3, <2>1
  <2>3. data' = [data EXCEPT ![<<op.cluster, op.s>>] = <<op.content[1], op.written + 1>>]
    BY DEF WriteData
  <2>4. QED
    BY <1>1, <2>2, <2>3 DEF TypeOK
<1>10. Used' = Used /\ Firsts' = Firsts /\ Heads' = Heads
  BY <1>2, <1>8 DEF Used, Firsts, Heads
<1>11. TypeOK'
  BY <1>1, <1>2, <1>7, <1>9 DEF TypeOK
<1>12. CallShape'
  BY <1>1, <1>2, <1>8 DEF CallShape
<1>13. ChainsSound'
  BY <1>1, <1>2, <1>8, <1>10 DEF ChainsSound
<1>14. DirectoryShape'
  BY <1>1, <1>2, <1>8, <1>10 DEF DirectoryShape
<1>15. DiskBefore' /\ DiskDuring'
  BY <1>1, <1>2, <1>8, <1>10 DEF DiskBefore, DiskDuring
<1>16. CleanIsOnDisk'
  BY <1>1, <1>2 DEF CleanIsOnDisk
<1>17. QED
  BY <1>11, <1>12, <1>13, <1>14, <1>15, <1>16 DEF IInv

\* The first entry that is free is never behind an end mark.
LEMMA RootEntryIs ==
  ASSUME alloc_root_entry # NONE
  PROVE  /\ alloc_root_entry \in Entries /\ dir[alloc_root_entry].mark # "used"
         /\ \A j \in Entries : j < alloc_root_entry => dir[j].mark # "end"
<1>1. Reusable \in SUBSET Nat
  BY HeldFits, Fat12Assumption DEF Reusable, Entries
<1>2. Reusable # {}
  BY DEF alloc_root_entry
<1>3. \E x \in Reusable : \A y \in Reusable : x <= y
  BY <1>1, <1>2, LeastNat
<1>4. alloc_root_entry \in Reusable /\ \A y \in Reusable : alloc_root_entry <= y
  BY <1>2, <1>3 DEF alloc_root_entry
<1>5. \A j \in Entries : j < alloc_root_entry => j \notin Reusable
  BY <1>1, <1>4 DEF Entries
<1>6. QED
  BY <1>4, <1>5 DEF Reusable

\* The new entry, or the chain given back when the directory is full.
LEMMA WriteEntryStep ==
  ASSUME IInv, WriteEntry
  PROVE  IInv'
<1> DEFINE r == alloc_root_entry
           h == op.first
<1>1. TypeOK /\ CallShape /\ ChainsSound /\ DirectoryShape /\ DiskBefore /\ DiskDuring /\ CleanIsOnDisk
  BY DEF IInv
<1>2. /\ op.pc = "data" /\ UNCHANGED <<fat_dirty, disk_fat, data>> /\ op \in Calls /\ fat_dirty = TRUE
      /\ op.name \in Names /\ op.content \in Contents /\ h \in Clusters /\ op.k = 0
  BY <1>1 DEF WriteEntry, TypeOK, CallShape, CleanIsOnDisk
<1>3. /\ Heads = Firsts \cup {h} /\ h \notin Firsts /\ Sound(fat_data, Firsts \cup {h})
      /\ Firsts \subseteq Words /\ fat_data \in Table
  BY <1>1, <1>2, ClusterFacts DEF Heads, ChainsSound, Sound
<1>4. /\ Sound(disk_fat[1], Firsts) /\ \A x \in Firsts : Kept(fat_data, disk_fat[1], x)
  BY <1>1, <1>2 DEF DiskBefore
<1>5. CASE r = NONE
  <2>1. fat_data' = free_chain(fat_data, h) /\ op' = Idle /\ dir' = dir
    BY <1>5 DEF WriteEntry
  <2>2. op'.pc = "idle" /\ op' \in Calls
    <3>1. 0 \in 0..(SectorsPerCluster - 1)
      BY HeldFits, Fat12Assumption
    <3>2. QED
      BY <2>1, <3>1 DEF Calls, Idle
  <2>3. (Firsts \cup {h}) \ {h} = Firsts /\ h \in Firsts \cup {h}
    BY <1>3
  <2>4. Sound(fat_data', Firsts) /\ \A x \in Firsts : Kept(fat_data, fat_data', x)
    <3> DEFINE G == Firsts \cup {h}
    <3>1. G \ {h} = Firsts /\ h \in G /\ Sound(fat_data, G)
      BY <1>3, <2>3
    <3> HIDE DEF G, h
    <3>2. Sound(free_chain(fat_data, h), G \ {h}) /\ \A x \in G \ {h} : Kept(fat_data, free_chain(fat_data, h), x)
      BY <3>1, FreeChain
    <3>3. QED
      BY <2>1, <3>1, <3>2
  <2>5. fat_data' \in Table
    BY <2>4 DEF Sound
  <2>6. Used' = Used /\ Firsts' = Firsts /\ Heads' = Firsts
    BY <2>1, <2>2 DEF Used, Firsts, Heads
  <2>7. TypeOK'
    BY <1>1, <1>2, <2>1, <2>2, <2>5 DEF TypeOK
  <2>8. CallShape'
    BY <2>1, <2>2 DEF CallShape
  <2>9. ChainsSound'
    BY <1>1, <2>1, <2>2, <2>4, <2>6 DEF ChainsSound
  <2>10. DirectoryShape'
    BY <1>1, <2>1, <2>2, <2>6 DEF DirectoryShape
  <2>11. \A x \in Firsts : Kept(fat_data', disk_fat[1], x)
    BY <1>3, <1>4, <2>4, <2>5, KeptBoth
  <2>12. DiskBefore' /\ DiskDuring'
    BY <1>2, <1>4, <2>2, <2>6, <2>11 DEF DiskBefore, DiskDuring
  <2>13. CleanIsOnDisk'
    BY <1>2 DEF CleanIsOnDisk
  <2>14. QED
    BY <2>7, <2>8, <2>9, <2>10, <2>12, <2>13 DEF IInv
<1>6. CASE r # NONE
  <2>1. /\ dir' = [dir EXCEPT ![r] = NewEntry] /\ op' = [op EXCEPT !.pc = "flush"]
        /\ fat_data' = fat_data
    BY <1>6 DEF WriteEntry
  <2>2. /\ r \in Entries /\ dir[r].mark # "used"
        /\ \A j \in Entries : j < r => dir[j].mark # "end"
    BY <1>6, RootEntryIs
  <2> HIDE DEF r
  <2>3. NewEntry \in Marked /\ NewEntry.mark = "used" /\ NewEntry.name = Stored(op.name) /\ NewEntry.first = h
    <3>1. Stored(op.name) \in ShortNames
      BY HeldFits, Fat12Assumption DEF Stored
    <3>2. op.content[2] \in Nat
      BY <1>2, NeededIs
    <3>3. QED
      BY <1>2, <3>1, <3>2 DEF NewEntry, Marked
  <2>4. dir' \in [Entries -> Marked] /\ \A i \in Entries : dir'[i] = IF i = r THEN NewEntry ELSE dir[i]
    BY <1>1, <2>1, <2>2, <2>3 DEF TypeOK
  <2>5. Used' = Used \cup {r} /\ r \notin Used
    BY <2>2, <2>3, <2>4 DEF Used
  <2>6. \A i \in Used : dir'[i] = dir[i] /\ i # r /\ i \in Entries
    BY <2>4, <2>5 DEF Used
  <2>7. dir'[r] = NewEntry
    BY <2>2, <2>4
  <2>8. Firsts' = Firsts \cup {h}
    <3>1. Firsts' = {dir'[i].first : i \in Used \cup {r}}
      BY <2>5 DEF Firsts
    <3>2. QED
      BY <2>3, <2>6, <2>7, <3>1 DEF Firsts
  <2>9. /\ op' \in Calls /\ op'.pc = "flush" /\ op'.name = op.name /\ op'.k = 0 /\ op'.first = h
        /\ op'.content = op.content
    BY <1>2, <2>1 DEF Calls
  <2>10. Heads' = Firsts \cup {h}
    BY <2>8, <2>9 DEF Heads
  <2>11. TypeOK'
    BY <1>1, <1>2, <2>1, <2>4, <2>9 DEF TypeOK
  <2>12. CallShape'
    <3>1. NumFats * FatSectors \in Nat
      BY HeldFits, Fat12Assumption
    <3>2. QED
      BY <1>2, <2>8, <2>9, <3>1 DEF CallShape
  <2>13. ChainsSound'
    <3>1. \A i \in Used : dir[i].first # h
      BY <1>3 DEF Firsts
    <3>2. \A i, j \in Used \cup {r} : dir'[i].first = dir'[j].first => i = j
      BY <1>1, <2>3, <2>6, <2>7, <3>1 DEF ChainsSound
    <3>3. QED
      BY <1>3, <2>1, <2>5, <2>9, <2>10, <3>2 DEF ChainsSound
  <2>14. DirectoryShape'
    <3>1. Stored(op.name) \in OwnNames => Stored(op.name) = op.name
      BY DEF Stored, OwnNames
    <3>2. \A i \in Used : op.name \in OwnNames => dir[i].name # op.name
      BY <1>1, <1>2 DEF DirectoryShape
    <3>3. \A i, j \in Used \cup {r} : dir'[i].name = dir'[j].name /\ dir'[i].name \in OwnNames => i = j
      BY <1>1, <2>3, <2>6, <2>7, <3>1, <3>2 DEF DirectoryShape
    <3>4. ASSUME NEW i \in Entries, NEW j \in Entries, i <= j, dir'[i].mark = "end"
          PROVE  dir'[j].mark = "end"
      <4>1. i # r /\ dir[i].mark = "end"
        BY <2>3, <2>4, <3>4
      <4>2. ~ (i < r)
        BY <2>2, <4>1
      <4>3. i \in Nat /\ j \in Nat /\ r \in Nat
        BY <2>2, HeldFits, Fat12Assumption DEF Entries
      <4>4. j # r
        BY <3>4, <4>1, <4>2, <4>3
      <4>5. QED
        BY <1>1, <2>4, <3>4, <4>1, <4>4 DEF DirectoryShape
    <3>5. QED
      BY <2>5, <2>9, <3>3, <3>4 DEF DirectoryShape
  <2>15. DiskDuring'
    <3>1. ~ (0 >= FatSectors) /\ ~ (0 >= 1)
      BY HeldFits, Fat12Assumption
    <3>2. ASSUME NEW i \in Used', dir'[i].first # h
          PROVE  Kept(fat_data, disk_fat[1], dir'[i].first)
      <4>1. i \in Used
        BY <2>3, <2>5, <2>7, <3>2
      <4>2. dir'[i].first \in Firsts
        BY <2>6, <4>1 DEF Firsts
      <4>3. QED
        BY <1>4, <4>2
    <3>3. op.content # ABSENT
      BY <1>2, AbsentAssumption DEF Contents
    <3>4. QED
      BY <1>2, <2>1, <2>9, <3>1, <3>2, <3>3 DEF DiskDuring
  <2>16. DiskBefore'
    BY <2>9 DEF DiskBefore
  <2>17. CleanIsOnDisk'
    BY <1>2 DEF CleanIsOnDisk
  <2>18. QED
    BY <2>11, <2>12, <2>13, <2>14, <2>15, <2>16, <2>17 DEF IInv
<1>7. QED
  BY <1>5, <1>6

\* Which copy and which bytes a step of fat_flush writes.
LEMMA SectorIs ==
  ASSUME NEW k \in Nat, k < NumFats * FatSectors
  PROVE  /\ (k \div FatSectors) + 1 \in 1..NumFats
         /\ (k \div FatSectors) + 1 = 1 <=> k < FatSectors
         /\ k < FatSectors => (k % FatSectors) * FatSectorBytes = k * FatSectorBytes
<1>1. NumFats \in {1, 2} /\ FatSectors \in {1, 2}
  BY HeldFits, Fat12Assumption
<1>2. CASE FatSectors = 1
  <2>1. k \in Nat /\ k < NumFats
    BY <1>1, <1>2
  <2>2. k \div 1 = k /\ k < 1 => k % 1 = k
    BY <2>1
  <2>3. QED
    BY <1>1, <1>2, <2>1, <2>2
<1>3. CASE FatSectors = 2
  <2>1. k \in Nat /\ k < NumFats * 2
    BY <1>1, <1>3
  <2>2. k \in {0, 1, 2, 3} /\ (NumFats = 1 => k \in {0, 1})
    BY <1>1, <2>1
  <2>3. 0 \div 2 = 0 /\ 1 \div 2 = 0 /\ 2 \div 2 = 1 /\ 3 \div 2 = 1 /\ 0 % 2 = 0 /\ 1 % 2 = 1
    OBVIOUS
  <2>4. QED
    BY <1>1, <1>3, <2>2, <2>3
<1>4. QED
  BY <1>1, <1>2, <1>3

\* A sector of the table.  The disk now has some bytes of the old table and
\* some of the new one; the entries of a chain that is in both are in the mix.
LEMMA FlushSectorStep ==
  ASSUME IInv, FlushSector
  PROVE  IInv'
<1> DEFINE k == op.k
           copy == (k \div FatSectors) + 1
           from == (k % FatSectors) * FatSectorBytes
           d == disk_fat[1]
           x == disk_fat'[1]
<1>1. TypeOK /\ CallShape /\ ChainsSound /\ DirectoryShape /\ DiskBefore /\ DiskDuring /\ CleanIsOnDisk
  BY DEF IInv
<1>2. /\ op.pc = "flush" /\ UNCHANGED <<fat_data, fat_dirty, dir, data>> /\ op \in Calls /\ op.name \in Names
      /\ k \in Nat /\ k < NumFats * FatSectors /\ op' = [op EXCEPT !.k = k + 1]
  BY <1>1 DEF FlushSector, TypeOK, CallShape, Calls
<1>3. disk_fat' = [disk_fat EXCEPT ![copy] =
                     [b \in Bytes |-> IF b \in from..(from + FatSectorBytes - 1)
                                        THEN fat_data[b] ELSE disk_fat[copy][b]]]
  BY DEF FlushSector
<1>4. /\ copy \in 1..NumFats /\ (copy = 1 <=> k < FatSectors) /\ (k < FatSectors => from = k * FatSectorBytes)
      /\ fat_data \in Table /\ disk_fat \in [1..NumFats -> Table] /\ 1 \in 1..NumFats
  BY <1>1, <1>2, SectorIs, Fat12Assumption DEF TypeOK
<1> HIDE DEF k, copy, from
<1>5. disk_fat' \in [1..NumFats -> Table]
  <2> DEFINE y == [b \in Bytes |-> IF b \in from..(from + FatSectorBytes - 1)
                                     THEN fat_data[b] ELSE disk_fat[copy][b]]
  <2>1. disk_fat[copy] \in Table
    BY <1>4
  <2>2. y \in Table
    BY <1>4, <2>1 DEF Table
  <2> HIDE DEF y
  <2>3. disk_fat' = [disk_fat EXCEPT ![copy] = y]
    BY <1>3 DEF y
  <2>4. QED
    BY <1>4, <2>2, <2>3
<1>6. /\ copy = 1 => \A b \in Bytes : x[b] = IF b \in from..(from + FatSectorBytes - 1) THEN fat_data[b] ELSE d[b]
      /\ copy # 1 => x = d
  BY <1>3, <1>4
<1>7. /\ op' \in Calls /\ op'.pc = "flush" /\ op'.name = op.name /\ op'.k = k + 1 /\ op'.first = op.first
      /\ op'.content = op.content
  BY <1>2 DEF Calls
<1>8. d \in Table /\ x \in Table /\ \A b \in Bytes : x[b] = d[b] \/ x[b] = fat_data[b]
  BY <1>4, <1>5, <1>6
<1>9. Used' = Used /\ Firsts' = Firsts /\ Heads' = Heads
  BY <1>2, <1>7 DEF Used, Firsts, Heads
<1>10. TypeOK'
  BY <1>1, <1>2, <1>5, <1>7 DEF TypeOK
<1>11. CallShape'
  <2>1. NumFats * FatSectors \in Nat
    BY HeldFits, Fat12Assumption
  <2>2. QED
    BY <1>1, <1>2, <1>7, <1>9, <2>1 DEF CallShape
<1>12. ChainsSound'
  BY <1>1, <1>2, <1>7, <1>9 DEF ChainsSound
<1>13. DirectoryShape'
  BY <1>1, <1>2, <1>7, <1>9 DEF DirectoryShape
<1>14. DiskBefore'
  BY <1>7 DEF DiskBefore
<1>15. \A b \in Bytes : (k >= FatSectors \/ (k >= 1 /\ b < FatSectorBytes)) => d[b] = fat_data[b]
  BY <1>1, <1>2 DEF DiskDuring, k
<1>16. ASSUME NEW b \in Bytes, k + 1 >= FatSectors \/ (k + 1 >= 1 /\ b < FatSectorBytes)
       PROVE  x[b] = fat_data[b]
  <2>1. CASE k >= FatSectors
    <3>1. copy # 1 /\ d[b] = fat_data[b]
      BY <1>2, <1>4, <1>15, <2>1, HeldFits, Fat12Assumption
    <3>2. QED
      BY <1>6, <3>1
  <2>2. CASE k < FatSectors /\ (k = 0 \/ FatSectors = 1)
    <3>1. copy = 1 /\ k = 0 /\ from = 0 /\ FatSectorBytes \in Nat
      <4>1. FatSectorBytes \in Nat /\ 0 * FatSectorBytes = 0 /\ k = 0
        BY <1>2, <2>2, HeldFits, Fat12Assumption
      <4>2. copy = 1 /\ from = k * FatSectorBytes
        BY <1>4, <2>2
      <4>3. QED
        BY <4>1, <4>2
    <3>2. b \in Nat /\ b < FatSectorBytes
      BY <1>16, <3>1, HeldFits, Fat12Assumption DEF Bytes
    <3>3. b \in from..(from + FatSectorBytes - 1)
      BY <3>1, <3>2
    <3>4. QED
      BY <1>6, <3>1, <3>3
  <2>3. CASE k = 1 /\ FatSectors = 2
    <3>1. copy = 1 /\ from = FatSectorBytes /\ FatSectorBytes \in Nat
      <4>1. FatSectorBytes \in Nat /\ 1 * FatSectorBytes = FatSectorBytes
        BY HeldFits, Fat12Assumption
      <4>2. copy = 1 /\ from = k * FatSectorBytes
        BY <1>4, <2>3
      <4>3. QED
        BY <2>3, <4>1, <4>2
    <3>2. b \in Nat /\ b < 2 * FatSectorBytes
      BY <2>3, <3>1 DEF Bytes
    <3>3. CASE b < FatSectorBytes
      <4>1. d[b] = fat_data[b]
        BY <1>15, <2>3, <3>3
      <4>2. QED
        BY <1>8, <4>1
    <3>4. CASE ~ (b < FatSectorBytes)
      <4>1. b \in from..(from + FatSectorBytes - 1)
        BY <3>1, <3>2, <3>4
      <4>2. QED
        BY <1>6, <3>1, <4>1
    <3>5. QED
      BY <3>3, <3>4
  <2>4. QED
    BY <1>2, <2>1, <2>2, <2>3, HeldFits, Fat12Assumption
<1>17. ASSUME NEW i \in Used, dir[i].first # op.first
       PROVE  Kept(fat_data, x, dir[i].first)
  <2>1. Kept(fat_data, d, dir[i].first)
    BY <1>1, <1>2, <1>17 DEF DiskDuring
  <2>2. QED
    BY <1>4, <1>8, <2>1, Mixed DEF Kept
<1>18. DiskDuring'
  <2>1. op.content = ABSENT => op.first = 0
    BY <1>1, <1>2 DEF DiskDuring
  <2>2. op'.k # 0
    BY <1>2, <1>7
  <2>3. QED
    BY <1>2, <1>7, <1>9, <1>16, <1>17, <2>1, <2>2 DEF DiskDuring
<1>19. CleanIsOnDisk'
  BY <1>1, <1>2 DEF CleanIsOnDisk
<1>20. QED
  BY <1>10, <1>11, <1>12, <1>13, <1>14, <1>18, <1>19 DEF IInv

\* The end of fat_flush: the first copy is the table.
LEMMA FlushReturnStep ==
  ASSUME IInv, FlushReturn
  PROVE  IInv'
<1>1. TypeOK /\ CallShape /\ ChainsSound /\ DirectoryShape /\ DiskBefore /\ DiskDuring /\ CleanIsOnDisk
  BY DEF IInv
<1>2. /\ op.pc = "flush" /\ op.k = NumFats * FatSectors /\ fat_dirty' = FALSE /\ op' = Idle
      /\ UNCHANGED <<fat_data, disk_fat, dir, data>>
  BY DEF FlushReturn
<1>3. op' \in Calls /\ op'.pc = "idle"
  <2>1. 0 \in 0..(SectorsPerCluster - 1)
    BY HeldFits, Fat12Assumption
  <2>2. QED
    BY <1>2, <2>1 DEF Calls, Idle
<1>4. Used' = Used /\ Firsts' = Firsts /\ Heads' = Firsts /\ Heads = Firsts
  BY <1>2, <1>3 DEF Used, Firsts, Heads
<1>5. disk_fat[1] = fat_data
  <2>1. NumFats * FatSectors >= FatSectors /\ 1 \in 1..NumFats
    BY HeldFits, Fat12Assumption
  <2>2. \A b \in Bytes : disk_fat[1][b] = fat_data[b]
    BY <1>1, <1>2, <2>1 DEF DiskDuring
  <2>3. disk_fat[1] \in Table /\ fat_data \in Table
    BY <1>1, <2>1 DEF TypeOK
  <2>4. QED
    BY <2>2, <2>3 DEF Table
<1>6. TypeOK'
  BY <1>1, <1>2, <1>3 DEF TypeOK
<1>7. CallShape'
  BY <1>2, <1>3 DEF CallShape
<1>8. ChainsSound'
  BY <1>1, <1>2, <1>3, <1>4 DEF ChainsSound
<1>9. DirectoryShape'
  BY <1>1, <1>2, <1>3, <1>4 DEF DirectoryShape
<1>10. DiskBefore' /\ DiskDuring'
  <2>1. Sound(disk_fat[1], Firsts) /\ \A h \in Firsts : Kept(fat_data, disk_fat[1], h)
    BY <1>1, <1>4, <1>5, KeptSelf DEF ChainsSound
  <2>2. QED
    BY <1>2, <1>3, <1>4, <2>1 DEF DiskBefore, DiskDuring
<1>11. CleanIsOnDisk'
  BY <1>2, <1>3, <1>5 DEF CleanIsOnDisk
<1>12. QED
  BY <1>6, <1>7, <1>8, <1>9, <1>10, <1>11 DEF IInv

\* Where the machine may start again: before the table is written the disk has
\* the chain of every file, after it the whole table.
LEMMA DiskIsSound ==
  ASSUME IInv, ~ InPieces
  PROVE  /\ Sound(disk_fat[1], Firsts)
         /\ \A h \in Firsts : Kept(fat_data, disk_fat[1], h)
<1>1. TypeOK /\ CallShape /\ ChainsSound /\ DiskBefore /\ DiskDuring
  BY DEF IInv
<1>2. CASE op.pc # "flush"
  BY <1>1, <1>2 DEF DiskBefore
<1>3. CASE op.pc = "flush" /\ op.k >= FatSectors
  <2>1. \A b \in Bytes : disk_fat[1][b] = fat_data[b]
    BY <1>1, <1>3 DEF DiskDuring
  <2>2. 1 \in 1..NumFats
    BY Fat12Assumption
  <2>3. disk_fat[1] \in Table /\ fat_data \in Table
    BY <1>1, <2>2 DEF TypeOK
  <2>4. disk_fat[1] = fat_data
    BY <2>1, <2>3 DEF Table
  <2>5. Heads = Firsts
    BY <1>3 DEF Heads
  <2>6. QED
    BY <1>1, <2>4, <2>5, KeptSelf DEF ChainsSound
<1>4. CASE op.pc = "flush" /\ ~ (op.k >= FatSectors)
  <2>1. op.k \in Nat /\ FatSectors \in Nat
    BY <1>1, Fat12Assumption DEF TypeOK, Calls
  <2>2. op.content = ABSENT /\ op.k = 0
    BY <1>4, <2>1 DEF InPieces
  <2>3. op.first = 0 /\ Sound(disk_fat[1], Firsts)
    BY <1>1, <1>4, <2>2 DEF DiskDuring
  <2>4. Firsts \subseteq Clusters
    BY <2>3 DEF Sound
  <2>5. \A i \in Used : dir[i].first # op.first
    BY <2>3, <2>4, ClusterFacts DEF Firsts
  <2>6. QED
    BY <1>1, <1>4, <2>3, <2>5 DEF DiskDuring, Firsts
<1>5. QED
  BY <1>2, <1>3, <1>4

\* A reboot: the table is what the disk has.
LEMMA RebootStep ==
  ASSUME IInv, Reboot, ~ InPieces
  PROVE  IInv'
<1>1. TypeOK /\ CallShape /\ ChainsSound /\ DirectoryShape /\ DiskBefore /\ DiskDuring /\ CleanIsOnDisk
  BY DEF IInv
<1>2. /\ op' = Idle /\ op'.pc = "idle" /\ fat_data' = disk_fat[1] /\ fat_dirty' = FALSE
      /\ UNCHANGED <<disk_fat, dir, data>>
  BY DEF Reboot, Idle
<1>3. Used' = Used /\ Firsts' = Firsts /\ Heads' = Firsts
  BY <1>2 DEF Used, Firsts, Heads
<1>4. Sound(disk_fat[1], Firsts) /\ disk_fat[1] \in Table
  BY DiskIsSound DEF Sound
<1>5. TypeOK'
  <2>1. 0 \in 0..(SectorsPerCluster - 1)
    BY Fat12Assumption
  <2>2. op' \in Calls
    BY <1>2, <2>1 DEF Calls, Idle
  <2>3. QED
    BY <1>1, <1>2, <1>4, <2>2 DEF TypeOK
<1>6. CallShape'
  BY <1>2 DEF CallShape
<1>7. ChainsSound'
  BY <1>1, <1>2, <1>3, <1>4 DEF ChainsSound
<1>8. DirectoryShape'
  BY <1>1, <1>2, <1>3 DEF DirectoryShape
<1>9. DiskBefore' /\ DiskDuring'
  BY <1>2, <1>3, <1>4, KeptSelf DEF DiskBefore, DiskDuring
<1>10. CleanIsOnDisk'
  BY <1>2 DEF CleanIsOnDisk
<1>11. QED
  BY <1>5, <1>6, <1>7, <1>8, <1>9, <1>10 DEF IInv

\* A step of a call.
LEMMA CallStep ==
  ASSUME IInv, Next, ~ Reboot, ~ Overrun
  PROVE  IInv'
<1>1. ~ Undefined
  BY DEF IInv, TypeOK, Calls, Undefined
<1>2. QED
  BY <1>1, WriteStep, WriteDataStep, WriteEntryStep, DeleteStep, FlushSectorStep, FlushReturnStep DEF Next

LEMMA NextIInv == IInv /\ [Next]_vars /\ Whole' => IInv'
<1> SUFFICES ASSUME IInv, [Next]_vars, Whole' PROVE IInv'
  OBVIOUS
<1>1. CASE Reboot
  BY <1>1, RebootStep DEF Reboot, Whole
<1>2. CASE Overrun
  BY <1>2 DEF Overrun, Whole, Idle
<1>3. CASE UNCHANGED vars
  <2>1. Used' = Used /\ Firsts' = Firsts /\ Heads' = Heads
    BY <1>3 DEF vars, Used, Firsts, Heads
  <2>2. QED
    BY <1>3, <2>1 DEF vars, IInv, TypeOK, CallShape, ChainsSound, DirectoryShape, DiskBefore, DiskDuring, CleanIsOnDisk
<1>4. CASE Next /\ ~ Reboot /\ ~ Overrun
  BY <1>4, CallStep
<1>5. QED
  BY <1>1, <1>2, <1>3, <1>4

\* What is not whole stays so.
LEMMA NotWholeStays == ~ Whole /\ [Next]_vars => ~ Whole'
<1> SUFFICES ASSUME ~ Whole, [Next]_vars PROVE ~ Whole'
  OBVIOUS
<1>1. CASE torn
  <2>1. torn' = torn \/ torn' = (torn \/ InPieces)
    BY DEF Next, fat12_write, WriteData, WriteEntry, fat12_delete, FlushSector, FlushReturn, Reboot,
           Overrun, Undefined, vars
  <2>2. QED
    BY <1>1, <2>1 DEF Whole
<1>2. CASE op.pc = "overrun"
  <2>1. op # Idle
    BY <1>2 DEF Idle
  <2>2. \A n, c : ~ fat12_write(n, c) /\ ~ fat12_delete(n)
    BY <2>1 DEF fat12_write, fat12_delete
  <2>3. ~ WriteData /\ ~ WriteEntry /\ ~ FlushSector /\ ~ FlushReturn /\ ~ Reboot /\ ~ Overrun
    BY <1>2, <2>1 DEF WriteData, WriteEntry, FlushSector, FlushReturn, Reboot, Overrun
  <2>4. UNCHANGED vars
    BY <2>2, <2>3 DEF Next, Undefined
  <2>5. QED
    BY <1>2, <2>4 DEF Whole, vars
<1>3. QED
  BY <1>1, <1>2 DEF Whole

\* The inductive invariant holds in every state before the disk is torn or the
\* table overrun, whatever the sizes of the disk: the driver never breaks the
\* table, the directory or its copy on the disk, in any order of calls,
\* failures and reboots.
WholeIInv == Whole => IInv

THEOREM Invariance == Spec => []WholeIInv
<1>1. Init => WholeIInv
  BY InitIInv DEF WholeIInv
<1>2. WholeIInv /\ [Next]_vars => WholeIInv'
  BY NextIInv, NotWholeStays DEF WholeIInv
<1>3. QED
  BY <1>1, <1>2, PTL DEF Spec

-----------------------------------------------------------------------------
(* The properties.                                                          *)

\* No cluster belongs to two files, nor twice to one, and every chain ends with
\* the mark for it, until the power goes while the table is in pieces or a call
\* leaves the array (fat12.c:79-101, 118-123, 277-284, 333-345).
THEOREM ChainsStayDisjoint == Spec => []ChainsDisjoint
<1>1. IInv => ChainsDisjoint
  <2> SUFFICES ASSUME IInv PROVE ChainsDisjoint
    OBVIOUS
  <2> DEFINE f == fat_data
  <2>1. /\ Sound(f, Firsts) /\ Held \in Nat
        /\ \A i, j \in Used : dir[i].first = dir[j].first => i = j
    <3>1. Sound(f, Heads) /\ Firsts \subseteq Heads /\ \A i, j \in Used : dir[i].first = dir[j].first => i = j
      BY DEF IInv, ChainsSound, Heads
    <3>2. QED
      BY <3>1, SoundSubset, HeldFits, Fat12Assumption
  <2>2. \A i \in Used : dir[i].first \in Firsts
    BY DEF Firsts
  <2>3. ASSUME NEW h \in Firsts
        PROVE  Proper(WholeChain(f, h))
    <3>1. PICK m \in 1..Held :
            /\ WholeChain(f, h) = [k \in 1..m |-> Walk(f, h)[k - 1]]
            /\ \A j \in 0..Held : Walk(f, h)[j] \in Clusters <=> j < m
            /\ fat12_get(f, Walk(f, h)[m - 1]) = EOC
      BY <2>1, ChainIs
    <3> DEFINE s == WholeChain(f, h)
    <3>2. m \in Nat /\ m >= 1 /\ m <= Held /\ Len(s) = m
      BY <2>1, <3>1
    <3>3. \A j \in 1..m : s[j] = Walk(f, h)[j - 1] /\ j - 1 \in 0..Held /\ s[j] \in Clusters
      <4>1. \A j \in 1..m : j - 1 \in 0..Held /\ j - 1 < m
        BY <2>1, <3>2
      <4>2. \A j \in 1..m : s[j] = Walk(f, h)[j - 1]
        BY <3>1
      <4>3. QED
        BY <3>1, <4>1, <4>2
    <3>4. \A j, k \in 0..Held : Walk(f, h)[j] \in Clusters /\ Walk(f, h)[j] = Walk(f, h)[k] => j = k
      BY <2>1, Meet
    <3> HIDE DEF s
    <3>5. \A j, k \in 1..m : s[j] = s[k] => j = k
      <4> SUFFICES ASSUME NEW j \in 1..m, NEW k \in 1..m, s[j] = s[k]
                   PROVE  j = k
        OBVIOUS
      <4>1. j - 1 = k - 1
        BY <3>3, <3>4
      <4>2. QED
        BY <3>2, <4>1
    <3>6. fat12_get(f, s[m]) = EOC
      BY <3>1, <3>2, <3>3
    <3>7. Proper(s)
      BY <3>2, <3>5, <3>6 DEF Proper
    <3>8. QED
      BY <3>7 DEF s
  <2>4. ASSUME NEW g \in Firsts, NEW h \in Firsts, g # h
        PROVE  LET a == WholeChain(f, g)
                   b == WholeChain(f, h)
               IN  \A x \in 1..Len(a), y \in 1..Len(b) : a[x] # b[y]
    <3> DEFINE a == WholeChain(f, g)
               b == WholeChain(f, h)
    <3>1. PICK m \in 1..Held :
            /\ a = [k \in 1..m |-> Walk(f, g)[k - 1]]
            /\ \A j \in 0..Held : Walk(f, g)[j] \in Clusters <=> j < m
      BY <2>1, ChainIs
    <3>2. PICK l \in 1..Held :
            /\ b = [k \in 1..l |-> Walk(f, h)[k - 1]]
            /\ \A j \in 0..Held : Walk(f, h)[j] \in Clusters <=> j < l
      BY <2>1, ChainIs
    <3>3. Len(a) = m /\ Len(b) = l /\ m \in Nat /\ l \in Nat
      BY <2>1, <3>1, <3>2
    <3>4. ASSUME NEW x \in 1..m, NEW y \in 1..l
          PROVE  a[x] # b[y]
      <4>1. x - 1 \in 0..Held /\ y - 1 \in 0..Held /\ Walk(f, g)[x - 1] \in Clusters
        BY <2>1, <3>1
      <4>2. Walk(f, g)[x - 1] # Walk(f, h)[y - 1]
        BY <2>1, <2>4, <4>1, Meet
      <4>3. QED
        BY <3>1, <3>2, <4>2
    <3>5. QED
      BY <3>3, <3>4
  <2>5. QED
    BY <2>1, <2>2, <2>3, <2>4 DEF ChainsDisjoint
<1>2. WholeIInv => ChainsDisjoint
  BY <1>1 DEF WholeIInv, ChainsDisjoint
<1>3. QED
  BY <1>2, Invariance, PTL

\* No used entry lies behind the end mark, and no name is used twice unless a
\* longer name was cut to it (fat12.c:224, 301).
THEOREM EntriesStayFound == Spec => []EntriesFound
<1>1. IInv => EntriesFound
  BY UsedVisible DEF IInv, EntriesFound, DirectoryShape
<1>2. WholeIInv => EntriesFound
  BY <1>1 DEF WholeIInv, EntriesFound
<1>3. QED
  BY <1>2, Invariance, PTL

\* After any sector, the disk has the whole chain of every file but the one
\* that the call in progress is writing (fat12.c:103-116, 319-327, 380-403).
THEOREM CrashHarmsNoOther == Spec => []CrashKeepsOthers
<1>1. IInv => CrashKeepsOthers
  <2> SUFFICES ASSUME IInv, NEW i \in Used, dir[i].first # op.first
               PROVE  LET s == WholeChain(fat_data, dir[i].first)
                      IN  \A k \in 1..Len(s) : fat12_get(disk_fat[1], s[k]) = fat12_get(fat_data, s[k])
    BY DEF CrashKeepsOthers
  <2> DEFINE f == fat_data
             h == dir[i].first
             s == WholeChain(f, h)
  <2>1. h \in Firsts /\ Sound(f, Firsts) /\ Held \in Nat
    <3>1. Sound(f, Heads) /\ Firsts \subseteq Heads
      BY DEF IInv, ChainsSound, Heads
    <3>2. QED
      BY <3>1, SoundSubset, HeldFits, Fat12Assumption DEF Firsts
  <2>2. Kept(f, disk_fat[1], h)
    <3>1. CASE op.pc = "flush"
      BY <3>1 DEF IInv, DiskDuring
    <3>2. CASE op.pc # "flush"
      BY <2>1, <3>2 DEF IInv, DiskBefore
    <3>3. QED
      BY <3>1, <3>2
  <2> HIDE DEF h
  <2>3. PICK m \in 1..Held :
          /\ s = [k \in 1..m |-> Walk(f, h)[k - 1]]
          /\ \A j \in 0..Held : Walk(f, h)[j] \in Clusters <=> j < m
    BY <2>1, ChainIs
  <2>4. Len(s) = m /\ \A k \in 1..m : /\ s[k] = Walk(f, h)[k - 1] /\ k - 1 \in 0..Held
                                     /\ Walk(f, h)[k - 1] \in Clusters
    BY <2>1, <2>3
  <2>5. \A k \in 1..m : fat12_get(disk_fat[1], s[k]) = fat12_get(f, s[k])
    BY <2>2, <2>4 DEF Kept
  <2>6. QED
    BY <2>4, <2>5 DEF h
<1>2. WholeIInv => CrashKeepsOthers
  BY <1>1 DEF WholeIInv, CrashKeepsOthers
<1>3. QED
  BY <1>2, Invariance, PTL

\* What the property calls lost is what is on no chain that the driver knows.
LEMMA LostIs == IInv => Lost = LostIn(fat_data, Heads)
<1> SUFFICES ASSUME IInv PROVE Lost = LostIn(fat_data, Heads)
  OBVIOUS
<1> DEFINE f == fat_data
           Out(h, c) == \A k \in 1..Len(WholeChain(f, h)) : WholeChain(f, h)[k] # c
<1>1. Sound(f, Heads) /\ f \in Table
  BY DEF IInv, ChainsSound, Sound
<1>2. /\ \A h \in Firsts \cup {op.first} : h \in Heads \cup {0}
      /\ \A h \in Heads : h \in Firsts \cup {op.first}
  <2>1. op.pc \in {"idle", "data", "flush"}
    BY DEF IInv, TypeOK, Calls
  <2>2. op.pc = "idle" => op.first = 0
    BY DEF IInv, CallShape, Idle
  <2>3. op.pc = "flush" => op.first \in Firsts \cup {0}
    BY DEF IInv, CallShape
  <2>4. QED
    BY <2>1, <2>2, <2>3 DEF Heads
<1>3. \A h \in Heads, c \in Clusters : Out(h, c) <=> ~ On(f, h, c)
  BY <1>1, ChainOn
<1>4. \A c : Out(0, c)
  BY <1>1, NoChain
<1>5. Lost = {c \in Clusters : fat12_get(f, c) # 0 /\ \A h \in Firsts \cup {op.first} : Out(h, c)}
  BY DEF Lost, Firsts
<1> HIDE DEF Out, f
<1>6. \A c \in Clusters : (\A h \in Firsts \cup {op.first} : Out(h, c)) <=> (\A h \in Heads : ~ On(f, h, c))
  BY <1>2, <1>3, <1>4
<1>7. Lost = LostIn(f, Heads)
  BY <1>5, <1>6 DEF LostIn
<1>8. QED
  BY <1>7 DEF f

\* No step loses a cluster but a reboot before the table has followed.
LEMMA CallLosesNone ==
  ASSUME IInv, IInv', Next, ~ Overrun, ~ (Reboot /\ TableBehind)
  PROVE  Lost' \subseteq Lost
<1>1. /\ TypeOK /\ CallShape /\ ChainsSound /\ DirectoryShape /\ CleanIsOnDisk
      /\ Lost = LostIn(fat_data, Heads)
  BY LostIs DEF IInv
<1>2. Lost' = LostIn(fat_data', Heads')
  <2>1. (IInv => Lost = LostIn(fat_data, Heads))'
    BY LostIs, PTL
  <2>2. QED
    BY <2>1 DEF LostIn, On
<1>3. ASSUME NEW n \in Names, NEW c \in Contents, fat12_write(n, c)
      PROVE  Lost' \subseteq Lost
  <2> DEFINE e == find_entry(n)
             f == WithoutOld(e)
             D == Unlinked(e)
             h == fat12_alloc_cluster(f)
             N == Needed(c[2])
  <2>1. op = Idle /\ op.pc = "idle" /\ dir' = D
    BY <1>3 DEF fat12_write, Idle
  <2>2. Heads = Firsts /\ Firsts' = FirstsIn(D)
    BY <2>1 DEF Heads, Firsts, FirstsIn, Used, UsedIn
  <2>3. Sound(f, FirstsIn(D)) /\ LostIn(f, FirstsIn(D)) \subseteq LostIn(fat_data, Firsts)
    BY <1>1, <2>1, Unlink
  <2>4. \/ fat_data' = f /\ op' = op
        \/ /\ Cardinality(FreeClusters(f)) >= N /\ fat_data' = Chained(f, N)
           /\ op' = [Idle EXCEPT !.pc = "data", !.name = n, !.content = c, !.first = h, !.cluster = h]
    BY <1>3 DEF fat12_write
  <2> HIDE DEF e, f, D, h, N
  <2>5. CASE fat_data' = f /\ op' = op
    <3>1. Heads' = FirstsIn(D)
      BY <2>1, <2>2, <2>5 DEF Heads
    <3>2. QED
      BY <1>1, <1>2, <2>2, <2>3, <2>5, <3>1
  <2>6. CASE /\ Cardinality(FreeClusters(f)) >= N /\ fat_data' = Chained(f, N)
             /\ op' = [Idle EXCEPT !.pc = "data", !.name = n, !.content = c, !.first = h, !.cluster = h]
    <3>1. op'.pc = "data" /\ op'.first = h
      BY <2>6 DEF Idle
    <3>2. Heads' = FirstsIn(D) \cup {h}
      BY <2>2, <3>1 DEF Heads
    <3>3. N \in Nat /\ N >= 1
      BY NeededIs DEF N
    <3>4. PICK l : l.fat = Chained(f, N) /\ Taking(f, FirstsIn(D), h, N, l)
      BY <2>3, <2>6, <3>3, ChainTake DEF h
    <3>5. LostIn(Chained(f, N), FirstsIn(D) \cup {h}) \subseteq LostIn(f, FirstsIn(D))
      BY <2>3, <3>4, TakeLosesNone
    <3>6. QED
      BY <1>1, <1>2, <2>2, <2>3, <2>6, <3>2, <3>5
  <2>7. QED
    BY <2>4, <2>5, <2>6
<1>4. ASSUME NEW n \in Names, fat12_delete(n)
      PROVE  Lost' \subseteq Lost
  <2> DEFINE f == WithoutOld(find_entry(n))
             D == Unlinked(find_entry(n))
  <2>1. /\ op.pc = "idle" /\ dir' = D /\ fat_data' = f
        /\ op'.pc = "flush"
    BY <1>4 DEF fat12_delete, Idle
  <2>2. Heads = Firsts /\ Heads' = FirstsIn(D)
    BY <2>1 DEF Heads, Firsts, FirstsIn, Used, UsedIn
  <2>3. LostIn(f, FirstsIn(D)) \subseteq LostIn(fat_data, Firsts)
    BY <1>1, <2>1, Unlink
  <2> HIDE DEF f, D
  <2>4. QED
    BY <1>1, <1>2, <2>1, <2>2, <2>3
<1>5. ASSUME WriteData \/ FlushSector \/ FlushReturn
      PROVE  Lost' \subseteq Lost
  <2>1. fat_data' = fat_data /\ dir' = dir /\ op \in Calls
    BY <1>1, <1>5 DEF WriteData, FlushSector, FlushReturn, TypeOK
  <2>2. (op.pc = "data" /\ op'.pc = "data" /\ op'.first = op.first) \/ (op.pc # "data" /\ op'.pc # "data")
    <3>1. CASE WriteData
      BY <2>1, <3>1 DEF WriteData, Calls
    <3>2. CASE FlushSector
      BY <2>1, <3>2 DEF FlushSector, Calls
    <3>3. CASE FlushReturn
      BY <3>3 DEF FlushReturn, Idle
    <3>4. QED
      BY <1>5, <3>1, <3>2, <3>3
  <2>3. Heads' = Heads
    BY <2>1, <2>2 DEF Heads, Firsts, Used
  <2>4. QED
    BY <1>1, <1>2, <2>1, <2>3
<1>6. ASSUME WriteEntry
      PROVE  Lost' \subseteq Lost
  <2> DEFINE h == op.first
  <2>1. op.pc = "data" /\ op \in Calls
    BY <1>1, <1>6 DEF WriteEntry, TypeOK
  <2>2. Heads = Firsts \cup {h} /\ h \notin Firsts /\ Sound(fat_data, Heads)
    BY <1>1, <2>1 DEF Heads, ChainsSound
  <2>3. CASE alloc_root_entry = NONE
    <3>1. fat_data' = free_chain(fat_data, h) /\ op'.pc = "idle" /\ dir' = dir
      BY <1>6, <2>3 DEF WriteEntry, Idle
    <3>2. Heads' = Heads \ {h} /\ h \in Heads
      BY <2>2, <3>1 DEF Heads, Firsts, Used
    <3> HIDE DEF h
    <3>3. LostIn(free_chain(fat_data, h), Heads \ {h}) \subseteq LostIn(fat_data, Heads)
      BY <2>2, <3>2, FreeLosesNone
    <3>4. QED
      BY <1>1, <1>2, <3>1, <3>2, <3>3
  <2>4. CASE alloc_root_entry # NONE
    <3> DEFINE r == alloc_root_entry
    <3>1. dir' = [dir EXCEPT ![r] = NewEntry] /\ fat_data' = fat_data /\ op'.pc = "flush"
      BY <1>6, <2>1, <2>4 DEF WriteEntry, Calls
    <3>2. r \in Entries /\ dir[r].mark # "used"
      BY <2>4, RootEntryIs
    <3> HIDE DEF r
    <3>3. NewEntry.mark = "used" /\ NewEntry.first = h
      BY DEF NewEntry
    <3>4. \A i \in Entries : dir'[i] = IF i = r THEN NewEntry ELSE dir[i]
      BY <1>1, <3>1, <3>2 DEF TypeOK
    <3>5. Used' = Used \cup {r} /\ \A i \in Used : dir'[i] = dir[i]
      BY <3>2, <3>3, <3>4 DEF Used
    <3>6. dir'[r].first = h
      BY <3>2, <3>3, <3>4
    <3>7. Firsts' = Firsts \cup {h}
      <4>1. Firsts' = {dir'[i].first : i \in Used \cup {r}}
        BY <3>5 DEF Firsts
      <4>2. QED
        BY <3>5, <3>6, <4>1 DEF Firsts
    <3>8. Heads' = Heads
      BY <2>2, <3>1, <3>7 DEF Heads
    <3>9. QED
      BY <1>1, <1>2, <3>1, <3>8
  <2>5. QED
    BY <2>3, <2>4
<1>7. ASSUME Reboot, ~ TableBehind
      PROVE  Lost' \subseteq Lost
  <2>1. dir' = dir /\ op'.pc = "idle" /\ fat_data' = disk_fat[1]
    BY <1>7 DEF Reboot, Idle
  <2>2. fat_data' = fat_data /\ Heads = Firsts
    <3>1. CASE ~ fat_dirty
      BY <1>1, <2>1, <3>1 DEF CleanIsOnDisk, Heads
    <3>2. CASE op.pc = "flush" /\ op.k >= FatSectors
      <4>1. \A b \in Bytes : disk_fat[1][b] = fat_data[b]
        BY <3>2 DEF IInv, DiskDuring
      <4>2. 1 \in 1..NumFats
        BY Fat12Assumption
      <4>3. disk_fat[1] \in Table /\ fat_data \in Table
        BY <1>1, <4>2 DEF TypeOK
      <4>4. QED
        BY <2>1, <3>2, <4>1, <4>3 DEF Table, Heads
    <3>3. QED
      BY <1>7, <3>1, <3>2 DEF TableBehind
  <2>3. Heads' = Heads
    BY <2>1, <2>2 DEF Heads, Firsts, Used
  <2>4. QED
    BY <1>1, <1>2, <2>2, <2>3
<1>8. ~ Undefined
  BY <1>1 DEF TypeOK, Calls, Undefined
<1>9. QED
  BY <1>3, <1>4, <1>5, <1>6, <1>7, <1>8 DEF Next

LEMMA StepLosesNone ==
  ASSUME IInv, [Next]_vars
  PROVE  Lost' \subseteq Lost \/ (Reboot /\ TableBehind) \/ UNCHANGED vars
<1>1. CASE Overrun
  <2>1. fat_data' = fat_data /\ dir' = dir /\ op'.first = op.first
    BY <1>1 DEF Overrun, Idle
  <2>2. Lost' = Lost
    BY <2>1 DEF Lost, Used
  <2>3. QED
    BY <2>2
<1>2. CASE Reboot /\ InPieces
  <2>1. op.pc = "flush" /\ op.k < FatSectors
    BY <1>2 DEF InPieces
  <2>2. fat_dirty
    BY <2>1 DEF IInv, CleanIsOnDisk
  <2>3. op.k \in Nat /\ FatSectors \in Nat
    BY Fat12Assumption DEF IInv, TypeOK, Calls
  <2>4. ~ (op.k >= FatSectors)
    BY <2>1, <2>3
  <2>5. TableBehind
    BY <2>2, <2>4 DEF TableBehind
  <2>6. QED
    BY <1>2, <2>5
<1>3. CASE Reboot /\ ~ InPieces /\ ~ TableBehind
  BY <1>3, RebootStep, CallLosesNone DEF Next, Overrun, Reboot, Idle
<1>4. CASE Next /\ ~ Reboot /\ ~ Overrun
  BY <1>4, CallStep, CallLosesNone
<1>5. CASE UNCHANGED vars
  BY <1>5
<1>6. QED
  <2>1. Reboot => Next
    BY DEF Next
  <2> HIDE DEF Reboot, Overrun, Next, InPieces, TableBehind, Lost
  <2>2. QED
    BY <1>1, <1>2, <1>3, <1>4, <1>5, <2>1

\* Space is lost in one way only: by a reboot before the first copy of the table
\* has followed the directory, in a call or after one that failed
\* (fat12.c:321, 326, 338, 368, 379, 382, 401, 403).
THEOREM NoStepLeaks == Spec => NoLeak
<1>1. WholeIInv /\ [Next]_vars => [Whole => Lost' \subseteq Lost \/ (Reboot /\ TableBehind)]_vars
  BY StepLosesNone DEF WholeIInv
<1>2. QED
  BY <1>1, Invariance, PTL DEF Spec, NoLeak

-----------------------------------------------------------------------------
(* The refinement of FileStore, for one sector in a cluster: with more, the *)
(* code takes too few clusters for some sizes (fat12.c:330).                *)

One == SectorsPerCluster = 1

\* While the data is written: the chain is long enough, the loop is where its
\* count says, and what is before it is there.
DataShape ==
    op.pc = "data" =>
        LET w == Walk(fat_data, op.first)
        IN  /\ op.s = 0 /\ op.written <= op.content[2] /\ Needed(op.content[2]) <= Held
            /\ \A j \in 0..(Needed(op.content[2]) - 1) : w[j] \in Clusters
            /\ op.cluster = w[op.written]
            /\ \A j \in 0..(op.written - 1) : data[<<w[j], 0>>] = <<op.content[1], j + 1>>

\* As many clusters as sectors, and one for an empty file.
LEMMA NeededOne ==
  ASSUME One, NEW a \in Nat
  PROVE  Needed(a) \in Nat /\ Needed(a) >= a /\ Needed(a) >= 1
<1>1. a \div 1 = a
  OBVIOUS
<1>2. QED
  BY <1>1 DEF Needed, One

LEMMA DataWrite ==
  ASSUME One, IInv, NEW n \in Names, NEW c \in Contents, fat12_write(n, c)
  PROVE  DataShape'
<1> DEFINE e == find_entry(n)
           f == WithoutOld(e)
           D == Unlinked(e)
           h == fat12_alloc_cluster(f)
           N == Needed(c[2])
<1>1. TypeOK /\ ChainsSound /\ DirectoryShape /\ op.pc = "idle"
  BY DEF IInv, fat12_write, Idle
<1>2. Sound(f, FirstsIn(D))
  BY <1>1, Unlink
<1>3. \/ op' = op
      \/ /\ Cardinality(FreeClusters(f)) >= N /\ fat_data' = Chained(f, N)
         /\ op' = [Idle EXCEPT !.pc = "data", !.name = n, !.content = c, !.first = h, !.cluster = h]
  BY DEF fat12_write
<1> HIDE DEF e, f, D, h, N
<1>4. CASE op' = op
  BY <1>1, <1>4 DEF DataShape
<1>5. CASE /\ Cardinality(FreeClusters(f)) >= N /\ fat_data' = Chained(f, N)
           /\ op' = [Idle EXCEPT !.pc = "data", !.name = n, !.content = c, !.first = h, !.cluster = h]
  <2> DEFINE t == Chained(f, N)
             w == Walk(t, h)
  <2>1. N \in Nat /\ N >= 1 /\ c[2] \in Nat /\ Held \in Nat /\ N <= Held
    <3>1. N \in Nat /\ N >= 1 /\ c[2] \in Nat /\ Held \in Nat
      BY NeededIs, HeldFits, Fat12Assumption DEF N
    <3>2. QED
      BY <1>5, <3>1, FreeFinite
  <2>2. PICK l : l.fat = t /\ Taking(f, FirstsIn(D), h, N, l)
    BY <1>2, <1>5, <2>1, ChainTake DEF h
  <2> HIDE DEF t
  <2>3. /\ h \in FirstsIn(D) \cup {h} /\ Sound(t, FirstsIn(D) \cup {h}) /\ w[N - 1] \in Clusters
        /\ t \in Table /\ h \in Words
    BY <2>2, ClusterFacts DEF Taking, Sound
  <2>4. PICK m \in 1..Held : \A j \in 0..Held : w[j] \in Clusters <=> j < m
    <3> DEFINE G == FirstsIn(D) \cup {h}
    <3>1. h \in G /\ Sound(t, G)
      BY <2>3
    <3> HIDE DEF G
    <3>2. QED
      BY <3>1, ChainIs
  <2>5. \A j \in 0..(N - 1) : w[j] \in Clusters
    BY <2>1, <2>3, <2>4
  <2>6. w[0] = h
    BY <2>3, WalkIs
  <2>7. /\ op'.pc = "data" /\ op'.content = c /\ op'.first = h /\ op'.cluster = h
        /\ op'.s = 0 /\ op'.written = 0
    BY <1>5 DEF Idle
  <2>8. fat_data' = t
    BY <1>5 DEF t
  <2>9. N = Needed(op'.content[2])
    BY <2>7 DEF N
  <2>10. Walk(fat_data', op'.first) = w
    BY <2>7, <2>8
  <2> HIDE DEF w
  <2>11. \A j \in 0..(0 - 1) : FALSE
    OBVIOUS
  <2>12. QED
    BY <2>1, <2>5, <2>6, <2>7, <2>9, <2>10, <2>11 DEF DataShape
<1>6. QED
  BY <1>3, <1>4, <1>5

LEMMA DataData ==
  ASSUME One, IInv, DataShape, WriteData
  PROVE  DataShape'
<1> DEFINE w == Walk(fat_data, op.first)
           x == op.written
           z == op.content[2]
           N == Needed(op.content[2])
<1>1. /\ op.pc = "data" /\ DataGoesOn /\ fat_data' = fat_data /\ op \in Calls /\ op.content \in Contents
      /\ op.first \in Heads /\ Sound(fat_data, Heads)
  BY DEF IInv, WriteData, TypeOK, CallShape, ChainsSound, Heads
<1>2. x \in Nat /\ z \in Nat /\ x < z /\ Held \in Nat
  BY <1>1, NeededIs, HeldFits, Fat12Assumption DEF Calls, DataGoesOn
<1>3. N \in Nat /\ N >= z
  BY <1>2, NeededOne
<1>4. /\ op.s = 0 /\ N <= Held /\ \A j \in 0..(N - 1) : w[j] \in Clusters
      /\ op.cluster = w[x] /\ \A j \in 0..(x - 1) : data[<<w[j], 0>>] = <<op.content[1], j + 1>>
  BY <1>1 DEF DataShape
<1>5. NextCluster = fat12_get(fat_data, op.cluster) /\ (op.s + 1) % SectorsPerCluster = 0
  BY <1>4 DEF NextCluster, One
<1>6. op' = [op EXCEPT !.written = x + 1, !.cluster = fat12_get(fat_data, op.cluster), !.s = 0]
  BY <1>4, <1>5 DEF WriteData
<1>7. /\ op'.pc = "data" /\ op'.content = op.content /\ op'.first = op.first
      /\ op'.written = x + 1 /\ op'.cluster = fat12_get(fat_data, op.cluster) /\ op'.s = 0
  BY <1>1, <1>6 DEF Calls
<1>8. data' = [data EXCEPT ![<<w[x], 0>>] = <<op.content[1], x + 1>>]
  BY <1>4 DEF WriteData
<1>9. w[x] \in Clusters /\ x + 1 \in 1..Held /\ (x + 1) - 1 = x /\ x \in 0..Held
  BY <1>2, <1>3, <1>4
<1>10. w[x + 1] = fat12_get(fat_data, w[x])
  <2>1. fat_data \in Table /\ op.first \in Words
    BY <1>1, ClusterFacts DEF Sound
  <2>2. w[x + 1] = IF w[(x + 1) - 1] \in Clusters THEN fat12_get(fat_data, w[(x + 1) - 1]) ELSE 0
    BY <1>9, <2>1, WalkIs
  <2>3. QED
    BY <1>9, <2>2
<1>11. \A j, k \in 0..Held : w[j] \in Clusters /\ w[j] = w[k] => j = k
  BY <1>1, Meet
<1>12. DOMAIN data = Clusters \X (0..(SectorsPerCluster - 1)) /\ 0 \in 0..(SectorsPerCluster - 1)
  BY DEF IInv, TypeOK, One
<1>13. Walk(fat_data', op'.first) = w
  BY <1>1, <1>7
<1> HIDE DEF w, N, x, z
<1>14. ASSUME NEW j \in 0..x
       PROVE  data'[<<w[j], 0>>] = <<op.content[1], j + 1>>
  <2>1. j \in 0..Held /\ j \in 0..(N - 1) /\ w[j] \in Clusters
    BY <1>2, <1>3, <1>4, <1>9
  <2>2. <<w[j], 0>> \in DOMAIN data
    BY <1>12, <2>1
  <2>3. CASE j = x
    BY <1>8, <2>2, <2>3
  <2>4. CASE j # x
    <3>1. w[j] # w[x] /\ j \in 0..(x - 1)
      BY <1>2, <1>9, <1>11, <2>1, <2>4
    <3>2. <<w[j], 0>> # <<w[x], 0>>
      BY <3>1
    <3>3. data'[<<w[j], 0>>] = data[<<w[j], 0>>]
      BY <1>8, <2>2, <3>2
    <3>4. QED
      BY <1>4, <3>1, <3>3
  <2>5. QED
    BY <2>3, <2>4
<1>15. (x + 1) - 1 = x /\ x + 1 <= z
  BY <1>2
<1>16. op'.content[2] = z /\ Needed(op'.content[2]) = N /\ op'.content[1] = op.content[1]
  BY <1>7 DEF z, N
<1>17. QED
  BY <1>4, <1>7, <1>10, <1>13, <1>14, <1>15, <1>16 DEF DataShape

\* Outside the loop over the data there is nothing to say.
LEMMA DataRest ==
  ASSUME IInv, \/ WriteEntry \/ FlushSector \/ FlushReturn \/ Reboot \/ Overrun \/ Undefined
               \/ \E n \in Names : fat12_delete(n)
  PROVE  DataShape'
<1>1. op \in Calls
  BY DEF IInv, TypeOK
<1>2. CASE WriteEntry
  BY <1>1, <1>2 DEF WriteEntry, DataShape, Idle, Calls
<1>3. CASE FlushSector
  BY <1>1, <1>3 DEF FlushSector, DataShape, Calls
<1>4. CASE FlushReturn
  BY <1>4 DEF FlushReturn, DataShape, Idle
<1>5. CASE Reboot
  BY <1>5 DEF Reboot, DataShape, Idle
<1>6. CASE \E n \in Names : fat12_delete(n)
  BY <1>6 DEF fat12_delete, DataShape, Idle
<1>7. CASE Overrun \/ Undefined
  BY <1>7 DEF Overrun, Undefined, vars, DataShape, Idle
<1>8. QED
  BY <1>2, <1>3, <1>4, <1>5, <1>6, <1>7

WholeData == Whole => DataShape

LEMMA DataInvariance == ASSUME One PROVE Spec => []WholeData
<1>1. Init => WholeData
  BY DEF Init, Idle, DataShape, WholeData
<1>2. WholeIInv /\ WholeData /\ [Next]_vars => WholeData'
  <2> SUFFICES ASSUME WholeIInv, WholeData, [Next]_vars PROVE WholeData'
    OBVIOUS
  <2>1. CASE ~ Whole
    BY <2>1, NotWholeStays DEF WholeData
  <2>2. CASE Whole /\ Next
    BY <2>2, DataWrite, DataData, DataRest DEF Next, WholeIInv, WholeData
  <2>3. CASE Whole /\ UNCHANGED vars
    BY <2>3 DEF vars, DataShape, WholeData
  <2>4. QED
    BY <2>1, <2>2, <2>3
<1>3. QED
  BY <1>1, <1>2, Invariance, PTL DEF Spec

\* What fat12_read gives for entry e with table f and data t.
Content(f, t, e) ==
    LET s == WholeChain(f, e.first)
    IN  [k \in 1..(IF e.size < Len(s) THEN e.size ELSE Len(s)) |-> t[<<s[k], 0>>]]

\* It depends on the chain and on the data on it.
LEMMA ContentKept ==
  ASSUME NEW f, NEW H, Sound(f, H), NEW g \in Table, NEW e, e.first \in H, e.size \in Nat,
         Kept(f, g, e.first), NEW t, NEW u,
         \A c \in Clusters : On(f, e.first, c) => u[<<c, 0>>] = t[<<c, 0>>]
  PROVE  Content(g, u, e) = Content(f, t, e)
<1> DEFINE h == e.first
           s == WholeChain(f, h)
           q == IF e.size < Len(s) THEN e.size ELSE Len(s)
<1>1. f \in Table /\ h \in Words /\ Held \in Nat
  BY ClusterFacts, HeldFits, Fat12Assumption DEF Sound
<1>2. Walk(g, h) = Walk(f, h)
  BY <1>1, KeptWalk
<1>3. WholeChain(g, h) = s
  BY <1>2 DEF WholeChain
<1>4. PICK m \in 1..Held :
        /\ s = [k \in 1..m |-> Walk(f, h)[k - 1]]
        /\ \A j \in 0..Held : Walk(f, h)[j] \in Clusters <=> j < m
  BY ChainIs
<1>5. Len(s) = m /\ \A k \in 1..m : s[k] = Walk(f, h)[k - 1] /\ k - 1 \in 0..Held /\ k - 1 < m
  BY <1>1, <1>4
<1>6. \A k \in 1..m : s[k] \in Clusters /\ On(f, h, s[k])
  BY <1>4, <1>5 DEF On
<1>7. \A k \in 1..q : k \in 1..m
  BY <1>4, <1>5
<1> HIDE DEF s, q, h
<1>8. \A k \in 1..q : u[<<s[k], 0>>] = t[<<s[k], 0>>]
  BY <1>6, <1>7 DEF h
<1>9. [k \in 1..q |-> u[<<s[k], 0>>]] = [k \in 1..q |-> t[<<s[k], 0>>]]
  BY <1>8
<1>10. Content(g, u, e) = [k \in 1..q |-> u[<<s[k], 0>>]]
  BY <1>3 DEF Content, q, h
<1>11. Content(f, t, e) = [k \in 1..q |-> t[<<s[k], 0>>]]
  BY DEF Content, q, s, h
<1>12. QED
  BY <1>9, <1>10, <1>11

\* What is shown under a name is the content of its one entry.
ShownRight ==
    \A n \in OwnNames :
        /\ \A i \in Used : dir[i].name = n => Shown(n) = Content(fat_data, data, dir[i])
        /\ (\A i \in Used : dir[i].name # n) => Shown(n) = ABSENT

LEMMA ShownIs == One /\ IInv => ShownRight
<1> SUFFICES ASSUME One, IInv, NEW n \in OwnNames
             PROVE  /\ \A i \in Used : dir[i].name = n => Shown(n) = Content(fat_data, data, dir[i])
                    /\ (\A i \in Used : dir[i].name # n) => Shown(n) = ABSENT
  BY DEF ShownRight
<1>1. DirectoryShape /\ TypeOK /\ Sound(fat_data, Heads) /\ Firsts \subseteq Heads
  BY DEF IInv, ChainsSound, Heads
<1>2. /\ find_entry(n) # NONE => find_entry(n) \in Used /\ dir[find_entry(n)].name = n
      /\ find_entry(n) = NONE => \A i \in Used : dir[i].name # n
  BY <1>1, FindIs
<1>3. ASSUME NEW i \in Used, dir[i].name = n
      PROVE  Shown(n) = Content(fat_data, data, dir[i])
  <2>1. find_entry(n) # NONE /\ find_entry(n) = i
    BY <1>1, <1>2, <1>3 DEF DirectoryShape
  <2> DEFINE e == dir[i]
             s == WholeChain(fat_data, e.first)
  <2>2. e.first \in Heads /\ e.size \in Nat
    BY <1>1 DEF Firsts, TypeOK, Marked, Used
  <2>3. Len(s) \in Nat
    <3>1. Held \in Nat
      BY HeldFits, Fat12Assumption
    <3> DEFINE h == e.first
    <3> HIDE DEF h
    <3>2. h \in Heads
      BY <2>2 DEF h
    <3>3. PICK m \in 1..Held : WholeChain(fat_data, h) = [k \in 1..m |-> Walk(fat_data, h)[k - 1]]
      BY <1>1, <3>2, ChainIs
    <3>4. QED
      BY <3>1, <3>3 DEF h
  <2>4. Shown(n) = fat12_read(fat_data, n)
    BY <2>1 DEF Shown
  <2> HIDE DEF e, s
  <2>5. fat12_read(fat_data, n) =
          [k \in 1..(IF e.size < Len(s) * 1 THEN e.size ELSE Len(s) * 1) |->
              data[<<s[((k - 1) \div 1) + 1], (k - 1) % 1>>]]
    BY <2>1 DEF fat12_read, One, e, s
  <2> DEFINE q == IF e.size < Len(s) THEN e.size ELSE Len(s)
  <2>6. Len(s) * 1 = Len(s) /\ q \in Nat
    BY <2>2, <2>3 DEF e
  <2> HIDE DEF q
  <2>7. \A k \in 1..q : ((k - 1) \div 1) + 1 = k /\ (k - 1) % 1 = 0
    BY <2>6
  <2>8. [k \in 1..q |-> data[<<s[((k - 1) \div 1) + 1], (k - 1) % 1>>]] = [k \in 1..q |-> data[<<s[k], 0>>]]
    BY <2>7
  <2>9. fat12_read(fat_data, n) = [k \in 1..q |-> data[<<s[k], 0>>]]
    BY <2>5, <2>6, <2>8 DEF q
  <2>10. Content(fat_data, data, dir[i]) = [k \in 1..q |-> data[<<s[k], 0>>]]
    BY DEF Content, q, s, e
  <2>11. QED
    BY <2>4, <2>9, <2>10
<1>4. ASSUME \A i \in Used : dir[i].name # n
      PROVE  Shown(n) = ABSENT
  BY <1>2, <1>4 DEF Shown
<1>5. QED
  BY <1>3, <1>4

\* A step that keeps the entry of a name, its chain and the data on it keeps
\* what is shown under the name.
LEMMA ShownKept ==
  ASSUME One, IInv, IInv', NEW n \in OwnNames,
         \A i \in Used : dir[i].name = n =>
            /\ i \in Used' /\ dir'[i] = dir[i] /\ Kept(fat_data, fat_data', dir[i].first)
            /\ \A c \in Clusters : On(fat_data, dir[i].first, c) => data'[<<c, 0>>] = data[<<c, 0>>],
         \A i \in Used' : dir'[i].name = n => i \in Used /\ dir[i].name = n
  PROVE  Shown(n)' = Shown(n)
<1>1. /\ \A i \in Used : dir[i].name = n => Shown(n) = Content(fat_data, data, dir[i])
      /\ (\A i \in Used : dir[i].name # n) => Shown(n) = ABSENT
  BY ShownIs DEF ShownRight
<1>2. /\ \A i \in Used' : dir'[i].name = n => Shown(n)' = Content(fat_data', data', dir'[i])
      /\ (\A i \in Used' : dir'[i].name # n) => Shown(n)' = ABSENT
  <2>1. (One /\ IInv => ShownRight)'
    BY ShownIs, PTL
  <2>2. One' /\ ShownRight'
    BY <2>1 DEF One
  <2>3. QED
    BY <2>2 DEF ShownRight, Content
<1>3. CASE \E i \in Used : dir[i].name = n
  <2>1. PICK i \in Used : dir[i].name = n
    BY <1>3
  <2>2. /\ i \in Used' /\ dir'[i] = dir[i] /\ Kept(fat_data, fat_data', dir[i].first)
        /\ \A c \in Clusters : On(fat_data, dir[i].first, c) => data'[<<c, 0>>] = data[<<c, 0>>]
    BY <2>1
  <2>3. Sound(fat_data, Heads) /\ fat_data' \in Table /\ dir[i].first \in Heads /\ dir[i].size \in Nat
    BY DEF IInv, ChainsSound, TypeOK, Heads, Firsts, Used, Marked
  <2>4. Content(fat_data', data', dir[i]) = Content(fat_data, data, dir[i])
    BY <2>2, <2>3, ContentKept
  <2>5. QED
    BY <1>1, <1>2, <2>1, <2>2, <2>4
<1>4. CASE ~ \E i \in Used : dir[i].name = n
  BY <1>1, <1>2, <1>4
<1>5. QED
  BY <1>3, <1>4

\* The abstract step of a concrete one.
Abstract == Store!Safe \/ (Seen' = Seen /\ Called' = Called)

\* When nothing is shown otherwise, the store is as it was.
LEMMA SeenKept ==
  ASSUME \A n \in OwnNames : Shown(n)' = Shown(n)
  PROVE  Seen' = Seen
BY DEF Seen

\* The old file of a call is gone, and what is shown under other names is not
\* changed.
LEMMA UnlinkShows ==
  ASSUME One, IInv, IInv', NEW n, op.pc = "idle", dir' = Unlinked(find_entry(n)), data' = data,
         \A h \in FirstsIn(Unlinked(find_entry(n))) : Kept(WithoutOld(find_entry(n)), fat_data', h)
  PROVE  /\ \A m \in OwnNames : m # n => Shown(m)' = Shown(m)
         /\ n \in OwnNames => Shown(n)' = ABSENT
<1> DEFINE D == Unlinked(find_entry(n))
           f == WithoutOld(find_entry(n))
<1>1. TypeOK /\ ChainsSound /\ DirectoryShape /\ fat_data \in Table /\ fat_data' \in Table
  BY DEF IInv, TypeOK
<1>2. /\ UsedIn(D) \subseteq Used /\ \A i \in UsedIn(D) : D[i] = dir[i]
      /\ \A i \in Used : dir[i].name # n => i \in UsedIn(D)
      /\ Sound(f, FirstsIn(D))
      /\ \A h \in FirstsIn(D) : Kept(fat_data, f, h)
      /\ n \in OwnNames => \A i \in UsedIn(D) : D[i].name # n
  BY <1>1, Unlink
<1>3. \A h \in FirstsIn(D) : Kept(f, fat_data', h)
  OBVIOUS
<1>4. dir' = D
  OBVIOUS
<1> HIDE DEF D, f
<1>5. Used' = UsedIn(D)
  BY <1>4 DEF Used, UsedIn
<1>6. \A h \in FirstsIn(D) : Kept(fat_data, fat_data', h)
  <2>1. f \in Table /\ FirstsIn(D) \subseteq Words
    BY <1>2, ClusterFacts DEF Sound
  <2>2. QED
    BY <1>1, <1>2, <1>3, <2>1, KeptTwice
<1>7. ASSUME NEW m \in OwnNames, m # n
      PROVE  Shown(m)' = Shown(m)
  <2>1. ASSUME NEW i \in Used, dir[i].name = m
        PROVE  i \in Used' /\ dir'[i] = dir[i] /\ Kept(fat_data, fat_data', dir[i].first)
    <3>1. i \in UsedIn(D) /\ D[i] = dir[i]
      BY <1>2, <1>7, <2>1
    <3>2. dir[i].first \in FirstsIn(D)
      BY <3>1 DEF FirstsIn
    <3>3. QED
      BY <1>4, <1>5, <1>6, <3>1, <3>2
  <2>2. \A i \in Used' : dir'[i].name = m => i \in Used /\ dir[i].name = m
    BY <1>2, <1>4, <1>5
  <2>3. QED
    BY <2>1, <2>2, ShownKept
<1>8. ASSUME n \in OwnNames
      PROVE  Shown(n)' = ABSENT
  <2>1. (One /\ IInv => ShownRight)'
    BY ShownIs, PTL
  <2>2. ShownRight'
    BY <2>1 DEF One
  <2>3. \A i \in Used' : dir'[i].name # n
    BY <1>2, <1>4, <1>5, <1>8
  <2>4. QED
    BY <1>8, <2>2, <2>3 DEF ShownRight
<1>9. QED
  BY <1>7, <1>8

\* So a call begins in the store, if it is about a name of its own.
LEMMA BeginRefines ==
  ASSUME NEW n \in Names, NEW c \in {Sectors(d) : d \in Contents} \cup {ABSENT},
         \A m \in OwnNames : m # n => Shown(m)' = Shown(m),
         n \in OwnNames => Shown(n)' = ABSENT,
         Called = <<ABSENT, ABSENT>>,
         Called' = <<ABSENT, ABSENT>> \/ (n \in OwnNames /\ Called' = <<n, c>>)
  PROVE  Abstract
<1>1. CASE n \in OwnNames
  <2>1. Seen' = [Seen EXCEPT ![n] = ABSENT]
    BY <1>1 DEF Seen
  <2>2. Store!Begin(n, c)
    BY <1>1, <2>1 DEF Store!Begin, Store!NoCall
  <2>3. QED
    BY <1>1, <2>2 DEF Abstract, Store!Safe
<1>2. CASE n \notin OwnNames
  <2>1. Seen' = Seen
    BY <1>2, SeenKept
  <2>2. QED
    BY <1>2, <2>1 DEF Abstract
<1>3. QED
  BY <1>1, <1>2

LEMMA IdleCall ==
  ASSUME op.name = ABSENT
  PROVE  Called = <<ABSENT, ABSENT>>
BY AbsentAssumption DEF Called, OwnNames

LEMMA WriteRefines ==
  ASSUME One, IInv, IInv', NEW n \in Names, NEW c \in Contents, fat12_write(n, c)
  PROVE  Abstract
<1> DEFINE e == find_entry(n)
           f == WithoutOld(e)
           D == Unlinked(e)
           h == fat12_alloc_cluster(f)
           N == Needed(c[2])
<1>1. /\ TypeOK /\ ChainsSound /\ DirectoryShape /\ op = Idle /\ op.pc = "idle" /\ op.name = ABSENT
      /\ dir' = D /\ data' = data
  BY DEF IInv, fat12_write, Idle
<1>2. Sound(f, FirstsIn(D))
  BY <1>1, Unlink
<1>3. \/ fat_data' = f /\ op' = op
      \/ /\ Cardinality(FreeClusters(f)) >= N /\ fat_data' = Chained(f, N)
         /\ op' = [Idle EXCEPT !.pc = "data", !.name = n, !.content = c, !.first = h, !.cluster = h]
  BY DEF fat12_write
<1>4. \A x \in FirstsIn(D) : Kept(f, fat_data', x)
  <2> HIDE DEF e, f, D, h, N
  <2>1. CASE fat_data' = f
    BY <2>1, KeptSelf
  <2>2. CASE Cardinality(FreeClusters(f)) >= N /\ fat_data' = Chained(f, N)
    <3>1. N \in Nat /\ N >= 1
      BY NeededIs DEF N
    <3>2. PICK l : l.fat = Chained(f, N) /\ Taking(f, FirstsIn(D), h, N, l)
      BY <1>2, <2>2, <3>1, ChainTake DEF h
    <3>3. QED
      BY <2>2, <3>2 DEF Taking
  <2>3. QED
    BY <1>3, <2>1, <2>2
<1>5. /\ \A m \in OwnNames : m # n => Shown(m)' = Shown(m)
      /\ n \in OwnNames => Shown(n)' = ABSENT
  BY <1>1, <1>4, UnlinkShows
<1>6. Called = <<ABSENT, ABSENT>>
  BY <1>1, IdleCall
<1>7. Called' = <<ABSENT, ABSENT>> \/ (n \in OwnNames /\ Called' = <<n, Sectors(c)>>)
  <2> HIDE DEF e, f, D, h, N
  <2>1. CASE op' = op
    BY <1>6, <2>1 DEF Called
  <2>2. CASE op' = [Idle EXCEPT !.pc = "data", !.name = n, !.content = c, !.first = h, !.cluster = h]
    <3>1. op'.name = n /\ op'.content = c
      BY <2>2 DEF Idle
    <3>2. c # ABSENT
      BY AbsentAssumption DEF Contents
    <3>3. QED
      BY <3>1, <3>2 DEF Called
  <2>3. QED
    BY <1>3, <2>1, <2>2
<1>8. Sectors(c) \in {Sectors(d) : d \in Contents} \cup {ABSENT}
  OBVIOUS
<1>9. QED
  BY <1>5, <1>6, <1>7, <1>8, BeginRefines

LEMMA DeleteRefines ==
  ASSUME One, IInv, IInv', NEW n \in Names, fat12_delete(n)
  PROVE  Abstract
<1>1. /\ op.pc = "idle" /\ op.name = ABSENT /\ dir' = Unlinked(find_entry(n)) /\ data' = data
      /\ fat_data' = WithoutOld(find_entry(n)) /\ op'.name = n /\ op'.content = ABSENT
  BY DEF fat12_delete, Idle
<1>2. /\ \A m \in OwnNames : m # n => Shown(m)' = Shown(m)
      /\ n \in OwnNames => Shown(n)' = ABSENT
  BY <1>1, KeptSelf, UnlinkShows
<1>3. Called = <<ABSENT, ABSENT>>
  BY <1>1, IdleCall
<1>4. Called' = <<ABSENT, ABSENT>> \/ (n \in OwnNames /\ Called' = <<n, ABSENT>>)
  BY <1>1 DEF Called
<1>5. QED
  BY <1>2, <1>3, <1>4, BeginRefines

\* A step that leaves the directory alone and every file's chain and data.
LEMMA QuietShows ==
  ASSUME One, IInv, IInv', dir' = dir,
         \A h \in Firsts : /\ Kept(fat_data, fat_data', h)
                           /\ \A c \in Clusters : On(fat_data, h, c) => data'[<<c, 0>>] = data[<<c, 0>>]
  PROVE  Seen' = Seen
<1>1. Used' = Used /\ \A i \in Used : dir[i].first \in Firsts
  BY DEF Used, Firsts
<1>2. ASSUME NEW n \in OwnNames
      PROVE  Shown(n)' = Shown(n)
  BY <1>1, ShownKept
<1>3. QED
  BY <1>2, SeenKept

\* A call about a name of its own is not the absence of one.
LEMMA CallIsCall ==
  ASSUME op.name \in OwnNames
  PROVE  Called # <<ABSENT, ABSENT>>
BY AbsentAssumption DEF Called, OwnNames

\* A call that ends.
LEMMA ReturnRefines ==
  ASSUME Seen' = Seen, op' = Idle
  PROVE  Abstract
<1>1. Called' = <<ABSENT, ABSENT>>
  <2>1. op'.name = ABSENT
    BY DEF Idle
  <2>2. QED
    BY <2>1, AbsentAssumption DEF Called, OwnNames
<1>2. CASE op.name \in OwnNames
  BY <1>1, <1>2, CallIsCall DEF Abstract, Store!Safe, Store!Return, Store!NoCall
<1>3. CASE op.name \notin OwnNames
  BY <1>1, <1>3 DEF Abstract, Called
<1>4. QED
  BY <1>2, <1>3

LEMMA WriteDataRefines ==
  ASSUME One, IInv, IInv', DataShape, WriteData
  PROVE  Abstract
<1>1. /\ op.pc = "data" /\ op \in Calls /\ fat_data' = fat_data /\ dir' = dir /\ DataGoesOn
      /\ Heads = Firsts \cup {op.first} /\ op.first \notin Firsts /\ Sound(fat_data, Heads)
      /\ op.content \in Contents
  BY DEF IInv, TypeOK, CallShape, ChainsSound, WriteData, Heads
<1>2. op'.name = op.name /\ op'.content = op.content
  BY <1>1 DEF WriteData, Calls
<1>3. /\ op.cluster = Walk(fat_data, op.first)[op.written] /\ op.cluster \in Clusters
      /\ op.written \in 0..Held
  <2>1. /\ op.written \in Nat /\ op.content[2] \in Nat /\ op.written < op.content[2] /\ Held \in Nat
        /\ op.cluster \in Clusters \cup {0, EOC} /\ Linked(op.cluster)
    BY <1>1, NeededIs, HeldFits, Fat12Assumption DEF Calls, DataGoesOn
  <2>2. Needed(op.content[2]) \in Nat /\ Needed(op.content[2]) >= op.content[2]
    BY <2>1, NeededOne
  <2>3. op.cluster = Walk(fat_data, op.first)[op.written] /\ Needed(op.content[2]) <= Held
    BY <1>1 DEF DataShape
  <2>4. QED
    BY <2>1, <2>2, <2>3, ClusterFacts
<1>4. ASSUME NEW h \in Firsts, NEW c \in Clusters, On(fat_data, h, c)
      PROVE  data'[<<c, 0>>] = data[<<c, 0>>]
  <2>1. PICK j \in 0..Held : Walk(fat_data, h)[j] = c
    BY <1>4 DEF On
  <2>2. h \in Heads /\ op.first \in Heads /\ h # op.first
    BY <1>1
  <2>3. c # op.cluster
    BY <1>1, <1>3, <2>1, <2>2, Meet
  <2>4. <<c, 0>> # <<op.cluster, op.s>>
    BY <2>3
  <2>5. <<c, 0>> \in DOMAIN data
    BY DEF IInv, TypeOK, One
  <2>6. data' = [data EXCEPT ![<<op.cluster, op.s>>] = <<op.content[1], op.written + 1>>]
    BY DEF WriteData
  <2>7. QED
    BY <2>4, <2>5, <2>6
<1>5. Seen' = Seen
  BY <1>1, <1>4, KeptSelf, QuietShows
<1>6. QED
  BY <1>2, <1>5 DEF Abstract, Called

\* The entry that appears is that of a file with all its data.
LEMMA NewContent ==
  ASSUME One, IInv, DataShape, op.pc = "data", ~ DataGoesOn
  PROVE  Content(fat_data, data, NewEntry) = Sectors(op.content)
<1> DEFINE h == op.first
           w == Walk(fat_data, h)
           s == WholeChain(fat_data, h)
           z == op.content[2]
           N == Needed(op.content[2])
<1>1. h \in Heads /\ Sound(fat_data, Heads) /\ op \in Calls /\ op.content \in Contents
  BY DEF IInv, ChainsSound, Heads, TypeOK, CallShape
<1>2. z \in Nat /\ op.written \in Nat /\ Held \in Nat
  BY <1>1, NeededIs, HeldFits, Fat12Assumption DEF Calls
<1>3. N \in Nat /\ N >= z /\ N >= 1
  BY <1>2, NeededOne
<1>4. /\ op.written <= z /\ N <= Held /\ \A j \in 0..(N - 1) : w[j] \in Clusters
      /\ op.cluster = w[op.written]
      /\ \A j \in 0..(op.written - 1) : data[<<w[j], 0>>] = <<op.content[1], j + 1>>
  BY DEF DataShape
<1>5. op.written = z
  <2>1. SUFFICES ASSUME op.written < z PROVE FALSE
    BY <1>2, <1>4
  <2>2. op.cluster \in Clusters
    BY <1>2, <1>3, <1>4, <2>1
  <2>3. QED
    BY <2>1, <2>2, ClusterFacts DEF DataGoesOn
<1>6. PICK m \in 1..Held :
        /\ s = [k \in 1..m |-> w[k - 1]]
        /\ \A j \in 0..Held : w[j] \in Clusters <=> j < m
  BY <1>1, ChainIs
<1>7. N <= m /\ Len(s) = m
  <2>1. N - 1 \in 0..Held /\ w[N - 1] \in Clusters
    BY <1>2, <1>3, <1>4
  <2>2. QED
    BY <1>2, <1>3, <1>6, <2>1
<1>8. NewEntry.first = h /\ NewEntry.size = z
  BY DEF NewEntry
<1> HIDE DEF s, z, h, N, w
<1>9. (IF z < Len(s) THEN z ELSE Len(s)) = z
  BY <1>2, <1>3, <1>7
<1>10. Content(fat_data, data, NewEntry) = [k \in 1..z |-> data[<<s[k], 0>>]]
  BY <1>8, <1>9 DEF Content, s
<1>11. \A k \in 1..z : data[<<s[k], 0>>] = <<op.content[1], k>>
  <2>1. ASSUME NEW k \in 1..z
        PROVE  data[<<s[k], 0>>] = <<op.content[1], k>>
    <3>1. k \in 1..m /\ k - 1 \in 0..(op.written - 1) /\ (k - 1) + 1 = k
      BY <1>2, <1>3, <1>5, <1>7
    <3>2. s[k] = w[k - 1]
      BY <1>6, <3>1
    <3>3. data[<<w[k - 1], 0>>] = <<op.content[1], (k - 1) + 1>>
      BY <1>4, <3>1
    <3>4. QED
      BY <3>1, <3>2, <3>3
  <2>2. QED
    BY <2>1
<1>12. [k \in 1..z |-> data[<<s[k], 0>>]] = [k \in 1..z |-> <<op.content[1], k>>]
  BY <1>11
<1>13. Sectors(op.content) = [k \in 1..z |-> <<op.content[1], k>>]
  BY DEF Sectors, z
<1>14. QED
  BY <1>10, <1>12, <1>13

LEMMA WriteEntryRefines ==
  ASSUME One, IInv, IInv', DataShape, WriteEntry
  PROVE  Abstract
<1> DEFINE r == alloc_root_entry
           h == op.first
<1>1. /\ op.pc = "data" /\ op \in Calls /\ data' = data /\ ~ DataGoesOn /\ TypeOK /\ DirectoryShape
      /\ Heads = Firsts \cup {h} /\ h \notin Firsts /\ Sound(fat_data, Heads) /\ op.content \in Contents
  BY DEF IInv, TypeOK, CallShape, ChainsSound, WriteEntry, Heads
<1>2. CASE r = NONE
  <2>1. fat_data' = free_chain(fat_data, h) /\ op' = Idle /\ dir' = dir
    BY <1>2 DEF WriteEntry
  <2>2. h \in Heads /\ \A x \in Firsts : x \in Heads \ {h}
    BY <1>1
  <2>3. \A x \in Firsts : Kept(fat_data, fat_data', x)
    <3> HIDE DEF h
    <3>1. QED
      BY <1>1, <2>1, <2>2, FreeChain
  <2>4. Seen' = Seen
    BY <1>1, <2>1, <2>3, QuietShows
  <2>5. QED
    BY <2>1, <2>4, ReturnRefines
<1>3. CASE r # NONE
  <2>1. /\ dir' = [dir EXCEPT ![r] = NewEntry] /\ fat_data' = fat_data /\ op' = [op EXCEPT !.pc = "flush"]
    BY <1>3 DEF WriteEntry
  <2>2. r \in Entries /\ dir[r].mark # "used"
    BY <1>3, RootEntryIs
  <2> HIDE DEF r
  <2>3. NewEntry.mark = "used" /\ NewEntry.name = Stored(op.name)
    BY DEF NewEntry
  <2>4. \A i \in Entries : dir'[i] = IF i = r THEN NewEntry ELSE dir[i]
    BY <1>1, <2>1, <2>2 DEF TypeOK
  <2>5. Used' = Used \cup {r} /\ dir'[r] = NewEntry /\ \A i \in Used : dir'[i] = dir[i]
    BY <2>2, <2>3, <2>4 DEF Used
  <2>6. Called' = Called
    BY <1>1, <2>1 DEF Called, Calls
  <2>7. ASSUME NEW n \in OwnNames, n # Stored(op.name)
        PROVE  Shown(n)' = Shown(n)
    <3>1. \A i \in Used' : dir'[i].name = n => i \in Used /\ dir[i].name = n
      BY <2>3, <2>5, <2>7
    <3>2. QED
      BY <1>1, <2>1, <2>5, <3>1, KeptSelf, ShownKept
  <2>8. CASE op.name \in OwnNames
    <3>1. Stored(op.name) = op.name
      BY <2>8 DEF Stored, OwnNames
    <3>2. Content(fat_data, data, NewEntry) = Sectors(op.content)
      BY <1>1, NewContent
    <3>3. ASSUME NEW n \in OwnNames, n = op.name
          PROVE  Shown(n)' = Sectors(op.content)
      <4>1. (One /\ IInv => ShownRight)'
        BY ShownIs, PTL
      <4>2. ShownRight'
        BY <4>1 DEF One
      <4>3. r \in Used' /\ dir'[r].name = n
        BY <2>3, <2>5, <3>1, <3>3
      <4>4. Shown(n)' = Content(fat_data', data', dir'[r])
        BY <4>2, <4>3 DEF ShownRight, Content
      <4>5. QED
        BY <1>1, <2>1, <2>5, <3>2, <4>4
    <3>4. op.content # ABSENT
      BY <1>1, AbsentAssumption DEF Contents
    <3>5. Called = <<op.name, Sectors(op.content)>>
      BY <2>8, <3>4 DEF Called
    <3>6. Seen' = [Seen EXCEPT ![op.name] = Sectors(op.content)]
      BY <2>7, <2>8, <3>1, <3>3 DEF Seen
    <3>7. Seen' = [Seen EXCEPT ![Called[1]] = Called[2]] /\ Called # <<ABSENT, ABSENT>>
      BY <2>8, <3>5, <3>6, CallIsCall
    <3>8. QED
      BY <2>6, <3>7 DEF Abstract, Store!Safe, Store!Commit, Store!NoCall
  <2>9. CASE op.name \notin OwnNames
    <3>1. Stored(op.name) \notin OwnNames
      BY <2>9 DEF Stored, OwnNames
    <3>2. \A n \in OwnNames : Shown(n)' = Shown(n)
      BY <2>7, <3>1
    <3>3. Seen' = Seen
      BY <3>2, SeenKept
    <3>4. QED
      BY <2>6, <3>3 DEF Abstract
  <2>10. QED
    BY <2>8, <2>9
<1>4. QED
  BY <1>2, <1>3

LEMMA StepRefines ==
  ASSUME One, IInv, IInv', DataShape, Next, Whole'
  PROVE  Abstract
<1>1. CASE \E n \in Names, c \in Contents : fat12_write(n, c)
  BY <1>1, WriteRefines
<1>2. CASE WriteData
  BY <1>2, WriteDataRefines
<1>3. CASE WriteEntry
  BY <1>3, WriteEntryRefines
<1>4. CASE \E n \in Names : fat12_delete(n)
  BY <1>4, DeleteRefines
<1>5. CASE FlushSector
  <2>1. fat_data' = fat_data /\ dir' = dir /\ data' = data /\ op'.name = op.name /\ op'.content = op.content
    BY <1>5 DEF FlushSector, IInv, TypeOK, Calls
  <2>2. Seen' = Seen
    BY <2>1, KeptSelf, QuietShows
  <2>3. QED
    BY <2>1, <2>2 DEF Abstract, Called
<1>6. CASE FlushReturn
  <2>1. fat_data' = fat_data /\ dir' = dir /\ data' = data /\ op' = Idle
    BY <1>6 DEF FlushReturn
  <2>2. Seen' = Seen
    BY <2>1, KeptSelf, QuietShows
  <2>3. QED
    BY <2>1, <2>2, ReturnRefines
<1>7. CASE Reboot /\ ~ InPieces
  <2>1. fat_data' = disk_fat[1] /\ dir' = dir /\ data' = data /\ op' = Idle
    BY <1>7 DEF Reboot
  <2>2. \A h \in Firsts : Kept(fat_data, fat_data', h)
    BY <1>7, <2>1, DiskIsSound
  <2>3. Seen' = Seen
    BY <2>1, <2>2, QuietShows
  <2>4. QED
    BY <2>1, <2>3, ReturnRefines
<1>8. ~ (Reboot /\ InPieces) /\ ~ Overrun /\ ~ Undefined
  BY DEF Whole, Reboot, Overrun, Undefined, IInv, TypeOK, Calls, Idle
<1>9. QED
  BY <1>1, <1>2, <1>3, <1>4, <1>5, <1>6, <1>7, <1>8 DEF Next

LEMMA InitRefines == Init => Store!Init
<1> SUFFICES ASSUME Init PROVE Store!Init
  OBVIOUS
<1>1. DirectoryShape /\ Used = {}
  <2>1. Used = {}
    BY DEF Init, Used, FREE
  <2>2. DirectoryShape
    BY InitIInv DEF IInv
  <2>3. QED
    BY <2>1, <2>2
<1>2. \A n \in OwnNames : Shown(n) = ABSENT
  BY <1>1, FindIs DEF Shown
<1>3. Seen = [n \in OwnNames |-> ABSENT]
  BY <1>2 DEF Seen
<1>4. Called = <<ABSENT, ABSENT>>
  <2>1. op.name = ABSENT
    BY DEF Init, Idle
  <2>2. QED
    BY <2>1, IdleCall
<1>5. Whole
  BY DEF Init, Whole, Idle
<1>6. QED
  BY <1>3, <1>4, <1>5 DEF Store!Init, Store!NoCall

\* With one sector in a cluster, the driver is a file store, whatever the sizes
\* of the disk, of the directory and of the files: no step of a call, of its
\* error paths or of a reboot in the middle of it changes what can be read under
\* a name that the call is not about, and a name never shows part of a file,
\* until the power goes while the table is in pieces or a call leaves the array
\* (fat12.c:312-405).
THEOREM DriverIsFileStore ==
  ASSUME SectorsPerCluster = 1
  PROVE  Spec => IsFileStore
<1>1. One
  BY DEF One
<1>2. Spec => []WholeData
  BY <1>1, DataInvariance
<1>3. WholeIInv /\ WholeIInv' /\ WholeData /\ [Next]_vars => [Store!Next]_<<Seen, Called, ~ Whole>>
  <2> SUFFICES ASSUME WholeIInv, WholeIInv', WholeData, [Next]_vars
               PROVE  [Store!Next]_<<Seen, Called, ~ Whole>>
    OBVIOUS
  <2>1. CASE ~ Whole'
    BY <2>1 DEF Store!Next
  <2>2. CASE Whole' /\ Next
    <3>1. Whole
      BY <2>2, NotWholeStays
    <3>2. Abstract
      BY <1>1, <2>2, <3>1, StepRefines DEF WholeIInv, WholeData
    <3>3. QED
      BY <2>2, <3>1, <3>2 DEF Abstract, Store!Next
  <2>3. CASE Whole' /\ UNCHANGED vars
    <3>1. Whole
      BY <2>3, NotWholeStays
    <3>2. Seen' = Seen
      BY <1>1, <2>3, <3>1, KeptSelf, QuietShows DEF vars, WholeIInv
    <3>3. Called' = Called
      BY <2>3 DEF vars, Called
    <3>4. QED
      BY <2>3, <3>1, <3>2, <3>3
  <2>4. QED
    BY <2>1, <2>2, <2>3
<1>4. QED
  BY <1>2, <1>3, InitRefines, Invariance, PTL DEF Spec, IsFileStore, Store!Spec
=============================================================================
