---------------------------- MODULE Kernel_proofs ----------------------------
(***************************************************************************)
(* Proofs about the three tables of the kernel that every program shares:  *)
(* the heap (module Heap), the descriptor table (FileDescriptors) and the  *)
(* process table (Processes), for every size of each.  All three are       *)
(* searched from the start for the first entry that fits, and the proofs   *)
(* share the lemmas about that.                                            *)
(***************************************************************************)
EXTENDS Heap, FileDescriptors, Processes, TLAPS, WellFoundedInduction

-----------------------------------------------------------------------------
(* Searches.                                                                *)

\* The walk over the blocks, and a loop over a table, stops at the least of the
\* entries that it looks for.
LEMMA LeastNat ==
  ASSUME NEW T \in SUBSET Nat, T # {}
  PROVE  \E x \in T : \A y \in T : x <= y
<1>1. PICK x \in T : \A y \in T : <<y, x>> \notin OpToRel(<, Nat)
  BY NatLessThanWellFounded, WFMin, Zenon
<1>2. ASSUME NEW y \in T PROVE ~ (y < x)
  <2>1. y \in Nat /\ x \in Nat
    OBVIOUS
  <2>2. QED
    BY <1>1, <2>1 DEF OpToRel
<1>3. QED
  BY <1>2

\* The same for a set measured by a function into the naturals: the element a
\* scan reaches first, when f says how far it walks to each.
LEMMA LeastImage ==
  ASSUME NEW S, S # {}, NEW f \in [S -> Nat]
  PROVE  \E x \in S : \A y \in S : f[x] <= f[y]
<1> DEFINE T == {f[x] : x \in S}
<1>1. T \in SUBSET Nat /\ T # {}
  OBVIOUS
<1>2. PICK m \in T : \A n \in T : m <= n
  BY <1>1, LeastNat
<1>3. PICK x \in S : m = f[x]
  BY <1>2
<1>4. ASSUME NEW y \in S PROVE f[x] <= f[y]
  BY <1>2, <1>3
<1>5. QED
  BY <1>4

-----------------------------------------------------------------------------
(* The heap.                                                                *)

\* Coalesced while merge_free_blocks walks: no pair of free neighbours is left
\* behind the walk.
Swept ==
    \A a \in Blocks :
        hdr[a].next # NULL /\ (cur = NULL \/ hdr[a].next <= cur)
            => ~ (hdr[a].free /\ hdr[hdr[a].next].free)

HeapInv == HeapTypeOK /\ Tiling /\ OwnedKept /\ Swept /\ BlocksAligned

\* A record of a size, a flag and a pointer is a header.
LEMMA HeaderType ==
  ASSUME NEW s \in Nat, NEW f \in BOOLEAN, NEW n \in Int
  PROVE  [size |-> s, free |-> f, next |-> n] \in Header
BY Zenon DEF Header

\* Rounding up to a multiple of 8 loses nothing and yields a multiple of 8.
LEMMA AlignedUp ==
  ASSUME NEW n \in Nat
  PROVE  Aligned(n) \in Nat /\ Aligned(n) >= n /\ Aligned(n) % 8 = 0
BY DEF Aligned

\* The search of kmalloc ends at a free block that is large enough.
LEMMA FirstFitFits ==
  ASSUME HeapTypeOK, NEW size \in Nat, \E b \in Blocks : Fits(b, size)
  PROVE  FirstFit(size) \in Blocks /\ Fits(FirstFit(size), size)
<1> DEFINE S == {b \in Blocks : Fits(b, size)}
<1>1. S \in SUBSET Nat /\ S # {}
  BY HeapAssumption DEF HeapTypeOK, HDR
<1>2. \E x \in S : \A y \in S : x <= y
  BY <1>1, LeastNat
<1>3. QED
  BY <1>2, Zenon DEF FirstFit

\* The facts about one block that the steps use: its fields have their types,
\* and it ends inside the heap, at its next block if there is one.
LEMMA BlockFacts ==
  ASSUME HeapInv, NEW a \in Blocks
  PROVE  /\ a \in Nat /\ hdr[a].size \in Nat /\ hdr[a].free \in BOOLEAN
         /\ hdr[a].next \in Int
         /\ hdr[a] = [size |-> hdr[a].size, free |-> hdr[a].free, next |-> hdr[a].next]
         /\ End(a) = a + 16 + hdr[a].size
         /\ End(a) <= HEAP_SIZE
         /\ \/ hdr[a].next = NULL /\ End(a) = HEAP_SIZE
            \/ hdr[a].next = End(a) /\ End(a) \in Blocks
<1>1. hdr[a] \in Header /\ a \in 0..(HEAP_SIZE - HDR)
  BY DEF HeapInv, HeapTypeOK
<1>2. \/ hdr[a].next = NULL /\ End(a) = HEAP_SIZE
      \/ hdr[a].next = End(a) /\ End(a) \in Blocks
  BY DEF HeapInv, Tiling
<1>3. End(a) \in Blocks => End(a) <= HEAP_SIZE
  BY HeapAssumption DEF HeapInv, HeapTypeOK, HDR
<1>4. QED
  BY <1>1, <1>2, <1>3, HeapAssumption DEF Header, End, HDR

\* The heap starts as one free block.
LEMMA InitHeapInv == HeapInit => HeapInv
<1> SUFFICES ASSUME HeapInit PROVE HeapInv
  OBVIOUS
<1> USE HeapAssumption DEF HeapInit, HDR, NULL, Blocks
<1>1. HeapTypeOK
  BY DEF HeapTypeOK, Header
<1>2. Tiling
  BY DEF Tiling, End
<1>3. OwnedKept /\ Swept /\ BlocksAligned
  BY DEF OwnedKept, Swept, BlocksAligned
<1>4. QED
  BY <1>1, <1>2, <1>3 DEF HeapInv

-----------------------------------------------------------------------------
(* One lemma per action.                                                    *)

\* Taking a whole block: only its free flag changes.
LEMMA TakeKeepsIInv ==
  ASSUME HeapInv, NEW a \in Blocks, NEW request \in Nat,
         cur = NULL, cur' = NULL,
         hdr[a].free, hdr[a].size >= request,
         hdr' = Take(a),
         owned' = [b \in DOMAIN owned \cup {a} |-> IF b = a THEN request ELSE owned[b]]
  PROVE  HeapInv'
<1> USE DEF Take, Blocks
<1>0. HeapTypeOK /\ Tiling /\ OwnedKept /\ Swept /\ BlocksAligned
  BY DEF HeapInv
<1>1. /\ DOMAIN hdr' = DOMAIN hdr
      /\ \A b \in DOMAIN hdr : hdr'[b].size = hdr[b].size /\ hdr'[b].next = hdr[b].next
      /\ \A b \in DOMAIN hdr : hdr'[b].free = (IF b = a THEN FALSE ELSE hdr[b].free)
      /\ \A b \in DOMAIN hdr : hdr'[b] \in Header
  BY <1>0 DEF HeapTypeOK, Header
<1>2. HeapTypeOK'
  BY <1>0, <1>1 DEF HeapTypeOK, Take
<1>3. Tiling'
  BY <1>0, <1>1 DEF Tiling, End
<1>4. OwnedKept'
  BY <1>0, <1>1 DEF OwnedKept, HeapTypeOK
<1>5. Swept'
  BY <1>0, <1>1 DEF Swept, Tiling, End
<1>6. BlocksAligned'
  BY <1>0, <1>1 DEF BlocksAligned
<1>7. QED
  BY <1>2, <1>3, <1>4, <1>5, <1>6 DEF HeapInv

\* Splitting a block: the new header lies inside the old block, so it is new
\* to the list, and its free remainder is followed by a used block.
LEMMA SplitKeepsIInv ==
  ASSUME HeapInv, NEW a \in Blocks, NEW request \in Nat, NEW size \in Nat,
         size >= request, size % 8 = 0,
         cur = NULL, cur' = NULL,
         hdr[a].free, hdr[a].size >= size + HDR + 8,
         hdr' = Split(a, size),
         owned' = [b \in DOMAIN owned \cup {a} |-> IF b = a THEN request ELSE owned[b]]
  PROVE  HeapInv'
<1> DEFINE rest == a + HDR + size
<1>0. HeapTypeOK /\ Tiling /\ OwnedKept /\ Swept /\ BlocksAligned
  BY DEF HeapInv
<1>f. \A b \in Blocks :
         /\ b \in Nat /\ hdr[b].size \in Nat /\ hdr[b].free \in BOOLEAN
         /\ hdr[b].next \in Int
         /\ End(b) = b + 16 + hdr[b].size
         /\ End(b) <= HEAP_SIZE
         /\ \/ hdr[b].next = NULL /\ End(b) = HEAP_SIZE
            \/ hdr[b].next = End(b) /\ End(b) \in Blocks
  BY BlockFacts
<1>o. \A b, c \in Blocks : b < c => End(b) <= c
  BY <1>0 DEF Tiling
<1>1. /\ rest \in Nat /\ rest = a + 16 + size
      /\ a < rest /\ rest + 16 + 8 <= End(a)
  BY <1>f DEF HDR
<1>2. rest \notin Blocks
  BY <1>f, <1>o, <1>1
<1> HIDE DEF rest
<1>3. /\ Blocks' = Blocks \cup {rest}
      /\ hdr'[a] = [size |-> size, free |-> FALSE, next |-> rest]
      /\ hdr'[rest] = [size |-> hdr[a].size - size - 16, free |-> TRUE, next |-> hdr[a].next]
      /\ \A b \in Blocks : b # a => hdr'[b] = hdr[b]
      /\ hdr' \in [Blocks \cup {rest} -> {hdr'[b] : b \in Blocks \cup {rest}}]
  BY <1>2 DEF Split, Blocks, rest, HDR
<1>4. /\ End(a)' = rest
      /\ End(rest)' = End(a)
      /\ \A b \in Blocks : b # a => End(b)' = End(b)
  <2>1. hdr'[a].size = size /\ hdr'[rest].size = hdr[a].size - size - 16
    BY <1>3
  <2>2. End(a)' = rest /\ End(rest)' = End(a)
    BY <1>1, <1>f, <2>1 DEF End, HDR
  <2>3. \A b \in Blocks : b # a => End(b)' = End(b)
    BY <1>3 DEF End
  <2>4. QED
    BY <2>2, <2>3
<1>5. HeapTypeOK'
  <2>1. Blocks' \subseteq 0..(HEAP_SIZE - HDR)
    BY <1>0, <1>1, <1>3, <1>f, HeapAssumption DEF HeapTypeOK, HDR
  <2>2. ASSUME NEW b \in Blocks' PROVE hdr'[b] \in Header
    <3>1. CASE b = a
      <4>1. FALSE \in BOOLEAN /\ rest \in Int
        BY <1>1
      <4>2. QED
        BY <1>3, <3>1, <4>1, HeaderType
    <3>2. CASE b = rest
      <4>1. hdr[a].size - size - 16 \in Nat /\ hdr[a].next \in Int
        BY <1>1, <1>f
      <4>2. QED
        BY <1>3, <3>2, <4>1, HeaderType
    <3>3. CASE b # a /\ b # rest
      BY <1>0, <1>3, <3>3 DEF HeapTypeOK
    <3>4. QED
      BY <3>1, <3>2, <3>3
  <2>3. hdr' \in [Blocks' -> Header]
    BY <1>3, <2>2
  <2>4. QED
    BY <1>0, <1>3, <2>1, <2>3 DEF HeapTypeOK
<1>6. Tiling'
  <2>1. 0 \in Blocks'
    BY <1>0, <1>3 DEF Tiling
  <2>2. ASSUME NEW b \in Blocks'
        PROVE  \/ hdr'[b].next = NULL /\ End(b)' = HEAP_SIZE
               \/ hdr'[b].next = End(b)' /\ End(b)' \in Blocks'
    <3>1. CASE b = a
      BY <1>3, <1>4, <3>1
    <3>2. CASE b = rest
      BY <1>3, <1>4, <1>f, <3>2
    <3>3. CASE b # a /\ b \in Blocks
      BY <1>3, <1>4, <1>f, <3>3
    <3>4. QED
      BY <1>3, <3>1, <3>2, <3>3
  <2>3. ASSUME NEW b \in Blocks', NEW c \in Blocks', b < c
        PROVE  End(b)' <= c
    <3>1. CASE b = a
      BY <1>1, <1>3, <1>4, <1>f, <1>o, <2>3, <3>1
    <3>2. CASE b = rest
      BY <1>1, <1>2, <1>3, <1>4, <1>f, <1>o, <2>3, <3>2
    <3>3. CASE b \in Blocks /\ b # a
      BY <1>1, <1>2, <1>3, <1>4, <1>f, <1>o, <2>3, <3>3
    <3>4. QED
      BY <1>3, <3>1, <3>2, <3>3
  <2>4. QED
    BY <2>1, <2>2, <2>3 DEF Tiling, NULL
<1>7. OwnedKept'
  BY <1>0, <1>3 DEF OwnedKept, HeapTypeOK
<1>8. Swept'
  <2>1. ASSUME NEW b \in Blocks', hdr'[b].next # NULL
        PROVE  ~ (hdr'[b].free /\ hdr'[hdr'[b].next].free)
    <3>1. CASE b = a
      BY <1>3, <3>1
    <3>2. CASE b = rest
      <4>1. hdr'[b].next = hdr[a].next /\ hdr[a].next # NULL
        BY <1>3, <2>1, <3>2
      <4>2. hdr[a].next \in Blocks /\ hdr[a].next # a /\ ~ hdr[hdr[a].next].free
        BY <1>0, <1>f, <4>1 DEF Swept
      <4>3. QED
        BY <1>3, <4>1, <4>2
    <3>3. CASE b \in Blocks /\ b # a
      <4>1. hdr'[b] = hdr[b] /\ hdr[b].next \in Blocks
        BY <1>3, <1>f, <2>1, <3>3
      <4>2. ~ (hdr[b].free /\ hdr[hdr[b].next].free)
        BY <1>0, <2>1, <3>3, <4>1 DEF Swept
      <4>3. QED
        BY <1>3, <4>1, <4>2
    <3>4. QED
      BY <1>3, <3>1, <3>2, <3>3
  <2>2. QED
    BY <2>1 DEF Swept, NULL
<1>9. BlocksAligned'
  BY <1>0, <1>1, <1>3, <1>f DEF BlocksAligned
<1>10. QED
  BY <1>5, <1>6, <1>7, <1>8, <1>9 DEF HeapInv

\* Freeing a block that a caller owns: the walk starts in front of every pair.
LEMMA FreeKeepsIInv ==
  ASSUME HeapInv, NEW a \in DOMAIN owned, kfree(a)
  PROVE  HeapInv'
<1> USE DEF kfree, Blocks
<1>0. HeapTypeOK /\ Tiling /\ OwnedKept /\ Swept /\ BlocksAligned
  BY DEF HeapInv
<1>1. a \in DOMAIN hdr /\ 0 \in DOMAIN hdr
  BY <1>0 DEF HeapTypeOK, Tiling
<1>2. /\ DOMAIN hdr' = DOMAIN hdr
      /\ \A b \in DOMAIN hdr : hdr'[b].size = hdr[b].size /\ hdr'[b].next = hdr[b].next
      /\ \A b \in DOMAIN hdr : b # a => hdr'[b].free = hdr[b].free
      /\ \A b \in DOMAIN hdr : hdr'[b] \in Header
  BY <1>0, <1>1 DEF HeapTypeOK, Header
<1>3. HeapTypeOK'
  BY <1>0, <1>1, <1>2 DEF HeapTypeOK
<1>4. Tiling'
  BY <1>0, <1>2 DEF Tiling, End
<1>5. OwnedKept'
  BY <1>0, <1>2 DEF OwnedKept, HeapTypeOK
<1>6. Swept'
  <2>1. \A b \in Blocks : hdr[b].next # NULL => hdr[b].next > 0
    BY BlockFacts
  <2>2. QED
    BY <1>2, <2>1, BlockFacts DEF Swept, NULL
<1>7. BlocksAligned'
  BY <1>0, <1>2 DEF BlocksAligned
<1>8. QED
  BY <1>3, <1>4, <1>5, <1>6, <1>7 DEF HeapInv

\* Joining two free neighbours: the second header leaves the list.
LEMMA JoinKeepsIInv ==
  ASSUME HeapInv, MergeJoin
  PROVE  HeapInv'
<1> DEFINE n == hdr[cur].next
<1>0. HeapTypeOK /\ Tiling /\ OwnedKept /\ Swept /\ BlocksAligned
  BY DEF HeapInv
<1>f. \A b \in Blocks :
         /\ b \in Nat /\ hdr[b].size \in Nat /\ hdr[b].free \in BOOLEAN
         /\ hdr[b].next \in Int
         /\ End(b) = b + 16 + hdr[b].size
         /\ \/ hdr[b].next = NULL /\ End(b) = HEAP_SIZE
            \/ hdr[b].next = End(b) /\ End(b) \in Blocks
  BY BlockFacts
<1>o. \A b, c \in Blocks : b < c => End(b) <= c
  BY <1>0 DEF Tiling
<1>1. /\ cur \in Blocks /\ cur # NULL /\ hdr[cur].free
      /\ n = End(cur) /\ n \in Blocks /\ hdr[n].free /\ cur < n
  BY <1>0, <1>f DEF MergeJoin, Joinable, HeapTypeOK
<1> HIDE DEF n
<1>2. /\ Blocks' = Blocks \ {n}
      /\ hdr'[cur] = [size |-> hdr[cur].size + 16 + hdr[n].size,
                      free |-> hdr[cur].free, next |-> hdr[n].next]
      /\ \A b \in Blocks \ {n} : b # cur => hdr'[b] = hdr[b]
      /\ hdr' \in [Blocks \ {n} -> {hdr'[b] : b \in Blocks \ {n}}]
      /\ cur' = cur /\ owned' = owned
  <2>1. /\ hdr' = [b \in Blocks \ {n} |->
                     IF b = cur
                       THEN [size |-> hdr[b].size + HDR + hdr[n].size,
                             free |-> hdr[b].free, next |-> hdr[n].next]
                       ELSE hdr[b]]
        /\ cur' = cur /\ owned' = owned
    BY DEF MergeJoin, Joined, n
  <2>2. cur # n /\ cur \in Blocks \ {n}
    BY <1>1, <1>f
  <2>3. QED
    BY <2>1, <2>2 DEF Blocks, HDR
<1>3. /\ End(cur)' = End(n)
      /\ \A b \in Blocks \ {n} : b # cur => End(b)' = End(b)
  <2>1. hdr'[cur].size = hdr[cur].size + 16 + hdr[n].size
    BY <1>2
  <2>2. End(cur)' = End(n)
    BY <1>1, <1>2, <1>f, <2>1 DEF End, HDR
  <2>3. QED
    BY <1>2, <2>2 DEF End
<1>4. n \notin DOMAIN owned /\ cur \notin DOMAIN owned
  BY <1>0, <1>1 DEF OwnedKept
<1>5. HeapTypeOK'
  <2>1. ASSUME NEW b \in Blocks' PROVE hdr'[b] \in Header
    <3>1. CASE b = cur
      <4>1. hdr[cur].size + 16 + hdr[n].size \in Nat /\ hdr[n].next \in Int
        BY <1>1, <1>f
      <4>2. hdr[cur].free \in BOOLEAN
        BY <1>1, <1>f
      <4>3. [size |-> hdr[cur].size + 16 + hdr[n].size,
             free |-> hdr[cur].free, next |-> hdr[n].next] \in Header
        BY <4>1, <4>2, HeaderType, Zenon
      <4>4. QED
        BY <1>2, <3>1, <4>3, Zenon
    <3>2. CASE b # cur
      BY <1>0, <1>2, <3>2 DEF HeapTypeOK
    <3>3. QED
      BY <3>1, <3>2
  <2>2. hdr' \in [Blocks' -> Header]
    BY <1>2, <2>1
  <2>3. QED
    BY <1>0, <1>1, <1>2, <1>4, <2>2 DEF HeapTypeOK
<1>6. Tiling'
  <2>1. 0 \in Blocks'
    BY <1>0, <1>1, <1>2, <1>f DEF Tiling
  <2>2. ASSUME NEW b \in Blocks'
        PROVE  \/ hdr'[b].next = NULL /\ End(b)' = HEAP_SIZE
               \/ hdr'[b].next = End(b)' /\ End(b)' \in Blocks'
    <3>1. CASE b = cur
      BY <1>1, <1>2, <1>3, <1>f, <3>1
    <3>2. CASE b # cur
      <4>1. End(b) # n
        BY <1>1, <1>2, <1>f, <1>o, <3>2
      <4>2. QED
        BY <1>2, <1>3, <1>f, <3>2, <4>1
    <3>3. QED
      BY <3>1, <3>2
  <2>3. ASSUME NEW b \in Blocks', NEW c \in Blocks', b < c
        PROVE  End(b)' <= c
    <3>1. CASE b = cur
      <4>1. n <= c /\ n # c /\ c \in Blocks
        BY <1>1, <1>2, <1>o, <2>3, <3>1
      <4>2. n < c
        BY <1>1, <1>f, <4>1
      <4>3. End(n) <= c
        BY <1>1, <1>o, <4>1, <4>2
      <4>4. QED
        BY <1>2, <1>3, <3>1, <4>3
    <3>2. CASE b # cur
      BY <1>2, <1>3, <1>o, <2>3, <3>2
    <3>3. QED
      BY <3>1, <3>2
  <2>4. QED
    BY <2>1, <2>2, <2>3 DEF Tiling, NULL
<1>7. OwnedKept'
  BY <1>0, <1>2, <1>4 DEF OwnedKept, HeapTypeOK
<1>8. Swept'
  <2>1. ASSUME NEW b \in Blocks', hdr'[b].next # NULL, hdr'[b].next <= cur
        PROVE  ~ (hdr'[b].free /\ hdr'[hdr'[b].next].free)
    <3>1. b # cur
      BY <1>1, <1>2, <1>f, <2>1
    <3>2. hdr'[b] = hdr[b] /\ hdr[b].next \in Blocks /\ hdr[b].next # n
      BY <1>1, <1>2, <1>f, <2>1, <3>1
    <3>3. ~ (hdr[b].free /\ hdr[hdr[b].next].free)
      BY <1>0, <1>2, <2>1, <3>2 DEF Swept
    <3>4. hdr'[hdr[b].next].free = hdr[hdr[b].next].free
      BY <1>2, <3>2
    <3>5. QED
      BY <3>2, <3>3, <3>4
  <2>2. QED
    BY <1>1, <1>2, <2>1 DEF Swept, NULL
<1>9. BlocksAligned'
  BY <1>0, <1>2 DEF BlocksAligned
<1>10. QED
  BY <1>5, <1>6, <1>7, <1>8, <1>9 DEF HeapInv

\* Moving on from a pair that is not free on both sides.
LEMMA AdvanceKeepsIInv ==
  ASSUME HeapInv, MergeAdvance
  PROVE  HeapInv'
<1>0. HeapTypeOK /\ Tiling /\ OwnedKept /\ Swept /\ BlocksAligned
  BY DEF HeapInv
<1>f. \A b \in Blocks :
         /\ b \in Nat /\ hdr[b].size \in Nat
         /\ End(b) = b + 16 + hdr[b].size
         /\ End(b) <= HEAP_SIZE
         /\ \/ hdr[b].next = NULL /\ End(b) = HEAP_SIZE
            \/ hdr[b].next = End(b) /\ End(b) \in Blocks
  BY BlockFacts
<1>1. /\ cur \in Blocks /\ cur # NULL /\ ~ Joinable
      /\ cur' = hdr[cur].next /\ hdr' = hdr /\ owned' = owned
  BY <1>0 DEF MergeAdvance, HeapTypeOK
<1>2. cur' \in Blocks \cup {NULL}
  BY <1>1, BlockFacts
<1>3. HeapTypeOK' /\ Tiling' /\ OwnedKept' /\ BlocksAligned'
  BY <1>0, <1>1, <1>2 DEF HeapTypeOK, Tiling, OwnedKept, BlocksAligned, Blocks, End
<1>4. Swept'
  <2>1. ASSUME NEW b \in Blocks, hdr[b].next # NULL,
               hdr[cur].next = NULL \/ hdr[b].next <= hdr[cur].next
        PROVE  ~ (hdr[b].free /\ hdr[hdr[b].next].free)
    <3>1. CASE b = cur
      BY <1>1, <2>1, <3>1 DEF Joinable
    <3>2. CASE b # cur
      <4>1. b < cur
        <5>1. b > cur => End(cur) <= b
          BY <1>0, <1>1 DEF Tiling
        <5>2. /\ b \in Nat /\ hdr[b].size \in Nat
              /\ End(b) = b + 16 + hdr[b].size /\ End(b) <= HEAP_SIZE
              /\ hdr[b].next = End(b)
          BY <1>f, <2>1
        <5>3. /\ cur \in Nat /\ hdr[cur].size \in Nat
              /\ End(cur) = cur + 16 + hdr[cur].size
              /\ \/ hdr[cur].next = NULL /\ End(cur) = HEAP_SIZE
                 \/ hdr[cur].next = End(cur) /\ End(cur) \in Blocks
          BY <1>f, <1>1
        <5>4. End(cur) = HEAP_SIZE \/ End(b) <= End(cur)
          BY <2>1, <5>2, <5>3 DEF NULL
        <5>5. QED
          BY <3>2, <5>1, <5>2, <5>3, <5>4, HeapAssumption
      <4>2. hdr[b].next <= cur
        BY <1>0, <1>1, <2>1, <4>1, BlockFacts DEF Tiling
      <4>3. QED
        BY <1>0, <2>1, <4>2 DEF Swept
    <3>3. QED
      BY <3>1, <3>2
  <2>2. QED
    BY <1>1, <2>1 DEF Swept, Blocks, NULL
<1>5. QED
  BY <1>3, <1>4 DEF HeapInv

\* Every call and every iteration of the walk keeps the invariant.
LEMMA NextHeapInv == HeapInv /\ [HeapNext]_heap_vars => HeapInv'
<1> SUFFICES ASSUME HeapInv, [HeapNext]_heap_vars PROVE HeapInv'
  OBVIOUS
<1>1. ASSUME NEW request \in Requests, kmalloc(request)
      PROVE  HeapInv'
  <2> DEFINE size == Aligned(request)
             a    == FirstFit(size)
  <2>1. request \in Nat /\ size \in Nat /\ size >= request /\ size % 8 = 0
    BY AlignedUp, HeapAssumption
  <2>2. a \in Blocks /\ hdr[a].free /\ hdr[a].size >= size
    BY <1>1, <2>1, FirstFitFits DEF kmalloc, HeapInv, Fits
  <2>3. /\ cur = NULL /\ cur' = NULL
        /\ hdr' = IF Splits(a, size) THEN Split(a, size) ELSE Take(a)
        /\ owned' = [b \in DOMAIN owned \cup {a} |-> IF b = a THEN request ELSE owned[b]]
    BY <1>1 DEF kmalloc
  <2>4. hdr[a].size \in Nat
    BY <2>2, BlockFacts
  <2> HIDE DEF size, a
  <2>5. CASE Splits(a, size)
    BY <2>1, <2>2, <2>3, <2>5, SplitKeepsIInv DEF Splits
  <2>6. CASE ~ Splits(a, size)
    BY <2>1, <2>2, <2>3, <2>4, <2>6, TakeKeepsIInv
  <2>7. QED
    BY <2>5, <2>6
<1>2. ASSUME NEW a \in DOMAIN owned, kfree(a)
      PROVE  HeapInv'
  BY <1>2, FreeKeepsIInv
<1>3. CASE merge_free_blocks
  BY <1>3, JoinKeepsIInv, AdvanceKeepsIInv DEF merge_free_blocks
<1>4. CASE UNCHANGED heap_vars
  BY <1>4 DEF heap_vars, HeapInv, HeapTypeOK, Tiling, OwnedKept, Swept, BlocksAligned, Blocks, End
<1>5. QED
  BY <1>1, <1>2, <1>3, <1>4 DEF HeapNext

\* The invariant holds in every reachable state of the heap.
THEOREM HeapInvariance == HeapSpec => []HeapInv
<1>1. QED
  BY InitHeapInv, NextHeapInv, PTL DEF HeapSpec

-----------------------------------------------------------------------------
(* The properties of module Heap.                                           *)

\* The headers have their types and the walk is at a block of the list.
THEOREM HeapTypeCorrect == HeapSpec => []HeapTypeOK
<1>1. HeapInv => HeapTypeOK  BY DEF HeapInv
<1>2. QED  BY <1>1, HeapInvariance, PTL

\* The list tiles the heap (heap.c:43-44, 63-69).
THEOREM HeapIsTiled == HeapSpec => []Tiling
<1>1. HeapInv => Tiling  BY DEF HeapInv
<1>2. QED  BY <1>1, HeapInvariance, PTL

\* What a caller was given stays its own (heap.c:56-72).
THEOREM OwnedBlocksKept == HeapSpec => []OwnedKept
<1>1. HeapInv => OwnedKept  BY DEF HeapInv
<1>2. QED  BY <1>1, HeapInvariance, PTL

\* Between calls no two neighbours are free (heap.c:41-48).
THEOREM FreeBlocksCoalesced == HeapSpec => []Coalesced
<1>1. HeapInv => Coalesced  BY DEF HeapInv, Swept, Coalesced
<1>2. QED  BY <1>1, HeapInvariance, PTL

\* Every block begins at a multiple of 8 (heap.c:55).
THEOREM BlocksAreAligned == HeapSpec => []BlocksAligned
<1>1. HeapInv => BlocksAligned  BY DEF HeapInv
<1>2. QED  BY <1>1, HeapInvariance, PTL

\* When everything has been freed the heap is one free block again: the first
\* block cannot have a next one, which would be free as well.
THEOREM HeapWholeAgain == HeapSpec => []WholeAgain
<1>1. ASSUME HeapInv PROVE WholeAgain
  <2> SUFFICES ASSUME cur = NULL, DOMAIN owned = {}
               PROVE  Blocks = {0} /\ hdr[0].free
    BY DEF WholeAgain
  <2>1. 0 \in Blocks /\ \A a \in Blocks : hdr[a].free
    BY <1>1 DEF HeapInv, Tiling, OwnedKept
  <2>2. hdr[0].next = NULL \/ hdr[0].next \in Blocks
    BY <1>1, <2>1 DEF HeapInv, Tiling
  <2>3. hdr[0].next = NULL
    BY <1>1, <2>1, <2>2 DEF HeapInv, Swept
  <2>4. End(0) = HEAP_SIZE
    <3>1. \/ hdr[0].next = NULL /\ End(0) = HEAP_SIZE
          \/ hdr[0].next = End(0) /\ End(0) \in Nat
      BY <1>1, <2>1 DEF HeapInv, Tiling, HeapTypeOK
    <3>2. QED
      BY <2>3, <3>1 DEF NULL
  <2>5. ASSUME NEW b \in Blocks PROVE b = 0
    <3>1. b \in Nat /\ b < HEAP_SIZE
      BY <1>1, HeapAssumption DEF HeapInv, HeapTypeOK, HDR
    <3>2. 0 < b => End(0) <= b
      BY <1>1, <2>1 DEF HeapInv, Tiling
    <3>3. QED
      BY <2>4, <3>1, <3>2, HeapAssumption
  <2>6. QED
    BY <2>1, <2>5
<1>2. QED  BY <1>1, HeapInvariance, PTL

-----------------------------------------------------------------------------
(* The descriptor table.                                                    *)

FdEntry == [node : Nodes \cup {NO_NODE}, offset : 0..CAPACITY, open : BOOLEAN,
            is_pipe : BOOLEAN, pipe : Pipes \cup {NO_PIPE}, pipe_write_end : BOOLEAN]

FdTypeOK ==
    /\ fd_table \in [Fds -> FdEntry]
    /\ pipe_used \in [Pipes -> BOOLEAN]
    /\ count \in [Pipes -> 0..PIPE_BUF_SIZE]
    /\ length \in [Nodes -> 0..CAPACITY]

\* An entry whose flag says pipe points to a pipe that was handed out, used u,
\* whether it is open or not: fd_open does not clear the flag, so the entry of
\* a closed pipe is what the next file is read and written through.
PipeKept(e, u) == e.is_pipe => e.pipe \in Pipes /\ u[e.pipe]

\* An open entry that is no pipe has a node.
NodeKept(e) == e.open /\ ~ e.is_pipe => e.node \in Nodes

Sound(e, u) == PipeKept(e, u) /\ NodeKept(e)

\* The inductive invariant.
FdInv == FdTypeOK /\ \A fd \in Fds : Sound(fd_table[fd], pipe_used)

-----------------------------------------------------------------------------
(* The searches of fd.c and the bytes that a call moves.                    *)

\* The entry that fd_open and fd_open_pipe find is one of the table.
LEMMA FirstFreeIsFree ==
  ASSUME NEW t, HasFree(t)
  PROVE  FirstFree(t) \in Fds /\ ~ t[FirstFree(t)].open
<1> DEFINE S == {fd \in Fds : ~ t[fd].open}
<1>1. S \in SUBSET Nat /\ S # {}
  BY FileDescriptorsAssumption DEF HasFree, Fds
<1>2. \E x \in S : \A y \in S : x <= y
  BY <1>1, LeastNat
<1>3. QED
  BY <1>2, Zenon DEF FirstFree

\* The pipe that pipe_alloc finds is one of the pool.
LEMMA FreePipeIsFree ==
  ASSUME HasPipe
  PROVE  FreePipe \in Pipes /\ ~ pipe_used[FreePipe]
<1> DEFINE S == {p \in Pipes : ~ pipe_used[p]}
<1>1. S \in SUBSET Nat /\ S # {}
  BY FileDescriptorsAssumption DEF HasPipe, Pipes
<1>2. \E x \in S : \A y \in S : x <= y
  BY <1>1, LeastNat
<1>3. QED
  BY <1>2, Zenon DEF FreePipe

\* ramfs_read and ramfs_write never move an offset out of the file's buffer,
\* wherever in the buffer it is and however long the file is by then: the
\* unsigned capacity - offset of ramfs_write does not wrap.
LEMMA BytesFit ==
  ASSUME FdTypeOK, NEW n \in Nodes, NEW offset \in 0..CAPACITY, NEW size \in Nat
  PROVE  /\ offset + FileReads(n, offset, size) \in 0..CAPACITY
         /\ offset + FileWrites(n, offset, size) \in 0..CAPACITY
<1>1. length[n] \in 0..CAPACITY /\ CAPACITY \in Nat
  BY FileDescriptorsAssumption DEF FdTypeOK
<1>2. QED
  BY <1>1 DEF FileReads, FileWrites

\* A pipe's count stays within its buffer.
LEMMA PipeBytesFit ==
  ASSUME FdTypeOK, NEW p \in Pipes, NEW size \in Nat
  PROVE  /\ count[p] - pipe_read(p, size) \in 0..PIPE_BUF_SIZE
         /\ count[p] + pipe_write(p, size) \in 0..PIPE_BUF_SIZE
<1>1. count[p] \in 0..PIPE_BUF_SIZE /\ PIPE_BUF_SIZE \in Nat
  BY FileDescriptorsAssumption DEF FdTypeOK
<1>2. QED
  BY <1>1 DEF pipe_read, pipe_write, Least

\* Replacing one entry by a sound one keeps a table sound.
LEMMA EntryReplaced ==
  ASSUME NEW t \in [Fds -> FdEntry], NEW u, \A fd \in Fds : Sound(t[fd], u),
         NEW f \in Fds, NEW e \in FdEntry, Sound(e, u)
  PROVE  /\ [t EXCEPT ![f] = e] \in [Fds -> FdEntry]
         /\ \A fd \in Fds : Sound([t EXCEPT ![f] = e][fd], u)
<1> HIDE DEF Sound, FdEntry, Fds
<1> QED OBVIOUS

\* What fd_close leaves in the entry: the flag and the pipe stay.
LEMMA Closed ==
  ASSUME FdTypeOK, NEW fd \in Fds, Sound(fd_table[fd], pipe_used)
  PROVE  LET e == [fd_table[fd] EXCEPT !.open = FALSE, !.node = NO_NODE, !.offset = 0]
         IN  /\ fd_close(fd) = [fd_table EXCEPT ![fd] = e]
             /\ e \in FdEntry
             /\ Sound(e, pipe_used)
<1> DEFINE e == [fd_table[fd] EXCEPT !.open = FALSE, !.node = NO_NODE, !.offset = 0]
<1>1. fd_table[fd] \in FdEntry /\ 0 \in 0..CAPACITY
  BY FileDescriptorsAssumption DEF FdTypeOK
<1>2. e \in FdEntry
  BY <1>1 DEF FdEntry
<1>3. Sound(e, pipe_used)
  BY <1>1 DEF Sound, PipeKept, NodeKept, FdEntry
<1>4. fd_close(fd) = [fd_table EXCEPT ![fd] = e]
  BY DEF fd_close, FdTypeOK
<1>5. QED
  BY <1>2, <1>3, <1>4

\* fd_open_pipe keeps a table sound, with a free entry or without.
LEMMA PipeOpened ==
  ASSUME NEW t \in [Fds -> FdEntry], NEW u, \A fd \in Fds : Sound(t[fd], u),
         NEW p \in Pipes, u[p], NEW write_end \in BOOLEAN
  PROVE  /\ fd_open_pipe(t, p, write_end) \in [Fds -> FdEntry]
         /\ \A fd \in Fds : Sound(fd_open_pipe(t, p, write_end)[fd], u)
<1> DEFINE e == [node |-> NO_NODE, offset |-> 0, open |-> TRUE,
                 is_pipe |-> TRUE, pipe |-> p, pipe_write_end |-> write_end]
<1>1. CASE ~ HasFree(t)
  BY <1>1, Zenon DEF fd_open_pipe
<1>2. CASE HasFree(t)
  <2>1. FirstFree(t) \in Fds
    BY <1>2, FirstFreeIsFree
  <2>2. e \in FdEntry
    BY FileDescriptorsAssumption DEF FdEntry
  <2>3. Sound(e, u)
    BY DEF Sound, PipeKept, NodeKept
  <2>4. fd_open_pipe(t, p, write_end) = [t EXCEPT ![FirstFree(t)] = e]
    BY <1>2 DEF fd_open_pipe
  <2>5. QED
    <3> HIDE DEF e
    <3> QED BY <2>1, <2>2, <2>3, <2>4, EntryReplaced
<1>3. QED
  BY <1>1, <1>2

-----------------------------------------------------------------------------
(* The steps.                                                               *)

\* fd_init leaves the table, the pipes and the files as the invariant says.
LEMMA InitFdInv == FdInit => FdInv
<1> SUFFICES ASSUME FdInit PROVE FdInv
  OBVIOUS
<1>1. FdTypeOK
  BY FileDescriptorsAssumption DEF FdInit, FdTypeOK, FdEntry
<1>2. ASSUME NEW fd \in Fds PROVE Sound(fd_table[fd], pipe_used)
  BY DEF FdInit, Sound, PipeKept, NodeKept
<1>3. QED
  BY <1>1, <1>2 DEF FdInv

\* A step that leaves the table or replaces one entry by a sound one, and
\* hands out no pipe.
LEMMA OneEntry ==
  ASSUME FdInv, NEW f \in Fds, NEW e \in FdEntry, Sound(e, pipe_used),
         fd_table' = [fd_table EXCEPT ![f] = e], UNCHANGED pipe_used,
         count' \in [Pipes -> 0..PIPE_BUF_SIZE], length' \in [Nodes -> 0..CAPACITY]
  PROVE  FdInv'
<1>1. /\ fd_table' \in [Fds -> FdEntry]
      /\ \A fd \in Fds : Sound(fd_table'[fd], pipe_used)
  BY EntryReplaced DEF FdInv, FdTypeOK
<1>2. pipe_used' \in [Pipes -> BOOLEAN] /\ pipe_used' = pipe_used
  BY DEF FdInv, FdTypeOK
<1>3. QED
  BY <1>1, <1>2 DEF FdInv, FdTypeOK

\* A call that leaves the table alone keeps the invariant.
LEMMA TableKept ==
  ASSUME FdInv, UNCHANGED <<fd_table, pipe_used>>,
         count' \in [Pipes -> 0..PIPE_BUF_SIZE], length' \in [Nodes -> 0..CAPACITY]
  PROVE  FdInv'
BY DEF FdInv, FdTypeOK

\* sys_open keeps the invariant.
LEMMA OpenStep ==
  ASSUME FdInv, NEW n \in Nodes, sys_open(n)
  PROVE  FdInv'
<1> DEFINE f == FirstFree(fd_table)
           e == [fd_table[f] EXCEPT !.node = n, !.offset = 0, !.open = TRUE]
<1>1. f \in Fds
  BY FirstFreeIsFree DEF sys_open
<1>2. fd_table[f] \in FdEntry /\ Sound(fd_table[f], pipe_used)
  BY <1>1 DEF FdInv, FdTypeOK
<1>3. e \in FdEntry
  <2>1. 0 \in 0..CAPACITY
    BY FileDescriptorsAssumption
  <2> HIDE DEF f
  <2> QED BY <1>2, <2>1 DEF FdEntry
<1>4. Sound(e, pipe_used)
  BY <1>2 DEF Sound, PipeKept, NodeKept, FdEntry
<1>5. fd_table' = [fd_table EXCEPT ![f] = e]
  BY <1>1 DEF sys_open, Opened, FdInv, FdTypeOK
<1>6. QED
  <2>1. UNCHANGED pipe_used /\ count' \in [Pipes -> 0..PIPE_BUF_SIZE] /\ length' \in [Nodes -> 0..CAPACITY]
    BY DEF sys_open, FdInv, FdTypeOK
  <2> HIDE DEF e, f
  <2> QED BY <1>1, <1>3, <1>4, <1>5, <2>1, OneEntry

\* sys_close keeps the invariant.
LEMMA CloseStep ==
  ASSUME FdInv, NEW fd \in Fds, sys_close(fd)
  PROVE  FdInv'
<1> DEFINE e == [fd_table[fd] EXCEPT !.open = FALSE, !.node = NO_NODE, !.offset = 0]
<1>1. FdTypeOK /\ Sound(fd_table[fd], pipe_used)
  BY DEF FdInv
<1>2. /\ fd_close(fd) = [fd_table EXCEPT ![fd] = e]
      /\ e \in FdEntry
      /\ Sound(e, pipe_used)
  BY <1>1, Closed
<1>3. /\ fd_table' = fd_close(fd) /\ UNCHANGED pipe_used
      /\ count' \in [Pipes -> 0..PIPE_BUF_SIZE] /\ length' \in [Nodes -> 0..CAPACITY]
  BY <1>1 DEF sys_close, FdTypeOK
<1>4. QED
  <2> HIDE DEF e
  <2> QED BY <1>2, <1>3, OneEntry

\* sys_pipe keeps the invariant.
LEMMA PipeStep ==
  ASSUME FdInv, sys_pipe
  PROVE  FdInv'
<1> DEFINE p == FreePipe
           t == fd_open_pipe(fd_table, p, FALSE)
<1>1. p \in Pipes
  BY FreePipeIsFree DEF sys_pipe
<1>2. /\ pipe_used' \in [Pipes -> BOOLEAN] /\ pipe_used'[p]
      /\ \A q \in Pipes : pipe_used[q] => pipe_used'[q]
  BY <1>1 DEF sys_pipe, FdInv, FdTypeOK
<1>3. fd_table \in [Fds -> FdEntry] /\ \A fd \in Fds : Sound(fd_table[fd], pipe_used')
  BY <1>2 DEF FdInv, FdTypeOK, Sound, PipeKept
<1>4. /\ t \in [Fds -> FdEntry]
      /\ \A fd \in Fds : Sound(t[fd], pipe_used')
  <2> HIDE DEF p
  <2> QED BY <1>1, <1>2, <1>3, PipeOpened
<1>5. /\ fd_open_pipe(t, p, TRUE) \in [Fds -> FdEntry]
      /\ \A fd \in Fds : Sound(fd_open_pipe(t, p, TRUE)[fd], pipe_used')
  <2> HIDE DEF p, t
  <2> QED BY <1>1, <1>2, <1>4, PipeOpened
<1>6. fd_table' = fd_open_pipe(t, p, TRUE)
  BY DEF sys_pipe
<1>7. count' \in [Pipes -> 0..PIPE_BUF_SIZE] /\ length' \in [Nodes -> 0..CAPACITY]
  BY <1>1, FileDescriptorsAssumption DEF sys_pipe, FdInv, FdTypeOK
<1>8. QED
  <2> HIDE DEF p, t
  <2> QED BY <1>2, <1>5, <1>6, <1>7 DEF FdInv, FdTypeOK

\* dup2 copies the entry of oldfd; when newfd is oldfd it closes it instead.
LEMMA Dup2Step ==
  ASSUME FdInv, NEW oldfd \in Fds, NEW newfd \in Fds, sys_dup2(oldfd, newfd)
  PROVE  FdInv'
<1> DEFINE t == IF fd_table[newfd].open THEN fd_close(newfd) ELSE fd_table
           c == [fd_table[newfd] EXCEPT !.open = FALSE, !.node = NO_NODE, !.offset = 0]
<1>1. FdTypeOK /\ \A fd \in Fds : Sound(fd_table[fd], pipe_used)
  BY DEF FdInv
<1>2. /\ fd_close(newfd) = [fd_table EXCEPT ![newfd] = c]
      /\ c \in FdEntry /\ Sound(c, pipe_used)
  BY <1>1, Closed
<1>3. t \in [Fds -> FdEntry] /\ \A fd \in Fds : Sound(t[fd], pipe_used)
  <2>1. fd_table \in [Fds -> FdEntry]
    BY <1>1 DEF FdTypeOK
  <2>2. /\ fd_close(newfd) \in [Fds -> FdEntry]
        /\ \A fd \in Fds : Sound(fd_close(newfd)[fd], pipe_used)
    <3> HIDE DEF c
    <3> QED BY <1>1, <1>2, <2>1, EntryReplaced
  <2>3. QED
    BY <1>1, <2>1, <2>2
<1>4. fd_table' = [t EXCEPT ![newfd] = t[oldfd]]
  BY DEF sys_dup2, fd_dup2
<1>5. t[oldfd] \in FdEntry /\ Sound(t[oldfd], pipe_used)
  BY <1>3
<1>6. fd_table' \in [Fds -> FdEntry] /\ \A fd \in Fds : Sound(fd_table'[fd], pipe_used)
  <2> HIDE DEF t
  <2> QED BY <1>3, <1>4, <1>5, EntryReplaced
<1>7. QED
  BY <1>6 DEF sys_dup2, FdInv, FdTypeOK

\* sys_read keeps the invariant: the offset moves by what was read.
LEMMA ReadStep ==
  ASSUME FdInv, NEW fd \in Fds, NEW size \in Sizes, sys_read(fd, size)
  PROVE  FdInv'
<1> DEFINE e == fd_table[fd]
           n == FileReads(e.node, e.offset, size)
           f == [e EXCEPT !.offset = @ + n]
<1>1. FdTypeOK /\ e \in FdEntry /\ Sound(e, pipe_used) /\ e.open /\ size \in Nat
  BY FileDescriptorsAssumption DEF FdInv, FdTypeOK, sys_read, IsOpen
<1>2. CASE e.is_pipe
  <2>1. e.pipe \in Pipes
    BY <1>1, <1>2 DEF Sound, PipeKept
  <2>2. count[e.pipe] - pipe_read(e.pipe, size) \in 0..PIPE_BUF_SIZE
    BY <1>1, <2>1, PipeBytesFit
  <2>3. count' = [count EXCEPT ![e.pipe] = count[e.pipe] - pipe_read(e.pipe, size)]
    BY <1>2, <2>1 DEF sys_read
  <2>4. count' \in [Pipes -> 0..PIPE_BUF_SIZE]
    <3> HIDE DEF e
    <3> QED BY <1>1, <2>2, <2>3 DEF FdTypeOK
  <2>5. UNCHANGED <<fd_table, pipe_used>> /\ length' \in [Nodes -> 0..CAPACITY]
    BY <1>1, <1>2 DEF sys_read, FdTypeOK
  <2>6. QED
    BY <2>4, <2>5, TableKept
<1>3. CASE ~ e.is_pipe
  <2>1. e.node \in Nodes /\ e.offset \in 0..CAPACITY
    BY <1>1, <1>3 DEF Sound, NodeKept, FdEntry
  <2>2. e.offset + n \in 0..CAPACITY
    <3> HIDE DEF e
    <3> QED BY <1>1, <2>1, BytesFit
  <2>3. f \in FdEntry /\ Sound(f, pipe_used)
    <3> HIDE DEF n
    <3> QED BY <1>1, <2>2 DEF FdEntry, Sound, PipeKept, NodeKept
  <2>4. fd_table' = [fd_table EXCEPT ![fd] = f]
    BY <1>1, <1>3 DEF sys_read, FdTypeOK
  <2>5. UNCHANGED pipe_used /\ count' \in [Pipes -> 0..PIPE_BUF_SIZE] /\ length' \in [Nodes -> 0..CAPACITY]
    BY <1>1, <1>3 DEF sys_read, FdTypeOK
  <2>6. QED
    <3> HIDE DEF f
    <3> QED BY <2>3, <2>4, <2>5, OneEntry
<1>4. QED
  BY <1>2, <1>3

\* sys_write keeps the invariant: the file grows before the offset moves.
LEMMA WriteStep ==
  ASSUME FdInv, NEW fd \in Fds, NEW size \in Sizes, fd_write(fd, size)
  PROVE  FdInv'
<1> DEFINE e == fd_table[fd]
           n == FileWrites(e.node, e.offset, size)
           f == [e EXCEPT !.offset = @ + n]
<1>1. FdTypeOK /\ e \in FdEntry /\ Sound(e, pipe_used) /\ e.open /\ size \in Nat
  BY FileDescriptorsAssumption DEF FdInv, FdTypeOK, fd_write, IsOpen
<1>2. CASE e.is_pipe
  <2>1. e.pipe \in Pipes
    BY <1>1, <1>2 DEF Sound, PipeKept
  <2>2. count[e.pipe] + pipe_write(e.pipe, size) \in 0..PIPE_BUF_SIZE
    BY <1>1, <2>1, PipeBytesFit
  <2>3. count' = [count EXCEPT ![e.pipe] = count[e.pipe] + pipe_write(e.pipe, size)]
    BY <1>2, <2>1 DEF fd_write
  <2>4. count' \in [Pipes -> 0..PIPE_BUF_SIZE]
    <3> HIDE DEF e
    <3> QED BY <1>1, <2>2, <2>3 DEF FdTypeOK
  <2>5. UNCHANGED <<fd_table, pipe_used>> /\ length' \in [Nodes -> 0..CAPACITY]
    BY <1>1, <1>2 DEF fd_write, FdTypeOK
  <2>6. QED
    BY <2>4, <2>5, TableKept
<1>3. CASE ~ e.is_pipe
  <2>1. e.node \in Nodes /\ e.offset \in 0..CAPACITY
    BY <1>1, <1>3 DEF Sound, NodeKept, FdEntry
  <2>2. e.offset + n \in 0..CAPACITY
    <3> HIDE DEF e
    <3> QED BY <1>1, <2>1, BytesFit
  <2>3. f \in FdEntry /\ Sound(f, pipe_used)
    <3> HIDE DEF n
    <3> QED BY <1>1, <2>2 DEF FdEntry, Sound, PipeKept, NodeKept
  <2>4. /\ fd_table' = [fd_table EXCEPT ![fd] = f]
        /\ length' = [length EXCEPT ![e.node] = IF e.offset + n > length[e.node] THEN e.offset + n ELSE length[e.node]]
    BY <1>1, <1>3 DEF fd_write, FdTypeOK
  <2>5. length' \in [Nodes -> 0..CAPACITY]
    <3> HIDE DEF e, n
    <3> QED BY <1>1, <2>2, <2>4 DEF FdTypeOK
  <2>6. UNCHANGED pipe_used /\ count' \in [Pipes -> 0..PIPE_BUF_SIZE]
    BY <1>1, <1>3 DEF fd_write, FdTypeOK
  <2>7. QED
    <3> HIDE DEF f
    <3> QED BY <2>3, <2>4, <2>5, <2>6, OneEntry
<1>4. QED
  BY <1>2, <1>3

\* Truncating and rewriting an open file changes no entry: an offset may come
\* to lie behind the end of the file, not behind its buffer.
LEMMA RewrittenStep ==
  ASSUME FdInv, NEW n \in Nodes, Rewritten(n)
  PROVE  FdInv'
<1>1. length' \in [Nodes -> 0..CAPACITY] /\ count' \in [Pipes -> 0..PIPE_BUF_SIZE]
  BY DEF Rewritten, FdInv, FdTypeOK
<1>2. QED
  BY <1>1, TableKept DEF Rewritten

\* Every call keeps the invariant.
LEMMA NextFdInv == FdInv /\ [FdNext]_fd_vars => FdInv'
<1> SUFFICES ASSUME FdInv, [FdNext]_fd_vars PROVE FdInv'
  OBVIOUS
<1>1. CASE \E n \in Nodes : sys_open(n)
  BY <1>1, OpenStep
<1>2. CASE \E n \in Nodes \ Dirs : Rewritten(n)
  BY <1>2, RewrittenStep
<1>3. CASE \E fd \in Fds : sys_close(fd)
  BY <1>3, CloseStep
<1>4. CASE sys_pipe
  BY <1>4, PipeStep
<1>5. CASE \E oldfd, newfd \in Fds : sys_dup2(oldfd, newfd)
  BY <1>5, Dup2Step
<1>6. CASE \E fd \in Fds, size \in Sizes : sys_read(fd, size)
  BY <1>6, ReadStep
<1>7. CASE \E fd \in Fds, size \in Sizes : sys_write(fd, size)
  <2>1. PICK fd \in Fds, size \in Sizes : sys_write(fd, size)
    BY <1>7
  <2>2. CASE UNCHANGED fd_vars
    BY <2>2, TableKept DEF fd_vars, FdInv, FdTypeOK
  <2>3. CASE fd_write(fd, size)
    BY <2>3, WriteStep
  <2>4. QED
    BY <2>1, <2>2, <2>3 DEF sys_write
<1>8. CASE UNCHANGED fd_vars
  BY <1>8, TableKept DEF fd_vars, FdInv, FdTypeOK
<1>9. QED
  BY <1>1, <1>2, <1>3, <1>4, <1>5, <1>6, <1>7, <1>8 DEF FdNext

-----------------------------------------------------------------------------

\* The invariant holds after every sequence of system calls, for every size of
\* the table, of the pipes and of the files.
THEOREM FdInvariance == FdSpec => []FdInv
<1>1. QED
  BY InitFdInv, NextFdInv, PTL DEF FdSpec

\* Every call keeps the types of the table, the pools and the files: a pipe
\* never holds more than its buffer, a file is never longer than its capacity
\* (fd.c, pipe.c, ramfs.c).
THEOREM FdTypeCorrect == FdSpec => []FdTypeOK
<1>1. FdInv => FdTypeOK
  BY DEF FdInv
<1>2. QED
  BY <1>1, FdInvariance, PTL

\* capacity - offset in ramfs_write never wraps, for any sizes and any order
\* of reads, writes, truncations and reuse of entries (fd.c:93, ramfs.c:43-44).
THEOREM OffsetsStayInFile == FdSpec => []OffsetsInFile
<1>1. FdInv => OffsetsInFile
  <2> SUFFICES ASSUME FdInv, NEW fd \in Fds PROVE fd_table[fd].offset <= CAPACITY
    BY DEF OffsetsInFile
  <2>1. fd_table[fd] \in FdEntry
    BY DEF FdInv, FdTypeOK
  <2>2. QED
    BY <2>1, FileDescriptorsAssumption DEF FdEntry
<1>2. QED
  BY <1>1, FdInvariance, PTL

\* What fd_read and fd_write follow in an open entry is there, through every
\* order of open, close, pipe and dup2 (fd.c:86-105), although fd_close and
\* fd_open leave the fields of an earlier pipe.
THEOREM EntriesStayUsable == FdSpec => []EntriesUsable
<1>1. FdInv => EntriesUsable
  <2> SUFFICES ASSUME FdInv, NEW fd \in Fds, fd_table[fd].open
               PROVE  IF fd_table[fd].is_pipe
                        THEN fd_table[fd].pipe # NO_PIPE /\ pipe_used[fd_table[fd].pipe]
                        ELSE fd_table[fd].node # NO_NODE
    BY DEF EntriesUsable
  <2>1. Sound(fd_table[fd], pipe_used)
    BY DEF FdInv
  <2>2. NO_PIPE \notin Pipes
    BY FileDescriptorsAssumption DEF NO_PIPE, Pipes
  <2>3. QED
    BY <2>1, <2>2, FileDescriptorsAssumption DEF Sound, PipeKept, NodeKept
<1>2. QED
  BY <1>1, FdInvariance, PTL

-----------------------------------------------------------------------------
(* The process table.                                                       *)

\* The state of the pid counter that makes uniqueness inductive: the pids in
\* use and the current one are positive and below next_pid, and a free slot has
\* pid 0.
PidsAssigned ==
    /\ next_pid > 1
    /\ current_pid > 0 /\ current_pid < next_pid
    /\ \A i \in Slots :
          IF proc_table[i].state = "UNUSED"
            THEN proc_table[i].pid = 0
            ELSE 0 < proc_table[i].pid /\ proc_table[i].pid < next_pid

ProcInv == ProcTypeOK /\ PidsAssigned /\ PidsUnique /\ RunningIsCurrent

-----------------------------------------------------------------------------
(* What the searches of process.c and sched.c return.                       *)

\* The slot proc_create and proc_fork take is a slot of the table and free.
LEMMA FreeSlotIsFree ==
  ASSUME HasSlot
  PROVE  FreeSlot \in Slots /\ proc_table[FreeSlot].state = "UNUSED"
<1> DEFINE S == {i \in Slots : proc_table[i].state = "UNUSED"}
<1>1. S \in SUBSET Nat /\ S # {}
  BY ProcessesAssumption DEF HasSlot, Slots
<1>2. \E x \in S : \A y \in S : x <= y
  BY <1>1, LeastNat
<1>3. QED
  BY <1>2, Zenon DEF FreeSlot

\* proc_current is NULL when no slot has the current pid, else a slot with it.
LEMMA CurrentHasPid ==
  /\ proc_current \in Slots \cup {NO_PROC}
  /\ proc_current \in Slots => proc_table[proc_current].pid = current_pid
  /\ proc_current = NO_PROC => \A i \in Slots : proc_table[i].pid # current_pid
<1> DEFINE S == {i \in Slots : proc_table[i].pid = current_pid}
<1>0. NO_PROC \notin Slots
  BY ProcessesAssumption DEF NO_PROC, Slots
<1>1. CASE S = {}
  BY <1>0, <1>1, Zenon DEF proc_current
<1>2. CASE S # {}
  <2>1. S \in SUBSET Nat
    BY ProcessesAssumption DEF Slots
  <2>2. \E x \in S : \A y \in S : x <= y
    BY <1>2, <2>1, LeastNat
  <2>3. /\ proc_current \in Slots
        /\ proc_table[proc_current].pid = current_pid
    BY <2>2, Zenon DEF proc_current
  <2>4. QED
    BY <1>0, <2>3, Zenon
<1>3. QED
  BY <1>1, <1>2

\* pick_next returns a READY slot of the table or the process it was given.
LEMMA PickedIsReady ==
  ASSUME NEW from \in Slots \cup {NO_PROC}
  PROVE  \/ pick_next(from) \in Slots /\ proc_table[pick_next(from)].state = "READY"
         \/ pick_next(from) = from
<1> DEFINE S == {i \in Slots : Ready(i)}
           f == [i \in S |-> Distance(from, i)]
<1>1. CASE S = {}
  BY <1>1, Zenon DEF pick_next
<1>2. CASE S # {}
  <2>1. ASSUME NEW i \in Slots PROVE Distance(from, i) \in Nat
    BY ProcessesAssumption DEF Distance, Slots, NO_PROC
  <2>2. f \in [S -> Nat]
    BY <2>1
  <2>3. \E x \in S : \A y \in S : f[x] <= f[y]
    BY <1>2, <2>2, LeastImage
  <2>4. \E x \in S : \A y \in S : Distance(from, x) <= Distance(from, y)
    BY <2>3
  <2>5. pick_next(from) \in Slots /\ Ready(pick_next(from))
    BY <2>4, Zenon DEF pick_next
  <2>6. QED
    BY <2>5 DEF Ready
<1>3. QED
  BY <1>1, <1>2

\* The slot proc_wait reaps is one it has found to be a zombie.
LEMMA ReapedIsZombie ==
  ASSUME NEW pid, Reapable(pid) # {}
  PROVE  FirstReapable(pid) \in Slots /\ proc_table[FirstReapable(pid)].state = "ZOMBIE"
<1>1. Reapable(pid) \in SUBSET Nat
  BY ProcessesAssumption DEF Reapable, Slots
<1>2. \E x \in Reapable(pid) : \A y \in Reapable(pid) : x <= y
  BY <1>1, LeastNat
<1>3. FirstReapable(pid) \in Reapable(pid)
  BY <1>2, Zenon DEF FirstReapable
<1>4. QED
  BY <1>3, Zenon DEF Reapable

-----------------------------------------------------------------------------
(* The inductive invariant.                                                 *)

\* The boot state has it: the shell with pid 1 RUNNING and current, the
\* spawned processes READY with pids 2, 3, ...
LEMMA InitProcInv == ProcInit => ProcInv
<1> SUFFICES ASSUME ProcInit PROVE ProcInv
  OBVIOUS
<1> USE ProcessesAssumption DEF ProcInit, Slots
<1>1. ProcTypeOK
  BY DEF ProcTypeOK, Process, Context, Pcs, Status, Created, Zeroed, At, BOOT_STACK
<1>2. PidsAssigned
  BY DEF PidsAssigned, Created, Zeroed
<1>3. PidsUnique
  BY DEF PidsUnique, Created, Zeroed
<1>4. RunningIsCurrent
  BY DEF RunningIsCurrent, Created, Zeroed
<1>5. QED
  BY <1>1, <1>2, <1>3, <1>4 DEF ProcInv

\* Clearing a slot, whatever is in it, keeps the invariant: no process gains a
\* pid or the CPU.
LEMMA ZeroingKeepsIInv ==
  ASSUME ProcInv, NEW s,
         proc_table' = [proc_table EXCEPT ![s] = Zeroed],
         UNCHANGED <<next_pid, current_pid, tick_counter>>,
         cpu' \in Context
  PROVE  ProcInv'
<1>0. Zeroed \in Process
  BY DEF Zeroed, Process, Context, Pcs, Status, At
<1>1. ProcTypeOK'
  BY <1>0 DEF ProcInv, ProcTypeOK
<1> USE DEF ProcInv, Zeroed
<1>2. PidsAssigned'
  BY DEF ProcTypeOK, PidsAssigned
<1>3. PidsUnique'
  BY DEF ProcTypeOK, PidsAssigned, PidsUnique
<1>4. RunningIsCurrent'
  BY DEF ProcTypeOK, RunningIsCurrent
<1>5. QED
  BY <1>1, <1>2, <1>3, <1>4

\* Filling a free slot with a READY process that carries the next pid keeps
\* the invariant: proc_create and proc_fork.
LEMMA CreatingKeepsIInv ==
  ASSUME ProcInv, NEW s \in Slots, NEW p \in Process,
         proc_table[s].state = "UNUSED",
         p.state = "READY", p.pid = next_pid,
         proc_table' = [proc_table EXCEPT ![s] = p],
         next_pid' = next_pid + 1,
         UNCHANGED <<current_pid, tick_counter>>,
         cpu' \in Context
  PROVE  ProcInv'
<1> USE DEF ProcInv
<1>1. ProcTypeOK'
  BY DEF ProcTypeOK
<1>2. PidsAssigned'
  BY DEF ProcTypeOK, PidsAssigned, Process
<1>3. PidsUnique'
  BY DEF ProcTypeOK, PidsAssigned, PidsUnique, Process
<1>4. RunningIsCurrent'
  BY DEF ProcTypeOK, RunningIsCurrent, Process
<1>5. QED
  BY <1>1, <1>2, <1>3, <1>4

\* At most one slot is RUNNING, the one proc_current finds.
LEMMA RunningSlot ==
  ASSUME ProcInv, NEW i \in Slots, proc_table[i].state = "RUNNING"
  PROVE  i = proc_current
<1>1. proc_table[i].pid = current_pid
  BY DEF ProcInv, RunningIsCurrent
<1>2. proc_current \in Slots /\ proc_table[proc_current].pid = current_pid
  BY <1>1, CurrentHasPid
<1>3. QED
  BY <1>1, <1>2 DEF ProcInv, PidsUnique

\* Every step of the scheduler and of the system calls keeps the invariant.
LEMMA NextProcInv == ProcInv /\ [ProcNext]_proc_vars => ProcInv'
<1> SUFFICES ASSUME ProcInv, [ProcNext]_proc_vars PROVE ProcInv'
  OBVIOUS
<1> USE ProcessesAssumption
<1>0. ProcTypeOK
  BY DEF ProcInv
<1>r. Returned \in Context
  BY <1>0 DEF ProcTypeOK, Returned, Context, Pcs, At
<1>1. CASE CountTick
  <2>1. ProcTypeOK'
    BY <1>0, <1>1 DEF ProcTypeOK, CountTick
  <2>2. QED
    BY <1>1, <2>1 DEF CountTick, ProcInv, PidsAssigned, PidsUnique, RunningIsCurrent
<1>2. CASE EndQuantum
  <2> DEFINE from  == proc_current
             next == pick_next(proc_current)
  <2>1. tick_counter' \in 0..(SCHED_TICKS - 1) /\ next_pid' = next_pid
    BY <1>2 DEF EndQuantum
  <2>2. CASE next \in {NO_PROC, from}
    <3>1. UNCHANGED <<proc_table, current_pid, cpu>>
      BY <1>2, <2>2 DEF EndQuantum, Switch
    <3>2. QED
      BY <2>1, <3>1 DEF ProcInv, ProcTypeOK, PidsAssigned, PidsUnique, RunningIsCurrent
  <2>3. CASE next \notin {NO_PROC, from}
    <3>1. next \in Slots /\ proc_table[next].state = "READY"
      BY <2>3, CurrentHasPid, PickedIsReady
    <3>2. /\ current_pid' = proc_table[next].pid
          /\ cpu' = [proc_table[next].ctx EXCEPT !.esp = cpu.esp]
          /\ proc_table' = [i \in Slots |->
                CASE i = next -> [proc_table[i] EXCEPT !.state = "RUNNING"]
                  [] i = from /\ i # next /\ proc_table[i].state = "RUNNING" ->
                       [proc_table[i] EXCEPT !.state = "READY", !.ctx = cpu]
                  [] OTHER -> proc_table[i]]
      BY <1>2, <2>3 DEF EndQuantum, Switch
    <3> HIDE DEF from, next
    <3>3. ASSUME NEW i \in Slots
          PROVE  /\ proc_table'[i].pid = proc_table[i].pid
                 /\ proc_table'[i] \in Process
                 /\ (proc_table'[i].state = "UNUSED") <=> (proc_table[i].state = "UNUSED")
                 /\ proc_table'[i].state = "RUNNING" =>
                       i = next \/ (proc_table[i].state = "RUNNING" /\ i # from)
      <4>1. proc_table[i] \in Process /\ cpu \in Context
        BY <1>0 DEF ProcTypeOK
      <4>2. CASE i = next
        BY <3>1, <3>2, <4>1, <4>2 DEF Process, Status
      <4>3. CASE i # next /\ i = from /\ proc_table[i].state = "RUNNING"
        BY <3>2, <4>1, <4>3 DEF Process, Status
      <4>4. CASE i # next /\ ~ (i = from /\ proc_table[i].state = "RUNNING")
        BY <3>2, <4>1, <4>4
      <4>5. QED
        BY <4>2, <4>3, <4>4
    <3>4. ProcTypeOK'
      <4>1. proc_table' \in [Slots -> Process]
        BY <3>2, <3>3
      <4>2. cpu' \in Context
        BY <1>0, <3>1, <3>2 DEF ProcTypeOK, Process, Context
      <4>3. current_pid' \in Nat
        BY <1>0, <3>1, <3>2 DEF ProcTypeOK, Process
      <4>4. QED
        BY <1>0, <2>1, <4>1, <4>2, <4>3 DEF ProcTypeOK
    <3>5. PidsAssigned'
      BY <2>1, <3>1, <3>2, <3>3 DEF ProcInv, PidsAssigned
    <3>6. PidsUnique'
      BY <3>3 DEF ProcInv, PidsUnique
    <3>7. RunningIsCurrent'
      <4>1. ASSUME NEW i \in Slots, proc_table'[i].state = "RUNNING"
            PROVE  i = next
        BY <3>3, <4>1, RunningSlot DEF from
      <4>2. QED
        BY <3>1, <3>2, <3>3, <4>1 DEF RunningIsCurrent
    <3>8. QED
      BY <3>4, <3>5, <3>6, <3>7 DEF ProcInv
  <2>4. QED
    BY <2>2, <2>3
<1>3. CASE sys_exit
  <2>1. cpu' = Returned /\ UNCHANGED <<next_pid, tick_counter>> /\ current_pid' = 1
    BY <1>3 DEF sys_exit
  <2>2. CASE proc_current = NO_PROC
    <3>1. \A i \in Slots : proc_table[i].state # "RUNNING"
      BY <2>2, CurrentHasPid DEF ProcInv, RunningIsCurrent
    <3>2. proc_table' = proc_table
      BY <1>3, <2>2 DEF sys_exit
    <3>3. QED
      BY <1>r, <2>1, <3>1, <3>2 DEF ProcInv, ProcTypeOK, PidsAssigned, PidsUnique, RunningIsCurrent
  <2>3. CASE proc_current # NO_PROC
    <3> DEFINE from == proc_current
    <3>1. /\ from \in Slots
          /\ proc_table[from].pid = current_pid
          /\ proc_table' = [proc_table EXCEPT ![from].state = "ZOMBIE"]
      BY <1>3, <2>3, CurrentHasPid DEF sys_exit
    <3>2. \A i \in Slots : proc_table[i].state = "RUNNING" => i = from
      BY RunningSlot
    <3> HIDE DEF from
    <3>3. ProcTypeOK'
      BY <1>0, <1>r, <2>1, <3>1 DEF ProcTypeOK, Process, Status
    <3>4. PidsAssigned'
      BY <1>0, <2>1, <3>1 DEF ProcInv, ProcTypeOK, Process, PidsAssigned
    <3>5. PidsUnique'
      BY <1>0, <3>1 DEF ProcInv, ProcTypeOK, Process, PidsUnique, PidsAssigned
    <3>6. RunningIsCurrent'
      BY <1>0, <3>1, <3>2 DEF ProcTypeOK, Process, RunningIsCurrent
    <3>7. QED
      BY <3>3, <3>4, <3>5, <3>6 DEF ProcInv
  <2>4. QED
    BY <2>2, <2>3
<1>4. CASE sys_fork
  <2>1. cpu' = Returned /\ UNCHANGED <<current_pid, tick_counter>>
    BY <1>4 DEF sys_fork
  <2>2. CASE proc_table' = proc_table /\ next_pid' = next_pid
    BY <1>r, <2>1, <2>2 DEF ProcInv, ProcTypeOK, PidsAssigned, PidsUnique, RunningIsCurrent
  <2>3. CASE /\ proc_current # NO_PROC /\ HasSlot
             /\ proc_table' = [proc_table EXCEPT ![FreeSlot] = Forked]
             /\ next_pid' = next_pid + 1
    <3>1. proc_table[proc_current] \in Process /\ next_pid \in Nat
      BY <1>0, <2>3, CurrentHasPid DEF ProcTypeOK
    <3>2. /\ Forked \in Process
          /\ Forked.state = "READY"
          /\ Forked.pid = next_pid
      BY <3>1 DEF Forked, Process, Context, Status, WILD, At
    <3>3. QED
      BY <1>r, <2>1, <2>3, <3>2, FreeSlotIsFree, CreatingKeepsIInv
  <2>4. QED
    BY <1>4, <2>2, <2>3 DEF sys_fork
<1>5. CASE sys_exec
  <2>1. cpu' = Returned /\ UNCHANGED <<current_pid, tick_counter>>
    BY <1>5 DEF sys_exec
  <2>2. CASE proc_table' = proc_table /\ next_pid' = next_pid
    BY <1>r, <2>1, <2>2 DEF ProcInv, ProcTypeOK, PidsAssigned, PidsUnique, RunningIsCurrent
  <2>3. CASE /\ HasSlot
             /\ proc_table' = [proc_table EXCEPT
                    ![FreeSlot] = Created(FreeSlot, next_pid, current_pid)]
             /\ next_pid' = next_pid + 1
    <3>1. FreeSlot \in Slots /\ proc_table[FreeSlot].state = "UNUSED"
      BY <2>3, FreeSlotIsFree
    <3>2. /\ Created(FreeSlot, next_pid, current_pid) \in Process
          /\ Created(FreeSlot, next_pid, current_pid).state = "READY"
          /\ Created(FreeSlot, next_pid, current_pid).pid = next_pid
      BY <1>0, <3>1 DEF ProcTypeOK, Created, Process, Context, Status, Pcs, At, Slots
    <3>3. QED
      BY <1>r, <2>1, <2>3, <3>1, <3>2, CreatingKeepsIInv
  <2>4. QED
    BY <1>5, <2>2, <2>3 DEF sys_exec
<1>6. ASSUME NEW pid \in {ANY} \cup 1..MaxPid, sys_wait(pid)
      PROVE  ProcInv'
  <2>1. UNCHANGED <<next_pid, current_pid, tick_counter>>
    BY <1>6 DEF sys_wait
  <2>2. CASE Reapable(pid) # {}
    BY <1>6, <1>r, <2>1, <2>2, ZeroingKeepsIInv DEF sys_wait
  <2>3. CASE Reapable(pid) = {}
    <3>1. cpu' = At("wait", pid, cpu.esp) /\ proc_table' = proc_table
      BY <1>6, <2>3 DEF sys_wait
    <3>2. cpu' \in Context
      BY <1>0, <3>1 DEF ProcTypeOK, Context, Pcs, At, ANY
    <3>3. QED
      BY <2>1, <3>1, <3>2 DEF ProcInv, ProcTypeOK, PidsAssigned, PidsUnique, RunningIsCurrent
  <2>4. QED
    BY <2>2, <2>3
<1>7. CASE WaitScan
  <2>1. FirstReapable(cpu.arg) \in Int
    BY <1>7, ReapedIsZombie DEF WaitScan, Slots
  <2>2. cpu' \in Context
    BY <1>0, <1>7, <2>1 DEF WaitScan, ProcTypeOK, Context, Pcs, At
  <2>3. QED
    BY <1>7, <2>2 DEF WaitScan, ProcInv, ProcTypeOK, PidsAssigned, PidsUnique, RunningIsCurrent
<1>8. CASE WaitReap
  BY <1>8, <1>r, ZeroingKeepsIInv DEF WaitReap
<1>9. CASE UNCHANGED proc_vars
  BY <1>9 DEF proc_vars, ProcInv, ProcTypeOK, PidsAssigned, PidsUnique, RunningIsCurrent
<1>10. QED
  BY <1>1, <1>2, <1>3, <1>4, <1>5, <1>6, <1>7, <1>8, <1>9 DEF ProcNext, sched_tick

\* The invariant holds in every reachable state of the process table.
THEOREM ProcInvariance == ProcSpec => []ProcInv
<1>1. QED
  BY InitProcInv, NextProcInv, PTL DEF ProcSpec

-----------------------------------------------------------------------------
(* The properties of module Processes.                                      *)

\* The table, the pid counter and the CPU keep their types.
THEOREM ProcTypeCorrect == ProcSpec => []ProcTypeOK
<1>1. ProcInv => ProcTypeOK  BY DEF ProcInv
<1>2. QED  BY <1>1, ProcInvariance, PTL

\* No two slots in use share a pid (process.c:29, 76).
THEOREM PidsAreUnique == ProcSpec => []PidsUnique
<1>1. ProcInv => PidsUnique  BY DEF ProcInv
<1>2. QED  BY <1>1, ProcInvariance, PTL

\* Only the current process is RUNNING (sched.c:58-74, syscall.c:49-53).
THEOREM OnlyCurrentRuns == ProcSpec => []RunningIsCurrent
<1>1. ProcInv => RunningIsCurrent  BY DEF ProcInv
<1>2. QED  BY <1>1, ProcInvariance, PTL

\* A zombie is only ever reaped (process.c:101-111).
THEOREM ZombiesStayDead == ProcSpec => ZombieOnlyReaped
<1> DEFINE Kept == \A i \in Slots :
             proc_table[i].state = "ZOMBIE" => proc_table'[i].state \in {"ZOMBIE", "UNUSED"}
<1>1. ASSUME ProcInv, [ProcNext]_proc_vars PROVE [Kept]_proc_vars
  <2> SUFFICES ASSUME ProcNext, NEW i \in Slots, proc_table[i].state = "ZOMBIE"
               PROVE  proc_table'[i].state \in {"ZOMBIE", "UNUSED"}
    BY <1>1
  <2>0. ProcTypeOK
    BY <1>1 DEF ProcInv
  <2>1. CASE CountTick
    BY <2>1 DEF CountTick
  <2>2. CASE EndQuantum
    <3> DEFINE next == pick_next(proc_current)
    <3>1. CASE next \in {NO_PROC, proc_current}
      BY <2>2, <3>1 DEF EndQuantum, Switch
    <3>2. CASE next \notin {NO_PROC, proc_current}
      <4>1. proc_table[next].state = "READY"
        BY <3>2, CurrentHasPid, PickedIsReady
      <4>2. proc_table'[i] = proc_table[i]
        BY <2>2, <3>2, <4>1 DEF EndQuantum, Switch
      <4>3. QED
        BY <4>2
    <3>3. QED
      BY <3>1, <3>2
  <2>3. CASE sys_exit
    BY <2>0, <2>3 DEF sys_exit, ProcTypeOK, Process
  <2>4. CASE sys_fork
    BY <2>0, <2>4, FreeSlotIsFree DEF sys_fork, ProcTypeOK
  <2>5. CASE sys_exec
    BY <2>0, <2>5, FreeSlotIsFree DEF sys_exec, ProcTypeOK
  <2>6. ASSUME NEW pid \in {ANY} \cup 1..MaxPid, sys_wait(pid)
        PROVE  proc_table'[i].state \in {"ZOMBIE", "UNUSED"}
    BY <2>0, <2>6 DEF sys_wait, ProcTypeOK, Zeroed
  <2>7. CASE WaitScan
    BY <2>7 DEF WaitScan
  <2>8. CASE WaitReap
    BY <2>0, <2>8 DEF WaitReap, ProcTypeOK, Zeroed
  <2>9. QED
    BY <2>1, <2>2, <2>3, <2>4, <2>5, <2>6, <2>7, <2>8 DEF ProcNext, sched_tick
<1>2. QED
  BY <1>1, ProcInvariance, PTL DEF ProcSpec, ZombieOnlyReaped

-----------------------------------------------------------------------------
(* The round of the scheduler.                                              *)

\* How far the scan walks, without the modulo: -(PROC_MAX) <= x < PROC_MAX.
LEMMA OnceAround ==
  ASSUME NEW N \in Nat \ {0}, NEW x \in -N..(N - 1)
  PROVE  x % N = IF x >= 0 THEN x ELSE x + N
<1>1. CASE x >= 0
  BY <1>1, SMTT(30)
<1>2. CASE x < 0
  BY <1>2, SMTT(30)
<1>3. QED
  BY <1>1, <1>2

LEMMA DistanceIs ==
  ASSUME NEW from \in Slots \cup {NO_PROC}, NEW i \in Slots
  PROVE  Distance(from, i) = IF i > from THEN i - from - 1 ELSE i - from - 1 + PROC_MAX
<1> DEFINE x == i - (from + 1)
<1>1. PROC_MAX \in Nat \ {0} /\ x \in -PROC_MAX..(PROC_MAX - 1) /\ i \in Int /\ from \in Int
  BY ProcessesAssumption DEF Slots, NO_PROC
<1>2. x % PROC_MAX = IF x >= 0 THEN x ELSE x + PROC_MAX
  <2> HIDE DEF x
  <2>1. QED
    BY <1>1, OnceAround
<1>3. QED
  BY <1>1, <1>2 DEF Distance

\* A scan that stops at n before it comes to i is nearer to i from there.
LEMMA Nearer ==
  ASSUME NEW from \in Slots \cup {NO_PROC}, NEW n \in Slots, NEW i \in Slots,
         n # i, i # from, Distance(from, n) <= Distance(from, i)
  PROVE  Distance(n, i) < Distance(from, i)
<1>1. n \in Slots \cup {NO_PROC}
  OBVIOUS
<1>2. /\ Distance(from, n) = IF n > from THEN n - from - 1 ELSE n - from - 1 + PROC_MAX
      /\ Distance(from, i) = IF i > from THEN i - from - 1 ELSE i - from - 1 + PROC_MAX
      /\ Distance(n, i) = IF i > n THEN i - n - 1 ELSE i - n - 1 + PROC_MAX
  BY <1>1, DistanceIs
<1>3. QED
  BY <1>2, ProcessesAssumption DEF Slots, NO_PROC

\* pick_next stops at the nearest READY slot.
LEMMA PickedIsNearest ==
  ASSUME NEW from \in Slots \cup {NO_PROC}, NEW i \in Slots, Ready(i)
  PROVE  /\ pick_next(from) \in Slots
         /\ Ready(pick_next(from))
         /\ Distance(from, pick_next(from)) <= Distance(from, i)
<1> DEFINE S == {j \in Slots : Ready(j)}
           f == [j \in S |-> Distance(from, j)]
<1>1. ASSUME NEW j \in Slots PROVE Distance(from, j) \in Nat
  BY ProcessesAssumption DEF Distance, Slots, NO_PROC
<1>2. f \in [S -> Nat] /\ S # {}
  BY <1>1
<1>3. \E x \in S : \A y \in S : f[x] <= f[y]
  BY <1>2, LeastImage
<1>4. \E x \in Slots : Ready(x) /\ \A y \in Slots : Ready(y) => Distance(from, x) <= Distance(from, y)
  BY <1>3
<1>5. QED
  BY <1>4, Zenon DEF pick_next

\* The slot with the current pid, when there is one, is the only one.
LEMMA CurrentAlone ==
  ASSUME ProcInv, NEW s \in Slots, proc_table[s].pid = current_pid
  PROVE  proc_current = s /\ \A j \in Slots : proc_table[j].pid = current_pid => j = s
<1>1. ASSUME NEW j \in Slots, proc_table[j].pid = current_pid PROVE j = s
  <2>1. current_pid # 0
    BY DEF ProcInv, ProcTypeOK, PidsAssigned
  <2>2. proc_table[j].state # "UNUSED"
    BY <1>1, <2>1 DEF ProcInv, PidsAssigned
  <2>3. QED
    BY <1>1, <2>2 DEF ProcInv, PidsUnique
<1>2. proc_current \in Slots /\ proc_table[proc_current].pid = current_pid
  BY CurrentHasPid
<1>3. QED
  BY <1>1, <1>2

\* A step that leaves the current pid and the pids of the slots alone, but for
\* slots that it clears or fills with the next pid, leaves proc_current alone or
\* leaves no process current.
LEMMA CurrentStays ==
  ASSUME ProcInv, current_pid' = current_pid,
         \A j \in Slots : \/ proc_table'[j].pid = proc_table[j].pid
                          \/ proc_table'[j].pid \in {0, next_pid}
  PROVE  \/ proc_current' = proc_current
         \/ proc_current # NO_PROC /\ proc_current' = NO_PROC
<1>1. \A j \in Slots : proc_table'[j].pid = current_pid' => proc_table[j].pid = current_pid
  <2>1. current_pid # 0 /\ current_pid # next_pid
    BY DEF ProcInv, ProcTypeOK, PidsAssigned
  <2>2. QED
    BY <2>1
<1>2. CASE \A j \in Slots : proc_table'[j].pid # current_pid'
  <2>1. proc_current' = NO_PROC
    BY <1>2 DEF proc_current
  <2>2. QED
    BY <2>1
<1>3. CASE \E j \in Slots : proc_table'[j].pid = current_pid'
  <2>1. PICK s \in Slots : proc_table'[s].pid = current_pid'
    BY <1>3
  <2>2. proc_current = s /\ \A j \in Slots : proc_table[j].pid = current_pid => j = s
    BY <1>1, <2>1, CurrentAlone
  <2>3. \A j \in Slots : proc_table'[j].pid = current_pid' => j = s
    BY <1>1, <2>2
  <2>4. proc_current' = s
    BY <2>1, <2>3, ProcessesAssumption DEF proc_current, Slots
  <2>5. QED
    BY <2>2, <2>4
<1>4. QED
  BY <1>2, <1>3

\* The end of a quantum runs i or leaves it nearer to the scan.
LEMMA QuantumAdvances ==
  ASSUME ProcInv, EndQuantum, NEW i \in Slots, i # proc_current, Ready(i),
         proc_table'[i].state = "READY"
  PROVE  Distance(proc_current', i) < Distance(proc_current, i)
<1> DEFINE from == proc_current
           next == pick_next(proc_current)
<1>1. from \in Slots \cup {NO_PROC}
  BY CurrentHasPid
<1>2. next \in Slots /\ Ready(next) /\ Distance(from, next) <= Distance(from, i)
  BY <1>1, PickedIsNearest
<1> HIDE DEF from, next
<1>3. next # from
  <2>1. ASSUME from \in Slots PROVE ~ (Distance(from, from) <= Distance(from, i))
    <3>1. /\ Distance(from, from) = PROC_MAX - 1
          /\ Distance(from, i) = IF i > from THEN i - from - 1 ELSE i - from - 1 + PROC_MAX
      BY <2>1, DistanceIs, ProcessesAssumption DEF Slots
    <3>2. from \in 0..(PROC_MAX - 1) /\ i \in 0..(PROC_MAX - 1) /\ i # from
      BY <2>1 DEF Slots, from
    <3>3. QED
      BY <3>1, <3>2, ProcessesAssumption
  <2>2. QED
    BY <1>2, <2>1
<1>4. next # NO_PROC
  BY <1>2, ProcessesAssumption DEF Slots, NO_PROC
<1>5. /\ current_pid' = proc_table[next].pid
      /\ proc_table' = [j \in Slots |->
            CASE j = next -> [proc_table[j] EXCEPT !.state = "RUNNING"]
              [] j = from /\ j # next /\ proc_table[j].state = "RUNNING" ->
                   [proc_table[j] EXCEPT !.state = "READY", !.ctx = cpu]
              [] OTHER -> proc_table[j]]
  BY <1>3, <1>4 DEF EndQuantum, Switch, from, next
<1>6. \A j \in Slots : proc_table[j] \in Process
  BY DEF ProcInv, ProcTypeOK
<1>7. \A j \in Slots : proc_table'[j].pid = proc_table[j].pid
  BY <1>5, <1>6 DEF Process
<1>8. next # i
  <2>1. proc_table'[next].state = "RUNNING"
    BY <1>2, <1>5, <1>6 DEF Process
  <2>2. QED
    BY <2>1
<1>9. proc_current' = next
  <2>1. ASSUME NEW j \in Slots, proc_table[j].pid = proc_table[next].pid PROVE j = next
    <3>1. proc_table[next].state # "UNUSED" /\ 0 < proc_table[next].pid
      BY <1>2 DEF Ready, ProcInv, PidsAssigned
    <3>2. proc_table[j].state # "UNUSED"
      BY <2>1, <3>1 DEF ProcInv, PidsAssigned
    <3>3. QED
      BY <1>2, <2>1, <3>2 DEF ProcInv, PidsUnique
  <2>2. \A j \in Slots : proc_table'[j].pid = current_pid' <=> j = next
    BY <1>2, <1>5, <1>7, <2>1
  <2>3. QED
    BY <1>2, <2>2, ProcessesAssumption DEF proc_current, Slots
<1>10. Distance(next, i) < Distance(from, i)
  BY <1>1, <1>2, <1>8, Nearer DEF from
<1>11. QED
  BY <1>9, <1>10 DEF from

\* Every quantum brings the scan nearer to a READY process or runs it; only exit
\* and a reap of the current process set the scan back (sched.c:23-42).
THEOREM ScanComesNearer == ProcSpec => ScanAdvances
<1> DEFINE Advances == \A i \in Slots \ {proc_current} :
             Ready(i) /\ proc_table'[i].state = "READY" =>
                 \/ Distance(proc_current', i) < Distance(proc_current, i)
                 \/ ~ EndQuantum /\ proc_current' = proc_current
                 \/ sys_exit
                 \/ proc_current # NO_PROC /\ proc_current' = NO_PROC
<1>1. ASSUME ProcInv, ProcNext PROVE Advances
  <2> SUFFICES ASSUME NEW i \in Slots, i # proc_current, Ready(i),
                      proc_table'[i].state = "READY", ~ EndQuantum, ~ sys_exit
               PROVE  \/ proc_current' = proc_current
                      \/ proc_current # NO_PROC /\ proc_current' = NO_PROC
    BY <1>1, QuantumAdvances
  <2>0. ProcTypeOK
    BY <1>1 DEF ProcInv
  <2>1. CASE CountTick \/ WaitScan
    BY <1>1, <2>1, CurrentStays DEF CountTick, WaitScan
  <2>2. CASE sys_fork
    <3>1. \A j \in Slots : proc_table'[j].pid \in {proc_table[j].pid, next_pid}
      BY <2>0, <2>2, FreeSlotIsFree DEF sys_fork, ProcTypeOK, Forked
    <3>2. current_pid' = current_pid
      BY <2>2 DEF sys_fork
    <3>3. QED
      BY <1>1, <3>1, <3>2, CurrentStays
  <2>3. CASE sys_exec
    <3>1. \A j \in Slots : proc_table'[j].pid \in {proc_table[j].pid, next_pid}
      BY <2>0, <2>3, FreeSlotIsFree DEF sys_exec, ProcTypeOK, Created
    <3>2. current_pid' = current_pid
      BY <2>3 DEF sys_exec
    <3>3. QED
      BY <1>1, <3>1, <3>2, CurrentStays
  <2>4. ASSUME NEW pid \in {ANY} \cup 1..MaxPid, sys_wait(pid)
        PROVE  \/ proc_current' = proc_current
               \/ proc_current # NO_PROC /\ proc_current' = NO_PROC
    <3>1. \A j \in Slots : proc_table'[j].pid \in {proc_table[j].pid, 0}
      BY <2>0, <2>4 DEF sys_wait, ProcTypeOK, Zeroed
    <3>2. current_pid' = current_pid
      BY <2>4 DEF sys_wait
    <3>3. QED
      BY <1>1, <3>1, <3>2, CurrentStays
  <2>5. CASE WaitReap
    <3>1. \A j \in Slots : proc_table'[j].pid \in {proc_table[j].pid, 0}
      BY <2>0, <2>5 DEF WaitReap, ProcTypeOK, Zeroed
    <3>2. current_pid' = current_pid
      BY <2>5 DEF WaitReap
    <3>3. QED
      BY <1>1, <3>1, <3>2, CurrentStays
  <2>6. QED
    BY <1>1, <2>1, <2>2, <2>3, <2>4, <2>5 DEF ProcNext, sched_tick
<1>2. ProcInv /\ [ProcNext]_proc_vars => [Advances]_proc_vars
  BY <1>1
<1>3. QED
  BY <1>2, ProcInvariance, PTL DEF ProcSpec, ScanAdvances
=============================================================================
