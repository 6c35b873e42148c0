-------------------------------- MODULE Heap --------------------------------
(***************************************************************************)
(* The kernel heap, mm/heap.c: a list of blocks, each a header of          *)
(* sizeof(block_hdr_t) bytes followed by size usable bytes.  kmalloc takes *)
(* the first free block that is large enough and splits it; kfree marks a  *)
(* block free and merge_free_blocks walks the list to join free            *)
(* neighbours.  Addresses are byte offsets from HEAP_START.                *)
(*                                                                         *)
(* hdr maps the address of every header in the list to the header; the     *)
(* bytes of a header that merging has swallowed are not read again.  The   *)
(* walk of merge_free_blocks is one step per iteration, with its local     *)
(* cur.  owned is the callers' side: the blocks they were given and have   *)
(* not freed, with the number of bytes they asked for.                     *)
(***************************************************************************)
EXTENDS Integers

CONSTANTS HEAP_SIZE,  \* bytes of the heap (heap.c:15)
          Requests    \* the sizes callers ask kmalloc for

HDR  == 16            \* sizeof(block_hdr_t)
NULL == -1            \* the null pointer

ASSUME HeapAssumption ==
    /\ HEAP_SIZE \in Nat
    /\ HEAP_SIZE % 8 = 0
    /\ HEAP_SIZE > HDR
    /\ Requests \subseteq Nat

VARIABLES hdr, owned, cur

heap_vars == <<hdr, owned, cur>>

Header == [size : Nat, free : BOOLEAN, next : Int]

Blocks == DOMAIN hdr

\* The address behind the last byte of block a.
End(a) == a + HDR + hdr[a].size

\* Mutant: the size is cut off to a multiple of 8 and not rounded up.
Mut_Aligned_down(size) == (size \div 8) * 8

\* (size + 7) & ~7u
Aligned(size) == ((size + 7) \div 8) * 8

-----------------------------------------------------------------------------

HeapInit ==
    /\ hdr = [a \in {0} |-> [size |-> HEAP_SIZE - HDR, free |-> TRUE, next |-> NULL]]
    /\ owned = [a \in {} |-> 0]
    /\ cur = NULL

Fits(a, size) == hdr[a].free /\ hdr[a].size >= size

\* The first block of the list that is free and large enough; the list is in
\* address order (invariant Tiling).
FirstFit(size) ==
    CHOOSE a \in Blocks :
        /\ Fits(a, size)
        /\ \A b \in Blocks : Fits(b, size) => a <= b

\* Mutant: the remainder is computed as if it needed no header.
Mut_Split(a, size) ==
    LET rest == a + HDR + size
    IN  [b \in Blocks \cup {rest} |->
            IF b = a THEN [size |-> size, free |-> FALSE, next |-> rest]
            ELSE IF b = rest THEN [size |-> hdr[a].size - size, free |-> TRUE,
                                   next |-> hdr[a].next]
            ELSE hdr[b]]

\* kmalloc takes size bytes of block a and leaves the rest as a free block.
Split(a, size) ==
    LET rest == a + HDR + size
    IN  [b \in Blocks \cup {rest} |->
            IF b = a THEN [size |-> size, free |-> FALSE, next |-> rest]
            ELSE IF b = rest THEN [size |-> hdr[a].size - size - HDR, free |-> TRUE,
                                   next |-> hdr[a].next]
            ELSE hdr[b]]

\* kmalloc takes all of block a.
Take(a) == [hdr EXCEPT ![a].free = FALSE]

\* Room for a new header and at least 8 bytes is left.
Splits(a, size) == hdr[a].size >= size + HDR + 8

\* kmalloc(request); a request of 0 bytes and a request that no block can
\* hold return NULL and change nothing.
kmalloc(request) ==
    LET size == Aligned(request)
        a    == FirstFit(size)
    IN  /\ cur = NULL
        /\ request # 0
        /\ \E b \in Blocks : Fits(b, size)
        /\ hdr' = IF Splits(a, size) THEN Split(a, size) ELSE Take(a)
        /\ owned' = [b \in DOMAIN owned \cup {a} |-> IF b = a THEN request ELSE owned[b]]
        /\ UNCHANGED cur

\* kfree of a block that was handed out: it becomes free, and the walk of
\* merge_free_blocks starts at heap_head.
kfree(a) ==
    /\ cur = NULL
    /\ hdr' = [hdr EXCEPT ![a].free = TRUE]
    /\ owned' = [b \in DOMAIN owned \ {a} |-> owned[b]]
    /\ cur' = 0

\* Mutant: the walk goes on behind the block it has just enlarged.
Mut_Joined == hdr[hdr[cur].next].next

\* Where the walk is after it has joined two blocks: it stays.
Joined == cur

\* The test of merge_free_blocks at cur.
Joinable ==
    /\ hdr[cur].next # NULL
    /\ hdr[cur].free
    /\ hdr[hdr[cur].next].free

\* An iteration that joins cur with the next block.
MergeJoin ==
    /\ cur # NULL
    /\ Joinable
    /\ LET n == hdr[cur].next
       IN  hdr' = [a \in Blocks \ {n} |->
                      IF a = cur
                        THEN [size |-> hdr[a].size + HDR + hdr[n].size,
                              free |-> hdr[a].free,
                              next |-> hdr[n].next]
                        ELSE hdr[a]]
    /\ cur' = Joined
    /\ UNCHANGED owned

\* Mutant: the walk starts over at the end of the list.
Mut_MergeAdvance ==
    /\ cur # NULL
    /\ ~ Joinable
    /\ cur' = IF hdr[cur].next = NULL THEN 0 ELSE hdr[cur].next
    /\ UNCHANGED <<hdr, owned>>

\* An iteration that moves on, or the end of the walk at the last block.
MergeAdvance ==
    /\ cur # NULL
    /\ ~ Joinable
    /\ cur' = hdr[cur].next
    /\ UNCHANGED <<hdr, owned>>

merge_free_blocks == MergeJoin \/ MergeAdvance

HeapNext ==
    \/ \E request \in Requests : kmalloc(request)
    \/ \E a \in DOMAIN owned : kfree(a)
    \/ merge_free_blocks

HeapSpec == HeapInit /\ [][HeapNext]_heap_vars

\* The walk is a loop of the code: it takes its next iteration.
HeapFairSpec == HeapSpec /\ WF_heap_vars(merge_free_blocks)

-----------------------------------------------------------------------------
(* Properties.                                                              *)

\* hdr maps addresses of the heap to headers; the walk is at a block.
HeapTypeOK ==
    /\ Blocks \subseteq 0..(HEAP_SIZE - HDR)
    /\ hdr \in [Blocks -> Header]
    /\ DOMAIN owned \subseteq Blocks
    /\ owned \in [DOMAIN owned -> Nat]
    /\ cur \in Blocks \cup {NULL}

\* The list tiles the heap: heap_head is its first block, a block's next
\* pointer leads to the block that begins where it ends, and the last block
\* ends where the heap ends.  Splits and merges neither lose a byte nor give
\* one to two blocks (heap.c:43-44, 63-69).
Tiling ==
    /\ 0 \in Blocks
    /\ \A a \in Blocks :
          \/ hdr[a].next = NULL /\ End(a) = HEAP_SIZE
          \/ hdr[a].next = End(a) /\ End(a) \in Blocks
    /\ \A a, b \in Blocks : a < b => End(a) <= b

\* What a caller was given stays its own until it frees it: the block is
\* marked used and holds the bytes that were asked for, whatever is split,
\* freed and merged around it; and no block that nobody owns is marked used
\* (heap.c:56-72).
OwnedKept ==
    /\ \A a \in DOMAIN owned : ~ hdr[a].free /\ hdr[a].size >= owned[a]
    /\ \A a \in Blocks : hdr[a].free \/ a \in DOMAIN owned

\* Between calls no two neighbours are both free: the walk finds every pair
\* that a kfree makes, and a split makes none (heap.c:41-48).
Coalesced ==
    cur = NULL =>
        \A a \in Blocks :
            hdr[a].next # NULL => ~ (hdr[a].free /\ hdr[hdr[a].next].free)

\* When everything has been freed the heap is one free block again.
WholeAgain ==
    (cur = NULL /\ DOMAIN owned = {}) => Blocks = {0} /\ hdr[0].free

\* Every block begins at a multiple of 8 (heap.c:55).
BlocksAligned == \A a \in Blocks : a % 8 = 0

\* kfree returns: the walk over the list ends.
WalkEnds == (cur # NULL) ~> (cur = NULL)
=============================================================================
