------------------------------ MODULE Allocator ------------------------------
(***************************************************************************)
(* kernel/src/allocator.c: a two-level segregated-fit allocator.  Blocks   *)
(* tile the heap; each knows its size, whether it is free and its physical *)
(* predecessor.  Free blocks are in lists, one per size class (fl, sl), and *)
(* bitmaps tell which lists are not empty.                                 *)
(*                                                                         *)
(* Sizes and addresses are in bytes, addresses relative to heap_start_ptr. *)
(* A free list is a sequence (next_free and prev_free).  Each call is one  *)
(* locked section, except the moving realloc, which is three.              *)
(***************************************************************************)
EXTENDS Integers, SequencesExt

CONSTANTS
    PoolSize,               \* the size given to allocator_init
    ALIGN_SIZE,
    BLOCK_OVERHEAD,         \* header of a used block
    BLOCK_MIN_SIZE,         \* header of a free block
    SL_INDEX_COUNT_LOG2,
    FL_INDEX_MAX,
    Ptr,                    \* pointer variables of the callers
    Requests                \* the sizes asked for

ASSUME AllocatorAssumption ==
  /\ {PoolSize, ALIGN_SIZE, BLOCK_OVERHEAD, BLOCK_MIN_SIZE, FL_INDEX_MAX} \subseteq Nat \ {0}
  /\ SL_INDEX_COUNT_LOG2 \in Nat
  /\ BLOCK_MIN_SIZE % ALIGN_SIZE = 0 /\ BLOCK_OVERHEAD <= BLOCK_MIN_SIZE
  /\ PoolSize >= BLOCK_MIN_SIZE + ALIGN_SIZE
  /\ Requests \subseteq Nat

VARIABLES
    block,          \* header of the block at each block address
    freeList,       \* control.blocks
    slBitmap,       \* sl_bitmap, as the set of pairs whose bit is set
    flBitmap,       \* fl_bitmap, as the set of indices whose bit is set
    stats,          \* free_mem, allocated_mem, free_blocks, allocated_blocks
    held            \* what each caller holds: the address, the size asked for
                    \* and, during a moving realloc, the target

allocVars == <<block, freeList, slBitmap, flBitmap, stats, held>>

Nowhere == -1
NotHeld == [at |-> Nowhere, asked |-> 0, want |-> 0, to |-> Nowhere]

------------------------------------------------------------------------------
(* Size classes *)

Align(n) == ((n + ALIGN_SIZE - 1) \div ALIGN_SIZE) * ALIGN_SIZE
AlignDown(n) == n - (n % ALIGN_SIZE)

SlCount == 2^SL_INDEX_COUNT_LOG2
Classes == (0..FL_INDEX_MAX - 1) \X (0..SlCount - 1)

\* find_msb_index; find_lsb_index of a bitmap is the minimum of its set.
Msb(n) == IF n = 0 THEN 0 ELSE CHOOSE i \in 0..31 : 2^i <= n /\ n < 2^(i + 1)

\* mapping_indices_calc
MappingIndicesCalc(size) ==
  LET fl == Msb(size)
  IN  IF size < BLOCK_MIN_SIZE THEN <<0, 0>>
      ELSE IF fl < SL_INDEX_COUNT_LOG2 THEN <<fl, size \div 2>>
      ELSE <<fl, size \div 2^(fl - SL_INDEX_COUNT_LOG2) - SlCount>>

\* Variant: the size is not rounded up to the next class.
MappingIndicesSearchDown(size) == MappingIndicesCalc(size)

\* mapping_indices_search: every block of this class or above is large enough.
MappingIndicesSearch(size) ==
  LET n == Min({size, 2^FL_INDEX_MAX - 1})
      fl == Msb(n)
  IN  MappingIndicesCalc(IF fl < SL_INDEX_COUNT_LOG2 THEN n
                         ELSE n + 2^(fl - SL_INDEX_COUNT_LOG2) - 1)

------------------------------------------------------------------------------
(* Operations on the heap, a record of block, lists and statistics *)

HeapNow == [block |-> block, list |-> freeList, sl |-> slBitmap, fl |-> flBitmap, stats |-> stats]

SetHeap(h) ==
  /\ block' = h.block
  /\ freeList' = h.list
  /\ slBitmap' = h.sl
  /\ flBitmap' = h.fl
  /\ stats' = h.stats

HeapEnd == AlignDown(PoolSize)
After(h, b) == b + h.block[b].size
FreeAt(h, b) == b < HeapEnd /\ h.block[b].free

\* Changes of free_mem, allocated_mem, free_blocks and allocated_blocks.
Account(h, fm, am, fb, ab) ==
  [h EXCEPT !.stats = <<@[1] + fm, @[2] + am, @[3] + fb, @[4] + ab>>]

\* block_insert
BlockInsert(h, b) ==
  LET c == MappingIndicesCalc(h.block[b].size)
  IN  [h EXCEPT !.list[c] = <<b>> \o @, !.sl = @ \cup {c}, !.fl = @ \cup {c[1]}]

\* block_remove
BlockRemove(h, b) ==
  LET c == MappingIndicesCalc(h.block[b].size)
      l == SelectSeq(h.list[c], LAMBDA x : x # b)
      sl == IF l = << >> THEN h.sl \ {c} ELSE h.sl
  IN  [h EXCEPT !.list[c] = l, !.sl = sl,
                !.fl = IF \E d \in sl : d[1] = c[1] THEN @ ELSE @ \ {c[1]}]

Linked(h, b) ==
  IF After(h, b) < HeapEnd THEN [h EXCEPT !.block[After(h, b)].prev = b] ELSE h

\* The block at b, and the one behind it, become one block.
Joined(h, b) ==
  LET n == After(h, b)
      m == [x \in DOMAIN h.block \ {n} |->
              IF x = b THEN [h.block[b] EXCEPT !.size = @ + h.block[n].size] ELSE h.block[x]]
  IN  Linked([h EXCEPT !.block = m], b)

\* block_merge_prev: the heap, and where the merged block is.
MergesPrev(h, b) == h.block[b].prev # Nowhere /\ h.block[h.block[b].prev].free
BlockMergePrev(h, b) ==
  LET p == h.block[b].prev
  IN  IF MergesPrev(h, b)
      THEN Joined(Account(BlockRemove(h, p), BLOCK_OVERHEAD, 0, -1, 0), p) ELSE h

\* Variant: the block behind the merged one keeps its old predecessor.
BlockMergeNextUnlinked(h, b) ==
  LET n == After(h, b)
      g == Account(BlockRemove(h, n), BLOCK_OVERHEAD, 0, -1, 0)
  IN  IF FreeAt(h, n)
      THEN [g EXCEPT !.block = [x \in DOMAIN @ \ {n} |->
              IF x = b THEN [@[b] EXCEPT !.size = @ + h.block[n].size] ELSE @[x]]]
      ELSE h

\* block_merge_next
BlockMergeNext(h, b) ==
  LET n == After(h, b)
  IN  IF FreeAt(h, n)
      THEN Joined(Account(BlockRemove(h, n), BLOCK_OVERHEAD, 0, -1, 0), b) ELSE h

\* block_trim: what is left over of a block becomes a free block.
BlockTrim(h, b, size) ==
  LET rest == h.block[b].size - size
      r == b + size
      cut == [x \in DOMAIN h.block \cup {r} |->
                CASE x = r -> [size |-> rest, free |-> TRUE, prev |-> b]
                  [] x = b -> [h.block[b] EXCEPT !.size = size, !.free = FALSE]
                  [] OTHER -> h.block[x]]
  IN  IF rest < BLOCK_MIN_SIZE THEN h
      ELSE Account(BlockInsert(BlockMergeNext(Linked([h EXCEPT !.block = cut], r), r), r),
                   rest - BLOCK_OVERHEAD, 0, 1, 0)

\* block_locate_free: the first block of the first list, from the class of the
\* search on, that is not empty.
BlockLocateFree(h, size) ==
  LET c == MappingIndicesSearch(size)
      here == {d \in h.sl : d[1] = c[1] /\ d[2] >= c[2]}
      above == {f \in h.fl : f > c[1]}
      found == IF here # {} THEN here ELSE {d \in h.sl : d[1] = Min(above)}
      sl == Min({d[2] : d \in found})
  IN  IF here = {} /\ above = {} THEN Nowhere
      ELSE Head(h.list[CHOOSE d \in found : d[2] = sl])

\* The size of the block a request needs.
ReqSize(n) == IF n + BLOCK_OVERHEAD < BLOCK_MIN_SIZE THEN BLOCK_MIN_SIZE
              ELSE Align(n + BLOCK_OVERHEAD)

\* allocator_malloc, once a block was found.
Taken(h, b, size) ==
  LET g == BlockRemove(Account(h, -(h.block[b].size - BLOCK_OVERHEAD), 0, -1, 0), b)
      t == BlockTrim(g, b, size)
  IN  Account([t EXCEPT !.block[b].free = FALSE],
              0, t.block[b].size - BLOCK_OVERHEAD, 0, 1)

\* allocator_free
Released(h, b) ==
  LET n == h.block[b].size - BLOCK_OVERHEAD
      g == Account([h EXCEPT !.block[b].free = TRUE], n, -n, 1, -1)
      m == IF MergesPrev(g, b) THEN g.block[b].prev ELSE b
  IN  BlockInsert(BlockMergeNext(BlockMergePrev(g, b), m), m)

------------------------------------------------------------------------------
(* The calls *)

\* allocator_init: one free block.
AllocatorInit ==
  LET c == MappingIndicesCalc(HeapEnd)
  IN  /\ block = [b \in {0} |-> [size |-> HeapEnd, free |-> TRUE, prev |-> Nowhere]]
      /\ freeList = [d \in Classes |-> IF d = c THEN <<0>> ELSE << >>]
      /\ slBitmap = {c}
      /\ flBitmap = {c[1]}
      /\ stats = <<HeapEnd - BLOCK_OVERHEAD, 0, 1, 0>>
      /\ held = [p \in Ptr |-> NotHeld]

\* allocator_malloc; no block, no effect.
AllocatorMalloc(p, n) ==
  LET b == BlockLocateFree(HeapNow, ReqSize(n))
  IN  /\ held[p] = NotHeld
      /\ n > 0
      /\ b # Nowhere
      /\ SetHeap(Taken(HeapNow, b, ReqSize(n)))
      /\ held' = [held EXCEPT ![p] = [NotHeld EXCEPT !.at = b, !.asked = n]]

AllocatorFree(p) ==
  /\ held[p].at # Nowhere
  /\ held[p].want = 0
  /\ SetHeap(Released(HeapNow, held[p].at))
  /\ held' = [held EXCEPT ![p] = NotHeld]

ReallocSize(n) == IF Align(n + BLOCK_OVERHEAD) < BLOCK_MIN_SIZE THEN BLOCK_MIN_SIZE
                  ELSE Align(n + BLOCK_OVERHEAD)

\* block_trim in allocator_realloc: what is cut off is no longer allocated.
Shrunk(h, b, size) ==
  LET rest == h.block[b].size - size
  IN  IF rest >= BLOCK_MIN_SIZE THEN Account(BlockTrim(h, b, size), 0, -rest, 0, 0) ELSE h

\* The block at b takes the free block behind it.
Absorbed(h, b) ==
  LET n == h.block[After(h, b)].size
      g == Account(BlockRemove(h, After(h, b)), -(n - BLOCK_OVERHEAD), n, -1, 0)
  IN  Joined(g, b)

\* allocator_realloc, its locked section: the block shrinks, or grows into the
\* free block behind it, or has to move.
AllocatorRealloc(p, n) ==
  LET b == held[p].at
      size == block[b].size
      next == After(HeapNow, b)
      req == ReallocSize(n)
      fits == size >= req
      grows == FreeAt(HeapNow, next) /\ size + block[next].size >= req
  IN  /\ b # Nowhere
      /\ held[p].want = 0
      /\ n > 0
      /\ IF fits \/ grows
         THEN /\ SetHeap(Shrunk(IF fits THEN HeapNow ELSE Absorbed(HeapNow, b), b, req))
              /\ held' = [held EXCEPT ![p].asked = n]
         ELSE /\ held' = [held EXCEPT ![p].want = n]
              /\ UNCHANGED <<block, freeList, slBitmap, flBitmap, stats>>

\* ... the new block, or none: the old one is kept ...
ReallocMalloc(p) ==
  LET b == BlockLocateFree(HeapNow, ReqSize(held[p].want))
  IN  /\ held[p].want # 0
      /\ held[p].to = Nowhere
      /\ IF b = Nowhere
         THEN /\ held' = [held EXCEPT ![p].want = 0]
              /\ UNCHANGED <<block, freeList, slBitmap, flBitmap, stats>>
         ELSE /\ SetHeap(Taken(HeapNow, b, ReqSize(held[p].want)))
              /\ held' = [held EXCEPT ![p].to = b]

\* ... the copy, and the old block is freed.
ReallocFree(p) ==
  /\ held[p].to # Nowhere
  /\ SetHeap(Released(HeapNow, held[p].at))
  /\ held' = [held EXCEPT ![p] = [NotHeld EXCEPT !.at = held[p].to, !.asked = held[p].want]]

AllocatorNext ==
  \E p \in Ptr :
    \/ \E n \in Requests : AllocatorMalloc(p, n)
    \/ AllocatorFree(p)
    \/ \E n \in Requests : AllocatorRealloc(p, n)
    \/ ReallocMalloc(p)
    \/ ReallocFree(p)

------------------------------------------------------------------------------
(* allocator_check_integrity *)

\* The physical walk: blocks tile the heap, the chain of predecessors is the
\* order of addresses, and no two free blocks are neighbours.
PhysicalWalk ==
  \A b \in DOMAIN block :
    LET n == After(HeapNow, b)
    IN  /\ b % ALIGN_SIZE = 0
        /\ block[b].size % ALIGN_SIZE = 0
        /\ block[b].size >= BLOCK_MIN_SIZE
        /\ n = HeapEnd \/ n \in DOMAIN block
        /\ n \in DOMAIN block => block[n].prev = b /\ ~(block[b].free /\ block[n].free)
        /\ block[b].prev = Nowhere <=> b = 0

\* The logical walk: each list holds free blocks of its class, and the bitmaps
\* tell which lists are not empty.
LogicalWalk ==
  /\ slBitmap = {c \in Classes : freeList[c] # << >>}
  /\ \A c \in Classes : \A b \in Range(freeList[c]) :
       block[b].free /\ MappingIndicesCalc(block[b].size) = c

\* The statistics are those of the blocks.
StatsAgree ==
  LET Payload(b) == block[b].size - BLOCK_OVERHEAD
      F == {b \in DOMAIN block : block[b].free}
      U == DOMAIN block \ F
  IN  /\ stats = <<MapThenSumSet(Payload, F), MapThenSumSet(Payload, U), Cardinality(F), Cardinality(U)>>
      /\ MapThenSumSet(LAMBDA c : Len(freeList[c]), Classes) = stats[3]

AllocatorCheckIntegrity == PhysicalWalk /\ LogicalWalk /\ StatsAgree

------------------------------------------------------------------------------
(* Whatever is allocated, resized and freed, by interleaved callers, the   *)
(* heap passes its own integrity check (allocator_check_integrity), and    *)
(* fl_bitmap agrees with sl_bitmap.                                        *)
HeapIntact ==
  /\ AllocatorCheckIntegrity
  /\ flBitmap = {c[1] : c \in slBitmap}

(* A caller that was given memory has it: the used blocks are exactly the  *)
(* ones callers hold, no two callers hold the same, and each has room for  *)
(* what was asked for.                                                     *)
AllocationsFit ==
  LET Holds(p) == {held[p].at, held[p].to} \ {Nowhere}
      Room(b) == block[b].size - BLOCK_OVERHEAD
  IN  /\ {b \in DOMAIN block : ~block[b].free} = UNION {Holds(p) : p \in Ptr}
      /\ \A p, q \in Ptr : p # q => Holds(p) \cap Holds(q) = {}
      /\ \A p \in Ptr : held[p].at # Nowhere => Room(held[p].at) >= held[p].asked
      /\ \A p \in Ptr : held[p].to # Nowhere => Room(held[p].to) >= held[p].want
==============================================================================
