-------------------------------- MODULE Tlsf --------------------------------
(***************************************************************************)
(* The allocator of tlsf.c, as operators on its control structure and the  *)
(* headers of the blocks.  Sizes, addresses and alignments count words     *)
(* (ALIGN_SIZE, 8 bytes, is 1), requests being rounded up to words.  A     *)
(* block's address is that of its header: prev_phys_block, which is the    *)
(* last word of the block before it, then the size, then the caller's      *)
(* data.  A free list is the sequence its links give; the bitmaps are sets *)
(* of indices.  The assertions of tlsf.c are not repeated.                 *)
(***************************************************************************)
EXTENDS Integers, Sequences, FiniteSetsExt, SequencesExt

CONSTANTS SL_INDEX_COUNT_LOG2, FL_INDEX_MAX   \* 5 and 32 in the code (29 in words)

ASSUME IndexAssumption == /\ SL_INDEX_COUNT_LOG2 \in Nat /\ FL_INDEX_MAX \in Nat
                          /\ SL_INDEX_COUNT_LOG2 <= FL_INDEX_MAX

(* 1 << n *)
Pow2[n \in Nat] == IF n = 0 THEN 1 ELSE 2 * Pow2[n - 1]

SL_INDEX_COUNT   == Pow2[SL_INDEX_COUNT_LOG2]
SMALL_BLOCK_SIZE == SL_INDEX_COUNT
FL_INDEX_COUNT   == FL_INDEX_MAX - SL_INDEX_COUNT_LOG2 + 1
block_size_max   == Pow2[FL_INDEX_MAX]

block_header_overhead == 1
block_start_offset    == 2
block_size_min        == 3
header_size           == 4    \* sizeof(block_header_t)

null    == 0
Garbage == -1                 \* what a caller left in prev_phys_block

-----------------------------------------------------------------------------
(* The two indices of a size. *)

fls(word) == CHOOSE bit \in 0 .. word : Pow2[bit] <= word /\ word < Pow2[bit + 1]

mapping_insert(size) ==
  IF size < SMALL_BLOCK_SIZE THEN [fl |-> 0, sl |-> size]
  ELSE LET fl == fls(size)
       IN  [fl |-> fl - SL_INDEX_COUNT_LOG2 + 1,
            sl |-> size \div Pow2[fl - SL_INDEX_COUNT_LOG2] - SL_INDEX_COUNT]

mapping_search(size) ==
  mapping_insert(IF size < SMALL_BLOCK_SIZE THEN size
                 ELSE size + Pow2[fls(size) - SL_INDEX_COUNT_LOG2] - 1)

AlignUp(x, align) == ((x + align - 1) \div align) * align

adjust_request_size(size, align) ==
  IF size = 0 \/ AlignUp(size, align) >= block_size_max THEN 0
  ELSE Max({AlignUp(size, align), block_size_min})

-----------------------------------------------------------------------------
(* Free lists.  t is the whole state: the lists and the headers.           *)

control_construct ==
  [fl_bitmap |-> {},
   sl_bitmap |-> [fl \in 0 .. FL_INDEX_COUNT - 1 |-> {}],
   blocks    |-> [fl \in 0 .. FL_INDEX_COUNT - 1 |-> [sl \in 0 .. SL_INDEX_COUNT - 1 |-> <<>>]],
   header    |-> <<>>]

Size(t, block) == t.header[block].size

(* Which list to take a block from: the first of them not empty.           *)
Fitting(t, m) ==
  LET same   == {sl \in t.sl_bitmap[m.fl] : sl >= m.sl}
      larger == {fl \in t.fl_bitmap : fl > m.fl}
  IN  IF same # {} THEN {[fl |-> m.fl, sl |-> Min(same)]}
      ELSE IF larger # {} THEN {[fl |-> Min(larger), sl |-> Min(t.sl_bitmap[Min(larger)])]}
      ELSE {}

Position(list, block) == CHOOSE k \in DOMAIN list : list[k] = block

remove_free_block(t, block, m) ==
  LET list == RemoveAt(t.blocks[m.fl][m.sl], Position(t.blocks[m.fl][m.sl], block))
      sls  == IF list = <<>> THEN t.sl_bitmap[m.fl] \ {m.sl} ELSE t.sl_bitmap[m.fl]
  IN  [t EXCEPT !.blocks[m.fl][m.sl] = list,
                !.sl_bitmap[m.fl] = sls,
                !.fl_bitmap = IF sls = {} THEN @ \ {m.fl} ELSE @]

block_remove(t, block) == remove_free_block(t, block, mapping_insert(Size(t, block)))

block_insert(t, block) ==
  LET m == mapping_insert(Size(t, block))
  IN  [t EXCEPT !.blocks[m.fl][m.sl] = <<block>> \o @,
                !.sl_bitmap[m.fl] = @ \cup {m.sl},
                !.fl_bitmap = @ \cup {m.fl}]

-----------------------------------------------------------------------------
(* Blocks and their physical neighbours.                                   *)

block_to_ptr(block) == block + block_start_offset
block_from_ptr(ptr) == ptr - block_start_offset

NextAfter(block, size) == block_to_ptr(block) + size - block_header_overhead
block_next(t, block)   == NextAfter(block, Size(t, block))

block_link_next(t, block) == [t EXCEPT !.header[block_next(t, block)].prev_phys = block]

block_mark_as_free(t, block) ==
  [block_link_next(t, block) EXCEPT !.header[block_next(t, block)].prev_free = TRUE,
                                    !.header[block].free = TRUE]

block_mark_as_used(t, block) ==
  [t EXCEPT !.header[block_next(t, block)].prev_free = FALSE,
            !.header[block_next(t, block)].prev_phys = Garbage,
            !.header[block].free = FALSE]

block_can_split(t, block, size) == Size(t, block) >= header_size + size

(* The headers with one more.                                              *)
With(header, block, new) ==
  [b \in DOMAIN header \cup {block} |-> IF b = block THEN new ELSE header[b]]

(* The second part, at Remaining, is free; its callers say what its        *)
(* prev_free bit is to be.                                                 *)
Remaining(block, size) == NextAfter(block, size)

block_split(t, block, size, prev_free) ==
  LET rest == [size |-> Size(t, block) - size - block_header_overhead, free |-> FALSE,
               prev_free |-> prev_free, prev_phys |-> Garbage]
      cut  == [t EXCEPT !.header = With([t.header EXCEPT ![block].size = size],
                                        Remaining(block, size), rest)]
  IN  block_mark_as_free(cut, Remaining(block, size))

block_absorb(t, prev, block) ==
  LET kept == [b \in DOMAIN t.header \ {block} |-> t.header[b]]
  IN  block_link_next(
        [t EXCEPT !.header = [kept EXCEPT ![prev].size = @ + Size(t, block) + block_header_overhead]],
        prev)

(* [t, block]: the state and the block that is left.                       *)
block_merge_prev(t, block) ==
  LET prev == t.header[block].prev_phys
  IN  IF t.header[block].prev_free
      THEN [t |-> block_absorb(block_remove(t, prev), prev, block), block |-> prev]
      ELSE [t |-> t, block |-> block]

(* FAULT: the absorbed block stays in its free list. *)
block_merge_next_kept(t, block) ==
  LET next == block_next(t, block)
  IN  IF t.header[next].free THEN block_absorb(t, block, next) ELSE t

block_merge_next(t, block) ==
  LET next == block_next(t, block)
  IN  IF t.header[next].free THEN block_absorb(block_remove(t, next), block, next) ELSE t

block_trim_free(t, block, size) ==
  IF block_can_split(t, block, size)
  THEN block_insert(block_link_next(block_split(t, block, size, TRUE), block),
                    Remaining(block, size))
  ELSE t

block_trim_free_leading(t, block, size) ==
  LET first == size - block_header_overhead
  IN  IF block_can_split(t, block, size)
      THEN [t |-> block_insert(block_link_next(block_split(t, block, first, TRUE), block), block),
            block |-> Remaining(block, first)]
      ELSE [t |-> t, block |-> block]

-----------------------------------------------------------------------------
(* The interface heap.c uses.  [t, ptr], ptr being null when nothing fits. *)

Fits(t, size) ==
  IF size = 0 \/ mapping_search(size).fl >= FL_INDEX_COUNT THEN {}
  ELSE Fitting(t, mapping_search(size))

(* How far into a block to start; a gap must have room for a block.        *)
Gap(ptr, align) ==
  LET gap  == AlignUp(ptr, align) - ptr
      next == AlignUp(ptr, align) + Max({header_size - gap, align})
  IN  IF gap # 0 /\ gap < header_size THEN AlignUp(next, align) - ptr ELSE gap

block_prepare_used(t, block, size) ==
  [t |-> block_mark_as_used(block_trim_free(t, block, size), block), ptr |-> block_to_ptr(block)]

tlsf_memalign(t, align, size) ==
  LET adjust  == adjust_request_size(size, 1)
      aligned == IF adjust # 0 /\ align > 1
                 THEN adjust_request_size(adjust + align + header_size, align) ELSE adjust
      fits    == Fits(t, aligned)
  IN  IF fits = {} THEN [t |-> t, ptr |-> null]
      ELSE LET m     == CHOOSE x \in fits : TRUE
               block == Head(t.blocks[m.fl][m.sl])
               gap   == Gap(block_to_ptr(block), align)
               taken == remove_free_block(t, block, m)
               lead  == IF gap = 0 THEN [t |-> taken, block |-> block]
                        ELSE block_trim_free_leading(taken, block, gap)
           IN  block_prepare_used(lead.t, lead.block, adjust)

tlsf_free(t, ptr) ==
  IF ptr = null THEN t
  ELSE LET freed  == block_mark_as_free(t, block_from_ptr(ptr))
           merged == block_merge_prev(freed, block_from_ptr(ptr))
       IN  block_insert(block_merge_next(merged.t, merged.block), merged.block)

(* Unchanged when the pool is too small or too large.  The block before a  *)
(* pool's first does not exist, and the last is a sentinel of size 0.      *)
tlsf_add_pool(t, mem, bytes) ==
  LET pool_bytes == bytes - 2 * block_header_overhead
      block == mem - block_header_overhead
      main  == [size |-> pool_bytes, free |-> TRUE, prev_free |-> FALSE, prev_phys |-> Garbage]
      last  == [size |-> 0, free |-> FALSE, prev_free |-> TRUE, prev_phys |-> block]
  IN  IF pool_bytes < block_size_min \/ pool_bytes > block_size_max THEN t
      ELSE block_insert([t EXCEPT !.header = With(With(@, block, main),
                                                  NextAfter(block, pool_bytes), last)],
                        block)

-----------------------------------------------------------------------------
(* What tlsf_check and the walker of tlsf_check_pool insist on.            *)

tlsf_check(t) ==
  \A fl \in 0 .. FL_INDEX_COUNT - 1 : \A sl \in 0 .. SL_INDEX_COUNT - 1 :
    /\ fl \notin t.fl_bitmap => sl \notin t.sl_bitmap[fl]
    /\ sl \notin t.sl_bitmap[fl] <=> t.blocks[fl][sl] = <<>>
    /\ \A k \in DOMAIN t.blocks[fl][sl] :
         LET block == t.blocks[fl][sl][k]
             next  == block_next(t, block)
         IN  /\ block \in DOMAIN t.header /\ next \in DOMAIN t.header
             /\ t.header[block].free /\ ~t.header[block].prev_free
             /\ ~t.header[next].free /\ t.header[next].prev_free
             /\ Size(t, block) >= block_size_min
             /\ mapping_insert(Size(t, block)) = [fl |-> fl, sl |-> sl]

tlsf_check_pool(t, pool) ==
  LET first == pool - block_header_overhead
  IN  /\ first \in DOMAIN t.header => ~t.header[first].prev_free
      /\ \A block \in DOMAIN t.header :
           LET next == block_next(t, block)
           IN  Size(t, block) # 0 =>
                 /\ next \in DOMAIN t.header
                 /\ t.header[next].prev_free = t.header[block].free
                 /\ t.header[next].prev_free => t.header[next].prev_phys = block
=============================================================================
