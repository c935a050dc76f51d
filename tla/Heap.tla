-------------------------------- MODULE Heap --------------------------------
(***************************************************************************)
(* heap.c: a TLSF allocator behind a mutex, which grows by arenas taken    *)
(* from VirtualAlloc.  All a call does, it does with the mutex held, so    *)
(* that a call is one step; but one that finds no memory returns without   *)
(* unlocking.  The mutex is a Win32 one: its owner may lock it again.      *)
(*                                                                         *)
(* Sizes asked for and grow_increment count bytes; addresses, alignments   *)
(* and the sizes of blocks and arenas count words, as in Tlsf.             *)
(***************************************************************************)
EXTENDS Tlsf

CONSTANTS Threads, Nobody,
          Sizes, Alignments,  \* what is asked for
          grow_increment,
          MaxArenas,          \* bound: the memory there is
          MaxHeld             \* bound: blocks held when another is asked for

ASSUME HeapAssumption == /\ Sizes \subseteq Nat /\ Alignments \subseteq Nat \ {0}
                         /\ grow_increment \in Nat /\ MaxArenas \in Nat
                         /\ Nobody \notin Threads

Request(size, alignment) == [op |-> "alloc", size |-> size, alignment |-> alignment, ptr |-> null]
Return(ptr)              == [op |-> "free", size |-> 0, alignment |-> 1, ptr |-> ptr]
Idle                     == [op |-> "none", size |-> 0, alignment |-> 1, ptr |-> null]

VARIABLES tlsf,       \* the control structure and the blocks
          arenas,     \* start and size of each, arena_t included
          owner,      \* of the mutex
          call,       \* what each thread is in, or waits for
          held,       \* what was returned and not freed: ptr, words, alignment
          refused,    \* history: sizes that got NULL although there was memory
          alive       \* until heap_destroy

heapVars == <<tlsf, arenas, owner, call, held, refused, alive>>

HeapInit == /\ tlsf = control_construct
            /\ arenas = <<>> /\ owner = Nobody
            /\ call = [thread \in Threads |-> Idle]
            /\ held = {} /\ refused = {} /\ alive = TRUE

-----------------------------------------------------------------------------
(* Callers: a block is freed once, by any thread.                          *)

CallAlloc(thread) ==
  /\ alive /\ call[thread] = Idle /\ Cardinality(held) <= MaxHeld
  /\ \E size \in Sizes, alignment \in Alignments :
       call' = [call EXCEPT ![thread] = Request(size, alignment)]
  /\ UNCHANGED <<tlsf, arenas, owner, held, refused, alive>>

CallFree(thread) ==
  /\ alive /\ call[thread] = Idle
  /\ \E block \in held : /\ call' = [call EXCEPT ![thread] = Return(block.ptr)]
                         /\ held' = held \ {block}
  /\ UNCHANGED <<tlsf, arenas, owner, refused, alive>>

-----------------------------------------------------------------------------
(* heap_alloc and heap_free, with the mutex.                               *)

Locks(thread) == alive /\ owner \in {Nobody, thread}
Entered(thread, op) == Locks(thread) /\ call[thread].op = op

(* A request is rounded up to words.                                       *)
ALIGN_SIZE     == 8
InWords(bytes) == (bytes + ALIGN_SIZE - 1) \div ALIGN_SIZE

(* The call ends with result, of tlsf_memalign.                            *)
Returns(thread, result) ==
  /\ tlsf' = result.t
  /\ call' = [call EXCEPT ![thread] = Idle]
  /\ held' = IF result.ptr = null THEN held
             ELSE held \cup {[ptr |-> result.ptr, words |-> InWords(call[thread].size),
                              alignment |-> call[thread].alignment]}

Memalign(thread, state) ==
  tlsf_memalign(state, call[thread].alignment, InWords(call[thread].size))

AllocFits(thread) ==
  /\ Entered(thread, "alloc")
  /\ Memalign(thread, tlsf).ptr # null
  /\ Returns(thread, Memalign(thread, tlsf))
  /\ UNCHANGED <<arenas, owner, refused, alive>>

(* An arena is an arena_t of two words, then the pool; VirtualAlloc places *)
(* it anywhere, at a multiple of more than any alignment.  Its size is     *)
(* reckoned in bytes, and what is left over of a word is not used.         *)
ArenaHeader == 2

(* FAULT: the size asked for may not fit with its overhead. *)
arena_size_tight(size) == Max({grow_increment, size}) + ArenaHeader * ALIGN_SIZE

arena_size(size) == Max({grow_increment, size * 2}) + ArenaHeader * ALIGN_SIZE
ArenaStart       == (Len(arenas) + 1) * 2 * block_size_max

AllocGrows(thread) ==
  LET words  == arena_size(call[thread].size) \div ALIGN_SIZE
      grown  == tlsf_add_pool(tlsf, ArenaStart + ArenaHeader, words)
      result == Memalign(thread, grown)
  IN  /\ Entered(thread, "alloc")
      /\ Memalign(thread, tlsf).ptr = null /\ Len(arenas) < MaxArenas
      /\ arenas' = Append(arenas, [start |-> ArenaStart,
                                   words |-> words + 2 * block_header_overhead])
      /\ Returns(thread, result)
      /\ refused' = IF result.ptr = null THEN refused \cup {call[thread].size} ELSE refused
      /\ UNCHANGED <<owner, alive>>

AllocFails(thread) ==
  /\ Entered(thread, "alloc")
  /\ Memalign(thread, tlsf).ptr = null
  /\ call' = [call EXCEPT ![thread] = Idle]
  /\ owner' = thread
  /\ UNCHANGED <<tlsf, arenas, held, refused, alive>>

Free(thread) ==
  /\ Entered(thread, "free")
  /\ tlsf' = tlsf_free(tlsf, call[thread].ptr)
  /\ call' = [call EXCEPT ![thread] = Idle]
  /\ UNCHANGED <<arenas, owner, held, refused, alive>>

(* heap_destroy, when every thread has done with the heap; what is still   *)
(* held goes with its arena.                                               *)
HeapDestroy ==
  /\ alive /\ \A thread \in Threads : call[thread] = Idle
  /\ alive' = FALSE /\ arenas' = <<>> /\ held' = {} /\ tlsf' = control_construct
  /\ UNCHANGED <<owner, call, refused>>

-----------------------------------------------------------------------------
Ended == ~alive /\ UNCHANGED heapVars

Serve(thread) == AllocFits(thread) \/ AllocGrows(thread) \/ AllocFails(thread) \/ Free(thread)

HeapNext == \/ \E thread \in Threads : CallAlloc(thread) \/ CallFree(thread) \/ Serve(thread)
            \/ HeapDestroy
            \/ Ended

HeapSpec == HeapInit /\ [][HeapNext]_heapVars

-----------------------------------------------------------------------------
Listed(block) == {p \in (0 .. FL_INDEX_COUNT - 1) \X (0 .. SL_INDEX_COUNT - 1)
                       \X (1 .. Cardinality(DOMAIN tlsf.header)) :
                   /\ p[3] \in DOMAIN tlsf.blocks[p[1]][p[2]]
                   /\ tlsf.blocks[p[1]][p[2]][p[3]] = block}

(* What tlsf_check and tlsf_check_pool test holds between any two calls,   *)
(* and besides: a block is in a free list, once, exactly when it is free.  *)
(* (tlsf.c:844-894, 932-939)                                               *)
ChecksPass ==
  /\ tlsf_check(tlsf)
  /\ \A n \in DOMAIN arenas : tlsf_check_pool(tlsf, arenas[n].start + ArenaHeader)
  /\ \A block \in DOMAIN tlsf.header :
       Cardinality(Listed(block)) = IF tlsf.header[block].free THEN 1 ELSE 0

(* Aligned, as large as they asked for, within one arena, and apart from   *)
(* each other, from the size of every block and the links of a free one.   *)
Words(block) == block.ptr .. block.ptr + block.words - 1

Header(b) == IF tlsf.header[b].free THEN b + 1 .. b + header_size - 1 ELSE {b + 1}

CallersApart ==
  /\ \A a \in held :
       /\ a.ptr % a.alignment = 0
       /\ \E n \in DOMAIN arenas :
            Words(a) \subseteq arenas[n].start + ArenaHeader .. arenas[n].start + arenas[n].words - 1
       /\ \A b \in held : a = b \/ Words(a) \cap Words(b) = {}
       /\ \A b \in DOMAIN tlsf.header : Words(a) \cap Header(b) = {}

(* Whatever is asked for and given back, in any order, by any thread: the  *)
(* allocator's own checks pass, and what callers hold is theirs alone.     *)
(* (tlsf.c:844-939, heap.c:47-86)                                          *)
BlocksSound == ChecksPass /\ CallersApart

(* With a new arena every request is met, whatever was asked for and given *)
(* back before, but for the empty one, which takes an arena and gets NULL  *)
(* all the same.  (heap.c:52-74, tlsf.c:986)                               *)
GrowthSuffices == refused \subseteq {0}
=============================================================================
