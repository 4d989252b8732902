------------------------------ MODULE Explicit ------------------------------
(***************************************************************************)
(* mm.c: the explicit free list allocator (malloc/explicit-82.c is the     *)
(* same code), on top of Memlib, called by a client that behaves like the  *)
(* request loop of eval_mm_valid in mdriver.c.                             *)
(*                                                                         *)
(* Free blocks form a circular doubly linked list threaded through their   *)
(* first two payload words; the prologue block, which is allocated for     *)
(* ever, is its sentinel.  An operator named after a C function takes the  *)
(* memory m (and the sentinel h) and returns the memory the function       *)
(* leaves, its stores made in the order of the code.  A call is a single   *)
(* step except for the loop of find_fit, which takes one step per block it *)
(* visits.                                                                 *)
(***************************************************************************)
EXTENDS BlockTags, Memlib

CONSTANTS CHUNKSIZE,  \* bytes asked of mem_sbrk when the heap must grow
          Ids,        \* indices of the client's blocks (trace->blocks)
          Sizes,      \* sizes the client requests
          Junk,       \* what the words of the region hold before first use
          MaxPasses   \* bound on the passes the driver makes

(* The client never asks for so much that the address of the new break     *)
(* wraps around (AnyMalloc makes calls that do).                           *)
ASSUME ExplicitAssumption ==
    /\ CHUNKSIZE \in Nat /\ CHUNKSIZE >= 16 /\ CHUNKSIZE % 8 = 0
    /\ mem_max_addr + CHUNKSIZE < WORD
    /\ Ids \subseteq Nat
    /\ Sizes \subseteq Nat /\ \A s \in Sizes : mem_max_addr + s + 16 < WORD
    /\ Junk \subseteq Nat
    /\ MaxPasses \in Nat

VARIABLES mem,          \* the words of the region
          heap_listp,   \* the sentinel
          blocks,       \* client: payload of each index, NULL when it has none
          block_sizes,  \* client: the size it asked for
          call,         \* the call in progress
          passes        \* passes begun

vars == <<mem, mem_brk, heap_listp, blocks, block_sizes, call, passes>>

-----------------------------------------------------------------------------
(* The free list. *)

PRED_P(m, bp) == GET(m, bp)
SUCC_P(m, bp) == GET(m, bp + WSIZE)

(* Slip: the head is moved before its old value is used. *)
list_add_HeadFirst(m, h, p) ==
    LET m1 == PUT(m, h + WSIZE, p)
        m2 == PUT(m1, p + WSIZE, SUCC_P(m1, h))
        m3 == PUT(m2, p, h)
    IN  PUT(m3, SUCC_P(m3, h), p)

list_add(m, h, p) ==
    LET m1 == PUT(m, p + WSIZE, SUCC_P(m, h))
        m2 == PUT(m1, p, h)
        m3 == PUT(m2, SUCC_P(m2, h), p)
    IN  PUT(m3, h + WSIZE, p)

list_remove(m, p) ==
    LET m1 == PUT(m, PRED_P(m, p) + WSIZE, SUCC_P(m, p))
    IN  PUT(m1, SUCC_P(m1, p), PRED_P(m1, p))

-----------------------------------------------------------------------------
(* Merging a block that has just become free with its free neighbours:    *)
(* the memory left and the block that results.                             *)

MergeNext(m, bp) ==
    LET nx == NEXT_BLKP(m, bp)
        m1 == list_remove(m, nx)
    IN  PutTags(m1, bp, GET_SIZE(m, HDRP(bp)) + GET_SIZE(m1, HDRP(nx)), 0)

MergePrev(m, bp) ==
    LET pv   == PREV_BLKP(m, bp)
        m1   == list_remove(m, pv)
        size == GET_SIZE(m, HDRP(bp)) + GET_SIZE(m1, HDRP(pv))
        m2   == PUT(m1, FTRP(m1, bp), PACK(size, 0))
    IN  PUT(m2, HDRP(pv), PACK(size, 0))

MergeBoth(m, bp) ==
    LET pv   == PREV_BLKP(m, bp)
        nx   == NEXT_BLKP(m, bp)
        m1   == list_remove(list_remove(m, pv), nx)
        size == GET_SIZE(m, HDRP(bp)) + GET_SIZE(m1, HDRP(pv))
                                      + GET_SIZE(m1, FTRP(m1, nx))
        m2   == PUT(m1, HDRP(pv), PACK(size, 0))
    IN  PUT(m2, FTRP(m2, nx), PACK(size, 0))

(* Slip: the block after bp is never looked at. *)
coalesce_NoNext(m, h, bp) ==
    LET pv         == PREV_BLKP(m, bp)
        prev_alloc == GET_ALLOC(m, FTRP(m, pv)) = 1
        start      == IF prev_alloc THEN bp ELSE pv
        merged     == IF prev_alloc THEN m ELSE MergePrev(m, bp)
    IN  [m |-> list_add(merged, h, start), bp |-> start]

coalesce(m, h, bp) ==
    LET pv         == PREV_BLKP(m, bp)
        prev_alloc == GET_ALLOC(m, FTRP(m, pv)) = 1
        next_alloc == GET_ALLOC(m, HDRP(NEXT_BLKP(m, bp))) = 1
        start      == IF prev_alloc THEN bp ELSE pv
        merged     == CASE prev_alloc /\ next_alloc   -> m
                        [] prev_alloc /\ ~next_alloc  -> MergeNext(m, bp)
                        [] ~prev_alloc /\ next_alloc  -> MergePrev(m, bp)
                        [] ~prev_alloc /\ ~next_alloc -> MergeBoth(m, bp)
    IN  [m |-> list_add(merged, h, start), bp |-> start]

(* Slips: a word for the epilogue is added twice; the block coalesce       *)
(* returns is not the one handed on.                                       *)
extend_heap_EpilogueTwice(m, h, brk, words) ==
    LET size == (IF words % 2 = 1 THEN words + 1 ELSE words) * WSIZE
        m1   == PutTags(m, brk, size, 0)
        m2   == PUT(m1, HDRP(NEXT_BLKP(m1, brk)), PACK(0, 1))
        c    == coalesce(m2, h, brk)
    IN  IF SbrkOK(brk, ToInt(size))
        THEN [ok |-> TRUE, m |-> c.m, bp |-> c.bp, brk |-> SbrkTo(brk, size + DSIZE)]
        ELSE [ok |-> FALSE, m |-> m, bp |-> NULL, brk |-> brk]

extend_heap_ForgetsMerge(m, h, brk, words) ==
    LET size == (IF words % 2 = 1 THEN words + 1 ELSE words) * WSIZE
        m1   == PutTags(m, brk, size, 0)
        m2   == PUT(m1, HDRP(NEXT_BLKP(m1, brk)), PACK(0, 1))
    IN  IF SbrkOK(brk, ToInt(size))
        THEN [ok |-> TRUE, m |-> coalesce(m2, h, brk).m, bp |-> brk,
              brk |-> SbrkTo(brk, size)]
        ELSE [ok |-> FALSE, m |-> m, bp |-> NULL, brk |-> brk]

(* The heap grows by an even number of words; the new free block starts   *)
(* where the epilogue header was, and a new epilogue is written after it.  *)
extend_heap(m, h, brk, words) ==
    LET size == (IF words % 2 = 1 THEN words + 1 ELSE words) * WSIZE
        bp   == brk
        m1   == PutTags(m, bp, size, 0)
        m2   == PUT(m1, HDRP(NEXT_BLKP(m1, bp)), PACK(0, 1))
        c    == coalesce(m2, h, bp)
    IN  IF SbrkOK(brk, ToInt(size))
        THEN [ok |-> TRUE, m |-> c.m, bp |-> c.bp, brk |-> SbrkTo(brk, size)]
        ELSE [ok |-> FALSE, m |-> m, bp |-> NULL, brk |-> brk]

(* Slip: a remainder too small for the links of a free block is split off. *)
place_SmallRest(m, h, p, size) ==
    LET free_block == GET_SIZE(m, HDRP(p))
        m1         == list_remove(m, p)
        m2         == PutTags(m1, p, size, 1)
        rest       == NEXT_BLKP(m2, p)
    IN  IF free_block - size >= DSIZE
        THEN list_add(PutTags(m2, rest, free_block - size, 0), h, rest)
        ELSE PutTags(m1, p, free_block, 1)

(* Cut an allocated block of size bytes off the free block p when what is  *)
(* left can be a block, otherwise hand out the whole of it.                *)
place(m, h, p, size) ==
    LET free_block == GET_SIZE(m, HDRP(p))
        m1         == list_remove(m, p)
        m2         == PutTags(m1, p, size, 1)
        rest       == NEXT_BLKP(m2, p)
    IN  IF free_block - size >= 2 * DSIZE
        THEN list_add(PutTags(m2, rest, free_block - size, 0), h, rest)
        ELSE PutTags(m1, p, free_block, 1)

mm_free(m, h, p) ==
    coalesce(PutTags(m, p, GET_SIZE(m, HDRP(p)), 0), h, p).m

(* Slip: no room for the tags. *)
AdjustedSize_NoTags(size) ==
    IF size <= DSIZE THEN 2 * DSIZE
                     ELSE DSIZE * ((size + (DSIZE - 1)) \div DSIZE)

(* The block size for a request: both tags, a multiple of 8, at least 16.  *)
AdjustedSize(size) ==
    IF size <= DSIZE THEN 2 * DSIZE
                     ELSE DSIZE * ((size + DSIZE + (DSIZE - 1)) \div DSIZE)

(* Slip: the prologue's links are left as the region had them. *)
InitialHeap_LinksKept(m, lo) ==
    LET m1 == PUT(m, lo, 0)
        m2 == PUT(m1, lo + 1 * WSIZE, PACK(2 * DSIZE, 1))
        m3 == PUT(m2, lo + 4 * WSIZE, PACK(2 * DSIZE, 1))
    IN  PUT(m3, lo + 5 * WSIZE, PACK(0, 1))

(* Padding, prologue (whose links name each other's words) and epilogue.   *)
InitialHeap(m, lo) ==
    LET m1 == PUT(m, lo, 0)
        m2 == PUT(m1, lo + 1 * WSIZE, PACK(2 * DSIZE, 1))
        m3 == PUT(m2, lo + 2 * WSIZE, lo + 3 * WSIZE)
        m4 == PUT(m3, lo + 3 * WSIZE, lo + 2 * WSIZE)
        m5 == PUT(m4, lo + 4 * WSIZE, PACK(2 * DSIZE, 1))
    IN  PUT(m5, lo + 5 * WSIZE, PACK(0, 1))

(* mm_init on a heap whose break is brk; (void * )-1 is WORD - 1. *)
mm_init(m, brk) ==
    LET h  == brk + 2 * WSIZE
        m1 == InitialHeap(m, brk)
        e  == extend_heap(m1, h, SbrkTo(brk, 6 * WSIZE), CHUNKSIZE \div WSIZE)
    IN  IF SbrkOK(brk, 6 * WSIZE)
        THEN [ok |-> e.ok, m |-> e.m, brk |-> e.brk, listp |-> h]
        ELSE [ok |-> FALSE, m |-> m, brk |-> brk, listp |-> WORD - 1]

(* Slips: the old block is freed before it is copied, or never. *)
MoveBlock_FreesFirst(m, h, oldptr, newptr, size) ==
    LET old       == GET_SIZE(m, HDRP(oldptr))
        copy_size == IF size < old THEN size ELSE old
    IN  memcpy(mm_free(m, h, oldptr), newptr, oldptr, copy_size)

MoveBlock_NeverFrees(m, h, oldptr, newptr, size) ==
    LET old       == GET_SIZE(m, HDRP(oldptr))
        copy_size == IF size < old THEN size ELSE old
    IN  memcpy(m, newptr, oldptr, copy_size)

(* What mm_realloc does once mm_malloc has given it newptr: the size it    *)
(* compares with is that of the old block, tags included.                  *)
MoveBlock(m, h, oldptr, newptr, size) ==
    LET old       == GET_SIZE(m, HDRP(oldptr))
        copy_size == IF size < old THEN size ELSE old
    IN  mm_free(memcpy(m, newptr, oldptr, copy_size), h, oldptr)

-----------------------------------------------------------------------------
(* The client and its calls. *)

(* The pattern memset fills the blocks of an index with. *)
Pattern(i) == i

Idle(failed) ==
    [pc |-> "idle", op |-> "none", id |-> 0, size |-> 0, ptr |-> NULL,
     keep |-> 0, failed |-> failed]

Down == [Idle(FALSE) EXCEPT !.pc = "down"]

Init ==
    /\ mem \in [Addr -> Junk]
    /\ mem_brk = mem_start_brk
    /\ heap_listp = NULL
    /\ blocks = [i \in Ids |-> NULL]
    /\ block_sizes = [i \in Ids |-> 0]
    /\ call = Down
    /\ passes = 0

(* A pass of the driver over a trace starts: mem_reset_brk, then mm_init   *)
(* over whatever the region held.  Blocks of the pass before are forgotten.*)
StartPass ==
    /\ call.pc \in {"down", "idle"}
    /\ passes < MaxPasses
    /\ passes' = passes + 1
    /\ LET r == mm_init(mem, mem_start_brk)
       IN  /\ mem' = r.m
           /\ mem_brk' = r.brk
           /\ heap_listp' = r.listp
           /\ call' = IF r.ok THEN Idle(FALSE) ELSE Down
    /\ blocks' = [i \in Ids |-> NULL]
    /\ block_sizes' = [i \in Ids |-> 0]

(* mm_malloc(0), and mm_realloc(p, 0), which calls it first: NULL, and the *)
(* old block stays.                                                        *)
RequestZero ==
    /\ call.pc = "idle"
    /\ 0 \in Sizes
    /\ call' = Idle(TRUE)
    /\ UNCHANGED <<mem, mem_brk, heap_listp, blocks, block_sizes, passes>>

Request(op, i, s) ==
    /\ call.pc = "idle"
    /\ s # 0
    /\ call' = [pc |-> "find", op |-> op, id |-> i, size |-> s,
                ptr |-> SUCC_P(mem, heap_listp), keep |-> 0, failed |-> FALSE]
    /\ UNCHANGED <<mem, mem_brk, heap_listp, blocks, block_sizes, passes>>

MallocCall(i, s)  == blocks[i] = NULL /\ Request("malloc", i, s)
ReallocCall(i, s) == blocks[i] # NULL /\ Request("realloc", i, s)

(* Slip: an exact fit is passed over. *)
Fits_Strict == AdjustedSize(call.size) < GET_SIZE(mem, HDRP(call.ptr))

(* find_fit: its loop stops at an allocated block, the sentinel. *)
AtFreeBlock == GET_ALLOC(mem, HDRP(call.ptr)) = 0
Fits == AdjustedSize(call.size) <= GET_SIZE(mem, HDRP(call.ptr))

(* The call hands bp to the client, on memory m. *)
Return(m, bp) ==
    LET i   == call.id
        old == block_sizes[i]
    IN  /\ mem' = IF call.op = "malloc" THEN m
                  ELSE MoveBlock(m, heap_listp, blocks[i], bp, call.size)
        /\ blocks' = [blocks EXCEPT ![i] = bp]
        /\ block_sizes' = [block_sizes EXCEPT ![i] = call.size]
        /\ call' = [call EXCEPT !.pc = "fill", !.ptr = bp,
                                !.keep = IF call.size < old THEN call.size ELSE old]
        /\ UNCHANGED <<heap_listp, passes>>

FindFitNext ==
    /\ call.pc = "find" /\ AtFreeBlock /\ ~Fits
    /\ call' = [call EXCEPT !.ptr = SUCC_P(mem, call.ptr)]
    /\ UNCHANGED <<mem, mem_brk, heap_listp, blocks, block_sizes, passes>>

FindFitFound ==
    /\ call.pc = "find" /\ AtFreeBlock /\ Fits
    /\ call' = [call EXCEPT !.pc = "place"]
    /\ UNCHANGED <<mem, mem_brk, heap_listp, blocks, block_sizes, passes>>

FindFitNone ==
    /\ call.pc = "find" /\ ~AtFreeBlock
    /\ call' = [call EXCEPT !.pc = "grow"]
    /\ UNCHANGED <<mem, mem_brk, heap_listp, blocks, block_sizes, passes>>

FindFit == FindFitNext \/ FindFitFound \/ FindFitNone

(* The rest of mm_malloc and mm_realloc after find_fit. *)
PlaceFit ==
    /\ call.pc = "place"
    /\ Return(place(mem, heap_listp, call.ptr, AdjustedSize(call.size)), call.ptr)
    /\ UNCHANGED mem_brk

Extended ==
    extend_heap(mem, heap_listp, mem_brk,
                MAX(AdjustedSize(call.size), CHUNKSIZE) \div WSIZE)

GrowAndPlace ==
    /\ call.pc = "grow"
    /\ Extended.ok
    /\ Return(place(Extended.m, heap_listp, Extended.bp, AdjustedSize(call.size)),
              Extended.bp)
    /\ mem_brk' = Extended.brk

GrowFails ==
    /\ call.pc = "grow"
    /\ ~Extended.ok
    /\ call' = Idle(TRUE)
    /\ UNCHANGED <<mem, mem_brk, heap_listp, blocks, block_sizes, passes>>

(* The client fills the block it was given. *)
Fill ==
    /\ call.pc = "fill"
    /\ mem' = [a \in Addr |-> IF a \in Words(call.ptr, call.size)
                              THEN Pattern(call.id) ELSE mem[a]]
    /\ call' = Idle(FALSE)
    /\ UNCHANGED <<mem_brk, heap_listp, blocks, block_sizes, passes>>

Free(i) ==
    /\ call.pc = "idle"
    /\ blocks[i] # NULL
    /\ mem' = mm_free(mem, heap_listp, blocks[i])
    /\ blocks' = [blocks EXCEPT ![i] = NULL]
    /\ block_sizes' = [block_sizes EXCEPT ![i] = 0]
    /\ call' = Idle(FALSE)
    /\ UNCHANGED <<mem_brk, heap_listp, passes>>

Next ==
    \/ StartPass
    \/ RequestZero
    \/ \E i \in Ids, s \in Sizes : MallocCall(i, s) \/ ReallocCall(i, s)
    \/ FindFit
    \/ PlaceFit \/ GrowAndPlace \/ GrowFails
    \/ Fill
    \/ \E i \in Ids : Free(i)

Spec == Init /\ [][Next]_vars

(* The process keeps running inside find_fit, the only loop of the library.*)
FairSpec == Spec /\ WF_vars(FindFit)
=============================================================================
