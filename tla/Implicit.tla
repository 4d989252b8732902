------------------------------ MODULE Implicit ------------------------------
(***************************************************************************)
(* malloc/implicit-54.c (implicit-53.c is the same code): the implicit     *)
(* free list allocator, first fit over all blocks, played by the driver.   *)
(* A call works on a heap [m, brk, st], st being heap_listp, and gives the *)
(* one outcome [p, h] it has.                                              *)
(***************************************************************************)
EXTENDS BlockTags, Memlib, Sequences

CONSTANTS CHUNKSIZE, Ids, Sizes, Types, MaxOps, MaxTraces, Passes, Junk, BYTE

(* No request makes the address of the new break wrap around. *)
ASSUME ImplicitAssumption ==
    /\ CHUNKSIZE \in Nat /\ CHUNKSIZE >= 16 /\ CHUNKSIZE % 8 = 0
    /\ mem_max_addr + CHUNKSIZE < WORD
    /\ Sizes \subseteq Nat /\ \A s \in Sizes : mem_max_addr + s + 16 < WORD
    /\ Ids \subseteq Nat /\ Types \subseteq {"a", "r", "f"}
    /\ Junk \subseteq Nat /\ BYTE \in Nat \ {0}

VARIABLES mem, static, ops, next, phase, report, ranges, blocks, block_sizes,
          total_size, max_total_size, traces

(* Slip: only the block after bp is ever merged with it, as if the one     *)
(* before were allocated.                                                  *)
coalesce_NoPrev(m, bp) ==
    LET nx   == NEXT_BLKP(m, bp)
        size == GET_SIZE(m, HDRP(bp)) + GET_SIZE(m, HDRP(nx))
    IN  IF GET_ALLOC(m, HDRP(nx)) = 1 THEN [m |-> m, bp |-> bp]
        ELSE [m |-> PutTags(m, bp, size, 0), bp |-> bp]

(* The memory with bp merged with its free neighbours, and the block that  *)
(* results.  Sizes are read before any tag is written, as in the code.     *)
coalesce(m, bp) ==
    LET pv   == PREV_BLKP(m, bp)
        nx   == NEXT_BLKP(m, bp)
        size == GET_SIZE(m, HDRP(bp))
        prev_alloc == GET_ALLOC(m, FTRP(m, pv)) = 1
        next_alloc == GET_ALLOC(m, HDRP(nx)) = 1
    IN  CASE prev_alloc /\ next_alloc  -> [m |-> m, bp |-> bp]
          [] prev_alloc /\ ~next_alloc ->
                [m |-> PutTags(m, bp, size + GET_SIZE(m, HDRP(nx)), 0), bp |-> bp]
          [] ~prev_alloc /\ next_alloc ->
                LET all == size + GET_SIZE(m, HDRP(pv))
                IN  [m  |-> PUT(PUT(m, FTRP(m, bp), PACK(all, 0)), HDRP(pv), PACK(all, 0)),
                     bp |-> pv]
          [] ~prev_alloc /\ ~next_alloc ->
                LET all == size + GET_SIZE(m, HDRP(pv)) + GET_SIZE(m, FTRP(m, nx))
                IN  [m  |-> PUT(PUT(m, HDRP(pv), PACK(all, 0)), FTRP(m, nx), PACK(all, 0)),
                     bp |-> pv]

(* p is NULL when mem_sbrk fails. *)
extend_heap(h, words) ==
    LET size == (IF words % 2 = 1 THEN words + 1 ELSE words) * WSIZE
        m1   == PutTags(h.m, h.brk, size, 0)
        m2   == PUT(m1, HDRP(NEXT_BLKP(m1, h.brk)), PACK(0, 1))
        c    == coalesce(m2, h.brk)
    IN  IF SbrkOK(h.brk, ToInt(size))
        THEN [p |-> c.bp, h |-> [h EXCEPT !.m = c.m, !.brk = SbrkTo(@, size)]]
        ELSE [p |-> NULL, h |-> h]

(* Padding, prologue and epilogue, then the first free block; the driver   *)
(* only asks whether the result is -1, so p is NULL for that.              *)
mm_init(h) ==
    LET lo == h.brk
        m1 == PUT(PUT(h.m, lo, 0), lo + 1 * WSIZE, PACK(DSIZE, 1))
        m2 == PUT(PUT(m1, lo + 2 * WSIZE, PACK(DSIZE, 1)), lo + 3 * WSIZE, PACK(0, 1))
    IN  IF SbrkOK(lo, 4 * WSIZE)
        THEN {extend_heap([m |-> m2, brk |-> SbrkTo(lo, 4 * WSIZE), st |-> lo + 2 * WSIZE],
                          CHUNKSIZE \div WSIZE)}
        ELSE {[p |-> NULL, h |-> [h EXCEPT !.st = WORD - 1]]}

(* The blocks a loop over the heap visits: bp, and by each step of         *)
(* NEXT_BLKP the next one, until the epilogue, whose size is 0, stays.  No *)
(* heap has more blocks than double words.                                 *)
Visited(m, bp) ==
    LET block[i \in 0 .. MAX_HEAP \div DSIZE] ==
            IF i = 0 THEN bp ELSE NEXT_BLKP(m, block[i - 1])
    IN  block

AtEnd(m, bp) == GET_SIZE(m, HDRP(bp)) = 0

(* First fit from bp on, up to the epilogue. *)
find_fit(m, bp, asize) ==
    LET b       == Visited(m, bp)
        Fits(i) == GET_ALLOC(m, HDRP(b[i])) = 0 /\ asize <= GET_SIZE(m, HDRP(b[i]))
        Goes(i) == ~AtEnd(m, b[i]) /\ ~Fits(i)
        n == CHOOSE i \in DOMAIN b : ~Goes(i) /\ \A j \in 0 .. i - 1 : Goes(j)
    IN  IF AtEnd(m, b[n]) THEN NULL ELSE b[n]

place(m, bp, asize) ==
    LET csize == GET_SIZE(m, HDRP(bp))
        m1    == PutTags(m, bp, asize, 1)
    IN  IF csize - asize >= 2 * DSIZE
        THEN PutTags(m1, NEXT_BLKP(m1, bp), csize - asize, 0)
        ELSE PutTags(m, bp, csize, 1)

AdjustedSize(size) ==
    IF size <= DSIZE THEN 2 * DSIZE
                     ELSE DSIZE * ((size + DSIZE + (DSIZE - 1)) \div DSIZE)

Malloc(h, size) ==
    LET asize == AdjustedSize(size)
        bp    == find_fit(h.m, h.st, asize)
        e     == extend_heap(h, MAX(asize, CHUNKSIZE) \div WSIZE)
        Placed(hh, b) == [p |-> b, h |-> [hh EXCEPT !.m = place(@, b, asize)]]
    IN  IF size = 0 THEN [p |-> NULL, h |-> h]
        ELSE IF bp # NULL THEN Placed(h, bp)
        ELSE IF e.p # NULL THEN Placed(e.h, e.p)
        ELSE e

mm_malloc(h, size) == {Malloc(h, size)}

FreeIn(m, bp) == coalesce(PutTags(m, bp, GET_SIZE(m, HDRP(bp)), 0), bp).m

mm_free(h, bp) == {[p |-> NULL, h |-> [h EXCEPT !.m = FreeIn(@, bp)]]}

(* Slip: the old block is freed before its data is copied. *)
mm_realloc_FreesFirst(h, oldptr, size) ==
    LET old      == GET_SIZE(h.m, HDRP(oldptr))
        r        == Malloc([h EXCEPT !.m = FreeIn(@, oldptr)], size)
        copySize == IF size < old THEN size ELSE old
    IN  IF r.p = NULL THEN {r} ELSE {[r EXCEPT !.h.m = memcpy(@, r.p, oldptr, copySize)]}

(* The old block's size, tags included, bounds the copy. *)
mm_realloc(h, oldptr, size) ==
    LET r        == Malloc(h, size)
        old      == GET_SIZE(r.h.m, HDRP(oldptr))
        copySize == IF size < old THEN size ELSE old
    IN  IF r.p = NULL THEN {r}
        ELSE {[r EXCEPT !.h.m = FreeIn(memcpy(@, r.p, oldptr, copySize), oldptr)]}

-----------------------------------------------------------------------------
Static == NULL

D == INSTANCE Driver

Spec == D!Spec

(* The driver never faults implicit-54.c.                                  *)
NeverFaulted == D!NeverFaulted

(* A trace implicit-54.c has served once it serves again, over the memory  *)
(* the earlier passes left.                                                *)
ReplaySucceeds == D!ReplaySucceeds

(* Its utilization never exceeds 1.                                        *)
UtilAtMostOne == D!UtilAtMostOne

(* "mm_realloc did not preserve the data" is said only when it is so.      *)
DataBlameFair == D!DataBlameFair

(* Between two calls find_fit's walk over the heap is complete: following  *)
(* NEXT_BLKP from the prologue reaches the epilogue, the last word of the  *)
(* heap, over blocks whose two tags agree, no two neighbours being free:   *)
(* no call leaves a wrong tag, a gap or two free neighbours behind.        *)
HeapWalks ==
    phase \in {"valid", "util", "speed"} =>
        LET b == Visited(mem, static)
            Alloc(i) == GET_ALLOC(mem, HDRP(b[i])) = 1
        IN  \E n \in DOMAIN b :
               /\ b[n] = mem_brk /\ GET(mem, HDRP(b[n])) = PACK(0, 1)
               /\ \A i \in 0 .. n - 1 :
                     /\ ~AtEnd(mem, b[i]) /\ b[i + 1] <= mem_brk
                     /\ GET(mem, FTRP(mem, b[i])) = GET(mem, HDRP(b[i]))
                     /\ Alloc(i) \/ i = 0 \/ Alloc(i - 1)
=============================================================================
