-------------------------------- MODULE Refer --------------------------------
(***************************************************************************)
(* malloc/refer/refer.c ("refer copy.c" is the same code): the reference   *)
(* explicit free list allocator, played by the driver.  Unlike mm.c its    *)
(* list is not a ring: free_listp, the only static variable, is the head,  *)
(* whose PREV_FREE is NULL, and the list ends at the prologue, whose own   *)
(* PREV_FREE is the last free block.  A call works on a heap [m, brk, st]. *)
(***************************************************************************)
EXTENDS BlockTags, Memlib, Sequences

CONSTANTS CHUNKSIZE, Ids, Sizes, Types, MaxOps, MaxTraces, Passes, Junk, BYTE

(* No request makes the address of the new break wrap around. *)
ASSUME ReferAssumption ==
    /\ CHUNKSIZE \in Nat /\ CHUNKSIZE >= 16 /\ CHUNKSIZE % 8 = 0
    /\ mem_max_addr + CHUNKSIZE < WORD
    /\ Sizes \subseteq Nat /\ \A s \in Sizes : mem_max_addr + s + 16 < WORD
    /\ Ids \subseteq Nat /\ Types \subseteq {"a", "r", "f"}
    /\ Junk \subseteq Nat /\ BYTE \in Nat \ {0}

VARIABLES mem, static, ops, next, phase, report, ranges, blocks, block_sizes,
          total_size, max_total_size, traces

ALIGN(size) == 8 * ((size + 7) \div 8)

PREV_FREE(m, bp) == GET(m, bp)
NEXT_FREE(m, bp) == GET(m, bp + WSIZE)

add_block(h, bp) ==
    LET m1 == PUT(PUT(h.m, bp + WSIZE, h.st), bp, NULL)
    IN  [h EXCEPT !.m = PUT(m1, h.st, bp), !.st = bp]

(* Slip: free_listp is not moved when the head goes. *)
remove_block_KeepsHead(h, bp) ==
    LET m1 == PUT(h.m, NEXT_FREE(h.m, bp), PREV_FREE(h.m, bp))
    IN  IF bp = h.st THEN [h EXCEPT !.m = m1]
        ELSE [h EXCEPT !.m = PUT(m1, PREV_FREE(m1, bp) + WSIZE, NEXT_FREE(m1, bp))]

remove_block(h, bp) ==
    IF bp = h.st
    THEN [h EXCEPT !.m = PUT(@, NEXT_FREE(@, bp), NULL), !.st = NEXT_FREE(h.m, bp)]
    ELSE LET m1 == PUT(h.m, NEXT_FREE(h.m, bp), PREV_FREE(h.m, bp))
         IN  [h EXCEPT !.m = PUT(m1, PREV_FREE(m1, bp) + WSIZE, NEXT_FREE(m1, bp))]

(* Sizes are read before the neighbours leave the list.                    *)
coalesce(h, bp) ==
    LET m          == h.m
        pv         == PREV_BLKP(m, bp)
        nx         == NEXT_BLKP(m, bp)
        size       == GET_SIZE(m, HDRP(bp))
        prev_alloc == GET_ALLOC(m, FTRP(m, pv)) = 1
        next_alloc == GET_ALLOC(m, HDRP(nx)) = 1
        Next2      == remove_block(h, nx)
        Prev2      == remove_block(h, pv)
        Both2      == remove_block(Next2, pv)
        PrevTags(mm, all) == PUT(PUT(mm, FTRP(mm, bp), PACK(all, 0)), HDRP(pv), PACK(all, 0))
        BothTags(mm, all) == PUT(PUT(mm, HDRP(pv), PACK(all, 0)), FTRP(mm, nx), PACK(all, 0))
        start      == IF prev_alloc THEN bp ELSE pv
        merged ==
            CASE prev_alloc /\ next_alloc  -> h
              [] prev_alloc /\ ~next_alloc ->
                    [Next2 EXCEPT !.m = PutTags(@, bp, size + GET_SIZE(m, HDRP(nx)), 0)]
              [] ~prev_alloc /\ next_alloc ->
                    [Prev2 EXCEPT !.m = PrevTags(@, size + GET_SIZE(m, HDRP(pv)))]
              [] ~prev_alloc /\ ~next_alloc ->
                    [Both2 EXCEPT !.m = BothTags(@, size + GET_SIZE(m, HDRP(pv))
                                                         + GET_SIZE(m, FTRP(m, nx)))]
    IN  [p |-> start, h |-> add_block(merged, start)]

(* p is NULL when mem_sbrk fails. *)
extend_heap(h, words) ==
    LET size == (IF words % 2 = 1 THEN words + 1 ELSE words) * WSIZE
        m1   == PutTags(h.m, h.brk, size, 0)
        m2   == PUT(m1, HDRP(NEXT_BLKP(m1, h.brk)), PACK(0, 1))
    IN  IF SbrkOK(h.brk, ToInt(size))
        THEN coalesce([h EXCEPT !.m = m2, !.brk = SbrkTo(@, size)], h.brk)
        ELSE [p |-> NULL, h |-> h]

(* The words mm_init writes at lo: padding, prologue, epilogue.            *)
InitialWord(lo, a) ==
    CASE a = lo + 1 * WSIZE -> PACK(4 * WSIZE, 1)
      [] a = lo + 4 * WSIZE -> PACK(4 * WSIZE, 1)
      [] a = lo + 5 * WSIZE -> PACK(0, 1)
      [] OTHER              -> 0

mm_init(h) ==
    LET lo == h.brk
        m1 == [a \in Addr |-> IF a \in Words(lo, 6 * WSIZE) THEN InitialWord(lo, a) ELSE h.m[a]]
    IN  IF SbrkOK(lo, 6 * WSIZE)
        THEN {extend_heap([m |-> m1, brk |-> SbrkTo(lo, 6 * WSIZE), st |-> lo + 2 * WSIZE],
                          CHUNKSIZE \div WSIZE)}
        ELSE {[p |-> NULL, h |-> h]}

(* The blocks on the list from bp on: bp, the one after it and so on until *)
(* the first allocated one, the prologue, at which the rest of them stays. *)
Listed(m, bp) ==
    LET b[i \in 0 .. MAX_HEAP \div DSIZE] ==
            IF i = 0 THEN bp
            ELSE IF GET_ALLOC(m, HDRP(b[i - 1])) = 1 THEN b[i - 1]
            ELSE NEXT_FREE(m, b[i - 1])
    IN  b

(* First fit along the list, which ends at the prologue.                   *)
find_fit_first(m, bp, asize) ==
    LET b       == Listed(m, bp)
        Ends(i) == GET_ALLOC(m, HDRP(b[i])) = 1
        Goes(i) == ~Ends(i) /\ GET_SIZE(m, HDRP(b[i])) < asize
        n       == CHOOSE i \in DOMAIN b : ~Goes(i) /\ \A j \in 0 .. i - 1 : Goes(j)
    IN  IF Ends(n) THEN NULL ELSE b[n]

(* bp stays in the list: its caller takes it out.                          *)
place(h, bp, asize) ==
    LET block_size == GET_SIZE(h.m, HDRP(bp))
        m1         == PutTags(h.m, bp, asize, 1)
        rest       == NEXT_BLKP(m1, bp)
    IN  IF block_size - asize >= 2 * DSIZE
        THEN add_block([h EXCEPT !.m = PutTags(m1, rest, block_size - asize, 0)], rest)
        ELSE [h EXCEPT !.m = PutTags(@, bp, block_size, 1)]

Malloc(h, size) ==
    LET newsize == ALIGN(size + DSIZE)
        bp      == find_fit_first(h.m, h.st, newsize)
        e       == extend_heap(h, MAX(newsize, CHUNKSIZE) \div WSIZE)
        Placed(hh, b) == [p |-> b, h |-> remove_block(place(hh, b, newsize), b)]
    IN  IF size = 0 THEN [p |-> NULL, h |-> h]
        ELSE IF bp # NULL THEN Placed(h, bp)
        ELSE IF e.p # NULL THEN Placed(e.h, e.p)
        ELSE e

mm_malloc(h, size) == {Malloc(h, size)}

(* Slip: the freed block joins the list but is not merged.                 *)
Release_NoCoalesce(h, ptr) ==
    add_block([h EXCEPT !.m = PutTags(@, ptr, GET_SIZE(@, HDRP(ptr)), 0)], ptr)

(* The heap mm_free leaves.                                                *)
Release(h, ptr) ==
    coalesce([h EXCEPT !.m = PutTags(@, ptr, GET_SIZE(@, HDRP(ptr)), 0)], ptr).h

mm_free(h, ptr) == {[p |-> NULL, h |-> Release(h, ptr)]}

(* Slip: the size of the new block bounds the copy, after the old one has  *)
(* been given back.                                                        *)
mm_realloc_FreesFirst(h, oldptr, size) ==
    LET r == Malloc(Release(h, oldptr), size)
    IN  IF r.p = NULL THEN {r} ELSE {[r EXCEPT !.h.m = memcpy(@, r.p, oldptr, size)]}

mm_realloc(h, oldptr, size) ==
    LET r        == Malloc(h, size)
        old      == GET_SIZE(r.h.m, HDRP(oldptr))
        copySize == IF size < old THEN size ELSE old
        copied   == [r.h EXCEPT !.m = memcpy(@, r.p, oldptr, copySize)]
    IN  IF r.p = NULL THEN {r} ELSE {[p |-> r.p, h |-> Release(copied, oldptr)]}

-----------------------------------------------------------------------------
Static == NULL

D == INSTANCE Driver

Spec == D!Spec

(* The driver never faults refer.c.                                        *)
NeverFaulted   == D!NeverFaulted

(* A trace refer.c has served once it serves again, over stale memory.     *)
ReplaySucceeds == D!ReplaySucceeds

Prologue == mem_start_brk + 2 * WSIZE

(* The free blocks of the heap: those met from the prologue to the epilogue. *)
FreeBlocks ==
    LET b[i \in 0 .. MAX_HEAP \div DSIZE] ==
            IF i = 0 THEN Prologue ELSE NEXT_BLKP(mem, b[i - 1])
    IN  {bp \in {b[i] : i \in DOMAIN b} : GET_ALLOC(mem, HDRP(bp)) = 0}

(* Between two calls the list, from its head to the prologue, holds every  *)
(* free block of the heap once and nothing else, with matching back        *)
(* pointers, and no two free blocks touch.                                 *)
ListExact ==
    phase \in {"valid", "util", "speed"} =>
        LET b == Listed(mem, static)
            F == FreeBlocks
        IN  /\ \E n \in DOMAIN b :
                  /\ b[n] = Prologue /\ F = {b[i] : i \in 0 .. n - 1}
                  /\ \A i, j \in 0 .. n : b[i] = b[j] => i = j
                  /\ \A i \in 0 .. n :
                        PREV_FREE(mem, b[i]) = IF i = 0 THEN NULL ELSE b[i - 1]
            /\ \A bp \in F : NEXT_BLKP(mem, bp) \notin F
=============================================================================
