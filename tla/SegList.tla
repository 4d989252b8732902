------------------------------- MODULE SegList -------------------------------
(***************************************************************************)
(* malloc/segregated_list-85.c (malloc/refer/seglist.c is the same code):  *)
(* segregated free lists, played by the driver.  Group g holds the free    *)
(* blocks whose size has its highest bit at g, smallest first, in a list   *)
(* that ends with NULL both ways.  A call works on a heap [m, brk, st], st *)
(* being group_free_listp.                                                 *)
(***************************************************************************)
EXTENDS BlockTags, Memlib, Sequences

CONSTANTS CHUNKSIZE, GROUPSIZE,
          Ids, Sizes, Types, MaxOps, MaxTraces, Passes, Junk, BYTE

(* No request makes the address of the new break wrap around. *)
ASSUME SegListAssumption ==
    /\ CHUNKSIZE \in Nat /\ CHUNKSIZE >= 16 /\ CHUNKSIZE % 8 = 0
    /\ GROUPSIZE \in Nat \ {0}
    /\ mem_max_addr + CHUNKSIZE < WORD
    /\ Sizes \subseteq Nat /\ \A s \in Sizes : mem_max_addr + s + 16 < WORD
    /\ Ids \subseteq Nat /\ Types \subseteq {"a", "r", "f"}
    /\ Junk \subseteq Nat /\ BYTE \in Nat \ {0}

VARIABLES mem, static, ops, next, phase, report, ranges, blocks, block_sizes,
          total_size, max_total_size, traces

Groups == 0 .. GROUPSIZE - 1

ALIGN(size) == 8 * ((size + 7) \div 8)

PREV_FREE(m, bp) == GET(m, bp)
NEXT_FREE(m, bp) == GET(m, bp + WSIZE)
SetPrev(m, bp, p) == PUT(m, bp, p)
SetNext(m, bp, p) == PUT(m, bp + WSIZE, p)

(* How often size can be halved before it is 1; the last group takes all   *)
(* the larger sizes.                                                       *)
Group(size) ==
    LET Ends(g) == g = GROUPSIZE - 1 \/ size \div 2^g <= 1
    IN  CHOOSE g \in Groups : Ends(g) /\ \A f \in Groups : f < g => ~Ends(f)

(* The blocks of a list from bp on, then NULL.                             *)
After(m, bp) == IF bp = NULL THEN NULL ELSE NEXT_FREE(m, bp)

Listed(m, bp) ==
    LET b[i \in 0 .. MAX_HEAP \div DSIZE] == IF i = 0 THEN bp ELSE After(m, b[i - 1])
    IN  b

(* The first block from bp on that is not smaller than size, NULL when     *)
(* there is none, and the one before it.                                   *)
Seek(m, bp, size) ==
    LET Stops(b, i) == b[i] = NULL \/ size <= GET_SIZE(m, HDRP(b[i]))
        At(b, n)    == [prev |-> IF n = 0 THEN NULL ELSE b[n - 1], curr |-> b[n]]
        First(b)    == At(b, CHOOSE i \in DOMAIN b :
                              Stops(b, i) /\ \A j \in 0 .. i - 1 : ~Stops(b, j))
    IN  First(Listed(m, bp))

(* Slip: the new block's own back pointer is forgotten.                    *)
Splice_NoBack(h, g, at, bp) ==
    LET m1 == SetNext(h.m, bp, at.curr)
        m2 == IF at.curr # NULL THEN SetPrev(m1, at.curr, bp) ELSE m1
    IN  IF at.prev = NULL THEN [h EXCEPT !.m = m2, !.st[g] = bp]
        ELSE [h EXCEPT !.m = SetNext(m2, at.prev, bp)]

(* bp comes into the list of group g, between at.prev and at.curr.         *)
Splice(h, g, at, bp) ==
    LET m1 == SetPrev(SetNext(h.m, bp, at.curr), bp, at.prev)
        m2 == IF at.curr # NULL THEN SetPrev(m1, at.curr, bp) ELSE m1
    IN  IF at.prev = NULL THEN [h EXCEPT !.m = m2, !.st[g] = bp]
        ELSE [h EXCEPT !.m = SetNext(m2, at.prev, bp)]

add_block(h, bp, size) ==
    LET g == Group(size)
    IN  Splice(h, g, Seek(h.m, h.st[g], size), bp)

(* The group is that of the size the block has in its header; whether the  *)
(* block is free is not looked at.                                         *)
remove_block(h, bp) ==
    LET g  == Group(GET_SIZE(h.m, HDRP(bp)))
        nx == NEXT_FREE(h.m, bp)
        pv == PREV_FREE(h.m, bp)
    IN  CASE nx = NULL /\ pv = NULL -> [h EXCEPT !.st[g] = NULL]
          [] nx = NULL /\ pv # NULL -> [h EXCEPT !.m = SetNext(@, pv, NULL)]
          [] nx # NULL /\ pv = NULL -> [h EXCEPT !.m = SetPrev(@, nx, NULL), !.st[g] = nx]
          [] nx # NULL /\ pv # NULL -> [h EXCEPT !.m = SetNext(SetPrev(@, nx, pv), pv, nx)]

(* Slip: only the block after bp is merged with it.                        *)
coalesce_NextOnly(h, bp) ==
    LET m    == h.m
        nx   == NEXT_BLKP(m, bp)
        size == GET_SIZE(m, HDRP(bp))
        all  == size + GET_SIZE(m, HDRP(nx))
    IN  IF GET_ALLOC(m, HDRP(nx)) = 1 THEN [p |-> bp, h |-> add_block(h, bp, size)]
        ELSE [p |-> bp, h |-> add_block([remove_block(h, nx) EXCEPT
                                             !.m = PutTags(@, bp, all, 0)], bp, all)]

coalesce(h, bp) ==
    LET m          == h.m
        pv         == PREV_BLKP(m, bp)
        nx         == NEXT_BLKP(m, bp)
        prev_alloc == GET_ALLOC(m, FTRP(m, pv)) = 1
        next_alloc == GET_ALLOC(m, HDRP(nx)) = 1
        start      == IF prev_alloc THEN bp ELSE pv
        size       == GET_SIZE(m, HDRP(bp))
                        + (IF next_alloc THEN 0 ELSE GET_SIZE(m, HDRP(nx)))
                        + (IF prev_alloc THEN 0 ELSE GET_SIZE(m, HDRP(pv)))
        h1         == IF next_alloc THEN h ELSE remove_block(h, nx)
        h2         == IF prev_alloc THEN h1 ELSE remove_block(h1, pv)
        merged     == IF prev_alloc /\ next_alloc THEN h2
                      ELSE [h2 EXCEPT !.m = PutTags(@, start, size, 0)]
    IN  [p |-> start, h |-> add_block(merged, start, size)]

(* p is NULL when mem_sbrk fails. *)
extend_heap(h, words) ==
    LET size == (IF words % 2 = 1 THEN words + 1 ELSE words) * WSIZE
        m1   == PutTags(h.m, h.brk, size, 0)
        m2   == PUT(m1, HDRP(NEXT_BLKP(m1, h.brk)), PACK(0, 1))
    IN  IF SbrkOK(h.brk, ToInt(size))
        THEN coalesce([h EXCEPT !.m = m2, !.brk = SbrkTo(@, size)], h.brk)
        ELSE [p |-> NULL, h |-> h]

(* Every group is emptied first, so nothing of the pass before is found.   *)
mm_init(h) ==
    LET lo    == h.brk
        empty == [g \in Groups |-> NULL]
        m1 == PUT(PUT(h.m, lo, 0), lo + 1 * WSIZE, PACK(DSIZE, 1))
        m2 == PUT(PUT(m1, lo + 2 * WSIZE, PACK(DSIZE, 1)), lo + 3 * WSIZE, PACK(0, 1))
    IN  IF SbrkOK(lo, 4 * WSIZE)
        THEN {extend_heap([m |-> m2, brk |-> SbrkTo(lo, 4 * WSIZE), st |-> empty],
                          CHUNKSIZE \div WSIZE)}
        ELSE {[p |-> NULL, h |-> [h EXCEPT !.st = empty]]}

(* Best fit in the first group, from that of asize on, that has a fit.     *)
find_fit(h, asize) ==
    LET least   == Group(asize)
        Fit(g)  == Seek(h.m, h.st[g], asize).curr
        Fitting == {g \in Groups : g >= least /\ Fit(g) # NULL}
    IN  IF Fitting = {} THEN NULL
        ELSE Fit(CHOOSE g \in Fitting : \A f \in Fitting : g <= f)

(* Slip: the block stays in its list. *)
place_StaysListed(h, bp, asize) ==
    LET block_size == GET_SIZE(h.m, HDRP(bp))
        m2         == PutTags(h.m, bp, asize, 1)
        rest       == NEXT_BLKP(m2, bp)
    IN  IF block_size - asize >= 2 * DSIZE
        THEN add_block([h EXCEPT !.m = PutTags(m2, rest, block_size - asize, 0)],
                       rest, block_size - asize)
        ELSE [h EXCEPT !.m = PutTags(@, bp, block_size, 1)]

(* The block leaves its list before it is cut. *)
place(h, bp, asize) ==
    LET block_size == GET_SIZE(h.m, HDRP(bp))
        h1         == remove_block(h, bp)
        m2         == PutTags(h1.m, bp, asize, 1)
        rest       == NEXT_BLKP(m2, bp)
    IN  IF block_size - asize >= 2 * DSIZE
        THEN add_block([h1 EXCEPT !.m = PutTags(m2, rest, block_size - asize, 0)],
                       rest, block_size - asize)
        ELSE [h1 EXCEPT !.m = PutTags(@, bp, block_size, 1)]

Malloc(h, size) ==
    LET newsize == ALIGN(size + DSIZE)
        bp      == find_fit(h, newsize)
        e       == extend_heap(h, MAX(newsize, CHUNKSIZE) \div WSIZE)
    IN  IF size = 0 THEN [p |-> NULL, h |-> h]
        ELSE IF bp # NULL THEN [p |-> bp, h |-> place(h, bp, newsize)]
        ELSE IF e.p # NULL THEN [p |-> e.p, h |-> place(e.h, e.p, newsize)]
        ELSE e

mm_malloc(h, size) == {Malloc(h, size)}

Release(h, bp) ==
    coalesce([h EXCEPT !.m = PutTags(@, bp, GET_SIZE(@, HDRP(bp)), 0)], bp).h

mm_free(h, bp) == {[p |-> NULL, h |-> Release(h, bp)]}

(* A request that fits the old block is served in place; place then takes  *)
(* the old block, which is in no list, out of the list of its group.  The  *)
(* copy to a larger block reads past the end of the old one.               *)
mm_realloc(h, ptr, size) ==
    LET new_size == ALIGN(size + DSIZE)
        r        == Malloc(h, size)
        end      == mem_max_addr - ptr
        Copied   == [r.h EXCEPT !.m = memcpy(@, r.p, ptr, IF size < end THEN size ELSE end)]
    IN  IF size = 0 THEN {[p |-> ptr, h |-> Release(h, ptr)]}
        ELSE IF new_size <= GET_SIZE(h.m, HDRP(ptr))
        THEN {[p |-> ptr, h |-> place(h, ptr, new_size)]}
        ELSE IF r.p = NULL THEN {r}
        ELSE {[r EXCEPT !.h = Release(Copied, ptr)]}

-----------------------------------------------------------------------------
Static == [g \in Groups |-> NULL]

D == INSTANCE Driver

Spec == D!Spec

(* The driver never faults the allocator. *)
NeverFaulted == D!NeverFaulted

(* A trace that was served once is served again, over stale memory. *)
ReplaySucceeds == D!ReplaySucceeds

Prologue == mem_start_brk + 2 * WSIZE

(* The free blocks of the heap: those met from the prologue to the epilogue. *)
FreeBlocks ==
    LET b[i \in 0 .. MAX_HEAP \div DSIZE] ==
            IF i = 0 THEN Prologue ELSE NEXT_BLKP(mem, b[i - 1])
    IN  {bp \in {b[i] : i \in DOMAIN b} : GET_ALLOC(mem, HDRP(bp)) = 0}

SizeNow(bp) == GET_SIZE(mem, HDRP(bp))

(* The list from bp holds the blocks F once each, in order of size, with   *)
(* matching back pointers.                                                 *)
ListIs(bp, F) ==
    LET b == Listed(mem, bp)
    IN  \E n \in DOMAIN b :
           /\ \A i \in 0 .. n - 1 :
                 b[i] \in F /\ PREV_FREE(mem, b[i]) = IF i = 0 THEN NULL ELSE b[i - 1]
           /\ b[n] = NULL /\ F = {b[i] : i \in 0 .. n - 1}
           /\ \A i, j \in 0 .. n - 1 :
                 i < j => b[i] # b[j] /\ SizeNow(b[i]) <= SizeNow(b[j])

(* Between two calls the list of a group holds every free block of its     *)
(* sizes once and nothing else, smallest first: coalesce and place move a  *)
(* block that changes size to the group it then belongs to.                *)
ListsExact ==
    phase \in {"valid", "util", "speed"} =>
        LET free == FreeBlocks
        IN  \A g \in Groups : ListIs(static[g], {bp \in free : Group(SizeNow(bp)) = g})

(* Two neighbours are never both free. *)
NeighboursMerged ==
    phase \in {"valid", "util", "speed"} =>
        LET free == FreeBlocks
        IN  \A bp \in free : NEXT_BLKP(mem, bp) \notin free
=============================================================================
