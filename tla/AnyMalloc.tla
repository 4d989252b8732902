------------------------------ MODULE AnyMalloc ------------------------------
(***************************************************************************)
(* Driver and memlib.c against an allocator that does as it likes: it asks *)
(* mem_sbrk for any increment, returns any address, and may or may not     *)
(* copy the data of a block it moves.  What then still holds is due to the *)
(* driver and to memlib.c alone.                                           *)
(***************************************************************************)
EXTENDS BlockTags, Memlib, Sequences, FiniteSets

CONSTANTS Places,    \* addresses it returns
          Incrs,     \* increments it passes to mem_sbrk, as size_t values
          Ids, Sizes, Types, MaxOps, MaxTraces, Passes, Junk, BYTE

(* A request has at least one byte: add_range asserts it. *)
ASSUME AnyAssumption ==
    /\ Places \subseteq Nat \ {NULL} /\ Incrs \subseteq 0 .. WORD - 1
    /\ Ids \subseteq Nat /\ Sizes \subseteq Nat \ {0}

VARIABLES mem, static, ops, next, phase, report, ranges, blocks, block_sizes,
          total_size, max_total_size, traces

(* One call of mem_sbrk: the heap it leaves. *)
mem_sbrk(h, incr) ==
    IF SbrkOK(h.brk, ToInt(incr)) THEN [h EXCEPT !.brk = SbrkTo(@, incr)] ELSE h

mm_init(h) == {[p |-> mem_start_brk, h |-> mem_sbrk(h, u)] : u \in Incrs}

mm_malloc(h, size) ==
    {[p |-> p, h |-> mem_sbrk(h, u)] : p \in Places \cup {NULL}, u \in Incrs}

mm_free(h, bp) == {[p |-> NULL, h |-> h]}

(* The words of the old block, up to the end of the region. *)
CopyTo(r, oldptr, size) ==
    [r EXCEPT !.h.m = memcpy(@, r.p, oldptr, Cardinality(Words(oldptr, size)) * WSIZE)]

mm_realloc(h, oldptr, size) ==
    LET moved == mm_malloc(h, size)
    IN  moved \cup {CopyTo(r, oldptr, size) :
                        r \in {s \in moved : s.p # NULL /\ oldptr \in Addr}}

Static == NULL

D == INSTANCE Driver

Spec == D!Spec

(* The break stays in the region.                                          *)
BreakInRegion == D!BreakInRegion

(* The range list is in step with the requests.                            *)
RangesMatchBlocks == D!RangesMatchBlocks

(* Accepted payloads are aligned and in the heap.                          *)
AcceptedInHeap == D!AcceptedInHeap

(* No allocator is blamed for data it kept.                                *)
DataBlameFair == D!DataBlameFair

(* add_range finds every overlap.                                          *)
OverlapsDetected == D!OverlapsDetected

(* mem_sbrk never moves the break down.                                    *)
HeapNeverShrinks == D!HeapNeverShrinks
=============================================================================
