------------------------------ MODULE BlockTags ------------------------------
(***************************************************************************)
(* The word-level block format shared by mm.c and the allocators under     *)
(* malloc/ (the macros at the top of each file).  The heap is a function m *)
(* from word addresses to words; a block is named by its payload pointer   *)
(* bp, its header is the word before the payload and its footer the last   *)
(* word of the block.  Block sizes are in bytes and count both tags.       *)
(***************************************************************************)
EXTENDS Integers

NULL  == 0
WSIZE == 4
DSIZE == 8

(* Every size passed to PACK is a multiple of 8, so the bitwise or of the  *)
(* size and the allocated bit is a sum.                                    *)
PACK(size, alloc) == size + alloc

GET(m, p)      == m[p]
PUT(m, p, val) == [m EXCEPT ![p] = val]

(* w & ~0x7 and w & 0x1. *)
SizeOf(w)  == 8 * (w \div 8)
AllocOf(w) == w % 2

GET_SIZE(m, p)  == SizeOf(GET(m, p))
GET_ALLOC(m, p) == AllocOf(GET(m, p))

HDRP(bp)         == bp - WSIZE
FTRP(m, bp)      == bp + GET_SIZE(m, HDRP(bp)) - DSIZE
NEXT_BLKP(m, bp) == bp + GET_SIZE(m, HDRP(bp))
PREV_BLKP(m, bp) == bp - GET_SIZE(m, bp - DSIZE)

(* PUT(HDRP(bp), tag); PUT(FTRP(bp), tag): the footer's place is computed  *)
(* from the header just written.                                           *)
PutTags(m, bp, size, alloc) ==
    LET h == PUT(m, HDRP(bp), PACK(size, alloc))
    IN  PUT(h, FTRP(h, bp), PACK(size, alloc))

MAX(x, y) == IF x > y THEN x ELSE y
=============================================================================
