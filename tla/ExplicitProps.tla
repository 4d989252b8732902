---------------------------- MODULE ExplicitProps ----------------------------
(***************************************************************************)
(* What makes mm.c correct: the shape of its heap and of its free list,    *)
(* and what the client may rely on.                                        *)
(***************************************************************************)
EXTENDS Explicit, FiniteSets

Up == call.pc # "down"

Live == {i \in Ids : blocks[i] # NULL}

(* Each variable keeps its type: one word per address of the region, the   *)
(* break inside the region, a pointer or NULL for each client index.       *)
TypeOK ==
    /\ mem \in [Addr -> Nat]
    /\ mem_brk \in mem_start_brk .. mem_max_addr
    /\ heap_listp \in Nat
    /\ blocks \in [Ids -> Nat]
    /\ block_sizes \in [Ids -> Nat]
    /\ call \in [pc : {"down", "idle", "find", "place", "grow", "fill"},
                 op : {"none", "malloc", "realloc"}, id : Nat, size : Nat,
                 ptr : Nat, keep : Nat, failed : BOOLEAN]

-----------------------------------------------------------------------------
(* The blocks of a heap. *)

Size(m, b)   == GET_SIZE(m, HDRP(b))
IsFree(m, b) == GET_ALLOC(m, HDRP(b)) = 0

(* An address a block may have, with a header a block may have: at least   *)
(* 16 bytes, inside the heap, the footer a copy of the header.             *)
BlockAt(m, h, k, b) ==
    /\ h <= b /\ b < k /\ b % 8 = 0
    /\ Size(m, b) >= 16
    /\ m[HDRP(b)] = PACK(Size(m, b), GET_ALLOC(m, HDRP(b)))
    /\ b + Size(m, b) <= k
    /\ m[b + Size(m, b) - DSIZE] = m[HDRP(b)]

(* The blocks of B lie end to end from the prologue h to the epilogue,     *)
(* whose header is the last word below the break k.                        *)
Tiles(m, h, k, B) ==
    /\ h \in B /\ m[HDRP(h)] = PACK(16, 1)
    /\ \A b \in B : BlockAt(m, h, k, b) /\ b + Size(m, b) \in B \cup {k}
    /\ \A b, c \in B : b < c => b + Size(m, b) <= c
    /\ \A c \in (B \ {h}) \cup {k} : \E b \in B : b + Size(m, b) = c
    /\ m[k - WSIZE] = PACK(0, 1)

Candidates == {b \in heap_listp .. mem_brk - 1 : 
                   b - 4 \in Addr /\ BlockAt(mem, heap_listp, mem_brk, b)}

Tilings == {B \in SUBSET Candidates : Tiles(mem, heap_listp, mem_brk, B)}

Frees(m, B)  == {b \in B : IsFree(m, b)}
Allocs(m, B) == {b \in B : ~IsFree(m, b)}

(* SUCC and PRED are inverse to each other on F and the sentinel, and no   *)
(* part of F is a ring of its own, so that following SUCC from the         *)
(* sentinel visits each block of F once and comes back.                    *)
Links(m, h, F) ==
    \A x \in F \cup {h} :
        /\ SUCC_P(m, x) \in F \cup {h} /\ PRED_P(m, SUCC_P(m, x)) = x
        /\ PRED_P(m, x) \in F \cup {h} /\ SUCC_P(m, PRED_P(m, x)) = x

OneRing(m, F) ==
    \A S \in (SUBSET F) \ {{}} : \E x \in S : SUCC_P(m, x) \notin S

FreeList(m, h, F) == Links(m, h, F) /\ OneRing(m, F)

NoFreeNeighbours(m, B) ==
    \A b, c \in B : ~(c = b + Size(m, b) /\ IsFree(m, b) /\ IsFree(m, c))

(* The client's indices own the allocated blocks, one each. *)
Owned(B) ==
    /\ Allocs(mem, B) = {heap_listp} \cup {blocks[i] : i \in Live}
    /\ heap_listp \notin {blocks[i] : i \in Live}
    /\ \A i, j \in Live : blocks[i] = blocks[j] => i = j

(* From mm_init on, and between any two steps of a call, headers and       *)
(* footers cut the whole heap into blocks that can each be walked in both  *)
(* directions: no call leaves a gap, an overlap or a tag out of date.      *)
HeapTiled == Up => Tilings # {}

(* place, coalesce and mm_free keep free blocks apart: two neighbours are  *)
(* never both free, however calls follow one another.                      *)
Coalesced == Up => \E B \in Tilings : NoFreeNeighbours(mem, B)

(* The free list is exact: find_fit's loop visits every free block of the  *)
(* heap and nothing else, and ends at the sentinel; the PRED pointers walk *)
(* the same list backwards.                                                *)
FreeListExact ==
    Up => \E B \in Tilings : FreeList(mem, heap_listp, Frees(mem, B))

(* Every allocated block other than the prologue belongs to exactly one    *)
(* client index: no call loses a block (the one realloc moves away from    *)
(* included) or hands one out twice.                                       *)
NothingLost == Up => \E B \in Tilings : Owned(B)

-----------------------------------------------------------------------------
(* What the client relies on. *)

(* The payloads the client holds are 8-aligned, lie inside the heap and    *)
(* do not overlap, whatever was allocated, moved and freed before: what    *)
(* add_range checks of each pointer it is given.                           *)
PayloadsSafe ==
    \A i \in Live :
        /\ blocks[i] % 8 = 0
        /\ mem_start_brk <= blocks[i] /\ blocks[i] + block_sizes[i] <= mem_brk
        /\ \A j \in Live \ {i} :
               \/ blocks[i] + block_sizes[i] <= blocks[j]
               \/ blocks[j] + block_sizes[j] <= blocks[i]

(* Bytes of an index's payload that must hold its pattern: all of them,    *)
(* except that a block just returned has only what realloc must preserve.  *)
Kept(i) == IF call.pc = "fill" /\ call.id = i THEN call.keep ELSE block_sizes[i]

(* No call writes into a payload the client holds, and realloc's new block *)
(* starts with the data of the old one (the check of eval_mm_valid).       *)
PayloadsIntact ==
    \A i \in Live : \A a \in Words(blocks[i], Kept(i)) : mem[a] = Pattern(i)

NoneFits(B) ==
    \A b \in Frees(mem, B) : Size(mem, b) < AdjustedSize(call.size)

(* mm_malloc asks for more heap, and so can fail, only when no free block  *)
(* of the heap is large enough: find_fit overlooks none.                   *)
GrowsOnlyWhenNeeded ==
    call.pc = "grow" => \E B \in Tilings : NoneFits(B)

(* What the client sees of mm.c is what the allocator interface promises.  *)
Payload(i) ==
    [w \in 0 .. ((block_sizes[i] + 3) \div WSIZE) - 1 |-> mem[blocks[i] + w * WSIZE]]

Interface ==
    INSTANCE Allocator WITH
        Places <- Addr, Lengths <- Sizes, Val <- Nat,
        lo <- mem_start_brk, top <- mem_max_addr,
        at <- blocks, len <- block_sizes, hi <- mem_brk,
        data <- [i \in Ids |-> Payload(i)]

(* mm.c implements the interface: every step of a call is invisible to the *)
(* client or hands it, moves, releases or lets it write one payload, and   *)
(* leaves the words of all the others alone.                               *)
ImplementsAllocator == Interface!Spec

(* find_fit comes to an end: its loop cannot go round a list for ever.     *)
SearchEnds == call.pc = "find" ~> call.pc # "find"

(* The words of a heap mm_init has just made that it or a later call reads:*)
(* padding, prologue, and the tags and links of the only free block.       *)
FirstWords(brk) ==
    Words(mem_start_brk, 8 * WSIZE) \cup Words(brk - DSIZE, DSIZE)

(* A new pass depends on nothing of the pass before: whatever the region   *)
(* holds, an mm_init that succeeds leaves every word the allocator reads   *)
(* as on a region of zeros, and the client holds no block.                 *)
RestartForgets ==
    [][passes' # passes =>
          LET fresh == mm_init([a \in Addr |-> 0], mem_start_brk)
          IN  /\ mem_brk' = fresh.brk /\ heap_listp' = fresh.listp
              /\ Up' = fresh.ok
              /\ Up' => \A a \in FirstWords(mem_brk') : mem'[a] = fresh.m[a]
              /\ \A i \in Ids : blocks'[i] = NULL]_vars

-----------------------------------------------------------------------------
(* The inductive invariant behind all of the above. *)

(* A block has room for the request it was given for, and its two tags.    *)
Roomy == \A i \in Live : block_sizes[i] + DSIZE <= Size(mem, blocks[i])

(* The blocks find_fit has passed, V, do not fit, and lead back to the     *)
(* sentinel.                                                               *)
Searched(B) ==
    /\ call.ptr \in Frees(mem, B) \cup {heap_listp}
    /\ \E V \in SUBSET Frees(mem, B) :
          /\ \A b \in V : Size(mem, b) < AdjustedSize(call.size)
          /\ \A b \in V \cup {call.ptr} : PRED_P(mem, b) \in V \cup {heap_listp}

SearchInv(B) ==
    /\ call.pc = "find" => Searched(B)
    /\ call.pc = "place" => call.ptr \in Frees(mem, B) /\ Fits
    /\ call.pc = "grow" => NoneFits(B)

HeapInv(B) ==
    /\ FreeList(mem, heap_listp, Frees(mem, B))
    /\ NoFreeNeighbours(mem, B)
    /\ Owned(B)
    /\ SearchInv(B)

(* The call in progress and the client agree. *)
CallInv ==
    /\ \A i \in Ids \ Live : block_sizes[i] = 0
    /\ ~Up => Live = {}
    /\ call.pc \in {"find", "place", "grow"} =>
          /\ call.id \in Ids /\ call.size \in Sizes /\ call.size # 0
          /\ call.op = "malloc" <=> blocks[call.id] = NULL
    /\ call.pc = "fill" =>
          /\ call.id \in Live /\ call.ptr = blocks[call.id]
          /\ call.size = block_sizes[call.id] /\ call.keep <= call.size

(* Every reachable state of mm.c and its client satisfies it. *)
IInv ==
    /\ TypeOK
    /\ CallInv
    /\ PayloadsIntact
    /\ Up => /\ heap_listp = mem_start_brk + DSIZE
             /\ Roomy
             /\ \E B \in Tilings : HeapInv(B)
=============================================================================
