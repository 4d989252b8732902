-------------------------------- MODULE Buddy --------------------------------
(***************************************************************************)
(* malloc/buddy.c: the binary buddy allocator, played by the driver.       *)
(* Blocks of size 2^(MAX_ALLOC_LOG2 - b) belong to bucket b.  Free blocks  *)
(* of a bucket form a circular list through their first two words and the  *)
(* bucket's head, which lies outside the heap.  Nodes of the tree of all   *)
(* blocks are numbered level by level from the root 0; a node is split     *)
(* when exactly one of its two children is in use.                         *)
(*                                                                         *)
(* A call works on a heap [m, brk, st], st being the static variables:     *)
(* base_ptr, bucket_limit, buckets (a head's two links per bucket) and     *)
(* node_is_split (here the set of the nodes whose bit is 1).  max_ptr is   *)
(* always read just after it is written, so it is not kept.                *)
(***************************************************************************)
EXTENDS BlockTags, Memlib, Sequences, TLC

CONSTANTS MAX_ALLOC_LOG2, MIN_ALLOC_LOG2,
          Ids, Sizes, Types, MaxOps, MaxTraces, Passes, Junk, BYTE

ASSUME BuddyAssumption == MIN_ALLOC_LOG2 \in Nat /\ MAX_ALLOC_LOG2 \in Nat

VARIABLES mem, static, ops, next, phase, report, ranges, blocks, block_sizes,
          total_size, max_total_size, traces

HEADER_SIZE  == 8
LIST_T       == 8
MIN_ALLOC    == 2^MIN_ALLOC_LOG2
MAX_ALLOC    == 2^MAX_ALLOC_LOG2
BUCKET_COUNT == MAX_ALLOC_LOG2 - MIN_ALLOC_LOG2 + 1
Buckets      == 0 .. BUCKET_COUNT - 1

BlockSize(bucket) == 2^(MAX_ALLOC_LOG2 - bucket)

-----------------------------------------------------------------------------
(* Lists: an entry is a heap address or the address of a bucket's head.    *)

HeadOf(bucket) == -1 - bucket
IsHead(p)     == p < 0
BucketOf(p)   == -1 - p

Prev(h, p) == IF IsHead(p) THEN h.st.buckets[BucketOf(p)].prev ELSE h.m[p]
Succ(h, p) == IF IsHead(p) THEN h.st.buckets[BucketOf(p)].next ELSE h.m[p + WSIZE]

SetPrev(h, p, q) ==
    IF IsHead(p) THEN [h EXCEPT !.st.buckets[BucketOf(p)].prev = q]
                 ELSE [h EXCEPT !.m[p] = q]
SetNext(h, p, q) ==
    IF IsHead(p) THEN [h EXCEPT !.st.buckets[BucketOf(p)].next = q]
                 ELSE [h EXCEPT !.m[p + WSIZE] = q]

list_init(h, list) == SetNext(SetPrev(h, list, list), list, list)

list_push(h, list, entry) ==
    LET prev == Prev(h, list)
        h1   == SetNext(SetPrev(h, entry, prev), entry, list)
    IN  SetPrev(SetNext(h1, prev, entry), list, entry)

list_remove(h, entry) ==
    LET prev == Prev(h, entry)
        nxt  == Succ(h, entry)
    IN  SetPrev(SetNext(h, prev, nxt), nxt, prev)

(* Slip: the entry is returned and stays in the list. *)
list_pop_Keeps(h, list) ==
    IF Prev(h, list) = list THEN [p |-> NULL, h |-> h] ELSE [p |-> Prev(h, list), h |-> h]

(* The entry taken is the last one of the list, NULL when it is empty.     *)
list_pop(h, list) ==
    LET back == Prev(h, list)
    IN  IF back = list THEN [p |-> NULL, h |-> h]
                       ELSE [p |-> back, h |-> list_remove(h, back)]

-----------------------------------------------------------------------------
(* The tree. *)

ptr_for_node(h, index, bucket) ==
    h.st.base_ptr + (index - 2^bucket + 1) * BlockSize(bucket)

node_for_ptr(h, ptr, bucket) ==
    (ptr - h.st.base_ptr) \div BlockSize(bucket) + 2^bucket - 1

Parent(index)  == (index - 1) \div 2
Sibling(index) == IF index % 2 = 1 THEN index + 1 ELSE index - 1

parent_is_split(h, index) == Parent(index) \in h.st.node_is_split

flip_parent_is_split(h, index) ==
    LET i == Parent(index)
    IN  [h EXCEPT !.st.node_is_split = IF i \in @ THEN @ \ {i} ELSE @ \cup {i}]

(* The last bucket whose blocks hold request bytes.                        *)
bucket_for_request(request) ==
    CHOOSE b \in Buckets :
        /\ request <= BlockSize(b)
        /\ \A c \in Buckets : c > b => request > BlockSize(c)

(* new_value is compared with the last byte of the heap, so the break ends *)
(* one byte above it.                                                      *)
update_max_ptr(h, new_value) ==
    LET hi == h.brk - 1
    IN  IF new_value <= hi THEN [ok |-> TRUE, h |-> h]
        ELSE IF SbrkOK(h.brk, ToInt(new_value - hi))
        THEN [ok |-> TRUE, h |-> [h EXCEPT !.brk = SbrkTo(@, new_value - hi)]]
        ELSE [ok |-> FALSE, h |-> h]

RootOf(h)  == node_for_ptr(h, h.st.base_ptr, h.st.bucket_limit)
RightOf(h) == ptr_for_node(h, RootOf(h) + 1, h.st.bucket_limit)

(* --bucket_limit, and the new root's list is empty. *)
RaiseRoot(h) ==
    list_init([h EXCEPT !.st.bucket_limit = @ - 1], HeadOf(h.st.bucket_limit - 1))

(* The root is not in use: the new root is one free block. *)
DoubleFree(h) ==
    list_push(RaiseRoot(list_remove(h, h.st.base_ptr)),
              HeadOf(h.st.bucket_limit - 1), h.st.base_ptr)

(* The root is in use: it gets a free right sibling, and their parent, if  *)
(* it is not node 0, counts as in use in turn.                             *)
DoubleUsed(h) ==
    LET g == RaiseRoot(list_push(h, HeadOf(h.st.bucket_limit), RightOf(h)))
        parent == Parent(RootOf(h))
    IN  IF parent # 0 THEN flip_parent_is_split(g, parent) ELSE g

(* One doubling; it fails when memory for the list entry of the right      *)
(* sibling is refused.                                                     *)
Double(h) ==
    LET u == update_max_ptr(h, RightOf(h) + LIST_T)
    IN  IF ~parent_is_split(h, RootOf(h)) THEN [ok |-> TRUE, h |-> DoubleFree(h)]
        ELSE IF u.ok THEN [ok |-> TRUE, h |-> DoubleUsed(u.h)]
        ELSE u

(* The tree doubles until its root is at bucket. *)
RECURSIVE lower_bucket_limit(_, _)
lower_bucket_limit(h, bucket) ==
    LET d == Double(h)
    IN  IF bucket >= h.st.bucket_limit THEN [ok |-> TRUE, h |-> h]
        ELSE IF d.ok THEN lower_bucket_limit(d.h, bucket)
        ELSE d

-----------------------------------------------------------------------------
(* The calls.  Like the four functions of the interface, the parts of      *)
(* mm_malloc give the set of their outcomes, which has one element.        *)

(* Neither node_is_split nor the heads of the other buckets are touched,   *)
(* and the result of update_max_ptr is not looked at.                      *)
mm_init(h) ==
    LET last == BUCKET_COUNT - 1
        h1   == [h EXCEPT !.st.base_ptr = h.brk, !.st.bucket_limit = last]
        h2   == list_init(update_max_ptr(h1, h.brk + LIST_T).h, HeadOf(last))
    IN  {[p |-> h.brk, h |-> list_push(h2, HeadOf(last), h.brk)]}

(* The tree grows one more level, which gives the root a free sibling. *)
GrowAndPop(h, bucket) ==
    {IF l.ok THEN [ok |-> TRUE, on |-> FALSE] @@ list_pop(l.h, HeadOf(bucket))
             ELSE [ok |-> FALSE, on |-> FALSE, p |-> NULL, h |-> l.h]
        : l \in {lower_bucket_limit(h, bucket - 1)}}

(* A free block of bucket on a tree that reaches it: from its list, or, if *)
(* that is empty and the root's, from a larger tree.                       *)
PopOrGrow(h, bucket) ==
    LET one == list_pop(h, HeadOf(bucket))
    IN  IF one.p # NULL \/ bucket # h.st.bucket_limit \/ bucket = 0
        THEN {[ok |-> TRUE, on |-> one.p = NULL] @@ one}
        ELSE GrowAndPop(h, bucket)

(* A free block for bucket.  ok tells whether there was memory for the     *)
(* tree, on whether the list is empty and the search goes on.              *)
Take(h, bucket) ==
    UNION {IF l.ok THEN PopOrGrow(l.h, bucket)
                   ELSE {[ok |-> FALSE, on |-> FALSE, p |-> NULL, h |-> l.h]}
              : l \in {lower_bucket_limit(h, bucket)}}

(* Node i is split until its left end has the size of bucket target.       *)
RECURSIVE SplitDown(_, _, _, _)
SplitDown(h, i, bucket, target) ==
    IF bucket = target THEN h
    ELSE LET left == 2 * i + 1
             h1   == flip_parent_is_split(h, left)
             h2   == list_push(h1, HeadOf(bucket + 1), ptr_for_node(h1, left + 1, bucket + 1))
         IN  SplitDown(h2, left, bucket + 1, target)

Needed(bucket, original) ==
    IF bucket < original THEN BlockSize(bucket) \div 2 + LIST_T ELSE BlockSize(bucket)

(* Node i, at ptr, is now in use and cut down; the request is its header.  *)
GiveNode(h, ptr, i, bucket, original, request) ==
    LET h1 == IF i # 0 THEN flip_parent_is_split(h, i) ELSE h
        h2 == SplitDown(h1, i, bucket, original)
    IN  [p |-> ptr + HEADER_SIZE, h |-> [h2 EXCEPT !.m[ptr] = request]]

(* Slip: when there is no memory for the block it is not put back.         *)
Give_Drops(h, ptr, bucket, original, request) ==
    LET u == update_max_ptr(h, ptr + Needed(bucket, original))
    IN  IF u.ok THEN GiveNode(u.h, ptr, node_for_ptr(h, ptr, bucket), bucket, original, request)
                ELSE [p |-> NULL, h |-> u.h]

(* Block ptr of bucket, popped from its list, is given to the request, or  *)
(* put back when mem_sbrk refuses.                                         *)
Give(h, ptr, bucket, original, request) ==
    LET u == update_max_ptr(h, ptr + Needed(bucket, original))
    IN  IF u.ok THEN GiveNode(u.h, ptr, node_for_ptr(h, ptr, bucket), bucket, original, request)
                ELSE [p |-> NULL, h |-> list_push(u.h, HeadOf(bucket), ptr)]

(* The loop of mm_malloc, from bucket up to the whole address space.  That *)
(* the larger tree has a free block is not checked: without one the header *)
(* is stored through NULL, which ends the program, and there is no outcome.*)
RECURSIVE Search(_, _, _, _)
Search(h, bucket, original, request) ==
    IF bucket < 0 THEN {[p |-> NULL, h |-> h]}
    ELSE UNION {IF t.on THEN Search(t.h, bucket - 1, original, request)
                ELSE IF ~t.ok THEN {[p |-> NULL, h |-> t.h]}
                ELSE IF t.p = NULL THEN {}
                ELSE {Give(t.h, t.p, bucket, original, request)}
                   : t \in Take(h, bucket)}

(* base_ptr is never NULL here: mm_init has been called. *)
mm_malloc(h, request) ==
    LET bucket == bucket_for_request(request + HEADER_SIZE)
    IN  IF request + HEADER_SIZE > MAX_ALLOC THEN {[p |-> NULL, h |-> h]}
        ELSE Search(h, bucket, bucket, request)

(* Slip: a block merges with its buddy once at most. *)
MergeUp_Once(h, i, bucket) ==
    LET h1 == flip_parent_is_split(h, i)
    IN  IF i = 0 THEN [h |-> h, i |-> i, bucket |-> bucket]
        ELSE IF parent_is_split(h1, i) \/ bucket = h1.st.bucket_limit
        THEN [h |-> h1, i |-> i, bucket |-> bucket]
        ELSE [h |-> flip_parent_is_split(
                        list_remove(h1, ptr_for_node(h1, Sibling(i), bucket)), Parent(i)),
              i |-> Parent(i), bucket |-> bucket - 1]

(* Node i becomes free and is merged with its buddy for as long as the     *)
(* buddy is free too and i is not the root of the tree.                    *)
RECURSIVE MergeUp(_, _, _)
MergeUp(h, i, bucket) ==
    LET h1 == flip_parent_is_split(h, i)
    IN  IF i = 0 THEN [h |-> h, i |-> i, bucket |-> bucket]
        ELSE IF parent_is_split(h1, i) \/ bucket = h1.st.bucket_limit
        THEN [h |-> h1, i |-> i, bucket |-> bucket]
        ELSE MergeUp(list_remove(h1, ptr_for_node(h1, Sibling(i), bucket)),
                     Parent(i), bucket - 1)

Release(h, payload) ==
    LET ptr    == payload - HEADER_SIZE
        bucket == bucket_for_request(h.m[ptr] + HEADER_SIZE)
        u      == MergeUp(h, node_for_ptr(h, ptr, bucket), bucket)
    IN  list_push(u.h, HeadOf(u.bucket), ptr_for_node(u.h, u.i, u.bucket))

mm_free(h, ptr) == {[p |-> NULL, h |-> Release(h, ptr)]}

(* A word memset has filled with byte b, read as a number.                 *)
Number(b) == b * (1 + BYTE)

(* The copy may run past the old block, even past the region, whose bytes  *)
(* it then reads are not modelled: the client never looks at what they     *)
(* become.                                                                 *)
UpToEnd(ptr, n) == IF n < mem_max_addr - ptr THEN n ELSE mem_max_addr - ptr

(* The size the copy is bounded by is the first word of the old payload.   *)
CopyTo(r, oldptr, size) ==
    LET first    == Number(r.h.m[oldptr])
        copySize == IF size < first THEN size ELSE first
    IN  [r.h EXCEPT !.m = memcpy(@, r.p, oldptr, UpToEnd(oldptr, copySize))]

mm_realloc(h, oldptr, size) ==
    {IF r.p = NULL THEN r ELSE [r EXCEPT !.h = Release(CopyTo(r, oldptr, size), oldptr)]
        : r \in mm_malloc(h, size)}

-----------------------------------------------------------------------------
Static == [base_ptr |-> NULL, bucket_limit |-> 0, node_is_split |-> {},
           buckets |-> [b \in Buckets |-> [prev |-> NULL, next |-> NULL]]]

D == INSTANCE Driver

Spec == D!Spec

(* The driver faults buddy.c for one thing only: a reallocation loses the  *)
(* data of an index whose low byte is 0.  That byte fills the payload, and *)
(* mm_realloc takes its first word, then 0, for the size to copy.          *)
NeverFaulted ==
    \/ D!NeverFaulted
    \/ report.why = "data" /\ D!LowByte(report.index) = 0

h0 == [m |-> mem, brk |-> mem_brk, st |-> static]

(* The entries of a list from p up to its head, in order of Succ, at most  *)
(* n of them.                                                              *)
RECURSIVE Entries(_, _, _)
Entries(list, p, n) ==
    IF p = list \/ n = 0 THEN {} ELSE {p} \cup Entries(list, Succ(h0, p), n - 1)

FreeIn(b) == Entries(HeadOf(b), Succ(h0, HeadOf(b)), 8)

(* Blocks as intervals: free ones per bucket, used ones per index.         *)
FreeBlocks == {[lo |-> p, len |-> BlockSize(b)] :
                   <<b, p>> \in {x \in (static.bucket_limit .. BUCKET_COUNT - 1) \X Addr :
                                     x[2] \in FreeIn(x[1])}}

UsedBlocks ==
    {[lo |-> blocks[i] - HEADER_SIZE,
      len |-> BlockSize(bucket_for_request(block_sizes[i] + HEADER_SIZE))] :
         i \in {j \in Ids : blocks[j] # NULL}}

(* Between two calls, and after one that found no memory. *)
Settled == phase = "valid" \/ report.why = "failed"

(* The blocks of the free lists and those the client has cut the whole of  *)
(* the tree's address range into disjoint blocks: no call loses a block,   *)
(* puts one into two lists or gives one out twice, nor does a call that    *)
(* has popped a block, or grown the tree, when mem_sbrk refuses.           *)
TreeTiled ==
    Settled =>
        LET All  == FreeBlocks \cup UsedBlocks
            root == static.base_ptr .. static.base_ptr + BlockSize(static.bucket_limit) - 1
        IN  /\ \A x \in root : \E k \in All : k.lo <= x /\ x < k.lo + k.len
            /\ \A k, l \in All : k # l => k.lo + k.len <= l.lo \/ l.lo + l.len <= k.lo

(* Two buddies are never both free: merging in mm_free is complete, and a  *)
(* call that fails does not leave the halves of a block apart.             *)
BuddiesMerged ==
    Settled =>
        \A b \in static.bucket_limit + 1 .. BUCKET_COUNT - 1 :
            \A p \in FreeIn(b) :
                ptr_for_node(h0, Sibling(node_for_ptr(h0, p, b)), b) \notin FreeIn(b)

(* "At the beginning, the tree has a single node that represents the       *)
(* smallest possible allocation size" (the comment in mm_malloc): mm_init  *)
(* leaves a tree none of whose nodes is split.                             *)
TreeStartsSmall ==
    (\/ phase = "valid" /\ ops = <<>>
     \/ phase \in {"util", "speed"} /\ next = 1) => static.node_is_split = {}
=============================================================================
