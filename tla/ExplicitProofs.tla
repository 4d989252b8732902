--------------------------- MODULE ExplicitProofs ---------------------------
(***************************************************************************)
(* What list_add and list_remove of mm.c do to the free list, F being the  *)
(* set of its blocks and h the sentinel; what writing boundary tags does   *)
(* to the way the blocks tile the heap; how coalesce turns a heap in which *)
(* one block has just been freed into a good heap, leaving the allocated   *)
(* blocks as they are; what the functions of mm.c do to a good heap.       *)
(*                                                                         *)
(* IInv is an inductive invariant of mm.c and its client, whatever the     *)
(* region, the chunk size, the sizes requested and the number of passes.   *)
(* The safety properties of ExplicitProps follow from it.                  *)
(*                                                                         *)
(* mm.c implements the allocator interface: seen through the payloads the  *)
(* client holds, each of its steps is a step of Allocator or changes       *)
(* nothing.  At a step, the payload the call is about is the only one that *)
(* may change, since every other one holds its pattern before and after.   *)
(*                                                                         *)
(* And mm_init depends on nothing the region held before: the heap it      *)
(* leaves, one free block behind the prologue, is the same word for word,  *)
(* wherever a later call reads before it writes.                           *)
(***************************************************************************)
EXTENDS ExplicitProps, TLAPS

(* One word per address of the region. *)
Mem(m) == m \in [Addr -> Nat]

(* The two link words of every node, h included, are words of the region,  *)
(* and no two nodes share one.                                             *)
Nodes(N, h) ==
    \A x \in N \cup {h} : /\ x \in Nat /\ x \in Addr /\ x + WSIZE \in Addr
                         /\ \A y \in N \cup {h} : x # y + WSIZE

(* G is F with, or without, p.  Named so that provers can match them. *)
Plus(G, F, p)  == G = F \cup {p}
Minus(G, F, p) == G = F \ {p}

(* The list before it is first used: mm_init leaves PRED_P(heap_listp)     *)
(* naming a word that is no block.                                         *)
PreLinks(m, h, F) == Links(m, h, F) \/ (F = {} /\ SUCC_P(m, h) = h)

(* a is not a link word of a node. *)
NoLink(N, h, a) == \A x \in N \cup {h} : a # x /\ a # x + WSIZE

(* How SUCC changes when p is put after the sentinel, or taken out. *)
SuccAdded(m, m2, h, F, p) ==
    /\ SUCC_P(m2, p) \in F \cup {h}
    /\ \A x \in F : SUCC_P(m2, x) = SUCC_P(m, x) /\ SUCC_P(m, x) \in F \cup {h}

SuccRemoved(m, m2, G, p) ==
    \A x \in G : SUCC_P(m2, x) =
                   IF SUCC_P(m, x) = p THEN SUCC_P(m, p) ELSE SUCC_P(m, x)

(* A list that was one ring stays one when p is put right after the        *)
(* sentinel.                                                               *)
LEMMA RingAdd ==
  ASSUME NEW m, NEW m2, NEW h, NEW F, NEW p, NEW G, Plus(G, F, p),
         p # h, p \notin F, OneRing(m, F), SuccAdded(m, m2, h, F, p)
  PROVE  OneRing(m2, G)
<1> USE DEF Plus, SuccAdded
<1> SUFFICES ASSUME NEW S \in SUBSET G, S # {}
             PROVE  \E x \in S : SUCC_P(m2, x) \notin S
  BY DEF OneRing
<1> DEFINE T == S \ {p}
<1>1. CASE T = {}
  <2>1. p \in S /\ SUCC_P(m2, p) \notin S
    BY <1>1
  <2> QED BY <2>1
<1>2. CASE T # {}
  <2>1. T \in (SUBSET F) \ {{}}
    BY <1>2
  <2>2. PICK x \in T : SUCC_P(m, x) \notin T
    BY <2>1 DEF OneRing
  <2>3. SUCC_P(m2, x) \notin S
    BY <2>1, <2>2
  <2> QED BY <2>2, <2>3
<1> QED BY <1>1, <1>2

(* ... and when p is taken out: its predecessor now leads where p did.     *)
LEMMA RingRemove ==
  ASSUME NEW m, NEW m2, NEW F, NEW p \in F, OneRing(m, F),
         NEW G, Minus(G, F, p),
         SuccRemoved(m, m2, G, p)
  PROVE  OneRing(m2, G)
<1> USE DEF Minus, SuccRemoved
<1> SUFFICES ASSUME NEW S \in SUBSET G, S # {}
             PROVE  \E x \in S : SUCC_P(m2, x) \notin S
  BY DEF OneRing
<1>1. S \in (SUBSET F) \ {{}} /\ S \cup {p} \in (SUBSET F) \ {{}}
  OBVIOUS
<1>2. PICK x \in S : SUCC_P(m, x) \notin S
  BY <1>1 DEF OneRing
<1>3. CASE SUCC_P(m, x) # p
  BY <1>2, <1>3
<1>4. CASE SUCC_P(m, x) = p
  <2>1. PICK y \in S \cup {p} : SUCC_P(m, y) \notin S \cup {p}
    BY <1>1 DEF OneRing
  <2>2. CASE y = p
    BY <1>2, <1>4, <2>1, <2>2
  <2>3. CASE y \in S
    BY <2>1, <2>3
  <2> QED BY <2>1, <2>2, <2>3
<1> QED BY <1>3, <1>4

(* When list_add(p), or list_remove(p), makes the list G out of F. *)
CanAdd(m, h, F, p, G) ==
    /\ Mem(m) /\ Plus(G, F, p) /\ Nodes(G, h) /\ h \notin F /\ p # h /\ p \notin F
    /\ PreLinks(m, h, F) /\ OneRing(m, F)

CanRemove(m, h, F, p, G) ==
    /\ Mem(m) /\ p \in F /\ Minus(G, F, p) /\ Nodes(F, h) /\ h \notin F
    /\ Links(m, h, F) /\ OneRing(m, F)

(* list_add puts p, and nothing else, in the list, and writes nothing but  *)
(* link words.                                                             *)
LEMMA ListAdd ==
  ASSUME NEW m, NEW h, NEW F, NEW p, NEW G, CanAdd(m, h, F, p, G)
  PROVE  /\ Mem(list_add(m, h, p))
         /\ Links(list_add(m, h, p), h, G) /\ OneRing(list_add(m, h, p), G)
         /\ \A a \in Addr : NoLink(G, h, a) => list_add(m, h, p)[a] = m[a]
<1> USE DEF Mem, Plus, CanAdd
<1> DEFINE m2 == list_add(m, h, p)
           n  == m[h + 4]
<1>1. n \in F \cup {h} /\ n \in Nat
  BY DEF PreLinks, Links, SUCC_P, GET, WSIZE, Nodes
<1>2. /\ Mem(m2)
      /\ m2[p + 4] = n /\ m2[p] = h /\ m2[h + 4] = p /\ m2[n] = p
      /\ \A a \in Addr : a \notin {p, p + 4, h + 4, n} => m2[a] = m[a]
  BY <1>1 DEF list_add, PUT, SUCC_P, GET, WSIZE, Nodes
<1> HIDE DEF m2, n
<1>3. \A x \in F : m2[x + 4] = m[x + 4]
  BY <1>1, <1>2 DEF Nodes, WSIZE
<1>4. \A x \in F \cup {h} : x # n => m2[x] = m[x]
  BY <1>1, <1>2 DEF Nodes, WSIZE
<1>5. \A x \in F : /\ m[x + 4] \in F \cup {h} /\ m[m[x + 4]] = x
                   /\ m[x] \in F \cup {h} /\ m[m[x] + 4] = x
  BY DEF PreLinks, Links, SUCC_P, PRED_P, GET, WSIZE
<1>6. \A x \in F : m[x + 4] # n
  <2>1. CASE Links(m, h, F)
    BY <2>1, <1>5, <1>1 DEF Links, SUCC_P, PRED_P, GET, WSIZE, Nodes, n
  <2>2. CASE F = {}
    BY <2>2
  <2> QED BY <2>1, <2>2 DEF PreLinks
<1>7. Links(m2, h, G)
  <2> SUFFICES ASSUME NEW x \in F \cup {p, h}
               PROVE  /\ m2[x + 4] \in F \cup {p, h} /\ m2[m2[x + 4]] = x
                      /\ m2[x] \in F \cup {p, h} /\ m2[m2[x] + 4] = x
    BY DEF Links, SUCC_P, PRED_P, GET, WSIZE
  <2>1. CASE x = p
    BY <2>1, <1>1, <1>2
  <2>2. CASE x = h
    <3>1. m2[h + 4] = p /\ m2[p] = h
      BY <1>2
    <3>2. CASE n = h
      BY <3>1, <3>2, <2>2, <1>2
    <3>3. CASE n # h
      <4>1. Links(m, h, F)
        BY <3>3, <1>1 DEF PreLinks, n, SUCC_P, GET, WSIZE
      <4>2. m[h] \in F \cup {h} /\ m[m[h] + 4] = h
        BY <4>1 DEF Links, SUCC_P, PRED_P, GET, WSIZE
      <4>3. m2[h] = m[h]
        BY <1>4, <3>3
      <4>4. m[h] # h
        BY <4>2, <3>3 DEF n
      <4> QED BY <2>2, <3>1, <4>2, <4>3, <4>4, <1>3
    <3> QED BY <3>2, <3>3
  <2>3. CASE x \in F
    <3>1. m2[x + 4] \in F \cup {h} /\ m2[m2[x + 4]] = x
      BY <2>3, <1>3, <1>4, <1>5, <1>6
    <3>2. CASE x = n
      BY <2>3, <3>1, <3>2, <1>1, <1>2
    <3>3. CASE x # n
      <4>1. m2[x] = m[x] /\ m[x] \in F \cup {h} /\ m[m[x] + 4] = x
        BY <3>3, <2>3, <1>4, <1>5
      <4>2. m[x] # h
        BY <4>1, <3>3 DEF n
      <4> QED BY <2>3, <3>1, <4>1, <4>2, <1>3
    <3> QED BY <3>2, <3>3
  <2> QED BY <2>1, <2>2, <2>3
<1>8. \A a \in Addr : NoLink(G, h, a) => m2[a] = m[a]
  BY <1>1, <1>2 DEF NoLink, WSIZE
<1>9. OneRing(m2, G)
  <2>1. SuccAdded(m, m2, h, F, p)
    BY <1>1, <1>2, <1>3, <1>5 DEF SuccAdded, SUCC_P, GET, WSIZE
  <2> QED BY <2>1, RingAdd
<1> QED BY <1>2, <1>7, <1>8, <1>9 DEF m2

(* list_remove takes p, and nothing else, out of the list, and writes      *)
(* nothing but link words of the nodes that stay.                          *)
LEMMA ListRemove ==
  ASSUME NEW m, NEW h, NEW F, NEW p, NEW G, CanRemove(m, h, F, p, G)
  PROVE  /\ Mem(list_remove(m, p))
         /\ Links(list_remove(m, p), h, G) /\ OneRing(list_remove(m, p), G)
         /\ \A a \in Addr : NoLink(F, h, a) => list_remove(m, p)[a] = m[a]
<1> USE DEF Mem, Minus, CanRemove
<1> DEFINE m2 == list_remove(m, p)
           n  == m[p + 4]
           q  == m[p]
           N  == F \cup {h}
<1>1. \A x \in N : /\ m[x + 4] \in N /\ m[m[x + 4]] = x
                   /\ m[x] \in N /\ m[m[x] + 4] = x
  BY DEF Links, SUCC_P, PRED_P, GET, WSIZE
<1>2. \A x \in N : x \in Nat /\ x \in Addr /\ x + 4 \in Addr /\ \A y \in N : x # y + 4
  BY DEF Nodes, WSIZE
<1>3. n \in N /\ q \in N /\ p \in N /\ n \in Nat /\ q \in Nat
  BY <1>1, <1>2
<1>4. /\ Mem(m2)
      /\ m2[q + 4] = n
      /\ \A a \in Addr : a \notin {q + 4, n} => m2[a] = m[a]
      /\ (q # p => m2[n] = q)
  BY <1>2, <1>3 DEF list_remove, PUT, SUCC_P, PRED_P, GET, WSIZE
<1> HIDE DEF m2, n, q
<1>5. \A x \in N : x # q => m2[x + 4] = m[x + 4]
  BY <1>2, <1>3, <1>4
<1>6. \A x \in N : x # n => m2[x] = m[x]
  BY <1>2, <1>3, <1>4
<1>7. Links(m2, h, G)
  <2> SUFFICES ASSUME NEW x \in N, x # p
               PROVE  /\ m2[x + 4] \in N /\ m2[x + 4] # p /\ m2[m2[x + 4]] = x
                      /\ m2[x] \in N /\ m2[x] # p /\ m2[m2[x] + 4] = x
    BY DEF Links, SUCC_P, PRED_P, GET, WSIZE
  <2>1. m2[x + 4] \in N /\ m2[x + 4] # p /\ m2[m2[x + 4]] = x
    <3>1. CASE x = q
      <4>1. n # p
        BY <1>1, <1>3, <3>1 DEF n, q
      <4> QED BY <3>1, <4>1, <1>3, <1>4
    <3>2. CASE x # q
      <4>1. m2[x + 4] = m[x + 4] /\ m[x + 4] \in N /\ m[m[x + 4]] = x
        BY <3>2, <1>1, <1>5
      <4>2. m[x + 4] # p
        BY <4>1, <3>2 DEF q
      <4>3. m[x + 4] # n
        BY <4>1, <1>1, <1>3 DEF n
      <4> QED BY <4>1, <4>2, <4>3, <1>6
    <3> QED BY <3>1, <3>2
  <2>2. m2[x] \in N /\ m2[x] # p /\ m2[m2[x] + 4] = x
    <3>1. CASE x = n
      <4>1. q # p
        BY <1>1, <1>3, <3>1 DEF n, q
      <4> QED BY <3>1, <4>1, <1>3, <1>4
    <3>2. CASE x # n
      <4>1. m2[x] = m[x] /\ m[x] \in N /\ m[m[x] + 4] = x
        BY <3>2, <1>1, <1>6
      <4>2. m[x] # p
        BY <4>1, <3>2 DEF n
      <4>3. m[x] # q
        BY <4>1, <1>1, <1>3 DEF q
      <4> QED BY <4>1, <4>2, <4>3, <1>5
    <3> QED BY <3>1, <3>2
  <2> QED BY <2>1, <2>2
<1>8. \A a \in Addr : NoLink(F, h, a) => m2[a] = m[a]
  BY <1>3, <1>4 DEF NoLink, WSIZE
<1>9. OneRing(m2, G)
  <2>1. SuccRemoved(m, m2, G, p)
    BY <1>1, <1>3, <1>4, <1>5 DEF SuccRemoved, SUCC_P, GET, WSIZE, n, q
  <2> QED BY <2>1, RingRemove
<1> QED BY <1>4, <1>7, <1>8, <1>9 DEF m2

(* The list depends on the link words only. *)
LEMMA ListFrame ==
  ASSUME NEW m, NEW m2, NEW h, NEW F,
         \A x \in F \cup {h} : m2[x] = m[x] /\ m2[x + 4] = m[x + 4]
  PROVE  /\ PreLinks(m, h, F) => PreLinks(m2, h, F)
         /\ Links(m, h, F) => Links(m2, h, F)
         /\ OneRing(m, F) => OneRing(m2, F)
<1>1. Links(m, h, F) => Links(m2, h, F)
  BY DEF Links, SUCC_P, PRED_P, GET, WSIZE
<1>2. OneRing(m, F) => OneRing(m2, F)
  <2> SUFFICES ASSUME OneRing(m, F), NEW S \in SUBSET F, S # {}
               PROVE  \E x \in S : SUCC_P(m2, x) \notin S
    BY DEF OneRing
  <2>1. PICK x \in S : SUCC_P(m, x) \notin S
    BY DEF OneRing
  <2> QED BY <2>1 DEF SUCC_P, GET, WSIZE
<1> QED BY <1>1, <1>2 DEF PreLinks, SUCC_P, GET, WSIZE

-----------------------------------------------------------------------------
(* Boundary tags *)

(* A tag holds the size and the bit it was packed from. *)
LEMMA PackFacts ==
  ASSUME NEW s \in Nat, s % 8 = 0, NEW al \in {0, 1}
  PROVE  /\ PACK(s, al) \in Nat
         /\ SizeOf(PACK(s, al)) = s
         /\ AllocOf(PACK(s, al)) = al
BY DEF PACK, SizeOf, AllocOf

(* The parts of any word. *)
LEMMA SizeFacts ==
  ASSUME NEW w \in Nat
  PROVE  /\ SizeOf(w) \in Nat /\ SizeOf(w) % 8 = 0
         /\ AllocOf(w) \in {0, 1}
BY DEF SizeOf, AllocOf

(* Multiples of 8 are closed under sum and difference. *)
LEMMA AlignedSum ==
  ASSUME NEW a \in Int, NEW b \in Int, a % 8 = 0, b % 8 = 0
  PROVE  (a + b) % 8 = 0 /\ (a - b) % 8 = 0
OBVIOUS

(* Words around a multiple of 8 inside the region. *)
LEMMA AddrFacts ==
  ASSUME NEW a \in Nat, a % 8 = 0
  PROVE  /\ mem_start_brk <= a /\ a < mem_max_addr => a \in Addr
         /\ mem_start_brk <= a /\ a < mem_max_addr => a + 4 \in Addr
         /\ mem_start_brk < a /\ a <= mem_max_addr => a - 4 \in Addr
         /\ mem_start_brk < a /\ a <= mem_max_addr => a - 8 \in Addr
BY MemAssumption DEF Addr, mem_max_addr, WSIZE

-----------------------------------------------------------------------------
(* A heap whose break is k, cut into the blocks of B. *)
Heap(m, h, k, B) ==
    /\ Mem(m) /\ B \subseteq Nat
    /\ h = mem_start_brk + 8 /\ k \in Nat /\ k <= mem_max_addr
    /\ Tiles(m, h, k, B)

(* The arithmetic of the blocks of a heap. *)
LEMMA HeapFacts ==
  ASSUME NEW m, NEW h, NEW k, NEW B, Heap(m, h, k, B)
  PROVE  /\ h \in B /\ h \in Nat /\ h % 8 = 0 /\ Size(m, h) = 16 /\ ~IsFree(m, h)
         /\ k \in Nat /\ k % 8 = 0 /\ h + 16 <= k /\ k - 4 \in Addr
         /\ \A b \in B :
              /\ b \in Nat /\ b % 8 = 0 /\ h <= b
              /\ Size(m, b) \in Nat /\ Size(m, b) % 8 = 0 /\ Size(m, b) >= 16
              /\ b + Size(m, b) <= k
              /\ b - 4 \in Addr /\ b \in Addr /\ b + 4 \in Addr
              /\ b + Size(m, b) - 8 \in Addr
         /\ \A b, c \in B : b < c => b + Size(m, b) <= c
<1> USE DEF Heap, Mem
<1>1. \A b \in B : b \in Nat /\ b % 8 = 0 /\ h <= b /\ b < k
  BY DEF Tiles, BlockAt
<1>2. h \in B /\ h \in Nat /\ mem_start_brk \in Nat
  BY MemAssumption DEF Tiles
<1>3. \A b \in B : b - 4 \in Addr /\ b \in Addr /\ b + 4 \in Addr
  BY <1>1, <1>2, AddrFacts, MemAssumption DEF mem_max_addr
<1>4. \A b \in B : /\ Size(m, b) \in Nat /\ Size(m, b) % 8 = 0
                   /\ GET_ALLOC(m, HDRP(b)) \in {0, 1}
  BY <1>3, SizeFacts DEF Size, GET_SIZE, GET_ALLOC, GET, HDRP, WSIZE
<1>5. \A b \in B : Size(m, b) >= 16 /\ b + Size(m, b) <= k
  BY DEF Tiles, BlockAt
<1>6. \A b \in B : (b + Size(m, b)) % 8 = 0
  BY <1>1, <1>4, AlignedSum
<1>7. ASSUME NEW b \in B
      PROVE  b + Size(m, b) - 8 \in Addr
  <2> DEFINE c == b + Size(m, b)
  <2>1. c \in Nat /\ c % 8 = 0 /\ mem_start_brk < c /\ c <= mem_max_addr
    BY <1>1, <1>2, <1>4, <1>5, <1>6, MemAssumption DEF mem_max_addr
  <2> HIDE DEF c
  <2>2. c - 8 \in Addr
    BY <2>1, AddrFacts
  <2> QED BY <2>2, <1>1, <1>4 DEF c
<1>8. Size(m, h) = 16 /\ ~IsFree(m, h)
  BY PackFacts DEF Tiles, Size, IsFree, GET_SIZE, GET_ALLOC, GET
<1>9. h + 16 <= k
  BY <1>2, <1>5, <1>8
<1>10. k % 8 = 0
  BY <1>6 DEF Tiles
<1>11. k - 4 \in Addr
  BY <1>2, <1>9, <1>10, AddrFacts, MemAssumption DEF mem_max_addr
<1>12. \A b, c \in B : b < c => b + Size(m, b) <= c
  BY DEF Tiles
<1> QED BY <1>1, <1>2, <1>3, <1>4, <1>5, <1>7, <1>8, <1>9, <1>10, <1>11, <1>12

(* b's tags are the same in m and m2. *)
SameTags(m, m2, b) ==
    m2[b - 4] = m[b - 4] /\ m2[b + Size(m, b) - 8] = m[b + Size(m, b) - 8]

(* Two memories with the same header have the same block. *)
LEMMA SameHeader ==
  ASSUME NEW m, NEW m2, NEW b, m2[b - 4] = m[b - 4]
  PROVE  Size(m2, b) = Size(m, b) /\ (IsFree(m2, b) <=> IsFree(m, b))
BY DEF Size, IsFree, GET_SIZE, GET_ALLOC, GET, HDRP, WSIZE

(* A header just written. *)
LEMMA NewHeader ==
  ASSUME NEW m2, NEW b \in Nat, NEW s \in Nat, s % 8 = 0, NEW al \in {0, 1},
         m2[b - 4] = PACK(s, al)
  PROVE  Size(m2, b) = s /\ (IsFree(m2, b) <=> al = 0) /\ GET_ALLOC(m2, HDRP(b)) = al
BY PackFacts DEF Size, IsFree, GET_SIZE, GET_ALLOC, GET, HDRP, WSIZE

(* A pair of tags for the block from x to e. *)
Tagged(m2, x, e, al) == m2[x - 4] = PACK(e - x, al) /\ m2[e - 8] = PACK(e - x, al)

(* The other blocks, and the epilogue, keep their tags. *)
TagsOutside(m, m2, k, B, x, e) ==
    /\ \A b \in B : b < x \/ b >= e => SameTags(m, m2, b)
    /\ m2[k - 4] = m[k - 4]

(* C is B without the blocks strictly between x and e. *)
Outside(C, B, x, e) ==
    C \subseteq B /\ \A b \in B : b \in C <=> b <= x \/ b >= e

(* The blocks from x up to e become one block: merging (coalesce), and     *)
(* with e the end of x, retagging (mm_free, place).                        *)
LEMMA Merge ==
  ASSUME NEW m, NEW m2, NEW h, NEW k, NEW B, Heap(m, h, k, B),
         Mem(m2),
         NEW x \in B \ {h}, NEW e \in B \cup {k}, x < e, NEW al \in {0, 1},
         Tagged(m2, x, e, al), TagsOutside(m, m2, k, B, x, e),
         NEW C, Outside(C, B, x, e)
  PROVE  /\ Heap(m2, h, k, C)
         /\ Size(m2, x) = e - x /\ (IsFree(m2, x) <=> al = 0)
         /\ \A b \in B : b < x \/ b >= e =>
                Size(m2, b) = Size(m, b) /\ (IsFree(m2, b) <=> IsFree(m, b))
<1>1. /\ h \in B /\ h \in Nat /\ k \in Nat /\ k % 8 = 0
      /\ \A b \in B :
              /\ b \in Nat /\ b % 8 = 0 /\ h <= b
              /\ Size(m, b) \in Nat /\ Size(m, b) >= 16
              /\ b + Size(m, b) <= k
      /\ \A b, c \in B : b < c => b + Size(m, b) <= c
  BY HeapFacts
<1>2. e \in Nat /\ e % 8 = 0 /\ e <= k /\ x \in Nat /\ x % 8 = 0 /\ e - x \in Nat
  <2>1. x \in Nat /\ x % 8 = 0
    BY <1>1
  <2>2. e \in Nat /\ e % 8 = 0 /\ e <= k
    BY <1>1
  <2> QED BY <2>1, <2>2
<1>3. (e - x) % 8 = 0
  BY <1>2, AlignedSum
<1>4. e - x >= 16
  <2>1. x + Size(m, x) <= e
    BY <1>1, <1>2
  <2> QED BY <2>1, <1>1, <1>2
<1>5. /\ Size(m2, x) = e - x /\ (IsFree(m2, x) <=> al = 0)
      /\ GET_ALLOC(m2, HDRP(x)) = al
  BY <1>2, <1>3, NewHeader DEF Tagged
<1>6. \A b \in B : b < x \/ b >= e =>
         /\ Size(m2, b) = Size(m, b) /\ (IsFree(m2, b) <=> IsFree(m, b))
         /\ m2[b - 4] = m[b - 4]
         /\ m2[b + Size(m, b) - 8] = m[b + Size(m, b) - 8]
  BY SameHeader DEF SameTags, TagsOutside
<1>7. \A b \in B : b < x => b + Size(m, b) <= x
  BY <1>1, <1>2
<1>8. Tiles(m2, h, k, C)
  <2> USE DEF Outside
  <2>1. h \in C /\ m2[HDRP(h)] = PACK(16, 1)
    <3>1. h < x
      BY <1>1, <1>2
    <3> QED BY <3>1, <1>1, <1>6 DEF Heap, Tiles, HDRP, WSIZE
  <2>2. ASSUME NEW b \in C
        PROVE  BlockAt(m2, h, k, b) /\ b + Size(m2, b) \in C \cup {k}
    <3>1. CASE b = x
      <4>1. /\ m2[x - 4] = PACK(e - x, al) /\ m2[e - 8] = PACK(e - x, al)
            /\ x + (e - x) = e /\ x < k /\ h <= x
        BY <1>1, <1>2 DEF Tagged
      <4> QED BY <3>1, <4>1, <1>2, <1>4, <1>5 DEF BlockAt, HDRP, WSIZE, DSIZE
    <3>2. CASE b < x \/ b >= e
      <4>1. BlockAt(m, h, k, b) /\ b + Size(m, b) \in B \cup {k}
        BY DEF Heap, Tiles
      <4>2. GET_ALLOC(m2, HDRP(b)) = GET_ALLOC(m, HDRP(b))
        BY <1>6, <3>2 DEF GET_ALLOC, GET, HDRP, WSIZE
      <4>3. BlockAt(m2, h, k, b)
        BY <4>1, <4>2, <1>6, <3>2 DEF BlockAt, HDRP, WSIZE, DSIZE
      <4>4. b + Size(m, b) \in C \cup {k}
        BY <4>1, <1>1, <1>2, <1>7, <3>2
      <4> QED BY <4>3, <4>4, <1>6, <3>2
    <3> QED BY <3>1, <3>2, <1>1, <1>2
  <2>3. ASSUME NEW b \in C, NEW c \in C, b < c
        PROVE  b + Size(m2, b) <= c
    <3>0. b \in B /\ c \in B /\ b \in Nat /\ c \in Nat
      BY <1>1
    <3>1. CASE b = x
      <4>1. c >= e
        BY <3>0, <3>1, <2>3, <1>2
      <4> QED BY <4>1, <3>0, <3>1, <1>2, <1>5
    <3>2. CASE b # x
      BY <3>2, <2>3, <1>1, <1>2, <1>6
    <3> QED BY <3>1, <3>2
  <2>4. ASSUME NEW c \in (C \ {h}) \cup {k}
        PROVE  \E b \in C : b + Size(m2, b) = c
    <3>1. CASE c = e
      BY <3>1, <1>1, <1>2, <1>5
    <3>2. CASE c # e
      <4>1. PICK b \in B : b + Size(m, b) = c
        BY DEF Heap, Tiles
      <4>2. b < x \/ b >= e
        <5>1. c <= x \/ c > e
          <6>1. CASE c = k
            BY <6>1, <3>2, <1>1, <1>2
          <6>2. CASE c \in C
            <7>1. c \in Nat /\ (c <= x \/ c >= e)
              BY <6>2, <1>1
            <7> QED BY <7>1, <3>2, <1>2
          <6> QED BY <6>1, <6>2
        <5>2. CASE c <= x
          BY <5>2, <4>1, <1>1, <1>2
        <5>3. CASE c > e
          <6>1. CASE b < e
            <7>1. b + Size(m, b) <= e
              BY <6>1, <1>1, <1>2
            <7> QED BY <7>1, <4>1, <5>3, <1>1, <1>2
          <6> QED BY <6>1, <1>1, <1>2
        <5> QED BY <5>1, <5>2, <5>3
      <4> QED BY <4>1, <4>2, <1>1, <1>2, <1>6
    <3> QED BY <3>1, <3>2
  <2>5. m2[k - WSIZE] = PACK(0, 1)
    BY DEF Heap, Tiles, WSIZE, TagsOutside
  <2> QED BY <2>1, <2>2, <2>3, <2>4, <2>5 DEF Tiles
<1> QED BY <1>5, <1>6, <1>8 DEF Heap, Outside

(* All tags are the same. *)
AllTags(m, m2, k, B) ==
    (\A b \in B : SameTags(m, m2, b)) /\ m2[k - 4] = m[k - 4]

(* Words other than tags may change freely. *)
LEMMA TagFrame ==
  ASSUME NEW m, NEW m2, NEW h, NEW k, NEW B, Heap(m, h, k, B),
         Mem(m2), AllTags(m, m2, k, B)
  PROVE  /\ Heap(m2, h, k, B)
         /\ \A b \in B : Size(m2, b) = Size(m, b) /\ (IsFree(m2, b) <=> IsFree(m, b))
<1> USE DEF AllTags
<1>1. \A b \in B :
         /\ Size(m2, b) = Size(m, b) /\ (IsFree(m2, b) <=> IsFree(m, b))
         /\ m2[b - 4] = m[b - 4] /\ GET_ALLOC(m2, HDRP(b)) = GET_ALLOC(m, HDRP(b))
         /\ m2[b + Size(m, b) - 8] = m[b + Size(m, b) - 8]
  BY SameHeader DEF SameTags, GET_ALLOC, GET, HDRP, WSIZE
<1>2. h \in B /\ m2[HDRP(h)] = PACK(16, 1)
  BY <1>1 DEF Heap, Tiles, HDRP, WSIZE
<1>3. ASSUME NEW b \in B
      PROVE  BlockAt(m2, h, k, b) /\ b + Size(m2, b) \in B \cup {k}
  <2>1. BlockAt(m, h, k, b) /\ b + Size(m, b) \in B \cup {k}
    BY DEF Heap, Tiles
  <2> QED BY <2>1, <1>1 DEF BlockAt, HDRP, WSIZE, DSIZE
<1>4. /\ \A b, c \in B : b < c => b + Size(m2, b) <= c
      /\ \A c \in (B \ {h}) \cup {k} : \E b \in B : b + Size(m2, b) = c
      /\ m2[k - WSIZE] = PACK(0, 1)
  BY <1>1 DEF Heap, Tiles, WSIZE
<1> QED BY <1>1, <1>2, <1>3, <1>4 DEF Heap, Tiles

(* Tags for an allocated block of s bytes at p and a free one of r bytes.  *)
SplitTags(m2, p, s, r) ==
    /\ m2[p - 4] = PACK(s, 1) /\ m2[p + s - 8] = PACK(s, 1)
    /\ m2[p + s - 4] = PACK(r, 0) /\ m2[p + s + r - 8] = PACK(r, 0)

OtherTags(m, m2, k, B, p) ==
    (\A b \in B : b # p => SameTags(m, m2, b)) /\ m2[k - 4] = m[k - 4]

(* Block p is cut in two: an allocated block of s bytes and a free one     *)
(* (place).                                                                *)
LEMMA Split ==
  ASSUME NEW m, NEW m2, NEW h, NEW k, NEW B, Heap(m, h, k, B),
         Mem(m2),
         NEW p \in B \ {h}, NEW s \in Nat, s % 8 = 0, s >= 16,
         NEW r \in Nat, r = Size(m, p) - s, r >= 16,
         SplitTags(m2, p, s, r), OtherTags(m, m2, k, B, p),
         NEW q, q = p + s, NEW C, Plus(C, B, q)
  PROVE  /\ Heap(m2, h, k, C)
         /\ Size(m2, p) = s /\ ~IsFree(m2, p)
         /\ Size(m2, q) = r /\ IsFree(m2, q)
         /\ \A b \in B : b # p =>
                Size(m2, b) = Size(m, b) /\ (IsFree(m2, b) <=> IsFree(m, b))
<1> USE DEF SplitTags, OtherTags, Plus
<1> DEFINE e == p + Size(m, p)
<1>1. /\ h \in B /\ h \in Nat /\ k \in Nat
      /\ \A b \in B :
              /\ b \in Nat /\ b % 8 = 0 /\ h <= b
              /\ Size(m, b) \in Nat /\ Size(m, b) % 8 = 0 /\ Size(m, b) >= 16
              /\ b + Size(m, b) <= k
      /\ \A b, c \in B : b < c => b + Size(m, b) <= c
  BY HeapFacts
<1>2. /\ q \in Nat /\ q % 8 = 0 /\ r % 8 = 0 /\ e = q + r /\ e = p + s + r /\ e \in Nat
      /\ p \in Nat /\ e <= k /\ e \in B \cup {k}
  <2>1. r % 8 = 0 /\ q % 8 = 0
    BY <1>1, AlignedSum
  <2>2. e \in B \cup {k}
    BY DEF Heap, Tiles
  <2> QED BY <2>1, <2>2, <1>1
<1>3. /\ Size(m2, p) = s /\ ~IsFree(m2, p) /\ GET_ALLOC(m2, HDRP(p)) = 1
  BY <1>1, NewHeader
<1>4. /\ Size(m2, q) = r /\ IsFree(m2, q) /\ GET_ALLOC(m2, HDRP(q)) = 0
  BY <1>2, NewHeader
<1>5. \A b \in B \ {p} :
         /\ Size(m2, b) = Size(m, b) /\ (IsFree(m2, b) <=> IsFree(m, b))
         /\ m2[b - 4] = m[b - 4] /\ GET_ALLOC(m2, HDRP(b)) = GET_ALLOC(m, HDRP(b))
         /\ m2[b + Size(m, b) - 8] = m[b + Size(m, b) - 8]
  BY SameHeader DEF SameTags, GET_ALLOC, GET, HDRP, WSIZE
<1> HIDE DEF e
<1>6. \A b \in B : b # p => b + Size(m, b) <= p \/ b >= e
  BY <1>1, <1>2 DEF e
<1>7. Tiles(m2, h, k, C)
  <2>1. h \in C /\ m2[HDRP(h)] = PACK(16, 1)
    BY <1>1, <1>5 DEF Heap, Tiles, HDRP, WSIZE
  <2>2. ASSUME NEW b \in C
        PROVE  BlockAt(m2, h, k, b) /\ b + Size(m2, b) \in C \cup {k}
    <3>1. CASE b = p
      <4>1. BlockAt(m2, h, k, p)
        BY <1>1, <1>2, <1>3 DEF BlockAt, HDRP, WSIZE, DSIZE
      <4> QED BY <3>1, <4>1, <1>3
    <3>2. CASE b = q
      <4>1. m2[q - 4] = PACK(r, 0) /\ m2[q + r - 8] = PACK(r, 0) /\ h <= q /\ q < k
        BY <1>1, <1>2
      <4>2. BlockAt(m2, h, k, q)
        BY <4>1, <1>1, <1>2, <1>4 DEF BlockAt, HDRP, WSIZE, DSIZE
      <4> QED BY <3>2, <4>2, <1>2, <1>4
    <3>3. CASE b \in B \ {p}
      <4>1. BlockAt(m, h, k, b) /\ b + Size(m, b) \in B \cup {k}
        BY <3>3 DEF Heap, Tiles
      <4> QED BY <4>1, <1>5, <3>3 DEF BlockAt, HDRP, WSIZE, DSIZE
    <3> QED BY <3>1, <3>2, <3>3
  <2>3. ASSUME NEW b \in C, NEW c \in C, b < c
        PROVE  b + Size(m2, b) <= c
    <3>0. c \in Nat /\ (c = q \/ c = p \/ c + Size(m, c) <= p \/ c >= e)
      BY <1>1, <1>2, <1>6
    <3>1. CASE b = p
      <4>1. c >= q
        <5>1. CASE c \in B /\ c # p /\ c + Size(m, c) <= p
          BY <5>1, <3>1, <2>3, <1>1, <1>2
        <5> QED BY <5>1, <3>0, <3>1, <2>3, <1>1, <1>2
      <4> QED BY <4>1, <3>0, <3>1, <1>2, <1>3
    <3>2. CASE b = q
      <4>1. c >= e
        <5>1. CASE c \in B /\ c # p /\ c + Size(m, c) <= p
          BY <5>1, <3>2, <2>3, <1>1, <1>2
        <5> QED BY <5>1, <3>0, <3>2, <2>3, <1>1, <1>2
      <4> QED BY <4>1, <3>0, <3>2, <1>2, <1>4
    <3>3. CASE b \in B \ {p}
      BY <3>3, <2>3, <1>1, <1>2, <1>5, <1>6
    <3> QED BY <3>1, <3>2, <3>3
  <2>4. ASSUME NEW c \in (C \ {h}) \cup {k}
        PROVE  \E b \in C : b + Size(m2, b) = c
    <3>1. CASE c = q
      BY <3>1, <1>3
    <3>2. CASE c = e
      BY <3>2, <1>2, <1>4
    <3>3. CASE c # q /\ c # e
      <4>1. PICK b \in B : b + Size(m, b) = c
        BY <3>3 DEF Heap, Tiles
      <4>2. b # p
        BY <4>1, <3>3 DEF e
      <4> QED BY <4>1, <4>2, <1>5
    <3> QED BY <3>1, <3>2, <3>3
  <2>5. m2[k - WSIZE] = PACK(0, 1)
    BY DEF Heap, Tiles, WSIZE
  <2> QED BY <2>1, <2>2, <2>3, <2>4, <2>5 DEF Tiles
<1> QED BY <1>2, <1>3, <1>4, <1>5, <1>7 DEF Heap

(* Tags for a free block of s bytes at the old break k, and an epilogue.   *)
ExtendTags(m, m2, k, B, s) ==
    /\ m2[k - 4] = PACK(s, 0) /\ m2[k + s - 8] = PACK(s, 0)
    /\ m2[k + s - 4] = PACK(0, 1)
    /\ \A b \in B : SameTags(m, m2, b)

(* The heap grows by a free block of s bytes (extend_heap). *)
LEMMA Extend ==
  ASSUME NEW m, NEW m2, NEW h, NEW k, NEW B, Heap(m, h, k, B),
         Mem(m2),
         NEW s \in Nat, s % 8 = 0, s >= 16, k + s <= mem_max_addr,
         ExtendTags(m, m2, k, B, s),
         NEW e, e = k + s, NEW C, Plus(C, B, k)
  PROVE  /\ Heap(m2, h, e, C)
         /\ Size(m2, k) = s /\ IsFree(m2, k)
         /\ \A b \in B :
                Size(m2, b) = Size(m, b) /\ (IsFree(m2, b) <=> IsFree(m, b))
<1> USE DEF ExtendTags, Plus
<1>1. /\ h \in B /\ h \in Nat /\ k \in Nat /\ k % 8 = 0 /\ h + 16 <= k
      /\ \A b \in B :
              /\ b \in Nat /\ b % 8 = 0 /\ h <= b
              /\ Size(m, b) \in Nat /\ Size(m, b) % 8 = 0 /\ Size(m, b) >= 16
              /\ b + Size(m, b) <= k
      /\ \A b, c \in B : b < c => b + Size(m, b) <= c
  BY HeapFacts
<1>2. Size(m2, k) = s /\ IsFree(m2, k) /\ GET_ALLOC(m2, HDRP(k)) = 0
  BY <1>1, NewHeader
<1>3. \A b \in B :
         /\ Size(m2, b) = Size(m, b) /\ (IsFree(m2, b) <=> IsFree(m, b))
         /\ m2[b - 4] = m[b - 4] /\ GET_ALLOC(m2, HDRP(b)) = GET_ALLOC(m, HDRP(b))
         /\ m2[b + Size(m, b) - 8] = m[b + Size(m, b) - 8]
  BY SameHeader DEF SameTags, GET_ALLOC, GET, HDRP, WSIZE
<1>4. h \in C /\ m2[HDRP(h)] = PACK(16, 1)
  BY <1>1, <1>3 DEF Heap, Tiles, HDRP, WSIZE
<1>5. ASSUME NEW b \in C
      PROVE  BlockAt(m2, h, e, b) /\ b + Size(m2, b) \in C \cup {e}
  <2>1. CASE b = k
    BY <2>1, <1>1, <1>2 DEF BlockAt, HDRP, WSIZE, DSIZE
  <2>2. CASE b \in B
    <3>1. BlockAt(m, h, k, b) /\ b + Size(m, b) \in B \cup {k}
      BY <2>2 DEF Heap, Tiles
    <3>2. b < e /\ b + Size(m, b) <= e
      BY <2>2, <1>1
    <3> QED BY <3>1, <3>2, <2>2, <1>3 DEF BlockAt, HDRP, WSIZE, DSIZE
  <2> QED BY <2>1, <2>2
<1>6. \A b, c \in C : b < c => b + Size(m2, b) <= c
  BY <1>1, <1>3
<1>7. ASSUME NEW c \in (C \ {h}) \cup {e}
      PROVE  \E b \in C : b + Size(m2, b) = c
  <2>1. CASE c = e
    BY <2>1, <1>2
  <2>2. CASE c # e
    <3>1. PICK b \in B : b + Size(m, b) = c
      BY <2>2 DEF Heap, Tiles
    <3> QED BY <3>1, <1>3
  <2> QED BY <2>1, <2>2
<1>8. m2[e - WSIZE] = PACK(0, 1)
  BY <1>1 DEF WSIZE
<1>9. Tiles(m2, h, e, C)
  BY <1>4, <1>5, <1>6, <1>7, <1>8 DEF Tiles
<1>10. e \in Nat /\ C \subseteq Nat
  BY <1>1
<1> QED BY <1>2, <1>3, <1>9, <1>10 DEF Heap

(* The heap mm_init starts from: the prologue alone. *)
LEMMA FirstHeap ==
  ASSUME NEW m, Mem(m), NEW h, h = mem_start_brk + 8,
         mem_start_brk + 24 <= mem_max_addr,
         m[h - 4] = PACK(16, 1), m[h + 8] = PACK(16, 1), m[h + 12] = PACK(0, 1)
  PROVE  Heap(m, h, h + 16, {h})
<1>1. h \in Nat /\ h % 8 = 0
  BY MemAssumption
<1>2. Size(m, h) = 16 /\ GET_ALLOC(m, HDRP(h)) = 1
  BY <1>1, NewHeader
<1>3. BlockAt(m, h, h + 16, h)
  BY <1>1, <1>2 DEF BlockAt, HDRP, WSIZE, DSIZE
<1>4. m[HDRP(h)] = PACK(16, 1) /\ m[h + 16 - WSIZE] = PACK(0, 1)
  BY <1>1 DEF HDRP, WSIZE
<1>5. Tiles(m, h, h + 16, {h})
  <2>1. \A b \in {h} : BlockAt(m, h, h + 16, b) /\ b + Size(m, b) \in {h} \cup {h + 16}
    BY <1>2, <1>3
  <2>2. \A b, c \in {h} : b < c => b + Size(m, b) <= c
    BY <1>1
  <2>3. \A c \in ({h} \ {h}) \cup {h + 16} : \E b \in {h} : b + Size(m, b) = c
    BY <1>2
  <2> QED BY <2>1, <2>2, <2>3, <1>1, <1>4 DEF Tiles, WSIZE
<1> QED BY <1>1, <1>5, MemAssumption DEF Heap, mem_max_addr

(* The two stores of a pair of tags. *)
LEMMA PutTagsFacts ==
  ASSUME NEW m, Mem(m), NEW bp \in Nat, NEW s \in Nat, s % 8 = 0,
         NEW al \in {0, 1}, bp - 4 \in Addr, bp + s - 8 \in Addr, s >= 16
  PROVE  /\ Mem(PutTags(m, bp, s, al))
         /\ PutTags(m, bp, s, al)[bp - 4] = PACK(s, al)
         /\ PutTags(m, bp, s, al)[bp + s - 8] = PACK(s, al)
         /\ \A a \in Addr : a # bp - 4 /\ a # bp + s - 8 =>
                PutTags(m, bp, s, al)[a] = m[a]
<1> DEFINE h1 == PUT(m, HDRP(bp), PACK(s, al))
<1>1. PACK(s, al) \in Nat /\ SizeOf(PACK(s, al)) = s
  BY PackFacts
<1>2. /\ Mem(h1) /\ h1[bp - 4] = PACK(s, al)
      /\ \A a \in Addr : a # bp - 4 => h1[a] = m[a]
  BY <1>1 DEF PUT, HDRP, WSIZE, Mem
<1>3. FTRP(h1, bp) = bp + s - 8
  BY <1>1, <1>2 DEF FTRP, GET_SIZE, GET, HDRP, WSIZE, DSIZE
<1>4. PutTags(m, bp, s, al) = [h1 EXCEPT ![bp + s - 8] = PACK(s, al)]
  BY <1>3 DEF PutTags, PUT
<1> HIDE DEF h1
<1> QED BY <1>1, <1>2, <1>4 DEF Mem

-----------------------------------------------------------------------------
(* coalesce *)

(* The free blocks other than bp. *)
OtherFrees(m, B, bp) == Frees(m, B) \ {bp}

(* A heap between two calls: its free blocks are the list, and no two of   *)
(* them are neighbours.                                                    *)
Good(m, h, k, B) ==
    /\ Heap(m, h, k, B)
    /\ FreeList(m, h, Frees(m, B)) /\ NoFreeNeighbours(m, B)

(* A heap on its way to coalesce: bp is tagged free, is not in the list    *)
(* yet, and is the only block that may have a free neighbour.              *)
Pending(m, h, k, B, bp) ==
    /\ Heap(m, h, k, B)
    /\ bp \in Frees(m, B)
    /\ PreLinks(m, h, OtherFrees(m, B, bp)) /\ OneRing(m, OtherFrees(m, B, bp))
    /\ \A b, c \in B : c = b + Size(m, b) /\ IsFree(m, b) /\ IsFree(m, c)
                           => b = bp \/ c = bp

(* The blocks of A keep their headers and their payloads. *)
KeepsBlocks(m, m2, A) ==
    \A b \in A : /\ m2[b - 4] = m[b - 4]
                 /\ \A a \in Addr : b <= a /\ a < b + Size(m, b) - 8 => m2[a] = m[a]

(* A word of block b is a link word of no other block. *)
LEMMA BlockApart ==
  ASSUME NEW m, NEW h, NEW k, NEW B, Heap(m, h, k, B)
  PROVE  /\ \A b, y \in B : \A a \in Addr :
               b - 4 <= a /\ a < b + Size(m, b) - 4 /\ (a = y \/ a = y + 4)
                   => y = b /\ b <= a /\ a < b + Size(m, b) - 8
         /\ \A y \in B : k - 4 # y /\ k - 4 # y + 4
<1>1. /\ k \in Nat
      /\ \A b \in B : /\ b \in Nat /\ Size(m, b) \in Nat /\ Size(m, b) >= 16
                      /\ b + Size(m, b) <= k
      /\ \A b, c \in B : b < c => b + Size(m, b) <= c
  BY HeapFacts
<1>2. Addr \subseteq Int
  BY MemAssumption DEF Addr, mem_max_addr
<1> QED BY <1>1, <1>2

(* Blocks can be nodes of the list. *)
LEMMA HeapNodes ==
  ASSUME NEW m, NEW h, NEW k, NEW B, Heap(m, h, k, B), NEW N \in SUBSET B
  PROVE  Nodes(N, h)
<1>1. /\ h \in B
      /\ \A b \in B : /\ b \in Nat /\ Size(m, b) \in Nat /\ Size(m, b) >= 16
                      /\ b \in Addr /\ b + 4 \in Addr
      /\ \A b, c \in B : b < c => b + Size(m, b) <= c
  BY HeapFacts
<1> QED BY <1>1 DEF Nodes, WSIZE

(* The tags of a block are no link words. *)
LEMMA TagsApart ==
  ASSUME NEW m, NEW h, NEW k, NEW B, Heap(m, h, k, B), NEW N \in SUBSET B
  PROVE  /\ \A b \in B : NoLink(N, h, b - 4) /\ NoLink(N, h, b + Size(m, b) - 8)
         /\ NoLink(N, h, k - 4)
<1>0. h \in B
  BY HeapFacts
<1>1. \A b \in B : /\ b \in Nat /\ Size(m, b) \in Nat /\ Size(m, b) >= 16
                   /\ b - 4 \in Addr /\ b + Size(m, b) - 8 \in Addr
  BY HeapFacts
<1>2. ASSUME NEW b \in B, NEW y \in N \cup {h}
      PROVE  /\ b - 4 # y /\ b - 4 # y + 4
             /\ b + Size(m, b) - 8 # y /\ b + Size(m, b) - 8 # y + 4
  BY <1>0, <1>1, BlockApart
<1> QED BY <1>0, <1>2, BlockApart DEF NoLink, WSIZE

(* The blocks from x up to e are free, bp is one of them, and those on     *)
(* either side are allocated.                                              *)
FreeRun(m, k, B, bp, x, e) ==
    /\ x \in B /\ e \in B \cup {k} /\ x <= bp /\ bp + Size(m, bp) <= e
    /\ \A b \in B : x <= b /\ b < e => IsFree(m, b)
    /\ \A b \in B : b + Size(m, b) = x => ~IsFree(m, b)
    /\ e \in B => ~IsFree(m, e)

(* F1 is the set of free blocks outside that run. *)
FreeOutside(F1, m, B, x, e) ==
    F1 \subseteq B /\ \A b \in B : b \in F1 <=> IsFree(m, b) /\ (b < x \/ b >= e)

(* m2 differs from m only in the tags of the run and in links. *)
OnlyTags(m, m2, x, e, N, h) ==
    \A a \in Addr : a # x - 4 /\ a # e - 8 /\ NoLink(N, h, a) => m2[a] = m[a]

(* The run is out of the list and tagged as one free block. *)
Gathered(m, m2, h, k, B, bp, x, e, F1) ==
    /\ Mem(m2) /\ FreeRun(m, k, B, bp, x, e) /\ FreeOutside(F1, m, B, x, e)
    /\ PreLinks(m2, h, F1) /\ OneRing(m2, F1)
    /\ Tagged(m2, x, e, 0) /\ OnlyTags(m, m2, x, e, Frees(m, B), h)

(* m3 is a good heap with the same allocated blocks, in which bp is part   *)
(* of the free block x.                                                    *)
Absorbed(m, m3, h, k, B, bp, x) ==
    \E C \in SUBSET B :
        /\ Good(m3, h, k, C) /\ x \in Frees(m3, C)
        /\ Size(m3, x) >= Size(m, bp)
        /\ Allocs(m3, C) = Allocs(m, B)
        /\ KeepsBlocks(m, m3, Allocs(m, B) \ {h})

(* The end of coalesce: the free blocks from x up to e are out of the list *)
(* and tagged as one; list_add puts it in.                                 *)
LEMMA CoalesceEnd ==
  ASSUME NEW m, NEW h, NEW k, NEW B, NEW bp, Pending(m, h, k, B, bp),
         NEW m2, NEW x, NEW e, NEW F1, Gathered(m, m2, h, k, B, bp, x, e, F1)
  PROVE  Absorbed(m, list_add(m2, h, x), h, k, B, bp, x)
<1> USE DEF Gathered
<1> DEFINE m3 == list_add(m2, h, x)
           C  == {b \in B : b <= x \/ b >= e}
           F0 == Frees(m, B)
           G  == F1 \cup {x}
<1>0. Outside(C, B, x, e)
  BY DEF Outside
<1> HIDE DEF C
<1>1. Heap(m, h, k, B) /\ bp \in B /\ IsFree(m, bp)
  BY DEF Pending, Frees
<1>2. /\ h \in B /\ h \in Nat /\ ~IsFree(m, h) /\ k \in Nat /\ k - 4 \in Addr
      /\ \A b \in B : /\ b \in Nat /\ Size(m, b) \in Nat /\ Size(m, b) >= 16
                      /\ b + Size(m, b) <= k /\ h <= b
                      /\ b - 4 \in Addr /\ b + Size(m, b) - 8 \in Addr
      /\ \A b, c \in B : b < c => b + Size(m, b) <= c
  BY <1>1, HeapFacts
<1>3. /\ x \in B /\ e \in B \cup {k} /\ x \in Nat /\ e \in Nat /\ x < e
      /\ IsFree(m, x) /\ x # h
  BY <1>1, <1>2 DEF FreeRun
<1>4. \A b \in B : b < x \/ b >= e => SameTags(m, m2, b)
  <2> SUFFICES ASSUME NEW b \in B, b < x \/ b >= e PROVE SameTags(m, m2, b)
    OBVIOUS
  <2>1. /\ b - 4 # x - 4 /\ b - 4 # e - 8
        /\ b + Size(m, b) - 8 # x - 4 /\ b + Size(m, b) - 8 # e - 8
    BY <1>2, <1>3
  <2>2. NoLink(F0, h, b - 4) /\ NoLink(F0, h, b + Size(m, b) - 8)
    BY <1>1, <1>2, TagsApart DEF Frees
  <2> QED BY <2>1, <2>2, <1>2 DEF SameTags, OnlyTags
<1>5. m2[k - 4] = m[k - 4]
  <2>1. k - 4 # x - 4 /\ k - 4 # e - 8
    BY <1>2, <1>3
  <2>2. NoLink(F0, h, k - 4)
    BY <1>1, <1>2, TagsApart DEF Frees
  <2> QED BY <2>1, <2>2, <1>2 DEF OnlyTags
<1>6. /\ Heap(m2, h, k, C)
      /\ Size(m2, x) = e - x /\ IsFree(m2, x)
      /\ \A b \in B : b < x \/ b >= e =>
                Size(m2, b) = Size(m, b) /\ (IsFree(m2, b) <=> IsFree(m, b))
  <2>1. TagsOutside(m, m2, k, B, x, e)
    BY <1>4, <1>5 DEF TagsOutside
  <2> QED BY <1>0, <1>1, <1>3, <2>1, Merge
<1>7. F1 \subseteq C /\ G \subseteq C /\ x \in C /\ h \in C /\ h \notin F1 /\ x \notin F1
  BY <1>0, <1>2, <1>3 DEF Outside, FreeOutside
<1>8. Nodes(G, h) /\ Plus(G, F1, x)
  BY <1>6, <1>7, HeapNodes DEF Plus
<1> HIDE DEF G
<1>9. /\ Mem(m3)
      /\ Links(m3, h, G) /\ OneRing(m3, G)
      /\ \A a \in Addr : NoLink(G, h, a) => m3[a] = m2[a]
  <2>1. CanAdd(m2, h, F1, x, G)
    BY <1>3, <1>7, <1>8 DEF CanAdd
  <2> QED BY <2>1, ListAdd
<1>11. \A b \in C : SameTags(m2, m3, b)
  <2> SUFFICES ASSUME NEW b \in C PROVE SameTags(m2, m3, b)
    OBVIOUS
  <2>1. NoLink(G, h, b - 4) /\ NoLink(G, h, b + Size(m2, b) - 8)
    BY <1>6, <1>7, TagsApart
  <2>2. b - 4 \in Addr /\ b + Size(m2, b) - 8 \in Addr
    BY <1>6, HeapFacts
  <2> QED BY <1>9, <2>1, <2>2 DEF SameTags
<1>12. m3[k - 4] = m2[k - 4]
  <2>1. NoLink(G, h, k - 4)
    BY <1>6, <1>7, TagsApart
  <2> QED BY <1>2, <1>9, <2>1
<1>13. /\ Heap(m3, h, k, C)
       /\ \A b \in C : Size(m3, b) = Size(m2, b) /\ (IsFree(m3, b) <=> IsFree(m2, b))
  <2>1. AllTags(m2, m3, k, C)
    BY <1>11, <1>12 DEF AllTags
  <2> QED BY <1>6, <1>9, <2>1, TagFrame
<1> HIDE DEF m3
<1>14. /\ Size(m3, x) = e - x /\ IsFree(m3, x)
       /\ \A b \in C : b # x =>
             /\ b \in B /\ (b < x \/ b >= e)
             /\ Size(m3, b) = Size(m, b) /\ (IsFree(m3, b) <=> IsFree(m, b))
  <2>1. \A b \in C : b # x => b \in B /\ (b < x \/ b >= e)
    BY <1>0, <1>2, <1>3 DEF Outside
  <2> QED BY <1>6, <1>7, <1>13, <2>1
<1>15. Frees(m3, C) = G
  BY <1>2, <1>3, <1>7, <1>14 DEF Frees, FreeOutside, G
<1>16. Allocs(m3, C) = Allocs(m, B)
  <2>1. ASSUME NEW b \in Allocs(m3, C) PROVE b \in Allocs(m, B)
    BY <1>14 DEF Allocs
  <2>2. ASSUME NEW b \in Allocs(m, B) PROVE b \in Allocs(m3, C)
    BY <1>0, <1>2, <1>3, <1>14 DEF Allocs, FreeRun, Outside
  <2> QED BY <2>1, <2>2
<1>17. ASSUME NEW b \in C, NEW c \in C, c = b + Size(m3, b), IsFree(m3, b), IsFree(m3, c)
       PROVE  FALSE
  <2>1. CASE b = x
    <3>1. c = e /\ c # x
      BY <2>1, <1>3, <1>14, <1>17
    <3> QED BY <3>1, <1>14, <1>17 DEF FreeRun
  <2>2. CASE b # x /\ c = x
    BY <2>2, <1>14, <1>17 DEF FreeRun
  <2>3. CASE b # x /\ c # x
    <3>1. b = bp \/ c = bp
      BY <2>3, <1>14, <1>17 DEF Pending
    <3>2. bp < e /\ bp \in Nat /\ x <= bp
      BY <1>1, <1>2, <1>3 DEF FreeRun
    <3> QED BY <3>1, <3>2, <2>3, <1>2, <1>3, <1>14
  <2> QED BY <2>1, <2>2, <2>3
<1>18. KeepsBlocks(m, m3, Allocs(m, B) \ {h})
  <2> SUFFICES ASSUME NEW b \in Allocs(m, B) \ {h}
               PROVE  /\ m3[b - 4] = m[b - 4]
                      /\ \A a \in Addr : b <= a /\ a < b + Size(m, b) - 8 => m3[a] = m[a]
    BY DEF KeepsBlocks
  <2>1. b \in B /\ ~IsFree(m, b) /\ b # h /\ (b < x \/ b >= e)
    BY <1>2, <1>3 DEF Allocs, FreeRun
  <2>2. m3[b - 4] = m[b - 4]
    <3>1. b \in C
      BY <1>0, <2>1, <1>2, <1>3 DEF Outside
    <3> QED BY <3>1, <2>1, <1>4, <1>11 DEF SameTags
  <2>3. ASSUME NEW a \in Addr, b <= a, a < b + Size(m, b) - 8
        PROVE  m3[a] = m[a]
    <3>1. a \in Int
      BY MemAssumption DEF Addr, mem_max_addr
    <3>2. a # x - 4 /\ a # e - 8
      BY <3>1, <2>1, <2>3, <1>2, <1>3
    <3>3. \A y \in B : a = y \/ a = y + 4 => y = b
      BY <3>1, <2>1, <2>3, <1>1, <1>2, BlockApart
    <3>4. NoLink(F0, h, a)
      BY <3>3, <2>1, <1>2 DEF NoLink, WSIZE, Frees
    <3>5. NoLink(G, h, a)
      BY <3>3, <2>1, <1>2, <1>3 DEF NoLink, WSIZE, FreeOutside, G
    <3> QED BY <3>2, <3>4, <3>5, <1>9 DEF OnlyTags
  <2> QED BY <2>2, <2>3
<1>19. Size(m3, x) >= Size(m, bp)
  BY <1>1, <1>2, <1>3, <1>14 DEF FreeRun
<1>20. Good(m3, h, k, C)
  BY <1>9, <1>13, <1>15, <1>17 DEF Good, FreeList, NoFreeNeighbours
<1>21. x \in Frees(m3, C)
  BY <1>15 DEF G
<1> QED BY <1>0, <1>16, <1>18, <1>19, <1>20, <1>21 DEF m3, Outside, Absorbed

-----------------------------------------------------------------------------
(* Only one block ends where another starts. *)
LEMMA OnePrevious ==
  ASSUME NEW m, NEW h, NEW k, NEW B, Heap(m, h, k, B), NEW b \in B, NEW c \in B,
         b + Size(m, b) = c + Size(m, c)
  PROVE  b = c
<1>1. /\ \A y \in B : y \in Nat /\ Size(m, y) \in Nat /\ Size(m, y) >= 16
      /\ \A y, z \in B : y < z => y + Size(m, y) <= z
  BY HeapFacts
<1>2. ~(b < c) /\ ~(c < b)
  BY <1>1
<1> QED BY <1>1, <1>2

(* What the macros find on either side of a block. *)
LEMMA Neighbours ==
  ASSUME NEW m, NEW h, NEW k, NEW B, Heap(m, h, k, B), NEW bp \in B \ {h}
  PROVE  /\ NEXT_BLKP(m, bp) = bp + Size(m, bp)
         /\ NEXT_BLKP(m, bp) \in B \cup {k}
         /\ GET_ALLOC(m, HDRP(NEXT_BLKP(m, bp))) = 1
               <=> (NEXT_BLKP(m, bp) \in B => ~IsFree(m, NEXT_BLKP(m, bp)))
         /\ PREV_BLKP(m, bp) \in B
         /\ PREV_BLKP(m, bp) + Size(m, PREV_BLKP(m, bp)) = bp
         /\ GET_ALLOC(m, FTRP(m, PREV_BLKP(m, bp))) = 1
               <=> ~IsFree(m, PREV_BLKP(m, bp))
<1> DEFINE nx == NEXT_BLKP(m, bp)
           pv == PREV_BLKP(m, bp)
<1>1. /\ bp \in Nat /\ k \in Nat /\ k - 4 \in Addr
      /\ \A b \in B : /\ b \in Nat /\ Size(m, b) \in Nat /\ Size(m, b) >= 16
                      /\ b - 4 \in Addr /\ b + Size(m, b) <= k
  BY HeapFacts
<1>2. nx = bp + Size(m, bp) /\ nx \in B \cup {k}
  BY DEF NEXT_BLKP, Size, Heap, Tiles
<1>3. \A b \in B : GET_ALLOC(m, HDRP(b)) \in {0, 1}
  BY <1>1, SizeFacts DEF Heap, Mem, GET_ALLOC, GET, HDRP, WSIZE
<1>4. GET_ALLOC(m, HDRP(nx)) = 1 <=> (nx \in B => ~IsFree(m, nx))
  <2> HIDE DEF nx
  <2>1. CASE nx \in B
    BY <2>1, <1>3 DEF IsFree
  <2>2. CASE nx \notin B
    <3>1. m[nx - 4] = PACK(0, 1)
      BY <2>2, <1>2 DEF Heap, Tiles, WSIZE
    <3> QED BY <2>2, <3>1, PackFacts DEF GET_ALLOC, GET, HDRP, WSIZE
  <2> QED BY <2>1, <2>2
<1>5. PICK b \in B : b + Size(m, b) = bp
  BY DEF Heap, Tiles
<1>6. m[bp - 8] = m[b - 4]
  <2>1. m[b + Size(m, b) - 8] = m[b - 4]
    BY DEF Heap, Tiles, BlockAt, DSIZE, HDRP, WSIZE
  <2> QED BY <2>1, <1>1, <1>5
<1>7. pv = b
  <2>1. SizeOf(m[bp - 8]) = Size(m, b)
    BY <1>6 DEF Size, GET_SIZE, GET, HDRP, WSIZE
  <2> QED BY <2>1, <1>1, <1>5 DEF PREV_BLKP, GET_SIZE, GET, DSIZE
<1>8. FTRP(m, b) = bp - 8
  BY <1>1, <1>5 DEF FTRP, Size, DSIZE
<1>9. GET_ALLOC(m, FTRP(m, b)) = GET_ALLOC(m, HDRP(b))
  BY <1>6, <1>8 DEF GET_ALLOC, GET, HDRP, WSIZE
<1>10. GET_ALLOC(m, FTRP(m, b)) = 1 <=> ~IsFree(m, b)
  BY <1>3, <1>9 DEF IsFree
<1> QED BY <1>2, <1>4, <1>5, <1>7, <1>10

(* A block on its way to coalesce is a block other than the prologue. *)
LEMMA PendingFacts ==
  ASSUME NEW m, NEW h, NEW k, NEW B, NEW bp, Pending(m, h, k, B, bp)
  PROVE  Heap(m, h, k, B) /\ bp \in B \ {h} /\ IsFree(m, bp) /\ Mem(m)
<1>1. Heap(m, h, k, B) /\ bp \in B /\ IsFree(m, bp)
  BY DEF Pending, Frees
<1>2. ~IsFree(m, h)
  BY <1>1, HeapFacts
<1> QED BY <1>1, <1>2 DEF Heap

(* coalesce with two allocated neighbours. *)
LEMMA CoalesceAlone ==
  ASSUME NEW m, NEW h, NEW k, NEW B, NEW bp, Pending(m, h, k, B, bp),
         ~IsFree(m, PREV_BLKP(m, bp)),
         NEXT_BLKP(m, bp) \in B => ~IsFree(m, NEXT_BLKP(m, bp))
  PROVE  Absorbed(m, list_add(m, h, bp), h, k, B, bp, bp)
<1> DEFINE e  == bp + Size(m, bp)
           F1 == OtherFrees(m, B, bp)
<1>1. Heap(m, h, k, B) /\ bp \in B \ {h} /\ IsFree(m, bp) /\ Mem(m)
  BY PendingFacts
<1>2. /\ \A b \in B : b \in Nat /\ Size(m, b) \in Nat /\ Size(m, b) >= 16
      /\ \A b, c \in B : b < c => b + Size(m, b) <= c
  BY <1>1, HeapFacts
<1>3. /\ NEXT_BLKP(m, bp) = e /\ e \in B \cup {k}
      /\ PREV_BLKP(m, bp) \in B /\ PREV_BLKP(m, bp) + Size(m, PREV_BLKP(m, bp)) = bp
  BY <1>1, Neighbours
<1>4. FreeRun(m, k, B, bp, bp, e)
  BY <1>1, <1>2, <1>3 DEF FreeRun
<1>5. FreeOutside(F1, m, B, bp, e)
  BY <1>1, <1>2, <1>3 DEF FreeOutside, Frees, OtherFrees
<1>6. PreLinks(m, h, F1) /\ OneRing(m, F1)
  BY DEF Pending
<1>7. Tagged(m, bp, e, 0)
  <2>1. BlockAt(m, h, k, bp)
    BY <1>1 DEF Heap, Tiles
  <2>2. m[bp - 4] = PACK(Size(m, bp), 0) /\ m[bp + Size(m, bp) - 8] = m[bp - 4]
    BY <2>1, <1>1 DEF BlockAt, IsFree, HDRP, WSIZE, DSIZE
  <2>3. e - bp = Size(m, bp)
    BY <1>1, <1>2
  <2> QED BY <2>2, <2>3, <1>1, <1>2 DEF Tagged
<1>8. OnlyTags(m, m, bp, e, Frees(m, B), h)
  BY DEF OnlyTags
<1>9. Gathered(m, m, h, k, B, bp, bp, e, F1)
  BY <1>1, <1>4, <1>5, <1>6, <1>7, <1>8 DEF Gathered
<1> QED BY <1>9, CoalesceEnd

(* m1 differs from m in link words of N and h only. *)
LinksOnly(m, m1, N, h) == \A a \in Addr : NoLink(N, h, a) => m1[a] = m[a]

(* m2 differs from m1 in the tags of the block from x to e only. *)
TagsOnly(m1, m2, x, e) == \A a \in Addr : a # x - 4 /\ a # e - 8 => m2[a] = m1[a]

(* Taking a block out of the list leaves the tiling as it was. *)
LEMMA RemoveFrame ==
  ASSUME NEW m, NEW h, NEW k, NEW B, Heap(m, h, k, B),
         NEW F, NEW p, NEW G, F \subseteq B, CanRemove(m, h, F, p, G)
  PROVE  /\ Heap(list_remove(m, p), h, k, B)
         /\ \A b \in B : /\ Size(list_remove(m, p), b) = Size(m, b)
                         /\ IsFree(list_remove(m, p), b) <=> IsFree(m, b)
         /\ Links(list_remove(m, p), h, G) /\ OneRing(list_remove(m, p), G)
         /\ LinksOnly(m, list_remove(m, p), F, h)
<1> DEFINE m1 == list_remove(m, p)
<1>1. /\ Mem(m1) /\ Links(m1, h, G) /\ OneRing(m1, G)
      /\ \A a \in Addr : NoLink(F, h, a) => m1[a] = m[a]
  BY ListRemove
<1> HIDE DEF m1
<1>2. /\ \A b \in B : b - 4 \in Addr /\ b + Size(m, b) - 8 \in Addr
      /\ k - 4 \in Addr
  BY HeapFacts
<1>3. AllTags(m, m1, k, B)
  BY <1>1, <1>2, TagsApart DEF AllTags, SameTags
<1>4. /\ Heap(m1, h, k, B)
      /\ \A b \in B : Size(m1, b) = Size(m, b) /\ (IsFree(m1, b) <=> IsFree(m, b))
  BY <1>1, <1>3, TagFrame
<1> QED BY <1>1, <1>4 DEF m1, LinksOnly

(* The three ways of merging end alike: the neighbours are out of the list *)
(* (m1), then the tags of the run are written (m2).                        *)
LEMMA MergeDone ==
  ASSUME NEW m, NEW h, NEW k, NEW B, NEW bp, Pending(m, h, k, B, bp),
         NEW x, NEW e, FreeRun(m, k, B, bp, x, e),
         NEW F1, FreeOutside(F1, m, B, x, e),
         NEW m1, Links(m1, h, F1), OneRing(m1, F1), LinksOnly(m, m1, Frees(m, B), h),
         NEW m2, Mem(m2), Tagged(m2, x, e, 0), TagsOnly(m1, m2, x, e)
  PROVE  Gathered(m, m2, h, k, B, bp, x, e, F1)
<1>1. Heap(m, h, k, B) /\ bp \in B
  BY PendingFacts
<1>2. /\ k \in Nat /\ h \in Nat /\ h \in B
      /\ \A b \in B : /\ b \in Nat /\ h <= b /\ Size(m, b) \in Nat /\ Size(m, b) >= 16
                      /\ b \in Addr /\ b + 4 \in Addr
  BY <1>1, HeapFacts
<1>3. x \in B /\ e \in B \cup {k} /\ x < e /\ x \in Nat /\ e \in Nat /\ e # h
  BY <1>1, <1>2 DEF FreeRun
<1>4. PICK b \in B : b + Size(m, b) = e
  BY <1>1, <1>3 DEF Heap, Tiles
<1>5. F1 \in SUBSET B
  BY DEF FreeOutside
<1>6. NoLink(F1, h, x - 4) /\ NoLink(F1, h, b + Size(m, b) - 8)
  BY <1>1, <1>3, <1>5, TagsApart
<1>7. \A y \in F1 \cup {h} : m2[y] = m1[y] /\ m2[y + 4] = m1[y + 4]
  BY <1>2, <1>3, <1>4, <1>5, <1>6 DEF TagsOnly, NoLink, WSIZE
<1>8. Links(m2, h, F1) /\ OneRing(m2, F1)
  BY <1>7, ListFrame
<1>9. OnlyTags(m, m2, x, e, Frees(m, B), h)
  BY DEF OnlyTags, TagsOnly, LinksOnly
<1> QED BY <1>8, <1>9 DEF Gathered, PreLinks

(* When a neighbour of bp is free the list is not empty, hence complete. *)
LEMMA PendingLinks ==
  ASSUME NEW m, NEW h, NEW k, NEW B, NEW bp, Pending(m, h, k, B, bp),
         NEW y \in OtherFrees(m, B, bp)
  PROVE  /\ Links(m, h, OtherFrees(m, B, bp)) /\ OneRing(m, OtherFrees(m, B, bp))
         /\ Nodes(OtherFrees(m, B, bp), h) /\ h \notin OtherFrees(m, B, bp)
<1>1. Heap(m, h, k, B)
  BY PendingFacts
<1>2. Links(m, h, OtherFrees(m, B, bp)) /\ OneRing(m, OtherFrees(m, B, bp))
  BY DEF Pending, PreLinks
<1>3. OtherFrees(m, B, bp) \in SUBSET B
  BY DEF Frees, OtherFrees
<1>4. Nodes(OtherFrees(m, B, bp), h)
  BY <1>1, <1>3, HeapNodes
<1>5. h \notin OtherFrees(m, B, bp)
  BY <1>1, HeapFacts DEF Frees, OtherFrees
<1> QED BY <1>2, <1>4, <1>5

(* coalesce with a free block after bp only. *)
LEMMA CoalesceNext ==
  ASSUME NEW m, NEW h, NEW k, NEW B, NEW bp, Pending(m, h, k, B, bp),
         ~IsFree(m, PREV_BLKP(m, bp)),
         NEXT_BLKP(m, bp) \in B, IsFree(m, NEXT_BLKP(m, bp))
  PROVE  Absorbed(m, list_add(MergeNext(m, bp), h, bp), h, k, B, bp, bp)
<1> DEFINE nx == NEXT_BLKP(m, bp)
           e  == nx + Size(m, nx)
           F0 == OtherFrees(m, B, bp)
           F1 == F0 \ {nx}
           m1 == list_remove(m, nx)
           m2 == MergeNext(m, bp)
<1>1. Heap(m, h, k, B) /\ bp \in B \ {h} /\ IsFree(m, bp) /\ Mem(m)
  BY PendingFacts
<1>2. /\ \A b \in B : /\ b \in Nat /\ Size(m, b) \in Nat /\ Size(m, b) >= 16
                      /\ Size(m, b) % 8 = 0
                      /\ b - 4 \in Addr /\ b + Size(m, b) - 8 \in Addr
      /\ \A b, c \in B : b < c => b + Size(m, b) <= c
  BY <1>1, HeapFacts
<1>3. /\ nx = bp + Size(m, bp) /\ nx \in B /\ nx # bp /\ nx \in Nat
      /\ PREV_BLKP(m, bp) \in B /\ PREV_BLKP(m, bp) + Size(m, PREV_BLKP(m, bp)) = bp
  BY <1>1, <1>2, Neighbours
<1> HIDE DEF nx
<1>4. CanRemove(m, h, F0, nx, F1) /\ F0 \subseteq B
  <2>1. nx \in F0
    BY <1>3 DEF Frees, OtherFrees, nx
  <2>2. Links(m, h, F0) /\ OneRing(m, F0) /\ Nodes(F0, h) /\ h \notin F0
    BY <2>1, <1>3, PendingLinks
  <2> QED BY <2>1, <2>2, <1>1, <1>3 DEF CanRemove, Minus, Frees, OtherFrees
<1>5. /\ Heap(m1, h, k, B) /\ Size(m1, nx) = Size(m, nx)
      /\ Links(m1, h, F1) /\ OneRing(m1, F1) /\ LinksOnly(m, m1, F0, h)
  BY <1>1, <1>3, <1>4, RemoveFrame
<1>6. e \in B \cup {k} /\ e \in Nat /\ e - bp = Size(m, bp) + Size(m, nx)
  BY <1>1, <1>2, <1>3, HeapFacts DEF Heap, Tiles
<1>7. m2 = PutTags(m1, bp, e - bp, 0)
  BY <1>5, <1>6 DEF MergeNext, Size, nx
<1>8. /\ e - bp \in Nat /\ (e - bp) % 8 = 0 /\ e - bp >= 16
      /\ bp + (e - bp) - 8 = e - 8 /\ e - 8 \in Addr
  <2>1. (Size(m, bp) + Size(m, nx)) % 8 = 0
    BY <1>1, <1>2, <1>3, AlignedSum
  <2> QED BY <2>1, <1>1, <1>2, <1>3, <1>6
<1>9. Mem(m2) /\ Tagged(m2, bp, e, 0) /\ TagsOnly(m1, m2, bp, e)
  <2>1. Mem(m1)
    BY <1>5 DEF Heap
  <2>2. bp \in Nat /\ bp - 4 \in Addr
    BY <1>1, <1>2
  <2>3. bp + (e - bp) - 8 \in Addr
    BY <1>8
  <2> HIDE DEF m1, m2, e
  <2> QED BY <2>1, <2>2, <2>3, <1>7, <1>8, PutTagsFacts DEF Tagged, TagsOnly
<1>10. \A b \in B : bp <= b /\ b < e => b = bp \/ b = nx
  BY <1>1, <1>2, <1>3
<1>11. FreeRun(m, k, B, bp, bp, e)
  <2>1. e \in B => ~IsFree(m, e)
    BY <1>1, <1>2, <1>3 DEF Pending, nx
  <2>2. \A b \in B : b + Size(m, b) = bp => ~IsFree(m, b)
    BY <1>1, <1>3, OnePrevious
  <2> QED BY <2>1, <2>2, <1>1, <1>2, <1>3, <1>6, <1>10 DEF FreeRun, nx
<1>12. FreeOutside(F1, m, B, bp, e)
  <2>1. bp < e /\ nx < e /\ bp <= nx /\ bp \in Nat
    BY <1>1, <1>2, <1>3
  <2> QED BY <2>1, <1>2, <1>3, <1>6, <1>10 DEF FreeOutside, Frees, OtherFrees
<1>13. LinksOnly(m, m1, Frees(m, B), h)
  BY <1>5 DEF LinksOnly, NoLink, OtherFrees
<1>14. Gathered(m, m2, h, k, B, bp, bp, e, F1)
  <2> HIDE DEF m1, m2, e, F1
  <2> QED BY <1>5, <1>9, <1>11, <1>12, <1>13, MergeDone
<1> QED BY <1>14, CoalesceEnd

(* The two stores of merging, in either order. *)
LEMMA PutPair ==
  ASSUME NEW m1, Mem(m1), NEW x \in Nat, NEW e \in Nat, e - x \in Nat,
         (e - x) % 8 = 0, x - 4 \in Addr, e - 8 \in Addr, NEW m2,
         \/ m2 = PUT(PUT(m1, e - 8, PACK(e - x, 0)), x - 4, PACK(e - x, 0))
         \/ m2 = PUT(PUT(m1, x - 4, PACK(e - x, 0)), e - 8, PACK(e - x, 0))
  PROVE  Mem(m2) /\ Tagged(m2, x, e, 0) /\ TagsOnly(m1, m2, x, e)
<1> DEFINE w == PACK(e - x, 0)
<1>1. w \in Nat
  BY PackFacts
<1> HIDE DEF w
<1>2. \/ m2 = PUT(PUT(m1, e - 8, w), x - 4, w)
      \/ m2 = PUT(PUT(m1, x - 4, w), e - 8, w)
  BY DEF w
<1>3. /\ Mem(m2) /\ m2[x - 4] = w /\ m2[e - 8] = w
      /\ \A a \in Addr : a # x - 4 /\ a # e - 8 => m2[a] = m1[a]
  BY <1>1, <1>2 DEF PUT, Mem
<1> QED BY <1>3 DEF Tagged, TagsOnly, w

(* coalesce with a free block before bp only. *)
LEMMA CoalescePrev ==
  ASSUME NEW m, NEW h, NEW k, NEW B, NEW bp, Pending(m, h, k, B, bp),
         IsFree(m, PREV_BLKP(m, bp)),
         NEXT_BLKP(m, bp) \in B => ~IsFree(m, NEXT_BLKP(m, bp))
  PROVE  Absorbed(m, list_add(MergePrev(m, bp), h, PREV_BLKP(m, bp)),
                  h, k, B, bp, PREV_BLKP(m, bp))
<1> DEFINE pv == PREV_BLKP(m, bp)
           e  == bp + Size(m, bp)
           F0 == OtherFrees(m, B, bp)
           F1 == F0 \ {pv}
           m1 == list_remove(m, pv)
           m2 == MergePrev(m, bp)
<1>1. Heap(m, h, k, B) /\ bp \in B \ {h} /\ IsFree(m, bp) /\ Mem(m)
  BY PendingFacts
<1>2. /\ \A b \in B : /\ b \in Nat /\ Size(m, b) \in Nat /\ Size(m, b) >= 16
                      /\ Size(m, b) % 8 = 0
                      /\ b - 4 \in Addr /\ b + Size(m, b) - 8 \in Addr
      /\ \A b, c \in B : b < c => b + Size(m, b) <= c
  BY <1>1, HeapFacts
<1>3. /\ NEXT_BLKP(m, bp) = e /\ e \in B \cup {k}
      /\ pv \in B /\ pv + Size(m, pv) = bp
  BY <1>1, Neighbours
<1>4. pv \in Nat /\ bp \in Nat /\ e \in Nat /\ pv # bp /\ IsFree(m, pv)
  BY <1>1, <1>2, <1>3
<1> HIDE DEF pv
<1>5. CanRemove(m, h, F0, pv, F1) /\ F0 \subseteq B
  <2>1. pv \in F0
    BY <1>3, <1>4 DEF Frees, OtherFrees
  <2>2. Links(m, h, F0) /\ OneRing(m, F0) /\ Nodes(F0, h) /\ h \notin F0
    BY <2>1, PendingLinks
  <2> QED BY <2>1, <2>2, <1>1, <1>3 DEF CanRemove, Minus, Frees, OtherFrees
<1>6. /\ Heap(m1, h, k, B) /\ Size(m1, pv) = Size(m, pv) /\ Size(m1, bp) = Size(m, bp)
      /\ Links(m1, h, F1) /\ OneRing(m1, F1) /\ LinksOnly(m, m1, F0, h)
  BY <1>1, <1>3, <1>5, RemoveFrame
<1>7. /\ e - pv \in Nat /\ (e - pv) % 8 = 0
      /\ e - pv = Size(m, bp) + Size(m, pv) /\ e - 8 \in Addr
  <2>1. (Size(m, bp) + Size(m, pv)) % 8 = 0
    BY <1>1, <1>2, <1>3, AlignedSum
  <2> QED BY <2>1, <1>1, <1>2, <1>3, <1>4
<1>8. m2 = PUT(PUT(m1, e - 8, PACK(e - pv, 0)), pv - 4, PACK(e - pv, 0))
  <2>1. FTRP(m1, bp) = e - 8
    BY <1>1, <1>2, <1>4, <1>6 DEF FTRP, Size, DSIZE
  <2>2. e - pv = GET_SIZE(m, HDRP(bp)) + GET_SIZE(m1, HDRP(pv))
    BY <1>6, <1>7 DEF Size
  <2> QED BY <2>1, <2>2 DEF MergePrev, pv, HDRP, WSIZE
<1>9. Mem(m2) /\ Tagged(m2, pv, e, 0) /\ TagsOnly(m1, m2, pv, e)
  <2>1. Mem(m1) /\ pv - 4 \in Addr
    BY <1>2, <1>3, <1>6 DEF Heap
  <2> HIDE DEF m1, m2, e
  <2> QED BY <2>1, <1>4, <1>7, <1>8, PutPair
<1>10. \A b \in B : pv <= b /\ b < e => b = pv \/ b = bp
  BY <1>1, <1>2, <1>3, <1>4
<1>11. FreeRun(m, k, B, bp, pv, e)
  <2>1. \A b \in B : b + Size(m, b) = pv => ~IsFree(m, b)
    <3> SUFFICES ASSUME NEW b \in B, b + Size(m, b) = pv, IsFree(m, b) PROVE FALSE
      OBVIOUS
    <3>1. b = bp
      BY <1>3, <1>4 DEF Pending
    <3> QED BY <3>1, <1>1, <1>2, <1>3, <1>4
  <2>2. pv <= bp
    BY <1>2, <1>3, <1>4
  <2> QED BY <2>1, <2>2, <1>1, <1>3, <1>4, <1>10 DEF FreeRun
<1>12. FreeOutside(F1, m, B, pv, e)
  <2>1. pv < bp /\ bp < e
    BY <1>1, <1>2, <1>3, <1>4
  <2> QED BY <2>1, <1>2, <1>3, <1>4, <1>10 DEF FreeOutside, Frees, OtherFrees
<1>13. LinksOnly(m, m1, Frees(m, B), h)
  BY <1>6 DEF LinksOnly, NoLink, OtherFrees
<1>14. Gathered(m, m2, h, k, B, bp, pv, e, F1)
  <2> HIDE DEF m1, m2, e, F1
  <2> QED BY <1>6, <1>9, <1>11, <1>12, <1>13, MergeDone
<1> QED BY <1>14, CoalesceEnd DEF pv

(* coalesce with a free block on both sides of bp. *)
LEMMA CoalesceBoth ==
  ASSUME NEW m, NEW h, NEW k, NEW B, NEW bp, Pending(m, h, k, B, bp),
         IsFree(m, PREV_BLKP(m, bp)),
         NEXT_BLKP(m, bp) \in B, IsFree(m, NEXT_BLKP(m, bp))
  PROVE  Absorbed(m, list_add(MergeBoth(m, bp), h, PREV_BLKP(m, bp)),
                  h, k, B, bp, PREV_BLKP(m, bp))
<1> DEFINE pv == PREV_BLKP(m, bp)
           nx == NEXT_BLKP(m, bp)
           e  == nx + Size(m, nx)
           F0 == OtherFrees(m, B, bp)
           Fp == F0 \ {pv}
           F1 == Fp \ {nx}
           mp == list_remove(m, pv)
           m1 == list_remove(mp, nx)
           m2 == MergeBoth(m, bp)
<1>1. Heap(m, h, k, B) /\ bp \in B \ {h} /\ IsFree(m, bp) /\ Mem(m)
  BY PendingFacts
<1>2. /\ \A b \in B : /\ b \in Nat /\ Size(m, b) \in Nat /\ Size(m, b) >= 16
                      /\ Size(m, b) % 8 = 0
                      /\ b - 4 \in Addr /\ b + Size(m, b) - 8 \in Addr
      /\ \A b, c \in B : b < c => b + Size(m, b) <= c
  BY <1>1, HeapFacts
<1>3. /\ nx = bp + Size(m, bp) /\ nx \in B /\ IsFree(m, nx)
      /\ pv \in B /\ pv + Size(m, pv) = bp /\ IsFree(m, pv)
  BY <1>1, Neighbours
<1> HIDE DEF pv, nx
<1>4. /\ pv \in Nat /\ bp \in Nat /\ nx \in Nat /\ e \in Nat
      /\ pv < bp /\ bp < nx /\ nx < e
  BY <1>1, <1>2, <1>3
<1>5. CanRemove(m, h, F0, pv, Fp) /\ F0 \subseteq B /\ nx \in Fp /\ Fp \subseteq B
  <2>1. pv \in F0 /\ nx \in F0 /\ pv # nx
    BY <1>3, <1>4 DEF Frees, OtherFrees
  <2>2. Links(m, h, F0) /\ OneRing(m, F0) /\ Nodes(F0, h) /\ h \notin F0
    BY <2>1, PendingLinks
  <2> QED BY <2>1, <2>2, <1>1, <1>3 DEF CanRemove, Minus, Frees, OtherFrees
<1>6. /\ Heap(mp, h, k, B)
      /\ \A b \in B : Size(mp, b) = Size(m, b)
      /\ Links(mp, h, Fp) /\ OneRing(mp, Fp) /\ LinksOnly(m, mp, F0, h)
  BY <1>1, <1>5, RemoveFrame
<1>7. CanRemove(mp, h, Fp, nx, F1)
  <2>1. Nodes(Fp, h)
    BY <1>5, <1>6, HeapNodes
  <2>2. h \notin Fp
    BY <1>5 DEF CanRemove
  <2> QED BY <2>1, <2>2, <1>5, <1>6 DEF CanRemove, Minus, Heap
<1> HIDE DEF F0, Fp, F1, mp, e
<1>8. /\ Heap(m1, h, k, B)
      /\ \A b \in B : Size(m1, b) = Size(mp, b)
      /\ Links(m1, h, F1) /\ OneRing(m1, F1) /\ LinksOnly(mp, m1, Fp, h)
  BY <1>5, <1>6, <1>7, RemoveFrame
<1>9. \A b \in B : Size(m1, b) = Size(m, b)
  BY <1>6, <1>8
<1>10. /\ e \in B \cup {k} /\ e - pv \in Nat /\ (e - pv) % 8 = 0
       /\ e - pv = Size(m, bp) + Size(m, pv) + Size(m, nx) /\ e - 8 \in Addr
  <2>1. (Size(m, bp) + Size(m, pv)) % 8 = 0
    BY <1>1, <1>2, <1>3, AlignedSum
  <2>2. (Size(m, bp) + Size(m, pv) + Size(m, nx)) % 8 = 0
    <3> DEFINE u == Size(m, bp) + Size(m, pv)
    <3>1. u \in Int /\ u % 8 = 0 /\ Size(m, nx) \in Int /\ Size(m, nx) % 8 = 0
      BY <2>1, <1>1, <1>2, <1>3
    <3> HIDE DEF u
    <3>2. (u + Size(m, nx)) % 8 = 0
      BY <3>1, AlignedSum
    <3> QED BY <3>2 DEF u
  <2>3. e \in B \cup {k}
    BY <1>1, <1>3 DEF Heap, Tiles, e
  <2>4. e - pv = Size(m, bp) + Size(m, pv) + Size(m, nx)
    BY <1>1, <1>2, <1>3, <1>4 DEF e
  <2> QED BY <2>2, <2>3, <2>4, <1>2, <1>3, <1>4 DEF e
<1>11. m2 = PUT(PUT(m1, pv - 4, PACK(e - pv, 0)), e - 8, PACK(e - pv, 0))
  <2> DEFINE w  == PACK(e - pv, 0)
             mh == PUT(m1, pv - 4, w)
  <2>1. GET_SIZE(m1, HDRP(pv)) = Size(m, pv) /\ GET_SIZE(m, HDRP(bp)) = Size(m, bp)
    BY <1>3, <1>9 DEF Size
  <2>2. FTRP(m1, nx) = e - 8
    BY <1>2, <1>3, <1>4, <1>9 DEF FTRP, Size, DSIZE, e
  <2>3. m1[e - 8] = m1[nx - 4]
    <3>1. BlockAt(m1, h, k, nx) /\ Size(m1, nx) = Size(m, nx)
      BY <1>3, <1>8, <1>9 DEF Heap, Tiles
    <3> QED BY <3>1, <1>2, <1>3, <1>4 DEF BlockAt, DSIZE, HDRP, WSIZE, e
  <2>4. GET_SIZE(m1, FTRP(m1, nx)) = Size(m, nx)
    BY <2>2, <2>3, <1>3, <1>9 DEF GET_SIZE, GET, Size, HDRP, WSIZE
  <2>5. FTRP(mh, nx) = e - 8
    <3>1. mh[nx - 4] = m1[nx - 4]
      BY <1>2, <1>3, <1>4, <1>8 DEF PUT, Heap, Mem
    <3> QED BY <3>1, <2>2 DEF FTRP, GET_SIZE, GET, HDRP, WSIZE
  <2>6. e - pv = GET_SIZE(m, HDRP(bp)) + GET_SIZE(m1, HDRP(pv)) + GET_SIZE(m1, FTRP(m1, nx))
    BY <2>1, <2>4, <1>10
  <2> HIDE DEF m1
  <2>7. m2 = PUT(mh, FTRP(mh, nx), w)
    BY <2>6 DEF MergeBoth, pv, nx, HDRP, WSIZE, m1, mp
  <2> QED BY <2>5, <2>7
<1>12. Mem(m2) /\ Tagged(m2, pv, e, 0) /\ TagsOnly(m1, m2, pv, e)
  <2>1. Mem(m1) /\ pv - 4 \in Addr
    BY <1>2, <1>3, <1>8 DEF Heap
  <2> HIDE DEF m1, m2
  <2> QED BY <2>1, <1>4, <1>10, <1>11, PutPair
<1>13. \A b \in B : pv <= b /\ b < e => b = pv \/ b = bp \/ b = nx
  BY <1>1, <1>2, <1>3, <1>4 DEF e
<1>14. FreeRun(m, k, B, bp, pv, e)
  <2>1. \A b \in B : b + Size(m, b) = pv => ~IsFree(m, b)
    <3> SUFFICES ASSUME NEW b \in B, b + Size(m, b) = pv, IsFree(m, b) PROVE FALSE
      OBVIOUS
    <3>1. b = bp
      BY <1>3, <1>4 DEF Pending
    <3> QED BY <3>1, <1>1, <1>2, <1>3, <1>4
  <2>2. e \in B => ~IsFree(m, e)
    BY <1>3, <1>4 DEF Pending, e
  <2>3. pv <= bp /\ bp + Size(m, bp) <= e
    BY <1>3, <1>4
  <2> QED BY <2>1, <2>2, <2>3, <1>1, <1>3, <1>10, <1>13 DEF FreeRun
<1>15. FreeOutside(F1, m, B, pv, e)
  BY <1>2, <1>3, <1>4, <1>13 DEF FreeOutside, Frees, OtherFrees, F0, F1, Fp
<1>16. LinksOnly(m, m1, Frees(m, B), h)
  BY <1>6, <1>8 DEF LinksOnly, NoLink, OtherFrees, Fp, F0
<1>17. Gathered(m, m2, h, k, B, bp, pv, e, F1)
  <2> HIDE DEF m1, m2
  <2> QED BY <1>8, <1>12, <1>14, <1>15, <1>16, MergeDone
<1> QED BY <1>17, CoalesceEnd DEF pv

(* coalesce makes a good heap again, and bp is part of the free block it   *)
(* returns.                                                                *)
LEMMA Coalesce ==
  ASSUME NEW m, NEW h, NEW k, NEW B, NEW bp, Pending(m, h, k, B, bp)
  PROVE  Absorbed(m, coalesce(m, h, bp).m, h, k, B, bp, coalesce(m, h, bp).bp)
<1> DEFINE pv == PREV_BLKP(m, bp)
           nx == NEXT_BLKP(m, bp)
           pa == GET_ALLOC(m, FTRP(m, pv)) = 1
           na == GET_ALLOC(m, HDRP(nx)) = 1
<1>1. Heap(m, h, k, B) /\ bp \in B \ {h}
  BY PendingFacts
<1>2. (pa <=> ~IsFree(m, pv)) /\ (na <=> (nx \in B => ~IsFree(m, nx)))
  BY <1>1, Neighbours
<1>3. CASE pa /\ na
  <2>1. coalesce(m, h, bp) = [m |-> list_add(m, h, bp), bp |-> bp]
    BY <1>3 DEF coalesce
  <2> QED BY <2>1, <1>2, <1>3, CoalesceAlone
<1>4. CASE pa /\ ~na
  <2>1. coalesce(m, h, bp) = [m |-> list_add(MergeNext(m, bp), h, bp), bp |-> bp]
    BY <1>4 DEF coalesce
  <2> QED BY <2>1, <1>2, <1>4, CoalesceNext
<1>5. CASE ~pa /\ na
  <2>1. coalesce(m, h, bp) = [m |-> list_add(MergePrev(m, bp), h, pv), bp |-> pv]
    BY <1>5 DEF coalesce
  <2> QED BY <2>1, <1>2, <1>5, CoalescePrev
<1>6. CASE ~pa /\ ~na
  <2>1. coalesce(m, h, bp) = [m |-> list_add(MergeBoth(m, bp), h, pv), bp |-> pv]
    BY <1>6 DEF coalesce
  <2> QED BY <2>1, <1>2, <1>6, CoalesceBoth
<1> QED BY <1>3, <1>4, <1>5, <1>6

-----------------------------------------------------------------------------
(* The functions of mm.c *)

(* What two writes in a row both keep, the two together keep. *)
LEMMA KeepsTrans ==
  ASSUME NEW m, NEW m1, NEW m2, NEW A, KeepsBlocks(m, m1, A), KeepsBlocks(m1, m2, A)
  PROVE  KeepsBlocks(m, m2, A)
<1>1. \A b \in A : Size(m1, b) = Size(m, b)
  BY DEF KeepsBlocks, Size, GET_SIZE, GET, HDRP, WSIZE
<1> QED BY <1>1 DEF KeepsBlocks

(* A write that keeps some blocks keeps any selection of them. *)
LEMMA KeepsFewer ==
  ASSUME NEW m, NEW m1, NEW A, NEW A2, A2 \subseteq A, KeepsBlocks(m, m1, A)
  PROVE  KeepsBlocks(m, m1, A2)
BY DEF KeepsBlocks

(* Writing the tags of a block anew, with the size it has. *)
LEMMA Retag ==
  ASSUME NEW m, NEW h, NEW k, NEW B, Heap(m, h, k, B), NEW p \in B \ {h},
         NEW al \in {0, 1}, NEW m1, m1 = PutTags(m, p, Size(m, p), al)
  PROVE  /\ Heap(m1, h, k, B)
         /\ \A b \in B : Size(m1, b) = Size(m, b)
         /\ IsFree(m1, p) <=> al = 0
         /\ \A b \in B \ {p} : IsFree(m1, b) <=> IsFree(m, b)
         /\ \A N \in SUBSET B : \A x \in N \cup {h} : m1[x] = m[x] /\ m1[x + 4] = m[x + 4]
         /\ KeepsBlocks(m, m1, B \ {p})
<1> DEFINE e == p + Size(m, p)
<1>1. /\ k \in Nat /\ k % 8 = 0 /\ h \in B /\ k - 4 \in Addr
      /\ \A b \in B :
              /\ b \in Nat /\ h <= b
              /\ Size(m, b) \in Nat /\ Size(m, b) % 8 = 0 /\ Size(m, b) >= 16
              /\ b + Size(m, b) <= k
              /\ b - 4 \in Addr /\ b \in Addr /\ b + 4 \in Addr
              /\ b + Size(m, b) - 8 \in Addr
      /\ \A b, c \in B : b < c => b + Size(m, b) <= c
  BY HeapFacts
<1>2. Mem(m)
  BY DEF Heap
<1>3. /\ Mem(m1)
      /\ m1[p - 4] = PACK(Size(m, p), al) /\ m1[p + Size(m, p) - 8] = PACK(Size(m, p), al)
      /\ \A a \in Addr : a # p - 4 /\ a # p + Size(m, p) - 8 => m1[a] = m[a]
  BY <1>1, <1>2, PutTagsFacts
<1>4. Tagged(m1, p, e, al)
  BY <1>1, <1>3 DEF Tagged
<1>5. \A b \in B \ {p} : b + Size(m, b) <= p \/ b >= e
  BY <1>1
<1>6. e \in B \cup {k} /\ e \in Nat /\ p < e
  BY <1>1 DEF Heap, Tiles
<1>7. KeepsBlocks(m, m1, B \ {p})
  <2> SUFFICES ASSUME NEW b \in B \ {p}
               PROVE  /\ m1[b - 4] = m[b - 4]
                      /\ \A a \in Addr : b <= a /\ a < b + Size(m, b) - 8 => m1[a] = m[a]
    BY DEF KeepsBlocks
  <2>1. m1[b - 4] = m[b - 4]
    BY <1>1, <1>3, <1>5
  <2>2. ASSUME NEW a \in Addr, b <= a, a < b + Size(m, b) - 8 PROVE m1[a] = m[a]
    <3>1. a \in Nat
      BY MemAssumption DEF Addr, mem_max_addr
    <3> QED BY <3>1, <2>2, <1>1, <1>3, <1>5
  <2> QED BY <2>1, <2>2
<1>8. TagsOutside(m, m1, k, B, p, e)
  <2>1. ASSUME NEW b \in B, b < p \/ b >= e PROVE SameTags(m, m1, b)
    <3>1. b # p
      BY <2>1, <1>1
    <3>2. m1[b - 4] = m[b - 4] /\ m1[b + Size(m, b) - 8] = m[b + Size(m, b) - 8]
      BY <3>1, <1>1, <1>3, <1>5
    <3> QED BY <3>2 DEF SameTags
  <2>2. m1[k - 4] = m[k - 4]
    BY <1>1, <1>3
  <2> QED BY <2>1, <2>2 DEF TagsOutside
<1>9. Outside(B, B, p, e)
  BY <1>1, <1>5 DEF Outside
<1>10. /\ Heap(m1, h, k, B)
       /\ Size(m1, p) = e - p /\ (IsFree(m1, p) <=> al = 0)
       /\ \A b \in B : b < p \/ b >= e =>
                Size(m1, b) = Size(m, b) /\ (IsFree(m1, b) <=> IsFree(m, b))
  <2> HIDE DEF e
  <2> QED BY <1>3, <1>4, <1>6, <1>8, <1>9, Merge
<1>11. \A b \in B \ {p} : b < p \/ b >= e
  BY <1>1, <1>5
<1>12. ASSUME NEW N \in SUBSET B, NEW x \in N \cup {h}
       PROVE  m1[x] = m[x] /\ m1[x + 4] = m[x + 4]
  <2>1. NoLink(N, h, p - 4) /\ NoLink(N, h, p + Size(m, p) - 8)
    BY TagsApart
  <2> QED BY <2>1, <1>1, <1>3 DEF NoLink, WSIZE
<1>13. Size(m1, p) = Size(m, p)
  BY <1>1, <1>10
<1> QED BY <1>7, <1>10, <1>11, <1>12, <1>13

(* m2 is a good heap whose allocated blocks are those of A; the blocks of  *)
(* K have kept their headers and payloads.                                 *)
Leaves(m, m2, h, k, A, K) ==
    \E C \in SUBSET Nat : /\ Good(m2, h, k, C) /\ Allocs(m2, C) = A
                         /\ KeepsBlocks(m, m2, K)

(* mm_free. *)
LEMMA FreeBlock ==
  ASSUME NEW m, NEW h, NEW k, NEW B, Good(m, h, k, B), NEW p \in Allocs(m, B) \ {h},
         NEW A, A = Allocs(m, B) \ {p}
  PROVE  Leaves(m, mm_free(m, h, p), h, k, A, A \ {h})
<1> DEFINE m1 == PutTags(m, p, Size(m, p), 0)
<1>1. Heap(m, h, k, B) /\ p \in B \ {h}
  BY DEF Good, Allocs
<1>2. /\ Heap(m1, h, k, B)
      /\ \A b \in B : Size(m1, b) = Size(m, b)
      /\ IsFree(m1, p)
      /\ \A b \in B \ {p} : IsFree(m1, b) <=> IsFree(m, b)
      /\ \A N \in SUBSET B : \A x \in N \cup {h} : m1[x] = m[x] /\ m1[x + 4] = m[x + 4]
      /\ KeepsBlocks(m, m1, B \ {p})
  BY <1>1, Retag
<1> HIDE DEF m1
<1>3. OtherFrees(m1, B, p) = Frees(m, B)
  BY <1>2 DEF OtherFrees, Frees, Allocs
<1>4. Pending(m1, h, k, B, p)
  <2>1. Frees(m, B) \in SUBSET B
    BY DEF Frees
  <2>2. Links(m1, h, Frees(m, B)) /\ OneRing(m1, Frees(m, B))
    BY <2>1, <1>2, ListFrame DEF Good, FreeList
  <2>3. \A b, c \in B : c = b + Size(m1, b) /\ IsFree(m1, b) /\ IsFree(m1, c)
                           => b = p \/ c = p
    BY <1>2 DEF Good, NoFreeNeighbours
  <2>4. p \in Frees(m1, B)
    BY <1>1, <1>2 DEF Frees
  <2> QED BY <2>2, <2>3, <2>4, <1>2, <1>3 DEF Pending, PreLinks
<1>5. Absorbed(m1, coalesce(m1, h, p).m, h, k, B, p, coalesce(m1, h, p).bp)
  BY <1>4, Coalesce
<1>6. mm_free(m, h, p) = coalesce(m1, h, p).m
  BY DEF mm_free, m1, Size
<1>7. Allocs(m1, B) = A
  BY <1>2 DEF Allocs
<1>8. KeepsBlocks(m, m1, A \ {h})
  BY <1>2, KeepsFewer DEF Allocs
<1>9. PICK C \in SUBSET B :
         /\ Good(coalesce(m1, h, p).m, h, k, C)
         /\ Allocs(coalesce(m1, h, p).m, C) = Allocs(m1, B)
         /\ KeepsBlocks(m1, coalesce(m1, h, p).m, Allocs(m1, B) \ {h})
  BY <1>5 DEF Absorbed
<1>10. KeepsBlocks(m, mm_free(m, h, p), A \ {h})
  BY <1>6, <1>7, <1>8, <1>9, KeepsTrans
<1>11. C \in SUBSET Nat
  BY <1>9, <1>1 DEF Heap
<1> QED BY <1>6, <1>7, <1>9, <1>10, <1>11 DEF Leaves

(* Changing links of free blocks leaves the allocated ones alone. *)
LEMMA LinksKeep ==
  ASSUME NEW m, NEW h, NEW k, NEW B, Heap(m, h, k, B), NEW m1,
         NEW N, N \subseteq Frees(m, B), LinksOnly(m, m1, N, h)
  PROVE  KeepsBlocks(m, m1, Allocs(m, B) \ {h})
<1>1. /\ h \in B
      /\ \A b \in B : b \in Nat /\ Size(m, b) \in Nat /\ Size(m, b) >= 16 /\ b - 4 \in Addr
  BY HeapFacts
<1> SUFFICES ASSUME NEW b \in Allocs(m, B) \ {h},
                    NEW a \in Addr, b - 4 <= a, a < b + Size(m, b) - 8
             PROVE  m1[a] = m[a]
  <2>1. Allocs(m, B) \subseteq B
    BY DEF Allocs
  <2>2. \A b \in B : b - 4 \in Addr /\ b - 4 <= b - 4 /\ b - 4 < b + Size(m, b) - 8
    BY <1>1
  <2>3. ASSUME NEW b \in B, NEW a \in Addr, b <= a PROVE b - 4 <= a
    <3>1. a \in Nat
      BY MemAssumption DEF Addr, mem_max_addr
    <3> QED BY <3>1, <2>3, <1>1
  <2> QED BY <2>1, <2>2, <2>3 DEF KeepsBlocks
<1>2. b \in B /\ b \notin N /\ b # h
  BY DEF Allocs, Frees
<1>3. a \in Nat
  BY MemAssumption DEF Addr, mem_max_addr
<1>4. a < b + Size(m, b) - 4
  BY <1>1, <1>2, <1>3
<1>5. ASSUME NEW y \in N \cup {h}, a = y \/ a = y + WSIZE PROVE FALSE
  <2>1. y \in B
    BY <1>1 DEF Frees
  <2>2. y = b
    BY <2>1, <1>2, <1>4, <1>5, BlockApart DEF WSIZE
  <2> QED BY <2>2, <1>2
<1>6. NoLink(N, h, a)
  BY <1>5 DEF NoLink
<1> QED BY <1>6 DEF LinksOnly

(* p is out of the list, F1, and nothing else has happened. *)
TakenOut(m, m1, h, k, B, p, F1) ==
    /\ Heap(m1, h, k, B) /\ p \in B \ {h}
    /\ \A b \in B : Size(m1, b) = Size(m, b) /\ (IsFree(m1, b) <=> IsFree(m, b))
    /\ Links(m1, h, F1) /\ OneRing(m1, F1)
    /\ KeepsBlocks(m, m1, Allocs(m, B) \ {h})

(* list_remove as place calls it. *)
LEMMA TakeOut ==
  ASSUME NEW m, NEW h, NEW k, NEW B, Good(m, h, k, B), NEW p \in Frees(m, B),
         NEW m1, m1 = list_remove(m, p), NEW F1, Minus(F1, Frees(m, B), p)
  PROVE  TakenOut(m, m1, h, k, B, p, F1)
<1> DEFINE F == Frees(m, B)
<1>1. Heap(m, h, k, B) /\ Links(m, h, F) /\ OneRing(m, F) /\ Mem(m)
  BY DEF Good, FreeList, Heap
<1>2. p \in B \ {h} /\ h \notin F /\ F \in SUBSET B
  BY <1>1, HeapFacts DEF Frees
<1>3. Nodes(F, h)
  BY <1>1, <1>2, HeapNodes
<1> HIDE DEF F
<1>4. CanRemove(m, h, F, p, F1)
  BY <1>1, <1>2, <1>3 DEF CanRemove, Minus, F
<1>5. /\ Heap(m1, h, k, B)
      /\ \A b \in B : Size(m1, b) = Size(m, b) /\ (IsFree(m1, b) <=> IsFree(m, b))
      /\ Links(m1, h, F1) /\ OneRing(m1, F1)
      /\ LinksOnly(m, m1, F, h)
  BY <1>1, <1>2, <1>4, RemoveFrame
<1>6. KeepsBlocks(m, m1, Allocs(m, B) \ {h})
  BY <1>1, <1>5, LinksKeep DEF F
<1> QED BY <1>2, <1>5, <1>6 DEF TakenOut

(* place hands out the whole block. *)
LEMMA PlaceWhole ==
  ASSUME NEW m, NEW h, NEW k, NEW B, Good(m, h, k, B), NEW p \in Frees(m, B),
         NEW A, Plus(A, Allocs(m, B), p),
         NEW m2, m2 = PutTags(list_remove(m, p), p, Size(m, p), 1)
  PROVE  Leaves(m, m2, h, k, A, Allocs(m, B) \ {h}) /\ Size(m2, p) = Size(m, p)
<1> DEFINE m1 == list_remove(m, p)
           F1 == Frees(m, B) \ {p}
<1>1. /\ Heap(m1, h, k, B) /\ p \in B \ {h}
      /\ \A b \in B : Size(m1, b) = Size(m, b) /\ (IsFree(m1, b) <=> IsFree(m, b))
      /\ Links(m1, h, F1) /\ OneRing(m1, F1)
      /\ KeepsBlocks(m, m1, Allocs(m, B) \ {h})
  <2>1. m1 = list_remove(m, p) /\ Minus(F1, Frees(m, B), p)
    BY DEF Minus
  <2> HIDE DEF m1, F1
  <2>2. TakenOut(m, m1, h, k, B, p, F1)
    BY <2>1, TakeOut
  <2> QED BY <2>2 DEF TakenOut
<1>2. m2 = PutTags(m1, p, Size(m1, p), 1)
  BY <1>1
<1>3. F1 \in SUBSET B
  BY DEF Frees
<1> HIDE DEF m1, F1
<1>4. /\ Heap(m2, h, k, B)
      /\ \A b \in B : Size(m2, b) = Size(m1, b)
      /\ ~IsFree(m2, p)
      /\ \A b \in B \ {p} : IsFree(m2, b) <=> IsFree(m1, b)
      /\ \A x \in F1 \cup {h} : m2[x] = m1[x] /\ m2[x + 4] = m1[x + 4]
      /\ KeepsBlocks(m1, m2, B \ {p})
  <2>1. 1 \in {0, 1} /\ ~(1 = 0)
    OBVIOUS
  <2>2. /\ Heap(m2, h, k, B)
        /\ \A b \in B : Size(m2, b) = Size(m1, b)
        /\ IsFree(m2, p) <=> 1 = 0
        /\ \A b \in B \ {p} : IsFree(m2, b) <=> IsFree(m1, b)
        /\ \A N \in SUBSET B : \A x \in N \cup {h} : m2[x] = m1[x] /\ m2[x + 4] = m1[x + 4]
        /\ KeepsBlocks(m1, m2, B \ {p})
    BY <2>1, <1>1, <1>2, Retag
  <2> QED BY <2>1, <2>2, <1>3
<1>5. Links(m2, h, F1) /\ OneRing(m2, F1)
  BY <1>1, <1>4, ListFrame
<1>6. Frees(m2, B) = F1 /\ Allocs(m2, B) = A
  BY <1>1, <1>4 DEF Frees, Allocs, F1, Plus
<1>7. NoFreeNeighbours(m2, B)
  BY <1>1, <1>4 DEF Good, NoFreeNeighbours
<1>8. Good(m2, h, k, B)
  BY <1>4, <1>5, <1>6, <1>7 DEF Good, FreeList
<1>9. KeepsBlocks(m, m2, Allocs(m, B) \ {h})
  <2>1. (Allocs(m, B) \ {h}) \subseteq B \ {p}
    BY DEF Allocs, Frees
  <2>2. KeepsBlocks(m1, m2, Allocs(m, B) \ {h})
    BY <2>1, <1>4, KeepsFewer
  <2> QED BY <2>2, <1>1, KeepsTrans
<1>10. B \in SUBSET Nat
  BY <1>1 DEF Heap
<1> QED BY <1>1, <1>4, <1>6, <1>8, <1>9, <1>10 DEF Leaves

(* A block of s bytes at bp with its footer at f can be tagged, and m2 is  *)
(* m with the word w in its two tags.                                      *)
CanTag(m, bp, s, f) ==
    /\ Mem(m) /\ bp \in Nat /\ s \in Nat /\ s % 8 = 0 /\ s >= 16
    /\ bp - 4 \in Addr /\ f \in Addr /\ f = bp + s - 8

Written(m, m2, bp, f, w) ==
    /\ Mem(m2) /\ m2[bp - 4] = w /\ m2[f] = w
    /\ \A a \in Addr : a # bp - 4 /\ a # f => m2[a] = m[a]

(* PUT of a header and of its footer changes these two words and no other. *)
LEMMA TagStores ==
  ASSUME NEW m, NEW bp, NEW s, NEW f, CanTag(m, bp, s, f), NEW al \in {0, 1},
         NEW m2, m2 = PutTags(m, bp, s, al)
  PROVE  Written(m, m2, bp, f, PACK(s, al))
<1>1. /\ Mem(m) /\ bp \in Nat /\ s \in Nat /\ s % 8 = 0 /\ s >= 16
      /\ bp - 4 \in Addr /\ bp + s - 8 \in Addr /\ f = bp + s - 8
  BY DEF CanTag
<1>2. /\ Mem(PutTags(m, bp, s, al))
      /\ PutTags(m, bp, s, al)[bp - 4] = PACK(s, al)
      /\ PutTags(m, bp, s, al)[bp + s - 8] = PACK(s, al)
      /\ \A a \in Addr : a # bp - 4 /\ a # bp + s - 8 =>
             PutTags(m, bp, s, al)[a] = m[a]
  BY <1>1, PutTagsFacts
<1> QED BY <1>1, <1>2 DEF Written

(* The four stores of place when it splits p at q: tags only. *)
LEMMA PlaceTags ==
  ASSUME NEW m1, NEW h, NEW k, NEW B, Heap(m1, h, k, B), NEW p \in B \ {h},
         NEW s \in Nat, s % 8 = 0, s >= 16,
         NEW r \in Nat, r = Size(m1, p) - s, r >= 16, NEW q, q = p + s,
         NEW m3, m3 = PutTags(PutTags(m1, p, s, 1), q, r, 0)
  PROVE  /\ Mem(m3) /\ SplitTags(m3, p, s, r) /\ q \in Nat /\ q \in Addr
         /\ \A a \in Addr : a < p - 4 \/ a >= p + Size(m1, p) - 4 => m3[a] = m1[a]
<1> DEFINE m2 == PutTags(m1, p, s, 1)
<1>1. /\ p \in Nat /\ p % 8 = 0 /\ p - 4 \in Addr /\ p + Size(m1, p) - 8 \in Addr
      /\ Size(m1, p) \in Nat /\ Size(m1, p) % 8 = 0 /\ p + Size(m1, p) <= k
      /\ k \in Nat /\ k <= mem_max_addr /\ h \in Nat /\ h <= p /\ h = mem_start_brk + 8
      /\ Mem(m1)
  <2>1. k <= mem_max_addr /\ h = mem_start_brk + 8 /\ Mem(m1)
    BY DEF Heap
  <2> QED BY <2>1, HeapFacts
<1>2. q \in Nat /\ q % 8 = 0 /\ r % 8 = 0 /\ q + r = p + Size(m1, p) /\ q < k /\ h < q
  <2>1. r % 8 = 0 /\ q % 8 = 0
    BY <1>1
  <2> QED BY <2>1, <1>1
<1>3. q - 8 \in Addr /\ q - 4 \in Addr /\ q \in Addr
  <2>1. mem_start_brk < q /\ q < mem_max_addr /\ mem_start_brk <= q /\ q <= mem_max_addr
    BY <1>1, <1>2, MemAssumption DEF mem_max_addr
  <2> QED BY <2>1, <1>2, AddrFacts
<1>4. /\ Mem(m2) /\ m2[p - 4] = PACK(s, 1) /\ m2[q - 8] = PACK(s, 1)
      /\ \A a \in Addr : a # p - 4 /\ a # q - 8 => m2[a] = m1[a]
  <2>1. CanTag(m1, p, s, q - 8)
    BY <1>1, <1>2, <1>3 DEF CanTag
  <2>2. Written(m1, m2, p, q - 8, PACK(s, 1))
    BY <2>1, TagStores
  <2> QED BY <2>2 DEF Written
<1> HIDE DEF m2
<1>5. /\ Mem(m3) /\ m3[q - 4] = PACK(r, 0) /\ m3[q + r - 8] = PACK(r, 0)
      /\ \A a \in Addr : a # q - 4 /\ a # q + r - 8 => m3[a] = m2[a]
  <2>1. CanTag(m2, q, r, q + r - 8)
    BY <1>1, <1>2, <1>3, <1>4 DEF CanTag
  <2>2. m3 = PutTags(m2, q, r, 0)
    BY DEF m2
  <2>3. Written(m2, m3, q, q + r - 8, PACK(r, 0))
    BY <2>1, <2>2, TagStores
  <2> QED BY <2>3 DEF Written
<1>6. m3[p - 4] = PACK(s, 1) /\ m3[p + s - 8] = PACK(s, 1)
  BY <1>1, <1>2, <1>3, <1>4, <1>5
<1>7. ASSUME NEW a \in Addr, a < p - 4 \/ a >= p + Size(m1, p) - 4 PROVE m3[a] = m1[a]
  <2>1. a \in Nat
    BY MemAssumption DEF Addr, mem_max_addr
  <2> QED BY <2>1, <1>1, <1>2, <1>4, <1>5, <1>7
<1>8. SplitTags(m3, p, s, r)
  BY <1>1, <1>2, <1>5, <1>6 DEF SplitTags
<1> QED BY <1>2, <1>3, <1>5, <1>7, <1>8

(* place splits the block. *)
LEMMA PlaceSplit ==
  ASSUME NEW m, NEW h, NEW k, NEW B, Good(m, h, k, B), NEW p \in Frees(m, B),
         NEW A, Plus(A, Allocs(m, B), p),
         NEW s \in Nat, s % 8 = 0, s >= 16,
         NEW r \in Nat, r = Size(m, p) - s, r >= 16, NEW q, q = p + s,
         NEW m3, m3 = PutTags(PutTags(list_remove(m, p), p, s, 1), q, r, 0),
         NEW m4, m4 = list_add(m3, h, q)
  PROVE  Leaves(m, m4, h, k, A, Allocs(m, B) \ {h}) /\ Size(m4, p) = s
<1> DEFINE m1 == list_remove(m, p)
           F1 == Frees(m, B) \ {p}
           C  == B \cup {q}
           G  == F1 \cup {q}
           K  == Allocs(m, B) \ {h}
<1>1. /\ Heap(m1, h, k, B) /\ p \in B \ {h}
      /\ \A b \in B : Size(m1, b) = Size(m, b) /\ (IsFree(m1, b) <=> IsFree(m, b))
      /\ Links(m1, h, F1) /\ OneRing(m1, F1)
      /\ KeepsBlocks(m, m1, K)
  <2>1. m1 = list_remove(m, p) /\ Minus(F1, Frees(m, B), p)
    BY DEF Minus
  <2> HIDE DEF m1, F1
  <2>2. TakenOut(m, m1, h, k, B, p, F1)
    BY <2>1, TakeOut
  <2> QED BY <2>2 DEF TakenOut
<1>2. Plus(C, B, q) /\ Plus(G, F1, q) /\ F1 \in SUBSET B /\ K \subseteq B \ {p} /\ B \subseteq C
  BY DEF Plus, Frees, Allocs
<1>3. m3 = PutTags(PutTags(m1, p, s, 1), q, r, 0) /\ r = Size(m1, p) - s
  BY <1>1
<1> HIDE DEF m1, C
<1>4. /\ Mem(m3) /\ SplitTags(m3, p, s, r) /\ q \in Nat /\ q \in Addr
      /\ \A a \in Addr : a < p - 4 \/ a >= p + Size(m1, p) - 4 => m3[a] = m1[a]
  BY <1>1, <1>3, PlaceTags
<1>5. /\ k \in Nat /\ h \in B /\ k - 4 \in Addr
      /\ \A b \in B :
              /\ b \in Nat /\ h <= b
              /\ Size(m1, b) \in Nat /\ Size(m1, b) >= 16
              /\ b + Size(m1, b) <= k
              /\ b - 4 \in Addr /\ b \in Addr /\ b + 4 \in Addr
              /\ b + Size(m1, b) - 8 \in Addr
      /\ \A b, c \in B : b < c => b + Size(m1, b) <= c
  BY <1>1, HeapFacts
<1>6. \A b \in B \ {p} : b + Size(m1, b) <= p \/ b >= p + Size(m1, p)
  BY <1>1, <1>5
<1>7. OtherTags(m1, m3, k, B, p)
  <2>1. ASSUME NEW b \in B, b # p PROVE SameTags(m1, m3, b)
    <3>1. /\ b - 4 < p - 4 \/ b - 4 >= p + Size(m1, p) - 4
          /\ b + Size(m1, b) - 8 < p - 4 \/ b + Size(m1, b) - 8 >= p + Size(m1, p) - 4
      BY <2>1, <1>1, <1>5, <1>6
    <3> QED BY <3>1, <2>1, <1>4, <1>5 DEF SameTags
  <2>2. m3[k - 4] = m1[k - 4]
    <3>1. k - 4 >= p + Size(m1, p) - 4
      BY <1>1, <1>5
    <3> QED BY <3>1, <1>4, <1>5
  <2> QED BY <2>1, <2>2 DEF OtherTags
<1>8. /\ Heap(m3, h, k, C)
      /\ Size(m3, p) = s /\ ~IsFree(m3, p)
      /\ Size(m3, q) = r /\ IsFree(m3, q)
      /\ \A b \in B : b # p =>
             Size(m3, b) = Size(m1, b) /\ (IsFree(m3, b) <=> IsFree(m1, b))
  BY <1>1, <1>2, <1>3, <1>4, <1>7, Split
<1>9. q \notin B /\ q # h /\ q # p
  BY <1>1, <1>3, <1>4, <1>5, <1>6
<1>10. CanAdd(m3, h, F1, q, G)
  <2>1. \A x \in F1 \cup {h} : x \in B /\ x # p
    BY <1>1, <1>2, <1>5
  <2>2. \A x \in F1 \cup {h} : m3[x] = m1[x] /\ m3[x + 4] = m1[x + 4]
    <3> SUFFICES ASSUME NEW x \in F1 \cup {h} PROVE m3[x] = m1[x] /\ m3[x + 4] = m1[x + 4]
      OBVIOUS
    <3>1. x \in B /\ x # p
      BY <2>1
    <3>2. /\ x < p - 4 \/ x >= p + Size(m1, p) - 4
          /\ x + 4 < p - 4 \/ x + 4 >= p + Size(m1, p) - 4
      BY <3>1, <1>1, <1>5, <1>6
    <3> QED BY <3>1, <3>2, <1>4, <1>5
  <2>3. Links(m3, h, F1) /\ OneRing(m3, F1)
    BY <2>2, <1>1, ListFrame
  <2>4. G \in SUBSET C
    BY <1>2 DEF C
  <2>5. Nodes(G, h)
    BY <2>4, <1>8, HeapNodes
  <2>6. h \notin F1
    BY <1>1, <1>5, HeapFacts DEF Frees
  <2>7. q \notin F1
    BY <1>2, <1>9
  <2> QED BY <2>3, <2>5, <2>6, <2>7, <1>2, <1>4, <1>9 DEF CanAdd, PreLinks
<1>11. /\ Mem(m4) /\ Links(m4, h, G) /\ OneRing(m4, G)
       /\ \A a \in Addr : NoLink(G, h, a) => m4[a] = m3[a]
  BY <1>10, ListAdd
<1>12. G \in SUBSET C /\ G \subseteq Frees(m3, C)
  BY <1>1, <1>2, <1>8 DEF C, Frees
<1> HIDE DEF G, F1
<1>13. AllTags(m3, m4, k, C)
  <2>1. /\ \A b \in C : NoLink(G, h, b - 4) /\ NoLink(G, h, b + Size(m3, b) - 8)
        /\ NoLink(G, h, k - 4)
    BY <1>8, <1>12, TagsApart
  <2>2. \A b \in C : b - 4 \in Addr /\ b + Size(m3, b) - 8 \in Addr
    BY <1>8, HeapFacts
  <2> QED BY <2>1, <2>2, <1>5, <1>11 DEF AllTags, SameTags
<1>14. /\ Heap(m4, h, k, C)
       /\ \A b \in C : Size(m4, b) = Size(m3, b) /\ (IsFree(m4, b) <=> IsFree(m3, b))
  BY <1>8, <1>11, <1>13, TagFrame
<1>15. p \in C /\ q \in C /\ (\A b \in C : b \in B \/ b = q)
  BY <1>1, <1>2 DEF C
<1>16. \A b \in B : b # p =>
            Size(m4, b) = Size(m, b) /\ (IsFree(m4, b) <=> IsFree(m, b))
  BY <1>1, <1>2, <1>8, <1>14
<1>17. Size(m4, p) = s /\ ~IsFree(m4, p) /\ Size(m4, q) = r /\ IsFree(m4, q) /\ IsFree(m, p)
  BY <1>8, <1>14, <1>15 DEF Frees
<1>18. Frees(m4, C) = G
  BY <1>1, <1>9, <1>15, <1>16, <1>17 DEF Frees, C, G, F1
<1>19. Allocs(m4, C) = A
  BY <1>1, <1>9, <1>15, <1>16, <1>17 DEF Allocs, C, Plus
<1>20. NoFreeNeighbours(m4, C)
  <2> SUFFICES ASSUME NEW b \in C, NEW c \in C, c = b + Size(m4, b), IsFree(m4, b), IsFree(m4, c)
               PROVE  FALSE
    BY DEF NoFreeNeighbours
  <2>1. b # p /\ c # p
    BY <1>17
  <2>2. CASE b = q
    <3>1. c = p + Size(m, p) /\ c # q
      BY <2>2, <1>1, <1>3, <1>4, <1>5, <1>17
    <3>2. c \in B /\ IsFree(m, c)
      BY <3>1, <2>1, <1>15, <1>16
    <3> QED BY <3>1, <3>2, <1>1, <1>17 DEF Good, NoFreeNeighbours
  <2>3. CASE b # q /\ c = q
    <3>1. b \in B /\ Size(m4, b) = Size(m1, b)
      BY <2>1, <2>3, <1>1, <1>15, <1>16
    <3> QED BY <3>1, <2>1, <2>3, <1>1, <1>3, <1>4, <1>5, <1>6
  <2>4. CASE b # q /\ c # q
    <3>1. b \in B /\ c \in B
      BY <2>4, <1>15
    <3> QED BY <3>1, <2>1, <1>16 DEF Good, NoFreeNeighbours
  <2> QED BY <2>2, <2>3, <2>4
<1>21. Good(m4, h, k, C)
  BY <1>11, <1>14, <1>18, <1>20 DEF Good, FreeList
<1>22. KeepsBlocks(m1, m3, K)
  <2> SUFFICES ASSUME NEW b \in K
               PROVE  /\ m3[b - 4] = m1[b - 4]
                      /\ \A a \in Addr : b <= a /\ a < b + Size(m1, b) - 8 => m3[a] = m1[a]
    BY DEF KeepsBlocks
  <2>1. b \in B /\ b # p
    BY <1>2
  <2>2. m3[b - 4] = m1[b - 4]
    <3>1. b - 4 < p - 4 \/ b - 4 >= p + Size(m1, p) - 4
      BY <2>1, <1>1, <1>5, <1>6
    <3> QED BY <3>1, <2>1, <1>4, <1>5
  <2>3. ASSUME NEW a \in Addr, b <= a, a < b + Size(m1, b) - 8 PROVE m3[a] = m1[a]
    <3>1. a \in Nat
      BY MemAssumption DEF Addr, mem_max_addr
    <3>2. a < p - 4 \/ a >= p + Size(m1, p) - 4
      BY <3>1, <2>1, <2>3, <1>1, <1>5, <1>6
    <3> QED BY <3>2, <1>4
  <2> QED BY <2>2, <2>3
<1>23. KeepsBlocks(m3, m4, K)
  <2>1. LinksOnly(m3, m4, G, h)
    BY <1>11 DEF LinksOnly
  <2>2. KeepsBlocks(m3, m4, Allocs(m3, C) \ {h})
    BY <2>1, <1>8, <1>12, LinksKeep
  <2>3. K \subseteq Allocs(m3, C) \ {h}
    BY <1>1, <1>2, <1>8 DEF Allocs
  <2> QED BY <2>2, <2>3, KeepsFewer
<1>24. KeepsBlocks(m, m4, K)
  <2> HIDE DEF K
  <2>1. KeepsBlocks(m, m3, K)
    BY <1>1, <1>22, KeepsTrans
  <2> QED BY <2>1, <1>23, KeepsTrans
<1>25. C \in SUBSET Nat
  BY <1>14 DEF Heap
<1> QED BY <1>17, <1>19, <1>21, <1>24, <1>25 DEF Leaves

(* A free block can be handed out for a block size s. *)
CanPlace(m, h, k, B, p, s) ==
    /\ Good(m, h, k, B) /\ p \in Frees(m, B)
    /\ s \in Nat /\ s % 8 = 0 /\ s >= 16 /\ s <= Size(m, p)

(* place. *)
LEMMA Place ==
  ASSUME NEW m, NEW h, NEW k, NEW B, NEW p, NEW s, CanPlace(m, h, k, B, p, s),
         NEW A, Plus(A, Allocs(m, B), p)
  PROVE  /\ Leaves(m, place(m, h, p, s), h, k, A, Allocs(m, B) \ {h})
         /\ Size(place(m, h, p, s), p) >= s
<1> DEFINE m1 == list_remove(m, p)
           F1 == Frees(m, B) \ {p}
           r  == Size(m, p) - s
           q  == p + s
           m2 == PutTags(m1, p, s, 1)
           m3 == PutTags(m2, q, r, 0)
<1>1. /\ Good(m, h, k, B) /\ p \in Frees(m, B)
      /\ s \in Nat /\ s % 8 = 0 /\ s >= 16 /\ s <= Size(m, p)
  BY DEF CanPlace
<1>2. Heap(m, h, k, B) /\ p \in B
  BY <1>1 DEF Good, Frees
<1>3. Size(m, p) \in Nat /\ p \in Nat /\ Size(m, p) % 8 = 0
  BY <1>2, HeapFacts
<1>4. CASE r >= 16
  <2>1. r \in Nat /\ q = p + s
    BY <1>1, <1>3, <1>4
  <2>2. NEXT_BLKP(m2, p) = q
    <3>1. TakenOut(m, m1, h, k, B, p, F1)
      <4>1. Minus(F1, Frees(m, B), p)
        BY DEF Minus
      <4> QED BY <4>1, <1>1, TakeOut
    <3>2. Heap(m1, h, k, B) /\ p \in B \ {h} /\ Size(m1, p) = Size(m, p)
      BY <3>1, <1>2 DEF TakenOut
    <3> HIDE DEF m1
    <3>3. CanTag(m1, p, s, q - 8)
      <4>1. p - 4 \in Addr /\ p % 8 = 0 /\ h \in Nat /\ h <= p /\ p + Size(m, p) <= k /\ k \in Nat
        BY <3>2, HeapFacts
      <4>2. Mem(m1) /\ k <= mem_max_addr /\ h = mem_start_brk + 8
        BY <3>2 DEF Heap
      <4>3. q \in Nat /\ q % 8 = 0 /\ mem_start_brk < q /\ q <= mem_max_addr
        BY <4>1, <4>2, <2>1, <1>1, <1>3, MemAssumption DEF mem_max_addr
      <4>4. q - 8 \in Addr
        <5> HIDE DEF q
        <5> QED BY <4>3, AddrFacts
      <4> QED BY <4>1, <4>2, <4>4, <2>1, <1>1, <1>3 DEF CanTag
    <3>4. Written(m1, m2, p, q - 8, PACK(s, 1))
      BY <3>3, TagStores
    <3>5. Size(m2, p) = s
      BY <3>4, <1>1, <1>3, NewHeader DEF Written
    <3> QED BY <3>5 DEF NEXT_BLKP, Size
  <2>3. place(m, h, p, s) = list_add(m3, h, q)
    BY <2>2, <1>4 DEF place, Size, DSIZE
  <2>4. /\ Leaves(m, list_add(m3, h, q), h, k, A, Allocs(m, B) \ {h})
        /\ Size(list_add(m3, h, q), p) = s
    <3> HIDE DEF r, q
    <3>1. r = Size(m, p) - s /\ q = p + s
      BY DEF r, q
    <3>2. m3 = PutTags(PutTags(list_remove(m, p), p, s, 1), q, r, 0)
      OBVIOUS
    <3> HIDE DEF m3, m2, m1
    <3> QED BY <3>1, <3>2, <2>1, <1>1, <1>4, PlaceSplit
  <2> QED BY <2>3, <2>4, <1>1
<1>5. CASE ~(r >= 16)
  <2>1. place(m, h, p, s) = PutTags(m1, p, Size(m, p), 1)
    BY <1>5 DEF place, Size, DSIZE
  <2>2. /\ Leaves(m, PutTags(m1, p, Size(m, p), 1), h, k, A, Allocs(m, B) \ {h})
        /\ Size(PutTags(m1, p, Size(m, p), 1), p) = Size(m, p)
    BY <1>1, PlaceWhole
  <2> QED BY <2>1, <2>2, <1>1
<1> QED BY <1>4, <1>5

-----------------------------------------------------------------------------
(* A good heap, except that mm_init may not have used its list yet. *)
PreGood(m, h, k, B) ==
    /\ Heap(m, h, k, B)
    /\ PreLinks(m, h, Frees(m, B)) /\ OneRing(m, Frees(m, B)) /\ NoFreeNeighbours(m, B)

(* A growth the 32-bit break can express. *)
Growth(n) == n \in Nat /\ n % 8 = 0 /\ n >= 16 /\ mem_max_addr + n < WORD

(* The heap has grown from k by n bytes, into a good one in which bp is a  *)
(* free block of n bytes or more.                                          *)
Grown(m, m2, h, k, B, n, bp) ==
    /\ k + n <= mem_max_addr
    /\ \E C \in SUBSET Nat :
          /\ Good(m2, h, k + n, C) /\ bp \in Frees(m2, C) /\ Size(m2, bp) >= n
          /\ Allocs(m2, C) = Allocs(m, B)
          /\ KeepsBlocks(m, m2, Allocs(m, B) \ {h})

(* mem_sbrk of a growth. *)
LEMMA SbrkFacts ==
  ASSUME NEW k \in Nat, k <= mem_max_addr, NEW n, Growth(n), SbrkOK(k, ToInt(n))
  PROVE  k + n <= mem_max_addr /\ SbrkTo(k, n) = k + n
<1>1. mem_max_addr \in Nat /\ WORD \in Nat
  BY MemAssumption DEF mem_max_addr
<1>2. n \in Nat /\ mem_max_addr + n < WORD /\ k + n < WORD
  BY <1>1 DEF Growth
<1>3. ToInt(n) = n
  BY <1>1, <1>2 DEF SbrkOK, ToInt
<1> QED BY <1>1, <1>2, <1>3 DEF SbrkOK, SbrkTo, Add32

(* The stores of extend_heap before coalesce. *)
LEMMA GrowTags ==
  ASSUME NEW m, NEW h, NEW k, NEW B, Heap(m, h, k, B),
         NEW n, Growth(n), k + n <= mem_max_addr, NEW m1, m1 = PutTags(m, k, n, 0),
         NEW m2, m2 = PUT(m1, HDRP(NEXT_BLKP(m1, k)), PACK(0, 1))
  PROVE  /\ Mem(m2) /\ ExtendTags(m, m2, k, B, n)
         /\ \A a \in Addr : a < k - 4 => m2[a] = m[a]
<1>1. n \in Nat /\ n % 8 = 0 /\ n >= 16
  BY DEF Growth
<1>2. /\ k \in Nat /\ k % 8 = 0 /\ k - 4 \in Addr /\ h \in Nat /\ h + 16 <= k
      /\ \A b \in B : /\ b \in Nat /\ Size(m, b) \in Nat /\ Size(m, b) >= 16
                      /\ b + Size(m, b) <= k
                      /\ b - 4 \in Addr /\ b + Size(m, b) - 8 \in Addr
  BY HeapFacts
<1>3. h = mem_start_brk + 8 /\ Mem(m)
  BY DEF Heap
<1> DEFINE e == k + n
<1>4. e \in Nat /\ e % 8 = 0 /\ mem_start_brk < e /\ e <= mem_max_addr
  BY <1>1, <1>2, <1>3, MemAssumption
<1>5. e - 4 \in Addr /\ e - 8 \in Addr
  <2> HIDE DEF e
  <2> QED BY <1>4, AddrFacts
<1>6. CanTag(m, k, n, e - 8)
  BY <1>1, <1>2, <1>3, <1>5 DEF CanTag
<1>7. Written(m, m1, k, e - 8, PACK(n, 0))
  BY <1>6, TagStores
<1>8. Size(m1, k) = n
  BY <1>1, <1>2, <1>7, NewHeader DEF Written
<1>9. m2 = PUT(m1, e - 4, PACK(0, 1))
  BY <1>8 DEF NEXT_BLKP, HDRP, WSIZE, Size
<1>10. PACK(0, 1) \in Nat
  BY DEF PACK
<1>11. /\ Mem(m2) /\ m2[e - 4] = PACK(0, 1)
       /\ \A a \in Addr : a # e - 4 => m2[a] = m1[a]
  <2> HIDE DEF e
  <2> QED BY <1>5, <1>7, <1>9, <1>10 DEF PUT, Mem, Written
<1>12. m2[k - 4] = PACK(n, 0) /\ m2[e - 8] = PACK(n, 0)
  BY <1>1, <1>2, <1>4, <1>5, <1>7, <1>11 DEF Written
<1>13. ASSUME NEW a \in Addr, a < k - 4 PROVE m2[a] = m[a]
  <2>1. a \in Nat
    BY MemAssumption DEF Addr, mem_max_addr
  <2> QED BY <2>1, <1>1, <1>2, <1>4, <1>5, <1>7, <1>11, <1>13 DEF Written
<1>14. \A b \in B : SameTags(m, m2, b)
  BY <1>2, <1>13 DEF SameTags
<1>15. m2[k + n - 8] = PACK(n, 0) /\ m2[k + n - 4] = PACK(0, 1)
  BY <1>1, <1>2, <1>4, <1>11, <1>12
<1>16. ExtendTags(m, m2, k, B, n)
  BY <1>12, <1>14, <1>15 DEF ExtendTags
<1> QED BY <1>11, <1>13, <1>16

(* x is the result of extend_heap for n bytes; either the heap has grown   *)
(* or nothing has changed.                                                 *)
Extends(m, h, k, n, x) == x = extend_heap(m, h, k, n \div WSIZE)

GrownOrNot(m, h, k, B, n, x) ==
    \/ x.ok = TRUE /\ x.brk = k + n /\ Grown(m, x.m, h, k, B, n, x.bp)
    \/ x = [ok |-> FALSE, m |-> m, bp |-> NULL, brk |-> k]

(* extend_heap. *)
LEMMA ExtendHeap ==
  ASSUME NEW m, NEW h, NEW k, NEW B, PreGood(m, h, k, B),
         NEW n, Growth(n), NEW x, Extends(m, h, k, n, x)
  PROVE  GrownOrNot(m, h, k, B, n, x)
<1> DEFINE m1 == PutTags(m, k, n, 0)
           m2 == PUT(m1, HDRP(NEXT_BLKP(m1, k)), PACK(0, 1))
           c  == coalesce(m2, h, k)
           e  == k + n
           C  == B \cup {k}
<1>1. n \in Nat /\ n % 8 = 0 /\ n >= 16
  BY DEF Growth
<1>2. (IF (n \div WSIZE) % 2 = 1 THEN n \div WSIZE + 1 ELSE n \div WSIZE) * WSIZE = n
  BY <1>1 DEF WSIZE
<1>3. x = IF SbrkOK(k, ToInt(n))
          THEN [ok |-> TRUE, m |-> c.m, bp |-> c.bp, brk |-> SbrkTo(k, n)]
          ELSE [ok |-> FALSE, m |-> m, bp |-> NULL, brk |-> k]
  BY <1>2 DEF extend_heap, Extends
<1>4. SUFFICES ASSUME SbrkOK(k, ToInt(n))
               PROVE  x.ok = TRUE /\ x.brk = k + n /\ Grown(m, x.m, h, k, B, n, x.bp)
  BY <1>3 DEF GrownOrNot
<1>5. Heap(m, h, k, B) /\ k \in Nat /\ k <= mem_max_addr
  BY DEF PreGood, Heap
<1>6. k + n <= mem_max_addr /\ SbrkTo(k, n) = k + n
  BY <1>4, <1>5, SbrkFacts
<1>7. /\ Mem(m2) /\ ExtendTags(m, m2, k, B, n)
      /\ \A a \in Addr : a < k - 4 => m2[a] = m[a]
  BY <1>5, <1>6, GrowTags
<1> HIDE DEF m1, m2, c
<1>8. /\ Heap(m2, h, e, C)
      /\ Size(m2, k) = n /\ IsFree(m2, k)
      /\ \A b \in B : Size(m2, b) = Size(m, b) /\ (IsFree(m2, b) <=> IsFree(m, b))
  <2>1. Plus(C, B, k)
    BY DEF Plus
  <2>2. e = k + n /\ k + n <= mem_max_addr
    BY <1>6
  <2>3. Heap(m, h, k, B) /\ Mem(m2) /\ ExtendTags(m, m2, k, B, n)
    BY <1>5, <1>7
  <2> HIDE DEF C, e
  <2> QED BY <2>1, <2>2, <2>3, <1>1, Extend
<1>9. /\ h \in B
      /\ \A b \in B : /\ b \in Nat /\ Size(m, b) \in Nat /\ Size(m, b) >= 16
                      /\ b + Size(m, b) <= k
                      /\ b - 4 \in Addr /\ b \in Addr /\ b + 4 \in Addr
  BY <1>5, HeapFacts
<1>10. k \notin B
  BY <1>9, <1>5
<1>11. OtherFrees(m2, C, k) = Frees(m, B) /\ Allocs(m2, C) = Allocs(m, B)
  BY <1>8, <1>10 DEF OtherFrees, Frees, Allocs
<1>12. Pending(m2, h, e, C, k)
  <2>1. \A y \in Frees(m, B) \cup {h} : m2[y] = m[y] /\ m2[y + 4] = m[y + 4]
    BY <1>5, <1>7, <1>9 DEF Frees
  <2>2. PreLinks(m2, h, Frees(m, B)) /\ OneRing(m2, Frees(m, B))
    BY <2>1, ListFrame DEF PreGood
  <2>3. ASSUME NEW b \in C, NEW d \in C, d = b + Size(m2, b), IsFree(m2, b), IsFree(m2, d)
        PROVE  b = k \/ d = k
    BY <2>3, <1>8 DEF PreGood, NoFreeNeighbours
  <2>4. k \in Frees(m2, C)
    BY <1>8 DEF Frees
  <2> QED BY <2>2, <2>3, <2>4, <1>8, <1>11 DEF Pending
<1>13. Absorbed(m2, c.m, h, e, C, k, c.bp)
  BY <1>12, Coalesce DEF c
<1>14. KeepsBlocks(m, m2, Allocs(m, B) \ {h})
  <2> SUFFICES ASSUME NEW b \in Allocs(m, B)
               PROVE  /\ m2[b - 4] = m[b - 4]
                      /\ \A a \in Addr : b <= a /\ a < b + Size(m, b) - 8 => m2[a] = m[a]
    BY DEF KeepsBlocks
  <2>1. b \in B
    BY DEF Allocs
  <2>2. ASSUME NEW a \in Addr, b <= a, a < b + Size(m, b) - 8 PROVE m2[a] = m[a]
    <3>1. a \in Nat
      BY MemAssumption DEF Addr, mem_max_addr
    <3> QED BY <3>1, <2>1, <2>2, <1>5, <1>7, <1>9
  <2> QED BY <2>1, <2>2, <1>5, <1>7, <1>9
<1> HIDE DEF C, e
<1>15. PICK D \in SUBSET C :
         /\ Good(c.m, h, e, D) /\ c.bp \in Frees(c.m, D)
         /\ Size(c.m, c.bp) >= Size(m2, k)
         /\ Allocs(c.m, D) = Allocs(m2, C)
         /\ KeepsBlocks(m2, c.m, Allocs(m2, C) \ {h})
  BY <1>13 DEF Absorbed
<1>16. KeepsBlocks(m, c.m, Allocs(m, B) \ {h})
  BY <1>11, <1>14, <1>15, KeepsTrans
<1>17. D \in SUBSET Nat
  BY <1>15 DEF Good, Heap
<1>18. Grown(m, c.m, h, k, B, n, c.bp)
  BY <1>6, <1>8, <1>11, <1>15, <1>16, <1>17 DEF Grown, e
<1> QED BY <1>3, <1>4, <1>6, <1>18

(* The block size for a request leaves room for it and for both tags. *)
LEMMA Adjusted ==
  ASSUME NEW size \in Nat
  PROVE  /\ AdjustedSize(size) \in Nat /\ AdjustedSize(size) % 8 = 0
         /\ AdjustedSize(size) >= 16
         /\ AdjustedSize(size) >= size + 8 /\ AdjustedSize(size) <= size + 16
<1>1. CASE size <= 8
  BY <1>1 DEF AdjustedSize, DSIZE
<1>2. CASE ~(size <= 8)
  <2> DEFINE d == (size + 15) \div 8
  <2>1. d \in Nat /\ 8 * d <= size + 15 /\ 8 * d >= size + 8
    OBVIOUS
  <2>2. AdjustedSize(size) = 8 * d
    BY <1>2 DEF AdjustedSize, DSIZE
  <2>3. (8 * d) % 8 = 0 /\ 8 * d \in Nat
    <3> HIDE DEF d
    <3> QED BY <2>1
  <2> QED BY <2>1, <2>2, <2>3, <1>2
<1> QED BY <1>1, <1>2

-----------------------------------------------------------------------------
(* The six words mm_init writes at lo. *)
LEMMA InitialWords ==
  ASSUME NEW m, Mem(m), NEW lo, lo = mem_start_brk, lo + 24 <= mem_max_addr,
         NEW m2, m2 = InitialHeap(m, lo)
  PROVE  /\ Mem(m2)
         /\ m2[lo + 4] = PACK(16, 1) /\ m2[lo + 16] = PACK(16, 1)
         /\ m2[lo + 20] = PACK(0, 1) /\ m2[lo + 12] = lo + 8 /\ m2[lo] = 0
<1>1. lo \in Nat /\ lo % 8 = 0
  BY MemAssumption
<1>2. \A i \in {0, 4, 8, 12, 16, 20} : lo + i \in Addr
  BY <1>1, MemAssumption DEF Addr, WSIZE, mem_max_addr
<1>3. PACK(16, 1) \in Nat /\ PACK(0, 1) \in Nat
  BY DEF PACK
<1> DEFINE a0 == lo  a1 == lo + 4  a2 == lo + 8  a3 == lo + 12  a4 == lo + 16  a5 == lo + 20
           u  == PACK(16, 1)
           v  == PACK(0, 1)
<1>4. m2 = [[[[[[m EXCEPT ![a0] = 0] EXCEPT ![a1] = u] EXCEPT ![a2] = a3]
                  EXCEPT ![a3] = a2] EXCEPT ![a4] = u] EXCEPT ![a5] = v]
  BY <1>1 DEF InitialHeap, PUT, WSIZE, DSIZE
<1>5. /\ a0 \in Addr /\ a1 \in Addr /\ a2 \in Addr /\ a3 \in Addr /\ a4 \in Addr /\ a5 \in Addr
      /\ a1 # a2 /\ a1 # a3 /\ a1 # a4 /\ a1 # a5
      /\ a0 # a1 /\ a0 # a2 /\ a0 # a3 /\ a0 # a4 /\ a0 # a5
      /\ a3 # a4 /\ a3 # a5 /\ a4 # a5 /\ a2 \in Nat /\ a3 \in Nat
  BY <1>1, <1>2
<1> HIDE DEF a0, a1, a2, a3, a4, a5, u, v
<1>6. u \in Nat /\ v \in Nat
  BY <1>3 DEF u, v
<1>7. Mem(m2) /\ m2[a1] = u /\ m2[a4] = u /\ m2[a5] = v /\ m2[a3] = a2 /\ m2[a0] = 0
  BY <1>4, <1>5, <1>6 DEF Mem
<1> QED BY <1>7 DEF a0, a1, a2, a3, a4, a5, u, v

(* mm_init on an empty heap: a good heap with the prologue as its only     *)
(* allocated block, or a failure.                                          *)
LEMMA MmInit ==
  ASSUME NEW m, Mem(m), NEW r, r = mm_init(m, mem_start_brk)
  PROVE  \/ /\ r.ok = TRUE /\ r.listp = mem_start_brk + 8
            /\ r.brk \in Nat /\ mem_start_brk <= r.brk /\ r.brk <= mem_max_addr
            /\ \E C \in SUBSET Nat : /\ Good(r.m, r.listp, r.brk, C)
                                    /\ Allocs(r.m, C) = {r.listp}
         \/ /\ r.ok = FALSE /\ Mem(r.m) /\ r.listp \in Nat
            /\ r.brk \in Nat /\ mem_start_brk <= r.brk /\ r.brk <= mem_max_addr
<1> DEFINE lo == mem_start_brk
           h  == lo + 8
           k  == h + 16
           m1 == InitialHeap(m, lo)
           x  == extend_heap(m1, h, k, CHUNKSIZE \div WSIZE)
<1>1. /\ lo \in Nat /\ mem_max_addr \in Nat /\ WORD \in Nat /\ WORD - 1 \in Nat
      /\ lo <= mem_max_addr
      /\ CHUNKSIZE \in Nat /\ CHUNKSIZE % 8 = 0 /\ CHUNKSIZE >= 16
      /\ mem_max_addr + CHUNKSIZE < WORD /\ lo + 24 < WORD
  BY MemAssumption, ExplicitAssumption DEF mem_max_addr
<1>2. lo + 2 * WSIZE = h /\ SbrkTo(lo, 6 * WSIZE) = k
  BY <1>1 DEF SbrkTo, Add32, WSIZE
<1>3. r = IF SbrkOK(lo, 6 * WSIZE)
          THEN [ok |-> x.ok, m |-> x.m, brk |-> x.brk, listp |-> h]
          ELSE [ok |-> FALSE, m |-> m, brk |-> lo, listp |-> WORD - 1]
  BY <1>2 DEF mm_init
<1>4. CASE ~SbrkOK(lo, 6 * WSIZE)
  BY <1>1, <1>3, <1>4
<1>5. CASE SbrkOK(lo, 6 * WSIZE)
  <2>1. lo + 24 <= mem_max_addr
    BY <1>1, <1>5 DEF SbrkOK, Add32, WSIZE
  <2>2. /\ Mem(m1)
        /\ m1[lo + 4] = PACK(16, 1) /\ m1[lo + 16] = PACK(16, 1)
        /\ m1[lo + 20] = PACK(0, 1) /\ m1[lo + 12] = lo + 8
    BY <2>1, InitialWords
  <2> HIDE DEF m1
  <2>3. Heap(m1, h, k, {h})
    <3>1. /\ m1[h - 4] = PACK(16, 1) /\ m1[h + 8] = PACK(16, 1)
          /\ m1[h + 12] = PACK(0, 1)
      BY <2>2, <1>1
    <3>2. h = mem_start_brk + 8 /\ mem_start_brk + 24 <= mem_max_addr
      BY <2>1
    <3>3. Mem(m1)
      BY <2>2
    <3> HIDE DEF h, m1, lo
    <3> QED BY <3>1, <3>2, <3>3, FirstHeap DEF k
  <2>4. ~IsFree(m1, h)
    BY <2>3, HeapFacts
  <2>5. Frees(m1, {h}) = {} /\ Allocs(m1, {h}) = {h}
    BY <2>4 DEF Frees, Allocs
  <2>6. PreGood(m1, h, k, {h})
    <3>1. SUCC_P(m1, h) = h
      BY <2>2, <1>1 DEF SUCC_P, GET, WSIZE
    <3>2. PreLinks(m1, h, Frees(m1, {h}))
      BY <3>1, <2>5 DEF PreLinks
    <3>3. OneRing(m1, Frees(m1, {h})) /\ NoFreeNeighbours(m1, {h})
      BY <2>4, <2>5 DEF OneRing, NoFreeNeighbours
    <3> QED BY <3>2, <3>3, <2>3 DEF PreGood
  <2>7. Growth(CHUNKSIZE)
    BY <1>1 DEF Growth
  <2>8. \/ /\ x.ok = TRUE /\ x.brk = k + CHUNKSIZE
           /\ Grown(m1, x.m, h, k, {h}, CHUNKSIZE, x.bp)
        \/ x = [ok |-> FALSE, m |-> m1, bp |-> NULL, brk |-> k]
    <3> DEFINE S == {h}
    <3>1. PreGood(m1, h, k, S) /\ Extends(m1, h, k, CHUNKSIZE, x)
      BY <2>6 DEF Extends
    <3> HIDE DEF h, k, S, x
    <3>2. GrownOrNot(m1, h, k, S, CHUNKSIZE, x)
      BY <3>1, <2>7, ExtendHeap
    <3> QED BY <3>2 DEF S, GrownOrNot
  <2>9. CASE x = [ok |-> FALSE, m |-> m1, bp |-> NULL, brk |-> k]
    BY <2>9, <2>1, <2>2, <1>1, <1>3, <1>5
  <2>10. CASE /\ x.ok = TRUE /\ x.brk = k + CHUNKSIZE
              /\ Grown(m1, x.m, h, k, {h}, CHUNKSIZE, x.bp)
    <3> HIDE DEF x
    <3>1. r.ok = TRUE /\ r.m = x.m /\ r.brk = k + CHUNKSIZE /\ r.listp = h
      BY <2>10, <1>3, <1>5
    <3>2. k + CHUNKSIZE <= mem_max_addr
      BY <2>10 DEF Grown
    <3>3. k + CHUNKSIZE \in Nat /\ lo <= k + CHUNKSIZE
      BY <1>1
    <3> HIDE DEF h, k
    <3>4. \E C \in SUBSET Nat : Good(x.m, h, k + CHUNKSIZE, C) /\ Allocs(x.m, C) = {h}
      BY <2>10, <2>5 DEF Grown
    <3> QED BY <3>1, <3>2, <3>3, <3>4 DEF h
  <2> QED BY <2>8, <2>9, <2>10
<1> QED BY <1>4, <1>5

-----------------------------------------------------------------------------
(* m2 differs from m in the payload of block b only. *)
PayloadOnly(m, m2, b) ==
    /\ Mem(m2)
    /\ \A a \in Addr : a < b \/ a >= b + Size(m, b) - 8 => m2[a] = m[a]

(* The same heap, word for word outside payloads. *)
SameBlocks(m, m2, B) ==
    \A b \in B : Size(m2, b) = Size(m, b) /\ (IsFree(m2, b) <=> IsFree(m, b))

Overwritten(m, m2, h, k, B, p) ==
    /\ Good(m2, h, k, B) /\ SameBlocks(m, m2, B)
    /\ Allocs(m2, B) = Allocs(m, B) /\ Frees(m2, B) = Frees(m, B)
    /\ KeepsBlocks(m, m2, B \ {p})
    /\ \A x \in Frees(m, B) \cup {h} : m2[x] = m[x] /\ m2[x + 4] = m[x + 4]

(* Writing into the payload of an allocated block disturbs nothing. *)
LEMMA Overwrite ==
  ASSUME NEW m, NEW h, NEW k, NEW B, Good(m, h, k, B), NEW p \in Allocs(m, B) \ {h},
         NEW m2, PayloadOnly(m, m2, p)
  PROVE  Overwritten(m, m2, h, k, B, p)
<1>1. Heap(m, h, k, B) /\ p \in B \ {h} /\ ~IsFree(m, p)
  BY DEF Good, Allocs
<1>2. /\ k \in Nat /\ h \in B /\ k - 4 \in Addr
      /\ \A b \in B :
              /\ b \in Nat /\ Size(m, b) \in Nat /\ Size(m, b) >= 16
              /\ b + Size(m, b) <= k
              /\ b - 4 \in Addr /\ b \in Addr /\ b + 4 \in Addr
              /\ b + Size(m, b) - 8 \in Addr
      /\ \A b, c \in B : b < c => b + Size(m, b) <= c
  BY <1>1, HeapFacts
<1>3. \A b \in B \ {p} : b + Size(m, b) <= p \/ b >= p + Size(m, p)
  BY <1>1, <1>2
<1>4. AllTags(m, m2, k, B)
  <2>1. ASSUME NEW b \in B PROVE SameTags(m, m2, b)
    <3>1. /\ b - 4 < p \/ b - 4 >= p + Size(m, p) - 8
          /\ b + Size(m, b) - 8 < p \/ b + Size(m, b) - 8 >= p + Size(m, p) - 8
      BY <1>1, <1>2, <1>3
    <3> QED BY <3>1, <1>2 DEF SameTags, PayloadOnly
  <2>2. m2[k - 4] = m[k - 4]
    <3>1. k - 4 >= p + Size(m, p) - 8
      BY <1>1, <1>2
    <3> QED BY <3>1, <1>2 DEF PayloadOnly
  <2> QED BY <2>1, <2>2 DEF AllTags
<1>5. Heap(m2, h, k, B) /\ SameBlocks(m, m2, B)
  BY <1>1, <1>4, TagFrame DEF PayloadOnly, SameBlocks
<1>6. Allocs(m2, B) = Allocs(m, B) /\ Frees(m2, B) = Frees(m, B)
  BY <1>5 DEF SameBlocks, Allocs, Frees
<1>7. ASSUME NEW x \in Frees(m, B) \cup {h}
      PROVE  m2[x] = m[x] /\ m2[x + 4] = m[x + 4]
  <2>1. x \in B \ {p}
    BY <1>1, <1>2 DEF Frees
  <2>2. /\ x < p \/ x >= p + Size(m, p) - 8
        /\ x + 4 < p \/ x + 4 >= p + Size(m, p) - 8
    BY <2>1, <1>1, <1>2, <1>3
  <2> QED BY <2>1, <2>2, <1>2 DEF PayloadOnly
<1>8. Links(m2, h, Frees(m, B)) /\ OneRing(m2, Frees(m, B))
  BY <1>7, ListFrame DEF Good, FreeList
<1>9. NoFreeNeighbours(m2, B)
  BY <1>5 DEF SameBlocks, Good, NoFreeNeighbours
<1>10. Good(m2, h, k, B)
  BY <1>5, <1>6, <1>8, <1>9 DEF Good, FreeList
<1>11. KeepsBlocks(m, m2, B \ {p})
  <2> SUFFICES ASSUME NEW b \in B \ {p}
               PROVE  /\ m2[b - 4] = m[b - 4]
                      /\ \A a \in Addr : b <= a /\ a < b + Size(m, b) - 8 => m2[a] = m[a]
    BY DEF KeepsBlocks
  <2>1. m2[b - 4] = m[b - 4]
    BY <1>4 DEF AllTags, SameTags
  <2>2. ASSUME NEW a \in Addr, b <= a, a < b + Size(m, b) - 8 PROVE m2[a] = m[a]
    <3>1. a \in Nat
      BY MemAssumption DEF Addr, mem_max_addr
    <3>2. a < p \/ a >= p + Size(m, p) - 8
      BY <3>1, <2>2, <1>1, <1>2, <1>3
    <3> QED BY <3>2 DEF PayloadOnly
  <2> QED BY <2>1, <2>2
<1> QED BY <1>5, <1>6, <1>7, <1>10, <1>11 DEF Overwritten

-----------------------------------------------------------------------------
(* mm_realloc moves the block old to new. *)
CanMove(m, h, k, B, old, new, size) ==
    /\ Good(m, h, k, B) /\ old # new /\ size \in Nat
    /\ old \in Allocs(m, B) \ {h} /\ new \in Allocs(m, B) \ {h}
    /\ size + 8 <= Size(m, new)

Copied(m, m2, old, new, n) ==
    \A a \in Words(new, n) : m2[a] = m[old + (a - new)]

Moved(m, m2, h, k, B, old, new, n) ==
    \E C \in SUBSET Nat :
        /\ Good(m2, h, k, C) /\ Allocs(m2, C) = Allocs(m, B) \ {old}
        /\ KeepsBlocks(m, m2, Allocs(m, B) \ {h, old, new})
        /\ Size(m2, new) = Size(m, new) /\ Copied(m, m2, old, new, n)

(* memcpy within the payload of new. *)
LEMMA CopyWords ==
  ASSUME NEW m, NEW h, NEW k, NEW B, NEW old, NEW new, NEW size,
         CanMove(m, h, k, B, old, new, size),
         NEW n, n = IF size < Size(m, old) THEN size ELSE Size(m, old),
         NEW m1, m1 = memcpy(m, new, old, n)
  PROVE  /\ PayloadOnly(m, m1, new) /\ Copied(m, m1, old, new, n)
         /\ n \in Nat /\ n <= size
<1>1. Heap(m, h, k, B) /\ old \in B /\ new \in B /\ size \in Nat /\ size + 8 <= Size(m, new)
  BY DEF CanMove, Good, Allocs
<1>2. /\ \A b \in B : /\ b \in Nat /\ b % 8 = 0 /\ h <= b /\ b + Size(m, b) <= k
                      /\ Size(m, b) \in Nat
      /\ k \in Nat /\ h \in Nat
  BY <1>1, HeapFacts
<1>3. k <= mem_max_addr /\ h = mem_start_brk + 8 /\ Mem(m)
  BY <1>1 DEF Heap
<1>4. n \in Nat /\ n <= size /\ n <= Size(m, old)
  BY <1>1, <1>2
<1>5. \A a \in Addr : a \in Nat /\ a % 4 = 0
  BY MemAssumption DEF Addr, mem_max_addr, WSIZE
<1>6. \A a \in Words(new, n) : a \in Addr /\ new <= a /\ a < new + n
  BY DEF Words
<1>7. ASSUME NEW a \in Words(new, n) PROVE old + (a - new) \in Addr
  <2>1. a \in Nat /\ a % 4 = 0 /\ new <= a /\ a < new + n
    BY <1>5, <1>6
  <2>2. /\ old \in Nat /\ new \in Nat /\ old % 8 = 0 /\ new % 8 = 0
        /\ h <= old /\ old + Size(m, old) <= k /\ Size(m, old) \in Nat
    BY <1>1, <1>2
  <2>3. (old + (a - new)) % 4 = 0
    BY <2>1, <2>2
  <2>4. old + (a - new) < mem_max_addr /\ mem_start_brk <= old + (a - new)
    BY <2>1, <2>2, <1>2, <1>3, <1>4, MemAssumption DEF mem_max_addr
  <2> QED BY <2>1, <2>2, <2>3, <2>4, MemAssumption DEF Addr, WSIZE, mem_max_addr
<1>8. /\ Mem(m1)
      /\ \A a \in Words(new, n) : m1[a] = m[old + (a - new)]
      /\ \A a \in Addr : a \notin Words(new, n) => m1[a] = m[a]
  BY <1>3, <1>6, <1>7 DEF memcpy, Mem
<1>9. ASSUME NEW a \in Addr, a < new \/ a >= new + Size(m, new) - 8 PROVE m1[a] = m[a]
  <2>1. a \in Nat /\ new \in Nat /\ Size(m, new) \in Nat
    BY <1>1, <1>2, <1>5
  <2>2. a \notin Words(new, n)
    BY <2>1, <1>1, <1>4, <1>6, <1>9
  <2> QED BY <2>2, <1>8
<1> QED BY <1>4, <1>8, <1>9 DEF PayloadOnly, Copied

(* The copy and the free of mm_realloc: the data is in new and old is a free block. *)
LEMMA Move ==
  ASSUME NEW m, NEW h, NEW k, NEW B, NEW old, NEW new, NEW size,
         CanMove(m, h, k, B, old, new, size),
         NEW n, n = IF size < Size(m, old) THEN size ELSE Size(m, old),
         NEW m2, m2 = MoveBlock(m, h, old, new, size)
  PROVE  Moved(m, m2, h, k, B, old, new, n)
<1> DEFINE m1 == memcpy(m, new, old, n)
           A  == Allocs(m, B) \ {old}
<1>1. /\ PayloadOnly(m, m1, new) /\ Copied(m, m1, old, new, n)
      /\ n \in Nat /\ n <= size
  BY CopyWords
<1>2. /\ Good(m, h, k, B) /\ old # new /\ size \in Nat
      /\ old \in Allocs(m, B) \ {h} /\ new \in Allocs(m, B) \ {h}
      /\ size + 8 <= Size(m, new)
  BY DEF CanMove
<1>3. m2 = mm_free(m1, h, old)
  BY DEF MoveBlock, Size
<1> HIDE DEF m1
<1>4. /\ Good(m1, h, k, B) /\ SameBlocks(m, m1, B) /\ Allocs(m1, B) = Allocs(m, B)
      /\ KeepsBlocks(m, m1, B \ {new})
  <2>1. Overwritten(m, m1, h, k, B, new)
    BY <1>1, <1>2, Overwrite
  <2> QED BY <2>1 DEF Overwritten
<1>5. Leaves(m1, m2, h, k, A, A \ {h})
  <2>1. A = Allocs(m1, B) \ {old} /\ old \in Allocs(m1, B) \ {h}
    BY <1>2, <1>4
  <2> HIDE DEF A
  <2> QED BY <2>1, <1>3, <1>4, FreeBlock
<1>6. PICK C \in SUBSET Nat : /\ Good(m2, h, k, C) /\ Allocs(m2, C) = A
                              /\ KeepsBlocks(m1, m2, A \ {h})
  BY <1>5 DEF Leaves
<1>7. new \in A \ {h} /\ new \in B
  BY <1>2 DEF Allocs
<1>8. Size(m2, new) = Size(m, new) /\ Size(m1, new) = Size(m, new)
  <2>1. m2[new - 4] = m1[new - 4]
    BY <1>6, <1>7 DEF KeepsBlocks
  <2> QED BY <2>1, <1>4, <1>7, SameHeader DEF SameBlocks
<1>9. KeepsBlocks(m, m2, A \ {h, new})
  <2> DEFINE K == A \ {h, new}
  <2>1. K \subseteq A \ {h} /\ K \subseteq B \ {new}
    BY DEF Allocs
  <2> HIDE DEF K
  <2>2. KeepsBlocks(m, m1, K) /\ KeepsBlocks(m1, m2, K)
    BY <2>1, <1>4, <1>6, KeepsFewer
  <2>3. KeepsBlocks(m, m2, K)
    BY <2>2, KeepsTrans
  <2> QED BY <2>3 DEF K
<1>10. Copied(m, m2, old, new, n)
  <2> SUFFICES ASSUME NEW a \in Words(new, n) PROVE m2[a] = m[old + (a - new)]
    BY DEF Copied
  <2>1. m1[a] = m[old + (a - new)]
    BY <1>1 DEF Copied
  <2>2. a \in Addr /\ a \in Nat /\ new <= a /\ a < new + n
    BY MemAssumption DEF Words, Addr, mem_max_addr
  <2>3. new \in Nat /\ Size(m, new) \in Nat
    BY <1>2, <1>7, HeapFacts DEF Good
  <2>4. a < new + Size(m1, new) - 8
    BY <2>2, <2>3, <1>1, <1>2, <1>8
  <2>5. m2[a] = m1[a]
    BY <2>2, <2>4, <1>6, <1>7 DEF KeepsBlocks
  <2> QED BY <2>1, <2>5
<1>11. A \ {h, new} = Allocs(m, B) \ {h, old, new}
  OBVIOUS
<1> QED BY <1>6, <1>8, <1>9, <1>10, <1>11 DEF Moved

-----------------------------------------------------------------------------
(* The invariant and the theorems *)

(* The blocks of a heap are among the candidates TLC chooses from. *)
LEMMA HeapCandidates ==
  ASSUME NEW m, NEW h, NEW k, NEW B, Heap(m, h, k, B)
  PROVE  /\ \A b \in B : b \in h .. k - 1 /\ b - 4 \in Addr /\ BlockAt(m, h, k, b)
         /\ Tiles(m, h, k, B)
<1>1. Tiles(m, h, k, B)
  BY DEF Heap
<1>2. \A b \in B : BlockAt(m, h, k, b)
  BY <1>1 DEF Tiles
<1>3. /\ k \in Nat /\ h \in Nat
      /\ \A b \in B : /\ b \in Nat /\ h <= b /\ b - 4 \in Addr /\ b + Size(m, b) <= k
                      /\ Size(m, b) \in Nat /\ Size(m, b) >= 16
  BY HeapFacts
<1>4. \A b \in B : b \in h .. k - 1
  BY <1>3
<1> QED BY <1>1, <1>2, <1>3, <1>4

(* What IInv says of the heap, in the terms of the lemmas. *)
LEMMA Unpack ==
  ASSUME IInv, Up
  PROVE  /\ heap_listp = mem_start_brk + 8 /\ Roomy
         /\ \E B \in SUBSET Nat : /\ Good(mem, heap_listp, mem_brk, B)
                                 /\ Owned(B) /\ SearchInv(B)
<1>1. heap_listp = mem_start_brk + 8 /\ Roomy
  BY DEF IInv, DSIZE
<1>2. PICK B \in Tilings : HeapInv(B)
  BY DEF IInv
<1>3. B \in SUBSET Nat /\ Tiles(mem, heap_listp, mem_brk, B)
  <2>1. heap_listp \in Nat
    BY DEF IInv, TypeOK
  <2> QED BY <2>1, <1>2 DEF Tilings, Candidates
<1>4. Mem(mem) /\ mem_brk \in Nat /\ mem_brk <= mem_max_addr
  BY MemAssumption DEF IInv, TypeOK, Mem, mem_max_addr
<1>5. Heap(mem, heap_listp, mem_brk, B)
  BY <1>1, <1>3, <1>4 DEF Heap
<1> QED BY <1>1, <1>2, <1>3, <1>5 DEF HeapInv, Good

(* The converse of Unpack: the parts of IInv in the next state make it up. *)
LEMMA Repack ==
  ASSUME NEW B, Good(mem', heap_listp', mem_brk', B), Owned(B)', SearchInv(B)',
         heap_listp' = mem_start_brk + 8, Roomy', TypeOK', CallInv', PayloadsIntact'
  PROVE  IInv'
<1>1. Heap(mem', heap_listp', mem_brk', B)
  BY DEF Good
<1>2. B \in Tilings'
  BY <1>1, HeapCandidates DEF Tilings, Candidates
<1>3. HeapInv(B)'
  BY DEF Good, HeapInv
<1> QED BY <1>2, <1>3 DEF IInv, DSIZE

-----------------------------------------------------------------------------
(* Who owns which block. *)

Holds(bl) == {bl[i] : i \in {j \in Ids : bl[j] # NULL}}

Owner(A, h, bl) ==
    /\ A = {h} \cup Holds(bl) /\ h \notin Holds(bl)
    /\ \A i, j \in {j \in Ids : bl[j] # NULL} : bl[i] = bl[j] => i = j

(* bl2 is bl with p for index i. *)
Now(bl2, bl, i, p) == bl2 = [bl EXCEPT ![i] = p]

(* Ownership after mm_malloc gave a new block to an index without one. *)
LEMMA OwnerGive ==
  ASSUME NEW A, NEW h, NEW bl \in [Ids -> Nat], Owner(A, h, bl),
         NEW i \in Ids, bl[i] = NULL, NEW p \in Nat, p # NULL, p \notin A,
         NEW A2, Plus(A2, A, p), NEW bl2, Now(bl2, bl, i, p)
  PROVE  Owner(A2, h, bl2)
BY DEF Owner, Holds, Plus, Now

(* Ownership after mm_free took the block of an index. *)
LEMMA OwnerTake ==
  ASSUME NEW A, NEW h, NEW bl \in [Ids -> Nat], Owner(A, h, bl),
         NEW i \in Ids, bl[i] # NULL,
         NEW A2, Minus(A2, A, bl[i]), NEW bl2, bl2 = [bl EXCEPT ![i] = NULL]
  PROVE  Owner(A2, h, bl2)
BY DEF Owner, Holds, Minus, NULL

(* Ownership after mm_realloc exchanged the block of an index for a new one. *)
LEMMA OwnerMove ==
  ASSUME NEW A, NEW h, NEW bl \in [Ids -> Nat], Owner(A, h, bl),
         NEW i \in Ids, bl[i] # NULL, NEW p \in Nat, p # NULL, p \notin A,
         NEW A1, Plus(A1, A, p), NEW A2, Minus(A2, A1, bl[i]),
         NEW bl2, Now(bl2, bl, i, p)
  PROVE  Owner(A2, h, bl2)
BY DEF Owner, Holds, Plus, Minus, Now

(* Ownership after mm_init: the prologue is the only allocated block. *)
LEMMA OwnerNone ==
  ASSUME NEW h, NEW bl, bl = [i \in Ids |-> NULL]
  PROVE  Owner({h}, h, bl)
BY DEF Owner, Holds

(* The payload of a block that is kept. *)
LEMMA KeptWords ==
  ASSUME NEW m, NEW m2, NEW K, KeepsBlocks(m, m2, K), NEW b \in K, b \in Nat,
         Size(m, b) \in Nat, NEW n \in Nat, n + 8 <= Size(m, b)
  PROVE  /\ Size(m2, b) = Size(m, b)
         /\ \A a \in Words(b, n) : m2[a] = m[a]
<1>1. m2[b - 4] = m[b - 4]
  BY DEF KeepsBlocks
<1>2. Size(m2, b) = Size(m, b)
  BY <1>1, SameHeader
<1>3. ASSUME NEW a \in Words(b, n) PROVE m2[a] = m[a]
  <2>1. a \in Addr /\ a \in Nat /\ b <= a /\ a < b + n
    BY MemAssumption DEF Words, Addr, mem_max_addr
  <2>2. a < b + Size(m, b) - 8
    BY <2>1
  <2> QED BY <2>1, <2>2 DEF KeepsBlocks
<1> QED BY <1>2, <1>3

-----------------------------------------------------------------------------
(* Steps that change nothing but the call in progress. *)

Quiet == UNCHANGED <<mem, mem_brk, heap_listp, blocks, block_sizes>>

CallType == [pc : {"down", "idle", "find", "place", "grow", "fill"},
             op : {"none", "malloc", "realloc"}, id : Nat, size : Nat,
             ptr : Nat, keep : Nat, failed : BOOLEAN]

(* A step that leaves the heap and the client alone keeps IInv. *)
LEMMA QuietStep ==
  ASSUME IInv, Up, Quiet, call.pc # "fill", call'.pc \notin {"fill", "down"},
         call' \in CallType, CallInv',
         \A B \in SUBSET Nat :
             Good(mem, heap_listp, mem_brk, B) /\ SearchInv(B) => SearchInv(B)'
  PROVE  IInv'
<1>1. /\ mem' = mem /\ mem_brk' = mem_brk /\ heap_listp' = heap_listp
      /\ blocks' = blocks /\ block_sizes' = block_sizes
  BY DEF Quiet
<1>2. /\ heap_listp = mem_start_brk + 8 /\ Roomy
      /\ \E B \in SUBSET Nat : /\ Good(mem, heap_listp, mem_brk, B)
                              /\ Owned(B) /\ SearchInv(B)
  BY Unpack
<1>3. PICK B \in SUBSET Nat : /\ Good(mem, heap_listp, mem_brk, B)
                             /\ Owned(B) /\ SearchInv(B)
  BY <1>2
<1>4. Good(mem', heap_listp', mem_brk', B) /\ SearchInv(B)'
  BY <1>1, <1>3
<1>5. Owned(B)' /\ Roomy'
  BY <1>1, <1>2, <1>3 DEF Owned, Roomy, Live
<1>6. TypeOK'
  BY <1>1 DEF TypeOK, IInv, CallType
<1>7. PayloadsIntact'
  <2>1. \A i \in Ids : Kept(i)' = Kept(i)
    BY <1>1 DEF Kept
  <2> QED BY <2>1, <1>1 DEF PayloadsIntact, IInv, Live
<1> QED BY <1>1, <1>2, <1>4, <1>5, <1>6, <1>7, Repack

(* The types of the state, from IInv. *)
LEMMA TypeFacts ==
  ASSUME IInv
  PROVE  /\ Mem(mem) /\ mem_brk \in Nat /\ mem_brk <= mem_max_addr /\ heap_listp \in Nat
         /\ mem_start_brk <= mem_brk
         /\ blocks \in [Ids -> Nat] /\ block_sizes \in [Ids -> Nat] /\ call \in CallType
BY MemAssumption DEF IInv, TypeOK, Mem, CallType, mem_max_addr

(* mm_malloc or mm_realloc of no bytes returns NULL. *)
LEMMA RequestZeroStep ==
  ASSUME IInv, RequestZero
  PROVE  IInv'
<1>1. call.pc = "idle" /\ call' = Idle(TRUE) /\ Quiet
  BY DEF RequestZero, Quiet
<1>2. call' \in CallType /\ call'.pc = "idle"
  BY <1>1 DEF Idle, CallType, NULL
<1>3. CallInv'
  BY <1>1, <1>2 DEF CallInv, IInv, Live, Up, Quiet
<1>4. \A B \in SUBSET Nat : SearchInv(B)'
  BY <1>2 DEF SearchInv
<1> QED BY <1>1, <1>2, <1>3, <1>4, QuietStep DEF Up

(* mem_sbrk refuses to grow the heap: the call returns NULL. *)
LEMMA GrowFailsStep ==
  ASSUME IInv, GrowFails
  PROVE  IInv'
<1>1. call.pc = "grow" /\ call' = Idle(TRUE) /\ Quiet
  BY DEF GrowFails, Quiet
<1>2. call' \in CallType /\ call'.pc = "idle"
  BY <1>1 DEF Idle, CallType, NULL
<1>3. CallInv'
  BY <1>1, <1>2 DEF CallInv, IInv, Live, Up, Quiet
<1>4. \A B \in SUBSET Nat : SearchInv(B)'
  BY <1>2 DEF SearchInv
<1> QED BY <1>1, <1>2, <1>3, <1>4, QuietStep DEF Up

(* Where the links of a good heap lead. *)
LEMMA LinkFacts ==
  ASSUME NEW m, NEW h, NEW k, NEW B, Good(m, h, k, B)
  PROVE  /\ h \notin Frees(m, B) /\ ~IsFree(m, h)
         /\ \A x \in Frees(m, B) \cup {h} :
              /\ SUCC_P(m, x) \in Frees(m, B) \cup {h} /\ PRED_P(m, SUCC_P(m, x)) = x
              /\ PRED_P(m, x) \in Frees(m, B) \cup {h} /\ SUCC_P(m, PRED_P(m, x)) = x
         /\ \A x \in Frees(m, B) \cup {h} : x \in Nat
<1>1. ~IsFree(m, h) /\ h \in Nat /\ \A b \in B : b \in Nat
  BY HeapFacts DEF Good
<1>2. Links(m, h, Frees(m, B))
  BY DEF Good, FreeList
<1> QED BY <1>1, <1>2 DEF Links, Frees

(* A call begins: nothing has been visited. *)
LEMMA RequestStep ==
  ASSUME IInv, NEW op \in {"malloc", "realloc"}, NEW i \in Ids, NEW s \in Sizes,
         Request(op, i, s), op = "malloc" <=> blocks[i] = NULL
  PROVE  IInv'
<1> DEFINE first == SUCC_P(mem, heap_listp)
<1>1. /\ call.pc = "idle" /\ s # 0 /\ Quiet
      /\ call' = [pc |-> "find", op |-> op, id |-> i, size |-> s,
                  ptr |-> first, keep |-> 0, failed |-> FALSE]
  BY DEF Request, Quiet
<1>2. Up
  BY <1>1 DEF Up
<1>3. PICK B \in SUBSET Nat : Good(mem, heap_listp, mem_brk, B)
  BY <1>2, Unpack
<1>4. first \in Nat
  BY <1>3, LinkFacts
<1> HIDE DEF first
<1>5. call' \in CallType /\ call'.pc = "find"
  BY <1>1, <1>4, ExplicitAssumption DEF CallType
<1>6. CallInv'
  BY <1>1, <1>2 DEF CallInv, IInv, Live, Up, Quiet
<1>7. ASSUME NEW D \in SUBSET Nat, Good(mem, heap_listp, mem_brk, D), SearchInv(D)
      PROVE  SearchInv(D)'
  <2>1. first \in Frees(mem, D) \cup {heap_listp} /\ PRED_P(mem, first) = heap_listp
    BY <1>7, LinkFacts DEF first
  <2>2. mem' = mem /\ heap_listp' = heap_listp /\ call'.ptr = first
    BY <1>1 DEF Quiet
  <2>3. Searched(D)'
    <3> DEFINE V == {}
    <3>1. /\ V \in SUBSET Frees(mem', D)
          /\ \A b \in V : Size(mem', b) < AdjustedSize(call'.size)
          /\ \A b \in V \cup {call'.ptr} : PRED_P(mem', b) \in V \cup {heap_listp'}
      BY <2>1, <2>2
    <3> HIDE DEF V
    <3> QED BY <3>1, <2>1, <2>2 DEF Searched
  <2> QED BY <2>3, <1>5 DEF SearchInv
<1> QED BY <1>1, <1>2, <1>5, <1>6, <1>7, QuietStep

(* find_fit passes a block that is too small. *)
LEMMA FindFitNextStep ==
  ASSUME IInv, FindFitNext
  PROVE  IInv'
<1> DEFINE p == call.ptr
           q == SUCC_P(mem, p)
<1>1. /\ call.pc = "find" /\ IsFree(mem, p) /\ Quiet
      /\ ~(AdjustedSize(call.size) <= Size(mem, p))
      /\ call' = [call EXCEPT !.ptr = q]
  BY DEF FindFitNext, Quiet, AtFreeBlock, Fits, IsFree, Size
<1>2. Up /\ call \in CallType
  BY <1>1, TypeFacts DEF Up
<1>3. PICK B \in SUBSET Nat : Good(mem, heap_listp, mem_brk, B) /\ SearchInv(B)
  BY <1>2, Unpack
<1>4. p \in Frees(mem, B) \cup {heap_listp}
  BY <1>1, <1>3 DEF SearchInv, Searched
<1>5. q \in Nat
  BY <1>3, <1>4, LinkFacts
<1>6. call' \in CallType /\ call'.pc = "find" /\ call'.ptr = q /\ call'.size = call.size
      /\ call'.id = call.id /\ call'.op = call.op
  <2> HIDE DEF q
  <2> QED BY <1>1, <1>2, <1>5 DEF CallType
<1>7. CallInv'
  BY <1>1, <1>2, <1>6 DEF CallInv, IInv, Live, Up, Quiet
<1>8. ASSUME NEW D \in SUBSET Nat, Good(mem, heap_listp, mem_brk, D), SearchInv(D)
      PROVE  SearchInv(D)'
  <2>1. Searched(D)
    BY <1>1, <1>8 DEF SearchInv
  <2>2. p \in Frees(mem, D)
    BY <2>1, <1>1, <1>8, LinkFacts DEF Searched
  <2>3. q \in Frees(mem, D) \cup {heap_listp} /\ PRED_P(mem, q) = p
    BY <2>2, <1>8, LinkFacts
  <2>4. Size(mem, p) < AdjustedSize(call.size)
    <3>1. Size(mem, p) \in Nat
      BY <2>2, <1>8, HeapFacts DEF Good, Frees
    <3>2. AdjustedSize(call.size) \in Nat
      BY <1>2, Adjusted DEF CallType
    <3> QED BY <3>1, <3>2, <1>1
  <2>5. PICK V \in SUBSET Frees(mem, D) :
          /\ \A b \in V : Size(mem, b) < AdjustedSize(call.size)
          /\ \A b \in V \cup {p} : PRED_P(mem, b) \in V \cup {heap_listp}
    BY <2>1 DEF Searched
  <2>6. mem' = mem /\ heap_listp' = heap_listp
    BY <1>1 DEF Quiet
  <2>7. Searched(D)'
    <3> DEFINE W == V \cup {p}
    <3> HIDE DEF p, q
    <3>1. /\ W \in SUBSET Frees(mem', D)
          /\ \A b \in W : Size(mem', b) < AdjustedSize(call'.size)
          /\ \A b \in W \cup {call'.ptr} : PRED_P(mem', b) \in W \cup {heap_listp'}
      BY <2>2, <2>3, <2>4, <2>5, <2>6, <1>6
    <3> HIDE DEF W
    <3> QED BY <3>1, <2>3, <2>6, <1>6 DEF Searched
  <2> QED BY <2>7, <1>6 DEF SearchInv
<1> QED BY <1>1, <1>2, <1>6, <1>7, <1>8, QuietStep

(* find_fit stops at a free block that is large enough. *)
LEMMA FindFitFoundStep ==
  ASSUME IInv, FindFitFound
  PROVE  IInv'
<1>1. /\ call.pc = "find" /\ IsFree(mem, call.ptr) /\ Quiet /\ Fits
      /\ call' = [call EXCEPT !.pc = "place"]
  BY DEF FindFitFound, Quiet, AtFreeBlock, IsFree
<1>2. Up /\ call \in CallType
  BY <1>1, TypeFacts DEF Up
<1>3. call' \in CallType /\ call'.pc = "place" /\ call'.ptr = call.ptr
      /\ call'.size = call.size /\ call'.id = call.id /\ call'.op = call.op
  BY <1>1, <1>2 DEF CallType
<1>4. CallInv'
  BY <1>1, <1>2, <1>3 DEF CallInv, IInv, Live, Up, Quiet
<1>5. ASSUME NEW D \in SUBSET Nat, Good(mem, heap_listp, mem_brk, D), SearchInv(D)
      PROVE  SearchInv(D)'
  <2>1. call.ptr \in Frees(mem, D)
    BY <1>1, <1>5, LinkFacts DEF SearchInv, Searched
  <2>2. mem' = mem
    BY <1>1 DEF Quiet
  <2>3. Fits'
    BY <2>2, <1>1, <1>3 DEF Fits
  <2> QED BY <2>1, <2>2, <2>3, <1>3 DEF SearchInv
<1> QED BY <1>1, <1>2, <1>3, <1>4, <1>5, QuietStep

(* find_fit has come back to the sentinel: the blocks it visited lead back *)
(* to the sentinel and are closed under PRED, so a block it missed would   *)
(* be on a ring of its own.                                                *)
LEMMA FindFitNoneStep ==
  ASSUME IInv, FindFitNone
  PROVE  IInv'
<1>1. /\ call.pc = "find" /\ ~IsFree(mem, call.ptr) /\ Quiet
      /\ call' = [call EXCEPT !.pc = "grow"]
  BY DEF FindFitNone, Quiet, AtFreeBlock, IsFree
<1>2. Up /\ call \in CallType
  BY <1>1, TypeFacts DEF Up
<1>3. call' \in CallType /\ call'.pc = "grow"
      /\ call'.size = call.size /\ call'.id = call.id /\ call'.op = call.op
  BY <1>1, <1>2 DEF CallType
<1>4. CallInv'
  BY <1>1, <1>2, <1>3 DEF CallInv, IInv, Live, Up, Quiet
<1>5. ASSUME NEW D \in SUBSET Nat, Good(mem, heap_listp, mem_brk, D), SearchInv(D)
      PROVE  SearchInv(D)'
  <2> DEFINE F == Frees(mem, D)
  <2>1. Searched(D)
    BY <1>1, <1>5 DEF SearchInv
  <2>2. call.ptr = heap_listp
    BY <2>1, <1>1 DEF Searched, Frees
  <2>3. PICK V \in SUBSET F :
          /\ \A b \in V : Size(mem, b) < AdjustedSize(call.size)
          /\ \A b \in V \cup {heap_listp} : PRED_P(mem, b) \in V \cup {heap_listp}
    BY <2>1, <2>2 DEF Searched
  <2>4. heap_listp \notin F /\ \A x \in F : SUCC_P(mem, x) \in F \cup {heap_listp}
                                          /\ PRED_P(mem, SUCC_P(mem, x)) = x
    BY <1>5, LinkFacts
  <2>5. F \subseteq V
    <3> SUFFICES ASSUME F \ V # {} PROVE FALSE
      OBVIOUS
    <3>1. OneRing(mem, F)
      BY <1>5 DEF Good, FreeList
    <3> HIDE DEF F
    <3>2. PICK x \in F \ V : SUCC_P(mem, x) \notin F \ V
      BY <3>1 DEF OneRing
    <3>3. SUCC_P(mem, x) \in V \cup {heap_listp}
      BY <3>2, <2>4
    <3>4. x \in V \cup {heap_listp}
      BY <3>2, <3>3, <2>3, <2>4
    <3> QED BY <3>2, <3>4, <2>4
  <2>6. NoneFits(D)'
    <3>1. mem' = mem
      BY <1>1 DEF Quiet
    <3> QED BY <3>1, <2>3, <2>5, <1>3 DEF NoneFits
  <2> QED BY <2>6, <1>3 DEF SearchInv
<1> QED BY <1>1, <1>2, <1>3, <1>4, <1>5, QuietStep

-----------------------------------------------------------------------------
(* Steps that write memory. *)

(* What IInv gives for the block of a live index. *)
LEMMA LiveBlock ==
  ASSUME IInv, Up, NEW B, Good(mem, heap_listp, mem_brk, B), Owned(B),
         NEW i \in Ids, blocks[i] # NULL
  PROVE  /\ blocks[i] \in Allocs(mem, B) \ {heap_listp} /\ blocks[i] \in B
         /\ blocks[i] \in Nat /\ Size(mem, blocks[i]) \in Nat
         /\ block_sizes[i] \in Nat /\ block_sizes[i] + 8 <= Size(mem, blocks[i])
<1>1. Owner(Allocs(mem, B), heap_listp, blocks)
  BY DEF Owned, Owner, Holds, Live
<1>2. blocks[i] \in Allocs(mem, B) \ {heap_listp}
  BY <1>1 DEF Owner, Holds
<1>3. blocks[i] \in B
  BY <1>2 DEF Allocs
<1>4. blocks[i] \in Nat /\ Size(mem, blocks[i]) \in Nat
  BY <1>3, HeapFacts DEF Good
<1>5. block_sizes[i] \in Nat
  BY TypeFacts
<1>6. block_sizes[i] + 8 <= Size(mem, blocks[i])
  BY Unpack DEF Roomy, Live, DSIZE
<1> QED BY <1>2, <1>3, <1>4, <1>5, <1>6

(* What the other indices hold: kept by a step that keeps their blocks.    *)
OthersKept(m2, i) ==
    \A j \in Ids \ {i} : blocks[j] # NULL =>
        /\ block_sizes[j] + 8 <= Size(m2, blocks[j])
        /\ \A a \in Words(blocks[j], block_sizes[j]) : m2[a] = Pattern(j)

(* Every live block other than i's is in K. *)
CoversOthers(K, i) == \A j \in Ids \ {i} : blocks[j] # NULL => blocks[j] \in K

(* The data of every other index is intact after a write that keeps its block. *)
LEMMA KeepOthers ==
  ASSUME IInv, Up, NEW B, Good(mem, heap_listp, mem_brk, B), Owned(B),
         NEW i, call.pc = "fill" => call.id = i,
         NEW m2, NEW K, KeepsBlocks(mem, m2, K), CoversOthers(K, i)
  PROVE  OthersKept(m2, i)
<1> SUFFICES ASSUME NEW j \in Ids \ {i}, blocks[j] # NULL
             PROVE  /\ block_sizes[j] + 8 <= Size(m2, blocks[j])
                    /\ \A a \in Words(blocks[j], block_sizes[j]) : m2[a] = Pattern(j)
  BY DEF OthersKept
<1>1. /\ blocks[j] \in Nat /\ Size(mem, blocks[j]) \in Nat
      /\ block_sizes[j] \in Nat /\ block_sizes[j] + 8 <= Size(mem, blocks[j])
  BY LiveBlock
<1>2. blocks[j] \in K
  BY DEF CoversOthers
<1>3. /\ Size(m2, blocks[j]) = Size(mem, blocks[j])
      /\ \A a \in Words(blocks[j], block_sizes[j]) : m2[a] = mem[a]
  BY <1>1, <1>2, KeptWords
<1>4. \A a \in Words(blocks[j], block_sizes[j]) : mem[a] = Pattern(j)
  BY DEF IInv, PayloadsIntact, Live, Kept
<1> QED BY <1>1, <1>3, <1>4

(* mm_free. *)
LEMMA FreeStep ==
  ASSUME IInv, NEW i \in Ids, Free(i)
  PROVE  IInv'
<1>1. /\ call.pc = "idle" /\ blocks[i] # NULL
      /\ mem' = mm_free(mem, heap_listp, blocks[i])
      /\ blocks' = [blocks EXCEPT ![i] = NULL]
      /\ block_sizes' = [block_sizes EXCEPT ![i] = 0]
      /\ call' = Idle(FALSE) /\ mem_brk' = mem_brk /\ heap_listp' = heap_listp
  BY DEF Free
<1>2. Up
  BY <1>1 DEF Up
<1>3. heap_listp = mem_start_brk + 8
  BY <1>2, Unpack
<1>4. PICK B \in SUBSET Nat : Good(mem, heap_listp, mem_brk, B) /\ Owned(B)
  BY <1>2, Unpack
<1>5. /\ blocks \in [Ids -> Nat] /\ block_sizes \in [Ids -> Nat] /\ mem_brk \in Nat
      /\ mem_brk <= mem_max_addr /\ mem_start_brk <= mem_brk
  BY TypeFacts
<1>6. blocks[i] \in Allocs(mem, B) \ {heap_listp}
  BY <1>1, <1>2, <1>4, LiveBlock
<1> DEFINE A == Allocs(mem, B) \ {blocks[i]}
           K == A \ {heap_listp}
<1>7. Leaves(mem, mem', heap_listp, mem_brk, A, K)
  <2> HIDE DEF A
  <2>1. A = Allocs(mem, B) \ {blocks[i]}
    BY DEF A
  <2> QED BY <2>1, <1>1, <1>4, <1>6, FreeBlock
<1>8. PICK C \in SUBSET Nat : /\ Good(mem', heap_listp, mem_brk, C)
                             /\ Allocs(mem', C) = A /\ KeepsBlocks(mem, mem', K)
  BY <1>7 DEF Leaves
<1>9. Owner(Allocs(mem, B), heap_listp, blocks)
  BY <1>4 DEF Owned, Owner, Holds, Live
<1>10. Owner(A, heap_listp, blocks')
  <2>1. Minus(A, Allocs(mem, B), blocks[i])
    BY DEF Minus
  <2> HIDE DEF A
  <2> QED BY <2>1, <1>1, <1>5, <1>9, OwnerTake
<1>11. Owned(C)'
  BY <1>1, <1>8, <1>10 DEF Owned, Owner, Holds, Live
<1>12. OthersKept(mem', i)
  <2>1. CoversOthers(K, i)
    BY <1>1, <1>9 DEF CoversOthers, Owner, Holds
  <2> HIDE DEF K
  <2> QED BY <2>1, <1>1, <1>2, <1>4, <1>8, KeepOthers
<1>13. \A j \in Ids : blocks'[j] # NULL =>
          /\ j \in Ids \ {i} /\ blocks'[j] = blocks[j] /\ block_sizes'[j] = block_sizes[j]
          /\ blocks[j] # NULL
  BY <1>1, <1>5
<1>14. Roomy'
  BY <1>12, <1>13 DEF Roomy, Live, OthersKept, DSIZE
<1>15. call'.pc = "idle" /\ call' \in CallType
  BY <1>1 DEF Idle, CallType, NULL
<1>16. PayloadsIntact'
  BY <1>12, <1>13, <1>15 DEF PayloadsIntact, Live, Kept, OthersKept
<1>17. TypeOK'
  <2>1. mem' \in [Addr -> Nat]
    BY <1>8 DEF Good, Heap, Mem
  <2> QED BY <2>1, <1>1, <1>5, <1>15, TypeFacts DEF TypeOK, CallType, NULL, IInv
<1>18. CallInv'
  <2>1. \A j \in Ids : blocks'[j] = NULL => block_sizes'[j] = 0
    BY <1>1, <1>5 DEF IInv, CallInv, Live
  <2> QED BY <2>1, <1>15 DEF CallInv, Live, Up
<1>19. SearchInv(C)'
  BY <1>15 DEF SearchInv
<1>20. Good(mem', heap_listp', mem_brk', C) /\ heap_listp' = mem_start_brk + 8
  BY <1>1, <1>3, <1>8
<1> QED BY <1>11, <1>14, <1>16, <1>17, <1>18, <1>19, <1>20, Repack

(* The client fills the block it was given. *)
LEMMA FillStep ==
  ASSUME IInv, Fill
  PROVE  IInv'
<1> DEFINE i == call.id
           p == call.ptr
<1>1. /\ call.pc = "fill"
      /\ mem' = [a \in Addr |-> IF a \in Words(p, call.size) THEN Pattern(i) ELSE mem[a]]
      /\ call' = Idle(FALSE) /\ mem_brk' = mem_brk /\ heap_listp' = heap_listp
      /\ blocks' = blocks /\ block_sizes' = block_sizes
  BY DEF Fill
<1>2. Up
  BY <1>1 DEF Up
<1>3. heap_listp = mem_start_brk + 8
  BY <1>2, Unpack
<1>4. PICK B \in SUBSET Nat : Good(mem, heap_listp, mem_brk, B) /\ Owned(B)
  BY <1>2, Unpack
<1>5. /\ blocks \in [Ids -> Nat] /\ block_sizes \in [Ids -> Nat] /\ Mem(mem)
  BY TypeFacts
<1>6. i \in Ids /\ blocks[i] # NULL /\ p = blocks[i] /\ call.size = block_sizes[i]
  BY <1>1 DEF IInv, CallInv, Live
<1>7. /\ p \in Allocs(mem, B) \ {heap_listp} /\ p \in B
      /\ p \in Nat /\ Size(mem, p) \in Nat
      /\ block_sizes[i] \in Nat /\ block_sizes[i] + 8 <= Size(mem, p)
  <2> HIDE DEF i, p
  <2> QED BY <1>2, <1>4, <1>6, LiveBlock
<1> HIDE DEF i, p
<1>8. /\ Mem(mem')
      /\ \A a \in Words(p, block_sizes[i]) : mem'[a] = Pattern(i)
      /\ \A a \in Addr : a \notin Words(p, block_sizes[i]) => mem'[a] = mem[a]
  <2>1. Pattern(i) \in Nat
    BY <1>6, ExplicitAssumption DEF Pattern
  <2>2. Words(p, block_sizes[i]) \subseteq Addr
    BY DEF Words
  <2> QED BY <2>1, <2>2, <1>1, <1>5, <1>6 DEF Mem
<1>9. PayloadOnly(mem, mem', p)
  <2>1. ASSUME NEW a \in Addr, a < p \/ a >= p + Size(mem, p) - 8 PROVE mem'[a] = mem[a]
    <3>1. a \in Nat
      BY MemAssumption DEF Addr, mem_max_addr
    <3>2. a \notin Words(p, block_sizes[i])
      BY <3>1, <2>1, <1>7 DEF Words
    <3> QED BY <3>2, <1>8
  <2> QED BY <2>1, <1>8 DEF PayloadOnly
<1>10. Overwritten(mem, mem', heap_listp, mem_brk, B, p)
  BY <1>4, <1>7, <1>9, Overwrite
<1>11. /\ Good(mem', heap_listp', mem_brk', B) /\ Allocs(mem', B) = Allocs(mem, B)
       /\ KeepsBlocks(mem, mem', B \ {p}) /\ Size(mem', p) = Size(mem, p)
  BY <1>1, <1>7, <1>10 DEF Overwritten, SameBlocks
<1>12. Owner(Allocs(mem, B), heap_listp, blocks)
  BY <1>4 DEF Owned, Owner, Holds, Live
<1>13. Owned(B)'
  BY <1>1, <1>4, <1>11 DEF Owned, Live
<1>14. OthersKept(mem', i)
  <2>1. CoversOthers(B \ {p}, i)
    BY <1>6, <1>12 DEF CoversOthers, Owner, Holds, Allocs
  <2> QED BY <2>1, <1>1, <1>2, <1>4, <1>11, KeepOthers DEF i
<1>15. Roomy'
  BY <1>1, <1>6, <1>7, <1>11, <1>14 DEF Roomy, Live, OthersKept, DSIZE
<1>16. call'.pc = "idle" /\ call' \in CallType
  BY <1>1 DEF Idle, CallType, NULL
<1>17. PayloadsIntact'
  BY <1>1, <1>6, <1>8, <1>14, <1>16 DEF PayloadsIntact, Live, Kept, OthersKept
<1>18. TypeOK'
  BY <1>1, <1>8, <1>16 DEF TypeOK, CallType, IInv, Mem
<1>19. CallInv'
  BY <1>1, <1>16 DEF CallInv, Live, Up, IInv
<1>20. SearchInv(B)'
  BY <1>16 DEF SearchInv
<1>21. heap_listp' = mem_start_brk + 8
  BY <1>1, <1>3
<1> QED BY <1>11, <1>13, <1>15, <1>17, <1>18, <1>19, <1>20, <1>21, Repack

(* mem_reset_brk and mm_init over whatever the region held. *)
LEMMA StartPassStep ==
  ASSUME IInv, StartPass
  PROVE  IInv'
<1> DEFINE r == mm_init(mem, mem_start_brk)
<1>1. /\ mem' = r.m /\ mem_brk' = r.brk /\ heap_listp' = r.listp
      /\ call' = IF r.ok THEN Idle(FALSE) ELSE Down
      /\ blocks' = [i \in Ids |-> NULL] /\ block_sizes' = [i \in Ids |-> 0]
  BY DEF StartPass
<1>2. Mem(mem)
  BY TypeFacts
<1>3. \/ /\ r.ok = TRUE /\ r.listp = mem_start_brk + 8
         /\ r.brk \in Nat /\ mem_start_brk <= r.brk /\ r.brk <= mem_max_addr
         /\ \E C \in SUBSET Nat : Good(r.m, r.listp, r.brk, C) /\ Allocs(r.m, C) = {r.listp}
      \/ /\ r.ok = FALSE /\ Mem(r.m) /\ r.listp \in Nat
         /\ r.brk \in Nat /\ mem_start_brk <= r.brk /\ r.brk <= mem_max_addr
  BY <1>2, MmInit
<1> HIDE DEF r
<1>4. call' \in CallType /\ call'.pc \in {"idle", "down"}
  BY <1>1 DEF Idle, Down, CallType, NULL
<1>5. Live' = {} /\ blocks' \in [Ids -> Nat] /\ block_sizes' \in [Ids -> Nat]
  BY <1>1 DEF Live, NULL
<1>6. Mem(mem')
  BY <1>1, <1>3 DEF Good, Heap
<1>7. heap_listp' \in Nat
  BY <1>1, <1>3, MemAssumption
<1>8. mem_brk' \in mem_start_brk .. mem_max_addr
  BY <1>1, <1>3, MemAssumption DEF mem_max_addr
<1>9. TypeOK'
  BY <1>4, <1>5, <1>6, <1>7, <1>8 DEF TypeOK, CallType, Mem
<1>10. PayloadsIntact' /\ Roomy'
  BY <1>5 DEF PayloadsIntact, Roomy
<1>11. CallInv'
  BY <1>1, <1>4, <1>5 DEF CallInv
<1>12. CASE r.ok = FALSE
  <2>1. ~Up'
    <3>1. call' = Down
      BY <1>12, <1>1
    <3>2. Down.pc = "down"
      BY DEF Down, Idle
    <3> QED BY <3>1, <3>2 DEF Up
  <2> QED BY <2>1, <1>9, <1>10, <1>11 DEF IInv
<1>13. CASE r.ok = TRUE
  <2>1. PICK C \in SUBSET Nat : Good(r.m, r.listp, r.brk, C) /\ Allocs(r.m, C) = {r.listp}
    BY <1>13, <1>3
  <2>2. Owner({r.listp}, r.listp, blocks')
    BY <1>1, OwnerNone
  <2>3. Owned(C)'
    BY <2>1, <2>2, <1>1 DEF Owned, Owner, Holds, Live
  <2>4. SearchInv(C)'
    BY <1>4 DEF SearchInv
  <2>5. Good(mem', heap_listp', mem_brk', C) /\ heap_listp' = mem_start_brk + 8
    BY <2>1, <1>1, <1>3, <1>13
  <2> QED BY <2>3, <2>4, <2>5, <1>9, <1>10, <1>11, Repack
<1> QED BY <1>3, <1>12, <1>13

-----------------------------------------------------------------------------
(* mm_malloc and mm_realloc return a block. *)

(* m2 is a good heap in which bp is a new block, large enough for the      *)
(* call, next to those of B.                                               *)
Handed(B, m2, k2, bp) ==
    /\ bp \in Nat /\ bp # NULL /\ bp \notin Allocs(mem, B)
    /\ Size(m2, bp) \in Nat /\ call.size + 8 <= Size(m2, bp)
    /\ KeepsBlocks(mem, m2, Allocs(mem, B) \ {heap_listp})
    /\ \E C \in SUBSET Nat : /\ Good(m2, heap_listp, k2, C)
                            /\ Plus(Allocs(m2, C), Allocs(mem, B), bp)

KeptBytes == IF call.size < block_sizes[call.id] THEN call.size ELSE block_sizes[call.id]

(* m3 is a good heap whose owners are bl; bp is the block of the call and  *)
(* has its data.                                                           *)
Delivered(m3, k2, bp, bl) ==
    /\ \E C \in SUBSET Nat : /\ Good(m3, heap_listp, k2, C)
                            /\ Owner(Allocs(m3, C), heap_listp, bl)
    /\ OthersKept(m3, call.id) /\ call.size + 8 <= Size(m3, bp)
    /\ \A a \in Words(bp, KeptBytes) : m3[a] = Pattern(call.id)

(* A call that is about to return. *)
Returning(B) ==
    /\ IInv /\ call.pc \in {"place", "grow"}
    /\ Good(mem, heap_listp, mem_brk, B) /\ Owned(B)

(* The types of a call that is about to return a block. *)
LEMMA CallFacts ==
  ASSUME NEW B, Returning(B)
  PROVE  /\ Up /\ call.id \in Ids /\ call.size \in Nat /\ call.size \in Sizes
         /\ block_sizes[call.id] \in Nat /\ KeptBytes \in Nat
         /\ KeptBytes <= call.size /\ KeptBytes <= block_sizes[call.id]
         /\ blocks \in [Ids -> Nat] /\ block_sizes \in [Ids -> Nat]
         /\ call \in CallType
         /\ call.op = "malloc" <=> blocks[call.id] = NULL
         /\ blocks[call.id] = NULL => block_sizes[call.id] = 0
         /\ Owner(Allocs(mem, B), heap_listp, blocks)
<1>1. Up
  BY DEF Returning, Up
<1>2. /\ call.id \in Ids /\ call.size \in Sizes
      /\ call.op = "malloc" <=> blocks[call.id] = NULL
      /\ blocks[call.id] = NULL => block_sizes[call.id] = 0
  BY DEF Returning, IInv, CallInv, Live
<1>3. /\ blocks \in [Ids -> Nat] /\ block_sizes \in [Ids -> Nat] /\ call \in CallType
  BY TypeFacts DEF Returning
<1>4. call.size \in Nat /\ block_sizes[call.id] \in Nat
  BY <1>2, <1>3, ExplicitAssumption
<1>5. Owner(Allocs(mem, B), heap_listp, blocks)
  BY DEF Returning, Owned, Owner, Holds, Live
<1> QED BY <1>1, <1>2, <1>3, <1>4, <1>5 DEF KeptBytes

(* A new block for an index that had none. *)
LEMMA DeliverMalloc ==
  ASSUME NEW B, Returning(B), NEW m2, NEW k2, NEW bp, Handed(B, m2, k2, bp),
         call.op = "malloc", NEW bl, bl = [blocks EXCEPT ![call.id] = bp]
  PROVE  Delivered(m2, k2, bp, bl)
<1> DEFINE i == call.id
           A == Allocs(mem, B)
<1>1. /\ Up /\ i \in Ids /\ blocks \in [Ids -> Nat] /\ blocks[i] = NULL
      /\ KeptBytes = 0 /\ Owner(A, heap_listp, blocks) /\ call.pc # "fill"
  BY CallFacts DEF Returning
<1>2. /\ bp \in Nat /\ bp # NULL /\ bp \notin A /\ call.size + 8 <= Size(m2, bp)
      /\ KeepsBlocks(mem, m2, A \ {heap_listp})
  BY DEF Handed
<1>3. PICK C \in SUBSET Nat : Good(m2, heap_listp, k2, C) /\ Plus(Allocs(m2, C), A, bp)
  BY DEF Handed
<1>4. Owner(Allocs(m2, C), heap_listp, bl)
  <2> DEFINE A2 == Allocs(m2, C)
  <2>1. Plus(A2, A, bp)
    BY <1>3
  <2>2. Now(bl, blocks, i, bp)
    BY DEF Now
  <2> HIDE DEF i, A, A2
  <2>3. Owner(A2, heap_listp, bl)
    BY <2>1, <2>2, <1>1, <1>2, OwnerGive
  <2> QED BY <2>3 DEF A2
<1>5. OthersKept(m2, i)
  <2>1. CoversOthers(A \ {heap_listp}, i)
    BY <1>1 DEF CoversOthers, Owner, Holds
  <2>2. Good(mem, heap_listp, mem_brk, B) /\ Owned(B) /\ IInv
    BY DEF Returning
  <2> HIDE DEF i, A
  <2> QED BY <2>1, <2>2, <1>1, <1>2, KeepOthers
<1>6. Words(bp, KeptBytes) = {}
  <2>1. \A a \in Addr : a \in Nat
    BY MemAssumption DEF Addr, mem_max_addr
  <2> QED BY <2>1, <1>1, <1>2 DEF Words
<1> QED BY <1>2, <1>3, <1>4, <1>5, <1>6 DEF Delivered

(* mm_realloc moves the data and frees the old block. *)
LEMMA DeliverRealloc ==
  ASSUME NEW B, Returning(B), NEW m2, NEW k2, NEW bp, Handed(B, m2, k2, bp),
         call.op # "malloc", NEW bl, bl = [blocks EXCEPT ![call.id] = bp],
         NEW m3, m3 = MoveBlock(m2, heap_listp, blocks[call.id], bp, call.size)
  PROVE  Delivered(m3, k2, bp, bl)
<1> DEFINE i   == call.id
           A   == Allocs(mem, B)
           old == blocks[call.id]
           n   == IF call.size < Size(m2, old) THEN call.size ELSE Size(m2, old)
           h   == heap_listp
<1>1. /\ Up /\ i \in Ids /\ blocks \in [Ids -> Nat] /\ old # NULL /\ call.size \in Nat
      /\ Owner(A, h, blocks) /\ call.pc # "fill"
      /\ KeptBytes \in Nat /\ KeptBytes <= call.size /\ KeptBytes <= block_sizes[i]
  BY CallFacts DEF Returning
<1>2. Good(mem, h, mem_brk, B) /\ Owned(B) /\ IInv
  BY DEF Returning
<1>3. /\ old \in A \ {h} /\ old \in Nat /\ Size(mem, old) \in Nat
      /\ block_sizes[i] \in Nat /\ block_sizes[i] + 8 <= Size(mem, old)
  BY <1>1, <1>2, LiveBlock
<1>4. /\ bp \in Nat /\ bp # NULL /\ bp \notin A /\ call.size + 8 <= Size(m2, bp)
      /\ KeepsBlocks(mem, m2, A \ {h})
  BY DEF Handed
<1>5. PICK C \in SUBSET Nat : Good(m2, h, k2, C) /\ Plus(Allocs(m2, C), A, bp)
  BY DEF Handed
<1>6. /\ Size(m2, old) = Size(mem, old)
      /\ \A a \in Words(old, block_sizes[i]) : m2[a] = mem[a]
  <2> HIDE DEF A, i, old
  <2> QED BY <1>3, <1>4, KeptWords
<1>7. CanMove(m2, h, k2, C, old, bp, call.size)
  <2>1. h \in A
    BY <1>1 DEF Owner
  <2>2. old \in Allocs(m2, C) /\ bp \in Allocs(m2, C) /\ bp # h /\ old # h /\ old # bp
    BY <2>1, <1>3, <1>4, <1>5 DEF Plus
  <2> QED BY <2>2, <1>1, <1>4, <1>5 DEF CanMove
<1>8. Moved(m2, m3, h, k2, C, old, bp, n)
  <2>1. m3 = MoveBlock(m2, h, old, bp, call.size)
    OBVIOUS
  <2> HIDE DEF old, i, A
  <2> QED BY <2>1, <1>7, Move
<1>9. PICK D \in SUBSET Nat :
        /\ Good(m3, h, k2, D) /\ Allocs(m3, D) = Allocs(m2, C) \ {old}
        /\ KeepsBlocks(m2, m3, Allocs(m2, C) \ {h, old, bp})
        /\ Size(m3, bp) = Size(m2, bp) /\ Copied(m2, m3, old, bp, n)
  BY <1>8 DEF Moved
<1>10. Owner(Allocs(m3, D), h, bl)
  <2> DEFINE A1 == Allocs(m2, C)
             A2 == Allocs(m3, D)
  <2>1. Plus(A1, A, bp) /\ Minus(A2, A1, blocks[i])
    BY <1>5, <1>9 DEF Minus
  <2>2. Now(bl, blocks, i, bp) /\ blocks[i] # NULL
    BY <1>1 DEF Now
  <2> HIDE DEF i, A, A1, A2, h, old
  <2>3. Owner(A2, h, bl)
    BY <2>1, <2>2, <1>1, <1>4, OwnerMove
  <2> QED BY <2>3 DEF A2
<1>11. OthersKept(m3, i)
  <2> DEFINE K == A \ {h, old}
  <2>1. CoversOthers(K, i)
    BY <1>1 DEF CoversOthers, Owner, Holds
  <2>2. K \subseteq A \ {h} /\ K \subseteq Allocs(m2, C) \ {h, old, bp}
    BY <1>4, <1>5 DEF Plus
  <2> HIDE DEF i, A, K, h, old
  <2>3. KeepsBlocks(mem, m2, K) /\ KeepsBlocks(m2, m3, K)
    BY <2>2, <1>4, <1>9, KeepsFewer
  <2>4. KeepsBlocks(mem, m3, K)
    BY <2>3, KeepsTrans
  <2> QED BY <2>1, <2>4, <1>1, <1>2, KeepOthers DEF h
<1>12. ASSUME NEW a \in Words(bp, KeptBytes) PROVE m3[a] = Pattern(i)
  <2> DEFINE b == old + (a - bp)
  <2>1. a \in Addr /\ a \in Nat /\ a % 4 = 0 /\ bp <= a /\ a < bp + KeptBytes
    BY MemAssumption DEF Words, Addr, mem_max_addr, WSIZE
  <2>2. n \in Nat /\ KeptBytes <= n
    BY <1>1, <1>3, <1>6
  <2>3. a \in Words(bp, n)
    BY <2>1, <2>2, <1>1, <1>4 DEF Words
  <2>4. m3[a] = m2[b]
    BY <2>3, <1>9 DEF Copied
  <2>5. b \in Words(old, block_sizes[i])
    <3>1. old \in B /\ bp \in C
      BY <1>3, <1>7 DEF Allocs, CanMove
    <3>2. old % 8 = 0 /\ old + Size(mem, old) <= mem_brk /\ heap_listp <= old
      BY <3>1, <1>2, HeapFacts DEF Good
    <3>3. bp % 8 = 0
      BY <3>1, <1>5, HeapFacts DEF Good
    <3>4. mem_brk \in Nat /\ mem_brk <= mem_max_addr /\ heap_listp = mem_start_brk + 8
      BY <1>2 DEF Good, Heap
    <3>5. b \in Nat /\ b % 4 = 0 /\ old <= b /\ b < old + block_sizes[i]
      BY <2>1, <3>2, <3>3, <1>1, <1>3, <1>4
    <3>6. mem_start_brk <= b /\ b < mem_max_addr
      BY <3>2, <3>4, <3>5, <1>3, MemAssumption DEF mem_max_addr
    <3> HIDE DEF b
    <3> QED BY <3>5, <3>6, MemAssumption DEF Words, Addr, WSIZE, mem_max_addr
  <2>6. mem[b] = Pattern(i)
    BY <2>5, <1>1, <1>2 DEF IInv, PayloadsIntact, Live, Kept
  <2> QED BY <2>4, <2>5, <2>6, <1>6
<1> QED BY <1>4, <1>9, <1>10, <1>11, <1>12 DEF Delivered

(* mm_malloc and mm_realloc return the block place or extend_heap made. *)
LEMMA ReturnStep ==
  ASSUME NEW B, Returning(B), NEW m2, NEW k2, NEW bp, Handed(B, m2, k2, bp),
         Return(m2, bp), mem_brk' = k2
  PROVE  IInv'
<1> DEFINE i == call.id
<1>1. /\ mem' = IF call.op = "malloc" THEN m2
                ELSE MoveBlock(m2, heap_listp, blocks[i], bp, call.size)
      /\ blocks' = [blocks EXCEPT ![i] = bp]
      /\ block_sizes' = [block_sizes EXCEPT ![i] = call.size]
      /\ call' = [call EXCEPT !.pc = "fill", !.ptr = bp, !.keep = KeptBytes]
      /\ heap_listp' = heap_listp
  BY DEF Return, KeptBytes
<1>2. /\ Up /\ i \in Ids /\ blocks \in [Ids -> Nat] /\ block_sizes \in [Ids -> Nat]
      /\ call \in CallType /\ call.size \in Nat /\ call.size \in Sizes
      /\ KeptBytes \in Nat /\ KeptBytes <= call.size
  BY CallFacts
<1>3. bp \in Nat /\ bp # NULL
  BY DEF Handed
<1>4. Delivered(mem', k2, bp, blocks')
  <2>1. CASE call.op = "malloc"
    <3>1. mem' = m2
      BY <2>1, <1>1
    <3> QED BY <3>1, <2>1, <1>1, DeliverMalloc
  <2>2. CASE call.op # "malloc"
    <3>1. mem' = MoveBlock(m2, heap_listp, blocks[i], bp, call.size)
      BY <2>2, <1>1
    <3> QED BY <3>1, <2>2, <1>1, DeliverRealloc
  <2> QED BY <2>1, <2>2
<1>5. PICK C \in SUBSET Nat : /\ Good(mem', heap_listp, k2, C)
                             /\ Owner(Allocs(mem', C), heap_listp, blocks')
  BY <1>4 DEF Delivered
<1>6. /\ OthersKept(mem', i) /\ call.size + 8 <= Size(mem', bp)
      /\ \A a \in Words(bp, KeptBytes) : mem'[a] = Pattern(i)
  BY <1>4 DEF Delivered
<1>7. /\ call' \in CallType /\ call'.pc = "fill" /\ call'.ptr = bp /\ call'.id = i
      /\ call'.size = call.size /\ call'.keep = KeptBytes
  <2> HIDE DEF KeptBytes
  <2> QED BY <1>1, <1>2, <1>3 DEF CallType
<1> HIDE DEF i
<1>8. /\ blocks'[i] = bp /\ block_sizes'[i] = call.size
      /\ \A j \in Ids \ {i} : blocks'[j] = blocks[j] /\ block_sizes'[j] = block_sizes[j]
      /\ blocks' \in [Ids -> Nat] /\ block_sizes' \in [Ids -> Nat]
  BY <1>1, <1>2, <1>3
<1>9. Owned(C)'
  BY <1>1, <1>5 DEF Owned, Owner, Holds, Live
<1>10. Roomy'
  BY <1>6, <1>8 DEF Roomy, Live, OthersKept, DSIZE
<1>11. PayloadsIntact'
  <2> SUFFICES ASSUME NEW j \in Ids, blocks'[j] # NULL
               PROVE  \A a \in Words(blocks'[j], Kept(j)') : mem'[a] = Pattern(j)
    BY DEF PayloadsIntact, Live
  <2>1. CASE j = i
    <3>1. Kept(j)' = KeptBytes
      BY <2>1, <1>7 DEF Kept
    <3> QED BY <3>1, <2>1, <1>6, <1>8
  <2>2. CASE j # i
    <3>1. Kept(j)' = block_sizes[j] /\ blocks'[j] = blocks[j]
      BY <2>2, <1>7, <1>8 DEF Kept
    <3> QED BY <3>1, <2>2, <1>6 DEF OthersKept
  <2> QED BY <2>1, <2>2
<1>12. TypeOK'
  <2>1. Heap(mem', heap_listp, k2, C)
    BY <1>5 DEF Good
  <2>2. Mem(mem') /\ k2 <= mem_max_addr /\ k2 \in Nat /\ heap_listp = mem_start_brk + 8
    BY <2>1 DEF Heap
  <2>3. heap_listp + 16 <= k2 /\ heap_listp \in Nat
    BY <2>1, HeapFacts
  <2>4. mem_brk' \in mem_start_brk .. mem_max_addr
    BY <2>2, <2>3, MemAssumption DEF mem_max_addr
  <2> QED BY <2>2, <2>3, <2>4, <1>1, <1>7, <1>8 DEF TypeOK, CallType, Mem
<1>13. CallInv'
  <2>1. \A j \in Ids : blocks'[j] = NULL => block_sizes'[j] = 0
    <3>1. \A j \in Ids : blocks[j] = NULL => block_sizes[j] = 0
      BY DEF Returning, IInv, CallInv, Live
    <3> QED BY <3>1, <1>3, <1>8
  <2> QED BY <2>1, <1>2, <1>3, <1>7, <1>8 DEF CallInv, Live, Up
<1>14. SearchInv(C)'
  BY <1>7 DEF SearchInv
<1>15. Good(mem', heap_listp', mem_brk', C) /\ heap_listp' = mem_start_brk + 8
  BY <1>1, <1>5 DEF Good, Heap
<1> QED BY <1>9, <1>10, <1>11, <1>12, <1>13, <1>14, <1>15, Repack

(* The block find_fit found. *)
LEMMA PlaceFitStep ==
  ASSUME IInv, PlaceFit
  PROVE  IInv'
<1> DEFINE p  == call.ptr
           s  == AdjustedSize(call.size)
           h  == heap_listp
           m2 == place(mem, heap_listp, call.ptr, AdjustedSize(call.size))
<1>1. call.pc = "place" /\ Return(m2, p) /\ mem_brk' = mem_brk
  BY DEF PlaceFit
<1>2. Up
  BY <1>1 DEF Up
<1>3. PICK B \in SUBSET Nat : Good(mem, h, mem_brk, B) /\ Owned(B) /\ SearchInv(B)
  BY <1>2, Unpack
<1>4. Returning(B)
  BY <1>1, <1>3 DEF Returning
<1>5. p \in Frees(mem, B) /\ s <= Size(mem, p)
  BY <1>1, <1>3 DEF SearchInv, Fits, Size
<1>6. call.size \in Nat
  BY <1>4, CallFacts
<1>7. s \in Nat /\ s % 8 = 0 /\ s >= 16 /\ s >= call.size + 8
  BY <1>6, Adjusted
<1>8. p \in Nat /\ p # NULL /\ p \notin Allocs(mem, B) /\ p \in B
  <2>1. p \in B /\ p \notin Allocs(mem, B)
    BY <1>5 DEF Frees, Allocs
  <2>2. p \in Nat /\ h <= p /\ h \in Nat
    BY <2>1, <1>3, HeapFacts DEF Good
  <2>3. h = mem_start_brk + 8
    BY <1>2, Unpack
  <2> QED BY <2>1, <2>2, <2>3, MemAssumption DEF NULL
<1> DEFINE A == Allocs(mem, B) \cup {p}
<1>9. Plus(A, Allocs(mem, B), p)
  BY DEF Plus
<1> HIDE DEF p, s, A
<1>10. CanPlace(mem, h, mem_brk, B, p, s)
  BY <1>3, <1>5, <1>7 DEF CanPlace
<1>11. Leaves(mem, m2, h, mem_brk, A, Allocs(mem, B) \ {h}) /\ Size(m2, p) >= s
  <2>1. m2 = place(mem, h, p, s)
    BY DEF p, s
  <2> HIDE DEF m2
  <2> QED BY <2>1, <1>9, <1>10, Place
<1> HIDE DEF m2
<1>12. PICK C \in SUBSET Nat : /\ Good(m2, h, mem_brk, C) /\ Allocs(m2, C) = A
                              /\ KeepsBlocks(mem, m2, Allocs(mem, B) \ {h})
  BY <1>11 DEF Leaves
<1>13. Size(m2, p) \in Nat
  <2>1. p \in C
    BY <1>12 DEF Allocs, A
  <2> QED BY <2>1, <1>12, HeapFacts DEF Good
<1>14. Handed(B, m2, mem_brk, p)
  BY <1>6, <1>7, <1>8, <1>9, <1>11, <1>12, <1>13 DEF Handed
<1> QED BY <1>1, <1>4, <1>14, ReturnStep

(* The block extend_heap made. *)
LEMMA GrowAndPlaceStep ==
  ASSUME IInv, GrowAndPlace
  PROVE  IInv'
<1> DEFINE x  == Extended
           s  == AdjustedSize(call.size)
           n  == MAX(s, CHUNKSIZE)
           h  == heap_listp
           m2 == place(Extended.m, heap_listp, Extended.bp, AdjustedSize(call.size))
<1>1. call.pc = "grow" /\ x.ok /\ Return(m2, x.bp) /\ mem_brk' = x.brk
  BY DEF GrowAndPlace
<1>2. Up
  BY <1>1 DEF Up
<1>3. PICK B \in SUBSET Nat : Good(mem, h, mem_brk, B) /\ Owned(B)
  BY <1>2, Unpack
<1>4. Returning(B)
  BY <1>1, <1>3 DEF Returning
<1>5. call.size \in Nat /\ call.size \in Sizes
  BY <1>4, CallFacts
<1>6. s \in Nat /\ s % 8 = 0 /\ s >= 16 /\ s >= call.size + 8 /\ s <= call.size + 16
  BY <1>5, Adjusted
<1>7. Growth(n) /\ n >= s /\ n \in Nat
  <2>1. /\ CHUNKSIZE \in Nat /\ CHUNKSIZE >= 16 /\ CHUNKSIZE % 8 = 0
        /\ mem_max_addr + CHUNKSIZE < WORD /\ mem_max_addr + call.size + 16 < WORD
        /\ mem_max_addr \in Nat /\ WORD \in Nat
    BY <1>5, MemAssumption, ExplicitAssumption DEF mem_max_addr
  <2> HIDE DEF s
  <2> QED BY <2>1, <1>5, <1>6 DEF MAX, Growth
<1>8. PreGood(mem, h, mem_brk, B)
  BY <1>3 DEF Good, FreeList, PreGood, PreLinks
<1>9. Extends(mem, h, mem_brk, n, x)
  BY DEF Extends, Extended
<1> HIDE DEF x, n, s
<1>10. GrownOrNot(mem, h, mem_brk, B, n, x)
  BY <1>7, <1>8, <1>9, ExtendHeap
<1>11. x.brk = mem_brk + n /\ Grown(mem, x.m, h, mem_brk, B, n, x.bp)
  BY <1>1, <1>10 DEF GrownOrNot
<1> DEFINE k2 == x.brk
           p  == x.bp
           m1 == x.m
<1>12. PICK C \in SUBSET Nat :
          /\ Good(m1, h, k2, C) /\ p \in Frees(m1, C) /\ Size(m1, p) >= n
          /\ Allocs(m1, C) = Allocs(mem, B)
          /\ KeepsBlocks(mem, m1, Allocs(mem, B) \ {h})
  BY <1>11 DEF Grown
<1> HIDE DEF k2, p, m1
<1>13. p \in Nat /\ p # NULL /\ p \notin Allocs(mem, B) /\ Size(m1, p) \in Nat
  <2>1. p \in C /\ p \notin Allocs(mem, B)
    BY <1>12 DEF Frees, Allocs
  <2>2. p \in Nat /\ h <= p /\ h \in Nat /\ Size(m1, p) \in Nat
    BY <2>1, <1>12, HeapFacts DEF Good
  <2>3. h = mem_start_brk + 8
    BY <1>2, Unpack
  <2> QED BY <2>1, <2>2, <2>3, MemAssumption DEF NULL
<1> DEFINE A == Allocs(mem, B) \cup {p}
<1>14. Plus(A, Allocs(mem, B), p) /\ Plus(A, Allocs(m1, C), p)
  BY <1>12 DEF Plus
<1>15. CanPlace(m1, h, k2, C, p, s)
  <2>1. s <= Size(m1, p)
    BY <1>6, <1>7, <1>12, <1>13
  <2> QED BY <2>1, <1>6, <1>12 DEF CanPlace
<1> HIDE DEF A
<1>16. Leaves(m1, m2, h, k2, A, Allocs(m1, C) \ {h}) /\ Size(m2, p) >= s
  <2>1. m2 = place(m1, h, p, s)
    BY DEF p, s, m1, x
  <2> HIDE DEF m2
  <2> QED BY <2>1, <1>14, <1>15, Place
<1> HIDE DEF m2
<1>17. PICK D \in SUBSET Nat : /\ Good(m2, h, k2, D) /\ Allocs(m2, D) = A
                              /\ KeepsBlocks(m1, m2, Allocs(m1, C) \ {h})
  BY <1>16 DEF Leaves
<1>18. KeepsBlocks(mem, m2, Allocs(mem, B) \ {h})
  BY <1>12, <1>17, KeepsTrans
<1>19. Size(m2, p) \in Nat
  <2>1. p \in D
    BY <1>17 DEF Allocs, A
  <2> QED BY <2>1, <1>17, HeapFacts DEF Good
<1>20. Handed(B, m2, k2, p)
  BY <1>5, <1>6, <1>13, <1>14, <1>16, <1>17, <1>18, <1>19 DEF Handed
<1> QED BY <1>1, <1>4, <1>20, ReturnStep DEF k2, p

-----------------------------------------------------------------------------
(* Before mm_init runs, nothing is allocated and IInv holds. *)
LEMMA InitIInv == Init => IInv
<1> SUFFICES ASSUME Init PROVE IInv
  OBVIOUS
<1>1. call \in CallType /\ call.pc = "down"
  BY DEF Init, Down, Idle, CallType, NULL
<1>2. Live = {} /\ ~Up
  BY <1>1 DEF Init, Live, Up
<1>3. mem \in [Addr -> Nat]
  BY ExplicitAssumption DEF Init
<1>4. mem_brk \in mem_start_brk .. mem_max_addr
  BY MemAssumption DEF Init, mem_max_addr
<1>5. TypeOK
  BY <1>1, <1>3, <1>4 DEF TypeOK, Init, CallType, NULL
<1>6. CallInv /\ PayloadsIntact
  BY <1>1, <1>2 DEF CallInv, PayloadsIntact, Init
<1> QED BY <1>2, <1>5, <1>6 DEF IInv

(* Every step of the allocator and of its client keeps IInv. *)
LEMMA StepIInv == IInv /\ [Next]_vars => IInv'
<1> SUFFICES ASSUME IInv, [Next]_vars PROVE IInv'
  OBVIOUS
<1>1. CASE StartPass
  BY <1>1, StartPassStep
<1>2. CASE RequestZero
  BY <1>2, RequestZeroStep
<1>3. ASSUME NEW i \in Ids, NEW s \in Sizes, MallocCall(i, s) PROVE IInv'
  BY <1>3, RequestStep DEF MallocCall
<1>4. ASSUME NEW i \in Ids, NEW s \in Sizes, ReallocCall(i, s) PROVE IInv'
  BY <1>4, RequestStep DEF ReallocCall
<1>5. CASE FindFit
  BY <1>5, FindFitNextStep, FindFitFoundStep, FindFitNoneStep DEF FindFit
<1>6. CASE PlaceFit
  BY <1>6, PlaceFitStep
<1>7. CASE GrowAndPlace
  BY <1>7, GrowAndPlaceStep
<1>8. CASE GrowFails
  BY <1>8, GrowFailsStep
<1>9. CASE Fill
  BY <1>9, FillStep
<1>10. ASSUME NEW i \in Ids, Free(i) PROVE IInv'
  BY <1>10, FreeStep
<1>11. CASE UNCHANGED vars
  BY <1>11 DEF vars, IInv, TypeOK, CallInv, PayloadsIntact, Kept, Live, Up, Roomy,
               Tilings, Candidates, HeapInv, Owned, SearchInv, Searched, NoneFits, Fits
<1> QED BY <1>1, <1>2, <1>3, <1>4, <1>5, <1>6, <1>7, <1>8, <1>9, <1>10, <1>11 DEF Next

(* Whatever the calls and their order, mm.c and its client stay in IInv:   *)
(* types, the call in progress, the shape of the heap and of the free      *)
(* list, who owns each block, and the data in it.                          *)
THEOREM Invariant == Spec => []IInv
BY InitIInv, StepIInv, PTL DEF Spec

(* Tiled blocks with one owner each keep the payloads aligned and apart. *)
LEMMA IInvSafe == IInv => PayloadsSafe
<1> SUFFICES ASSUME IInv, NEW i \in Live
             PROVE  /\ blocks[i] % 8 = 0
                    /\ mem_start_brk <= blocks[i] /\ blocks[i] + block_sizes[i] <= mem_brk
                    /\ \A j \in Live \ {i} :
                          \/ blocks[i] + block_sizes[i] <= blocks[j]
                          \/ blocks[j] + block_sizes[j] <= blocks[i]
  BY DEF PayloadsSafe
<1>1. Up /\ i \in Ids /\ blocks[i] # NULL
  BY DEF IInv, CallInv, Live
<1>2. PICK B \in SUBSET Nat : Good(mem, heap_listp, mem_brk, B) /\ Owned(B)
  BY <1>1, Unpack
<1>3. /\ heap_listp \in Nat /\ mem_brk \in Nat
      /\ \A b \in B : /\ b \in Nat /\ b % 8 = 0 /\ heap_listp <= b /\ Size(mem, b) \in Nat
                      /\ b + Size(mem, b) <= mem_brk
      /\ \A b, c \in B : b < c => b + Size(mem, b) <= c
  BY <1>2, HeapFacts DEF Good
<1>4. heap_listp = mem_start_brk + 8
  BY <1>1, Unpack
<1>5. \A j \in Live : /\ blocks[j] \in B /\ block_sizes[j] \in Nat
                      /\ block_sizes[j] + 8 <= Size(mem, blocks[j])
  BY <1>1, <1>2, LiveBlock DEF Live
<1>6. \A j \in Live \ {i} : blocks[j] # blocks[i]
  BY <1>2 DEF Owned
<1>7. mem_start_brk <= blocks[i] /\ blocks[i] + block_sizes[i] <= mem_brk
  <2> DEFINE b == blocks[i]
             n == block_sizes[i]
  <2>1. /\ b \in B /\ b \in Nat /\ n \in Nat /\ n + 8 <= Size(mem, b) /\ heap_listp <= b
        /\ Size(mem, b) \in Nat /\ b + Size(mem, b) <= mem_brk
    BY <1>3, <1>5
  <2> HIDE DEF b, n
  <2>2. mem_start_brk <= b /\ b + n <= mem_brk
    BY <2>1, <1>3, <1>4, MemAssumption
  <2> QED BY <2>2 DEF b, n
<1>8. ASSUME NEW j \in Live \ {i}
      PROVE  \/ blocks[i] + block_sizes[i] <= blocks[j]
             \/ blocks[j] + block_sizes[j] <= blocks[i]
  <2> DEFINE b == blocks[i]
             c == blocks[j]
             n == block_sizes[i]
             l == block_sizes[j]
  <2>1. /\ b \in B /\ c \in B /\ b \in Nat /\ c \in Nat /\ n \in Nat /\ l \in Nat
        /\ n + 8 <= Size(mem, b) /\ l + 8 <= Size(mem, c) /\ b # c
        /\ Size(mem, b) \in Nat /\ Size(mem, c) \in Nat
        /\ b < c => b + Size(mem, b) <= c
        /\ c < b => c + Size(mem, c) <= b
    BY <1>3, <1>5, <1>6
  <2> HIDE DEF b, c, n, l
  <2>2. b + n <= c \/ c + l <= b
    BY <2>1
  <2> QED BY <2>2 DEF b, c, n, l
<1> QED BY <1>3, <1>5, <1>7, <1>8

(* IInv holds the heap invariants the runs check, for one same tiling. *)
LEMMA IInvHeap ==
  IInv => HeapTiled /\ Coalesced /\ FreeListExact /\ NothingLost /\ GrowsOnlyWhenNeeded
<1> SUFFICES ASSUME IInv
             PROVE  HeapTiled /\ Coalesced /\ FreeListExact /\ NothingLost
                      /\ GrowsOnlyWhenNeeded
  OBVIOUS
<1>1. Up => \E B \in Tilings : HeapInv(B)
  BY DEF IInv
<1>2. call.pc = "grow" => \E B \in Tilings : NoneFits(B)
  BY <1>1 DEF HeapInv, SearchInv, Up
<1> QED BY <1>1, <1>2 DEF HeapTiled, Coalesced, FreeListExact, NothingLost,
                          GrowsOnlyWhenNeeded, HeapInv

(* Each variable keeps its type; in particular no store of mm.c falls      *)
(* outside the region and the break stays inside it.                       *)
THEOREM TypeCorrect == Spec => []TypeOK
<1>1. IInv => TypeOK
  BY DEF IInv
<1> QED BY <1>1, Invariant, PTL

(* The payloads the client holds are aligned, inside the heap and apart.   *)
THEOREM PayloadsStaySafe == Spec => []PayloadsSafe
BY IInvSafe, Invariant, PTL

(* No call damages the data of a payload the client holds, and realloc     *)
(* preserves what it must.                                                 *)
THEOREM PayloadsStayIntact == Spec => []PayloadsIntact
<1>1. IInv => PayloadsIntact
  BY DEF IInv
<1> QED BY <1>1, Invariant, PTL

(* Headers and footers always cut the whole heap into blocks. *)
THEOREM HeapStaysTiled == Spec => []HeapTiled
BY IInvHeap, Invariant, PTL

(* Two neighbouring blocks are never both free. *)
THEOREM HeapStaysCoalesced == Spec => []Coalesced
BY IInvHeap, Invariant, PTL

(* The free list holds the free blocks of the heap and nothing else. *)
THEOREM FreeListStaysExact == Spec => []FreeListExact
BY IInvHeap, Invariant, PTL

(* Every allocated block belongs to exactly one client index. *)
THEOREM NoBlockLost == Spec => []NothingLost
BY IInvHeap, Invariant, PTL

(* The heap grows, and a request can fail, only when no free block fits. *)
THEOREM GrowthIsNeeded == Spec => []GrowsOnlyWhenNeeded
BY IInvHeap, Invariant, PTL

-----------------------------------------------------------------------------
(* The refinement *)

(* What the client holds outside a call that has just returned. *)
Holding(j) == ~(call.pc = "fill" /\ call.id = j)

Full(i, n) == [w \in Interface!WordsIn(n) |-> Pattern(i)]

Settled == \A j \in Ids : Holding(j) => Payload(j) = Full(j, block_sizes[j])

Placed == \A i \in Live : blocks[i] \in Addr

(* The facts about a state that the mapping of a step needs. *)
View == TypeOK /\ CallInv /\ PayloadsIntact /\ PayloadsSafe /\ Placed /\ Settled

(* The words of a payload are words of the region. *)
LEMMA PayloadWord ==
  ASSUME NEW b \in Nat, b % 8 = 0, mem_start_brk <= b, NEW n \in Nat,
         b + n <= mem_max_addr, NEW w \in Interface!WordsIn(n)
  PROVE  b + w * WSIZE \in Words(b, n) /\ b + w * WSIZE \in Addr
<1>1. w \in Nat /\ 4 * w < n
  BY DEF Interface!WordsIn
<1>2. b + w * 4 \in Nat /\ (b + w * 4) % 4 = 0 /\ b <= b + w * 4 /\ b + w * 4 < b + n
  BY <1>1
<1>3. mem_start_brk \in Nat /\ mem_max_addr \in Nat
  BY MemAssumption DEF mem_max_addr
<1> QED BY <1>2, <1>3 DEF Words, Addr, WSIZE

(* An index without a block has an empty payload, in either module. *)
LEMMA EmptyPayload ==
  /\ Interface!WordsIn(0) = {}
  /\ Interface!NoPayload.data = [w \in Interface!WordsIn(0) |-> 0]
  /\ \A i \in Ids : block_sizes[i] = 0 => Payload(i) = Interface!NoPayload.data
<1>1. Interface!WordsIn(0) = {} /\ 0 .. ((0 + 3) \div WSIZE) - 1 = {}
  BY DEF Interface!WordsIn, WSIZE
<1>2. Interface!NoPayload.data = [w \in Interface!WordsIn(0) |-> 0]
  BY DEF Interface!NoPayload
<1>3. ASSUME NEW i \in Ids, block_sizes[i] = 0
      PROVE  Payload(i) = Interface!NoPayload.data
  BY <1>1, <1>2, <1>3 DEF Payload
<1> QED BY <1>1, <1>2, <1>3

(* A payload that keeps its pattern is known word for word. *)
LEMMA SettledPayload ==
  ASSUME IInv, PayloadsSafe, NEW j \in Ids, Holding(j)
  PROVE  Payload(j) = Full(j, block_sizes[j])
<1>1. TypeOK /\ CallInv /\ PayloadsIntact
  BY DEF IInv
<1>2. CASE j \in Live
  <2> DEFINE b == blocks[j]
             n == block_sizes[j]
  <2>1. Kept(j) = n
    BY DEF Kept, Holding
  <2>2. /\ b \in Nat /\ b % 8 = 0 /\ mem_start_brk <= b /\ n \in Nat
        /\ b + n <= mem_max_addr
    <3>1. /\ b \in Nat /\ n \in Nat /\ mem_brk \in Nat /\ mem_max_addr \in Nat
          /\ mem_brk <= mem_max_addr
      BY <1>1, MemAssumption DEF TypeOK, mem_max_addr
    <3>2. b % 8 = 0 /\ mem_start_brk <= b /\ b + n <= mem_brk
      BY <1>2 DEF PayloadsSafe
    <3> HIDE DEF b, n
    <3> QED BY <3>1, <3>2
  <2>3. \A a \in Words(b, n) : mem[a] = Pattern(j)
    BY <1>1, <1>2, <2>1 DEF PayloadsIntact
  <2>4. Payload(j) = [w \in Interface!WordsIn(n) |-> mem[b + w * WSIZE]]
    BY DEF Payload, Interface!WordsIn, WSIZE
  <2> HIDE DEF b, n
  <2>5. \A w \in Interface!WordsIn(n) : mem[b + w * WSIZE] = Pattern(j)
    BY <2>2, <2>3, PayloadWord
  <2>6. Payload(j) = Full(j, n)
    BY <2>4, <2>5 DEF Full
  <2> QED BY <2>6 DEF n
<1>3. CASE j \notin Live
  <2>1. block_sizes[j] = 0
    BY <1>1, <1>3 DEF CallInv
  <2> QED BY <2>1, EmptyPayload DEF Full
<1> QED BY <1>2, <1>3

(* The address of a live block is a word of the region. *)
LEMMA LivePlaced ==
  ASSUME IInv, NEW i \in Live
  PROVE  blocks[i] \in Addr
<1>1. Up /\ i \in Ids /\ blocks[i] # NULL
  BY DEF IInv, CallInv, Live
<1>2. PICK B \in SUBSET Nat : Good(mem, heap_listp, mem_brk, B) /\ Owned(B)
  BY <1>1, Unpack
<1>3. blocks[i] \in B
  BY <1>1, <1>2, LiveBlock
<1> QED BY <1>2, <1>3, HeapFacts DEF Good

(* The inductive invariant of mm.c gives the view of every state. *)
LEMMA IInvView == IInv => View
<1> SUFFICES ASSUME IInv PROVE View
  OBVIOUS
<1>1. PayloadsSafe
  BY IInvSafe
<1>2. Settled
  BY <1>1, SettledPayload DEF Settled
<1>3. Placed
  BY LivePlaced DEF Placed
<1> QED BY <1>1, <1>2, <1>3 DEF View, IInv

-----------------------------------------------------------------------------
(* Each step of mm.c and its client, as a step of Allocator. *)

Unseen == UNCHANGED Interface!avars

(* Only the payload of i changes, from one state of View to the next. *)
LEMMA OnlyOne ==
  ASSUME View, View', NEW i \in Ids, block_sizes' = [block_sizes EXCEPT ![i] = block_sizes'[i]],
         \A j \in Ids \ {i} : Holding(j) /\ Holding(j)'
  PROVE  Interface!OnlyData(i, Interface!WordsIn(block_sizes'[i]))
<1> DEFINE D  == Interface!WordsIn(block_sizes'[i])
           d  == [j \in Ids |-> Payload(j)]
           d2 == [j \in Ids |-> Payload(j)']
<1>1. ASSUME NEW j \in Ids \ {i}
      PROVE  Payload(j)' = Payload(j)
  <2>1. block_sizes'[j] = block_sizes[j]
    BY DEF View, TypeOK
  <2>2. Payload(j) = Full(j, block_sizes[j])
    BY DEF View, Settled
  <2>3. Payload(j)' = Full(j, block_sizes'[j])
    BY DEF View, Settled, Full
  <2> QED BY <2>1, <2>2, <2>3
<1>2. d2 = [d EXCEPT ![i] = d2[i]]
  BY <1>1
<1>3. d2[i] \in [D -> Nat]
  <2> DEFINE n == block_sizes'[i]
             b == blocks'[i]
  <2>1. Payload(i)' = [w \in D |-> mem'[b + w * WSIZE]]
    BY DEF Payload, Interface!WordsIn, WSIZE
  <2>2. CASE i \in Live'
    <3>1. /\ b \in Nat /\ b % 8 = 0 /\ mem_start_brk <= b /\ n \in Nat
          /\ b + n <= mem_brk' /\ mem_brk' \in Nat /\ mem_brk' <= mem_max_addr
          /\ mem_max_addr \in Nat
      BY <2>2, MemAssumption DEF View, TypeOK, PayloadsSafe, mem_max_addr
    <3> HIDE DEF b, n
    <3>2. b + n <= mem_max_addr
      BY <3>1
    <3>3. \A w \in Interface!WordsIn(n) : b + w * WSIZE \in Addr
      BY <3>1, <3>2, PayloadWord
    <3>4. mem' \in [Addr -> Nat]
      BY DEF View, TypeOK
    <3>5. [w \in Interface!WordsIn(n) |-> mem'[b + w * WSIZE]]
             \in [Interface!WordsIn(n) -> Nat]
      BY <3>3, <3>4
    <3> QED BY <2>1, <3>5 DEF b, n
  <2>3. CASE i \notin Live'
    <3>1. n = 0
      BY <2>3 DEF View, CallInv
    <3>2. D = {}
      BY <3>1, EmptyPayload
    <3> QED BY <2>1, <3>2
  <2> QED BY <2>2, <2>3
<1> QED BY <1>2, <1>3 DEF Interface!OnlyData

(* A step that only moves the call on, outside of a fill. *)
LEMMA QuietUnseen ==
  ASSUME Quiet
  PROVE  Unseen
BY DEF Quiet, Unseen, Interface!avars, Payload

(* mem_reset_brk and mm_init: the client holds nothing any more. *)
LEMMA StartPassResets ==
  ASSUME View', StartPass
  PROVE  Interface!Reset
<1>1. blocks' = [i \in Ids |-> 0] /\ block_sizes' = [i \in Ids |-> 0]
  BY DEF StartPass, NULL
<1>2. ASSUME NEW i \in Ids PROVE Payload(i)' = Interface!NoPayload.data
  <2>1. block_sizes'[i] = 0
    BY <1>1
  <2>2. 0 .. ((0 + 3) \div WSIZE) - 1 = Interface!WordsIn(0)
    BY DEF Interface!WordsIn, WSIZE
  <2> QED BY <2>1, <2>2, EmptyPayload DEF Payload
<1>3. mem_brk' \in mem_start_brk .. mem_max_addr
  BY DEF View, TypeOK
<1> QED BY <1>1, <1>2, <1>3 DEF Interface!Reset

(* The client's memset writes the payload it was handed. *)
LEMMA FillWrites ==
  ASSUME View, View', Fill
  PROVE  Interface!Write(call.id)
<1>1. /\ call.pc = "fill" /\ call'.pc = "idle" /\ blocks' = blocks
      /\ block_sizes' = block_sizes /\ mem_brk' = mem_brk
  BY DEF Fill, Idle
<1>2. call.id \in Ids /\ blocks[call.id] # 0
  BY <1>1 DEF View, CallInv, Live, NULL
<1>3. block_sizes' = [block_sizes EXCEPT ![call.id] = block_sizes'[call.id]]
  BY <1>1, <1>2 DEF View, TypeOK
<1>4. \A j \in Ids \ {call.id} : Holding(j) /\ Holding(j)'
  BY <1>1 DEF Holding
<1>5. Interface!OnlyData(call.id, Interface!WordsIn(block_sizes[call.id]))
  BY <1>1, <1>2, <1>3, <1>4, OnlyOne
<1> QED BY <1>1, <1>2, <1>5 DEF Interface!Write

(* mm_free gives one payload back. *)
LEMMA FreeReleases ==
  ASSUME View, View', NEW i \in Ids, Free(i)
  PROVE  Interface!Release(i)
<1>1. /\ call.pc = "idle" /\ call'.pc = "idle" /\ blocks[i] # 0
      /\ blocks' = [blocks EXCEPT ![i] = 0] /\ mem_brk' = mem_brk
      /\ block_sizes' = [block_sizes EXCEPT ![i] = 0]
  BY DEF Free, Idle, NULL
<1>2. block_sizes \in [Ids -> Nat] /\ block_sizes'[i] = 0
  BY <1>1 DEF View, TypeOK
<1>3. block_sizes' = [block_sizes EXCEPT ![i] = block_sizes'[i]]
  BY <1>1, <1>2
<1>4. \A j \in Ids \ {i} : Holding(j) /\ Holding(j)'
  BY <1>1 DEF Holding
<1>5. Interface!OnlyData(i, Interface!WordsIn(block_sizes'[i]))
  BY <1>3, <1>4, OnlyOne
<1>6. Payload(i)' = Interface!NoPayload.data
  <2>1. 0 .. ((0 + 3) \div WSIZE) - 1 = Interface!WordsIn(0)
    BY DEF Interface!WordsIn, WSIZE
  <2> QED BY <1>2, <2>1, EmptyPayload DEF Payload
<1>7. [j \in Ids |-> Payload(j)']
        = [[j \in Ids |-> Payload(j)] EXCEPT ![i] = Payload(i)']
  BY <1>5 DEF Interface!OnlyData
<1> QED BY <1>1, <1>6, <1>7 DEF Interface!Release

(* mm_malloc and mm_realloc hand out a payload that is apart from all the  *)
(* others and starts with the words of the one it replaces.                *)
LEMMA ReturnObtains ==
  ASSUME View, View', NEW m2, NEW p, Return(m2, p), call.pc \in {"place", "grow"},
         mem_brk' \in mem_brk .. mem_max_addr, NEW i, i = call.id
  PROVE  /\ i \in Ids /\ call.size \in Sizes /\ p \in Addr
         /\ Interface!Obtain(i, p, call.size)
<1> DEFINE n == call.size
           l == block_sizes[i]
           k == IF n < l THEN n ELSE l
<1>1. i \in Ids /\ n \in Sizes /\ n \in Nat /\ n # 0 /\ l \in Nat
  <2>1. i \in Ids /\ n \in Sizes /\ n # 0
    BY DEF View, CallInv
  <2> QED BY <2>1, ExplicitAssumption DEF View, TypeOK
<1>2. /\ blocks' = [blocks EXCEPT ![i] = p] /\ blocks'[i] = p
      /\ block_sizes' = [block_sizes EXCEPT ![i] = n] /\ block_sizes'[i] = n
  BY <1>1 DEF Return, View, TypeOK
<1>3. call'.pc = "fill" /\ call'.id = i /\ call'.keep = k /\ call'.ptr = p
  BY DEF Return, View, TypeOK
<1>4. i \in Live'
  BY <1>3 DEF View, CallInv
<1>5. /\ p \in Addr /\ p \in Nat /\ p % 8 = 0 /\ mem_start_brk <= p /\ p + n <= mem_brk'
      /\ \A j \in Live' \ {i} : \/ p + n <= blocks'[j]
                                \/ blocks'[j] + block_sizes'[j] <= p
  BY <1>1, <1>2, <1>4 DEF View, PayloadsSafe, Placed, TypeOK
<1>6. ASSUME NEW j \in Ids \ {i}
      PROVE  blocks[j] = 0 \/ Interface!Apart(p, n, blocks[j], block_sizes[j])
  <2>1. blocks'[j] = blocks[j] /\ block_sizes'[j] = block_sizes[j]
    BY <1>2 DEF View, TypeOK
  <2>2. j \in Live' \/ blocks[j] = 0
    BY <2>1 DEF Live, NULL
  <2> QED BY <1>5, <2>1, <2>2 DEF Interface!Apart
<1>7. Interface!OnlyData(i, Interface!WordsIn(n))
  <2>1. \A j \in Ids \ {i} : Holding(j) /\ Holding(j)'
    BY <1>3 DEF Holding
  <2>2. block_sizes' = [block_sizes EXCEPT ![i] = block_sizes'[i]]
    BY <1>2
  <2> QED BY <1>1, <1>2, <2>1, <2>2, OnlyOne
<1>8. ASSUME NEW w \in Interface!WordsIn(l) \cap Interface!WordsIn(n)
      PROVE  Payload(i)'[w] = Payload(i)[w]
  <2>1. Payload(i)[w] = Pattern(i)
    <3>1. Payload(i) = Full(i, l)
      BY <1>1 DEF View, Settled, Holding
    <3> QED BY <3>1 DEF Full
  <2>2. w \in Interface!WordsIn(k) /\ k \in Nat /\ k <= n
    BY <1>1
  <2>3. mem_brk' \in Nat /\ mem_brk' <= mem_max_addr /\ mem_max_addr \in Nat
    BY MemAssumption DEF mem_max_addr, View, TypeOK
  <2> HIDE DEF n, l, k
  <2>4. p + k <= mem_max_addr
    BY <1>1, <1>5, <2>2, <2>3
  <2>5. p + w * WSIZE \in Words(p, k)
    BY <1>5, <2>2, <2>4, PayloadWord
  <2>6. mem'[p + w * WSIZE] = Pattern(i)
    <3>1. Kept(i)' = k
      BY <1>3 DEF Kept, k
    <3>2. \A a \in Words(p, Kept(i)') : mem'[a] = Pattern(i)
      BY <1>2, <1>4 DEF View, PayloadsIntact, Pattern
    <3> QED BY <2>5, <3>1, <3>2
  <2>7. Payload(i)' = [v \in Interface!WordsIn(n) |-> mem'[p + v * WSIZE]]
    BY <1>2 DEF Payload, Interface!WordsIn, WSIZE
  <2> QED BY <2>1, <2>6, <2>7
<1>9. \A w \in Interface!WordsIn(l) \cap Interface!WordsIn(n) :
         [j \in Ids |-> Payload(j)'][i][w] = [j \in Ids |-> Payload(j)][i][w]
  BY <1>1, <1>8
<1> QED BY <1>1, <1>2, <1>5, <1>6, <1>7, <1>9 DEF Interface!Obtain

(* The break only moves up inside a call. *)
LEMMA ExtendedUp ==
  ASSUME IInv, View', GrowAndPlace
  PROVE  mem_brk' \in mem_brk .. mem_max_addr
<1> DEFINE n == MAX(AdjustedSize(call.size), CHUNKSIZE)
<1>1. call.pc = "grow" /\ Extended.ok /\ mem_brk' = Extended.brk
  BY DEF GrowAndPlace
<1>2. Up
  BY <1>1 DEF Up
<1>3. PICK B \in SUBSET Nat : Good(mem, heap_listp, mem_brk, B) /\ Owned(B)
  BY <1>2, Unpack
<1>4. call.size \in Nat /\ mem_max_addr + call.size + 16 < WORD
  BY <1>1, ExplicitAssumption DEF IInv, CallInv
<1>5. Growth(n)
  <2>1. /\ CHUNKSIZE \in Nat /\ CHUNKSIZE >= 16 /\ CHUNKSIZE % 8 = 0
        /\ mem_max_addr + CHUNKSIZE < WORD /\ mem_max_addr \in Nat /\ WORD \in Nat
    BY MemAssumption, ExplicitAssumption DEF mem_max_addr
  <2> DEFINE s == AdjustedSize(call.size)
  <2>2. s \in Nat /\ s % 8 = 0 /\ s >= 16 /\ s <= call.size + 16
    BY <1>4, Adjusted
  <2> HIDE DEF s
  <2>3. Growth(MAX(s, CHUNKSIZE))
    BY <1>4, <2>1, <2>2 DEF MAX, Growth
  <2> QED BY <2>3 DEF s
<1>6. PreGood(mem, heap_listp, mem_brk, B)
  BY <1>3 DEF Good, FreeList, PreGood, PreLinks
<1>7. Extends(mem, heap_listp, mem_brk, n, Extended)
  BY DEF Extends, Extended
<1> HIDE DEF n
<1>8. GrownOrNot(mem, heap_listp, mem_brk, B, n, Extended)
  BY <1>5, <1>6, <1>7, ExtendHeap
<1>9. mem_brk' = mem_brk + n
  BY <1>1, <1>8 DEF GrownOrNot
<1>10. mem_brk \in Nat /\ n \in Nat /\ mem_brk' \in mem_start_brk .. mem_max_addr
  BY <1>5, MemAssumption DEF IInv, View, TypeOK, Growth, mem_max_addr
<1>11. mem_start_brk \in Int /\ mem_max_addr \in Int
  BY MemAssumption DEF mem_max_addr
<1> QED BY <1>9, <1>10, <1>11

-----------------------------------------------------------------------------
(* Before the first pass the client holds nothing. *)
LEMMA InitRefines == Init => Interface!Init
<1> SUFFICES ASSUME Init PROVE Interface!Init
  OBVIOUS
<1>1. /\ blocks = [i \in Ids |-> 0] /\ block_sizes = [i \in Ids |-> 0]
      /\ mem_brk = mem_start_brk
  BY DEF Init, NULL
<1>2. \A i \in Ids : Payload(i) = Interface!NoPayload.data
  BY <1>1, EmptyPayload
<1> QED BY <1>1, <1>2 DEF Interface!Init

(* Every step is a step of the interface or changes nothing of it. *)
LEMMA StepRefines ==
  IInv /\ View /\ View' /\ [Next]_vars => [Interface!Next]_(Interface!avars)
<1> SUFFICES ASSUME IInv, View, View', [Next]_vars
             PROVE  Interface!Next \/ Unseen
  BY DEF Unseen
<1>1. CASE StartPass
  BY <1>1, StartPassResets DEF Interface!Next
<1>2. CASE RequestZero
  BY <1>2, QuietUnseen DEF RequestZero, Quiet
<1>3. ASSUME NEW i \in Ids, NEW s \in Sizes, MallocCall(i, s) \/ ReallocCall(i, s)
      PROVE  Unseen
  BY <1>3, QuietUnseen DEF MallocCall, ReallocCall, Request, Quiet
<1>4. CASE FindFit
  BY <1>4, QuietUnseen DEF FindFit, FindFitNext, FindFitFound, FindFitNone, Quiet
<1>5. CASE PlaceFit
  <2> DEFINE m2 == place(mem, heap_listp, call.ptr, AdjustedSize(call.size))
  <2>1. call.pc = "place" /\ Return(m2, call.ptr) /\ mem_brk' = mem_brk
    BY <1>5 DEF PlaceFit
  <2>2. mem_brk \in mem_start_brk .. mem_max_addr /\ mem_start_brk \in Nat
        /\ mem_max_addr \in Nat
    BY MemAssumption DEF View, TypeOK, mem_max_addr
  <2>3. mem_brk' \in mem_brk .. mem_max_addr
    BY <2>1, <2>2
  <2> HIDE DEF m2
  <2>4. /\ call.id \in Ids /\ call.size \in Sizes /\ call.ptr \in Addr
        /\ Interface!Obtain(call.id, call.ptr, call.size)
    BY <2>1, <2>3, ReturnObtains
  <2> QED BY <2>4 DEF Interface!Next
<1>6. CASE GrowAndPlace
  <2> DEFINE p  == Extended.bp
             m2 == place(Extended.m, heap_listp, p, AdjustedSize(call.size))
  <2>1. call.pc = "grow" /\ Return(m2, p)
    BY <1>6 DEF GrowAndPlace
  <2>2. mem_brk' \in mem_brk .. mem_max_addr
    BY <1>6, ExtendedUp
  <2> HIDE DEF m2, p
  <2>3. /\ call.id \in Ids /\ call.size \in Sizes /\ p \in Addr
        /\ Interface!Obtain(call.id, p, call.size)
    BY <2>1, <2>2, ReturnObtains
  <2> QED BY <2>3 DEF Interface!Next
<1>7. CASE GrowFails
  BY <1>7, QuietUnseen DEF GrowFails, Quiet
<1>8. CASE Fill
  <2>1. call.id \in Ids
    BY <1>8 DEF Fill, View, CallInv, Live
  <2> QED BY <1>8, <2>1, FillWrites DEF Interface!Next
<1>9. ASSUME NEW i \in Ids, Free(i) PROVE Interface!Next
  BY <1>9, FreeReleases DEF Interface!Next
<1>10. CASE UNCHANGED vars
  BY <1>10, QuietUnseen DEF vars, Quiet
<1> QED BY <1>1, <1>2, <1>3, <1>4, <1>5, <1>6, <1>7, <1>8, <1>9, <1>10 DEF Next

(* What the client sees of mm.c is what the allocator interface promises:  *)
(* malloc, realloc and free hand out, move and take back one payload each, *)
(* and nothing else ever changes what it holds.                            *)
THEOREM Refinement == Spec => ImplementsAllocator
<1>1. Spec => []View
  BY IInvView, Invariant, PTL
<1> QED BY <1>1, Invariant, InitRefines, StepRefines, PTL
        DEF Spec, ImplementsAllocator, Interface!Spec

-----------------------------------------------------------------------------
(* mm_init on a used region *)

(* The words of a heap of n bytes behind the prologue h: padding, prologue,*)
(* tags and links of the free block, epilogue.                             *)
Fresh(m, h, n) ==
    /\ m[h - 8] = 0
    /\ m[h - 4] = PACK(16, 1) /\ m[h + 8] = PACK(16, 1)
    /\ m[h] = h + 16 /\ m[h + 4] = h + 16
    /\ m[h + 12] = PACK(n, 0) /\ m[h + n + 8] = PACK(n, 0)
    /\ m[h + 16] = h /\ m[h + 20] = h
    /\ m[h + n + 12] = PACK(0, 1)

(* The first free block of a heap: coalesce finds no free neighbour and    *)
(* makes it the whole of the free list.                                    *)
LEMMA FirstBlock ==
  ASSUME NEW m, Mem(m), NEW h, h = mem_start_brk + 8,
         NEW n, Growth(n), h + 16 + n <= mem_max_addr,
         m[h - 8] = 0, m[h - 4] = PACK(16, 1), m[h + 8] = PACK(16, 1), m[h + 4] = h,
         m[h + 12] = PACK(n, 0), m[h + n + 8] = PACK(n, 0), m[h + n + 12] = PACK(0, 1)
  PROVE  Fresh(coalesce(m, h, h + 16).m, h, n)
<1> DEFINE k == h + 16
<1>1. h \in Nat /\ h % 8 = 0 /\ n \in Nat /\ n % 8 = 0 /\ n >= 16 /\ h >= 8
  BY MemAssumption DEF Growth
<1>2. /\ PREV_BLKP(m, k) = h /\ FTRP(m, h) = h + 8
      /\ HDRP(NEXT_BLKP(m, k)) = h + n + 12
  <2>1. SizeOf(PACK(16, 1)) = 16 /\ SizeOf(PACK(n, 0)) = n
    BY <1>1, PackFacts
  <2>2. k - 8 = h + 8 /\ k - 4 = h + 12
    BY <1>1
  <2>3. GET_SIZE(m, k - 8) = 16 /\ GET_SIZE(m, h - 4) = 16 /\ GET_SIZE(m, k - 4) = n
    BY <2>1, <2>2 DEF GET_SIZE, GET
  <2> HIDE DEF k
  <2>4. k = h + 16
    BY DEF k
  <2> QED BY <1>1, <2>3, <2>4 DEF PREV_BLKP, FTRP, NEXT_BLKP, HDRP, WSIZE, DSIZE
<1>3. /\ GET_ALLOC(m, FTRP(m, PREV_BLKP(m, k))) = 1
      /\ GET_ALLOC(m, HDRP(NEXT_BLKP(m, k))) = 1
  <2>1. AllocOf(PACK(16, 1)) = 1 /\ AllocOf(PACK(0, 1)) = 1
    BY PackFacts
  <2> QED BY <1>2, <2>1 DEF GET_ALLOC, GET
<1>4. coalesce(m, h, k).m = list_add(m, h, k)
  BY <1>3 DEF coalesce
<1>5. /\ h - 8 \in Addr /\ h - 4 \in Addr /\ h \in Addr /\ h + 4 \in Addr
      /\ h + 8 \in Addr /\ h + 12 \in Addr /\ h + 16 \in Addr /\ h + 20 \in Addr
      /\ h + n + 8 \in Addr /\ h + n + 12 \in Addr
  BY <1>1, MemAssumption DEF Addr, mem_max_addr, WSIZE
<1> DEFINE m2 == list_add(m, h, k)
<1>6. /\ m2[k + 4] = h /\ m2[k] = h /\ m2[h + 4] = k /\ m2[h] = k
      /\ \A a \in Addr : a \notin {k, k + 4, h, h + 4} => m2[a] = m[a]
  <2>1. k + 4 = h + 20 /\ k = h + 16
    BY <1>1
  <2>2. k + 4 \in Addr /\ k \in Addr /\ k # h /\ k + 4 # h /\ h + 4 # k /\ h + 4 # h
        /\ k + 4 # k /\ k + 4 # h + 4
    BY <1>1, <1>5, <2>1
  <2> HIDE DEF k
  <2> QED BY <1>5, <2>2 DEF list_add, PUT, SUCC_P, GET, WSIZE, Mem
<1> HIDE DEF m2
<1>7. Fresh(m2, h, n)
  <2>1. k = h + 16 /\ k + 4 = h + 20
    BY <1>1
  <2> HIDE DEF k
  <2>2. \A a \in {h - 8, h - 4, h + 8, h + 12, h + n + 8, h + n + 12} :
            a \in Addr /\ a \notin {k, k + 4, h, h + 4}
    BY <1>1, <1>5, <2>1
  <2>3. \A a \in {h - 8, h - 4, h + 8, h + 12, h + n + 8, h + n + 12} : m2[a] = m[a]
    BY <1>6, <2>2
  <2> QED BY <1>6, <2>1, <2>3 DEF Fresh
<1> QED BY <1>4, <1>7 DEF m2

(* Whether mm_init succeeds, and where it leaves the sentinel and the      *)
(* break, depends on the region's size alone; when it succeeds, the heap   *)
(* is fresh.                                                               *)
LEMMA InitFresh ==
  ASSUME NEW m, Mem(m), NEW r, r = mm_init(m, mem_start_brk)
  PROVE  LET lo == mem_start_brk
             h  == lo + 8
             k  == lo + 24
             n  == CHUNKSIZE
         IN  IF ~SbrkOK(lo, 24)
             THEN r.ok = FALSE /\ r.brk = lo /\ r.listp = WORD - 1
             ELSE IF ~SbrkOK(k, ToInt(n))
             THEN r.ok = FALSE /\ r.brk = k /\ r.listp = h
             ELSE r.ok = TRUE /\ r.brk = k + n /\ r.listp = h /\ Fresh(r.m, h, n)
<1> DEFINE lo == mem_start_brk
           h  == lo + 8
           k  == lo + 24
           n  == CHUNKSIZE
           m1 == InitialHeap(m, lo)
           t1 == PutTags(m1, k, n, 0)
           m2 == PUT(t1, HDRP(NEXT_BLKP(t1, k)), PACK(0, 1))
           c  == coalesce(m2, h, k)
           x  == extend_heap(m1, h, k, n \div WSIZE)
<1>1. /\ lo \in Nat /\ mem_max_addr \in Nat /\ WORD \in Nat /\ lo % 8 = 0
      /\ lo <= mem_max_addr
      /\ n \in Nat /\ n % 8 = 0 /\ n >= 16
      /\ mem_max_addr + n < WORD /\ lo + 24 < WORD
  BY MemAssumption, ExplicitAssumption DEF mem_max_addr
<1>2. lo + 2 * WSIZE = h /\ 6 * WSIZE = 24 /\ SbrkTo(lo, 24) = k
  BY <1>1 DEF SbrkTo, Add32, WSIZE
<1>3. r = IF SbrkOK(lo, 24)
          THEN [ok |-> x.ok, m |-> x.m, brk |-> x.brk, listp |-> h]
          ELSE [ok |-> FALSE, m |-> m, brk |-> lo, listp |-> WORD - 1]
  BY <1>2 DEF mm_init
<1>4. x = IF SbrkOK(k, ToInt(n))
          THEN [ok |-> TRUE, m |-> c.m, bp |-> c.bp, brk |-> SbrkTo(k, n)]
          ELSE [ok |-> FALSE, m |-> m1, bp |-> NULL, brk |-> k]
  <2>1. (IF (n \div WSIZE) % 2 = 1 THEN n \div WSIZE + 1 ELSE n \div WSIZE) * WSIZE = n
    BY <1>1 DEF WSIZE
  <2> QED BY <2>1 DEF extend_heap
<1>5. CASE ~SbrkOK(lo, 24)
  BY <1>3, <1>5
<1>6. CASE SbrkOK(lo, 24) /\ ~SbrkOK(k, ToInt(n))
  BY <1>3, <1>4, <1>6
<1>7. CASE SbrkOK(lo, 24) /\ SbrkOK(k, ToInt(n))
  <2>1. r = [ok |-> TRUE, m |-> c.m, brk |-> SbrkTo(k, n), listp |-> h]
    <3>1. x = [ok |-> TRUE, m |-> c.m, bp |-> c.bp, brk |-> SbrkTo(k, n)]
      BY <1>4, <1>7
    <3>2. r = [ok |-> x.ok, m |-> x.m, brk |-> x.brk, listp |-> h]
      BY <1>3, <1>7
    <3> HIDE DEF x, c, h, k, n
    <3> QED BY <3>1, <3>2
  <2>2. k \in Nat /\ k <= mem_max_addr
    BY <1>1, <1>7 DEF SbrkOK, Add32
  <2>3. Growth(n)
    BY <1>1 DEF Growth
  <2>4. k + n <= mem_max_addr /\ SbrkTo(k, n) = k + n
    <3>1. SbrkOK(k, ToInt(n))
      BY <1>7
    <3> HIDE DEF k, n
    <3> QED BY <2>2, <2>3, <3>1, SbrkFacts
  <2>5. /\ Mem(m1)
        /\ m1[lo + 4] = PACK(16, 1) /\ m1[lo + 16] = PACK(16, 1)
        /\ m1[lo + 20] = PACK(0, 1) /\ m1[lo + 12] = lo + 8 /\ m1[lo] = 0
    BY <2>2, InitialWords
  <2> HIDE DEF m1
  <2>6. /\ h - 8 = lo /\ h - 4 = lo + 4 /\ h + 8 = lo + 16 /\ h + 12 = lo + 20
        /\ h + 4 = lo + 12 /\ k = h + 16 /\ h + 16 + n = k + n
        /\ h + n + 8 = k + n - 8 /\ h + n + 12 = k + n - 4 /\ h + 12 = k - 4
        /\ h + 8 < k - 4 /\ h + 4 < k - 4 /\ h - 4 < k - 4 /\ h - 8 < k - 4
    BY <1>1
  <2>7. h = mem_start_brk + 8 /\ mem_start_brk + 24 <= mem_max_addr
    BY <2>2
  <2> HIDE DEF lo, h, k, n
  <2>8. Heap(m1, h, k, {h})
    <3>1. m1[h - 4] = PACK(16, 1) /\ m1[h + 8] = PACK(16, 1) /\ m1[h + 12] = PACK(0, 1)
      BY <2>5, <2>6
    <3> QED BY <3>1, <2>5, <2>6, <2>7, FirstHeap
  <2> DEFINE S == {h}
  <2>9. /\ Mem(m2) /\ ExtendTags(m1, m2, k, S, n)
        /\ \A a \in Addr : a < k - 4 => m2[a] = m1[a]
    <3> HIDE DEF S, t1
    <3>1. m2 = PUT(t1, HDRP(NEXT_BLKP(t1, k)), PACK(0, 1)) /\ t1 = PutTags(m1, k, n, 0)
      BY DEF t1
    <3> HIDE DEF m2
    <3>2. Heap(m1, h, k, S)
      BY <2>8 DEF S
    <3> QED BY <3>1, <3>2, <2>3, <2>4, GrowTags
  <2> HIDE DEF m2
  <2>10. m2[k - 4] = PACK(n, 0) /\ m2[k + n - 8] = PACK(n, 0) /\ m2[k + n - 4] = PACK(0, 1)
    BY <2>9 DEF ExtendTags
  <2>11. h - 8 \in Addr /\ h - 4 \in Addr /\ h + 4 \in Addr /\ h + 8 \in Addr
    BY <2>7, MemAssumption DEF Addr, mem_max_addr, WSIZE
  <2>12. /\ m2[h - 8] = 0 /\ m2[h - 4] = PACK(16, 1) /\ m2[h + 8] = PACK(16, 1)
         /\ m2[h + 4] = h
    BY <2>5, <2>6, <2>7, <2>9, <2>11 DEF lo
  <2>13. h + 16 + n <= mem_max_addr
    BY <2>4, <2>6
  <2>14. m2[h + 12] = PACK(n, 0) /\ m2[h + n + 8] = PACK(n, 0) /\ m2[h + n + 12] = PACK(0, 1)
    BY <2>6, <2>10
  <2>15. Fresh(coalesce(m2, h, h + 16).m, h, n)
    BY <2>3, <2>7, <2>9, <2>12, <2>13, <2>14, FirstBlock
  <2>16. Fresh(c.m, h, n)
    BY <2>6, <2>15
  <2> QED BY <1>7, <2>1, <2>4, <2>16 DEF lo, h, k, n
<1> QED BY <1>5, <1>6, <1>7

(* Two fresh heaps agree wherever the allocator reads first. *)
LEMMA FreshAgree ==
  ASSUME NEW h, h = mem_start_brk + 8, NEW n, Growth(n),
         NEW m, Fresh(m, h, n), NEW m2, Fresh(m2, h, n),
         NEW a \in FirstWords(h + 16 + n)
  PROVE  m[a] = m2[a]
<1>1. mem_start_brk \in Nat /\ mem_start_brk % 8 = 0 /\ n \in Nat /\ n % 8 = 0
  BY MemAssumption DEF Growth
<1>2. a \in Nat /\ a % 4 = 0 /\ mem_start_brk <= a
  BY MemAssumption DEF FirstWords, Words, Addr, mem_max_addr, WSIZE
<1>3. a < mem_start_brk + 32 \/ (h + 8 + n <= a /\ a < h + 16 + n)
  BY <1>1, <1>2 DEF FirstWords, Words, DSIZE, WSIZE
<1>4. CASE a < mem_start_brk + 32
  <2>1. a \in {h - 8, h - 4, h, h + 4, h + 8, h + 12, h + 16, h + 20}
    BY <1>1, <1>2, <1>4
  <2> QED BY <2>1 DEF Fresh
<1>5. CASE h + 8 + n <= a /\ a < h + 16 + n
  <2>1. a \in {h + n + 8, h + n + 12}
    BY <1>1, <1>2, <1>5
  <2> QED BY <2>1 DEF Fresh
<1> QED BY <1>3, <1>4, <1>5

(* The step that starts a pass. *)
LEMMA StartPassForgets ==
  ASSUME TypeOK, StartPass
  PROVE  LET fresh == mm_init([a \in Addr |-> 0], mem_start_brk)
         IN  /\ mem_brk' = fresh.brk /\ heap_listp' = fresh.listp
             /\ Up' = fresh.ok
             /\ Up' => \A a \in FirstWords(mem_brk') : mem'[a] = fresh.m[a]
             /\ \A i \in Ids : blocks'[i] = NULL
<1> DEFINE z  == [a \in Addr |-> 0]
           r  == mm_init(mem, mem_start_brk)
           r0 == mm_init(z, mem_start_brk)
           h  == mem_start_brk + 8
           n  == CHUNKSIZE
<1>1. /\ mem' = r.m /\ mem_brk' = r.brk /\ heap_listp' = r.listp
      /\ call' = IF r.ok THEN Idle(FALSE) ELSE Down
      /\ \A i \in Ids : blocks'[i] = NULL
  BY DEF StartPass
<1>2. Mem(mem) /\ Mem(z)
  BY DEF TypeOK, Mem
<1>3. /\ r.ok = r0.ok /\ r.brk = r0.brk /\ r.listp = r0.listp /\ r.ok \in BOOLEAN
      /\ r.ok => /\ Fresh(r.m, h, n) /\ Fresh(r0.m, h, n)
                 /\ r.brk = mem_start_brk + 24 + n
  <2> HIDE DEF z, r, r0
  <2>1. r = mm_init(mem, mem_start_brk) /\ r0 = mm_init(z, mem_start_brk)
    BY DEF r, r0
  <2> QED BY <2>1, <1>2, InitFresh
<1> HIDE DEF r, r0
<1>4. Up' = r.ok
  <2>1. Idle(FALSE).pc = "idle" /\ Down.pc = "down"
    BY DEF Idle, Down
  <2> QED BY <2>1, <1>1, <1>3 DEF Up
<1>5. ASSUME r.ok, NEW a \in FirstWords(mem_brk') PROVE mem'[a] = r0.m[a]
  <2>1. Growth(n) /\ mem_brk' = h + 16 + n
    <3>1. /\ n \in Nat /\ n % 8 = 0 /\ n >= 16 /\ mem_max_addr + n < WORD
          /\ mem_start_brk \in Nat
      BY MemAssumption, ExplicitAssumption
    <3> QED BY <3>1, <1>1, <1>3, <1>5 DEF Growth
  <2>2. Fresh(r.m, h, n) /\ Fresh(r0.m, h, n) /\ h = mem_start_brk + 8
    BY <1>3, <1>5
  <2> HIDE DEF h, n
  <2> QED BY <1>1, <1>5, <2>1, <2>2, FreshAgree
<1> QED BY <1>1, <1>3, <1>4, <1>5 DEF r0, z

(* A pass that starts finds the heap as on a region of zeros, whatever the *)
(* pass before left in it.                                                 *)
THEOREM PassesForget == Spec => RestartForgets
<1>1. TypeOK /\ [Next]_vars =>
        [passes' # passes =>
          LET fresh == mm_init([a \in Addr |-> 0], mem_start_brk)
          IN  /\ mem_brk' = fresh.brk /\ heap_listp' = fresh.listp
              /\ Up' = fresh.ok
              /\ Up' => \A a \in FirstWords(mem_brk') : mem'[a] = fresh.m[a]
              /\ \A i \in Ids : blocks'[i] = NULL]_vars
  <2>1. Next /\ passes' # passes => StartPass
    BY DEF Next, RequestZero, MallocCall, ReallocCall, Request, FindFit, FindFitNext,
           FindFitFound, FindFitNone, PlaceFit, GrowAndPlace, GrowFails, Fill, Free, Return
  <2> QED BY <2>1, StartPassForgets
<1>2. IInv => TypeOK
  BY DEF IInv
<1> QED BY <1>1, <1>2, Invariant, PTL DEF Spec, RestartForgets

=============================================================================
