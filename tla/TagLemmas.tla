------------------------------ MODULE TagLemmas ------------------------------
(***************************************************************************)
(* What the boundary tags of BlockTags say of a heap, and what writing     *)
(* them does to it.  The tags of a heap are a function T from its blocks   *)
(* to their headers, k is its break; no memory is mentioned until Tagged   *)
(* says that a memory holds these tags.                                    *)
(***************************************************************************)
EXTENDS Memlib, FiniteSetTheorems, WellFoundedInduction, TLAPS

Blocks(T)    == DOMAIN T
Size(T, b)   == SizeOf(T[b])
IsFree(T, b) == AllocOf(T[b]) = 0
EndOf(T, b)  == b + Size(T, b)

(* The prologue. *)
h0 == mem_start_brk + DSIZE

(* Headers are packed from a size and a bit; the blocks lie end to end     *)
(* from the prologue to the break.                                         *)
BlockIn(T, k, b) ==
    /\ b \in Nat /\ b % 8 = 0 /\ h0 <= b
    /\ Size(T, b) \in Nat /\ Size(T, b) % 8 = 0 /\ Size(T, b) >= 8
    /\ T[b] \in {PACK(Size(T, b), 0), PACK(Size(T, b), 1)}
    /\ EndOf(T, b) \in Blocks(T) \cup {k} /\ EndOf(T, b) <= k

Shape(T, k) ==
    /\ T = [b \in Blocks(T) |-> T[b]]
    /\ k \in Nat /\ k <= mem_max_addr
    /\ h0 \in Blocks(T) /\ ~IsFree(T, h0)
    /\ \A b \in Blocks(T) : BlockIn(T, k, b)
    /\ \A b, c \in Blocks(T) : b < c => EndOf(T, b) <= c
    /\ \A c \in (Blocks(T) \ {h0}) \cup {k} : \E b \in Blocks(T) : EndOf(T, b) = c

(* One word per address of the region. *)
Mem(m) == m \in [Addr -> Nat]

(* The memory m holds the tags T of a heap with the break k: header and    *)
(* footer of each block, and the epilogue.                                 *)
Tagged(m, T, k) ==
    /\ Mem(m)
    /\ \A b \in Blocks(T) : m[b - 4] = T[b] /\ m[EndOf(T, b) - 8] = T[b]
    /\ m[k - 4] = PACK(0, 1)

-----------------------------------------------------------------------------
(* Words *)

(* A tag holds the size and the bit it was packed from. *)
LEMMA PackFacts ==
  ASSUME NEW s \in Nat, s % 8 = 0, NEW al \in {0, 1}
  PROVE  /\ PACK(s, al) \in Nat
         /\ SizeOf(PACK(s, al)) = s
         /\ AllocOf(PACK(s, al)) = al
BY DEF PACK, SizeOf, AllocOf

(* Multiples of 8 are closed under sum and difference. *)
LEMMA AlignedSum ==
  ASSUME NEW a \in Int, NEW b \in Int, a % 8 = 0, b % 8 = 0
  PROVE  (a + b) % 8 = 0 /\ (a - b) % 8 = 0
OBVIOUS

(* Words around a multiple of 8 inside the region. *)
LEMMA AddrFacts ==
  ASSUME NEW a \in Nat, a % 8 = 0
  PROVE  /\ mem_start_brk <= a /\ a < mem_max_addr => a \in Addr
         /\ mem_start_brk <= a /\ a < mem_max_addr => a + 4 \in Addr
         /\ mem_start_brk < a /\ a <= mem_max_addr => a - 4 \in Addr
         /\ mem_start_brk < a /\ a <= mem_max_addr => a - 8 \in Addr
BY MemAssumption DEF Addr, mem_max_addr, WSIZE

(* The region is made of natural numbers. *)
LEMMA RegionFacts ==
  /\ mem_start_brk \in Nat /\ mem_start_brk > 0 /\ mem_start_brk % 8 = 0
  /\ mem_max_addr \in Nat /\ mem_max_addr % 8 = 0 /\ mem_start_brk < mem_max_addr
  /\ mem_max_addr < WORD /\ WORD \in Nat /\ WORD % 16 = 0
  /\ h0 \in Nat /\ h0 % 8 = 0 /\ h0 = mem_start_brk + 8
  /\ \A a \in Addr : a \in Nat
BY MemAssumption DEF mem_max_addr, h0, DSIZE, Addr

(* The header of a block determines the rest. *)
LEMMA TagFacts ==
  ASSUME NEW T, NEW b, NEW s \in Nat, s % 8 = 0, NEW al \in {0, 1}, T[b] = PACK(s, al)
  PROVE  Size(T, b) = s /\ EndOf(T, b) = b + s /\ (IsFree(T, b) <=> al = 0)
BY PackFacts DEF Size, EndOf, IsFree

-----------------------------------------------------------------------------
(* Shapes *)

(* The arithmetic of the blocks of a heap. *)
LEMMA ShapeFacts ==
  ASSUME NEW T, NEW k, Shape(T, k)
  PROVE  /\ h0 \in Blocks(T) /\ ~IsFree(T, h0)
         /\ k \in Nat /\ k % 8 = 0 /\ h0 + 8 <= k /\ k <= mem_max_addr /\ k - 4 \in Addr
         /\ \A b \in Blocks(T) :
              /\ b \in Nat /\ b % 8 = 0 /\ h0 <= b /\ b < k
              /\ Size(T, b) \in Nat /\ Size(T, b) % 8 = 0 /\ Size(T, b) >= 8
              /\ EndOf(T, b) \in Nat /\ EndOf(T, b) = b + Size(T, b) /\ EndOf(T, b) <= k
              /\ EndOf(T, b) % 8 = 0
              /\ b - 4 \in Addr /\ EndOf(T, b) - 8 \in Addr
              /\ EndOf(T, b) \in Blocks(T) \cup {k}
              /\ T[b] = PACK(Size(T, b), IF IsFree(T, b) THEN 0 ELSE 1) /\ T[b] \in Nat
         /\ \A b, c \in Blocks(T) : b < c => EndOf(T, b) <= c
         /\ \A b, c \in Blocks(T) : EndOf(T, b) = EndOf(T, c) => b = c
         /\ \A c \in (Blocks(T) \ {h0}) \cup {k} : \E b \in Blocks(T) : EndOf(T, b) = c
<1>1. \A b \in Blocks(T) : BlockIn(T, k, b)
  BY DEF Shape
<1>2. k \in Nat /\ k <= mem_max_addr /\ h0 \in Blocks(T)
  BY DEF Shape
<1>3. \A b \in Blocks(T) :
         /\ b \in Nat /\ b % 8 = 0 /\ h0 <= b
         /\ Size(T, b) \in Nat /\ Size(T, b) % 8 = 0 /\ Size(T, b) >= 8
         /\ EndOf(T, b) \in Nat /\ EndOf(T, b) = b + Size(T, b) /\ EndOf(T, b) <= k
         /\ EndOf(T, b) \in Blocks(T) \cup {k}
  BY <1>1 DEF BlockIn, EndOf
<1>4. \A b \in Blocks(T) : EndOf(T, b) % 8 = 0 /\ b < k
  BY <1>2, <1>3, AlignedSum
<1>5. ASSUME NEW b \in Blocks(T)
      PROVE  T[b] = PACK(Size(T, b), IF IsFree(T, b) THEN 0 ELSE 1) /\ T[b] \in Nat
  <2>1. T[b] \in {PACK(Size(T, b), 0), PACK(Size(T, b), 1)}
    BY <1>1 DEF BlockIn
  <2>2. CASE T[b] = PACK(Size(T, b), 0)
    <3>1. IsFree(T, b) /\ T[b] \in Nat
      BY <2>2, <1>3, PackFacts DEF IsFree
    <3> QED BY <2>2, <3>1
  <2>3. CASE T[b] = PACK(Size(T, b), 1)
    <3>1. ~IsFree(T, b) /\ T[b] \in Nat
      BY <2>3, <1>3, PackFacts DEF IsFree
    <3> QED BY <2>3, <3>1
  <2> QED BY <2>1, <2>2, <2>3
<1>6. ~IsFree(T, h0)
  BY DEF Shape
<1>7. h0 + 8 <= k
  BY <1>2, <1>3
<1>8. \A c \in (Blocks(T) \ {h0}) \cup {k} : \E b \in Blocks(T) : EndOf(T, b) = c
  BY DEF Shape
<1>9. k % 8 = 0
  BY <1>4, <1>8
<1>10. \A b, c \in Blocks(T) : b < c => EndOf(T, b) <= c
  BY DEF Shape
<1>11. \A b, c \in Blocks(T) : EndOf(T, b) = EndOf(T, c) => b = c
  <2> SUFFICES ASSUME NEW b \in Blocks(T), NEW c \in Blocks(T), b < c,
                      EndOf(T, b) = EndOf(T, c)
               PROVE  FALSE
    BY <1>3
  <2> QED BY <1>3, <1>10
<1>12. k - 4 \in Addr
  BY <1>2, <1>7, <1>9, AddrFacts, RegionFacts
<1>13. ASSUME NEW b \in Blocks(T) PROVE b - 4 \in Addr /\ EndOf(T, b) - 8 \in Addr
  <2>1. /\ b \in Nat /\ b % 8 = 0 /\ mem_start_brk < b /\ b <= mem_max_addr
    BY <1>2, <1>3, <1>4, RegionFacts
  <2>2. /\ EndOf(T, b) \in Nat /\ EndOf(T, b) % 8 = 0 /\ mem_start_brk < EndOf(T, b)
        /\ EndOf(T, b) <= mem_max_addr
    BY <1>2, <1>3, <1>4, RegionFacts
  <2> QED BY <2>1, <2>2, AddrFacts
<1> QED BY <1>2, <1>3, <1>4, <1>5, <1>6, <1>7, <1>8, <1>9, <1>10, <1>11, <1>12, <1>13

(* Blocks that end at or before another one, or start after its end.       *)
LEMMA Sides ==
  ASSUME NEW T, NEW k, Shape(T, k), NEW x \in Blocks(T), NEW b \in Blocks(T), b # x
  PROVE  EndOf(T, b) <= x \/ EndOf(T, x) <= b
<1>1. b \in Nat /\ x \in Nat
  BY ShapeFacts
<1> QED BY <1>1, ShapeFacts

-----------------------------------------------------------------------------
(* The blocks from x to e become one block. *)
Join(T, x, e, al) ==
    [b \in {c \in Blocks(T) : c <= x \/ c >= e} |->
        IF b = x THEN PACK(e - x, al) ELSE T[b]]

(* Merging blocks (coalesce) and, with e the end of x, retagging one       *)
(* (free, place).                                                          *)
LEMMA JoinShape ==
  ASSUME NEW T, NEW k, Shape(T, k), NEW x \in Blocks(T) \ {h0},
         NEW e \in Blocks(T) \cup {k}, x < e, NEW al \in {0, 1},
         NEW T2, T2 = Join(T, x, e, al)
  PROVE  /\ Shape(T2, k)
         /\ x \in Blocks(T2) /\ Size(T2, x) = e - x /\ EndOf(T2, x) = e
         /\ IsFree(T2, x) <=> al = 0
         /\ \A b : b \in Blocks(T2) <=> b \in Blocks(T) /\ (b <= x \/ b >= e)
         /\ \A b \in Blocks(T2) : b # x => /\ T2[b] = T[b]
                                         /\ Size(T2, b) = Size(T, b)
                                         /\ EndOf(T2, b) = EndOf(T, b)
                                         /\ (IsFree(T2, b) <=> IsFree(T, b))
                                         /\ (EndOf(T, b) <= x \/ b >= e)
<1>1. /\ k \in Nat /\ h0 \in Blocks(T) /\ k <= mem_max_addr /\ h0 \in Nat
      /\ \A b \in Blocks(T) : /\ b \in Nat /\ b % 8 = 0 /\ h0 <= b /\ b < k
                              /\ EndOf(T, b) \in Nat /\ EndOf(T, b) > b /\ EndOf(T, b) <= k
                              /\ EndOf(T, b) \in Blocks(T) \cup {k}
      /\ \A b, c \in Blocks(T) : b < c => EndOf(T, b) <= c
      /\ \A c \in (Blocks(T) \ {h0}) \cup {k} : \E b \in Blocks(T) : EndOf(T, b) = c
      /\ k % 8 = 0
  BY ShapeFacts, RegionFacts
<1>2. x \in Nat /\ e \in Nat /\ e % 8 = 0 /\ x % 8 = 0 /\ e <= k /\ e - x \in Nat /\ h0 < x
  <2>1. x \in Nat /\ x % 8 = 0 /\ h0 < x
    BY <1>1
  <2>2. e \in Nat /\ e % 8 = 0 /\ e <= k
    BY <1>1
  <2> QED BY <2>1, <2>2
<1>3. (e - x) % 8 = 0 /\ e - x >= 8
  <2>1. (e - x) % 8 = 0
    BY <1>2, AlignedSum
  <2> QED BY <2>1, <1>2
<1>4. /\ Blocks(T2) = {c \in Blocks(T) : c <= x \/ c >= e}
      /\ \A b \in Blocks(T2) : T2[b] = IF b = x THEN PACK(e - x, al) ELSE T[b]
      /\ T2 = [b \in Blocks(T2) |-> T2[b]]
  BY DEF Join, Blocks
<1>5. x \in Blocks(T2) /\ T2[x] = PACK(e - x, al)
  BY <1>1, <1>2, <1>4
<1>6. Size(T2, x) = e - x /\ EndOf(T2, x) = e /\ (IsFree(T2, x) <=> al = 0)
  <2>1. /\ Size(T2, x) = e - x /\ EndOf(T2, x) = x + (e - x)
        /\ (IsFree(T2, x) <=> al = 0)
    <3> DEFINE s == e - x
    <3>1. s \in Nat /\ s % 8 = 0 /\ T2[x] = PACK(s, al)
      BY <1>2, <1>3, <1>5
    <3> HIDE DEF s
    <3>2. Size(T2, x) = s /\ EndOf(T2, x) = x + s /\ (IsFree(T2, x) <=> al = 0)
      BY <3>1, TagFacts
    <3> QED BY <3>2 DEF s
  <2> QED BY <2>1, <1>2
<1>7. \A b \in Blocks(T2) : b # x => /\ T2[b] = T[b]
                                    /\ Size(T2, b) = Size(T, b)
                                    /\ EndOf(T2, b) = EndOf(T, b)
                                    /\ (IsFree(T2, b) <=> IsFree(T, b))
  BY <1>4 DEF Size, EndOf, IsFree
<1>8. \A b \in Blocks(T2) : b # x => EndOf(T, b) <= x \/ b >= e
  BY <1>1, <1>2, <1>4
<1>9. h0 \in Blocks(T2) /\ ~IsFree(T2, h0)
  BY <1>1, <1>2, <1>4, <1>7 DEF Shape
<1>10. ASSUME NEW b \in Blocks(T2) PROVE BlockIn(T2, k, b)
  <2>1. CASE b = x
    <3>1. EndOf(T2, x) \in Blocks(T2) \cup {k}
      BY <1>1, <1>2, <1>4, <1>6
    <3> QED BY <2>1, <3>1, <1>1, <1>2, <1>3, <1>5, <1>6 DEF BlockIn
  <2>2. CASE b # x
    <3>1. BlockIn(T, k, b)
      BY <1>4 DEF Shape
    <3>2. EndOf(T, b) \in Blocks(T2) \cup {k}
      <4>1. EndOf(T, b) \in Blocks(T) \cup {k} /\ EndOf(T, b) \in Nat /\ EndOf(T, b) > b
            /\ b \in Nat
        BY <1>1, <1>4
      <4> QED BY <4>1, <2>2, <1>2, <1>4, <1>8
    <3> QED BY <2>2, <3>1, <3>2, <1>7 DEF BlockIn
  <2> QED BY <2>1, <2>2
<1>11. ASSUME NEW b \in Blocks(T2), NEW c \in Blocks(T2), b < c
       PROVE  EndOf(T2, b) <= c
  <2>1. b \in Nat /\ c \in Nat /\ b \in Blocks(T) /\ c \in Blocks(T)
    BY <1>1, <1>4
  <2>2. CASE b = x
    BY <2>1, <2>2, <1>2, <1>4, <1>6, <1>11
  <2>3. CASE b # x
    BY <2>1, <2>3, <1>1, <1>7, <1>11
  <2> QED BY <2>2, <2>3
<1>12. ASSUME NEW c \in (Blocks(T2) \ {h0}) \cup {k}
       PROVE  \E b \in Blocks(T2) : EndOf(T2, b) = c
  <2>1. CASE c = e
    BY <2>1, <1>5, <1>6
  <2>2. CASE c # e
    <3>1. c \in (Blocks(T) \ {h0}) \cup {k}
      BY <1>4
    <3>2. PICK b \in Blocks(T) : EndOf(T, b) = c
      BY <3>1, <1>1
    <3>3. c \in Nat /\ (c <= x \/ c > e)
      <4>1. CASE c = k
        BY <4>1, <2>2, <1>1, <1>2
      <4>2. CASE c \in Blocks(T2)
        <5>1. c \in Nat /\ (c <= x \/ c >= e)
          BY <4>2, <1>1, <1>4
        <5> QED BY <5>1, <2>2, <1>2
      <4> QED BY <4>1, <4>2
    <3>4. b < x \/ b >= e
      <4>1. CASE c <= x
        BY <4>1, <3>2, <1>1, <1>2
      <4>2. CASE c > e
        <5>1. CASE e = k
          BY <5>1, <4>2, <3>2, <1>1
        <5>2. CASE e \in Blocks(T)
          <6>1. ~(b < e)
            BY <5>2, <4>2, <3>2, <3>3, <1>1, <1>2
          <6> QED BY <6>1, <1>1, <1>2
        <5> QED BY <5>1, <5>2
      <4> QED BY <4>1, <4>2, <3>3
    <3> QED BY <3>2, <3>4, <1>1, <1>2, <1>4, <1>7
  <2> QED BY <2>1, <2>2
<1>13. Shape(T2, k)
  BY <1>1, <1>4, <1>9, <1>10, <1>11, <1>12 DEF Shape
<1> QED BY <1>4, <1>5, <1>6, <1>7, <1>8, <1>13

(* The block x becomes an allocated one that ends at y and a free one.     *)
Cut(T, x, y) ==
    [b \in Blocks(T) \cup {y} |->
        CASE b = x -> PACK(y - x, 1)
          [] b = y -> PACK(EndOf(T, x) - y, 0)
          [] OTHER -> T[b]]

(* Splitting a block (place). *)
LEMMA CutShape ==
  ASSUME NEW T, NEW k, Shape(T, k), NEW x \in Blocks(T) \ {h0},
         NEW y \in Nat, y % 8 = 0, x + 8 <= y, y + 8 <= EndOf(T, x),
         NEW T2, T2 = Cut(T, x, y)
  PROVE  /\ Shape(T2, k) /\ y \notin Blocks(T) /\ Blocks(T2) = Blocks(T) \cup {y}
         /\ Size(T2, x) = y - x /\ EndOf(T2, x) = y /\ ~IsFree(T2, x)
         /\ Size(T2, y) = EndOf(T, x) - y /\ EndOf(T2, y) = EndOf(T, x) /\ IsFree(T2, y)
         /\ T2[x] = PACK(y - x, 1) /\ T2[y] = PACK(EndOf(T, x) - y, 0)
         /\ \A b \in Blocks(T) : b # x => /\ T2[b] = T[b]
                                        /\ Size(T2, b) = Size(T, b)
                                        /\ EndOf(T2, b) = EndOf(T, b)
                                        /\ (IsFree(T2, b) <=> IsFree(T, b))
                                        /\ (EndOf(T, b) <= x \/ b >= EndOf(T, x))
<1> DEFINE e == EndOf(T, x)
<1>1. /\ k \in Nat /\ h0 \in Blocks(T) /\ k <= mem_max_addr /\ h0 \in Nat
      /\ \A b \in Blocks(T) : /\ b \in Nat /\ b % 8 = 0 /\ h0 <= b /\ b < k
                              /\ EndOf(T, b) \in Nat /\ EndOf(T, b) > b /\ EndOf(T, b) <= k
                              /\ EndOf(T, b) \in Blocks(T) \cup {k}
                              /\ EndOf(T, b) % 8 = 0
      /\ \A b, c \in Blocks(T) : b < c => EndOf(T, b) <= c
      /\ \A c \in (Blocks(T) \ {h0}) \cup {k} : \E b \in Blocks(T) : EndOf(T, b) = c
  BY ShapeFacts, RegionFacts
<1>2. /\ x \in Nat /\ x % 8 = 0 /\ e \in Nat /\ e % 8 = 0 /\ e <= k /\ x \in Blocks(T)
      /\ e \in Blocks(T) \cup {k} /\ h0 < x /\ y - x \in Nat /\ e - y \in Nat
      /\ y - x >= 8 /\ e - y >= 8 /\ x < y /\ y < e
  BY <1>1
<1>3. (y - x) % 8 = 0 /\ (e - y) % 8 = 0
  <2> HIDE DEF e
  <2>1. (y - x) % 8 = 0
    BY <1>2, AlignedSum
  <2>2. (e - y) % 8 = 0
    BY <1>2, AlignedSum
  <2> QED BY <2>1, <2>2
<1>4. \A b \in Blocks(T) : b # x => EndOf(T, b) <= x \/ b >= e
  BY Sides
<1> HIDE DEF e
<1>5. y \notin Blocks(T)
  BY <1>1, <1>2, <1>4
<1>6. /\ Blocks(T2) = Blocks(T) \cup {y}
      /\ T2[x] = PACK(y - x, 1) /\ T2[y] = PACK(e - y, 0)
      /\ \A b \in Blocks(T) : b # x => T2[b] = T[b]
      /\ T2 = [b \in Blocks(T2) |-> T2[b]]
  BY <1>2, <1>5 DEF Cut, Blocks, e
<1>7. Size(T2, x) = y - x /\ EndOf(T2, x) = y /\ ~IsFree(T2, x)
  <2> DEFINE s == y - x
  <2>1. s \in Nat /\ s % 8 = 0 /\ T2[x] = PACK(s, 1) /\ x + s = y
    BY <1>2, <1>3, <1>6
  <2> HIDE DEF s
  <2>2. Size(T2, x) = s /\ EndOf(T2, x) = x + s /\ ~IsFree(T2, x)
    BY <2>1, TagFacts
  <2> QED BY <2>1, <2>2 DEF s
<1>8. Size(T2, y) = e - y /\ EndOf(T2, y) = e /\ IsFree(T2, y)
  <2> DEFINE s == e - y
  <2>1. s \in Nat /\ s % 8 = 0 /\ T2[y] = PACK(s, 0) /\ y + s = e
    BY <1>2, <1>3, <1>6
  <2> HIDE DEF s
  <2>2. Size(T2, y) = s /\ EndOf(T2, y) = y + s /\ IsFree(T2, y)
    BY <2>1, TagFacts
  <2> QED BY <2>1, <2>2 DEF s
<1>9. \A b \in Blocks(T) : b # x => /\ Size(T2, b) = Size(T, b)
                                   /\ EndOf(T2, b) = EndOf(T, b)
                                   /\ (IsFree(T2, b) <=> IsFree(T, b))
  BY <1>6 DEF Size, EndOf, IsFree
<1>10. h0 \in Blocks(T2) /\ ~IsFree(T2, h0)
  BY <1>1, <1>2, <1>6, <1>9 DEF Shape
<1>11. ASSUME NEW b \in Blocks(T2) PROVE BlockIn(T2, k, b)
  <2>1. CASE b = x
    BY <2>1, <1>1, <1>2, <1>3, <1>6, <1>7 DEF BlockIn
  <2>2. CASE b = y
    BY <2>2, <1>1, <1>2, <1>3, <1>6, <1>8 DEF BlockIn
  <2>3. CASE b # x /\ b # y
    <3>1. BlockIn(T, k, b) /\ b \in Blocks(T)
      BY <2>3, <1>6 DEF Shape
    <3> QED BY <2>3, <3>1, <1>6, <1>9 DEF BlockIn
  <2> QED BY <2>1, <2>2, <2>3
<1>12. ASSUME NEW b \in Blocks(T2), NEW c \in Blocks(T2), b < c
       PROVE  EndOf(T2, b) <= c
  <2>1. c \in Nat /\ b \in Nat
    BY <1>1, <1>6
  <2>2. CASE b = x
    <3>1. CASE c = y
      BY <3>1, <2>1, <2>2, <1>7
    <3>2. CASE c # y
      BY <3>2, <2>1, <2>2, <1>1, <1>2, <1>4, <1>6, <1>7, <1>12
    <3> QED BY <3>1, <3>2
  <2>3. CASE b = y
    <3>1. c \in Blocks(T) /\ c # x
      BY <2>3, <1>2, <1>6, <1>12
    <3>2. c >= e
      <4>1. EndOf(T, c) <= x \/ c >= e
        BY <3>1, <1>4
      <4>2. EndOf(T, c) > c /\ EndOf(T, c) \in Nat
        BY <3>1, <1>1
      <4> QED BY <4>1, <4>2, <2>1, <2>3, <1>2, <1>12
    <3> QED BY <3>2, <2>1, <2>3, <1>2, <1>8
  <2>4. CASE b # x /\ b # y
    <3>1. b \in Blocks(T) /\ EndOf(T2, b) = EndOf(T, b) /\ EndOf(T, b) \in Nat
      BY <2>4, <1>1, <1>6, <1>9
    <3>2. CASE c = y
      <4>1. EndOf(T, b) <= x \/ b >= e
        BY <3>1, <2>4, <1>4
      <4> QED BY <4>1, <3>1, <3>2, <2>1, <1>2, <1>12
    <3>3. CASE c # y
      BY <3>1, <3>3, <1>1, <1>6, <1>12
    <3> QED BY <3>2, <3>3
  <2> QED BY <2>2, <2>3, <2>4
<1>13. ASSUME NEW c \in (Blocks(T2) \ {h0}) \cup {k}
       PROVE  \E b \in Blocks(T2) : EndOf(T2, b) = c
  <2>1. CASE c = y
    BY <2>1, <1>2, <1>6, <1>7
  <2>2. CASE c # y
    <3>1. PICK b \in Blocks(T) : EndOf(T, b) = c
      BY <2>2, <1>1, <1>6
    <3>2. CASE b = x
      BY <3>1, <3>2, <1>6, <1>8 DEF e
    <3>3. CASE b # x
      BY <3>1, <3>3, <1>6, <1>9
    <3> QED BY <3>2, <3>3
  <2> QED BY <2>1, <2>2
<1>14. Shape(T2, k)
  BY <1>1, <1>6, <1>10, <1>11, <1>12, <1>13 DEF Shape
<1> QED BY <1>4, <1>5, <1>6, <1>7, <1>8, <1>9, <1>14 DEF e

(* A free block from the break k to e. *)
Grow(T, k, e) == [b \in Blocks(T) \cup {k} |-> IF b = k THEN PACK(e - k, 0) ELSE T[b]]

(* The heap grows by one free block (extend_heap). *)
LEMMA GrowShape ==
  ASSUME NEW T, NEW k, Shape(T, k), NEW e \in Nat, e % 8 = 0, k + 8 <= e, e <= mem_max_addr,
         NEW T2, T2 = Grow(T, k, e)
  PROVE  /\ Shape(T2, e) /\ k \notin Blocks(T) /\ Blocks(T2) = Blocks(T) \cup {k}
         /\ Size(T2, k) = e - k /\ EndOf(T2, k) = e /\ IsFree(T2, k)
         /\ T2[k] = PACK(e - k, 0)
         /\ \A b \in Blocks(T) : /\ T2[b] = T[b]
                               /\ Size(T2, b) = Size(T, b)
                               /\ EndOf(T2, b) = EndOf(T, b)
                               /\ (IsFree(T2, b) <=> IsFree(T, b))
<1>1. /\ k \in Nat /\ h0 \in Blocks(T) /\ h0 \in Nat /\ h0 < k /\ k % 8 = 0
      /\ \A b \in Blocks(T) : /\ b \in Nat /\ b < k
                              /\ EndOf(T, b) \in Nat /\ EndOf(T, b) <= k
      /\ \A c \in (Blocks(T) \ {h0}) \cup {k} : \E b \in Blocks(T) : EndOf(T, b) = c
      /\ \A b, c \in Blocks(T) : b < c => EndOf(T, b) <= c
  BY ShapeFacts, RegionFacts
<1>2. k \notin Blocks(T) /\ e - k \in Nat /\ (e - k) % 8 = 0 /\ e - k >= 8
  <2>1. (e - k) % 8 = 0
    BY <1>1, AlignedSum
  <2> QED BY <2>1, <1>1
<1>3. /\ Blocks(T2) = Blocks(T) \cup {k} /\ T2[k] = PACK(e - k, 0)
      /\ \A b \in Blocks(T) : T2[b] = T[b]
      /\ T2 = [b \in Blocks(T2) |-> T2[b]]
  BY <1>2 DEF Grow, Blocks
<1>4. Size(T2, k) = e - k /\ EndOf(T2, k) = e /\ IsFree(T2, k)
  <2> DEFINE s == e - k
  <2>1. s \in Nat /\ s % 8 = 0 /\ T2[k] = PACK(s, 0) /\ k + s = e
    BY <1>1, <1>2, <1>3
  <2> HIDE DEF s
  <2>2. Size(T2, k) = s /\ EndOf(T2, k) = k + s /\ IsFree(T2, k)
    BY <2>1, TagFacts
  <2> QED BY <2>1, <2>2 DEF s
<1>5. \A b \in Blocks(T) : /\ Size(T2, b) = Size(T, b)
                          /\ EndOf(T2, b) = EndOf(T, b)
                          /\ (IsFree(T2, b) <=> IsFree(T, b))
  BY <1>3 DEF Size, EndOf, IsFree
<1>6. ASSUME NEW b \in Blocks(T2) PROVE BlockIn(T2, e, b)
  <2>1. CASE b = k
    BY <2>1, <1>1, <1>2, <1>3, <1>4 DEF BlockIn
  <2>2. CASE b # k
    <3>1. BlockIn(T, k, b) /\ b \in Blocks(T)
      BY <2>2, <1>3 DEF Shape
    <3>2. EndOf(T, b) \in Nat /\ EndOf(T, b) <= e
      BY <3>1, <1>1
    <3> QED BY <3>1, <3>2, <1>3, <1>5 DEF BlockIn
  <2> QED BY <2>1, <2>2
<1>7. ASSUME NEW b \in Blocks(T2), NEW c \in Blocks(T2), b < c
      PROVE  EndOf(T2, b) <= c
  <2>1. b # k /\ b \in Blocks(T) /\ EndOf(T2, b) = EndOf(T, b)
    BY <1>1, <1>3, <1>5, <1>7
  <2> QED BY <2>1, <1>1, <1>3, <1>7
<1>8. ASSUME NEW c \in (Blocks(T2) \ {h0}) \cup {e}
      PROVE  \E b \in Blocks(T2) : EndOf(T2, b) = c
  <2>1. CASE c = e
    BY <2>1, <1>3, <1>4
  <2>2. CASE c # e
    <3>1. PICK b \in Blocks(T) : EndOf(T, b) = c
      BY <2>2, <1>1, <1>3
    <3> QED BY <3>1, <1>3, <1>5
  <2> QED BY <2>1, <2>2
<1>9. h0 \in Blocks(T2) /\ ~IsFree(T2, h0)
  BY <1>1, <1>3, <1>5 DEF Shape
<1>10. Shape(T2, e)
  BY <1>3, <1>6, <1>7, <1>8, <1>9 DEF Shape
<1> QED BY <1>2, <1>3, <1>4, <1>5, <1>10

(* The allocated blocks. *)
Allocs(T) == {b \in Blocks(T) : ~IsFree(T, b)}

(* No two neighbours are free, save perhaps when one of them is x. *)
SeparateBut(T, x) ==
    \A b, c \in Blocks(T) :
        EndOf(T, b) = c /\ b # x /\ c # x => ~(IsFree(T, b) /\ IsFree(T, c))

Separate(T) ==
    \A b, c \in Blocks(T) : EndOf(T, b) = c => ~(IsFree(T, b) /\ IsFree(T, c))

(* The heap of mm_init before it asks for the first block: a prologue of n *)
(* bytes.                                                                  *)
Bare(n) == [b \in {h0} |-> PACK(n, 1)]

(* It is one. *)
LEMMA BareShape ==
  ASSUME NEW n \in Nat, n % 8 = 0, n >= 8, h0 + n <= mem_max_addr
  PROVE  /\ Shape(Bare(n), h0 + n) /\ Separate(Bare(n)) /\ Allocs(Bare(n)) = {h0}
         /\ Blocks(Bare(n)) = {h0} /\ Bare(n)[h0] = PACK(n, 1)
         /\ Size(Bare(n), h0) = n /\ EndOf(Bare(n), h0) = h0 + n /\ ~IsFree(Bare(n), h0)
<1> DEFINE B == Bare(n)
<1>1. Blocks(B) = {h0} /\ B[h0] = PACK(n, 1) /\ h0 \in Nat /\ h0 % 8 = 0
      /\ B = [b \in Blocks(B) |-> B[b]]
  BY RegionFacts DEF Blocks, Bare
<1> HIDE DEF B
<1>2. /\ Size(B, h0) = n /\ EndOf(B, h0) = h0 + n /\ ~IsFree(B, h0)
  BY <1>1, TagFacts
<1>3. BlockIn(B, h0 + n, h0)
  BY <1>1, <1>2 DEF BlockIn
<1>4. Shape(B, h0 + n)
  BY <1>1, <1>2, <1>3 DEF Shape
<1>5. Separate(B) /\ Allocs(B) = {h0}
  BY <1>1, <1>2 DEF Separate, Allocs
<1> QED BY <1>1, <1>2, <1>4, <1>5 DEF B

-----------------------------------------------------------------------------
(* Merging, freeing, placing *)

(* T2 has the allocated blocks of A as T has them. *)
Keeps(T, T2, A) == \A b \in A : b \in Blocks(T2) /\ T2[b] = T[b]

(* The free blocks around bp: where the block they make with it starts and *)
(* where it ends.                                                          *)
FreePrev(T, bp)   == {b \in Blocks(T) : EndOf(T, b) = bp /\ IsFree(T, b)}
Start(T, bp)      == IF FreePrev(T, bp) = {} THEN bp ELSE CHOOSE b \in FreePrev(T, bp) : TRUE
NextIsFree(T, bp) == EndOf(T, bp) \in Blocks(T) /\ IsFree(T, EndOf(T, bp))
Stop(T, bp)       == IF NextIsFree(T, bp) THEN EndOf(T, EndOf(T, bp)) ELSE EndOf(T, bp)

(* What coalesce, mm_free and place make of the tags. *)
Merged(T, bp) == Join(T, Start(T, bp), Stop(T, bp), 0)

Freed(T, bp) == Merged(Join(T, bp, EndOf(T, bp), 0), bp)

Placed(T, bp, asize) ==
    IF Size(T, bp) - asize >= 2 * DSIZE THEN Cut(T, bp, bp + asize)
    ELSE Join(T, bp, EndOf(T, bp), 1)

(* Two memories or tables that have the same header have the same block. *)
LEMMA SameTag ==
  ASSUME NEW T, NEW T2, NEW b, T2[b] = T[b]
  PROVE  Size(T2, b) = Size(T, b) /\ EndOf(T2, b) = EndOf(T, b) /\ (IsFree(T2, b) <=> IsFree(T, b))
BY DEF Size, EndOf, IsFree

(* Where the merged block is. *)
LEMMA StartStop ==
  ASSUME NEW T, NEW k, Shape(T, k), NEW bp \in Blocks(T) \ {h0}
  PROVE  /\ Start(T, bp) \in Blocks(T) \ {h0} /\ Stop(T, bp) \in Blocks(T) \cup {k}
         /\ Start(T, bp) <= bp /\ EndOf(T, bp) <= Stop(T, bp) /\ Start(T, bp) < Stop(T, bp)
         /\ Start(T, bp) # bp => /\ IsFree(T, Start(T, bp)) /\ EndOf(T, Start(T, bp)) = bp
         /\ \A b \in Blocks(T) : EndOf(T, b) = bp =>
               IF IsFree(T, b) THEN Start(T, bp) = b ELSE Start(T, bp) = bp
<1>1. /\ \A b \in Blocks(T) : /\ b \in Nat /\ EndOf(T, b) \in Nat /\ b < EndOf(T, b)
                              /\ EndOf(T, b) \in Blocks(T) \cup {k}
      /\ \A b, c \in Blocks(T) : EndOf(T, b) = EndOf(T, c) => b = c
      /\ ~IsFree(T, h0) /\ k \in Nat
  BY ShapeFacts
<1>2. /\ Stop(T, bp) \in Blocks(T) \cup {k} /\ EndOf(T, bp) <= Stop(T, bp)
      /\ Stop(T, bp) \in Nat
  <2>1. CASE NextIsFree(T, bp)
    BY <2>1, <1>1 DEF Stop, NextIsFree
  <2>2. CASE ~NextIsFree(T, bp)
    BY <2>2, <1>1 DEF Stop
  <2> QED BY <2>1, <2>2
<1>3. CASE FreePrev(T, bp) = {}
  <2>1. Start(T, bp) = bp
    BY <1>3 DEF Start
  <2> QED BY <2>1, <1>1, <1>2, <1>3 DEF FreePrev
<1>4. CASE FreePrev(T, bp) # {}
  <2>1. Start(T, bp) \in FreePrev(T, bp)
    BY <1>4 DEF Start
  <2>2. /\ Start(T, bp) \in Blocks(T) /\ EndOf(T, Start(T, bp)) = bp
        /\ IsFree(T, Start(T, bp))
    BY <2>1 DEF FreePrev
  <2>3. Start(T, bp) # h0 /\ Start(T, bp) < bp
    BY <2>2, <1>1
  <2> QED BY <2>2, <2>3, <1>1, <1>2
<1> QED BY <1>3, <1>4

(* What lies between the start and the end of the merged block: free       *)
(* blocks, and bp.                                                         *)
LEMMA Between ==
  ASSUME NEW T, NEW k, Shape(T, k), NEW bp \in Blocks(T) \ {h0}, NEW b \in Blocks(T)
  PROVE  \/ EndOf(T, b) <= Start(T, bp) \/ b >= Stop(T, bp)
         \/ b = bp
         \/ IsFree(T, b) /\ Start(T, bp) <= b /\ b < Stop(T, bp)
<1>1. /\ \A c \in Blocks(T) : /\ c \in Nat /\ EndOf(T, c) \in Nat /\ c < EndOf(T, c)
                              /\ EndOf(T, c) \in Blocks(T) \cup {k}
      /\ k \in Nat
  BY ShapeFacts
<1>2. EndOf(T, b) <= bp \/ EndOf(T, bp) <= b \/ b = bp
  BY Sides
<1>3. Start(T, bp) \in Blocks(T) /\ Start(T, bp) <= bp /\ EndOf(T, bp) <= Stop(T, bp)
  BY StartStop
<1>4. Stop(T, bp) \in Nat
  BY <1>1, StartStop
<1>5. CASE EndOf(T, b) <= bp
  <2>1. CASE Start(T, bp) = bp
    BY <2>1, <1>5
  <2>2. CASE Start(T, bp) # bp
    <3>1. IsFree(T, Start(T, bp)) /\ EndOf(T, Start(T, bp)) = bp
      BY <2>2, StartStop
    <3>2. \/ b = Start(T, bp) \/ EndOf(T, b) <= Start(T, bp)
          \/ EndOf(T, Start(T, bp)) <= b
      BY <1>3, Sides
    <3> QED BY <3>1, <3>2, <1>1, <1>3, <1>4, <1>5
  <2> QED BY <2>1, <2>2
<1>6. CASE EndOf(T, bp) <= b
  <2>1. CASE NextIsFree(T, bp)
    <3>1. /\ EndOf(T, bp) \in Blocks(T) /\ IsFree(T, EndOf(T, bp))
          /\ Stop(T, bp) = EndOf(T, EndOf(T, bp))
      BY <2>1 DEF NextIsFree, Stop
    <3>2. \/ b = EndOf(T, bp) \/ EndOf(T, b) <= EndOf(T, bp)
          \/ EndOf(T, EndOf(T, bp)) <= b
      BY <3>1, Sides
    <3> QED BY <3>1, <3>2, <1>1, <1>3, <1>4, <1>6
  <2>2. CASE ~NextIsFree(T, bp)
    BY <2>2, <1>6 DEF Stop
  <2> QED BY <2>1, <2>2
<1> QED BY <1>2, <1>5, <1>6

(* coalesce restores a heap in which only bp may have free neighbours, and *)
(* keeps the allocated blocks.                                             *)
LEMMA MergedShape ==
  ASSUME NEW T, NEW k, Shape(T, k), NEW bp \in Blocks(T) \ {h0}, IsFree(T, bp),
         SeparateBut(T, bp), NEW T2, T2 = Merged(T, bp)
  PROVE  /\ Shape(T2, k) /\ Separate(T2)
         /\ Allocs(T2) = Allocs(T) /\ Keeps(T, T2, Allocs(T))
         /\ Start(T, bp) \in Blocks(T2) \ {h0} /\ IsFree(T2, Start(T, bp))
         /\ EndOf(T2, Start(T, bp)) = Stop(T, bp)
<1> DEFINE x == Start(T, bp)
           e == Stop(T, bp)
<1>1. /\ x \in Blocks(T) \ {h0} /\ e \in Blocks(T) \cup {k} /\ x < e
      /\ x <= bp /\ EndOf(T, bp) <= e
      /\ x # bp => IsFree(T, x) /\ EndOf(T, x) = bp
  BY StartStop
<1>2. \A b \in Blocks(T) : /\ b \in Nat /\ EndOf(T, b) \in Nat /\ b < EndOf(T, b)
                           /\ EndOf(T, b) \in Blocks(T) \cup {k}
  BY ShapeFacts
<1>3. k \in Nat /\ k \notin Blocks(T) /\ x \in Nat /\ e \in Nat
  <2>1. k \in Nat /\ k \notin Blocks(T)
    BY ShapeFacts
  <2> HIDE DEF x, e
  <2> QED BY <2>1, <1>1, <1>2
<1>4. T2 = Join(T, x, e, 0)
  BY DEF Merged
<1>5. \A b \in Blocks(T) : \/ EndOf(T, b) <= x \/ b >= e
                           \/ IsFree(T, b) /\ x <= b /\ b < e
  BY Between, <1>1, <1>2, <1>3
<1>6. \A b, c \in Blocks(T) :
         EndOf(T, b) = c /\ b # bp /\ c # bp => ~(IsFree(T, b) /\ IsFree(T, c))
  BY DEF SeparateBut
<1>7. e \in Blocks(T) => ~IsFree(T, e)
  <2>1. CASE NextIsFree(T, bp)
    <3>1. /\ EndOf(T, bp) \in Blocks(T) /\ IsFree(T, EndOf(T, bp))
          /\ e = EndOf(T, EndOf(T, bp)) /\ bp < EndOf(T, bp) /\ EndOf(T, bp) < e
          /\ bp \in Nat /\ EndOf(T, bp) \in Nat
      BY <2>1, <1>2 DEF NextIsFree, Stop
    <3>2. EndOf(T, bp) # bp /\ e # bp
      BY <3>1
    <3> HIDE DEF e
    <3> QED BY <3>1, <3>2, <1>6
  <2>2. CASE ~NextIsFree(T, bp)
    BY <2>2 DEF Stop, NextIsFree
  <2> QED BY <2>1, <2>2
<1>8. \A b \in Blocks(T) : EndOf(T, b) = x => ~IsFree(T, b)
  <2> SUFFICES ASSUME NEW b \in Blocks(T), EndOf(T, b) = x
               PROVE  ~IsFree(T, b)
    OBVIOUS
  <2>1. CASE x = bp
    <3>1. IsFree(T, b) => x = b
      BY <2>1, StartStop
    <3> QED BY <3>1, <1>2
  <2>2. CASE x # bp
    <3>1. IsFree(T, x) /\ EndOf(T, x) = bp /\ b < x
      BY <2>2, <1>1, <1>2
    <3>2. b # bp
      BY <3>1, <1>1, <1>2, <1>3
    <3> HIDE DEF x
    <3> QED BY <3>1, <3>2, <2>2, <1>1, <1>6
  <2> QED BY <2>1, <2>2
<1> HIDE DEF x, e
<1>9. /\ Shape(T2, k)
      /\ x \in Blocks(T2) /\ EndOf(T2, x) = e /\ IsFree(T2, x)
      /\ \A b : b \in Blocks(T2) <=> b \in Blocks(T) /\ (b <= x \/ b >= e)
      /\ \A b \in Blocks(T2) : b # x => /\ T2[b] = T[b]
                                      /\ EndOf(T2, b) = EndOf(T, b)
                                      /\ (IsFree(T2, b) <=> IsFree(T, b))
  BY <1>1, <1>4, JoinShape
<1>10. Separate(T2)
  <2> SUFFICES ASSUME NEW b \in Blocks(T2), NEW c \in Blocks(T2), EndOf(T2, b) = c,
                      IsFree(T2, b), IsFree(T2, c)
               PROVE  FALSE
    BY DEF Separate
  <2>1. CASE b = x
    <3>1. c = e /\ c # x /\ c \in Blocks(T)
      BY <2>1, <1>1, <1>3, <1>9
    <3> QED BY <3>1, <1>7, <1>9
  <2>2. CASE b # x /\ c = x
    BY <2>2, <1>8, <1>9
  <2>3. CASE b # x /\ c # x
    <3>1. b \in Blocks(T) /\ c \in Blocks(T) /\ EndOf(T, b) = c /\ IsFree(T, b) /\ IsFree(T, c)
      BY <2>3, <1>9
    <3>2. (b <= x \/ b >= e) /\ (c <= x \/ c >= e)
      BY <1>9
    <3>3. b # bp /\ c # bp
      BY <3>1, <3>2, <2>3, <1>1, <1>2, <1>3
    <3> QED BY <3>1, <3>3, <1>6
  <2> QED BY <2>1, <2>2, <2>3
<1>11. IsFree(T, x)
  BY <1>1
<1>12. \A b \in Allocs(T) : b \in Blocks(T2) /\ b # x
  BY <1>2, <1>3, <1>5, <1>9, <1>11 DEF Allocs
<1>13. Keeps(T, T2, Allocs(T)) /\ Allocs(T2) = Allocs(T)
  BY <1>9, <1>12 DEF Keeps, Allocs
<1> QED BY <1>1, <1>9, <1>10, <1>13 DEF x, e

(* Writing the tags of one block. *)
LEMMA RetagShape ==
  ASSUME NEW T, NEW k, Shape(T, k), NEW bp \in Blocks(T) \ {h0}, NEW al \in {0, 1},
         NEW T2, T2 = Join(T, bp, EndOf(T, bp), al)
  PROVE  /\ Shape(T2, k) /\ Blocks(T2) = Blocks(T)
         /\ \A b \in Blocks(T) : EndOf(T2, b) = EndOf(T, b) /\ Size(T2, b) = Size(T, b)
         /\ \A b \in Blocks(T) : b # bp => T2[b] = T[b] /\ (IsFree(T2, b) <=> IsFree(T, b))
         /\ IsFree(T2, bp) <=> al = 0
<1>1. /\ \A b \in Blocks(T) : /\ b \in Nat /\ EndOf(T, b) \in Nat /\ b < EndOf(T, b)
                              /\ EndOf(T, b) \in Blocks(T) \cup {k}
                              /\ Size(T, b) \in Nat /\ EndOf(T, b) = b + Size(T, b)
  BY ShapeFacts
<1>2. /\ Shape(T2, k)
      /\ bp \in Blocks(T2) /\ Size(T2, bp) = EndOf(T, bp) - bp
      /\ EndOf(T2, bp) = EndOf(T, bp) /\ (IsFree(T2, bp) <=> al = 0)
      /\ \A b : b \in Blocks(T2) <=> b \in Blocks(T) /\ (b <= bp \/ b >= EndOf(T, bp))
      /\ \A b \in Blocks(T2) : b # bp => /\ T2[b] = T[b] /\ EndOf(T2, b) = EndOf(T, b)
                                       /\ Size(T2, b) = Size(T, b)
                                       /\ (IsFree(T2, b) <=> IsFree(T, b))
  BY <1>1, JoinShape
<1>3. Blocks(T2) = Blocks(T)
  <2>1. ASSUME NEW b \in Blocks(T) PROVE b \in Blocks(T2)
    <3>1. EndOf(T, b) <= bp \/ EndOf(T, bp) <= b \/ b = bp
      BY Sides
    <3> QED BY <3>1, <1>1, <1>2
  <2> QED BY <2>1, <1>2
<1>4. Size(T2, bp) = Size(T, bp)
  BY <1>1, <1>2
<1> QED BY <1>1, <1>2, <1>3, <1>4

(* mm_free restores the heap and takes one block from the allocated ones.  *)
LEMMA FreedShape ==
  ASSUME NEW T, NEW k, Shape(T, k), Separate(T), NEW bp \in Blocks(T) \ {h0}
  PROVE  /\ Shape(Freed(T, bp), k) /\ Separate(Freed(T, bp))
         /\ Allocs(Freed(T, bp)) = Allocs(T) \ {bp}
         /\ Keeps(T, Freed(T, bp), Allocs(T) \ {bp})
<1> DEFINE U == Join(T, bp, EndOf(T, bp), 0)
<1>1. /\ Shape(U, k) /\ Blocks(U) = Blocks(T) /\ IsFree(U, bp)
      /\ \A b \in Blocks(T) : EndOf(U, b) = EndOf(T, b)
      /\ \A b \in Blocks(T) : b # bp => U[b] = T[b] /\ (IsFree(U, b) <=> IsFree(T, b))
  BY RetagShape
<1> HIDE DEF U
<1>2. SeparateBut(U, bp)
  BY <1>1 DEF Separate, SeparateBut
<1>3. Allocs(U) = Allocs(T) \ {bp} /\ Keeps(T, U, Allocs(T) \ {bp})
  BY <1>1 DEF Allocs, Keeps
<1>4. /\ Shape(Merged(U, bp), k) /\ Separate(Merged(U, bp))
      /\ Allocs(Merged(U, bp)) = Allocs(U) /\ Keeps(U, Merged(U, bp), Allocs(U))
  BY <1>1, <1>2, MergedShape
<1>5. Keeps(T, Merged(U, bp), Allocs(T) \ {bp})
  BY <1>3, <1>4 DEF Keeps
<1> QED BY <1>3, <1>4, <1>5 DEF Freed, U

(* place makes one free block allocated, with room for asize bytes.        *)
LEMMA PlacedShape ==
  ASSUME NEW T, NEW k, Shape(T, k), Separate(T), NEW bp \in Blocks(T), IsFree(T, bp),
         NEW asize \in Nat, asize % 8 = 0, asize >= 8, asize <= Size(T, bp)
  PROVE  /\ Shape(Placed(T, bp, asize), k) /\ Separate(Placed(T, bp, asize))
         /\ Allocs(Placed(T, bp, asize)) = Allocs(T) \cup {bp}
         /\ Keeps(T, Placed(T, bp, asize), Allocs(T))
         /\ asize <= Size(Placed(T, bp, asize), bp)
         /\ EndOf(Placed(T, bp, asize), bp) <= EndOf(T, bp)
<1> DEFINE P == Placed(T, bp, asize)
           y == bp + asize
<1>1. /\ \A b \in Blocks(T) : /\ b \in Nat /\ EndOf(T, b) \in Nat /\ b < EndOf(T, b)
                              /\ EndOf(T, b) \in Blocks(T) \cup {k} /\ b % 8 = 0
                              /\ Size(T, b) \in Nat /\ EndOf(T, b) = b + Size(T, b)
      /\ ~IsFree(T, h0)
  BY ShapeFacts
<1>2. bp \in Blocks(T) \ {h0} /\ bp \notin Allocs(T) /\ bp \in Nat
  BY <1>1 DEF Allocs
<1>3. CASE Size(T, bp) - asize >= 2 * DSIZE
  <2>1. P = Cut(T, bp, y) /\ Size(T, bp) - asize >= 16
    BY <1>3 DEF Placed, DSIZE
  <2>2. y \in Nat /\ y % 8 = 0 /\ bp + 8 <= y /\ y + 8 <= EndOf(T, bp) /\ y - bp = asize
    <3>1. y % 8 = 0
      BY <1>1, <1>2, AlignedSum
    <3> QED BY <3>1, <2>1, <1>1, <1>2
  <2> HIDE DEF P, y
  <2>3. /\ Shape(P, k) /\ y \notin Blocks(T) /\ Blocks(P) = Blocks(T) \cup {y}
        /\ Size(P, bp) = y - bp /\ EndOf(P, bp) = y /\ ~IsFree(P, bp)
        /\ EndOf(P, y) = EndOf(T, bp) /\ IsFree(P, y)
        /\ \A b \in Blocks(T) : b # bp => /\ P[b] = T[b]
                                        /\ EndOf(P, b) = EndOf(T, b)
                                        /\ (IsFree(P, b) <=> IsFree(T, b))
    BY <2>1, <2>2, <1>2, CutShape
  <2>4. Separate(P)
    <3> SUFFICES ASSUME NEW b \in Blocks(P), NEW c \in Blocks(P), EndOf(P, b) = c,
                        IsFree(P, b), IsFree(P, c)
                 PROVE  FALSE
      BY DEF Separate
    <3>1. b # bp /\ c # bp
      BY <2>3
    <3>2. CASE b = y
      <4>1. c = EndOf(T, bp) /\ c # y
        BY <3>2, <2>2, <2>3
      <4>2. c \in Blocks(T) /\ IsFree(T, c)
        BY <4>1, <3>1, <2>3
      <4> QED BY <4>1, <4>2 DEF Separate
    <3>3. CASE b # y
      <4>1. b \in Blocks(T) /\ IsFree(T, b) /\ EndOf(T, b) = c
        BY <3>1, <3>3, <2>3
      <4>2. c # y
        BY <4>1, <1>1, <2>2, <2>3, Sides
      <4>3. c \in Blocks(T) /\ IsFree(T, c)
        BY <4>2, <3>1, <2>3
      <4> QED BY <4>1, <4>3 DEF Separate
    <3> QED BY <3>2, <3>3
  <2>5. Allocs(P) = Allocs(T) \cup {bp}
    BY <2>3, <1>2 DEF Allocs
  <2>6. Keeps(T, P, Allocs(T))
    BY <2>3, <1>2 DEF Allocs, Keeps
  <2>7. asize <= Size(P, bp) /\ EndOf(P, bp) <= EndOf(T, bp)
    BY <2>2, <2>3, <1>1, <1>2
  <2> QED BY <2>3, <2>4, <2>5, <2>6, <2>7 DEF P
<1>4. CASE ~(Size(T, bp) - asize >= 2 * DSIZE)
  <2>1. P = Join(T, bp, EndOf(T, bp), 1)
    BY <1>4 DEF Placed
  <2> HIDE DEF P
  <2>2. /\ Shape(P, k) /\ Blocks(P) = Blocks(T) /\ ~IsFree(P, bp)
        /\ \A b \in Blocks(T) : EndOf(P, b) = EndOf(T, b) /\ Size(P, b) = Size(T, b)
        /\ \A b \in Blocks(T) : b # bp => P[b] = T[b] /\ (IsFree(P, b) <=> IsFree(T, b))
    BY <2>1, <1>2, RetagShape
  <2>3. Separate(P)
    BY <2>2 DEF Separate
  <2>4. Allocs(P) = Allocs(T) \cup {bp} /\ Keeps(T, P, Allocs(T))
    BY <2>2, <1>2 DEF Allocs, Keeps
  <2> QED BY <2>2, <2>3, <2>4, <1>1 DEF P
<1> QED BY <1>3, <1>4

(* extend_heap restores the heap around the block at the old break k.      *)
LEMMA GrownShape ==
  ASSUME NEW T, NEW k, Shape(T, k), Separate(T), NEW e \in Nat, e % 8 = 0, k + 8 <= e,
         e <= mem_max_addr, NEW U, U = Grow(T, k, e), NEW T2, T2 = Merged(U, k)
  PROVE  /\ Shape(T2, e) /\ Separate(T2)
         /\ Allocs(T2) = Allocs(T) /\ Keeps(T, T2, Allocs(T))
         /\ Start(U, k) \in Blocks(T2) \ {h0} /\ IsFree(T2, Start(U, k))
         /\ e - k <= Size(T2, Start(U, k))
<1>1. /\ Shape(U, e) /\ k \notin Blocks(T) /\ Blocks(U) = Blocks(T) \cup {k}
      /\ EndOf(U, k) = e /\ IsFree(U, k)
      /\ \A b \in Blocks(T) : /\ U[b] = T[b] /\ EndOf(U, b) = EndOf(T, b)
                            /\ (IsFree(U, b) <=> IsFree(T, b))
  BY GrowShape
<1>2. h0 \in Blocks(T)
  BY ShapeFacts
<1>3. SeparateBut(U, k)
  <2> SUFFICES ASSUME NEW b \in Blocks(U), NEW c \in Blocks(U), EndOf(U, b) = c,
                      b # k, c # k, IsFree(U, b), IsFree(U, c)
               PROVE  FALSE
    BY DEF SeparateBut
  <2> QED BY <1>1 DEF Separate
<1>4. k \in Blocks(U) \ {h0}
  BY <1>1, <1>2
<1>5. Allocs(U) = Allocs(T) /\ Keeps(T, U, Allocs(T))
  BY <1>1 DEF Allocs, Keeps
<1>6. /\ Shape(T2, e) /\ Separate(T2)
      /\ Allocs(T2) = Allocs(U) /\ Keeps(U, T2, Allocs(U))
      /\ Start(U, k) \in Blocks(T2) \ {h0} /\ IsFree(T2, Start(U, k))
      /\ EndOf(T2, Start(U, k)) = Stop(U, k)
  BY <1>1, <1>3, <1>4, MergedShape
<1>7. Start(U, k) <= k /\ e <= Stop(U, k)
  BY <1>1, <1>4, StartStop
<1>8. /\ Start(U, k) \in Nat /\ Size(T2, Start(U, k)) \in Nat /\ k \in Nat
      /\ EndOf(T2, Start(U, k)) = Start(U, k) + Size(T2, Start(U, k))
  BY <1>6, ShapeFacts
<1>9. e - k <= Size(T2, Start(U, k))
  BY <1>6, <1>7, <1>8
<1>10. Keeps(T, T2, Allocs(T))
  BY <1>5, <1>6 DEF Keeps
<1> QED BY <1>5, <1>6, <1>9, <1>10

-----------------------------------------------------------------------------
(* Memories *)

(* The words from the header of x to the footer of what ends at e are all  *)
(* that may differ.                                                        *)
SameOutside(m, m2, x, e) == \A a \in Addr : a < x - 4 \/ a >= e - 4 => m2[a] = m[a]

(* What the macros read of a block. *)
LEMMA ReadBlock ==
  ASSUME NEW m, NEW T, NEW k, Shape(T, k), Tagged(m, T, k), NEW b \in Blocks(T)
  PROVE  /\ GET_SIZE(m, HDRP(b)) = Size(T, b)
         /\ GET_ALLOC(m, HDRP(b)) = IF IsFree(T, b) THEN 0 ELSE 1
         /\ NEXT_BLKP(m, b) = EndOf(T, b) /\ FTRP(m, b) = EndOf(T, b) - 8
         /\ PREV_BLKP(m, EndOf(T, b)) = b
         /\ GET_SIZE(m, FTRP(m, b)) = Size(T, b)
         /\ GET_ALLOC(m, FTRP(m, b)) = IF IsFree(T, b) THEN 0 ELSE 1
<1>1. /\ m[b - 4] = T[b] /\ m[EndOf(T, b) - 8] = T[b]
  BY DEF Tagged
<1>2. /\ b \in Nat /\ Size(T, b) \in Nat /\ EndOf(T, b) = b + Size(T, b)
      /\ Size(T, b) % 8 = 0
      /\ T[b] = PACK(Size(T, b), IF IsFree(T, b) THEN 0 ELSE 1)
  BY ShapeFacts
<1>3. SizeOf(T[b]) = Size(T, b)
  BY DEF Size
<1>4. AllocOf(T[b]) = IF IsFree(T, b) THEN 0 ELSE 1
  BY <1>2, PackFacts
<1>5. GET_SIZE(m, HDRP(b)) = Size(T, b) /\ GET_ALLOC(m, HDRP(b)) = AllocOf(T[b])
  BY <1>1, <1>3 DEF GET_SIZE, GET_ALLOC, GET, HDRP, WSIZE
<1>6. NEXT_BLKP(m, b) = EndOf(T, b) /\ FTRP(m, b) = EndOf(T, b) - 8
  BY <1>2, <1>5 DEF NEXT_BLKP, FTRP, DSIZE
<1>7. PREV_BLKP(m, EndOf(T, b)) = b
  <2>1. GET_SIZE(m, EndOf(T, b) - 8) = Size(T, b)
    BY <1>1, <1>3 DEF GET_SIZE, GET
  <2> QED BY <2>1, <1>2 DEF PREV_BLKP, DSIZE
<1>8. GET_SIZE(m, FTRP(m, b)) = Size(T, b) /\ GET_ALLOC(m, FTRP(m, b)) = AllocOf(T[b])
  BY <1>1, <1>3, <1>6 DEF GET_SIZE, GET_ALLOC, GET
<1> QED BY <1>4, <1>5, <1>6, <1>7, <1>8

(* What the macros read of the epilogue. *)
LEMMA ReadEpilogue ==
  ASSUME NEW m, NEW T, NEW k, Shape(T, k), Tagged(m, T, k)
  PROVE  /\ GET_SIZE(m, HDRP(k)) = 0 /\ GET_ALLOC(m, HDRP(k)) = 1 /\ NEXT_BLKP(m, k) = k
<1>1. m[k - 4] = PACK(0, 1) /\ k \in Nat
  BY ShapeFacts DEF Tagged
<1>2. SizeOf(PACK(0, 1)) = 0 /\ AllocOf(PACK(0, 1)) = 1
  BY PackFacts
<1> QED BY <1>1, <1>2 DEF GET_SIZE, GET_ALLOC, GET, HDRP, WSIZE, NEXT_BLKP

(* PutTags writes the header of x and the footer of what ends at e. *)
LEMMA PutTagsFacts ==
  ASSUME NEW m, Mem(m), NEW x \in Nat, NEW e \in Nat, x + 8 <= e, (e - x) % 8 = 0,
         NEW al \in {0, 1}, x - 4 \in Addr, e - 8 \in Addr
  PROVE  /\ Mem(PutTags(m, x, e - x, al))
         /\ PutTags(m, x, e - x, al)[x - 4] = PACK(e - x, al)
         /\ PutTags(m, x, e - x, al)[e - 8] = PACK(e - x, al)
         /\ SameOutside(m, PutTags(m, x, e - x, al), x, e)
<1> DEFINE w == PACK(e - x, al)
           m1 == [m EXCEPT ![x - 4] = w]
           m2 == [m1 EXCEPT ![e - 8] = w]
<1>1. w \in Nat /\ SizeOf(w) = e - x
  <2>1. e - x \in Nat
    OBVIOUS
  <2> QED BY <2>1, PackFacts
<1> HIDE DEF w
<1>2. Mem(m1) /\ m1[x - 4] = w
  BY <1>1 DEF Mem
<1>3. PutTags(m, x, e - x, al) = m2
  <2>1. PUT(m, HDRP(x), w) = m1
    BY DEF PUT, HDRP, WSIZE
  <2>2. FTRP(m1, x) = e - 8
    <3>1. FTRP(m1, x) = x + (e - x) - 8
      BY <1>1, <1>2 DEF FTRP, GET_SIZE, GET, HDRP, WSIZE, DSIZE
    <3> QED BY <3>1
  <2> HIDE DEF m1
  <2> QED BY <2>1, <2>2 DEF PutTags, PUT, w
<1>4. /\ Mem(m2) /\ m2[x - 4] = w /\ m2[e - 8] = w
  BY <1>1, <1>2 DEF Mem
<1>5. SameOutside(m, m2, x, e)
  <2>1. ASSUME NEW a \in Addr, a < x - 4 \/ a >= e - 4
        PROVE  m2[a] = m[a]
    <3>1. a \in Nat
      BY RegionFacts
    <3>2. a # x - 4 /\ a # e - 8
      BY <2>1, <3>1
    <3> QED BY <3>2 DEF Mem
  <2> HIDE DEF m2
  <2> QED BY <2>1 DEF SameOutside
<1> QED BY <1>3, <1>4, <1>5 DEF w

(* Tags written from x to e: the blocks between are joined. *)
LEMMA JoinTagged ==
  ASSUME NEW m, NEW T, NEW k, Shape(T, k), Tagged(m, T, k), NEW x \in Blocks(T) \ {h0},
         NEW e \in Blocks(T) \cup {k}, x < e, NEW al \in {0, 1}, NEW m2, Mem(m2),
         m2[x - 4] = PACK(e - x, al), m2[e - 8] = PACK(e - x, al),
         SameOutside(m, m2, x, e), NEW T2, T2 = Join(T, x, e, al)
  PROVE  Tagged(m2, T2, k)
<1>1. /\ x \in Blocks(T2) /\ EndOf(T2, x) = e
      /\ \A b : b \in Blocks(T2) <=> b \in Blocks(T) /\ (b <= x \/ b >= e)
      /\ \A b \in Blocks(T2) : b # x => /\ T2[b] = T[b] /\ EndOf(T2, b) = EndOf(T, b)
                                      /\ (EndOf(T, b) <= x \/ b >= e)
  BY JoinShape
<1>2. T2[x] = PACK(e - x, al)
  BY <1>1 DEF Join, Blocks
<1>3. /\ k \in Nat /\ k - 4 \in Addr
      /\ \A b \in Blocks(T) : /\ b \in Nat /\ EndOf(T, b) \in Nat /\ EndOf(T, b) >= b + 8
                              /\ b < k /\ b - 4 \in Addr /\ EndOf(T, b) - 8 \in Addr
  BY ShapeFacts
<1>4. x \in Nat /\ e \in Nat /\ e <= k
  <2>1. x \in Nat
    BY <1>3
  <2>2. e \in Nat /\ e <= k
    BY <1>3
  <2> QED BY <2>1, <2>2
<1>5. ASSUME NEW b \in Blocks(T2) PROVE m2[b - 4] = T2[b] /\ m2[EndOf(T2, b) - 8] = T2[b]
  <2>1. CASE b = x
    BY <2>1, <1>1, <1>2
  <2>2. CASE b # x
    <3>1. b \in Blocks(T) /\ m[b - 4] = T[b] /\ m[EndOf(T, b) - 8] = T[b]
      BY <1>1 DEF Tagged
    <3>2. b - 4 \in Addr /\ EndOf(T, b) - 8 \in Addr
      BY <3>1, <1>3
    <3>3. EndOf(T, b) <= x \/ b >= e
      BY <2>2, <1>1
    <3>4. /\ b - 4 < x - 4 \/ b - 4 >= e - 4
          /\ EndOf(T, b) - 8 < x - 4 \/ EndOf(T, b) - 8 >= e - 4
      BY <3>1, <3>3, <1>3, <1>4
    <3>5. m2[b - 4] = m[b - 4] /\ m2[EndOf(T, b) - 8] = m[EndOf(T, b) - 8]
      BY <3>2, <3>4 DEF SameOutside
    <3> QED BY <3>1, <3>5, <2>2, <1>1
  <2> QED BY <2>1, <2>2
<1>6. m2[k - 4] = PACK(0, 1)
  <2>1. k - 4 >= e - 4
    BY <1>3, <1>4
  <2> QED BY <2>1, <1>3 DEF SameOutside, Tagged
<1> QED BY <1>5, <1>6 DEF Tagged

(* Tags written from x to y and from y to the end of x: x is cut in two.   *)
LEMMA CutTagged ==
  ASSUME NEW m, NEW T, NEW k, Shape(T, k), Tagged(m, T, k), NEW x \in Blocks(T) \ {h0},
         NEW y \in Nat, y % 8 = 0, x + 8 <= y, y + 8 <= EndOf(T, x), NEW m2, Mem(m2),
         m2[x - 4] = PACK(y - x, 1), m2[y - 8] = PACK(y - x, 1),
         m2[y - 4] = PACK(EndOf(T, x) - y, 0), m2[EndOf(T, x) - 8] = PACK(EndOf(T, x) - y, 0),
         SameOutside(m, m2, x, EndOf(T, x)), NEW T2, T2 = Cut(T, x, y)
  PROVE  Tagged(m2, T2, k)
<1> DEFINE e == EndOf(T, x)
<1>1. /\ Blocks(T2) = Blocks(T) \cup {y} /\ y \notin Blocks(T)
      /\ EndOf(T2, x) = y /\ EndOf(T2, y) = e
      /\ T2[x] = PACK(y - x, 1) /\ T2[y] = PACK(e - y, 0)
      /\ \A b \in Blocks(T) : b # x => /\ T2[b] = T[b] /\ EndOf(T2, b) = EndOf(T, b)
                                     /\ (EndOf(T, b) <= x \/ b >= e)
  BY CutShape
<1>2. /\ k \in Nat /\ k - 4 \in Addr
      /\ \A b \in Blocks(T) : /\ b \in Nat /\ EndOf(T, b) \in Nat /\ EndOf(T, b) >= b + 8
                              /\ EndOf(T, b) <= k /\ b - 4 \in Addr
                              /\ EndOf(T, b) - 8 \in Addr
  BY ShapeFacts
<1>3. x \in Nat /\ e \in Nat /\ e <= k
  BY <1>2
<1> HIDE DEF e
<1>4. ASSUME NEW b \in Blocks(T2) PROVE m2[b - 4] = T2[b] /\ m2[EndOf(T2, b) - 8] = T2[b]
  <2>1. CASE b = x
    BY <2>1, <1>1
  <2>2. CASE b = y
    BY <2>2, <1>1 DEF e
  <2>3. CASE b # x /\ b # y
    <3>1. b \in Blocks(T) /\ m[b - 4] = T[b] /\ m[EndOf(T, b) - 8] = T[b]
      BY <2>3, <1>1 DEF Tagged
    <3>2. b - 4 \in Addr /\ EndOf(T, b) - 8 \in Addr
      BY <3>1, <1>2
    <3>3. EndOf(T, b) <= x \/ b >= e
      BY <2>3, <3>1, <1>1
    <3>4. /\ b - 4 < x - 4 \/ b - 4 >= e - 4
          /\ EndOf(T, b) - 8 < x - 4 \/ EndOf(T, b) - 8 >= e - 4
      <4>1. b \in Nat /\ EndOf(T, b) \in Nat /\ EndOf(T, b) >= b + 8
        BY <3>1, <1>2
      <4>2. CASE EndOf(T, b) <= x
        BY <4>1, <4>2, <1>3
      <4>3. CASE b >= e
        BY <4>1, <4>3, <1>3
      <4> QED BY <3>3, <4>2, <4>3
    <3>5. m2[b - 4] = m[b - 4] /\ m2[EndOf(T, b) - 8] = m[EndOf(T, b) - 8]
      BY <3>2, <3>4 DEF SameOutside, e
    <3> QED BY <3>1, <3>5, <2>3, <1>1
  <2> QED BY <2>1, <2>2, <2>3
<1>5. m2[k - 4] = PACK(0, 1)
  <2>1. k - 4 >= e - 4
    BY <1>2, <1>3
  <2> QED BY <2>1, <1>2 DEF SameOutside, Tagged, e
<1> QED BY <1>4, <1>5 DEF Tagged

(* Tags written from the break k to e, and a new epilogue: the heap grows. *)
LEMMA GrowTagged ==
  ASSUME NEW m, NEW T, NEW k, Shape(T, k), Tagged(m, T, k), NEW e \in Nat, e % 8 = 0,
         k + 8 <= e, e <= mem_max_addr, NEW m2, Mem(m2),
         m2[k - 4] = PACK(e - k, 0), m2[e - 8] = PACK(e - k, 0), m2[e - 4] = PACK(0, 1),
         \A a \in Addr : a < k - 4 => m2[a] = m[a],
         NEW T2, T2 = Grow(T, k, e)
  PROVE  Tagged(m2, T2, e)
<1>1. /\ Blocks(T2) = Blocks(T) \cup {k} /\ EndOf(T2, k) = e /\ T2[k] = PACK(e - k, 0)
      /\ \A b \in Blocks(T) : T2[b] = T[b] /\ EndOf(T2, b) = EndOf(T, b)
  BY GrowShape
<1>2. /\ k \in Nat
      /\ \A b \in Blocks(T) : /\ b \in Nat /\ EndOf(T, b) \in Nat /\ b < k
                              /\ EndOf(T, b) <= k /\ b - 4 \in Addr
                              /\ EndOf(T, b) - 8 \in Addr
  BY ShapeFacts
<1>3. ASSUME NEW b \in Blocks(T2) PROVE m2[b - 4] = T2[b] /\ m2[EndOf(T2, b) - 8] = T2[b]
  <2>1. CASE b = k
    BY <2>1, <1>1
  <2>2. CASE b # k
    <3>1. b \in Blocks(T) /\ m[b - 4] = T[b] /\ m[EndOf(T, b) - 8] = T[b]
      BY <2>2, <1>1 DEF Tagged
    <3>2. b - 4 \in Addr /\ EndOf(T, b) - 8 \in Addr /\ b - 4 < k - 4 /\ EndOf(T, b) - 8 < k - 4
      BY <3>1, <1>2
    <3> QED BY <3>1, <3>2, <1>1
  <2> QED BY <2>1, <2>2
<1> QED BY <1>3 DEF Tagged

(* Words that are no tags may change. *)
LEMMA TagFrame ==
  ASSUME NEW m, NEW T, NEW k, Tagged(m, T, k), NEW m2, Mem(m2),
         \A b \in Blocks(T) : m2[b - 4] = m[b - 4]
                              /\ m2[EndOf(T, b) - 8] = m[EndOf(T, b) - 8],
         m2[k - 4] = m[k - 4]
  PROVE  Tagged(m2, T, k)
BY DEF Tagged

(* A tag written at both ends of x .. e, in either order. *)
LEMMA PutBoth ==
  ASSUME NEW m, Mem(m), NEW x \in Nat, NEW e \in Nat, x + 8 <= e,
         x - 4 \in Addr, e - 8 \in Addr, NEW w \in Nat, NEW m2,
         m2 = PUT(PUT(m, x - 4, w), e - 8, w) \/ m2 = PUT(PUT(m, e - 8, w), x - 4, w)
  PROVE  /\ Mem(m2) /\ m2[x - 4] = w /\ m2[e - 8] = w /\ SameOutside(m, m2, x, e)
<1>1. m2 = [a \in Addr |-> IF a = x - 4 \/ a = e - 8 THEN w ELSE m[a]]
  BY DEF Mem, PUT
<1>2. Mem(m2) /\ m2[x - 4] = w /\ m2[e - 8] = w
  BY <1>1 DEF Mem
<1>3. ASSUME NEW a \in Addr, a < x - 4 \/ a >= e - 4 PROVE m2[a] = m[a]
  <2>1. a \in Nat /\ a # x - 4 /\ a # e - 8
    BY <1>3, RegionFacts
  <2> QED BY <2>1, <1>1
<1> QED BY <1>2, <1>3 DEF SameOutside

-----------------------------------------------------------------------------
(* Payloads *)

(* The words of b that the allocator leaves to the program, up to b's      *)
(* footer; m2 has those of the blocks of A as m has them.                  *)
Payload(T, b) == {a \in Addr : b <= a /\ a < EndOf(T, b) - 8}

SameData(m, m2, T, A) == \A b \in A : \A a \in Payload(T, b) : m2[a] = m[a]

(* The payload of a block that lies outside what is written.               *)
LEMMA OutsideData ==
  ASSUME NEW m, NEW m2, NEW x \in Int, NEW e \in Int, SameOutside(m, m2, x, e),
         NEW T, NEW b \in Int, EndOf(T, b) \in Int, EndOf(T, b) <= x \/ b >= e
  PROVE  \A a \in Payload(T, b) : m2[a] = m[a]
<1> SUFFICES ASSUME NEW a \in Payload(T, b) PROVE m2[a] = m[a]
  OBVIOUS
<1>1. a \in Addr /\ a \in Nat /\ b <= a /\ a < EndOf(T, b) - 8
  BY RegionFacts DEF Payload
<1>2. a < x - 4 \/ a >= e - 4
  BY <1>1
<1> QED BY <1>1, <1>2 DEF SameOutside

(* Writing the payload of one block disturbs neither the tags nor the      *)
(* payload of another block.                                               *)
LEMMA WriteData ==
  ASSUME NEW m, NEW T, NEW k, Shape(T, k), Tagged(m, T, k), NEW p \in Blocks(T),
         NEW m2, Mem(m2), \A a \in Addr : a \notin Payload(T, p) => m2[a] = m[a]
  PROVE  Tagged(m2, T, k) /\ SameData(m, m2, T, Blocks(T) \ {p})
<1>1. /\ k \in Nat /\ k - 4 \in Addr
      /\ \A b \in Blocks(T) : /\ b \in Nat /\ EndOf(T, b) \in Nat /\ b + 8 <= EndOf(T, b)
                              /\ EndOf(T, b) <= k /\ b - 4 \in Addr /\ EndOf(T, b) - 8 \in Addr
  BY ShapeFacts
<1>2. \A a \in Nat : a < p \/ a >= EndOf(T, p) - 8 => a \notin Payload(T, p)
  BY <1>1 DEF Payload
<1>3. ASSUME NEW b \in Blocks(T), b # p
      PROVE  EndOf(T, b) <= p \/ EndOf(T, p) <= b
  BY <1>3, Sides
<1>4. ASSUME NEW b \in Blocks(T)
      PROVE  m2[b - 4] = m[b - 4] /\ m2[EndOf(T, b) - 8] = m[EndOf(T, b) - 8]
  <2>1. b - 4 \in Nat /\ EndOf(T, b) - 8 \in Nat
    BY <1>1, RegionFacts
  <2>2. /\ b - 4 < p \/ b - 4 >= EndOf(T, p) - 8
        /\ EndOf(T, b) - 8 < p \/ EndOf(T, b) - 8 >= EndOf(T, p) - 8
    <3>1. CASE b = p
      BY <3>1, <1>1
    <3>2. CASE b # p
      BY <3>2, <1>1, <1>3
    <3> QED BY <3>1, <3>2
  <2> QED BY <2>1, <2>2, <1>1, <1>2
<1>5. m2[k - 4] = m[k - 4]
  <2>1. k - 4 \in Nat /\ k - 4 >= EndOf(T, p) - 8
    BY <1>1, RegionFacts
  <2> QED BY <2>1, <1>1, <1>2
<1>6. ASSUME NEW b \in Blocks(T) \ {p}, NEW a \in Payload(T, b) PROVE m2[a] = m[a]
  <2>1. a \in Addr /\ a \in Nat /\ b <= a /\ a < EndOf(T, b) - 8
    BY RegionFacts DEF Payload
  <2>2. a < p \/ a >= EndOf(T, p) - 8
    BY <2>1, <1>1, <1>3
  <2> QED BY <2>1, <2>2, <1>2
<1> QED BY <1>4, <1>5, <1>6, TagFrame DEF SameData

(* The words of a payload of n bytes. *)
LEMMA WordsFacts ==
  ASSUME NEW T, NEW k, Shape(T, k), NEW p \in Blocks(T), NEW n \in Nat, n + 8 <= Size(T, p)
  PROVE  Words(p, n) \subseteq Payload(T, p)
<1>1. p \in Nat /\ Size(T, p) \in Nat /\ EndOf(T, p) = p + Size(T, p)
  BY ShapeFacts
<1>2. \A a \in Addr : a \in Nat
  BY RegionFacts
<1> QED BY <1>1, <1>2 DEF Words, Payload

(* The first n bytes at p in m2 are those at old in m. *)
Copied(m, m2, p, old, n) ==
    \A a \in Words(p, n) : old + (a - p) \in Words(old, n) /\ m2[a] = m[old + (a - p)]

(* memcpy of n bytes to a block with room for them. *)
LEMMA CopyMakes ==
  ASSUME NEW m, NEW T, NEW k, Shape(T, k), Tagged(m, T, k), NEW p \in Blocks(T),
         NEW old \in Blocks(T), NEW n \in Nat, n <= Size(T, old), n + 8 <= Size(T, p),
         NEW m2, m2 = memcpy(m, p, old, n)
  PROVE  /\ Tagged(m2, T, k) /\ SameData(m, m2, T, Blocks(T) \ {p})
         /\ Words(p, n) \subseteq Payload(T, p) /\ Copied(m, m2, p, old, n)
<1>1. /\ old \in Nat /\ Size(T, old) \in Nat /\ p \in Nat /\ old % 8 = 0 /\ p % 8 = 0
      /\ EndOf(T, old) = old + Size(T, old) /\ old + Size(T, old) <= k
      /\ k <= mem_max_addr /\ k \in Nat /\ mem_start_brk <= old
  <2>1. /\ old \in Nat /\ Size(T, old) \in Nat /\ old % 8 = 0 /\ h0 <= old
        /\ EndOf(T, old) = old + Size(T, old) /\ EndOf(T, old) <= k
        /\ p \in Nat /\ p % 8 = 0
    BY ShapeFacts
  <2>2. k <= mem_max_addr /\ k \in Nat
    BY ShapeFacts
  <2> QED BY <2>1, <2>2, RegionFacts
<1>2. ASSUME NEW a \in Words(p, n)
      PROVE  /\ old + (a - p) \in Addr /\ old <= old + (a - p) /\ old + (a - p) < old + n
  <2>1. a \in Addr /\ a \in Nat /\ a % 4 = 0 /\ p <= a /\ a < p + n
    BY RegionFacts DEF Words, Addr, WSIZE
  <2>2. mem_max_addr \in Nat /\ mem_start_brk \in Nat
    BY RegionFacts
  <2>3. /\ old + (a - p) \in Nat /\ old <= old + (a - p) /\ old + (a - p) < old + n
        /\ (old + (a - p)) % 4 = 0
    BY <2>1, <1>1
  <2>4. mem_start_brk <= old + (a - p) /\ old + (a - p) <= mem_max_addr - 1
    <3> DEFINE o == old + (a - p)
    <3>1. o \in Nat /\ old <= o /\ o < old + n
      BY <2>3
    <3> HIDE DEF o
    <3>2. mem_start_brk <= o /\ o <= mem_max_addr - 1
      BY <3>1, <2>2, <1>1
    <3> QED BY <3>2 DEF o
  <2> QED BY <2>2, <2>3, <2>4 DEF Addr, WSIZE
<1>3. Mem(m2)
  BY <1>2 DEF Tagged, Mem, memcpy
<1>4. \A a \in Addr : m2[a] = IF a \in Words(p, n) THEN m[old + (a - p)] ELSE m[a]
  BY DEF memcpy
<1>5. Words(p, n) \subseteq Payload(T, p)
  BY WordsFacts
<1>6. Tagged(m2, T, k) /\ SameData(m, m2, T, Blocks(T) \ {p})
  <2>1. \A a \in Addr : a \notin Payload(T, p) => m2[a] = m[a]
    BY <1>4, <1>5
  <2> QED BY <2>1, <1>3, WriteData
<1>7. Words(p, n) \subseteq Addr
  BY DEF Words
<1> QED BY <1>2, <1>4, <1>5, <1>6, <1>7 DEF Words, Copied

(* The first bytes of the block old, as they were in m, are at p in m2.    *)
Moved(m, m2, T, old, p, size) ==
    \A n \in Nat : n <= size /\ n + 8 <= Size(T, old) =>
       \A a \in Words(p, n) :
          old + (a - p) \in Words(old, n) /\ m2[a] = m[old + (a - p)]

(* A reallocation of old as the data see it: m1 is the memory once the new *)
(* block p is there, mc the one after the copy, m2 the one after the free. *)
LEMMA CopyKeeps ==
  ASSUME NEW T, NEW k, Shape(T, k), NEW U, NEW e, Shape(U, e), NEW A, A \subseteq Blocks(T),
         Keeps(T, U, A), NEW old \in A, NEW p \in Blocks(U) \ A,
         NEW size \in Nat, size + 8 <= Size(U, p),
         NEW m, NEW m1, Tagged(m1, U, e), SameData(m, m1, T, A),
         NEW n, n = (IF size < Size(T, old) THEN size ELSE Size(T, old)),
         NEW mc, mc = memcpy(m1, p, old, n),
         NEW m2, SameData(mc, m2, U, (A \cup {p}) \ {old})
  PROVE  SameData(m, m2, T, A \ {old}) /\ Moved(m, m2, T, old, p, size)
<1>1. /\ \A b \in A : b \in Blocks(T) /\ b \in Blocks(U) /\ U[b] = T[b]
      /\ p \in Blocks(U) /\ p \notin A
  BY DEF Keeps
<1>2. /\ Size(T, old) \in Nat /\ Size(U, old) = Size(T, old) /\ old \in Nat
      /\ p \in Nat /\ Size(U, p) \in Nat
  BY <1>1, SameTag, ShapeFacts
<1>3. n \in Nat /\ n <= size /\ n <= Size(T, old) /\ n + 8 <= Size(U, p)
  BY <1>2
<1>4. /\ SameData(m1, mc, U, Blocks(U) \ {p})
      /\ Words(p, n) \subseteq Payload(U, p) /\ Copied(m1, mc, p, old, n)
  <2>1. old \in Blocks(U) /\ p \in Blocks(U) /\ n <= Size(U, old)
    BY <1>1, <1>2, <1>3
  <2> QED BY <2>1, <1>3, CopyMakes
<1>5. ASSUME NEW b \in A, NEW a \in Payload(T, b)
      PROVE  m1[a] = m[a] /\ mc[a] = m1[a] /\ (b # old => m2[a] = mc[a])
  <2>1. b \in Blocks(U) \ {p} /\ U[b] = T[b] /\ b # p
    BY <1>1
  <2>2. a \in Payload(U, b)
    BY <2>1, SameTag DEF Payload
  <2>3. m1[a] = m[a]
    BY DEF SameData
  <2>4. mc[a] = m1[a]
    BY <2>1, <2>2, <1>4 DEF SameData
  <2>5. b # old => m2[a] = mc[a]
    BY <2>1, <2>2 DEF SameData
  <2> QED BY <2>3, <2>4, <2>5
<1>6. SameData(m, m2, T, A \ {old})
  BY <1>5 DEF SameData
<1>7. ASSUME NEW i \in Nat, i <= size, i + 8 <= Size(T, old), NEW a \in Words(p, i)
      PROVE  old + (a - p) \in Words(old, i) /\ m2[a] = m[old + (a - p)]
  <2>1. a \in Addr /\ a \in Nat /\ p <= a /\ a < p + i
    BY RegionFacts DEF Words
  <2>2. i <= n
    BY <1>2, <1>7
  <2>3. a \in Words(p, n)
    BY <2>1, <2>2, <1>2, <1>3 DEF Words
  <2>4. a \in Payload(U, p) /\ mc[a] = m1[old + (a - p)]
        /\ old + (a - p) \in Addr /\ old <= old + (a - p)
    BY <2>3, <1>4 DEF Words, Copied
  <2>5. old + (a - p) \in Words(old, i)
    <3>1. old + (a - p) < old + i
      BY <2>1, <1>2
    <3> QED BY <3>1, <2>4 DEF Words
  <2>6. m2[a] = mc[a]
    <3>1. p \in (A \cup {p}) \ {old}
      BY <1>1
    <3> QED BY <3>1, <2>4 DEF SameData
  <2>7. old + (a - p) \in Payload(T, old)
    <3>1. Words(old, i) \subseteq Payload(T, old)
      BY <1>1, <1>7, WordsFacts
    <3> QED BY <3>1, <2>5
  <2>8. m1[old + (a - p)] = m[old + (a - p)]
    BY <2>7, <1>5
  <2> QED BY <2>4, <2>5, <2>6, <2>8
<1> QED BY <1>6, <1>7 DEF Moved

-----------------------------------------------------------------------------
(* Numbers *)

(* A nonempty set of natural numbers has a least element. *)
LEMMA Least ==
  ASSUME NEW T \in SUBSET Nat, T # {}
  PROVE  \E x \in T : \A y \in T : x <= y
<1> DEFINE R == StrictSubsetOrdering(Nat)
           I == {0 .. n : n \in T}
<1>1. IsWellFoundedOn(R, FiniteSubsetsOf(Nat))
  BY FS_StrictSubsetOrderingWellFounded
<1>2. I \subseteq FiniteSubsetsOf(Nat) /\ I # {}
  <2>1. ASSUME NEW n \in T PROVE 0 .. n \in FiniteSubsetsOf(Nat)
    <3>1. n \in Int /\ 0 \in Int
      OBVIOUS
    <3>2. IsFiniteSet(0 .. n)
      BY <3>1, FS_Interval
    <3> QED BY <3>2 DEF FiniteSubsetsOf
  <2> QED BY <2>1
<1>3. \A x, y \in T : y < x => <<0 .. y, 0 .. x>> \in R
  BY DEF StrictSubsetOrdering
<1> HIDE DEF R
<1>4. PICK m \in I : \A B \in I : ~ (<<B, m>> \in R)
  <2> HIDE DEF I
  <2> QED BY <1>1, <1>2, WFMin
<1>5. PICK x \in T : m = 0 .. x
  OBVIOUS
<1>6. ASSUME NEW y \in T PROVE x <= y
  <2>1. 0 .. y \in I
    OBVIOUS
  <2>2. ~ (<<0 .. y, 0 .. x>> \in R)
    BY <2>1, <1>4, <1>5
  <2>3. ~ (y < x)
    BY <2>2, <1>3
  <2> QED BY <2>3
<1> QED BY <1>6

(* Induction, for a set. *)
LEMMA Induction ==
  ASSUME NEW T \in SUBSET Nat, 0 \in T, \A n \in T : n + 1 \in T
  PROVE  T = Nat
<1> SUFFICES ASSUME Nat \ T # {} PROVE FALSE
  OBVIOUS
<1>1. PICK x \in Nat \ T : \A y \in Nat \ T : x <= y
  BY Least
<1>2. x - 1 \in Nat /\ x - 1 \notin Nat \ T
  BY <1>1
<1> QED BY <1>1, <1>2

(* The least of a set of numbers. *)
FirstOf(F) == CHOOSE x \in F : \A y \in F : x <= y

(* The first of a set of numbers is one of them. *)
LEMMA FirstFacts ==
  ASSUME NEW F \in SUBSET Nat, F # {}
  PROVE  FirstOf(F) \in F
BY Least DEF FirstOf

(* mem_sbrk never wraps around for these increments. *)
LEMMA SbrkFacts ==
  ASSUME NEW k \in Nat, NEW n \in Nat, k + n < WORD, SbrkOK(k, ToInt(n))
  PROVE  k + n <= mem_max_addr /\ SbrkTo(k, n) = k + n
<1>1. WORD \in Nat /\ WORD % 16 = 0 /\ mem_max_addr \in Nat
  BY RegionFacts
<1>2. n < WORD \div 2 /\ ToInt(n) = n
  BY <1>1 DEF SbrkOK, ToInt
<1>3. Add32(k, n) = k + n
  BY <1>1 DEF Add32
<1> QED BY <1>2, <1>3 DEF SbrkOK, SbrkTo

-----------------------------------------------------------------------------
(* The walk over the heap *)

(* No more than so many blocks fit into the region. *)
Most == MAX_HEAP \div DSIZE

LEMMA MostFacts == Most \in Nat /\ 8 * Most = MAX_HEAP
BY MemAssumption DEF Most, DSIZE

(* f gives the first n blocks a loop visits. *)
Visits(f, m, bp, n) ==
    f = [j \in 0 .. n |-> IF j = 0 THEN bp ELSE NEXT_BLKP(m, f[j - 1])]

(* The blocks a loop visits are well defined. *)
LEMMA VisitsExist ==
  ASSUME NEW m, NEW bp, NEW N \in Nat
  PROVE  \E f : Visits(f, m, bp, N)
<1> DEFINE P == {n \in Nat : \E f : Visits(f, m, bp, n)}
<1>1. 0 \in P
  <2>1. Visits([j \in 0 .. 0 |-> bp], m, bp, 0)
    BY DEF Visits
  <2> QED BY <2>1
<1>2. ASSUME NEW n \in P PROVE n + 1 \in P
  <2>1. n \in Nat
    OBVIOUS
  <2>2. PICK f : Visits(f, m, bp, n)
    OBVIOUS
  <2> DEFINE g == [j \in 0 .. n + 1 |-> IF j = n + 1 THEN NEXT_BLKP(m, f[n]) ELSE f[j]]
  <2>3. \A j \in 0 .. n : g[j] = f[j]
    BY <2>1
  <2>4. ASSUME NEW j \in 0 .. n + 1
        PROVE  g[j] = IF j = 0 THEN bp ELSE NEXT_BLKP(m, g[j - 1])
    <3>1. CASE j = n + 1
      <4>1. j - 1 \in 0 .. n /\ j - 1 = n /\ j # 0
        BY <3>1, <2>1
      <4>2. g[j] = NEXT_BLKP(m, f[n])
        BY <3>1
      <4> QED BY <4>1, <4>2, <2>3
    <3>2. CASE j \in 0 .. n
      <4>1. f[j] = IF j = 0 THEN bp ELSE NEXT_BLKP(m, f[j - 1])
        BY <3>2, <2>2 DEF Visits
      <4>2. j # 0 => j - 1 \in 0 .. n
        BY <3>2, <2>1
      <4> HIDE DEF g
      <4> QED BY <3>2, <4>1, <4>2, <2>3
    <3> QED BY <3>1, <3>2, <2>1
  <2>5. g = [j \in 0 .. n + 1 |-> g[j]]
    OBVIOUS
  <2> HIDE DEF g
  <2>6. Visits(g, m, bp, n + 1)
    BY <2>4, <2>5 DEF Visits
  <2> QED BY <2>1, <2>6
<1>3. P = Nat
  <2> HIDE DEF P
  <2>1. P \subseteq Nat
    BY DEF P
  <2> QED BY <2>1, <1>1, <1>2, Induction
<1> QED BY <1>3

(* A loop from the prologue on visits every block, in the order of their   *)
(* addresses, and then stays at the epilogue.                              *)
LEMMA Walk ==
  ASSUME NEW m, NEW T, NEW k, Shape(T, k), Tagged(m, T, k), NEW b, Visits(b, m, h0, Most)
  PROVE  /\ \A j \in 0 .. Most : b[j] \in Blocks(T) \cup {k}
         /\ \A j \in 1 .. Most :
               b[j] = IF b[j - 1] = k THEN k ELSE EndOf(T, b[j - 1])
         /\ \A j \in 0 .. Most : \A c \in Blocks(T) :
               c < b[j] => \E i \in 0 .. j - 1 : b[i] = c
         /\ b[0] = h0 /\ b[Most] = k
<1> DEFINE At(n) == /\ b[n] \in Blocks(T) \cup {k}
                    /\ b[n] = k \/ b[n] >= h0 + 8 * n
                    /\ \A c \in Blocks(T) : c < b[n] => \E i \in 0 .. n - 1 : b[i] = c
           P == {n \in Nat : n <= Most => At(n)}
<1>1. /\ b[0] = h0 /\ Most \in Nat
      /\ \A j \in 1 .. Most : b[j] = NEXT_BLKP(m, b[j - 1])
  BY MostFacts DEF Visits
<1>2. /\ k \in Nat /\ h0 \in Blocks(T) /\ h0 \in Nat /\ k <= mem_max_addr
      /\ \A c \in Blocks(T) : /\ c \in Nat /\ h0 <= c /\ c < k
                              /\ EndOf(T, c) \in Nat /\ EndOf(T, c) >= c + 8
                              /\ EndOf(T, c) \in Blocks(T) \cup {k}
  BY ShapeFacts, RegionFacts
<1>3. \A j \in 1 .. Most :
         b[j - 1] \in Blocks(T) \cup {k} =>
            b[j] = IF b[j - 1] = k THEN k ELSE EndOf(T, b[j - 1])
  <2> SUFFICES ASSUME NEW j \in 1 .. Most, b[j - 1] \in Blocks(T) \cup {k}
               PROVE  b[j] = IF b[j - 1] = k THEN k ELSE EndOf(T, b[j - 1])
    OBVIOUS
  <2>1. b[j] = NEXT_BLKP(m, b[j - 1])
    BY <1>1
  <2>2. CASE b[j - 1] = k
    BY <2>1, <2>2, ReadEpilogue
  <2>3. CASE b[j - 1] # k
    BY <2>1, <2>3, ReadBlock
  <2> QED BY <2>2, <2>3
<1>4. 0 \in P
  <2>1. \A c \in Blocks(T) : ~(c < h0)
    BY <1>2
  <2>2. At(0)
    BY <2>1, <1>1, <1>2
  <2> QED BY <2>2
<1>5. ASSUME NEW n \in P PROVE n + 1 \in P
  <2> SUFFICES ASSUME n + 1 <= Most PROVE At(n + 1)
    OBVIOUS
  <2>1. n \in Nat /\ n + 1 \in 1 .. Most /\ (n + 1) - 1 = n /\ n <= Most
    BY <1>1
  <2>2. At(n)
    BY <2>1
  <2>3. b[n + 1] = IF b[n] = k THEN k ELSE EndOf(T, b[n])
    BY <2>1, <2>2, <1>3
  <2>4. \A i \in 0 .. n - 1 : i \in 0 .. (n + 1) - 1
    BY <2>1
  <2>5. CASE b[n] = k
    BY <2>1, <2>2, <2>3, <2>4, <2>5
  <2>6. CASE b[n] # k
    <3>1. b[n] \in Blocks(T) /\ b[n] >= h0 + 8 * n /\ b[n + 1] = EndOf(T, b[n])
      BY <2>2, <2>3, <2>6
    <3>2. b[n + 1] \in Blocks(T) \cup {k} /\ b[n + 1] >= h0 + 8 * (n + 1)
      <4>1. EndOf(T, b[n]) \in Nat /\ EndOf(T, b[n]) >= b[n] + 8 /\ b[n] \in Nat
        BY <3>1, <1>2
      <4> QED BY <4>1, <3>1, <2>1, <1>2
    <3>3. ASSUME NEW c \in Blocks(T), c < b[n + 1]
          PROVE  \E i \in 0 .. (n + 1) - 1 : b[i] = c
      <4>1. CASE c = b[n]
        BY <4>1, <2>1
      <4>2. CASE c # b[n]
        <5>1. EndOf(T, c) <= b[n] \/ EndOf(T, b[n]) <= c
          BY <4>2, <3>1, Sides
        <5>2. /\ c \in Nat /\ EndOf(T, c) \in Nat /\ EndOf(T, c) >= c + 8
              /\ b[n] \in Nat /\ EndOf(T, b[n]) \in Nat /\ c < EndOf(T, b[n])
          BY <3>1, <3>3, <1>2
        <5>3. c < b[n]
          BY <5>1, <5>2
        <5> QED BY <5>3, <2>2, <2>4
      <4> QED BY <4>1, <4>2
    <3> QED BY <3>2, <3>3
  <2> QED BY <2>5, <2>6
<1>6. P = Nat
  <2> HIDE DEF P
  <2>1. P \subseteq Nat
    BY DEF P
  <2> QED BY <2>1, <1>4, <1>5, Induction
<1>7. \A j \in 0 .. Most : At(j)
  BY <1>6
<1>8. b[Most] = k
  <2>1. Most \in 0 .. Most
    BY <1>1
  <2>2. At(Most)
    BY <2>1, <1>7
  <2>3. ~(h0 + 8 * Most <= mem_max_addr)
    <3>1. 8 * Most = MAX_HEAP /\ MAX_HEAP \in Nat /\ mem_max_addr = mem_start_brk + MAX_HEAP
      BY MostFacts, MemAssumption DEF mem_max_addr
    <3> QED BY <3>1, RegionFacts
  <2>4. b[Most] \in Blocks(T) => b[Most] < k /\ b[Most] \in Nat
    BY <1>2
  <2>5. h0 + 8 * Most \in Nat
    BY <1>1, <1>2
  <2>6. mem_max_addr \in Nat
    BY RegionFacts
  <2> QED BY <2>2, <2>3, <2>4, <2>5, <2>6, <1>2
<1>9. \A j \in 1 .. Most : b[j] = IF b[j - 1] = k THEN k ELSE EndOf(T, b[j - 1])
  <2> SUFFICES ASSUME NEW j \in 1 .. Most
               PROVE  b[j] = IF b[j - 1] = k THEN k ELSE EndOf(T, b[j - 1])
    OBVIOUS
  <2>1. j - 1 \in 0 .. Most
    BY <1>1
  <2>2. b[j - 1] \in Blocks(T) \cup {k}
    BY <2>1, <1>7
  <2> QED BY <2>2, <1>3
<1> QED BY <1>1, <1>7, <1>8, <1>9

-----------------------------------------------------------------------------
(* Free blocks and payloads *)

(* The free blocks. *)
Frees(T) == {b \in Blocks(T) : IsFree(T, b)}

(* The payloads of the program. *)
Owned(T) == Allocs(T) \ {h0}

(* PutTags writes two words only. *)
LEMMA PutTagsOnly ==
  ASSUME NEW m, Mem(m), NEW x \in Nat, NEW e \in Nat, x + 8 <= e, (e - x) % 8 = 0,
         NEW al \in {0, 1}, x - 4 \in Addr, e - 8 \in Addr
  PROVE  \A a \in Addr : a # x - 4 /\ a # e - 8 => PutTags(m, x, e - x, al)[a] = m[a]
<1> DEFINE w == PACK(e - x, al)
           m1 == [m EXCEPT ![x - 4] = w]
           m2 == [m1 EXCEPT ![e - 8] = w]
<1>1. w \in Nat /\ SizeOf(w) = e - x
  <2>1. e - x \in Nat
    OBVIOUS
  <2> QED BY <2>1, PackFacts
<1> HIDE DEF w
<1>2. Mem(m1) /\ m1[x - 4] = w
  BY <1>1 DEF Mem
<1>3. PutTags(m, x, e - x, al) = m2
  <2>1. PUT(m, HDRP(x), w) = m1
    BY DEF PUT, HDRP, WSIZE
  <2>2. FTRP(m1, x) = e - 8
    <3>1. FTRP(m1, x) = x + (e - x) - 8
      BY <1>1, <1>2 DEF FTRP, GET_SIZE, GET, HDRP, WSIZE, DSIZE
    <3> QED BY <3>1
  <2> HIDE DEF m1
  <2> QED BY <2>1, <2>2 DEF PutTags, PUT, w
<1>4. \A a \in Addr : a # x - 4 /\ a # e - 8 => m2[a] = m[a]
  BY DEF Mem
<1> QED BY <1>3, <1>4

(* Payloads that stay, stay. *)
LEMMA DataTrans ==
  ASSUME NEW m, NEW m1, NEW m2, NEW T, NEW A, SameData(m, m1, T, A), SameData(m1, m2, T, A)
  PROVE  SameData(m, m2, T, A)
BY DEF SameData

LEMMA DataSome ==
  ASSUME NEW m, NEW m2, NEW T, NEW A, SameData(m, m2, T, A), NEW B, B \subseteq A
  PROVE  SameData(m, m2, T, B)
BY DEF SameData

LEMMA DataVia ==
  ASSUME NEW m, NEW m2, NEW T, NEW T2, NEW A, Keeps(T, T2, A), SameData(m, m2, T2, A)
  PROVE  SameData(m, m2, T, A)
<1> SUFFICES ASSUME NEW b \in A, NEW a \in Payload(T, b) PROVE m2[a] = m[a]
  BY DEF SameData
<1>1. EndOf(T2, b) = EndOf(T, b)
  BY SameTag DEF Keeps
<1> QED BY <1>1 DEF SameData, Payload

LEMMA DataOutside ==
  ASSUME NEW T, NEW k, Shape(T, k), NEW x \in Int, NEW e \in Int,
         NEW m, NEW m2, SameOutside(m, m2, x, e), NEW A, A \subseteq Blocks(T),
         \A b \in A : EndOf(T, b) <= x \/ b >= e
  PROVE  SameData(m, m2, T, A)
<1> SUFFICES ASSUME NEW b \in A PROVE \A a \in Payload(T, b) : m2[a] = m[a]
  BY DEF SameData
<1>1. b \in Nat /\ EndOf(T, b) \in Nat
  BY ShapeFacts
<1> QED BY <1>1, OutsideData

(* The free blocks that stay when bp is merged with its free neighbours.   *)
Rest(T, bp) == {b \in Frees(T) : EndOf(T, b) <= Start(T, bp) \/ b >= Stop(T, bp)}

LEMMA RestFacts ==
  ASSUME NEW T, NEW k, Shape(T, k), NEW bp \in Blocks(T) \ {h0}, IsFree(T, bp),
         NEW F, F = (IF NextIsFree(T, bp) THEN (Frees(T) \ {bp}) \ {EndOf(T, bp)}
                     ELSE Frees(T) \ {bp})
  PROVE  /\ Rest(T, bp) = F \ {Start(T, bp)}
         /\ Start(T, bp) \notin Rest(T, bp)
         /\ Start(T, bp) # bp => Start(T, bp) \in F
         /\ NextIsFree(T, bp) => EndOf(T, bp) \in Frees(T) \ {bp}
         /\ Frees(Merged(T, bp)) = Rest(T, bp) \cup {Start(T, bp)}
<1> DEFINE x == Start(T, bp)
           e == Stop(T, bp)
           nx == EndOf(T, bp)
           T2 == Merged(T, bp)
<1>1. \A b \in Blocks(T) : b \in Nat /\ EndOf(T, b) \in Nat /\ b < EndOf(T, b)
  BY ShapeFacts
<1>2. /\ x \in Blocks(T) \ {h0} /\ e \in Blocks(T) \cup {k} /\ x <= bp /\ nx <= e /\ x < e
      /\ x # bp => IsFree(T, x) /\ EndOf(T, x) = bp
  BY StartStop
<1>3. e \in Nat /\ x \in Nat /\ bp \in Nat /\ nx \in Nat /\ bp < nx
  <2>1. k \in Nat
    BY ShapeFacts
  <2> HIDE DEF x, e
  <2> QED BY <2>1, <1>1, <1>2
<1>4. NextIsFree(T, bp) => /\ nx \in Blocks(T) /\ nx \in Frees(T) /\ nx # bp /\ x # nx
                           /\ e = EndOf(T, nx)
  <2> SUFFICES ASSUME NextIsFree(T, bp)
               PROVE  nx \in Blocks(T) /\ nx \in Frees(T) /\ nx # bp /\ x # nx
                      /\ e = EndOf(T, nx)
    OBVIOUS
  <2>1. nx \in Blocks(T) /\ nx \in Frees(T) /\ e = EndOf(T, nx)
    BY DEF NextIsFree, Frees, Stop
  <2> HIDE DEF x, e, nx
  <2> QED BY <2>1, <1>2, <1>3
<1>5. ~NextIsFree(T, bp) => e = nx
  BY DEF Stop
<1>6. \A b \in Blocks(T) : b # bp => EndOf(T, b) <= bp \/ nx <= b
  BY Sides
<1>7. \A b \in Blocks(T) : b # x => EndOf(T, b) <= x \/ EndOf(T, x) <= b
  BY <1>2, Sides
<1>8. NextIsFree(T, bp) => \A b \in Blocks(T) : b # nx => EndOf(T, b) <= nx \/ e <= b
  BY <1>4, Sides
<1> HIDE DEF x, e, nx, T2
<1>9. ASSUME NEW b \in Rest(T, bp) PROVE b \in F \ {x}
  <2>1. b \in Frees(T) /\ b \in Blocks(T) /\ (EndOf(T, b) <= x \/ b >= e)
    BY DEF Rest, Frees, x, e
  <2>2. b \in Nat /\ EndOf(T, b) \in Nat /\ b < EndOf(T, b)
    BY <2>1, <1>1
  <2>3. b # x
    BY <2>1, <2>2, <1>2, <1>3
  <2>4. b # bp
    BY <2>1, <2>2, <1>2, <1>3 DEF nx
  <2>5. NextIsFree(T, bp) => b # nx
    BY <2>1, <2>2, <1>2, <1>3, <1>4
  <2> QED BY <2>1, <2>3, <2>4, <2>5 DEF nx
<1>10. ASSUME NEW b \in F \ {x} PROVE b \in Rest(T, bp)
  <2>1. b \in Frees(T) /\ b \in Blocks(T) /\ b # x /\ b # bp /\ (NextIsFree(T, bp) => b # nx)
    BY DEF Frees, nx
  <2>2. b \in Nat /\ EndOf(T, b) \in Nat /\ b < EndOf(T, b)
    BY <2>1, <1>1
  <2>3. CASE EndOf(T, b) <= bp
    <3>1. EndOf(T, b) <= x
      BY <2>1, <2>2, <2>3, <1>2, <1>3, <1>7
    <3> QED BY <3>1, <2>1 DEF Rest, x
  <2>4. CASE nx <= b
    <3>1. b >= e
      BY <2>1, <2>2, <2>4, <1>3, <1>5, <1>8
    <3> QED BY <3>1, <2>1 DEF Rest, e
  <2> QED BY <2>1, <2>3, <2>4, <1>6
<1>11. Rest(T, bp) = F \ {x}
  BY <1>9, <1>10
<1>12. x # bp => x \in F
  BY <1>2, <1>4 DEF Frees, nx
<1>13. Frees(T2) = Rest(T, bp) \cup {x}
  <2>1. /\ x \in Blocks(T2) /\ IsFree(T2, x)
        /\ \A b : b \in Blocks(T2) <=> b \in Blocks(T) /\ (b <= x \/ b >= e)
        /\ \A b \in Blocks(T2) : b # x => /\ (IsFree(T2, b) <=> IsFree(T, b))
                                        /\ (EndOf(T, b) <= x \/ b >= e)
    <3>1. T2 = Join(T, x, e, 0)
      BY DEF T2, Merged, x, e
    <3> QED BY <3>1, <1>2, JoinShape
  <2>2. ASSUME NEW b \in Frees(T2) PROVE b \in Rest(T, bp) \cup {x}
    BY <2>1 DEF Frees, Rest, x, e
  <2>3. ASSUME NEW b \in Rest(T, bp) PROVE b \in Frees(T2)
    <3>1. b \in Blocks(T) /\ IsFree(T, b) /\ (EndOf(T, b) <= x \/ b >= e)
      BY DEF Frees, Rest, x, e
    <3>2. b \in Nat /\ EndOf(T, b) \in Nat /\ b < EndOf(T, b) /\ b # x
      BY <3>1, <1>1, <1>9
    <3>3. b \in Blocks(T2)
      BY <3>1, <3>2, <2>1, <1>3
    <3> QED BY <3>1, <3>2, <3>3, <2>1 DEF Frees
  <2> QED BY <2>1, <2>2, <2>3 DEF Frees
<1> QED BY <1>4, <1>11, <1>12, <1>13 DEF x, nx, T2

(* A walk over free blocks that meets none of them twice is short. *)
LEMMA ShortWalk ==
  ASSUME NEW T, NEW k, Shape(T, k), NEW len \in Nat, NEW at,
         \A i \in 1 .. len : at[i] \in Frees(T),
         \A i, j \in 1 .. len : at[i] = at[j] => i = j
  PROVE  len < Most
<1>1. Most \in Nat /\ 8 * Most = MAX_HEAP /\ MAX_HEAP \in Nat
  BY MostFacts, MemAssumption
<1>2. /\ h0 \in Nat /\ h0 % 8 = 0 /\ k \in Nat /\ k <= h0 + 8 * Most - 8
      /\ \A b \in Frees(T) : b \in Nat /\ b % 8 = 0 /\ h0 < b /\ b < k
  <2>1. k <= h0 + 8 * Most - 8
    <3>1. /\ k \in Nat /\ k <= mem_max_addr /\ mem_max_addr = mem_start_brk + MAX_HEAP
          /\ h0 = mem_start_brk + 8 /\ mem_start_brk \in Nat
      BY ShapeFacts, RegionFacts DEF mem_max_addr
    <3> QED BY <3>1, <1>1
  <2>2. \A b \in Frees(T) : b \in Nat /\ b % 8 = 0 /\ h0 <= b /\ b < k /\ b # h0
    BY ShapeFacts DEF Frees
  <2>3. h0 \in Nat /\ h0 % 8 = 0 /\ k \in Nat
    BY ShapeFacts, RegionFacts
  <2> QED BY <2>1, <2>2, <2>3
<1> DEFINE f == [i \in 1 .. len |-> (at[i] - h0) \div 8]
<1>3. \A i \in 1 .. len : f[i] \in 1 .. Most - 1 /\ at[i] = h0 + 8 * f[i]
  <2> SUFFICES ASSUME NEW i \in 1 .. len
               PROVE  f[i] \in 1 .. Most - 1 /\ at[i] = h0 + 8 * f[i]
    OBVIOUS
  <2> DEFINE x == at[i]
  <2>1. f[i] = (x - h0) \div 8
    OBVIOUS
  <2>2. x \in Nat /\ x % 8 = 0 /\ h0 < x /\ x < k
    BY <1>1, <1>2
  <2> HIDE DEF x, f
  <2>3. (x - h0) % 8 = 0 /\ x - h0 \in Nat
    BY <2>2, <1>2, AlignedSum
  <2> DEFINE y == x - h0
  <2>4. y \in Nat /\ y % 8 = 0 /\ x = h0 + y /\ y > 0 /\ y < 8 * Most - 8
    BY <2>2, <2>3, <1>1, <1>2
  <2> HIDE DEF y
  <2>5. y = 8 * (y \div 8) /\ y \div 8 \in Nat
    BY <2>4
  <2>6. y \div 8 \in 1 .. Most - 1
    BY <2>4, <2>5, <1>1
  <2> QED BY <2>1, <2>4, <2>5, <2>6 DEF x, y
<1>4. f \in [1 .. len -> 1 .. Most - 1]
  BY <1>3
<1>5. \A i, j \in 1 .. len : f[i] = f[j] => i = j
  BY <1>1, <1>3
<1> HIDE DEF f
<1>6. /\ IsFiniteSet(1 .. len) /\ Cardinality(1 .. len) = len
      /\ IsFiniteSet(1 .. Most - 1)
      /\ Cardinality(1 .. Most - 1) = IF 1 > Most - 1 THEN 0 ELSE Most - 1
  <2>1. 1 \in Int /\ len \in Int /\ Most - 1 \in Int
    BY <1>1
  <2>2. IsFiniteSet(1 .. len) /\ Cardinality(1 .. len) = IF 1 > len THEN 0 ELSE len - 1 + 1
    BY <2>1, FS_Interval
  <2>3. /\ IsFiniteSet(1 .. Most - 1)
        /\ Cardinality(1 .. Most - 1) = IF 1 > Most - 1 THEN 0 ELSE (Most - 1) - 1 + 1
    BY <2>1, FS_Interval
  <2> QED BY <2>2, <2>3, <1>1
<1>7. ~(Cardinality(1 .. Most - 1) < Cardinality(1 .. len))
  <2> SUFFICES ASSUME Cardinality(1 .. Most - 1) < Cardinality(1 .. len) PROVE FALSE
    OBVIOUS
  <2> DEFINE S == 1 .. len
             R == 1 .. Most - 1
  <2>1. /\ IsFiniteSet(S) /\ IsFiniteSet(R) /\ Cardinality(R) < Cardinality(S)
        /\ f \in [S -> R] /\ \A i, j \in S : f[i] = f[j] => i = j
    BY <1>4, <1>5, <1>6
  <2> HIDE DEF S, R
  <2>2. \E i, j \in S : i # j /\ f[i] = f[j]
    BY <2>1, FS_PigeonHole
  <2> QED BY <2>1, <2>2
<1>8. Most >= 1
  BY <1>1, <1>2, ShapeFacts
<1> QED BY <1>1, <1>6, <1>7, <1>8

=============================================================================
