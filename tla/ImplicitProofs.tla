--------------------------- MODULE ImplicitProofs ---------------------------
(***************************************************************************)
(* What the driver finds of implicit-54.c, whatever the region, the chunk  *)
(* size, the indices, the sizes requested and the length of the trace.     *)
(* First what each function does to the tags of the heap and to the        *)
(* payloads; then that the allocator keeps the contract of DriverProofs,   *)
(* a heap being described by its tags and its break.                       *)
(***************************************************************************)
EXTENDS Implicit, TagLemmas

-----------------------------------------------------------------------------
(* The walk over the heap *)

(* Visited starts at bp and goes on by NEXT_BLKP. *)
LEMMA VisitedFacts ==
  ASSUME NEW m, NEW bp
  PROVE  Visits(Visited(m, bp), m, bp, Most) /\ DOMAIN Visited(m, bp) = 0 .. Most
<1> DEFINE G(f) == [j \in 0 .. Most |-> IF j = 0 THEN bp ELSE NEXT_BLKP(m, f[j - 1])]
           f0 == CHOOSE f : f = G(f)
<1>1. Most \in Nat
  BY MostFacts
<1>2. PICK g : Visits(g, m, bp, Most)
  BY <1>1, VisitsExist
<1>3. g = G(g)
  BY <1>2 DEF Visits
<1>4. f0 = G(f0)
  <2> HIDE DEF G
  <2> QED BY <1>3
<1>5. Visited(m, bp) = f0
  BY DEF Visited, Most
<1> HIDE DEF f0
<1> QED BY <1>1, <1>4, <1>5 DEF Visits

(* The free blocks with room for asize bytes, and the first of them.       *)
Fitting(T, asize) == {b \in Blocks(T) : IsFree(T, b) /\ asize <= Size(T, b)}

(* find_fit finds the first block that fits, if there is one.              *)
LEMMA FirstFit ==
  ASSUME NEW m, NEW T, NEW k, Shape(T, k), Tagged(m, T, k), NEW asize \in Nat
  PROVE  /\ Fitting(T, asize) = {} => find_fit(m, h0, asize) = NULL
         /\ Fitting(T, asize) # {} => /\ find_fit(m, h0, asize) = FirstOf(Fitting(T, asize))
                                      /\ FirstOf(Fitting(T, asize)) \in Fitting(T, asize)
<1> DEFINE b == Visited(m, h0)
           F == Fitting(T, asize)
           Fits(i) == GET_ALLOC(m, HDRP(b[i])) = 0 /\ asize <= GET_SIZE(m, HDRP(b[i]))
           Goes(i) == ~AtEnd(m, b[i]) /\ ~Fits(i)
           First(i) == ~Goes(i) /\ \A j \in 0 .. i - 1 : Goes(j)
           n == CHOOSE i \in DOMAIN b : First(i)
<1>1. DOMAIN b = 0 .. Most /\ Most \in Nat
  BY VisitedFacts, MostFacts
<1>2. /\ \A j \in 0 .. Most : b[j] \in Blocks(T) \cup {k}
      /\ \A j \in 0 .. Most : \A c \in Blocks(T) :
            c < b[j] => \E i \in 0 .. j - 1 : b[i] = c
      /\ b[Most] = k
  BY VisitedFacts, Walk
<1>3. find_fit(m, h0, asize) = IF AtEnd(m, b[n]) THEN NULL ELSE b[n]
  BY DEF find_fit
<1> HIDE DEF b
<1>4. k \in Nat /\ k \notin Blocks(T) /\ \A c \in Blocks(T) : c \in Nat /\ c < k
  BY ShapeFacts
<1>5. ASSUME NEW j \in 0 .. Most
      PROVE  (AtEnd(m, b[j]) <=> b[j] = k) /\ (Fits(j) <=> b[j] \in F)
  <2>1. CASE b[j] = k
    BY <2>1, <1>4, ReadEpilogue DEF AtEnd, Fitting
  <2>2. CASE b[j] # k
    <3>1. b[j] \in Blocks(T)
      BY <2>2, <1>2
    <3>2. Size(T, b[j]) >= 8 /\ Size(T, b[j]) \in Nat
      BY <3>1, ShapeFacts
    <3> QED BY <3>1, <3>2, <2>2, ReadBlock DEF AtEnd, Fitting
  <2> QED BY <2>1, <2>2
<1>6. n \in 0 .. Most /\ First(n)
  <2> DEFINE S == {i \in 0 .. Most : ~Goes(i)}
  <2>1. Most \in S /\ S \subseteq Nat
    BY <1>1, <1>2, <1>5
  <2> HIDE DEF S
  <2>2. PICK i \in S : \A j \in S : i <= j
    BY <2>1, Least
  <2>3. i \in 0 .. Most /\ ~Goes(i)
    BY <2>2 DEF S
  <2>4. ASSUME NEW j \in 0 .. i - 1 PROVE Goes(j)
    <3>1. j \in 0 .. Most /\ ~(i <= j)
      BY <2>3, <1>1
    <3> QED BY <3>1, <2>2 DEF S
  <2>5. \E x \in DOMAIN b : First(x)
    BY <2>3, <2>4, <1>1
  <2> HIDE DEF First
  <2> QED BY <2>5, <1>1
<1> HIDE DEF n
<1>7. ASSUME NEW y \in F PROVE b[n] <= y /\ b[n] # k
  <2>1. y \in Blocks(T) /\ y \in Nat /\ y < k
    BY <1>4 DEF Fitting
  <2>2. ~(y < b[n])
    <3> SUFFICES ASSUME y < b[n] PROVE FALSE
      OBVIOUS
    <3>1. PICK i \in 0 .. n - 1 : b[i] = y
      BY <1>2, <1>6, <2>1
    <3>2. Goes(i) /\ i \in 0 .. Most
      BY <1>1, <1>6
    <3> QED BY <3>1, <3>2, <1>5
  <2>3. b[n] \in Nat
    <3>1. b[n] \in Blocks(T) \cup {k}
      BY <1>2, <1>6
    <3> QED BY <3>1, <1>4
  <2> QED BY <2>1, <2>2, <2>3
<1>8. b[n] # k => b[n] \in F
  BY <1>5, <1>6
<1>9. CASE F = {}
  BY <1>9, <1>3, <1>5, <1>6, <1>8
<1>10. CASE F # {}
  <2>1. b[n] # k /\ b[n] \in F
    BY <1>7, <1>8, <1>10
  <2>2. F \subseteq Nat
    BY <1>4 DEF Fitting
  <2>3. FirstOf(F) \in F /\ \A y \in F : FirstOf(F) <= y
    BY <2>1, <1>7 DEF FirstOf
  <2>4. b[n] <= FirstOf(F) /\ FirstOf(F) <= b[n]
    BY <2>1, <2>3, <1>7
  <2>5. b[n] = FirstOf(F)
    BY <2>1, <2>2, <2>3, <2>4
  <2> QED BY <2>1, <2>3, <2>5, <1>3, <1>5, <1>6
<1> QED BY <1>9, <1>10

(* A heap whose memory holds the tags of a well-formed heap is walked      *)
(* completely.                                                             *)
LEMMA WalkComplete ==
  ASSUME NEW m, NEW T, NEW k, Shape(T, k), Separate(T), Tagged(m, T, k),
         NEW b, b = Visited(m, h0)
  PROVE  \E n \in DOMAIN b :
            /\ b[n] = k /\ GET(m, HDRP(b[n])) = PACK(0, 1)
            /\ \A i \in 0 .. n - 1 :
                  /\ ~AtEnd(m, b[i]) /\ b[i + 1] <= k
                  /\ GET(m, FTRP(m, b[i])) = GET(m, HDRP(b[i]))
                  /\ \/ GET_ALLOC(m, HDRP(b[i])) = 1 \/ i = 0
                     \/ GET_ALLOC(m, HDRP(b[i - 1])) = 1
<1>1. DOMAIN b = 0 .. Most /\ Most \in Nat
  BY VisitedFacts, MostFacts
<1>2. /\ \A j \in 0 .. Most : b[j] \in Blocks(T) \cup {k}
      /\ \A j \in 1 .. Most : b[j] = IF b[j - 1] = k THEN k ELSE EndOf(T, b[j - 1])
      /\ b[Most] = k
  BY VisitedFacts, Walk
<1> DEFINE S == {i \in 0 .. Most : b[i] = k}
<1>3. Most \in S /\ S \subseteq Nat
  BY <1>1, <1>2
<1>4. PICK n \in S : \A j \in S : n <= j
  BY <1>3, Least
<1>5. n \in 0 .. Most /\ b[n] = k /\ k \in Nat
  BY ShapeFacts
<1>6. \A i \in 0 .. n - 1 : i \in 0 .. Most /\ b[i] \in Blocks(T)
  <2> SUFFICES ASSUME NEW i \in 0 .. n - 1 PROVE i \in 0 .. Most /\ b[i] \in Blocks(T)
    OBVIOUS
  <2>1. i \in 0 .. Most /\ ~(n <= i)
    BY <1>1, <1>5
  <2> QED BY <2>1, <1>2, <1>4
<1> HIDE DEF S
<1>7. GET(m, HDRP(k)) = PACK(0, 1)
  BY DEF Tagged, GET, HDRP, WSIZE
<1>8. ASSUME NEW i \in 0 .. n - 1
      PROVE  /\ ~AtEnd(m, b[i]) /\ b[i + 1] <= k
             /\ GET(m, FTRP(m, b[i])) = GET(m, HDRP(b[i]))
             /\ \/ GET_ALLOC(m, HDRP(b[i])) = 1 \/ i = 0
                \/ GET_ALLOC(m, HDRP(b[i - 1])) = 1
  <2>1. b[i] \in Blocks(T) /\ i \in Nat /\ b[i] # k
    <3>1. k \notin Blocks(T)
      BY ShapeFacts
    <3> QED BY <3>1, <1>5, <1>6
  <2>2. i + 1 \in 1 .. Most /\ (i + 1) - 1 = i
    BY <2>1, <1>1, <1>5
  <2>3. b[i + 1] = EndOf(T, b[i]) /\ EndOf(T, b[i]) <= k
    BY <2>1, <2>2, <1>2, ShapeFacts
  <2>4. Size(T, b[i]) \in Nat /\ Size(T, b[i]) >= 8
    BY <2>1, ShapeFacts
  <2>5. ~AtEnd(m, b[i])
    BY <2>1, <2>4, ReadBlock DEF AtEnd
  <2>6. GET(m, FTRP(m, b[i])) = GET(m, HDRP(b[i]))
    <3>1. FTRP(m, b[i]) = EndOf(T, b[i]) - 8
      BY <2>1, ReadBlock
    <3> QED BY <3>1, <2>1 DEF Tagged, GET, HDRP, WSIZE
  <2>7. CASE i # 0
    <3>1. i - 1 \in 0 .. n - 1 /\ i \in 1 .. Most
      BY <2>7, <2>1, <1>1, <1>5
    <3>2. b[i - 1] \in Blocks(T)
      BY <3>1, <1>6
    <3>3. b[i - 1] # k
      BY <3>2, ShapeFacts
    <3>4. b[i] = EndOf(T, b[i - 1])
      BY <3>1, <3>3, <1>2
    <3>5. ~IsFree(T, b[i - 1]) \/ ~IsFree(T, b[i])
      BY <3>2, <3>4, <2>1 DEF Separate
    <3>6. GET_ALLOC(m, HDRP(b[i])) = 1 \/ GET_ALLOC(m, HDRP(b[i - 1])) = 1
      BY <3>2, <3>5, <2>1, ReadBlock
    <3> QED BY <3>6, <2>3, <2>5, <2>6
  <2> QED BY <2>3, <2>5, <2>6, <2>7
<1> QED BY <1>1, <1>5, <1>7, <1>8

-----------------------------------------------------------------------------
(* What the allocator's functions do to the tags *)

(* coalesce makes one free block of bp and its free neighbours, and writes *)
(* only between them.                                                      *)
LEMMA CoalesceMakes ==
  ASSUME NEW m, NEW T, NEW k, Shape(T, k), Tagged(m, T, k), NEW bp \in Blocks(T) \ {h0},
         IsFree(T, bp), NEW c, c = coalesce(m, bp)
  PROVE  /\ c.bp = Start(T, bp) /\ Tagged(c.m, Merged(T, bp), k)
         /\ SameOutside(m, c.m, Start(T, bp), Stop(T, bp))
<1> DEFINE x == Start(T, bp)
           e == Stop(T, bp)
           nx == EndOf(T, bp)
<1>1. PICK pv \in Blocks(T) : EndOf(T, pv) = bp
  BY ShapeFacts
<1>2. /\ PREV_BLKP(m, bp) = pv
      /\ GET_ALLOC(m, FTRP(m, pv)) = (IF IsFree(T, pv) THEN 0 ELSE 1)
      /\ GET_SIZE(m, HDRP(pv)) = Size(T, pv)
      /\ GET_SIZE(m, HDRP(bp)) = Size(T, bp)
      /\ NEXT_BLKP(m, bp) = nx /\ FTRP(m, bp) = nx - 8
  BY <1>1, ReadBlock
<1>3. GET_ALLOC(m, HDRP(nx)) = IF NextIsFree(T, bp) THEN 0 ELSE 1
  <2>1. nx \in Blocks(T) \cup {k}
    BY ShapeFacts
  <2>2. CASE nx \in Blocks(T)
    BY <2>2, ReadBlock DEF NextIsFree
  <2>3. CASE nx \notin Blocks(T)
    BY <2>1, <2>3, ReadEpilogue DEF NextIsFree
  <2> QED BY <2>2, <2>3
<1>4. NextIsFree(T, bp) => /\ nx \in Blocks(T) /\ e = EndOf(T, nx)
                           /\ GET_SIZE(m, HDRP(nx)) = Size(T, nx)
                           /\ GET_SIZE(m, FTRP(m, nx)) = Size(T, nx)
                           /\ FTRP(m, nx) = e - 8
  BY ReadBlock DEF NextIsFree, Stop
<1>5. ~NextIsFree(T, bp) => e = nx
  BY DEF Stop
<1>6. x = IF IsFree(T, pv) THEN pv ELSE bp
  BY <1>1, StartStop
<1>7. /\ x \in Blocks(T) \ {h0} /\ e \in Blocks(T) \cup {k} /\ x < e
  BY StartStop
<1>8. /\ k \in Nat
      /\ \A b \in Blocks(T) : /\ b \in Nat /\ b % 8 = 0 /\ Size(T, b) \in Nat
                              /\ Size(T, b) >= 8 /\ Size(T, b) % 8 = 0
                              /\ EndOf(T, b) \in Nat /\ EndOf(T, b) = b + Size(T, b)
                              /\ b - 4 \in Addr /\ EndOf(T, b) - 8 \in Addr
      /\ k % 8 = 0
  BY ShapeFacts
<1>9. e - 8 \in Addr /\ e \in Nat /\ x \in Nat /\ x - 4 \in Addr /\ x + 8 <= e
  <2>1. e \in Nat
    BY <1>7, <1>8
  <2>2. e - 8 \in Addr
    BY <1>4, <1>5, <1>8
  <2>3. x + 8 <= e
    <3>1. x + 8 <= EndOf(T, x) /\ x \in Nat /\ EndOf(T, x) \in Nat
      BY <1>7, <1>8
    <3>2. e \in Blocks(T) => EndOf(T, x) <= e
      BY <1>7, ShapeFacts
    <3>3. e = k => EndOf(T, x) <= e
      BY <1>7, ShapeFacts
    <3> HIDE DEF x, e
    <3> QED BY <3>1, <3>2, <3>3, <2>1, <1>7
  <2> QED BY <2>1, <2>2, <2>3, <1>7, <1>8
<1>10. Mem(m)
  BY DEF Tagged
<1>11. (e - x) % 8 = 0 /\ e - x \in Nat /\ PACK(e - x, 0) \in Nat
  <2>1. x % 8 = 0 /\ e % 8 = 0
    BY <1>7, <1>8
  <2> HIDE DEF x, e
  <2>2. (e - x) % 8 = 0 /\ e - x \in Nat
    BY <2>1, <1>9, AlignedSum
  <2> QED BY <2>2, PackFacts
<1>12. SUFFICES /\ c.bp = x /\ Mem(c.m)
                /\ c.m[x - 4] = PACK(e - x, 0) /\ c.m[e - 8] = PACK(e - x, 0)
                /\ SameOutside(m, c.m, x, e)
  <2> HIDE DEF x, e
  <2>1. Merged(T, bp) = Join(T, x, e, 0)
    BY DEF Merged, x, e
  <2> QED BY <2>1, <1>7, <1>12, JoinTagged DEF x, e
<1>13. CASE ~IsFree(T, pv) /\ ~NextIsFree(T, bp)
  <2>1. c = [m |-> m, bp |-> bp]
    BY <1>2, <1>3, <1>13 DEF coalesce
  <2>2. x = bp /\ e = nx /\ e - x = Size(T, bp)
    BY <1>5, <1>6, <1>8, <1>13
  <2>3. T[bp] = PACK(Size(T, bp), 0)
    BY ShapeFacts
  <2>4. m[bp - 4] = T[bp] /\ m[nx - 8] = T[bp]
    BY DEF Tagged
  <2> HIDE DEF x, e, nx
  <2> QED BY <2>1, <2>2, <2>3, <2>4, <1>10 DEF SameOutside
<1>14. CASE ~IsFree(T, pv) /\ NextIsFree(T, bp)
  <2>1. c = [m |-> PutTags(m, bp, Size(T, bp) + Size(T, nx), 0), bp |-> bp]
    BY <1>2, <1>3, <1>4, <1>14 DEF coalesce
  <2>2. x = bp /\ Size(T, bp) + Size(T, nx) = e - x
    BY <1>4, <1>6, <1>8, <1>14
  <2> HIDE DEF x, e, nx
  <2>3. c = [m |-> PutTags(m, x, e - x, 0), bp |-> x]
    BY <2>1, <2>2
  <2> QED BY <2>3, <1>9, <1>10, <1>11, PutTagsFacts
<1>15. CASE IsFree(T, pv) /\ ~NextIsFree(T, bp)
  <2> DEFINE w == PACK(Size(T, bp) + Size(T, pv), 0)
  <2>1. c = [m |-> PUT(PUT(m, nx - 8, w), HDRP(pv), w), bp |-> pv]
    BY <1>2, <1>3, <1>15 DEF coalesce
  <2>2. x = pv /\ e = nx /\ Size(T, bp) + Size(T, pv) = e - x
    BY <1>1, <1>5, <1>6, <1>8, <1>15
  <2>3. w = PACK(e - x, 0) /\ HDRP(pv) = x - 4
    BY <2>2 DEF HDRP, WSIZE
  <2> HIDE DEF w, x, e, nx
  <2>4. c.bp = x /\ c.m = PUT(PUT(m, e - 8, w), x - 4, w) /\ w \in Nat
    BY <2>1, <2>2, <2>3, <1>11
  <2>5. Mem(c.m) /\ c.m[x - 4] = w /\ c.m[e - 8] = w /\ SameOutside(m, c.m, x, e)
    BY <2>4, <1>9, <1>10, PutBoth
  <2> QED BY <2>3, <2>4, <2>5
<1>16. CASE IsFree(T, pv) /\ NextIsFree(T, bp)
  <2> DEFINE w == PACK(Size(T, bp) + Size(T, pv) + Size(T, nx), 0)
  <2>1. c = [m |-> PUT(PUT(m, HDRP(pv), w), e - 8, w), bp |-> pv]
    BY <1>2, <1>3, <1>4, <1>16 DEF coalesce
  <2>2. x = pv /\ Size(T, bp) + Size(T, pv) + Size(T, nx) = e - x
    BY <1>1, <1>4, <1>6, <1>8, <1>16
  <2>3. w = PACK(e - x, 0) /\ HDRP(pv) = x - 4
    BY <2>2 DEF HDRP, WSIZE
  <2> HIDE DEF w, x, e, nx
  <2>4. c.bp = x /\ c.m = PUT(PUT(m, x - 4, w), e - 8, w) /\ w \in Nat
    BY <2>1, <2>2, <2>3, <1>11
  <2>5. Mem(c.m) /\ c.m[x - 4] = w /\ c.m[e - 8] = w /\ SameOutside(m, c.m, x, e)
    BY <2>4, <1>9, <1>10, PutBoth
  <2> QED BY <2>3, <2>4, <2>5
<1> QED BY <1>13, <1>14, <1>15, <1>16

(* mm_free: the block is free and merged, the other payloads are as before. *)
LEMMA FreeMakes ==
  ASSUME NEW m, NEW T, NEW k, Shape(T, k), Tagged(m, T, k), NEW bp \in Blocks(T) \ {h0}
  PROVE  /\ Tagged(FreeIn(m, bp), Freed(T, bp), k)
         /\ SameData(m, FreeIn(m, bp), T, Allocs(T) \ {bp})
<1> DEFINE e == EndOf(T, bp)
           U == Join(T, bp, e, 0)
           m1 == PutTags(m, bp, e - bp, 0)
           c == coalesce(m1, bp)
<1>1. /\ bp \in Nat /\ e \in Nat /\ e - bp = Size(T, bp) /\ bp + 8 <= e /\ (e - bp) % 8 = 0
      /\ bp - 4 \in Addr /\ e - 8 \in Addr /\ e \in Blocks(T) \cup {k} /\ bp < e
      /\ \A b \in Blocks(T) : b \in Nat /\ EndOf(T, b) \in Nat
  <2>1. \A b \in Blocks(T) : /\ b \in Nat /\ EndOf(T, b) \in Nat
                             /\ Size(T, b) \in Nat /\ EndOf(T, b) = b + Size(T, b)
                             /\ Size(T, b) >= 8 /\ Size(T, b) % 8 = 0
                             /\ b - 4 \in Addr /\ EndOf(T, b) - 8 \in Addr
                             /\ EndOf(T, b) \in Blocks(T) \cup {k}
    BY ShapeFacts
  <2>2. e - bp = Size(T, bp)
    BY <2>1
  <2> QED BY <2>1, <2>2
<1>2. FreeIn(m, bp) = c.m
  <2>1. GET_SIZE(m, HDRP(bp)) = e - bp
    BY <1>1, ReadBlock
  <2> QED BY <2>1 DEF FreeIn
<1>3. Mem(m)
  BY DEF Tagged
<1>4. Freed(T, bp) = Merged(U, bp)
  BY DEF Freed
<1>5. /\ Shape(U, k) /\ Blocks(U) = Blocks(T) /\ IsFree(U, bp)
      /\ \A b \in Blocks(T) : EndOf(U, b) = EndOf(T, b)
      /\ \A b \in Blocks(T) : b # bp => (IsFree(U, b) <=> IsFree(T, b))
  BY RetagShape
<1> HIDE DEF e, U, c
<1>6. /\ Mem(m1) /\ m1[bp - 4] = PACK(e - bp, 0) /\ m1[e - 8] = PACK(e - bp, 0)
      /\ SameOutside(m, m1, bp, e)
  BY <1>1, <1>3, PutTagsFacts
<1> HIDE DEF m1
<1>7. Tagged(m1, U, k)
  BY <1>1, <1>6, JoinTagged DEF U
<1>8. /\ Tagged(c.m, Merged(U, bp), k) /\ SameOutside(m1, c.m, Start(U, bp), Stop(U, bp))
  BY <1>5, <1>7, CoalesceMakes DEF c
<1>9. Start(U, bp) \in Nat /\ Stop(U, bp) \in Nat
  <2>1. Start(U, bp) \in Blocks(U) /\ Stop(U, bp) \in Blocks(U) \cup {k}
    BY <1>5, StartStop
  <2>2. k \in Nat
    BY ShapeFacts
  <2> QED BY <2>1, <2>2, <1>1, <1>5
<1>10. ASSUME NEW b \in Allocs(T) \ {bp}, NEW a \in Payload(T, b) PROVE c.m[a] = m[a]
  <2>1. b \in Blocks(T) /\ ~IsFree(T, b) /\ b # bp /\ b \in Nat /\ EndOf(T, b) \in Nat
    BY <1>1 DEF Allocs
  <2>2. EndOf(T, b) <= bp \/ b >= e
    BY <2>1, <1>1, Sides DEF e
  <2>3. EndOf(T, b) <= Start(U, bp) \/ b >= Stop(U, bp)
    BY <2>1, <1>5, Between
  <2>4. m1[a] = m[a]
    BY <2>1, <2>2, <1>1, <1>6, OutsideData
  <2>5. c.m[a] = m1[a]
    BY <2>1, <2>3, <1>8, <1>9, OutsideData
  <2> QED BY <2>4, <2>5
<1> QED BY <1>2, <1>4, <1>8, <1>10 DEF SameData

(* place: the block is allocated, and what is left of it is free.          *)
LEMMA PlaceMakes ==
  ASSUME NEW m, NEW T, NEW k, Shape(T, k), Tagged(m, T, k), NEW bp \in Blocks(T) \ {h0},
         NEW asize \in Nat, asize % 8 = 0, asize >= 8, asize <= Size(T, bp)
  PROVE  /\ Tagged(place(m, bp, asize), Placed(T, bp, asize), k)
         /\ SameOutside(m, place(m, bp, asize), bp, EndOf(T, bp))
<1> DEFINE e == EndOf(T, bp)
           y == bp + asize
<1>1. /\ bp \in Nat /\ bp % 8 = 0 /\ e \in Nat /\ e % 8 = 0 /\ e - bp = Size(T, bp)
      /\ bp + 8 <= e /\ (e - bp) % 8 = 0 /\ e <= k /\ k <= mem_max_addr /\ k \in Nat
      /\ bp - 4 \in Addr /\ e - 8 \in Addr /\ e \in Blocks(T) \cup {k} /\ h0 <= bp
  <2>1. /\ bp \in Nat /\ bp % 8 = 0 /\ e \in Nat /\ e % 8 = 0
        /\ Size(T, bp) \in Nat /\ e = bp + Size(T, bp)
        /\ Size(T, bp) >= 8 /\ Size(T, bp) % 8 = 0
        /\ bp - 4 \in Addr /\ e - 8 \in Addr
        /\ e \in Blocks(T) \cup {k} /\ e <= k /\ h0 <= bp
    BY ShapeFacts
  <2> HIDE DEF e
  <2>2. e - bp = Size(T, bp) /\ bp + 8 <= e
    BY <2>1
  <2>3. k <= mem_max_addr /\ k \in Nat
    BY ShapeFacts
  <2> QED BY <2>1, <2>2, <2>3
<1>2. Mem(m) /\ GET_SIZE(m, HDRP(bp)) = e - bp
  BY <1>1, ReadBlock DEF Tagged
<1>3. CASE (e - bp) - asize >= 2 * DSIZE
  <2> DEFINE m1 == PutTags(m, bp, y - bp, 1)
             m2 == PutTags(m1, y, e - y, 0)
  <2>1. /\ y \in Nat /\ y % 8 = 0 /\ bp + 8 <= y /\ y + 8 <= e
        /\ y - bp = asize /\ e - y = (e - bp) - asize
    <3>1. y % 8 = 0
      BY <1>1, AlignedSum
    <3> QED BY <3>1, <1>1, <1>3 DEF DSIZE
  <2>2. (e - y) % 8 = 0 /\ y - 4 \in Addr /\ y - 8 \in Addr
    <3>1. mem_start_brk < y /\ y <= mem_max_addr
      BY <2>1, <1>1, RegionFacts
    <3> HIDE DEF y, e
    <3>2. y - 4 \in Addr /\ y - 8 \in Addr
      BY <3>1, <2>1, AddrFacts
    <3>3. e \in Int /\ y \in Int /\ e % 8 = 0 /\ y % 8 = 0
      BY <2>1, <1>1
    <3>4. (e - y) % 8 = 0
      BY <3>3, AlignedSum
    <3> QED BY <3>2, <3>4
  <2>3. Placed(T, bp, asize) = Cut(T, bp, y)
    BY <1>1, <1>3 DEF Placed
  <2>4. place(m, bp, asize) = PutTags(m1, NEXT_BLKP(m1, bp), e - y, 0)
    BY <2>1, <1>2, <1>3 DEF place
  <2> HIDE DEF e, y
  <2>5. /\ Mem(m1) /\ m1[bp - 4] = PACK(y - bp, 1) /\ m1[y - 8] = PACK(y - bp, 1)
        /\ SameOutside(m, m1, bp, y)
    BY <2>1, <2>2, <1>1, <1>2, PutTagsFacts
  <2> HIDE DEF m1
  <2>6. NEXT_BLKP(m1, bp) = y
    <3>1. SizeOf(PACK(y - bp, 1)) = asize
      BY <2>1, PackFacts
    <3> QED BY <3>1, <2>5 DEF NEXT_BLKP, GET_SIZE, GET, HDRP, WSIZE, y
  <2>7. /\ Mem(m2) /\ m2[y - 4] = PACK(e - y, 0) /\ m2[e - 8] = PACK(e - y, 0)
        /\ SameOutside(m1, m2, y, e)
    BY <2>1, <2>2, <2>5, <1>1, PutTagsFacts
  <2> HIDE DEF m2
  <2>8. m2[bp - 4] = PACK(y - bp, 1) /\ m2[y - 8] = PACK(y - bp, 1)
    <3>1. bp - 4 < y - 4 /\ y - 8 < y - 4
      BY <2>1, <1>1
    <3>2. m2[bp - 4] = m1[bp - 4] /\ m2[y - 8] = m1[y - 8]
      BY <3>1, <2>2, <2>7, <1>1 DEF SameOutside
    <3> QED BY <3>2, <2>5
  <2>9. SameOutside(m, m2, bp, e)
    <3> SUFFICES ASSUME NEW a \in Addr, a < bp - 4 \/ a >= e - 4 PROVE m2[a] = m[a]
      BY DEF SameOutside
    <3>1. a \in Nat
      BY RegionFacts
    <3>2. (a < y - 4 \/ a >= e - 4) /\ (a < bp - 4 \/ a >= y - 4)
      BY <3>1, <2>1, <1>1
    <3> QED BY <3>2, <2>5, <2>7 DEF SameOutside
  <2>10. Tagged(m2, Cut(T, bp, y), k)
    BY <2>1, <2>7, <2>8, <2>9, CutTagged DEF e
  <2> QED BY <2>3, <2>4, <2>6, <2>9, <2>10 DEF m2, e
<1>4. CASE ~((e - bp) - asize >= 2 * DSIZE)
  <2> DEFINE m1 == PutTags(m, bp, e - bp, 1)
  <2>1. place(m, bp, asize) = m1
    BY <1>2, <1>4 DEF place
  <2>2. Placed(T, bp, asize) = Join(T, bp, e, 1)
    BY <1>1, <1>4 DEF Placed
  <2>3. bp < e
    BY <1>1
  <2> HIDE DEF e
  <2>4. /\ Mem(m1) /\ m1[bp - 4] = PACK(e - bp, 1) /\ m1[e - 8] = PACK(e - bp, 1)
        /\ SameOutside(m, m1, bp, e)
    BY <1>1, <1>2, PutTagsFacts
  <2> HIDE DEF m1
  <2>5. Tagged(m1, Join(T, bp, e, 1), k)
    BY <2>3, <2>4, <1>1, JoinTagged
  <2> QED BY <2>1, <2>2, <2>4, <2>5 DEF e
<1> QED BY <1>3, <1>4

(* A heap of the driver, once mm_init has set heap_listp. *)
HeapOf(m, k) == [m |-> m, brk |-> k, st |-> h0]

(* Reading and changing such a heap. *)
LEMMA HeapFacts ==
  ASSUME NEW m, NEW k
  PROVE  /\ HeapOf(m, k).m = m /\ HeapOf(m, k).brk = k /\ HeapOf(m, k).st = h0
         /\ \A v : [HeapOf(m, k) EXCEPT !.m = v] = HeapOf(v, k)
<1>1. HeapOf(m, k).m = m /\ HeapOf(m, k).brk = k /\ HeapOf(m, k).st = h0
  BY DEF HeapOf
<1>2. ASSUME NEW v PROVE [HeapOf(m, k) EXCEPT !.m = v] = HeapOf(v, k)
  BY DEF HeapOf
<1> QED BY <1>1, <1>2

(* extend_heap: a free block of size bytes at the old break, merged with   *)
(* the one before; or nothing changes.                                     *)
LEMMA ExtendMakes ==
  ASSUME NEW m, NEW T, NEW k, Shape(T, k), Tagged(m, T, k),
         NEW n \in Nat, n % 8 = 0, n >= 8, k + n < WORD
  PROVE  /\ ~SbrkOK(k, ToInt(n)) =>
              extend_heap(HeapOf(m, k), n \div WSIZE) = [p |-> NULL, h |-> HeapOf(m, k)]
         /\ SbrkOK(k, ToInt(n)) =>
              /\ k + n <= mem_max_addr
              /\ \E m2 : /\ extend_heap(HeapOf(m, k), n \div WSIZE)
                              = [p |-> Start(Grow(T, k, k + n), k), h |-> HeapOf(m2, k + n)]
                         /\ Tagged(m2, Merged(Grow(T, k, k + n), k), k + n)
                         /\ SameData(m, m2, T, Allocs(T))
<1> DEFINE e == k + n
           U == Grow(T, k, e)
           words == n \div WSIZE
           m1 == PutTags(m, k, n, 0)
           m2 == PUT(m1, HDRP(NEXT_BLKP(m1, k)), PACK(0, 1))
           c == coalesce(m2, k)
           h == HeapOf(m, k)
<1>1. (IF words % 2 = 1 THEN words + 1 ELSE words) * WSIZE = n
  BY DEF WSIZE
<1>2. h.m = m /\ h.brk = k
  BY HeapFacts
<1>3. extend_heap(h, words) =
         IF SbrkOK(k, ToInt(n)) THEN [p |-> c.bp, h |-> HeapOf(c.m, SbrkTo(k, n))]
                                ELSE [p |-> NULL, h |-> h]
  <2>1. extend_heap(h, words) =
           IF SbrkOK(k, ToInt(n))
           THEN [p |-> c.bp, h |-> [h EXCEPT !.m = c.m, !.brk = SbrkTo(@, n)]]
           ELSE [p |-> NULL, h |-> h]
    <3> HIDE DEF words, h
    <3> QED BY <1>1, <1>2 DEF extend_heap
  <2>2. [h EXCEPT !.m = c.m, !.brk = SbrkTo(@, n)]
           = [[h EXCEPT !.m = c.m] EXCEPT !.brk = SbrkTo(@, n)]
    <3> HIDE DEF c
    <3> QED OBVIOUS
  <2>3. [h EXCEPT !.m = c.m] = HeapOf(c.m, k)
    BY HeapFacts
  <2>4. [HeapOf(c.m, k) EXCEPT !.brk = SbrkTo(@, n)] = HeapOf(c.m, SbrkTo(k, n))
    <3> HIDE DEF c
    <3> QED BY DEF HeapOf
  <2> QED BY <2>1, <2>2, <2>3, <2>4
<1>4. CASE ~SbrkOK(k, ToInt(n))
  BY <1>3, <1>4
<1>5. CASE SbrkOK(k, ToInt(n))
  <2>1. /\ k \in Nat /\ k % 8 = 0 /\ h0 + 8 <= k /\ k - 4 \in Addr /\ h0 \in Nat
    BY ShapeFacts, RegionFacts
  <2>2. e <= mem_max_addr /\ SbrkTo(k, n) = e
    BY <2>1, <1>5, SbrkFacts
  <2>3. e \in Nat /\ k + 8 <= e /\ e - k = n
    BY <2>1
  <2>4. e % 8 = 0
    BY <2>1, AlignedSum
  <2>5. e - 4 \in Addr /\ e - 8 \in Addr
    <3>1. mem_start_brk < e
      BY <2>1, <2>3, RegionFacts
    <3> HIDE DEF e
    <3> QED BY <3>1, <2>2, <2>3, <2>4, AddrFacts
  <2>6. Mem(m)
    BY DEF Tagged
  <2>7. m1 = PutTags(m, k, e - k, 0)
    BY <2>3
  <2> HIDE DEF e, m1
  <2>8. /\ Mem(m1) /\ m1[k - 4] = PACK(n, 0) /\ m1[e - 8] = PACK(n, 0)
        /\ SameOutside(m, m1, k, e)
    <3>1. (e - k) % 8 = 0
      BY <2>3
    <3> QED BY <3>1, <2>1, <2>3, <2>5, <2>6, <2>7, PutTagsFacts
  <2>9. HDRP(NEXT_BLKP(m1, k)) = e - 4
    <3>1. SizeOf(PACK(n, 0)) = n
      BY PackFacts
    <3> QED BY <3>1, <2>8 DEF NEXT_BLKP, GET_SIZE, GET, HDRP, WSIZE, e
  <2>10. m2 = [m1 EXCEPT ![e - 4] = 1]
    BY <2>9 DEF PUT, PACK
  <2>11. /\ Mem(m2) /\ m2[k - 4] = PACK(n, 0) /\ m2[e - 8] = PACK(n, 0)
         /\ m2[e - 4] = PACK(0, 1) /\ \A a \in Addr : a < k - 4 => m2[a] = m[a]
    <3>1. k - 4 # e - 4 /\ e - 8 # e - 4
      BY <2>1, <2>3
    <3>2. ASSUME NEW a \in Addr, a < k - 4 PROVE m2[a] = m[a]
      <4>1. a # e - 4
        BY <3>2, <2>1, <2>3, RegionFacts
      <4>2. m1[a] = m[a]
        BY <3>2, <2>8 DEF SameOutside
      <4> QED BY <4>1, <4>2, <2>8, <2>10 DEF Mem
    <3> QED BY <3>1, <3>2, <2>1, <2>5, <2>8, <2>10 DEF Mem, PACK
  <2> HIDE DEF m2
  <2>12. /\ Shape(U, e) /\ Blocks(U) = Blocks(T) \cup {k} /\ IsFree(U, k) /\ k \notin Blocks(T)
         /\ \A b \in Blocks(T) : EndOf(U, b) = EndOf(T, b) /\ (IsFree(U, b) <=> IsFree(T, b))
    BY <2>2, <2>3, <2>4, GrowShape
  <2>13. Tagged(m2, U, e)
    BY <2>2, <2>3, <2>4, <2>11, GrowTagged
  <2> HIDE DEF U
  <2>14. k \in Blocks(U) \ {h0}
    BY <2>1, <2>12
  <2>15. /\ c.bp = Start(U, k) /\ Tagged(c.m, Merged(U, k), e)
         /\ SameOutside(m2, c.m, Start(U, k), Stop(U, k))
    BY <2>12, <2>13, <2>14, CoalesceMakes
  <2> HIDE DEF c
  <2>16. \A b \in Blocks(U) : b \in Nat /\ EndOf(U, b) \in Nat
    BY <2>12, ShapeFacts
  <2>17. Start(U, k) \in Nat /\ Stop(U, k) \in Nat
    <3>1. Start(U, k) \in Blocks(U) /\ Stop(U, k) \in Blocks(U) \cup {e}
      BY <2>12, <2>14, StartStop
    <3> QED BY <3>1, <2>3, <2>16
  <2>18. ASSUME NEW b \in Allocs(T), NEW a \in Payload(T, b) PROVE c.m[a] = m[a]
    <3>1. /\ b \in Blocks(T) /\ ~IsFree(T, b) /\ b # k /\ b \in Nat /\ EndOf(T, b) \in Nat
          /\ b \in Blocks(U) /\ ~IsFree(U, b) /\ EndOf(U, b) = EndOf(T, b)
          /\ EndOf(T, b) <= k
      BY <2>12, <2>16, ShapeFacts DEF Allocs
    <3>2. EndOf(T, b) <= Start(U, k) \/ b >= Stop(U, k)
      BY <3>1, <2>12, <2>14, Between
    <3>3. a \in Addr /\ a < k - 4
      <4>1. a \in Addr /\ a \in Nat /\ a < EndOf(T, b) - 8
        BY RegionFacts DEF Payload
      <4> QED BY <4>1, <3>1, <2>1
    <3>4. m2[a] = m[a]
      BY <3>3, <2>11
    <3>5. c.m[a] = m2[a]
      BY <3>1, <3>2, <2>15, <2>17, OutsideData
    <3> QED BY <3>4, <3>5
  <2>19. SameData(m, c.m, T, Allocs(T))
    BY <2>18 DEF SameData
  <2>20. extend_heap(h, words) = [p |-> Start(U, k), h |-> HeapOf(c.m, e)]
    BY <1>3, <1>5, <2>2, <2>15
  <2> QED BY <1>5, <2>2, <2>15, <2>19, <2>20 DEF U, e
<1> QED BY <1>4, <1>5

(* A block asked for has room for its payload and its tags. *)
LEMMA AdjustedSizeFacts ==
  ASSUME NEW size \in Nat
  PROVE  /\ AdjustedSize(size) \in Nat /\ AdjustedSize(size) % 8 = 0
         /\ AdjustedSize(size) >= 16 /\ AdjustedSize(size) >= size + 8
         /\ AdjustedSize(size) <= size + 16
<1>1. CASE size <= 8
  BY <1>1 DEF AdjustedSize, DSIZE
<1>2. CASE ~(size <= 8)
  <2>1. AdjustedSize(size) = 8 * ((size + 15) \div 8)
    BY <1>2 DEF AdjustedSize, DSIZE
  <2>2. /\ (size + 15) \div 8 \in Nat /\ 8 * ((size + 15) \div 8) <= size + 15
        /\ 8 * ((size + 15) \div 8) > size + 7
    OBVIOUS
  <2>3. ASSUME NEW q \in Nat PROVE (8 * q) % 8 = 0
    OBVIOUS
  <2> QED BY <2>1, <2>2, <2>3, <1>2
<1> QED BY <1>1, <1>2

(* How much extend_heap is asked for. *)
LEMMA ExtendBy ==
  ASSUME NEW size \in Sizes, NEW k \in Nat, k <= mem_max_addr,
         NEW n, n = MAX(AdjustedSize(size), CHUNKSIZE)
  PROVE  /\ n \in Nat /\ n % 8 = 0 /\ n >= 8 /\ k + n < WORD /\ AdjustedSize(size) <= n
         /\ size \in Nat
<1>1. /\ size \in Nat /\ mem_max_addr + size + 16 < WORD
      /\ CHUNKSIZE \in Nat /\ CHUNKSIZE >= 16 /\ CHUNKSIZE % 8 = 0
      /\ mem_max_addr + CHUNKSIZE < WORD
  BY ImplicitAssumption
<1>2. /\ AdjustedSize(size) \in Nat /\ AdjustedSize(size) % 8 = 0
      /\ AdjustedSize(size) >= 16 /\ AdjustedSize(size) <= size + 16
  BY <1>1, AdjustedSizeFacts
<1>3. WORD \in Nat /\ mem_max_addr \in Nat
  BY RegionFacts
<1> QED BY <1>1, <1>2, <1>3 DEF MAX

(* mm_init depends on the region and the chunk alone. *)
InitOK == SbrkOK(mem_start_brk, 4 * WSIZE) /\ SbrkOK(h0 + 8, ToInt(CHUNKSIZE))

FreshBreak == h0 + 8 + CHUNKSIZE

Fresh == Merged(Grow(Bare(8), h0 + 8, FreshBreak), h0 + 8)

(* The heap mm_init makes, if the region has room for it: the prologue and *)
(* one free block.                                                         *)
LEMMA FreshShape ==
  ASSUME InitOK
  PROVE  /\ Shape(Fresh, FreshBreak) /\ Separate(Fresh) /\ Allocs(Fresh) = {h0}
         /\ Shape(Bare(8), h0 + 8) /\ h0 + 8 + CHUNKSIZE < WORD
<1>1. /\ h0 \in Nat /\ h0 % 8 = 0 /\ h0 = mem_start_brk + 8 /\ WORD \in Nat
      /\ mem_max_addr \in Nat /\ mem_start_brk \in Nat
      /\ CHUNKSIZE \in Nat /\ CHUNKSIZE % 8 = 0 /\ CHUNKSIZE >= 16
      /\ mem_max_addr + CHUNKSIZE < WORD
  BY RegionFacts, ImplicitAssumption
<1>2. h0 + 8 <= mem_max_addr
  <2>1. SbrkOK(mem_start_brk, 16)
    BY DEF InitOK, WSIZE
  <2>2. mem_start_brk + 16 < WORD \/ mem_start_brk > mem_max_addr
    BY <1>1
  <2> QED BY <2>1, <2>2, <1>1, RegionFacts DEF SbrkOK, Add32
<1>3. Shape(Bare(8), h0 + 8) /\ Blocks(Bare(8)) = {h0} /\ ~IsFree(Bare(8), h0)
  BY <1>1, <1>2, BareShape
<1>4. h0 + 8 + CHUNKSIZE < WORD
  BY <1>1, <1>2
<1>5. FreshBreak <= mem_max_addr
  <2> DEFINE k == h0 + 8
  <2>1. k \in Nat /\ k + CHUNKSIZE < WORD /\ SbrkOK(k, ToInt(CHUNKSIZE))
    BY <1>1, <1>4 DEF InitOK
  <2> HIDE DEF k
  <2>2. k + CHUNKSIZE <= mem_max_addr
    BY <2>1, <1>1, SbrkFacts
  <2> QED BY <2>2 DEF k, FreshBreak
<1>6. Separate(Bare(8)) /\ Allocs(Bare(8)) = {h0}
  BY <1>3 DEF Separate, Allocs
<1>7. FreshBreak \in Nat /\ FreshBreak % 8 = 0 /\ (h0 + 8) + 8 <= FreshBreak
  BY <1>1 DEF FreshBreak
<1>8. Shape(Fresh, FreshBreak) /\ Separate(Fresh) /\ Allocs(Fresh) = {h0}
  BY <1>3, <1>5, <1>6, <1>7, GrownShape DEF Fresh
<1> QED BY <1>3, <1>4, <1>8

(* mm_init, over whatever the region holds. *)
LEMMA InitMakes ==
  ASSUME NEW m, Mem(m), NEW st, NEW r,
         r \in mm_init([m |-> m, brk |-> mem_start_brk, st |-> st])
  PROVE  /\ r.p # NULL <=> InitOK
         /\ Mem(r.h.m)
         /\ InitOK => \E m2 : /\ r.h = HeapOf(m2, FreshBreak)
                              /\ Tagged(m2, Fresh, FreshBreak)
<1> DEFINE lo == mem_start_brk
           h == [m |-> m, brk |-> lo, st |-> st]
           m1 == PUT(PUT(m, lo, 0), lo + 1 * WSIZE, PACK(DSIZE, 1))
           m2 == PUT(PUT(m1, lo + 2 * WSIZE, PACK(DSIZE, 1)), lo + 3 * WSIZE, PACK(0, 1))
           g == [m |-> m2, brk |-> SbrkTo(lo, 4 * WSIZE), st |-> lo + 2 * WSIZE]
<1>1. /\ h0 \in Nat /\ h0 % 8 = 0 /\ h0 = lo + 8 /\ lo \in Nat /\ WORD \in Nat
      /\ CHUNKSIZE \in Nat /\ CHUNKSIZE % 8 = 0 /\ CHUNKSIZE >= 16
      /\ mem_max_addr + CHUNKSIZE < WORD /\ mem_max_addr \in Nat /\ lo < mem_max_addr
      /\ lo > 0 /\ lo % 8 = 0
  BY RegionFacts, ImplicitAssumption
<1>2. mm_init(h) = IF SbrkOK(lo, 4 * WSIZE) THEN {extend_heap(g, CHUNKSIZE \div WSIZE)}
                   ELSE {[p |-> NULL, h |-> [h EXCEPT !.st = WORD - 1]]}
  BY DEF mm_init
<1>3. lo + 16 < WORD
  BY <1>1
<1>4. CASE ~SbrkOK(lo, 4 * WSIZE)
  <2>1. r = [p |-> NULL, h |-> [h EXCEPT !.st = WORD - 1]]
    BY <1>2, <1>4
  <2>2. r.p = NULL /\ r.h.m = m
    BY <2>1
  <2> QED BY <2>2, <1>4 DEF InitOK
<1>5. CASE SbrkOK(lo, 4 * WSIZE)
  <2>1. SbrkTo(lo, 4 * WSIZE) = h0 + 8 /\ h0 + 8 <= mem_max_addr /\ lo + 2 * WSIZE = h0
    BY <1>1, <1>3, <1>5 DEF SbrkOK, SbrkTo, Add32, WSIZE
  <2>2. /\ lo \in Addr /\ lo + 4 \in Addr /\ h0 \in Addr /\ h0 + 4 \in Addr
    BY <2>1, <1>1, AddrFacts
  <2>3. /\ m2 = [a \in Addr |-> CASE a = h0 + 4 -> 1 [] a = h0 -> 9
                                [] a = lo + 4 -> 9 [] a = lo -> 0 [] OTHER -> m[a]]
    <3>1. /\ lo + 1 * WSIZE = lo + 4 /\ lo + 2 * WSIZE = h0 /\ lo + 3 * WSIZE = h0 + 4
          /\ PACK(DSIZE, 1) = 9 /\ PACK(0, 1) = 1
      BY <1>1 DEF WSIZE, DSIZE, PACK
    <3>2. m2 = [[[[m EXCEPT ![lo] = 0] EXCEPT ![lo + 4] = 9] EXCEPT ![h0] = 9]
                   EXCEPT ![h0 + 4] = 1]
      BY <3>1 DEF PUT
    <3>3. lo # lo + 4 /\ lo # h0 /\ lo # h0 + 4 /\ lo + 4 # h0 /\ lo + 4 # h0 + 4 /\ h0 # h0 + 4
      BY <1>1
    <3>4. m = [a \in Addr |-> m[a]]
      BY DEF Mem
    <3> HIDE DEF m2, lo
    <3> QED BY <3>2, <3>3, <3>4, <2>2
  <2> HIDE DEF m1, m2
  <2>4. Mem(m2) /\ m2[h0 - 4] = PACK(DSIZE, 1) /\ m2[h0] = PACK(DSIZE, 1)
        /\ m2[h0 + 4] = PACK(0, 1)
    <3>1. h0 - 4 = lo + 4 /\ h0 - 4 # h0 + 4 /\ h0 - 4 # h0 /\ h0 # h0 + 4
      BY <1>1
    <3>2. PACK(DSIZE, 1) = 9 /\ PACK(0, 1) = 1
      BY DEF PACK, DSIZE
    <3>3. m2[h0] = 9 /\ m2[h0 + 4] = 1 /\ m2[lo + 4] = 9
      <4>1. /\ lo + 4 # h0 /\ lo + 4 # h0 + 4 /\ lo # h0 /\ lo # h0 + 4 /\ lo # lo + 4
        BY <1>1
      <4> HIDE DEF lo
      <4> QED BY <4>1, <3>1, <2>2, <2>3
    <3>4. \A a \in Addr : m2[a] \in Nat
      BY <2>3 DEF Mem
    <3>5. m2 = [a \in Addr |-> m2[a]]
      BY <2>3
    <3> HIDE DEF lo
    <3> QED BY <3>1, <3>2, <3>3, <3>4, <3>5 DEF Mem
  <2>5. /\ Shape(Bare(8), h0 + 8) /\ Blocks(Bare(8)) = {h0}
    BY <1>1, <2>1, BareShape
  <2>6. Bare(8)[h0] = PACK(DSIZE, 1) /\ EndOf(Bare(8), h0) = h0 + 8
    BY <1>1, <2>1, BareShape DEF DSIZE
  <2>7. Tagged(m2, Bare(8), h0 + 8)
    <3>1. (h0 + 8) - 8 = h0 /\ (h0 + 8) - 4 = h0 + 4
      BY <1>1
    <3> QED BY <3>1, <2>4, <2>5, <2>6 DEF Tagged
  <2>8. g = HeapOf(m2, h0 + 8)
    BY <2>1 DEF HeapOf
  <2>9. r = extend_heap(HeapOf(m2, h0 + 8), CHUNKSIZE \div WSIZE)
    BY <1>2, <1>5, <2>8
  <2>10. (h0 + 8) + CHUNKSIZE = FreshBreak /\ FreshBreak < WORD
    BY <1>1, <2>1 DEF FreshBreak
  <2> DEFINE k == h0 + 8
  <2>11. /\ k \in Nat /\ Shape(Bare(8), k) /\ Tagged(m2, Bare(8), k)
         /\ k + CHUNKSIZE < WORD /\ CHUNKSIZE \in Nat /\ CHUNKSIZE >= 8
    BY <2>5, <2>7, <2>10, <1>1
  <2>12. /\ ~SbrkOK(k, ToInt(CHUNKSIZE)) =>
              extend_heap(HeapOf(m2, k), CHUNKSIZE \div WSIZE) = [p |-> NULL, h |-> HeapOf(m2, k)]
         /\ SbrkOK(k, ToInt(CHUNKSIZE)) =>
              \E m3 : /\ extend_heap(HeapOf(m2, k), CHUNKSIZE \div WSIZE)
                             = [p |-> Start(Grow(Bare(8), k, k + CHUNKSIZE), k),
                                h |-> HeapOf(m3, k + CHUNKSIZE)]
                     /\ Tagged(m3, Merged(Grow(Bare(8), k, k + CHUNKSIZE), k), k + CHUNKSIZE)
    <3> HIDE DEF k
    <3> QED BY <2>11, <1>1, ExtendMakes
  <2>13. CASE ~SbrkOK(h0 + 8, ToInt(CHUNKSIZE))
    <3>1. r = [p |-> NULL, h |-> HeapOf(m2, k)]
      BY <2>9, <2>12, <2>13
    <3>2. r.p = NULL /\ r.h.m = m2
      BY <3>1, HeapFacts
    <3> QED BY <3>2, <2>4, <2>13 DEF InitOK
  <2>14. CASE SbrkOK(h0 + 8, ToInt(CHUNKSIZE))
    <3>1. InitOK
      BY <1>5, <2>14 DEF InitOK
    <3>2. PICK m3 :
             /\ r = [p |-> Start(Grow(Bare(8), k, k + CHUNKSIZE), k),
                     h |-> HeapOf(m3, k + CHUNKSIZE)]
             /\ Tagged(m3, Merged(Grow(Bare(8), k, k + CHUNKSIZE), k), k + CHUNKSIZE)
      BY <2>9, <2>12, <2>14
    <3>3. r.h = HeapOf(m3, FreshBreak) /\ Tagged(m3, Fresh, FreshBreak)
      BY <3>2, <2>10 DEF Fresh
    <3>4. Mem(m3) /\ r.h.m = m3
      BY <3>3, HeapFacts DEF Tagged
    <3>5. Start(Grow(Bare(8), k, FreshBreak), k) \in Blocks(Fresh)
      <4>1. /\ FreshBreak \in Nat /\ FreshBreak % 8 = 0 /\ k + 8 <= FreshBreak
            /\ FreshBreak <= mem_max_addr
        BY <3>1, <1>1, FreshShape, ShapeFacts DEF FreshBreak
      <4>2. Separate(Bare(8))
        BY <1>1, <2>1, BareShape
      <4> QED BY <4>1, <4>2, <2>5, GrownShape DEF Fresh
    <3>6. Start(Grow(Bare(8), k, FreshBreak), k) # NULL
      <4>1. Start(Grow(Bare(8), k, FreshBreak), k) >= h0
        BY <3>1, <3>5, FreshShape, ShapeFacts
      <4> HIDE DEF k
      <4> QED BY <4>1, <1>1 DEF NULL
    <3>7. r.p # NULL
      BY <3>2, <3>6, <2>10
    <3> QED BY <3>1, <3>3, <3>4, <3>7
  <2> QED BY <2>13, <2>14
<1> QED BY <1>4, <1>5

-----------------------------------------------------------------------------
(* Serving a request *)

(* What mm_malloc makes of the tags: which block it gives, and whether.    *)
Asked(size) == MAX(AdjustedSize(size), CHUNKSIZE)

Grown(T, k, size) == Merged(Grow(T, k, k + Asked(size)), k)

Fits(T, size) == Fitting(T, AdjustedSize(size)) # {}

Room(T, k, size) == size # 0 /\ (Fits(T, size) \/ SbrkOK(k, ToInt(Asked(size))))

Given(T, k, size) ==
    IF Fits(T, size) THEN FirstOf(Fitting(T, AdjustedSize(size)))
    ELSE Start(Grow(T, k, k + Asked(size)), k)

TagsAfter(T, k, size) ==
    Placed(IF Fits(T, size) THEN T ELSE Grown(T, k, size), Given(T, k, size),
           AdjustedSize(size))

BreakAfter(T, k, size) == IF Fits(T, size) THEN k ELSE k + Asked(size)

(* The heap in which the block is placed. *)
LEMMA RoomShape ==
  ASSUME NEW T, NEW k, Shape(T, k), Separate(T), NEW size \in Sizes, Room(T, k, size),
         NEW V, V = (IF Fits(T, size) THEN T ELSE Grown(T, k, size)),
         NEW e, e = BreakAfter(T, k, size), NEW p, p = Given(T, k, size),
         NEW asize, asize = AdjustedSize(size)
  PROVE  /\ Shape(V, e) /\ Separate(V) /\ Allocs(V) = Allocs(T) /\ Keeps(T, V, Allocs(T))
         /\ p \in Blocks(V) \ {h0} /\ IsFree(V, p) /\ asize <= Size(V, p)
         /\ asize \in Nat /\ asize % 8 = 0 /\ asize >= 16 /\ asize >= size + 8
         /\ k <= e /\ size \in Nat /\ size # 0
<1>1. /\ k \in Nat /\ k % 8 = 0 /\ k <= mem_max_addr
      /\ \A b \in Blocks(T) : b \in Nat
      /\ ~IsFree(T, h0)
  BY ShapeFacts
<1>2. /\ Asked(size) \in Nat /\ Asked(size) % 8 = 0 /\ Asked(size) >= 8
      /\ k + Asked(size) < WORD /\ asize <= Asked(size) /\ size \in Nat
  BY <1>1, ExtendBy DEF Asked
<1>3. asize \in Nat /\ asize % 8 = 0 /\ asize >= 16 /\ asize >= size + 8 /\ size # 0
  BY <1>2, AdjustedSizeFacts DEF Room
<1>4. CASE Fits(T, size)
  <2>1. Fitting(T, asize) # {} /\ Fitting(T, asize) \subseteq Nat /\ V = T /\ e = k
        /\ p = FirstOf(Fitting(T, asize))
    BY <1>1, <1>4 DEF Fits, Fitting, BreakAfter, Given
  <2>2. p \in Fitting(T, asize)
    BY <2>1, FirstFacts
  <2>3. p \in Blocks(T) /\ IsFree(T, p) /\ asize <= Size(T, p)
    BY <2>2 DEF Fitting
  <2> QED BY <2>1, <2>3, <1>1, <1>2, <1>3 DEF Keeps, Allocs
<1>5. CASE ~Fits(T, size)
  <2> DEFINE n == Asked(size)
  <2>1. SbrkOK(k, ToInt(n)) /\ e = k + n /\ p = Start(Grow(T, k, e), k)
        /\ V = Merged(Grow(T, k, e), k)
    BY <1>5 DEF Room, BreakAfter, Given, Grown
  <2> HIDE DEF n
  <2>2. n \in Nat /\ n % 8 = 0 /\ n >= 8 /\ k + n < WORD /\ asize <= n
    BY <1>2 DEF n
  <2>3. e <= mem_max_addr
    BY <2>1, <2>2, <1>1, SbrkFacts
  <2>4. e % 8 = 0
    BY <2>1, <2>2, <1>1, AlignedSum
  <2>5. e \in Nat /\ k + 8 <= e /\ e - k = n
    BY <2>1, <2>2, <1>1
  <2>6. /\ Shape(V, e) /\ Separate(V) /\ Allocs(V) = Allocs(T) /\ Keeps(T, V, Allocs(T))
        /\ p \in Blocks(V) \ {h0} /\ IsFree(V, p) /\ e - k <= Size(V, p)
    BY <2>1, <2>3, <2>4, <2>5, GrownShape
  <2>7. asize <= Size(V, p)
    <3>1. Size(V, p) \in Nat
      BY <2>6, ShapeFacts
    <3> QED BY <3>1, <2>2, <2>5, <2>6, <1>3
  <2> QED BY <2>5, <2>6, <2>7, <1>1, <1>2, <1>3
<1> QED BY <1>4, <1>5

(* The heap after an allocation: one block more is allocated, with room    *)
(* for the payload and its tags.                                           *)
LEMMA ServedShape ==
  ASSUME NEW T, NEW k, Shape(T, k), Separate(T), NEW size \in Sizes, Room(T, k, size),
         NEW U, U = TagsAfter(T, k, size), NEW e, e = BreakAfter(T, k, size),
         NEW p, p = Given(T, k, size)
  PROVE  /\ Shape(U, e) /\ Separate(U) /\ p \notin Allocs(T) /\ p # h0
         /\ Allocs(U) = Allocs(T) \cup {p} /\ Keeps(T, U, Allocs(T))
         /\ size \in Nat /\ size > 0 /\ size + 8 <= Size(U, p) /\ p # NULL /\ k <= e
<1> DEFINE V == IF Fits(T, size) THEN T ELSE Grown(T, k, size)
           asize == AdjustedSize(size)
<1>1. /\ Shape(V, e) /\ Separate(V) /\ Allocs(V) = Allocs(T) /\ Keeps(T, V, Allocs(T))
      /\ p \in Blocks(V) \ {h0} /\ IsFree(V, p) /\ asize <= Size(V, p)
      /\ asize \in Nat /\ asize % 8 = 0 /\ asize >= 16 /\ asize >= size + 8
      /\ k <= e /\ size \in Nat /\ size # 0
  BY RoomShape
<1>2. U = Placed(V, p, asize)
  BY DEF TagsAfter
<1> HIDE DEF V, asize
<1>3. /\ Shape(U, e) /\ Separate(U) /\ Allocs(U) = Allocs(V) \cup {p}
      /\ Keeps(V, U, Allocs(V)) /\ asize <= Size(U, p)
  BY <1>1, <1>2, PlacedShape
<1>4. Keeps(T, U, Allocs(T))
  BY <1>1, <1>3 DEF Keeps
<1>5. p \notin Allocs(T)
  BY <1>1 DEF Allocs
<1>6. p # NULL
  <2>1. p \in Nat /\ h0 <= p
    BY <1>1, ShapeFacts
  <2> QED BY <2>1, RegionFacts DEF NULL
<1>7. size + 8 <= Size(U, p)
  <2>1. p \in Blocks(U)
    BY <1>3 DEF Allocs
  <2>2. Size(U, p) \in Nat
    BY <2>1, <1>3, ShapeFacts
  <2> QED BY <2>2, <1>1, <1>3
<1> QED BY <1>1, <1>3, <1>4, <1>5, <1>6, <1>7

(* mm_malloc does it, and leaves every payload alone. *)
LEMMA MallocMakes ==
  ASSUME NEW m, NEW T, NEW k, Shape(T, k), Separate(T), Tagged(m, T, k), NEW size \in Sizes
  PROVE  /\ ~Room(T, k, size) =>
               Malloc(HeapOf(m, k), size) = [p |-> NULL, h |-> HeapOf(m, k)]
         /\ Room(T, k, size) =>
               \E m2 : /\ Malloc(HeapOf(m, k), size)
                              = [p |-> Given(T, k, size),
                                 h |-> HeapOf(m2, BreakAfter(T, k, size))]
                       /\ Tagged(m2, TagsAfter(T, k, size), BreakAfter(T, k, size))
                       /\ SameData(m, m2, T, Allocs(T))
<1> DEFINE h == HeapOf(m, k)
           asize == AdjustedSize(size)
           n == Asked(size)
           bp == find_fit(m, h0, asize)
           x == extend_heap(h, n \div WSIZE)
           p == Given(T, k, size)
           e == BreakAfter(T, k, size)
           V == IF Fits(T, size) THEN T ELSE Grown(T, k, size)
<1>1. /\ k \in Nat /\ k <= mem_max_addr /\ \A b \in Blocks(T) : b \in Nat /\ h0 <= b
  BY ShapeFacts
<1>2. /\ n \in Nat /\ n % 8 = 0 /\ n >= 8 /\ k + n < WORD /\ size \in Nat
  BY <1>1, ExtendBy DEF Asked
<1>3. asize \in Nat
  BY <1>2, AdjustedSizeFacts
<1>4. h.m = m /\ h.brk = k /\ h.st = h0
  BY HeapFacts
<1>5. Malloc(h, size) =
         IF size = 0 THEN [p |-> NULL, h |-> h]
         ELSE IF bp # NULL THEN [p |-> bp, h |-> [h EXCEPT !.m = place(h.m, bp, asize)]]
         ELSE IF x.p # NULL THEN [p |-> x.p, h |-> [x.h EXCEPT !.m = place(x.h.m, x.p, asize)]]
         ELSE x
  <2> HIDE DEF h
  <2> QED BY <1>4 DEF Malloc, Asked
<1>6. /\ Fits(T, size) => bp = p /\ p \in Fitting(T, asize)
      /\ ~Fits(T, size) => bp = NULL
  BY <1>3, FirstFit DEF Fits, Given
<1>7. Fits(T, size) => bp # NULL
  <2> SUFFICES ASSUME Fits(T, size) PROVE bp # NULL
    OBVIOUS
  <2>1. bp \in Blocks(T)
    BY <1>6 DEF Fitting
  <2>2. bp \in Nat /\ bp >= h0
    BY <2>1, <1>1
  <2> HIDE DEF bp
  <2> QED BY <2>2, RegionFacts DEF NULL
<1>8. CASE ~Room(T, k, size)
  <2>1. CASE size = 0
    BY <2>1, <1>5, <1>8
  <2>2. CASE size # 0
    <3>1. ~Fits(T, size) /\ ~SbrkOK(k, ToInt(n))
      BY <2>2, <1>8 DEF Room
    <3>2. x = [p |-> NULL, h |-> h]
      BY <3>1, <1>2, ExtendMakes
    <3> HIDE DEF x, bp, h
    <3> QED BY <3>1, <3>2, <2>2, <1>5, <1>6, <1>7, <1>8 DEF h
  <2> QED BY <2>1, <2>2
<1>9. CASE Room(T, k, size)
  <2>1. /\ Shape(V, e) /\ p \in Blocks(V) \ {h0} /\ IsFree(V, p) /\ asize <= Size(V, p)
        /\ asize \in Nat /\ asize % 8 = 0 /\ asize >= 16 /\ size # 0
        /\ Keeps(T, V, Allocs(T)) /\ Allocs(V) = Allocs(T)
    BY <1>9, RoomShape
  <2>2. p # NULL
    <3>1. p \in Nat /\ h0 <= p
      BY <2>1, ShapeFacts
    <3> HIDE DEF p
    <3> QED BY <3>1, RegionFacts DEF NULL
  <2>3. TagsAfter(T, k, size) = Placed(V, p, asize)
    BY DEF TagsAfter
  <2>4. \E m1 : /\ Malloc(h, size) = [p |-> p, h |-> HeapOf(place(m1, p, asize), e)]
                /\ Tagged(m1, V, e) /\ SameData(m, m1, T, Allocs(T))
    <3>1. CASE Fits(T, size)
      <4>1. Malloc(h, size) = [p |-> p, h |-> [h EXCEPT !.m = place(m, p, asize)]]
        <5> HIDE DEF h, bp, x, p, asize
        <5> QED BY <3>1, <2>1, <1>4, <1>5, <1>6, <1>7
      <4>2. [h EXCEPT !.m = place(m, p, asize)] = HeapOf(place(m, p, asize), k)
        BY HeapFacts
      <4>3. V = T /\ e = k
        BY <3>1 DEF BreakAfter
      <4>4. SameData(m, m, T, Allocs(T))
        BY DEF SameData
      <4> HIDE DEF h, p, asize, V, e
      <4> QED BY <4>1, <4>2, <4>3, <4>4
    <3>2. CASE ~Fits(T, size)
      <4>1. SbrkOK(k, ToInt(n)) /\ bp = NULL
        BY <3>2, <1>6, <1>9 DEF Room
      <4>2. PICK m1 : /\ x = [p |-> Start(Grow(T, k, k + n), k), h |-> HeapOf(m1, k + n)]
                      /\ Tagged(m1, Merged(Grow(T, k, k + n), k), k + n)
                      /\ SameData(m, m1, T, Allocs(T))
        BY <4>1, <1>2, ExtendMakes
      <4>3. p = Start(Grow(T, k, k + n), k) /\ e = k + n
            /\ V = Merged(Grow(T, k, k + n), k)
        BY <3>2 DEF Given, BreakAfter, Grown
      <4> HIDE DEF h, p, V, e, bp, n, asize
      <4>4. x.p = p /\ x.h = HeapOf(m1, e) /\ x.h.m = m1
        BY <4>2, <4>3, HeapFacts
      <4>5. Malloc(h, size) = [p |-> p, h |-> [HeapOf(m1, e) EXCEPT !.m = place(m1, p, asize)]]
        <5> HIDE DEF x
        <5> QED BY <4>1, <4>4, <2>1, <2>2, <1>5
      <4>6. [HeapOf(m1, e) EXCEPT !.m = place(m1, p, asize)] = HeapOf(place(m1, p, asize), e)
        BY HeapFacts
      <4> QED BY <4>2, <4>3, <4>5, <4>6
    <3> QED BY <3>1, <3>2
  <2> HIDE DEF h, p, V, e, asize
  <2>5. PICK m1 : /\ Malloc(h, size) = [p |-> p, h |-> HeapOf(place(m1, p, asize), e)]
                  /\ Tagged(m1, V, e) /\ SameData(m, m1, T, Allocs(T))
    BY <2>4
  <2>6. /\ Tagged(place(m1, p, asize), Placed(V, p, asize), e)
        /\ SameOutside(m1, place(m1, p, asize), p, EndOf(V, p))
    BY <2>1, <2>5, PlaceMakes
  <2>7. SameData(m, place(m1, p, asize), T, Allocs(T))
    <3> SUFFICES ASSUME NEW b \in Allocs(T), NEW a \in Payload(T, b)
                 PROVE  place(m1, p, asize)[a] = m[a]
      BY DEF SameData
    <3>1. b \in Blocks(V) /\ V[b] = T[b] /\ b \in Allocs(V)
      BY <2>1 DEF Keeps
    <3>2. EndOf(V, b) = EndOf(T, b) /\ b # p
      BY <3>1, <2>1, SameTag DEF Allocs
    <3>3. /\ b \in Nat /\ EndOf(V, b) \in Nat /\ p \in Nat /\ EndOf(V, p) \in Nat
      BY <3>1, <2>1, ShapeFacts
    <3>4. EndOf(V, b) <= p \/ b >= EndOf(V, p)
      BY <3>1, <3>2, <3>3, <2>1, Sides
    <3>5. place(m1, p, asize)[a] = m1[a]
      BY <3>2, <3>3, <3>4, <2>6, OutsideData
    <3> QED BY <3>5, <2>5 DEF SameData
  <2> QED BY <1>9, <2>3, <2>5, <2>6, <2>7 DEF h, p, e
<1> QED BY <1>8, <1>9

(* mm_realloc: the block moves, with the first bytes of its payload; every *)
(* other payload is left alone.                                            *)
LEMMA ReallocMakes ==
  ASSUME NEW m, NEW T, NEW k, Shape(T, k), Separate(T), Tagged(m, T, k), NEW size \in Sizes,
         NEW old \in Allocs(T) \ {h0}, NEW q, q \in mm_realloc(HeapOf(m, k), old, size),
         Room(T, k, size)
  PROVE  \E m2 : /\ q = [p |-> Given(T, k, size), h |-> HeapOf(m2, BreakAfter(T, k, size))]
                 /\ Tagged(m2, Freed(TagsAfter(T, k, size), old), BreakAfter(T, k, size))
                 /\ SameData(m, m2, T, Allocs(T) \ {old})
                 /\ Moved(m, m2, T, old, Given(T, k, size), size)
<1> DEFINE h == HeapOf(m, k)
           p == Given(T, k, size)
           e == BreakAfter(T, k, size)
           U == TagsAfter(T, k, size)
           r == Malloc(h, size)
           copySize == IF size < Size(T, old) THEN size ELSE Size(T, old)
<1>1. PICK m1 : /\ r = [p |-> p, h |-> HeapOf(m1, e)] /\ Tagged(m1, U, e)
                /\ SameData(m, m1, T, Allocs(T))
  BY MallocMakes
<1>2. /\ Shape(U, e) /\ Separate(U) /\ p \notin Allocs(T) /\ p # h0
      /\ Allocs(U) = Allocs(T) \cup {p} /\ Keeps(T, U, Allocs(T))
      /\ size \in Nat /\ size > 0 /\ size + 8 <= Size(U, p) /\ p # NULL /\ k <= e
  BY ServedShape
<1> HIDE DEF h, p, e, U
<1>3. /\ old \in Blocks(U) \ {h0} /\ Size(U, old) = Size(T, old)
      /\ EndOf(U, old) = EndOf(T, old) /\ old # p /\ old \in Blocks(T) /\ ~IsFree(U, old)
  BY <1>2, SameTag DEF Keeps, Allocs
<1>4. GET_SIZE(m1, HDRP(old)) = Size(T, old)
  BY <1>1, <1>2, <1>3, ReadBlock
<1>5. r.h.m = m1 /\ r.p = p /\ [r EXCEPT !.h.m = FreeIn(memcpy(@, p, old, copySize), old)]
         = [p |-> p, h |-> HeapOf(FreeIn(memcpy(m1, p, old, copySize), old), e)]
  BY <1>1 DEF HeapOf
<1> DEFINE mc == memcpy(m1, p, old, copySize)
           m2 == FreeIn(mc, old)
<1>6. q = [p |-> p, h |-> HeapOf(m2, e)]
  <2> DEFINE sz == GET_SIZE(r.h.m, HDRP(old))
             cs == IF size < sz THEN size ELSE sz
  <2>1. mm_realloc(h, old, size) =
           IF r.p = NULL THEN {r}
           ELSE {[r EXCEPT !.h.m = FreeIn(memcpy(@, r.p, old, cs), old)]}
    BY DEF mm_realloc
  <2>2. cs = copySize
    BY <1>4, <1>5
  <2> HIDE DEF r, cs, copySize
  <2>3. mm_realloc(h, old, size) = {[r EXCEPT !.h.m = FreeIn(memcpy(@, p, old, copySize), old)]}
    BY <2>1, <2>2, <1>2, <1>5
  <2> QED BY <2>3, <1>5 DEF h
<1>7. p \in Blocks(U) /\ copySize \in Nat /\ copySize <= Size(U, old) /\ copySize + 8 <= Size(U, p)
  <2>1. p \in Blocks(U)
    BY <1>2 DEF Allocs
  <2>2. Size(U, p) \in Nat /\ Size(T, old) \in Nat
    BY <2>1, <1>2, <1>3, ShapeFacts
  <2> QED BY <2>1, <2>2, <1>2, <1>3
<1>8. Tagged(mc, U, e)
  <2> HIDE DEF copySize
  <2> QED BY <1>1, <1>2, <1>3, <1>7, CopyMakes
<1>9. Tagged(m2, Freed(U, old), e) /\ SameData(mc, m2, U, Allocs(U) \ {old})
  <2> HIDE DEF mc
  <2> QED BY <1>2, <1>3, <1>8, FreeMakes
<1>10. SameData(m, m2, T, Allocs(T) \ {old}) /\ Moved(m, m2, T, old, p, size)
  <2>1. /\ Allocs(T) \subseteq Blocks(T) /\ old \in Allocs(T) /\ p \in Blocks(U) \ Allocs(T)
        /\ SameData(mc, m2, U, (Allocs(T) \cup {p}) \ {old})
    BY <1>2, <1>7, <1>9 DEF Allocs
  <2>2. /\ mc = memcpy(m1, p, old, copySize)
        /\ copySize = (IF size < Size(T, old) THEN size ELSE Size(T, old))
    OBVIOUS
  <2>3. Keeps(T, U, Allocs(T)) /\ size + 8 <= Size(U, p) /\ size \in Nat /\ Shape(U, e)
    BY <1>2
  <2> HIDE DEF m2, mc, copySize, r
  <2> QED BY <2>1, <2>2, <2>3, <1>1, CopyKeeps
<1> QED BY <1>6, <1>9, <1>10 DEF h, p, e, U

(* When there is no room, the heap stays as it is. *)
LEMMA ReallocFails ==
  ASSUME NEW m, NEW T, NEW k, Shape(T, k), Separate(T), Tagged(m, T, k), NEW size \in Sizes,
         NEW old, ~Room(T, k, size)
  PROVE  mm_realloc(HeapOf(m, k), old, size) = {[p |-> NULL, h |-> HeapOf(m, k)]}
<1> DEFINE h == HeapOf(m, k)
<1>1. Malloc(h, size) = [p |-> NULL, h |-> h]
  BY MallocMakes
<1> HIDE DEF h
<1> QED BY <1>1 DEF mm_realloc, h

-----------------------------------------------------------------------------
(* The contract of DriverProofs                                            *)
(*                                                                         *)
(* A heap is described by its tags and its break.                          *)

InOrder(c) == Shape(c.tags, c.brk) /\ Separate(c.tags)

HoldsTags(c, m) == Tagged(m, c.tags, c.brk)

BreakIn(c) == c.brk

StaticIn(c) == h0

PayloadsIn(c) == Allocs(c.tags) \ {h0}

CapacityIn(c, p) == Size(c.tags, p) - 8

FreshHeap == [tags |-> Fresh, brk |-> FreshBreak]

RoomFor(c, size) == Room(c.tags, c.brk, size)

GivenIn(c, size) == Given(c.tags, c.brk, size)

HeapAfterMalloc(c, size) ==
    [tags |-> TagsAfter(c.tags, c.brk, size), brk |-> BreakAfter(c.tags, c.brk, size)]

HeapAfterFree(c, p) == [tags |-> Freed(c.tags, p), brk |-> c.brk]

L == INSTANCE DriverProofs
     WITH Sound <- InOrder, Holds <- HoldsTags, Break <- BreakIn, Statics <- StaticIn,
          Payloads <- PayloadsIn, Capacity <- CapacityIn, CanStart <- InitOK,
          Fresh <- FreshHeap, Room <- RoomFor, Given <- GivenIn,
          Allocated <- HeapAfterMalloc, Released <- HeapAfterFree

(* The contract's names for the parts of a heap. *)
LEMMA ContractFacts ==
  /\ L!NULL = NULL
  /\ \A p, n : L!Words(p, n) = Words(p, n)
  /\ \A m : L!Mem(m) <=> Mem(m)
  /\ \A m, c : L!HeapOf(m, c) = HeapOf(m, c.brk)
  /\ L!Addr = Addr
<1>1. L!Addr = Addr
  BY DEF Addr, L!Addr, mem_max_addr, L!mem_max_addr, WSIZE, L!WSIZE
<1>2. \A p, n : L!Words(p, n) = Words(p, n)
  BY <1>1 DEF Words, L!Words
<1>3. \A m, c : L!HeapOf(m, c) = HeapOf(m, c.brk)
  BY DEF L!HeapOf, HeapOf, BreakIn, StaticIn
<1> QED BY <1>1, <1>2, <1>3 DEF L!NULL, NULL, L!Mem, Mem

(* The payload of an allocated block. *)
LEMMA PayloadFacts ==
  ASSUME NEW c, InOrder(c), NEW p \in PayloadsIn(c)
  PROVE  /\ p \in Nat /\ Size(c.tags, p) \in Nat /\ Size(c.tags, p) >= 8
         /\ CapacityIn(c, p) \in Nat
         /\ L!PayloadOf(c, p) = Payload(c.tags, p)
<1>1. p \in Blocks(c.tags)
  BY DEF PayloadsIn, Allocs
<1>2. /\ p \in Nat /\ Size(c.tags, p) \in Nat /\ EndOf(c.tags, p) = p + Size(c.tags, p)
      /\ Size(c.tags, p) >= 8
  BY <1>1, ShapeFacts DEF InOrder
<1>3. CapacityIn(c, p) \in Nat
  BY <1>2 DEF CapacityIn
<1>4. \A a \in Addr : a < p + CapacityIn(c, p) <=> a < EndOf(c.tags, p) - 8
  BY <1>2, RegionFacts DEF CapacityIn
<1>5. L!PayloadOf(c, p) = Words(p, CapacityIn(c, p))
  BY ContractFacts DEF L!PayloadOf
<1> QED BY <1>2, <1>3, <1>4, <1>5 DEF Words, Payload

(* The payloads that keep their tags keep their capacity, and what is      *)
(* left of the data is what the contract calls kept.                       *)
LEMMA KeptFacts ==
  ASSUME NEW c, InOrder(c), NEW A, A \subseteq PayloadsIn(c)
  PROVE  /\ \A m, m2 : SameData(m, m2, c.tags, A) => L!Kept(c, A, m, m2)
         /\ \A c2 : Keeps(c.tags, c2.tags, A) => L!Steady(c, A, c2)
<1>1. ASSUME NEW m, NEW m2, SameData(m, m2, c.tags, A)
      PROVE  L!Kept(c, A, m, m2)
  BY <1>1, PayloadFacts DEF SameData, L!Kept
<1>2. ASSUME NEW c2, Keeps(c.tags, c2.tags, A), NEW p \in A
      PROVE  p \in PayloadsIn(c2) /\ CapacityIn(c2, p) = CapacityIn(c, p)
  <2>1. p \in Blocks(c2.tags) /\ c2.tags[p] = c.tags[p] /\ ~IsFree(c.tags, p) /\ p # h0
    BY <1>2 DEF Keeps, PayloadsIn, Allocs
  <2> QED BY <2>1 DEF PayloadsIn, Allocs, IsFree, CapacityIn, Size
<1> QED BY <1>1, <1>2 DEF L!Steady

(* The blocks of a heap are aligned, in the heap and apart. *)
LEMMA HeapKept == L!HeapContract
<1> SUFFICES ASSUME NEW c, InOrder(c)
             PROVE  /\ BreakIn(c) \in Nat /\ mem_start_brk <= BreakIn(c)
                    /\ \A p \in PayloadsIn(c) : L!Placed(c, p)
                    /\ \A p, q \in PayloadsIn(c) : p # q => L!Apart(c, p, q)
  BY DEF L!HeapContract
<1>1. /\ c.brk \in Nat /\ h0 + 8 <= c.brk /\ h0 = mem_start_brk + 8
      /\ \A b \in Blocks(c.tags) :
            /\ b \in Nat /\ b % 8 = 0 /\ h0 <= b /\ EndOf(c.tags, b) \in Nat
            /\ EndOf(c.tags, b) = b + Size(c.tags, b) /\ EndOf(c.tags, b) <= c.brk
            /\ Size(c.tags, b) \in Nat
  BY ShapeFacts DEF InOrder, h0, DSIZE
<1>2. BreakIn(c) \in Nat /\ mem_start_brk <= BreakIn(c)
  BY <1>1, RegionFacts DEF BreakIn
<1>3. ASSUME NEW p \in PayloadsIn(c) PROVE L!Placed(c, p)
  <2>1. p \in Blocks(c.tags) /\ CapacityIn(c, p) \in Nat
    BY PayloadFacts DEF PayloadsIn, Allocs
  <2>2. p + CapacityIn(c, p) <= c.brk /\ mem_start_brk <= p
    BY <2>1, <1>1, RegionFacts DEF CapacityIn
  <2> QED BY <2>1, <2>2, <1>1 DEF L!Placed, BreakIn
<1>4. ASSUME NEW p \in PayloadsIn(c), NEW q \in PayloadsIn(c), p # q
      PROVE  L!Apart(c, p, q)
  <2>1. p \in Blocks(c.tags) /\ q \in Blocks(c.tags)
    BY DEF PayloadsIn, Allocs
  <2>2. EndOf(c.tags, p) <= q \/ EndOf(c.tags, q) <= p
    BY <2>1, <1>4, Sides DEF InOrder
  <2>3. p + (Size(c.tags, p) - 8) <= q \/ q + (Size(c.tags, q) - 8) <= p
    BY <2>1, <2>2, <1>1
  <2> QED BY <2>3 DEF L!Apart, CapacityIn
<1> QED BY <1>2, <1>3, <1>4

(* Payloads hold no tags. *)
LEMMA WriteKept == L!WriteContract
<1> SUFFICES ASSUME NEW c, NEW m, InOrder(c), HoldsTags(c, m)
             PROVE  /\ L!Mem(m)
                    /\ \A p \in PayloadsIn(c) : \A m2 :
                          L!Mem(m2) /\ (\A a \in L!Addr \ L!PayloadOf(c, p) : m2[a] = m[a])
                             => HoldsTags(c, m2)
  BY DEF L!WriteContract
<1>1. L!Mem(m)
  BY ContractFacts DEF HoldsTags, Tagged
<1>2. ASSUME NEW p \in PayloadsIn(c), NEW m2, L!Mem(m2),
             \A a \in L!Addr \ L!PayloadOf(c, p) : m2[a] = m[a]
      PROVE  HoldsTags(c, m2)
  <2>1. p \in Blocks(c.tags) /\ Mem(m2)
    BY <1>2, ContractFacts DEF PayloadsIn, Allocs
  <2>2. \A a \in Addr : a \notin Payload(c.tags, p) => m2[a] = m[a]
    BY <1>2, ContractFacts, PayloadFacts
  <2> QED BY <2>1, <2>2, WriteData DEF InOrder, HoldsTags
<1> QED BY <1>1, <1>2

(* mm_init. *)
LEMMA InitKept == L!InitContract
<1>1. InitOK => InOrder(FreshHeap)
  BY FreshShape DEF InOrder, FreshHeap
<1>2. ASSUME NEW m, NEW st, L!Mem(m), NEW r,
             r \in mm_init([m |-> m, brk |-> mem_start_brk, st |-> st])
      PROVE  /\ L!Mem(r.h.m) /\ (r.p # L!NULL <=> InitOK)
             /\ InitOK => \E m2 : r.h = L!HeapOf(m2, FreshHeap) /\ HoldsTags(FreshHeap, m2)
  <2>1. Mem(m)
    BY <1>2, ContractFacts
  <2>2. /\ r.p # NULL <=> InitOK
        /\ Mem(r.h.m)
        /\ InitOK => \E m2 : r.h = HeapOf(m2, FreshBreak) /\ Tagged(m2, Fresh, FreshBreak)
    BY <2>1, <1>2, InitMakes
  <2> QED BY <2>2, ContractFacts DEF FreshHeap, HoldsTags
<1> QED BY <1>1, <1>2 DEF L!InitContract

(* mm_malloc. *)
LEMMA MallocKept == L!MallocContract
<1> SUFFICES ASSUME NEW c, InOrder(c), NEW size \in Sizes
             PROVE  /\ RoomFor(c, size) =>
                         L!Adds(c, size, GivenIn(c, size), HeapAfterMalloc(c, size))
                    /\ \A m : HoldsTags(c, m) =>
                          \A r \in mm_malloc(L!HeapOf(m, c), size) :
                             IF RoomFor(c, size) THEN L!Serves(c, size, m, r)
                                                 ELSE L!Refuses(r)
  BY DEF L!MallocContract
<1> DEFINE T == c.tags
           k == c.brk
           c2 == HeapAfterMalloc(c, size)
           U == TagsAfter(T, k, size)
           e == BreakAfter(T, k, size)
           p == Given(T, k, size)
<1>1. Shape(T, k) /\ Separate(T)
  BY DEF InOrder
<1>2. c2.tags = U /\ c2.brk = e /\ GivenIn(c, size) = p /\ (RoomFor(c, size) <=> Room(T, k, size))
  BY DEF HeapAfterMalloc, GivenIn, RoomFor
<1>3. PayloadsIn(c) = Allocs(T) \ {h0} /\ PayloadsIn(c2) = Allocs(c2.tags) \ {h0}
  BY DEF PayloadsIn
<1>4. ASSUME Room(T, k, size)
      PROVE  L!Adds(c, size, p, c2)
  <2>1. /\ Shape(U, e) /\ Separate(U) /\ p \notin Allocs(T) /\ p # h0
        /\ Allocs(U) = Allocs(T) \cup {p} /\ Keeps(T, U, Allocs(T))
        /\ size \in Nat /\ size > 0 /\ size + 8 <= Size(U, p) /\ p # NULL /\ k <= e
    BY <1>1, <1>4, ServedShape
  <2> HIDE DEF T, k, c2, U, e, p
  <2>2. InOrder(c2) /\ BreakIn(c) <= BreakIn(c2)
    BY <2>1, <1>2 DEF InOrder, BreakIn, k
  <2>3. p \notin PayloadsIn(c) /\ PayloadsIn(c2) = PayloadsIn(c) \cup {p}
    BY <2>1, <1>2, <1>3
  <2>4. p \in PayloadsIn(c2)
    BY <2>3
  <2>5. size <= CapacityIn(c2, p)
    <3>1. Size(c2.tags, p) \in Nat /\ size + 8 <= Size(c2.tags, p)
      BY <2>1, <2>2, <2>4, <1>2, PayloadFacts
    <3> QED BY <3>1, <2>1 DEF CapacityIn
  <2>6. L!Steady(c, PayloadsIn(c), c2)
    <3>1. Keeps(c.tags, c2.tags, PayloadsIn(c))
      BY <2>1, <1>2, <1>3 DEF Keeps, T
    <3> QED BY <3>1, KeptFacts
  <2> QED BY <2>1, <2>2, <2>3, <2>5, <2>6, ContractFacts DEF L!Adds
<1>5. ASSUME NEW m, HoldsTags(c, m), NEW r \in mm_malloc(L!HeapOf(m, c), size)
      PROVE  IF Room(T, k, size) THEN L!Serves(c, size, m, r) ELSE L!Refuses(r)
  <2>1. Tagged(m, T, k) /\ Mem(m)
    BY <1>5 DEF HoldsTags, Tagged
  <2>2. r = Malloc(HeapOf(m, k), size)
    BY <1>5, ContractFacts DEF mm_malloc
  <2>3. CASE Room(T, k, size)
    <3>1. PICK m2 : /\ Malloc(HeapOf(m, k), size) = [p |-> p, h |-> HeapOf(m2, e)]
                    /\ Tagged(m2, U, e) /\ SameData(m, m2, T, Allocs(T))
      BY <1>1, <2>1, <2>3, MallocMakes
    <3> HIDE DEF T, k, c2, U, e, p
    <3>2. r = [p |-> GivenIn(c, size), h |-> L!HeapOf(m2, c2)] /\ HoldsTags(c2, m2)
      BY <3>1, <2>2, <1>2, ContractFacts DEF HoldsTags
    <3>3. L!Kept(c, PayloadsIn(c), m, m2)
      <4>1. SameData(m, m2, c.tags, PayloadsIn(c))
        BY <3>1, <1>3 DEF SameData, T
      <4> QED BY <4>1, KeptFacts
    <3> QED BY <3>2, <3>3, <2>3 DEF L!Serves, c2
  <2>4. CASE ~Room(T, k, size)
    <3>1. r = [p |-> NULL, h |-> HeapOf(m, k)]
      BY <1>1, <2>1, <2>2, <2>4, MallocMakes
    <3> HIDE DEF T, k
    <3>2. r.p = NULL /\ r.h.m = m
      BY <3>1, HeapFacts
    <3> QED BY <3>2, <2>1, <2>4, ContractFacts DEF L!Refuses
  <2> QED BY <2>3, <2>4
<1> QED BY <1>2, <1>4, <1>5

(* mm_free. *)
LEMMA FreeKept == L!FreeContract
<1> SUFFICES ASSUME NEW c, InOrder(c), NEW p \in PayloadsIn(c)
             PROVE  /\ L!Removes(c, p, HeapAfterFree(c, p))
                    /\ \A m : HoldsTags(c, m) =>
                          \A r \in mm_free(L!HeapOf(m, c), p) : L!Frees(c, p, m, r)
  BY DEF L!FreeContract
<1> DEFINE T == c.tags
           k == c.brk
           c2 == HeapAfterFree(c, p)
           A == Allocs(T) \ {p}
<1>1. Shape(T, k) /\ Separate(T) /\ p \in Allocs(T) /\ p # h0 /\ p \in Blocks(T) \ {h0}
  BY DEF InOrder, PayloadsIn, Allocs
<1>2. c2.tags = Freed(T, p) /\ c2.brk = k
  BY DEF HeapAfterFree
<1>3. PayloadsIn(c) \ {p} \subseteq A /\ PayloadsIn(c) \ {p} \subseteq PayloadsIn(c)
  BY DEF PayloadsIn
<1>4. L!Removes(c, p, c2)
  <2>1. /\ Shape(Freed(T, p), k) /\ Separate(Freed(T, p))
        /\ Allocs(Freed(T, p)) = A /\ Keeps(T, Freed(T, p), A)
    BY <1>1, FreedShape
  <2>2. k \in Nat
    BY <1>1, ShapeFacts
  <2> HIDE DEF T, k, c2, A
  <2>3. InOrder(c2) /\ BreakIn(c) <= BreakIn(c2)
    BY <2>1, <2>2, <1>2 DEF InOrder, BreakIn, k
  <2>4. PayloadsIn(c2) = PayloadsIn(c) \ {p}
    BY <2>1, <1>2 DEF PayloadsIn, A, T
  <2>5. L!Steady(c, PayloadsIn(c) \ {p}, c2)
    <3>1. Keeps(c.tags, c2.tags, PayloadsIn(c) \ {p})
      BY <2>1, <1>2, <1>3 DEF Keeps, T
    <3> QED BY <3>1, <1>3, KeptFacts
  <2> QED BY <2>3, <2>4, <2>5 DEF L!Removes
<1>5. ASSUME NEW m, HoldsTags(c, m), NEW r \in mm_free(L!HeapOf(m, c), p)
      PROVE  L!Frees(c, p, m, r)
  <2>1. Tagged(m, T, k)
    BY <1>5 DEF HoldsTags
  <2> DEFINE m2 == FreeIn(m, p)
  <2>2. Tagged(m2, Freed(T, p), k) /\ SameData(m, m2, T, A)
    BY <1>1, <2>1, FreeMakes
  <2>3. r.h = HeapOf(m2, k)
    <3>1. r.h = [HeapOf(m, k) EXCEPT !.m = FreeIn(HeapOf(m, k).m, p)]
      BY <1>5, ContractFacts DEF mm_free
    <3> QED BY <3>1, HeapFacts
  <2> HIDE DEF T, k, c2, A, m2
  <2>4. r.h = L!HeapOf(m2, c2) /\ HoldsTags(c2, m2)
    BY <2>2, <2>3, <1>2, ContractFacts DEF HoldsTags
  <2>5. L!Kept(c, PayloadsIn(c) \ {p}, m, m2)
    <3>1. SameData(m, m2, c.tags, PayloadsIn(c) \ {p})
      BY <2>2, <1>3 DEF SameData, T
    <3> QED BY <3>1, <1>3, KeptFacts
  <2> QED BY <2>4, <2>5 DEF L!Frees, c2
<1> QED BY <1>4, <1>5

(* mm_realloc. *)
LEMMA ReallocKept == L!ReallocContract
<1> SUFFICES ASSUME NEW c, NEW m, InOrder(c), HoldsTags(c, m),
                    NEW size \in Sizes, NEW old \in PayloadsIn(c),
                    NEW r \in mm_realloc(L!HeapOf(m, c), old, size)
             PROVE  IF RoomFor(c, size) THEN L!Moves(c, old, size, m, r) ELSE L!Refuses(r)
  BY DEF L!ReallocContract
<1> DEFINE T == c.tags
           k == c.brk
           c2 == L!Resized(c, old, size)
           U == Freed(TagsAfter(T, k, size), old)
           e == BreakAfter(T, k, size)
           p == Given(T, k, size)
           A == Allocs(T) \ {old}
<1>1. Shape(T, k) /\ Separate(T) /\ old \in Allocs(T) \ {h0} /\ Tagged(m, T, k) /\ Mem(m)
  BY DEF InOrder, PayloadsIn, HoldsTags, Tagged
<1>2. c2.tags = U /\ c2.brk = e /\ GivenIn(c, size) = p /\ (RoomFor(c, size) <=> Room(T, k, size))
  BY DEF HeapAfterMalloc, HeapAfterFree, L!Resized, GivenIn, RoomFor
<1>3. r \in mm_realloc(HeapOf(m, k), old, size)
  BY ContractFacts
<1>4. PayloadsIn(c) \ {old} \subseteq A /\ PayloadsIn(c) \ {old} \subseteq PayloadsIn(c)
  BY DEF PayloadsIn
<1>5. CASE Room(T, k, size)
  <2>1. PICK m2 : /\ r = [p |-> p, h |-> HeapOf(m2, e)]
                  /\ Tagged(m2, U, e) /\ SameData(m, m2, T, A)
                  /\ Moved(m, m2, T, old, p, size)
    BY <1>1, <1>3, <1>5, ReallocMakes
  <2>2. Size(T, old) \in Nat /\ CapacityIn(c, old) = Size(T, old) - 8
    BY PayloadFacts DEF CapacityIn
  <2> HIDE DEF T, k, c2, U, e, p, A
  <2>3. r = [p |-> GivenIn(c, size), h |-> L!HeapOf(m2, c2)] /\ HoldsTags(c2, m2)
    BY <2>1, <1>2, ContractFacts DEF HoldsTags
  <2>4. L!Kept(c, PayloadsIn(c) \ {old}, m, m2)
    <3>1. SameData(m, m2, c.tags, PayloadsIn(c) \ {old})
      BY <2>1, <1>4 DEF SameData, T
    <3> QED BY <3>1, <1>4, KeptFacts
  <2>5. L!Moved(c, m, m2, old, GivenIn(c, size), size)
    <3>1. \A n \in Nat : n <= CapacityIn(c, old) => n + 8 <= Size(T, old)
      BY <2>2
    <3> QED BY <3>1, <2>1, <1>2, ContractFacts DEF L!Moved, Moved
  <2> QED BY <2>3, <2>4, <2>5, <1>2, <1>5 DEF L!Moves, c2
<1>6. CASE ~Room(T, k, size)
  <2>1. r = [p |-> NULL, h |-> HeapOf(m, k)]
    BY <1>1, <1>3, <1>6, ReallocFails
  <2> HIDE DEF T, k
  <2>2. r.p = NULL /\ r.h.m = m
    BY <2>1, HeapFacts
  <2> QED BY <2>2, <1>1, <1>2, <1>6, ContractFacts DEF L!Refuses
<1> QED BY <1>5, <1>6

(* implicit-54.c keeps the contract. *)
LEMMA ContractKept == L!Contract
<1>1. L!TraceContract
  BY ImplicitAssumption DEF L!TraceContract
<1> QED BY <1>1, HeapKept, WriteKept, InitKept, MallocKept, FreeKept, ReallocKept
        DEF L!Contract

-----------------------------------------------------------------------------
(* The theorems *)

(* DriverProofs is about the same driver. *)
LEMMA SameDriver ==
  /\ D!Init <=> L!Init
  /\ D!Next <=> L!Next
  /\ D!dvars = L!dvars
<1>1. D!Init <=> L!Init
  BY DEF D!Init, L!Init, D!NoReport, L!NoReport, D!NoBlocks, L!NoBlocks, D!NULL, L!NULL,
         D!Addr, L!Addr, D!mem_max_addr, L!mem_max_addr, D!WSIZE, L!WSIZE
<1>2. D!dvars = L!dvars
  BY DEF D!dvars, L!dvars
<1>3. D!Next <=> L!Next
  <2>1. D!StartValid <=> L!StartValid
    BY DEF D!StartValid, L!StartValid, D!Heap, L!Heap, D!SetHeap, L!SetHeap, D!NoReport,
           L!NoReport, D!NoBlocks, L!NoBlocks, D!NULL, L!NULL
  <2>2. D!StartUtil <=> L!StartUtil
    BY DEF D!StartUtil, L!StartUtil, D!Start, L!Start, D!Heap, L!Heap, D!SetHeap, L!SetHeap,
           D!NoBlocks, L!NoBlocks, D!NULL, L!NULL
  <2>3. D!StartSpeed <=> L!StartSpeed
    BY DEF D!StartSpeed, L!StartSpeed, D!Start, L!Start, D!Heap, L!Heap, D!SetHeap, L!SetHeap,
           D!NoBlocks, L!NoBlocks, D!NULL, L!NULL
  <2>4. \A op : D!ValidObtain(op) <=> L!ValidObtain(op)
    BY DEF D!ValidObtain, L!ValidObtain, D!ValidRequest, L!ValidRequest, D!Judge, L!Judge,
           D!Invalid, L!Invalid, D!Heap, L!Heap, D!SetHeap, L!SetHeap, D!NoReport, L!NoReport,
           D!NoBlocks, L!NoBlocks, D!mem_heap_lo, L!mem_heap_lo, D!mem_heap_hi, L!mem_heap_hi,
           D!IS_ALIGNED, L!IS_ALIGNED, D!InHeap, L!InHeap, D!Overlaps, L!Overlaps,
           D!Acceptable, L!Acceptable, D!add_range, L!add_range, D!remove_range,
           L!remove_range, D!Requests, L!Requests, D!Legal, L!Legal, D!Outcomes, L!Outcomes,
           D!Remember, L!Remember, D!Compared, L!Compared, D!DataKept, L!DataKept, D!NULL,
           L!NULL, D!WSIZE, L!WSIZE, D!mem_max_addr, L!mem_max_addr, D!Addr, L!Addr, D!Words,
           L!Words, D!memset, L!memset, D!LowByte, L!LowByte, D!Char, L!Char, D!MAX, L!MAX
  <2>5. \A op : D!ValidFree(op) <=> L!ValidFree(op)
    BY DEF D!ValidFree, L!ValidFree, D!ValidRequest, L!ValidRequest, D!Legal, L!Legal,
           D!remove_range, L!remove_range, D!Heap, L!Heap, D!SetHeap, L!SetHeap, D!NULL, L!NULL
  <2>6. D!UtilObtain <=> L!UtilObtain
    BY DEF D!UtilObtain, L!UtilObtain, D!Replay, L!Replay, D!Outcomes, L!Outcomes, D!Heap,
           L!Heap, D!SetHeap, L!SetHeap, D!Remember, L!Remember, D!Account, L!Account, D!MAX,
           L!MAX, D!NULL, L!NULL
  <2>7. D!SpeedObtain <=> L!SpeedObtain
    BY DEF D!SpeedObtain, L!SpeedObtain, D!Replay, L!Replay, D!Outcomes, L!Outcomes, D!Heap,
           L!Heap, D!SetHeap, L!SetHeap, D!NULL, L!NULL
  <2>8. D!ReplayFree <=> L!ReplayFree
    BY DEF D!ReplayFree, L!ReplayFree, D!Replay, L!Replay, D!Heap, L!Heap, D!SetHeap,
           L!SetHeap, D!Account, L!Account, D!NULL, L!NULL
  <2>9. D!Requests = L!Requests
    BY DEF D!Requests, L!Requests
  <2> QED BY <2>1, <2>2, <2>3, <2>4, <2>5, <2>6, <2>7, <2>8, <2>9 DEF D!Next, L!Next
<1> QED BY <1>1, <1>2, <1>3

(* So what holds of DriverProofs' driver holds of this one. *)
LEMMA SameSpec ==
  /\ Spec => L!Spec
  /\ (NeverFaulted <=> L!NeverFaulted) /\ (ReplaySucceeds <=> L!ReplaySucceeds)
  /\ (UtilAtMostOne <=> L!UtilAtMostOne)
<1>1. Spec => L!Spec
  <2>1. D!Init => L!Init
    BY SameDriver
  <2>2. [D!Next]_(D!dvars) => [L!Next]_(L!dvars)
    BY SameDriver DEF D!dvars, L!dvars
  <2> QED BY <2>1, <2>2, PTL DEF Spec, D!Spec, L!Spec
<1>2. NeverFaulted <=> L!NeverFaulted
  BY DEF NeverFaulted, D!NeverFaulted, L!NeverFaulted
<1>3. ReplaySucceeds <=> L!ReplaySucceeds
  BY DEF ReplaySucceeds, D!ReplaySucceeds, L!ReplaySucceeds
<1>4. UtilAtMostOne <=> L!UtilAtMostOne
  BY DEF UtilAtMostOne, D!UtilAtMostOne, L!UtilAtMostOne, D!mem_heapsize, L!mem_heapsize
<1> QED BY <1>1, <1>2, <1>3, <1>4

(* What the contract says of the heap: the walk over it is complete. *)
LEMMA WalkHere == L!HeapSound => HeapWalks
<1> SUFFICES ASSUME L!HeapSound, phase \in {"valid", "util", "speed"} PROVE HeapWalks
  BY DEF HeapWalks
<1>1. PICK c : /\ InOrder(c) /\ HoldsTags(c, mem)
               /\ mem_brk = BreakIn(c) /\ static = StaticIn(c)
  BY DEF L!HeapSound
<1>2. /\ Shape(c.tags, mem_brk) /\ Separate(c.tags) /\ Tagged(mem, c.tags, mem_brk)
      /\ static = h0
  BY <1>1 DEF InOrder, HoldsTags, BreakIn, StaticIn
<1>3. \E n \in DOMAIN Visited(mem, h0) :
        LET b == Visited(mem, h0)
        IN  /\ b[n] = mem_brk /\ GET(mem, HDRP(b[n])) = PACK(0, 1)
            /\ \A i \in 0 .. n - 1 :
                  /\ ~AtEnd(mem, b[i]) /\ b[i + 1] <= mem_brk
                  /\ GET(mem, FTRP(mem, b[i])) = GET(mem, HDRP(b[i]))
                  /\ \/ GET_ALLOC(mem, HDRP(b[i])) = 1 \/ i = 0
                     \/ GET_ALLOC(mem, HDRP(b[i - 1])) = 1
  BY <1>2, WalkComplete
<1> QED BY <1>2, <1>3 DEF HeapWalks

(* eval_mm_valid never faults implicit-54.c: no payload is misaligned, out *)
(* of the heap or over another one, and no reallocation loses data.        *)
THEOREM ImplicitNeverFaulted ==
  ASSUME L!PositiveChars
  PROVE  Spec => []NeverFaulted
<1>1. L!Spec => []L!NeverFaulted
  BY ContractKept, MemAssumption, L!PositiveChars, L!ServedNeverFaulted, PTL
<1>2. L!NeverFaulted => NeverFaulted
  BY SameSpec
<1> QED BY <1>1, <1>2, SameSpec, PTL

(* A trace that implicit-54.c has served it serves again in every replay,  *)
(* over whatever the earlier passes left in the region.                    *)
THEOREM ImplicitReplays == Spec => []ReplaySucceeds
<1>1. L!Spec => []L!ReplaySucceeds
  BY ContractKept, MemAssumption, L!ServedReplays, PTL
<1>2. L!ReplaySucceeds => ReplaySucceeds
  BY SameSpec
<1> QED BY <1>1, <1>2, SameSpec, PTL

(* The payloads never outgrow the heap: utilization is at most 1.          *)
THEOREM ImplicitUtil == Spec => []UtilAtMostOne
<1>1. L!Spec => []L!UtilAtMostOne
  BY ContractKept, MemAssumption, L!ServedUtil, PTL
<1>2. L!UtilAtMostOne => UtilAtMostOne
  BY SameSpec
<1> QED BY <1>1, <1>2, SameSpec, PTL

(* Between two calls the heap is a chain of well-tagged blocks from the    *)
(* prologue to the epilogue with no two free neighbours, so that the walk  *)
(* of find_fit terminates and sees every block.                            *)
THEOREM ImplicitWalks == Spec => []HeapWalks
<1>1. L!Spec => []L!HeapSound
  BY ContractKept, MemAssumption, L!ServedSound, PTL
<1>2. L!HeapSound => HeapWalks
  BY WalkHere
<1> QED BY <1>1, <1>2, SameSpec, PTL

=============================================================================
