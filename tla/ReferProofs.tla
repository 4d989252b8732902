----------------------------- MODULE ReferProofs -----------------------------
(***************************************************************************)
(* What the driver finds of refer.c, whatever the region, the chunk size,  *)
(* the indices, the sizes requested and the length of the trace.  First    *)
(* what the list of free blocks is and what the two list operations do to  *)
(* it; then what each function does to the tags, the list and the          *)
(* payloads; last that the allocator keeps the contract of DriverProofs, a *)
(* heap being described by its tags, its break and its list.               *)
(***************************************************************************)
EXTENDS Refer, TagLemmas

-----------------------------------------------------------------------------
(* Lists *)

(* l lists the blocks of F, each once, between NULL and the prologue. *)
ListOf(l, F) ==
    /\ l.len \in Nat
    /\ l.at[0] = NULL /\ l.at[l.len + 1] = h0
    /\ \A i \in 1 .. l.len : l.at[i] \in F
    /\ \A b \in F : \E i \in 1 .. l.len : l.at[i] = b
    /\ \A i, j \in 1 .. l.len : l.at[i] = l.at[j] => i = j

FirstIn(l) == l.at[1]

Empty == [len |-> 0, at |-> [i \in 0 .. 1 |-> IF i = 0 THEN NULL ELSE h0]]

(* b comes first. *)
Push(l, b) ==
    [len |-> l.len + 1,
     at  |-> [i \in 0 .. l.len + 2 |->
                 IF i = 0 THEN NULL ELSE IF i = 1 THEN b ELSE l.at[i - 1]]]

(* b goes. *)
IndexOf(l, b) == CHOOSE i \in 1 .. l.len : l.at[i] = b

Drop(l, b) ==
    [len |-> l.len - 1,
     at  |-> [i \in 0 .. l.len |-> IF i < IndexOf(l, b) THEN l.at[i] ELSE l.at[i + 1]]]

(* The list of an empty heap. *)
LEMMA EmptyList == ListOf(Empty, {}) /\ FirstIn(Empty) = h0
BY DEF ListOf, Empty, FirstIn

(* Pushing a block. *)
LEMMA PushList ==
  ASSUME NEW l, NEW F, ListOf(l, F), NEW b, b \notin F
  PROVE  ListOf(Push(l, b), F \cup {b}) /\ FirstIn(Push(l, b)) = b
<1> DEFINE p == Push(l, b)
<1>1. /\ l.len \in Nat /\ l.at[l.len + 1] = h0
      /\ \A i \in 1 .. l.len : l.at[i] \in F
      /\ \A c \in F : \E i \in 1 .. l.len : l.at[i] = c
      /\ \A i, j \in 1 .. l.len : l.at[i] = l.at[j] => i = j
  BY DEF ListOf
<1>2. p.len = l.len + 1 /\ p.len \in Nat /\ p.at[0] = NULL /\ p.at[1] = b
  BY <1>1 DEF Push
<1>3. \A i \in 2 .. l.len + 2 : i - 1 \in 1 .. l.len + 1 /\ p.at[i] = l.at[i - 1]
  BY <1>1 DEF Push
<1> HIDE DEF p
<1>4. p.at[p.len + 1] = h0
  <2>1. l.len + 2 \in 2 .. l.len + 2 /\ (l.len + 2) - 1 = l.len + 1
    BY <1>1
  <2> QED BY <2>1, <1>1, <1>2, <1>3
<1>5. \A i \in 2 .. p.len : /\ i - 1 \in 1 .. l.len /\ p.at[i] = l.at[i - 1]
                            /\ p.at[i] \in F
  <2> SUFFICES ASSUME NEW i \in 2 .. p.len
               PROVE  i - 1 \in 1 .. l.len /\ p.at[i] = l.at[i - 1] /\ p.at[i] \in F
    OBVIOUS
  <2>1. i - 1 \in 1 .. l.len /\ i \in 2 .. l.len + 2
    BY <1>1, <1>2
  <2> QED BY <2>1, <1>1, <1>3
<1>6. \A i \in 1 .. p.len : i = 1 \/ i \in 2 .. p.len
  BY <1>2
<1>7. \A i \in 1 .. p.len : p.at[i] \in F \cup {b}
  BY <1>2, <1>5, <1>6
<1>8. ASSUME NEW c \in F \cup {b} PROVE \E i \in 1 .. p.len : p.at[i] = c
  <2>1. CASE c = b
    <3>1. 1 \in 1 .. p.len
      BY <1>1, <1>2
    <3> QED BY <3>1, <2>1, <1>2
  <2>2. CASE c # b
    <3>1. PICK i \in 1 .. l.len : l.at[i] = c
      BY <2>2, <1>1
    <3>2. i + 1 \in 1 .. p.len /\ i + 1 \in 2 .. p.len /\ (i + 1) - 1 = i
      BY <1>1, <1>2
    <3> QED BY <3>1, <3>2, <1>5
  <2> QED BY <2>1, <2>2
<1>9. ASSUME NEW i \in 1 .. p.len, NEW j \in 1 .. p.len, p.at[i] = p.at[j]
      PROVE  i = j
  <2>1. CASE i = 1
    BY <2>1, <1>2, <1>5, <1>6, <1>9
  <2>2. CASE j = 1
    BY <2>2, <1>2, <1>5, <1>6, <1>9
  <2>3. CASE i # 1 /\ j # 1
    <3>1. i - 1 = j - 1
      BY <2>3, <1>1, <1>5, <1>6, <1>9
    <3> QED BY <3>1
  <2> QED BY <2>1, <2>2, <2>3
<1> QED BY <1>2, <1>4, <1>7, <1>8, <1>9 DEF ListOf, FirstIn, p

(* Where a listed block is. *)
LEMMA IndexFacts ==
  ASSUME NEW l, NEW F, ListOf(l, F), NEW b \in F
  PROVE  /\ l.len \in Nat /\ l.len > 0 /\ IndexOf(l, b) \in 1 .. l.len
         /\ l.at[IndexOf(l, b)] = b
         /\ \A i \in 1 .. l.len : l.at[i] = b => i = IndexOf(l, b)
         /\ Drop(l, b).len = l.len - 1
         /\ \A i \in 0 .. l.len :
               Drop(l, b).at[i] = IF i < IndexOf(l, b) THEN l.at[i] ELSE l.at[i + 1]
<1>1. \E i \in 1 .. l.len : l.at[i] = b
  BY DEF ListOf
<1>2. IndexOf(l, b) \in 1 .. l.len /\ l.at[IndexOf(l, b)] = b
  BY <1>1 DEF IndexOf
<1>3. l.len \in Nat /\ l.len > 0
  BY <1>2 DEF ListOf
<1>4. \A i \in 1 .. l.len : l.at[i] = b => i = IndexOf(l, b)
  BY <1>2 DEF ListOf
<1> HIDE DEF IndexOf
<1>5. /\ Drop(l, b).len = l.len - 1
      /\ \A i \in 0 .. l.len :
            Drop(l, b).at[i] = IF i < IndexOf(l, b) THEN l.at[i] ELSE l.at[i + 1]
  BY DEF Drop
<1> QED BY <1>2, <1>3, <1>4, <1>5

(* Dropping a block. *)
LEMMA DropList ==
  ASSUME NEW l, NEW F, ListOf(l, F), NEW b \in F
  PROVE  ListOf(Drop(l, b), F \ {b})
<1> DEFINE d == Drop(l, b)
           j == IndexOf(l, b)
<1>1. /\ l.len \in Nat /\ l.at[0] = NULL /\ l.at[l.len + 1] = h0
      /\ \A i \in 1 .. l.len : l.at[i] \in F
      /\ \A c \in F : \E i \in 1 .. l.len : l.at[i] = c
      /\ \A i, n \in 1 .. l.len : l.at[i] = l.at[n] => i = n
  BY DEF ListOf
<1>2. /\ j \in 1 .. l.len /\ l.at[j] = b /\ j \in Nat
      /\ d.len = l.len - 1 /\ d.len \in Nat /\ l.len > 0
      /\ \A i \in 0 .. l.len : d.at[i] = IF i < j THEN l.at[i] ELSE l.at[i + 1]
  BY IndexFacts
<1> HIDE DEF d, j
<1>3. d.at[0] = NULL
  <2>1. 0 \in 0 .. l.len /\ 0 < j
    BY <1>1, <1>2
  <2> QED BY <2>1, <1>1, <1>2
<1>4. d.at[d.len + 1] = h0
  <2>1. d.len + 1 = l.len /\ l.len \in 0 .. l.len /\ ~(l.len < j)
    BY <1>1, <1>2
  <2> QED BY <2>1, <1>1, <1>2
<1>5. ASSUME NEW i \in 1 .. d.len
      PROVE  /\ i < j => i \in 1 .. l.len /\ d.at[i] = l.at[i]
             /\ ~(i < j) => i + 1 \in 1 .. l.len /\ i + 1 # j /\ d.at[i] = l.at[i + 1]
  BY <1>1, <1>2
<1>6. \A i \in 1 .. d.len : d.at[i] \in F \ {b}
  BY <1>1, <1>2, <1>5
<1>7. ASSUME NEW c \in F \ {b} PROVE \E i \in 1 .. d.len : d.at[i] = c
  <2>1. PICK i \in 1 .. l.len : l.at[i] = c
    BY <1>1
  <2>2. i # j
    BY <2>1, <1>2
  <2>3. CASE i < j
    <3>1. i \in 1 .. d.len
      BY <2>3, <1>1, <1>2
    <3> QED BY <3>1, <2>1, <2>3, <1>5
  <2>4. CASE ~(i < j)
    <3>1. i - 1 \in 1 .. d.len /\ ~(i - 1 < j) /\ (i - 1) + 1 = i
      BY <2>2, <2>4, <1>1, <1>2
    <3> QED BY <3>1, <2>1, <1>5
  <2> QED BY <2>3, <2>4
<1>8. ASSUME NEW i \in 1 .. d.len, NEW n \in 1 .. d.len, d.at[i] = d.at[n]
      PROVE  i = n
  <2>1. CASE i < j /\ n < j
    BY <2>1, <1>1, <1>5, <1>8
  <2>2. CASE ~(i < j) /\ ~(n < j)
    <3>1. i + 1 = n + 1
      BY <2>2, <1>1, <1>5, <1>8
    <3> QED BY <3>1
  <2>3. CASE i < j /\ ~(n < j)
    <3>1. i = n + 1
      BY <2>3, <1>1, <1>5, <1>8
    <3> QED BY <3>1, <2>3, <1>2
  <2>4. CASE ~(i < j) /\ n < j
    <3>1. i + 1 = n
      BY <2>4, <1>1, <1>5, <1>8
    <3> QED BY <3>1, <2>4, <1>2
  <2> QED BY <2>1, <2>2, <2>3, <2>4
<1> QED BY <1>2, <1>3, <1>4, <1>6, <1>7, <1>8 DEF ListOf, d

(* Nobody is listed twice, and the ends are no listed blocks.              *)
LEMMA ListFacts ==
  ASSUME NEW l, NEW F, ListOf(l, F), h0 \notin F, NULL \notin F
  PROVE  /\ l.len \in Nat /\ l.at[0] = NULL /\ l.at[l.len + 1] = h0
         /\ \A i \in 1 .. l.len + 1 : l.at[i] \in F \cup {h0} /\ (l.at[i] = h0 <=> i = l.len + 1)
         /\ \A i \in 0 .. l.len : l.at[i] \in F \cup {NULL} /\ (l.at[i] = NULL <=> i = 0)
         /\ \A i, j \in 0 .. l.len + 1 : l.at[i] = l.at[j] => i = j
         /\ FirstIn(l) \in F \cup {h0}
<1>1. /\ l.len \in Nat /\ l.at[0] = NULL /\ l.at[l.len + 1] = h0 /\ h0 # NULL
      /\ \A i \in 1 .. l.len : l.at[i] \in F
      /\ \A i, j \in 1 .. l.len : l.at[i] = l.at[j] => i = j
  BY RegionFacts DEF ListOf, NULL
<1>2. \A i \in 0 .. l.len + 1 : i = 0 \/ i = l.len + 1 \/ i \in 1 .. l.len
  BY <1>1
<1>3. \A i \in 1 .. l.len + 1 : l.at[i] \in F \cup {h0} /\ (l.at[i] = h0 <=> i = l.len + 1)
  <2>1. \A i \in 1 .. l.len + 1 : i = l.len + 1 \/ i \in 1 .. l.len
    BY <1>1
  <2> QED BY <2>1, <1>1
<1>4. \A i \in 0 .. l.len : l.at[i] \in F \cup {NULL} /\ (l.at[i] = NULL <=> i = 0)
  <2>1. \A i \in 0 .. l.len : i = 0 \/ i \in 1 .. l.len
    BY <1>1
  <2> QED BY <2>1, <1>1
<1>5. \A i, j \in 0 .. l.len + 1 : l.at[i] = l.at[j] => i = j
  <2> SUFFICES ASSUME NEW i \in 0 .. l.len + 1, NEW j \in 0 .. l.len + 1, l.at[i] = l.at[j]
               PROVE  i = j
    OBVIOUS
  <2>1. CASE i \in 1 .. l.len /\ j \in 1 .. l.len
    BY <2>1, <1>1
  <2>2. CASE i = 0 \/ i = l.len + 1
    BY <2>2, <1>1, <1>2
  <2>3. CASE j = 0 \/ j = l.len + 1
    BY <2>3, <1>1, <1>2
  <2> QED BY <2>1, <2>2, <2>3, <1>2
<1>6. 1 \in 1 .. l.len + 1
  BY <1>1
<1> QED BY <1>1, <1>3, <1>4, <1>5, <1>6 DEF FirstIn

-----------------------------------------------------------------------------
(* Links *)

(* The two link words of a block. *)
Cell(c) == c \in Nat /\ c % 8 = 0 /\ c \in Addr /\ c + 4 \in Addr

(* The memory m holds the links of the list l. *)
Linked(m, l) ==
    /\ \A i \in 1 .. l.len + 1 : m[l.at[i]] = l.at[i - 1]
    /\ \A i \in 1 .. l.len : m[l.at[i] + 4] = l.at[i + 1]

(* Only link words of the blocks N may differ. *)
LinksOnly(m, m2, N) == \A a \in Addr : (\A c \in N : a # c /\ a # c + 4) => m2[a] = m[a]

(* A heap of the driver, once mm_init has set free_listp. *)
HeapOf(m, k, l) == [m |-> m, brk |-> k, st |-> FirstIn(l)]

(* Different cells have no word in common. *)
LEMMA CellFacts ==
  ASSUME NEW c, NEW d, Cell(c), Cell(d)
  PROVE  c + 4 # d /\ d + 4 # c /\ (c + 4 = d + 4 => c = d)
BY DEF Cell

(* add_block puts a block in front of the list. *)
LEMMA AddLinks ==
  ASSUME NEW l, NEW F, ListOf(l, F), h0 \notin F, NULL \notin F, NEW bp, bp \notin F, bp # h0,
         NEW N, F \subseteq N, bp \in N, h0 \in N, \A c \in N : Cell(c),
         NEW m, Mem(m), Linked(m, l), NEW k, NEW r, r = add_block(HeapOf(m, k, l), bp)
  PROVE  /\ r = HeapOf(r.m, k, Push(l, bp))
         /\ Mem(r.m) /\ Linked(r.m, Push(l, bp)) /\ LinksOnly(m, r.m, N)
<1> DEFINE p == Push(l, bp)
           st == FirstIn(l)
           m3 == PUT(PUT(PUT(m, bp + WSIZE, st), bp, NULL), st, bp)
<1>1. /\ l.len \in Nat /\ l.at[0] = NULL /\ l.at[l.len + 1] = h0
      /\ \A i \in 1 .. l.len + 1 : l.at[i] \in F \cup {h0}
      /\ \A i, j \in 0 .. l.len + 1 : l.at[i] = l.at[j] => i = j
      /\ st \in F \cup {h0}
  BY ListFacts
<1>2. r = [m |-> m3, brk |-> k, st |-> bp]
  BY DEF add_block, HeapOf
<1>3. FirstIn(p) = bp
  BY PushList
<1>4. r.m = m3 /\ r = HeapOf(r.m, k, p)
  BY <1>2, <1>3 DEF HeapOf
<1>5. Cell(bp) /\ Cell(st) /\ st # bp /\ st = l.at[1]
  BY <1>1 DEF FirstIn
<1>6. /\ bp \in Addr /\ bp + 4 \in Addr /\ st \in Addr /\ bp \in Nat /\ st \in Nat
      /\ bp + 4 # bp /\ bp + 4 # st
  BY <1>5, CellFacts DEF Cell
<1> HIDE DEF st, p
<1>7. m3 = [a \in Addr |-> IF a = st THEN bp ELSE IF a = bp THEN NULL
                           ELSE IF a = bp + 4 THEN st ELSE m[a]]
  <2>1. m = [a \in Addr |-> m[a]]
    BY DEF Mem
  <2> QED BY <2>1, <1>5, <1>6 DEF PUT, WSIZE
<1> HIDE DEF m3
<1>8. Mem(m3)
  <2>1. \A a \in Addr : m[a] \in Nat
    BY DEF Mem
  <2> QED BY <2>1, <1>6, <1>7 DEF Mem, NULL
<1>9. LinksOnly(m, m3, N)
  <2> SUFFICES ASSUME NEW a \in Addr, \A c \in N : a # c /\ a # c + 4
               PROVE  m3[a] = m[a]
    BY DEF LinksOnly
  <2>1. st \in N
    BY <1>1
  <2> QED BY <2>1, <1>7
<1>10. ASSUME NEW c \in F \cup {h0}
       PROVE  c \in Addr /\ c + 4 \in Addr /\ c # bp /\ c # bp + 4 /\ c + 4 # bp
              /\ c + 4 # bp + 4 /\ c + 4 # st
  <2>1. Cell(c)
    OBVIOUS
  <2> QED BY <2>1, <1>5, CellFacts DEF Cell
<1>11. /\ p.len = l.len + 1 /\ p.at[0] = NULL /\ p.at[1] = bp
       /\ \A i \in 2 .. l.len + 2 : p.at[i] = l.at[i - 1]
  <2>1. p.len = l.len + 1 /\ p.at[0] = NULL /\ p.at[1] = bp
    BY <1>1 DEF p, Push
  <2>2. \A i \in 2 .. l.len + 2 : p.at[i] = l.at[i - 1]
    BY <1>1 DEF p, Push
  <2> QED BY <2>1, <2>2
<1>12. ASSUME NEW i \in 1 .. p.len + 1 PROVE m3[p.at[i]] = p.at[i - 1]
  <2>1. CASE i = 1
    BY <2>1, <1>5, <1>6, <1>7, <1>11
  <2>2. CASE i = 2
    <3>1. p.at[2] = st /\ p.at[2 - 1] = bp
      BY <1>1, <1>5, <1>11
    <3> QED BY <3>1, <2>2, <1>6, <1>7
  <2>3. CASE i # 1 /\ i # 2
    <3>1. /\ i - 1 \in 1 .. l.len + 1 /\ i \in 2 .. l.len + 2 /\ i - 1 \in 2 .. l.len + 2
          /\ i - 1 # 1 /\ i - 1 \in 0 .. l.len + 1 /\ 1 \in 0 .. l.len + 1
      BY <2>3, <1>1, <1>11
    <3> DEFINE c == l.at[i - 1]
    <3>2. c \in F \cup {h0} /\ c # st
      BY <3>1, <1>1, <1>5
    <3>3. m3[c] = m[c]
      BY <3>2, <1>7, <1>10
    <3>4. m[c] = l.at[(i - 1) - 1]
      BY <3>1 DEF Linked
    <3> QED BY <3>1, <3>3, <3>4, <1>11
  <2> QED BY <2>1, <2>2, <2>3
<1>13. ASSUME NEW i \in 1 .. p.len PROVE m3[p.at[i] + 4] = p.at[i + 1]
  <2>1. CASE i = 1
    <3>1. p.at[2] = st
      BY <1>1, <1>5, <1>11
    <3> QED BY <3>1, <2>1, <1>6, <1>7, <1>11
  <2>2. CASE i # 1
    <3>1. /\ i - 1 \in 1 .. l.len /\ i - 1 \in 1 .. l.len + 1 /\ i \in 2 .. l.len + 2
          /\ i + 1 \in 2 .. l.len + 2 /\ (i + 1) - 1 = i /\ (i - 1) + 1 = i
      BY <2>2, <1>1, <1>11
    <3> DEFINE c == l.at[i - 1]
    <3>2. c \in F \cup {h0}
      BY <3>1, <1>1
    <3>3. m3[c + 4] = m[c + 4]
      BY <3>2, <1>7, <1>10
    <3>4. m[c + 4] = l.at[(i - 1) + 1]
      BY <3>1 DEF Linked
    <3> QED BY <3>1, <3>3, <3>4, <1>11
  <2> QED BY <2>1, <2>2
<1> QED BY <1>4, <1>8, <1>9, <1>12, <1>13 DEF Linked, p

(* remove_block takes a block out of the list. *)
LEMMA RemoveLinks ==
  ASSUME NEW l, NEW F, ListOf(l, F), h0 \notin F, NULL \notin F, NEW bp \in F,
         NEW N, F \subseteq N, h0 \in N, \A c \in N : Cell(c),
         NEW m, Mem(m), Linked(m, l), NEW k, NEW r, r = remove_block(HeapOf(m, k, l), bp)
  PROVE  /\ r = HeapOf(r.m, k, Drop(l, bp))
         /\ Mem(r.m) /\ Linked(r.m, Drop(l, bp)) /\ LinksOnly(m, r.m, N)
<1> DEFINE d == Drop(l, bp)
           j == IndexOf(l, bp)
           nx == l.at[j + 1]
           pv == l.at[j - 1]
           st == FirstIn(l)
           m2 == [a \in Addr |-> IF a = nx THEN pv ELSE IF j # 1 /\ a = pv + 4 THEN nx ELSE m[a]]
<1>1. /\ l.len \in Nat /\ l.at[0] = NULL /\ l.at[l.len + 1] = h0
      /\ \A i \in 1 .. l.len + 1 : l.at[i] \in F \cup {h0}
      /\ \A i \in 0 .. l.len : l.at[i] \in F \cup {NULL} /\ (l.at[i] = NULL <=> i = 0)
      /\ \A i, n \in 0 .. l.len + 1 : l.at[i] = l.at[n] => i = n
  BY ListFacts
<1>2. /\ l.len > 0 /\ j \in 1 .. l.len /\ l.at[j] = bp /\ j \in Nat
      /\ d.len = l.len - 1
      /\ \A i \in 0 .. l.len : d.at[i] = IF i < j THEN l.at[i] ELSE l.at[i + 1]
  BY IndexFacts
<1>3. /\ j \in 1 .. l.len + 1 /\ j + 1 \in 1 .. l.len + 1 /\ j - 1 \in 0 .. l.len
      /\ j \in 0 .. l.len + 1 /\ j + 1 \in 0 .. l.len + 1 /\ j - 1 \in 0 .. l.len + 1
      /\ 1 \in 0 .. l.len + 1 /\ j # j + 1 /\ j # j - 1 /\ (j - 1 = 0 <=> j = 1)
  BY <1>1, <1>2
<1> HIDE DEF d, j
<1>4. /\ nx \in F \cup {h0} /\ nx # bp /\ pv # bp
      /\ j # 1 => pv \in F
      /\ j = 1 => pv = NULL
  BY <1>1, <1>2, <1>3
<1>5. m[bp + 4] = nx /\ m[bp] = pv /\ (bp = st <=> j = 1)
  <2>1. m[bp + 4] = nx /\ m[bp] = pv
    BY <1>2, <1>3 DEF Linked
  <2>2. bp = st <=> j = 1
    BY <1>1, <1>2, <1>3 DEF FirstIn
  <2> QED BY <2>1, <2>2
<1>6. Cell(nx) /\ Cell(bp) /\ (j # 1 => Cell(pv))
  BY <1>4
<1>7. /\ nx \in Addr /\ nx \in Nat /\ bp \in Addr /\ bp + 4 \in Addr /\ bp + 4 # nx /\ pv \in Nat
      /\ j # 1 => pv \in Addr /\ pv + 4 \in Addr /\ pv + 4 # nx
  <2>1. bp + 4 # nx /\ (j # 1 => pv + 4 # nx)
    BY <1>6, CellFacts
  <2> QED BY <2>1, <1>4, <1>6 DEF Cell, NULL
<1>8. m = [a \in Addr |-> m[a]] /\ \A a \in Addr : m[a] \in Nat
  BY DEF Mem
<1> HIDE DEF nx, pv, st
<1>9. r = [m |-> m2, brk |-> k, st |-> IF j = 1 THEN nx ELSE st]
  <2>1. HeapOf(m, k, l) = [m |-> m, brk |-> k, st |-> st]
    BY DEF HeapOf, st
  <2>2. GET(m, bp + WSIZE) = nx /\ GET(m, bp) = pv
    BY <1>5 DEF GET, WSIZE
  <2>3. CASE j = 1
    <3>1. r = [m |-> PUT(m, nx, NULL), brk |-> k, st |-> nx]
      <4> DEFINE g == [m |-> m, brk |-> k, st |-> st]
      <4>1. r = [g EXCEPT !.m = PUT(@, NEXT_FREE(@, bp), NULL), !.st = NEXT_FREE(g.m, bp)]
        BY <2>1, <2>3, <1>5 DEF remove_block
      <4>2. NEXT_FREE(m, bp) = nx
        BY <2>2 DEF NEXT_FREE
      <4> QED BY <4>1, <4>2
    <3>2. PUT(m, nx, NULL) = m2
      BY <2>3, <1>4, <1>7, <1>8 DEF PUT
    <3> QED BY <3>1, <3>2, <2>3
  <2>4. CASE j # 1
    <3> DEFINE m1 == PUT(m, nx, pv)
    <3>1. GET(m1, bp) = pv /\ GET(m1, bp + WSIZE) = nx
      BY <2>2, <1>4, <1>7, <1>8 DEF PUT, GET, WSIZE
    <3>2. r = [m |-> PUT(m1, pv + WSIZE, nx), brk |-> k, st |-> st]
      <4> HIDE DEF m1
      <4>1. PUT(m, NEXT_FREE(m, bp), PREV_FREE(m, bp)) = m1
        BY <2>2 DEF NEXT_FREE, PREV_FREE, m1
      <4> QED BY <4>1, <3>1, <2>1, <2>4, <1>5 DEF remove_block, NEXT_FREE, PREV_FREE
    <3>3. PUT(m1, pv + WSIZE, nx) = m2
      BY <2>4, <1>7, <1>8 DEF PUT, WSIZE
    <3> QED BY <3>2, <3>3, <2>4
  <2> QED BY <2>3, <2>4
<1>10. FirstIn(d) = IF j = 1 THEN nx ELSE st
  <2>1. 1 \in 0 .. l.len /\ (1 < j <=> j # 1)
    BY <1>1, <1>2
  <2>2. d.at[1] = IF 1 < j THEN l.at[1] ELSE l.at[1 + 1]
    BY <2>1, <1>2
  <2> QED BY <2>1, <2>2 DEF FirstIn, nx, st
<1>11. r.m = m2 /\ r = HeapOf(r.m, k, d)
  BY <1>9, <1>10 DEF HeapOf
<1>12. \A a \in Addr : m2[a] = IF a = nx THEN pv ELSE IF j # 1 /\ a = pv + 4 THEN nx ELSE m[a]
  OBVIOUS
<1>13. Mem(m2)
  BY <1>7, <1>8 DEF Mem
<1> HIDE DEF m2
<1>14. LinksOnly(m, m2, N)
  <2> SUFFICES ASSUME NEW a \in Addr, \A c \in N : a # c /\ a # c + 4
               PROVE  m2[a] = m[a]
    BY DEF LinksOnly
  <2>1. nx \in N /\ (j # 1 => pv \in N)
    BY <1>4
  <2> QED BY <2>1, <1>12
<1>15. ASSUME NEW c \in F \cup {h0}
       PROVE  /\ c \in Addr /\ c + 4 \in Addr /\ c + 4 # nx
              /\ j # 1 => c # pv + 4 /\ (c # pv => c + 4 # pv + 4)
  <2>1. Cell(c)
    OBVIOUS
  <2>2. c + 4 # nx
    BY <2>1, <1>6, CellFacts
  <2>3. j # 1 => c # pv + 4 /\ (c # pv => c + 4 # pv + 4)
    BY <2>1, <1>6, CellFacts
  <2> QED BY <2>1, <2>2, <2>3 DEF Cell
<1>16. ASSUME NEW i \in 1 .. d.len + 1 PROVE m2[d.at[i]] = d.at[i - 1]
  <2>1. /\ i \in 1 .. l.len /\ i \in 0 .. l.len /\ i - 1 \in 0 .. l.len /\ i + 1 \in 1 .. l.len + 1
        /\ i \in 1 .. l.len + 1 /\ i \in 0 .. l.len + 1 /\ i + 1 \in 0 .. l.len + 1
        /\ (i + 1) - 1 = i /\ (i - 1) + 1 = i
    BY <1>1, <1>2
  <2>2. CASE i < j
    <3>1. d.at[i] = l.at[i] /\ d.at[i - 1] = l.at[i - 1] /\ i # j + 1
      BY <2>1, <2>2, <1>2
    <3>2. l.at[i] \in F \cup {h0} /\ l.at[i] # nx
      BY <3>1, <2>1, <1>1, <1>3 DEF nx
    <3>3. m2[l.at[i]] = m[l.at[i]]
      BY <3>2, <1>12, <1>15
    <3>4. m[l.at[i]] = l.at[i - 1]
      BY <2>1 DEF Linked
    <3> QED BY <3>1, <3>3, <3>4
  <2>3. CASE i = j
    <3>1. d.at[i] = nx /\ d.at[i - 1] = pv
      <4>1. ~(i < j) /\ i - 1 < j
        BY <2>3, <1>2
      <4> QED BY <4>1, <2>1, <2>3, <1>2 DEF nx, pv
    <3> QED BY <3>1, <1>7, <1>12
  <2>4. CASE i > j
    <3>1. d.at[i] = l.at[i + 1] /\ d.at[i - 1] = l.at[i] /\ i + 1 # j + 1
      <4>1. ~(i < j) /\ ~(i - 1 < j) /\ i + 1 # j + 1
        BY <2>1, <2>4, <1>2
      <4> QED BY <4>1, <2>1, <1>2
    <3>2. l.at[i + 1] \in F \cup {h0} /\ l.at[i + 1] # nx
      BY <3>1, <2>1, <1>1, <1>3 DEF nx
    <3>3. m2[l.at[i + 1]] = m[l.at[i + 1]]
      BY <3>2, <1>12, <1>15
    <3>4. m[l.at[i + 1]] = l.at[(i + 1) - 1]
      BY <2>1 DEF Linked
    <3> QED BY <3>1, <3>3, <3>4, <2>1
  <2> QED BY <2>1, <2>2, <2>3, <2>4, <1>2
<1>17. ASSUME NEW i \in 1 .. d.len PROVE m2[d.at[i] + 4] = d.at[i + 1]
  <2>1. /\ i \in 1 .. l.len /\ i \in 0 .. l.len /\ i + 1 \in 0 .. l.len /\ i + 1 \in 1 .. l.len
        /\ i \in 1 .. l.len + 1 /\ i \in 0 .. l.len + 1 /\ i + 1 \in 0 .. l.len + 1
        /\ i + 1 \in 1 .. l.len + 1
    BY <1>1, <1>2
  <2>2. CASE i < j /\ i # j - 1
    <3>1. d.at[i] = l.at[i] /\ d.at[i + 1] = l.at[i + 1]
      <4>1. i + 1 < j
        BY <2>1, <2>2, <1>2
      <4> QED BY <4>1, <2>1, <2>2, <1>2
    <3>2. l.at[i] \in F \cup {h0} /\ l.at[i] # pv
      BY <2>1, <2>2, <1>1, <1>3 DEF pv
    <3>3. m2[l.at[i] + 4] = m[l.at[i] + 4]
      BY <3>2, <1>12, <1>15
    <3>4. m[l.at[i] + 4] = l.at[i + 1]
      BY <2>1 DEF Linked
    <3> QED BY <3>1, <3>3, <3>4
  <2>3. CASE i = j - 1
    <3>1. d.at[i] = pv /\ d.at[i + 1] = nx /\ j # 1
      <4>1. i < j /\ ~(i + 1 < j) /\ i + 1 = j
        BY <2>1, <2>3, <1>2
      <4> QED BY <4>1, <2>1, <2>3, <1>2 DEF nx, pv
    <3>2. pv + 4 # nx /\ pv + 4 \in Addr
      BY <3>1, <1>7
    <3> QED BY <3>1, <3>2, <1>12
  <2>4. CASE ~(i < j)
    <3>1. d.at[i] = l.at[i + 1] /\ d.at[i + 1] = l.at[(i + 1) + 1] /\ i + 1 # j - 1
      <4>1. ~(i + 1 < j) /\ i + 1 # j - 1
        BY <2>1, <2>4, <1>2
      <4> QED BY <4>1, <2>1, <2>4, <1>2
    <3>2. l.at[i + 1] \in F \cup {h0} /\ l.at[i + 1] # pv
      BY <3>1, <2>1, <1>1, <1>3 DEF pv
    <3>3. m2[l.at[i + 1] + 4] = m[l.at[i + 1] + 4]
      BY <3>2, <1>12, <1>15
    <3>4. m[l.at[i + 1] + 4] = l.at[(i + 1) + 1]
      BY <2>1 DEF Linked
    <3> QED BY <3>1, <3>3, <3>4
  <2> QED BY <2>2, <2>3, <2>4
<1> QED BY <1>11, <1>13, <1>14, <1>16, <1>17 DEF Linked, d

-----------------------------------------------------------------------------
(* Links and tags *)

(* Each block has room for its tags and two links. *)
Roomy(T) == \A b \in Blocks(T) : Size(T, b) >= 16

(* Links have a place in each block, and the ends of a list are not free.  *)
LEMMA CellBlocks ==
  ASSUME NEW T, NEW k, Shape(T, k), Roomy(T)
  PROVE  /\ \A b \in Blocks(T) : Cell(b) /\ b \in Nat /\ EndOf(T, b) \in Nat
                                 /\ b + 16 <= EndOf(T, b)
         /\ h0 \in Blocks(T) /\ h0 \notin Frees(T)
         /\ NULL \notin Blocks(T) /\ NULL \notin Frees(T) /\ h0 # NULL
<1>1. ASSUME NEW b \in Blocks(T)
      PROVE  Cell(b) /\ b \in Nat /\ EndOf(T, b) \in Nat /\ b + 16 <= EndOf(T, b) /\ b # NULL
  <2>1. /\ b \in Nat /\ b % 8 = 0 /\ h0 <= b /\ b < k /\ EndOf(T, b) \in Nat
        /\ Size(T, b) \in Nat /\ EndOf(T, b) = b + Size(T, b)
        /\ k \in Nat /\ k <= mem_max_addr
    BY ShapeFacts
  <2>2. mem_start_brk <= b /\ b < mem_max_addr /\ b > 0
    BY <2>1, RegionFacts
  <2>3. b \in Addr /\ b + 4 \in Addr
    BY <2>1, <2>2, AddrFacts
  <2>4. b + 16 <= EndOf(T, b)
    BY <2>1 DEF Roomy
  <2> QED BY <2>1, <2>2, <2>3, <2>4 DEF Cell, NULL
<1>2. h0 \in Blocks(T) /\ ~IsFree(T, h0)
  BY ShapeFacts
<1> QED BY <1>1, <1>2 DEF Frees

(* Links written in blocks disturb neither the tags nor other payloads.    *)
LEMMA LinkFrame ==
  ASSUME NEW m, NEW T, NEW k, Shape(T, k), Roomy(T), Tagged(m, T, k),
         NEW N, N \subseteq Blocks(T), NEW m2, Mem(m2), LinksOnly(m, m2, N)
  PROVE  Tagged(m2, T, k) /\ SameData(m, m2, T, Blocks(T) \ N)
<1>1. /\ k \in Nat /\ k - 4 \in Addr /\ k % 8 = 0
      /\ \A b \in Blocks(T) : /\ b \in Nat /\ EndOf(T, b) \in Nat /\ b % 8 = 0
                              /\ b + 16 <= EndOf(T, b) /\ EndOf(T, b) % 8 = 0
                              /\ EndOf(T, b) <= k /\ b - 4 \in Addr /\ EndOf(T, b) - 8 \in Addr
  <2>1. \A b \in Blocks(T) : b + 16 <= EndOf(T, b)
    BY CellBlocks
  <2> QED BY <2>1, ShapeFacts
<1>2. \A b, c \in Blocks(T) : b # c => EndOf(T, b) <= c \/ EndOf(T, c) <= b
  BY Sides
<1>3. ASSUME NEW b \in Blocks(T)
      PROVE  m2[b - 4] = m[b - 4] /\ m2[EndOf(T, b) - 8] = m[EndOf(T, b) - 8]
  <2>1. ASSUME NEW c \in N
        PROVE  /\ b - 4 # c /\ b - 4 # c + 4
               /\ EndOf(T, b) - 8 # c /\ EndOf(T, b) - 8 # c + 4
    <3> DEFINE e == EndOf(T, b)
    <3>1. /\ c \in Nat /\ b \in Nat /\ e \in Nat /\ c % 8 = 0 /\ b % 8 = 0 /\ e % 8 = 0
          /\ b + 16 <= e /\ c + 16 <= EndOf(T, c) /\ EndOf(T, c) \in Nat
      BY <1>1
    <3>2. b = c \/ e <= c \/ EndOf(T, c) <= b
      BY <1>2
    <3> HIDE DEF e
    <3>3. b - 4 # c /\ e - 8 # c + 4
      BY <3>1
    <3>4. b - 4 # c + 4 /\ e - 8 # c
      <4>1. CASE b = c
        BY <4>1, <3>1
      <4>2. CASE e <= c
        BY <4>2, <3>1
      <4>3. CASE EndOf(T, c) <= b
        BY <4>3, <3>1
      <4> QED BY <4>1, <4>2, <4>3, <3>2
    <3> QED BY <3>3, <3>4 DEF e
  <2> QED BY <2>1, <1>1 DEF LinksOnly
<1>4. m2[k - 4] = m[k - 4]
  <2>1. ASSUME NEW c \in N PROVE k - 4 # c /\ k - 4 # c + 4
    <3>1. c \in Nat /\ c % 8 = 0 /\ c + 16 <= EndOf(T, c) /\ EndOf(T, c) <= k
          /\ EndOf(T, c) \in Nat
      BY <1>1
    <3> QED BY <3>1, <1>1
  <2> QED BY <2>1, <1>1 DEF LinksOnly
<1>5. ASSUME NEW b \in Blocks(T) \ N, NEW a \in Payload(T, b) PROVE m2[a] = m[a]
  <2>1. a \in Addr /\ a \in Nat /\ b <= a /\ a < EndOf(T, b) - 8
    BY RegionFacts DEF Payload
  <2>2. ASSUME NEW c \in N PROVE a # c /\ a # c + 4
    <3>1. c # b /\ c \in Blocks(T)
      OBVIOUS
    <3>2. EndOf(T, b) <= c \/ EndOf(T, c) <= b
      BY <3>1, <1>2
    <3>3. c + 16 <= EndOf(T, c) /\ c \in Nat /\ EndOf(T, c) \in Nat
          /\ b \in Nat /\ EndOf(T, b) \in Nat
      BY <3>1, <1>1
    <3> QED BY <3>2, <3>3, <2>1
  <2> QED BY <2>1, <2>2 DEF LinksOnly
<1> QED BY <1>3, <1>4, <1>5, TagFrame DEF SameData

(* The links of the blocks A are as before. *)
SameLinks(m, m2, A) == \A c \in A : m2[c] = m[c] /\ m2[c + 4] = m[c + 4]

(* A list whose links are as before is still there. *)
LEMMA LinkKeep ==
  ASSUME NEW l, NEW F, ListOf(l, F), NEW m, Linked(m, l), NEW m2, SameLinks(m, m2, F \cup {h0})
  PROVE  Linked(m2, l)
<1>1. l.len \in Nat /\ l.at[l.len + 1] = h0 /\ \A i \in 1 .. l.len : l.at[i] \in F
  BY DEF ListOf
<1>2. \A i \in 1 .. l.len + 1 : i \in 1 .. l.len \/ i = l.len + 1
  BY <1>1
<1>3. \A i \in 1 .. l.len + 1 : l.at[i] \in F \cup {h0}
  BY <1>1, <1>2
<1>4. \A i \in 1 .. l.len : i \in 1 .. l.len + 1
  BY <1>1
<1> QED BY <1>3, <1>4 DEF Linked, SameLinks

(* The links of blocks outside what is written. *)
LEMMA OutsideLinks ==
  ASSUME NEW T, NEW k, Shape(T, k), Roomy(T), NEW x \in Int, NEW e \in Int,
         NEW m, NEW m2, SameOutside(m, m2, x, e), NEW A, A \subseteq Blocks(T),
         \A b \in A : EndOf(T, b) <= x \/ b >= e
  PROVE  SameLinks(m, m2, A)
<1> SUFFICES ASSUME NEW b \in A PROVE m2[b] = m[b] /\ m2[b + 4] = m[b + 4]
  BY DEF SameLinks
<1>1. b \in Nat /\ EndOf(T, b) \in Nat /\ b + 16 <= EndOf(T, b) /\ b \in Addr /\ b + 4 \in Addr
  BY CellBlocks DEF Cell
<1>2. /\ b < x - 4 \/ b >= e - 4
      /\ b + 4 < x - 4 \/ b + 4 >= e - 4
  BY <1>1
<1> QED BY <1>1, <1>2 DEF SameOutside

-----------------------------------------------------------------------------
(* What the allocator's functions make of the list *)

(* The list as coalesce changes it: the free neighbours of bp go, and the  *)
(* block they make with it comes first.                                    *)
WithoutNext(T, l, bp) == IF NextIsFree(T, bp) THEN Drop(l, EndOf(T, bp)) ELSE l

Without(T, l, bp) ==
    IF Start(T, bp) # bp THEN Drop(WithoutNext(T, l, bp), Start(T, bp))
    ELSE WithoutNext(T, l, bp)

MergedList(T, l, bp) == Push(Without(T, l, bp), Start(T, bp))

LEMMA WithoutList ==
  ASSUME NEW T, NEW k, Shape(T, k), NEW bp \in Blocks(T) \ {h0}, IsFree(T, bp),
         NEW l, ListOf(l, Frees(T) \ {bp}),
         NEW F, F = (IF NextIsFree(T, bp) THEN (Frees(T) \ {bp}) \ {EndOf(T, bp)}
                     ELSE Frees(T) \ {bp})
  PROVE  ListOf(WithoutNext(T, l, bp), F) /\ ListOf(Without(T, l, bp), Rest(T, bp))
<1> DEFINE l1 == WithoutNext(T, l, bp)
           x == Start(T, bp)
<1>1. /\ Rest(T, bp) = F \ {x} /\ (x # bp => x \in F)
      /\ NextIsFree(T, bp) => EndOf(T, bp) \in Frees(T) \ {bp}
  BY RestFacts
<1>2. ListOf(l1, F)
  <2>1. CASE NextIsFree(T, bp)
    BY <2>1, <1>1, DropList DEF WithoutNext
  <2>2. CASE ~NextIsFree(T, bp)
    BY <2>2 DEF WithoutNext
  <2> QED BY <2>1, <2>2
<1>3. Without(T, l, bp) = IF x # bp THEN Drop(l1, x) ELSE l1
  BY DEF Without
<1> HIDE DEF l1, x
<1>4. ListOf(Without(T, l, bp), Rest(T, bp))
  <2>1. CASE x # bp
    <3>1. ListOf(Drop(l1, x), F \ {x})
      BY <2>1, <1>1, <1>2, DropList
    <3> QED BY <3>1, <2>1, <1>1, <1>3
  <2>2. CASE x = bp
    <3>1. F \ {x} = F
      BY <2>2
    <3> QED BY <3>1, <2>2, <1>1, <1>2, <1>3
  <2> QED BY <2>1, <2>2
<1> QED BY <1>2, <1>4 DEF l1

LEMMA MergedFacts ==
  ASSUME NEW T, NEW k, Shape(T, k), Roomy(T), NEW bp \in Blocks(T) \ {h0}, IsFree(T, bp),
         NEW l, ListOf(l, Frees(T) \ {bp})
  PROVE  /\ ListOf(MergedList(T, l, bp), Frees(Merged(T, bp)))
         /\ Roomy(Merged(T, bp))
<1> DEFINE x == Start(T, bp)
           e == Stop(T, bp)
           T2 == Merged(T, bp)
<1>1. ListOf(Without(T, l, bp), Rest(T, bp))
  BY WithoutList
<1>2. x \notin Rest(T, bp) /\ Frees(T2) = Rest(T, bp) \cup {x}
  BY RestFacts
<1>3. ListOf(MergedList(T, l, bp), Frees(T2))
  BY <1>1, <1>2, PushList DEF MergedList
<1>4. /\ x \in Blocks(T) \ {h0} /\ e \in Blocks(T) \cup {k} /\ x <= bp /\ EndOf(T, bp) <= e
      /\ x < e
  BY StartStop
<1>5. /\ \A b \in Blocks(T) : b \in Nat /\ EndOf(T, b) \in Nat /\ b + 16 <= EndOf(T, b)
      /\ k \in Nat
  BY CellBlocks, ShapeFacts
<1> HIDE DEF x, e
<1>6. T2 = Join(T, x, e, 0)
  BY DEF Merged, x, e
<1> HIDE DEF T2
<1>7. /\ Size(T2, x) = e - x
      /\ \A b \in Blocks(T2) : b \in Blocks(T) /\ (b # x => Size(T2, b) = Size(T, b))
  BY <1>4, <1>6, JoinShape
<1>8. e - x >= 16
  <2>1. e \in Nat /\ x \in Nat /\ bp \in Nat /\ EndOf(T, bp) \in Nat /\ bp + 16 <= EndOf(T, bp)
    BY <1>4, <1>5
  <2> QED BY <2>1, <1>4
<1>9. Roomy(T2)
  BY <1>7, <1>8 DEF Roomy
<1> QED BY <1>3, <1>9 DEF T2

(* mm_free. *)
FreedList(T, l, bp) == MergedList(Join(T, bp, EndOf(T, bp), 0), l, bp)

(* A block about to be merged is free and not yet listed. *)
LEMMA RetagFacts ==
  ASSUME NEW T, NEW k, Shape(T, k), Roomy(T), NEW bp \in Blocks(T) \ {h0}, ~IsFree(T, bp),
         NEW U, U = Join(T, bp, EndOf(T, bp), 0)
  PROVE  /\ Shape(U, k) /\ Roomy(U) /\ Blocks(U) = Blocks(T) /\ IsFree(U, bp)
         /\ Frees(U) \ {bp} = Frees(T)
<1>1. /\ Shape(U, k) /\ Blocks(U) = Blocks(T) /\ IsFree(U, bp)
      /\ \A b \in Blocks(T) : Size(U, b) = Size(T, b)
      /\ \A b \in Blocks(T) : b # bp => (IsFree(U, b) <=> IsFree(T, b))
  BY RetagShape
<1> QED BY <1>1 DEF Roomy, Frees

LEMMA FreedFacts ==
  ASSUME NEW T, NEW k, Shape(T, k), Roomy(T), NEW bp \in Blocks(T) \ {h0}, ~IsFree(T, bp),
         NEW l, ListOf(l, Frees(T))
  PROVE  /\ ListOf(FreedList(T, l, bp), Frees(Freed(T, bp)))
         /\ Roomy(Freed(T, bp))
<1> DEFINE U == Join(T, bp, EndOf(T, bp), 0)
<1>1. /\ Shape(U, k) /\ Roomy(U) /\ Blocks(U) = Blocks(T) /\ IsFree(U, bp)
      /\ Frees(U) \ {bp} = Frees(T)
  BY RetagFacts
<1>2. Freed(T, bp) = Merged(U, bp) /\ FreedList(T, l, bp) = MergedList(U, l, bp)
  BY DEF Freed, FreedList
<1> HIDE DEF U
<1> QED BY <1>1, <1>2, MergedFacts

(* extend_heap. *)
GrownList(T, l, k, e) == MergedList(Grow(T, k, e), l, k)

LEMMA GrowFacts ==
  ASSUME NEW T, NEW k, Shape(T, k), Roomy(T), NEW e \in Nat, e % 8 = 0, k + 16 <= e,
         e <= mem_max_addr, NEW U, U = Grow(T, k, e)
  PROVE  /\ Shape(U, e) /\ Roomy(U) /\ k \in Blocks(U) \ {h0} /\ IsFree(U, k)
         /\ k \notin Blocks(T) /\ Blocks(U) = Blocks(T) \cup {k}
         /\ Frees(U) \ {k} = Frees(T)
         /\ \A b \in Blocks(T) : EndOf(U, b) = EndOf(T, b) /\ (IsFree(U, b) <=> IsFree(T, b))
<1>1. k \in Nat /\ h0 \in Blocks(T)
  BY ShapeFacts
<1>2. /\ Shape(U, e) /\ k \notin Blocks(T) /\ Blocks(U) = Blocks(T) \cup {k}
      /\ Size(U, k) = e - k /\ IsFree(U, k)
      /\ \A b \in Blocks(T) : /\ Size(U, b) = Size(T, b) /\ EndOf(U, b) = EndOf(T, b)
                              /\ (IsFree(U, b) <=> IsFree(T, b))
  BY <1>1, GrowShape
<1>3. e - k >= 16
  BY <1>1
<1>4. Roomy(U)
  BY <1>2, <1>3 DEF Roomy
<1>5. Frees(U) \ {k} = Frees(T)
  BY <1>2 DEF Frees
<1> QED BY <1>1, <1>2, <1>4, <1>5

LEMMA GrownFacts ==
  ASSUME NEW T, NEW k, Shape(T, k), Roomy(T), NEW e \in Nat, e % 8 = 0, k + 16 <= e,
         e <= mem_max_addr, NEW l, ListOf(l, Frees(T))
  PROVE  /\ ListOf(GrownList(T, l, k, e), Frees(Merged(Grow(T, k, e), k)))
         /\ Roomy(Merged(Grow(T, k, e), k))
<1> DEFINE U == Grow(T, k, e)
<1>1. /\ Shape(U, e) /\ Roomy(U) /\ k \in Blocks(U) \ {h0} /\ IsFree(U, k)
      /\ Frees(U) \ {k} = Frees(T)
  BY GrowFacts
<1>2. GrownList(T, l, k, e) = MergedList(U, l, k)
  BY DEF GrownList
<1> HIDE DEF U
<1>3. ListOf(MergedList(U, l, k), Frees(Merged(U, k))) /\ Roomy(Merged(U, k))
  BY <1>1, MergedFacts
<1> QED BY <1>2, <1>3 DEF U

(* place, once its caller has taken bp out. *)
PlacedList(T, l, bp, asize) ==
    IF Size(T, bp) - asize >= 2 * DSIZE THEN Drop(Push(l, bp + asize), bp) ELSE Drop(l, bp)

LEMMA PlacedFacts ==
  ASSUME NEW T, NEW k, Shape(T, k), Roomy(T), NEW bp \in Frees(T),
         NEW asize \in Nat, asize % 8 = 0, asize >= 16, asize <= Size(T, bp),
         NEW l, ListOf(l, Frees(T)), NEW P, P = Placed(T, bp, asize)
  PROVE  ListOf(PlacedList(T, l, bp, asize), Frees(P)) /\ Roomy(P)
<1> DEFINE y == bp + asize
<1>1. /\ bp \in Blocks(T) \ {h0} /\ IsFree(T, bp) /\ bp \in Nat /\ bp % 8 = 0
      /\ Size(T, bp) \in Nat /\ EndOf(T, bp) = bp + Size(T, bp)
  BY ShapeFacts DEF Frees
<1>2. CASE Size(T, bp) - asize >= 2 * DSIZE
  <2>1. P = Cut(T, bp, y) /\ Size(T, bp) - asize >= 16
        /\ PlacedList(T, l, bp, asize) = Drop(Push(l, y), bp)
    BY <1>2 DEF Placed, PlacedList, DSIZE
  <2>2. y \in Nat /\ y % 8 = 0 /\ bp + 8 <= y /\ y + 8 <= EndOf(T, bp) /\ y - bp = asize
        /\ EndOf(T, bp) - y >= 16
    <3>1. y % 8 = 0
      BY <1>1, AlignedSum
    <3> QED BY <3>1, <2>1, <1>1
  <2> HIDE DEF y
  <2>3. /\ y \notin Blocks(T) /\ Blocks(P) = Blocks(T) \cup {y}
        /\ Size(P, bp) = y - bp /\ ~IsFree(P, bp) /\ Size(P, y) = EndOf(T, bp) - y
        /\ IsFree(P, y)
        /\ \A b \in Blocks(T) : b # bp => /\ Size(P, b) = Size(T, b)
                                        /\ (IsFree(P, b) <=> IsFree(T, b))
    BY <2>1, <2>2, <1>1, CutShape
  <2>4. Roomy(P)
    BY <2>2, <2>3 DEF Roomy
  <2>5. Frees(P) = (Frees(T) \cup {y}) \ {bp} /\ y \notin Frees(T)
    BY <2>3, <1>1 DEF Frees
  <2>6. ListOf(Push(l, y), Frees(T) \cup {y})
    BY <2>5, PushList
  <2>7. ListOf(Drop(Push(l, y), bp), (Frees(T) \cup {y}) \ {bp})
    BY <2>6, DropList
  <2> QED BY <2>1, <2>4, <2>5, <2>7
<1>3. CASE ~(Size(T, bp) - asize >= 2 * DSIZE)
  <2>1. P = Join(T, bp, EndOf(T, bp), 1) /\ PlacedList(T, l, bp, asize) = Drop(l, bp)
    BY <1>3 DEF Placed, PlacedList
  <2>2. /\ Blocks(P) = Blocks(T) /\ ~IsFree(P, bp)
        /\ \A b \in Blocks(T) : Size(P, b) = Size(T, b)
        /\ \A b \in Blocks(T) : b # bp => (IsFree(P, b) <=> IsFree(T, b))
    BY <2>1, <1>1, RetagShape
  <2>3. Roomy(P) /\ Frees(P) = Frees(T) \ {bp}
    BY <2>2 DEF Roomy, Frees
  <2> QED BY <2>1, <2>3, DropList
<1> QED BY <1>2, <1>3

-----------------------------------------------------------------------------
(* What the allocator's functions do to the memory *)

(* Reading and changing a heap. *)
LEMMA HeapFacts ==
  ASSUME NEW m, NEW k, NEW l
  PROVE  /\ HeapOf(m, k, l).m = m /\ HeapOf(m, k, l).brk = k /\ HeapOf(m, k, l).st = FirstIn(l)
         /\ \A v : [HeapOf(m, k, l) EXCEPT !.m = v] = HeapOf(v, k, l)
<1>1. /\ HeapOf(m, k, l).m = m /\ HeapOf(m, k, l).brk = k
      /\ HeapOf(m, k, l).st = FirstIn(l)
  BY DEF HeapOf
<1>2. ASSUME NEW v PROVE [HeapOf(m, k, l) EXCEPT !.m = v] = HeapOf(v, k, l)
  BY DEF HeapOf
<1> QED BY <1>1, <1>2

(* Blocks that may be listed. *)
Inner(T, F) == F \subseteq Blocks(T) \ {h0}

(* The blocks that no list of such blocks involves. *)
Others(T, F) == Blocks(T) \ (F \cup {h0})

(* add_block in a heap. *)
LEMMA Link ==
  ASSUME NEW m, NEW T, NEW k, Shape(T, k), Roomy(T), Tagged(m, T, k),
         NEW F, Inner(T, F), NEW l, ListOf(l, F), Linked(m, l),
         NEW bp \in Blocks(T) \ {h0}, bp \notin F,
         NEW r, r = add_block(HeapOf(m, k, l), bp)
  PROVE  /\ r = HeapOf(r.m, k, Push(l, bp)) /\ Tagged(r.m, T, k) /\ Linked(r.m, Push(l, bp))
         /\ SameData(m, r.m, T, Others(T, F \cup {bp}))
<1> DEFINE N == F \cup {bp, h0}
<1>1. /\ N \subseteq Blocks(T) /\ \A c \in N : Cell(c)
      /\ h0 \notin F /\ NULL \notin F /\ bp # h0
  BY CellBlocks DEF Inner
<1>2. Mem(m)
  BY DEF Tagged
<1>3. F \subseteq N /\ bp \in N /\ h0 \in N
  OBVIOUS
<1> HIDE DEF N
<1>4. /\ r = HeapOf(r.m, k, Push(l, bp))
      /\ Mem(r.m) /\ Linked(r.m, Push(l, bp)) /\ LinksOnly(m, r.m, N)
  BY <1>1, <1>2, <1>3, AddLinks
<1>5. Tagged(r.m, T, k) /\ SameData(m, r.m, T, Blocks(T) \ N)
  BY <1>1, <1>4, LinkFrame
<1>6. Others(T, F \cup {bp}) = Blocks(T) \ N
  BY DEF Others, N
<1> QED BY <1>4, <1>5, <1>6

(* remove_block in a heap. *)
LEMMA Unlink ==
  ASSUME NEW m, NEW T, NEW k, Shape(T, k), Roomy(T), Tagged(m, T, k),
         NEW F, Inner(T, F), NEW l, ListOf(l, F), Linked(m, l),
         NEW bp, bp \in F, NEW r, r = remove_block(HeapOf(m, k, l), bp)
  PROVE  /\ r = HeapOf(r.m, k, Drop(l, bp)) /\ Tagged(r.m, T, k) /\ Linked(r.m, Drop(l, bp))
         /\ SameData(m, r.m, T, Others(T, F))
<1> DEFINE N == F \cup {h0}
<1>1. /\ N \subseteq Blocks(T) /\ \A c \in N : Cell(c)
      /\ h0 \notin F /\ NULL \notin F /\ bp # h0
  BY CellBlocks DEF Inner
<1>2. Mem(m)
  BY DEF Tagged
<1>3. F \subseteq N /\ h0 \in N
  OBVIOUS
<1> HIDE DEF N
<1>4. /\ r = HeapOf(r.m, k, Drop(l, bp))
      /\ Mem(r.m) /\ Linked(r.m, Drop(l, bp)) /\ LinksOnly(m, r.m, N)
  BY <1>1, <1>2, <1>3, RemoveLinks
<1>5. Tagged(r.m, T, k) /\ SameData(m, r.m, T, Blocks(T) \ N)
  BY <1>1, <1>4, LinkFrame
<1>6. Others(T, F) = Blocks(T) \ N
  BY DEF Others, N
<1> QED BY <1>4, <1>5, <1>6

(* The free neighbours leave the list: first the next one. *)
LEMMA NextLeaves ==
  ASSUME NEW m, NEW T, NEW k, Shape(T, k), Roomy(T), Tagged(m, T, k),
         NEW bp \in Blocks(T) \ {h0}, IsFree(T, bp),
         NEW l, ListOf(l, Frees(T) \ {bp}), Linked(m, l), NEW h,
         h = (IF NextIsFree(T, bp) THEN remove_block(HeapOf(m, k, l), EndOf(T, bp))
              ELSE HeapOf(m, k, l))
  PROVE  /\ h = HeapOf(h.m, k, WithoutNext(T, l, bp)) /\ Tagged(h.m, T, k)
         /\ Linked(h.m, WithoutNext(T, l, bp)) /\ SameData(m, h.m, T, Owned(T))
<1> DEFINE F == Frees(T) \ {bp}
           A == Others(T, F)
<1>1. NextIsFree(T, bp) => EndOf(T, bp) \in F
  BY RestFacts
<1>2. Inner(T, F) /\ Owned(T) \subseteq A
  BY CellBlocks DEF Inner, Others, Frees, Owned, Allocs
<1>3. SameData(m, m, T, Owned(T))
  BY DEF SameData
<1>4. CASE NextIsFree(T, bp)
  <2> DEFINE nx == EndOf(T, bp)
  <2>1. WithoutNext(T, l, bp) = Drop(l, nx) /\ nx \in F
        /\ h = remove_block(HeapOf(m, k, l), nx) /\ ListOf(l, F)
    BY <1>1, <1>4 DEF WithoutNext
  <2> HIDE DEF F, nx
  <2>2. /\ h = HeapOf(h.m, k, Drop(l, nx)) /\ Tagged(h.m, T, k) /\ Linked(h.m, Drop(l, nx))
        /\ SameData(m, h.m, T, A)
    BY <2>1, <1>2, Unlink
  <2> QED BY <2>1, <2>2, <1>2, DataSome
<1>5. CASE ~NextIsFree(T, bp)
  BY <1>3, <1>5, HeapFacts DEF WithoutNext
<1> QED BY <1>4, <1>5

(* Then the one before. *)
LEMMA BothLeave ==
  ASSUME NEW m, NEW T, NEW k, Shape(T, k), Roomy(T), Tagged(m, T, k),
         NEW bp \in Blocks(T) \ {h0}, IsFree(T, bp),
         NEW l, ListOf(l, Frees(T) \ {bp}), Linked(m, l), NEW h,
         h = (IF NextIsFree(T, bp) THEN remove_block(HeapOf(m, k, l), EndOf(T, bp))
              ELSE HeapOf(m, k, l)),
         NEW g, g = (IF Start(T, bp) # bp THEN remove_block(h, Start(T, bp)) ELSE h)
  PROVE  /\ g = HeapOf(g.m, k, Without(T, l, bp)) /\ Tagged(g.m, T, k)
         /\ Linked(g.m, Without(T, l, bp)) /\ SameData(m, g.m, T, Owned(T))
<1> DEFINE F == IF NextIsFree(T, bp) THEN (Frees(T) \ {bp}) \ {EndOf(T, bp)}
                ELSE Frees(T) \ {bp}
           A == Others(T, F)
           l1 == WithoutNext(T, l, bp)
           x == Start(T, bp)
<1>1. /\ h = HeapOf(h.m, k, l1) /\ Tagged(h.m, T, k)
      /\ Linked(h.m, l1) /\ SameData(m, h.m, T, Owned(T))
  BY NextLeaves
<1>2. ListOf(l1, F) /\ (x # bp => x \in F)
  BY WithoutList, RestFacts
<1>3. Inner(T, F) /\ Owned(T) \subseteq A
  BY CellBlocks DEF Inner, Others, Frees, Owned, Allocs
<1>4. Without(T, l, bp) = IF x # bp THEN Drop(l1, x) ELSE l1
  BY DEF Without
<1>5. g = IF x # bp THEN remove_block(h, x) ELSE h
  OBVIOUS
<1> HIDE DEF F, l1, x
<1>6. CASE x # bp
  <2>1. g = remove_block(HeapOf(h.m, k, l1), x) /\ x \in F
    BY <1>1, <1>2, <1>5, <1>6
  <2> DEFINE m1 == h.m
  <2>2. /\ g = remove_block(HeapOf(m1, k, l1), x) /\ Tagged(m1, T, k) /\ Linked(m1, l1)
        /\ Inner(T, F) /\ ListOf(l1, F)
    BY <2>1, <1>1, <1>2, <1>3
  <2> HIDE DEF m1
  <2>3. /\ g = HeapOf(g.m, k, Drop(l1, x)) /\ Tagged(g.m, T, k) /\ Linked(g.m, Drop(l1, x))
        /\ SameData(m1, g.m, T, A)
    BY <2>1, <2>2, Unlink
  <2>4. SameData(m, g.m, T, Owned(T))
    BY <2>3, <1>1, <1>3, DataSome, DataTrans DEF m1
  <2> QED BY <2>3, <2>4, <1>4, <1>6
<1>7. CASE x = bp
  BY <1>1, <1>4, <1>5, <1>7
<1> QED BY <1>6, <1>7

(* coalesce writes the tags of the merged block, once its parts have left  *)
(* the list.                                                               *)
LEMMA CoalesceTags ==
  ASSUME NEW m, NEW T, NEW k, Shape(T, k), Roomy(T), Tagged(m, T, k),
         NEW bp \in Blocks(T) \ {h0}, IsFree(T, bp), NEW l,
         NEW h, h = (IF NextIsFree(T, bp) THEN remove_block(HeapOf(m, k, l), EndOf(T, bp))
                     ELSE HeapOf(m, k, l)),
         NEW g, g = (IF Start(T, bp) # bp THEN remove_block(h, Start(T, bp)) ELSE h),
         NEW m1, NEW l2, g = HeapOf(m1, k, l2), Tagged(m1, T, k),
         NEW c, c = coalesce(HeapOf(m, k, l), bp),
         NEW x, x = Start(T, bp), NEW e, e = Stop(T, bp)
  PROVE  \E m2 : /\ c = [p |-> x, h |-> add_block(HeapOf(m2, k, l2), x)]
                 /\ Mem(m2) /\ m2[x - 4] = PACK(e - x, 0) /\ m2[e - 8] = PACK(e - x, 0)
                 /\ SameOutside(m1, m2, x, e)
<1> DEFINE nx == EndOf(T, bp)
           H == HeapOf(m, k, l)
<1>1. PICK pv \in Blocks(T) : EndOf(T, pv) = bp
  BY ShapeFacts
<1>2. /\ PREV_BLKP(m, bp) = pv
      /\ GET_ALLOC(m, FTRP(m, pv)) = (IF IsFree(T, pv) THEN 0 ELSE 1)
      /\ GET_SIZE(m, HDRP(pv)) = Size(T, pv)
      /\ GET_SIZE(m, HDRP(bp)) = Size(T, bp)
      /\ NEXT_BLKP(m, bp) = nx
  BY <1>1, ReadBlock
<1>3. GET_ALLOC(m, HDRP(nx)) = IF NextIsFree(T, bp) THEN 0 ELSE 1
  <2>1. nx \in Blocks(T) \cup {k}
    BY ShapeFacts
  <2>2. CASE nx \in Blocks(T)
    BY <2>2, ReadBlock DEF NextIsFree
  <2>3. CASE nx \notin Blocks(T)
    BY <2>1, <2>3, ReadEpilogue DEF NextIsFree
  <2> QED BY <2>2, <2>3
<1>4. NextIsFree(T, bp) => /\ nx \in Blocks(T) /\ e = EndOf(T, nx)
                           /\ GET_SIZE(m, HDRP(nx)) = Size(T, nx)
                           /\ GET_SIZE(m, FTRP(m, nx)) = Size(T, nx)
                           /\ FTRP(m1, nx) = e - 8
  BY ReadBlock DEF NextIsFree, Stop
<1>5. ~NextIsFree(T, bp) => e = nx
  BY DEF Stop
<1>6. x = (IF IsFree(T, pv) THEN pv ELSE bp) /\ pv # bp /\ FTRP(m1, bp) = nx - 8
  <2>1. x = IF IsFree(T, pv) THEN pv ELSE bp
    BY <1>1, StartStop
  <2>2. pv # bp
    BY <1>1, ShapeFacts
  <2> QED BY <2>1, <2>2, ReadBlock
<1>7. /\ x \in Blocks(T) \ {h0} /\ e \in Blocks(T) \cup {k} /\ x < e
  BY StartStop
<1>8. /\ k \in Nat
      /\ \A b \in Blocks(T) : /\ b \in Nat /\ b % 8 = 0 /\ Size(T, b) \in Nat
                              /\ Size(T, b) >= 8 /\ Size(T, b) % 8 = 0
                              /\ EndOf(T, b) \in Nat /\ EndOf(T, b) = b + Size(T, b)
                              /\ b - 4 \in Addr /\ EndOf(T, b) - 8 \in Addr
      /\ k % 8 = 0
  BY ShapeFacts
<1>9. e - 8 \in Addr /\ e \in Nat /\ x \in Nat /\ x - 4 \in Addr /\ x + 8 <= e
  <2>1. e \in Nat
    BY <1>7, <1>8
  <2>2. e - 8 \in Addr
    BY <1>4, <1>5, <1>8
  <2>3. x + 8 <= e
    <3>1. x + 8 <= EndOf(T, x) /\ x \in Nat /\ EndOf(T, x) \in Nat
      BY <1>7, <1>8
    <3>2. e \in Blocks(T) => EndOf(T, x) <= e
      BY <1>7, ShapeFacts
    <3>3. e = k => EndOf(T, x) <= e
      BY <1>7, ShapeFacts
    <3> QED BY <3>1, <3>2, <3>3, <2>1, <1>7
  <2> QED BY <2>1, <2>2, <2>3, <1>7, <1>8
<1>10. Mem(m1) /\ H.m = m /\ g.m = m1 /\ \A v : [g EXCEPT !.m = v] = HeapOf(v, k, l2)
  BY HeapFacts DEF Tagged
<1>11. (e - x) % 8 = 0 /\ e - x \in Nat /\ PACK(e - x, 0) \in Nat
  <2>1. x % 8 = 0 /\ e % 8 = 0
    BY <1>7, <1>8
  <2>2. (e - x) % 8 = 0 /\ e - x \in Nat
    BY <2>1, <1>9, AlignedSum
  <2> QED BY <2>2, PackFacts
<1>12. h = (IF NextIsFree(T, bp) THEN remove_block(H, nx) ELSE H)
  OBVIOUS
<1> HIDE DEF H, nx
<1>13. CASE ~IsFree(T, pv) /\ ~NextIsFree(T, bp)
  <2>1. c = [p |-> bp, h |-> add_block(H, bp)]
    BY <1>2, <1>3, <1>10, <1>13 DEF coalesce, H
  <2>2. x = bp /\ e = nx /\ e - x = Size(T, bp) /\ H = HeapOf(m1, k, l2)
    BY <1>5, <1>6, <1>8, <1>12, <1>13 DEF nx
  <2>3. m1[bp - 4] = PACK(Size(T, bp), 0) /\ m1[nx - 8] = PACK(Size(T, bp), 0)
    BY ShapeFacts DEF Tagged, nx
  <2>4. SameOutside(m1, m1, x, e)
    BY DEF SameOutside
  <2> QED BY <2>1, <2>2, <2>3, <2>4, <1>10
<1>14. CASE ~IsFree(T, pv) /\ NextIsFree(T, bp)
  <2> DEFINE n == Size(T, bp) + Size(T, nx)
  <2>1. c = [p |-> bp, h |-> add_block([remove_block(H, nx) EXCEPT !.m = PutTags(@, bp, n, 0)], bp)]
    BY <1>2, <1>3, <1>4, <1>10, <1>14 DEF coalesce, H
  <2>2. x = bp /\ n = e - x
    BY <1>4, <1>6, <1>8, <1>14 DEF nx
  <2>3. g = remove_block(H, nx)
    BY <2>2, <1>12, <1>14
  <2> HIDE DEF n
  <2>4. c = [p |-> x, h |-> add_block(HeapOf(PutTags(m1, x, e - x, 0), k, l2), x)]
    BY <2>1, <2>2, <2>3, <1>10
  <2>5. /\ Mem(PutTags(m1, x, e - x, 0))
        /\ PutTags(m1, x, e - x, 0)[x - 4] = PACK(e - x, 0)
        /\ PutTags(m1, x, e - x, 0)[e - 8] = PACK(e - x, 0)
        /\ SameOutside(m1, PutTags(m1, x, e - x, 0), x, e)
    BY <1>9, <1>10, <1>11, PutTagsFacts
  <2> QED BY <2>4, <2>5
<1>15. CASE IsFree(T, pv) /\ ~NextIsFree(T, bp)
  <2> DEFINE n == Size(T, bp) + Size(T, pv)
             w == PACK(n, 0)
             m2 == PUT(PUT(m1, e - 8, w), x - 4, w)
  <2>1. c = [p |-> pv, h |-> add_block([remove_block(H, pv) EXCEPT
                                !.m = PUT(PUT(@, FTRP(@, bp), w), HDRP(pv), w)], pv)]
    BY <1>2, <1>3, <1>10, <1>15 DEF coalesce, H
  <2>2. x = pv /\ e = nx /\ n = e - x /\ HDRP(pv) = x - 4
    BY <1>1, <1>5, <1>6, <1>8, <1>15 DEF nx, HDRP, WSIZE
  <2>3. g = remove_block(H, pv)
    BY <2>2, <1>6, <1>12, <1>15
  <2>4. w = PACK(e - x, 0) /\ w \in Nat
    BY <2>2, <1>11
  <2> HIDE DEF n, w
  <2>5. c = [p |-> x, h |-> add_block([g EXCEPT !.m = m2], x)]
    BY <2>1, <2>2, <2>3, <1>6, <1>10
  <2> HIDE DEF m2
  <2>6. c = [p |-> x, h |-> add_block(HeapOf(m2, k, l2), x)]
    BY <2>5, <1>10
  <2>7. Mem(m2) /\ m2[x - 4] = w /\ m2[e - 8] = w /\ SameOutside(m1, m2, x, e)
    BY <2>4, <1>9, <1>10, PutBoth DEF m2
  <2> QED BY <2>4, <2>6, <2>7
<1>16. CASE IsFree(T, pv) /\ NextIsFree(T, bp)
  <2> DEFINE n == Size(T, bp) + Size(T, pv) + Size(T, nx)
             w == PACK(n, 0)
             m2 == PUT(PUT(m1, x - 4, w), e - 8, w)
  <2>1. c = [p |-> pv, h |-> add_block([remove_block(remove_block(H, nx), pv) EXCEPT
                                !.m = PUT(PUT(@, HDRP(pv), w), FTRP(@, nx), w)], pv)]
    BY <1>2, <1>3, <1>4, <1>10, <1>16 DEF coalesce, H
  <2>2. x = pv /\ n = e - x /\ HDRP(pv) = x - 4
    BY <1>1, <1>4, <1>6, <1>8, <1>16 DEF nx, HDRP, WSIZE
  <2>3. g = remove_block(remove_block(H, nx), pv)
    BY <2>2, <1>6, <1>12, <1>16
  <2>4. w = PACK(e - x, 0) /\ w \in Nat
    BY <2>2, <1>11
  <2> HIDE DEF n, w
  <2>5. c = [p |-> x, h |-> add_block([g EXCEPT !.m = m2], x)]
    BY <2>1, <2>2, <2>3, <1>4, <1>10, <1>16
  <2> HIDE DEF m2
  <2>6. c = [p |-> x, h |-> add_block(HeapOf(m2, k, l2), x)]
    BY <2>5, <1>10
  <2>7. Mem(m2) /\ m2[x - 4] = w /\ m2[e - 8] = w /\ SameOutside(m1, m2, x, e)
    BY <2>4, <1>9, <1>10, PutBoth DEF m2
  <2> QED BY <2>4, <2>6, <2>7
<1> QED BY <1>13, <1>14, <1>15, <1>16

(* coalesce makes one free block of bp and its free neighbours, which comes *)
(* first in the list; no payload is touched.                               *)
LEMMA CoalesceMakes ==
  ASSUME NEW m, NEW T, NEW k, Shape(T, k), Roomy(T), Tagged(m, T, k),
         NEW bp \in Blocks(T) \ {h0}, IsFree(T, bp),
         NEW l, ListOf(l, Frees(T) \ {bp}), Linked(m, l),
         NEW c, c = coalesce(HeapOf(m, k, l), bp)
  PROVE  \E m2 : /\ c = [p |-> Start(T, bp), h |-> HeapOf(m2, k, MergedList(T, l, bp))]
                 /\ Tagged(m2, Merged(T, bp), k) /\ Linked(m2, MergedList(T, l, bp))
                 /\ SameData(m, m2, T, Owned(T))
<1> DEFINE x == Start(T, bp)
           e == Stop(T, bp)
           l2 == Without(T, l, bp)
           T2 == Merged(T, bp)
           R == Rest(T, bp)
           h == IF NextIsFree(T, bp) THEN remove_block(HeapOf(m, k, l), EndOf(T, bp))
                ELSE HeapOf(m, k, l)
           g == IF x # bp THEN remove_block(h, x) ELSE h
           m1 == g.m
<1>1. /\ g = HeapOf(m1, k, l2) /\ Tagged(m1, T, k) /\ Linked(m1, l2)
      /\ SameData(m, m1, T, Owned(T))
  BY BothLeave
<1>2. PICK m2 : /\ c = [p |-> x, h |-> add_block(HeapOf(m2, k, l2), x)]
                /\ Mem(m2) /\ m2[x - 4] = PACK(e - x, 0) /\ m2[e - 8] = PACK(e - x, 0)
                /\ SameOutside(m1, m2, x, e)
  <2> DEFINE a == l2
             d == m1
  <2>1. g = HeapOf(d, k, a) /\ Tagged(d, T, k)
    BY <1>1
  <2> HIDE DEF a, d
  <2>2. \E m2 : /\ c = [p |-> x, h |-> add_block(HeapOf(m2, k, a), x)]
                /\ Mem(m2) /\ m2[x - 4] = PACK(e - x, 0) /\ m2[e - 8] = PACK(e - x, 0)
                /\ SameOutside(d, m2, x, e)
    BY <2>1, CoalesceTags
  <2> QED BY <2>2 DEF a, d
<1>3. ListOf(l2, R)
  BY WithoutList
<1>4. x \notin R /\ Frees(T2) = R \cup {x}
  BY RestFacts
<1>5. /\ x \in Blocks(T) \ {h0} /\ e \in Blocks(T) \cup {k} /\ x < e
      /\ T2 = Join(T, x, e, 0) /\ Roomy(T2)
  BY StartStop, MergedFacts DEF Merged
<1>6. x \in Int /\ e \in Int
  <2>1. k \in Nat /\ \A b \in Blocks(T) : b \in Nat
    BY ShapeFacts
  <2> HIDE DEF x, e
  <2> QED BY <2>1, <1>5
<1>7. \A b \in Owned(T) : b \in Blocks(T) /\ (EndOf(T, b) <= x \/ b >= e)
  BY Between DEF Owned, Allocs
<1>8. \A b \in R \cup {h0} : b \in Blocks(T) /\ (EndOf(T, b) <= x \/ b >= e)
  <2>1. h0 \in Blocks(T) /\ ~IsFree(T, h0) /\ h0 # bp
    BY ShapeFacts
  <2>2. EndOf(T, h0) <= x \/ h0 >= e
    BY <2>1, Between
  <2> QED BY <2>1, <2>2 DEF Rest, Frees
<1> HIDE DEF x, e, T2, R, g, h, m1, l2
<1>9. /\ Shape(T2, k) /\ x \in Blocks(T2) \ {h0}
      /\ \A b : b \in Blocks(T2) <=> b \in Blocks(T) /\ (b <= x \/ b >= e)
      /\ \A b \in Blocks(T2) : b # x => T2[b] = T[b]
  BY <1>5, JoinShape
<1>10. Tagged(m2, T2, k)
  BY <1>1, <1>2, <1>5, JoinTagged
<1>11. Linked(m2, l2)
  <2>1. SameLinks(m1, m2, R \cup {h0})
    <3>1. R \cup {h0} \subseteq Blocks(T) /\ \A b \in R \cup {h0} : EndOf(T, b) <= x \/ b >= e
      BY <1>8
    <3> DEFINE A == R \cup {h0}
    <3> HIDE DEF A
    <3> QED BY <3>1, <1>2, <1>6, OutsideLinks DEF A
  <2> QED BY <2>1, <1>1, <1>3, LinkKeep
<1>12. SameData(m1, m2, T, Owned(T))
  BY <1>2, <1>6, <1>7, DataOutside
<1>13. Inner(T2, R)
  <2>1. R \subseteq Blocks(T2)
    BY <1>4 DEF Frees
  <2>2. h0 \notin R
    BY CellBlocks DEF R, Rest
  <2> QED BY <2>1, <2>2 DEF Inner
<1> DEFINE q == add_block(HeapOf(m2, k, l2), x)
           m3 == q.m
<1>14. /\ q = HeapOf(m3, k, Push(l2, x)) /\ Tagged(m3, T2, k) /\ Linked(m3, Push(l2, x))
       /\ SameData(m2, m3, T2, Others(T2, R \cup {x}))
  BY <1>3, <1>4, <1>5, <1>9, <1>10, <1>11, <1>13, Link
<1> HIDE DEF q, m3
<1>15. SameData(m2, m3, T, Owned(T))
  <2>1. ASSUME NEW b \in Owned(T)
        PROVE  b \in Blocks(T2) /\ T2[b] = T[b] /\ b \in Others(T2, R \cup {x})
    <3>1. b \in Blocks(T) /\ ~IsFree(T, b) /\ b # h0 /\ (EndOf(T, b) <= x \/ b >= e)
      BY <1>7 DEF Owned, Allocs
    <3>2. b \in Nat /\ EndOf(T, b) \in Nat /\ b < EndOf(T, b)
      BY <3>1, ShapeFacts
    <3>3. b \in Blocks(T2) /\ b # x
      BY <3>1, <3>2, <1>5, <1>6, <1>9
    <3>4. b \notin R
      BY <3>1 DEF R, Rest, Frees
    <3> QED BY <3>1, <3>3, <3>4, <1>9 DEF Others
  <2>2. Keeps(T, T2, Owned(T)) /\ SameData(m2, m3, T2, Owned(T))
    BY <2>1, <1>14 DEF Keeps, SameData
  <2> QED BY <2>2, DataVia
<1>16. SameData(m, m3, T, Owned(T))
  BY <1>1, <1>12, <1>15, DataTrans
<1>17. c = [p |-> x, h |-> HeapOf(m3, k, Push(l2, x))]
  BY <1>2, <1>14 DEF q
<1> QED BY <1>14, <1>16, <1>17 DEF MergedList, x, l2, T2

(* mm_free: the block is free, merged and listed, and the other payloads   *)
(* are as before.                                                          *)
LEMMA FreeMakes ==
  ASSUME NEW m, NEW T, NEW k, Shape(T, k), Roomy(T), Tagged(m, T, k),
         NEW l, ListOf(l, Frees(T)), Linked(m, l), NEW bp \in Owned(T)
  PROVE  \E m2 : /\ Release(HeapOf(m, k, l), bp) = HeapOf(m2, k, FreedList(T, l, bp))
                 /\ Tagged(m2, Freed(T, bp), k) /\ Linked(m2, FreedList(T, l, bp))
                 /\ SameData(m, m2, T, Owned(T) \ {bp})
<1> DEFINE e == EndOf(T, bp)
           U == Join(T, bp, e, 0)
           m1 == PutTags(m, bp, e - bp, 0)
           c == coalesce(HeapOf(m1, k, l), bp)
           A == Owned(T) \ {bp}
<1>1. bp \in Blocks(T) \ {h0} /\ bp \in Blocks(T) /\ ~IsFree(T, bp)
  BY DEF Owned, Allocs
<1>2. /\ bp \in Nat /\ e \in Nat /\ e - bp = Size(T, bp) /\ bp + 8 <= e /\ (e - bp) % 8 = 0
      /\ bp - 4 \in Addr /\ e - 8 \in Addr /\ e \in Blocks(T) \cup {k} /\ bp < e
  <2>1. /\ bp \in Nat /\ EndOf(T, bp) \in Nat
        /\ Size(T, bp) \in Nat /\ EndOf(T, bp) = bp + Size(T, bp)
        /\ Size(T, bp) >= 8 /\ Size(T, bp) % 8 = 0
        /\ bp - 4 \in Addr /\ EndOf(T, bp) - 8 \in Addr
        /\ EndOf(T, bp) \in Blocks(T) \cup {k}
    BY <1>1, ShapeFacts
  <2>2. e - bp = Size(T, bp)
    BY <2>1
  <2> QED BY <2>1, <2>2
<1>3. \A b \in Blocks(T) : b # bp => EndOf(T, b) <= bp \/ b >= e
  <2>1. \A b \in Blocks(T) : b \in Nat
    BY ShapeFacts
  <2> QED BY <2>1, <1>1, <1>2, Sides
<1>4. Mem(m) /\ bp \in Int /\ e \in Int
  BY <1>2 DEF Tagged
<1>5. /\ Shape(U, k) /\ Roomy(U) /\ Blocks(U) = Blocks(T) /\ IsFree(U, bp)
      /\ Frees(U) \ {bp} = Frees(T)
  BY <1>1, RetagFacts
<1>6. \A b \in Blocks(T) : b # bp => U[b] = T[b] /\ (IsFree(U, b) <=> IsFree(T, b))
  BY <1>1, RetagShape
<1>7. Release(HeapOf(m, k, l), bp) = c.h
  <2> DEFINE H == HeapOf(m, k, l)
  <2>1. H.m = m /\ \A v : [H EXCEPT !.m = v] = HeapOf(v, k, l)
    BY HeapFacts
  <2>2. GET_SIZE(m, HDRP(bp)) = e - bp
    BY <1>1, <1>2, ReadBlock
  <2>3. Release(H, bp) = coalesce([H EXCEPT !.m = PutTags(@, bp, GET_SIZE(@, HDRP(bp)), 0)], bp).h
    BY DEF Release
  <2> HIDE DEF H, e
  <2>4. [H EXCEPT !.m = PutTags(@, bp, GET_SIZE(@, HDRP(bp)), 0)] = HeapOf(m1, k, l)
    BY <2>1, <2>2
  <2> QED BY <2>3, <2>4 DEF H
<1>8. Freed(T, bp) = Merged(U, bp) /\ FreedList(T, l, bp) = MergedList(U, l, bp)
  BY DEF Freed, FreedList
<1> HIDE DEF e, U
<1>9. /\ Mem(m1) /\ m1[bp - 4] = PACK(e - bp, 0) /\ m1[e - 8] = PACK(e - bp, 0)
      /\ SameOutside(m, m1, bp, e)
  BY <1>2, <1>4, PutTagsFacts
<1> HIDE DEF m1
<1>10. Tagged(m1, U, k)
  BY <1>1, <1>2, <1>9, JoinTagged DEF U
<1>11. Linked(m1, l)
  <2> DEFINE B == Frees(T) \cup {h0}
  <2>1. B \subseteq Blocks(T) /\ \A b \in B : EndOf(T, b) <= bp \/ b >= e
    <3>1. h0 \in Blocks(T) /\ h0 # bp /\ bp \notin Frees(T)
      BY <1>1, ShapeFacts DEF Frees
    <3> QED BY <3>1, <1>3 DEF Frees
  <2> HIDE DEF B
  <2>2. SameLinks(m, m1, B)
    BY <2>1, <1>4, <1>9, OutsideLinks
  <2> QED BY <2>2, LinkKeep DEF B
<1>12. SameData(m, m1, T, A)
  <2>1. A \subseteq Blocks(T) /\ \A b \in A : EndOf(T, b) <= bp \/ b >= e
    BY <1>3 DEF Owned, Allocs
  <2> HIDE DEF A
  <2> QED BY <2>1, <1>4, <1>9, DataOutside
<1>13. PICK m2 : /\ c = [p |-> Start(U, bp), h |-> HeapOf(m2, k, MergedList(U, l, bp))]
                 /\ Tagged(m2, Merged(U, bp), k) /\ Linked(m2, MergedList(U, l, bp))
                 /\ SameData(m1, m2, U, Owned(U))
  <2>1. bp \in Blocks(U) \ {h0} /\ ListOf(l, Frees(U) \ {bp})
    BY <1>1, <1>5
  <2> QED BY <2>1, <1>5, <1>10, <1>11, CoalesceMakes
<1>14. SameData(m1, m2, T, A)
  <2>1. A \subseteq Owned(U)
    BY <1>5, <1>6 DEF Owned, Allocs
  <2>2. Keeps(T, U, A)
    BY <1>5, <1>6 DEF Keeps, Owned, Allocs
  <2> HIDE DEF A
  <2>3. SameData(m1, m2, U, A)
    BY <2>1, <1>13, DataSome
  <2> QED BY <2>2, <2>3, DataVia
<1>15. SameData(m, m2, T, A)
  BY <1>12, <1>14, DataTrans
<1>16. c.h = HeapOf(m2, k, FreedList(T, l, bp))
  BY <1>8, <1>13
<1> QED BY <1>7, <1>8, <1>13, <1>15, <1>16

(* extend_heap changes nothing when mem_sbrk fails. *)
LEMMA ExtendFails ==
  ASSUME NEW m, NEW k, NEW l, NEW n \in Nat, n % 8 = 0, ~SbrkOK(k, ToInt(n))
  PROVE  extend_heap(HeapOf(m, k, l), n \div WSIZE) = [p |-> NULL, h |-> HeapOf(m, k, l)]
<1> DEFINE words == n \div WSIZE
           h == HeapOf(m, k, l)
<1>1. (IF words % 2 = 1 THEN words + 1 ELSE words) * WSIZE = n
  BY DEF WSIZE
<1>2. h.m = m /\ h.brk = k
  BY HeapFacts
<1> HIDE DEF words, h
<1>3. extend_heap(h, words) = [p |-> NULL, h |-> h]
  BY <1>1, <1>2 DEF extend_heap
<1> QED BY <1>3 DEF words, h

(* Otherwise there is a free block of n bytes at the old break, merged     *)
(* with the one before and listed.                                         *)
LEMMA ExtendMakes ==
  ASSUME NEW m, NEW T, NEW k, Shape(T, k), Roomy(T), Tagged(m, T, k),
         NEW l, ListOf(l, Frees(T)), Linked(m, l),
         NEW n \in Nat, n % 8 = 0, n >= 16, k + n < WORD, SbrkOK(k, ToInt(n))
  PROVE  \E m2 : /\ extend_heap(HeapOf(m, k, l), n \div WSIZE)
                       = [p |-> Start(Grow(T, k, k + n), k),
                          h |-> HeapOf(m2, k + n, GrownList(T, l, k, k + n))]
                 /\ Tagged(m2, Merged(Grow(T, k, k + n), k), k + n)
                 /\ Linked(m2, GrownList(T, l, k, k + n))
                 /\ SameData(m, m2, T, Owned(T))
<1> DEFINE e == k + n
           U == Grow(T, k, e)
           words == n \div WSIZE
           m1 == PutTags(m, k, n, 0)
           m2 == PUT(m1, HDRP(NEXT_BLKP(m1, k)), PACK(0, 1))
           h == HeapOf(m, k, l)
           c == coalesce(HeapOf(m2, e, l), k)
<1>1. (IF words % 2 = 1 THEN words + 1 ELSE words) * WSIZE = n
  BY DEF WSIZE
<1>2. h.m = m /\ h.brk = k /\ h.st = FirstIn(l)
  BY HeapFacts
<1>3. extend_heap(h, words) =
         coalesce([h EXCEPT !.m = m2, !.brk = SbrkTo(@, n)], k)
  <2> HIDE DEF words, h
  <2> QED BY <1>1, <1>2 DEF extend_heap
<1>5. \E mx : /\ extend_heap(HeapOf(m, k, l), n \div WSIZE)
                    = [p |-> Start(Grow(T, k, k + n), k),
                       h |-> HeapOf(mx, k + n, GrownList(T, l, k, k + n))]
              /\ Tagged(mx, Merged(Grow(T, k, k + n), k), k + n)
              /\ Linked(mx, GrownList(T, l, k, k + n))
              /\ SameData(m, mx, T, Owned(T))
  <2>1. /\ k \in Nat /\ k % 8 = 0 /\ h0 + 8 <= k /\ k - 4 \in Addr /\ h0 \in Nat
    BY ShapeFacts, RegionFacts
  <2>2. e <= mem_max_addr /\ SbrkTo(k, n) = e
    BY <2>1, SbrkFacts
  <2>3. e \in Nat /\ k + 8 <= e /\ e - k = n /\ k + 16 <= e
    BY <2>1
  <2>4. e % 8 = 0
    BY <2>1, AlignedSum
  <2>5. e - 4 \in Addr /\ e - 8 \in Addr
    <3>1. mem_start_brk < e
      BY <2>1, <2>3, RegionFacts
    <3> HIDE DEF e
    <3> QED BY <3>1, <2>2, <2>3, <2>4, AddrFacts
  <2>6. Mem(m)
    BY DEF Tagged
  <2>7. m1 = PutTags(m, k, e - k, 0)
    BY <2>3
  <2>8. extend_heap(h, words) = c
    <3>1. [h EXCEPT !.m = m2, !.brk = SbrkTo(@, n)] = HeapOf(m2, e, l)
      <4> HIDE DEF m2, e
      <4>1. [h EXCEPT !.m = m2, !.brk = SbrkTo(@, n)]
               = [[h EXCEPT !.m = m2] EXCEPT !.brk = SbrkTo(@, n)]
        OBVIOUS
      <4>2. [h EXCEPT !.m = m2] = HeapOf(m2, k, l)
        BY HeapFacts
      <4>3. [HeapOf(m2, k, l) EXCEPT !.brk = SbrkTo(@, n)] = HeapOf(m2, SbrkTo(k, n), l)
        BY DEF HeapOf
      <4> QED BY <4>1, <4>2, <4>3, <2>2
    <3> HIDE DEF h, words, m2, e
    <3> QED BY <3>1, <1>3
  <2> HIDE DEF e, m1
  <2>9. /\ Mem(m1) /\ m1[k - 4] = PACK(n, 0) /\ m1[e - 8] = PACK(n, 0)
        /\ SameOutside(m, m1, k, e)
    <3>1. (e - k) % 8 = 0
      BY <2>3
    <3> QED BY <3>1, <2>1, <2>3, <2>5, <2>6, <2>7, PutTagsFacts
  <2>10. HDRP(NEXT_BLKP(m1, k)) = e - 4
    <3>1. SizeOf(PACK(n, 0)) = n
      BY PackFacts
    <3> QED BY <3>1, <2>9 DEF NEXT_BLKP, GET_SIZE, GET, HDRP, WSIZE, e
  <2>11. m2 = [m1 EXCEPT ![e - 4] = 1]
    BY <2>10 DEF PUT, PACK
  <2>12. /\ Mem(m2) /\ m2[k - 4] = PACK(n, 0) /\ m2[e - 8] = PACK(n, 0)
         /\ m2[e - 4] = PACK(0, 1) /\ \A a \in Addr : a < k - 4 => m2[a] = m[a]
    <3>1. k - 4 # e - 4 /\ e - 8 # e - 4
      BY <2>1, <2>3
    <3>2. ASSUME NEW a \in Addr, a < k - 4 PROVE m2[a] = m[a]
      <4>1. a # e - 4
        BY <3>2, <2>1, <2>3, RegionFacts
      <4>2. m1[a] = m[a]
        BY <3>2, <2>9 DEF SameOutside
      <4> QED BY <4>1, <4>2, <2>9, <2>11 DEF Mem
    <3> QED BY <3>1, <3>2, <2>1, <2>5, <2>9, <2>11 DEF Mem, PACK
  <2> HIDE DEF m2
  <2>13. /\ Shape(U, e) /\ Roomy(U) /\ k \in Blocks(U) \ {h0} /\ IsFree(U, k)
         /\ k \notin Blocks(T) /\ Blocks(U) = Blocks(T) \cup {k}
         /\ Frees(U) \ {k} = Frees(T)
         /\ \A b \in Blocks(T) : EndOf(U, b) = EndOf(T, b) /\ (IsFree(U, b) <=> IsFree(T, b))
    BY <2>2, <2>3, <2>4, GrowFacts
  <2>14. Tagged(m2, U, e)
    BY <2>2, <2>3, <2>4, <2>12, GrowTagged
  <2>15. \A b \in Blocks(T) : U[b] = T[b]
    BY <2>2, <2>3, <2>4, GrowShape
  <2>16. GrownList(T, l, k, e) = MergedList(U, l, k)
    BY DEF GrownList
  <2> HIDE DEF U
  <2>17. ASSUME NEW b \in Blocks(T)
         PROVE  /\ m2[b] = m[b] /\ m2[b + 4] = m[b + 4]
                /\ \A a \in Payload(T, b) : m2[a] = m[a]
    <3>1. /\ b \in Nat /\ b + 16 <= EndOf(T, b) /\ EndOf(T, b) <= k /\ EndOf(T, b) \in Nat
          /\ b \in Addr /\ b + 4 \in Addr
      BY CellBlocks, ShapeFacts DEF Cell
    <3>2. b < k - 4 /\ b + 4 < k - 4
      BY <3>1, <2>1
    <3>3. ASSUME NEW a \in Payload(T, b) PROVE a \in Addr /\ a < k - 4
      <4>1. a \in Addr /\ a \in Nat /\ a < EndOf(T, b) - 8
        BY RegionFacts DEF Payload
      <4> QED BY <4>1, <3>1, <2>1
    <3> QED BY <3>1, <3>2, <3>3, <2>12
  <2>18. Linked(m2, l)
    <3>1. Frees(T) \cup {h0} \subseteq Blocks(T)
      BY ShapeFacts DEF Frees
    <3>2. SameLinks(m, m2, Frees(T) \cup {h0})
      BY <3>1, <2>17 DEF SameLinks
    <3> QED BY <3>2, LinkKeep
  <2>19. SameData(m, m2, T, Owned(T))
    BY <2>17 DEF SameData, Owned, Allocs
  <2>20. PICK m3 : /\ c = [p |-> Start(U, k), h |-> HeapOf(m3, e, MergedList(U, l, k))]
                   /\ Tagged(m3, Merged(U, k), e) /\ Linked(m3, MergedList(U, l, k))
                   /\ SameData(m2, m3, U, Owned(U))
    <3>1. ListOf(l, Frees(U) \ {k}) /\ c = coalesce(HeapOf(m2, e, l), k)
      BY <2>13
    <3> HIDE DEF c
    <3> QED BY <3>1, <2>13, <2>14, <2>18, CoalesceMakes
  <2>21. SameData(m2, m3, T, Owned(T))
    <3>1. Owned(T) \subseteq Owned(U) /\ Keeps(T, U, Owned(T))
      BY <2>13, <2>15 DEF Owned, Allocs, Keeps
    <3> DEFINE A == Owned(T)
    <3> HIDE DEF A
    <3>2. SameData(m2, m3, U, A)
      BY <3>1, <2>20, DataSome DEF A
    <3> QED BY <3>1, <3>2, DataVia DEF A
  <2>22. SameData(m, m3, T, Owned(T))
    BY <2>19, <2>21, DataTrans
  <2> HIDE DEF c
  <2> QED BY <2>2, <2>8, <2>16, <2>20, <2>22 DEF U, e
<1> QED BY <1>5

(* place writes the tags of what it allocates and of the rest, which it    *)
(* lists; the links of the block stay, for remove_block to read.           *)
LEMMA PlaceTags ==
  ASSUME NEW m, NEW T, NEW k, Shape(T, k), Roomy(T), Tagged(m, T, k), NEW l,
         NEW bp \in Frees(T), NEW asize \in Nat, asize % 8 = 0, asize >= 16,
         asize <= Size(T, bp)
  PROVE  \E m2 : /\ place(HeapOf(m, k, l), bp, asize)
                       = (IF Size(T, bp) - asize >= 2 * DSIZE
                          THEN add_block(HeapOf(m2, k, l), bp + asize)
                          ELSE HeapOf(m2, k, l))
                 /\ Tagged(m2, Placed(T, bp, asize), k)
                 /\ SameOutside(m, m2, bp, EndOf(T, bp))
                 /\ m2[bp] = m[bp] /\ m2[bp + 4] = m[bp + 4]
<1> DEFINE e == EndOf(T, bp)
           H == HeapOf(m, k, l)
<1>1. /\ bp \in Blocks(T) \ {h0} /\ bp \in Blocks(T) /\ IsFree(T, bp)
      /\ bp \in Nat /\ bp % 8 = 0 /\ h0 <= bp /\ e \in Nat /\ e % 8 = 0
      /\ e - bp = Size(T, bp) /\ bp + 16 <= e /\ (e - bp) % 8 = 0
      /\ bp - 4 \in Addr /\ e - 8 \in Addr /\ e \in Blocks(T) \cup {k} /\ e <= mem_max_addr
      /\ h0 \in Nat /\ bp \in Addr /\ bp + 4 \in Addr
  <2>1. bp \in Blocks(T) /\ IsFree(T, bp) /\ bp # h0
    BY ShapeFacts DEF Frees
  <2>2. Cell(bp) /\ bp + 16 <= e
    BY <2>1, CellBlocks
  <2>3. /\ bp \in Nat /\ bp % 8 = 0 /\ h0 <= bp /\ e \in Nat /\ e % 8 = 0
        /\ e = bp + Size(T, bp) /\ Size(T, bp) \in Nat /\ Size(T, bp) % 8 = 0
        /\ bp - 4 \in Addr /\ e - 8 \in Addr /\ e \in Blocks(T) \cup {k}
        /\ e <= k /\ k <= mem_max_addr /\ k \in Nat /\ mem_max_addr \in Nat /\ h0 \in Nat
    BY <2>1, ShapeFacts, RegionFacts
  <2>4. e - bp = Size(T, bp) /\ e <= mem_max_addr
    BY <2>3
  <2> QED BY <2>1, <2>2, <2>3, <2>4 DEF Cell
<1>2. GET_SIZE(m, HDRP(bp)) = e - bp /\ Mem(m)
  BY <1>1, ReadBlock DEF Tagged
<1>3. H.m = m /\ \A v : [H EXCEPT !.m = v] = HeapOf(v, k, l)
  BY HeapFacts
<1> HIDE DEF e, H
<1>4. CASE (e - bp) - asize >= 2 * DSIZE
  <2> DEFINE y == bp + asize
             m1 == PutTags(m, bp, y - bp, 1)
             m2 == PutTags(m1, y, e - y, 0)
  <2>1. /\ y \in Nat /\ y % 8 = 0 /\ bp + 16 <= y /\ y + 16 <= e
        /\ y - bp = asize /\ e - y = (e - bp) - asize
    <3>1. y % 8 = 0
      BY <1>1, AlignedSum
    <3> QED BY <3>1, <1>1, <1>4 DEF DSIZE
  <2>2. (e - y) % 8 = 0 /\ y - 4 \in Addr /\ y - 8 \in Addr
    <3>1. mem_start_brk < y /\ y <= mem_max_addr
      BY <2>1, <1>1, RegionFacts
    <3> HIDE DEF y
    <3>2. y - 4 \in Addr /\ y - 8 \in Addr
      BY <3>1, <2>1, AddrFacts
    <3>3. e \in Int /\ y \in Int /\ e % 8 = 0 /\ y % 8 = 0
      BY <2>1, <1>1
    <3>4. (e - y) % 8 = 0
      BY <3>3, AlignedSum
    <3> QED BY <3>2, <3>4
  <2>3. Placed(T, bp, asize) = Cut(T, bp, y) /\ Size(T, bp) - asize >= 2 * DSIZE
    BY <1>1, <1>4 DEF Placed
  <2>4. place(H, bp, asize)
           = add_block([H EXCEPT !.m = PutTags(m1, NEXT_BLKP(m1, bp), e - y, 0)],
                       NEXT_BLKP(m1, bp))
    BY <2>1, <1>2, <1>3, <1>4 DEF place
  <2> HIDE DEF y
  <2>5. /\ Mem(m1) /\ m1[bp - 4] = PACK(y - bp, 1) /\ m1[y - 8] = PACK(y - bp, 1)
        /\ SameOutside(m, m1, bp, y)
        /\ \A a \in Addr : a # bp - 4 /\ a # y - 8 => m1[a] = m[a]
    <3>1. bp + 8 <= y /\ (y - bp) % 8 = 0
      BY <2>1, <1>1
    <3>2. /\ Mem(m1) /\ m1[bp - 4] = PACK(y - bp, 1) /\ m1[y - 8] = PACK(y - bp, 1)
          /\ SameOutside(m, m1, bp, y)
      BY <3>1, <2>1, <2>2, <1>1, <1>2, PutTagsFacts
    <3>3. \A a \in Addr : a # bp - 4 /\ a # y - 8 => m1[a] = m[a]
      BY <3>1, <2>1, <2>2, <1>1, <1>2, PutTagsOnly
    <3> QED BY <3>2, <3>3
  <2> HIDE DEF m1
  <2>6. NEXT_BLKP(m1, bp) = y
    <3>1. SizeOf(PACK(y - bp, 1)) = asize
      BY <2>1, PackFacts
    <3> QED BY <3>1, <2>5 DEF NEXT_BLKP, GET_SIZE, GET, HDRP, WSIZE, y
  <2>7. /\ Mem(m2) /\ m2[y - 4] = PACK(e - y, 0) /\ m2[e - 8] = PACK(e - y, 0)
        /\ SameOutside(m1, m2, y, e)
        /\ \A a \in Addr : a # y - 4 /\ a # e - 8 => m2[a] = m1[a]
    <3>1. /\ Mem(m1) /\ y \in Nat /\ e \in Nat /\ y + 8 <= e /\ (e - y) % 8 = 0
          /\ y - 4 \in Addr /\ e - 8 \in Addr
      BY <2>1, <2>2, <2>5, <1>1
    <3>2. /\ Mem(m2) /\ m2[y - 4] = PACK(e - y, 0) /\ m2[e - 8] = PACK(e - y, 0)
          /\ SameOutside(m1, m2, y, e)
      BY <3>1, PutTagsFacts
    <3>3. \A a \in Addr : a # y - 4 /\ a # e - 8 => m2[a] = m1[a]
      BY <3>1, PutTagsOnly
    <3> QED BY <3>2, <3>3
  <2> HIDE DEF m2
  <2>8. /\ m2[bp - 4] = PACK(y - bp, 1) /\ m2[y - 8] = PACK(y - bp, 1)
        /\ m2[bp] = m[bp] /\ m2[bp + 4] = m[bp + 4]
    <3>1. /\ bp - 4 < y - 4 /\ y - 8 < y - 4
          /\ bp # bp - 4 /\ bp # y - 8 /\ bp # y - 4 /\ bp # e - 8
          /\ bp + 4 # bp - 4 /\ bp + 4 # y - 8 /\ bp + 4 # y - 4 /\ bp + 4 # e - 8
      BY <2>1, <1>1
    <3>2. m2[bp - 4] = m1[bp - 4] /\ m2[y - 8] = m1[y - 8]
      BY <3>1, <2>2, <2>7, <1>1 DEF SameOutside
    <3> QED BY <3>1, <3>2, <2>5, <2>7, <1>1
  <2>9. SameOutside(m, m2, bp, e)
    <3> SUFFICES ASSUME NEW a \in Addr, a < bp - 4 \/ a >= e - 4 PROVE m2[a] = m[a]
      BY DEF SameOutside
    <3>1. a \in Nat
      BY RegionFacts
    <3>2. (a < y - 4 \/ a >= e - 4) /\ (a < bp - 4 \/ a >= y - 4)
      BY <3>1, <2>1, <1>1
    <3> QED BY <3>2, <2>5, <2>7 DEF SameOutside
  <2>10. Tagged(m2, Cut(T, bp, y), k)
    <3>1. bp + 8 <= y /\ y + 8 <= e
      BY <2>1, <1>1
    <3> QED BY <3>1, <2>1, <2>7, <2>8, <2>9, <1>1, CutTagged DEF e
  <2>11. place(H, bp, asize) = add_block(HeapOf(m2, k, l), y)
    <3>1. [H EXCEPT !.m = m2] = HeapOf(m2, k, l)
      BY <1>3
    <3> QED BY <3>1, <2>4, <2>6 DEF m2
  <2> QED BY <2>3, <2>8, <2>9, <2>10, <2>11 DEF e, H, y
<1>5. CASE ~((e - bp) - asize >= 2 * DSIZE)
  <2> DEFINE m1 == PutTags(m, bp, e - bp, 1)
  <2>1. place(H, bp, asize) = HeapOf(m1, k, l)
    <3>1. place(H, bp, asize) = [H EXCEPT !.m = PutTags(@, bp, e - bp, 1)]
      BY <1>2, <1>3, <1>5 DEF place
    <3>2. [H EXCEPT !.m = PutTags(@, bp, e - bp, 1)] = [H EXCEPT !.m = m1]
      BY <1>3
    <3> HIDE DEF m1
    <3> QED BY <3>1, <3>2, <1>3
  <2>2. Placed(T, bp, asize) = Join(T, bp, e, 1) /\ ~(Size(T, bp) - asize >= 2 * DSIZE)
    BY <1>1, <1>5 DEF Placed, e
  <2>3. bp < e /\ bp + 8 <= e
    BY <1>1
  <2>4. /\ Mem(m1) /\ m1[bp - 4] = PACK(e - bp, 1) /\ m1[e - 8] = PACK(e - bp, 1)
        /\ SameOutside(m, m1, bp, e)
        /\ \A a \in Addr : a # bp - 4 /\ a # e - 8 => m1[a] = m[a]
    <3>1. /\ Mem(m1) /\ m1[bp - 4] = PACK(e - bp, 1) /\ m1[e - 8] = PACK(e - bp, 1)
          /\ SameOutside(m, m1, bp, e)
      BY <2>3, <1>1, <1>2, PutTagsFacts
    <3>2. \A a \in Addr : a # bp - 4 /\ a # e - 8 => m1[a] = m[a]
      BY <2>3, <1>1, <1>2, PutTagsOnly
    <3> QED BY <3>1, <3>2
  <2> HIDE DEF m1
  <2>5. Tagged(m1, Join(T, bp, e, 1), k)
    BY <2>3, <2>4, <1>1, JoinTagged
  <2>6. m1[bp] = m[bp] /\ m1[bp + 4] = m[bp + 4]
    <3>1. /\ bp # bp - 4 /\ bp # e - 8 /\ bp + 4 # bp - 4 /\ bp + 4 # e - 8
      BY <1>1
    <3> QED BY <3>1, <2>4, <1>1
  <2> QED BY <2>1, <2>2, <2>4, <2>5, <2>6 DEF e, H
<1> QED BY <1>4, <1>5

(* Placing a block and taking it from the list: one block more is          *)
(* allocated, and no payload is touched.                                   *)
LEMMA PlaceMakes ==
  ASSUME NEW m, NEW T, NEW k, Shape(T, k), Roomy(T), Tagged(m, T, k),
         NEW l, ListOf(l, Frees(T)), Linked(m, l),
         NEW bp \in Frees(T), NEW asize \in Nat, asize % 8 = 0, asize >= 16,
         asize <= Size(T, bp)
  PROVE  \E m2 : /\ remove_block(place(HeapOf(m, k, l), bp, asize), bp)
                       = HeapOf(m2, k, PlacedList(T, l, bp, asize))
                 /\ Tagged(m2, Placed(T, bp, asize), k)
                 /\ Linked(m2, PlacedList(T, l, bp, asize))
                 /\ SameData(m, m2, T, Owned(T))
<1> DEFINE e == EndOf(T, bp)
           y == bp + asize
           P == Placed(T, bp, asize)
           F == Frees(T)
<1>1. bp \in Blocks(T) \ {h0} /\ bp \in Blocks(T) /\ IsFree(T, bp) /\ bp \in Int /\ e \in Int
      /\ bp \in Nat /\ bp % 8 = 0 /\ e = bp + Size(T, bp) /\ Size(T, bp) \in Nat /\ h0 \in Nat
      /\ h0 <= bp
  BY ShapeFacts, RegionFacts DEF Frees
<1>2. PICK m2 : /\ place(HeapOf(m, k, l), bp, asize)
                     = (IF Size(T, bp) - asize >= 2 * DSIZE
                        THEN add_block(HeapOf(m2, k, l), y)
                        ELSE HeapOf(m2, k, l))
                /\ Tagged(m2, P, k) /\ SameOutside(m, m2, bp, e)
                /\ m2[bp] = m[bp] /\ m2[bp + 4] = m[bp + 4]
  BY PlaceTags
<1>3. \A b \in Blocks(T) : b # bp => EndOf(T, b) <= bp \/ b >= e
  <2>1. \A b \in Blocks(T) : b \in Nat /\ e \in Nat
    BY <1>1, ShapeFacts
  <2> QED BY <2>1, <1>1, Sides
<1>4. ListOf(PlacedList(T, l, bp, asize), Frees(P)) /\ Roomy(P)
  BY PlacedFacts
<1>5. /\ Shape(P, k) /\ Blocks(T) \subseteq Blocks(P)
      /\ \A b \in Blocks(T) : b # bp => P[b] = T[b]
      /\ Size(T, bp) - asize >= 2 * DSIZE => y \in Blocks(P) \ {h0} /\ y \notin Blocks(T)
  <2>1. CASE Size(T, bp) - asize >= 2 * DSIZE
    <3>1. y \in Nat /\ y % 8 = 0 /\ bp + 8 <= y /\ y + 8 <= e /\ y # h0
      <4>1. y % 8 = 0
        BY <1>1, AlignedSum
      <4> QED BY <4>1, <2>1, <1>1 DEF DSIZE
    <3>2. P = Cut(T, bp, y)
      BY <2>1 DEF Placed
    <3> HIDE DEF y, P, e
    <3>3. /\ Shape(P, k) /\ y \notin Blocks(T) /\ Blocks(P) = Blocks(T) \cup {y}
          /\ \A b \in Blocks(T) : b # bp => P[b] = T[b]
      <4>1. bp \in Blocks(T) \ {h0} /\ y + 8 <= EndOf(T, bp)
        BY <3>1, <1>1 DEF e
      <4> QED BY <3>1, <3>2, <4>1, CutShape
    <3> QED BY <3>1, <3>3
  <2>2. CASE ~(Size(T, bp) - asize >= 2 * DSIZE)
    <3>1. P = Join(T, bp, EndOf(T, bp), 1)
      BY <2>2 DEF Placed
    <3> HIDE DEF P
    <3> QED BY <3>1, <2>2, <1>1, RetagShape
  <2> QED BY <2>1, <2>2
<1> DEFINE r == remove_block(place(HeapOf(m, k, l), bp, asize), bp)
<1> HIDE DEF e, y, P
<1>6. Linked(m2, l)
  <2> DEFINE B == (F \cup {h0}) \ {bp}
  <2>1. B \subseteq Blocks(T) /\ \A b \in B : EndOf(T, b) <= bp \/ b >= e
    <3>1. h0 \in Blocks(T) /\ h0 # bp
      BY <1>1, ShapeFacts
    <3> QED BY <3>1, <1>3 DEF Frees
  <2> HIDE DEF B
  <2>2. SameLinks(m, m2, B)
    BY <2>1, <1>1, <1>2, OutsideLinks
  <2>3. SameLinks(m, m2, F \cup {h0})
    BY <2>2, <1>2 DEF SameLinks, B
  <2> QED BY <2>3, LinkKeep
<1>7. SameData(m, m2, T, Owned(T))
  <2> DEFINE A == Owned(T)
  <2>1. A \subseteq Blocks(T) /\ \A b \in A : EndOf(T, b) <= bp \/ b >= e
    BY <1>1, <1>3 DEF Owned, Allocs
  <2> HIDE DEF A
  <2> QED BY <2>1, <1>1, <1>2, DataOutside DEF A
<1>8. Keeps(T, P, Owned(T)) /\ Inner(P, F)
  <2>1. ASSUME NEW b \in Owned(T) PROVE b \in Blocks(P) /\ P[b] = T[b]
    BY <1>1, <1>5 DEF Owned, Allocs
  <2>2. h0 \notin F /\ F \subseteq Blocks(P)
    BY <1>5, ShapeFacts DEF Frees
  <2> QED BY <2>1, <2>2 DEF Keeps, Inner
<1>9. ASSUME NEW b \in Owned(T) PROVE b \in Blocks(P) /\ b \in Blocks(T) /\ b \notin F /\ b # h0
  BY <1>5 DEF Owned, Allocs, Frees
<1> DEFINE G == place(HeapOf(m, k, l), bp, asize)
<1>10. CASE Size(T, bp) - asize >= 2 * DSIZE
  <2> DEFINE l1 == Push(l, y)
             m3 == G.m
             F2 == F \cup {y}
  <2>1. G = add_block(HeapOf(m2, k, l), y) /\ PlacedList(T, l, bp, asize) = Drop(l1, bp)
        /\ y \in Blocks(P) \ {h0} /\ y \notin Blocks(T)
    BY <1>2, <1>5, <1>10 DEF PlacedList, y
  <2>2. y \notin F /\ bp \in F2
    BY <2>1 DEF Frees
  <2> HIDE DEF F, G
  <2>3. /\ G = HeapOf(m3, k, l1) /\ Tagged(m3, P, k) /\ Linked(m3, l1)
        /\ SameData(m2, m3, P, Others(P, F2))
    <3>1. /\ Shape(P, k) /\ Roomy(P) /\ Tagged(m2, P, k) /\ Inner(P, F) /\ ListOf(l, F)
          /\ Linked(m2, l) /\ y \in Blocks(P) \ {h0} /\ y \notin F
          /\ G = add_block(HeapOf(m2, k, l), y)
      BY <2>1, <2>2, <1>2, <1>4, <1>5, <1>6, <1>8 DEF F
    <3> QED BY <3>1, Link
  <2>4. ListOf(l1, F2)
    BY <2>2, PushList DEF F
  <2>5. Inner(P, F2)
    BY <2>1, <1>8 DEF Inner
  <2>6. r = remove_block(HeapOf(m3, k, l1), bp)
    BY <2>3 DEF G, r
  <2> HIDE DEF l1, m3, F2, r
  <2>7. /\ r = HeapOf(r.m, k, Drop(l1, bp)) /\ Tagged(r.m, P, k) /\ Linked(r.m, Drop(l1, bp))
        /\ SameData(m3, r.m, P, Others(P, F2))
    <3>1. /\ Shape(P, k) /\ Roomy(P) /\ Tagged(m3, P, k) /\ Inner(P, F2) /\ ListOf(l1, F2)
          /\ Linked(m3, l1) /\ bp \in F2 /\ r = remove_block(HeapOf(m3, k, l1), bp)
      BY <2>2, <2>3, <2>4, <2>5, <2>6, <1>4, <1>5
    <3> QED BY <3>1, Unlink
  <2>8. SameData(m2, m3, P, Owned(T)) /\ SameData(m3, r.m, P, Owned(T))
    <3>1. \A b \in Owned(T) : b \in Others(P, F2)
      BY <2>1, <1>9 DEF F2, F, Others
    <3> QED BY <3>1, <2>3, <2>7 DEF SameData
  <2>9. SameData(m2, r.m, T, Owned(T))
    <3>1. SameData(m2, r.m, P, Owned(T))
      BY <2>8, DataTrans
    <3> QED BY <3>1, <1>8, DataVia
  <2>10. SameData(m, r.m, T, Owned(T))
    BY <2>9, <1>7, DataTrans
  <2> QED BY <2>1, <2>7, <2>10 DEF P, r
<1>11. CASE ~(Size(T, bp) - asize >= 2 * DSIZE)
  <2>1. r = remove_block(HeapOf(m2, k, l), bp) /\ PlacedList(T, l, bp, asize) = Drop(l, bp)
    BY <1>2, <1>11 DEF PlacedList
  <2>2. bp \in F /\ ListOf(l, F)
    OBVIOUS
  <2> HIDE DEF F, r
  <2>3. /\ r = HeapOf(r.m, k, Drop(l, bp)) /\ Tagged(r.m, P, k) /\ Linked(r.m, Drop(l, bp))
        /\ SameData(m2, r.m, P, Others(P, F))
    <3>1. /\ Shape(P, k) /\ Roomy(P) /\ Tagged(m2, P, k) /\ Inner(P, F) /\ ListOf(l, F)
          /\ Linked(m2, l) /\ bp \in F /\ r = remove_block(HeapOf(m2, k, l), bp)
      BY <2>1, <2>2, <1>2, <1>4, <1>5, <1>6, <1>8
    <3> QED BY <3>1, Unlink
  <2>4. SameData(m2, r.m, P, Owned(T))
    BY <2>3, <1>9 DEF SameData, F, Others
  <2>5. SameData(m2, r.m, T, Owned(T))
    BY <2>4, <1>8, DataVia
  <2>6. SameData(m, r.m, T, Owned(T))
    BY <2>5, <1>7, DataTrans
  <2> QED BY <2>1, <2>3, <2>6 DEF P, r
<1> QED BY <1>10, <1>11

-----------------------------------------------------------------------------
(* mm_init *)

(* It depends on the region and the chunk alone. *)
InitOK == SbrkOK(mem_start_brk, 6 * WSIZE) /\ SbrkOK(h0 + 16, ToInt(CHUNKSIZE))

FreshBreak == h0 + 16 + CHUNKSIZE

Fresh == Merged(Grow(Bare(16), h0 + 16, FreshBreak), h0 + 16)

FreshList == GrownList(Bare(16), Empty, h0 + 16, FreshBreak)

(* The prologue alone. *)
LEMMA BareFacts ==
  ASSUME SbrkOK(mem_start_brk, 6 * WSIZE)
  PROVE  /\ Shape(Bare(16), h0 + 16) /\ Roomy(Bare(16)) /\ Separate(Bare(16))
         /\ Allocs(Bare(16)) = {h0} /\ Blocks(Bare(16)) = {h0} /\ ListOf(Empty, Frees(Bare(16)))
         /\ Bare(16)[h0] = PACK(16, 1) /\ EndOf(Bare(16), h0) = h0 + 16
         /\ h0 + 16 <= mem_max_addr /\ SbrkTo(mem_start_brk, 6 * WSIZE) = h0 + 16
         /\ h0 + 16 + CHUNKSIZE < WORD
<1>1. /\ h0 \in Nat /\ h0 % 8 = 0 /\ h0 = mem_start_brk + 8 /\ WORD \in Nat
      /\ mem_max_addr \in Nat /\ mem_start_brk \in Nat /\ mem_start_brk < mem_max_addr
      /\ CHUNKSIZE \in Nat /\ CHUNKSIZE >= 16 /\ mem_max_addr + CHUNKSIZE < WORD
      /\ mem_start_brk % 8 = 0 /\ mem_max_addr % 8 = 0
  BY RegionFacts, ReferAssumption
<1>2. mem_start_brk + 24 < WORD
  BY <1>1
<1>3. h0 + 16 <= mem_max_addr /\ SbrkTo(mem_start_brk, 6 * WSIZE) = h0 + 16
  BY <1>1, <1>2 DEF SbrkOK, SbrkTo, Add32, WSIZE
<1>4. /\ Shape(Bare(16), h0 + 16) /\ Separate(Bare(16)) /\ Allocs(Bare(16)) = {h0}
      /\ Blocks(Bare(16)) = {h0} /\ Bare(16)[h0] = PACK(16, 1)
      /\ Size(Bare(16), h0) = 16 /\ EndOf(Bare(16), h0) = h0 + 16 /\ ~IsFree(Bare(16), h0)
  BY <1>3, BareShape
<1>5. Roomy(Bare(16)) /\ Frees(Bare(16)) = {}
  BY <1>4 DEF Roomy, Frees
<1>6. h0 + 16 + CHUNKSIZE < WORD
  BY <1>1, <1>3
<1> QED BY <1>3, <1>4, <1>5, <1>6, EmptyList

(* The heap mm_init makes, if the region has room for it: the prologue and *)
(* one free block.                                                         *)
LEMMA FreshShape ==
  ASSUME InitOK
  PROVE  /\ Shape(Fresh, FreshBreak) /\ Separate(Fresh) /\ Roomy(Fresh)
         /\ ListOf(FreshList, Frees(Fresh)) /\ Allocs(Fresh) = {h0}
<1> DEFINE k == h0 + 16
<1>1. /\ Shape(Bare(16), k) /\ Roomy(Bare(16)) /\ Separate(Bare(16)) /\ Allocs(Bare(16)) = {h0}
      /\ ListOf(Empty, Frees(Bare(16))) /\ k + CHUNKSIZE < WORD
  BY BareFacts DEF InitOK
<1>2. /\ k \in Nat /\ k % 8 = 0 /\ CHUNKSIZE \in Nat /\ CHUNKSIZE % 8 = 0 /\ CHUNKSIZE >= 16
  BY RegionFacts, ReferAssumption
<1>3. SbrkOK(k, ToInt(CHUNKSIZE)) /\ FreshBreak = k + CHUNKSIZE
  BY DEF InitOK, FreshBreak
<1> HIDE DEF k
<1>4. FreshBreak \in Nat /\ FreshBreak % 8 = 0 /\ k + 8 <= FreshBreak /\ k + 16 <= FreshBreak
      /\ FreshBreak <= mem_max_addr
  <2>1. k + CHUNKSIZE <= mem_max_addr
    BY <1>1, <1>2, <1>3, SbrkFacts
  <2>2. (k + CHUNKSIZE) % 8 = 0
    BY <1>2, AlignedSum
  <2> QED BY <2>1, <2>2, <1>2, <1>3
<1>5. Fresh = Merged(Grow(Bare(16), k, FreshBreak), k)
      /\ FreshList = GrownList(Bare(16), Empty, k, FreshBreak)
  BY DEF Fresh, FreshList, k
<1> DEFINE T == Bare(16)
           e == FreshBreak
<1> HIDE DEF T, e
<1>6. /\ Shape(Merged(Grow(T, k, e), k), e) /\ Separate(Merged(Grow(T, k, e), k))
      /\ Allocs(Merged(Grow(T, k, e), k)) = Allocs(T)
  BY <1>1, <1>4, GrownShape DEF T, e
<1>7. /\ ListOf(GrownList(T, Empty, k, e), Frees(Merged(Grow(T, k, e), k)))
      /\ Roomy(Merged(Grow(T, k, e), k))
  BY <1>1, <1>4, GrownFacts DEF T, e
<1> QED BY <1>1, <1>5, <1>6, <1>7 DEF T, e

(* mm_init, over whatever the region holds. *)
LEMMA InitMakes ==
  ASSUME NEW m, Mem(m), NEW st, NEW r,
         r \in mm_init([m |-> m, brk |-> mem_start_brk, st |-> st])
  PROVE  /\ r.p # NULL <=> InitOK
         /\ Mem(r.h.m)
         /\ InitOK => \E m2 : /\ r.h = HeapOf(m2, FreshBreak, FreshList)
                              /\ Tagged(m2, Fresh, FreshBreak) /\ Linked(m2, FreshList)
<1> DEFINE lo == mem_start_brk
           h == [m |-> m, brk |-> lo, st |-> st]
           m1 == [a \in Addr |-> IF a \in Words(lo, 6 * WSIZE) THEN InitialWord(lo, a) ELSE m[a]]
           g == [m |-> m1, brk |-> SbrkTo(lo, 6 * WSIZE), st |-> lo + 2 * WSIZE]
           T == Bare(16)
           k == h0 + 16
<1>1. /\ h0 \in Nat /\ h0 = lo + 8 /\ lo \in Nat /\ lo > 0 /\ lo % 8 = 0 /\ h0 % 8 = 0
      /\ CHUNKSIZE \in Nat /\ CHUNKSIZE % 8 = 0 /\ CHUNKSIZE >= 16
      /\ mem_max_addr \in Nat /\ WORD \in Nat
  BY RegionFacts, ReferAssumption
<1>2. mm_init(h) = IF SbrkOK(lo, 6 * WSIZE) THEN {extend_heap(g, CHUNKSIZE \div WSIZE)}
                   ELSE {[p |-> NULL, h |-> h]}
  BY DEF mm_init
<1>3. CASE ~SbrkOK(lo, 6 * WSIZE)
  <2>1. r = [p |-> NULL, h |-> h]
    BY <1>2, <1>3
  <2>2. r.p = NULL /\ r.h.m = m
    BY <2>1
  <2> QED BY <2>2, <1>3 DEF InitOK
<1>4. CASE SbrkOK(lo, 6 * WSIZE)
  <2>1. /\ Shape(T, k) /\ Roomy(T) /\ ListOf(Empty, Frees(T)) /\ Blocks(T) = {h0}
        /\ T[h0] = PACK(16, 1) /\ EndOf(T, h0) = k /\ k <= mem_max_addr
        /\ SbrkTo(lo, 6 * WSIZE) = k /\ k + CHUNKSIZE < WORD
    BY <1>4, BareFacts
  <2>2. k \in Nat /\ k % 8 = 0 /\ k = lo + 24 /\ lo + 2 * WSIZE = h0
    BY <1>1 DEF WSIZE
  <2>3. /\ lo + 4 \in Addr /\ lo + 16 \in Addr /\ lo + 20 \in Addr /\ h0 \in Addr
    <3>1. /\ lo < mem_max_addr /\ h0 < mem_max_addr /\ lo + 16 < mem_max_addr
          /\ (lo + 16) % 8 = 0 /\ lo + 16 \in Nat /\ (lo + 16) + 4 = lo + 20
      BY <2>1, <2>2, <1>1
    <3>2. lo + 4 \in Addr /\ h0 \in Addr
      BY <3>1, <1>1, AddrFacts
    <3>3. lo + 16 \in Addr /\ (lo + 16) + 4 \in Addr
      BY <3>1, <1>1, AddrFacts
    <3> QED BY <3>1, <3>2, <3>3
  <2>4. \A a \in Addr : lo <= a /\ a < lo + 24 =>
           m1[a] = IF a = lo + 4 \/ a = lo + 16 THEN PACK(16, 1)
                   ELSE IF a = lo + 20 THEN PACK(0, 1) ELSE 0
    <3> SUFFICES ASSUME NEW a \in Addr, lo <= a, a < lo + 24
                 PROVE  m1[a] = IF a = lo + 4 \/ a = lo + 16 THEN PACK(16, 1)
                                ELSE IF a = lo + 20 THEN PACK(0, 1) ELSE 0
      OBVIOUS
    <3>1. a \in Words(lo, 6 * WSIZE)
      BY DEF Words, WSIZE
    <3>2. m1[a] = InitialWord(lo, a)
      BY <3>1
    <3>3. /\ lo + 1 * WSIZE = lo + 4 /\ lo + 4 * WSIZE = lo + 16 /\ lo + 5 * WSIZE = lo + 20
          /\ 4 * WSIZE = 16 /\ lo + 4 # lo + 20 /\ lo + 16 # lo + 20 /\ lo + 4 # lo + 16
      BY <1>1 DEF WSIZE
    <3> HIDE DEF lo, m1
    <3> QED BY <3>2, <3>3 DEF InitialWord
  <2>5. \A a \in Addr : ~(lo <= a /\ a < lo + 24) => m1[a] = m[a]
    BY DEF Words, WSIZE
  <2>6. m1 = [a \in Addr |-> m1[a]]
    OBVIOUS
  <2> HIDE DEF m1
  <2>7. Mem(m1)
    <3>1. PACK(16, 1) \in Nat /\ PACK(0, 1) \in Nat
      BY PackFacts
    <3>2. \A a \in Addr : m[a] \in Nat
      BY DEF Mem
    <3>3. \A a \in Addr : m1[a] \in Nat
      BY <3>1, <3>2, <2>4, <2>5
    <3> QED BY <3>3, <2>6 DEF Mem
  <2>8. m1[lo + 4] = PACK(16, 1) /\ m1[lo + 16] = PACK(16, 1) /\ m1[lo + 20] = PACK(0, 1)
        /\ m1[h0] = NULL
    <3>1. /\ lo <= lo + 4 /\ lo + 4 < lo + 24 /\ lo + 16 < lo + 24 /\ lo + 20 < lo + 24
          /\ lo <= h0 /\ h0 < lo + 24 /\ lo <= lo + 16 /\ lo <= lo + 20
          /\ h0 # lo + 4 /\ h0 # lo + 16 /\ h0 # lo + 20
          /\ lo + 20 # lo + 4 /\ lo + 20 # lo + 16
      BY <1>1
    <3> HIDE DEF lo
    <3> QED BY <3>1, <2>3, <2>4 DEF NULL
  <2>9. Tagged(m1, T, k)
    <3>1. h0 - 4 = lo + 4 /\ k - 8 = lo + 16 /\ k - 4 = lo + 20
      BY <1>1, <2>2
    <3> HIDE DEF T, lo, k
    <3> QED BY <3>1, <2>1, <2>7, <2>8 DEF Tagged
  <2>10. Linked(m1, Empty)
    <3>1. Empty.len = 0 /\ Empty.at[0] = NULL /\ Empty.at[1] = h0
      BY DEF Empty
    <3> HIDE DEF lo
    <3> QED BY <3>1, <2>8 DEF Linked
  <2>11. r = extend_heap(HeapOf(m1, k, Empty), CHUNKSIZE \div WSIZE)
    <3>1. g = HeapOf(m1, k, Empty)
      BY <2>1, <2>2, EmptyList DEF HeapOf
    <3> HIDE DEF g, h, k
    <3>2. mm_init(h) = {extend_heap(g, CHUNKSIZE \div WSIZE)}
      BY <1>2, <1>4
    <3> QED BY <3>1, <3>2 DEF h
  <2>12. FreshBreak = k + CHUNKSIZE
    BY DEF FreshBreak
  <2>13. /\ Fresh = Merged(Grow(T, k, FreshBreak), k)
         /\ FreshList = GrownList(T, Empty, k, FreshBreak)
    BY DEF Fresh, FreshList
  <2> DEFINE n == CHUNKSIZE
  <2> HIDE DEF T, k, n
  <2>14. /\ n \in Nat /\ n % 8 = 0 /\ n >= 16 /\ k + n < WORD
         /\ Shape(T, k) /\ Roomy(T) /\ Tagged(m1, T, k)
         /\ ListOf(Empty, Frees(T)) /\ Linked(m1, Empty)
    BY <1>1, <2>1, <2>9, <2>10 DEF n
  <2>15. CASE ~SbrkOK(k, ToInt(n))
    <3>1. r = [p |-> NULL, h |-> HeapOf(m1, k, Empty)]
      <4>1. n \in Nat /\ n % 8 = 0 /\ ~SbrkOK(k, ToInt(n))
        BY <2>14, <2>15
      <4>2. extend_heap(HeapOf(m1, k, Empty), n \div WSIZE)
               = [p |-> NULL, h |-> HeapOf(m1, k, Empty)]
        BY <4>1, ExtendFails
      <4> QED BY <4>2, <2>11 DEF n
    <3>2. r.p = NULL /\ r.h.m = m1
      BY <3>1, HeapFacts
    <3> QED BY <3>2, <2>7, <2>15 DEF InitOK, k, n
  <2>16. CASE SbrkOK(k, ToInt(n))
    <3>1. InitOK
      BY <1>4, <2>16 DEF InitOK, k, n
    <3>2. PICK m2 : /\ r = [p |-> Start(Grow(T, k, FreshBreak), k),
                            h |-> HeapOf(m2, FreshBreak, FreshList)]
                    /\ Tagged(m2, Fresh, FreshBreak) /\ Linked(m2, FreshList)
      <4>1. \E m2 : /\ extend_heap(HeapOf(m1, k, Empty), n \div WSIZE)
                          = [p |-> Start(Grow(T, k, k + n), k),
                             h |-> HeapOf(m2, k + n, GrownList(T, Empty, k, k + n))]
                    /\ Tagged(m2, Merged(Grow(T, k, k + n), k), k + n)
                    /\ Linked(m2, GrownList(T, Empty, k, k + n))
        BY <2>14, <2>16, ExtendMakes
      <4> QED BY <4>1, <2>11, <2>12, <2>13 DEF n
    <3>3. Mem(m2) /\ r.h.m = m2 /\ r.h = HeapOf(m2, FreshBreak, FreshList)
      BY <3>2, HeapFacts DEF Tagged
    <3>4. Start(Grow(T, k, FreshBreak), k) # NULL
      <4>1. FreshBreak \in Nat /\ FreshBreak <= mem_max_addr /\ k + 16 <= FreshBreak
            /\ FreshBreak % 8 = 0
        <5>1. k + n <= mem_max_addr
          BY <1>1, <2>1, <2>2, <2>16, SbrkFacts DEF n
        <5> QED BY <5>1, <1>1, <2>2, <2>12, AlignedSum DEF n
      <4> DEFINE U == Grow(T, k, FreshBreak)
      <4>2. Shape(U, FreshBreak) /\ k \in Blocks(U) \ {h0}
        BY <4>1, <2>1, GrowFacts
      <4> HIDE DEF U
      <4>3. Start(U, k) \in Blocks(U)
        BY <4>2, StartStop
      <4>4. Start(U, k) \in Nat /\ h0 <= Start(U, k)
        BY <4>2, <4>3, ShapeFacts
      <4> QED BY <4>4, <1>1 DEF NULL, U
    <3>5. r.p # NULL
      BY <3>2, <3>4
    <3> QED BY <3>1, <3>2, <3>3, <3>5
  <2> QED BY <2>15, <2>16
<1> QED BY <1>3, <1>4

-----------------------------------------------------------------------------
(* First fit *)

(* A list of free blocks is short enough for the bound on its length. *)
LEMMA ShortList ==
  ASSUME NEW T, NEW k, Shape(T, k), NEW l, ListOf(l, Frees(T))
  PROVE  l.len \in Nat /\ l.len < Most
<1>1. /\ l.len \in Nat
      /\ \A i \in 1 .. l.len : l.at[i] \in Frees(T)
      /\ \A i, j \in 1 .. l.len : l.at[i] = l.at[j] => i = j
  BY DEF ListOf
<1> DEFINE n == l.len
           at == l.at
<1>2. /\ n \in Nat
      /\ \A i \in 1 .. n : at[i] \in Frees(T)
      /\ \A i, j \in 1 .. n : at[i] = at[j] => i = j
  BY <1>1
<1> HIDE DEF n, at
<1>3. n < Most
  BY <1>2, ShortWalk
<1> QED BY <1>2, <1>3 DEF n

(* Listed walks along the list, and stays at the prologue. *)
LEMMA ListedFacts ==
  ASSUME NEW m, NEW T, NEW k, Shape(T, k), Roomy(T), Tagged(m, T, k),
         NEW l, ListOf(l, Frees(T)), Linked(m, l)
  PROVE  /\ DOMAIN Listed(m, FirstIn(l)) = 0 .. Most
         /\ \A i \in 0 .. l.len : Listed(m, FirstIn(l))[i] = l.at[i + 1]
<1> DEFINE bp == FirstIn(l)
           Ends(c) == GET_ALLOC(m, HDRP(c)) = 1
           G(f) == [i \in 0 .. Most |-> IF i = 0 THEN bp ELSE IF Ends(f[i - 1]) THEN f[i - 1]
                                        ELSE NEXT_FREE(m, f[i - 1])]
           at(i) == IF i < l.len THEN l.at[i + 1] ELSE h0
           g == [i \in 0 .. Most |-> at(i)]
           f0 == CHOOSE f : f = G(f)
<1>1. l.len \in Nat /\ l.len < Most /\ Most \in Nat
  BY ShortList, MostFacts
<1>2. h0 \notin Frees(T) /\ NULL \notin Frees(T) /\ Frees(T) \subseteq Blocks(T) /\ h0 \in Blocks(T)
  BY CellBlocks DEF Frees
<1>3. /\ \A i \in 1 .. l.len : l.at[i] \in Frees(T)
      /\ l.at[l.len + 1] = h0
  BY DEF ListOf
<1>4. Ends(h0) /\ \A c \in Frees(T) : ~Ends(c)
  BY <1>2, ReadBlock, ShapeFacts DEF Frees
<1>5. \A i \in 1 .. l.len : NEXT_FREE(m, l.at[i]) = l.at[i + 1]
  BY DEF Linked, NEXT_FREE, GET, WSIZE
<1>6. at(0) = bp
  BY <1>1, <1>3 DEF FirstIn
<1>7. ASSUME NEW i \in 1 .. Most
      PROVE  at(i) = IF Ends(at(i - 1)) THEN at(i - 1) ELSE NEXT_FREE(m, at(i - 1))
  <2>1. CASE i - 1 < l.len
    <3>1. i \in 1 .. l.len /\ at(i - 1) = l.at[i] /\ (i = l.len => at(i) = l.at[i + 1])
          /\ (i < l.len => at(i) = l.at[i + 1])
      BY <2>1, <1>1, <1>3
    <3>2. at(i) = l.at[i + 1]
      BY <3>1, <1>1
    <3> HIDE DEF at, Ends
    <3> QED BY <3>1, <3>2, <1>3, <1>4, <1>5
  <2>2. CASE ~(i - 1 < l.len)
    <3>1. at(i - 1) = h0 /\ at(i) = h0
      BY <2>2, <1>1
    <3> HIDE DEF at, Ends
    <3> QED BY <3>1, <1>4
  <2> QED BY <2>1, <2>2
<1> HIDE DEF at, Ends, bp
<1>8. g = G(g)
  <2>1. ASSUME NEW i \in 0 .. Most PROVE g[i] = G(g)[i]
    <3>1. CASE i = 0
      BY <3>1, <1>6
    <3>2. CASE i # 0
      <4>1. i \in 1 .. Most /\ i - 1 \in 0 .. Most
        BY <3>2, <1>1
      <4> QED BY <4>1, <3>2, <1>7
    <3> QED BY <3>1, <3>2
  <2>2. g = [i \in 0 .. Most |-> g[i]] /\ G(g) = [i \in 0 .. Most |-> G(g)[i]]
    OBVIOUS
  <2> HIDE DEF g, G
  <2> QED BY <2>1, <2>2
<1>9. f0 = G(f0)
  <2> HIDE DEF G, g
  <2> QED BY <1>8
<1>10. Listed(m, bp) = f0
  BY DEF Listed, Most, Ends
<1> HIDE DEF f0, g
<1>11. /\ f0 = [i \in 0 .. Most |-> f0[i]] /\ f0[0] = bp
       /\ \A i \in 1 .. Most : f0[i] = IF Ends(f0[i - 1]) THEN f0[i - 1]
                                       ELSE NEXT_FREE(m, f0[i - 1])
  <2>1. 0 \in 0 .. Most /\ \A i \in 1 .. Most : i \in 0 .. Most /\ i # 0
    BY <1>1
  <2>2. f0 = [i \in 0 .. Most |-> G(f0)[i]] /\ \A i \in 0 .. Most : f0[i] = G(f0)[i]
    BY <1>9
  <2> QED BY <2>1, <2>2
<1> HIDE DEF G
<1> DEFINE P == {i \in Nat : i <= Most => f0[i] = at(i)}
<1>12. 0 \in P
  BY <1>6, <1>11
<1>13. ASSUME NEW i \in P PROVE i + 1 \in P
  <2>1. CASE i + 1 <= Most
    <3>1. i + 1 \in 1 .. Most /\ (i + 1) - 1 = i /\ i <= Most
      BY <2>1, <1>1
    <3>2. f0[i] = at(i)
      BY <3>1
    <3> HIDE DEF P
    <3>3. f0[i + 1] = at(i + 1)
      BY <3>1, <3>2, <1>7, <1>11
    <3> QED BY <3>3 DEF P
  <2> QED BY <2>1
<1>14. P = Nat
  <2> HIDE DEF P
  <2>1. P \subseteq Nat
    BY DEF P
  <2> QED BY <2>1, <1>12, <1>13, Induction
<1>15. ASSUME NEW i \in 0 .. l.len PROVE f0[i] = l.at[i + 1]
  <2>1. f0[i] = at(i)
    BY <1>1, <1>14
  <2> QED BY <2>1, <1>1, <1>3 DEF at
<1>16. DOMAIN f0 = 0 .. Most
  BY <1>11
<1> QED BY <1>10, <1>15, <1>16 DEF bp

(* The places in the list of the blocks that fit.                          *)
Fitting(T, l, asize) == {i \in 1 .. l.len : asize <= Size(T, l.at[i])}

(* find_fit_first finds the first block of the list that fits, if there is one. *)
LEMMA FirstFit ==
  ASSUME NEW m, NEW T, NEW k, Shape(T, k), Roomy(T), Tagged(m, T, k),
         NEW l, ListOf(l, Frees(T)), Linked(m, l), NEW asize \in Nat
  PROVE  /\ Fitting(T, l, asize) = {} => find_fit_first(m, FirstIn(l), asize) = NULL
         /\ Fitting(T, l, asize) # {} =>
               find_fit_first(m, FirstIn(l), asize) = l.at[FirstOf(Fitting(T, l, asize))]
<1> DEFINE b == Listed(m, FirstIn(l))
           F == Fitting(T, l, asize)
           Ends(i) == GET_ALLOC(m, HDRP(b[i])) = 1
           Goes(i) == ~Ends(i) /\ GET_SIZE(m, HDRP(b[i])) < asize
           First(i) == ~Goes(i) /\ \A j \in 0 .. i - 1 : Goes(j)
           n == CHOOSE i \in DOMAIN b : First(i)
<1>1. l.len \in Nat /\ l.len < Most /\ Most \in Nat
  BY ShortList, MostFacts
<1>2. DOMAIN b = 0 .. Most /\ \A i \in 0 .. l.len : b[i] = l.at[i + 1]
  BY ListedFacts
<1>3. find_fit_first(m, FirstIn(l), asize) = IF Ends(n) THEN NULL ELSE b[n]
  BY DEF find_fit_first
<1> HIDE DEF b
<1>4. /\ \A i \in 1 .. l.len : l.at[i] \in Blocks(T) /\ IsFree(T, l.at[i])
      /\ l.at[l.len + 1] = h0 /\ h0 \in Blocks(T) /\ ~IsFree(T, h0)
  BY ShapeFacts DEF ListOf, Frees
<1>5. Ends(l.len)
  <2>1. b[l.len] = h0
    BY <1>1, <1>2, <1>4
  <2> QED BY <2>1, <1>4, ReadBlock
<1>6. ASSUME NEW i \in 0 .. l.len - 1
      PROVE  /\ i + 1 \in 1 .. l.len /\ ~Ends(i) /\ b[i] = l.at[i + 1]
             /\ Goes(i) <=> i + 1 \notin F
  <2>1. i + 1 \in 1 .. l.len /\ i \in 0 .. l.len
    BY <1>1
  <2> DEFINE c == l.at[i + 1]
  <2>2. b[i] = c /\ c \in Blocks(T) /\ IsFree(T, c)
    BY <2>1, <1>2, <1>4
  <2>3. i + 1 \in F <=> asize <= Size(T, c)
    BY <2>1 DEF Fitting
  <2> HIDE DEF c, F
  <2>4. GET_ALLOC(m, HDRP(c)) = 0 /\ GET_SIZE(m, HDRP(c)) = Size(T, c) /\ Size(T, c) \in Nat
    BY <2>2, ReadBlock, ShapeFacts
  <2> QED BY <2>1, <2>2, <2>3, <2>4 DEF c
<1>7. F \subseteq Nat /\ F \subseteq 1 .. l.len
  BY DEF Fitting
<1> HIDE DEF F, Ends, Goes
<1>8. ASSUME NEW i \in 0 .. l.len, NEW j \in DOMAIN b, First(i), First(j) PROVE i = j
  <2>1. j \in 0 .. Most
    BY <1>2
  <2>2. ~(i < j)
    BY <2>1, <1>1, <1>8
  <2>3. ~(j < i)
    BY <2>1, <1>1, <1>8
  <2> QED BY <2>1, <2>2, <2>3, <1>1
<1>9. ASSUME NEW i \in 0 .. l.len, First(i) PROVE n = i
  <2>1. i \in DOMAIN b
    BY <1>1, <1>2
  <2> HIDE DEF First
  <2>2. n \in DOMAIN b /\ First(n)
    BY <2>1, <1>9
  <2> HIDE DEF n
  <2> QED BY <2>2, <1>8, <1>9
<1> HIDE DEF n
<1>10. CASE F = {}
  <2>1. First(l.len) /\ l.len \in 0 .. l.len
    BY <1>1, <1>5, <1>6, <1>10 DEF Goes
  <2>2. n = l.len
    BY <2>1, <1>9
  <2> QED BY <2>2, <1>3, <1>5, <1>10 DEF F
<1>11. CASE F # {}
  <2> DEFINE i == FirstOf(F)
  <2>1. i \in F /\ \A j \in F : i <= j
    BY <1>7, <1>11, Least DEF FirstOf
  <2> HIDE DEF i
  <2>2. i \in 1 .. l.len /\ i - 1 \in 0 .. l.len - 1 /\ i - 1 \in 0 .. l.len /\ (i - 1) + 1 = i
    BY <2>1, <1>1, <1>7
  <2>3. ~Goes(i - 1) /\ ~Ends(i - 1) /\ b[i - 1] = l.at[i]
    BY <2>1, <2>2, <1>6
  <2>4. ASSUME NEW j \in 0 .. (i - 1) - 1 PROVE Goes(j)
    <3>1. j \in 0 .. l.len - 1 /\ j + 1 < i
      BY <2>2, <1>1
    <3>2. j + 1 \notin F
      BY <3>1, <2>1, <2>2
    <3> QED BY <3>1, <3>2, <1>6
  <2>5. n = i - 1
    BY <2>2, <2>3, <2>4, <1>9
  <2> QED BY <2>3, <2>5, <1>3, <1>11 DEF i, F
<1> QED BY <1>10, <1>11

(* The block that serves a request of asize bytes is a free block with room. *)
LEMMA FittingFacts ==
  ASSUME NEW T, NEW k, Shape(T, k), NEW l, ListOf(l, Frees(T)), NEW asize,
         Fitting(T, l, asize) # {}, NEW p, p = l.at[FirstOf(Fitting(T, l, asize))]
  PROVE  /\ p \in Frees(T) /\ p \in Blocks(T) \ {h0} /\ IsFree(T, p) /\ asize <= Size(T, p)
<1> DEFINE F == Fitting(T, l, asize)
<1>1. F \in SUBSET Nat /\ F # {}
  BY DEF Fitting
<1> HIDE DEF F
<1>2. FirstOf(F) \in F
  BY <1>1, FirstFacts
<1>3. FirstOf(F) \in 1 .. l.len /\ asize <= Size(T, l.at[FirstOf(F)])
  BY <1>2 DEF F, Fitting
<1>4. p = l.at[FirstOf(F)]
  BY DEF F
<1>5. p \in Frees(T)
  BY <1>3, <1>4 DEF ListOf
<1>6. p \in Blocks(T) \ {h0} /\ IsFree(T, p)
  BY <1>5, ShapeFacts DEF Frees
<1> QED BY <1>3, <1>4, <1>5, <1>6

-----------------------------------------------------------------------------
(* Serving a request *)

(* The size of the block for a request. *)
Rounded(size) == ALIGN(size + DSIZE)

LEMMA RoundedFacts ==
  ASSUME NEW size \in Nat, size > 0
  PROVE  /\ Rounded(size) \in Nat /\ Rounded(size) % 8 = 0
         /\ Rounded(size) >= 16 /\ Rounded(size) >= size + 8
         /\ Rounded(size) <= size + 16
<1>1. Rounded(size) = 8 * ((size + 15) \div 8)
  <2>1. (size + 8) + 7 = size + 15
    OBVIOUS
  <2> QED BY <2>1 DEF Rounded, ALIGN, DSIZE
<1>2. /\ (size + 15) \div 8 \in Nat /\ 8 * ((size + 15) \div 8) <= size + 15
      /\ 8 * ((size + 15) \div 8) > size + 7 /\ (size + 15) \div 8 >= 2
  OBVIOUS
<1>3. ASSUME NEW q \in Nat PROVE (8 * q) % 8 = 0
  OBVIOUS
<1> QED BY <1>1, <1>2, <1>3

(* What mm_malloc makes of the tags and of the list: which block it gives, *)
(* and whether.                                                            *)
Asked(size) == MAX(Rounded(size), CHUNKSIZE)

Fits(T, l, size) == Fitting(T, l, Rounded(size)) # {}

Room(T, k, l, size) == size # 0 /\ (Fits(T, l, size) \/ SbrkOK(k, ToInt(Asked(size))))

TagsWith(T, k, l, size) ==
    IF Fits(T, l, size) THEN T ELSE Merged(Grow(T, k, k + Asked(size)), k)

ListWith(T, k, l, size) ==
    IF Fits(T, l, size) THEN l ELSE GrownList(T, l, k, k + Asked(size))

Given(T, k, l, size) ==
    IF Fits(T, l, size) THEN l.at[FirstOf(Fitting(T, l, Rounded(size)))]
    ELSE Start(Grow(T, k, k + Asked(size)), k)

TagsAfter(T, k, l, size) ==
    Placed(TagsWith(T, k, l, size), Given(T, k, l, size), Rounded(size))

ListAfter(T, k, l, size) ==
    PlacedList(TagsWith(T, k, l, size), ListWith(T, k, l, size), Given(T, k, l, size),
               Rounded(size))

BreakAfter(T, k, l, size) == IF Fits(T, l, size) THEN k ELSE k + Asked(size)

(* How much extend_heap is asked for. *)
LEMMA ExtendBy ==
  ASSUME NEW size \in Sizes, size # 0, NEW k \in Nat, k <= mem_max_addr,
         NEW n, n = Asked(size)
  PROVE  /\ n \in Nat /\ n % 8 = 0 /\ n >= 16 /\ k + n < WORD /\ Rounded(size) <= n
         /\ size \in Nat /\ size > 0
<1>1. /\ size \in Nat /\ size > 0 /\ mem_max_addr + size + 16 < WORD
      /\ CHUNKSIZE \in Nat /\ CHUNKSIZE >= 16 /\ CHUNKSIZE % 8 = 0
      /\ mem_max_addr + CHUNKSIZE < WORD
  BY ReferAssumption
<1>2. /\ Rounded(size) \in Nat /\ Rounded(size) % 8 = 0
      /\ Rounded(size) >= 16 /\ Rounded(size) <= size + 16
  BY <1>1, RoundedFacts
<1>3. WORD \in Nat /\ mem_max_addr \in Nat
  BY RegionFacts
<1> QED BY <1>1, <1>2, <1>3 DEF MAX, Asked

(* The heap in which the block is placed. *)
LEMMA RoomShape ==
  ASSUME NEW T, NEW k, Shape(T, k), Separate(T), Roomy(T), NEW l, ListOf(l, Frees(T)),
         NEW size \in Sizes, Room(T, k, l, size),
         NEW V, V = TagsWith(T, k, l, size), NEW l2, l2 = ListWith(T, k, l, size),
         NEW e, e = BreakAfter(T, k, l, size), NEW p, p = Given(T, k, l, size),
         NEW asize, asize = Rounded(size)
  PROVE  /\ Shape(V, e) /\ Separate(V) /\ Roomy(V) /\ ListOf(l2, Frees(V))
         /\ Allocs(V) = Allocs(T) /\ Keeps(T, V, Allocs(T))
         /\ p \in Frees(V) /\ p \in Blocks(V) \ {h0} /\ IsFree(V, p) /\ asize <= Size(V, p)
         /\ asize \in Nat /\ asize % 8 = 0 /\ asize >= 16 /\ asize >= size + 8
         /\ k <= e /\ size \in Nat /\ size # 0
<1>1. /\ k \in Nat /\ k % 8 = 0 /\ k <= mem_max_addr
  BY ShapeFacts
<1>2. /\ Asked(size) \in Nat /\ Asked(size) % 8 = 0 /\ Asked(size) >= 16
      /\ k + Asked(size) < WORD /\ asize <= Asked(size) /\ size \in Nat /\ size > 0
  BY <1>1, ExtendBy DEF Room
<1>3. asize \in Nat /\ asize % 8 = 0 /\ asize >= 16 /\ asize >= size + 8 /\ size # 0
  BY <1>2, RoundedFacts
<1>4. CASE Fits(T, l, size)
  <2>1. Fitting(T, l, asize) # {} /\ V = T /\ l2 = l /\ e = k
        /\ p = l.at[FirstOf(Fitting(T, l, asize))]
    BY <1>4 DEF Fits, TagsWith, ListWith, BreakAfter, Given
  <2>2. p \in Frees(T) /\ p \in Blocks(T) \ {h0} /\ IsFree(T, p) /\ asize <= Size(T, p)
    BY <2>1, FittingFacts
  <2> QED BY <2>1, <2>2, <1>1, <1>2, <1>3 DEF Keeps, Allocs
<1>5. CASE ~Fits(T, l, size)
  <2> DEFINE n == Asked(size)
  <2>1. SbrkOK(k, ToInt(n)) /\ e = k + n /\ p = Start(Grow(T, k, e), k)
        /\ V = Merged(Grow(T, k, e), k) /\ l2 = GrownList(T, l, k, e)
    BY <1>5 DEF Room, BreakAfter, Given, TagsWith, ListWith
  <2> HIDE DEF n
  <2>2. n \in Nat /\ n % 8 = 0 /\ n >= 16 /\ k + n < WORD /\ asize <= n
    BY <1>2 DEF n
  <2>3. e <= mem_max_addr
    BY <2>1, <2>2, <1>1, SbrkFacts
  <2>4. e % 8 = 0
    BY <2>1, <2>2, <1>1, AlignedSum
  <2>5. e \in Nat /\ k + 16 <= e /\ k + 8 <= e /\ e - k = n
    BY <2>1, <2>2, <1>1
  <2>6. /\ Shape(V, e) /\ Separate(V) /\ Allocs(V) = Allocs(T) /\ Keeps(T, V, Allocs(T))
        /\ p \in Blocks(V) \ {h0} /\ IsFree(V, p) /\ e - k <= Size(V, p)
    BY <2>1, <2>3, <2>4, <2>5, GrownShape
  <2>7. ListOf(l2, Frees(V)) /\ Roomy(V)
    BY <2>1, <2>3, <2>4, <2>5, GrownFacts
  <2>8. asize <= Size(V, p)
    <3>1. Size(V, p) \in Nat
      BY <2>6, ShapeFacts
    <3> QED BY <3>1, <2>2, <2>5, <2>6, <1>3
  <2>9. p \in Frees(V)
    BY <2>6 DEF Frees
  <2> QED BY <2>5, <2>6, <2>7, <2>8, <2>9, <1>1, <1>2, <1>3
<1> QED BY <1>4, <1>5

(* The heap after an allocation: one block more is allocated, with room    *)
(* for the payload and its tags.                                           *)
LEMMA ServedShape ==
  ASSUME NEW T, NEW k, Shape(T, k), Separate(T), Roomy(T), NEW l, ListOf(l, Frees(T)),
         NEW size \in Sizes, Room(T, k, l, size),
         NEW U, U = TagsAfter(T, k, l, size), NEW l2, l2 = ListAfter(T, k, l, size),
         NEW e, e = BreakAfter(T, k, l, size), NEW p, p = Given(T, k, l, size)
  PROVE  /\ Shape(U, e) /\ Separate(U) /\ Roomy(U) /\ ListOf(l2, Frees(U))
         /\ p \notin Allocs(T) /\ p # h0
         /\ Allocs(U) = Allocs(T) \cup {p} /\ Keeps(T, U, Allocs(T))
         /\ size \in Nat /\ size > 0 /\ size + 8 <= Size(U, p) /\ p # NULL /\ k <= e
<1> DEFINE V == TagsWith(T, k, l, size)
           l1 == ListWith(T, k, l, size)
           asize == Rounded(size)
<1>1. /\ Shape(V, e) /\ Separate(V) /\ Roomy(V) /\ ListOf(l1, Frees(V))
      /\ Allocs(V) = Allocs(T) /\ Keeps(T, V, Allocs(T))
      /\ p \in Frees(V) /\ p \in Blocks(V) \ {h0} /\ IsFree(V, p) /\ asize <= Size(V, p)
      /\ asize \in Nat /\ asize % 8 = 0 /\ asize >= 16 /\ asize >= size + 8
      /\ k <= e /\ size \in Nat /\ size # 0
  BY RoomShape
<1>2. U = Placed(V, p, asize) /\ l2 = PlacedList(V, l1, p, asize)
  BY DEF TagsAfter, ListAfter
<1> HIDE DEF V, l1, asize
<1>3. /\ Shape(U, e) /\ Separate(U) /\ Allocs(U) = Allocs(V) \cup {p}
      /\ Keeps(V, U, Allocs(V)) /\ asize <= Size(U, p)
  <2>1. asize >= 8
    BY <1>1
  <2> QED BY <2>1, <1>1, <1>2, PlacedShape
<1>4. ListOf(l2, Frees(U)) /\ Roomy(U)
  BY <1>1, <1>2, PlacedFacts
<1>5. Keeps(T, U, Allocs(T))
  BY <1>1, <1>3 DEF Keeps
<1>6. p \notin Allocs(T)
  BY <1>1 DEF Allocs
<1>7. p # NULL
  <2>1. p \in Nat /\ h0 <= p
    BY <1>1, ShapeFacts
  <2> QED BY <2>1, RegionFacts DEF NULL
<1>8. size + 8 <= Size(U, p)
  <2>1. p \in Blocks(U)
    BY <1>3 DEF Allocs
  <2>2. Size(U, p) \in Nat
    BY <2>1, <1>3, ShapeFacts
  <2> QED BY <2>2, <1>1, <1>3
<1> QED BY <1>1, <1>3, <1>4, <1>5, <1>6, <1>7, <1>8

(* Links are in payloads. *)
LEMMA DataLinks ==
  ASSUME NEW T, NEW k, Shape(T, k), Roomy(T), NEW m, NEW m2,
         NEW A, A \subseteq Blocks(T), SameData(m, m2, T, A)
  PROVE  SameLinks(m, m2, A)
<1> SUFFICES ASSUME NEW b \in A PROVE m2[b] = m[b] /\ m2[b + 4] = m[b + 4]
  BY DEF SameLinks
<1>1. b \in Nat /\ EndOf(T, b) \in Nat /\ b + 16 <= EndOf(T, b) /\ b \in Addr /\ b + 4 \in Addr
  BY CellBlocks DEF Cell
<1>2. b \in Payload(T, b) /\ b + 4 \in Payload(T, b)
  BY <1>1 DEF Payload
<1> QED BY <1>2 DEF SameData

(* So what changes one allocated payload leaves the list alone. *)
LEMMA LinkedStays ==
  ASSUME NEW T, NEW k, Shape(T, k), Roomy(T), NEW l, ListOf(l, Frees(T)),
         NEW m, Linked(m, l), NEW p \in Owned(T), NEW m2, SameData(m, m2, T, Blocks(T) \ {p})
  PROVE  Linked(m2, l)
<1> DEFINE A == Frees(T) \cup {h0}
<1>1. A \subseteq Blocks(T) /\ A \subseteq Blocks(T) \ {p}
  BY ShapeFacts DEF Frees, Owned, Allocs
<1> HIDE DEF A
<1>2. SameData(m, m2, T, A)
  BY <1>1, DataSome
<1>3. SameLinks(m, m2, A)
  BY <1>1, <1>2, DataLinks
<1> QED BY <1>3, LinkKeep DEF A

(* mm_malloc without room. *)
LEMMA MallocFails ==
  ASSUME NEW m, NEW T, NEW k, Shape(T, k), Roomy(T), Tagged(m, T, k),
         NEW l, ListOf(l, Frees(T)), Linked(m, l), NEW size \in Sizes, ~Room(T, k, l, size)
  PROVE  Malloc(HeapOf(m, k, l), size) = [p |-> NULL, h |-> HeapOf(m, k, l)]
<1> DEFINE h == HeapOf(m, k, l)
           asize == Rounded(size)
           n == Asked(size)
           bp == find_fit_first(m, FirstIn(l), asize)
           x == extend_heap(h, n \div WSIZE)
<1>1. CASE size = 0
  BY <1>1 DEF Malloc
<1>2. CASE size # 0
  <2>1. k \in Nat /\ k <= mem_max_addr
    BY ShapeFacts
  <2>2. n \in Nat /\ n % 8 = 0 /\ size \in Nat /\ size > 0
    BY <2>1, <1>2, ExtendBy
  <2>3. asize \in Nat
    BY <2>2, RoundedFacts
  <2>4. Fitting(T, l, asize) = {} /\ ~SbrkOK(k, ToInt(n))
    BY <1>2 DEF Room, Fits
  <2> HIDE DEF asize, n
  <2>5. bp = NULL
    BY <2>3, <2>4, FirstFit
  <2>6. x = [p |-> NULL, h |-> h]
    BY <2>2, <2>4, ExtendFails
  <2>7. h.m = m /\ h.st = FirstIn(l)
    BY HeapFacts
  <2> HIDE DEF h
  <2>8. Malloc(h, size) = x
    <3>1. find_fit_first(h.m, h.st, ALIGN(size + DSIZE)) = NULL
      BY <2>5, <2>7 DEF asize, Rounded
    <3>2. extend_heap(h, MAX(ALIGN(size + DSIZE), CHUNKSIZE) \div WSIZE).p = NULL
      BY <2>6 DEF n, Asked, Rounded
    <3> QED BY <3>1, <3>2, <1>2 DEF Malloc, n, Asked, Rounded
  <2> QED BY <2>6, <2>8 DEF h
<1> QED BY <1>1, <1>2

(* mm_malloc with room: the heap in which the block is placed... *)
LEMMA MallocFinds ==
  ASSUME NEW m, NEW T, NEW k, Shape(T, k), Roomy(T), Separate(T), Tagged(m, T, k),
         NEW l, ListOf(l, Frees(T)), Linked(m, l), NEW size \in Sizes, Room(T, k, l, size),
         NEW p, p = Given(T, k, l, size), NEW e, e = BreakAfter(T, k, l, size),
         NEW V, V = TagsWith(T, k, l, size), NEW l2, l2 = ListWith(T, k, l, size),
         NEW asize, asize = Rounded(size)
  PROVE  \E m1 : /\ Malloc(HeapOf(m, k, l), size)
                       = [p |-> p, h |-> remove_block(place(HeapOf(m1, e, l2), p, asize), p)]
                 /\ Tagged(m1, V, e) /\ Linked(m1, l2) /\ SameData(m, m1, T, Owned(T))
<1> DEFINE h == HeapOf(m, k, l)
           n == Asked(size)
           bp == find_fit_first(m, FirstIn(l), asize)
           x == extend_heap(h, n \div WSIZE)
<1>1. k \in Nat /\ k <= mem_max_addr /\ size # 0
  BY ShapeFacts DEF Room
<1>2. n \in Nat /\ n % 8 = 0 /\ n >= 16 /\ k + n < WORD /\ size \in Nat /\ size > 0
  BY <1>1, ExtendBy
<1>3. asize \in Nat
  BY <1>2, RoundedFacts
<1>4. h.m = m /\ h.st = FirstIn(l)
  BY HeapFacts
<1>5. p # NULL
  <2>1. p \in Blocks(V) /\ Shape(V, e)
    BY RoomShape
  <2>2. p \in Nat /\ h0 <= p
    BY <2>1, ShapeFacts
  <2> QED BY <2>2, RegionFacts DEF NULL
<1>6. Malloc(h, size) =
         IF bp # NULL THEN [p |-> bp, h |-> remove_block(place(h, bp, asize), bp)]
         ELSE IF x.p # NULL THEN [p |-> x.p, h |-> remove_block(place(x.h, x.p, asize), x.p)]
         ELSE x
  <2> HIDE DEF h
  <2> QED BY <1>1, <1>4 DEF Malloc, Asked, Rounded
<1>7. CASE Fits(T, l, size)
  <2>1. bp = p
    BY <1>3, <1>7, FirstFit DEF Fits, Given
  <2>2. e = k /\ V = T /\ l2 = l
    BY <1>7 DEF BreakAfter, TagsWith, ListWith
  <2>3. SameData(m, m, T, Owned(T))
    BY DEF SameData
  <2> HIDE DEF bp, x
  <2>4. Malloc(h, size) = [p |-> p, h |-> remove_block(place(HeapOf(m, e, l2), p, asize), p)]
    BY <2>1, <2>2, <1>5, <1>6
  <2> QED BY <2>2, <2>3, <2>4
<1>8. CASE ~Fits(T, l, size)
  <2>1. bp = NULL /\ SbrkOK(k, ToInt(n))
    BY <1>3, <1>8, FirstFit DEF Fits, Room
  <2>2. \E m1 : /\ x = [p |-> Start(Grow(T, k, k + n), k),
                        h |-> HeapOf(m1, k + n, GrownList(T, l, k, k + n))]
                /\ Tagged(m1, Merged(Grow(T, k, k + n), k), k + n)
                /\ Linked(m1, GrownList(T, l, k, k + n))
                /\ SameData(m, m1, T, Owned(T))
    <3> HIDE DEF n
    <3> QED BY <2>1, <1>2, ExtendMakes
  <2>3. p = Start(Grow(T, k, k + n), k) /\ e = k + n
        /\ V = Merged(Grow(T, k, k + n), k) /\ l2 = GrownList(T, l, k, k + n)
    BY <1>8 DEF Given, BreakAfter, TagsWith, ListWith
  <2> HIDE DEF bp, x, n
  <2>4. PICK m1 : /\ x = [p |-> p, h |-> HeapOf(m1, e, l2)]
                  /\ Tagged(m1, V, e) /\ Linked(m1, l2) /\ SameData(m, m1, T, Owned(T))
    BY <2>2, <2>3
  <2>5. x.p = p /\ x.h = HeapOf(m1, e, l2)
    BY <2>4
  <2>6. Malloc(h, size) = [p |-> p, h |-> remove_block(place(HeapOf(m1, e, l2), p, asize), p)]
    BY <2>1, <2>5, <1>5, <1>6
  <2> QED BY <2>4, <2>6
<1> QED BY <1>7, <1>8

(* ...and the heap it leaves, every payload as before.                     *)
LEMMA MallocMakes ==
  ASSUME NEW m, NEW T, NEW k, Shape(T, k), Roomy(T), Separate(T), Tagged(m, T, k),
         NEW l, ListOf(l, Frees(T)), Linked(m, l), NEW size \in Sizes, Room(T, k, l, size),
         NEW p, p = Given(T, k, l, size), NEW e, e = BreakAfter(T, k, l, size),
         NEW U, U = TagsAfter(T, k, l, size), NEW l2, l2 = ListAfter(T, k, l, size)
  PROVE  \E m2 : /\ Malloc(HeapOf(m, k, l), size) = [p |-> p, h |-> HeapOf(m2, e, l2)]
                 /\ Tagged(m2, U, e) /\ Linked(m2, l2) /\ SameData(m, m2, T, Owned(T))
<1> DEFINE V == TagsWith(T, k, l, size)
           l1 == ListWith(T, k, l, size)
           asize == Rounded(size)
<1>1. /\ Shape(V, e) /\ Roomy(V) /\ ListOf(l1, Frees(V))
      /\ Allocs(V) = Allocs(T) /\ Keeps(T, V, Allocs(T))
      /\ p \in Frees(V) /\ asize <= Size(V, p)
      /\ asize \in Nat /\ asize % 8 = 0 /\ asize >= 16
  BY RoomShape
<1>2. U = Placed(V, p, asize) /\ l2 = PlacedList(V, l1, p, asize)
  BY DEF TagsAfter, ListAfter
<1>3. PICK m1 : /\ Malloc(HeapOf(m, k, l), size)
                     = [p |-> p, h |-> remove_block(place(HeapOf(m1, e, l1), p, asize), p)]
                /\ Tagged(m1, V, e) /\ Linked(m1, l1) /\ SameData(m, m1, T, Owned(T))
  BY MallocFinds
<1> HIDE DEF V, l1, asize
<1>4. PICK m2 : /\ remove_block(place(HeapOf(m1, e, l1), p, asize), p) = HeapOf(m2, e, l2)
                /\ Tagged(m2, U, e) /\ Linked(m2, l2) /\ SameData(m1, m2, V, Owned(V))
  BY <1>1, <1>2, <1>3, PlaceMakes
<1>5. SameData(m1, m2, T, Owned(T))
  <2>1. Owned(T) = Owned(V) /\ Keeps(T, V, Owned(T))
    BY <1>1 DEF Owned, Keeps
  <2> DEFINE A == Owned(T)
  <2>2. Keeps(T, V, A) /\ SameData(m1, m2, V, A)
    BY <2>1, <1>4
  <2> HIDE DEF A
  <2>3. SameData(m1, m2, T, A)
    BY <2>2, DataVia
  <2> QED BY <2>3 DEF A
<1>6. SameData(m, m2, T, Owned(T))
  BY <1>3, <1>5, DataTrans
<1> QED BY <1>3, <1>4, <1>6

(* The payloads that a call on the block b leaves alone. *)
OwnedBut(T, b) == Owned(T) \ {b}

(* mm_realloc with room: the block moves, with the first bytes of its      *)
(* payload; every other payload is left alone.                             *)
LEMMA ReallocMakes ==
  ASSUME NEW m, NEW T, NEW k, Shape(T, k), Roomy(T), Separate(T), Tagged(m, T, k),
         NEW l, ListOf(l, Frees(T)), Linked(m, l), NEW size \in Sizes, Room(T, k, l, size),
         NEW p, p = Given(T, k, l, size), NEW e, e = BreakAfter(T, k, l, size),
         NEW U, U = TagsAfter(T, k, l, size), NEW l2, l2 = ListAfter(T, k, l, size),
         NEW old \in Owned(T), NEW q, q \in mm_realloc(HeapOf(m, k, l), old, size)
  PROVE  \E m2 : /\ q = [p |-> p, h |-> HeapOf(m2, e, FreedList(U, l2, old))]
                 /\ Tagged(m2, Freed(U, old), e) /\ Linked(m2, FreedList(U, l2, old))
                 /\ SameData(m, m2, T, OwnedBut(T, old))
                 /\ Moved(m, m2, T, old, p, size)
<1> DEFINE h == HeapOf(m, k, l)
           copySize == IF size < Size(T, old) THEN size ELSE Size(T, old)
<1>1. PICK m1 : /\ Malloc(h, size) = [p |-> p, h |-> HeapOf(m1, e, l2)]
                /\ Tagged(m1, U, e) /\ Linked(m1, l2) /\ SameData(m, m1, T, Owned(T))
  BY MallocMakes
<1>2. /\ Shape(U, e) /\ Roomy(U) /\ ListOf(l2, Frees(U))
      /\ p \notin Allocs(T) /\ p # h0
      /\ Allocs(U) = Allocs(T) \cup {p} /\ Keeps(T, U, Allocs(T))
      /\ size \in Nat /\ size > 0 /\ size + 8 <= Size(U, p) /\ p # NULL
  BY ServedShape
<1>3. /\ old \in Allocs(T) /\ old # h0 /\ old \in Blocks(T)
      /\ Owned(U) = Owned(T) \cup {p} /\ Owned(T) \subseteq Blocks(T)
      /\ Keeps(T, U, Owned(T)) /\ p \notin Owned(T)
  BY <1>2 DEF Owned, Allocs, Keeps
<1>4. /\ old \in Blocks(U) \ {h0} /\ old \in Owned(U) /\ Size(U, old) = Size(T, old)
      /\ old # p /\ p \in Blocks(U)
  BY <1>2, <1>3, SameTag DEF Keeps, Allocs
<1>5. GET_SIZE(m1, HDRP(old)) = Size(T, old)
  BY <1>1, <1>2, <1>4, ReadBlock
<1> DEFINE mc == memcpy(m1, p, old, copySize)
<1>6. q = [p |-> p, h |-> Release(HeapOf(mc, e, l2), old)]
  <2> DEFINE r == Malloc(h, size)
             sz == GET_SIZE(r.h.m, HDRP(old))
             cs == IF size < sz THEN size ELSE sz
             cp == [r.h EXCEPT !.m = memcpy(@, r.p, old, cs)]
  <2>1. q \in IF r.p = NULL THEN {r} ELSE {[p |-> r.p, h |-> Release(cp, old)]}
    BY DEF mm_realloc
  <2>2. r.p = p /\ r.h = HeapOf(m1, e, l2)
    BY <1>1
  <2>3. cs = copySize
    BY <2>2, <1>5, HeapFacts
  <2>4. cp = HeapOf(mc, e, l2)
    <3> HIDE DEF cs, copySize, r
    <3>1. cp = [HeapOf(m1, e, l2) EXCEPT !.m = memcpy(@, p, old, copySize)]
      BY <2>2, <2>3
    <3>2. [HeapOf(m1, e, l2) EXCEPT !.m = memcpy(@, p, old, copySize)] = HeapOf(mc, e, l2)
      BY DEF HeapOf
    <3> QED BY <3>1, <3>2
  <2> HIDE DEF cp, r
  <2> QED BY <2>1, <2>2, <2>4, <1>2
<1>7. copySize \in Nat /\ copySize <= Size(U, old) /\ copySize + 8 <= Size(U, p)
  <2>1. Size(U, p) \in Nat /\ Size(T, old) \in Nat
    BY <1>2, <1>3, <1>4, ShapeFacts
  <2> QED BY <2>1, <1>2, <1>4
<1>8. Tagged(mc, U, e) /\ SameData(m1, mc, U, Blocks(U) \ {p})
  <2> HIDE DEF copySize
  <2> QED BY <1>1, <1>2, <1>4, <1>7, CopyMakes
<1>9. Linked(mc, l2)
  <2>1. p \in Owned(U)
    BY <1>3
  <2> HIDE DEF mc
  <2> QED BY <2>1, <1>1, <1>2, <1>8, LinkedStays
<1>10. PICK m2 : /\ Release(HeapOf(mc, e, l2), old) = HeapOf(m2, e, FreedList(U, l2, old))
                 /\ Tagged(m2, Freed(U, old), e) /\ Linked(m2, FreedList(U, l2, old))
                 /\ SameData(mc, m2, U, Owned(U) \ {old})
  <2> HIDE DEF mc
  <2> QED BY <1>2, <1>4, <1>8, <1>9, FreeMakes
<1>11. SameData(m, m2, T, OwnedBut(T, old)) /\ Moved(m, m2, T, old, p, size)
  <2> DEFINE A == Owned(T)
  <2>1. /\ A \subseteq Blocks(T) /\ old \in A /\ p \in Blocks(U) \ A
        /\ SameData(mc, m2, U, (A \cup {p}) \ {old})
        /\ SameData(m, m1, T, A) /\ Keeps(T, U, A)
    BY <1>1, <1>3, <1>4, <1>10
  <2>2. /\ mc = memcpy(m1, p, old, copySize)
        /\ copySize = (IF size < Size(T, old) THEN size ELSE Size(T, old))
    OBVIOUS
  <2> HIDE DEF mc, copySize, A
  <2>3. SameData(m, m2, T, A \ {old}) /\ Moved(m, m2, T, old, p, size)
    <3>1. Tagged(m1, U, e) /\ Shape(U, e) /\ size \in Nat /\ size + 8 <= Size(U, p)
      BY <1>1, <1>2
    <3> HIDE DEF h
    <3> QED BY <2>1, <2>2, <3>1, CopyKeeps
  <2> QED BY <2>3 DEF A, OwnedBut
<1> HIDE DEF mc
<1> QED BY <1>6, <1>10, <1>11

(* When there is no room, the heap stays as it is. *)
LEMMA ReallocFails ==
  ASSUME NEW m, NEW T, NEW k, Shape(T, k), Roomy(T), Tagged(m, T, k),
         NEW l, ListOf(l, Frees(T)), Linked(m, l), NEW size \in Sizes, ~Room(T, k, l, size),
         NEW old
  PROVE  mm_realloc(HeapOf(m, k, l), old, size) = {[p |-> NULL, h |-> HeapOf(m, k, l)]}
<1> DEFINE h == HeapOf(m, k, l)
<1>1. Malloc(h, size) = [p |-> NULL, h |-> h]
  BY MallocFails
<1> HIDE DEF h
<1> QED BY <1>1 DEF mm_realloc, h

-----------------------------------------------------------------------------
(* The contract of DriverProofs                                            *)
(*                                                                         *)
(* A heap is described by its tags, its break and its list.                *)

InOrder(c) ==
    /\ Shape(c.tags, c.brk) /\ Separate(c.tags) /\ Roomy(c.tags)
    /\ ListOf(c.list, Frees(c.tags))

Holds(c, m) == Tagged(m, c.tags, c.brk) /\ Linked(m, c.list)

BreakIn(c) == c.brk

StaticIn(c) == FirstIn(c.list)

PayloadsIn(c) == Owned(c.tags)

CapacityIn(c, p) == Size(c.tags, p) - 8

FreshHeap == [tags |-> Fresh, brk |-> FreshBreak, list |-> FreshList]

RoomFor(c, size) == Room(c.tags, c.brk, c.list, size)

GivenIn(c, size) == Given(c.tags, c.brk, c.list, size)

HeapAfterMalloc(c, size) ==
    [tags |-> TagsAfter(c.tags, c.brk, c.list, size),
     brk  |-> BreakAfter(c.tags, c.brk, c.list, size),
     list |-> ListAfter(c.tags, c.brk, c.list, size)]

HeapAfterFree(c, p) ==
    [tags |-> Freed(c.tags, p), brk |-> c.brk, list |-> FreedList(c.tags, c.list, p)]

L == INSTANCE DriverProofs
     WITH Sound <- InOrder, Holds <- Holds, Break <- BreakIn, Statics <- StaticIn,
          Payloads <- PayloadsIn, Capacity <- CapacityIn, CanStart <- InitOK,
          Fresh <- FreshHeap, Room <- RoomFor, Given <- GivenIn,
          Allocated <- HeapAfterMalloc, Released <- HeapAfterFree

(* The contract's names for the parts of a heap. *)
LEMMA ContractFacts ==
  /\ L!NULL = NULL
  /\ \A p, n : L!Words(p, n) = Words(p, n)
  /\ \A m : L!Mem(m) <=> Mem(m)
  /\ \A m, c : L!HeapOf(m, c) = HeapOf(m, c.brk, c.list)
  /\ L!Addr = Addr
<1>1. L!Addr = Addr
  BY DEF Addr, L!Addr, mem_max_addr, L!mem_max_addr, WSIZE, L!WSIZE
<1>2. \A p, n : L!Words(p, n) = Words(p, n)
  BY <1>1 DEF Words, L!Words
<1>3. \A m, c : L!HeapOf(m, c) = HeapOf(m, c.brk, c.list)
  BY DEF L!HeapOf, HeapOf, BreakIn, StaticIn
<1> QED BY <1>1, <1>2, <1>3 DEF L!NULL, NULL, L!Mem, Mem

(* The payload of an allocated block. *)
LEMMA PayloadFacts ==
  ASSUME NEW c, InOrder(c), NEW p \in PayloadsIn(c)
  PROVE  /\ p \in Nat /\ Size(c.tags, p) \in Nat /\ Size(c.tags, p) >= 8
         /\ CapacityIn(c, p) \in Nat
         /\ L!PayloadOf(c, p) = Payload(c.tags, p)
<1>1. p \in Blocks(c.tags)
  BY DEF PayloadsIn, Owned, Allocs
<1>2. /\ p \in Nat /\ Size(c.tags, p) \in Nat /\ EndOf(c.tags, p) = p + Size(c.tags, p)
      /\ Size(c.tags, p) >= 8
  BY <1>1, ShapeFacts DEF InOrder
<1>3. CapacityIn(c, p) \in Nat
  BY <1>2 DEF CapacityIn
<1>4. \A a \in Addr : a < p + CapacityIn(c, p) <=> a < EndOf(c.tags, p) - 8
  BY <1>2, RegionFacts DEF CapacityIn
<1>5. L!PayloadOf(c, p) = Words(p, CapacityIn(c, p))
  BY ContractFacts DEF L!PayloadOf
<1> QED BY <1>2, <1>3, <1>4, <1>5 DEF Words, Payload

(* The payloads that keep their tags keep their capacity, and what is      *)
(* left of the data is what the contract calls kept.                       *)
LEMMA KeptFacts ==
  ASSUME NEW c, InOrder(c), NEW A, A \subseteq PayloadsIn(c)
  PROVE  /\ \A m, m2 : SameData(m, m2, c.tags, A) => L!Kept(c, A, m, m2)
         /\ \A c2 : Keeps(c.tags, c2.tags, A) => L!Steady(c, A, c2)
<1>1. ASSUME NEW m, NEW m2, SameData(m, m2, c.tags, A)
      PROVE  L!Kept(c, A, m, m2)
  BY <1>1, PayloadFacts DEF SameData, L!Kept
<1>2. ASSUME NEW c2, Keeps(c.tags, c2.tags, A), NEW p \in A
      PROVE  p \in PayloadsIn(c2) /\ CapacityIn(c2, p) = CapacityIn(c, p)
  <2>1. p \in Blocks(c2.tags) /\ c2.tags[p] = c.tags[p] /\ ~IsFree(c.tags, p) /\ p # h0
    BY <1>2 DEF Keeps, PayloadsIn, Owned, Allocs
  <2> QED BY <2>1 DEF PayloadsIn, Owned, Allocs, IsFree, CapacityIn, Size
<1> QED BY <1>1, <1>2 DEF L!Steady

(* The blocks of a heap are aligned, in the heap and apart. *)
LEMMA HeapKept == L!HeapContract
<1> SUFFICES ASSUME NEW c, InOrder(c)
             PROVE  /\ BreakIn(c) \in Nat /\ mem_start_brk <= BreakIn(c)
                    /\ \A p \in PayloadsIn(c) : L!Placed(c, p)
                    /\ \A p, q \in PayloadsIn(c) : p # q => L!Apart(c, p, q)
  BY DEF L!HeapContract
<1>1. /\ c.brk \in Nat /\ h0 + 8 <= c.brk /\ h0 = mem_start_brk + 8
      /\ \A b \in Blocks(c.tags) :
            /\ b \in Nat /\ b % 8 = 0 /\ h0 <= b /\ EndOf(c.tags, b) \in Nat
            /\ EndOf(c.tags, b) = b + Size(c.tags, b) /\ EndOf(c.tags, b) <= c.brk
            /\ Size(c.tags, b) \in Nat
  BY ShapeFacts DEF InOrder, h0, DSIZE
<1>2. BreakIn(c) \in Nat /\ mem_start_brk <= BreakIn(c)
  BY <1>1, RegionFacts DEF BreakIn
<1>3. ASSUME NEW p \in PayloadsIn(c) PROVE L!Placed(c, p)
  <2>1. p \in Blocks(c.tags) /\ CapacityIn(c, p) \in Nat
    BY PayloadFacts DEF PayloadsIn, Owned, Allocs
  <2>2. p + CapacityIn(c, p) <= c.brk /\ mem_start_brk <= p
    BY <2>1, <1>1, RegionFacts DEF CapacityIn
  <2> QED BY <2>1, <2>2, <1>1 DEF L!Placed, BreakIn
<1>4. ASSUME NEW p \in PayloadsIn(c), NEW q \in PayloadsIn(c), p # q
      PROVE  L!Apart(c, p, q)
  <2>1. p \in Blocks(c.tags) /\ q \in Blocks(c.tags)
    BY DEF PayloadsIn, Owned, Allocs
  <2>2. EndOf(c.tags, p) <= q \/ EndOf(c.tags, q) <= p
    BY <2>1, <1>4, Sides DEF InOrder
  <2>3. p + (Size(c.tags, p) - 8) <= q \/ q + (Size(c.tags, q) - 8) <= p
    BY <2>1, <2>2, <1>1
  <2> QED BY <2>3 DEF L!Apart, CapacityIn
<1> QED BY <1>2, <1>3, <1>4

(* Payloads hold no tags. *)
LEMMA WriteKept == L!WriteContract
<1> SUFFICES ASSUME NEW c, NEW m, InOrder(c), Holds(c, m)
             PROVE  /\ L!Mem(m)
                    /\ \A p \in PayloadsIn(c) : \A m2 :
                          L!Mem(m2) /\ (\A a \in L!Addr \ L!PayloadOf(c, p) : m2[a] = m[a])
                             => Holds(c, m2)
  BY DEF L!WriteContract
<1>1. L!Mem(m)
  BY ContractFacts DEF Holds, Tagged
<1>2. ASSUME NEW p \in PayloadsIn(c), NEW m2, L!Mem(m2),
             \A a \in L!Addr \ L!PayloadOf(c, p) : m2[a] = m[a]
      PROVE  Holds(c, m2)
  <2>1. p \in Blocks(c.tags) /\ Mem(m2)
    BY <1>2, ContractFacts DEF PayloadsIn, Owned, Allocs
  <2>2. \A a \in Addr : a \notin Payload(c.tags, p) => m2[a] = m[a]
    BY <1>2, ContractFacts, PayloadFacts
  <2>3. Tagged(m2, c.tags, c.brk) /\ SameData(m, m2, c.tags, Blocks(c.tags) \ {p})
    BY <2>1, <2>2, WriteData DEF InOrder, Holds
  <2>4. p \in Owned(c.tags)
    BY DEF PayloadsIn
  <2>5. Linked(m2, c.list)
    BY <2>3, <2>4, LinkedStays DEF InOrder, Holds
  <2> QED BY <2>3, <2>5 DEF Holds
<1> QED BY <1>1, <1>2

(* mm_init. *)
LEMMA InitKept == L!InitContract
<1>1. InitOK => InOrder(FreshHeap)
  BY FreshShape DEF InOrder, FreshHeap
<1>2. ASSUME NEW m, NEW st, L!Mem(m), NEW r,
             r \in mm_init([m |-> m, brk |-> mem_start_brk, st |-> st])
      PROVE  /\ L!Mem(r.h.m) /\ (r.p # L!NULL <=> InitOK)
             /\ InitOK => \E m2 : r.h = L!HeapOf(m2, FreshHeap) /\ Holds(FreshHeap, m2)
  <2>1. Mem(m)
    BY <1>2, ContractFacts
  <2>2. /\ r.p # NULL <=> InitOK
        /\ Mem(r.h.m)
    BY <2>1, <1>2, InitMakes
  <2>3. ASSUME InitOK
        PROVE  \E m2 : r.h = L!HeapOf(m2, FreshHeap) /\ Holds(FreshHeap, m2)
    <3>1. PICK m2 : /\ r.h = HeapOf(m2, FreshBreak, FreshList)
                    /\ Tagged(m2, Fresh, FreshBreak) /\ Linked(m2, FreshList)
      BY <2>1, <2>3, <1>2, InitMakes
    <3>2. FreshHeap.tags = Fresh /\ FreshHeap.brk = FreshBreak /\ FreshHeap.list = FreshList
      BY DEF FreshHeap
    <3>3. r.h = L!HeapOf(m2, FreshHeap) /\ Holds(FreshHeap, m2)
      BY <3>1, <3>2, ContractFacts DEF Holds
    <3> QED BY <3>3
  <2> QED BY <2>2, <2>3, ContractFacts
<1> QED BY <1>1, <1>2 DEF L!InitContract

(* mm_malloc. *)
LEMMA MallocKept == L!MallocContract
<1> SUFFICES ASSUME NEW c, InOrder(c), NEW size \in Sizes
             PROVE  /\ RoomFor(c, size) =>
                         L!Adds(c, size, GivenIn(c, size), HeapAfterMalloc(c, size))
                    /\ \A m : Holds(c, m) =>
                          \A r \in mm_malloc(L!HeapOf(m, c), size) :
                             IF RoomFor(c, size) THEN L!Serves(c, size, m, r)
                                                 ELSE L!Refuses(r)
  BY DEF L!MallocContract
<1> DEFINE T == c.tags
           k == c.brk
           l == c.list
           c2 == HeapAfterMalloc(c, size)
           U == TagsAfter(T, k, l, size)
           e == BreakAfter(T, k, l, size)
           l2 == ListAfter(T, k, l, size)
           p == Given(T, k, l, size)
<1>1. Shape(T, k) /\ Separate(T) /\ Roomy(T) /\ ListOf(l, Frees(T))
  BY DEF InOrder
<1>2. /\ c2.tags = U /\ c2.brk = e /\ c2.list = l2 /\ GivenIn(c, size) = p
      /\ (RoomFor(c, size) <=> Room(T, k, l, size))
  BY DEF HeapAfterMalloc, GivenIn, RoomFor
<1>3. PayloadsIn(c) = Owned(T) /\ PayloadsIn(c2) = Owned(c2.tags)
  BY DEF PayloadsIn
<1>4. ASSUME Room(T, k, l, size)
      PROVE  L!Adds(c, size, p, c2)
  <2>1. /\ Shape(U, e) /\ Separate(U) /\ Roomy(U) /\ ListOf(l2, Frees(U))
        /\ p \notin Allocs(T) /\ p # h0
        /\ Allocs(U) = Allocs(T) \cup {p} /\ Keeps(T, U, Allocs(T))
        /\ size \in Nat /\ size > 0 /\ size + 8 <= Size(U, p) /\ p # NULL /\ k <= e
    BY <1>1, <1>4, ServedShape
  <2> HIDE DEF T, k, l, c2, U, e, l2, p
  <2>2. InOrder(c2) /\ BreakIn(c) <= BreakIn(c2)
    BY <2>1, <1>2 DEF InOrder, BreakIn, k
  <2>3. p \notin PayloadsIn(c) /\ PayloadsIn(c2) = PayloadsIn(c) \cup {p}
    BY <2>1, <1>2, <1>3 DEF Owned
  <2>4. p \in PayloadsIn(c2)
    BY <2>3
  <2>5. size <= CapacityIn(c2, p)
    <3>1. Size(c2.tags, p) \in Nat /\ size + 8 <= Size(c2.tags, p)
      BY <2>1, <2>2, <2>4, <1>2, PayloadFacts
    <3> QED BY <3>1, <2>1 DEF CapacityIn
  <2>6. L!Steady(c, PayloadsIn(c), c2)
    <3>1. Keeps(c.tags, c2.tags, PayloadsIn(c))
      BY <2>1, <1>2, <1>3 DEF Keeps, Owned, T
    <3> QED BY <3>1, KeptFacts
  <2> QED BY <2>1, <2>2, <2>3, <2>5, <2>6, ContractFacts DEF L!Adds
<1>5. ASSUME NEW m, Holds(c, m), NEW r \in mm_malloc(L!HeapOf(m, c), size)
      PROVE  IF Room(T, k, l, size) THEN L!Serves(c, size, m, r) ELSE L!Refuses(r)
  <2>1. Tagged(m, T, k) /\ Linked(m, l) /\ Mem(m)
    BY <1>5 DEF Holds, Tagged
  <2>2. r = Malloc(HeapOf(m, k, l), size)
    BY <1>5, ContractFacts DEF mm_malloc
  <2>3. CASE Room(T, k, l, size)
    <3>1. PICK m2 : /\ Malloc(HeapOf(m, k, l), size) = [p |-> p, h |-> HeapOf(m2, e, l2)]
                    /\ Tagged(m2, U, e) /\ Linked(m2, l2) /\ SameData(m, m2, T, Owned(T))
      BY <1>1, <2>1, <2>3, MallocMakes
    <3> HIDE DEF T, k, l, c2, U, e, l2, p
    <3>2. r = [p |-> GivenIn(c, size), h |-> L!HeapOf(m2, c2)] /\ Holds(c2, m2)
      BY <3>1, <2>2, <1>2, ContractFacts DEF Holds
    <3>3. L!Kept(c, PayloadsIn(c), m, m2)
      <4>1. SameData(m, m2, c.tags, PayloadsIn(c))
        BY <3>1, <1>3 DEF T
      <4> QED BY <4>1, KeptFacts
    <3> QED BY <3>2, <3>3, <2>3 DEF L!Serves, c2
  <2>4. CASE ~Room(T, k, l, size)
    <3>1. r = [p |-> NULL, h |-> HeapOf(m, k, l)]
      BY <1>1, <2>1, <2>2, <2>4, MallocFails
    <3> HIDE DEF T, k, l
    <3>2. r.p = NULL /\ r.h.m = m
      BY <3>1, HeapFacts
    <3> QED BY <3>2, <2>1, <2>4, ContractFacts DEF L!Refuses
  <2> QED BY <2>3, <2>4
<1> QED BY <1>2, <1>4, <1>5

(* mm_free. *)
LEMMA FreeKept == L!FreeContract
<1> SUFFICES ASSUME NEW c, InOrder(c), NEW p \in PayloadsIn(c)
             PROVE  /\ L!Removes(c, p, HeapAfterFree(c, p))
                    /\ \A m : Holds(c, m) =>
                          \A r \in mm_free(L!HeapOf(m, c), p) : L!Frees(c, p, m, r)
  BY DEF L!FreeContract
<1> DEFINE T == c.tags
           k == c.brk
           l == c.list
           c2 == HeapAfterFree(c, p)
           A == Owned(T) \ {p}
           l2 == FreedList(T, l, p)
<1>1. /\ Shape(T, k) /\ Separate(T) /\ Roomy(T) /\ ListOf(l, Frees(T))
      /\ p \in Owned(T) /\ p \in Blocks(T) \ {h0} /\ ~IsFree(T, p)
  BY DEF InOrder, PayloadsIn, Owned, Allocs
<1>2. c2.tags = Freed(T, p) /\ c2.brk = k /\ c2.list = l2
  BY DEF HeapAfterFree
<1>3. PayloadsIn(c) \ {p} = A /\ PayloadsIn(c) \ {p} \subseteq PayloadsIn(c)
  BY DEF PayloadsIn
<1>4. L!Removes(c, p, c2)
  <2>1. /\ Shape(Freed(T, p), k) /\ Separate(Freed(T, p))
        /\ Allocs(Freed(T, p)) = Allocs(T) \ {p} /\ Keeps(T, Freed(T, p), Allocs(T) \ {p})
    BY <1>1, FreedShape
  <2>2. ListOf(l2, Frees(Freed(T, p))) /\ Roomy(Freed(T, p))
    BY <1>1, FreedFacts
  <2>3. k \in Nat
    BY <1>1, ShapeFacts
  <2> HIDE DEF T, k, l, c2, A, l2
  <2>4. InOrder(c2) /\ BreakIn(c) <= BreakIn(c2)
    BY <2>1, <2>2, <2>3, <1>2 DEF InOrder, BreakIn, k
  <2>5. PayloadsIn(c2) = PayloadsIn(c) \ {p}
    BY <2>1, <1>2 DEF PayloadsIn, Owned, A, T
  <2>6. L!Steady(c, PayloadsIn(c) \ {p}, c2)
    <3>1. Keeps(c.tags, c2.tags, PayloadsIn(c) \ {p})
      BY <2>1, <1>2, <1>3 DEF Keeps, T, A, Owned
    <3> QED BY <3>1, <1>3, KeptFacts
  <2> QED BY <2>4, <2>5, <2>6 DEF L!Removes
<1>5. ASSUME NEW m, Holds(c, m), NEW r \in mm_free(L!HeapOf(m, c), p)
      PROVE  L!Frees(c, p, m, r)
  <2>1. Tagged(m, T, k) /\ Linked(m, l)
    BY <1>5 DEF Holds
  <2>2. PICK m2 : /\ Release(HeapOf(m, k, l), p) = HeapOf(m2, k, l2)
                  /\ Tagged(m2, Freed(T, p), k) /\ Linked(m2, l2) /\ SameData(m, m2, T, A)
    BY <1>1, <2>1, FreeMakes
  <2>3. r.h = HeapOf(m2, k, l2)
    BY <1>5, <2>2, ContractFacts DEF mm_free
  <2> HIDE DEF T, k, l, c2, A, l2
  <2>4. r.h = L!HeapOf(m2, c2) /\ Holds(c2, m2)
    BY <2>2, <2>3, <1>2, ContractFacts DEF Holds
  <2>5. L!Kept(c, PayloadsIn(c) \ {p}, m, m2)
    <3>1. SameData(m, m2, c.tags, PayloadsIn(c) \ {p})
      BY <2>2, <1>3 DEF T
    <3> QED BY <3>1, <1>3, KeptFacts
  <2> QED BY <2>4, <2>5 DEF L!Frees, c2
<1> QED BY <1>4, <1>5

(* mm_realloc. *)
LEMMA ReallocKept == L!ReallocContract
<1> SUFFICES ASSUME NEW c, NEW m, InOrder(c), Holds(c, m),
                    NEW size \in Sizes, NEW old \in PayloadsIn(c),
                    NEW r \in mm_realloc(L!HeapOf(m, c), old, size)
             PROVE  IF RoomFor(c, size) THEN L!Moves(c, old, size, m, r) ELSE L!Refuses(r)
  BY DEF L!ReallocContract
<1> DEFINE T == c.tags
           k == c.brk
           l == c.list
           c2 == L!Resized(c, old, size)
           V == TagsAfter(T, k, l, size)
           l1 == ListAfter(T, k, l, size)
           U == Freed(V, old)
           l2 == FreedList(V, l1, old)
           e == BreakAfter(T, k, l, size)
           p == Given(T, k, l, size)
           A == OwnedBut(T, old)
<1>1. /\ Shape(T, k) /\ Separate(T) /\ Roomy(T) /\ ListOf(l, Frees(T)) /\ old \in Owned(T)
      /\ Tagged(m, T, k) /\ Linked(m, l) /\ Mem(m)
  BY DEF InOrder, PayloadsIn, Holds, Tagged
<1>2. /\ c2.tags = U /\ c2.brk = e /\ c2.list = l2 /\ GivenIn(c, size) = p
      /\ (RoomFor(c, size) <=> Room(T, k, l, size))
  BY DEF HeapAfterMalloc, HeapAfterFree, L!Resized, GivenIn, RoomFor
<1>3. r \in mm_realloc(HeapOf(m, k, l), old, size)
  BY ContractFacts
<1>4. PayloadsIn(c) \ {old} = A /\ PayloadsIn(c) \ {old} \subseteq PayloadsIn(c)
  BY DEF PayloadsIn, OwnedBut
<1>5. CASE Room(T, k, l, size)
  <2>1. PICK m2 : /\ r = [p |-> p, h |-> HeapOf(m2, e, l2)]
                  /\ Tagged(m2, U, e) /\ Linked(m2, l2) /\ SameData(m, m2, T, A)
                  /\ Moved(m, m2, T, old, p, size)
    <3>1. /\ Shape(T, k) /\ Separate(T) /\ Roomy(T) /\ ListOf(l, Frees(T)) /\ old \in Owned(T)
          /\ Tagged(m, T, k) /\ Linked(m, l) /\ Room(T, k, l, size)
          /\ r \in mm_realloc(HeapOf(m, k, l), old, size) /\ size \in Sizes
      BY <1>1, <1>3, <1>5
    <3>2. /\ V = TagsAfter(T, k, l, size) /\ l1 = ListAfter(T, k, l, size)
          /\ e = BreakAfter(T, k, l, size) /\ p = Given(T, k, l, size)
      OBVIOUS
    <3> HIDE DEF T, k, l, c2, V, l1, U, l2, e, p, A
    <3>3. \E m2 : /\ r = [p |-> p, h |-> HeapOf(m2, e, FreedList(V, l1, old))]
                  /\ Tagged(m2, Freed(V, old), e) /\ Linked(m2, FreedList(V, l1, old))
                  /\ SameData(m, m2, T, OwnedBut(T, old))
                  /\ Moved(m, m2, T, old, p, size)
      BY <3>1, <3>2, ReallocMakes
    <3> QED BY <3>3 DEF U, l2, A
  <2>2. Size(T, old) \in Nat /\ CapacityIn(c, old) = Size(T, old) - 8
    BY PayloadFacts DEF CapacityIn
  <2> HIDE DEF T, k, l, c2, U, V, e, l1, l2, p, A
  <2>3. r = [p |-> GivenIn(c, size), h |-> L!HeapOf(m2, c2)] /\ Holds(c2, m2)
    BY <2>1, <1>2, ContractFacts DEF Holds
  <2>4. L!Kept(c, PayloadsIn(c) \ {old}, m, m2)
    <3>1. SameData(m, m2, c.tags, PayloadsIn(c) \ {old})
      BY <2>1, <1>4 DEF T
    <3> QED BY <3>1, <1>4, KeptFacts
  <2>5. L!Moved(c, m, m2, old, GivenIn(c, size), size)
    <3>1. \A n \in Nat : n <= CapacityIn(c, old) => n + 8 <= Size(T, old)
      BY <2>2
    <3> QED BY <3>1, <2>1, <1>2, ContractFacts DEF L!Moved, Moved
  <2> QED BY <2>3, <2>4, <2>5, <1>2, <1>5 DEF L!Moves, c2
<1>6. CASE ~Room(T, k, l, size)
  <2>1. r = [p |-> NULL, h |-> HeapOf(m, k, l)]
    BY <1>1, <1>3, <1>6, ReallocFails
  <2> HIDE DEF T, k, l
  <2>2. r.p = NULL /\ r.h.m = m
    BY <2>1, HeapFacts
  <2> QED BY <2>2, <1>1, <1>2, <1>6, ContractFacts DEF L!Refuses
<1> QED BY <1>5, <1>6

(* refer.c keeps the contract. *)
LEMMA ContractKept == L!Contract
<1>1. L!TraceContract
  BY ReferAssumption DEF L!TraceContract
<1> QED BY <1>1, HeapKept, WriteKept, InitKept, MallocKept, FreeKept, ReallocKept
        DEF L!Contract

-----------------------------------------------------------------------------
(* The theorems *)

(* DriverProofs is about the same driver. *)
LEMMA SameDriver ==
  /\ D!Init <=> L!Init
  /\ D!Next <=> L!Next
  /\ D!dvars = L!dvars
<1>1. D!Init <=> L!Init
  BY DEF D!Init, L!Init, D!NoReport, L!NoReport, D!NoBlocks, L!NoBlocks, D!NULL, L!NULL,
         D!Addr, L!Addr, D!mem_max_addr, L!mem_max_addr, D!WSIZE, L!WSIZE
<1>2. D!dvars = L!dvars
  BY DEF D!dvars, L!dvars
<1>3. D!Next <=> L!Next
  <2>1. D!StartValid <=> L!StartValid
    BY DEF D!StartValid, L!StartValid, D!Heap, L!Heap, D!SetHeap, L!SetHeap, D!NoReport,
           L!NoReport, D!NoBlocks, L!NoBlocks, D!NULL, L!NULL
  <2>2. D!StartUtil <=> L!StartUtil
    BY DEF D!StartUtil, L!StartUtil, D!Start, L!Start, D!Heap, L!Heap, D!SetHeap, L!SetHeap,
           D!NoBlocks, L!NoBlocks, D!NULL, L!NULL
  <2>3. D!StartSpeed <=> L!StartSpeed
    BY DEF D!StartSpeed, L!StartSpeed, D!Start, L!Start, D!Heap, L!Heap, D!SetHeap, L!SetHeap,
           D!NoBlocks, L!NoBlocks, D!NULL, L!NULL
  <2>4. \A op : D!ValidObtain(op) <=> L!ValidObtain(op)
    BY DEF D!ValidObtain, L!ValidObtain, D!ValidRequest, L!ValidRequest, D!Judge, L!Judge,
           D!Invalid, L!Invalid, D!Heap, L!Heap, D!SetHeap, L!SetHeap, D!NoReport, L!NoReport,
           D!NoBlocks, L!NoBlocks, D!mem_heap_lo, L!mem_heap_lo, D!mem_heap_hi, L!mem_heap_hi,
           D!IS_ALIGNED, L!IS_ALIGNED, D!InHeap, L!InHeap, D!Overlaps, L!Overlaps,
           D!Acceptable, L!Acceptable, D!add_range, L!add_range, D!remove_range,
           L!remove_range, D!Requests, L!Requests, D!Legal, L!Legal, D!Outcomes, L!Outcomes,
           D!Remember, L!Remember, D!Compared, L!Compared, D!DataKept, L!DataKept, D!NULL,
           L!NULL, D!WSIZE, L!WSIZE, D!mem_max_addr, L!mem_max_addr, D!Addr, L!Addr, D!Words,
           L!Words, D!memset, L!memset, D!LowByte, L!LowByte, D!Char, L!Char, D!MAX, L!MAX
  <2>5. \A op : D!ValidFree(op) <=> L!ValidFree(op)
    BY DEF D!ValidFree, L!ValidFree, D!ValidRequest, L!ValidRequest, D!Legal, L!Legal,
           D!remove_range, L!remove_range, D!Heap, L!Heap, D!SetHeap, L!SetHeap, D!NULL, L!NULL
  <2>6. D!UtilObtain <=> L!UtilObtain
    BY DEF D!UtilObtain, L!UtilObtain, D!Replay, L!Replay, D!Outcomes, L!Outcomes, D!Heap,
           L!Heap, D!SetHeap, L!SetHeap, D!Remember, L!Remember, D!Account, L!Account, D!MAX,
           L!MAX, D!NULL, L!NULL
  <2>7. D!SpeedObtain <=> L!SpeedObtain
    BY DEF D!SpeedObtain, L!SpeedObtain, D!Replay, L!Replay, D!Outcomes, L!Outcomes, D!Heap,
           L!Heap, D!SetHeap, L!SetHeap, D!NULL, L!NULL
  <2>8. D!ReplayFree <=> L!ReplayFree
    BY DEF D!ReplayFree, L!ReplayFree, D!Replay, L!Replay, D!Heap, L!Heap, D!SetHeap,
           L!SetHeap, D!Account, L!Account, D!NULL, L!NULL
  <2>9. D!Requests = L!Requests
    BY DEF D!Requests, L!Requests
  <2> QED BY <2>1, <2>2, <2>3, <2>4, <2>5, <2>6, <2>7, <2>8, <2>9 DEF D!Next, L!Next
<1> QED BY <1>1, <1>2, <1>3

(* So what holds of DriverProofs' driver holds of this one. *)
LEMMA SameSpec ==
  /\ Spec => L!Spec
  /\ (NeverFaulted <=> L!NeverFaulted) /\ (ReplaySucceeds <=> L!ReplaySucceeds)
<1>1. Spec => L!Spec
  <2>1. D!Init => L!Init
    BY SameDriver
  <2>2. [D!Next]_(D!dvars) => [L!Next]_(L!dvars)
    BY SameDriver DEF D!dvars, L!dvars
  <2> QED BY <2>1, <2>2, PTL DEF Spec, D!Spec, L!Spec
<1>2. NeverFaulted <=> L!NeverFaulted
  BY DEF NeverFaulted, D!NeverFaulted, L!NeverFaulted
<1>3. ReplaySucceeds <=> L!ReplaySucceeds
  BY DEF ReplaySucceeds, D!ReplaySucceeds, L!ReplaySucceeds
<1> QED BY <1>1, <1>2, <1>3

(* eval_mm_valid never faults refer.c: no payload is misaligned, out of    *)
(* the heap or over another one, and no reallocation loses data.           *)
THEOREM ReferNeverFaulted ==
  ASSUME L!PositiveChars
  PROVE  Spec => []NeverFaulted
<1>1. L!Spec => []L!NeverFaulted
  BY ContractKept, MemAssumption, L!PositiveChars, L!ServedNeverFaulted, PTL
<1>2. L!NeverFaulted => NeverFaulted
  BY SameSpec
<1> QED BY <1>1, <1>2, SameSpec, PTL

(* A trace that refer.c has served it serves again in every replay, over   *)
(* whatever the earlier passes left in the region.                         *)
THEOREM ReferReplays == Spec => []ReplaySucceeds
<1>1. L!Spec => []L!ReplaySucceeds
  BY ContractKept, MemAssumption, L!ServedReplays, PTL
<1>2. L!ReplaySucceeds => ReplaySucceeds
  BY SameSpec
<1> QED BY <1>1, <1>2, SameSpec, PTL

(* The free blocks are those the walk over the heap meets. *)
LEMMA WalkFrees ==
  ASSUME NEW m, NEW T, NEW k, Shape(T, k), Tagged(m, T, k), NEW b, Visits(b, m, h0, Most)
  PROVE  {bp \in {b[i] : i \in 0 .. Most} : GET_ALLOC(m, HDRP(bp)) = 0} = Frees(T)
<1>1. Most \in Nat
  BY MostFacts
<1>2. /\ \A j \in 0 .. Most : b[j] \in Blocks(T) \cup {k}
      /\ \A j \in 0 .. Most : \A c \in Blocks(T) :
            c < b[j] => \E i \in 0 .. j - 1 : b[i] = c
      /\ b[Most] = k
  BY Walk
<1>3. \A c \in Blocks(T) : c \in Nat /\ c < k
  BY ShapeFacts
<1>4. GET_ALLOC(m, HDRP(k)) = 1
  BY ReadEpilogue
<1>5. \A c \in Blocks(T) : GET_ALLOC(m, HDRP(c)) = 0 <=> IsFree(T, c)
  BY ReadBlock
<1>6. ASSUME NEW i \in 0 .. Most, GET_ALLOC(m, HDRP(b[i])) = 0 PROVE b[i] \in Frees(T)
  <2>1. b[i] \in Blocks(T)
    BY <1>2, <1>4, <1>6
  <2> QED BY <2>1, <1>5, <1>6 DEF Frees
<1>7. ASSUME NEW bp \in Frees(T)
      PROVE  GET_ALLOC(m, HDRP(bp)) = 0 /\ \E i \in 0 .. Most : b[i] = bp
  <2>1. bp \in Blocks(T) /\ IsFree(T, bp)
    BY DEF Frees
  <2>2. Most \in 0 .. Most /\ bp < b[Most]
    BY <2>1, <1>1, <1>2, <1>3
  <2>3. PICK i \in 0 .. Most - 1 : b[i] = bp
    BY <2>1, <2>2, <1>2
  <2>4. i \in 0 .. Most
    BY <2>3, <1>1
  <2> QED BY <2>1, <2>3, <2>4, <1>5
<1> QED BY <1>6, <1>7

LEMMA FreeBlocksFacts ==
  ASSUME NEW T, Shape(T, mem_brk), Tagged(mem, T, mem_brk)
  PROVE  FreeBlocks = Frees(T)
<1> DEFINE G(f) == [j \in 0 .. Most |-> IF j = 0 THEN h0 ELSE NEXT_BLKP(mem, f[j - 1])]
           b == CHOOSE f : f = G(f)
<1>1. Most \in Nat
  BY MostFacts
<1>2. PICK g : Visits(g, mem, h0, Most)
  BY <1>1, VisitsExist
<1>3. g = G(g)
  BY <1>2 DEF Visits
<1>4. b = G(b)
  <2> HIDE DEF G
  <2> QED BY <1>3
<1>5. FreeBlocks = {bp \in {b[i] : i \in DOMAIN b} : GET_ALLOC(mem, HDRP(bp)) = 0}
  <2>1. Prologue = h0
    BY DEF Prologue, h0, WSIZE, DSIZE
  <2> QED BY <2>1 DEF FreeBlocks, Most
<1> HIDE DEF b
<1>6. Visits(b, mem, h0, Most) /\ DOMAIN b = 0 .. Most
  BY <1>1, <1>4 DEF Visits
<1> HIDE DEF G
<1>7. {bp \in {b[i] : i \in 0 .. Most} : GET_ALLOC(mem, HDRP(bp)) = 0} = Frees(T)
  BY <1>6, WalkFrees
<1> QED BY <1>5, <1>6, <1>7

(* What the contract says of the list: it holds these blocks. *)
LEMMA ListHere == L!HeapSound => ListExact
<1> SUFFICES ASSUME L!HeapSound, phase \in {"valid", "util", "speed"} PROVE ListExact
  BY DEF ListExact
<1>1. PICK c : /\ InOrder(c) /\ Holds(c, mem)
               /\ mem_brk = BreakIn(c) /\ static = StaticIn(c)
  BY DEF L!HeapSound
<1> DEFINE T == c.tags
           l == c.list
           b == Listed(mem, static)
<1>2. /\ Shape(T, mem_brk) /\ Separate(T) /\ Roomy(T) /\ Tagged(mem, T, mem_brk)
      /\ ListOf(l, Frees(T)) /\ Linked(mem, l) /\ static = FirstIn(l)
  BY <1>1 DEF InOrder, Holds, BreakIn, StaticIn
<1> HIDE DEF T, l
<1>3. /\ DOMAIN b = 0 .. Most
      /\ \A i \in 0 .. l.len : b[i] = l.at[i + 1]
  BY <1>2, ListedFacts
<1>4. FreeBlocks = Frees(T)
  BY <1>2, FreeBlocksFacts
<1>5. l.len \in Nat /\ l.len < Most /\ Most \in Nat
  BY <1>2, ShortList, MostFacts
<1>6. /\ l.at[0] = NULL /\ l.at[l.len + 1] = h0
      /\ \A i \in 1 .. l.len : l.at[i] \in Frees(T)
      /\ \A c2 \in Frees(T) : \E i \in 1 .. l.len : l.at[i] = c2
      /\ \A i, j \in 0 .. l.len + 1 : l.at[i] = l.at[j] => i = j
  <2>1. h0 \notin Frees(T) /\ NULL \notin Frees(T)
    BY <1>2, CellBlocks
  <2>2. \A i, j \in 0 .. l.len + 1 : l.at[i] = l.at[j] => i = j
    BY <2>1, <1>2, ListFacts
  <2> QED BY <2>2, <1>2 DEF ListOf
<1>7. \A i \in 1 .. l.len + 1 : mem[l.at[i]] = l.at[i - 1]
  BY <1>2 DEF Linked
<1> HIDE DEF b
<1> DEFINE n == l.len
<1>8. n \in DOMAIN b /\ b[n] = Prologue
  <2>1. n \in 0 .. Most /\ n \in 0 .. l.len
    BY <1>5
  <2> QED BY <2>1, <1>3, <1>6 DEF Prologue, h0, WSIZE, DSIZE
<1>9. FreeBlocks = {b[i] : i \in 0 .. n - 1}
  <2>1. ASSUME NEW x \in FreeBlocks PROVE \E i \in 0 .. n - 1 : x = b[i]
    <3>1. PICK j \in 1 .. l.len : l.at[j] = x
      BY <1>4, <1>6
    <3>2. j - 1 \in 0 .. n - 1 /\ j - 1 \in 0 .. l.len /\ (j - 1) + 1 = j
      BY <1>5
    <3> QED BY <3>1, <3>2, <1>3
  <2>2. ASSUME NEW i \in 0 .. n - 1 PROVE b[i] \in FreeBlocks
    <3>1. i \in 0 .. l.len /\ i + 1 \in 1 .. l.len
      BY <1>5
    <3> QED BY <3>1, <1>3, <1>4, <1>6
  <2> QED BY <2>1, <2>2
<1>10. \A i, j \in 0 .. n : b[i] = b[j] => i = j
  <2> SUFFICES ASSUME NEW i \in 0 .. n, NEW j \in 0 .. n, b[i] = b[j] PROVE i = j
    OBVIOUS
  <2>1. i + 1 \in 0 .. l.len + 1 /\ j + 1 \in 0 .. l.len + 1
    BY <1>5
  <2>2. i + 1 = j + 1
    BY <2>1, <1>3, <1>6
  <2> QED BY <2>2, <1>5
<1>11. ASSUME NEW i \in 0 .. n
       PROVE  PREV_FREE(mem, b[i]) = IF i = 0 THEN NULL ELSE b[i - 1]
  <2>1. i + 1 \in 1 .. l.len + 1 /\ (i + 1) - 1 = i /\ i \in 0 .. l.len
    BY <1>5
  <2>2. PREV_FREE(mem, b[i]) = l.at[i]
    BY <2>1, <1>3, <1>7 DEF PREV_FREE, GET
  <2>3. i # 0 => b[i - 1] = l.at[i]
    <3>1. i # 0 => i - 1 \in 0 .. l.len /\ (i - 1) + 1 = i
      BY <1>5
    <3> QED BY <3>1, <1>3
  <2> QED BY <2>2, <2>3, <1>6
<1>12. ASSUME NEW bp \in FreeBlocks PROVE NEXT_BLKP(mem, bp) \notin FreeBlocks
  <2>1. bp \in Blocks(T) /\ IsFree(T, bp)
    BY <1>4 DEF Frees
  <2>2. NEXT_BLKP(mem, bp) = EndOf(T, bp)
    BY <2>1, <1>2, ReadBlock
  <2>3. EndOf(T, bp) \notin Frees(T)
    BY <2>1, <1>2 DEF Separate, Frees
  <2> QED BY <2>2, <2>3, <1>4
<1>13. \E i \in DOMAIN b :
          /\ b[i] = Prologue /\ FreeBlocks = {b[j] : j \in 0 .. i - 1}
          /\ \A j, j2 \in 0 .. i : b[j] = b[j2] => j = j2
          /\ \A j \in 0 .. i : PREV_FREE(mem, b[j]) = IF j = 0 THEN NULL ELSE b[j - 1]
  <2> HIDE DEF n
  <2> QED BY <1>8, <1>9, <1>10, <1>11
<1> QED BY <1>12, <1>13 DEF ListExact, b

(* Between two calls the list, from its head to the prologue, holds every  *)
(* free block of the heap once and nothing else, with matching back        *)
(* pointers, and no two free blocks touch.                                 *)
THEOREM ReferListExact == Spec => []ListExact
<1>1. L!Spec => []L!HeapSound
  BY ContractKept, MemAssumption, L!ServedSound, PTL
<1>2. L!HeapSound => ListExact
  BY ListHere
<1> QED BY <1>1, <1>2, SameSpec, PTL

=============================================================================
