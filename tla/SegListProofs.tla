---------------------------- MODULE SegListProofs ----------------------------
(***************************************************************************)
(* What the driver finds of segregated_list-85.c, whatever the region, the *)
(* chunk size, the number of groups, the indices, the sizes requested and  *)
(* the length of the trace, as long as the trace reallocates nothing.      *)
(* First what a sorted list of free blocks is and what the two list        *)
(* operations do to one and to all of them; then what each function does   *)
(* to the tags, the lists and the payloads; last that the allocator keeps  *)
(* the contract of DriverProofs, a heap being described by its tags, its   *)
(* break and its lists.                                                    *)
(***************************************************************************)
EXTENDS SegList, TagLemmas

-----------------------------------------------------------------------------
(* Lists *)

(* l lists the blocks of F, each once, between NULL and NULL. *)
ListOf(l, F) ==
    /\ l.len \in Nat
    /\ l.at[0] = NULL /\ l.at[l.len + 1] = NULL
    /\ \A i \in 1 .. l.len : l.at[i] \in F
    /\ \A b \in F : \E i \in 1 .. l.len : l.at[i] = b
    /\ \A i, j \in 1 .. l.len : l.at[i] = l.at[j] => i = j

FirstIn(l) == l.at[1]

(* The smallest blocks come first. *)
Sorted(l, T) ==
    \A i, j \in 1 .. l.len : i < j => Size(T, l.at[i]) <= Size(T, l.at[j])

Empty == [len |-> 0, at |-> [i \in 0 .. 1 |-> NULL]]

(* b comes at the place i. *)
Insert(l, b, i) ==
    [len |-> l.len + 1,
     at  |-> [j \in 0 .. l.len + 2 |->
                 IF j < i THEN l.at[j] ELSE IF j = i THEN b ELSE l.at[j - 1]]]

(* b goes. *)
IndexOf(l, b) == CHOOSE i \in 1 .. l.len : l.at[i] = b

Drop(l, b) ==
    [len |-> l.len - 1,
     at  |-> [i \in 0 .. l.len |-> IF i < IndexOf(l, b) THEN l.at[i] ELSE l.at[i + 1]]]

(* Where Seek stops: at the first block of n bytes or more, or at the end. *)
Stopping(l, T, n) == {i \in 1 .. l.len + 1 : i = l.len + 1 \/ n <= Size(T, l.at[i])}

SeekAt(l, T, n) == FirstOf(Stopping(l, T, n))

(* An empty list. *)
LEMMA EmptyList == ListOf(Empty, {}) /\ FirstIn(Empty) = NULL /\ \A T : Sorted(Empty, T)
BY DEF ListOf, Empty, FirstIn, Sorted

(* Nobody is listed twice, and the ends are no listed blocks.              *)
LEMMA ListFacts ==
  ASSUME NEW l, NEW F, ListOf(l, F), NULL \notin F
  PROVE  /\ l.len \in Nat /\ l.at[0] = NULL /\ l.at[l.len + 1] = NULL
         /\ \A i \in 1 .. l.len : l.at[i] \in F /\ l.at[i] # NULL
         /\ \A i \in 0 .. l.len + 1 : l.at[i] = NULL <=> (i = 0 \/ i = l.len + 1)
         /\ \A i \in 0 .. l.len + 1 : l.at[i] \in F \cup {NULL}
         /\ \A i \in 1 .. l.len : \A j \in 0 .. l.len + 1 : l.at[i] = l.at[j] => i = j
<1>1. /\ l.len \in Nat /\ l.at[0] = NULL /\ l.at[l.len + 1] = NULL
      /\ \A i \in 1 .. l.len : l.at[i] \in F
      /\ \A i, j \in 1 .. l.len : l.at[i] = l.at[j] => i = j
  BY DEF ListOf
<1>2. \A i \in 0 .. l.len + 1 : i = 0 \/ i = l.len + 1 \/ i \in 1 .. l.len
  BY <1>1
<1>3. \A i \in 1 .. l.len : i # 0 /\ i # l.len + 1
  BY <1>1
<1> QED BY <1>1, <1>2, <1>3

(* Inserting a block. *)
LEMMA InsertAt ==
  ASSUME NEW l, l.len \in Nat, NEW b, NEW i \in 1 .. l.len + 1
  PROVE  /\ Insert(l, b, i).len = l.len + 1
         /\ \A j \in 0 .. l.len + 2 : j < i => Insert(l, b, i).at[j] = l.at[j]
         /\ Insert(l, b, i).at[i] = b
         /\ \A j \in 0 .. l.len + 2 : j > i => Insert(l, b, i).at[j] = l.at[j - 1]
<1>1. Insert(l, b, i).len = l.len + 1
  BY DEF Insert
<1>2. \A j \in 0 .. l.len + 2 :
         Insert(l, b, i).at[j] = IF j < i THEN l.at[j] ELSE IF j = i THEN b ELSE l.at[j - 1]
  BY DEF Insert
<1>3. i \in 0 .. l.len + 2 /\ ~(i < i)
  OBVIOUS
<1>4. \A j \in 0 .. l.len + 2 : j > i => ~(j < i) /\ j # i
  OBVIOUS
<1> QED BY <1>1, <1>2, <1>3, <1>4

LEMMA InsertList ==
  ASSUME NEW l, NEW F, ListOf(l, F), NEW b, b \notin F, NEW i \in 1 .. l.len + 1
  PROVE  ListOf(Insert(l, b, i), F \cup {b})
<1> DEFINE p == Insert(l, b, i)
<1>1. /\ l.len \in Nat /\ l.at[0] = NULL /\ l.at[l.len + 1] = NULL
      /\ \A j \in 1 .. l.len : l.at[j] \in F
      /\ \A c \in F : \E j \in 1 .. l.len : l.at[j] = c
      /\ \A j, n \in 1 .. l.len : l.at[j] = l.at[n] => j = n
  BY DEF ListOf
<1>2. /\ p.len = l.len + 1
      /\ \A j \in 0 .. l.len + 2 : j < i => p.at[j] = l.at[j]
      /\ p.at[i] = b
      /\ \A j \in 0 .. l.len + 2 : j > i => p.at[j] = l.at[j - 1]
  BY <1>1, InsertAt
<1> HIDE DEF p
<1>3. p.len \in Nat /\ p.at[0] = NULL /\ p.at[p.len + 1] = NULL
  <2>1. 0 \in 0 .. l.len + 2 /\ 0 < i /\ p.len + 1 \in 0 .. l.len + 2 /\ p.len + 1 > i
        /\ (p.len + 1) - 1 = l.len + 1 /\ p.len \in Nat
    BY <1>1, <1>2
  <2> QED BY <2>1, <1>1, <1>2
<1>4. ASSUME NEW j \in 1 .. p.len
      PROVE  /\ j < i => j \in 1 .. l.len /\ p.at[j] = l.at[j]
             /\ j > i => j - 1 \in 1 .. l.len /\ p.at[j] = l.at[j - 1]
             /\ j = i => p.at[j] = b
             /\ j < i \/ j = i \/ j > i
  BY <1>1, <1>2
<1>5. \A j \in 1 .. p.len : p.at[j] \in F \cup {b}
  BY <1>1, <1>4
<1>6. ASSUME NEW c \in F \cup {b} PROVE \E j \in 1 .. p.len : p.at[j] = c
  <2>1. CASE c = b
    <3>1. i \in 1 .. p.len
      BY <1>1, <1>2
    <3> QED BY <3>1, <2>1, <1>2
  <2>2. CASE c # b
    <3>1. PICK j \in 1 .. l.len : l.at[j] = c
      BY <2>2, <1>1
    <3>2. CASE j < i
      <4>1. j \in 1 .. p.len
        BY <1>1, <1>2
      <4> QED BY <4>1, <3>1, <3>2, <1>4
    <3>3. CASE ~(j < i)
      <4>1. j + 1 \in 1 .. p.len /\ j + 1 > i /\ (j + 1) - 1 = j
        BY <3>3, <1>1, <1>2
      <4> QED BY <4>1, <3>1, <1>4
    <3> QED BY <3>2, <3>3
  <2> QED BY <2>1, <2>2
<1>7. ASSUME NEW j \in 1 .. p.len, NEW n \in 1 .. p.len, p.at[j] = p.at[n]
      PROVE  j = n
  <2>1. CASE j = i
    BY <2>1, <1>1, <1>4, <1>7
  <2>2. CASE n = i
    BY <2>2, <1>1, <1>4, <1>7
  <2>3. CASE j < i /\ n < i
    BY <2>3, <1>1, <1>4, <1>7
  <2>4. CASE j > i /\ n > i
    <3>1. j - 1 = n - 1
      BY <2>4, <1>1, <1>4, <1>7
    <3> QED BY <3>1
  <2>5. CASE j < i /\ n > i
    <3>1. j = n - 1
      BY <2>5, <1>1, <1>4, <1>7
    <3> QED BY <3>1, <2>5
  <2>6. CASE j > i /\ n < i
    <3>1. j - 1 = n
      BY <2>6, <1>1, <1>4, <1>7
    <3> QED BY <3>1, <2>6
  <2> QED BY <2>1, <2>2, <2>3, <2>4, <2>5, <2>6, <1>4
<1> QED BY <1>3, <1>5, <1>6, <1>7 DEF ListOf, p

(* Where a listed block is. *)
LEMMA IndexFacts ==
  ASSUME NEW l, NEW F, ListOf(l, F), NEW b \in F
  PROVE  /\ l.len \in Nat /\ l.len > 0 /\ IndexOf(l, b) \in 1 .. l.len
         /\ l.at[IndexOf(l, b)] = b
         /\ \A i \in 1 .. l.len : l.at[i] = b => i = IndexOf(l, b)
         /\ Drop(l, b).len = l.len - 1
         /\ \A i \in 0 .. l.len :
               Drop(l, b).at[i] = IF i < IndexOf(l, b) THEN l.at[i] ELSE l.at[i + 1]
<1>1. \E i \in 1 .. l.len : l.at[i] = b
  BY DEF ListOf
<1>2. IndexOf(l, b) \in 1 .. l.len /\ l.at[IndexOf(l, b)] = b
  BY <1>1 DEF IndexOf
<1>3. l.len \in Nat /\ l.len > 0
  BY <1>2 DEF ListOf
<1>4. \A i \in 1 .. l.len : l.at[i] = b => i = IndexOf(l, b)
  BY <1>2 DEF ListOf
<1> HIDE DEF IndexOf
<1>5. /\ Drop(l, b).len = l.len - 1
      /\ \A i \in 0 .. l.len :
            Drop(l, b).at[i] = IF i < IndexOf(l, b) THEN l.at[i] ELSE l.at[i + 1]
  BY DEF Drop
<1> QED BY <1>2, <1>3, <1>4, <1>5

(* Dropping a block. *)
LEMMA DropList ==
  ASSUME NEW l, NEW F, ListOf(l, F), NEW b \in F
  PROVE  ListOf(Drop(l, b), F \ {b})
<1> DEFINE d == Drop(l, b)
           j == IndexOf(l, b)
<1>1. /\ l.len \in Nat /\ l.at[0] = NULL /\ l.at[l.len + 1] = NULL
      /\ \A i \in 1 .. l.len : l.at[i] \in F
      /\ \A c \in F : \E i \in 1 .. l.len : l.at[i] = c
      /\ \A i, n \in 1 .. l.len : l.at[i] = l.at[n] => i = n
  BY DEF ListOf
<1>2. /\ j \in 1 .. l.len /\ l.at[j] = b /\ j \in Nat
      /\ d.len = l.len - 1 /\ d.len \in Nat /\ l.len > 0
      /\ \A i \in 0 .. l.len : d.at[i] = IF i < j THEN l.at[i] ELSE l.at[i + 1]
  BY IndexFacts
<1> HIDE DEF d, j
<1>3. d.at[0] = NULL
  <2>1. 0 \in 0 .. l.len /\ 0 < j
    BY <1>1, <1>2
  <2> QED BY <2>1, <1>1, <1>2
<1>4. d.at[d.len + 1] = NULL
  <2>1. d.len + 1 = l.len /\ l.len \in 0 .. l.len /\ ~(l.len < j)
    BY <1>1, <1>2
  <2> QED BY <2>1, <1>1, <1>2
<1>5. ASSUME NEW i \in 1 .. d.len
      PROVE  /\ i < j => i \in 1 .. l.len /\ d.at[i] = l.at[i]
             /\ ~(i < j) => i + 1 \in 1 .. l.len /\ i + 1 # j /\ d.at[i] = l.at[i + 1]
  BY <1>1, <1>2
<1>6. \A i \in 1 .. d.len : d.at[i] \in F \ {b}
  BY <1>1, <1>2, <1>5
<1>7. ASSUME NEW c \in F \ {b} PROVE \E i \in 1 .. d.len : d.at[i] = c
  <2>1. PICK i \in 1 .. l.len : l.at[i] = c
    BY <1>1
  <2>2. i # j
    BY <2>1, <1>2
  <2>3. CASE i < j
    <3>1. i \in 1 .. d.len
      BY <2>3, <1>1, <1>2
    <3> QED BY <3>1, <2>1, <2>3, <1>5
  <2>4. CASE ~(i < j)
    <3>1. i - 1 \in 1 .. d.len /\ ~(i - 1 < j) /\ (i - 1) + 1 = i
      BY <2>2, <2>4, <1>1, <1>2
    <3> QED BY <3>1, <2>1, <1>5
  <2> QED BY <2>3, <2>4
<1>8. ASSUME NEW i \in 1 .. d.len, NEW n \in 1 .. d.len, d.at[i] = d.at[n]
      PROVE  i = n
  <2>1. CASE i < j /\ n < j
    BY <2>1, <1>1, <1>5, <1>8
  <2>2. CASE ~(i < j) /\ ~(n < j)
    <3>1. i + 1 = n + 1
      BY <2>2, <1>1, <1>5, <1>8
    <3> QED BY <3>1
  <2>3. CASE i < j /\ ~(n < j)
    <3>1. i = n + 1
      BY <2>3, <1>1, <1>5, <1>8
    <3> QED BY <3>1, <2>3, <1>2
  <2>4. CASE ~(i < j) /\ n < j
    <3>1. i + 1 = n
      BY <2>4, <1>1, <1>5, <1>8
    <3> QED BY <3>1, <2>4, <1>2
  <2> QED BY <2>1, <2>2, <2>3, <2>4
<1> QED BY <1>2, <1>3, <1>4, <1>6, <1>7, <1>8 DEF ListOf, d

(* Where Seek stops. *)
LEMMA SeekFacts ==
  ASSUME NEW l, l.len \in Nat, NEW T, NEW n, NEW i, i = SeekAt(l, T, n)
  PROVE  /\ i \in 1 .. l.len + 1
         /\ i = l.len + 1 \/ n <= Size(T, l.at[i])
         /\ \A j \in 1 .. l.len : j < i => ~(n <= Size(T, l.at[j]))
<1> DEFINE S == Stopping(l, T, n)
<1>1. l.len + 1 \in S /\ S \in SUBSET Nat
  BY DEF Stopping
<1>2. PICK x \in S : \A y \in S : x <= y
  <2> HIDE DEF S
  <2> QED BY <1>1, Least
<1>3. i \in S /\ \A y \in S : i <= y
  <2>1. i = CHOOSE z \in S : \A y \in S : z <= y
    BY DEF SeekAt, FirstOf
  <2> HIDE DEF S
  <2> QED BY <2>1, <1>2
<1>4. i \in 1 .. l.len + 1 /\ (i = l.len + 1 \/ n <= Size(T, l.at[i]))
  BY <1>3 DEF Stopping
<1>5. ASSUME NEW j \in 1 .. l.len, j < i PROVE ~(n <= Size(T, l.at[j]))
  <2>1. j \notin S
    BY <1>3, <1>4, <1>5
  <2>2. j \in 1 .. l.len + 1
    OBVIOUS
  <2> QED BY <2>1, <2>2 DEF Stopping
<1> QED BY <1>4, <1>5

(* Blocks have sizes. *)
Sized(T, F) == \A b \in F : Size(T, b) \in Nat

(* A block inserted where Seek stops keeps the order. *)
LEMMA InsertSorted ==
  ASSUME NEW l, NEW F, ListOf(l, F), NEW T, Sized(T, F), Sorted(l, T), NEW b, b \notin F,
         NEW n \in Nat, n = Size(T, b), NEW i, i = SeekAt(l, T, n)
  PROVE  Sorted(Insert(l, b, i), T)
<1> DEFINE p == Insert(l, b, i)
<1>1. l.len \in Nat /\ \A j \in 1 .. l.len : l.at[j] \in F /\ Size(T, l.at[j]) \in Nat
  BY DEF ListOf, Sized
<1>2. /\ i \in 1 .. l.len + 1
      /\ i = l.len + 1 \/ n <= Size(T, l.at[i])
      /\ \A j \in 1 .. l.len : j < i => ~(n <= Size(T, l.at[j]))
  BY <1>1, SeekFacts
<1>3. /\ p.len = l.len + 1
      /\ \A j \in 0 .. l.len + 2 : j < i => p.at[j] = l.at[j]
      /\ p.at[i] = b
      /\ \A j \in 0 .. l.len + 2 : j > i => p.at[j] = l.at[j - 1]
  BY <1>1, <1>2, InsertAt
<1> HIDE DEF p
<1>4. ASSUME NEW j \in 1 .. p.len
      PROVE  /\ j < i => j \in 1 .. l.len /\ p.at[j] = l.at[j]
             /\ j > i => j - 1 \in 1 .. l.len /\ p.at[j] = l.at[j - 1] /\ j - 1 >= i
             /\ j = i => p.at[j] = b
             /\ j < i \/ j = i \/ j > i
  BY <1>1, <1>2, <1>3
<1>5. ASSUME NEW j \in 1 .. l.len, j >= i PROVE n <= Size(T, l.at[j])
  <2>1. i \in 1 .. l.len /\ n <= Size(T, l.at[i])
    BY <1>1, <1>2, <1>5
  <2>2. CASE j = i
    BY <2>1, <2>2
  <2>3. CASE j # i
    <3>1. i < j
      BY <2>1, <2>3, <1>5
    <3>2. Size(T, l.at[i]) <= Size(T, l.at[j])
      BY <2>1, <3>1 DEF Sorted
    <3>3. Size(T, l.at[i]) \in Nat /\ Size(T, l.at[j]) \in Nat
      BY <2>1, <1>1
    <3> QED BY <3>2, <3>3, <2>1
  <2> QED BY <2>2, <2>3
<1>6. ASSUME NEW j \in 1 .. p.len, NEW q \in 1 .. p.len, j < q
      PROVE  Size(T, p.at[j]) <= Size(T, p.at[q])
  <2>1. CASE q < i
    <3>1. j < i /\ p.at[j] = l.at[j] /\ p.at[q] = l.at[q] /\ j \in 1 .. l.len /\ q \in 1 .. l.len
      <4>1. j < i
        BY <2>1, <1>2, <1>6
      <4> QED BY <4>1, <2>1, <1>4
    <3> QED BY <3>1, <1>6 DEF Sorted
  <2>2. CASE q = i
    <3>1. j < i /\ p.at[j] = l.at[j] /\ p.at[q] = b /\ j \in 1 .. l.len
      BY <2>2, <1>4, <1>6
    <3>2. ~(n <= Size(T, l.at[j])) /\ Size(T, l.at[j]) \in Nat
      BY <3>1, <1>1, <1>2
    <3> QED BY <3>1, <3>2
  <2>3. CASE q > i /\ j = i
    <3>1. q - 1 \in 1 .. l.len /\ p.at[q] = l.at[q - 1] /\ q - 1 >= i /\ p.at[j] = b
      BY <2>3, <1>4
    <3>2. n <= Size(T, l.at[q - 1])
      BY <3>1, <1>5
    <3> QED BY <3>1, <3>2
  <2>4. CASE q > i /\ j < i
    <3>1. /\ q - 1 \in 1 .. l.len /\ p.at[q] = l.at[q - 1] /\ q - 1 >= i
          /\ p.at[j] = l.at[j] /\ j \in 1 .. l.len /\ j < q - 1
      <4>1. j < q - 1
        BY <2>4, <1>2, <1>3, <1>1
      <4> QED BY <4>1, <2>4, <1>4
    <3> QED BY <3>1 DEF Sorted
  <2>5. CASE q > i /\ j > i
    <3>1. /\ q - 1 \in 1 .. l.len /\ p.at[q] = l.at[q - 1]
          /\ p.at[j] = l.at[j - 1] /\ j - 1 \in 1 .. l.len /\ j - 1 < q - 1
      <4>1. j - 1 < q - 1
        BY <1>6, <1>3, <1>1
      <4> QED BY <4>1, <2>5, <1>4
    <3> QED BY <3>1 DEF Sorted
  <2> QED BY <2>1, <2>2, <2>3, <2>4, <2>5, <1>4
<1> QED BY <1>6 DEF Sorted, p

(* So does a block that goes. *)
LEMMA DropSorted ==
  ASSUME NEW l, NEW F, ListOf(l, F), NEW b \in F, NEW T, Sorted(l, T)
  PROVE  Sorted(Drop(l, b), T)
<1> DEFINE d == Drop(l, b)
           j == IndexOf(l, b)
<1>1. /\ l.len \in Nat /\ j \in 1 .. l.len /\ d.len = l.len - 1
      /\ \A i \in 0 .. l.len : d.at[i] = IF i < j THEN l.at[i] ELSE l.at[i + 1]
  BY IndexFacts
<1> HIDE DEF d, j
<1>2. ASSUME NEW i \in 1 .. d.len, NEW n \in 1 .. d.len, i < n
      PROVE  Size(T, d.at[i]) <= Size(T, d.at[n])
  <2> DEFINE a == IF i < j THEN i ELSE i + 1
             c == IF n < j THEN n ELSE n + 1
  <2>1. a \in 1 .. l.len /\ c \in 1 .. l.len /\ a < c /\ i \in 0 .. l.len /\ n \in 0 .. l.len
    BY <1>1, <1>2
  <2>2. d.at[i] = l.at[a] /\ d.at[n] = l.at[c]
    BY <2>1, <1>1
  <2> HIDE DEF a, c
  <2> QED BY <2>1, <2>2 DEF Sorted
<1> QED BY <1>2 DEF Sorted, d

(* The order depends on the sizes of the listed blocks alone. *)
LEMMA SortedAgain ==
  ASSUME NEW l, NEW F, ListOf(l, F), NEW T, Sorted(l, T), NEW T2,
         \A b \in F : Size(T2, b) = Size(T, b)
  PROVE  Sorted(l, T2)
<1>1. \A i \in 1 .. l.len : Size(T2, l.at[i]) = Size(T, l.at[i])
  BY DEF ListOf
<1> QED BY <1>1 DEF Sorted

-----------------------------------------------------------------------------
(* Links *)

(* The two link words of a block. *)
Cell(c) == c \in Nat /\ c % 8 = 0 /\ c \in Addr /\ c + 4 \in Addr

(* The memory m holds the links of the list l. *)
Chained(m, l) ==
    \A i \in 1 .. l.len : m[l.at[i]] = l.at[i - 1] /\ m[l.at[i] + 4] = l.at[i + 1]

(* Only link words of the blocks N may differ. *)
LinksOnly(m, m2, N) == \A a \in Addr : (\A c \in N : a # c /\ a # c + 4) => m2[a] = m[a]

(* The links of the blocks A are as before. *)
SameLinks(m, m2, A) == \A c \in A : m2[c] = m[c] /\ m2[c + 4] = m[c + 4]

(* Different cells have no word in common. *)
LEMMA CellFacts ==
  ASSUME NEW c, NEW d, Cell(c), Cell(d)
  PROVE  c + 4 # d /\ d + 4 # c /\ (c + 4 = d + 4 => c = d)
BY DEF Cell

(* A list whose links are as before is still there. *)
LEMMA LinkKeep ==
  ASSUME NEW l, NEW F, ListOf(l, F), NEW m, Chained(m, l), NEW m2, SameLinks(m, m2, F)
  PROVE  Chained(m2, l)
<1>1. \A i \in 1 .. l.len : l.at[i] \in F
  BY DEF ListOf
<1> QED BY <1>1 DEF Chained, SameLinks

(* Writing links of some cells leaves those of others. *)
LEMMA OtherLinks ==
  ASSUME NEW N, NEW A, \A c \in N : Cell(c), \A c \in A : Cell(c) /\ c \notin N,
         NEW m, NEW m2, LinksOnly(m, m2, N)
  PROVE  SameLinks(m, m2, A)
<1> SUFFICES ASSUME NEW c \in A PROVE m2[c] = m[c] /\ m2[c + 4] = m[c + 4]
  BY DEF SameLinks
<1>1. Cell(c) /\ c \notin N
  OBVIOUS
<1>2. \A d \in N : c # d /\ c # d + 4 /\ c + 4 # d /\ c + 4 # d + 4
  <2> SUFFICES ASSUME NEW d \in N PROVE c # d /\ c # d + 4 /\ c + 4 # d /\ c + 4 # d + 4
    OBVIOUS
  <2>1. Cell(d) /\ c # d
    BY <1>1
  <2> QED BY <2>1, <1>1, CellFacts
<1> QED BY <1>1, <1>2 DEF LinksOnly, Cell

(* What add_block writes: b comes between pv and cu. *)
Between2(m, b, pv, cu) ==
    LET m1 == SetPrev(SetNext(m, b, cu), b, pv)
        m2 == IF cu # NULL THEN SetPrev(m1, cu, b) ELSE m1
    IN  IF pv = NULL THEN m2 ELSE SetNext(m2, pv, b)

LEMMA BetweenWords ==
  ASSUME NEW m, Mem(m), NEW b, Cell(b), NEW pv, pv = NULL \/ (Cell(pv) /\ pv # b),
         NEW cu, cu = NULL \/ (Cell(cu) /\ cu # b)
  PROVE  /\ Mem(Between2(m, b, pv, cu))
         /\ \A a \in Addr : Between2(m, b, pv, cu)[a] =
               IF a = b THEN pv ELSE IF a = b + 4 THEN cu
               ELSE IF cu # NULL /\ a = cu THEN b
               ELSE IF pv # NULL /\ a = pv + 4 THEN b ELSE m[a]
<1>1. /\ b \in Addr /\ b + 4 \in Addr /\ b \in Nat /\ pv \in Nat /\ cu \in Nat /\ b + 4 # b
      /\ cu # NULL => cu \in Addr /\ cu # b /\ cu # b + 4
      /\ pv # NULL => pv + 4 \in Addr /\ pv + 4 # b /\ pv + 4 # b + 4
      /\ cu # NULL /\ pv # NULL => pv + 4 # cu
  <2>1. cu # NULL => cu # b + 4
    BY CellFacts
  <2>2. pv # NULL => pv + 4 # b /\ pv + 4 # b + 4
    BY CellFacts
  <2>3. cu # NULL /\ pv # NULL => pv + 4 # cu
    BY CellFacts
  <2>4. b + 4 # b
    BY DEF Cell
  <2> QED BY <2>1, <2>2, <2>3, <2>4 DEF Cell, NULL
<1> DEFINE m1 == PUT(m, b + 4, cu)
           m2 == PUT(m1, b, pv)
           m3 == IF cu # NULL THEN PUT(m2, cu, b) ELSE m2
           m4 == IF pv = NULL THEN m3 ELSE PUT(m3, pv + 4, b)
<1>2. Between2(m, b, pv, cu) = m4
  BY DEF Between2, SetPrev, SetNext, WSIZE
<1>3. Mem(m1) /\ \A a \in Addr : m1[a] = IF a = b + 4 THEN cu ELSE m[a]
  BY <1>1 DEF Mem, PUT
<1> HIDE DEF m1
<1>4. Mem(m2) /\ \A a \in Addr : m2[a] = IF a = b THEN pv ELSE m1[a]
  BY <1>1, <1>3 DEF Mem, PUT
<1> HIDE DEF m2
<1>5. Mem(m3) /\ \A a \in Addr : m3[a] = IF cu # NULL /\ a = cu THEN b ELSE m2[a]
  <2>1. CASE cu = NULL
    BY <2>1, <1>4
  <2>2. CASE cu # NULL
    BY <2>2, <1>1, <1>4 DEF Mem, PUT
  <2> QED BY <2>1, <2>2
<1> HIDE DEF m3
<1>6. Mem(m4) /\ \A a \in Addr : m4[a] = IF pv # NULL /\ a = pv + 4 THEN b ELSE m3[a]
  <2>1. CASE pv = NULL
    BY <2>1, <1>5
  <2>2. CASE pv # NULL
    BY <2>2, <1>1, <1>5 DEF Mem, PUT
  <2> QED BY <2>1, <2>2
<1> HIDE DEF m4
<1>7. ASSUME NEW a \in Addr
      PROVE  m4[a] = IF a = b THEN pv ELSE IF a = b + 4 THEN cu
                     ELSE IF cu # NULL /\ a = cu THEN b
                     ELSE IF pv # NULL /\ a = pv + 4 THEN b ELSE m[a]
  BY <1>1, <1>3, <1>4, <1>5, <1>6
<1> QED BY <1>2, <1>6, <1>7

(* add_block puts a block between two neighbours in the list. *)
LEMMA InsertLinks ==
  ASSUME NEW l, NEW F, ListOf(l, F), NULL \notin F, NEW b, b \notin F, b # NULL,
         NEW N, N = F \cup {b}, \A c \in N : Cell(c),
         NEW m, Mem(m), Chained(m, l), NEW i \in 1 .. l.len + 1,
         NEW m2, m2 = Between2(m, b, l.at[i - 1], l.at[i])
  PROVE  Mem(m2) /\ Chained(m2, Insert(l, b, i)) /\ LinksOnly(m, m2, N)
<1> DEFINE p == Insert(l, b, i)
           pv == l.at[i - 1]
           cu == l.at[i]
<1>1. /\ l.len \in Nat /\ l.at[0] = NULL /\ l.at[l.len + 1] = NULL
      /\ \A j \in 1 .. l.len : l.at[j] \in F /\ l.at[j] # NULL
      /\ \A j \in 0 .. l.len + 1 : l.at[j] = NULL <=> (j = 0 \/ j = l.len + 1)
      /\ \A j \in 0 .. l.len + 1 : l.at[j] \in F \cup {NULL}
      /\ \A j \in 1 .. l.len : \A n \in 0 .. l.len + 1 : l.at[j] = l.at[n] => j = n
  BY ListFacts
<1>2. /\ i - 1 \in 0 .. l.len + 1 /\ i \in 0 .. l.len + 1 /\ i \in Nat
  BY <1>1
<1>3. /\ p.len = l.len + 1
      /\ \A j \in 0 .. l.len + 2 : j < i => p.at[j] = l.at[j]
      /\ p.at[i] = b
      /\ \A j \in 0 .. l.len + 2 : j > i => p.at[j] = l.at[j - 1]
  BY <1>1, InsertAt
<1>4. Cell(b) /\ (pv = NULL \/ (Cell(pv) /\ pv # b)) /\ (cu = NULL \/ (Cell(cu) /\ cu # b))
      /\ (pv # NULL => pv \in N) /\ (cu # NULL => cu \in N)
  BY <1>1, <1>2
<1> HIDE DEF p, pv, cu
<1>5. /\ Mem(m2)
      /\ \A a \in Addr : m2[a] =
            IF a = b THEN pv ELSE IF a = b + 4 THEN cu
            ELSE IF cu # NULL /\ a = cu THEN b
            ELSE IF pv # NULL /\ a = pv + 4 THEN b ELSE m[a]
  <2>1. m2 = Between2(m, b, pv, cu)
    BY DEF pv, cu
  <2>2. /\ Mem(m) /\ Cell(b)
        /\ pv = NULL \/ (Cell(pv) /\ pv # b)
        /\ cu = NULL \/ (Cell(cu) /\ cu # b)
    BY <1>4
  <2>3. /\ Mem(Between2(m, b, pv, cu))
        /\ \A a \in Addr : Between2(m, b, pv, cu)[a] =
               IF a = b THEN pv ELSE IF a = b + 4 THEN cu
               ELSE IF cu # NULL /\ a = cu THEN b
               ELSE IF pv # NULL /\ a = pv + 4 THEN b ELSE m[a]
    BY ONLY <2>2, BetweenWords
  <2> QED BY <2>1, <2>3
<1>6. LinksOnly(m, m2, N)
  BY <1>4, <1>5 DEF LinksOnly
<1>7. m2[b] = pv /\ m2[b + 4] = cu
  BY <1>4, <1>5 DEF Cell
<1>8. ASSUME NEW j \in 1 .. l.len
      PROVE  /\ m2[l.at[j]] = IF j = i THEN b ELSE l.at[j - 1]
             /\ m2[l.at[j] + 4] = IF j = i - 1 THEN b ELSE l.at[j + 1]
  <2> DEFINE c == l.at[j]
  <2>1. c \in F /\ c # NULL /\ (c = cu <=> j = i) /\ (c = pv <=> j = i - 1)
    BY <1>1, <1>2 DEF cu, pv
  <2>2. m[c] = l.at[j - 1] /\ m[c + 4] = l.at[j + 1]
    BY DEF Chained
  <2> HIDE DEF c
  <2>3. Cell(c) /\ c # b
    BY <2>1
  <2>4. /\ c \in Addr /\ c + 4 \in Addr /\ c # b + 4 /\ c + 4 # b /\ c + 4 # b + 4
        /\ pv # NULL => c # pv + 4 /\ (c + 4 = pv + 4 => c = pv)
        /\ cu # NULL => c + 4 # cu
    <3>1. c # b + 4 /\ c + 4 # b /\ c + 4 # b + 4
      BY <2>3, <1>4, CellFacts
    <3>2. pv # NULL => c # pv + 4 /\ (c + 4 = pv + 4 => c = pv)
      BY <2>3, <1>4, CellFacts
    <3>3. cu # NULL => c + 4 # cu
      BY <2>3, <1>4, CellFacts
    <3> QED BY <3>1, <3>2, <3>3, <2>3 DEF Cell
  <2>5. m2[c] = IF c = cu THEN b ELSE m[c]
    BY <2>1, <2>3, <2>4, <1>5
  <2>6. m2[c + 4] = IF c = pv THEN b ELSE m[c + 4]
    BY <2>1, <2>3, <2>4, <1>5
  <2> QED BY <2>1, <2>2, <2>5, <2>6 DEF c
<1>9. ASSUME NEW j \in 1 .. p.len
      PROVE  m2[p.at[j]] = p.at[j - 1] /\ m2[p.at[j] + 4] = p.at[j + 1]
  <2>1. /\ j \in 0 .. l.len + 2 /\ j - 1 \in 0 .. l.len + 2 /\ j + 1 \in 0 .. l.len + 2
        /\ j \in Nat /\ (j + 1) - 1 = j
    BY <1>1, <1>3
  <2>2. CASE j = i
    <3>1. p.at[j - 1] = pv /\ p.at[j + 1] = cu
      <4>1. j - 1 < i /\ j + 1 > i
        BY <2>2, <2>1
      <4> QED BY <4>1, <2>1, <2>2, <1>3 DEF pv, cu
    <3> QED BY <3>1, <2>2, <1>3, <1>7
  <2>3. CASE j < i
    <3>1. j \in 1 .. l.len /\ p.at[j] = l.at[j] /\ p.at[j - 1] = l.at[j - 1] /\ j # i
      <4>1. j - 1 < i /\ j \in 1 .. l.len /\ j # i
        BY <2>1, <2>3, <1>1
      <4> QED BY <4>1, <2>1, <2>3, <1>3
    <3>2. CASE j = i - 1
      <4>1. j + 1 = i
        BY <3>2, <1>2
      <4> QED BY <4>1, <3>1, <3>2, <1>3, <1>8
    <3>3. CASE j # i - 1
      <4>1. j + 1 < i
        BY <3>3, <2>3, <2>1, <1>2
      <4>2. p.at[j + 1] = l.at[j + 1]
        BY <4>1, <2>1, <1>3
      <4> QED BY <4>2, <3>1, <3>3, <1>8
    <3> QED BY <3>2, <3>3
  <2>4. CASE j > i
    <3>1. /\ j - 1 \in 1 .. l.len /\ p.at[j] = l.at[j - 1] /\ p.at[j + 1] = l.at[j]
          /\ j - 1 # i - 1 /\ (j - 1) + 1 = j
      <4>1. j - 1 \in 1 .. l.len /\ j + 1 > i /\ j - 1 # i - 1 /\ (j - 1) + 1 = j
        BY <2>1, <2>4, <1>1, <1>2, <1>3
      <4> QED BY <4>1, <2>1, <2>4, <1>3
    <3>2. m2[p.at[j] + 4] = p.at[j + 1]
      BY <3>1, <1>8
    <3>3. m2[p.at[j]] = p.at[j - 1]
      <4>1. CASE j - 1 = i
        BY <4>1, <3>1, <1>3, <1>8
      <4>2. CASE j - 1 # i
        <5>1. j - 1 > i
          BY <4>2, <2>4, <2>1, <1>2
        <5>2. p.at[j - 1] = l.at[(j - 1) - 1]
          BY <5>1, <2>1, <1>3
        <5> QED BY <5>2, <4>2, <3>1, <1>8
      <4> QED BY <4>1, <4>2
    <3> QED BY <3>2, <3>3
  <2> QED BY <2>1, <2>2, <2>3, <2>4, <1>2
<1> QED BY <1>5, <1>6, <1>9 DEF Chained, p

(* What remove_block writes: pv and nx become neighbours. *)
Closed(m, pv, nx) ==
    LET m1 == IF nx # NULL THEN SetPrev(m, nx, pv) ELSE m
    IN  IF pv # NULL THEN SetNext(m1, pv, nx) ELSE m1

LEMMA ClosedWords ==
  ASSUME NEW m, Mem(m), NEW pv, pv = NULL \/ Cell(pv), NEW nx, nx = NULL \/ Cell(nx)
  PROVE  /\ Mem(Closed(m, pv, nx))
         /\ \A a \in Addr : Closed(m, pv, nx)[a] =
               IF nx # NULL /\ a = nx THEN pv
               ELSE IF pv # NULL /\ a = pv + 4 THEN nx ELSE m[a]
<1>1. /\ pv \in Nat /\ nx \in Nat
      /\ nx # NULL => nx \in Addr
      /\ pv # NULL => pv + 4 \in Addr
      /\ nx # NULL /\ pv # NULL => pv + 4 # nx
  <2>1. nx # NULL /\ pv # NULL => pv + 4 # nx
    BY CellFacts
  <2> QED BY <2>1 DEF Cell, NULL
<1> DEFINE m1 == IF nx # NULL THEN PUT(m, nx, pv) ELSE m
           m2 == IF pv # NULL THEN PUT(m1, pv + 4, nx) ELSE m1
<1>2. Closed(m, pv, nx) = m2
  BY DEF Closed, SetPrev, SetNext, WSIZE
<1>3. Mem(m1) /\ \A a \in Addr : m1[a] = IF nx # NULL /\ a = nx THEN pv ELSE m[a]
  <2>1. CASE nx = NULL
    BY <2>1
  <2>2. CASE nx # NULL
    BY <2>2, <1>1 DEF Mem, PUT
  <2> QED BY <2>1, <2>2
<1> HIDE DEF m1
<1>4. Mem(m2) /\ \A a \in Addr : m2[a] = IF pv # NULL /\ a = pv + 4 THEN nx ELSE m1[a]
  <2>1. CASE pv = NULL
    BY <2>1, <1>3
  <2>2. CASE pv # NULL
    BY <2>2, <1>1, <1>3 DEF Mem, PUT
  <2> QED BY <2>1, <2>2
<1> HIDE DEF m2
<1> QED BY <1>1, <1>2, <1>3, <1>4

(* remove_block takes a block out of the list. *)
LEMMA DropLinks ==
  ASSUME NEW l, NEW F, ListOf(l, F), NULL \notin F, NEW b \in F, \A c \in F : Cell(c),
         NEW m, Mem(m), Chained(m, l), NEW m2, m2 = Closed(m, m[b], m[b + 4])
  PROVE  /\ Mem(m2) /\ Chained(m2, Drop(l, b)) /\ LinksOnly(m, m2, F)
         /\ m[b] = l.at[IndexOf(l, b) - 1] /\ m[b + 4] = l.at[IndexOf(l, b) + 1]
         /\ FirstIn(Drop(l, b)) = (IF m[b] = NULL THEN m[b + 4] ELSE FirstIn(l))
<1> DEFINE d == Drop(l, b)
           j == IndexOf(l, b)
           nx == l.at[j + 1]
           pv == l.at[j - 1]
<1>1. /\ l.len \in Nat /\ l.at[0] = NULL /\ l.at[l.len + 1] = NULL
      /\ \A i \in 1 .. l.len : l.at[i] \in F /\ l.at[i] # NULL
      /\ \A i \in 0 .. l.len + 1 : l.at[i] = NULL <=> (i = 0 \/ i = l.len + 1)
      /\ \A i \in 0 .. l.len + 1 : l.at[i] \in F \cup {NULL}
      /\ \A i \in 1 .. l.len : \A n \in 0 .. l.len + 1 : l.at[i] = l.at[n] => i = n
  BY ListFacts
<1>2. /\ l.len > 0 /\ j \in 1 .. l.len /\ l.at[j] = b /\ j \in Nat
      /\ d.len = l.len - 1
      /\ \A i \in 0 .. l.len : d.at[i] = IF i < j THEN l.at[i] ELSE l.at[i + 1]
  BY IndexFacts
<1> HIDE DEF d, j
<1>3. j + 1 \in 0 .. l.len + 1 /\ j - 1 \in 0 .. l.len + 1
  BY <1>1, <1>2
<1>4. m[b] = pv /\ m[b + 4] = nx
  BY <1>2 DEF Chained
<1>5. /\ pv = NULL \/ (Cell(pv) /\ pv \in F)
      /\ nx = NULL \/ (Cell(nx) /\ nx \in F)
  <2>1. (pv = NULL \/ pv \in F) /\ (nx = NULL \/ nx \in F)
    BY <1>1, <1>3
  <2> HIDE DEF nx, pv
  <2> QED BY <2>1
<1>6. pv = NULL <=> j = 1
  BY <1>1, <1>2, <1>3
<1>7. FirstIn(d) = IF pv = NULL THEN nx ELSE FirstIn(l)
  <2>1. 1 \in 0 .. l.len /\ (1 < j <=> j # 1)
    BY <1>1, <1>2
  <2> QED BY <2>1, <1>2, <1>6 DEF FirstIn
<1> HIDE DEF nx, pv
<1>8. /\ Mem(m2)
      /\ \A a \in Addr : m2[a] = IF nx # NULL /\ a = nx THEN pv
                                 ELSE IF pv # NULL /\ a = pv + 4 THEN nx ELSE m[a]
  <2>1. Mem(m) /\ (pv = NULL \/ Cell(pv)) /\ (nx = NULL \/ Cell(nx))
    BY <1>5
  <2>2. m2 = Closed(m, pv, nx)
    BY <1>4
  <2>3. /\ Mem(Closed(m, pv, nx))
        /\ \A a \in Addr : Closed(m, pv, nx)[a] = IF nx # NULL /\ a = nx THEN pv
                                                 ELSE IF pv # NULL /\ a = pv + 4 THEN nx ELSE m[a]
    BY ONLY <2>1, ClosedWords
  <2> QED BY <2>2, <2>3
<1>9. LinksOnly(m, m2, F)
  BY <1>5, <1>8 DEF LinksOnly
<1>10. ASSUME NEW i \in 1 .. l.len, i # j
       PROVE  /\ m2[l.at[i]] = IF i = j + 1 THEN pv ELSE l.at[i - 1]
              /\ m2[l.at[i] + 4] = IF i = j - 1 THEN nx ELSE l.at[i + 1]
  <2> DEFINE c == l.at[i]
  <2>1. c \in F /\ c # NULL /\ (c = nx <=> i = j + 1) /\ (c = pv <=> i = j - 1)
    BY <1>1, <1>3 DEF nx, pv
  <2>2. m[c] = l.at[i - 1] /\ m[c + 4] = l.at[i + 1]
    BY DEF Chained
  <2> HIDE DEF c
  <2>3. Cell(c)
    BY <2>1
  <2>4. /\ c \in Addr /\ c + 4 \in Addr
        /\ pv # NULL => c # pv + 4 /\ (c + 4 = pv + 4 => c = pv)
        /\ nx # NULL => c + 4 # nx
    <3>1. pv # NULL => c # pv + 4 /\ (c + 4 = pv + 4 => c = pv)
      BY <2>3, <1>5, CellFacts
    <3>2. nx # NULL => c + 4 # nx
      BY <2>3, <1>5, CellFacts
    <3> QED BY <3>1, <3>2, <2>3 DEF Cell
  <2>5. m2[c] = IF c = nx THEN pv ELSE m[c]
    BY <2>1, <2>4, <1>8
  <2>6. m2[c + 4] = IF c = pv THEN nx ELSE m[c + 4]
    BY <2>1, <2>4, <1>8
  <2> QED BY <2>1, <2>2, <2>5, <2>6 DEF c
<1>11. ASSUME NEW i \in 1 .. d.len
       PROVE  m2[d.at[i]] = d.at[i - 1] /\ m2[d.at[i] + 4] = d.at[i + 1]
  <2>1. /\ i \in 1 .. l.len /\ i \in 0 .. l.len /\ i - 1 \in 0 .. l.len /\ i + 1 \in 0 .. l.len
        /\ i + 1 \in 1 .. l.len /\ (i + 1) - 1 = i /\ (i - 1) + 1 = i /\ i \in Nat
    BY <1>1, <1>2
  <2>2. CASE i < j
    <3>1. d.at[i] = l.at[i] /\ d.at[i - 1] = l.at[i - 1] /\ i # j + 1 /\ i # j
      <4>1. i - 1 < j /\ i # j + 1 /\ i # j
        BY <2>1, <2>2, <1>2
      <4> QED BY <4>1, <2>1, <2>2, <1>2
    <3>2. d.at[i + 1] = IF i = j - 1 THEN nx ELSE l.at[i + 1]
      <4>1. CASE i = j - 1
        <5>1. ~(i + 1 < j) /\ i + 1 = j
          BY <4>1, <2>1, <1>2
        <5> QED BY <5>1, <4>1, <2>1, <1>2 DEF nx
      <4>2. CASE i # j - 1
        <5>1. i + 1 < j
          BY <4>2, <2>1, <2>2, <1>2
        <5> QED BY <5>1, <4>2, <2>1, <1>2
      <4> QED BY <4>1, <4>2
    <3> QED BY <3>1, <3>2, <2>1, <1>10
  <2>3. CASE ~(i < j)
    <3>1. /\ d.at[i] = l.at[i + 1] /\ d.at[i + 1] = l.at[(i + 1) + 1]
          /\ i + 1 # j /\ i + 1 # j - 1
      <4>1. ~(i + 1 < j) /\ i + 1 # j /\ i + 1 # j - 1
        BY <2>1, <2>3, <1>2
      <4> QED BY <4>1, <2>1, <2>3, <1>2
    <3>2. d.at[i - 1] = IF i + 1 = j + 1 THEN pv ELSE l.at[(i + 1) - 1]
      <4>1. CASE i = j
        <5>1. i - 1 < j /\ i + 1 = j + 1
          BY <4>1, <2>1
        <5> QED BY <5>1, <4>1, <2>1, <1>2 DEF pv
      <4>2. CASE i # j
        <5>1. ~(i - 1 < j) /\ i + 1 # j + 1
          BY <4>2, <2>1, <2>3, <1>2
        <5> QED BY <5>1, <2>1, <1>2
      <4> QED BY <4>1, <4>2
    <3> QED BY <3>1, <3>2, <2>1, <1>10
  <2> QED BY <2>2, <2>3
<1> QED BY <1>4, <1>7, <1>8, <1>9, <1>11 DEF Chained, d, nx, pv, j

-----------------------------------------------------------------------------
(* All the lists *)

(* The blocks of F that are in the group g. *)
InGroup(T, F, g) == {b \in F : Group(Size(T, b)) = g}

(* L lists the blocks of F in the groups of their sizes, smallest first. *)
ListsOf(L, T, F) ==
    /\ L = [g \in Groups |-> L[g]]
    /\ \A g \in Groups : ListOf(L[g], InGroup(T, F, g)) /\ Sorted(L[g], T)

(* The memory m holds their links. *)
Linked(m, L) == \A g \in Groups : Chained(m, L[g])

Heads(L) == [g \in Groups |-> FirstIn(L[g])]

(* A heap of the driver, once mm_init has emptied the groups. *)
HeapOf(m, k, L) == [m |-> m, brk |-> k, st |-> Heads(L)]

NoLists == [g \in Groups |-> Empty]

(* b comes where Seek stops in the list of its group. *)
PutIn(L, T, b) ==
    [g \in Groups |-> IF g = Group(Size(T, b))
                      THEN Insert(L[g], b, SeekAt(L[g], T, Size(T, b))) ELSE L[g]]

(* b leaves the list of its group. *)
TakenOut(L, T, b) ==
    [g \in Groups |-> IF g = Group(Size(T, b)) THEN Drop(L[g], b) ELSE L[g]]

(* Every size has a group. *)
LEMMA GroupFacts ==
  ASSUME NEW n
  PROVE  Group(n) \in Groups
<1> DEFINE Ends(g) == g = GROUPSIZE - 1 \/ n \div 2^g <= 1
           E == {g \in Groups : Ends(g)}
           Is(g) == Ends(g) /\ \A f \in Groups : f < g => ~Ends(f)
<1>1. GROUPSIZE - 1 \in E /\ E \in SUBSET Nat
  BY SegListAssumption DEF Groups
<1>2. PICK g \in E : \A f \in E : g <= f
  <2> HIDE DEF E
  <2> QED BY <1>1, Least
<1>3. g \in Groups /\ Is(g)
  <2>1. g \in Groups /\ Ends(g) /\ g \in Int
    BY <1>1, <1>2
  <2>2. ASSUME NEW f \in Groups, f < g PROVE ~Ends(f)
    <3>1. f \in Int
      BY DEF Groups
    <3>2. Ends(f) => g <= f
      BY <1>2
    <3> HIDE DEF Ends
    <3> QED BY <2>1, <2>2, <3>1, <3>2
  <2> HIDE DEF Ends
  <2> QED BY <2>1, <2>2
<1>4. Group(n) = CHOOSE f \in Groups : Is(f)
  BY DEF Group
<1> HIDE DEF Is
<1> QED BY <1>3, <1>4

(* No lists yet. *)
LEMMA EmptyLists ==
  ASSUME NEW T, NEW m
  PROVE  ListsOf(NoLists, T, {}) /\ Linked(m, NoLists) /\ Heads(NoLists) = [g \in Groups |-> NULL]
<1>1. \A g \in Groups : NoLists[g] = Empty
  BY DEF NoLists
<1>2. NoLists = [g \in Groups |-> NoLists[g]]
  BY DEF NoLists
<1>3. \A g \in Groups : InGroup(T, {}, g) = {}
  BY DEF InGroup
<1>4. ListsOf(NoLists, T, {})
  BY <1>1, <1>2, <1>3, EmptyList DEF ListsOf
<1>5. Linked(m, NoLists)
  BY <1>1 DEF Linked, Chained, Empty
<1>6. Heads(NoLists) = [g \in Groups |-> NULL]
  BY <1>1, EmptyList DEF Heads
<1> QED BY <1>4, <1>5, <1>6

(* A block that is put in its group. *)
LEMMA PutInLists ==
  ASSUME NEW T, NEW F, NEW L, ListsOf(L, T, F), NEW b, b \notin F, Sized(T, F \cup {b})
  PROVE  ListsOf(PutIn(L, T, b), T, F \cup {b})
<1> DEFINE n == Size(T, b)
           P == PutIn(L, T, b)
<1>1. P = [g \in Groups |-> P[g]]
  BY DEF PutIn
<1>2. ASSUME NEW g \in Groups
      PROVE  ListOf(P[g], InGroup(T, F \cup {b}, g)) /\ Sorted(P[g], T)
  <2> DEFINE l == L[g]
             G == InGroup(T, F, g)
             i == SeekAt(l, T, n)
  <2>1. ListOf(l, G) /\ Sorted(l, T) /\ b \notin G /\ Sized(T, G) /\ n \in Nat
    BY DEF ListsOf, InGroup, Sized
  <2>2. l.len \in Nat
    BY <2>1 DEF ListOf
  <2>3. CASE g = Group(n)
    <3>1. P[g] = Insert(l, b, i) /\ InGroup(T, F \cup {b}, g) = G \cup {b}
      BY <2>3 DEF PutIn, InGroup
    <3> HIDE DEF l, G, P
    <3>2. i \in 1 .. l.len + 1
      BY <2>2, SeekFacts
    <3>3. ListOf(Insert(l, b, i), G \cup {b})
      <4> HIDE DEF i
      <4> QED BY <2>1, <3>2, InsertList
    <3>4. Sorted(Insert(l, b, i), T)
      BY <2>1, InsertSorted
    <3> QED BY <3>1, <3>3, <3>4
  <2>4. CASE g # Group(n)
    <3>1. P[g] = l /\ InGroup(T, F \cup {b}, g) = G
      BY <2>4 DEF PutIn, InGroup
    <3> QED BY <3>1, <2>1
  <2> QED BY <2>3, <2>4
<1> QED BY <1>1, <1>2 DEF ListsOf

(* A block that leaves its group. *)
LEMMA TakenOutLists ==
  ASSUME NEW T, NEW F, NEW L, ListsOf(L, T, F), NEW b \in F
  PROVE  ListsOf(TakenOut(L, T, b), T, F \ {b})
<1> DEFINE P == TakenOut(L, T, b)
<1>1. P = [g \in Groups |-> P[g]]
  BY DEF TakenOut
<1>2. ASSUME NEW g \in Groups
      PROVE  ListOf(P[g], InGroup(T, F \ {b}, g)) /\ Sorted(P[g], T)
  <2> DEFINE l == L[g]
             G == InGroup(T, F, g)
  <2>1. ListOf(l, G) /\ Sorted(l, T)
    BY DEF ListsOf
  <2>2. CASE g = Group(Size(T, b))
    <3>1. P[g] = Drop(l, b) /\ InGroup(T, F \ {b}, g) = G \ {b} /\ b \in G
      BY <2>2 DEF TakenOut, InGroup
    <3> HIDE DEF l, G, P
    <3>2. ListOf(Drop(l, b), G \ {b})
      BY <2>1, <3>1, DropList
    <3>3. Sorted(Drop(l, b), T)
      BY <2>1, <3>1, DropSorted
    <3> QED BY <3>1, <3>2, <3>3
  <2>3. CASE g # Group(Size(T, b))
    <3>1. P[g] = l /\ InGroup(T, F \ {b}, g) = G
      BY <2>3 DEF TakenOut, InGroup
    <3> QED BY <3>1, <2>1
  <2> QED BY <2>2, <2>3
<1> QED BY <1>1, <1>2 DEF ListsOf

(* The lists depend on the sizes of the listed blocks alone. *)
LEMMA ListsAgain ==
  ASSUME NEW T, NEW F, NEW L, ListsOf(L, T, F), NEW T2, \A b \in F : Size(T2, b) = Size(T, b)
  PROVE  ListsOf(L, T2, F)
<1>1. \A g \in Groups : InGroup(T2, F, g) = InGroup(T, F, g)
  BY DEF InGroup
<1>2. ASSUME NEW g \in Groups PROVE Sorted(L[g], T2)
  <2>1. ListOf(L[g], InGroup(T, F, g)) /\ Sorted(L[g], T)
    BY DEF ListsOf
  <2>2. \A b \in InGroup(T, F, g) : Size(T2, b) = Size(T, b)
    BY DEF InGroup
  <2> QED BY <2>1, <2>2, SortedAgain
<1> QED BY <1>1, <1>2 DEF ListsOf

-----------------------------------------------------------------------------
(* Lists in a heap *)

(* Each block has room for its tags and two links; the prologue has none.  *)
Roomy(T) == \A b \in Blocks(T) \ {h0} : Size(T, b) >= 16

(* Blocks that may be listed. *)
Inner(T, F) == F \subseteq Blocks(T) \ {h0}

(* The blocks that no list of such blocks involves. *)
Others(T, F) == Blocks(T) \ F

LEMMA CellBlocks ==
  ASSUME NEW T, NEW k, Shape(T, k), Roomy(T)
  PROVE  /\ \A b \in Blocks(T) \ {h0} : /\ Cell(b) /\ b \in Nat /\ b # NULL
                                        /\ EndOf(T, b) \in Nat /\ b + 16 <= EndOf(T, b)
         /\ h0 \in Blocks(T) /\ h0 \notin Frees(T)
         /\ NULL \notin Blocks(T) /\ NULL \notin Frees(T) /\ Inner(T, Frees(T))
<1>1. ASSUME NEW b \in Blocks(T)
      PROVE  /\ b \in Nat /\ b % 8 = 0 /\ b \in Addr /\ b + 4 \in Addr /\ b > 0
             /\ EndOf(T, b) \in Nat /\ Size(T, b) \in Nat /\ EndOf(T, b) = b + Size(T, b)
  <2>1. /\ b \in Nat /\ b % 8 = 0 /\ h0 <= b /\ b < k /\ EndOf(T, b) \in Nat
        /\ Size(T, b) \in Nat /\ EndOf(T, b) = b + Size(T, b)
        /\ k \in Nat /\ k <= mem_max_addr
    BY ShapeFacts
  <2>2. mem_start_brk <= b /\ b < mem_max_addr /\ b > 0
    BY <2>1, RegionFacts
  <2>3. b \in Addr /\ b + 4 \in Addr
    BY <2>1, <2>2, AddrFacts
  <2> QED BY <2>1, <2>2, <2>3
<1>2. ASSUME NEW b \in Blocks(T) \ {h0} PROVE b + 16 <= EndOf(T, b)
  <2>1. Size(T, b) >= 16
    BY DEF Roomy
  <2> QED BY <2>1, <1>1
<1>3. h0 \in Blocks(T) /\ ~IsFree(T, h0)
  BY ShapeFacts
<1> QED BY <1>1, <1>2, <1>3 DEF Frees, Cell, NULL, Inner

(* Links written in blocks disturb neither the tags nor other payloads.    *)
LEMMA LinkFrame ==
  ASSUME NEW m, NEW T, NEW k, Shape(T, k), Roomy(T), Tagged(m, T, k),
         NEW N, Inner(T, N), NEW m2, Mem(m2), LinksOnly(m, m2, N)
  PROVE  Tagged(m2, T, k) /\ SameData(m, m2, T, Others(T, N))
<1>1. /\ k \in Nat /\ k - 4 \in Addr /\ k % 8 = 0
      /\ \A b \in Blocks(T) : /\ b \in Nat /\ EndOf(T, b) \in Nat /\ b % 8 = 0
                              /\ b + 8 <= EndOf(T, b) /\ EndOf(T, b) % 8 = 0
                              /\ EndOf(T, b) <= k /\ b - 4 \in Addr /\ EndOf(T, b) - 8 \in Addr
  BY ShapeFacts
<1>2. \A b, c \in Blocks(T) : b # c => EndOf(T, b) <= c \/ EndOf(T, c) <= b
  BY Sides
<1>3. \A c \in N : c \in Blocks(T) \ {h0} /\ c + 16 <= EndOf(T, c)
  <2>1. \A c \in N : c \in Blocks(T) \ {h0}
    BY DEF Inner
  <2> QED BY <2>1, CellBlocks
<1>4. ASSUME NEW b \in Blocks(T)
      PROVE  m2[b - 4] = m[b - 4] /\ m2[EndOf(T, b) - 8] = m[EndOf(T, b) - 8]
  <2>1. ASSUME NEW c \in N
        PROVE  /\ b - 4 # c /\ b - 4 # c + 4
               /\ EndOf(T, b) - 8 # c /\ EndOf(T, b) - 8 # c + 4
    <3> DEFINE e == EndOf(T, b)
    <3>1. /\ c \in Nat /\ b \in Nat /\ e \in Nat /\ c % 8 = 0 /\ b % 8 = 0 /\ e % 8 = 0
          /\ b + 8 <= e /\ c + 16 <= EndOf(T, c) /\ EndOf(T, c) \in Nat
      BY <1>1, <1>3
    <3>2. b = c \/ e <= c \/ EndOf(T, c) <= b
      BY <1>2, <1>3
    <3>3. b = c => b + 16 <= e
      BY <3>1
    <3> HIDE DEF e
    <3>4. b - 4 # c /\ e - 8 # c + 4
      BY <3>1
    <3>5. b - 4 # c + 4 /\ e - 8 # c
      <4>1. CASE b = c
        BY <4>1, <3>1, <3>3
      <4>2. CASE e <= c
        BY <4>2, <3>1
      <4>3. CASE EndOf(T, c) <= b
        BY <4>3, <3>1
      <4> QED BY <4>1, <4>2, <4>3, <3>2
    <3> QED BY <3>4, <3>5 DEF e
  <2> QED BY <2>1, <1>1 DEF LinksOnly
<1>5. m2[k - 4] = m[k - 4]
  <2>1. ASSUME NEW c \in N PROVE k - 4 # c /\ k - 4 # c + 4
    <3>1. c \in Nat /\ c % 8 = 0 /\ c + 16 <= EndOf(T, c) /\ EndOf(T, c) <= k
          /\ EndOf(T, c) \in Nat
      BY <1>1, <1>3
    <3> QED BY <3>1, <1>1
  <2> QED BY <2>1, <1>1 DEF LinksOnly
<1>6. ASSUME NEW b \in Others(T, N), NEW a \in Payload(T, b) PROVE m2[a] = m[a]
  <2>1. a \in Addr /\ a \in Nat /\ b <= a /\ a < EndOf(T, b) - 8
    BY RegionFacts DEF Payload
  <2>2. ASSUME NEW c \in N PROVE a # c /\ a # c + 4
    <3>1. c # b /\ c \in Blocks(T) /\ b \in Blocks(T)
      BY <1>3 DEF Others
    <3>2. EndOf(T, b) <= c \/ EndOf(T, c) <= b
      BY <3>1, <1>2
    <3>3. c + 16 <= EndOf(T, c) /\ c \in Nat /\ EndOf(T, c) \in Nat
          /\ b \in Nat /\ EndOf(T, b) \in Nat
      BY <3>1, <1>1, <1>3
    <3> QED BY <3>2, <3>3, <2>1
  <2> QED BY <2>1, <2>2 DEF LinksOnly
<1> QED BY <1>4, <1>5, <1>6, TagFrame DEF SameData

(* The links of blocks outside what is written. *)
LEMMA OutsideLinks ==
  ASSUME NEW T, NEW k, Shape(T, k), Roomy(T), NEW x \in Int, NEW e \in Int,
         NEW m, NEW m2, SameOutside(m, m2, x, e), NEW A, Inner(T, A),
         \A b \in A : EndOf(T, b) <= x \/ b >= e
  PROVE  SameLinks(m, m2, A)
<1> SUFFICES ASSUME NEW b \in A PROVE m2[b] = m[b] /\ m2[b + 4] = m[b + 4]
  BY DEF SameLinks
<1>1. b \in Blocks(T) \ {h0}
  BY DEF Inner
<1>2. b \in Nat /\ EndOf(T, b) \in Nat /\ b + 16 <= EndOf(T, b) /\ b \in Addr /\ b + 4 \in Addr
  BY <1>1, CellBlocks DEF Cell
<1>3. EndOf(T, b) <= x \/ b >= e
  OBVIOUS
<1>4. /\ b < x - 4 \/ b >= e - 4
      /\ b + 4 < x - 4 \/ b + 4 >= e - 4
  BY <1>2, <1>3
<1> QED BY <1>2, <1>4 DEF SameOutside

(* Lists of blocks outside what is written. *)
LEMMA KeepLists ==
  ASSUME NEW T, NEW F, NEW L, ListsOf(L, T, F), NEW m, NEW m2, Linked(m, L), SameLinks(m, m2, F)
  PROVE  Linked(m2, L)
<1> SUFFICES ASSUME NEW g \in Groups PROVE Chained(m2, L[g])
  BY DEF Linked
<1>1. ListOf(L[g], InGroup(T, F, g)) /\ Chained(m, L[g])
  BY DEF ListsOf, Linked
<1>2. SameLinks(m, m2, InGroup(T, F, g))
  BY DEF SameLinks, InGroup
<1> QED BY <1>1, <1>2, LinkKeep

(* A list of inner blocks that are free is shorter than the bound of Listed. *)
LEMMA ShortList ==
  ASSUME NEW T, NEW k, Shape(T, k), NEW G, G \subseteq Frees(T), NEW l, ListOf(l, G)
  PROVE  l.len \in Nat /\ l.len < Most
<1>1. /\ l.len \in Nat
      /\ \A i \in 1 .. l.len : l.at[i] \in Frees(T)
      /\ \A i, j \in 1 .. l.len : l.at[i] = l.at[j] => i = j
  BY DEF ListOf
<1> DEFINE n == l.len
           at == l.at
<1>2. /\ n \in Nat
      /\ \A i \in 1 .. n : at[i] \in Frees(T)
      /\ \A i, j \in 1 .. n : at[i] = at[j] => i = j
  BY <1>1
<1> HIDE DEF n, at
<1>3. n < Most
  BY <1>2, ShortWalk
<1> QED BY <1>2, <1>3 DEF n

(* Listed walks along the list, and stays at NULL. *)
LEMMA ListedFacts ==
  ASSUME NEW m, NEW l, l.len \in Nat, l.len < Most, NEW F, ListOf(l, F), NULL \notin F,
         Chained(m, l)
  PROVE  /\ DOMAIN Listed(m, FirstIn(l)) = 0 .. Most
         /\ \A i \in 0 .. l.len : Listed(m, FirstIn(l))[i] = l.at[i + 1]
<1> DEFINE bp == FirstIn(l)
           G(f) == [i \in 0 .. Most |-> IF i = 0 THEN bp ELSE After(m, f[i - 1])]
           at(i) == IF i < l.len THEN l.at[i + 1] ELSE NULL
           g == [i \in 0 .. Most |-> at(i)]
           f0 == CHOOSE f : f = G(f)
<1>1. Most \in Nat
  BY MostFacts
<1>2. /\ \A i \in 1 .. l.len : l.at[i] \in F /\ l.at[i] # NULL
      /\ l.at[l.len + 1] = NULL
  BY DEF ListOf
<1>3. \A i \in 1 .. l.len : After(m, l.at[i]) = l.at[i + 1]
  BY <1>2 DEF Chained, After, NEXT_FREE, GET, WSIZE
<1>4. After(m, NULL) = NULL
  BY DEF After
<1>5. at(0) = bp
  BY <1>1, <1>2 DEF FirstIn
<1>6. ASSUME NEW i \in 1 .. Most PROVE at(i) = After(m, at(i - 1))
  <2>1. CASE i - 1 < l.len
    <3>1. i \in 1 .. l.len /\ at(i - 1) = l.at[i]
      BY <2>1, <1>1
    <3>2. at(i) = l.at[i + 1]
      BY <3>1, <1>1, <1>2
    <3> HIDE DEF at
    <3> QED BY <3>1, <3>2, <1>3
  <2>2. CASE ~(i - 1 < l.len)
    <3>1. at(i - 1) = NULL /\ at(i) = NULL
      BY <2>2, <1>1
    <3> HIDE DEF at
    <3> QED BY <3>1, <1>4
  <2> QED BY <2>1, <2>2
<1> HIDE DEF at, bp
<1>7. g = G(g)
  <2>1. ASSUME NEW i \in 0 .. Most PROVE g[i] = G(g)[i]
    <3>1. CASE i = 0
      BY <3>1, <1>5
    <3>2. CASE i # 0
      <4>1. i \in 1 .. Most /\ i - 1 \in 0 .. Most
        BY <3>2, <1>1
      <4> QED BY <4>1, <3>2, <1>6
    <3> QED BY <3>1, <3>2
  <2>2. g = [i \in 0 .. Most |-> g[i]] /\ G(g) = [i \in 0 .. Most |-> G(g)[i]]
    OBVIOUS
  <2> HIDE DEF g, G
  <2> QED BY <2>1, <2>2
<1>8. f0 = G(f0)
  <2> HIDE DEF G, g
  <2> QED BY <1>7
<1>9. Listed(m, bp) = f0
  BY DEF Listed, Most
<1> HIDE DEF f0, g
<1>10. /\ f0 = [i \in 0 .. Most |-> f0[i]] /\ f0[0] = bp
       /\ \A i \in 1 .. Most : f0[i] = After(m, f0[i - 1])
  <2>1. 0 \in 0 .. Most /\ \A i \in 1 .. Most : i \in 0 .. Most /\ i # 0
    BY <1>1
  <2>2. f0 = [i \in 0 .. Most |-> G(f0)[i]] /\ \A i \in 0 .. Most : f0[i] = G(f0)[i]
    BY <1>8
  <2> QED BY <2>1, <2>2
<1> HIDE DEF G
<1> DEFINE P == {i \in Nat : i <= Most => f0[i] = at(i)}
<1>11. 0 \in P
  BY <1>5, <1>10
<1>12. ASSUME NEW i \in P PROVE i + 1 \in P
  <2>1. CASE i + 1 <= Most
    <3>1. i + 1 \in 1 .. Most /\ (i + 1) - 1 = i /\ i <= Most
      BY <2>1, <1>1
    <3>2. f0[i] = at(i)
      BY <3>1
    <3> HIDE DEF P
    <3>3. f0[i + 1] = at(i + 1)
      BY <3>1, <3>2, <1>6, <1>10
    <3> QED BY <3>3 DEF P
  <2> QED BY <2>1
<1>13. P = Nat
  <2> HIDE DEF P
  <2>1. P \subseteq Nat
    BY DEF P
  <2> QED BY <2>1, <1>11, <1>12, Induction
<1>14. ASSUME NEW i \in 0 .. l.len PROVE f0[i] = l.at[i + 1]
  <2>1. f0[i] = at(i)
    BY <1>1, <1>13
  <2> QED BY <2>1, <1>1, <1>2 DEF at
<1>15. DOMAIN f0 = 0 .. Most
  BY <1>10
<1> QED BY <1>9, <1>14, <1>15 DEF bp

(* Seek stops where SeekAt says. *)
LEMMA SeekMakes ==
  ASSUME NEW m, NEW T, NEW k, Shape(T, k), Tagged(m, T, k), NEW F, F \subseteq Frees(T),
         NEW l, ListOf(l, F), Chained(m, l), NEW n, NEW i, i = SeekAt(l, T, n)
  PROVE  Seek(m, FirstIn(l), n) = [prev |-> l.at[i - 1], curr |-> l.at[i]]
<1> DEFINE b == Listed(m, FirstIn(l))
           Stops(x) == b[x] = NULL \/ n <= GET_SIZE(m, HDRP(b[x]))
           Is(x) == Stops(x) /\ \A j \in 0 .. x - 1 : ~Stops(j)
           at == CHOOSE x \in DOMAIN b : Is(x)
<1>1. l.len \in Nat /\ l.len < Most /\ Most \in Nat
  BY ShortList, MostFacts
<1>2. NULL \notin F /\ F \subseteq Blocks(T)
  <2>1. \A c \in Blocks(T) : c > 0
    BY ShapeFacts, RegionFacts
  <2> QED BY <2>1 DEF Frees, NULL
<1>3. DOMAIN b = 0 .. Most /\ \A x \in 0 .. l.len : b[x] = l.at[x + 1]
  BY <1>1, <1>2, ListedFacts
<1>4. Seek(m, FirstIn(l), n) = [prev |-> IF at = 0 THEN NULL ELSE b[at - 1], curr |-> b[at]]
  BY DEF Seek
<1>5. /\ l.at[0] = NULL /\ l.at[l.len + 1] = NULL
      /\ \A x \in 1 .. l.len : l.at[x] \in Blocks(T) /\ l.at[x] # NULL
  BY <1>2 DEF ListOf
<1>6. /\ i \in 1 .. l.len + 1
      /\ i = l.len + 1 \/ n <= Size(T, l.at[i])
      /\ \A j \in 1 .. l.len : j < i => ~(n <= Size(T, l.at[j]))
  BY <1>1, SeekFacts
<1> HIDE DEF b
<1>7. \A x \in 0 .. l.len : Stops(x) <=> x = l.len \/ n <= Size(T, l.at[x + 1])
  <2> SUFFICES ASSUME NEW x \in 0 .. l.len
               PROVE  Stops(x) <=> x = l.len \/ n <= Size(T, l.at[x + 1])
    OBVIOUS
  <2>1. CASE x = l.len
    BY <2>1, <1>1, <1>3, <1>5
  <2>2. CASE x # l.len
    <3>1. x + 1 \in 1 .. l.len
      BY <2>2, <1>1
    <3>2. b[x] = l.at[x + 1] /\ l.at[x + 1] \in Blocks(T) /\ l.at[x + 1] # NULL
      BY <3>1, <1>3, <1>5
    <3>3. GET_SIZE(m, HDRP(l.at[x + 1])) = Size(T, l.at[x + 1])
      BY <3>2, ReadBlock
    <3> QED BY <2>2, <3>2, <3>3
  <2> QED BY <2>1, <2>2
<1> HIDE DEF Stops
<1>8. i - 1 \in 0 .. l.len /\ (i - 1) + 1 = i /\ i - 1 \in DOMAIN b /\ i \in Int
  BY <1>1, <1>3, <1>6
<1>9. Is(i - 1)
  <2>1. Stops(i - 1)
    <3>1. i - 1 = l.len \/ n <= Size(T, l.at[i])
      BY <1>1, <1>6
    <3> QED BY <3>1, <1>7, <1>8
  <2>2. ASSUME NEW j \in 0 .. (i - 1) - 1 PROVE ~Stops(j)
    <3>1. j \in 0 .. l.len /\ j # l.len /\ j + 1 \in 1 .. l.len /\ j + 1 < i
      BY <1>1, <1>8
    <3>2. ~(n <= Size(T, l.at[j + 1]))
      BY <3>1, <1>6
    <3> QED BY <3>1, <3>2, <1>7
  <2> QED BY <2>1, <2>2
<1>10. ASSUME NEW x \in DOMAIN b, Is(x) PROVE x = i - 1
  <2>1. x \in 0 .. Most
    BY <1>3
  <2>2. ~(x < i - 1)
    BY <2>1, <1>8, <1>9, <1>10
  <2>3. ~(i - 1 < x)
    BY <2>1, <1>8, <1>9, <1>10
  <2> QED BY <2>1, <2>2, <2>3, <1>8
<1> HIDE DEF Is
<1>11. at = i - 1
  BY <1>8, <1>9, <1>10
<1> HIDE DEF at
<1>12. b[i - 1] = l.at[i]
  BY <1>3, <1>8
<1>13. (IF i - 1 = 0 THEN NULL ELSE b[(i - 1) - 1]) = l.at[i - 1]
  <2>1. CASE i - 1 = 0
    BY <2>1, <1>5
  <2>2. CASE i - 1 # 0
    <3>1. (i - 1) - 1 \in 0 .. l.len /\ ((i - 1) - 1) + 1 = i - 1
      BY <2>2, <1>1, <1>8
    <3> QED BY <3>1, <2>2, <1>3
  <2> QED BY <2>1, <2>2
<1> QED BY <1>4, <1>11, <1>12, <1>13

(* Reading and changing a heap. *)
LEMMA HeapFacts ==
  ASSUME NEW m, NEW k, NEW L
  PROVE  /\ HeapOf(m, k, L).m = m /\ HeapOf(m, k, L).brk = k /\ HeapOf(m, k, L).st = Heads(L)
         /\ \A v : [HeapOf(m, k, L) EXCEPT !.m = v] = HeapOf(v, k, L)
<1>1. /\ HeapOf(m, k, L).m = m /\ HeapOf(m, k, L).brk = k
      /\ HeapOf(m, k, L).st = Heads(L)
  BY DEF HeapOf
<1>2. ASSUME NEW v PROVE [HeapOf(m, k, L) EXCEPT !.m = v] = HeapOf(v, k, L)
  BY DEF HeapOf
<1> QED BY <1>1, <1>2

(* The parts of one of the lists. *)
LEMMA OneList ==
  ASSUME NEW T, NEW k, Shape(T, k), Roomy(T), NEW F, F \subseteq Frees(T),
         NEW L, ListsOf(L, T, F), NEW g \in Groups, NEW G, G = InGroup(T, F, g)
  PROVE  /\ ListOf(L[g], G) /\ Sorted(L[g], T) /\ G \subseteq F /\ G \subseteq Frees(T)
         /\ NULL \notin G /\ Inner(T, G) /\ \A c \in G : Cell(c)
<1>1. ListOf(L[g], G) /\ Sorted(L[g], T) /\ G \subseteq F
  BY DEF ListsOf, InGroup
<1>2. G \subseteq Blocks(T) \ {h0} /\ G \subseteq Frees(T)
  BY <1>1, CellBlocks DEF Inner
<1> QED BY <1>1, <1>2, CellBlocks DEF Inner

(* What is written in the links of one group leaves the others. *)
LEMMA OtherLists ==
  ASSUME NEW T, NEW k, Shape(T, k), Roomy(T), NEW F, F \subseteq Frees(T),
         NEW L, ListsOf(L, T, F), NEW m, Linked(m, L), NEW N, Inner(T, N),
         NEW g, \A c \in N : c \in F => Group(Size(T, c)) = g,
         NEW m2, LinksOnly(m, m2, N), NEW f \in Groups, f # g
  PROVE  Chained(m2, L[f])
<1> DEFINE A == InGroup(T, F, f)
<1>1. ListOf(L[f], A) /\ Chained(m, L[f]) /\ \A c \in A : Cell(c)
  BY OneList DEF Linked
<1>2. \A c \in N : Cell(c)
  BY CellBlocks DEF Inner
<1>3. \A c \in A : c \notin N
  BY DEF InGroup
<1> HIDE DEF A
<1>4. SameLinks(m, m2, A)
  BY <1>1, <1>2, <1>3, OtherLinks
<1> QED BY <1>1, <1>4, LinkKeep

(* add_block in a heap: what it writes. *)
LEMMA AddMakes ==
  ASSUME NEW m, NEW T, NEW k, Shape(T, k), Roomy(T), Tagged(m, T, k),
         NEW F, F \subseteq Frees(T), NEW L, ListsOf(L, T, F), Linked(m, L),
         NEW bp, NEW n, NEW g, g = Group(n), NEW l, l = L[g], NEW i, i = SeekAt(l, T, n),
         NEW m2, m2 = Between2(m, bp, l.at[i - 1], l.at[i])
  PROVE  add_block(HeapOf(m, k, L), bp, n) =
            [m |-> m2, brk |-> k,
             st |-> IF l.at[i - 1] = NULL THEN [Heads(L) EXCEPT ![g] = bp] ELSE Heads(L)]
<1> DEFINE at == Seek(m, Heads(L)[g], n)
           pv == l.at[i - 1]
           cu == l.at[i]
           m1 == SetPrev(SetNext(m, bp, cu), bp, pv)
           m3 == IF cu # NULL THEN SetPrev(m1, cu, bp) ELSE m1
<1>1. g \in Groups
  BY GroupFacts
<1>2. ListOf(l, InGroup(T, F, g)) /\ InGroup(T, F, g) \subseteq Frees(T) /\ Chained(m, l)
  BY <1>1, OneList DEF Linked
<1>3. Seek(m, FirstIn(l), n) = [prev |-> pv, curr |-> cu]
  BY <1>2, SeekMakes
<1>4. Heads(L)[g] = FirstIn(l)
  BY <1>1 DEF Heads
<1>5. at.prev = pv /\ at.curr = cu
  BY <1>3, <1>4
<1>6. m2 = IF pv = NULL THEN m3 ELSE SetNext(m3, pv, bp)
  BY DEF Between2
<1> DEFINE h == HeapOf(m, k, L)
<1>7. h = [m |-> m, brk |-> k, st |-> Heads(L)] /\ h.m = m /\ h.st = Heads(L)
  BY DEF HeapOf
<1> HIDE DEF h, pv, cu
<1>8. add_block(h, bp, n) = IF pv = NULL THEN [h EXCEPT !.m = m3, !.st[g] = bp]
                            ELSE [h EXCEPT !.m = SetNext(m3, pv, bp)]
  BY <1>5, <1>7 DEF add_block, Splice
<1> HIDE DEF m3, at
<1>9. CASE pv = NULL
  <2>1. add_block(h, bp, n) = [h EXCEPT !.m = m3, !.st[g] = bp]
    BY <1>8, <1>9
  <2> DEFINE a == add_block(h, bp, n)
             H == Heads(L)
  <2>2. h = [m |-> m, brk |-> k, st |-> H] /\ a = [h EXCEPT !.m = m3, !.st[g] = bp]
    BY <2>1, <1>7
  <2> HIDE DEF a, H
  <2>3. a = [m |-> m3, brk |-> k, st |-> [H EXCEPT ![g] = bp]]
    BY <2>2
  <2> QED BY <2>3, <1>6, <1>9 DEF h, pv, a, H
<1>10. CASE pv # NULL
  <2>1. add_block(h, bp, n) = [m |-> SetNext(m3, pv, bp), brk |-> k, st |-> Heads(L)]
    BY <1>7, <1>8, <1>10
  <2> QED BY <2>1, <1>6, <1>10 DEF h, pv
<1> QED BY <1>9, <1>10

(* add_block in a heap: the block comes in order in the list of its group. *)
LEMMA Link ==
  ASSUME NEW m, NEW T, NEW k, Shape(T, k), Roomy(T), Tagged(m, T, k),
         NEW F, F \subseteq Frees(T), NEW L, ListsOf(L, T, F), Linked(m, L),
         NEW bp \in Frees(T), bp \notin F, NEW n, n = Size(T, bp),
         NEW r, r = add_block(HeapOf(m, k, L), bp, n)
  PROVE  \E m2 : /\ r = HeapOf(m2, k, PutIn(L, T, bp)) /\ Tagged(m2, T, k)
                 /\ Linked(m2, PutIn(L, T, bp))
                 /\ SameData(m, m2, T, Others(T, F \cup {bp}))
<1> DEFINE g == Group(n)
           l == L[g]
           G == InGroup(T, F, g)
           i == SeekAt(l, T, n)
           P == PutIn(L, T, bp)
           p == Insert(l, bp, i)
           N == G \cup {bp}
           m2 == Between2(m, bp, l.at[i - 1], l.at[i])
<1>1. g \in Groups
  BY GroupFacts
<1>2. /\ ListOf(l, G) /\ G \subseteq F /\ NULL \notin G /\ Inner(T, G) /\ \A c \in G : Cell(c)
      /\ Chained(m, l)
  BY <1>1, OneList DEF Linked
<1>3. bp \in Blocks(T) \ {h0} /\ Cell(bp) /\ bp # NULL
  BY CellBlocks DEF Inner
<1>4. Inner(T, N) /\ \A c \in N : Cell(c)
  BY <1>2, <1>3 DEF Inner
<1>5. \A f \in Groups : P[f] = IF f = g THEN p ELSE L[f]
  BY DEF PutIn
<1>6. i \in 1 .. l.len + 1 /\ l.len \in Nat
  <2>1. l.len \in Nat
    BY <1>2 DEF ListOf
  <2> QED BY <2>1, SeekFacts
<1>7. Mem(m)
  BY DEF Tagged
<1>8. r = [m |-> m2, brk |-> k,
           st |-> IF l.at[i - 1] = NULL THEN [Heads(L) EXCEPT ![g] = bp] ELSE Heads(L)]
  BY AddMakes
<1>9. \A c \in N : c \in F => Group(Size(T, c)) = g
  BY DEF InGroup
<1> HIDE DEF g, G, i, P, N, m2
<1>10. Mem(m2) /\ Chained(m2, p) /\ LinksOnly(m, m2, N)
  <2> HIDE DEF l
  <2>1. bp \notin G
    BY <1>2
  <2>2. N = G \cup {bp} /\ m2 = Between2(m, bp, l.at[i - 1], l.at[i])
    BY DEF N, m2
  <2> QED BY <2>1, <2>2, <1>2, <1>3, <1>4, <1>6, <1>7, InsertLinks
<1>11. Linked(m2, P)
  <2> SUFFICES ASSUME NEW f \in Groups PROVE Chained(m2, P[f])
    BY DEF Linked
  <2>1. CASE f = g
    BY <2>1, <1>5, <1>10
  <2>2. CASE f # g
    <3>1. Chained(m2, L[f])
      <4>1. /\ Shape(T, k) /\ Roomy(T) /\ F \subseteq Frees(T) /\ ListsOf(L, T, F)
            /\ Linked(m, L) /\ Inner(T, N) /\ \A c \in N : c \in F => Group(Size(T, c)) = g
            /\ LinksOnly(m, m2, N) /\ f \in Groups /\ f # g
        BY <2>2, <1>4, <1>9, <1>10
      <4> HIDE DEF l, p
      <4> QED BY ONLY <4>1, OtherLists
    <3> QED BY <3>1, <2>2, <1>5
  <2> QED BY <2>1, <2>2
<1>12. Tagged(m2, T, k) /\ SameData(m, m2, T, Others(T, N))
  BY <1>4, <1>10, LinkFrame
<1>13. SameData(m, m2, T, Others(T, F \cup {bp}))
  <2>1. Others(T, F \cup {bp}) \subseteq Others(T, N)
    BY <1>2 DEF Others, N
  <2> QED BY <2>1, <1>12, DataSome
<1>14. Heads(P) = IF l.at[i - 1] = NULL THEN [Heads(L) EXCEPT ![g] = bp] ELSE Heads(L)
  <2>1. l.at[i - 1] = NULL <=> i = 1
    <3>1. /\ l.at[0] = NULL
          /\ \A j \in 0 .. l.len + 1 : l.at[j] = NULL <=> (j = 0 \/ j = l.len + 1)
      <4> HIDE DEF l
      <4> QED BY <1>2, ListFacts
    <3>2. i - 1 \in 0 .. l.len + 1 /\ i - 1 # l.len + 1 /\ (i - 1 = 0 <=> i = 1)
      BY <1>6
    <3> QED BY <3>1, <3>2
  <2>2. FirstIn(p) = IF i = 1 THEN bp ELSE FirstIn(l)
    <3>1. /\ \A j \in 0 .. l.len + 2 : j < i => p.at[j] = l.at[j]
          /\ p.at[i] = bp
      <4> HIDE DEF l
      <4> QED BY <1>6, InsertAt
    <3>2. 1 \in 0 .. l.len + 2 /\ (i # 1 => 1 < i)
      BY <1>6
    <3> QED BY <3>1, <3>2 DEF FirstIn
  <2> HIDE DEF p
  <2>3. CASE i = 1
    BY <2>1, <2>2, <2>3, <1>1, <1>5 DEF Heads
  <2>4. CASE i # 1
    <3>1. \A f \in Groups : FirstIn(P[f]) = FirstIn(L[f])
      BY <2>2, <2>4, <1>5 DEF l
    <3> QED BY <3>1, <2>1, <2>4 DEF Heads
  <2> QED BY <2>3, <2>4
<1>15. r = HeapOf(m2, k, P)
  BY <1>8, <1>14 DEF HeapOf
<1> QED BY <1>11, <1>12, <1>13, <1>15 DEF P

(* remove_block in a heap: the block leaves the list of its group. *)
LEMMA Unlink ==
  ASSUME NEW m, NEW T, NEW k, Shape(T, k), Roomy(T), Tagged(m, T, k),
         NEW F, F \subseteq Frees(T), NEW L, ListsOf(L, T, F), Linked(m, L),
         NEW bp, bp \in F, NEW r, r = remove_block(HeapOf(m, k, L), bp)
  PROVE  \E m2 : /\ r = HeapOf(m2, k, TakenOut(L, T, bp)) /\ Tagged(m2, T, k)
                 /\ Linked(m2, TakenOut(L, T, bp)) /\ SameData(m, m2, T, Others(T, F))
<1> DEFINE g == Group(Size(T, bp))
           l == L[g]
           G == InGroup(T, F, g)
           P == TakenOut(L, T, bp)
           d == Drop(l, bp)
           nx == m[bp + 4]
           pv == m[bp]
           m2 == Closed(m, pv, nx)
           h == HeapOf(m, k, L)
<1>1. g \in Groups
  BY GroupFacts
<1>2. /\ ListOf(l, G) /\ G \subseteq F /\ NULL \notin G /\ Inner(T, G) /\ \A c \in G : Cell(c)
      /\ Chained(m, l)
  <2>1. G = InGroup(T, F, g)
    OBVIOUS
  <2> HIDE DEF g, G
  <2>2. ListOf(l, G) /\ G \subseteq F /\ NULL \notin G /\ Inner(T, G) /\ \A c \in G : Cell(c)
    BY <2>1, <1>1, OneList
  <2> QED BY <2>2, <1>1 DEF Linked
<1>3. bp \in G /\ bp \in Blocks(T)
  BY DEF InGroup, Frees
<1>4. \A f \in Groups : P[f] = IF f = g THEN d ELSE L[f]
  BY DEF TakenOut
<1>5. Mem(m)
  BY DEF Tagged
<1>6. \A c \in G : c \in F => Group(Size(T, c)) = g
  BY DEF InGroup
<1>7. GET_SIZE(m, HDRP(bp)) = Size(T, bp)
  BY <1>3, ReadBlock
<1>8. h = [m |-> m, brk |-> k, st |-> Heads(L)] /\ h.m = m
  BY DEF HeapOf
<1> HIDE DEF h
<1>9. r = CASE nx = NULL /\ pv = NULL -> [h EXCEPT !.st[g] = NULL]
            [] nx = NULL /\ pv # NULL -> [h EXCEPT !.m = SetNext(m, pv, NULL)]
            [] nx # NULL /\ pv = NULL -> [h EXCEPT !.m = SetPrev(m, nx, NULL), !.st[g] = nx]
            [] nx # NULL /\ pv # NULL -> [h EXCEPT !.m = SetNext(SetPrev(m, nx, pv), pv, nx)]
  <2>1. r = remove_block(h, bp)
    BY DEF h
  <2>2. NEXT_FREE(m, bp) = nx /\ PREV_FREE(m, bp) = pv
    BY DEF NEXT_FREE, PREV_FREE, GET, WSIZE
  <2> HIDE DEF g, nx, pv
  <2> QED BY <2>1, <2>2, <1>7, <1>8 DEF remove_block, g
<1> HIDE DEF g, G, P, m2, nx, pv
<1>10. r = [m |-> m2, brk |-> k,
            st |-> IF pv = NULL THEN [Heads(L) EXCEPT ![g] = nx] ELSE Heads(L)]
  <2>1. CASE nx = NULL /\ pv = NULL
    <3>1. m2 = m
      BY <2>1 DEF m2, Closed
    <3>2. r = [h EXCEPT !.st[g] = NULL]
      BY <2>1, <1>9
    <3> QED BY <3>1, <3>2, <2>1, <1>8
  <2>2. CASE nx = NULL /\ pv # NULL
    <3>1. m2 = SetNext(m, pv, NULL)
      BY <2>2 DEF m2, Closed
    <3>2. r = [h EXCEPT !.m = SetNext(m, pv, NULL)]
      BY <2>2, <1>9
    <3> QED BY <3>1, <3>2, <2>2, <1>8
  <2>3. CASE nx # NULL /\ pv = NULL
    <3>1. m2 = SetPrev(m, nx, NULL)
      BY <2>3 DEF m2, Closed
    <3>2. r = [h EXCEPT !.m = SetPrev(m, nx, NULL), !.st[g] = nx]
      BY <2>3, <1>9
    <3> QED BY <3>1, <3>2, <2>3, <1>8
  <2>4. CASE nx # NULL /\ pv # NULL
    <3>1. m2 = SetNext(SetPrev(m, nx, pv), pv, nx)
      BY <2>4 DEF m2, Closed
    <3>2. r = [h EXCEPT !.m = SetNext(SetPrev(m, nx, pv), pv, nx)]
      BY <2>4, <1>9
    <3> QED BY <3>1, <3>2, <2>4, <1>8
  <2> QED BY <2>1, <2>2, <2>3, <2>4
<1>11. /\ Mem(m2) /\ Chained(m2, d) /\ LinksOnly(m, m2, G)
       /\ FirstIn(d) = IF pv = NULL THEN nx ELSE FirstIn(l)
  <2> HIDE DEF l
  <2>1. m2 = Closed(m, m[bp], m[bp + 4])
    BY DEF m2, nx, pv
  <2>2. /\ Mem(m2) /\ Chained(m2, d) /\ LinksOnly(m, m2, G)
        /\ FirstIn(d) = (IF m[bp] = NULL THEN m[bp + 4] ELSE FirstIn(l))
    BY <2>1, <1>2, <1>3, <1>5, DropLinks
  <2> QED BY <2>2 DEF nx, pv
<1>12. Linked(m2, P)
  <2> SUFFICES ASSUME NEW f \in Groups PROVE Chained(m2, P[f])
    BY DEF Linked
  <2>1. CASE f = g
    BY <2>1, <1>4, <1>11
  <2>2. CASE f # g
    <3>1. Chained(m2, L[f])
      <4>1. /\ Inner(T, G) /\ \A c \in G : c \in F => Group(Size(T, c)) = g
            /\ LinksOnly(m, m2, G) /\ f \in Groups /\ f # g
        BY <2>2, <1>2, <1>6, <1>11
      <4> HIDE DEF l
      <4> QED BY <4>1, OtherLists
    <3> QED BY <3>1, <2>2, <1>4
  <2> QED BY <2>1, <2>2
<1>13. Tagged(m2, T, k) /\ SameData(m, m2, T, Others(T, G))
  BY <1>2, <1>11, LinkFrame
<1>14. SameData(m, m2, T, Others(T, F))
  <2>1. Others(T, F) \subseteq Others(T, G)
    BY <1>2 DEF Others
  <2> QED BY <2>1, <1>13, DataSome
<1> HIDE DEF d
<1>15. Heads(P) = IF pv = NULL THEN [Heads(L) EXCEPT ![g] = nx] ELSE Heads(L)
  <2>1. CASE pv = NULL
    BY <2>1, <1>1, <1>4, <1>11 DEF Heads
  <2>2. CASE pv # NULL
    <3>1. \A f \in Groups : FirstIn(P[f]) = FirstIn(L[f])
      BY <2>2, <1>4, <1>11 DEF l
    <3> QED BY <3>1, <2>2 DEF Heads
  <2> QED BY <2>1, <2>2
<1>16. r = HeapOf(m2, k, P)
  BY <1>10, <1>15 DEF HeapOf
<1> QED BY <1>12, <1>13, <1>14, <1>16 DEF P

-----------------------------------------------------------------------------
(* What the allocator's functions make of the lists *)

(* The lists as coalesce changes them: the free neighbours of bp go, and   *)
(* the block they make with it comes in its place.                         *)
WithoutNext(T, L, bp) == IF NextIsFree(T, bp) THEN TakenOut(L, T, EndOf(T, bp)) ELSE L

Without(T, L, bp) ==
    IF Start(T, bp) # bp THEN TakenOut(WithoutNext(T, L, bp), T, Start(T, bp))
    ELSE WithoutNext(T, L, bp)

MergedList(T, L, bp) == PutIn(Without(T, L, bp), Merged(T, bp), Start(T, bp))

(* What stays in them when the free block after bp has gone. *)
RestBefore(T, bp) == IF NextIsFree(T, bp) THEN (Frees(T) \ {bp}) \ {EndOf(T, bp)}
                     ELSE Frees(T) \ {bp}

LEMMA BeforeFacts ==
  ASSUME NEW T, NEW k, Shape(T, k), NEW bp \in Blocks(T) \ {h0}, IsFree(T, bp)
  PROVE  /\ Rest(T, bp) = RestBefore(T, bp) \ {Start(T, bp)}
         /\ Start(T, bp) # bp => Start(T, bp) \in RestBefore(T, bp)
         /\ NextIsFree(T, bp) => EndOf(T, bp) \in Frees(T) \ {bp}
<1> DEFINE F == IF NextIsFree(T, bp) THEN (Frees(T) \ {bp}) \ {EndOf(T, bp)}
                ELSE Frees(T) \ {bp}
<1>1. RestBefore(T, bp) = F
  BY DEF RestBefore
<1> HIDE DEF F
<1>2. F = (IF NextIsFree(T, bp) THEN (Frees(T) \ {bp}) \ {EndOf(T, bp)}
           ELSE Frees(T) \ {bp})
  BY DEF F
<1>3. /\ Rest(T, bp) = F \ {Start(T, bp)}
      /\ Start(T, bp) # bp => Start(T, bp) \in F
      /\ NextIsFree(T, bp) => EndOf(T, bp) \in Frees(T) \ {bp}
  BY <1>2, RestFacts
<1> QED BY <1>1, <1>3

LEMMA WithoutLists ==
  ASSUME NEW T, NEW k, Shape(T, k), NEW bp \in Blocks(T) \ {h0}, IsFree(T, bp),
         NEW L, ListsOf(L, T, Frees(T) \ {bp})
  PROVE  /\ ListsOf(WithoutNext(T, L, bp), T, RestBefore(T, bp))
         /\ ListsOf(Without(T, L, bp), T, Rest(T, bp))
<1> DEFINE L1 == WithoutNext(T, L, bp)
           x == Start(T, bp)
           F == RestBefore(T, bp)
<1>1. /\ Rest(T, bp) = F \ {x} /\ (x # bp => x \in F)
      /\ NextIsFree(T, bp) => EndOf(T, bp) \in Frees(T) \ {bp}
  BY BeforeFacts
<1>2. ListsOf(L1, T, F)
  <2>1. CASE NextIsFree(T, bp)
    <3>1. F = (Frees(T) \ {bp}) \ {EndOf(T, bp)} /\ L1 = TakenOut(L, T, EndOf(T, bp))
      BY <2>1 DEF RestBefore, WithoutNext
    <3> QED BY <3>1, <2>1, <1>1, TakenOutLists
  <2>2. CASE ~NextIsFree(T, bp)
    BY <2>2 DEF WithoutNext, RestBefore
  <2> QED BY <2>1, <2>2
<1>3. Without(T, L, bp) = IF x # bp THEN TakenOut(L1, T, x) ELSE L1
  BY DEF Without
<1>4. x = bp => bp \notin F
  BY DEF RestBefore
<1> HIDE DEF L1, x, F
<1>5. ListsOf(Without(T, L, bp), T, Rest(T, bp))
  <2>1. CASE x # bp
    <3>1. ListsOf(TakenOut(L1, T, x), T, F \ {x})
      BY <2>1, <1>1, <1>2, TakenOutLists
    <3> QED BY <3>1, <2>1, <1>1, <1>3
  <2>2. CASE x = bp
    <3>1. F \ {x} = F
      BY <2>2, <1>4
    <3> QED BY <3>1, <2>2, <1>1, <1>2, <1>3
  <2> QED BY <2>1, <2>2
<1> QED BY <1>2, <1>5 DEF L1, F

(* The merged heap before its block is listed. *)
LEMMA MergedRest ==
  ASSUME NEW T, NEW k, Shape(T, k), Roomy(T), NEW bp \in Blocks(T) \ {h0}, IsFree(T, bp),
         NEW L, ListsOf(L, T, Frees(T) \ {bp}), NEW T2, T2 = Merged(T, bp)
  PROVE  /\ Shape(T2, k) /\ Roomy(T2) /\ ListsOf(Without(T, L, bp), T2, Rest(T, bp))
         /\ Start(T, bp) \in Frees(T2) /\ Start(T, bp) \notin Rest(T, bp)
         /\ Frees(T2) = Rest(T, bp) \cup {Start(T, bp)}
         /\ Size(T2, Start(T, bp)) = Stop(T, bp) - Start(T, bp)
<1> DEFINE x == Start(T, bp)
           e == Stop(T, bp)
<1>1. ListsOf(Without(T, L, bp), T, Rest(T, bp))
  BY WithoutLists
<1>2. x \notin Rest(T, bp) /\ Frees(T2) = Rest(T, bp) \cup {x}
  BY RestFacts
<1>3. /\ x \in Blocks(T) \ {h0} /\ e \in Blocks(T) \cup {k} /\ x <= bp /\ EndOf(T, bp) <= e
      /\ x < e
  BY StartStop
<1>4. /\ \A b \in Blocks(T) : b \in Nat /\ EndOf(T, b) \in Nat
      /\ bp + 16 <= EndOf(T, bp) /\ k \in Nat
  BY CellBlocks, ShapeFacts
<1> HIDE DEF x, e
<1>5. T2 = Join(T, x, e, 0)
  BY DEF Merged, x, e
<1>6. /\ Shape(T2, k) /\ Size(T2, x) = e - x
      /\ \A b \in Blocks(T2) : b \in Blocks(T) /\ (b # x => Size(T2, b) = Size(T, b))
  BY <1>3, <1>5, JoinShape
<1>7. e - x >= 16
  <2>1. e \in Nat /\ x \in Nat /\ bp \in Nat /\ EndOf(T, bp) \in Nat /\ bp + 16 <= EndOf(T, bp)
    BY <1>3, <1>4
  <2> QED BY <2>1, <1>3
<1>8. Roomy(T2)
  BY <1>6, <1>7 DEF Roomy
<1>9. ListsOf(Without(T, L, bp), T2, Rest(T, bp))
  <2>1. \A b \in Rest(T, bp) : Size(T2, b) = Size(T, b)
    <3>1. \A b \in Rest(T, bp) : b # x /\ b \in Blocks(T2)
      BY <1>2 DEF Frees
    <3> QED BY <3>1, <1>6
  <2> QED BY <2>1, <1>1, ListsAgain
<1> QED BY <1>2, <1>6, <1>8, <1>9 DEF x, e

LEMMA MergedFacts ==
  ASSUME NEW T, NEW k, Shape(T, k), Roomy(T), NEW bp \in Blocks(T) \ {h0}, IsFree(T, bp),
         NEW L, ListsOf(L, T, Frees(T) \ {bp}), NEW T2, T2 = Merged(T, bp)
  PROVE  ListsOf(MergedList(T, L, bp), T2, Frees(T2)) /\ Roomy(T2)
<1> DEFINE x == Start(T, bp)
           R == Rest(T, bp)
           W == Without(T, L, bp)
<1>1. /\ Shape(T2, k) /\ Roomy(T2) /\ ListsOf(W, T2, R)
      /\ x \in Frees(T2) /\ x \notin R /\ Frees(T2) = R \cup {x}
  BY MergedRest
<1>2. MergedList(T, L, bp) = PutIn(W, T2, x)
  BY DEF MergedList
<1> HIDE DEF x, R, W
<1>3. Sized(T2, R \cup {x})
  BY <1>1, ShapeFacts DEF Sized, Frees
<1>4. ListsOf(PutIn(W, T2, x), T2, R \cup {x})
  BY <1>1, <1>3, PutInLists
<1> QED BY <1>1, <1>2, <1>4

-----------------------------------------------------------------------------
(* coalesce *)

(* The free neighbours leave their lists: first the next one. *)
LEMMA NextLeaves ==
  ASSUME NEW m, NEW T, NEW k, Shape(T, k), Roomy(T), Tagged(m, T, k),
         NEW bp \in Blocks(T) \ {h0}, IsFree(T, bp),
         NEW L, ListsOf(L, T, Frees(T) \ {bp}), Linked(m, L), NEW h,
         h = (IF NextIsFree(T, bp) THEN remove_block(HeapOf(m, k, L), EndOf(T, bp))
              ELSE HeapOf(m, k, L))
  PROVE  \E m2 : /\ h = HeapOf(m2, k, WithoutNext(T, L, bp)) /\ Tagged(m2, T, k)
                 /\ Linked(m2, WithoutNext(T, L, bp)) /\ SameData(m, m2, T, Owned(T))
<1> DEFINE F == Frees(T) \ {bp}
           A == Others(T, F)
<1>1. NextIsFree(T, bp) => EndOf(T, bp) \in F
  BY BeforeFacts
<1>2. F \subseteq Frees(T) /\ Owned(T) \subseteq A
  BY DEF Others, Frees, Owned, Allocs
<1>3. SameData(m, m, T, Owned(T))
  BY DEF SameData
<1>4. CASE NextIsFree(T, bp)
  <2> DEFINE nx == EndOf(T, bp)
             L1 == TakenOut(L, T, nx)
  <2>1. WithoutNext(T, L, bp) = L1
    BY <1>4 DEF WithoutNext
  <2>2. /\ Shape(T, k) /\ Roomy(T) /\ Tagged(m, T, k) /\ F \subseteq Frees(T)
        /\ ListsOf(L, T, F) /\ Linked(m, L) /\ nx \in F
        /\ h = remove_block(HeapOf(m, k, L), nx)
    BY <1>1, <1>2, <1>4
  <2> HIDE DEF F, nx
  <2>3. PICK m2 : /\ h = HeapOf(m2, k, TakenOut(L, T, nx)) /\ Tagged(m2, T, k)
                  /\ Linked(m2, TakenOut(L, T, nx)) /\ SameData(m, m2, T, Others(T, F))
    BY ONLY <2>2, Unlink
  <2>4. SameData(m, m2, T, Owned(T))
    BY <2>3, <1>2, DataSome
  <2> QED BY <2>1, <2>3, <2>4
<1>5. CASE ~NextIsFree(T, bp)
  BY <1>3, <1>5, HeapFacts DEF WithoutNext
<1> QED BY <1>4, <1>5

(* Then the one before. *)
LEMMA BothLeave ==
  ASSUME NEW m, NEW T, NEW k, Shape(T, k), Roomy(T), Tagged(m, T, k),
         NEW bp \in Blocks(T) \ {h0}, IsFree(T, bp),
         NEW L, ListsOf(L, T, Frees(T) \ {bp}), Linked(m, L), NEW h,
         h = (IF NextIsFree(T, bp) THEN remove_block(HeapOf(m, k, L), EndOf(T, bp))
              ELSE HeapOf(m, k, L)),
         NEW g, g = (IF Start(T, bp) # bp THEN remove_block(h, Start(T, bp)) ELSE h)
  PROVE  \E m2 : /\ g = HeapOf(m2, k, Without(T, L, bp)) /\ Tagged(m2, T, k)
                 /\ Linked(m2, Without(T, L, bp)) /\ SameData(m, m2, T, Owned(T))
<1> DEFINE F == RestBefore(T, bp)
           A == Others(T, F)
           L1 == WithoutNext(T, L, bp)
           x == Start(T, bp)
           L2 == TakenOut(L1, T, x)
<1>1. PICK m1 : /\ h = HeapOf(m1, k, L1) /\ Tagged(m1, T, k)
                /\ Linked(m1, L1) /\ SameData(m, m1, T, Owned(T))
  BY NextLeaves
<1>2. ListsOf(L1, T, F) /\ (x # bp => x \in F)
  <2>1. ListsOf(L1, T, F)
    BY WithoutLists
  <2>2. x # bp => x \in F
    BY BeforeFacts
  <2> QED BY <2>1, <2>2
<1>3. F \subseteq Frees(T) /\ Owned(T) \subseteq A
  BY DEF Others, Frees, Owned, Allocs, RestBefore
<1>4. Without(T, L, bp) = IF x # bp THEN TakenOut(L1, T, x) ELSE L1
  BY DEF Without
<1>5. g = IF x # bp THEN remove_block(h, x) ELSE h
  OBVIOUS
<1> HIDE DEF F, L1, x
<1>6. CASE x # bp
  <2>1. /\ Shape(T, k) /\ Roomy(T) /\ Tagged(m1, T, k) /\ F \subseteq Frees(T)
        /\ ListsOf(L1, T, F) /\ Linked(m1, L1) /\ x \in F
        /\ g = remove_block(HeapOf(m1, k, L1), x)
    BY <1>1, <1>2, <1>3, <1>5, <1>6
  <2>2. PICK m2 : /\ g = HeapOf(m2, k, TakenOut(L1, T, x)) /\ Tagged(m2, T, k)
                  /\ Linked(m2, TakenOut(L1, T, x)) /\ SameData(m1, m2, T, Others(T, F))
    BY ONLY <2>1, Unlink
  <2>3. SameData(m1, m2, T, Owned(T))
    BY <2>2, <1>3, DataSome
  <2>4. SameData(m, m2, T, Owned(T))
    BY <2>3, <1>1, DataTrans
  <2> QED BY <2>2, <2>4, <1>4, <1>6
<1>7. CASE x = bp
  BY <1>1, <1>4, <1>5, <1>7
<1> QED BY <1>6, <1>7

(* coalesce writes the tags of the merged block, once its parts have left  *)
(* their lists.                                                            *)
LEMMA CoalesceTags ==
  ASSUME NEW m, NEW T, NEW k, Shape(T, k), Roomy(T), Tagged(m, T, k),
         NEW bp \in Blocks(T) \ {h0}, IsFree(T, bp), NEW L,
         NEW h, h = (IF NextIsFree(T, bp) THEN remove_block(HeapOf(m, k, L), EndOf(T, bp))
                     ELSE HeapOf(m, k, L)),
         NEW g, g = (IF Start(T, bp) # bp THEN remove_block(h, Start(T, bp)) ELSE h),
         NEW m1, NEW L2, g = HeapOf(m1, k, L2), Tagged(m1, T, k),
         NEW c, c = coalesce(HeapOf(m, k, L), bp),
         NEW x, x = Start(T, bp), NEW e, e = Stop(T, bp)
  PROVE  \E m2 : /\ c = [p |-> x, h |-> add_block(HeapOf(m2, k, L2), x, e - x)]
                 /\ Mem(m2) /\ m2[x - 4] = PACK(e - x, 0) /\ m2[e - 8] = PACK(e - x, 0)
                 /\ SameOutside(m1, m2, x, e)
<1> DEFINE nx == EndOf(T, bp)
           H == HeapOf(m, k, L)
<1>1. PICK pv \in Blocks(T) : EndOf(T, pv) = bp
  BY ShapeFacts
<1>2. /\ PREV_BLKP(m, bp) = pv
      /\ GET_ALLOC(m, FTRP(m, pv)) = (IF IsFree(T, pv) THEN 0 ELSE 1)
      /\ GET_SIZE(m, HDRP(pv)) = Size(T, pv)
      /\ GET_SIZE(m, HDRP(bp)) = Size(T, bp)
      /\ NEXT_BLKP(m, bp) = nx
  BY <1>1, ReadBlock
<1>3. GET_ALLOC(m, HDRP(nx)) = IF NextIsFree(T, bp) THEN 0 ELSE 1
  <2>1. nx \in Blocks(T) \cup {k}
    BY ShapeFacts
  <2>2. CASE nx \in Blocks(T)
    BY <2>2, ReadBlock DEF NextIsFree
  <2>3. CASE nx \notin Blocks(T)
    BY <2>1, <2>3, ReadEpilogue DEF NextIsFree
  <2> QED BY <2>2, <2>3
<1>4. NextIsFree(T, bp) => /\ nx \in Blocks(T) /\ e = EndOf(T, nx)
                           /\ GET_SIZE(m, HDRP(nx)) = Size(T, nx)
  BY ReadBlock DEF NextIsFree, Stop
<1>5. ~NextIsFree(T, bp) => e = nx
  BY DEF Stop
<1>6. x = (IF IsFree(T, pv) THEN pv ELSE bp) /\ pv # bp
  <2>1. x = IF IsFree(T, pv) THEN pv ELSE bp
    BY <1>1, StartStop
  <2>2. pv # bp
    BY <1>1, ShapeFacts
  <2> QED BY <2>1, <2>2
<1>7. /\ x \in Blocks(T) \ {h0} /\ e \in Blocks(T) \cup {k} /\ x < e
  BY StartStop
<1>8. /\ k \in Nat
      /\ \A b \in Blocks(T) : /\ b \in Nat /\ b % 8 = 0 /\ Size(T, b) \in Nat
                              /\ Size(T, b) >= 8 /\ Size(T, b) % 8 = 0
                              /\ EndOf(T, b) \in Nat /\ EndOf(T, b) = b + Size(T, b)
                              /\ b - 4 \in Addr /\ EndOf(T, b) - 8 \in Addr
      /\ k % 8 = 0
  BY ShapeFacts
<1>9. e - 8 \in Addr /\ e \in Nat /\ x \in Nat /\ x - 4 \in Addr /\ x + 8 <= e
  <2>1. e \in Nat
    BY <1>7, <1>8
  <2>2. e - 8 \in Addr
    BY <1>4, <1>5, <1>8
  <2>3. x + 8 <= e
    <3>1. x + 8 <= EndOf(T, x) /\ x \in Nat /\ EndOf(T, x) \in Nat
      BY <1>7, <1>8
    <3>2. e \in Blocks(T) => EndOf(T, x) <= e
      BY <1>7, ShapeFacts
    <3>3. e = k => EndOf(T, x) <= e
      BY <1>7, ShapeFacts
    <3> QED BY <3>1, <3>2, <3>3, <2>1, <1>7
  <2> QED BY <2>1, <2>2, <2>3, <1>7, <1>8
<1>10. Mem(m1) /\ H.m = m /\ g.m = m1 /\ \A v : [g EXCEPT !.m = v] = HeapOf(v, k, L2)
  BY HeapFacts DEF Tagged
<1>11. (e - x) % 8 = 0 /\ e - x \in Nat /\ PACK(e - x, 0) \in Nat
  <2>1. x % 8 = 0 /\ e % 8 = 0
    BY <1>7, <1>8
  <2>2. (e - x) % 8 = 0 /\ e - x \in Nat
    BY <2>1, <1>9, AlignedSum
  <2> QED BY <2>2, PackFacts
<1>12. h = (IF NextIsFree(T, bp) THEN remove_block(H, nx) ELSE H)
  OBVIOUS
<1> DEFINE prev_alloc == GET_ALLOC(m, FTRP(m, pv)) = 1
           next_alloc == GET_ALLOC(m, HDRP(nx)) = 1
           size == Size(T, bp) + (IF next_alloc THEN 0 ELSE GET_SIZE(m, HDRP(nx)))
                     + (IF prev_alloc THEN 0 ELSE GET_SIZE(m, HDRP(pv)))
           M == IF prev_alloc /\ next_alloc THEN g
                ELSE [g EXCEPT !.m = PutTags(@, x, size, 0)]
<1>13. (prev_alloc <=> ~IsFree(T, pv)) /\ (next_alloc <=> ~NextIsFree(T, bp))
  BY <1>2, <1>3
<1> HIDE DEF H, nx
<1>14. size = e - x
  <2>1. (IF next_alloc THEN 0 ELSE GET_SIZE(m, HDRP(nx))) = e - nx
    <3>1. CASE NextIsFree(T, bp)
      <4>1. e = nx + Size(T, nx) /\ nx \in Nat /\ Size(T, nx) \in Nat
        BY <3>1, <1>4, <1>8
      <4> QED BY <4>1, <3>1, <1>4, <1>13
    <3>2. CASE ~NextIsFree(T, bp)
      <4>1. e - nx = 0
        BY <3>2, <1>5, <1>9
      <4> QED BY <4>1, <3>2, <1>13
    <3> QED BY <3>1, <3>2
  <2>2. (IF prev_alloc THEN 0 ELSE GET_SIZE(m, HDRP(pv))) = bp - x
    <3>1. CASE IsFree(T, pv)
      <4>1. bp = pv + Size(T, pv) /\ pv \in Nat /\ Size(T, pv) \in Nat /\ x = pv
        BY <3>1, <1>1, <1>6, <1>8
      <4> QED BY <4>1, <3>1, <1>2, <1>13
    <3>2. CASE ~IsFree(T, pv)
      <4>1. bp - x = 0
        BY <3>2, <1>6, <1>9
      <4> QED BY <4>1, <3>2, <1>13
    <3> QED BY <3>1, <3>2
  <2>3. nx = bp + Size(T, bp) /\ bp \in Nat /\ Size(T, bp) \in Nat
    BY <1>8 DEF nx
  <2> HIDE DEF prev_alloc, next_alloc
  <2> QED BY <2>1, <2>2, <2>3, <1>9
<1>15. c = [p |-> x, h |-> add_block(M, x, size)]
  <2>1. x = IF prev_alloc THEN bp ELSE pv
    BY <1>6, <1>13
  <2>2. h = (IF next_alloc THEN H ELSE remove_block(H, nx))
    BY <1>12, <1>13
  <2>3. g = IF prev_alloc THEN h ELSE remove_block(h, pv)
    BY <1>6, <1>13
  <2>4. c = coalesce(H, bp) /\ H.m = m
    BY <1>10 DEF H
  <2> QED BY <2>1, <2>2, <2>3, <2>4, <1>2 DEF coalesce
<1> HIDE DEF prev_alloc, next_alloc, size
<1>16. CASE prev_alloc /\ next_alloc
  <2>1. M = HeapOf(m1, k, L2)
    BY <1>16
  <2>2. x = bp /\ e = nx /\ e - x = Size(T, bp)
    BY <1>5, <1>6, <1>8, <1>13, <1>16 DEF nx
  <2>3. m1[bp - 4] = PACK(Size(T, bp), 0) /\ m1[nx - 8] = PACK(Size(T, bp), 0)
    BY ShapeFacts DEF Tagged, nx
  <2>4. SameOutside(m1, m1, x, e)
    BY DEF SameOutside
  <2> HIDE DEF M
  <2> QED BY <2>1, <2>2, <2>3, <2>4, <1>10, <1>14, <1>15
<1>17. CASE ~(prev_alloc /\ next_alloc)
  <2>1. M = HeapOf(PutTags(m1, x, e - x, 0), k, L2)
    BY <1>10, <1>14, <1>17
  <2>2. /\ Mem(PutTags(m1, x, e - x, 0))
        /\ PutTags(m1, x, e - x, 0)[x - 4] = PACK(e - x, 0)
        /\ PutTags(m1, x, e - x, 0)[e - 8] = PACK(e - x, 0)
        /\ SameOutside(m1, PutTags(m1, x, e - x, 0), x, e)
    BY <1>9, <1>10, <1>11, PutTagsFacts
  <2> HIDE DEF M
  <2> QED BY <2>1, <2>2, <1>14, <1>15
<1> QED BY <1>16, <1>17

(* coalesce makes one free block of bp and its free neighbours, listed in  *)
(* the group of its size; no payload is touched.                           *)
LEMMA CoalesceMakes ==
  ASSUME NEW m, NEW T, NEW k, Shape(T, k), Roomy(T), Tagged(m, T, k),
         NEW bp \in Blocks(T) \ {h0}, IsFree(T, bp),
         NEW L, ListsOf(L, T, Frees(T) \ {bp}), Linked(m, L),
         NEW c, c = coalesce(HeapOf(m, k, L), bp)
  PROVE  \E m2 : /\ c = [p |-> Start(T, bp), h |-> HeapOf(m2, k, MergedList(T, L, bp))]
                 /\ Tagged(m2, Merged(T, bp), k) /\ Linked(m2, MergedList(T, L, bp))
                 /\ SameData(m, m2, T, Owned(T))
<1> DEFINE x == Start(T, bp)
           e == Stop(T, bp)
           L2 == Without(T, L, bp)
           T2 == Merged(T, bp)
           R == Rest(T, bp)
           h == IF NextIsFree(T, bp) THEN remove_block(HeapOf(m, k, L), EndOf(T, bp))
                ELSE HeapOf(m, k, L)
           g == IF x # bp THEN remove_block(h, x) ELSE h
<1>1. PICK m1 : /\ g = HeapOf(m1, k, L2) /\ Tagged(m1, T, k) /\ Linked(m1, L2)
                /\ SameData(m, m1, T, Owned(T))
  BY BothLeave
<1>2. PICK m2 : /\ c = [p |-> x, h |-> add_block(HeapOf(m2, k, L2), x, e - x)]
                /\ Mem(m2) /\ m2[x - 4] = PACK(e - x, 0) /\ m2[e - 8] = PACK(e - x, 0)
                /\ SameOutside(m1, m2, x, e)
  <2> DEFINE a == L2
  <2>1. g = HeapOf(m1, k, a) /\ Tagged(m1, T, k)
    BY <1>1
  <2> HIDE DEF a
  <2>2. \E m2 : /\ c = [p |-> x, h |-> add_block(HeapOf(m2, k, a), x, e - x)]
                /\ Mem(m2) /\ m2[x - 4] = PACK(e - x, 0) /\ m2[e - 8] = PACK(e - x, 0)
                /\ SameOutside(m1, m2, x, e)
    BY <2>1, CoalesceTags
  <2> QED BY <2>2 DEF a
<1>3. ListsOf(L2, T, R)
  BY WithoutLists
<1>4. /\ Roomy(T2) /\ ListsOf(L2, T2, R) /\ x \in Frees(T2) /\ x \notin R
      /\ Frees(T2) = R \cup {x} /\ Size(T2, x) = e - x
  BY MergedRest
<1>5. /\ x \in Blocks(T) \ {h0} /\ e \in Blocks(T) \cup {k} /\ x < e
      /\ T2 = Join(T, x, e, 0)
  BY StartStop DEF Merged
<1>6. x \in Int /\ e \in Int
  <2>1. k \in Nat /\ \A b \in Blocks(T) : b \in Nat
    BY ShapeFacts
  <2> HIDE DEF x, e
  <2> QED BY <2>1, <1>5
<1>7. \A b \in Owned(T) : b \in Blocks(T) /\ (EndOf(T, b) <= x \/ b >= e)
  BY Between DEF Owned, Allocs
<1>8. Inner(T, R) /\ \A b \in R : EndOf(T, b) <= x \/ b >= e
  BY CellBlocks DEF Rest, Frees, Inner
<1> HIDE DEF x, e, T2, R, g, h, L2
<1>9. /\ Shape(T2, k) /\ x \in Blocks(T2) \ {h0}
      /\ \A b : b \in Blocks(T2) <=> b \in Blocks(T) /\ (b <= x \/ b >= e)
      /\ \A b \in Blocks(T2) : b # x => T2[b] = T[b]
  BY <1>5, JoinShape
<1>10. Tagged(m2, T2, k)
  BY <1>1, <1>2, <1>5, JoinTagged
<1>11. Linked(m2, L2)
  <2>1. SameLinks(m1, m2, R)
    BY <1>2, <1>6, <1>8, OutsideLinks
  <2> QED BY <2>1, <1>1, <1>3, KeepLists
<1>12. SameData(m1, m2, T, Owned(T))
  BY <1>2, <1>6, <1>7, DataOutside
<1> DEFINE q == add_block(HeapOf(m2, k, L2), x, e - x)
           P == PutIn(L2, T2, x)
<1>14. PICK m3 : /\ q = HeapOf(m3, k, P) /\ Tagged(m3, T2, k) /\ Linked(m3, P)
                 /\ SameData(m2, m3, T2, Others(T2, R \cup {x}))
  <2> DEFINE n == e - x
  <2>1. /\ Shape(T2, k) /\ Roomy(T2) /\ Tagged(m2, T2, k) /\ R \subseteq Frees(T2)
        /\ ListsOf(L2, T2, R) /\ Linked(m2, L2) /\ x \in Frees(T2) /\ x \notin R
        /\ n = Size(T2, x) /\ q = add_block(HeapOf(m2, k, L2), x, n)
    BY <1>4, <1>9, <1>10, <1>11
  <2> HIDE DEF n, q
  <2>2. \E m3 : /\ q = HeapOf(m3, k, PutIn(L2, T2, x)) /\ Tagged(m3, T2, k)
                /\ Linked(m3, PutIn(L2, T2, x))
                /\ SameData(m2, m3, T2, Others(T2, R \cup {x}))
    BY ONLY <2>1, Link
  <2> QED BY <2>2
<1> HIDE DEF q
<1>15. SameData(m2, m3, T, Owned(T))
  <2>1. ASSUME NEW b \in Owned(T)
        PROVE  b \in Blocks(T2) /\ T2[b] = T[b] /\ b \in Others(T2, R \cup {x})
    <3>1. b \in Blocks(T) /\ ~IsFree(T, b) /\ b # h0 /\ (EndOf(T, b) <= x \/ b >= e)
      BY <1>7 DEF Owned, Allocs
    <3>2. b \in Nat /\ EndOf(T, b) \in Nat /\ b < EndOf(T, b)
      BY <3>1, ShapeFacts
    <3>3. b \in Blocks(T2) /\ b # x
      BY <3>1, <3>2, <1>5, <1>6, <1>9
    <3>4. b \notin R
      BY <3>1 DEF R, Rest, Frees
    <3> QED BY <3>1, <3>3, <3>4, <1>9 DEF Others
  <2>2. Keeps(T, T2, Owned(T)) /\ SameData(m2, m3, T2, Owned(T))
    BY <2>1, <1>14 DEF Keeps, SameData
  <2> QED BY <2>2, DataVia
<1>16. SameData(m, m3, T, Owned(T))
  BY <1>1, <1>12, <1>15, DataTrans
<1>17. c = [p |-> x, h |-> HeapOf(m3, k, P)]
  BY <1>2, <1>14 DEF q
<1> QED BY <1>14, <1>16, <1>17 DEF MergedList, x, L2, T2

-----------------------------------------------------------------------------
(* mm_free *)

FreedList(T, L, bp) == MergedList(Join(T, bp, EndOf(T, bp), 0), L, bp)

(* A block about to be merged is free and not yet listed. *)
LEMMA RetagFacts ==
  ASSUME NEW T, NEW k, Shape(T, k), Roomy(T), NEW bp \in Blocks(T) \ {h0}, ~IsFree(T, bp),
         NEW U, U = Join(T, bp, EndOf(T, bp), 0)
  PROVE  /\ Shape(U, k) /\ Roomy(U) /\ Blocks(U) = Blocks(T) /\ IsFree(U, bp)
         /\ Frees(U) \ {bp} = Frees(T)
         /\ \A b \in Frees(T) : Size(U, b) = Size(T, b)
<1>1. /\ Shape(U, k) /\ Blocks(U) = Blocks(T) /\ IsFree(U, bp)
      /\ \A b \in Blocks(T) : Size(U, b) = Size(T, b)
      /\ \A b \in Blocks(T) : b # bp => (IsFree(U, b) <=> IsFree(T, b))
  BY RetagShape
<1> QED BY <1>1 DEF Roomy, Frees

LEMMA RetagLists ==
  ASSUME NEW T, NEW k, Shape(T, k), Roomy(T), NEW bp \in Blocks(T) \ {h0}, ~IsFree(T, bp),
         NEW U, U = Join(T, bp, EndOf(T, bp), 0), NEW L, ListsOf(L, T, Frees(T))
  PROVE  ListsOf(L, U, Frees(U) \ {bp})
<1> DEFINE F == Frees(T)
<1>1. Frees(U) \ {bp} = F /\ \A b \in F : Size(U, b) = Size(T, b)
  BY RetagFacts
<1> HIDE DEF F
<1>2. ListsOf(L, T, F) => ListsOf(L, U, F)
  BY <1>1, ListsAgain
<1> QED BY <1>1, <1>2 DEF F

LEMMA FreedFacts ==
  ASSUME NEW T, NEW k, Shape(T, k), Roomy(T), NEW bp \in Blocks(T) \ {h0}, ~IsFree(T, bp),
         NEW L, ListsOf(L, T, Frees(T))
  PROVE  /\ ListsOf(FreedList(T, L, bp), Freed(T, bp), Frees(Freed(T, bp)))
         /\ Roomy(Freed(T, bp))
<1> DEFINE U == Join(T, bp, EndOf(T, bp), 0)
<1>1. /\ Shape(U, k) /\ Roomy(U) /\ Blocks(U) = Blocks(T) /\ IsFree(U, bp)
  BY RetagFacts
<1>2. ListsOf(L, U, Frees(U) \ {bp})
  BY RetagLists
<1>3. Freed(T, bp) = Merged(U, bp) /\ FreedList(T, L, bp) = MergedList(U, L, bp)
  BY DEF Freed, FreedList
<1> HIDE DEF U
<1> QED BY <1>1, <1>2, <1>3, MergedFacts

(* mm_free: the block is free, merged and listed, and the other payloads   *)
(* are as before.                                                          *)
LEMMA FreeMakes ==
  ASSUME NEW m, NEW T, NEW k, Shape(T, k), Roomy(T), Tagged(m, T, k),
         NEW L, ListsOf(L, T, Frees(T)), Linked(m, L), NEW bp \in Owned(T)
  PROVE  \E m2 : /\ Release(HeapOf(m, k, L), bp) = HeapOf(m2, k, FreedList(T, L, bp))
                 /\ Tagged(m2, Freed(T, bp), k) /\ Linked(m2, FreedList(T, L, bp))
                 /\ SameData(m, m2, T, Owned(T) \ {bp})
<1> DEFINE e == EndOf(T, bp)
           U == Join(T, bp, e, 0)
           m1 == PutTags(m, bp, e - bp, 0)
           c == coalesce(HeapOf(m1, k, L), bp)
           A == Owned(T) \ {bp}
<1>1. bp \in Blocks(T) \ {h0} /\ bp \in Blocks(T) /\ ~IsFree(T, bp)
  BY DEF Owned, Allocs
<1>2. /\ bp \in Nat /\ e \in Nat /\ e - bp = Size(T, bp) /\ bp + 8 <= e /\ (e - bp) % 8 = 0
      /\ bp - 4 \in Addr /\ e - 8 \in Addr /\ e \in Blocks(T) \cup {k} /\ bp < e
  <2>1. /\ bp \in Nat /\ EndOf(T, bp) \in Nat
        /\ Size(T, bp) \in Nat /\ EndOf(T, bp) = bp + Size(T, bp)
        /\ Size(T, bp) >= 8 /\ Size(T, bp) % 8 = 0
        /\ bp - 4 \in Addr /\ EndOf(T, bp) - 8 \in Addr
        /\ EndOf(T, bp) \in Blocks(T) \cup {k}
    BY <1>1, ShapeFacts
  <2>2. e - bp = Size(T, bp)
    BY <2>1
  <2> QED BY <2>1, <2>2
<1>3. \A b \in Blocks(T) : b # bp => EndOf(T, b) <= bp \/ b >= e
  <2>1. \A b \in Blocks(T) : b \in Nat
    BY ShapeFacts
  <2> QED BY <2>1, <1>1, <1>2, Sides
<1>4. Mem(m) /\ bp \in Int /\ e \in Int
  BY <1>2 DEF Tagged
<1>5. /\ Shape(U, k) /\ Roomy(U) /\ Blocks(U) = Blocks(T) /\ IsFree(U, bp)
      /\ ListsOf(L, U, Frees(U) \ {bp})
  BY <1>1, RetagFacts, RetagLists
<1>6. \A b \in Blocks(T) : b # bp => U[b] = T[b] /\ (IsFree(U, b) <=> IsFree(T, b))
  BY <1>1, RetagShape
<1>7. Release(HeapOf(m, k, L), bp) = c.h
  <2> DEFINE H == HeapOf(m, k, L)
  <2>1. H.m = m /\ \A v : [H EXCEPT !.m = v] = HeapOf(v, k, L)
    BY HeapFacts
  <2>2. GET_SIZE(m, HDRP(bp)) = e - bp
    BY <1>1, <1>2, ReadBlock
  <2>3. Release(H, bp) = coalesce([H EXCEPT !.m = PutTags(@, bp, GET_SIZE(@, HDRP(bp)), 0)], bp).h
    BY DEF Release
  <2> HIDE DEF H, e
  <2>4. [H EXCEPT !.m = PutTags(@, bp, GET_SIZE(@, HDRP(bp)), 0)] = HeapOf(m1, k, L)
    BY <2>1, <2>2
  <2> QED BY <2>3, <2>4 DEF H
<1>8. Freed(T, bp) = Merged(U, bp) /\ FreedList(T, L, bp) = MergedList(U, L, bp)
  BY DEF Freed, FreedList
<1> HIDE DEF e, U
<1>9. /\ Mem(m1) /\ m1[bp - 4] = PACK(e - bp, 0) /\ m1[e - 8] = PACK(e - bp, 0)
      /\ SameOutside(m, m1, bp, e)
  BY <1>2, <1>4, PutTagsFacts
<1> HIDE DEF m1
<1>10. Tagged(m1, U, k)
  BY <1>1, <1>2, <1>9, JoinTagged DEF U
<1>11. Linked(m1, L)
  <2> DEFINE B == Frees(T)
  <2>1. Inner(T, B) /\ \A b \in B : EndOf(T, b) <= bp \/ b >= e
    <3>1. bp \notin Frees(T)
      BY <1>1 DEF Frees
    <3> QED BY <3>1, <1>3, CellBlocks DEF Frees
  <2>2. ListsOf(L, T, B)
    OBVIOUS
  <2> HIDE DEF B
  <2>3. SameLinks(m, m1, B)
    BY <2>1, <1>4, <1>9, OutsideLinks
  <2> QED BY <2>2, <2>3, KeepLists
<1>12. SameData(m, m1, T, A)
  <2>1. A \subseteq Blocks(T) /\ \A b \in A : EndOf(T, b) <= bp \/ b >= e
    BY <1>3 DEF Owned, Allocs
  <2> HIDE DEF A
  <2> QED BY <2>1, <1>4, <1>9, DataOutside
<1>13. PICK m2 : /\ c = [p |-> Start(U, bp), h |-> HeapOf(m2, k, MergedList(U, L, bp))]
                 /\ Tagged(m2, Merged(U, bp), k) /\ Linked(m2, MergedList(U, L, bp))
                 /\ SameData(m1, m2, U, Owned(U))
  <2>1. bp \in Blocks(U) \ {h0} /\ ListsOf(L, U, Frees(U) \ {bp})
    BY <1>1, <1>5
  <2> QED BY <2>1, <1>5, <1>10, <1>11, CoalesceMakes
<1>14. SameData(m1, m2, T, A)
  <2>1. A \subseteq Owned(U)
    BY <1>5, <1>6 DEF Owned, Allocs
  <2>2. Keeps(T, U, A)
    BY <1>5, <1>6 DEF Keeps, Owned, Allocs
  <2> HIDE DEF A
  <2>3. SameData(m1, m2, U, A)
    BY <2>1, <1>13, DataSome
  <2> QED BY <2>2, <2>3, DataVia
<1>15. SameData(m, m2, T, A)
  BY <1>12, <1>14, DataTrans
<1>16. c.h = HeapOf(m2, k, FreedList(T, L, bp))
  BY <1>8, <1>13
<1> QED BY <1>7, <1>8, <1>13, <1>15, <1>16

-----------------------------------------------------------------------------
(* extend_heap *)

GrownList(T, L, k, e) == MergedList(Grow(T, k, e), L, k)

LEMMA GrowFacts ==
  ASSUME NEW T, NEW k, Shape(T, k), Roomy(T), NEW e \in Nat, e % 8 = 0, k + 16 <= e,
         e <= mem_max_addr, NEW U, U = Grow(T, k, e)
  PROVE  /\ Shape(U, e) /\ Roomy(U) /\ k \in Blocks(U) \ {h0} /\ IsFree(U, k)
         /\ k \notin Blocks(T) /\ Blocks(U) = Blocks(T) \cup {k}
         /\ Frees(U) \ {k} = Frees(T)
         /\ \A b \in Blocks(T) : /\ Size(U, b) = Size(T, b) /\ EndOf(U, b) = EndOf(T, b)
                                 /\ (IsFree(U, b) <=> IsFree(T, b))
<1>1. k \in Nat /\ h0 \in Blocks(T)
  BY ShapeFacts
<1>2. /\ Shape(U, e) /\ k \notin Blocks(T) /\ Blocks(U) = Blocks(T) \cup {k}
      /\ Size(U, k) = e - k /\ IsFree(U, k)
      /\ \A b \in Blocks(T) : /\ Size(U, b) = Size(T, b) /\ EndOf(U, b) = EndOf(T, b)
                              /\ (IsFree(U, b) <=> IsFree(T, b))
  BY <1>1, GrowShape
<1>3. e - k >= 16
  BY <1>1
<1>4. Roomy(U)
  BY <1>2, <1>3 DEF Roomy
<1>5. Frees(U) \ {k} = Frees(T)
  BY <1>2 DEF Frees
<1> QED BY <1>1, <1>2, <1>4, <1>5

LEMMA GrowLists ==
  ASSUME NEW T, NEW k, Shape(T, k), Roomy(T), NEW e \in Nat, e % 8 = 0, k + 16 <= e,
         e <= mem_max_addr, NEW U, U = Grow(T, k, e), NEW L, ListsOf(L, T, Frees(T))
  PROVE  ListsOf(L, U, Frees(U) \ {k})
<1> DEFINE F == Frees(T)
<1>1. Frees(U) \ {k} = F /\ \A b \in Blocks(T) : Size(U, b) = Size(T, b)
  BY GrowFacts
<1>2. \A b \in F : Size(U, b) = Size(T, b)
  BY <1>1 DEF Frees
<1> HIDE DEF F
<1>3. ListsOf(L, T, F) => ListsOf(L, U, F)
  BY <1>2, ListsAgain
<1> QED BY <1>1, <1>3 DEF F

LEMMA GrownFacts ==
  ASSUME NEW T, NEW k, Shape(T, k), Roomy(T), NEW e \in Nat, e % 8 = 0, k + 16 <= e,
         e <= mem_max_addr, NEW L, ListsOf(L, T, Frees(T))
  PROVE  /\ ListsOf(GrownList(T, L, k, e), Merged(Grow(T, k, e), k),
                    Frees(Merged(Grow(T, k, e), k)))
         /\ Roomy(Merged(Grow(T, k, e), k))
<1> DEFINE U == Grow(T, k, e)
<1>1. /\ Shape(U, e) /\ Roomy(U) /\ k \in Blocks(U) \ {h0} /\ IsFree(U, k)
  BY GrowFacts
<1>2. ListsOf(L, U, Frees(U) \ {k})
  BY GrowLists
<1>3. GrownList(T, L, k, e) = MergedList(U, L, k)
  BY DEF GrownList
<1> HIDE DEF U
<1>4. ListsOf(MergedList(U, L, k), Merged(U, k), Frees(Merged(U, k))) /\ Roomy(Merged(U, k))
  BY <1>1, <1>2, MergedFacts
<1> QED BY <1>3, <1>4 DEF U

(* extend_heap changes nothing when mem_sbrk fails. *)
LEMMA ExtendFails ==
  ASSUME NEW m, NEW k, NEW L, NEW n \in Nat, n % 8 = 0, ~SbrkOK(k, ToInt(n))
  PROVE  extend_heap(HeapOf(m, k, L), n \div WSIZE) = [p |-> NULL, h |-> HeapOf(m, k, L)]
<1> DEFINE words == n \div WSIZE
           h == HeapOf(m, k, L)
<1>1. (IF words % 2 = 1 THEN words + 1 ELSE words) * WSIZE = n
  BY DEF WSIZE
<1>2. h.m = m /\ h.brk = k
  BY HeapFacts
<1> HIDE DEF words, h
<1>3. extend_heap(h, words) = [p |-> NULL, h |-> h]
  BY <1>1, <1>2 DEF extend_heap
<1> QED BY <1>3 DEF words, h

(* Otherwise there is a free block of n bytes at the old break, merged     *)
(* with the one before and listed.                                         *)
LEMMA ExtendMakes ==
  ASSUME NEW m, NEW T, NEW k, Shape(T, k), Roomy(T), Tagged(m, T, k),
         NEW L, ListsOf(L, T, Frees(T)), Linked(m, L),
         NEW n \in Nat, n % 8 = 0, n >= 16, k + n < WORD, SbrkOK(k, ToInt(n))
  PROVE  \E m2 : /\ extend_heap(HeapOf(m, k, L), n \div WSIZE)
                       = [p |-> Start(Grow(T, k, k + n), k),
                          h |-> HeapOf(m2, k + n, GrownList(T, L, k, k + n))]
                 /\ Tagged(m2, Merged(Grow(T, k, k + n), k), k + n)
                 /\ Linked(m2, GrownList(T, L, k, k + n))
                 /\ SameData(m, m2, T, Owned(T))
<1> DEFINE e == k + n
           U == Grow(T, k, e)
           words == n \div WSIZE
           m1 == PutTags(m, k, n, 0)
           m2 == PUT(m1, HDRP(NEXT_BLKP(m1, k)), PACK(0, 1))
           h == HeapOf(m, k, L)
           c == coalesce(HeapOf(m2, e, L), k)
<1>1. (IF words % 2 = 1 THEN words + 1 ELSE words) * WSIZE = n
  BY DEF WSIZE
<1>2. h.m = m /\ h.brk = k /\ h.st = Heads(L)
  BY HeapFacts
<1>3. extend_heap(h, words) =
         coalesce([h EXCEPT !.m = m2, !.brk = SbrkTo(@, n)], k)
  <2> HIDE DEF words, h
  <2> QED BY <1>1, <1>2 DEF extend_heap
<1>5. \E mx : /\ extend_heap(HeapOf(m, k, L), n \div WSIZE)
                    = [p |-> Start(Grow(T, k, k + n), k),
                       h |-> HeapOf(mx, k + n, GrownList(T, L, k, k + n))]
              /\ Tagged(mx, Merged(Grow(T, k, k + n), k), k + n)
              /\ Linked(mx, GrownList(T, L, k, k + n))
              /\ SameData(m, mx, T, Owned(T))
  <2>1. /\ k \in Nat /\ k % 8 = 0 /\ h0 + 8 <= k /\ k - 4 \in Addr /\ h0 \in Nat
    BY ShapeFacts, RegionFacts
  <2>2. e <= mem_max_addr /\ SbrkTo(k, n) = e
    BY <2>1, SbrkFacts
  <2>3. e \in Nat /\ k + 8 <= e /\ e - k = n /\ k + 16 <= e
    BY <2>1
  <2>4. e % 8 = 0
    BY <2>1, AlignedSum
  <2>5. e - 4 \in Addr /\ e - 8 \in Addr
    <3>1. mem_start_brk < e
      BY <2>1, <2>3, RegionFacts
    <3> HIDE DEF e
    <3> QED BY <3>1, <2>2, <2>3, <2>4, AddrFacts
  <2>6. Mem(m)
    BY DEF Tagged
  <2>7. m1 = PutTags(m, k, e - k, 0)
    BY <2>3
  <2>8. extend_heap(h, words) = c
    <3>1. [h EXCEPT !.m = m2, !.brk = SbrkTo(@, n)] = HeapOf(m2, e, L)
      <4> HIDE DEF m2, e
      <4>1. [h EXCEPT !.m = m2, !.brk = SbrkTo(@, n)]
               = [[h EXCEPT !.m = m2] EXCEPT !.brk = SbrkTo(@, n)]
        OBVIOUS
      <4>2. [h EXCEPT !.m = m2] = HeapOf(m2, k, L)
        BY HeapFacts
      <4>3. [HeapOf(m2, k, L) EXCEPT !.brk = SbrkTo(@, n)] = HeapOf(m2, SbrkTo(k, n), L)
        BY DEF HeapOf
      <4> QED BY <4>1, <4>2, <4>3, <2>2
    <3> HIDE DEF h, words, m2, e
    <3> QED BY <3>1, <1>3
  <2> HIDE DEF e, m1
  <2>9. /\ Mem(m1) /\ m1[k - 4] = PACK(n, 0) /\ m1[e - 8] = PACK(n, 0)
        /\ SameOutside(m, m1, k, e)
    <3>1. (e - k) % 8 = 0
      BY <2>3
    <3> QED BY <3>1, <2>1, <2>3, <2>5, <2>6, <2>7, PutTagsFacts
  <2>10. HDRP(NEXT_BLKP(m1, k)) = e - 4
    <3>1. SizeOf(PACK(n, 0)) = n
      BY PackFacts
    <3> QED BY <3>1, <2>9 DEF NEXT_BLKP, GET_SIZE, GET, HDRP, WSIZE, e
  <2>11. m2 = [m1 EXCEPT ![e - 4] = 1]
    BY <2>10 DEF PUT, PACK
  <2>12. /\ Mem(m2) /\ m2[k - 4] = PACK(n, 0) /\ m2[e - 8] = PACK(n, 0)
         /\ m2[e - 4] = PACK(0, 1) /\ \A a \in Addr : a < k - 4 => m2[a] = m[a]
    <3>1. k - 4 # e - 4 /\ e - 8 # e - 4
      BY <2>1, <2>3
    <3>2. ASSUME NEW a \in Addr, a < k - 4 PROVE m2[a] = m[a]
      <4>1. a # e - 4
        BY <3>2, <2>1, <2>3, RegionFacts
      <4>2. m1[a] = m[a]
        BY <3>2, <2>9 DEF SameOutside
      <4> QED BY <4>1, <4>2, <2>9, <2>11 DEF Mem
    <3> QED BY <3>1, <3>2, <2>1, <2>5, <2>9, <2>11 DEF Mem, PACK
  <2> HIDE DEF m2
  <2>13. /\ Shape(U, e) /\ Roomy(U) /\ k \in Blocks(U) \ {h0} /\ IsFree(U, k)
         /\ k \notin Blocks(T) /\ Blocks(U) = Blocks(T) \cup {k}
         /\ Frees(U) \ {k} = Frees(T)
         /\ \A b \in Blocks(T) : EndOf(U, b) = EndOf(T, b) /\ (IsFree(U, b) <=> IsFree(T, b))
    BY <2>2, <2>3, <2>4, GrowFacts
  <2>14. Tagged(m2, U, e)
    BY <2>2, <2>3, <2>4, <2>12, GrowTagged
  <2>15. \A b \in Blocks(T) : U[b] = T[b]
    BY <2>2, <2>3, <2>4, GrowShape
  <2>16. GrownList(T, L, k, e) = MergedList(U, L, k)
    BY DEF GrownList
  <2>16a. ListsOf(L, U, Frees(U) \ {k})
    BY <2>2, <2>3, <2>4, GrowLists
  <2> HIDE DEF U
  <2>17. ASSUME NEW b \in Blocks(T) \ {h0}
         PROVE  /\ m2[b] = m[b] /\ m2[b + 4] = m[b + 4]
                /\ \A a \in Payload(T, b) : m2[a] = m[a]
    <3>1. /\ b \in Nat /\ b + 16 <= EndOf(T, b) /\ EndOf(T, b) <= k /\ EndOf(T, b) \in Nat
          /\ b \in Addr /\ b + 4 \in Addr
      BY CellBlocks, ShapeFacts DEF Cell
    <3>2. b < k - 4 /\ b + 4 < k - 4
      BY <3>1, <2>1
    <3>3. ASSUME NEW a \in Payload(T, b) PROVE a \in Addr /\ a < k - 4
      <4>1. a \in Addr /\ a \in Nat /\ a < EndOf(T, b) - 8
        BY RegionFacts DEF Payload
      <4> QED BY <4>1, <3>1, <2>1
    <3> QED BY <3>1, <3>2, <3>3, <2>12
  <2>18. Linked(m2, L)
    <3>1. Inner(T, Frees(T))
      BY CellBlocks
    <3>2. SameLinks(m, m2, Frees(T))
      BY <3>1, <2>17 DEF SameLinks, Inner
    <3> QED BY <3>2, KeepLists
  <2>19. SameData(m, m2, T, Owned(T))
    BY <2>17 DEF SameData, Owned, Allocs
  <2>20. PICK m3 : /\ c = [p |-> Start(U, k), h |-> HeapOf(m3, e, MergedList(U, L, k))]
                   /\ Tagged(m3, Merged(U, k), e) /\ Linked(m3, MergedList(U, L, k))
                   /\ SameData(m2, m3, U, Owned(U))
    <3>1. c = coalesce(HeapOf(m2, e, L), k)
      OBVIOUS
    <3> HIDE DEF c
    <3>2. /\ Shape(U, e) /\ Roomy(U) /\ Tagged(m2, U, e) /\ k \in Blocks(U) \ {h0}
          /\ IsFree(U, k) /\ ListsOf(L, U, Frees(U) \ {k}) /\ Linked(m2, L)
          /\ c = coalesce(HeapOf(m2, e, L), k)
      BY <3>1, <2>13, <2>14, <2>18, <2>16a
    <3> QED BY ONLY <3>2, CoalesceMakes
  <2>21. SameData(m2, m3, T, Owned(T))
    <3>1. Owned(T) \subseteq Owned(U) /\ Keeps(T, U, Owned(T))
      BY <2>13, <2>15 DEF Owned, Allocs, Keeps
    <3> DEFINE A == Owned(T)
    <3> HIDE DEF A
    <3>2. SameData(m2, m3, U, A)
      BY <3>1, <2>20, DataSome DEF A
    <3> QED BY <3>1, <3>2, DataVia DEF A
  <2>22. SameData(m, m3, T, Owned(T))
    BY <2>19, <2>21, DataTrans
  <2> HIDE DEF c
  <2> QED BY <2>2, <2>8, <2>16, <2>20, <2>22 DEF U, e
<1> QED BY <1>5

-----------------------------------------------------------------------------
(* place *)

PlacedList(T, L, bp, asize) ==
    IF Size(T, bp) - asize >= 2 * DSIZE
    THEN PutIn(TakenOut(L, T, bp), Placed(T, bp, asize), bp + asize) ELSE TakenOut(L, T, bp)

(* The tags place makes, and what stays listed meanwhile. *)
LEMMA PlacedTags ==
  ASSUME NEW T, NEW k, Shape(T, k), Roomy(T), NEW bp \in Frees(T),
         NEW asize \in Nat, asize % 8 = 0, asize >= 16, asize <= Size(T, bp),
         NEW P, P = Placed(T, bp, asize)
  PROVE  /\ Shape(P, k) /\ Roomy(P) /\ Blocks(T) \subseteq Blocks(P)
         /\ \A b \in Blocks(T) : b # bp => P[b] = T[b] /\ Size(P, b) = Size(T, b)
         /\ IF Size(T, bp) - asize >= 2 * DSIZE
            THEN /\ bp + asize \notin Blocks(T) /\ Size(P, bp + asize) = Size(T, bp) - asize
                 /\ Frees(P) = (Frees(T) \ {bp}) \cup {bp + asize}
            ELSE Frees(P) = Frees(T) \ {bp}
<1> DEFINE y == bp + asize
<1>1. /\ bp \in Blocks(T) \ {h0} /\ IsFree(T, bp) /\ bp \in Nat /\ bp % 8 = 0
      /\ Size(T, bp) \in Nat /\ EndOf(T, bp) = bp + Size(T, bp)
  BY ShapeFacts DEF Frees
<1>2. CASE Size(T, bp) - asize >= 2 * DSIZE
  <2>1. P = Cut(T, bp, y) /\ Size(T, bp) - asize >= 16
    BY <1>2 DEF Placed, DSIZE
  <2>2. y \in Nat /\ y % 8 = 0 /\ bp + 8 <= y /\ y + 8 <= EndOf(T, bp) /\ y - bp = asize
        /\ EndOf(T, bp) - y >= 16 /\ EndOf(T, bp) - y = Size(T, bp) - asize
    <3>1. y % 8 = 0
      BY <1>1, AlignedSum
    <3> QED BY <3>1, <2>1, <1>1
  <2> HIDE DEF y
  <2>3. /\ Shape(P, k) /\ y \notin Blocks(T) /\ Blocks(P) = Blocks(T) \cup {y}
        /\ Size(P, bp) = y - bp /\ ~IsFree(P, bp) /\ Size(P, y) = EndOf(T, bp) - y
        /\ IsFree(P, y)
        /\ \A b \in Blocks(T) : b # bp => /\ P[b] = T[b] /\ Size(P, b) = Size(T, b)
                                        /\ (IsFree(P, b) <=> IsFree(T, b))
    BY <2>1, <2>2, <1>1, CutShape
  <2>4. Roomy(P)
    BY <2>2, <2>3 DEF Roomy
  <2>5. Frees(P) = (Frees(T) \ {bp}) \cup {y}
    BY <2>3, <1>1 DEF Frees
  <2> QED BY <2>2, <2>3, <2>4, <2>5, <1>2 DEF y
<1>3. CASE ~(Size(T, bp) - asize >= 2 * DSIZE)
  <2>1. P = Join(T, bp, EndOf(T, bp), 1)
    BY <1>3 DEF Placed
  <2>2. /\ Shape(P, k) /\ Blocks(P) = Blocks(T) /\ ~IsFree(P, bp)
        /\ \A b \in Blocks(T) : Size(P, b) = Size(T, b)
        /\ \A b \in Blocks(T) : b # bp => P[b] = T[b] /\ (IsFree(P, b) <=> IsFree(T, b))
    BY <2>1, <1>1, RetagShape
  <2>3. Roomy(P) /\ Frees(P) = Frees(T) \ {bp}
    BY <2>2 DEF Roomy, Frees
  <2> QED BY <2>2, <2>3, <1>3
<1> QED BY <1>2, <1>3

(* The lists place makes. *)
LEMMA PlacedLists ==
  ASSUME NEW T, NEW k, Shape(T, k), Roomy(T), NEW bp \in Frees(T),
         NEW asize \in Nat, asize % 8 = 0, asize >= 16, asize <= Size(T, bp),
         NEW P, P = Placed(T, bp, asize), NEW L, ListsOf(L, T, Frees(T))
  PROVE  /\ ListsOf(TakenOut(L, T, bp), T, Frees(T) \ {bp})
         /\ ListsOf(TakenOut(L, T, bp), P, Frees(T) \ {bp})
         /\ ListsOf(PlacedList(T, L, bp, asize), P, Frees(P))
<1> DEFINE y == bp + asize
           F == Frees(T) \ {bp}
           W == TakenOut(L, T, bp)
<1>1. /\ Shape(P, k) /\ Blocks(T) \subseteq Blocks(P)
      /\ \A b \in Blocks(T) : b # bp => Size(P, b) = Size(T, b)
      /\ IF Size(T, bp) - asize >= 2 * DSIZE
         THEN y \notin Blocks(T) /\ Frees(P) = F \cup {y}
         ELSE Frees(P) = F
  BY PlacedTags
<1>2. ListsOf(W, T, F)
  BY TakenOutLists
<1>3. \A b \in F : Size(P, b) = Size(T, b) /\ b \in Blocks(T)
  BY <1>1 DEF Frees
<1>4. PlacedList(T, L, bp, asize) = IF Size(T, bp) - asize >= 2 * DSIZE THEN PutIn(W, P, y) ELSE W
  BY DEF PlacedList
<1> HIDE DEF F, W, y
<1>5. ListsOf(W, P, F)
  BY <1>2, <1>3, ListsAgain
<1>6. CASE Size(T, bp) - asize >= 2 * DSIZE
  <2>1. y \notin F /\ Frees(P) = F \cup {y}
    BY <1>1, <1>3, <1>6
  <2>2. Sized(P, F \cup {y})
    <3>1. Sized(P, Frees(P))
      BY <1>1, ShapeFacts DEF Sized, Frees
    <3> QED BY <3>1, <2>1
  <2>3. ListsOf(PutIn(W, P, y), P, F \cup {y})
    BY <2>1, <2>2, <1>5, PutInLists
  <2> QED BY <2>1, <2>3, <1>2, <1>4, <1>5, <1>6 DEF W, F
<1>7. CASE ~(Size(T, bp) - asize >= 2 * DSIZE)
  BY <1>1, <1>2, <1>4, <1>5, <1>7 DEF W, F
<1> QED BY <1>6, <1>7

(* Once the block has left its list, place writes the tags of what it      *)
(* allocates and of the rest, which it lists.                              *)
LEMMA PlaceTags ==
  ASSUME NEW m0, NEW T, NEW k, Shape(T, k), Roomy(T), Tagged(m0, T, k), NEW L, NEW m,
         NEW bp \in Frees(T), NEW asize \in Nat, asize % 8 = 0, asize >= 16,
         asize <= Size(T, bp), Tagged(m, T, k), NEW W,
         remove_block(HeapOf(m0, k, L), bp) = HeapOf(m, k, W)
  PROVE  \E m2 : /\ place(HeapOf(m0, k, L), bp, asize)
                       = (IF Size(T, bp) - asize >= 2 * DSIZE
                          THEN add_block(HeapOf(m2, k, W), bp + asize, Size(T, bp) - asize)
                          ELSE HeapOf(m2, k, W))
                 /\ Tagged(m2, Placed(T, bp, asize), k)
                 /\ SameOutside(m, m2, bp, EndOf(T, bp))
<1> DEFINE e == EndOf(T, bp)
           H == HeapOf(m0, k, L)
           H1 == HeapOf(m, k, W)
<1>1. /\ bp \in Blocks(T) \ {h0} /\ bp \in Blocks(T) /\ IsFree(T, bp)
      /\ bp \in Nat /\ bp % 8 = 0 /\ h0 <= bp /\ e \in Nat /\ e % 8 = 0
      /\ e - bp = Size(T, bp) /\ bp + 16 <= e /\ (e - bp) % 8 = 0
      /\ bp - 4 \in Addr /\ e - 8 \in Addr /\ e \in Blocks(T) \cup {k} /\ e <= mem_max_addr
      /\ h0 \in Nat /\ bp \in Addr /\ bp + 4 \in Addr
  <2>1. bp \in Blocks(T) /\ IsFree(T, bp) /\ bp # h0
    BY ShapeFacts DEF Frees
  <2>2. Cell(bp) /\ bp + 16 <= e
    BY <2>1, CellBlocks
  <2>3. /\ bp \in Nat /\ bp % 8 = 0 /\ h0 <= bp /\ e \in Nat /\ e % 8 = 0
        /\ e = bp + Size(T, bp) /\ Size(T, bp) \in Nat /\ Size(T, bp) % 8 = 0
        /\ bp - 4 \in Addr /\ e - 8 \in Addr /\ e \in Blocks(T) \cup {k}
        /\ e <= k /\ k <= mem_max_addr /\ k \in Nat /\ mem_max_addr \in Nat /\ h0 \in Nat
    BY <2>1, ShapeFacts, RegionFacts
  <2>4. e - bp = Size(T, bp) /\ e <= mem_max_addr
    BY <2>3
  <2> QED BY <2>1, <2>2, <2>3, <2>4 DEF Cell
<1>2. GET_SIZE(m0, HDRP(bp)) = e - bp /\ Mem(m)
  BY <1>1, ReadBlock DEF Tagged
<1>3. /\ H.m = m0 /\ H1.m = m /\ \A v : [H1 EXCEPT !.m = v] = HeapOf(v, k, W)
      /\ remove_block(H, bp) = H1
  BY HeapFacts
<1> HIDE DEF e, H, H1
<1>4. CASE (e - bp) - asize >= 2 * DSIZE
  <2> DEFINE y == bp + asize
             m1 == PutTags(m, bp, y - bp, 1)
             m2 == PutTags(m1, y, e - y, 0)
  <2>1. /\ y \in Nat /\ y % 8 = 0 /\ bp + 16 <= y /\ y + 16 <= e
        /\ y - bp = asize /\ e - y = (e - bp) - asize
    <3>1. y % 8 = 0
      BY <1>1, AlignedSum
    <3> QED BY <3>1, <1>1, <1>4 DEF DSIZE
  <2>2. (e - y) % 8 = 0 /\ y - 4 \in Addr /\ y - 8 \in Addr
    <3>1. mem_start_brk < y /\ y <= mem_max_addr
      BY <2>1, <1>1, RegionFacts
    <3> HIDE DEF y
    <3>2. y - 4 \in Addr /\ y - 8 \in Addr
      BY <3>1, <2>1, AddrFacts
    <3>3. e \in Int /\ y \in Int /\ e % 8 = 0 /\ y % 8 = 0
      BY <2>1, <1>1
    <3>4. (e - y) % 8 = 0
      BY <3>3, AlignedSum
    <3> QED BY <3>2, <3>4
  <2>3. Placed(T, bp, asize) = Cut(T, bp, y) /\ Size(T, bp) - asize >= 2 * DSIZE
    BY <1>1, <1>4 DEF Placed
  <2>4. place(H, bp, asize)
           = add_block([H1 EXCEPT !.m = PutTags(m1, NEXT_BLKP(m1, bp), e - y, 0)],
                       NEXT_BLKP(m1, bp), e - y)
    BY <2>1, <1>2, <1>3, <1>4 DEF place
  <2> HIDE DEF y
  <2>5. /\ Mem(m1) /\ m1[bp - 4] = PACK(y - bp, 1) /\ m1[y - 8] = PACK(y - bp, 1)
        /\ SameOutside(m, m1, bp, y)
    <3>1. bp + 8 <= y /\ (y - bp) % 8 = 0
      BY <2>1, <1>1
    <3> QED BY <3>1, <2>1, <2>2, <1>1, <1>2, PutTagsFacts
  <2> HIDE DEF m1
  <2>6. NEXT_BLKP(m1, bp) = y
    <3>1. SizeOf(PACK(y - bp, 1)) = asize
      BY <2>1, PackFacts
    <3> QED BY <3>1, <2>5 DEF NEXT_BLKP, GET_SIZE, GET, HDRP, WSIZE, y
  <2>7. /\ Mem(m2) /\ m2[y - 4] = PACK(e - y, 0) /\ m2[e - 8] = PACK(e - y, 0)
        /\ SameOutside(m1, m2, y, e)
    <3>1. /\ Mem(m1) /\ y \in Nat /\ e \in Nat /\ y + 8 <= e /\ (e - y) % 8 = 0
          /\ y - 4 \in Addr /\ e - 8 \in Addr
      BY <2>1, <2>2, <2>5, <1>1
    <3> QED BY <3>1, PutTagsFacts
  <2> HIDE DEF m2
  <2>8. m2[bp - 4] = PACK(y - bp, 1) /\ m2[y - 8] = PACK(y - bp, 1)
    <3>1. bp - 4 < y - 4 /\ y - 8 < y - 4
      BY <2>1, <1>1
    <3>2. m2[bp - 4] = m1[bp - 4] /\ m2[y - 8] = m1[y - 8]
      BY <3>1, <2>2, <2>7, <1>1 DEF SameOutside
    <3> QED BY <3>1, <3>2, <2>5, <2>7, <1>1
  <2>9. SameOutside(m, m2, bp, e)
    <3> SUFFICES ASSUME NEW a \in Addr, a < bp - 4 \/ a >= e - 4 PROVE m2[a] = m[a]
      BY DEF SameOutside
    <3>1. a \in Nat
      BY RegionFacts
    <3>2. (a < y - 4 \/ a >= e - 4) /\ (a < bp - 4 \/ a >= y - 4)
      BY <3>1, <2>1, <1>1
    <3> QED BY <3>2, <2>5, <2>7 DEF SameOutside
  <2>10. Tagged(m2, Cut(T, bp, y), k)
    <3>1. bp + 8 <= y /\ y + 8 <= e
      BY <2>1, <1>1
    <3> QED BY <3>1, <2>1, <2>7, <2>8, <2>9, <1>1, CutTagged DEF e
  <2>11. place(H, bp, asize) = add_block(HeapOf(m2, k, W), y, Size(T, bp) - asize)
    <3>1. [H1 EXCEPT !.m = m2] = HeapOf(m2, k, W) /\ e - y = Size(T, bp) - asize
      BY <1>1, <1>3, <2>1
    <3> QED BY <3>1, <2>4, <2>6 DEF m2
  <2> QED BY <2>3, <2>9, <2>10, <2>11 DEF e, H, y
<1>5. CASE ~((e - bp) - asize >= 2 * DSIZE)
  <2> DEFINE m1 == PutTags(m, bp, e - bp, 1)
  <2>1. place(H, bp, asize) = HeapOf(m1, k, W)
    <3>1. place(H, bp, asize) = [H1 EXCEPT !.m = PutTags(@, bp, e - bp, 1)]
      BY <1>2, <1>3, <1>5 DEF place
    <3>2. [H1 EXCEPT !.m = PutTags(@, bp, e - bp, 1)] = [H1 EXCEPT !.m = m1]
      BY <1>3
    <3> HIDE DEF m1
    <3> QED BY <3>1, <3>2, <1>3
  <2>2. Placed(T, bp, asize) = Join(T, bp, e, 1) /\ ~(Size(T, bp) - asize >= 2 * DSIZE)
    BY <1>1, <1>5 DEF Placed, e
  <2>3. bp < e /\ bp + 8 <= e
    BY <1>1
  <2>4. /\ Mem(m1) /\ m1[bp - 4] = PACK(e - bp, 1) /\ m1[e - 8] = PACK(e - bp, 1)
        /\ SameOutside(m, m1, bp, e)
    BY <2>3, <1>1, <1>2, PutTagsFacts
  <2> HIDE DEF m1
  <2>5. Tagged(m1, Join(T, bp, e, 1), k)
    BY <2>3, <2>4, <1>1, JoinTagged
  <2> QED BY <2>1, <2>2, <2>4, <2>5 DEF e, H
<1> QED BY <1>4, <1>5

(* place: one block more is allocated, the rest of it is listed in the     *)
(* group it then belongs to, and no payload is touched.                    *)
LEMMA PlaceMakes ==
  ASSUME NEW m, NEW T, NEW k, Shape(T, k), Roomy(T), Tagged(m, T, k),
         NEW L, ListsOf(L, T, Frees(T)), Linked(m, L),
         NEW bp \in Frees(T), NEW asize \in Nat, asize % 8 = 0, asize >= 16,
         asize <= Size(T, bp)
  PROVE  \E m2 : /\ place(HeapOf(m, k, L), bp, asize)
                       = HeapOf(m2, k, PlacedList(T, L, bp, asize))
                 /\ Tagged(m2, Placed(T, bp, asize), k)
                 /\ Linked(m2, PlacedList(T, L, bp, asize))
                 /\ SameData(m, m2, T, Owned(T))
<1> DEFINE e == EndOf(T, bp)
           y == bp + asize
           P == Placed(T, bp, asize)
           F == Frees(T) \ {bp}
           W == TakenOut(L, T, bp)
           G == place(HeapOf(m, k, L), bp, asize)
           n == Size(T, bp) - asize
<1>1. /\ bp \in Blocks(T) \ {h0} /\ bp \in Blocks(T) /\ bp \in Int /\ e \in Int
      /\ \A b \in Blocks(T) : b # bp => EndOf(T, b) <= bp \/ b >= e
  <2>1. bp \in Blocks(T) \ {h0} /\ \A b \in Blocks(T) : b \in Nat /\ EndOf(T, b) \in Nat
    BY ShapeFacts DEF Frees
  <2> QED BY <2>1, Sides
<1>2. PICK m1 : /\ remove_block(HeapOf(m, k, L), bp) = HeapOf(m1, k, W) /\ Tagged(m1, T, k)
                /\ Linked(m1, W) /\ SameData(m, m1, T, Others(T, Frees(T)))
  <2> DEFINE A == Frees(T)
             r == remove_block(HeapOf(m, k, L), bp)
  <2>1. /\ Shape(T, k) /\ Roomy(T) /\ Tagged(m, T, k) /\ A \subseteq Frees(T)
        /\ ListsOf(L, T, A) /\ Linked(m, L) /\ bp \in A
        /\ r = remove_block(HeapOf(m, k, L), bp)
    OBVIOUS
  <2> HIDE DEF A, r
  <2>2. \E m1 : /\ r = HeapOf(m1, k, TakenOut(L, T, bp)) /\ Tagged(m1, T, k)
                /\ Linked(m1, TakenOut(L, T, bp)) /\ SameData(m, m1, T, Others(T, A))
    BY ONLY <2>1, Unlink
  <2> QED BY <2>2 DEF A, r
<1>3. PICK m2 : /\ G = (IF n >= 2 * DSIZE THEN add_block(HeapOf(m2, k, W), y, n)
                        ELSE HeapOf(m2, k, W))
                /\ Tagged(m2, P, k) /\ SameOutside(m1, m2, bp, e)
  <2> HIDE DEF W
  <2> QED BY <1>2, PlaceTags
<1>4. /\ ListsOf(W, T, F) /\ ListsOf(W, P, F)
      /\ PlacedList(T, L, bp, asize) = IF n >= 2 * DSIZE THEN PutIn(W, P, y) ELSE W
  BY PlacedLists DEF PlacedList
<1>5. /\ Shape(P, k) /\ Roomy(P) /\ Blocks(T) \subseteq Blocks(P)
      /\ \A b \in Blocks(T) : b # bp => P[b] = T[b]
      /\ IF n >= 2 * DSIZE
         THEN y \notin Blocks(T) /\ Size(P, y) = n /\ Frees(P) = F \cup {y}
         ELSE Frees(P) = F
  BY PlacedTags
<1>6. Linked(m2, W)
  <2>1. Inner(T, F) /\ \A b \in F : EndOf(T, b) <= bp \/ b >= e
    BY <1>1, CellBlocks DEF Frees, Inner
  <2> HIDE DEF F, W, e
  <2>2. SameLinks(m1, m2, F)
    BY <2>1, <1>1, <1>3, OutsideLinks
  <2> QED BY <2>2, <1>2, <1>4, KeepLists
<1>7. SameData(m, m2, T, Owned(T))
  <2> DEFINE A == Owned(T)
  <2>1. A \subseteq Blocks(T) /\ \A b \in A : EndOf(T, b) <= bp \/ b >= e
    BY <1>1 DEF Owned, Allocs, Frees
  <2>2. A \subseteq Others(T, Frees(T))
    BY DEF Owned, Allocs, Frees, Others
  <2> HIDE DEF A, e
  <2>3. SameData(m1, m2, T, A)
    BY <2>1, <1>1, <1>3, DataOutside
  <2>4. SameData(m, m1, T, A)
    BY <2>2, <1>2, DataSome
  <2> QED BY <2>3, <2>4, DataTrans DEF A
<1>8. Keeps(T, P, Owned(T))
  BY <1>1, <1>5 DEF Owned, Allocs, Frees, Keeps
<1>9. ASSUME NEW b \in Owned(T) PROVE b \in Blocks(P) /\ b \in Blocks(T) /\ b \notin F
  BY <1>5 DEF Owned, Allocs, Frees
<1> HIDE DEF e, y, P, F, W, G, n
<1>10. CASE n >= 2 * DSIZE
  <2>1. /\ Shape(P, k) /\ Roomy(P) /\ Tagged(m2, P, k) /\ F \subseteq Frees(P)
        /\ ListsOf(W, P, F) /\ Linked(m2, W) /\ y \in Frees(P) /\ y \notin F
        /\ n = Size(P, y) /\ G = add_block(HeapOf(m2, k, W), y, n)
    <3>1. y \notin F
      BY <1>5, <1>10 DEF F, Frees
    <3> QED BY <3>1, <1>3, <1>4, <1>5, <1>6, <1>10
  <2>2. PICK m3 : /\ G = HeapOf(m3, k, PutIn(W, P, y)) /\ Tagged(m3, P, k)
                  /\ Linked(m3, PutIn(W, P, y))
                  /\ SameData(m2, m3, P, Others(P, F \cup {y}))
    BY ONLY <2>1, Link
  <2>3. SameData(m2, m3, P, Owned(T))
    <3>1. \A b \in Owned(T) : b \in Others(P, F \cup {y})
      BY <1>5, <1>9, <1>10 DEF Others
    <3> QED BY <3>1, <2>2 DEF SameData
  <2>4. SameData(m2, m3, T, Owned(T))
    BY <2>3, <1>8, DataVia
  <2>5. SameData(m, m3, T, Owned(T))
    BY <2>4, <1>7, DataTrans
  <2>6. PlacedList(T, L, bp, asize) = PutIn(W, P, y)
    BY <1>4, <1>10
  <2> QED BY <2>2, <2>5, <2>6 DEF P, G
<1>11. CASE ~(n >= 2 * DSIZE)
  <2>1. G = HeapOf(m2, k, W) /\ PlacedList(T, L, bp, asize) = W
    BY <1>3, <1>4, <1>11
  <2> QED BY <2>1, <1>3, <1>6, <1>7 DEF P, G
<1> QED BY <1>10, <1>11

-----------------------------------------------------------------------------
(* mm_init *)

(* It depends on the region and the chunk alone. *)
InitOK == SbrkOK(mem_start_brk, 4 * WSIZE) /\ SbrkOK(h0 + 8, ToInt(CHUNKSIZE))

FreshBreak == h0 + 8 + CHUNKSIZE

Fresh == Merged(Grow(Bare(8), h0 + 8, FreshBreak), h0 + 8)

FreshList == GrownList(Bare(8), NoLists, h0 + 8, FreshBreak)

(* The prologue alone. *)
LEMMA BareFacts ==
  ASSUME SbrkOK(mem_start_brk, 4 * WSIZE)
  PROVE  /\ Shape(Bare(8), h0 + 8) /\ Roomy(Bare(8)) /\ Separate(Bare(8))
         /\ Allocs(Bare(8)) = {h0} /\ Blocks(Bare(8)) = {h0}
         /\ ListsOf(NoLists, Bare(8), Frees(Bare(8)))
         /\ Bare(8)[h0] = PACK(8, 1) /\ EndOf(Bare(8), h0) = h0 + 8
         /\ h0 + 8 <= mem_max_addr /\ SbrkTo(mem_start_brk, 4 * WSIZE) = h0 + 8
         /\ h0 + 8 + CHUNKSIZE < WORD
<1>1. /\ h0 \in Nat /\ h0 % 8 = 0 /\ h0 = mem_start_brk + 8 /\ WORD \in Nat
      /\ mem_max_addr \in Nat /\ mem_start_brk \in Nat /\ mem_start_brk < mem_max_addr
      /\ CHUNKSIZE \in Nat /\ CHUNKSIZE >= 16 /\ mem_max_addr + CHUNKSIZE < WORD
      /\ mem_start_brk % 8 = 0 /\ mem_max_addr % 8 = 0
  BY RegionFacts, SegListAssumption
<1>2. mem_start_brk + 16 < WORD
  BY <1>1
<1>3. h0 + 8 <= mem_max_addr /\ SbrkTo(mem_start_brk, 4 * WSIZE) = h0 + 8
  BY <1>1, <1>2 DEF SbrkOK, SbrkTo, Add32, WSIZE
<1>4. /\ Shape(Bare(8), h0 + 8) /\ Separate(Bare(8)) /\ Allocs(Bare(8)) = {h0}
      /\ Blocks(Bare(8)) = {h0} /\ Bare(8)[h0] = PACK(8, 1)
      /\ Size(Bare(8), h0) = 8 /\ EndOf(Bare(8), h0) = h0 + 8 /\ ~IsFree(Bare(8), h0)
  BY <1>3, BareShape
<1>5. Roomy(Bare(8)) /\ Frees(Bare(8)) = {}
  BY <1>4 DEF Roomy, Frees
<1>6. h0 + 8 + CHUNKSIZE < WORD
  BY <1>1, <1>3
<1> QED BY <1>3, <1>4, <1>5, <1>6, EmptyLists

(* The heap mm_init makes, if the region has room for it: the prologue and *)
(* one free block.                                                         *)
LEMMA FreshShape ==
  ASSUME InitOK
  PROVE  /\ Shape(Fresh, FreshBreak) /\ Separate(Fresh) /\ Roomy(Fresh)
         /\ ListsOf(FreshList, Fresh, Frees(Fresh)) /\ Allocs(Fresh) = {h0}
<1> DEFINE k == h0 + 8
<1>1. /\ Shape(Bare(8), k) /\ Roomy(Bare(8)) /\ Separate(Bare(8)) /\ Allocs(Bare(8)) = {h0}
      /\ ListsOf(NoLists, Bare(8), Frees(Bare(8))) /\ k + CHUNKSIZE < WORD
  BY BareFacts DEF InitOK
<1>2. /\ k \in Nat /\ k % 8 = 0 /\ CHUNKSIZE \in Nat /\ CHUNKSIZE % 8 = 0 /\ CHUNKSIZE >= 16
  BY RegionFacts, SegListAssumption
<1>3. SbrkOK(k, ToInt(CHUNKSIZE)) /\ FreshBreak = k + CHUNKSIZE
  BY DEF InitOK, FreshBreak
<1> HIDE DEF k
<1>4. FreshBreak \in Nat /\ FreshBreak % 8 = 0 /\ k + 8 <= FreshBreak /\ k + 16 <= FreshBreak
      /\ FreshBreak <= mem_max_addr
  <2>1. k + CHUNKSIZE <= mem_max_addr
    BY <1>1, <1>2, <1>3, SbrkFacts
  <2>2. (k + CHUNKSIZE) % 8 = 0
    BY <1>2, AlignedSum
  <2> QED BY <2>1, <2>2, <1>2, <1>3
<1>5. Fresh = Merged(Grow(Bare(8), k, FreshBreak), k)
      /\ FreshList = GrownList(Bare(8), NoLists, k, FreshBreak)
  BY DEF Fresh, FreshList, k
<1> DEFINE T == Bare(8)
           e == FreshBreak
<1> HIDE DEF T, e
<1>6. /\ Shape(Merged(Grow(T, k, e), k), e) /\ Separate(Merged(Grow(T, k, e), k))
      /\ Allocs(Merged(Grow(T, k, e), k)) = Allocs(T)
  BY <1>1, <1>4, GrownShape DEF T, e
<1>7. /\ ListsOf(GrownList(T, NoLists, k, e), Merged(Grow(T, k, e), k),
                 Frees(Merged(Grow(T, k, e), k)))
      /\ Roomy(Merged(Grow(T, k, e), k))
  BY <1>1, <1>4, GrownFacts DEF T, e
<1> QED BY <1>1, <1>5, <1>6, <1>7 DEF T, e

(* What mm_init writes before it asks for the first block. *)
LEMMA PrologueMakes ==
  ASSUME SbrkOK(mem_start_brk, 4 * WSIZE), NEW m, Mem(m), NEW lo, lo = mem_start_brk,
         NEW m2, m2 = PUT(PUT(PUT(PUT(m, lo, 0), lo + 1 * WSIZE, PACK(DSIZE, 1)),
                              lo + 2 * WSIZE, PACK(DSIZE, 1)), lo + 3 * WSIZE, PACK(0, 1))
  PROVE  Tagged(m2, Bare(8), h0 + 8)
<1>1. /\ h0 \in Nat /\ h0 % 8 = 0 /\ h0 = lo + 8 /\ lo \in Nat /\ lo > 0 /\ lo % 8 = 0
      /\ mem_max_addr \in Nat /\ lo < mem_max_addr /\ h0 + 8 <= mem_max_addr
  BY BareFacts, RegionFacts
<1>2. /\ lo \in Addr /\ lo + 4 \in Addr /\ h0 \in Addr /\ h0 + 4 \in Addr
  BY <1>1, AddrFacts
<1>3. /\ m2 = [a \in Addr |-> CASE a = h0 + 4 -> 1 [] a = h0 -> 9
                              [] a = lo + 4 -> 9 [] a = lo -> 0 [] OTHER -> m[a]]
  <2>1. /\ lo + 1 * WSIZE = lo + 4 /\ lo + 2 * WSIZE = h0 /\ lo + 3 * WSIZE = h0 + 4
        /\ PACK(DSIZE, 1) = 9 /\ PACK(0, 1) = 1
    BY <1>1 DEF WSIZE, DSIZE, PACK
  <2>2. m2 = [[[[m EXCEPT ![lo] = 0] EXCEPT ![lo + 4] = 9] EXCEPT ![h0] = 9]
                 EXCEPT ![h0 + 4] = 1]
    BY <2>1 DEF PUT
  <2>3. lo # lo + 4 /\ lo # h0 /\ lo # h0 + 4 /\ lo + 4 # h0 /\ lo + 4 # h0 + 4 /\ h0 # h0 + 4
    BY <1>1
  <2>4. m = [a \in Addr |-> m[a]]
    BY DEF Mem
  <2> QED BY ONLY <2>2, <2>3, <2>4, <1>2
<1>4. Mem(m2) /\ m2[h0 - 4] = PACK(8, 1) /\ m2[h0] = PACK(8, 1) /\ m2[h0 + 4] = PACK(0, 1)
  <2>1. h0 - 4 = lo + 4 /\ h0 - 4 # h0 + 4 /\ h0 - 4 # h0 /\ h0 # h0 + 4
    BY <1>1
  <2>2. PACK(8, 1) = 9 /\ PACK(0, 1) = 1
    BY DEF PACK
  <2>3. m2[h0] = 9 /\ m2[h0 + 4] = 1 /\ m2[lo + 4] = 9
    <3>1. /\ lo + 4 # h0 /\ lo + 4 # h0 + 4 /\ lo # h0 /\ lo # h0 + 4 /\ lo # lo + 4
          /\ h0 # h0 + 4
      BY <1>1
    <3> QED BY ONLY <3>1, <1>2, <1>3
  <2>4. \A a \in Addr : m2[a] \in Nat
    BY <1>3 DEF Mem
  <2>5. m2 = [a \in Addr |-> m2[a]]
    BY <1>3
  <2> QED BY <2>1, <2>2, <2>3, <2>4, <2>5 DEF Mem
<1>5. Blocks(Bare(8)) = {h0} /\ Bare(8)[h0] = PACK(8, 1) /\ EndOf(Bare(8), h0) = h0 + 8
  BY BareFacts
<1>6. (h0 + 8) - 8 = h0 /\ (h0 + 8) - 4 = h0 + 4
  BY <1>1
<1> QED BY <1>4, <1>5, <1>6 DEF Tagged

(* mm_init, over whatever the region holds. *)
LEMMA InitMakes ==
  ASSUME NEW m, Mem(m), NEW st, NEW r,
         r \in mm_init([m |-> m, brk |-> mem_start_brk, st |-> st])
  PROVE  /\ r.p # NULL <=> InitOK
         /\ Mem(r.h.m)
         /\ InitOK => \E m2 : /\ r.h = HeapOf(m2, FreshBreak, FreshList)
                              /\ Tagged(m2, Fresh, FreshBreak) /\ Linked(m2, FreshList)
<1> DEFINE lo == mem_start_brk
           h == [m |-> m, brk |-> lo, st |-> st]
           empty == [g \in Groups |-> NULL]
           m1 == PUT(PUT(PUT(PUT(m, lo, 0), lo + 1 * WSIZE, PACK(DSIZE, 1)),
                         lo + 2 * WSIZE, PACK(DSIZE, 1)), lo + 3 * WSIZE, PACK(0, 1))
           g == [m |-> m1, brk |-> SbrkTo(lo, 4 * WSIZE), st |-> empty]
           T == Bare(8)
           k == h0 + 8
<1>1. /\ h0 \in Nat /\ h0 % 8 = 0 /\ CHUNKSIZE \in Nat /\ CHUNKSIZE % 8 = 0 /\ CHUNKSIZE >= 16
      /\ mem_max_addr \in Nat /\ WORD \in Nat /\ h0 > 0
  BY RegionFacts, SegListAssumption
<1>2. mm_init(h) = IF SbrkOK(lo, 4 * WSIZE) THEN {extend_heap(g, CHUNKSIZE \div WSIZE)}
                   ELSE {[p |-> NULL, h |-> [h EXCEPT !.st = empty]]}
  BY DEF mm_init
<1>3. CASE ~SbrkOK(lo, 4 * WSIZE)
  <2>1. r = [p |-> NULL, h |-> [h EXCEPT !.st = empty]]
    BY <1>2, <1>3
  <2>2. r.p = NULL /\ r.h.m = m
    BY <2>1
  <2> QED BY <2>2, <1>3 DEF InitOK
<1>4. CASE SbrkOK(lo, 4 * WSIZE)
  <2>1. /\ Shape(T, k) /\ Roomy(T) /\ ListsOf(NoLists, T, Frees(T))
        /\ k <= mem_max_addr /\ SbrkTo(lo, 4 * WSIZE) = k /\ k + CHUNKSIZE < WORD
    BY <1>4, BareFacts
  <2>2. k \in Nat /\ k % 8 = 0
    BY <1>1
  <2>3. Tagged(m1, T, k)
    BY <1>4, PrologueMakes
  <2>4. Linked(m1, NoLists) /\ Heads(NoLists) = empty
    BY EmptyLists
  <2> HIDE DEF m1
  <2>5. r = extend_heap(HeapOf(m1, k, NoLists), CHUNKSIZE \div WSIZE)
    <3>1. g = HeapOf(m1, k, NoLists)
      BY <2>1, <2>4 DEF HeapOf
    <3> HIDE DEF g, h, k
    <3>2. mm_init(h) = {extend_heap(g, CHUNKSIZE \div WSIZE)}
      BY <1>2, <1>4
    <3> QED BY <3>1, <3>2 DEF h
  <2>6. FreshBreak = k + CHUNKSIZE
    BY DEF FreshBreak
  <2>7. /\ Fresh = Merged(Grow(T, k, FreshBreak), k)
        /\ FreshList = GrownList(T, NoLists, k, FreshBreak)
    BY DEF Fresh, FreshList
  <2> DEFINE n == CHUNKSIZE
  <2> HIDE DEF T, k, n
  <2>8. /\ n \in Nat /\ n % 8 = 0 /\ n >= 16 /\ k + n < WORD
        /\ Shape(T, k) /\ Roomy(T) /\ Tagged(m1, T, k)
        /\ ListsOf(NoLists, T, Frees(T)) /\ Linked(m1, NoLists)
    BY <1>1, <2>1, <2>3, <2>4 DEF n
  <2>9. CASE ~SbrkOK(k, ToInt(n))
    <3>1. r = [p |-> NULL, h |-> HeapOf(m1, k, NoLists)]
      <4>1. n \in Nat /\ n % 8 = 0 /\ ~SbrkOK(k, ToInt(n))
        BY <2>8, <2>9
      <4>2. extend_heap(HeapOf(m1, k, NoLists), n \div WSIZE)
               = [p |-> NULL, h |-> HeapOf(m1, k, NoLists)]
        BY <4>1, ExtendFails
      <4> QED BY <4>2, <2>5 DEF n
    <3>2. r.p = NULL /\ r.h.m = m1
      BY <3>1, HeapFacts
    <3> QED BY <3>2, <2>3, <2>9 DEF InitOK, Tagged, k, n
  <2>10. CASE SbrkOK(k, ToInt(n))
    <3>1. InitOK
      BY <1>4, <2>10 DEF InitOK, k, n
    <3>2. PICK m2 : /\ r = [p |-> Start(Grow(T, k, FreshBreak), k),
                            h |-> HeapOf(m2, FreshBreak, FreshList)]
                    /\ Tagged(m2, Fresh, FreshBreak) /\ Linked(m2, FreshList)
      <4>1. \E m2 : /\ extend_heap(HeapOf(m1, k, NoLists), n \div WSIZE)
                          = [p |-> Start(Grow(T, k, k + n), k),
                             h |-> HeapOf(m2, k + n, GrownList(T, NoLists, k, k + n))]
                    /\ Tagged(m2, Merged(Grow(T, k, k + n), k), k + n)
                    /\ Linked(m2, GrownList(T, NoLists, k, k + n))
        BY <2>8, <2>10, ExtendMakes
      <4> QED BY <4>1, <2>5, <2>6, <2>7 DEF n
    <3>3. Mem(m2) /\ r.h.m = m2 /\ r.h = HeapOf(m2, FreshBreak, FreshList)
      BY <3>2, HeapFacts DEF Tagged
    <3>4. Start(Grow(T, k, FreshBreak), k) # NULL
      <4>1. FreshBreak \in Nat /\ FreshBreak <= mem_max_addr /\ k + 16 <= FreshBreak
            /\ FreshBreak % 8 = 0
        <5>1. k + n <= mem_max_addr
          BY <1>1, <2>2, <2>8, <2>10, SbrkFacts
        <5> QED BY <5>1, <1>1, <2>2, <2>6, <2>8, AlignedSum DEF n
      <4> DEFINE U == Grow(T, k, FreshBreak)
      <4>2. Shape(U, FreshBreak) /\ k \in Blocks(U) \ {h0}
        BY <4>1, <2>1, GrowFacts
      <4> HIDE DEF U
      <4>3. Start(U, k) \in Blocks(U)
        BY <4>2, StartStop
      <4>4. Start(U, k) \in Nat /\ h0 <= Start(U, k)
        BY <4>2, <4>3, ShapeFacts
      <4> QED BY <4>4, <1>1 DEF NULL, U
    <3>5. r.p # NULL
      BY <3>2, <3>4
    <3> QED BY <3>1, <3>2, <3>3, <3>5
  <2> QED BY <2>9, <2>10
<1> QED BY <1>3, <1>4

-----------------------------------------------------------------------------
(* Best fit in the first group that has one *)

(* The block where Seek stops in the list of the group g, if any. *)
Found(T, L, g, asize) == L[g].at[SeekAt(L[g], T, asize)]

(* The groups that serve asize bytes. *)
Fitting(T, L, asize) == {g \in Groups : g >= Group(asize) /\ Found(T, L, g, asize) # NULL}

Best(T, L, asize) == Found(T, L, FirstOf(Fitting(T, L, asize)), asize)

(* What Seek finds in a group. *)
LEMMA SeekInGroup ==
  ASSUME NEW m, NEW T, NEW k, Shape(T, k), Roomy(T), Tagged(m, T, k),
         NEW L, ListsOf(L, T, Frees(T)), Linked(m, L), NEW asize, NEW g \in Groups
  PROVE  Seek(m, Heads(L)[g], asize).curr = Found(T, L, g, asize)
<1> DEFINE l == L[g]
           G == InGroup(T, Frees(T), g)
           i == SeekAt(l, T, asize)
<1>1. ListOf(l, G) /\ G \subseteq Frees(T)
  BY OneList
<1>2. Chained(m, l)
  BY DEF Linked
<1>3. Heads(L)[g] = FirstIn(l) /\ Found(T, L, g, asize) = l.at[i]
  BY DEF Heads, Found
<1> HIDE DEF l, G
<1>4. Seek(m, FirstIn(l), asize) = [prev |-> l.at[i - 1], curr |-> l.at[i]]
  BY <1>1, <1>2, SeekMakes
<1> QED BY <1>3, <1>4

(* find_fit finds a block, if there is one that it looks for. *)
LEMMA FirstFit ==
  ASSUME NEW m, NEW T, NEW k, Shape(T, k), Roomy(T), Tagged(m, T, k),
         NEW L, ListsOf(L, T, Frees(T)), Linked(m, L), NEW asize
  PROVE  /\ Fitting(T, L, asize) = {} => find_fit(HeapOf(m, k, L), asize) = NULL
         /\ Fitting(T, L, asize) # {} =>
               find_fit(HeapOf(m, k, L), asize) = Best(T, L, asize)
<1> DEFINE h == HeapOf(m, k, L)
           Fit(g) == Seek(h.m, h.st[g], asize).curr
           E == {g \in Groups : g >= Group(asize) /\ Fit(g) # NULL}
           F == Fitting(T, L, asize)
<1>1. find_fit(h, asize) =
         IF E = {} THEN NULL ELSE Fit(CHOOSE g \in E : \A f \in E : g <= f)
  BY DEF find_fit
<1>2. h.m = m /\ h.st = Heads(L)
  BY HeapFacts
<1> HIDE DEF h
<1>3. \A g \in Groups : Fit(g) = Found(T, L, g, asize)
  BY <1>2, SeekInGroup
<1> HIDE DEF Fit
<1>4. E = F
  BY <1>3 DEF Fitting
<1> HIDE DEF E
<1>5. F \in SUBSET Nat /\ F \subseteq Groups
  BY SegListAssumption DEF Fitting, Groups
<1> HIDE DEF F
<1>6. find_fit(h, asize) = IF F = {} THEN NULL ELSE Fit(FirstOf(F))
  BY <1>1, <1>4 DEF FirstOf
<1>7. CASE F = {}
  BY <1>6, <1>7 DEF h, F
<1>8. CASE F # {}
  <2>1. FirstOf(F) \in Groups
    BY <1>5, <1>8, FirstFacts
  <2> QED BY <2>1, <1>3, <1>6, <1>8 DEF h, F, Best
<1> QED BY <1>7, <1>8

(* The block that serves a request of asize bytes is a free block with room. *)
LEMMA FittingFacts ==
  ASSUME NEW T, NEW k, Shape(T, k), Roomy(T), NEW L, ListsOf(L, T, Frees(T)), NEW asize,
         Fitting(T, L, asize) # {}, NEW p, p = Best(T, L, asize)
  PROVE  /\ p \in Frees(T) /\ p \in Blocks(T) \ {h0} /\ IsFree(T, p) /\ asize <= Size(T, p)
<1> DEFINE F == Fitting(T, L, asize)
           g == FirstOf(F)
           l == L[g]
           i == SeekAt(l, T, asize)
<1>1. F \in SUBSET Nat /\ F # {}
  BY SegListAssumption DEF Fitting, Groups
<1>2. g \in F
  <2> HIDE DEF F
  <2> QED BY <1>1, FirstFacts
<1>3. g \in Groups /\ p = l.at[i] /\ p # NULL
  BY <1>2 DEF Fitting, Best, Found
<1> HIDE DEF F, g
<1>4. ListOf(l, InGroup(T, Frees(T), g)) /\ InGroup(T, Frees(T), g) \subseteq Frees(T)
  BY <1>3, OneList
<1> HIDE DEF l
<1>5. l.len \in Nat /\ l.at[l.len + 1] = NULL /\ \A j \in 1 .. l.len : l.at[j] \in Frees(T)
  BY <1>4 DEF ListOf
<1>6. i \in 1 .. l.len + 1 /\ (i = l.len + 1 \/ asize <= Size(T, l.at[i]))
  BY <1>5, SeekFacts
<1> HIDE DEF i
<1>7. i \in 1 .. l.len
  BY <1>3, <1>5, <1>6
<1>8. p \in Frees(T) /\ asize <= Size(T, p)
  BY <1>3, <1>5, <1>6, <1>7
<1> QED BY <1>8, CellBlocks DEF Frees, Inner

-----------------------------------------------------------------------------
(* Serving a request *)

(* The size of the block for a request. *)
Rounded(size) == ALIGN(size + DSIZE)

LEMMA RoundedFacts ==
  ASSUME NEW size \in Nat, size > 0
  PROVE  /\ Rounded(size) \in Nat /\ Rounded(size) % 8 = 0
         /\ Rounded(size) >= 16 /\ Rounded(size) >= size + 8
         /\ Rounded(size) <= size + 16
<1>1. Rounded(size) = 8 * ((size + 15) \div 8)
  <2>1. (size + 8) + 7 = size + 15
    OBVIOUS
  <2> QED BY <2>1 DEF Rounded, ALIGN, DSIZE
<1>2. /\ (size + 15) \div 8 \in Nat /\ 8 * ((size + 15) \div 8) <= size + 15
      /\ 8 * ((size + 15) \div 8) > size + 7 /\ (size + 15) \div 8 >= 2
  OBVIOUS
<1>3. ASSUME NEW q \in Nat PROVE (8 * q) % 8 = 0
  OBVIOUS
<1> QED BY <1>1, <1>2, <1>3

(* What mm_malloc makes of the tags and of the lists: which block it gives, *)
(* and whether.                                                            *)
Asked(size) == MAX(Rounded(size), CHUNKSIZE)

Fits(T, L, size) == Fitting(T, L, Rounded(size)) # {}

Room(T, k, L, size) == size # 0 /\ (Fits(T, L, size) \/ SbrkOK(k, ToInt(Asked(size))))

TagsWith(T, k, L, size) ==
    IF Fits(T, L, size) THEN T ELSE Merged(Grow(T, k, k + Asked(size)), k)

ListWith(T, k, L, size) ==
    IF Fits(T, L, size) THEN L ELSE GrownList(T, L, k, k + Asked(size))

Given(T, k, L, size) ==
    IF Fits(T, L, size) THEN Best(T, L, Rounded(size))
    ELSE Start(Grow(T, k, k + Asked(size)), k)

TagsAfter(T, k, L, size) ==
    Placed(TagsWith(T, k, L, size), Given(T, k, L, size), Rounded(size))

ListAfter(T, k, L, size) ==
    PlacedList(TagsWith(T, k, L, size), ListWith(T, k, L, size), Given(T, k, L, size),
               Rounded(size))

BreakAfter(T, k, L, size) == IF Fits(T, L, size) THEN k ELSE k + Asked(size)

(* How much extend_heap is asked for. *)
LEMMA ExtendBy ==
  ASSUME NEW size \in Sizes, size # 0, NEW k \in Nat, k <= mem_max_addr,
         NEW n, n = Asked(size)
  PROVE  /\ n \in Nat /\ n % 8 = 0 /\ n >= 16 /\ k + n < WORD /\ Rounded(size) <= n
         /\ size \in Nat /\ size > 0
<1>1. /\ size \in Nat /\ size > 0 /\ mem_max_addr + size + 16 < WORD
      /\ CHUNKSIZE \in Nat /\ CHUNKSIZE >= 16 /\ CHUNKSIZE % 8 = 0
      /\ mem_max_addr + CHUNKSIZE < WORD
  BY SegListAssumption
<1>2. /\ Rounded(size) \in Nat /\ Rounded(size) % 8 = 0
      /\ Rounded(size) >= 16 /\ Rounded(size) <= size + 16
  BY <1>1, RoundedFacts
<1>3. WORD \in Nat /\ mem_max_addr \in Nat
  BY RegionFacts
<1> QED BY <1>1, <1>2, <1>3 DEF MAX, Asked

(* The heap in which the block is placed. *)
LEMMA RoomShape ==
  ASSUME NEW T, NEW k, Shape(T, k), Separate(T), Roomy(T), NEW L, ListsOf(L, T, Frees(T)),
         NEW size \in Sizes, Room(T, k, L, size),
         NEW V, V = TagsWith(T, k, L, size), NEW L2, L2 = ListWith(T, k, L, size),
         NEW e, e = BreakAfter(T, k, L, size), NEW p, p = Given(T, k, L, size),
         NEW asize, asize = Rounded(size)
  PROVE  /\ Shape(V, e) /\ Separate(V) /\ Roomy(V) /\ ListsOf(L2, V, Frees(V))
         /\ Allocs(V) = Allocs(T) /\ Keeps(T, V, Allocs(T))
         /\ p \in Frees(V) /\ p \in Blocks(V) \ {h0} /\ IsFree(V, p) /\ asize <= Size(V, p)
         /\ asize \in Nat /\ asize % 8 = 0 /\ asize >= 16 /\ asize >= size + 8
         /\ k <= e /\ size \in Nat /\ size # 0
<1>1. /\ k \in Nat /\ k % 8 = 0 /\ k <= mem_max_addr
  BY ShapeFacts
<1>2. /\ Asked(size) \in Nat /\ Asked(size) % 8 = 0 /\ Asked(size) >= 16
      /\ k + Asked(size) < WORD /\ asize <= Asked(size) /\ size \in Nat /\ size > 0
  BY <1>1, ExtendBy DEF Room
<1>3. asize \in Nat /\ asize % 8 = 0 /\ asize >= 16 /\ asize >= size + 8 /\ size # 0
  BY <1>2, RoundedFacts
<1>4. CASE Fits(T, L, size)
  <2>1. Fitting(T, L, asize) # {} /\ V = T /\ L2 = L /\ e = k
        /\ p = Best(T, L, asize)
    BY <1>4 DEF Fits, TagsWith, ListWith, BreakAfter, Given
  <2>2. p \in Frees(T) /\ p \in Blocks(T) \ {h0} /\ IsFree(T, p) /\ asize <= Size(T, p)
    BY <2>1, FittingFacts
  <2> QED BY <2>1, <2>2, <1>1, <1>2, <1>3 DEF Keeps, Allocs
<1>5. CASE ~Fits(T, L, size)
  <2> DEFINE n == Asked(size)
  <2>1. SbrkOK(k, ToInt(n)) /\ e = k + n /\ p = Start(Grow(T, k, e), k)
        /\ V = Merged(Grow(T, k, e), k) /\ L2 = GrownList(T, L, k, e)
    BY <1>5 DEF Room, BreakAfter, Given, TagsWith, ListWith
  <2> HIDE DEF n
  <2>2. n \in Nat /\ n % 8 = 0 /\ n >= 16 /\ k + n < WORD /\ asize <= n
    BY <1>2 DEF n
  <2>3. e <= mem_max_addr
    BY <2>1, <2>2, <1>1, SbrkFacts
  <2>4. e % 8 = 0
    BY <2>1, <2>2, <1>1, AlignedSum
  <2>5. e \in Nat /\ k + 16 <= e /\ k + 8 <= e /\ e - k = n
    BY <2>1, <2>2, <1>1
  <2>6. /\ Shape(V, e) /\ Separate(V) /\ Allocs(V) = Allocs(T) /\ Keeps(T, V, Allocs(T))
        /\ p \in Blocks(V) \ {h0} /\ IsFree(V, p) /\ e - k <= Size(V, p)
    BY <2>1, <2>3, <2>4, <2>5, GrownShape
  <2>7. ListsOf(L2, V, Frees(V)) /\ Roomy(V)
    BY <2>1, <2>3, <2>4, <2>5, GrownFacts
  <2>8. asize <= Size(V, p)
    <3>1. Size(V, p) \in Nat
      BY <2>6, ShapeFacts
    <3> QED BY <3>1, <2>2, <2>5, <2>6, <1>3
  <2>9. p \in Frees(V)
    BY <2>6 DEF Frees
  <2> QED BY <2>5, <2>6, <2>7, <2>8, <2>9, <1>1, <1>2, <1>3
<1> QED BY <1>4, <1>5

(* The heap after an allocation: one block more is allocated, with room    *)
(* for the payload and its tags.                                           *)
LEMMA ServedShape ==
  ASSUME NEW T, NEW k, Shape(T, k), Separate(T), Roomy(T), NEW L, ListsOf(L, T, Frees(T)),
         NEW size \in Sizes, Room(T, k, L, size),
         NEW U, U = TagsAfter(T, k, L, size), NEW L2, L2 = ListAfter(T, k, L, size),
         NEW e, e = BreakAfter(T, k, L, size), NEW p, p = Given(T, k, L, size)
  PROVE  /\ Shape(U, e) /\ Separate(U) /\ Roomy(U) /\ ListsOf(L2, U, Frees(U))
         /\ p \notin Allocs(T) /\ p # h0
         /\ Allocs(U) = Allocs(T) \cup {p} /\ Keeps(T, U, Allocs(T))
         /\ size \in Nat /\ size > 0 /\ size + 8 <= Size(U, p) /\ p # NULL /\ k <= e
<1> DEFINE V == TagsWith(T, k, L, size)
           L1 == ListWith(T, k, L, size)
           asize == Rounded(size)
<1>1. /\ Shape(V, e) /\ Separate(V) /\ Roomy(V) /\ ListsOf(L1, V, Frees(V))
      /\ Allocs(V) = Allocs(T) /\ Keeps(T, V, Allocs(T))
      /\ p \in Frees(V) /\ p \in Blocks(V) \ {h0} /\ IsFree(V, p) /\ asize <= Size(V, p)
      /\ asize \in Nat /\ asize % 8 = 0 /\ asize >= 16 /\ asize >= size + 8
      /\ k <= e /\ size \in Nat /\ size # 0
  BY RoomShape
<1>2. U = Placed(V, p, asize) /\ L2 = PlacedList(V, L1, p, asize)
  BY DEF TagsAfter, ListAfter
<1> HIDE DEF V, L1, asize
<1>3. /\ Shape(U, e) /\ Separate(U) /\ Allocs(U) = Allocs(V) \cup {p}
      /\ Keeps(V, U, Allocs(V)) /\ asize <= Size(U, p)
  <2>1. asize >= 8
    BY <1>1
  <2> QED BY <2>1, <1>1, <1>2, PlacedShape
<1>4. ListsOf(L2, U, Frees(U)) /\ Roomy(U)
  <2>1. ListsOf(L2, U, Frees(U))
    <3>1. /\ Shape(V, e) /\ Roomy(V) /\ p \in Frees(V) /\ asize \in Nat
          /\ asize % 8 = 0 /\ asize >= 16 /\ asize <= Size(V, p)
          /\ U = Placed(V, p, asize) /\ ListsOf(L1, V, Frees(V))
      BY <1>1, <1>2
    <3>2. ListsOf(PlacedList(V, L1, p, asize), U, Frees(U))
      BY ONLY <3>1, PlacedLists
    <3> QED BY <3>2, <1>2
  <2>2. Roomy(U)
    BY <1>1, <1>2, PlacedTags
  <2> QED BY <2>1, <2>2
<1>5. Keeps(T, U, Allocs(T))
  BY <1>1, <1>3 DEF Keeps
<1>6. p \notin Allocs(T)
  BY <1>1 DEF Allocs
<1>7. p # NULL
  <2>1. p \in Nat /\ h0 <= p
    BY <1>1, ShapeFacts
  <2> QED BY <2>1, RegionFacts DEF NULL
<1>8. size + 8 <= Size(U, p)
  <2>1. p \in Blocks(U)
    BY <1>3 DEF Allocs
  <2>2. Size(U, p) \in Nat
    BY <2>1, <1>3, ShapeFacts
  <2> QED BY <2>2, <1>1, <1>3
<1> QED BY <1>1, <1>3, <1>4, <1>5, <1>6, <1>7, <1>8

(* Links are in payloads. *)
LEMMA DataLinks ==
  ASSUME NEW T, NEW k, Shape(T, k), Roomy(T), NEW m, NEW m2,
         NEW A, Inner(T, A), SameData(m, m2, T, A)
  PROVE  SameLinks(m, m2, A)
<1> SUFFICES ASSUME NEW b \in A PROVE m2[b] = m[b] /\ m2[b + 4] = m[b + 4]
  BY DEF SameLinks
<1>1. b \in Nat /\ EndOf(T, b) \in Nat /\ b + 16 <= EndOf(T, b) /\ b \in Addr /\ b + 4 \in Addr
  BY CellBlocks DEF Cell, Inner
<1>2. b \in Payload(T, b) /\ b + 4 \in Payload(T, b)
  BY <1>1 DEF Payload
<1> QED BY <1>2 DEF SameData

(* So what changes one allocated payload leaves the lists alone. *)
LEMMA LinkedStays ==
  ASSUME NEW T, NEW k, Shape(T, k), Roomy(T), NEW L, ListsOf(L, T, Frees(T)),
         NEW m, Linked(m, L), NEW p \in Owned(T), NEW m2, SameData(m, m2, T, Blocks(T) \ {p})
  PROVE  Linked(m2, L)
<1> DEFINE A == Frees(T)
<1>1. Inner(T, A) /\ A \subseteq Blocks(T) \ {p}
  <2>1. Inner(T, A)
    BY CellBlocks
  <2> QED BY <2>1 DEF Frees, Owned, Allocs
<1> HIDE DEF A
<1>2. SameData(m, m2, T, A)
  BY <1>1, DataSome
<1>3. SameLinks(m, m2, A)
  BY <1>1, <1>2, DataLinks
<1> QED BY <1>3, KeepLists DEF A

(* mm_malloc without room. *)
LEMMA MallocFails ==
  ASSUME NEW m, NEW T, NEW k, Shape(T, k), Roomy(T), Tagged(m, T, k),
         NEW L, ListsOf(L, T, Frees(T)), Linked(m, L), NEW size \in Sizes, ~Room(T, k, L, size)
  PROVE  Malloc(HeapOf(m, k, L), size) = [p |-> NULL, h |-> HeapOf(m, k, L)]
<1> DEFINE h == HeapOf(m, k, L)
           asize == Rounded(size)
           n == Asked(size)
           bp == find_fit(h, asize)
           x == extend_heap(h, n \div WSIZE)
<1>1. CASE size = 0
  BY <1>1 DEF Malloc
<1>2. CASE size # 0
  <2>1. k \in Nat /\ k <= mem_max_addr
    BY ShapeFacts
  <2>2. n \in Nat /\ n % 8 = 0 /\ size \in Nat /\ size > 0
    BY <2>1, <1>2, ExtendBy
  <2>3. asize \in Nat
    BY <2>2, RoundedFacts
  <2>4. Fitting(T, L, asize) = {} /\ ~SbrkOK(k, ToInt(n))
    BY <1>2 DEF Room, Fits
  <2> HIDE DEF asize, n
  <2>5. bp = NULL
    BY <2>3, <2>4, FirstFit
  <2>6. x = [p |-> NULL, h |-> h]
    BY <2>2, <2>4, ExtendFails
  <2> HIDE DEF h
  <2>7. Malloc(h, size) = x
    <3>1. find_fit(h, ALIGN(size + DSIZE)) = NULL
      BY <2>5 DEF asize, Rounded
    <3>2. extend_heap(h, MAX(ALIGN(size + DSIZE), CHUNKSIZE) \div WSIZE).p = NULL
      BY <2>6 DEF n, Asked, Rounded
    <3> QED BY <3>1, <3>2, <1>2 DEF Malloc, n, Asked, Rounded
  <2> QED BY <2>6, <2>7 DEF h
<1> QED BY <1>1, <1>2

(* mm_malloc with room: the heap in which the block is placed... *)
LEMMA MallocFinds ==
  ASSUME NEW m, NEW T, NEW k, Shape(T, k), Roomy(T), Separate(T), Tagged(m, T, k),
         NEW L, ListsOf(L, T, Frees(T)), Linked(m, L), NEW size \in Sizes, Room(T, k, L, size),
         NEW p, p = Given(T, k, L, size), NEW e, e = BreakAfter(T, k, L, size),
         NEW V, V = TagsWith(T, k, L, size), NEW L2, L2 = ListWith(T, k, L, size),
         NEW asize, asize = Rounded(size)
  PROVE  \E m1 : /\ Malloc(HeapOf(m, k, L), size)
                       = [p |-> p, h |-> place(HeapOf(m1, e, L2), p, asize)]
                 /\ Tagged(m1, V, e) /\ Linked(m1, L2) /\ SameData(m, m1, T, Owned(T))
<1> DEFINE h == HeapOf(m, k, L)
           n == Asked(size)
           bp == find_fit(h, asize)
           x == extend_heap(h, n \div WSIZE)
<1>1. k \in Nat /\ k <= mem_max_addr /\ size # 0
  BY ShapeFacts DEF Room
<1>2. n \in Nat /\ n % 8 = 0 /\ n >= 16 /\ k + n < WORD /\ size \in Nat /\ size > 0
  BY <1>1, ExtendBy
<1>3. asize \in Nat
  BY <1>2, RoundedFacts
<1>4. p # NULL
  <2>1. p \in Blocks(V) /\ Shape(V, e)
    BY RoomShape
  <2>2. p \in Nat /\ h0 <= p
    BY <2>1, ShapeFacts
  <2> QED BY <2>2, RegionFacts DEF NULL
<1>5. Malloc(h, size) =
         IF bp # NULL THEN [p |-> bp, h |-> place(h, bp, asize)]
         ELSE IF x.p # NULL THEN [p |-> x.p, h |-> place(x.h, x.p, asize)]
         ELSE x
  <2> HIDE DEF h
  <2> QED BY <1>1 DEF Malloc, Asked, Rounded
<1>6. CASE Fits(T, L, size)
  <2>1. bp = p
    BY <1>3, <1>6, FirstFit DEF Fits, Given
  <2>2. e = k /\ V = T /\ L2 = L
    BY <1>6 DEF BreakAfter, TagsWith, ListWith
  <2>3. SameData(m, m, T, Owned(T))
    BY DEF SameData
  <2> HIDE DEF bp, x
  <2>4. Malloc(h, size) = [p |-> p, h |-> place(HeapOf(m, e, L2), p, asize)]
    BY <2>1, <2>2, <1>4, <1>5
  <2> QED BY <2>2, <2>3, <2>4
<1>7. CASE ~Fits(T, L, size)
  <2>1. bp = NULL /\ SbrkOK(k, ToInt(n))
    BY <1>3, <1>7, FirstFit DEF Fits, Room
  <2>2. \E m1 : /\ x = [p |-> Start(Grow(T, k, k + n), k),
                        h |-> HeapOf(m1, k + n, GrownList(T, L, k, k + n))]
                /\ Tagged(m1, Merged(Grow(T, k, k + n), k), k + n)
                /\ Linked(m1, GrownList(T, L, k, k + n))
                /\ SameData(m, m1, T, Owned(T))
    <3> HIDE DEF n
    <3> QED BY <2>1, <1>2, ExtendMakes
  <2>3. p = Start(Grow(T, k, k + n), k) /\ e = k + n
        /\ V = Merged(Grow(T, k, k + n), k) /\ L2 = GrownList(T, L, k, k + n)
    BY <1>7 DEF Given, BreakAfter, TagsWith, ListWith
  <2> HIDE DEF bp, x, n
  <2>4. PICK m1 : /\ x = [p |-> p, h |-> HeapOf(m1, e, L2)]
                  /\ Tagged(m1, V, e) /\ Linked(m1, L2) /\ SameData(m, m1, T, Owned(T))
    BY <2>2, <2>3
  <2>5. x.p = p /\ x.h = HeapOf(m1, e, L2)
    BY <2>4
  <2>6. Malloc(h, size) = [p |-> p, h |-> place(HeapOf(m1, e, L2), p, asize)]
    BY <2>1, <2>5, <1>4, <1>5
  <2> QED BY <2>4, <2>6
<1> QED BY <1>6, <1>7

(* ...and the heap it leaves, every payload as before.                     *)
LEMMA MallocMakes ==
  ASSUME NEW m, NEW T, NEW k, Shape(T, k), Roomy(T), Separate(T), Tagged(m, T, k),
         NEW L, ListsOf(L, T, Frees(T)), Linked(m, L), NEW size \in Sizes, Room(T, k, L, size),
         NEW p, p = Given(T, k, L, size), NEW e, e = BreakAfter(T, k, L, size),
         NEW U, U = TagsAfter(T, k, L, size), NEW L2, L2 = ListAfter(T, k, L, size)
  PROVE  \E m2 : /\ Malloc(HeapOf(m, k, L), size) = [p |-> p, h |-> HeapOf(m2, e, L2)]
                 /\ Tagged(m2, U, e) /\ Linked(m2, L2) /\ SameData(m, m2, T, Owned(T))
<1> DEFINE V == TagsWith(T, k, L, size)
           L1 == ListWith(T, k, L, size)
           asize == Rounded(size)
<1>1. /\ Shape(V, e) /\ Roomy(V) /\ ListsOf(L1, V, Frees(V))
      /\ Allocs(V) = Allocs(T) /\ Keeps(T, V, Allocs(T))
      /\ p \in Frees(V) /\ asize <= Size(V, p)
      /\ asize \in Nat /\ asize % 8 = 0 /\ asize >= 16
  BY RoomShape
<1>2. U = Placed(V, p, asize) /\ L2 = PlacedList(V, L1, p, asize)
  BY DEF TagsAfter, ListAfter
<1>3. PICK m1 : /\ Malloc(HeapOf(m, k, L), size)
                     = [p |-> p, h |-> place(HeapOf(m1, e, L1), p, asize)]
                /\ Tagged(m1, V, e) /\ Linked(m1, L1) /\ SameData(m, m1, T, Owned(T))
  BY MallocFinds
<1> HIDE DEF V, L1, asize
<1>4. PICK m2 : /\ place(HeapOf(m1, e, L1), p, asize) = HeapOf(m2, e, L2)
                /\ Tagged(m2, U, e) /\ Linked(m2, L2) /\ SameData(m1, m2, V, Owned(V))
  BY <1>1, <1>2, <1>3, PlaceMakes
<1>5. SameData(m1, m2, T, Owned(T))
  <2>1. Owned(T) = Owned(V) /\ Keeps(T, V, Owned(T))
    BY <1>1 DEF Owned, Keeps
  <2> DEFINE A == Owned(T)
  <2>2. Keeps(T, V, A) /\ SameData(m1, m2, V, A)
    BY <2>1, <1>4
  <2> HIDE DEF A
  <2>3. SameData(m1, m2, T, A)
    BY <2>2, DataVia
  <2> QED BY <2>3 DEF A
<1>6. SameData(m, m2, T, Owned(T))
  BY <1>3, <1>5, DataTrans
<1> QED BY <1>3, <1>4, <1>6

-----------------------------------------------------------------------------
(* The contract of DriverProofs                                            *)
(*                                                                         *)
(* A heap is described by its tags, its break and its lists.               *)

InOrder(c) ==
    /\ Shape(c.tags, c.brk) /\ Separate(c.tags) /\ Roomy(c.tags)
    /\ ListsOf(c.lists, c.tags, Frees(c.tags))

Holds(c, m) == Tagged(m, c.tags, c.brk) /\ Linked(m, c.lists)

BreakIn(c) == c.brk

StaticIn(c) == Heads(c.lists)

PayloadsIn(c) == Owned(c.tags)

CapacityIn(c, p) == Size(c.tags, p) - 8

FreshHeap == [tags |-> Fresh, brk |-> FreshBreak, lists |-> FreshList]

RoomFor(c, size) == Room(c.tags, c.brk, c.lists, size)

GivenIn(c, size) == Given(c.tags, c.brk, c.lists, size)

HeapAfterMalloc(c, size) ==
    [tags  |-> TagsAfter(c.tags, c.brk, c.lists, size),
     brk   |-> BreakAfter(c.tags, c.brk, c.lists, size),
     lists |-> ListAfter(c.tags, c.brk, c.lists, size)]

HeapAfterFree(c, p) ==
    [tags |-> Freed(c.tags, p), brk |-> c.brk, lists |-> FreedList(c.tags, c.lists, p)]

K == INSTANCE DriverProofs
     WITH Sound <- InOrder, Holds <- Holds, Break <- BreakIn, Statics <- StaticIn,
          Payloads <- PayloadsIn, Capacity <- CapacityIn, CanStart <- InitOK,
          Fresh <- FreshHeap, Room <- RoomFor, Given <- GivenIn,
          Allocated <- HeapAfterMalloc, Released <- HeapAfterFree

(* The contract's names for the parts of a heap. *)
LEMMA ContractFacts ==
  /\ K!NULL = NULL
  /\ \A p, n : K!Words(p, n) = Words(p, n)
  /\ \A m : K!Mem(m) <=> Mem(m)
  /\ \A m, c : K!HeapOf(m, c) = HeapOf(m, c.brk, c.lists)
  /\ K!Addr = Addr
<1>1. K!Addr = Addr
  BY DEF Addr, K!Addr, mem_max_addr, K!mem_max_addr, WSIZE, K!WSIZE
<1>2. \A p, n : K!Words(p, n) = Words(p, n)
  BY <1>1 DEF Words, K!Words
<1>3. \A m, c : K!HeapOf(m, c) = HeapOf(m, c.brk, c.lists)
  BY DEF K!HeapOf, HeapOf, BreakIn, StaticIn
<1> QED BY <1>1, <1>2, <1>3 DEF K!NULL, NULL, K!Mem, Mem

(* The payload of an allocated block. *)
LEMMA PayloadFacts ==
  ASSUME NEW c, InOrder(c), NEW p \in PayloadsIn(c)
  PROVE  /\ p \in Nat /\ Size(c.tags, p) \in Nat /\ Size(c.tags, p) >= 8
         /\ CapacityIn(c, p) \in Nat
         /\ K!PayloadOf(c, p) = Payload(c.tags, p)
<1>1. p \in Blocks(c.tags)
  BY DEF PayloadsIn, Owned, Allocs
<1>2. /\ p \in Nat /\ Size(c.tags, p) \in Nat /\ EndOf(c.tags, p) = p + Size(c.tags, p)
      /\ Size(c.tags, p) >= 8
  BY <1>1, ShapeFacts DEF InOrder
<1>3. CapacityIn(c, p) \in Nat
  BY <1>2 DEF CapacityIn
<1>4. \A a \in Addr : a < p + CapacityIn(c, p) <=> a < EndOf(c.tags, p) - 8
  BY <1>2, RegionFacts DEF CapacityIn
<1>5. K!PayloadOf(c, p) = Words(p, CapacityIn(c, p))
  BY ContractFacts DEF K!PayloadOf
<1> QED BY <1>2, <1>3, <1>4, <1>5 DEF Words, Payload

(* The payloads that keep their tags keep their capacity, and what is      *)
(* left of the data is what the contract calls kept.                       *)
LEMMA KeptFacts ==
  ASSUME NEW c, InOrder(c), NEW A, A \subseteq PayloadsIn(c)
  PROVE  /\ \A m, m2 : SameData(m, m2, c.tags, A) => K!Kept(c, A, m, m2)
         /\ \A c2 : Keeps(c.tags, c2.tags, A) => K!Steady(c, A, c2)
<1>1. ASSUME NEW m, NEW m2, SameData(m, m2, c.tags, A)
      PROVE  K!Kept(c, A, m, m2)
  BY <1>1, PayloadFacts DEF SameData, K!Kept
<1>2. ASSUME NEW c2, Keeps(c.tags, c2.tags, A), NEW p \in A
      PROVE  p \in PayloadsIn(c2) /\ CapacityIn(c2, p) = CapacityIn(c, p)
  <2>1. p \in Blocks(c2.tags) /\ c2.tags[p] = c.tags[p] /\ ~IsFree(c.tags, p) /\ p # h0
    BY <1>2 DEF Keeps, PayloadsIn, Owned, Allocs
  <2> QED BY <2>1 DEF PayloadsIn, Owned, Allocs, IsFree, CapacityIn, Size
<1> QED BY <1>1, <1>2 DEF K!Steady

(* The blocks of a heap are aligned, in the heap and apart. *)
LEMMA HeapKept == K!HeapContract
<1> SUFFICES ASSUME NEW c, InOrder(c)
             PROVE  /\ BreakIn(c) \in Nat /\ mem_start_brk <= BreakIn(c)
                    /\ \A p \in PayloadsIn(c) : K!Placed(c, p)
                    /\ \A p, q \in PayloadsIn(c) : p # q => K!Apart(c, p, q)
  BY DEF K!HeapContract
<1>1. /\ c.brk \in Nat /\ h0 + 8 <= c.brk /\ h0 = mem_start_brk + 8
      /\ \A b \in Blocks(c.tags) :
            /\ b \in Nat /\ b % 8 = 0 /\ h0 <= b /\ EndOf(c.tags, b) \in Nat
            /\ EndOf(c.tags, b) = b + Size(c.tags, b) /\ EndOf(c.tags, b) <= c.brk
            /\ Size(c.tags, b) \in Nat
  BY ShapeFacts DEF InOrder, h0, DSIZE
<1>2. BreakIn(c) \in Nat /\ mem_start_brk <= BreakIn(c)
  BY <1>1, RegionFacts DEF BreakIn
<1>3. ASSUME NEW p \in PayloadsIn(c) PROVE K!Placed(c, p)
  <2>1. p \in Blocks(c.tags) /\ CapacityIn(c, p) \in Nat
    BY PayloadFacts DEF PayloadsIn, Owned, Allocs
  <2>2. p + CapacityIn(c, p) <= c.brk /\ mem_start_brk <= p
    BY <2>1, <1>1, RegionFacts DEF CapacityIn
  <2> QED BY <2>1, <2>2, <1>1 DEF K!Placed, BreakIn
<1>4. ASSUME NEW p \in PayloadsIn(c), NEW q \in PayloadsIn(c), p # q
      PROVE  K!Apart(c, p, q)
  <2>1. p \in Blocks(c.tags) /\ q \in Blocks(c.tags)
    BY DEF PayloadsIn, Owned, Allocs
  <2>2. EndOf(c.tags, p) <= q \/ EndOf(c.tags, q) <= p
    BY <2>1, <1>4, Sides DEF InOrder
  <2>3. p + (Size(c.tags, p) - 8) <= q \/ q + (Size(c.tags, q) - 8) <= p
    BY <2>1, <2>2, <1>1
  <2> QED BY <2>3 DEF K!Apart, CapacityIn
<1> QED BY <1>2, <1>3, <1>4

(* Payloads hold no tags. *)
LEMMA WriteKept == K!WriteContract
<1> SUFFICES ASSUME NEW c, NEW m, InOrder(c), Holds(c, m)
             PROVE  /\ K!Mem(m)
                    /\ \A p \in PayloadsIn(c) : \A m2 :
                          K!Mem(m2) /\ (\A a \in K!Addr \ K!PayloadOf(c, p) : m2[a] = m[a])
                             => Holds(c, m2)
  BY DEF K!WriteContract
<1>1. K!Mem(m)
  BY ContractFacts DEF Holds, Tagged
<1>2. ASSUME NEW p \in PayloadsIn(c), NEW m2, K!Mem(m2),
             \A a \in K!Addr \ K!PayloadOf(c, p) : m2[a] = m[a]
      PROVE  Holds(c, m2)
  <2>1. p \in Blocks(c.tags) /\ Mem(m2)
    BY <1>2, ContractFacts DEF PayloadsIn, Owned, Allocs
  <2>2. \A a \in Addr : a \notin Payload(c.tags, p) => m2[a] = m[a]
    BY <1>2, ContractFacts, PayloadFacts
  <2>3. Tagged(m2, c.tags, c.brk) /\ SameData(m, m2, c.tags, Blocks(c.tags) \ {p})
    BY <2>1, <2>2, WriteData DEF InOrder, Holds
  <2>4. p \in Owned(c.tags)
    BY DEF PayloadsIn
  <2>5. Linked(m2, c.lists)
    BY <2>3, <2>4, LinkedStays DEF InOrder, Holds
  <2> QED BY <2>3, <2>5 DEF Holds
<1> QED BY <1>1, <1>2

(* mm_init. *)
LEMMA InitKept == K!InitContract
<1>1. InitOK => InOrder(FreshHeap)
  BY FreshShape DEF InOrder, FreshHeap
<1>2. ASSUME NEW m, NEW st, K!Mem(m), NEW r,
             r \in mm_init([m |-> m, brk |-> mem_start_brk, st |-> st])
      PROVE  /\ K!Mem(r.h.m) /\ (r.p # K!NULL <=> InitOK)
             /\ InitOK => \E m2 : r.h = K!HeapOf(m2, FreshHeap) /\ Holds(FreshHeap, m2)
  <2>1. Mem(m)
    BY <1>2, ContractFacts
  <2>2. /\ r.p # NULL <=> InitOK
        /\ Mem(r.h.m)
    BY <2>1, <1>2, InitMakes
  <2>3. ASSUME InitOK
        PROVE  \E m2 : r.h = K!HeapOf(m2, FreshHeap) /\ Holds(FreshHeap, m2)
    <3>1. PICK m2 : /\ r.h = HeapOf(m2, FreshBreak, FreshList)
                    /\ Tagged(m2, Fresh, FreshBreak) /\ Linked(m2, FreshList)
      BY <2>1, <2>3, <1>2, InitMakes
    <3>2. FreshHeap.tags = Fresh /\ FreshHeap.brk = FreshBreak /\ FreshHeap.lists = FreshList
      BY DEF FreshHeap
    <3>3. r.h = K!HeapOf(m2, FreshHeap) /\ Holds(FreshHeap, m2)
      BY <3>1, <3>2, ContractFacts DEF Holds
    <3> QED BY <3>3
  <2> QED BY <2>2, <2>3, ContractFacts
<1> QED BY <1>1, <1>2 DEF K!InitContract

(* mm_malloc. *)
LEMMA MallocKept == K!MallocContract
<1> SUFFICES ASSUME NEW c, InOrder(c), NEW size \in Sizes
             PROVE  /\ RoomFor(c, size) =>
                         K!Adds(c, size, GivenIn(c, size), HeapAfterMalloc(c, size))
                    /\ \A m : Holds(c, m) =>
                          \A r \in mm_malloc(K!HeapOf(m, c), size) :
                             IF RoomFor(c, size) THEN K!Serves(c, size, m, r)
                                                 ELSE K!Refuses(r)
  BY DEF K!MallocContract
<1> DEFINE T == c.tags
           k == c.brk
           L == c.lists
           c2 == HeapAfterMalloc(c, size)
           U == TagsAfter(T, k, L, size)
           e == BreakAfter(T, k, L, size)
           L2 == ListAfter(T, k, L, size)
           p == Given(T, k, L, size)
<1>1. Shape(T, k) /\ Separate(T) /\ Roomy(T) /\ ListsOf(L, T, Frees(T))
  BY DEF InOrder
<1>2. /\ c2.tags = U /\ c2.brk = e /\ c2.lists = L2 /\ GivenIn(c, size) = p
      /\ (RoomFor(c, size) <=> Room(T, k, L, size))
  BY DEF HeapAfterMalloc, GivenIn, RoomFor
<1>3. PayloadsIn(c) = Owned(T) /\ PayloadsIn(c2) = Owned(c2.tags)
  BY DEF PayloadsIn
<1>4. ASSUME Room(T, k, L, size)
      PROVE  K!Adds(c, size, p, c2)
  <2>1. /\ Shape(U, e) /\ Separate(U) /\ Roomy(U) /\ ListsOf(L2, U, Frees(U))
        /\ p \notin Allocs(T) /\ p # h0
        /\ Allocs(U) = Allocs(T) \cup {p} /\ Keeps(T, U, Allocs(T))
        /\ size \in Nat /\ size > 0 /\ size + 8 <= Size(U, p) /\ p # NULL /\ k <= e
    BY <1>1, <1>4, ServedShape
  <2> HIDE DEF T, k, L, c2, U, e, L2, p
  <2>2. InOrder(c2) /\ BreakIn(c) <= BreakIn(c2)
    BY <2>1, <1>2 DEF InOrder, BreakIn, k
  <2>3. p \notin PayloadsIn(c) /\ PayloadsIn(c2) = PayloadsIn(c) \cup {p}
    BY <2>1, <1>2, <1>3 DEF Owned
  <2>4. p \in PayloadsIn(c2)
    BY <2>3
  <2>5. size <= CapacityIn(c2, p)
    <3>1. Size(c2.tags, p) \in Nat /\ size + 8 <= Size(c2.tags, p)
      BY <2>1, <2>2, <2>4, <1>2, PayloadFacts
    <3> QED BY <3>1, <2>1 DEF CapacityIn
  <2>6. K!Steady(c, PayloadsIn(c), c2)
    <3>1. Keeps(c.tags, c2.tags, PayloadsIn(c))
      BY <2>1, <1>2, <1>3 DEF Keeps, Owned, T
    <3> QED BY <3>1, KeptFacts
  <2> QED BY <2>1, <2>2, <2>3, <2>5, <2>6, ContractFacts DEF K!Adds
<1>5. ASSUME NEW m, Holds(c, m), NEW r \in mm_malloc(K!HeapOf(m, c), size)
      PROVE  IF Room(T, k, L, size) THEN K!Serves(c, size, m, r) ELSE K!Refuses(r)
  <2>1. Tagged(m, T, k) /\ Linked(m, L) /\ Mem(m)
    BY <1>5 DEF Holds, Tagged
  <2>2. r = Malloc(HeapOf(m, k, L), size)
    BY <1>5, ContractFacts DEF mm_malloc
  <2>3. CASE Room(T, k, L, size)
    <3>1. PICK m2 : /\ Malloc(HeapOf(m, k, L), size) = [p |-> p, h |-> HeapOf(m2, e, L2)]
                    /\ Tagged(m2, U, e) /\ Linked(m2, L2) /\ SameData(m, m2, T, Owned(T))
      BY <1>1, <2>1, <2>3, MallocMakes
    <3> HIDE DEF T, k, L, c2, U, e, L2, p
    <3>2. r = [p |-> GivenIn(c, size), h |-> K!HeapOf(m2, c2)] /\ Holds(c2, m2)
      BY <3>1, <2>2, <1>2, ContractFacts DEF Holds
    <3>3. K!Kept(c, PayloadsIn(c), m, m2)
      <4>1. SameData(m, m2, c.tags, PayloadsIn(c))
        BY <3>1, <1>3 DEF T
      <4> QED BY <4>1, KeptFacts
    <3> QED BY <3>2, <3>3, <2>3 DEF K!Serves, c2
  <2>4. CASE ~Room(T, k, L, size)
    <3>1. r = [p |-> NULL, h |-> HeapOf(m, k, L)]
      BY <1>1, <2>1, <2>2, <2>4, MallocFails
    <3> HIDE DEF T, k, L
    <3>2. r.p = NULL /\ r.h.m = m
      BY <3>1, HeapFacts
    <3> QED BY <3>2, <2>1, <2>4, ContractFacts DEF K!Refuses
  <2> QED BY <2>3, <2>4
<1> QED BY <1>2, <1>4, <1>5

(* mm_free. *)
LEMMA FreeKept == K!FreeContract
<1> SUFFICES ASSUME NEW c, InOrder(c), NEW p \in PayloadsIn(c)
             PROVE  /\ K!Removes(c, p, HeapAfterFree(c, p))
                    /\ \A m : Holds(c, m) =>
                          \A r \in mm_free(K!HeapOf(m, c), p) : K!Frees(c, p, m, r)
  BY DEF K!FreeContract
<1> DEFINE T == c.tags
           k == c.brk
           L == c.lists
           c2 == HeapAfterFree(c, p)
           A == Owned(T) \ {p}
           L2 == FreedList(T, L, p)
<1>1. /\ Shape(T, k) /\ Separate(T) /\ Roomy(T) /\ ListsOf(L, T, Frees(T))
      /\ p \in Owned(T) /\ p \in Blocks(T) \ {h0} /\ ~IsFree(T, p)
  BY DEF InOrder, PayloadsIn, Owned, Allocs
<1>2. c2.tags = Freed(T, p) /\ c2.brk = k /\ c2.lists = L2
  BY DEF HeapAfterFree
<1>3. PayloadsIn(c) \ {p} = A /\ PayloadsIn(c) \ {p} \subseteq PayloadsIn(c)
  BY DEF PayloadsIn
<1>4. K!Removes(c, p, c2)
  <2>1. /\ Shape(Freed(T, p), k) /\ Separate(Freed(T, p))
        /\ Allocs(Freed(T, p)) = Allocs(T) \ {p} /\ Keeps(T, Freed(T, p), Allocs(T) \ {p})
    BY <1>1, FreedShape
  <2>2. ListsOf(L2, Freed(T, p), Frees(Freed(T, p))) /\ Roomy(Freed(T, p))
    BY <1>1, FreedFacts
  <2>3. k \in Nat
    BY <1>1, ShapeFacts
  <2> HIDE DEF T, k, L, c2, A, L2
  <2>4. InOrder(c2) /\ BreakIn(c) <= BreakIn(c2)
    BY <2>1, <2>2, <2>3, <1>2 DEF InOrder, BreakIn, k
  <2>5. PayloadsIn(c2) = PayloadsIn(c) \ {p}
    BY <2>1, <1>2 DEF PayloadsIn, Owned, A, T
  <2>6. K!Steady(c, PayloadsIn(c) \ {p}, c2)
    <3>1. Keeps(c.tags, c2.tags, PayloadsIn(c) \ {p})
      BY <2>1, <1>2, <1>3 DEF Keeps, T, A, Owned
    <3> QED BY <3>1, <1>3, KeptFacts
  <2> QED BY <2>4, <2>5, <2>6 DEF K!Removes
<1>5. ASSUME NEW m, Holds(c, m), NEW r \in mm_free(K!HeapOf(m, c), p)
      PROVE  K!Frees(c, p, m, r)
  <2>1. Tagged(m, T, k) /\ Linked(m, L)
    BY <1>5 DEF Holds
  <2>2. PICK m2 : /\ Release(HeapOf(m, k, L), p) = HeapOf(m2, k, L2)
                  /\ Tagged(m2, Freed(T, p), k) /\ Linked(m2, L2) /\ SameData(m, m2, T, A)
    BY <1>1, <2>1, FreeMakes
  <2>3. r.h = HeapOf(m2, k, L2)
    BY <1>5, <2>2, ContractFacts DEF mm_free
  <2> HIDE DEF T, k, L, c2, A, L2
  <2>4. r.h = K!HeapOf(m2, c2) /\ Holds(c2, m2)
    BY <2>2, <2>3, <1>2, ContractFacts DEF Holds
  <2>5. K!Kept(c, PayloadsIn(c) \ {p}, m, m2)
    <3>1. SameData(m, m2, c.tags, PayloadsIn(c) \ {p})
      BY <2>2, <1>3 DEF T
    <3> QED BY <3>1, <1>3, KeptFacts
  <2> QED BY <2>4, <2>5 DEF K!Frees, c2
<1> QED BY <1>4, <1>5

(* Without reallocations in the trace, segregated_list-85.c keeps the contract. *)
LEMMA ContractKept ==
  ASSUME "r" \notin Types
  PROVE  K!Contract
<1>1. K!TraceContract
  BY SegListAssumption DEF K!TraceContract
<1>2. K!ReallocContract
  BY DEF K!ReallocContract
<1> QED BY <1>1, <1>2, HeapKept, WriteKept, InitKept, MallocKept, FreeKept DEF K!Contract

-----------------------------------------------------------------------------
(* The theorems *)

(* DriverProofs is about the same driver. *)
LEMMA SameDriver ==
  /\ D!Init <=> K!Init
  /\ D!Next <=> K!Next
  /\ D!dvars = K!dvars
<1>1. D!Init <=> K!Init
  BY DEF D!Init, K!Init, D!NoReport, K!NoReport, D!NoBlocks, K!NoBlocks, D!NULL, K!NULL,
         D!Addr, K!Addr, D!mem_max_addr, K!mem_max_addr, D!WSIZE, K!WSIZE
<1>2. D!dvars = K!dvars
  BY DEF D!dvars, K!dvars
<1>3. D!Next <=> K!Next
  <2>1. D!StartValid <=> K!StartValid
    BY DEF D!StartValid, K!StartValid, D!Heap, K!Heap, D!SetHeap, K!SetHeap, D!NoReport,
           K!NoReport, D!NoBlocks, K!NoBlocks, D!NULL, K!NULL
  <2>2. D!StartUtil <=> K!StartUtil
    BY DEF D!StartUtil, K!StartUtil, D!Start, K!Start, D!Heap, K!Heap, D!SetHeap, K!SetHeap,
           D!NoBlocks, K!NoBlocks, D!NULL, K!NULL
  <2>3. D!StartSpeed <=> K!StartSpeed
    BY DEF D!StartSpeed, K!StartSpeed, D!Start, K!Start, D!Heap, K!Heap, D!SetHeap, K!SetHeap,
           D!NoBlocks, K!NoBlocks, D!NULL, K!NULL
  <2>4. \A op : D!ValidObtain(op) <=> K!ValidObtain(op)
    BY DEF D!ValidObtain, K!ValidObtain, D!ValidRequest, K!ValidRequest, D!Judge, K!Judge,
           D!Invalid, K!Invalid, D!Heap, K!Heap, D!SetHeap, K!SetHeap, D!NoReport, K!NoReport,
           D!NoBlocks, K!NoBlocks, D!mem_heap_lo, K!mem_heap_lo, D!mem_heap_hi, K!mem_heap_hi,
           D!IS_ALIGNED, K!IS_ALIGNED, D!InHeap, K!InHeap, D!Overlaps, K!Overlaps,
           D!Acceptable, K!Acceptable, D!add_range, K!add_range, D!remove_range,
           K!remove_range, D!Requests, K!Requests, D!Legal, K!Legal, D!Outcomes, K!Outcomes,
           D!Remember, K!Remember, D!Compared, K!Compared, D!DataKept, K!DataKept, D!NULL,
           K!NULL, D!WSIZE, K!WSIZE, D!mem_max_addr, K!mem_max_addr, D!Addr, K!Addr, D!Words,
           K!Words, D!memset, K!memset, D!LowByte, K!LowByte, D!Char, K!Char, D!MAX, K!MAX
  <2>5. \A op : D!ValidFree(op) <=> K!ValidFree(op)
    BY DEF D!ValidFree, K!ValidFree, D!ValidRequest, K!ValidRequest, D!Legal, K!Legal,
           D!remove_range, K!remove_range, D!Heap, K!Heap, D!SetHeap, K!SetHeap, D!NULL, K!NULL
  <2>6. D!UtilObtain <=> K!UtilObtain
    BY DEF D!UtilObtain, K!UtilObtain, D!Replay, K!Replay, D!Outcomes, K!Outcomes, D!Heap,
           K!Heap, D!SetHeap, K!SetHeap, D!Remember, K!Remember, D!Account, K!Account, D!MAX,
           K!MAX, D!NULL, K!NULL
  <2>7. D!SpeedObtain <=> K!SpeedObtain
    BY DEF D!SpeedObtain, K!SpeedObtain, D!Replay, K!Replay, D!Outcomes, K!Outcomes, D!Heap,
           K!Heap, D!SetHeap, K!SetHeap, D!NULL, K!NULL
  <2>8. D!ReplayFree <=> K!ReplayFree
    BY DEF D!ReplayFree, K!ReplayFree, D!Replay, K!Replay, D!Heap, K!Heap, D!SetHeap,
           K!SetHeap, D!Account, K!Account, D!NULL, K!NULL
  <2>9. D!Requests = K!Requests
    BY DEF D!Requests, K!Requests
  <2> QED BY <2>1, <2>2, <2>3, <2>4, <2>5, <2>6, <2>7, <2>8, <2>9 DEF D!Next, K!Next
<1> QED BY <1>1, <1>2, <1>3

(* So what holds of DriverProofs' driver holds of this one. *)
LEMMA SameSpec ==
  /\ Spec => K!Spec
  /\ (NeverFaulted <=> K!NeverFaulted) /\ (ReplaySucceeds <=> K!ReplaySucceeds)
<1>1. Spec => K!Spec
  <2>1. D!Init => K!Init
    BY SameDriver
  <2>2. [D!Next]_(D!dvars) => [K!Next]_(K!dvars)
    BY SameDriver DEF D!dvars, K!dvars
  <2> QED BY <2>1, <2>2, PTL DEF Spec, D!Spec, K!Spec
<1>2. NeverFaulted <=> K!NeverFaulted
  BY DEF NeverFaulted, D!NeverFaulted, K!NeverFaulted
<1>3. ReplaySucceeds <=> K!ReplaySucceeds
  BY DEF ReplaySucceeds, D!ReplaySucceeds, K!ReplaySucceeds
<1> QED BY <1>1, <1>2, <1>3

(* eval_mm_valid never faults segregated_list-85.c on a trace without      *)
(* reallocations: no payload is misaligned, out of the heap or over        *)
(* another one.                                                            *)
THEOREM SegListNeverFaulted ==
  ASSUME "r" \notin Types, K!PositiveChars
  PROVE  Spec => []NeverFaulted
<1>1. K!Spec => []K!NeverFaulted
  BY ContractKept, MemAssumption, K!PositiveChars, K!ServedNeverFaulted, PTL
<1>2. K!NeverFaulted => NeverFaulted
  BY SameSpec
<1> QED BY <1>1, <1>2, SameSpec, PTL

(* A trace without reallocations that it has served it serves again in     *)
(* every replay, over whatever the earlier passes left in the region.      *)
THEOREM SegListReplays ==
  ASSUME "r" \notin Types
  PROVE  Spec => []ReplaySucceeds
<1>1. K!Spec => []K!ReplaySucceeds
  BY ContractKept, MemAssumption, K!ServedReplays, PTL
<1>2. K!ReplaySucceeds => ReplaySucceeds
  BY SameSpec
<1> QED BY <1>1, <1>2, SameSpec, PTL

(* The free blocks are those the walk over the heap meets. *)
LEMMA WalkFrees ==
  ASSUME NEW m, NEW T, NEW k, Shape(T, k), Tagged(m, T, k), NEW b, Visits(b, m, h0, Most)
  PROVE  {bp \in {b[i] : i \in 0 .. Most} : GET_ALLOC(m, HDRP(bp)) = 0} = Frees(T)
<1>1. Most \in Nat
  BY MostFacts
<1>2. /\ \A j \in 0 .. Most : b[j] \in Blocks(T) \cup {k}
      /\ \A j \in 0 .. Most : \A c \in Blocks(T) :
            c < b[j] => \E i \in 0 .. j - 1 : b[i] = c
      /\ b[Most] = k
  BY Walk
<1>3. \A c \in Blocks(T) : c \in Nat /\ c < k
  BY ShapeFacts
<1>4. GET_ALLOC(m, HDRP(k)) = 1
  BY ReadEpilogue
<1>5. \A c \in Blocks(T) : GET_ALLOC(m, HDRP(c)) = 0 <=> IsFree(T, c)
  BY ReadBlock
<1>6. ASSUME NEW i \in 0 .. Most, GET_ALLOC(m, HDRP(b[i])) = 0 PROVE b[i] \in Frees(T)
  <2>1. b[i] \in Blocks(T)
    BY <1>2, <1>4, <1>6
  <2> QED BY <2>1, <1>5, <1>6 DEF Frees
<1>7. ASSUME NEW bp \in Frees(T)
      PROVE  GET_ALLOC(m, HDRP(bp)) = 0 /\ \E i \in 0 .. Most : b[i] = bp
  <2>1. bp \in Blocks(T) /\ IsFree(T, bp)
    BY DEF Frees
  <2>2. Most \in 0 .. Most /\ bp < b[Most]
    BY <2>1, <1>1, <1>2, <1>3
  <2>3. PICK i \in 0 .. Most - 1 : b[i] = bp
    BY <2>1, <2>2, <1>2
  <2>4. i \in 0 .. Most
    BY <2>3, <1>1
  <2> QED BY <2>1, <2>3, <2>4, <1>5
<1> QED BY <1>6, <1>7

LEMMA FreeBlocksFacts ==
  ASSUME NEW T, Shape(T, mem_brk), Tagged(mem, T, mem_brk)
  PROVE  FreeBlocks = Frees(T)
<1> DEFINE G(f) == [j \in 0 .. Most |-> IF j = 0 THEN h0 ELSE NEXT_BLKP(mem, f[j - 1])]
           b == CHOOSE f : f = G(f)
<1>1. Most \in Nat
  BY MostFacts
<1>2. PICK g : Visits(g, mem, h0, Most)
  BY <1>1, VisitsExist
<1>3. g = G(g)
  BY <1>2 DEF Visits
<1>4. b = G(b)
  <2> HIDE DEF G
  <2> QED BY <1>3
<1>5. FreeBlocks = {bp \in {b[i] : i \in DOMAIN b} : GET_ALLOC(mem, HDRP(bp)) = 0}
  <2>1. Prologue = h0
    BY DEF Prologue, h0, WSIZE, DSIZE
  <2> QED BY <2>1 DEF FreeBlocks, Most
<1> HIDE DEF b
<1>6. Visits(b, mem, h0, Most) /\ DOMAIN b = 0 .. Most
  BY <1>1, <1>4 DEF Visits
<1> HIDE DEF G
<1>7. {bp \in {b[i] : i \in 0 .. Most} : GET_ALLOC(mem, HDRP(bp)) = 0} = Frees(T)
  BY <1>6, WalkFrees
<1> QED BY <1>5, <1>6, <1>7

(* What ListIs asks of the list of one group, when F is what it lists. *)
LEMMA ListHere ==
  ASSUME NEW T, Shape(T, mem_brk), Roomy(T), Tagged(mem, T, mem_brk),
         NEW F, F \subseteq Frees(T),
         NEW l, ListOf(l, F), Sorted(l, T), Chained(mem, l)
  PROVE  ListIs(FirstIn(l), F)
<1> DEFINE b == Listed(mem, FirstIn(l))
<1>1. l.len \in Nat /\ l.len < Most /\ Most \in Nat
  BY ShortList, MostFacts
<1>2. NULL \notin F /\ F \subseteq Blocks(T)
  BY CellBlocks DEF Frees
<1>3. DOMAIN b = 0 .. Most /\ \A i \in 0 .. l.len : b[i] = l.at[i + 1]
  BY <1>1, <1>2, ListedFacts
<1>4. /\ l.at[0] = NULL /\ l.at[l.len + 1] = NULL
      /\ \A i \in 1 .. l.len : l.at[i] \in F
      /\ \A c \in F : \E i \in 1 .. l.len : l.at[i] = c
      /\ \A i, j \in 1 .. l.len : l.at[i] = l.at[j] => i = j
  BY DEF ListOf
<1>5. \A i \in 1 .. l.len : mem[l.at[i]] = l.at[i - 1]
  BY DEF Chained
<1>6. \A c \in F : SizeNow(c) = Size(T, c)
  BY <1>2, ReadBlock DEF SizeNow
<1> DEFINE n == l.len
<1> HIDE DEF b
<1>7. n \in DOMAIN b /\ b[n] = NULL
  <2>1. n \in 0 .. Most /\ n \in 0 .. l.len
    BY <1>1
  <2> QED BY <2>1, <1>3, <1>4
<1>8. ASSUME NEW i \in 0 .. n - 1
      PROVE  /\ i + 1 \in 1 .. l.len /\ b[i] = l.at[i + 1] /\ b[i] \in F
             /\ PREV_FREE(mem, b[i]) = IF i = 0 THEN NULL ELSE b[i - 1]
  <2>1. i \in 0 .. l.len /\ i + 1 \in 1 .. l.len /\ (i + 1) - 1 = i
    BY <1>1
  <2>2. b[i] = l.at[i + 1] /\ b[i] \in F
    BY <2>1, <1>3, <1>4
  <2>3. PREV_FREE(mem, b[i]) = l.at[i]
    BY <2>1, <2>2, <1>5 DEF PREV_FREE, GET
  <2>4. i # 0 => b[i - 1] = l.at[i]
    <3>1. i # 0 => i - 1 \in 0 .. l.len /\ (i - 1) + 1 = i
      BY <1>1
    <3> QED BY <3>1, <1>3
  <2> QED BY <2>1, <2>2, <2>3, <2>4, <1>4
<1>9. F = {b[i] : i \in 0 .. n - 1}
  <2>1. ASSUME NEW x \in F PROVE \E i \in 0 .. n - 1 : x = b[i]
    <3>1. PICK j \in 1 .. l.len : l.at[j] = x
      BY <1>4
    <3>2. j - 1 \in 0 .. n - 1 /\ (j - 1) + 1 = j
      BY <1>1
    <3> QED BY <3>1, <3>2, <1>8
  <2> QED BY <2>1, <1>8
<1>10. ASSUME NEW i \in 0 .. n - 1, NEW j \in 0 .. n - 1, i < j
       PROVE  b[i] # b[j] /\ SizeNow(b[i]) <= SizeNow(b[j])
  <2>1. i + 1 \in 1 .. l.len /\ j + 1 \in 1 .. l.len /\ i + 1 < j + 1 /\ i + 1 # j + 1
    BY <1>1, <1>10
  <2>2. b[i] = l.at[i + 1] /\ b[j] = l.at[j + 1] /\ b[i] \in F /\ b[j] \in F
    BY <1>8
  <2>3. Size(T, l.at[i + 1]) <= Size(T, l.at[j + 1])
    BY <2>1 DEF Sorted
  <2> QED BY <2>1, <2>2, <2>3, <1>4, <1>6
<1> HIDE DEF n
<1> QED BY <1>7, <1>8, <1>9, <1>10 DEF ListIs, b

(* What the contract says of the lists: they hold these blocks. *)
LEMMA ListsHere == K!HeapSound => ListsExact /\ NeighboursMerged
<1> SUFFICES ASSUME K!HeapSound, phase \in {"valid", "util", "speed"}
             PROVE  ListsExact /\ NeighboursMerged
  BY DEF ListsExact, NeighboursMerged
<1>1. PICK c : /\ InOrder(c) /\ Holds(c, mem)
               /\ mem_brk = BreakIn(c) /\ static = StaticIn(c)
  BY DEF K!HeapSound
<1> DEFINE T == c.tags
           L == c.lists
<1>2. /\ Shape(T, mem_brk) /\ Separate(T) /\ Roomy(T) /\ Tagged(mem, T, mem_brk)
      /\ ListsOf(L, T, Frees(T)) /\ Linked(mem, L) /\ static = Heads(L)
  BY <1>1 DEF InOrder, Holds, BreakIn, StaticIn
<1> HIDE DEF T, L
<1>3. FreeBlocks = Frees(T)
  BY <1>2, FreeBlocksFacts
<1>4. \A bp \in Frees(T) : SizeNow(bp) = Size(T, bp)
  BY <1>2, ReadBlock DEF SizeNow, Frees
<1>5. ASSUME NEW g \in Groups
      PROVE  ListIs(static[g], {bp \in FreeBlocks : Group(SizeNow(bp)) = g})
  <2> DEFINE F == {bp \in FreeBlocks : Group(SizeNow(bp)) = g}
             l == L[g]
  <2>1. F = InGroup(T, Frees(T), g)
    BY <1>3, <1>4 DEF InGroup
  <2>2. static[g] = FirstIn(l) /\ Chained(mem, l)
    BY <1>2 DEF Heads, Linked
  <2>3. ListOf(l, F) /\ Sorted(l, T) /\ F \subseteq Frees(T)
    BY <1>2, <2>1, OneList
  <2> HIDE DEF F, l
  <2>4. ListIs(FirstIn(l), F)
    BY <1>2, <2>2, <2>3, ListHere
  <2> QED BY <2>2, <2>4 DEF F
<1>6. ASSUME NEW bp \in FreeBlocks PROVE NEXT_BLKP(mem, bp) \notin FreeBlocks
  <2>1. bp \in Blocks(T) /\ IsFree(T, bp)
    BY <1>3 DEF Frees
  <2>2. NEXT_BLKP(mem, bp) = EndOf(T, bp)
    BY <2>1, <1>2, ReadBlock
  <2>3. EndOf(T, bp) \notin Frees(T)
    BY <2>1, <1>2 DEF Separate, Frees
  <2> QED BY <2>2, <2>3, <1>3
<1> QED BY <1>5, <1>6 DEF ListsExact, NeighboursMerged

(* Between two calls, on a trace without reallocations, the list of every  *)
(* group holds the free blocks of its sizes once each and nothing else,    *)
(* smallest first, with matching back pointers.                            *)
THEOREM SegListListsExact ==
  ASSUME "r" \notin Types
  PROVE  Spec => []ListsExact
<1>1. K!Spec => []K!HeapSound
  BY ContractKept, MemAssumption, K!ServedSound, PTL
<1>2. K!HeapSound => ListsExact
  BY ListsHere
<1> QED BY <1>1, <1>2, SameSpec, PTL

(* Nor do two of its free blocks ever touch between two calls. *)
THEOREM SegListNeighboursMerged ==
  ASSUME "r" \notin Types
  PROVE  Spec => []NeighboursMerged
<1>1. K!Spec => []K!HeapSound
  BY ContractKept, MemAssumption, K!ServedSound, PTL
<1>2. K!HeapSound => NeighboursMerged
  BY ListsHere
<1> QED BY <1>1, <1>2, SameSpec, PTL

=============================================================================
