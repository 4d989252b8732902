---------------------------- MODULE DriverProofs ----------------------------
(***************************************************************************)
(* What the driver finds of any allocator that keeps a contract.  The      *)
(* contract is about descriptions of heaps: each call takes the heap a     *)
(* description c describes to one that another description describes,      *)
(* which depends on c and the request alone and not on the words c does    *)
(* not speak of.  So the state of the heap is a function of the requests   *)
(* so far, in each pass over the trace.                                    *)
(***************************************************************************)
EXTENDS Driver, FiniteSetTheorems, TLAPS

CONSTANTS Sound(_),          \* c describes a heap the allocator can be in
          Holds(_, _),       \* Holds(c, m): the memory m is as c says
          Break(_),          \* the break of the heap c describes,
          Statics(_),        \* the static variables,
          Payloads(_),       \* the addresses of the allocated payloads,
          Capacity(_, _),    \* the bytes there are at each
          CanStart,          \* mm_init succeeds,
          Fresh,             \* and leaves this heap
          Room(_, _),        \* a request for so many bytes succeeds,
          Given(_, _),       \* gives this address
          Allocated(_, _),   \* and leaves this heap
          Released(_, _)     \* the heap once a payload is freed

HeapOf(m, c) == [m |-> m, brk |-> Break(c), st |-> Statics(c)]

Mem(m) == m \in [Addr -> Nat]

PayloadOf(c, p) == Words(p, Capacity(c, p))

(* The payloads in P keep what they hold. *)
Kept(c, P, m, m2) == \A p \in P : \A a \in PayloadOf(c, p) : m2[a] = m[a]

(* The first bytes of the payload old, as they were in m, are at p in m2.  *)
Moved(c, m, m2, old, p, size) ==
    \A n \in Nat : n <= size /\ n <= Capacity(c, old) =>
       \A a \in Words(p, n) :
          old + (a - p) \in Words(old, n) /\ m2[a] = m[old + (a - p)]

(* The payloads in P are payloads in c2 with the same capacity. *)
Steady(c, P, c2) == \A p \in P : p \in Payloads(c2) /\ Capacity(c2, p) = Capacity(c, p)

-----------------------------------------------------------------------------
(* The contract *)

(* Payloads are aligned, lie in the heap and are apart. *)
Placed(c, p) ==
    /\ p \in Nat /\ p % 8 = 0 /\ mem_start_brk <= p
    /\ Capacity(c, p) \in Nat /\ p + Capacity(c, p) <= Break(c)

Apart(c, p, q) == p + Capacity(c, p) <= q \/ q + Capacity(c, q) <= p

HeapContract ==
    \A c : Sound(c) =>
       /\ Break(c) \in Nat /\ mem_start_brk <= Break(c)
       /\ \A p \in Payloads(c) : Placed(c, p)
       /\ \A p, q \in Payloads(c) : p # q => Apart(c, p, q)

(* The client may write to a payload. *)
WriteContract ==
    \A c, m : Sound(c) /\ Holds(c, m) =>
       /\ Mem(m)
       /\ \A p \in Payloads(c) : \A m2 :
             Mem(m2) /\ (\A a \in Addr \ PayloadOf(c, p) : m2[a] = m[a]) => Holds(c, m2)

(* mm_init, over any memory. *)
InitContract ==
    /\ CanStart => Sound(Fresh)
    /\ \A m, st : Mem(m) =>
          \A r \in mm_init([m |-> m, brk |-> mem_start_brk, st |-> st]) :
             /\ Mem(r.h.m) /\ (r.p # NULL <=> CanStart)
             /\ CanStart => \E m2 : r.h = HeapOf(m2, Fresh) /\ Holds(Fresh, m2)

(* An allocation adds one payload to the heap. *)
Adds(c, size, p, c2) ==
    /\ Sound(c2) /\ Break(c) <= Break(c2)
    /\ p # NULL /\ p \notin Payloads(c) /\ Payloads(c2) = Payloads(c) \cup {p}
    /\ size > 0 /\ size <= Capacity(c2, p)
    /\ Steady(c, Payloads(c), c2)

Serves(c, size, m, r) ==
    \E m2 : /\ r = [p |-> Given(c, size), h |-> HeapOf(m2, Allocated(c, size))]
            /\ Holds(Allocated(c, size), m2) /\ Kept(c, Payloads(c), m, m2)

Refuses(r) == r.p = NULL /\ Mem(r.h.m)

MallocContract ==
    \A c : Sound(c) => \A size \in Sizes :
       /\ Room(c, size) => Adds(c, size, Given(c, size), Allocated(c, size))
       /\ \A m : Holds(c, m) =>
             \A r \in mm_malloc(HeapOf(m, c), size) :
                IF Room(c, size) THEN Serves(c, size, m, r) ELSE Refuses(r)

(* Freeing a payload takes it away. *)
Removes(c, p, c2) ==
    /\ Sound(c2) /\ Break(c) <= Break(c2) /\ Payloads(c2) = Payloads(c) \ {p}
    /\ Steady(c, Payloads(c) \ {p}, c2)

Frees(c, p, m, r) ==
    \E m2 : /\ r.h = HeapOf(m2, Released(c, p)) /\ Holds(Released(c, p), m2)
            /\ Kept(c, Payloads(c) \ {p}, m, m2)

FreeContract ==
    \A c : Sound(c) => \A p \in Payloads(c) :
       /\ Removes(c, p, Released(c, p))
       /\ \A m : Holds(c, m) => \A r \in mm_free(HeapOf(m, c), p) : Frees(c, p, m, r)

(* A reallocation is an allocation, a copy and a free. *)
Resized(c, old, size) == Released(Allocated(c, size), old)

Moves(c, old, size, m, r) ==
    \E m2 : /\ r = [p |-> Given(c, size), h |-> HeapOf(m2, Resized(c, old, size))]
            /\ Holds(Resized(c, old, size), m2) /\ Kept(c, Payloads(c) \ {old}, m, m2)
            /\ Moved(c, m, m2, old, Given(c, size), size)

ReallocContract ==
    "r" \in Types =>
       \A c, m : Sound(c) /\ Holds(c, m) => \A size \in Sizes, old \in Payloads(c) :
          \A r \in mm_realloc(HeapOf(m, c), old, size) :
             IF Room(c, size) THEN Moves(c, old, size, m, r) ELSE Refuses(r)

(* The trace. *)
TraceContract ==
    /\ Ids \subseteq Nat /\ Sizes \subseteq Nat /\ Types \subseteq {"a", "r", "f"}
    /\ Junk \subseteq Nat /\ BYTE \in Nat \ {0}

Contract ==
    /\ TraceContract /\ HeapContract /\ WriteContract
    /\ InitContract /\ MallocContract /\ FreeContract /\ ReallocContract

-----------------------------------------------------------------------------
(* What the contract says of one call *)

(* The payloads of a heap. *)
LEMMA HeapFacts ==
  ASSUME Contract, NEW c, Sound(c)
  PROVE  /\ Break(c) \in Nat /\ mem_start_brk <= Break(c)
         /\ \A p \in Payloads(c) : Placed(c, p)
         /\ \A p, q \in Payloads(c) : p # q => Apart(c, p, q)
BY DEF Contract, HeapContract

(* A payload may be written to. *)
LEMMA WriteFacts ==
  ASSUME Contract, NEW c, Sound(c), NEW m, Holds(c, m), NEW p \in Payloads(c),
         NEW m2, Mem(m2), \A a \in Addr \ PayloadOf(c, p) : m2[a] = m[a]
  PROVE  Holds(c, m2)
BY DEF Contract, WriteContract

(* The memory of a heap has a word everywhere. *)
LEMMA HoldsMem ==
  ASSUME Contract, NEW c, Sound(c), NEW m, Holds(c, m)
  PROVE  Mem(m)
BY DEF Contract, WriteContract

(* mm_init. *)
LEMMA InitFacts ==
  ASSUME Contract, NEW m, NEW st, Mem(m),
         NEW r \in mm_init([m |-> m, brk |-> mem_start_brk, st |-> st])
  PROVE  /\ Mem(r.h.m) /\ (r.p # NULL <=> CanStart)
         /\ CanStart => \E m2 : r.h = HeapOf(m2, Fresh) /\ Holds(Fresh, m2)
BY DEF Contract, InitContract

(* A request there is room for adds a payload. *)
LEMMA AddFacts ==
  ASSUME Contract, NEW c, Sound(c), NEW size \in Sizes, Room(c, size)
  PROVE  Adds(c, size, Given(c, size), Allocated(c, size))
BY DEF Contract, MallocContract

(* mm_malloc. *)
LEMMA MallocFacts ==
  ASSUME Contract, NEW c, Sound(c), NEW m, Holds(c, m), NEW size \in Sizes,
         NEW r \in mm_malloc(HeapOf(m, c), size)
  PROVE  IF Room(c, size) THEN Serves(c, size, m, r) ELSE Refuses(r)
BY DEF Contract, MallocContract

(* A free takes one payload away. *)
LEMMA RemoveFacts ==
  ASSUME Contract, NEW c, Sound(c), NEW p \in Payloads(c)
  PROVE  Removes(c, p, Released(c, p))
BY DEF Contract, FreeContract

(* mm_free. *)
LEMMA FreeFacts ==
  ASSUME Contract, NEW c, Sound(c), NEW m, Holds(c, m), NEW p \in Payloads(c),
         NEW r \in mm_free(HeapOf(m, c), p)
  PROVE  Frees(c, p, m, r)
BY DEF Contract, FreeContract

(* mm_realloc. *)
LEMMA ReallocFacts ==
  ASSUME Contract, "r" \in Types, NEW c, Sound(c), NEW m, Holds(c, m), NEW size \in Sizes,
         NEW old \in Payloads(c), NEW r \in mm_realloc(HeapOf(m, c), old, size)
  PROVE  IF Room(c, size) THEN Moves(c, old, size, m, r) ELSE Refuses(r)
BY DEF Contract, ReallocContract

(* A request of a trace. *)
LEMMA RequestFacts ==
  ASSUME Contract, NEW op \in Requests
  PROVE  /\ op.index \in Ids /\ op.type \in {"a", "r", "f"} /\ op.type \in Types
         /\ op.type # "f" => op.size \in Sizes
BY DEF Contract, TraceContract, Requests

(* Addresses are numbers. *)
LEMMA RegionFacts ==
  /\ mem_start_brk \in Nat /\ mem_start_brk > 0 /\ \A a \in Addr : a \in Nat
BY MemAssumption DEF Addr, mem_max_addr

-----------------------------------------------------------------------------
(* The states a trace leads through *)

(* The description of the heap, and the trace's blocks. *)
FreshState == [c |-> Fresh, bl |-> NoBlocks]

LegalIn(s, op) == (op.type = "a") <=> (s.bl[op.index] = NULL)

RoomIn(s, op) == op.type # "f" => Room(s.c, op.size)

HeapAfter(s, op) ==
    IF op.type = "a" THEN Allocated(s.c, op.size)
    ELSE IF op.type = "f" THEN Released(s.c, s.bl[op.index])
    ELSE Resized(s.c, s.bl[op.index], op.size)

BlockAfter(s, op) == IF op.type = "f" THEN NULL ELSE Given(s.c, op.size)

After(s, op) ==
    [c |-> HeapAfter(s, op), bl |-> [s.bl EXCEPT ![op.index] = BlockAfter(s, op)]]

LiveIn(bl) == {i \in Ids : bl[i] # NULL}

(* The trace's blocks are payloads, each of one index. *)
Good(s) ==
    /\ Sound(s.c) /\ s.bl \in [Ids -> Nat]
    /\ \A i \in LiveIn(s.bl) : s.bl[i] \in Payloads(s.c)
    /\ \A i, j \in LiveIn(s.bl) : s.bl[i] = s.bl[j] => i = j

Others(s, x) == {s.bl[i] : i \in LiveIn(s.bl) \ {x}}

(* The states a trace o leads through. *)
History(H, o) ==
    /\ CanStart /\ H[0] = FreshState
    /\ \A j \in 0 .. Len(o) : Good(H[j])
    /\ \A j \in 1 .. Len(o) : /\ o[j] \in Requests
                              /\ LegalIn(H[j - 1], o[j]) /\ RoomIn(H[j - 1], o[j])
                              /\ H[j] = After(H[j - 1], o[j])

(* The heap mm_init makes has no block of a trace. *)
LEMMA FreshGood ==
  ASSUME Contract, CanStart
  PROVE  Good(FreshState)
<1>1. Sound(Fresh)
  BY DEF Contract, InitContract
<1>2. NoBlocks \in [Ids -> Nat] /\ LiveIn(NoBlocks) = {}
  BY DEF NoBlocks, LiveIn, NULL
<1> QED BY <1>1, <1>2 DEF Good, FreshState

(* A request that allocates: where its block is, and that the others stay. *)
LEMMA AfterObtain ==
  ASSUME Contract, NEW s, Good(s), NEW op, op.type # "f", op.index \in Ids, op.size \in Sizes,
         LegalIn(s, op), RoomIn(s, op), NEW s2, s2 = After(s, op),
         NEW p, p = Given(s.c, op.size), NEW x, x = op.index
  PROVE  /\ Good(s2) /\ Break(s.c) <= Break(s2.c)
         /\ s2.bl = [s.bl EXCEPT ![x] = p] /\ s2.bl[x] = p /\ p # NULL
         /\ p \in Payloads(s2.c) /\ p \notin Others(s, x)
         /\ op.size > 0 /\ op.size <= Capacity(s2.c, p)
         /\ Steady(s.c, Others(s, x), s2.c)
<1> DEFINE u == Allocated(s.c, op.size)
           old == s.bl[x]
<1>1. /\ Sound(s.c) /\ s.bl \in [Ids -> Nat]
      /\ \A i \in LiveIn(s.bl) : s.bl[i] \in Payloads(s.c)
      /\ \A i, j \in LiveIn(s.bl) : s.bl[i] = s.bl[j] => i = j
  BY DEF Good
<1>2. Adds(s.c, op.size, p, u)
  BY <1>1, AddFacts DEF RoomIn
<1>3. /\ s2.bl = [s.bl EXCEPT ![x] = p]
      /\ s2.c = IF op.type = "a" THEN u ELSE Released(u, old)
  BY DEF After, HeapAfter, BlockAfter, Resized
<1> HIDE DEF u, old
<1>4. /\ Sound(u) /\ Break(s.c) <= Break(u)
      /\ p # NULL /\ p \notin Payloads(s.c) /\ Payloads(u) = Payloads(s.c) \cup {p}
      /\ op.size > 0 /\ op.size <= Capacity(u, p)
      /\ \A q \in Payloads(s.c) : Capacity(u, q) = Capacity(s.c, q)
  BY <1>2 DEF Adds, Steady
<1>5. p \in Nat /\ Break(s.c) \in Nat /\ Break(u) \in Nat
  BY <1>1, <1>4, HeapFacts DEF Placed
<1>6. \A q \in Others(s, x) : q \in Payloads(s.c) /\ q # p
  BY <1>1, <1>4 DEF Others
<1>7. /\ Sound(s2.c) /\ Break(s.c) <= Break(s2.c)
      /\ p \in Payloads(s2.c) /\ Capacity(s2.c, p) = Capacity(u, p)
      /\ Steady(s.c, Others(s, x), s2.c)
  <2>1. CASE op.type = "a"
    BY <2>1, <1>3, <1>4, <1>6 DEF Steady
  <2>2. CASE op.type # "a"
    <3>1. x \in LiveIn(s.bl) /\ old = s.bl[x]
      BY <2>2 DEF LegalIn, LiveIn, old
    <3>2. old \in Payloads(s.c) /\ old \in Payloads(u) /\ old # p
      BY <3>1, <1>1, <1>4
    <3>3. Removes(u, old, s2.c)
      BY <2>2, <3>2, <1>3, <1>4, RemoveFacts
    <3>4. /\ Sound(s2.c) /\ Break(u) <= Break(s2.c) /\ Payloads(s2.c) = Payloads(u) \ {old}
          /\ \A q \in Payloads(u) \ {old} : Capacity(s2.c, q) = Capacity(u, q)
      BY <3>3 DEF Removes, Steady
    <3>5. Break(s2.c) \in Nat
      BY <3>4, HeapFacts
    <3>6. \A q \in Others(s, x) : q # old
      BY <3>1, <1>1 DEF Others
    <3>7. Steady(s.c, Others(s, x), s2.c)
      BY <3>4, <3>6, <1>4, <1>6 DEF Steady
    <3> QED BY <3>2, <3>4, <3>5, <3>7, <1>4, <1>5
  <2> QED BY <2>1, <2>2
<1>8. /\ s2.bl \in [Ids -> Nat] /\ s2.bl[x] = p
      /\ \A i \in Ids \ {x} : s2.bl[i] = s.bl[i]
      /\ LiveIn(s2.bl) = LiveIn(s.bl) \cup {x}
  <2>1. s2.bl \in [Ids -> Nat] /\ s2.bl[x] = p /\ \A i \in Ids \ {x} : s2.bl[i] = s.bl[i]
    BY <1>1, <1>3, <1>5
  <2> QED BY <2>1, <1>4 DEF LiveIn
<1>9. Good(s2)
  <2>1. \A i \in LiveIn(s2.bl) : i # x =>
           i \in LiveIn(s.bl) /\ s2.bl[i] = s.bl[i] /\ s.bl[i] \in Others(s, x)
    BY <1>8 DEF LiveIn, Others
  <2>2. \A i \in LiveIn(s2.bl) : s2.bl[i] \in Payloads(s2.c)
    BY <2>1, <1>7, <1>8 DEF Steady
  <2>3. ASSUME NEW i \in LiveIn(s2.bl), NEW j \in LiveIn(s2.bl), s2.bl[i] = s2.bl[j]
        PROVE  i = j
    BY <2>1, <2>3, <1>1, <1>6, <1>8
  <2> QED BY <2>2, <2>3, <1>7, <1>8 DEF Good
<1> QED BY <1>3, <1>4, <1>6, <1>7, <1>8, <1>9

(* A request that frees. *)
LEMMA AfterRelease ==
  ASSUME Contract, NEW s, Good(s), NEW op, op.type = "f", op.index \in Ids, LegalIn(s, op),
         NEW s2, s2 = After(s, op), NEW x, x = op.index
  PROVE  /\ Good(s2) /\ Break(s.c) <= Break(s2.c) /\ x \in LiveIn(s.bl)
         /\ s2.bl = [s.bl EXCEPT ![x] = NULL]
         /\ LiveIn(s2.bl) = LiveIn(s.bl) \ {x}
         /\ Steady(s.c, Others(s, x), s2.c)
<1> DEFINE old == s.bl[x]
<1>1. /\ Sound(s.c) /\ s.bl \in [Ids -> Nat]
      /\ \A i \in LiveIn(s.bl) : s.bl[i] \in Payloads(s.c)
      /\ \A i, j \in LiveIn(s.bl) : s.bl[i] = s.bl[j] => i = j
  BY DEF Good
<1>2. s2.bl = [s.bl EXCEPT ![x] = NULL] /\ s2.c = Released(s.c, old)
  BY DEF After, HeapAfter, BlockAfter
<1>3. x \in LiveIn(s.bl)
  BY DEF LegalIn, LiveIn
<1> HIDE DEF old
<1>4. old = s.bl[x]
  BY DEF old
<1>5. Removes(s.c, old, s2.c)
  BY <1>1, <1>2, <1>3, <1>4, RemoveFacts
<1>6. /\ Sound(s2.c) /\ Break(s.c) <= Break(s2.c) /\ Payloads(s2.c) = Payloads(s.c) \ {old}
      /\ \A q \in Payloads(s.c) \ {old} : Capacity(s2.c, q) = Capacity(s.c, q)
  BY <1>5 DEF Removes, Steady
<1>7. \A q \in Others(s, x) : q \in Payloads(s.c) \ {old}
  BY <1>1, <1>3, <1>4 DEF Others
<1>8. /\ s2.bl \in [Ids -> Nat]
      /\ LiveIn(s2.bl) = LiveIn(s.bl) \ {x}
      /\ \A i \in LiveIn(s2.bl) : s2.bl[i] = s.bl[i] /\ s2.bl[i] \in Others(s, x)
  <2>1. s2.bl \in [Ids -> Nat] /\ s2.bl[x] = NULL /\ \A i \in Ids \ {x} : s2.bl[i] = s.bl[i]
    BY <1>1, <1>2 DEF NULL
  <2> QED BY <2>1 DEF LiveIn, Others
<1>9. Good(s2)
  BY <1>1, <1>6, <1>7, <1>8 DEF Good
<1> QED BY <1>2, <1>3, <1>6, <1>7, <1>8, <1>9 DEF Steady

(* The heap is the one the state s describes. *)
Here(s) ==
    /\ static = Statics(s.c) /\ mem_brk = Break(s.c) /\ blocks = s.bl
    /\ Holds(s.c, mem)

(* The payloads of the other indices keep what they hold. *)
Untouched(s, x, m) == Kept(s.c, Others(s, x), mem, m)

(* The parts of a heap. *)
LEMMA HeapParts ==
  ASSUME NEW m, NEW c
  PROVE  /\ HeapOf(m, c).m = m /\ HeapOf(m, c).brk = Break(c) /\ HeapOf(m, c).st = Statics(c)
         /\ \A v : [HeapOf(m, c) EXCEPT !.m = v] = HeapOf(v, c)
BY DEF HeapOf

(* The answer to an allocating request, and the memory it leaves: the      *)
(* payloads of the other indices, and the start of the old one, are kept.  *)
LEMMA ObtainHere ==
  ASSUME Contract, NEW s, Good(s), Here(s), NEW op \in Requests, op.type # "f",
         LegalIn(s, op), NEW r \in Outcomes(op), NEW s2, s2 = After(s, op),
         NEW x, x = op.index
  PROVE  /\ ~RoomIn(s, op) => Refuses(r)
         /\ RoomIn(s, op) =>
              \E m2 : /\ r.p = s2.bl[x] /\ r.h = HeapOf(m2, s2.c) /\ Holds(s2.c, m2)
                      /\ Untouched(s, x, m2)
                      /\ op.type = "r" => Moved(s.c, mem, m2, s.bl[x], r.p, op.size)
<1>1. x \in Ids /\ op.size \in Sizes /\ op.type \in {"a", "r"} /\ op.type \in Types
  BY RequestFacts
<1>2. /\ Sound(s.c) /\ Holds(s.c, mem) /\ s.bl \in [Ids -> Nat]
      /\ \A i \in LiveIn(s.bl) : s.bl[i] \in Payloads(s.c)
      /\ \A i, j \in LiveIn(s.bl) : s.bl[i] = s.bl[j] => i = j
  BY DEF Good, Here
<1>3. Heap = HeapOf(mem, s.c) /\ blocks = s.bl
  BY DEF Here, Heap, HeapOf
<1>4. RoomIn(s, op) <=> Room(s.c, op.size)
  BY DEF RoomIn
<1>5. s2.bl[x] = Given(s.c, op.size)
  BY <1>1, <1>2 DEF After, BlockAfter
<1>6. CASE op.type = "a"
  <2>1. r \in mm_malloc(HeapOf(mem, s.c), op.size)
    BY <1>3, <1>6 DEF Outcomes
  <2>2. IF Room(s.c, op.size) THEN Serves(s.c, op.size, mem, r) ELSE Refuses(r)
    BY <2>1, <1>1, <1>2, MallocFacts
  <2>3. s2.c = Allocated(s.c, op.size)
    BY <1>6 DEF After, HeapAfter
  <2>4. \A m2 : Kept(s.c, Payloads(s.c), mem, m2) => Untouched(s, x, m2)
    BY <1>2 DEF Untouched, Kept, Others
  <2>5. CASE Room(s.c, op.size)
    <3>1. PICK m2 : /\ r = [p |-> Given(s.c, op.size), h |-> HeapOf(m2, s2.c)]
                    /\ Holds(s2.c, m2) /\ Kept(s.c, Payloads(s.c), mem, m2)
      BY <2>2, <2>3, <2>5 DEF Serves
    <3>2. r.p = s2.bl[x] /\ r.h = HeapOf(m2, s2.c)
      BY <3>1, <1>5
    <3> QED BY <3>1, <3>2, <2>4, <2>5, <1>4, <1>6
  <2> QED BY <2>2, <2>5, <1>4
<1>7. CASE op.type = "r"
  <2> DEFINE old == s.bl[x]
  <2>1. r \in mm_realloc(HeapOf(mem, s.c), old, op.size)
    BY <1>3, <1>7 DEF Outcomes
  <2>2. x \in LiveIn(s.bl) /\ old \in Payloads(s.c)
    BY <1>1, <1>2, <1>7 DEF LegalIn, LiveIn
  <2>3. s2.c = Resized(s.c, old, op.size)
    BY <1>7 DEF After, HeapAfter
  <2>4. \A m2 : Kept(s.c, Payloads(s.c) \ {old}, mem, m2) => Untouched(s, x, m2)
    BY <2>2, <1>2 DEF Untouched, Kept, Others
  <2> HIDE DEF old
  <2>5. IF Room(s.c, op.size) THEN Moves(s.c, old, op.size, mem, r) ELSE Refuses(r)
    BY <2>1, <2>2, <1>1, <1>2, <1>7, ReallocFacts
  <2>6. CASE Room(s.c, op.size)
    <3>1. PICK m2 : /\ r = [p |-> Given(s.c, op.size), h |-> HeapOf(m2, s2.c)]
                    /\ Holds(s2.c, m2) /\ Kept(s.c, Payloads(s.c) \ {old}, mem, m2)
                    /\ Moved(s.c, mem, m2, old, Given(s.c, op.size), op.size)
      BY <2>3, <2>5, <2>6 DEF Moves
    <3>2. r.p = s2.bl[x] /\ r.h = HeapOf(m2, s2.c) /\ r.p = Given(s.c, op.size)
      BY <3>1, <1>5
    <3> QED BY <3>1, <3>2, <2>4, <2>6, <1>4, <1>7 DEF old
  <2> QED BY <2>5, <2>6, <1>4
<1> QED BY <1>1, <1>6, <1>7

(* Before the first request. *)
LEMMA HistoryStart ==
  ASSUME Contract, CanStart
  PROVE  \E H : History(H, <<>>) /\ H[0] = FreshState
<1> DEFINE H == [j \in 0 .. 0 |-> FreshState]
<1>1. H[0] = FreshState /\ \A j \in 0 .. 0 : H[j] = FreshState
  OBVIOUS
<1> HIDE DEF H
<1>2. History(H, <<>>)
  <2>1. Len(<<>>) = 0
    OBVIOUS
  <2> QED BY <2>1, <1>1, FreshGood DEF History
<1> QED BY <1>1, <1>2

(* One request more. *)
LEMMA HistoryAppend ==
  ASSUME NEW H, NEW o \in Seq(Requests), History(H, o), NEW op \in Requests,
         NEW s, s = H[Len(o)], LegalIn(s, op), RoomIn(s, op),
         NEW s2, s2 = After(s, op), Good(s2)
  PROVE  \E H2 : History(H2, Append(o, op)) /\ H2[Len(Append(o, op))] = s2
<1> DEFINE n == Len(o)
           o2 == Append(o, op)
           H2 == [j \in 0 .. n + 1 |-> IF j <= n THEN H[j] ELSE s2]
<1>1. /\ n \in Nat /\ Len(o2) = n + 1 /\ o2[n + 1] = op
      /\ \A j \in 1 .. n : o2[j] = o[j]
  OBVIOUS
<1> HIDE DEF n, o2
<1>2. H2[n + 1] = s2 /\ \A j \in 0 .. n : H2[j] = H[j]
  BY <1>1
<1> HIDE DEF H2
<1>3. /\ CanStart /\ H[0] = FreshState
      /\ \A j \in 0 .. n : Good(H[j])
      /\ \A j \in 1 .. n : /\ o[j] \in Requests
                           /\ LegalIn(H[j - 1], o[j]) /\ RoomIn(H[j - 1], o[j])
                           /\ H[j] = After(H[j - 1], o[j])
  BY DEF History, n
<1>4. H2[0] = FreshState
  BY <1>1, <1>2, <1>3
<1>5. \A j \in 0 .. n + 1 : Good(H2[j])
  BY <1>1, <1>2, <1>3
<1>6. ASSUME NEW j \in 1 .. n + 1
      PROVE  /\ o2[j] \in Requests
             /\ LegalIn(H2[j - 1], o2[j]) /\ RoomIn(H2[j - 1], o2[j])
             /\ H2[j] = After(H2[j - 1], o2[j])
  <2>1. CASE j \in 1 .. n
    <3>1. o2[j] = o[j] /\ j - 1 \in 0 .. n /\ j \in 0 .. n
      BY <2>1, <1>1
    <3>2. H2[j] = H[j] /\ H2[j - 1] = H[j - 1]
      BY <3>1, <1>2
    <3> QED BY <2>1, <3>1, <3>2, <1>3
  <2>2. CASE j \notin 1 .. n
    <3>1. j = n + 1 /\ j - 1 = n /\ n \in 0 .. n
      BY <2>2, <1>1
    <3>2. H2[j - 1] = s /\ H2[j] = After(s, op) /\ o2[j] = op
      BY <3>1, <1>1, <1>2 DEF n
    <3> QED BY <3>2
  <2> QED BY <2>1, <2>2
<1>7. History(H2, o2)
  BY <1>1, <1>3, <1>4, <1>5, <1>6 DEF History
<1> QED BY <1>1, <1>2, <1>7 DEF o2

-----------------------------------------------------------------------------
(* The inductive invariant *)

(* A char holds the low byte of every index. *)
PositiveChars == BYTE = 256 /\ \A i \in Ids : i % BYTE < BYTE \div 2

(* Each payload has room for what the trace asked for. *)
Roomy(s) ==
    \A i \in LiveIn(blocks) : block_sizes[i] > 0 /\ block_sizes[i] <= Capacity(s.c, blocks[i])

(* Each payload holds the low byte of its index. *)
Filled ==
    \A i \in LiveIn(blocks) :
        \A a \in Words(blocks[i], block_sizes[i]) : mem[a] = i % BYTE

RangeOf(i) == [lo |-> blocks[i], hi |-> blocks[i] + block_sizes[i] - 1]

(* In eval_mm_valid. *)
ValidHere ==
    /\ \E H : History(H, ops) /\ Here(H[Len(ops)]) /\ Roomy(H[Len(ops)])
    /\ Filled
    /\ ranges = {RangeOf(i) : i \in LiveIn(blocks)}

(* In eval_mm_util and eval_mm_speed. *)
ReplayHere ==
    /\ next \in 1 .. Len(ops) + 1
    /\ \E H : /\ History(H, ops) /\ Here(H[next - 1])
              /\ phase = "util" => Roomy(H[next - 1])

(* total_size counts the bytes of the payloads. *)
Bytes(bl, bs, A) == UNION {bl[i] .. bl[i] + bs[i] - 1 : i \in A}

Counted ==
    /\ total_size = Cardinality(Bytes(blocks, block_sizes, LiveIn(blocks)))
    /\ max_total_size \in Nat /\ max_total_size <= mem_brk - mem_start_brk

(* No payload is ever out of place. *)
Reported == {"none", "failed", "mm_init", "data"}

ServedInv ==
    /\ Mem(mem) /\ ops \in Seq(Requests) /\ block_sizes \in [Ids -> Nat]
    /\ phase \in {"off", "invalid", "valid", "util", "speed"}
    /\ report.why \in Reported
    /\ phase = "valid" => ValidHere
    /\ phase \in {"util", "speed"} => ReplayHere
    /\ phase = "util" => Counted

-----------------------------------------------------------------------------
(* Payloads *)

(* The low byte of an index. *)
LEMMA ByteFacts ==
  ASSUME Contract, NEW i \in Ids
  PROVE  /\ i % BYTE \in Nat /\ LowByte(i) = i % BYTE
         /\ PositiveChars => Char(i % BYTE) = i % BYTE
<1>1. i \in Nat /\ BYTE \in Nat /\ BYTE > 0
  BY DEF Contract, TraceContract
<1>2. i % BYTE \in Nat
  BY <1>1
<1>3. PositiveChars => Char(i % BYTE) = i % BYTE
  <2> SUFFICES ASSUME PositiveChars PROVE Char(i % BYTE) = i % BYTE
    OBVIOUS
  <2>1. BYTE = 256 /\ i % BYTE < 128
    BY DEF PositiveChars
  <2>2. (i % BYTE) % BYTE = i % BYTE
    BY <1>2, <2>1
  <2> QED BY <2>1, <2>2 DEF Char
<1> QED BY <1>2, <1>3 DEF LowByte

(* The first bytes of a payload. *)
LEMMA WordsFacts ==
  ASSUME Contract, NEW c, Sound(c), NEW p \in Payloads(c), NEW n \in Nat, n <= Capacity(c, p)
  PROVE  Words(p, n) \subseteq PayloadOf(c, p)
<1>1. p \in Nat /\ Capacity(c, p) \in Nat
  BY HeapFacts DEF Placed
<1> QED BY <1>1, RegionFacts DEF Words, PayloadOf

(* add_range accepts a payload. *)
LEMMA Accepted ==
  ASSUME Contract, NEW c, Sound(c), NEW p \in Payloads(c), NEW n \in Nat, n > 0,
         n <= Capacity(c, p), NEW A, NEW R,
         R = {RangeOf(i) : i \in A},
         \A i \in A : /\ blocks[i] \in Payloads(c) /\ blocks[i] # p
                      /\ block_sizes[i] \in Nat /\ block_sizes[i] > 0
                      /\ block_sizes[i] <= Capacity(c, blocks[i])
  PROVE  Acceptable(R, Break(c), p, n)
<1>1. /\ p \in Nat /\ p % 8 = 0 /\ mem_start_brk <= p /\ Capacity(c, p) \in Nat
      /\ p + Capacity(c, p) <= Break(c) /\ Break(c) \in Nat
  BY HeapFacts DEF Placed
<1>2. IS_ALIGNED(p) /\ InHeap(Break(c), p, p + n - 1)
  BY <1>1, RegionFacts DEF IS_ALIGNED, InHeap, mem_heap_lo, mem_heap_hi
<1>3. ~Overlaps(R, p, p + n - 1)
  <2> SUFFICES ASSUME NEW i \in A
               PROVE  LET r == RangeOf(i)
                      IN  ~((p >= r.lo /\ p <= r.hi)
                              \/ (p + n - 1 >= r.lo /\ p + n - 1 <= r.hi))
    BY DEF Overlaps
  <2>1. RangeOf(i).lo = blocks[i] /\ RangeOf(i).hi = blocks[i] + block_sizes[i] - 1
    BY DEF RangeOf
  <2>2. /\ blocks[i] \in Nat /\ Capacity(c, blocks[i]) \in Nat /\ block_sizes[i] \in Nat
        /\ block_sizes[i] <= Capacity(c, blocks[i])
    BY HeapFacts DEF Placed
  <2>3. p + Capacity(c, p) <= blocks[i] \/ blocks[i] + Capacity(c, blocks[i]) <= p
    BY HeapFacts DEF Apart
  <2>4. p + n <= blocks[i] \/ blocks[i] + block_sizes[i] <= p
    BY <2>2, <2>3, <1>1
  <2> QED BY <2>1, <2>2, <2>4, <1>1
<1> QED BY <1>2, <1>3 DEF Acceptable

(* What Moved says is what eval_mm_valid compares. *)
LEMMA DataHeld ==
  ASSUME Contract, PositiveChars, Filled, NEW op, op.index \in Ids, op.size \in Nat,
         blocks \in [Ids -> Nat], block_sizes \in [Ids -> Nat], NEW p \in Nat, NEW m2, NEW c,
         op.type # "a" => /\ op.index \in LiveIn(blocks)
                          /\ block_sizes[op.index] <= Capacity(c, blocks[op.index])
                          /\ Capacity(c, blocks[op.index]) \in Nat
                          /\ Moved(c, mem, m2, blocks[op.index], p, op.size)
  PROVE  DataKept(m2, p, op)
<1> DEFINE x == op.index
           n == Compared(op)
<1>1. SUFFICES ASSUME NEW a \in Words(p, n) PROVE Char(m2[a]) = LowByte(x)
  BY DEF DataKept
<1>2. op.type # "a"
  <2> SUFFICES ASSUME op.type = "a" PROVE FALSE
    OBVIOUS
  <2>1. n = 0
    BY DEF Compared
  <2>2. p <= a /\ a < p + 0 /\ a \in Nat
    BY <2>1, <1>1, RegionFacts DEF Words
  <2> QED BY <2>2
<1>3. n \in Nat /\ n <= op.size /\ n <= block_sizes[x] /\ block_sizes[x] \in Nat
  BY <1>2 DEF Compared
<1> HIDE DEF n
<1> DEFINE old == blocks[x]
           d == old + (a - p)
<1>4. d \in Words(old, n) /\ m2[a] = mem[d]
  <2>1. n <= Capacity(c, old)
    BY <1>2, <1>3
  <2> QED BY <1>1, <1>2, <1>3, <2>1 DEF Moved
<1> HIDE DEF d, old
<1>5. d \in Words(old, block_sizes[x])
  <2>1. d \in Addr /\ old <= d /\ d < old + n
    BY <1>4 DEF Words
  <2>2. old \in Nat
    BY DEF old
  <2> QED BY <2>1, <2>2, <1>3, RegionFacts DEF Words
<1>6. mem[d] = x % BYTE
  BY <1>2, <1>5 DEF Filled, old
<1> QED BY <1>4, <1>6, ByteFacts

-----------------------------------------------------------------------------
(* The steps of the driver *)

(* eval_mm_valid starts: mm_init makes the fresh heap, or fails. *)
LEMMA StartValidStep ==
  ASSUME Contract, ServedInv, StartValid
  PROVE  ServedInv' /\ report'.why # "data"
<1>1. [Heap EXCEPT !.brk = mem_start_brk] = [m |-> mem, brk |-> mem_start_brk, st |-> static]
  BY DEF Heap
<1>2. PICK r \in mm_init([m |-> mem, brk |-> mem_start_brk, st |-> static]) :
         /\ SetHeap(r.h)
         /\ phase' = IF r.p = NULL THEN "invalid" ELSE "valid"
         /\ report' = IF r.p = NULL THEN [NoReport EXCEPT !.why = "mm_init"] ELSE NoReport
  BY <1>1 DEF StartValid
<1>3. ops' = <<>> /\ ranges' = {} /\ blocks' = NoBlocks /\ block_sizes' = [i \in Ids |-> 0]
  BY DEF StartValid
<1>4. Mem(mem)
  BY DEF ServedInv
<1>5. /\ Mem(r.h.m) /\ (r.p # NULL <=> CanStart)
      /\ CanStart => \E m2 : r.h = HeapOf(m2, Fresh) /\ Holds(Fresh, m2)
  BY <1>2, <1>4, InitFacts
<1>6. mem' = r.h.m /\ mem_brk' = r.h.brk /\ static' = r.h.st
  BY <1>2 DEF SetHeap
<1>7. report'.why \in {"none", "mm_init"}
  BY <1>2 DEF NoReport
<1>8. /\ ops' \in Seq(Requests) /\ block_sizes' \in [Ids -> Nat] /\ Mem(mem)'
  BY <1>3, <1>5, <1>6 DEF Mem, Addr, mem_max_addr
<1>9. CASE phase' # "valid"
  BY <1>2, <1>7, <1>8, <1>9 DEF ServedInv, Reported
<1>10. CASE phase' = "valid"
  <2>1. CanStart
    BY <1>2, <1>5, <1>10
  <2>2. PICK m2 : r.h = HeapOf(m2, Fresh) /\ Holds(Fresh, m2)
    BY <2>1, <1>5
  <2>3. mem' = m2 /\ mem_brk' = Break(Fresh) /\ static' = Statics(Fresh)
    BY <1>6, <2>2, HeapParts
  <2>4. PICK H : History(H, <<>>) /\ H[0] = FreshState
    BY <2>1, HistoryStart
  <2>5. Here(FreshState)'
    BY <1>3, <2>2, <2>3 DEF Here, FreshState, NoBlocks
  <2>6. LiveIn(blocks)' = {}
    BY <1>3 DEF LiveIn, NoBlocks
  <2>7. \A s : Roomy(s)'
    BY <2>6 DEF Roomy
  <2>8. Filled' /\ (ranges = {RangeOf(i) : i \in LiveIn(blocks)})'
    BY <1>3, <2>6 DEF Filled
  <2>9. ValidHere'
    BY <1>3, <2>4, <2>5, <2>7, <2>8 DEF ValidHere
  <2> QED BY <1>7, <1>8, <1>10, <2>9 DEF ServedInv, Reported
<1> QED BY <1>7, <1>9, <1>10

(* The payloads of the other indices, before and after a request. *)
LEMMA OthersStay ==
  ASSUME Contract, NEW s, Good(s), Here(s), Roomy(s), block_sizes \in [Ids -> Nat],
         NEW x \in Ids, NEW s2, Good(s2), Steady(s.c, Others(s, x), s2.c)
  PROVE  \A i \in LiveIn(blocks) \ {x} :
            /\ i \in Ids /\ blocks[i] \in Others(s, x) /\ blocks[i] \in Payloads(s2.c)
            /\ block_sizes[i] \in Nat /\ block_sizes[i] > 0
            /\ block_sizes[i] <= Capacity(s2.c, blocks[i])
            /\ Words(blocks[i], block_sizes[i]) \subseteq PayloadOf(s.c, blocks[i])
<1> SUFFICES ASSUME NEW i \in LiveIn(blocks) \ {x}
             PROVE  /\ i \in Ids /\ blocks[i] \in Others(s, x) /\ blocks[i] \in Payloads(s2.c)
                    /\ block_sizes[i] \in Nat /\ block_sizes[i] > 0
                    /\ block_sizes[i] <= Capacity(s2.c, blocks[i])
                    /\ Words(blocks[i], block_sizes[i]) \subseteq PayloadOf(s.c, blocks[i])
  OBVIOUS
<1>1. blocks = s.bl /\ i \in Ids /\ Sound(s.c) /\ blocks[i] \in Payloads(s.c)
  BY DEF Here, Good, LiveIn
<1>2. blocks[i] \in Others(s, x)
  BY <1>1 DEF Others
<1>3. blocks[i] \in Payloads(s2.c) /\ Capacity(s2.c, blocks[i]) = Capacity(s.c, blocks[i])
  BY <1>2 DEF Steady
<1>4. /\ block_sizes[i] > 0 /\ block_sizes[i] <= Capacity(s.c, blocks[i])
      /\ block_sizes[i] \in Nat
  BY <1>1 DEF Roomy
<1>5. Words(blocks[i], block_sizes[i]) \subseteq PayloadOf(s.c, blocks[i])
  BY <1>1, <1>4, WordsFacts
<1> QED BY <1>1, <1>2, <1>3, <1>4, <1>5

(* The driver's bookkeeping after an allocation. *)
LEMMA RoomyAfter ==
  ASSUME Contract, NEW s, Good(s), Here(s), Roomy(s), block_sizes \in [Ids -> Nat],
         NEW x \in Ids, NEW s2, Good(s2), Steady(s.c, Others(s, x), s2.c),
         blocks' = s2.bl, blocks'[x] # NULL, \A i \in Ids \ {x} : blocks'[i] = blocks[i],
         block_sizes'[x] > 0, block_sizes'[x] <= Capacity(s2.c, blocks'[x]),
         \A i \in Ids \ {x} : block_sizes'[i] = block_sizes[i]
  PROVE  /\ LiveIn(blocks') = (LiveIn(blocks) \ {x}) \cup {x}
         /\ \A i \in LiveIn(blocks') :
               block_sizes'[i] > 0 /\ block_sizes'[i] <= Capacity(s2.c, blocks'[i])
<1>1. LiveIn(blocks') = (LiveIn(blocks) \ {x}) \cup {x}
  BY DEF LiveIn
<1>2. \A i \in LiveIn(blocks) \ {x} :
         i \in Ids /\ block_sizes[i] > 0 /\ block_sizes[i] <= Capacity(s2.c, blocks[i])
  BY OthersStay
<1> QED BY <1>1, <1>2

(* The state the requests so far have led to. *)
LEMMA ValidState ==
  ASSUME ServedInv, phase = "valid"
  PROVE  \E H, s : /\ History(H, ops) /\ s = H[Len(ops)] /\ Good(s) /\ Here(s) /\ Roomy(s)
                   /\ Filled /\ ranges = {RangeOf(i) : i \in LiveIn(blocks)}
                   /\ Len(ops) \in Nat /\ blocks = s.bl /\ blocks \in [Ids -> Nat]
                   /\ block_sizes \in [Ids -> Nat]
                   /\ \A i, j \in LiveIn(blocks) : blocks[i] = blocks[j] => i = j
<1>1. ops \in Seq(Requests) /\ Len(ops) \in Nat /\ ValidHere /\ block_sizes \in [Ids -> Nat]
  BY DEF ServedInv
<1>2. PICK H : History(H, ops) /\ Here(H[Len(ops)]) /\ Roomy(H[Len(ops)])
  BY <1>1 DEF ValidHere
<1> DEFINE s == H[Len(ops)]
<1>3. Len(ops) \in 0 .. Len(ops)
  BY <1>1
<1>4. Good(s)
  BY <1>2, <1>3 DEF History
<1>5. blocks = s.bl /\ blocks \in [Ids -> Nat]
      /\ \A i, j \in LiveIn(blocks) : blocks[i] = blocks[j] => i = j
  BY <1>2, <1>4 DEF Here, Good
<1> QED BY <1>1, <1>2, <1>4, <1>5 DEF ValidHere

(* The list of ranges without that of one payload. *)
LEMMA Removed ==
  ASSUME ranges = {RangeOf(i) : i \in LiveIn(blocks)}, NEW x \in LiveIn(blocks),
         \A i, j \in LiveIn(blocks) : blocks[i] = blocks[j] => i = j
  PROVE  remove_range(ranges, blocks[x]) = {RangeOf(i) : i \in LiveIn(blocks) \ {x}}
<1>1. \A j : RangeOf(j).lo = blocks[j]
  BY DEF RangeOf
<1> HIDE DEF RangeOf
<1> QED BY <1>1 DEF remove_range

(* What eval_mm_valid writes to the payload it has been given. *)
LEMMA FillFacts ==
  ASSUME Contract, NEW c, Sound(c), NEW m, Holds(c, m), NEW p \in Payloads(c),
         NEW n \in Nat, n <= Capacity(c, p), NEW v \in Nat, NEW m2, m2 = memset(m, p, v, n)
  PROVE  /\ Mem(m2) /\ Holds(c, m2) /\ \A a \in Words(p, n) : m2[a] = v
         /\ \A q \in Payloads(c) \ {p} : \A a \in PayloadOf(c, q) : m2[a] = m[a]
<1>1. Mem(m) /\ Words(p, n) \subseteq PayloadOf(c, p) /\ Words(p, n) \subseteq Addr
  BY HoldsMem, WordsFacts DEF Words
<1>2. /\ Mem(m2) /\ \A a \in Words(p, n) : m2[a] = v
      /\ \A a \in Addr \ Words(p, n) : m2[a] = m[a]
  BY <1>1 DEF memset, Mem
<1>3. Holds(c, m2)
  BY <1>1, <1>2, WriteFacts
<1>4. ASSUME NEW q \in Payloads(c) \ {p}, NEW a \in PayloadOf(c, q)
      PROVE  a \in Addr /\ a \notin PayloadOf(c, p)
  <2>1. /\ p \in Nat /\ q \in Nat /\ Capacity(c, p) \in Nat /\ Capacity(c, q) \in Nat
        /\ p + Capacity(c, p) <= q \/ q + Capacity(c, q) <= p
    BY HeapFacts DEF Placed, Apart
  <2>2. a \in Addr /\ a \in Nat /\ q <= a /\ a < q + Capacity(c, q)
    BY RegionFacts DEF PayloadOf, Words
  <2>3. ~(p <= a /\ a < p + Capacity(c, p))
    BY <2>1, <2>2
  <2> QED BY <2>2, <2>3 DEF PayloadOf, Words
<1> QED BY <1>1, <1>2, <1>3, <1>4

(* A request that is refused ends the pass. *)
LEMMA RefusedStep ==
  ASSUME ServedInv, NEW op, NEW r, NEW R, Refuses(r), Judge(r, R, op),
         ops' \in Seq(Requests)
  PROVE  ServedInv' /\ report'.why # "data"
<1>1. /\ phase' = "invalid" /\ report'.why = "failed" /\ block_sizes' = block_sizes
      /\ SetHeap(r.h)
  BY DEF Refuses, Judge, Invalid
<1>2. Mem(mem)'
  BY <1>1 DEF Refuses, SetHeap, Mem, Addr, mem_max_addr
<1> QED BY <1>1, <1>2 DEF ServedInv, Reported

(* The payload of a request is accepted; its data is judged. *)
LEMMA JudgedStep ==
  ASSUME Contract, ServedInv, NEW op, NEW r, NEW R, NEW c, Sound(c), NEW m2, Holds(c, m2),
         r.h = HeapOf(m2, c), r.p # NULL, Acceptable(R, Break(c), r.p, op.size),
         Judge(r, R, op), ops' \in Seq(Requests)
  PROVE  \/ ~DataKept(m2, r.p, op) /\ ServedInv'
         \/ /\ phase' = phase /\ report' = report
            /\ mem' = memset(m2, r.p, LowByte(op.index), op.size)
            /\ mem_brk' = Break(c) /\ static' = Statics(c)
            /\ ranges' = add_range(R, r.p, op.size)
            /\ blocks' = [blocks EXCEPT ![op.index] = r.p]
            /\ block_sizes' = [block_sizes EXCEPT ![op.index] = op.size]
<1>1. r.h.m = m2 /\ r.h.brk = Break(c) /\ \A v : [r.h EXCEPT !.m = v] = HeapOf(v, c)
  BY HeapParts
<1>2. CASE ~DataKept(m2, r.p, op)
  <2>1. /\ phase' = "invalid" /\ report'.why = "data" /\ block_sizes' = block_sizes
        /\ SetHeap(r.h)
    BY <1>1, <1>2 DEF Judge, Invalid
  <2>2. Mem(m2)
    BY HoldsMem
  <2>3. Mem(mem)'
    BY <2>1, <2>2, <1>1 DEF SetHeap, Mem, Addr, mem_max_addr
  <2> QED BY <2>1, <2>3, <1>2 DEF ServedInv, Reported
<1>3. CASE DataKept(m2, r.p, op)
  <2> DEFINE m3 == memset(m2, r.p, LowByte(op.index), op.size)
  <2>1. /\ SetHeap([r.h EXCEPT !.m = memset(r.h.m, r.p, LowByte(op.index), op.size)])
        /\ ranges' = add_range(R, r.p, op.size)
        /\ Remember(op, r.p) /\ phase' = phase /\ report' = report
    BY <1>1, <1>3 DEF Judge
  <2>2. SetHeap(HeapOf(m3, c))
    <3>1. memset(r.h.m, r.p, LowByte(op.index), op.size) = m3
      BY <1>1
    <3> HIDE DEF m3
    <3> QED BY <3>1, <2>1, <1>1
  <2> HIDE DEF m3
  <2>3. mem' = m3 /\ mem_brk' = Break(c) /\ static' = Statics(c)
    BY <2>2, HeapParts DEF SetHeap
  <2> QED BY <2>1, <2>3 DEF Remember, m3
<1> QED BY <1>2, <1>3

(* eval_mm_valid plays an allocating request. *)
LEMMA ValidObtainStep ==
  ASSUME Contract, ServedInv, NEW op \in Requests, ValidObtain(op)
  PROVE  ServedInv' /\ (PositiveChars => report'.why # "data" \/ report' = report)
<1> DEFINE x == op.index
           R == IF op.type = "a" THEN ranges ELSE remove_range(ranges, blocks[x])
           others == LiveIn(blocks) \ {x}
           n == op.size
<1>1. PICK r \in Outcomes(op) : Judge(r, R, op)
  BY DEF ValidObtain
<1>2. phase = "valid" /\ op.type # "f" /\ Legal(op) /\ ops' = Append(ops, op)
  BY DEF ValidObtain, ValidRequest
<1>3. PICK H, s : /\ History(H, ops) /\ s = H[Len(ops)] /\ Good(s) /\ Here(s) /\ Roomy(s)
                  /\ Filled /\ ranges = {RangeOf(i) : i \in LiveIn(blocks)}
                  /\ Len(ops) \in Nat /\ blocks = s.bl /\ blocks \in [Ids -> Nat]
                  /\ block_sizes \in [Ids -> Nat]
                  /\ \A i, j \in LiveIn(blocks) : blocks[i] = blocks[j] => i = j
  BY <1>2, ValidState
<1>4. x \in Ids /\ n \in Sizes /\ n \in Nat /\ op.type \in {"a", "r"}
  BY <1>2, RequestFacts DEF Contract, TraceContract
<1>5. LegalIn(s, op) /\ (op.type = "a" <=> x \notin LiveIn(blocks))
  BY <1>2, <1>3, <1>4 DEF Legal, LegalIn, LiveIn
<1>6. R = {RangeOf(i) : i \in others}
  <2>1. CASE op.type = "a"
    BY <2>1, <1>3, <1>5
  <2>2. CASE op.type # "a"
    BY <2>2, <1>3, <1>5, Removed
  <2> QED BY <2>1, <2>2
<1>7. ops \in Seq(Requests) /\ ops' \in Seq(Requests)
  BY <1>2 DEF ServedInv
<1>8. PICK s2 : s2 = After(s, op)
  OBVIOUS
<1>9. Good(s) /\ Here(s) /\ Roomy(s) /\ block_sizes \in [Ids -> Nat] /\ blocks = s.bl
  BY <1>3
<1> HIDE DEF R, others, x
<1>10. /\ ~RoomIn(s, op) => Refuses(r)
       /\ RoomIn(s, op) =>
            \E m2 : /\ r.p = s2.bl[x] /\ r.h = HeapOf(m2, s2.c) /\ Holds(s2.c, m2)
                    /\ Untouched(s, x, m2)
                    /\ op.type = "r" => Moved(s.c, mem, m2, s.bl[x], r.p, n)
  BY <1>2, <1>5, <1>8, <1>9, ObtainHere DEF x
<1>11. CASE ~RoomIn(s, op)
  BY <1>1, <1>7, <1>10, <1>11, RefusedStep
<1>12. CASE RoomIn(s, op)
  <2>1. PICK m2 : /\ r.p = s2.bl[x] /\ r.h = HeapOf(m2, s2.c) /\ Holds(s2.c, m2)
                  /\ Untouched(s, x, m2)
                  /\ op.type = "r" => Moved(s.c, mem, m2, s.bl[x], r.p, n)
    BY <1>10, <1>12
  <2> DEFINE p == Given(s.c, n)
  <2>2. /\ Good(s2) /\ s2.bl = [s.bl EXCEPT ![x] = p] /\ s2.bl[x] = p /\ p # NULL
        /\ p \in Payloads(s2.c) /\ p \notin Others(s, x)
        /\ n > 0 /\ n <= Capacity(s2.c, p)
        /\ Steady(s.c, Others(s, x), s2.c)
    BY <1>2, <1>4, <1>5, <1>8, <1>9, <1>12, AfterObtain DEF x
  <2> HIDE DEF p
  <2>3. /\ \A i \in others :
              /\ i \in Ids /\ blocks[i] \in Others(s, x) /\ blocks[i] \in Payloads(s2.c)
              /\ block_sizes[i] \in Nat /\ block_sizes[i] > 0
              /\ block_sizes[i] <= Capacity(s2.c, blocks[i])
              /\ Words(blocks[i], block_sizes[i]) \subseteq PayloadOf(s.c, blocks[i])
    BY <1>4, <1>9, <2>2, OthersStay DEF others
  <2>4. Sound(s2.c) /\ r.p = p /\ p \in Nat
    BY <2>1, <2>2, HeapFacts DEF Good, Placed
  <2>5. Acceptable(R, Break(s2.c), p, n)
    <3>1. \A i \in others : /\ blocks[i] \in Payloads(s2.c) /\ blocks[i] # p
                            /\ block_sizes[i] \in Nat /\ block_sizes[i] > 0
                            /\ block_sizes[i] <= Capacity(s2.c, blocks[i])
      BY <2>2, <2>3
    <3> QED BY <3>1, <2>2, <2>4, <1>4, <1>6, Accepted
  <2>6. PositiveChars => DataKept(m2, p, op)
    <3>1. op.type # "a" => /\ x \in LiveIn(blocks)
                           /\ block_sizes[x] <= Capacity(s.c, blocks[x])
                           /\ Capacity(s.c, blocks[x]) \in Nat
                           /\ Moved(s.c, mem, m2, blocks[x], p, n)
      <4> SUFFICES ASSUME op.type # "a"
                   PROVE  /\ x \in LiveIn(blocks)
                          /\ block_sizes[x] <= Capacity(s.c, blocks[x])
                          /\ Capacity(s.c, blocks[x]) \in Nat
                          /\ Moved(s.c, mem, m2, blocks[x], p, n)
        OBVIOUS
      <4>1. x \in LiveIn(blocks) /\ block_sizes[x] <= Capacity(s.c, blocks[x])
        BY <1>5, <1>9 DEF Roomy
      <4>2. blocks[x] \in Payloads(s.c) /\ Sound(s.c)
        BY <4>1, <1>9 DEF Good
      <4>3. Capacity(s.c, blocks[x]) \in Nat
        BY <4>2, HeapFacts DEF Placed
      <4> QED BY <4>1, <4>3, <2>1, <2>4, <1>4, <1>9
    <3> QED BY <3>1, <1>3, <1>4, <2>4, DataHeld DEF x
  <2>7. \/ ~DataKept(m2, p, op) /\ ServedInv'
        \/ /\ phase' = phase /\ report' = report
           /\ mem' = memset(m2, p, LowByte(x), n)
           /\ mem_brk' = Break(s2.c) /\ static' = Statics(s2.c)
           /\ ranges' = add_range(R, p, n)
           /\ blocks' = [blocks EXCEPT ![x] = p]
           /\ block_sizes' = [block_sizes EXCEPT ![x] = n]
    BY <1>1, <1>7, <2>1, <2>2, <2>4, <2>5, JudgedStep DEF x
  <2>8. CASE ~DataKept(m2, p, op) /\ ServedInv'
    BY <2>6, <2>8
  <2>9. CASE /\ phase' = phase /\ report' = report
             /\ mem' = memset(m2, p, LowByte(x), n)
             /\ mem_brk' = Break(s2.c) /\ static' = Statics(s2.c)
             /\ ranges' = add_range(R, p, n)
             /\ blocks' = [blocks EXCEPT ![x] = p]
             /\ block_sizes' = [block_sizes EXCEPT ![x] = n]
    <3>1. x % BYTE \in Nat /\ mem' = memset(m2, p, x % BYTE, n)
      BY <2>9, <1>4, ByteFacts
    <3>2. /\ Mem(mem') /\ Holds(s2.c, mem') /\ \A a \in Words(p, n) : mem'[a] = x % BYTE
          /\ \A q \in Payloads(s2.c) \ {p} : \A a \in PayloadOf(s2.c, q) : mem'[a] = m2[a]
      BY <3>1, <1>4, <2>1, <2>2, <2>4, FillFacts
    <3>3. /\ block_sizes' \in [Ids -> Nat] /\ blocks' = s2.bl
          /\ blocks'[x] = p /\ block_sizes'[x] = n
          /\ \A i \in Ids \ {x} : blocks'[i] = blocks[i]
          /\ \A i \in Ids \ {x} : block_sizes'[i] = block_sizes[i]
      BY <2>9, <1>3, <1>4, <2>2
    <3>4. /\ LiveIn(blocks') = others \cup {x}
          /\ \A i \in LiveIn(blocks') :
                block_sizes'[i] > 0 /\ block_sizes'[i] <= Capacity(s2.c, blocks'[i])
      BY <1>4, <1>9, <2>2, <3>3, RoomyAfter DEF others
    <3>5. \A i \in others : i \in Ids \ {x}
      BY DEF others, LiveIn
    <3>6. Roomy(s2)'
      BY <3>4 DEF Roomy
    <3>7. Filled'
      <4> SUFFICES ASSUME NEW i \in LiveIn(blocks'), NEW a \in Words(blocks'[i], block_sizes'[i])
                   PROVE  mem'[a] = i % BYTE
        BY DEF Filled, Words, Addr, mem_max_addr
      <4>1. CASE i = x
        BY <4>1, <3>2, <3>3
      <4>2. CASE i # x
        <5>1. i \in others /\ a \in Words(blocks[i], block_sizes[i])
          BY <4>2, <3>3, <3>4, <3>5
        <5>2. mem[a] = i % BYTE
          BY <5>1, <1>3 DEF Filled, others
        <5>3. m2[a] = mem[a]
          BY <5>1, <2>1, <2>3 DEF Untouched, Kept
        <5>4. blocks[i] \in Payloads(s2.c) \ {p} /\ a \in PayloadOf(s2.c, blocks[i])
          BY <5>1, <2>2, <2>3, <2>4, WordsFacts
        <5> QED BY <5>2, <5>3, <5>4, <3>2
      <4> QED BY <4>1, <4>2
    <3>8. (ranges = {RangeOf(i) : i \in LiveIn(blocks)})'
      <4>1. \A i \in others : RangeOf(i)' = RangeOf(i)
        BY <3>3, <3>5 DEF RangeOf
      <4>2. RangeOf(x)' = [lo |-> p, hi |-> p + n - 1]
        BY <3>3 DEF RangeOf
      <4>3. ranges' = {RangeOf(i) : i \in others} \cup {[lo |-> p, hi |-> p + n - 1]}
        BY <2>9, <1>6 DEF add_range
      <4>4. ranges' = {RangeOf(i)' : i \in LiveIn(blocks')}
        BY <3>4, <4>1, <4>2, <4>3
      <4> QED BY <4>4 DEF RangeOf
    <3>9. Here(s2)'
      BY <2>9, <3>2, <3>3 DEF Here
    <3>10. \E H2 : History(H2, ops') /\ H2[Len(ops')] = s2
      BY <1>2, <1>3, <1>5, <1>7, <1>8, <1>12, <2>2, HistoryAppend
    <3>11. ValidHere'
      BY <3>6, <3>7, <3>8, <3>9, <3>10 DEF ValidHere
    <3>12. Mem(mem)'
      BY <3>2 DEF Mem, Addr, mem_max_addr
    <3> QED BY <1>2, <1>7, <2>9, <3>3, <3>11, <3>12 DEF ServedInv, Reported
  <2> QED BY <2>7, <2>8, <2>9
<1> QED BY <1>11, <1>12

(* A free: the heap, and the payloads that remain. *)
LEMMA ReleaseHere ==
  ASSUME Contract, NEW s, Good(s), Here(s), NEW op \in Requests, op.type = "f",
         LegalIn(s, op), NEW r \in mm_free(Heap, blocks[op.index]),
         mem' = r.h.m, mem_brk' = r.h.brk, static' = r.h.st,
         NEW x, x = op.index, blocks' = [blocks EXCEPT ![x] = NULL],
         NEW s2, s2 = After(s, op)
  PROVE  /\ Good(s2) /\ RoomIn(s, op) /\ x \in LiveIn(blocks)
         /\ Here(s2)' /\ mem_brk <= mem_brk'
         /\ LiveIn(blocks') = LiveIn(blocks) \ {x}
         /\ Steady(s.c, Others(s, x), s2.c) /\ Untouched(s, x, mem')
<1>1. x \in Ids
  BY RequestFacts
<1>2. /\ blocks = s.bl /\ mem_brk = Break(s.c) /\ Sound(s.c) /\ Holds(s.c, mem)
      /\ \A i \in LiveIn(s.bl) : s.bl[i] \in Payloads(s.c)
      /\ \A i, j \in LiveIn(s.bl) : s.bl[i] = s.bl[j] => i = j
  BY DEF Good, Here
<1>3. /\ Good(s2) /\ Break(s.c) <= Break(s2.c) /\ x \in LiveIn(s.bl)
      /\ s2.bl = [s.bl EXCEPT ![x] = NULL]
      /\ LiveIn(s2.bl) = LiveIn(s.bl) \ {x}
      /\ Steady(s.c, Others(s, x), s2.c)
  BY <1>1, AfterRelease
<1> DEFINE old == s.bl[x]
<1>4. Heap = HeapOf(mem, s.c)
  BY DEF Here, Heap, HeapOf
<1>5. s2.c = Released(s.c, old) /\ old \in Payloads(s.c)
  BY <1>2, <1>3 DEF After, HeapAfter
<1> HIDE DEF old
<1>6. Frees(s.c, old, mem, r)
  <2>1. r \in mm_free(HeapOf(mem, s.c), old)
    BY <1>2, <1>4 DEF old
  <2> QED BY <2>1, <1>2, <1>5, FreeFacts
<1>7. PICK m2 : /\ r.h = HeapOf(m2, s2.c) /\ Holds(s2.c, m2)
                /\ Kept(s.c, Payloads(s.c) \ {old}, mem, m2)
  BY <1>5, <1>6 DEF Frees
<1>8. mem' = m2 /\ mem_brk' = Break(s2.c) /\ static' = Statics(s2.c)
  BY <1>7, HeapParts
<1>9. Untouched(s, x, mem')
  <2>1. \A q \in Others(s, x) : q \in Payloads(s.c) \ {old}
    BY <1>2, <1>3 DEF Others, old
  <2> QED BY <2>1, <1>7, <1>8 DEF Untouched, Kept
<1>10. RoomIn(s, op)
  BY DEF RoomIn
<1>11. Here(s2)'
  BY <1>2, <1>3, <1>7, <1>8 DEF Here
<1> QED BY <1>2, <1>3, <1>8, <1>9, <1>10, <1>11

(* eval_mm_valid plays a free. *)
LEMMA ValidFreeStep ==
  ASSUME Contract, ServedInv, NEW op \in Requests, ValidFree(op)
  PROVE  ServedInv' /\ report' = report
<1> DEFINE x == op.index
<1>1. /\ phase = "valid" /\ op.type = "f" /\ Legal(op) /\ ops' = Append(ops, op)
      /\ ranges' = remove_range(ranges, blocks[x])
      /\ blocks' = [blocks EXCEPT ![x] = NULL]
      /\ block_sizes' = block_sizes /\ phase' = phase /\ report' = report
  BY DEF ValidFree, ValidRequest
<1>2. PICK r \in mm_free(Heap, blocks[x]) : SetHeap(r.h)
  BY DEF ValidFree
<1>3. PICK H, s : /\ History(H, ops) /\ s = H[Len(ops)] /\ Good(s) /\ Here(s) /\ Roomy(s)
                  /\ Filled /\ ranges = {RangeOf(i) : i \in LiveIn(blocks)}
                  /\ Len(ops) \in Nat /\ blocks = s.bl /\ blocks \in [Ids -> Nat]
                  /\ block_sizes \in [Ids -> Nat]
                  /\ \A i, j \in LiveIn(blocks) : blocks[i] = blocks[j] => i = j
  BY <1>1, ValidState
<1>4. x \in Ids /\ LegalIn(s, op)
  BY <1>1, <1>3, RequestFacts DEF Legal, LegalIn
<1>5. Good(s) /\ Here(s) /\ Roomy(s) /\ block_sizes \in [Ids -> Nat]
  BY <1>3
<1>6. PICK s2 : s2 = After(s, op)
  OBVIOUS
<1>7. /\ Good(s2) /\ RoomIn(s, op) /\ x \in LiveIn(blocks)
      /\ mem_brk' = Break(s2.c) /\ static' = Statics(s2.c) /\ Holds(s2.c, mem')
      /\ blocks' = s2.bl /\ LiveIn(blocks') = LiveIn(blocks) \ {x}
      /\ Steady(s.c, Others(s, x), s2.c) /\ Untouched(s, x, mem')
  <2>1. /\ Good(s) /\ Here(s) /\ op.type = "f" /\ blocks' = [blocks EXCEPT ![x] = NULL]
        /\ x = op.index
    BY <1>1, <1>5
  <2>2. /\ r \in mm_free(Heap, blocks[op.index])
        /\ mem' = r.h.m /\ mem_brk' = r.h.brk /\ static' = r.h.st
    BY <1>2 DEF SetHeap
  <2> HIDE DEF x
  <2>3. /\ Good(s2) /\ RoomIn(s, op) /\ x \in LiveIn(blocks)
        /\ LiveIn(blocks') = LiveIn(blocks) \ {x}
        /\ Steady(s.c, Others(s, x), s2.c) /\ Untouched(s, x, mem')
    BY <2>1, <2>2, <1>4, <1>6, ReleaseHere
  <2>4. Here(s2)'
    BY <2>1, <2>2, <1>4, <1>6, ReleaseHere
  <2> QED BY <2>3, <2>4 DEF Here
<1> HIDE DEF x
<1>8. \A i \in LiveIn(blocks') :
            /\ blocks'[i] = blocks[i] /\ block_sizes[i] > 0
            /\ blocks[i] \in Others(s, x)
            /\ block_sizes[i] <= Capacity(s2.c, blocks[i])
            /\ Words(blocks[i], block_sizes[i]) \subseteq PayloadOf(s.c, blocks[i])
  <2>1. \A i \in LiveIn(blocks) \ {x} :
            /\ block_sizes[i] > 0 /\ blocks[i] \in Others(s, x)
            /\ block_sizes[i] <= Capacity(s2.c, blocks[i])
            /\ Words(blocks[i], block_sizes[i]) \subseteq PayloadOf(s.c, blocks[i])
    BY <1>4, <1>5, <1>7, OthersStay
  <2>2. \A i \in LiveIn(blocks) \ {x} : blocks'[i] = blocks[i]
    BY <1>1, <1>3 DEF LiveIn
  <2> QED BY <2>1, <2>2, <1>7
<1>9. Roomy(s2)'
  BY <1>1, <1>7, <1>8 DEF Roomy
<1>10. Filled'
  <2> SUFFICES ASSUME NEW i \in LiveIn(blocks'), NEW a \in Words(blocks'[i], block_sizes'[i])
               PROVE  mem'[a] = i % BYTE
    BY DEF Filled, Words, Addr, mem_max_addr
  <2>1. i \in LiveIn(blocks) /\ a \in Words(blocks[i], block_sizes[i])
    BY <1>1, <1>7, <1>8
  <2>2. mem[a] = i % BYTE
    BY <2>1, <1>3 DEF Filled
  <2>3. mem'[a] = mem[a]
    BY <2>1, <1>7, <1>8 DEF Untouched, Kept
  <2> QED BY <2>2, <2>3
<1>11. (ranges = {RangeOf(i) : i \in LiveIn(blocks)})'
  <2>1. ranges' = {RangeOf(i) : i \in LiveIn(blocks')}
    BY <1>1, <1>3, <1>7, Removed
  <2>2. \A i \in LiveIn(blocks') : RangeOf(i)' = RangeOf(i)
    BY <1>1, <1>8 DEF RangeOf
  <2>3. ranges' = {RangeOf(i)' : i \in LiveIn(blocks')}
    BY <2>1, <2>2
  <2> QED BY <2>3 DEF RangeOf
<1>12. Here(s2)'
  BY <1>7 DEF Here
<1>13. ops \in Seq(Requests) /\ ops' \in Seq(Requests)
  BY <1>1 DEF ServedInv
<1>14. \E H2 : History(H2, ops') /\ H2[Len(ops')] = s2
  <2>1. History(H, ops) /\ s = H[Len(ops)] /\ RoomIn(s, op) /\ Good(s2) /\ LegalIn(s, op)
    BY <1>3, <1>4, <1>7
  <2>2. \E H2 : History(H2, Append(ops, op)) /\ H2[Len(Append(ops, op))] = s2
    BY <2>1, <1>6, <1>13, HistoryAppend
  <2> QED BY <2>2, <1>1
<1>15. ValidHere'
  BY <1>9, <1>10, <1>11, <1>12, <1>14 DEF ValidHere
<1>16. Mem(mem)'
  <2>1. Mem(mem')
    BY <1>7, HoldsMem DEF Good
  <2> QED BY <2>1 DEF Mem, Addr, mem_max_addr
<1>17. report'.why \in Reported
  BY <1>1 DEF ServedInv
<1> QED BY <1>1, <1>5, <1>13, <1>15, <1>16, <1>17 DEF ServedInv

-----------------------------------------------------------------------------
(* Utilization *)

(* Each payload has its size in bs. *)
HeldIn(s, bs) ==
    \A i \in LiveIn(s.bl) : bs[i] > 0 /\ bs[i] <= Capacity(s.c, s.bl[i])

(* The payloads are apart, so their bytes add up, and lie in the heap. *)
LEMMA StateBytes ==
  ASSUME Contract, NEW s, Good(s), NEW bs \in [Ids -> Nat], HeldIn(s, bs),
         NEW x \in LiveIn(s.bl)
  PROVE  /\ Cardinality(Bytes(s.bl, bs, LiveIn(s.bl))) \in Nat
         /\ Cardinality(Bytes(s.bl, bs, LiveIn(s.bl) \ {x})) \in Nat
         /\ Cardinality(Bytes(s.bl, bs, LiveIn(s.bl))) <= Break(s.c) - mem_start_brk
         /\ Cardinality(Bytes(s.bl, bs, LiveIn(s.bl)))
               = Cardinality(Bytes(s.bl, bs, LiveIn(s.bl) \ {x})) + bs[x]
<1> DEFINE c == s.c
           k == Break(c)
           bl == s.bl
<1>0. /\ Sound(c) /\ bl \in [Ids -> Nat]
      /\ \A i \in LiveIn(bl) : bl[i] \in Payloads(c) /\ bs[i] > 0 /\ bs[i] <= Capacity(c, bl[i])
      /\ \A i, j \in LiveIn(bl) : bl[i] = bl[j] => i = j
      /\ x \in LiveIn(bl)
  BY DEF Good, HeldIn
<1> HIDE DEF c, bl
<1> DEFINE all == Bytes(bl, bs, LiveIn(bl))
           rest == Bytes(bl, bs, LiveIn(bl) \ {x})
           one == bl[x] .. bl[x] + bs[x] - 1
           heap == mem_start_brk .. k - 1
<1>1. /\ k \in Nat /\ mem_start_brk \in Nat /\ mem_start_brk <= k
      /\ \A p \in Payloads(c) : Placed(c, p)
      /\ \A p, q \in Payloads(c) : p # q => Apart(c, p, q)
  BY <1>0, RegionFacts, HeapFacts
<1>2. \A i \in LiveIn(bl) : /\ i \in Ids /\ bl[i] \in Nat /\ bs[i] \in Nat /\ mem_start_brk <= bl[i]
                            /\ Capacity(c, bl[i]) \in Nat /\ bl[i] + Capacity(c, bl[i]) <= k
  BY <1>0, <1>1 DEF LiveIn, Placed
<1> HIDE DEF k
<1>3. ASSUME NEW i \in LiveIn(bl) PROVE bl[i] .. bl[i] + bs[i] - 1 \subseteq heap
  <2>1. bl[i] + bs[i] <= k
    BY <1>0, <1>1, <1>2
  <2> QED BY <2>1, <1>1, <1>2
<1>4. all \subseteq heap /\ rest \subseteq heap /\ one \subseteq heap
  BY <1>0, <1>3 DEF Bytes
<1>5. IsFiniteSet(heap) /\ Cardinality(heap) = k - mem_start_brk
  <2>1. CASE mem_start_brk < k
    <3>1. k - 1 \in Int /\ mem_start_brk \in Int /\ ~(mem_start_brk > k - 1)
      BY <2>1, <1>1
    <3>2. IsFiniteSet(heap) /\ Cardinality(heap) = (k - 1) - mem_start_brk + 1
      BY <3>1, FS_Interval
    <3>3. (k - 1) - mem_start_brk + 1 = k - mem_start_brk
      BY <1>1
    <3> QED BY <3>2, <3>3
  <2>2. CASE mem_start_brk = k
    <3>1. heap = {} /\ k - mem_start_brk = 0
      BY <2>2, <1>1
    <3> HIDE DEF heap
    <3> QED BY <3>1, FS_EmptySet
  <2> QED BY <2>1, <2>2, <1>1
<1>6. all = rest \cup one
  BY <1>0 DEF Bytes
<1>7. rest \cap one = {}
  <2> SUFFICES ASSUME NEW i \in LiveIn(bl) \ {x}, NEW a \in bl[i] .. bl[i] + bs[i] - 1, a \in one
               PROVE  FALSE
    BY DEF Bytes
  <2>1. bl[i] # bl[x]
    BY <1>0
  <2>2. Apart(c, bl[i], bl[x])
    BY <2>1, <1>0, <1>1
  <2>3. bl[i] + bs[i] <= bl[x] \/ bl[x] + bs[x] <= bl[i]
    BY <2>2, <1>0, <1>2 DEF Apart
  <2> QED BY <2>3, <1>0, <1>2
<1>8. Cardinality(one) = bs[x]
  <2>1. bl[x] \in Int /\ bl[x] + bs[x] - 1 \in Int /\ ~(bl[x] > bl[x] + bs[x] - 1)
    BY <1>0, <1>2
  <2>2. Cardinality(one) = (bl[x] + bs[x] - 1) - bl[x] + 1
    BY <2>1, FS_Interval
  <2> QED BY <2>2, <1>0, <1>2
<1> HIDE DEF all, rest, one, heap
<1>9. /\ IsFiniteSet(all) /\ IsFiniteSet(rest) /\ IsFiniteSet(one)
      /\ Cardinality(all) <= Cardinality(heap)
  BY <1>4, <1>5, FS_Subset
<1>10. Cardinality(all) \in Nat /\ Cardinality(rest) \in Nat
  BY <1>9, FS_CardinalityType
<1>11. Cardinality(all) = Cardinality(rest) + bs[x]
  <2>1. Cardinality(rest \cap one) = 0
    BY <1>7, FS_EmptySet
  <2>2. Cardinality(rest \cup one) = Cardinality(rest) + Cardinality(one)
                                       - Cardinality(rest \cap one)
    BY <1>9, FS_Union
  <2> QED BY <2>1, <2>2, <1>0, <1>2, <1>6, <1>8, <1>10
<1> QED BY <1>5, <1>9, <1>10, <1>11 DEF all, rest, c, k, bl

(* No payload, no bytes. *)
LEMMA NoBytes ==
  ASSUME NEW bl, NEW bs
  PROVE  Cardinality(Bytes(bl, bs, {})) = 0
<1>1. Bytes(bl, bs, {}) = {}
  BY DEF Bytes
<1> QED BY <1>1, FS_EmptySet

(* eval_mm_util or eval_mm_speed starts: mm_init succeeds once more. *)
LEMMA StartStep ==
  ASSUME Contract, ServedInv, phase \in {"valid", "util", "speed"},
         NEW pass \in {"util", "speed"}, Start(pass)
  PROVE  ServedInv' /\ report' = report
<1>1. [Heap EXCEPT !.brk = mem_start_brk] = [m |-> mem, brk |-> mem_start_brk, st |-> static]
  BY DEF Heap
<1>2. PICK r \in mm_init([m |-> mem, brk |-> mem_start_brk, st |-> static]) :
         /\ SetHeap(r.h)
         /\ phase' = IF r.p = NULL THEN "app_error" ELSE pass
  BY <1>1 DEF Start
<1>3. /\ next' = 1 /\ blocks' = NoBlocks /\ total_size' = 0 /\ max_total_size' = 0
      /\ ops' = ops /\ report' = report /\ block_sizes' = block_sizes
  BY DEF Start
<1>4. /\ Mem(mem) /\ ops \in Seq(Requests) /\ block_sizes \in [Ids -> Nat]
      /\ report.why \in Reported /\ Len(ops) \in Nat
  BY DEF ServedInv
<1>5. PICK H : History(H, ops)
  BY DEF ServedInv, ValidHere, ReplayHere
<1>6. CanStart /\ H[0] = FreshState
  BY <1>5 DEF History
<1>7. /\ r.p # NULL
      /\ \E m2 : r.h = HeapOf(m2, Fresh) /\ Holds(Fresh, m2)
  BY <1>2, <1>4, <1>6, InitFacts
<1>8. PICK m2 : r.h = HeapOf(m2, Fresh) /\ Holds(Fresh, m2)
  BY <1>7
<1>9. mem' = m2 /\ mem_brk' = Break(Fresh) /\ static' = Statics(Fresh) /\ phase' = pass
  BY <1>2, <1>7, <1>8, HeapParts DEF SetHeap
<1>10. Mem(mem)'
  <2>1. Mem(r.h.m) /\ mem' = r.h.m
    BY <1>2, <1>4, InitFacts DEF SetHeap
  <2> QED BY <2>1 DEF Mem, Addr, mem_max_addr
<1>11. Here(FreshState)'
  BY <1>3, <1>8, <1>9 DEF Here, FreshState, NoBlocks
<1>12. LiveIn(blocks') = {}
  BY <1>3 DEF LiveIn, NoBlocks
<1>13. Roomy(FreshState)'
  BY <1>12 DEF Roomy
<1>14. ReplayHere'
  <2>1. next' \in 1 .. Len(ops') + 1 /\ next' - 1 = 0
    BY <1>3, <1>4
  <2> QED BY <2>1, <1>3, <1>5, <1>6, <1>11, <1>13 DEF ReplayHere, FreshState, NoBlocks
<1>15. Counted'
  <2>1. Break(Fresh) \in Nat /\ mem_start_brk <= Break(Fresh)
    BY <1>6, FreshGood, HeapFacts DEF Good, FreshState
  <2>2. 0 <= mem_brk' - mem_start_brk
    BY <2>1, <1>9, RegionFacts
  <2> QED BY <2>2, <1>3, <1>12, NoBytes DEF Counted
<1> QED BY <1>3, <1>4, <1>9, <1>10, <1>14, <1>15 DEF ServedInv

(* The request that is replayed: it was legal and there was room for it    *)
(* when eval_mm_valid played it, and the heap is as it was then.           *)
LEMMA ReplayState ==
  ASSUME ServedInv, phase \in {"util", "speed"}, next <= Len(ops), NEW op, op = ops[next]
  PROVE  \E H, s, s2 :
            /\ History(H, ops) /\ s2 = H[next] /\ s2 = After(s, op)
            /\ Good(s) /\ Good(s2) /\ Here(s)
            /\ op \in Requests /\ LegalIn(s, op) /\ RoomIn(s, op)
            /\ phase = "util" => Roomy(s)
            /\ next + 1 \in 1 .. Len(ops) + 1 /\ (next + 1) - 1 = next
<1>1. /\ ops \in Seq(Requests) /\ Len(ops) \in Nat /\ next \in 1 .. Len(ops) + 1
  BY DEF ServedInv, ReplayHere
<1>2. PICK H : /\ History(H, ops) /\ Here(H[next - 1])
               /\ phase = "util" => Roomy(H[next - 1])
  BY DEF ServedInv, ReplayHere
<1>3. next \in 1 .. Len(ops) /\ next \in 0 .. Len(ops) /\ next - 1 \in 0 .. Len(ops)
      /\ next + 1 \in 1 .. Len(ops) + 1 /\ (next + 1) - 1 = next
  BY <1>1
<1>4. /\ Good(H[next]) /\ Good(H[next - 1]) /\ op \in Requests
      /\ LegalIn(H[next - 1], op) /\ RoomIn(H[next - 1], op)
      /\ H[next] = After(H[next - 1], op)
  BY <1>2, <1>3 DEF History
<1> QED BY <1>2, <1>3, <1>4

(* An allocating request that is replayed is served, at the same place. *)
LEMMA Served ==
  ASSUME Contract, NEW s, NEW s2, NEW op \in Requests, s2 = After(s, op),
         Good(s), Good(s2), Here(s), LegalIn(s, op), RoomIn(s, op), op.type # "f",
         NEW r \in Outcomes(op), mem' = r.h.m, mem_brk' = r.h.brk, static' = r.h.st
  PROVE  /\ r.p # NULL /\ s2.bl = [blocks EXCEPT ![op.index] = r.p]
         /\ Holds(s2.c, mem') /\ mem_brk' = Break(s2.c) /\ static' = Statics(s2.c)
         /\ mem_brk <= mem_brk'
<1> DEFINE x == op.index
           p == Given(s.c, op.size)
<1>1. x \in Ids /\ op.size \in Sizes
  BY RequestFacts
<1>2. /\ s2.bl = [s.bl EXCEPT ![x] = p] /\ s2.bl[x] = p /\ p # NULL
      /\ Break(s.c) <= Break(s2.c)
  BY <1>1, AfterObtain
<1>3. \E m2 : r.p = s2.bl[x] /\ r.h = HeapOf(m2, s2.c) /\ Holds(s2.c, m2)
  BY ObtainHere
<1>4. PICK m2 : r.p = s2.bl[x] /\ r.h = HeapOf(m2, s2.c) /\ Holds(s2.c, m2)
  BY <1>3
<1> HIDE DEF p
<1>5. r.p = p /\ blocks = s.bl /\ mem_brk = Break(s.c)
  BY <1>2, <1>4 DEF Here
<1>6. mem' = m2 /\ mem_brk' = Break(s2.c) /\ static' = Statics(s2.c)
  BY <1>4, HeapParts
<1> QED BY <1>2, <1>4, <1>5, <1>6

(* The request after the replayed one is next. *)
LEMMA Replayed ==
  ASSUME Contract, ServedInv, phase \in {"util", "speed"}, NEW H, NEW s2, History(H, ops),
         s2 = H[next], Good(s2), next + 1 \in 1 .. Len(ops) + 1, (next + 1) - 1 = next,
         phase' = phase, next' = next + 1, ops' = ops, report' = report,
         mem_brk' = Break(s2.c), static' = Statics(s2.c), blocks' = s2.bl, Holds(s2.c, mem'),
         block_sizes' \in [Ids -> Nat],
         phase = "util" => /\ Counted'
                           /\ \A i \in LiveIn(blocks') :
                                 /\ block_sizes'[i] > 0
                                 /\ block_sizes'[i] <= Capacity(s2.c, blocks'[i])
  PROVE  ServedInv'
<1>1. Here(s2)' /\ (phase = "util" => Roomy(s2)')
  BY DEF Here, Roomy
<1>2. ReplayHere'
  BY <1>1 DEF ReplayHere
<1>3. Mem(mem)'
  <2>1. Mem(mem')
    BY HoldsMem DEF Good
  <2> QED BY <2>1 DEF Mem, Addr, mem_max_addr
<1> QED BY <1>2, <1>3 DEF ServedInv, Reported

(* eval_mm_speed plays an allocating request. *)
LEMMA SpeedObtainStep ==
  ASSUME Contract, ServedInv, SpeedObtain
  PROVE  ServedInv' /\ report' = report
<1> DEFINE op == ops[next]
<1>1. /\ phase = "speed" /\ next <= Len(ops) /\ op.type # "f"
      /\ next' = next + 1 /\ ops' = ops /\ report' = report /\ block_sizes' = block_sizes
  BY DEF SpeedObtain, Replay
<1>2. PICK r \in Outcomes(op) :
         /\ SetHeap(r.h) /\ phase' = IF r.p = NULL THEN "app_error" ELSE phase
         /\ blocks' = [blocks EXCEPT ![op.index] = r.p]
  BY DEF SpeedObtain
<1>3. PICK H, s, s2 :
         /\ History(H, ops) /\ s2 = H[next] /\ s2 = After(s, op)
         /\ Good(s) /\ Good(s2) /\ Here(s)
         /\ op \in Requests /\ LegalIn(s, op) /\ RoomIn(s, op)
         /\ next + 1 \in 1 .. Len(ops) + 1 /\ (next + 1) - 1 = next
  BY <1>1, ReplayState
<1> HIDE DEF op
<1>4. /\ r.p # NULL /\ s2.bl = [blocks EXCEPT ![op.index] = r.p]
      /\ Holds(s2.c, mem') /\ mem_brk' = Break(s2.c) /\ static' = Statics(s2.c)
  <2>1. mem' = r.h.m /\ mem_brk' = r.h.brk /\ static' = r.h.st /\ op.type # "f"
    BY <1>1, <1>2 DEF SetHeap
  <2>2. /\ Good(s) /\ Good(s2) /\ Here(s) /\ op \in Requests /\ s2 = After(s, op)
        /\ LegalIn(s, op) /\ RoomIn(s, op)
    BY <1>3
  <2> QED BY <2>1, <2>2, Served
<1>5. phase' = phase /\ blocks' = s2.bl
  BY <1>2, <1>4
<1>6. block_sizes' \in [Ids -> Nat]
  BY <1>1 DEF ServedInv
<1> QED BY <1>1, <1>3, <1>4, <1>5, <1>6, Replayed
(* The bytes of the other payloads. *)
LEMMA OtherBytes ==
  ASSUME NEW bl, NEW bs, NEW bl2, NEW bs2, NEW A,
         \A i \in A : bl2[i] = bl[i] /\ bs2[i] = bs[i]
  PROVE  Bytes(bl2, bs2, A) = Bytes(bl, bs, A)
<1>1. \A i \in A : bl2[i] .. bl2[i] + bs2[i] - 1 = bl[i] .. bl[i] + bs[i] - 1
  OBVIOUS
<1>2. {bl2[i] .. bl2[i] + bs2[i] - 1 : i \in A} = {bl[i] .. bl[i] + bs[i] - 1 : i \in A}
  BY <1>1
<1> QED BY <1>2 DEF Bytes

(* eval_mm_util plays an allocating request. *)
LEMMA UtilObtainStep ==
  ASSUME Contract, ServedInv, UtilObtain
  PROVE  ServedInv' /\ report' = report
<1> DEFINE op == ops[next]
           x == op.index
<1>1. /\ phase = "util" /\ next <= Len(ops) /\ op.type # "f"
      /\ next' = next + 1 /\ ops' = ops /\ report' = report
  BY DEF UtilObtain, Replay
<1>2. PICK H, s, s2 :
         /\ History(H, ops) /\ s2 = H[next] /\ s2 = After(s, op)
         /\ Good(s) /\ Good(s2) /\ Here(s)
         /\ op \in Requests /\ LegalIn(s, op) /\ RoomIn(s, op)
         /\ phase = "util" => Roomy(s)
         /\ next + 1 \in 1 .. Len(ops) + 1 /\ (next + 1) - 1 = next
  BY <1>1, ReplayState
<1>3. PICK r \in Outcomes(op) :
         /\ SetHeap(r.h)
         /\ r.p # NULL => /\ Remember(op, r.p) /\ Account(op)
                          /\ max_total_size' = MAX(total_size', max_total_size)
                          /\ phase' = phase
  BY DEF UtilObtain
<1> HIDE DEF op
<1>4. /\ r.p # NULL /\ s2.bl = [blocks EXCEPT ![op.index] = r.p]
      /\ Holds(s2.c, mem') /\ mem_brk' = Break(s2.c) /\ static' = Statics(s2.c)
      /\ mem_brk <= mem_brk'
  <2>1. mem' = r.h.m /\ mem_brk' = r.h.brk /\ static' = r.h.st /\ op.type # "f"
    BY <1>1, <1>3 DEF SetHeap
  <2>2. /\ Good(s) /\ Good(s2) /\ Here(s) /\ op \in Requests /\ s2 = After(s, op)
        /\ LegalIn(s, op) /\ RoomIn(s, op)
    BY <1>2
  <2> QED BY <2>1, <2>2, Served
<1>5. /\ phase' = phase /\ blocks' = s2.bl /\ blocks' = [blocks EXCEPT ![x] = r.p]
      /\ block_sizes' = [block_sizes EXCEPT ![x] = op.size]
      /\ Account(op) /\ max_total_size' = MAX(total_size', max_total_size)
  BY <1>3, <1>4 DEF Remember
<1>6. x \in Ids /\ op.size \in Sizes /\ op.type \in {"a", "r"}
  BY <1>1, <1>2, RequestFacts
<1>7. Good(s) /\ Here(s) /\ Roomy(s) /\ Good(s2)
  BY <1>1, <1>2
<1>8. /\ block_sizes \in [Ids -> Nat] /\ Counted
      /\ blocks = s.bl /\ blocks \in [Ids -> Nat] /\ mem_brk = Break(s.c)
  BY <1>1, <1>7 DEF ServedInv, Good, Here
<1>9. /\ Steady(s.c, Others(s, x), s2.c) /\ op.size \in Nat /\ op.size > 0
      /\ op.size <= Capacity(s2.c, r.p)
  <2> DEFINE p == Given(s.c, op.size)
  <2>1. LegalIn(s, op) /\ RoomIn(s, op) /\ s2 = After(s, op)
    BY <1>2
  <2>2. /\ Steady(s.c, Others(s, x), s2.c) /\ op.size > 0
        /\ op.size <= Capacity(s2.c, p) /\ s2.bl = [s.bl EXCEPT ![x] = p]
    BY <2>1, <1>1, <1>6, <1>7, AfterObtain
  <2>0. op.size \in Nat
    BY <1>6 DEF Contract, TraceContract
  <2> HIDE DEF p
  <2>3. r.p = p
    BY <2>2, <1>4, <1>6, <1>8
  <2> QED BY <2>0, <2>2, <2>3
<1> HIDE DEF x
<1>10. /\ block_sizes' \in [Ids -> Nat] /\ blocks'[x] = r.p /\ block_sizes'[x] = op.size
       /\ \A i \in Ids \ {x} : blocks'[i] = blocks[i]
       /\ \A i \in Ids \ {x} : block_sizes'[i] = block_sizes[i]
  BY <1>5, <1>6, <1>8, <1>9
<1>11. /\ LiveIn(blocks') = (LiveIn(blocks) \ {x}) \cup {x}
       /\ \A i \in LiveIn(blocks') :
             block_sizes'[i] > 0 /\ block_sizes'[i] <= Capacity(s2.c, blocks'[i])
  <2>1. /\ blocks'[x] # NULL /\ block_sizes'[x] > 0
        /\ block_sizes'[x] <= Capacity(s2.c, blocks'[x])
    BY <1>4, <1>9, <1>10
  <2> QED BY <2>1, <1>5, <1>6, <1>7, <1>8, <1>9, <1>10, RoomyAfter
<1> DEFINE rest == Cardinality(Bytes(blocks, block_sizes, LiveIn(blocks) \ {x}))
           sum == Cardinality(Bytes(blocks, block_sizes, LiveIn(blocks)))
           sum2 == Cardinality(Bytes(blocks', block_sizes', LiveIn(blocks')))
<1>12. x \in LiveIn(blocks) <=> op.type = "r"
  BY <1>2, <1>6, <1>8 DEF LegalIn, LiveIn, x
<1>13. /\ x \in LiveIn(blocks) => rest \in Nat /\ sum = rest + block_sizes[x]
       /\ x \notin LiveIn(blocks) => sum = rest
  <2>1. CASE x \in LiveIn(blocks)
    <3>1. HeldIn(s, block_sizes)
      BY <1>7, <1>8 DEF Roomy, HeldIn
    <3>2. x \in LiveIn(s.bl) /\ blocks = s.bl /\ block_sizes \in [Ids -> Nat]
      BY <2>1, <1>8
    <3> QED BY <3>1, <3>2, <1>7, StateBytes
  <2>2. CASE x \notin LiveIn(blocks)
    <3>1. LiveIn(blocks) \ {x} = LiveIn(blocks)
      BY <2>2
    <3> QED BY <3>1, <2>2
  <2> QED BY <2>1, <2>2
<1>14. sum2 \in Nat /\ sum2 <= Break(s2.c) - mem_start_brk /\ sum2 = rest + op.size
  <2>1. x \in LiveIn(blocks')
    BY <1>11
  <2>2. /\ sum2 \in Nat /\ sum2 <= Break(s2.c) - mem_start_brk
        /\ sum2 = Cardinality(Bytes(blocks', block_sizes', LiveIn(blocks') \ {x}))
                    + block_sizes'[x]
    <3>1. HeldIn(s2, block_sizes')
      BY <1>5, <1>11 DEF HeldIn
    <3>2. x \in LiveIn(s2.bl) /\ blocks' = s2.bl /\ block_sizes' \in [Ids -> Nat]
      BY <2>1, <1>5, <1>10
    <3> QED BY <3>1, <3>2, <1>7, StateBytes
  <2>3. LiveIn(blocks') \ {x} = LiveIn(blocks) \ {x}
    BY <1>11
  <2>4. \A i \in LiveIn(blocks) \ {x} : i \in Ids \ {x}
    BY DEF LiveIn
  <2>5. Bytes(blocks', block_sizes', LiveIn(blocks) \ {x})
          = Bytes(blocks, block_sizes, LiveIn(blocks) \ {x})
    BY <2>4, <1>10, OtherBytes
  <2> QED BY <2>2, <2>3, <2>5, <1>10
<1>15. total_size = sum /\ max_total_size \in Nat /\ max_total_size <= mem_brk - mem_start_brk
  BY <1>8 DEF Counted
<1> HIDE DEF rest, sum, sum2
<1>16. total_size' = sum2
  <2>1. block_sizes[x] \in Nat
    BY <1>6, <1>8
  <2>2. CASE op.type = "a"
    BY <2>2, <1>5, <1>12, <1>13, <1>14, <1>15 DEF Account
  <2>3. CASE op.type = "r"
    <3>1. total_size' = total_size + (op.size - block_sizes[x])
      BY <2>3, <1>5 DEF Account, x
    <3>2. rest \in Nat /\ total_size = rest + block_sizes[x] /\ sum2 = rest + op.size
      BY <2>3, <1>12, <1>13, <1>14, <1>15
    <3> QED BY <2>1, <3>1, <3>2, <1>9
  <2> QED BY <2>2, <2>3, <1>6
<1>17. Counted'
  <2>1. mem_brk \in Nat /\ mem_brk' \in Nat /\ mem_start_brk \in Nat
    BY <1>2, <1>4, <1>7, <1>8, HeapFacts, RegionFacts DEF Good
  <2>2. max_total_size' \in {total_size', max_total_size}
    BY <1>5 DEF MAX
  <2>3. max_total_size' \in Nat /\ max_total_size' <= mem_brk' - mem_start_brk
    BY <2>1, <2>2, <1>4, <1>14, <1>15, <1>16
  <2> QED BY <2>3, <1>16 DEF Counted, sum2
<1> QED BY <1>1, <1>2, <1>4, <1>5, <1>10, <1>11, <1>17, Replayed

(* A free is replayed. *)
LEMMA ReplayFreeStep ==
  ASSUME Contract, ServedInv, ReplayFree
  PROVE  ServedInv' /\ report' = report
<1> DEFINE op == ops[next]
           x == op.index
<1>1. /\ phase \in {"util", "speed"} /\ next <= Len(ops) /\ op.type = "f"
      /\ next' = next + 1 /\ ops' = ops /\ report' = report /\ phase' = phase
      /\ block_sizes' = block_sizes /\ max_total_size' = max_total_size
      /\ blocks' = [blocks EXCEPT ![x] = NULL]
      /\ phase = "util" => Account(op)
  BY DEF ReplayFree, Replay
<1>2. PICK H, s, s2 :
         /\ History(H, ops) /\ s2 = H[next] /\ s2 = After(s, op)
         /\ Good(s) /\ Good(s2) /\ Here(s)
         /\ op \in Requests /\ LegalIn(s, op) /\ RoomIn(s, op)
         /\ phase = "util" => Roomy(s)
         /\ next + 1 \in 1 .. Len(ops) + 1 /\ (next + 1) - 1 = next
  BY <1>1, ReplayState
<1>3. PICK r \in mm_free(Heap, blocks[x]) : SetHeap(r.h)
  BY DEF ReplayFree
<1> HIDE DEF op
<1>4. Good(s) /\ Here(s) /\ Good(s2) /\ op \in Requests /\ x \in Ids
  BY <1>2, RequestFacts
<1>5. /\ block_sizes \in [Ids -> Nat] /\ blocks = s.bl /\ blocks \in [Ids -> Nat]
      /\ mem_brk = Break(s.c)
  BY <1>4 DEF ServedInv, Good, Here
<1>6. /\ x \in LiveIn(blocks) /\ Steady(s.c, Others(s, x), s2.c)
      /\ LiveIn(blocks') = LiveIn(blocks) \ {x}
      /\ Here(s2)' /\ mem_brk <= mem_brk'
  <2>1. Good(s) /\ Here(s) /\ op.type = "f" /\ blocks' = [blocks EXCEPT ![x] = NULL]
    BY <1>1, <1>4
  <2>2. /\ r \in mm_free(Heap, blocks[op.index]) /\ x = op.index
        /\ mem' = r.h.m /\ mem_brk' = r.h.brk /\ static' = r.h.st
    BY <1>3 DEF SetHeap
  <2>3. LegalIn(s, op) /\ s2 = After(s, op) /\ op \in Requests
    BY <1>2
  <2> HIDE DEF x
  <2> QED BY <2>1, <2>2, <2>3, ReleaseHere
<1> HIDE DEF x
<1>7. block_sizes' \in [Ids -> Nat]
  BY <1>1, <1>5
<1>8. phase = "util" => /\ Counted'
                        /\ \A i \in LiveIn(blocks') :
                              /\ block_sizes'[i] > 0
                              /\ block_sizes'[i] <= Capacity(s2.c, blocks'[i])
  <2> SUFFICES ASSUME phase = "util"
               PROVE  /\ Counted'
                      /\ \A i \in LiveIn(blocks') :
                              /\ block_sizes'[i] > 0
                              /\ block_sizes'[i] <= Capacity(s2.c, blocks'[i])
    OBVIOUS
  <2>1. Roomy(s) /\ Counted
    BY <1>2 DEF ServedInv, Reported
  <2>2. \A i \in LiveIn(blocks) \ {x} : blocks'[i] = blocks[i] /\ block_sizes'[i] = block_sizes[i]
    BY <1>1, <1>4, <1>5 DEF LiveIn
  <2>3. \A i \in LiveIn(blocks) \ {x} :
           block_sizes[i] > 0 /\ block_sizes[i] <= Capacity(s2.c, blocks[i])
    BY <2>1, <1>4, <1>5, <1>6, OthersStay
  <2> DEFINE rest == Cardinality(Bytes(blocks, block_sizes, LiveIn(blocks) \ {x}))
             sum == Cardinality(Bytes(blocks, block_sizes, LiveIn(blocks)))
  <2>4. rest \in Nat /\ sum = rest + block_sizes[x]
    <3>1. HeldIn(s, block_sizes) /\ x \in LiveIn(s.bl)
      BY <2>1, <1>5, <1>6 DEF Roomy, HeldIn
    <3> QED BY <3>1, <1>4, <1>5, StateBytes
  <2>5. Cardinality(Bytes(blocks', block_sizes', LiveIn(blocks'))) = rest
    BY <2>2, <1>6, OtherBytes
  <2>6. total_size' = total_size - block_sizes[x]
    BY <1>1 DEF Account, x
  <2>7. total_size = sum /\ max_total_size \in Nat /\ max_total_size <= mem_brk - mem_start_brk
    BY <2>1 DEF Counted
  <2>8. block_sizes[x] \in Nat
    BY <1>4, <1>5
  <2> HIDE DEF rest, sum
  <2>9. total_size' = rest
    BY <2>4, <2>6, <2>7, <2>8
  <2>10. Counted'
    <3>1. max_total_size' <= mem_brk' - mem_start_brk
      <4>1. mem_brk = Break(s.c) /\ mem_brk' = Break(s2.c)
        BY <1>4, <1>6 DEF Here
      <4>2. Break(s.c) \in Nat /\ Break(s2.c) \in Nat
        BY <1>4, HeapFacts DEF Good
      <4> QED BY <4>1, <4>2, <2>7, <1>1, <1>6, RegionFacts
    <3> QED BY <3>1, <2>5, <2>7, <2>9, <1>1 DEF Counted
  <2> QED BY <2>2, <2>3, <2>10, <1>6
<1>9. /\ mem_brk' = Break(s2.c) /\ static' = Statics(s2.c) /\ blocks' = s2.bl
      /\ Holds(s2.c, mem')
  BY <1>6 DEF Here
<1> QED BY <1>1, <1>2, <1>7, <1>8, <1>9, Replayed

-----------------------------------------------------------------------------
(* The theorems *)

(* Before the first trace nothing is claimed of the heap. *)
LEMMA ServedInit ==
  ASSUME Contract, Init
  PROVE  ServedInv /\ NeverFaulted
<1>1. mem \in [Addr -> Junk] /\ Junk \subseteq Nat
  BY DEF Init, Contract, TraceContract
<1>2. Mem(mem)
  BY <1>1 DEF Mem
<1>3. phase = "off" /\ report.why = "none" /\ ops = <<>> /\ block_sizes = [i \in Ids |-> 0]
  BY DEF Init, NoReport
<1>4. ops \in Seq(Requests) /\ block_sizes \in [Ids -> Nat]
  BY <1>3
<1> QED BY <1>2, <1>3, <1>4 DEF ServedInv, Reported, NeverFaulted

(* Every step of the driver keeps the invariant; the report is only about  *)
(* lost data when an index's low byte is negative as a char.               *)
LEMMA ServedNext ==
  ASSUME Contract, ServedInv, [Next]_dvars
  PROVE  /\ ServedInv'
         /\ PositiveChars => report'.why # "data" \/ report' = report
<1>1. CASE StartValid
  BY <1>1, StartValidStep
<1>2. CASE StartUtil
  BY <1>2, StartStep DEF StartUtil
<1>3. CASE StartSpeed
  BY <1>3, StartStep DEF StartSpeed
<1>4. CASE \E op \in Requests : ValidObtain(op) \/ ValidFree(op)
  BY <1>4, ValidObtainStep, ValidFreeStep
<1>5. CASE UtilObtain
  BY <1>5, UtilObtainStep
<1>6. CASE SpeedObtain
  BY <1>6, SpeedObtainStep
<1>7. CASE ReplayFree
  BY <1>7, ReplayFreeStep
<1>8. CASE UNCHANGED dvars
  BY <1>8 DEF dvars, ServedInv, ValidHere, ReplayHere, Here, Roomy, Filled, RangeOf, Counted,
              Mem, Addr, mem_max_addr, Words
<1> QED BY <1>1, <1>2, <1>3, <1>4, <1>5, <1>6, <1>7, <1>8 DEF Next

(* In each pass the heap is one that the contract allows. *)
HeapSound ==
    phase \in {"valid", "util", "speed"} =>
        \E c : /\ Sound(c) /\ Holds(c, mem)
               /\ mem_brk = Break(c) /\ static = Statics(c)

LEMMA SoundHere ==
  ASSUME ServedInv
  PROVE  HeapSound
<1> SUFFICES ASSUME phase \in {"valid", "util", "speed"} PROVE HeapSound
  BY DEF HeapSound
<1>1. PICK s : Good(s) /\ Here(s)
  <2>1. CASE phase = "valid"
    BY <2>1, ValidState
  <2>2. CASE phase \in {"util", "speed"}
    <3>1. /\ Len(ops) \in Nat /\ next \in 1 .. Len(ops) + 1
          /\ \E H : History(H, ops) /\ Here(H[next - 1])
      BY <2>2 DEF ServedInv, ReplayHere
    <3>2. next - 1 \in 0 .. Len(ops)
      BY <3>1
    <3> QED BY <3>1, <3>2 DEF History
  <2> QED BY <2>1, <2>2
<1> QED BY <1>1 DEF Good, Here, HeapSound

(* The invariant holds all along. *)
LEMMA ServedAlways ==
  ASSUME Contract
  PROVE  Spec => []ServedInv
<1>1. Init => ServedInv
  BY ServedInit
<1>2. ServedInv /\ [Next]_dvars => ServedInv'
  BY ServedNext
<1> QED BY <1>1, <1>2, PTL DEF Spec

(* eval_mm_valid never faults an allocator that keeps the contract: no     *)
(* payload is misaligned, out of the heap or over another one, and no      *)
(* reallocation loses data.                                                *)
THEOREM ServedNeverFaulted ==
  ASSUME Contract, PositiveChars
  PROVE  Spec => []NeverFaulted
<1>1. Init => NeverFaulted
  BY ServedInit
<1>2. ServedInv /\ NeverFaulted /\ [Next]_dvars => NeverFaulted'
  BY ServedNext DEF NeverFaulted, ServedInv, Reported
<1> QED BY <1>1, <1>2, ServedAlways, PTL DEF Spec

(* A trace that such an allocator has served it serves again in every      *)
(* replay, over whatever the earlier passes left in the region.            *)
THEOREM ServedReplays ==
  ASSUME Contract
  PROVE  Spec => []ReplaySucceeds
<1>1. ServedInv => ReplaySucceeds
  BY DEF ServedInv, ReplaySucceeds
<1> QED BY <1>1, ServedAlways, PTL

(* The payloads never outgrow the heap: utilization is at most 1.          *)
THEOREM ServedUtil ==
  ASSUME Contract
  PROVE  Spec => []UtilAtMostOne
<1>1. ServedInv => UtilAtMostOne
  BY DEF ServedInv, Counted, UtilAtMostOne, mem_heapsize
<1> QED BY <1>1, ServedAlways, PTL

(* Between two calls the heap is one that the contract describes.          *)
THEOREM ServedSound ==
  ASSUME Contract
  PROVE  Spec => []HeapSound
<1>1. ServedInv => HeapSound
  BY SoundHere
<1> QED BY <1>1, ServedAlways, PTL

=============================================================================
