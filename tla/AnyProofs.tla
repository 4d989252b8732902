------------------------------ MODULE AnyProofs ------------------------------
(***************************************************************************)
(* What mdriver.c and memlib.c guarantee of an allocator of which nothing  *)
(* is known, whatever it asks of mem_sbrk and returns.  The range list is  *)
(* exact without any condition.  Two conditions are stated where they are  *)
(* needed: for the break and the heap, that the region ends in the lower   *)
(* half of the address space, or an increment can wrap around (run         *)
(* memlib_wrap); for the data, that the low byte of an index is not        *)
(* negative as a char (run driver_char).                                   *)
(***************************************************************************)
EXTENDS AnyMalloc, TLAPS

LowRegion == mem_max_addr <= WORD \div 2

PositiveChars == BYTE = 256 /\ \A i \in Ids : i % BYTE < BYTE \div 2

Between(k) == k \in Nat /\ mem_start_brk <= k /\ k <= mem_max_addr

(* While eval_mm_valid runs, each index that has a block has one of its    *)
(* own, of at least one byte.                                              *)
Played ==
    phase = "valid" =>
        /\ blocks \in [Ids -> Nat] /\ block_sizes \in [Ids -> Nat]
        /\ \A i \in D!Live : block_sizes[i] > 0
        /\ \A i, j \in D!Live : blocks[i] = blocks[j] => i = j

Unblamed == phase # "invalid" => report.why # "data"

(* The inductive invariant of the range list, wherever the region is. *)
RangeInv == Played /\ RangesMatchBlocks /\ Unblamed

(* And of the heap, in a low region. *)
DriverInv == Between(mem_brk) /\ AcceptedInHeap /\ RangeInv

-----------------------------------------------------------------------------
(* mem_sbrk and the calls of the allocator. *)

HeapOf(m, k, s) == [m |-> m, brk |-> k, st |-> s]

(* A call of mem_sbrk moves the break up inside the region or not at all. *)
LEMMA SbrkMovesUp ==
  ASSUME LowRegion, NEW m, NEW k, NEW s, Between(k), NEW u \in Incrs
  PROVE  /\ Between(mem_sbrk(HeapOf(m, k, s), u).brk)
         /\ k <= mem_sbrk(HeapOf(m, k, s), u).brk
<1>1. /\ WORD \in Nat /\ mem_max_addr \in Nat /\ mem_start_brk \in Nat
      /\ u \in Nat /\ u < WORD /\ k \in Nat /\ mem_start_brk <= k /\ k <= mem_max_addr
      /\ WORD % 16 = 0 /\ mem_max_addr <= WORD \div 2
  BY MemAssumption, AnyAssumption DEF Between, LowRegion, mem_max_addr
<1>2. CASE SbrkOK(k, ToInt(u))
  <2>1. u < WORD \div 2 /\ ToInt(u) = u
    BY <1>1, <1>2 DEF SbrkOK, ToInt
  <2>2. k + u < WORD
    BY <1>1, <2>1
  <2>3. SbrkTo(k, u) = k + u /\ k + u <= mem_max_addr
    BY <1>1, <1>2, <2>1, <2>2 DEF SbrkOK, SbrkTo, Add32
  <2>4. mem_sbrk(HeapOf(m, k, s), u).brk = k + u
    BY <1>2, <2>3 DEF mem_sbrk, HeapOf
  <2> QED BY <1>1, <2>3, <2>4 DEF Between
<1>3. CASE ~SbrkOK(k, ToInt(u))
  <2>1. mem_sbrk(HeapOf(m, k, s), u).brk = k
    BY <1>3 DEF mem_sbrk, HeapOf
  <2> QED BY <1>1, <2>1 DEF Between
<1> QED BY <1>2, <1>3

(* An allocating call returns a place or NULL, and the driver's memset     *)
(* leaves the break alone.                                                 *)
LEMMA CallPlace ==
  ASSUME NEW op, NEW r \in D!Outcomes(op)
  PROVE  /\ r.p \in Places \cup {NULL}
         /\ \E u \in Incrs : r.h.brk = mem_sbrk(D!Heap, u).brk
         /\ \A v : [r.h EXCEPT !.m = v].brk = r.h.brk
<1>1. D!Heap = HeapOf(mem, mem_brk, static)
  BY DEF D!Heap, HeapOf
<1>2. ASSUME NEW size, NEW q \in mm_malloc(D!Heap, size)
      PROVE  /\ q.p \in Places \cup {NULL}
             /\ \E u \in Incrs : q.h.brk = mem_sbrk(D!Heap, u).brk
             /\ \A v : [q.h EXCEPT !.m = v].brk = q.h.brk
             /\ \A old : /\ CopyTo(q, old, size).p = q.p
                         /\ CopyTo(q, old, size).h.brk = q.h.brk
                         /\ \A v : [CopyTo(q, old, size).h EXCEPT !.m = v].brk = q.h.brk
  <2>1. PICK p \in Places \cup {NULL}, u \in Incrs :
           q = [p |-> p, h |-> mem_sbrk(D!Heap, u)]
    BY <1>2 DEF mm_malloc
  <2>3. \E m, k, s : mem_sbrk(D!Heap, u) = HeapOf(m, k, s)
    BY <1>1 DEF mem_sbrk, HeapOf
  <2>4. PICK m, k, s : mem_sbrk(D!Heap, u) = HeapOf(m, k, s)
    BY <2>3
  <2>5. \A old : CopyTo(q, old, size)
                    = [p |-> q.p, h |-> HeapOf(memcpy(q.h.m, q.p, old,
                                       Cardinality(Words(old, size)) * WSIZE), k, s)]
    BY <2>1, <2>4 DEF CopyTo, HeapOf
  <2>6. \A m0, v : HeapOf(m0, k, s).brk = k /\ [HeapOf(m0, k, s) EXCEPT !.m = v].brk = k
    BY DEF HeapOf
  <2>7. q.h = HeapOf(m, k, s) /\ q.h.brk = k
    BY <2>1, <2>4, <2>6
  <2>8. \A v : [q.h EXCEPT !.m = v].brk = q.h.brk
    BY <2>6, <2>7
  <2>9. ASSUME NEW old
        PROVE  /\ CopyTo(q, old, size).p = q.p
               /\ CopyTo(q, old, size).h.brk = q.h.brk
               /\ \A v : [CopyTo(q, old, size).h EXCEPT !.m = v].brk = q.h.brk
    <3> DEFINE m0 == memcpy(q.h.m, q.p, old, Cardinality(Words(old, size)) * WSIZE)
    <3>1. CopyTo(q, old, size) = [p |-> q.p, h |-> HeapOf(m0, k, s)]
      BY <2>5
    <3> HIDE DEF m0
    <3> QED BY <2>6, <2>7, <3>1
  <2>10. q.p \in Places \cup {NULL} /\ q.h.brk = mem_sbrk(D!Heap, u).brk
    BY <2>1
  <2> QED BY <2>8, <2>9, <2>10
<1>3. CASE op.type = "a"
  BY <1>2, <1>3 DEF D!Outcomes
<1>4. CASE op.type # "a"
  <2>1. r \in mm_realloc(D!Heap, blocks[op.index], op.size)
    BY <1>4 DEF D!Outcomes
  <2>2. \/ r \in mm_malloc(D!Heap, op.size)
        \/ \E q \in mm_malloc(D!Heap, op.size) :
              r = CopyTo(q, blocks[op.index], op.size)
    BY <2>1 DEF mm_realloc
  <2>3. ASSUME NEW q \in mm_malloc(D!Heap, op.size),
               r = CopyTo(q, blocks[op.index], op.size)
        PROVE  /\ r.p = q.p /\ r.h.brk = q.h.brk
               /\ \A v : [r.h EXCEPT !.m = v].brk = q.h.brk
    BY <1>2, <2>3
  <2> QED BY <1>2, <2>2, <2>3
<1> QED BY <1>3, <1>4

(* Where it may leave the break. *)
LEMMA CallOutcome ==
  ASSUME LowRegion, Between(mem_brk), NEW op, NEW r \in D!Outcomes(op)
  PROVE  Between(r.h.brk) /\ mem_brk <= r.h.brk
<1>1. D!Heap = HeapOf(mem, mem_brk, static)
  BY DEF D!Heap, HeapOf
<1>2. PICK u \in Incrs : r.h.brk = mem_sbrk(D!Heap, u).brk
  BY CallPlace
<1> QED BY <1>1, <1>2, SbrkMovesUp

(* mem_reset_brk and mm_init leave the break in the region. *)
LEMMA InitOutcome ==
  ASSUME LowRegion, NEW r \in mm_init([D!Heap EXCEPT !.brk = mem_start_brk])
  PROVE  Between(r.h.brk)
<1>1. [D!Heap EXCEPT !.brk = mem_start_brk] = HeapOf(mem, mem_start_brk, static)
  BY DEF D!Heap, HeapOf
<1>2. Between(mem_start_brk)
  BY MemAssumption DEF Between, mem_max_addr
<1>3. PICK u \in Incrs : r.h = mem_sbrk(HeapOf(mem, mem_start_brk, static), u)
  BY <1>1 DEF mm_init
<1> QED BY <1>2, <1>3, SbrkMovesUp

-----------------------------------------------------------------------------
(* The range list of eval_mm_valid. *)

RangeOf(i) == [lo |-> blocks[i], hi |-> blocks[i] + block_sizes[i] - 1]

Others(i) == {RangeOf(j) : j \in D!Live \ {i}}

(* remove_range takes the range of one payload off the list and no other. *)
LEMMA RemoveOne ==
  ASSUME RangeInv, phase = "valid", NEW i \in Ids
  PROVE  /\ i \in D!Live => D!remove_range(ranges, blocks[i]) = Others(i)
         /\ i \notin D!Live => ranges = Others(i)
<1>1. ranges = {RangeOf(j) : j \in D!Live}
  BY DEF RangeInv, RangesMatchBlocks, D!RangesMatchBlocks, RangeOf
<1>2. \A j, k \in D!Live : blocks[j] = blocks[k] => j = k
  BY DEF RangeInv, Played
<1>3. \A j : RangeOf(j).lo = blocks[j]
  BY DEF RangeOf
<1> HIDE DEF RangeOf
<1> QED BY <1>1, <1>2, <1>3 DEF D!remove_range, Others

(* A payload that add_range accepts next to the others: none of the others *)
(* begins where it does, or the new range would overlap that one.          *)
LEMMA AcceptOne ==
  ASSUME RangeInv, phase = "valid", phase' = "valid", NEW i \in Ids, NEW n \in Sizes,
         NEW p \in Places, NEW k, D!Acceptable(Others(i), k, p, n),
         ranges' = D!add_range(Others(i), p, n),
         blocks' = [blocks EXCEPT ![i] = p], block_sizes' = [block_sizes EXCEPT ![i] = n]
  PROVE  /\ Played' /\ RangesMatchBlocks' /\ D!Live' \ {i} = D!Live \ {i}
         /\ \A j \in D!Live' : blocks'[j] \in Nat /\ block_sizes'[j] \in Nat
         /\ \A j \in D!Live' \ {i} : /\ blocks'[j] = blocks[j]
                                     /\ block_sizes'[j] = block_sizes[j]
<1>1. /\ blocks \in [Ids -> Nat] /\ block_sizes \in [Ids -> Nat]
      /\ \A j \in D!Live : block_sizes[j] > 0
      /\ \A j, l \in D!Live : blocks[j] = blocks[l] => j = l
  BY DEF RangeInv, Played
<1>2. p \in Nat /\ p # NULL /\ n \in Nat /\ n > 0
  BY AnyAssumption
<1>3. /\ blocks' \in [Ids -> Nat] /\ block_sizes' \in [Ids -> Nat]
      /\ blocks'[i] = p /\ block_sizes'[i] = n
      /\ \A j \in Ids \ {i} : blocks'[j] = blocks[j] /\ block_sizes'[j] = block_sizes[j]
  BY <1>1, <1>2
<1>4. D!Live' = (D!Live \ {i}) \cup {i} /\ i \in D!Live' /\ D!Live' \ {i} = D!Live \ {i}
  BY <1>2, <1>3 DEF D!Live, D!NULL, NULL
<1>5. D!Live \subseteq Ids
  BY DEF D!Live
<1>6. ASSUME NEW j \in D!Live \ {i} PROVE blocks[j] # p
  <2>1. RangeOf(j) \in Others(i)
    BY DEF Others
  <2>2. ~(p >= RangeOf(j).lo /\ p <= RangeOf(j).hi)
    BY <2>1 DEF D!Acceptable, D!Overlaps
  <2>3. ~(p >= blocks[j] /\ p <= blocks[j] + block_sizes[j] - 1)
    BY <2>2 DEF RangeOf
  <2>4. blocks[j] \in Nat /\ block_sizes[j] \in Nat /\ block_sizes[j] > 0
    BY <1>1, <1>5
  <2> QED BY <1>2, <2>3, <2>4
<1>7. Played'
  <2>1. \A j \in D!Live' : block_sizes'[j] > 0
    BY <1>1, <1>2, <1>3, <1>4, <1>5
  <2>2. ASSUME NEW j \in D!Live', NEW l \in D!Live', blocks'[j] = blocks'[l] PROVE j = l
    BY <2>2, <1>1, <1>3, <1>4, <1>5, <1>6
  <2> QED BY <1>3, <2>1, <2>2 DEF Played
<1>8. RangesMatchBlocks'
  <2>1. ranges' = {RangeOf(j) : j \in D!Live \ {i}} \cup {[lo |-> p, hi |-> p + n - 1]}
    BY DEF D!add_range, Others
  <2>2. \A j \in D!Live \ {i} : RangeOf(j)' = RangeOf(j)
    BY <1>3, <1>5 DEF RangeOf
  <2>3. RangeOf(i)' = [lo |-> p, hi |-> p + n - 1]
    BY <1>3 DEF RangeOf
  <2>4. ranges' = {RangeOf(j)' : j \in D!Live'}
    BY <1>4, <2>1, <2>2, <2>3
  <2> QED BY <2>4 DEF RangesMatchBlocks, D!RangesMatchBlocks, RangeOf
<1> QED BY <1>3, <1>4, <1>5, <1>7, <1>8

-----------------------------------------------------------------------------
(* The steps of the driver and the range list. *)

(* Both matter only while eval_mm_valid runs. *)
LEMMA NotValid ==
  ASSUME phase' # "valid", Unblamed'
  PROVE  RangeInv' /\ AcceptedInHeap'
BY DEF RangeInv, Played, RangesMatchBlocks, D!RangesMatchBlocks,
       AcceptedInHeap, D!AcceptedInHeap

(* A pass of eval_mm_valid starts with no payload. *)
LEMMA StartValidStep ==
  ASSUME D!StartValid
  PROVE  RangeInv' /\ AcceptedInHeap' /\ report'.why # "data"
<1>1. PICK r \in mm_init([D!Heap EXCEPT !.brk = mem_start_brk]) :
         /\ D!SetHeap(r.h)
         /\ report' = IF r.p = NULL THEN [D!NoReport EXCEPT !.why = "mm_init"]
                                    ELSE D!NoReport
  BY DEF D!StartValid, NULL, D!NULL
<1>3. report'.why # "data"
  BY <1>1 DEF D!NoReport
<1>4. /\ blocks' = [i \in Ids |-> 0] /\ block_sizes' = [i \in Ids |-> 0] /\ ranges' = {}
  BY DEF D!StartValid, D!NoBlocks, D!NULL
<1>5. D!Live' = {}
  BY <1>4 DEF D!Live, D!NULL
<1>6. Played'
  BY <1>4, <1>5 DEF Played
<1>7. RangesMatchBlocks' /\ AcceptedInHeap' /\ Unblamed'
  BY <1>3, <1>4, <1>5 DEF RangesMatchBlocks, D!RangesMatchBlocks, AcceptedInHeap,
                          D!AcceptedInHeap, Unblamed
<1> QED BY <1>3, <1>6, <1>7 DEF RangeInv

(* An allocating request that eval_mm_valid goes on after was answered     *)
(* with an acceptable payload, which is now its index's.                   *)
LEMMA ObtainOutcome ==
  ASSUME RangeInv, NEW op \in D!Requests, D!ValidObtain(op)
  PROVE  \E r \in D!Outcomes(op) :
            /\ mem_brk' = r.h.brk
            /\ \/ phase' = "invalid"
               \/ /\ phase = "valid" /\ phase' = "valid" /\ report' = report
                  /\ op.index \in Ids /\ op.size \in Sizes /\ r.p \in Places
                  /\ D!Acceptable(Others(op.index), mem_brk', r.p, op.size)
                  /\ ranges' = D!add_range(Others(op.index), r.p, op.size)
                  /\ blocks' = [blocks EXCEPT ![op.index] = r.p]
                  /\ block_sizes' = [block_sizes EXCEPT ![op.index] = op.size]
<1> DEFINE i == op.index
           R == IF op.type = "a" THEN ranges ELSE D!remove_range(ranges, blocks[i])
<1>1. PICK r \in D!Outcomes(op) : D!Judge(r, R, op)
  BY DEF D!ValidObtain
<1>2. phase = "valid" /\ op.type # "f" /\ D!Legal(op)
  BY DEF D!ValidObtain, D!ValidRequest
<1>3. i \in Ids /\ op.size \in Sizes
  BY <1>2 DEF D!Requests
<1>4. R = Others(i)
  <2>1. blocks \in [Ids -> Nat]
    BY <1>2 DEF RangeInv, Played
  <2>2. op.type = "a" <=> i \notin D!Live
    BY <1>2, <1>3 DEF D!Legal, D!Live, D!NULL
  <2> QED BY <1>2, <1>3, <2>2, RemoveOne
<1>5. r.p \in Places \cup {NULL} /\ \A v : [r.h EXCEPT !.m = v].brk = r.h.brk
  BY CallPlace
<1> HIDE DEF R, i
<1>6. CASE phase' = "invalid" /\ D!SetHeap(r.h)
  <2>1. mem_brk' = r.h.brk
    BY <1>6 DEF D!SetHeap
  <2> QED BY <1>6, <2>1
<1>7. CASE /\ r.p # NULL /\ D!Acceptable(R, r.h.brk, r.p, op.size)
           /\ D!SetHeap([r.h EXCEPT !.m = D!memset(@, r.p, D!LowByte(op.index), op.size)])
           /\ ranges' = D!add_range(R, r.p, op.size)
           /\ D!Remember(op, r.p) /\ UNCHANGED <<phase, report>>
  <2>1. mem_brk' = r.h.brk
    BY <1>5, <1>7 DEF D!SetHeap
  <2>2. r.p \in Places
    BY <1>5, <1>7
  <2>3. /\ D!Acceptable(Others(i), mem_brk', r.p, op.size)
        /\ ranges' = D!add_range(Others(i), r.p, op.size)
    BY <1>4, <1>7, <2>1
  <2>4. /\ blocks' = [blocks EXCEPT ![i] = r.p]
        /\ block_sizes' = [block_sizes EXCEPT ![i] = op.size]
    BY <1>7 DEF D!Remember, i
  <2>5. phase' = "valid" /\ report' = report
    BY <1>2, <1>7
  <2> QED BY <1>2, <1>3, <2>1, <2>2, <2>3, <2>4, <2>5 DEF i
<1> QED BY <1>1, <1>6, <1>7 DEF D!Judge, D!Invalid, D!NULL, NULL

(* eval_mm_valid plays an allocating request. *)
LEMMA ValidObtainStep ==
  ASSUME RangeInv, NEW op \in D!Requests, D!ValidObtain(op)
  PROVE  RangeInv'
<1>1. PICK r \in D!Outcomes(op) :
         \/ phase' = "invalid"
         \/ /\ phase = "valid" /\ phase' = "valid" /\ report' = report
            /\ op.index \in Ids /\ op.size \in Sizes /\ r.p \in Places
            /\ D!Acceptable(Others(op.index), mem_brk', r.p, op.size)
            /\ ranges' = D!add_range(Others(op.index), r.p, op.size)
            /\ blocks' = [blocks EXCEPT ![op.index] = r.p]
            /\ block_sizes' = [block_sizes EXCEPT ![op.index] = op.size]
  BY ObtainOutcome
<1>2. CASE phase' = "invalid"
  BY <1>2, NotValid DEF Unblamed
<1>3. CASE phase' # "invalid"
  <2>1. Played' /\ RangesMatchBlocks'
    BY <1>1, <1>3, AcceptOne
  <2>2. Unblamed'
    BY <1>1, <1>3 DEF RangeInv, Unblamed
  <2> QED BY <2>1, <2>2 DEF RangeInv
<1> QED BY <1>2, <1>3

(* eval_mm_valid plays a free. *)
LEMMA ValidFreeStep ==
  ASSUME RangeInv, NEW op \in D!Requests, D!ValidFree(op)
  PROVE  /\ RangeInv' /\ mem_brk' = mem_brk /\ phase = "valid"
         /\ \A j \in D!Live' : /\ j \in D!Live /\ blocks'[j] = blocks[j]
                               /\ block_sizes'[j] = block_sizes[j]
<1> DEFINE i == op.index
<1>1. /\ phase = "valid" /\ op.type = "f" /\ D!Legal(op) /\ i \in Ids
      /\ ranges' = D!remove_range(ranges, blocks[i])
      /\ blocks' = [blocks EXCEPT ![i] = 0]
      /\ phase' = phase /\ report' = report /\ block_sizes' = block_sizes
  BY DEF D!ValidFree, D!ValidRequest, D!Requests, D!NULL
<1>2. mem_brk' = mem_brk
  BY DEF D!ValidFree, mm_free, D!SetHeap, D!Heap
<1>3. /\ blocks \in [Ids -> Nat] /\ block_sizes \in [Ids -> Nat]
      /\ \A j \in D!Live : block_sizes[j] > 0
      /\ \A j, k \in D!Live : blocks[j] = blocks[k] => j = k
  BY <1>1 DEF RangeInv, Played
<1>4. i \in D!Live
  BY <1>1 DEF D!Legal, D!Live
<1>5. /\ blocks' \in [Ids -> Nat] /\ D!Live' = D!Live \ {i}
      /\ \A j \in D!Live' : j \in D!Live /\ blocks'[j] = blocks[j]
  BY <1>1, <1>3 DEF D!Live, D!NULL
<1>6. ranges' = {RangeOf(j) : j \in D!Live \ {i}}
  BY <1>1, <1>4, RemoveOne DEF Others
<1> HIDE DEF i
<1>7. \A j \in D!Live' : RangeOf(j)' = RangeOf(j)
  BY <1>1, <1>5 DEF RangeOf
<1>8. RangesMatchBlocks'
  <2>1. ranges' = {RangeOf(j)' : j \in D!Live'}
    BY <1>5, <1>6, <1>7
  <2> QED BY <2>1 DEF RangesMatchBlocks, D!RangesMatchBlocks, RangeOf
<1>9. Played'
  BY <1>1, <1>3, <1>5 DEF Played
<1>10. Unblamed'
  BY <1>1 DEF RangeInv, Unblamed
<1> QED BY <1>1, <1>2, <1>5, <1>8, <1>9, <1>10 DEF RangeInv

(* A pass of eval_mm_util or eval_mm_speed starts. *)
LEMMA StartStep ==
  ASSUME RangeInv, phase # "invalid", NEW pass, pass \notin {"valid", "invalid"},
         D!Start(pass)
  PROVE  RangeInv' /\ AcceptedInHeap' /\ report'.why # "data"
<1>1. phase' # "valid" /\ report' = report
  BY DEF D!Start
<1>2. report'.why # "data"
  BY <1>1 DEF RangeInv, Unblamed
<1> QED BY <1>1, <1>2, NotValid DEF Unblamed

(* A request is replayed. *)
LEMMA ReplayStep ==
  ASSUME RangeInv, D!UtilObtain \/ D!SpeedObtain \/ D!ReplayFree
  PROVE  RangeInv' /\ AcceptedInHeap' /\ report'.why # "data" /\ ops' = ops
<1>1. phase \in {"util", "speed"} /\ report' = report /\ ops' = ops
  BY DEF D!UtilObtain, D!SpeedObtain, D!ReplayFree, D!Replay
<1>2. phase' # "valid"
  BY <1>1 DEF D!UtilObtain, D!SpeedObtain, D!ReplayFree
<1>3. report'.why # "data"
  BY <1>1 DEF RangeInv, Unblamed
<1> QED BY <1>1, <1>2, <1>3, NotValid DEF Unblamed

(* Before the first trace, RangeInv and AcceptedInHeap hold. *)
LEMMA RangeInit == D!Init => RangeInv /\ AcceptedInHeap /\ report.why # "data"
<1> SUFFICES ASSUME D!Init PROVE RangeInv /\ AcceptedInHeap /\ report.why # "data"
  OBVIOUS
<1>1. phase = "off" /\ report.why = "none"
  BY DEF D!Init, D!NoReport
<1> QED BY <1>1 DEF RangeInv, Played, RangesMatchBlocks, D!RangesMatchBlocks,
                    AcceptedInHeap, D!AcceptedInHeap, Unblamed

(* Every step of the driver keeps RangeInv. *)
LEMMA RangeNext ==
  ASSUME RangeInv, [D!Next]_(D!dvars)
  PROVE  RangeInv'
<1>1. CASE D!StartValid
  BY <1>1, StartValidStep
<1>2. CASE D!StartUtil \/ D!StartSpeed
  <2>1. phase # "invalid" /\ (D!Start("util") \/ D!Start("speed"))
    BY <1>2 DEF D!StartUtil, D!StartSpeed
  <2> QED BY <2>1, StartStep
<1>3. ASSUME NEW op \in D!Requests, D!ValidObtain(op) \/ D!ValidFree(op)
      PROVE  RangeInv'
  BY <1>3, ValidObtainStep, ValidFreeStep
<1>4. CASE D!UtilObtain \/ D!SpeedObtain \/ D!ReplayFree
  BY <1>4, ReplayStep
<1>5. CASE UNCHANGED D!dvars
  BY <1>5 DEF D!dvars, RangeInv, Played, RangesMatchBlocks, D!RangesMatchBlocks,
              Unblamed, D!Live
<1> QED BY <1>1, <1>2, <1>3, <1>4, <1>5 DEF D!Next

(* Wherever the region is and whatever the allocator does, the range list, *)
(* the payloads and the report of eval_mm_valid agree.                     *)
THEOREM RangeInvariant == Spec => []RangeInv
<1>1. D!Init => RangeInv
  BY RangeInit
<1>2. RangeInv /\ [D!Next]_(D!dvars) => RangeInv'
  BY RangeNext
<1> QED BY <1>1, <1>2, PTL DEF Spec, D!Spec

(* add_range and remove_range never get out of step with the requests,     *)
(* whatever addresses the allocator returns and increments it asks for.    *)
THEOREM RangesStayExact == Spec => []RangesMatchBlocks
<1>1. RangeInv => RangesMatchBlocks
  BY DEF RangeInv
<1> QED BY <1>1, RangeInvariant, PTL

-----------------------------------------------------------------------------
(* The steps of the driver and the heap, in a low region. *)

(* mem_reset_brk and mm_init leave the break in the region. *)
LEMMA StartBreak ==
  ASSUME LowRegion,
         D!StartValid \/ \E pass \in {"util", "speed"} : D!Start(pass)
  PROVE  Between(mem_brk')
<1>1. PICK r \in mm_init([D!Heap EXCEPT !.brk = mem_start_brk]) : D!SetHeap(r.h)
  BY DEF D!Start, D!StartValid
<1> QED BY <1>1, InitOutcome DEF D!SetHeap

(* eval_mm_valid plays an allocating request. *)
LEMMA HeapObtain ==
  ASSUME LowRegion, DriverInv, NEW op \in D!Requests, D!ValidObtain(op)
  PROVE  Between(mem_brk') /\ AcceptedInHeap' /\ mem_brk <= mem_brk'
<1> DEFINE i == op.index
<1>1. PICK r \in D!Outcomes(op) :
         /\ mem_brk' = r.h.brk
         /\ \/ phase' = "invalid"
            \/ /\ phase = "valid" /\ phase' = "valid" /\ report' = report
               /\ i \in Ids /\ op.size \in Sizes /\ r.p \in Places
               /\ D!Acceptable(Others(i), mem_brk', r.p, op.size)
               /\ ranges' = D!add_range(Others(i), r.p, op.size)
               /\ blocks' = [blocks EXCEPT ![i] = r.p]
               /\ block_sizes' = [block_sizes EXCEPT ![i] = op.size]
  BY ObtainOutcome DEF DriverInv
<1> HIDE DEF i
<1>2. Between(mem_brk') /\ mem_brk <= mem_brk' /\ mem_brk \in Nat /\ mem_brk' \in Nat
  BY <1>1, CallOutcome DEF DriverInv, Between
<1>3. CASE phase' = "invalid"
  BY <1>2, <1>3 DEF AcceptedInHeap, D!AcceptedInHeap
<1>4. CASE phase' # "invalid"
  <2> DEFINE p == r.p
             n == op.size
  <2>1. /\ D!Live' \ {i} = D!Live \ {i}
        /\ \A j \in D!Live' : blocks'[j] \in Nat /\ block_sizes'[j] \in Nat
        /\ \A j \in D!Live' \ {i} : /\ blocks'[j] = blocks[j]
                                    /\ block_sizes'[j] = block_sizes[j]
    BY <1>1, <1>4, AcceptOne DEF DriverInv
  <2>2. p \in Nat /\ n \in Nat /\ n > 0
    <3>1. r.p \in Places /\ op.size \in Sizes
      BY <1>1, <1>4
    <3>2. Places \subseteq Nat /\ Sizes \subseteq Nat \ {0}
      BY AnyAssumption
    <3>3. \A x \in Sizes : x \in Nat /\ x > 0
      BY <3>2
    <3> QED BY <3>1, <3>2, <3>3 DEF p, n
  <2>3. D!IS_ALIGNED(p) /\ D!InHeap(mem_brk', p, p + n - 1)
    BY <1>1, <1>4 DEF D!Acceptable
  <2>4. blocks'[i] = p /\ block_sizes'[i] = n
    BY <1>1, <1>4 DEF DriverInv, RangeInv, Played
  <2> HIDE DEF p, n
  <2>5. p % 8 = 0 /\ mem_start_brk <= p /\ p + n - 1 <= mem_brk' - 1
    BY <2>3 DEF D!IS_ALIGNED, D!InHeap, D!mem_heap_lo, D!mem_heap_hi
  <2>6. \A b \in Nat : p + n - 1 <= b - 1 => p + n <= b
    BY <2>2
  <2>7. \A j \in D!Live : /\ blocks[j] % 8 = 0 /\ mem_start_brk <= blocks[j]
                         /\ blocks[j] + block_sizes[j] <= mem_brk
    BY <1>1, <1>4 DEF DriverInv, AcceptedInHeap, D!AcceptedInHeap
  <2>8. ASSUME NEW j \in D!Live'
        PROVE  /\ blocks'[j] % 8 = 0 /\ mem_start_brk <= blocks'[j]
               /\ blocks'[j] + block_sizes'[j] <= mem_brk'
    <3>1. CASE j = i
      BY <3>1, <1>2, <2>4, <2>5, <2>6
    <3>2. CASE j # i
      <4>1. /\ j \in D!Live /\ blocks'[j] = blocks[j] /\ block_sizes'[j] = block_sizes[j]
            /\ blocks[j] \in Nat /\ block_sizes[j] \in Nat
        BY <3>2, <2>1
      <4> QED BY <4>1, <2>7, <1>2
    <3> QED BY <3>1, <3>2
  <2>9. AcceptedInHeap'
    BY <2>8 DEF AcceptedInHeap, D!AcceptedInHeap
  <2> QED BY <1>2, <2>9
<1> QED BY <1>3, <1>4

(* A request is replayed. *)
LEMMA HeapReplay ==
  ASSUME LowRegion, DriverInv, D!UtilObtain \/ D!SpeedObtain \/ D!ReplayFree
  PROVE  Between(mem_brk')
<1>1. CASE D!UtilObtain \/ D!SpeedObtain
  <2>1. PICK r \in D!Outcomes(ops[next]) : D!SetHeap(r.h)
    BY <1>1 DEF D!UtilObtain, D!SpeedObtain
  <2> QED BY <2>1, CallOutcome DEF DriverInv, D!SetHeap
<1>2. CASE D!ReplayFree
  BY <1>2 DEF D!ReplayFree, mm_free, D!SetHeap, D!Heap, DriverInv
<1> QED BY <1>1, <1>2

(* Every step of the driver keeps DriverInv. *)
LEMMA DriverNext ==
  ASSUME LowRegion, DriverInv, [D!Next]_(D!dvars)
  PROVE  DriverInv'
<1>1. RangeInv'
  BY RangeNext DEF DriverInv
<1>2. CASE D!StartValid
  BY <1>1, <1>2, StartValidStep, StartBreak DEF DriverInv
<1>3. CASE D!StartUtil \/ D!StartSpeed
  <2>1. phase # "invalid" /\ (D!Start("util") \/ D!Start("speed"))
    BY <1>3 DEF D!StartUtil, D!StartSpeed
  <2>2. AcceptedInHeap'
    BY <2>1, StartStep DEF DriverInv
  <2>3. Between(mem_brk')
    BY <2>1, StartBreak
  <2> QED BY <1>1, <2>2, <2>3 DEF DriverInv
<1>4. ASSUME NEW op \in D!Requests, D!ValidObtain(op) PROVE DriverInv'
  BY <1>1, <1>4, HeapObtain DEF DriverInv
<1>5. ASSUME NEW op \in D!Requests, D!ValidFree(op) PROVE DriverInv'
  BY <1>1, <1>5, ValidFreeStep DEF DriverInv, AcceptedInHeap, D!AcceptedInHeap
<1>6. CASE D!UtilObtain \/ D!SpeedObtain \/ D!ReplayFree
  BY <1>1, <1>6, ReplayStep, HeapReplay DEF DriverInv
<1>7. CASE UNCHANGED D!dvars
  BY <1>1, <1>7 DEF D!dvars, DriverInv, Between, AcceptedInHeap, D!AcceptedInHeap, D!Live
<1> QED BY <1>2, <1>3, <1>4, <1>5, <1>6, <1>7 DEF D!Next

(* In a low region, whatever the allocator does, the driver stays in       *)
(* DriverInv: the break, the range list and the payloads accepted agree.   *)
THEOREM DriverInvariant ==
  ASSUME LowRegion
  PROVE  Spec => []DriverInv
<1>1. D!Init => DriverInv
  BY RangeInit, MemAssumption DEF D!Init, DriverInv, Between, mem_max_addr
<1>2. DriverInv /\ [D!Next]_(D!dvars) => DriverInv'
  BY DriverNext
<1> QED BY <1>1, <1>2, PTL DEF Spec, D!Spec

(* No sequence of increments moves the break out of a low region.          *)
THEOREM BreakStays ==
  ASSUME LowRegion
  PROVE  Spec => []BreakInRegion
<1>1. DriverInv => BreakInRegion
  BY DEF DriverInv, Between, BreakInRegion, D!BreakInRegion, mem_max_addr, D!mem_max_addr
<1> QED BY <1>1, DriverInvariant, PTL

(* A payload that eval_mm_valid accepted stays inside the heap, which is   *)
(* in a low region.                                                        *)
THEOREM AcceptedStayInHeap ==
  ASSUME LowRegion
  PROVE  Spec => []AcceptedInHeap
<1>1. DriverInv => AcceptedInHeap
  BY DEF DriverInv
<1> QED BY <1>1, DriverInvariant, PTL

(* No request of a trace moves the break of a low region down.             *)
THEOREM BreakNeverFalls ==
  ASSUME LowRegion
  PROVE  Spec => HeapNeverShrinks
<1>1. DriverInv /\ [D!Next]_(D!dvars)
        => [ops' # ops /\ ops' # <<>> => mem_brk' >= mem_brk]_(D!dvars)
  <2> SUFFICES ASSUME DriverInv, D!Next, ops' # ops, ops' # <<>>
               PROVE  mem_brk' >= mem_brk
    OBVIOUS
  <2>1. PICK op \in D!Requests : D!ValidObtain(op) \/ D!ValidFree(op)
    BY ReplayStep DEF DriverInv, D!Next, D!StartValid, D!StartUtil, D!StartSpeed, D!Start
  <2>2. mem_brk <= mem_brk'
    BY <2>1, HeapObtain, ValidFreeStep DEF DriverInv, Between
  <2>3. mem_brk \in Nat /\ mem_brk' \in Nat
    BY DriverNext DEF DriverInv, Between
  <2> QED BY <2>2, <2>3
<1> QED BY <1>1, DriverInvariant, PTL DEF Spec, D!Spec, HeapNeverShrinks, D!HeapNeverShrinks

-----------------------------------------------------------------------------
(* A word that compares as another char than the byte of the index differs *)
(* from that byte.                                                         *)
LEMMA CharOfByte ==
  ASSUME PositiveChars, NEW i \in Ids, NEW w, D!Char(w) # D!LowByte(i)
  PROVE  w # D!LowByte(i)
<1>1. i \in Nat /\ BYTE = 256 /\ i % 256 < 128
  BY AnyAssumption DEF PositiveChars
<1>2. (i % 256) % 256 = i % 256
  BY <1>1
<1> QED BY <1>1, <1>2 DEF D!Char, D!LowByte

(* The data the driver blames is missing at the moment it looks at it.     *)
LEMMA BlameStep ==
  ASSUME PositiveChars, RangeInv, DataBlameFair, [D!Next]_(D!dvars)
  PROVE  DataBlameFair'
<1> SUFFICES ASSUME report'.why = "data" PROVE DataBlameFair'
  BY DEF DataBlameFair, D!DataBlameFair
<1>1. CASE D!StartValid
  BY <1>1, StartValidStep
<1>2. CASE D!StartUtil \/ D!StartSpeed
  <2>1. phase # "invalid" /\ (D!Start("util") \/ D!Start("speed"))
    BY <1>2 DEF D!StartUtil, D!StartSpeed
  <2> QED BY <2>1, StartStep
<1>3. ASSUME NEW op \in D!Requests, D!ValidFree(op) PROVE DataBlameFair'
  <2>1. phase = "valid" /\ report' = report
    BY <1>3 DEF D!ValidFree, D!ValidRequest
  <2> QED BY <2>1 DEF RangeInv, Unblamed
<1>4. ASSUME NEW op \in D!Requests, D!ValidObtain(op) PROVE DataBlameFair'
  <2> DEFINE R == IF op.type = "a" THEN ranges ELSE D!remove_range(ranges, blocks[op.index])
  <2>1. PICK r \in D!Outcomes(op) : D!Judge(r, R, op)
    BY <1>4 DEF D!ValidObtain
  <2>2. phase = "valid" /\ report.why # "data" /\ op.index \in Ids
    BY <1>4 DEF D!ValidObtain, D!ValidRequest, RangeInv, Unblamed, D!Requests
  <2>3. /\ ~D!DataKept(r.h.m, r.p, op) /\ D!SetHeap(r.h) /\ D!Invalid("data", r.p, op)
    <3>1. ~UNCHANGED report
      BY <2>2
    <3>2. ~D!Invalid("failed", r.p, op) /\ ~D!Invalid("range", r.p, op)
      BY DEF D!Invalid
    <3> HIDE DEF R
    <3> QED BY <2>1, <3>1, <3>2 DEF D!Judge
  <2>4. PICK a \in D!Words(r.p, D!Compared(op)) :
           D!Char(r.h.m[a]) # D!LowByte(op.index)
    BY <2>3 DEF D!DataKept
  <2>5. mem' = r.h.m
    BY <2>3 DEF D!SetHeap
  <2>6. mem'[a] # D!LowByte(op.index)
    BY <2>2, <2>4, <2>5, CharOfByte
  <2>7. report'.p = r.p /\ report'.len = D!Compared(op) /\ report'.index = op.index
    BY <2>3 DEF D!Invalid
  <2> QED BY <2>4, <2>6, <2>7 DEF DataBlameFair, D!DataBlameFair
<1>5. CASE D!UtilObtain \/ D!SpeedObtain \/ D!ReplayFree
  BY <1>5, ReplayStep
<1>6. CASE UNCHANGED D!dvars
  BY <1>6 DEF D!dvars, DataBlameFair, D!DataBlameFair
<1> QED BY <1>1, <1>2, <1>3, <1>4, <1>5, <1>6 DEF D!Next

(* eval_mm_valid blames an allocator for lost data only when a byte is     *)
(* missing, as long as no index has a low byte of 128 or more.             *)
THEOREM BlameStaysFair ==
  ASSUME PositiveChars
  PROVE  Spec => []DataBlameFair
<1>1. D!Init => DataBlameFair
  BY RangeInit DEF DataBlameFair, D!DataBlameFair
<1>2. RangeInv /\ DataBlameFair /\ [D!Next]_(D!dvars) => DataBlameFair'
  BY BlameStep
<1> QED BY <1>1, <1>2, RangeInvariant, PTL DEF Spec, D!Spec
=============================================================================
