------------------------------- MODULE Driver -------------------------------
(***************************************************************************)
(* mdriver.c: the driver that plays traces of requests to an allocator.    *)
(* For each trace, eval_mm_valid plays the requests and checks what it     *)
(* gets; when it finds no error, eval_mm_util plays the same trace again   *)
(* for space utilization and eval_mm_speed, called by the timing package   *)
(* as often as it likes, for speed.  Each pass starts by resetting the     *)
(* break and calling mm_init, over whatever memory the last one left.      *)
(*                                                                         *)
(* The allocator is a parameter: four operators that take a heap           *)
(* [m, brk, st] (memory, break, static variables) and give the set of the  *)
(* outcomes [p, h] of a call, p being the pointer returned and h the heap  *)
(* left.  The trace is chosen one request at a time while eval_mm_valid    *)
(* runs and is replayed after that.                                        *)
(***************************************************************************)
EXTENDS BlockTags, Memlib, Sequences

CONSTANTS Ids,             \* indices of a trace
          Sizes,           \* sizes of its requests
          Types,           \* kinds of its requests: part of {"a", "r", "f"}
          MaxOps,          \* bound on the requests of a trace
          MaxTraces,       \* bound on the traces played
          Passes,          \* the replays made: part of {"util", "speed"}
          Junk,            \* what the region holds at first
          BYTE,            \* 256: number of values of a char
          Static,          \* the allocator's static variables before mm_init
          mm_init(_),      \* the allocator; mm_init's p is NULL for -1
          mm_malloc(_, _), mm_free(_, _), mm_realloc(_, _, _)

VARIABLES mem, static,     \* with mem_brk: the heap
          ops, next,       \* the trace, and the request played next
          phase,           \* the function that is running, or how it ended
          report,          \* what malloc_error was called about
          ranges,          \* eval_mm_valid: extents of the payloads
          blocks, block_sizes,
          total_size, max_total_size,   \* eval_mm_util
          traces           \* number of traces played

dvars == <<mem, mem_brk, static, ops, next, phase, report, ranges, blocks,
           block_sizes, total_size, max_total_size, traces>>

Heap == [m |-> mem, brk |-> mem_brk, st |-> static]

SetHeap(h) == mem' = h.m /\ mem_brk' = h.brk /\ static' = h.st

NoReport == [why |-> "none", p |-> NULL, index |-> 0, len |-> 0]

(* An index whose block is freed keeps its stale pointer in the code, which *)
(* never looks at it: here it has NULL.                                    *)
NoBlocks == [i \in Ids |-> NULL]

Init ==
    /\ mem \in [Addr -> Junk]
    /\ mem_brk = mem_start_brk
    /\ static = Static
    /\ ops = <<>> /\ next = 1
    /\ phase = "off" /\ report = NoReport
    /\ ranges = {}
    /\ blocks = NoBlocks /\ block_sizes = [i \in Ids |-> 0]
    /\ total_size = 0 /\ max_total_size = 0
    /\ traces = 0

-----------------------------------------------------------------------------
(* The range list. *)

mem_heap_lo == mem_start_brk
mem_heap_hi(brk) == brk - 1
mem_heapsize == mem_brk - mem_start_brk

IS_ALIGNED(p) == p % 8 = 0

(* Slip: the last byte is taken for the first one after the payload. *)
InHeap_Loose(brk, lo, hi) ==
    /\ mem_heap_lo <= lo /\ lo <= mem_heap_hi(brk)
    /\ mem_heap_lo <= hi /\ hi <= brk

InHeap(brk, lo, hi) ==
    /\ mem_heap_lo <= lo /\ lo <= mem_heap_hi(brk)
    /\ mem_heap_lo <= hi /\ hi <= mem_heap_hi(brk)

(* The overlap test: an end of the new payload lies in an old one. *)
Overlaps(R, lo, hi) ==
    \E r \in R : (lo >= r.lo /\ lo <= r.hi) \/ (hi >= r.lo /\ hi <= r.hi)

(* add_range: is the payload accepted, and the list with it. *)
Acceptable(R, brk, lo, size) ==
    LET hi == lo + size - 1
    IN  IS_ALIGNED(lo) /\ InHeap(brk, lo, hi) /\ ~Overlaps(R, lo, hi)

add_range(R, lo, size) == R \cup {[lo |-> lo, hi |-> lo + size - 1]}

(* Slip: the range of the old payload stays in the list. *)
remove_range_Keeps(R, lo) == R

remove_range(R, lo) == {r \in R : r.lo # lo}

-----------------------------------------------------------------------------
(* Requests. *)

Requests ==
    [type : Types \ {"f"}, index : Ids, size : Sizes]
        \cup [type : Types \cap {"f"}, index : Ids, size : {0}]

(* A trace allocates an index that has no block, and reallocates or frees  *)
(* one that has.                                                           *)
Legal(op) == (op.type = "a") <=> (blocks[op.index] = NULL)

(* The outcomes of an allocating request. *)
Outcomes(op) ==
    IF op.type = "a" THEN mm_malloc(Heap, op.size)
                     ELSE mm_realloc(Heap, blocks[op.index], op.size)

Remember(op, p) ==
    /\ blocks' = [blocks EXCEPT ![op.index] = p]
    /\ block_sizes' = [block_sizes EXCEPT ![op.index] = op.size]

-----------------------------------------------------------------------------
(* eval_mm_valid *)

(* memset's byte, and how a char that holds it compares with an int: char  *)
(* is signed.                                                              *)
LowByte(i) == i % BYTE
Char(w) == IF w % BYTE < BYTE \div 2 THEN w % BYTE ELSE (w % BYTE) - BYTE

(* Bytes of a reallocated payload that are compared with the old index.    *)
Compared(op) ==
    IF op.type = "a" THEN 0
    ELSE IF op.size < block_sizes[op.index] THEN op.size ELSE block_sizes[op.index]

(* Slip: the data is looked for at the old address. *)
DataKept_Old(m, p, op) ==
    \A a \in Words(blocks[op.index], Compared(op)) : Char(m[a]) = LowByte(op.index)

DataKept(m, p, op) ==
    \A a \in Words(p, Compared(op)) : Char(m[a]) = LowByte(op.index)

StartValid ==
    /\ phase \in {"off", "invalid"} \/ (phase = "speed" /\ next > Len(ops))
    /\ traces < MaxTraces
    /\ traces' = traces + 1
    /\ ops' = <<>> /\ next' = 1
    /\ ranges' = {}
    /\ blocks' = NoBlocks /\ block_sizes' = [i \in Ids |-> 0]
    /\ total_size' = 0 /\ max_total_size' = 0
    /\ \E r \in mm_init([Heap EXCEPT !.brk = mem_start_brk]) :
          /\ SetHeap(r.h)
          /\ phase' = IF r.p = NULL THEN "invalid" ELSE "valid"
          /\ report' = IF r.p = NULL THEN [NoReport EXCEPT !.why = "mm_init"]
                                     ELSE NoReport

(* malloc_error, and the pass ends. *)
Invalid(why, p, op) ==
    /\ phase' = "invalid"
    /\ report' = [why |-> why, p |-> p, index |-> op.index, len |-> Compared(op)]
    /\ UNCHANGED <<blocks, block_sizes>>

(* The driver judges the outcome r of a request, R being the ranges of the *)
(* other payloads.                                                         *)
Judge(r, R, op) ==
    \/ /\ r.p = NULL
       /\ SetHeap(r.h) /\ UNCHANGED ranges
       /\ Invalid("failed", r.p, op)
    \/ /\ r.p # NULL /\ ~Acceptable(R, r.h.brk, r.p, op.size)
       /\ SetHeap(r.h) /\ ranges' = R
       /\ Invalid("range", r.p, op)
    \/ /\ r.p # NULL /\ Acceptable(R, r.h.brk, r.p, op.size)
       /\ ~DataKept(r.h.m, r.p, op)
       /\ SetHeap(r.h) /\ ranges' = add_range(R, r.p, op.size)
       /\ Invalid("data", r.p, op)
    \/ /\ r.p # NULL /\ Acceptable(R, r.h.brk, r.p, op.size)
       /\ DataKept(r.h.m, r.p, op)
       /\ SetHeap([r.h EXCEPT !.m = memset(@, r.p, LowByte(op.index), op.size)])
       /\ ranges' = add_range(R, r.p, op.size)
       /\ Remember(op, r.p)
       /\ UNCHANGED <<phase, report>>

ValidRequest(op) ==
    /\ phase = "valid" /\ Len(ops) < MaxOps /\ Legal(op)
    /\ ops' = Append(ops, op)
    /\ UNCHANGED <<next, total_size, max_total_size, traces>>

ValidObtain(op) ==
    /\ ValidRequest(op) /\ op.type # "f"
    /\ \E r \in Outcomes(op) :
          Judge(r, IF op.type = "a" THEN ranges
                   ELSE remove_range(ranges, blocks[op.index]), op)

ValidFree(op) ==
    /\ ValidRequest(op) /\ op.type = "f"
    /\ ranges' = remove_range(ranges, blocks[op.index])
    /\ \E r \in mm_free(Heap, blocks[op.index]) : SetHeap(r.h)
    /\ blocks' = [blocks EXCEPT ![op.index] = NULL]
    /\ UNCHANGED <<block_sizes, phase, report>>

-----------------------------------------------------------------------------
(* eval_mm_util and eval_mm_speed: the trace again, unchecked. *)

(* Slip: the break is not reset. *)
Start_NoReset(pass) ==
    /\ next' = 1
    /\ blocks' = NoBlocks
    /\ total_size' = 0 /\ max_total_size' = 0
    /\ \E r \in mm_init(Heap) :
          /\ SetHeap(r.h)
          /\ phase' = IF r.p = NULL THEN "app_error" ELSE pass
    /\ UNCHANGED <<ops, report, ranges, block_sizes, traces>>

Start(pass) ==
    /\ next' = 1
    /\ blocks' = NoBlocks
    /\ total_size' = 0 /\ max_total_size' = 0
    /\ \E r \in mm_init([Heap EXCEPT !.brk = mem_start_brk]) :
          /\ SetHeap(r.h)
          /\ phase' = IF r.p = NULL THEN "app_error" ELSE pass
    /\ UNCHANGED <<ops, report, ranges, block_sizes, traces>>

StartUtil  == "util" \in Passes /\ phase = "valid" /\ Start("util")
StartSpeed ==
    /\ "speed" \in Passes
    /\ phase \in {"util", "speed"} /\ next > Len(ops)
    /\ Start("speed")

Replay ==
    /\ phase \in {"util", "speed"} /\ next <= Len(ops)
    /\ next' = next + 1
    /\ UNCHANGED <<ops, report, ranges, traces>>

(* Slip: a reallocation adds the new size without taking off the old one.  *)
Account_AddsOnly(op) ==
    total_size' = IF op.type = "f" THEN total_size - block_sizes[op.index]
                                   ELSE total_size + op.size

(* What a request adds to the total of the payloads. *)
Account(op) ==
    total_size' = CASE op.type = "a" -> total_size + op.size
                    [] op.type = "r" -> total_size + (op.size - block_sizes[op.index])
                    [] op.type = "f" -> total_size - block_sizes[op.index]

UtilObtain ==
    /\ Replay /\ phase = "util" /\ ops[next].type # "f"
    /\ \E r \in Outcomes(ops[next]) :
          \/ /\ r.p = NULL
             /\ SetHeap(r.h) /\ phase' = "app_error"
             /\ UNCHANGED <<blocks, block_sizes, total_size, max_total_size>>
          \/ /\ r.p # NULL
             /\ SetHeap(r.h)
             /\ Remember(ops[next], r.p)
             /\ Account(ops[next])
             /\ max_total_size' = MAX(total_size', max_total_size)
             /\ UNCHANGED phase

SpeedObtain ==
    /\ Replay /\ phase = "speed" /\ ops[next].type # "f"
    /\ \E r \in Outcomes(ops[next]) :
          /\ SetHeap(r.h)
          /\ phase' = IF r.p = NULL THEN "app_error" ELSE phase
          /\ blocks' = [blocks EXCEPT ![ops[next].index] = r.p]
    /\ UNCHANGED <<block_sizes, total_size, max_total_size>>

ReplayFree ==
    /\ Replay /\ ops[next].type = "f"
    /\ \E r \in mm_free(Heap, blocks[ops[next].index]) : SetHeap(r.h)
    /\ blocks' = [blocks EXCEPT ![ops[next].index] = NULL]
    /\ IF phase = "util" THEN Account(ops[next]) ELSE UNCHANGED total_size
    /\ UNCHANGED <<phase, block_sizes, max_total_size>>

Next ==
    \/ StartValid \/ StartUtil \/ StartSpeed
    \/ \E op \in Requests : ValidObtain(op) \/ ValidFree(op)
    \/ UtilObtain \/ SpeedObtain \/ ReplayFree

Spec == Init /\ [][Next]_dvars

-----------------------------------------------------------------------------
(* What the driver promises of any allocator. *)

Live == {i \in Ids : blocks[i] # NULL}

(* The break stays between mem_start_brk and mem_max_addr, the "largest    *)
(* legal heap address" of memlib.c, whatever increments the allocator asks *)
(* of mem_sbrk.                                                            *)
BreakInRegion == mem_start_brk <= mem_brk /\ mem_brk <= mem_max_addr

(* "In this model, the heap cannot be shrunk" (memlib.c): no request of a  *)
(* trace moves the break down, whatever the allocator asks for.            *)
HeapNeverShrinks ==
    [][ops' # ops /\ ops' # <<>> => mem_brk' >= mem_brk]_dvars

(* While eval_mm_valid runs, the range list holds exactly the extents of   *)
(* the payloads the trace has at that moment: add_range and remove_range   *)
(* never get out of step with the requests.                                *)
RangesMatchBlocks ==
    phase = "valid" =>
        ranges = {[lo |-> blocks[i], hi |-> blocks[i] + block_sizes[i] - 1] : i \in Live}

(* "We use the range list to detect any overlapping allocated blocks": an  *)
(* allocator that eval_mm_valid has not faulted has disjoint payloads.     *)
OverlapsDetected ==
    phase = "valid" =>
        \A r, s \in ranges : r # s => r.hi < s.lo \/ s.hi < r.lo

(* Every payload eval_mm_valid accepted is 8-aligned and inside the heap,  *)
(* even though the heap and the list have grown since it was accepted.     *)
AcceptedInHeap ==
    phase = "valid" =>
        \A i \in Live : /\ blocks[i] % 8 = 0
                        /\ mem_start_brk <= blocks[i]
                        /\ blocks[i] + block_sizes[i] <= mem_brk

(* An allocator is told that it lost data only when a byte of the old      *)
(* payload is missing from the new one.                                    *)
DataBlameFair ==
    report.why = "data" =>
        \E a \in Words(report.p, report.len) : mem[a] # LowByte(report.index)

-----------------------------------------------------------------------------
(* What a correct allocator makes of the driver. *)

(* eval_mm_valid never faults the allocator: it may run out of memory, but *)
(* no payload is misplaced and no reallocation loses data.                 *)
NeverFaulted == report.why \in {"none", "failed", "mm_init"}

(* A trace that eval_mm_valid has played to its end can be played again:   *)
(* eval_mm_util and eval_mm_speed, over the memory the earlier passes      *)
(* left, never end in app_error.                                           *)
ReplaySucceeds == phase # "app_error"

(* Utilization is at most 1: the peak of the payloads' total size never    *)
(* exceeds the heap ("brk is always the high water mark of the heap").     *)
UtilAtMostOne == phase = "util" => max_total_size <= mem_heapsize
=============================================================================
