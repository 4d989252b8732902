# Verification of the malloc lab

TLA+ models, TLC runs and TLAPS proofs about the allocators of this repository, the simulated
memory they live in and the driver that evaluates them.

The driver with its allocator is one sequential process. What makes it hard is not concurrency but
long sequences of calls over raw memory: every allocator keeps its whole state in the words between
the payloads, each call trusts tags and links that earlier calls left, and every pass of the driver
starts over the memory the previous pass left behind. Only the timing package has a partner that
runs when it likes: the timer tick. Around the driver, scripts write, check and balance the trace
files that all of it believes.

## 1. The system

| Component | State | Operations | Talks to |
|---|---|---|---|
| `memlib.c`, simulated memory | the region, the break `mem_brk` | `mem_init`, `mem_reset_brk`, `mem_sbrk`, bounds | called by allocators and driver |
| `mm.c` (= `malloc/explicit-82.c`), explicit list | words of the heap, `heap_listp` | `mm_init`, `mm_malloc`, `mm_free`, `mm_realloc` | `mem_sbrk` |
| `malloc/implicit-54.c` (= `implicit-53.c`) | words, `heap_listp` | the same four | `mem_sbrk` |
| `malloc/refer/refer.c` (= `refer copy.c`) | words, `free_listp` | the same four | `mem_sbrk` |
| `malloc/segregated_list-85.c` (= `refer/seglist.c`) | words, one list head per size group | the same four | `mem_sbrk` |
| `malloc/buddy.c` | words, `base_ptr`, `bucket_limit`, list heads, split bits | the same four | `mem_sbrk` |
| `mdriver.c` | trace, range list, `blocks`, `block_sizes`, totals | `eval_mm_valid`, `eval_mm_util`, `eval_mm_speed`, `main` | the linked allocator, `memlib.c`, timing |
| `fcyc.c`, `clock.c`, `fsecs.c`, `ftimer.c` | the best samples, counter readings, the estimated cost of a tick, timers | `fsecs`, `fcyc`, `get_comp_counter`, `ftimer_itimer`, `ftimer_gettod` | call `eval_mm_speed` or `eval_libc_speed`; interrupted by the tick |
| `traces/checktrace.pl`, generators, `read_trace` | table of ids, the arrays of a trace | write, check, balance and load a trace file | produce the driver's input |

What makes each correct:

* allocator: payloads are 8-aligned, inside the heap and disjoint; no call touches another
  payload; reallocation keeps the data; no block is lost; free neighbours are merged; the free
  structure holds the free blocks exactly, so that a search finds one if there is one and ends;
  `mm_init` depends on nothing the region holds.
* `memlib.c`: the break stays in the region and never moves down between two resets.
* driver: the range list follows the requests; every bad payload is found; a good allocator is
  never faulted; the replays succeed; utilization is at most 1.
* timing: the K smallest samples, sorted; the loops end; a difference of two readings is what
  passed between them, although counters wrap; the time of ticks is taken off.
* traces: generated files are accepted; balancing leaves nothing outstanding and keeps the header
  right; a loaded trace uses an id only between its allocation and its free.
* `main`: the index is made of exactly the traces that were evaluated, and printed only if none
  was faulted.

The behaviours that are hard to test are the entries of `hazards` in `PROJECT.json`.

## 2. The modules

| Module | Models |
|---|---|
| `BlockTags` | the macros for headers and footers, shared by all tagged allocators; memory is a function from word addresses to words |
| `Memlib` | the region, the break, `mem_sbrk` with its `int` parameter and its 32-bit sum; `memcpy` and `memset` |
| `Explicit` | `mm.c` and a client that calls it in any order |
| `ExplicitProps` | the properties of `mm.c`, its inductive invariant, the refinement mapping |
| `Allocator` | the abstract specification: what a client may rely on |
| `ExplicitProofs` | lemmas about `mm.c`'s heap and what each of its functions does to it; the safety proofs about it; that it implements `Allocator`; that a pass depends on nothing of the one before |
| `TagLemmas` | lemmas about tagged heaps without links, the tags being a function from blocks to sizes and states |
| `DriverProofs` | what the driver finds of any allocator that keeps a contract |
| `ImplicitProofs`, `ReferProofs`, `SegListProofs` | that `implicit-54.c`, `refer.c` and `segregated_list-85.c` keep it, and the safety proofs that follow |
| `AnyProofs` | what the driver and `memlib.c` guarantee of any allocator |
| `EvaluationProofs` | the safety proofs about the timing package, about what `main` reports and about trace files |
| `Driver` | `mdriver.c`, with the allocator as four CONSTANT operators |
| `Implicit`, `Refer`, `SegList`, `Buddy` | one allocator each, instantiating `Driver` with it |
| `AnyMalloc` | `Driver` with an allocator that returns anything |
| `TraceFiles` | the generators, `checktrace.pl`, `read_trace` |
| `Timing` | `clock.c`, `fcyc.c`, `ftimer.c` and the timer tick |
| `Evaluation` | the two programs that use them: `make` in `traces/`, and `main` of `mdriver.c`, run on the lists of trace files `TraceLists`, a constant |
| `EvaluationMC` | three such lists for TLC: files of generators, one without requests, one with a wrong header |

### State and code

*Words.* A memory is a function on the 4-byte words of the region; a store of the code is a
`PUT`, made in the order of the code. Bytes are abstracted: a word filled by `memset` is
represented by the byte it is filled with, and comparing the bytes of a payload is comparing its
words. Sizes are in bytes. Addresses are numbers, so a layout computed by the code (alignment,
remainders, a footer in the next block's place) is computed by the model.

*`Explicit`.* An operator with the name of a C function takes the memory and gives the memory
that function leaves. A call of the client is one step up to `find_fit`, whose loop takes one
step per block, and one step for the rest (`PlaceFit`, `GrowAndPlace` or `GrowFails`); `Fill` is
the driver's `memset` of a payload. `StartPass` is `mem_reset_brk` and `mm_init`. The client may
allocate an index without a block, free or reallocate one with a block, ask for 0 bytes, and goes
on after a failed call; `eval_mm_valid` does a part of that.

*`Driver`.* `phase` is the function that runs, `ops` the trace, chosen one request at a time
during `eval_mm_valid` (so every trace up to `MaxOps` is played) and replayed from `next` by
`eval_mm_util` and `eval_mm_speed`. A heap passed to an allocator is `[m, brk, st]`: memory,
break, static variables. `Judge` is the part of `eval_mm_valid` after a call: the four ways it
can end, in the order the code tests them. The speed pass may be repeated any number of times,
because the timing functions call it as often as they like.

*`TraceFiles`.* A file is the two numbers of its header that are used and the list of its request
lines; sizes are left out. `tool` is the program that reads the file and `pos` how far it is: one
step per line of `checktrace.pl` and of `read_trace`, so that what is stored before the header is
compared can be seen. `EndCheck` writes the balanced file, and the Makefile goes on to
`checktrace.pl -s`. `gen_random(n)` is the set of all files the random numbers can give.

*`Timing`.* The timing package reads a cycle counter and, by `times()`, the number of timer ticks;
`at` says what it does next. A tick is a step of its own, due `PERIOD` cycles after the last one and
taking `TICK` cycles, which the counter does not tell from those of the measured function. Each
reading takes a cycle and each piece of the function some of `Chunks`, so that a tick comes before,
between and after any two readings. `own` and `during` are ghosts: the cycles of the function and
the ticks that interrupted it, which `time` is compared with. For `ftimer.c`, `wall` is the clock and
`Laps` the times a run of the function can take.

*`Evaluation`.* `do` is the next step of `main`. What the passes over a trace find is any of their
outcomes; `Driver` shows which ones an allocator can bring about. `Speed` is a step of `Timing`, and
`SpeedFails` one of the calls that end the program in the middle of a measurement.

*Slips.* Operators named `op_Slip`, after an operator `op`, are deliberate mistakes in `op`: each
property is shown to be violated when one of them replaces the operator (`mutants` in
`PROJECT.json`).

## 3. What the runs check

| Run | Bounds | What it shows |
|---|---|---|
| `explicit` | 72 bytes of heap, CHUNKSIZE 16, two indices, sizes 0, 4, 12, 20, 300, two passes | the safety properties of `ExplicitProps`, `RestartForgets`, `SearchEnds`, and that `mm.c` implements `Allocator` |
| `implicit` | 72 bytes, two indices, traces of 6 requests | never faulted, replays succeed, utilization, `HeapWalks` |
| `refer` | 80 bytes, two indices, traces of 6 requests | never faulted, replays succeed, `ListExact` |
| `seglist` | 112 bytes, 6 groups, three indices, allocation and free, traces of 5 requests | never faulted, replay succeeds, `ListsExact`, `NeighboursMerged` |
| `buddy` | blocks of 16 to 256 bytes, 120 bytes of memory, the indices 0, 2 and 3, traces of 5 requests, `eval_mm_valid` on one trace | faulted for lost data of index 0 only (`NeverFaulted`), `TreeTiled`, `BuddiesMerged`, these two also after a call that finds no memory |
| `any_malloc` | four addresses; increments of 0, 24, 40, 41 and 200 in a region of 40 bytes and 256 addresses; two traces of 3 requests | the break, the range list, the checks of `add_range`, the data check |
| `evaluation` | generators with 1 to 3 rounds, recorded files of up to 3 lines; a counter of 64 cycles, a tick every 6 cycles that takes 6, two samples kept of at most three; three lists of trace files, with and without libc | generated files are accepted, balancing is exact, a loaded trace can be replayed, `K`-best, exact readings, what compensation can be wrong by, the report of `main`, and that both programs end |

*Why these bounds.* 72 bytes hold the prologue and three blocks of minimal size: requests of 4
and 12 bytes take blocks of 16 and 24, so that blocks are split, handed out whole with a remainder
of 8, merged to the left, to the right and on both sides, found first, later or not at all on the
list; the heap runs full, a request of 300 bytes always fails, growth merges with a free last block
or not. Every action of every module is taken. With a CHUNKSIZE of 16 the heap grows in the course
of a run; 4096 would make it grow once. The word size `WORD` stands for 2^32 and is chosen so that
the sums of `mem_sbrk` do not wrap, except in `any_malloc` and `memlib_wrap`. `Junk = {5}` is what
the region holds at first: an odd number, so that reading it as a tag or a link is noticed; the second
pass of `explicit` and the replays of the driver start from everything an earlier pass can leave. Two
indices are enough for `explicit` because three blocks fill its heap: one of them free between two
allocated ones, or allocated between two free ones, is all there is.
`seglist` leaves reallocation out because of the last finding below; `buddy` plays a trace once
because of the fourth. No list of `seglist` reaches three blocks: that a block is put into the
middle of a list, or taken out of it, is covered by the theorem `SegListListsExact` alone. Of the
increments of `any_malloc`, 40 ends exactly at `mem_max_addr`, 41 one byte past it, and 200 is
negative as an `int`; that an increment which fits is never *refused* is not stated.

`buddy.c` loses data where the others do not: `mm_realloc` takes the first word of the old payload
for its size (`buddy.c:526`), and the payload of an index whose low byte is 0 is filled with zeros, so
nothing is copied. `eval_mm_valid` notices unless the new block happens to hold zeros, as fresh memory
may; in the model it holds something else (`Junk`), and two requests are enough: index 0 is allocated and
reallocated, which every trace of `gen_realloc.pl` does. `NeverFaulted` of `Buddy` therefore allows
exactly this fault and no other. `buddy` grows the tree until memory runs out, which with 120 bytes
is long before bucket 0; the same is so of the 20 MB of `config.h` and the 2 GB of bucket 0, so that
the end of the address space is not met by the program either.

In `evaluation`, three rounds are the first number with a middle one, and put every free of
`gen_random.pl` before, between and behind others; three recorded lines hold an allocation, a free
and what comes after, with a header that may say anything. `HALF` is 8 and stands for 2^32, and
`HALF^2`, 64, for 2^64: the counter starts two below the wrap, and a sample takes up to 21 cycles, so
that its low word wraps several times and the whole of it once. No measured time reaches 64
(`CounterAssumption`): a sample does not, and `callibrate`, which waits for `NEVENT` ticks after one
reading of the counter, may take `(NEVENT + 2) * (PERIOD + TICK) + PERIOD` cycles, 54.
A sample of up to 8 cycles against a tick every 6 has none, one or two ticks in it, at every place.
`THRESHOLD`, `RECORDTHRESH` and `TICK` keep the order of their real counterparts, about 1000, 3000
and more; `NEVENT` is 2 for 100, `maxsamples` 3 for 20, `kbest` 2 for 3, and an `EPS` of 10 makes
some pairs of samples converge and others not. `USEC` is 4 for 10^6, and `MAX_ETIME` short enough
for the interval timer to run down.

*Deadlock.* The programs of `evaluation` end, and the driver ends after `MaxTraces` traces or in `app_error`: their runs say
`CHECK_DEADLOCK FALSE`. `Explicit`'s client never stops, and its runs check deadlock.

*Fairness.* `FairSpec` assumes weak fairness of `FindFit` only: the process keeps running inside
the loop of `find_fit`. Nothing is assumed of the client.
For `evaluation` it is weak fairness of `Next`: each of the two programs is one process that never
waits for anybody, and the tick is served when it is due. Nothing is assumed about the lengths of the
samples: `fcyc` ends although they need not converge.

### Disagreements between code and comments

Five runs expect a violation; each finding in `PROJECT.json` quotes the line.

* `driver_overlap`: `add_range` overlooks a new payload that contains an old one.
* `memlib_wrap`: `mem_sbrk` can move the break down when `mem_brk + incr` wraps, with the region
  in the upper half of the address space.
* `driver_char`: `eval_mm_valid` compares a signed `char` with a value up to 255, and reports lost
  data for an index whose low byte is at least 128, although nothing was lost.
* `buddy_replay`: `buddy.c`'s `mm_init` does not clear `node_is_split`. A trace that leaves blocks
  allocated makes the next pass start from a tree with split bits; with two traces the driver is
  then handed overlapping payloads.
* `seglist_realloc`: `segregated_list-85.c` reallocates in place by calling `place`, whose
  `remove_block` takes the client's data for list links.

### Further observations

No run is spent on these; the states are among those of `evaluation`.

* `checktrace.pl:96` ("reused ID") and `:105` ("freeing already freed block") can never fire: a freed
  id is deleted from the table, and `!$HASH{$id} eq "f"` compares the negation. A reused id is accepted
  and loaded; `LoadedReplayable` shows that the driver copes with it.
* `checktrace.pl` takes over the number of requests from the header without counting, and accepts a
  type of request that does not exist, at which it dies only if the id is outstanding at the end,
  after it has printed a part of its output into the file the Makefile redirected. `read_trace` then
  ends the driver by an assertion or as bogus; before that, requests may have been stored past the
  end of `ops`. `HeaderStaysRight` says this never comes from a file whose header was right.
* `max_index`, which the assertion at the end of `read_trace` compares with the header, is not updated
  by a free (`mdriver.c:537-541`). A free of an index past the end of `blocks` is so loaded without a
  complaint, in a file that `checktrace.pl` has not seen. For `HeaderStaysRight` a header is right only
  if it bounds the ids of the frees, too; the property then says that the frees `checktrace.pl` adds
  keep it so, and that no request of any type has an index past the end of `blocks`.
* A tick that comes between the reading of the counter and that of `times()` is taken off although it
  was not measured. A compensated time may so be too small, even negative, and K-best selects exactly
  these samples; with a negative total `main` prints a negative index. A tick that `callibrate`
  meets at that place gives a ratio below `RECORDTHRESH`, which counts as an event without giving an
  estimate; if all `NEVENT` of them are such, nothing is taken off at all.
* A single trace file without requests has an index that is not a number if its time is 0.
* `gen_random.pl` draws sizes with `int(rand(...))`, so 0 may come out; the allocators return `NULL` for
  it, which `eval_mm_valid` counts as an error.

## 4. What is proved

`ExplicitProofs` proves, for every value of the constants that satisfies `MemAssumption` and
`ExplicitAssumption` (aligned region that lies below 2^32, CHUNKSIZE a multiple of 8 of at least 16,
requests that do not make the new break wrap), every set of indices and every number of passes:

`Spec => []P` for P each of `IInv`, `TypeOK`, `PayloadsSafe`, `PayloadsIntact`, `HeapTiled`,
`Coalesced`, `FreeListExact`, `NothingLost` and `GrowsOnlyWhenNeeded`.

*The inductive invariant.* None of these is inductive alone. That payloads stay apart needs that
tags cut the heap into blocks; that tags stay right needs that `list_add` and `list_remove`
write into payload words of free blocks, hence that the list holds free blocks only; that an
exact list stays exact needs that the block `place` is given is on it, hence what `find_fit`
knows while it runs. `IInv` says all of it for *one* set of blocks `B` that tiles the heap:

* `Tiles`: the blocks of `B` lie end to end from the prologue to the epilogue, header equal to
  footer;
* `FreeList`: the links of the free blocks and the prologue are inverse to each other and contain
  no ring that avoids the prologue (`OneRing`, which says "reachable from the prologue" without
  recursion);
* `NoFreeNeighbours`, `Owned` (allocated blocks and indices correspond), `Roomy` (room for both
  tags), `PayloadsIntact`;
* `SearchInv`: what holds between the steps of a call, with the set `V` of blocks `find_fit` has
  passed.

*The argument.* First lemmas about the heap: removing and adding preserves `FreeList`; a write that
keeps the tags keeps the tiling; cutting one block into two and joining two; the four cases of
`coalesce`; then `mm_free`, `place`, `extend_heap`, `mm_init` and the copy of `mm_realloc`, each as a
lemma about the memory it is given and the memory it leaves. Then one lemma per action that it
preserves `IInv`, `Spec => []IInv`, and the theorems above as its consequences.

*The refinement.* `Refinement` says `Spec => ImplementsAllocator` under the same assumptions.
The mapping shows the client's words of memory, so that a step must be shown to leave every payload
but one alone. `IInv` gives that at once: outside the one call that has just returned, a payload
holds its pattern (`Settled`), before the step and after it. A call that returns a payload maps to
`Obtain`, `Fill` to `Write`, `Free` to `Release`, `StartPass` to `Reset`; the others are not seen.

*Restart.* `PassesForget` says `Spec => RestartForgets`. `mm_init` succeeds or fails by the size of
the region alone; if it succeeds, `Fresh` says which word is where, without mentioning the memory it
started from. If it fails nothing is claimed about the words: the first call never comes.

*The driver.* `AnyProofs` proves about `AnyMalloc`, whose allocator asks `mem_sbrk` for any increment,
returns any address and copies or does not copy, for every set of indices, sizes, addresses and
increments: `RangesMatchBlocks` without further conditions; `DataBlameFair` under `PositiveChars`, no
index has a low byte of 128 or more; `BreakInRegion`, `AcceptedInHeap` and `HeapNeverShrinks` under
`LowRegion`, the region ends in the lower half of the address space. The two conditions are what the
findings of `driver_char` and `memlib_wrap` violate: they are all it takes. `LowRegion` is a real
restriction, for libc may place the 20 MB of `mem_init` anywhere.
`RangeInv` adds what makes the range list inductive: the payloads accepted have different
addresses and at least one byte, because `remove_range` looks a range up by its first byte; nothing
in it depends on the break. `DriverInv` adds the break and the payloads' place in the heap.
`OverlapsDetected` is not among the theorems, for it is false (`driver_overlap`). That requests have
at least one byte is what `add_range` asserts (`AnyAssumption`).

*Any correct allocator.* `DriverProofs` says what an allocator has to do for the driver to find it
correct, and proves that it does. An allocator gives a description `c` to each heap it can be in, and
`Contract` speaks of descriptions: the payloads of `c` are aligned, in the heap and apart; the client
may write into one; each call takes a heap that `c` describes to one that another description does,
which depends on `c` and the request *alone*, not on the words of which `c` says nothing, and keeps
what the other payloads hold. So the heap is a function of the requests so far: `History` says
that a trace leads through a sequence of descriptions, and `ServedInv` that the driver is in the
one for its place in the trace, in each pass. That a replay succeeds is a consequence: it meets the
heaps of the first pass, in which there was room, although the other words of the region are
whatever the passes before left. For the utilization, `total_size` is the number of bytes in the
union of the live payloads (`Counted`), which lies in the heap. The theorems are
`ServedNeverFaulted`, `ServedReplays`, `ServedUtil` and `ServedSound`: between two calls the heap is
one that a description describes. `ServedNeverFaulted` also needs `PositiveChars`, as in
`driver_char` the data check blames an allocator that is right.

*The implicit list.* `ImplicitProofs` proves `NeverFaulted`, `ReplaySucceeds`, `UtilAtMostOne` and
`HeapWalks` of `Implicit`, from `MemAssumption` and `ImplicitAssumption` (no request makes the new
break wrap), for every region, chunk size, set of indices and sizes, length of trace and number of
passes. `TagLemmas` replaces the memory by the function `T` from the blocks to their sizes and
states, and says when `T` tiles the heap and has no two free neighbours (`Shape`, `Separate`), and
what growing, cutting and merging make of it. Each function of the code is then shown to make of a
memory with tags `T` one with the tags a definition gives (`FreeMakes`, `PlaceMakes`, `ExtendMakes`,
`MallocMakes`, `ReallocMakes`), and to leave the payloads alone. Hence `ContractKept`: tags and break
describe the heap, and `implicit-54.c` keeps the contract.

*The reference list.* `ReferProofs` proves `NeverFaulted`, `ReplaySucceeds` and `ListExact` of `Refer`
in the same way, from `MemAssumption` and `ReferAssumption`. A heap is described by its tags, its break and
its list of free blocks: which block the search finds depends on the order of the list, hence on the
requests before. `ListOf(l, F)` says that `l` holds each block of `F` once, between NULL and the
prologue, and `Linked(m, l)` that the words of `m` link it so. `AddLinks` and `RemoveLinks` say what the two
list operations make of a linked list, `CoalesceMakes` composes them in the four cases. The search
stops within its bound because free blocks are disjoint: a list without repetition is shorter than
the number of blocks the region has room for (`ShortList`, a pigeonhole argument). `ListExact` is
then what the description says, read off the memory (`ListHere`).

*The segregated lists.* `SegListProofs` proves `NeverFaulted`, `ReplaySucceeds`, `ListsExact` and
`NeighboursMerged` of `SegList`, from `MemAssumption`, `SegListAssumption` and one hypothesis: no trace
reallocates (`"r" \notin Types`). It cannot be dropped, as `seglist_realloc` shows: `place` then unlinks
a block whose first words are the client's data. A heap is described by its tags, its break and a
function `L` from the groups to lists; `ListsOf(L, T, F)` says that the list of each group holds the
blocks of `F` of its sizes once each, smallest first. What is written when a block enters or leaves a
list are links of blocks of *one* group, and blocks of different groups have no word in common, so
that the other lists stay (`OtherLists`). `Link` and `Unlink` are the two list operations on a heap;
`CoalesceMakes` composes them in the four cases, the blocks that are merged leaving the groups they
were in before the merged one enters the group of its size; `PlaceMakes` takes a block out *before*
its tags change, on which finding its group depends. Nothing is assumed of `Group` but that each size has
one (`GroupFacts`): the lists would be exact for any division into classes. `FirstFit` says which
block `find_fit` returns, which is what replays need; that it has room follows from where the search
stops (`SeekFacts`).

*Timing.* `EvaluationProofs` proves `MeasuredExactly`, `CompensationBounds` and
`BestKept` for `FairSpec`, from two assumptions. `TimingAssumption`: a tick takes more than
`RECORDTHRESH` cycles, which is more than `THRESHOLD + 1`, and the next one is due later than that.
`CounterAssumption`: neither a run of the function nor `callibrate` takes 2^64 cycles. The base is a
lemma about `get_counter`: the two-word subtraction with its borrow is the difference modulo the
square of `HALF`, wherever the counter starts. `MeasurementInv` compares it with the ghosts: at every
stage the counter has advanced by `own`, `during * TICK` and the readings in between, and at most two
ticks are counted that do not come in the function. For `callibrate`, `CalInv` lists where a tick can
come between its readings, hence what a difference it takes for a tick can be; a tick it missed
costs it an event, and `Longest` bounds how long it can go on for all that. For `add_sample`,
`BestKept` itself is inductive; the step is an insertion into a sorted sequence, for every `kbest`.

*The report.* `Reports` proves `ReportMatchesRuns` for any lists of trace files: of `TraceLists` it is
only assumed that its elements are nonempty sequences of files (`EvaluationAssumption`), with any
headers and any requests. `MainInv` says of
each trace whether its turn is past, and then that it is correct or faulted and not both; the sums
over the traces are a recursive function, and their bounds are proved by induction over its argument.

*Trace files.* `EvaluationProofs` also proves `GeneratedAccepted`, `BalancedEndsEmpty`, `LoadedReplayable` and
`HeaderStaysRight` for files of any length and any number of rounds. `TraceInv` says what
`checktrace.pl` and `read_trace` know after `pos` lines: `Tables(h, s)` holds of the tables `h` the
script goes through when it objects to none of the requests `s`, and `Entered` that an outstanding id is
that of a line it has read, hence below the number of ids of a right header. While it checks a file there are
such tables for the lines it has saved; `TablesFreed` extends them by the frees, in the order of the
ids' ranks, down to the empty table; so there are tables for the balanced file, the script objects to
nothing in it, and by `TablesLive`, what is in the table is live, the passes may replay it. That no
script dies on a generated file needs that each generator allocates an index once and frees or
reallocates it after that (`UsedOnce`): for the three regular ones from the place of each line, for
`gen_random.pl` by induction over the frees spliced in (`RandomInv`).

*Induction.* The library's induction theorems take an operator, which the provers cannot instantiate.
`EvaluationProofs` and `TagLemmas` state induction about a set instead (`Induction`: a set of numbers that has 0 and with
each number the next one has all of them), from `Least`, which is a fact about finite sets. Recursive
functions (`Total`, `gen_random`, `Visited`) are so within reach, recursive operators are not.

*Only model-checked.* `SearchEnds` and `EvaluationEnds` (liveness is beyond the prover). `SegList` on
traces that reallocate, on which it is wrong. What the driver finds of `Buddy` (`NeverFaulted`,
`TreeTiled`, `BuddiesMerged`): its walks over the tree are recursive operators, which the prover does not
handle, over nodes numbered with powers of two, of which the solver knows nothing. Nor does it keep
the contract of `DriverProofs`, as `mm_init` leaves the split bits of the pass before (`buddy_replay`):
theorems about it would hold of the first pass of the first trace only, which is what the run checks.

## 5. Not modelled

* `malloc/refer/explicit-0509.c`: an unfinished draft of `mm.c`.
* Team information, usage and printed tables of `mdriver.c`; what libc's allocator does.
* The Alpha version of the counter; `mhz` and `ovhd` of `clock.c`, which measure the clock rate by
  sleeping and print the overhead; the walk of `fcyc.c` over the cache; the version without compensation, which the
  driver never selects. `auto-grade.py`, and the Makefile that compiles.
* Sizes in trace files, and the text of a line: a line is a request, blank, or of an unknown type.
* Bytes past an old payload that a reallocation copies (`segregated_list-85.c:297`,
  `buddy.c:526`): the copy is cut off at the end of the region, and the client never looks at
  these bytes.
* Requests near 2^32 bytes, for which `size + 15` wraps: excluded by `ExplicitAssumption`.

## 6. Plan

In order of importance:

1. `Explicit`, `ExplicitProps`, `Allocator`, their runs and the safety proofs. Done.
2. `Driver` and `AnyMalloc`; the other four allocators under it. Done.
3. `TraceFiles`, `Timing` and `Evaluation`, which composes them. Done.
4. Refinement and `RestartForgets` proved; theorems about the driver for any allocator. Done.
5. Theorems about timing, `main`'s report and the trace files. Done.
6. `NeverFaulted`, `ReplaySucceeds`, `UtilAtMostOne` and `HeapWalks` of `Implicit` as theorems. Done.
7. `NeverFaulted`, `ReplaySucceeds` and `ListExact` of `Refer` as theorems. Done.
8. `NeverFaulted`, `ReplaySucceeds`, `ListsExact` and `NeighboursMerged` of `SegList`. Done.
9. The same for `Buddy`, on the first pass: left (section 4, *Only model-checked*).
10. A width-exact `AdjustedSize`: left.
