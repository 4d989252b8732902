------------------------------- MODULE Memlib -------------------------------
(***************************************************************************)
(* memlib.c: the simulated memory system.  One region of MAX_HEAP bytes,   *)
(* starting at mem_start_brk, is reserved once; the break mem_brk moves up *)
(* through it and goes back only when the driver resets it between passes. *)
(***************************************************************************)
EXTENDS BlockTags

CONSTANTS mem_start_brk,  \* address libc's malloc gave the region
          MAX_HEAP,       \* size of the region in bytes (20 MB in config.h)
          WORD            \* 2^32: number of values of a 32-bit word (-m32)

ASSUME MemAssumption ==
    /\ WORD \in Nat /\ WORD % 16 = 0
    /\ mem_start_brk \in Nat /\ mem_start_brk > 0 /\ mem_start_brk % 8 = 0
    /\ MAX_HEAP \in Nat /\ MAX_HEAP > 0 /\ MAX_HEAP % 8 = 0
    /\ mem_start_brk + MAX_HEAP < WORD

VARIABLE mem_brk

mem_max_addr == mem_start_brk + MAX_HEAP

(* A size_t argument arrives in mem_sbrk's int parameter. *)
ToInt(u) == IF u < WORD \div 2 THEN u ELSE u - WORD

(* 32-bit sum of two values that are below WORD: it wraps. *)
Add32(x, y) == IF x + y < WORD THEN x + y ELSE x + y - WORD

(* Slip: a negative increment is let through. *)
SbrkOK_Signless(brk, incr) == Add32(brk, incr) <= mem_max_addr

(* Slip: the break may go one byte past the region. *)
SbrkOK_PastEnd(brk, incr) == incr >= 0 /\ Add32(brk, incr) <= mem_max_addr + 1

(* mem_sbrk(incr): does the call succeed, and where is the break then. *)
SbrkOK(brk, incr) == incr >= 0 /\ Add32(brk, incr) <= mem_max_addr
SbrkTo(brk, incr) == Add32(brk, incr)

-----------------------------------------------------------------------------
(* The words of the region, and what libc's copying functions do to them.  *)

Addr == {a \in mem_start_brk .. mem_max_addr - 1 : a % WSIZE = 0}

(* The words that hold the n bytes at p. *)
Words(p, n) == {a \in Addr : p <= a /\ a < p + n}

(* memcpy(dst, src, n), a word at a time. *)
memcpy(m, dst, src, n) ==
    [a \in Addr |-> IF a \in Words(dst, n) THEN m[src + (a - dst)] ELSE m[a]]

(* memset(p, c, n): a word all of whose bytes are c is represented by c.   *)
memset(m, p, c, n) == [a \in Addr |-> IF a \in Words(p, n) THEN c ELSE m[a]]
=============================================================================
