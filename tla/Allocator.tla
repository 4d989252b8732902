----------------------------- MODULE Allocator -----------------------------
(***************************************************************************)
(* What mm.h promises to a client, whatever the allocator behind it: each  *)
(* payload is 8-aligned, inside the heap and apart from every other one;   *)
(* its words change only when the client writes them or gives it back; a   *)
(* reallocated payload starts with the words of the old one.  This is what *)
(* add_range and eval_mm_valid in mdriver.c test of a trace.               *)
(***************************************************************************)
EXTENDS Integers

CONSTANTS Ids,     \* the client's blocks
          Places,  \* addresses a payload may have
          Lengths, \* sizes the client may ask for
          Val,     \* values of a word
          lo, top  \* the heap is part of [lo, top)

VARIABLES at,      \* address of each payload, 0 for none
          len,     \* its length in bytes
          data,    \* its words
          hi       \* the heap is [lo, hi)

avars == <<at, len, data, hi>>

(* The words of a payload of n bytes, counted from 0. *)
WordsIn(n) == 0 .. ((n + 3) \div 4) - 1

NoPayload == [at |-> 0, len |-> 0, data |-> [w \in WordsIn(0) |-> 0]]

Apart(p, n, q, m) == p + n <= q \/ q + m <= p

Init ==
    /\ at = [i \in Ids |-> 0]
    /\ len = [i \in Ids |-> 0]
    /\ data = [i \in Ids |-> NoPayload.data]
    /\ hi = lo

(* Payloads other than that of i stay as they are. *)
OnlyData(i, D) ==
    /\ data' = [data EXCEPT ![i] = data'[i]]
    /\ data'[i] \in [D -> Val]

(* malloc, or realloc when i has a payload already: a new payload whose    *)
(* first words are those of the old one.                                   *)
Obtain(i, p, n) ==
    /\ hi' \in hi .. top
    /\ p % 8 = 0 /\ lo <= p /\ p + n <= hi'
    /\ \A j \in Ids \ {i} : at[j] = 0 \/ Apart(p, n, at[j], len[j])
    /\ at' = [at EXCEPT ![i] = p]
    /\ len' = [len EXCEPT ![i] = n]
    /\ OnlyData(i, WordsIn(n))
    /\ \A w \in WordsIn(len[i]) \cap WordsIn(n) : data'[i][w] = data[i][w]

Release(i) ==
    /\ at[i] # 0
    /\ at' = [at EXCEPT ![i] = 0]
    /\ len' = [len EXCEPT ![i] = 0]
    /\ data' = [data EXCEPT ![i] = NoPayload.data]
    /\ UNCHANGED hi

Write(i) ==
    /\ at[i] # 0
    /\ OnlyData(i, WordsIn(len[i]))
    /\ UNCHANGED <<at, len, hi>>

(* The driver empties the heap and initialises the allocator again. *)
Reset ==
    /\ at' = [i \in Ids |-> 0]
    /\ len' = [i \in Ids |-> 0]
    /\ data' = [i \in Ids |-> NoPayload.data]
    /\ hi' \in lo .. top

Next ==
    \/ Reset
    \/ \E i \in Ids : \/ \E p \in Places, n \in Lengths : Obtain(i, p, n)
                      \/ Release(i)
                      \/ Write(i)

Spec == Init /\ [][Next]_avars
=============================================================================
