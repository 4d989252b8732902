----------------------------- MODULE TraceFiles -----------------------------
(***************************************************************************)
(* The trace files: the generators and checktrace.pl, which the Makefile   *)
(* of traces/ runs, and read_trace of mdriver.c, which loads their output. *)
(*                                                                         *)
(* A file is a record of two numbers of its header and of its request      *)
(* lines; a line is a request [type, id] or BLANK.  Sizes are left out:    *)
(* nothing here looks at them.  checktrace.pl reads a *.rep file line by   *)
(* line, appends the frees that are missing and so writes a *-bal.rep      *)
(* file; "checktrace.pl -s" reads that file again and prints a summary.    *)
(* A type of request that does not exist is "x".                           *)
(***************************************************************************)
EXTENDS Integers, SequencesExt

CONSTANTS MaxId          \* bound on the ids of a file

ASSUME TraceAssumption == MaxId \in Nat

VARIABLES file,          \* the file that is read
          pos,           \* number of its lines read so far
          tool,          \* the program that reads it, or how that ended
          HASH, lines,   \* checktrace.pl: its table of ids, the lines it saved
          balanced,      \* what "checktrace.pl -s" found
          trace          \* read_trace: [num_ids, num_ops, ops, max_index]

fvars == <<file, pos, tool, HASH, lines, balanced, trace>>

FileIds == 0 .. MaxId

BLANK == [type |-> "", id |-> 0]
A(i) == [type |-> "a", id |-> i]
R(i) == [type |-> "r", id |-> i]
F(i) == [type |-> "f", id |-> i]

File(ids, ops, ls) == [ids |-> ids, ops |-> ops, lines |-> ls]

(* Whatever may be in a file: its header may be wrong. *)
LineSet == {BLANK} \cup [type : {"a", "r", "f", "x"}, id : FileIds]
Files == [ids : Nat, ops : Nat, lines : Seq(LineSet)]

ABSENT == ""
NoHash == [i \in FileIds |-> ABSENT]
NoTrace == [num_ids |-> 0, num_ops |-> 0, ops |-> <<>>, max_index |-> 0]

FileInit(files) ==
    /\ file \in files
    /\ pos = 0 /\ tool = "written"
    /\ HASH = NoHash /\ lines = <<>> /\ balanced = FALSE
    /\ trace = NoTrace

-----------------------------------------------------------------------------
(* The generators, n being num_iters or num_blocks. *)

(* gen_binary.pl: all the blocks, then every second one is freed, then     *)
(* larger ones.                                                            *)
gen_binary(n) ==
    File(3 * n, 4 * n,
         [k \in 1 .. 2 * n |-> A(k - 1)] \o [k \in 1 .. n |-> F(2 * k - 1)]
             \o [k \in 1 .. n |-> A(2 * n + k - 1)])

gen_coalescing(n) ==
    File(3 * n, 6 * n,
         [k \in 1 .. 6 * n |->
             LET b == 3 * ((k - 1) \div 6)
             IN  <<A(b), A(b + 1), F(b), F(b + 1), A(b + 2), F(b + 2)>>[((k - 1) % 6) + 1]])

(* Slip: the block just allocated is freed instead of the one before it.   *)
gen_realloc_Last(n) ==
    File(n + 1, 3 * n + 1,
         <<A(0), A(1)>>
             \o [k \in 1 .. 3 * (n - 1) |->
                   LET i == (k - 1) \div 3 + 1
                   IN  <<R(0), A(i + 1), F(i + 1)>>[((k - 1) % 3) + 1]]
             \o <<F(n), F(0)>>)

(* gen_realloc.pl: index 0 grows while the others come and go. *)
gen_realloc(n) ==
    File(n + 1, 3 * n + 1,
         <<A(0), A(1)>>
             \o [k \in 1 .. 3 * (n - 1) |->
                   LET i == (k - 1) \div 3 + 1
                   IN  <<R(0), A(i + 1), F(i)>>[((k - 1) % 3) + 1]]
             \o <<F(n), F(0)>>)

(* gen_random.pl: the allocations first, then the free of each id is       *)
(* spliced in at a random place: rand(x) is below x, or below 1 for x = 0. *)
(* Positions count from 0 and minval is the place of the allocation.       *)
Spliced(t, n, i) ==
    LET minval == (CHOOSE k \in 1 .. Len(t) : t[k] = A(i)) - 1
        x == n + i - minval - 1
    IN  {InsertAt(t, p + 1, F(i)) :
            p \in minval + 1 .. minval + (IF x = 0 THEN 1 ELSE x)}

gen_random(n) ==
    LET after[i \in 0 .. n] ==     \* once the frees of 0 .. i - 1 are in
            IF i = 0 THEN {[k \in 1 .. n |-> A(k - 1)]}
            ELSE UNION {Spliced(t, n, i - 1) : t \in after[i - 1]}
    IN  {File(n, 2 * n, t) : t \in after[n]}

-----------------------------------------------------------------------------
(* checktrace.pl *)

Line == file.lines[pos + 1]

StartCheck ==
    /\ tool = "written"
    /\ tool' = "check"
    /\ UNCHANGED <<file, pos, HASH, lines, balanced, trace>>

(* Slip: a free is not looked up in the table. *)
Complains_NoFree(req) ==
    \/ req.type = "r" /\ HASH[req.id] = ABSENT
    \/ req.type = "a" /\ HASH[req.id] \in {"a", "f"}

(* The script dies: "realloc without previous alloc", "allocate with no    *)
(* intervening free" or "reused ID", "freeing unallocated block".  The     *)
(* test for "freeing already freed block" compares !$HASH{$id}, which is   *)
(* empty for an id of the table, with "f": it never holds.                 *)
Complains(req) ==
    \/ req.type = "r" /\ HASH[req.id] = ABSENT
    \/ req.type = "a" /\ HASH[req.id] \in {"a", "f"}
    \/ req.type = "f" /\ HASH[req.id] = ABSENT

(* The table after a line: whatever is neither realloc nor free is an      *)
(* entry of it, the unknown type too.                                      *)
Tally(req) ==
    CASE req.type \in {"", "r"} -> HASH
      [] req.type = "f" -> [HASH EXCEPT ![req.id] = ABSENT]
      [] OTHER -> [HASH EXCEPT ![req.id] = req.type]

CheckLine ==
    /\ tool \in {"check", "summary"} /\ pos < Len(file.lines)
    /\ IF Complains(Line) THEN tool' = "died" ELSE UNCHANGED tool
    /\ pos' = pos + 1
    /\ lines' = IF Line = BLANK THEN lines ELSE Append(lines, Line)
    /\ HASH' = IF Complains(Line) THEN HASH ELSE Tally(Line)
    /\ UNCHANGED <<file, balanced, trace>>

Outstanding == {i \in FileIds : HASH[i] # ABSENT}

(* Frees of n of the outstanding ids, in order. *)
Frees(n) ==
    [k \in 1 .. n |->
        F(CHOOSE i \in Outstanding : Cardinality({j \in Outstanding : j < i}) = k - 1)]

(* Slip: the header keeps its number of requests. *)
Balance_OldCount ==
    File(file.ids, file.ops, lines \o Frees(Cardinality(Outstanding)))

(* Slip: the last outstanding id gets no free. *)
Balance_Short ==
    LET n == Cardinality(Outstanding)
    IN  File(file.ids, file.ops + n, lines \o Frees(IF n = 0 THEN 0 ELSE n - 1))

(* The file written: the header with the new number of requests, the lines *)
(* that are not blank, a free of each outstanding id.                      *)
Balance ==
    LET n == Cardinality(Outstanding)
    IN  File(file.ids, file.ops + n, lines \o Frees(n))

(* The output is balanced and the Makefile goes on to check it; an entry   *)
(* of an unknown type makes the script die with half its output written.   *)
EndCheck ==
    /\ tool = "check" /\ pos = Len(file.lines)
    /\ IF \A i \in Outstanding : HASH[i] = "a"
       THEN /\ tool' = "summary"
            /\ file' = Balance
            /\ pos' = 0 /\ HASH' = NoHash /\ lines' = <<>>
       ELSE tool' = "died" /\ UNCHANGED <<file, pos, HASH, lines>>
    /\ UNCHANGED <<balanced, trace>>

EndSummary ==
    /\ tool = "summary" /\ pos = Len(file.lines)
    /\ tool' = "made"
    /\ balanced' = (Outstanding = {})
    /\ pos' = 0 /\ HASH' = NoHash /\ lines' = <<>>
    /\ UNCHANGED <<file, trace>>

-----------------------------------------------------------------------------
(* read_trace *)

OpenTrace(f) ==
    /\ file' = f /\ pos' = 0 /\ tool' = "read"
    /\ trace' = [NoTrace EXCEPT !.num_ids = f.ids, !.num_ops = f.ops]
    /\ UNCHANGED <<HASH, lines, balanced>>

(* A file is read as it was written, or as checktrace.pl balanced it. *)
ReadTrace == tool \in {"written", "made"} /\ OpenTrace(file)

MaxIndex(req) ==
    IF req.type \in {"a", "r"} /\ req.id > trace.max_index THEN req.id ELSE trace.max_index

(* Slip: a line without a request is looked at again and again. *)
ReadLine_Blank ==
    /\ tool = "read" /\ pos < Len(file.lines)
    /\ pos' = IF Line = BLANK THEN pos ELSE pos + 1
    /\ IF Line.type \in {"a", "r", "f", ""} THEN UNCHANGED tool ELSE tool' = "bogus"
    /\ trace' = IF Line.type \in {"a", "r", "f"}
                THEN [trace EXCEPT !.ops = Append(@, Line), !.max_index = MaxIndex(Line)]
                ELSE trace
    /\ UNCHANGED <<file, HASH, lines, balanced>>

(* A request is stored at op_index, which is the number stored so far.  An *)
(* unknown type ends the driver.                                           *)
ReadLine ==
    /\ tool = "read" /\ pos < Len(file.lines)
    /\ pos' = pos + 1
    /\ IF Line.type \in {"a", "r", "f", ""} THEN UNCHANGED tool ELSE tool' = "bogus"
    /\ trace' = IF Line.type \in {"a", "r", "f"}
                THEN [trace EXCEPT !.ops = Append(@, Line), !.max_index = MaxIndex(Line)]
                ELSE trace
    /\ UNCHANGED <<file, HASH, lines, balanced>>

(* The two assertions at the end of read_trace. *)
ReadEnd ==
    /\ tool = "read" /\ pos = Len(file.lines)
    /\ tool' = IF /\ trace.max_index = trace.num_ids - 1
                  /\ trace.num_ops = Len(trace.ops)
               THEN "loaded" ELSE "assert"
    /\ UNCHANGED <<file, pos, HASH, lines, balanced, trace>>

CheckNext == StartCheck \/ CheckLine \/ EndCheck \/ EndSummary

ReadNext == ReadLine \/ ReadEnd

-----------------------------------------------------------------------------
(* What is expected of a file. *)

Requests(f) == {k \in 1 .. Len(f.lines) : f.lines[k] # BLANK}

(* The header tells the number of requests and bounds their ids, those of  *)
(* the frees too, which MaxIndex does not look at; the largest id is that  *)
(* of an allocation or reallocation; every request is of a known type.     *)
HeaderRight(f) ==
    LET sized == {k \in Requests(f) : f.lines[k].type # "f"}
    IN  /\ f.ops = Cardinality(Requests(f))
        /\ \A k \in Requests(f) : /\ f.lines[k].type \in {"a", "r", "f"}
                                 /\ f.lines[k].id < f.ids
        /\ f.ids = 1 \/ \E k \in sized : f.lines[k].id = f.ids - 1

(* Index i has a block before request k. *)
LiveBefore(s, k, i) ==
    \E j \in 1 .. k - 1 :
        s[j] = A(i) /\ \A l \in j + 1 .. k - 1 : s[l] # F(i)

(* What the passes of the driver take for granted: they allocate an index  *)
(* without a block, reallocate or free one with a block, and none of them  *)
(* looks whether that is so.                                               *)
Replayable(s) ==
    \A k \in 1 .. Len(s) : s[k].type = "a" <=> ~LiveBefore(s, k, s[k].id)
=============================================================================
