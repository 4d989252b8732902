----------------------------- MODULE Evaluation -----------------------------
(***************************************************************************)
(* The two programs around the allocators.  "make" in traces/ checks and   *)
(* balances a trace file, which the driver then loads.  "mdriver" is main  *)
(* of mdriver.c: it loads each trace file, has libc's allocator (option    *)
(* -l) and then the student's one evaluated on it, times them with the     *)
(* timing package that config.h chooses and prints the performance index.  *)
(*                                                                         *)
(* What eval_mm_valid, eval_mm_util and the speed passes find is any of    *)
(* the outcomes they have; module Driver models them.  Utilization is in   *)
(* percent, the index too; time is in the unit of the timing package, of   *)
(* which AVG_LIBC_THRUPUT requests fit in one.                             *)
(***************************************************************************)
EXTENDS TraceFiles, Timing

CONSTANTS Rounds,        \* num_iters or num_blocks of the generators
          MaxLines, RecordedIds,   \* files that no generator wrote
          TraceLists,    \* lists of trace files that mdriver is run on
          Packages,      \* what config.h may switch on
          Utils,         \* results of eval_mm_util
          AVG_LIBC_THRUPUT

ASSUME EvaluationAssumption ==
    /\ Rounds \subseteq Nat \ {0} /\ \A n \in Rounds : 3 * n - 1 \in FileIds
    /\ MaxLines \in Nat /\ RecordedIds \subseteq FileIds
    /\ \A fs \in TraceLists : fs \in Seq(Files) /\ fs # <<>>
    /\ Packages \subseteq {"fcyc", "itimer", "gettod"}
    /\ Utils \subseteq 0 .. 100
    /\ AVG_LIBC_THRUPUT \in Nat \ {0}

VARIABLES program,       \* which of the two runs
          tracefiles, package, run_libc,
          do,            \* what main does next
          pass, i,       \* which allocator, on which trace
          stats,         \* mm_stats
          errors,
          report,        \* what main prints at the end
          faulted        \* the traces malloc_error was called about

mvars == <<program, tracefiles, package, run_libc, do, pass, i, stats, errors,
           report, faulted>>
vars == <<fvars, tvars, mvars>>
options == <<program, tracefiles, package, run_libc>>

NoStats == [ops |-> 0, valid |-> FALSE, util |-> 0, secs |-> 0]
NoReport == [done |-> FALSE, correct |-> 0, index |-> 0, printed |-> FALSE,
             nan |-> FALSE]

Generated ==
    UNION {{gen_binary(n), gen_coalescing(n), gen_realloc(n)} \cup gen_random(n) :
              n \in Rounds}

(* Whatever is found in a file that was recorded or written by hand: the   *)
(* header may be wrong, and a type unknown.                                *)
Recorded ==
    LET Lines == {BLANK} \cup [type : {"a", "r", "f", "x"}, id : RecordedIds]
        Bodies == UNION {[1 .. n -> Lines] : n \in 0 .. MaxLines}
    IN  {File(ids, ops, b) : ids \in 1 .. 2, ops \in 0 .. MaxLines + 1, b \in Bodies}

(* The trace files are the default ones or one that is named with option   *)
(* -f.                                                                     *)
Init ==
    /\ TimingInit
    /\ do = "start" /\ pass = "mm" /\ i = 1
    /\ errors = 0 /\ report = NoReport /\ faulted = {}
    /\ \/ /\ program = "make"
          /\ FileInit(Generated \cup Recorded)
          /\ tracefiles = <<>> /\ package = "gettod" /\ run_libc = FALSE
       \/ /\ program = "mdriver"
          /\ tracefiles \in TraceLists /\ package \in Packages /\ run_libc \in BOOLEAN
          /\ file = tracefiles[1] /\ pos = 0 /\ tool = "off"
          /\ HASH = NoHash /\ lines = <<>> /\ balanced = FALSE /\ trace = NoTrace
    /\ stats = [k \in 1 .. Len(tracefiles) |-> NoStats]

-----------------------------------------------------------------------------
(* make *)

Make ==
    /\ program = "make"
    /\ CheckNext \/ ReadTrace \/ ReadNext
    /\ UNCHANGED <<tvars, mvars>>

-----------------------------------------------------------------------------
(* main *)

Goto(step) == do' = step /\ UNCHANGED <<options, report>>

(* app_error, unix_error, an assertion, a signal: nothing is printed. *)
Exit == Goto("exit")

(* Options are read: libc goes first. *)
StartMain ==
    /\ program = "mdriver" /\ do = "start"
    /\ pass' = IF run_libc THEN "libc" ELSE "mm"
    /\ Goto("read")
    /\ UNCHANGED <<fvars, tvars, i, stats, errors, faulted>>

OpenNext ==
    /\ do = "read"
    /\ OpenTrace(tracefiles[i])
    /\ Goto("load")
    /\ UNCHANGED <<tvars, pass, i, stats, errors, faulted>>

Load ==
    /\ do = "load"
    /\ ReadNext
    /\ UNCHANGED <<tvars, mvars>>

Loaded ==
    /\ do = "load" /\ tool = "loaded"
    /\ stats' = IF pass = "mm" THEN [stats EXCEPT ![i].ops = trace.num_ops] ELSE stats
    /\ Goto("valid")
    /\ UNCHANGED <<fvars, tvars, pass, i, errors, faulted>>

LoadFails ==
    /\ do = "load" /\ tool \in {"bogus", "assert"}
    /\ Exit
    /\ UNCHANGED <<fvars, tvars, pass, i, stats, errors, faulted>>

Valid ==
    /\ do = "valid"
    /\ stats' = IF pass = "mm" THEN [stats EXCEPT ![i].valid = TRUE] ELSE stats
    /\ Goto(IF pass = "mm" THEN "util" ELSE "speed")
    /\ UNCHANGED <<fvars, tvars, pass, i, errors, faulted>>

(* Slip: eval_mm_valid returns 0 without calling malloc_error. *)
MmInvalid_Quiet ==
    /\ do = "valid" /\ pass = "mm"
    /\ faulted' = faulted \cup {i}
    /\ Goto("free")
    /\ UNCHANGED <<fvars, tvars, pass, i, stats, errors>>

(* malloc_error counts, and eval_mm_valid returns 0. *)
MmInvalid ==
    /\ do = "valid" /\ pass = "mm"
    /\ errors' = errors + 1 /\ faulted' = faulted \cup {i}
    /\ Goto("free")
    /\ UNCHANGED <<fvars, tvars, pass, i, stats>>

LibcInvalid ==
    /\ do = "valid" /\ pass = "libc"
    /\ errors' = errors + 1
    /\ Exit
    /\ UNCHANGED <<fvars, tvars, pass, i, stats, faulted>>

Util ==
    /\ do = "util"
    /\ \/ /\ \E u \in Utils : stats' = [stats EXCEPT ![i].util = u]
          /\ Goto("speed")
       \/ Exit /\ UNCHANGED stats
    /\ UNCHANGED <<fvars, tvars, pass, i, errors, faulted>>

(* fsecs *)
StartSpeed ==
    /\ do = "speed"
    /\ CASE package = "fcyc"   -> FcycBegin
         [] package = "itimer" -> FtimerBegin(TRUE)
         [] package = "gettod" -> FtimerBegin(FALSE)
    /\ Goto("time")
    /\ UNCHANGED <<fvars, pass, i, stats, errors, faulted>>

Speed ==
    /\ do = "time"
    /\ TimingNext
    /\ UNCHANGED <<fvars, mvars>>

(* A call fails in eval_mm_speed or eval_libc_speed, or the timer goes off. *)
SpeedFails ==
    /\ do = "time"
    /\ at = "killed" \/ (at \in {"f", "itimer", "gettod"} /\ left > 0)
    /\ Exit
    /\ UNCHANGED <<fvars, tvars, pass, i, stats, errors, faulted>>

SpeedDone ==
    /\ do = "time"
    /\ TimingReturn
    /\ stats' = IF pass = "mm" THEN [stats EXCEPT ![i].secs = secs] ELSE stats
    /\ Goto("free")
    /\ UNCHANGED <<fvars, pass, i, errors, faulted>>

(* free_trace, and the next trace, the next allocator or the results. *)
FreeTrace ==
    /\ do = "free"
    /\ trace' = NoTrace /\ tool' = "off"
    /\ IF i < Len(tracefiles) THEN i' = i + 1 /\ UNCHANGED pass /\ Goto("read")
       ELSE IF pass = "libc" THEN i' = 1 /\ pass' = "mm" /\ Goto("read")
       ELSE UNCHANGED <<i, pass>> /\ Goto("report")
    /\ UNCHANGED <<file, pos, HASH, lines, balanced, tvars, stats, errors, faulted>>

(* What main adds up over the traces. *)
Total(s) ==
    LET sum[k \in 0 .. Len(s)] == IF k = 0 THEN 0 ELSE sum[k - 1] + s[k]
    IN  sum[Len(s)]

TotalOps == Total([k \in DOMAIN stats |-> stats[k].ops])
TotalSecs == Total([k \in DOMAIN stats |-> stats[k].secs])
TotalUtil == Total([k \in DOMAIN stats |-> stats[k].util])

(* UTIL_WEIGHT is .60. *)
p1 == (60 * TotalUtil) \div (100 * Len(stats))

(* Throughput is ops / secs in doubles: infinite for secs = 0, negative    *)
(* for secs < 0.                                                           *)
p2 ==
    IF TotalSecs < 0 THEN 0 - (40 * TotalOps) \div (AVG_LIBC_THRUPUT * (0 - TotalSecs))
    ELSE IF TotalOps > AVG_LIBC_THRUPUT * TotalSecs \/ TotalSecs = 0 THEN 40
    ELSE (40 * TotalOps) \div (AVG_LIBC_THRUPUT * TotalSecs)

(* The totals and what is computed from them; 0 / 0 is not a number. *)
Results ==
    [done |-> TRUE,
     correct |-> Cardinality({k \in DOMAIN stats : stats[k].valid}),
     printed |-> errors = 0,
     nan |-> errors = 0 /\ TotalOps = 0 /\ TotalSecs = 0,
     index |-> IF errors = 0 THEN p1 + p2 ELSE 0]

Report ==
    /\ do = "report"
    /\ report' = Results
    /\ do' = "exit"
    /\ UNCHANGED <<fvars, tvars, options, pass, i, stats, errors, faulted>>

MainNext ==
    \/ StartMain \/ OpenNext \/ Load \/ Loaded \/ LoadFails
    \/ Valid \/ MmInvalid \/ LibcInvalid \/ Util
    \/ StartSpeed \/ Speed \/ SpeedFails \/ SpeedDone
    \/ FreeTrace \/ Report

Next == Make \/ MainNext

(* The programs keep running. *)
FairSpec == Init /\ [][Next]_vars /\ WF_vars(Next)

-----------------------------------------------------------------------------
(* Trace files. *)

(* No script dies on a file a generator wrote ("Checks trace for           *)
(* consistency", traces/README), and the driver loads it, checked or not:  *)
(* ids, counts and the places of the frees agree, wherever gen_random.pl   *)
(* puts them.                                                              *)
GeneratedAccepted ==
    tool \in {"died", "bogus", "assert"} => file \notin Generated

(* What checktrace.pl writes it finds consistent and balanced when it      *)
(* reads it again: one free is appended for each id that is outstanding,   *)
(* and none for another.                                                   *)
BalancedEndsEmpty ==
    /\ tool = "summary" /\ pos < Len(file.lines) => ~Complains(Line)
    /\ tool = "made" => balanced

(* A file with a right header keeps one through checktrace.pl: the frees   *)
(* it appends are counted and of ids that have a block.  read_trace then   *)
(* stores no request past the end of ops, none, a free included, with an   *)
(* index past the end of blocks, and trips no assertion.                   *)
HeaderStaysRight ==
    [][HeaderRight(file) /\ tool # "off" /\ tool' # "off" =>
          /\ HeaderRight(file')
          /\ tool' \notin {"bogus", "assert"}
          /\ Len(trace'.ops) <= trace'.num_ops
          /\ \A k \in DOMAIN trace'.ops : trace'.ops[k].id < trace'.num_ids]_vars

(* A trace that was checked, balanced and loaded may be replayed: the      *)
(* passes of the driver find a block where they free or reallocate one and *)
(* none where they allocate, also when an id is used again after its free, *)
(* which checktrace.pl does not notice.                                    *)
LoadedReplayable ==
    tool = "loaded" /\ balanced => Replayable(trace.ops)

-----------------------------------------------------------------------------
(* Timing. *)

(* Nothing is lost between two readings: the cycle counter though its low  *)
(* word and then the whole of it wrap, the time of day though its parts of *)
(* a second do, the interval timer though it counts down.                  *)
MeasuredExactly ==
    /\ at = "stop" => time = own + during * TICK
    /\ at = "done" /\ package # "fcyc" => secs = own

-----------------------------------------------------------------------------
(* main *)

(* The index is printed only if no trace was faulted, the number of        *)
(* correct traces is the number of those that were not, a faulted trace    *)
(* adds nothing to utilization and time, and the index lies between 0 and  *)
(* 100 unless a measured time is negative.  It is not a number only if no  *)
(* trace has a request.                                                    *)
ReportMatchesRuns ==
    report.done =>
        /\ report.correct = Len(tracefiles) - Cardinality(faulted)
        /\ report.printed <=> faulted = {}
        /\ \A k \in faulted : stats[k].util = 0 /\ stats[k].secs = 0
        /\ report.nan => \A k \in DOMAIN stats : stats[k].ops = 0
        /\ TotalSecs >= 0 => 0 <= report.index /\ report.index <= 100

(* Both programs come to an end: callibrate's loop and the sampling loop   *)
(* are left, whatever the samples are.                                     *)
EvaluationEnds ==
    <>(do = "exit" \/ (program = "make" /\ tool \in {"loaded", "died", "bogus", "assert"}))
=============================================================================
