------------------------------- MODULE Timing -------------------------------
(***************************************************************************)
(* The timing package: fsecs.c and, by the switches of config.h, fcyc.c    *)
(* with clock.c (the cycle counter and the K-best scheme) or ftimer.c (the *)
(* interval timer or the time of day).                                     *)
(*                                                                         *)
(* The process that measures is interrupted by the timer tick.  A tick     *)
(* takes TICK cycles, which the cycle counter does not tell from those of  *)
(* the process, and is counted by times(); clock.c reads counter and count *)
(* one after the other and a tick may come in between.  Every reading and  *)
(* every piece of the measured function is a step of its own.              *)
(*                                                                         *)
(* The counter starts at any of Starts and wraps at HALF^2, HALF standing  *)
(* for 2^32.  Only differences of tms_utime are used: `ticks' is the       *)
(* difference to the value remembered last (oldc, start_tick).  Times are  *)
(* integers: cycles, or parts of a second for ftimer.c.                    *)
(***************************************************************************)
EXTENDS Integers, Sequences

CONSTANTS HALF, Starts,          \* the cycle counter
          PERIOD, TICK,          \* cycles between two ticks, and of a tick
          Chunks, CHUNKS,        \* cycles of a piece of f, and its pieces
          THRESHOLD, RECORDTHRESH, NEVENT,
          kbest, maxsamples,     \* set by init_fsecs
          EPS,                   \* epsilon is 1 / EPS
          RUNS,                  \* the runs ftimer.c averages over: 10
          Laps,                  \* parts of a second a run of f takes
          USEC,                  \* parts of a second that a clock counts
          MAX_ETIME              \* seconds the interval timer is set to

WRAP == HALF * HALF

ASSUME TimingAssumption ==
    /\ HALF \in Nat /\ HALF > 1 /\ Starts \subseteq 0 .. WRAP - 1
    /\ PERIOD \in Nat /\ TICK \in Nat /\ THRESHOLD \in Nat /\ RECORDTHRESH \in Nat
    /\ THRESHOLD > 1 /\ PERIOD > THRESHOLD + 1
    /\ TICK > RECORDTHRESH /\ RECORDTHRESH > THRESHOLD + 1
    /\ Chunks \subseteq Nat /\ CHUNKS \in Nat /\ NEVENT \in Nat
    /\ {kbest, maxsamples, RUNS, USEC} \subseteq Nat \ {0}
    /\ {EPS, MAX_ETIME} \subseteq Nat /\ Laps \subseteq Nat

(* Cycles that pass while f takes c of its own. *)
WithTicks(c) == c + ((c + PERIOD - 1) \div PERIOD) * TICK

(* Neither a run of f nor callibrate lasts until the counter is back at    *)
(* the value it had: 2^64 cycles.                                          *)
ASSUME CounterAssumption ==
    /\ \E most \in Chunks : /\ \A c \in Chunks : c <= most
                            /\ WithTicks(CHUNKS * most + 1) < WRAP
    /\ (NEVENT + 2) * (PERIOD + TICK) + PERIOD < WRAP

VARIABLES at,                    \* what the timing package does next
          tsc, since,            \* the counter; cycles since the last tick
          ticks,
          cyc_hi, cyc_lo,        \* start_counter
          cyc_per_tick, oldt, newt, e,      \* callibrate
          left,                  \* pieces, or runs, of f to come
          time,                  \* get_comp_counter's reading
          values, samplecount,   \* the sampler
          wall, armed, start,    \* ftimer.c: the clock, the timer, a reading
          secs,                  \* the result
          own, during, samples   \* true cycles of f, ticks in them; all samples

tvars == <<at, tsc, since, ticks, cyc_hi, cyc_lo, cyc_per_tick, oldt, newt, e,
           left, time, values, samplecount, wall, armed, start, secs,
           own, during, samples>>

counter == <<cyc_hi, cyc_lo>>
calib   == <<cyc_per_tick, oldt, newt, e>>
sampler == <<values, samplecount, samples>>
clocks  == <<wall, armed, start>>
cpu     == <<tsc, since, ticks>>
ghosts  == <<own, during>>

TimingInit ==
    /\ at = "off"
    /\ tsc = 0 /\ since = 0 /\ ticks = 0
    /\ cyc_hi = 0 /\ cyc_lo = 0
    /\ cyc_per_tick = 0 /\ oldt = 0 /\ newt = 0 /\ e = 0
    /\ left = 0 /\ time = 0
    /\ values = <<>> /\ samplecount = 0 /\ samples = <<>>
    /\ wall = 0 /\ armed = 0 /\ start = 0
    /\ secs = 0
    /\ own = 0 /\ during = 0

-----------------------------------------------------------------------------
(* The processor.  It serves a tick that is due before the next step. *)

CyclesPass(c) ==
    /\ since < PERIOD
    /\ tsc' = (tsc + c) % WRAP
    /\ since' = since + c

Ticking == at \in {"times", "start", "f", "stop",
                   "cal", "cal_start", "cal_old", "cal_loop", "cal_times"}

Tick ==
    /\ Ticking /\ since >= PERIOD
    /\ tsc' = (tsc + TICK) % WRAP
    /\ since' = 0
    /\ ticks' = ticks + 1
    /\ during' = IF at = "f" THEN during + 1 ELSE during
    /\ UNCHANGED <<at, counter, calib, left, time, sampler, clocks, secs, own>>

-----------------------------------------------------------------------------
(* clock.c *)

(* access_counter: the two words of the counter. *)
ncyc_hi == tsc \div HALF
ncyc_lo == tsc % HALF

(* Slip: the borrow of the low words is forgotten. *)
get_counter_NoBorrow ==
    LET lo == (ncyc_lo - cyc_lo) % HALF
        hi == (ncyc_hi - cyc_hi) % HALF
    IN  hi * HALF + lo

(* A subtraction of two words with a borrow. *)
get_counter ==
    LET lo == (ncyc_lo - cyc_lo) % HALF
        borrow == IF lo > ncyc_lo THEN 1 ELSE 0
        hi == (ncyc_hi - cyc_hi - borrow) % HALF
    IN  hi * HALF + lo

start_counter ==
    /\ cyc_hi' = ncyc_hi
    /\ cyc_lo' = ncyc_lo

(* callibrate reads the count, then the counter, and then watches it. *)
CalBegin ==
    /\ at = "cal"
    /\ CyclesPass(1)
    /\ ticks' = 0 /\ e' = 0
    /\ at' = "cal_start"
    /\ UNCHANGED <<counter, cyc_per_tick, oldt, newt, left, time, sampler,
                   clocks, secs, ghosts>>

CalStart ==
    /\ at = "cal_start"
    /\ start_counter
    /\ CyclesPass(1)
    /\ at' = "cal_old"
    /\ UNCHANGED <<ticks, calib, left, time, sampler, clocks, secs, ghosts>>

CalOld ==
    /\ at = "cal_old"
    /\ oldt' = get_counter
    /\ CyclesPass(1)
    /\ at' = "cal_loop"
    /\ UNCHANGED <<ticks, counter, cyc_per_tick, newt, e, left, time, sampler,
                   clocks, secs, ghosts>>

CalLoop ==
    /\ at = "cal_loop" /\ e < NEVENT
    /\ newt' = get_counter
    /\ at' = IF newt' - oldt >= THRESHOLD THEN "cal_times" ELSE at
    /\ CyclesPass(1)
    /\ UNCHANGED <<ticks, counter, cyc_per_tick, oldt, e, left, time, sampler,
                   clocks, secs, ghosts>>

(* Slip: a ratio is recorded however small it is. *)
LeastTick_Any(cpt) ==
    IF cyc_per_tick = 0 \/ cyc_per_tick > cpt THEN cpt ELSE cyc_per_tick

LeastTick(cpt) ==
    IF (cyc_per_tick = 0 \/ cyc_per_tick > cpt) /\ cpt > RECORDTHRESH
    THEN cpt ELSE cyc_per_tick

CalTimes ==
    /\ at = "cal_times"
    /\ IF ticks > 0
       THEN LET cpt == (newt - oldt) \div ticks
            IN  /\ cyc_per_tick' = LeastTick(cpt)
                /\ e' = e + 1
                /\ ticks' = 0
       ELSE UNCHANGED <<cyc_per_tick, e, ticks>>
    /\ oldt' = newt
    /\ CyclesPass(1)
    /\ at' = "cal_loop"
    /\ UNCHANGED <<counter, newt, left, time, sampler, clocks, secs, ghosts>>

CalEnd ==
    /\ at = "cal_loop" /\ e = NEVENT
    /\ CyclesPass(1)
    /\ at' = "times"
    /\ UNCHANGED <<ticks, counter, calib, left, time, sampler, clocks, secs,
                   ghosts>>

-----------------------------------------------------------------------------
(* fcyc.c, with compensation, which init_fsecs switches on *)

(* init_sampler, and start_comp_counter up to times(). *)
NextSample == IF cyc_per_tick = 0 THEN "cal" ELSE "times"

FcycBegin ==
    /\ values' = [k \in 1 .. kbest |-> 0] /\ samplecount' = 0 /\ samples' = <<>>
    /\ at' = NextSample
    /\ tsc' \in Starts /\ since' \in 0 .. PERIOD - 1
    /\ UNCHANGED <<ticks, counter, calib, left, time, clocks, secs, ghosts>>

StartTicks ==
    /\ at = "times"
    /\ ticks' = 0
    /\ CyclesPass(1)
    /\ at' = "start"
    /\ UNCHANGED <<counter, calib, left, time, sampler, clocks, secs, ghosts>>

(* The ghosts are reset here: own counts the cycle of this reading. *)
StartCounter ==
    /\ at = "start"
    /\ start_counter
    /\ CyclesPass(1)
    /\ own' = 1 /\ during' = 0
    /\ left' = CHUNKS
    /\ at' = "f"
    /\ UNCHANGED <<ticks, calib, time, sampler, clocks, secs>>

RunPiece ==
    /\ at = "f" /\ left > 0
    /\ \E c \in Chunks : CyclesPass(c) /\ own' = own + c
    /\ left' = left - 1
    /\ UNCHANGED <<at, ticks, counter, calib, time, sampler, clocks, secs,
                   during>>

StopCounter ==
    /\ at = "f" /\ left = 0
    /\ time' = get_counter
    /\ CyclesPass(1)
    /\ at' = "stop"
    /\ UNCHANGED <<ticks, counter, calib, left, sampler, clocks, secs, ghosts>>

(* Slip: the sample is compared with the smallest value, not the largest.  *)
Stored_First(val) == samplecount < kbest \/ val < values[1]

Stored(val) == samplecount < kbest \/ val < values[kbest]

(* add_sample: the sample takes the next place, or the last one if it is   *)
(* smaller, and sinks below the larger ones before it.                     *)
add_sample(val) ==
    LET p == IF samplecount < kbest THEN samplecount + 1 ELSE kbest
        q == CHOOSE j \in 1 .. p :
                /\ \A k \in j .. p - 1 : values[k] > val
                /\ j > 1 => values[j - 1] <= val
    IN  IF ~Stored(val) THEN values
        ELSE [k \in 1 .. kbest |-> IF k < q \/ k > p THEN values[k]
                                   ELSE IF k = q THEN val ELSE values[k - 1]]

has_converged(vals, count) ==
    count >= kbest /\ (EPS + 1) * vals[1] >= EPS * vals[kbest]

(* The rest of get_comp_counter, add_sample, the test of the loop. *)
EndSample ==
    /\ at = "stop" /\ since < PERIOD
    /\ LET val == time - ticks * cyc_per_tick
       IN  /\ values' = add_sample(val)
           /\ samples' = SubSeq(samples, 1, samplecount) \o <<val>>
           /\ samplecount' = samplecount + 1
    /\ IF ~has_converged(values', samplecount') /\ samplecount' < maxsamples
       THEN at' = NextSample /\ UNCHANGED secs
       ELSE at' = "done" /\ secs' = values'[1]
    /\ UNCHANGED <<cpu, counter, calib, left, time, clocks, ghosts>>

-----------------------------------------------------------------------------
(* ftimer.c *)

Clock(t) == [sec |-> t \div USEC, usec |-> t % USEC]

(* A running timer shows the time it has left. *)
TimerLeft == Clock(MAX_ETIME * USEC - (wall - armed))

get_etime == USEC * (MAX_ETIME - TimerLeft.sec) + (0 - TimerLeft.usec)

(* ftimer_itimer and ftimer_gettod, up to the first run of f. *)
FtimerBegin(itimer) ==
    /\ wall' \in 0 .. USEC - 1
    /\ armed' = IF itimer THEN wall' ELSE armed
    /\ start' = IF itimer THEN 0 ELSE wall'
    /\ left' = RUNS
    /\ own' = 0
    /\ at' = IF itimer THEN "itimer" ELSE "gettod"
    /\ UNCHANGED <<cpu, counter, calib, time, sampler, secs, during>>

Lap ==
    /\ at \in {"itimer", "gettod"} /\ left > 0
    /\ at = "itimer" => wall - armed < MAX_ETIME * USEC
    /\ \E d \in Laps : wall' = wall + d /\ own' = own + d
    /\ left' = left - 1
    /\ UNCHANGED <<at, cpu, counter, calib, time, sampler, armed, start, secs,
                   during>>

(* A timer that has run down sends a signal, which nothing handles. *)
Alarm ==
    /\ at = "itimer" /\ wall - armed >= MAX_ETIME * USEC
    /\ at' = "killed"
    /\ UNCHANGED <<cpu, counter, calib, left, time, sampler, clocks, secs,
                   ghosts>>

ItimerEnd ==
    /\ at = "itimer" /\ left = 0 /\ wall - armed < MAX_ETIME * USEC
    /\ secs' = get_etime - start
    /\ at' = "done"
    /\ UNCHANGED <<cpu, counter, calib, left, time, sampler, clocks, ghosts>>

GettodDiff ==
    LET s == Clock(start)
        t == Clock(wall)
    IN  USEC * (t.sec - s.sec) + (t.usec - s.usec)

(* Both are divided by n, which is RUNS: secs is n times the result.       *)
GettodEnd ==
    /\ at = "gettod" /\ left = 0
    /\ secs' = GettodDiff
    /\ at' = "done"
    /\ UNCHANGED <<cpu, counter, calib, left, time, sampler, clocks, ghosts>>

(* fcyc, or ftimer_*, returns: its locals die, and what the statics hold   *)
(* is not looked at again, but for cyc_per_tick.                           *)
TimingReturn ==
    /\ at = "done"
    /\ at' = "off"
    /\ tsc' = 0 /\ since' = 0 /\ ticks' = 0
    /\ cyc_hi' = 0 /\ cyc_lo' = 0
    /\ oldt' = 0 /\ newt' = 0 /\ e' = 0
    /\ left' = 0 /\ time' = 0
    /\ values' = <<>> /\ samplecount' = 0 /\ samples' = <<>>
    /\ wall' = 0 /\ armed' = 0 /\ start' = 0 /\ secs' = 0
    /\ own' = 0 /\ during' = 0
    /\ UNCHANGED cyc_per_tick

TimingNext ==
    \/ Tick
    \/ CalBegin \/ CalStart \/ CalOld \/ CalLoop \/ CalTimes \/ CalEnd
    \/ StartTicks \/ StartCounter \/ RunPiece \/ StopCounter \/ EndSample
    \/ Lap \/ Alarm \/ ItimerEnd \/ GettodEnd

-----------------------------------------------------------------------------
(* What the package promises. *)

(* values holds the smallest of all samples, in order: "K-best" (fcyc.c),  *)
(* whatever order they came in.  No sample is held twice, and one that is  *)
(* not held is not smaller than the last of kbest that are.                *)
BestKept ==
    LET n == IF samplecount < kbest THEN samplecount ELSE kbest
    IN  /\ samplecount = Len(samples)
        /\ \A k, l \in 1 .. n : k < l => values[k] <= values[l]
        /\ \E from \in [1 .. n -> 1 .. samplecount] :
              /\ \A k, l \in 1 .. n : k # l => from[k] # from[l]
              /\ \A k \in 1 .. n : values[k] = samples[from[k]]
              /\ \A s \in 1 .. samplecount :
                    \/ \E k \in 1 .. n : from[k] = s
                    \/ n = kbest /\ samples[s] >= values[kbest]

(* "Compensate for timer interrupt overhead" (clock.c).  What callibrate   *)
(* takes for the cost of a tick is never less than the cost, and not more  *)
(* than THRESHOLD above it, although a tick may come between the counter   *)
(* and the count.  So a compensated sample never counts ticks as cycles of *)
(* f.  It may lose cycles of f: those of the excess for each tick, and the *)
(* cost of two ticks that come between the readings.                       *)
CompensationBounds ==
    LET excess == cyc_per_tick - TICK
        ctime == time - ticks * cyc_per_tick
    IN  /\ cyc_per_tick = 0 \/ (0 <= excess /\ excess <= THRESHOLD)
        /\ at = "stop" /\ cyc_per_tick > 0 =>
              own - during * excess - 2 * cyc_per_tick <= ctime /\ ctime <= own
=============================================================================
