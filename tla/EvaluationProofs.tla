-------------------------- MODULE EvaluationProofs --------------------------
(***************************************************************************)
(* What the timing package measures, and what the driver makes of it and   *)
(* reports: first an inductive invariant of the package, then the driver.  *)
(* Last the trace files: what the generators write, what checktrace.pl     *)
(* accepts and writes, what read_trace stores.                             *)
(***************************************************************************)
EXTENDS Evaluation, FiniteSetTheorems, TLAPS

CalStages  == {"cal", "cal_start", "cal_old", "cal_loop", "cal_times"}
FcycStages == CalStages \cup {"times", "start", "f", "stop"}
Stages     == FcycStages \cup {"off", "itimer", "gettod", "killed", "done"}

TimingTypes ==
    /\ at \in Stages
    /\ tsc \in 0 .. WRAP - 1 /\ since \in Nat /\ ticks \in Nat
    /\ cyc_hi \in 0 .. HALF - 1 /\ cyc_lo \in 0 .. HALF - 1
    /\ cyc_per_tick \in Nat /\ oldt \in Nat /\ newt \in Nat /\ e \in 0 .. NEVENT
    /\ left \in Nat /\ time \in Int
    /\ wall \in Nat /\ armed \in Nat /\ start \in Nat
    /\ own \in Nat /\ during \in Nat

(* The most cycles of a piece of f. *)
MostCycles == CHOOSE c \in Chunks : /\ \A d \in Chunks : d <= c
                                    /\ WithTicks(CHUNKS * c + 1) < WRAP

(* What callibrate has found so far. *)
TickCost == cyc_per_tick = 0 \/ (TICK <= cyc_per_tick /\ cyc_per_tick <= TICK + THRESHOLD)

(* The most cycles there can be since callibrate's start_counter when it   *)
(* has recorded k events, t ticks are counted and s cycles have passed     *)
(* since the last one.                                                     *)
Longest(k, t, s) == (k + t + (IF k = 0 THEN 0 ELSE 1)) * (PERIOD + TICK) + s

Elapsed == get_counter <= Longest(e, ticks, since)

CalLoopInv ==
    LET d == get_counter - oldt
    IN  \/ ticks = 0 /\ 1 <= d /\ d <= THRESHOLD
        \/ ticks = 1 /\ since = 0 /\ TICK < d /\ d <= TICK + THRESHOLD
        \/ ticks = 0 /\ since = 1 /\ d = TICK + 2
        \/ ticks = 1 /\ e = 0 /\ 1 <= d /\ d <= THRESHOLD /\ since <= d + 1

CalTimesInv ==
    LET w == newt - oldt
        d == get_counter - newt
    IN  \/ ticks = 0 /\ w = THRESHOLD /\ d = 1
        \/ ticks = 1 /\ w = THRESHOLD /\ d = TICK + 1 /\ since = 0
        \/ ticks = 1 /\ w = THRESHOLD /\ d = 1 /\ e = 0
        \/ ticks = 2 /\ w = THRESHOLD /\ d = TICK + 1 /\ since = 0 /\ e = 0
        \/ ticks = 1 /\ TICK < w /\ w <= TICK + THRESHOLD /\ d = 1 /\ since = 1
        \/ ticks = 0 /\ w = TICK + 2 /\ d = 1 /\ since = 2

CalInv ==
    /\ at \in CalStages => since <= PERIOD
    /\ at = "cal_start" => e = 0 /\ (ticks = 0 \/ (ticks = 1 /\ since = 0))
    /\ at = "cal_old" => e = 0 /\ (ticks = 0 \/ (ticks = 1 /\ since <= 1))
    /\ at \in {"cal_old", "cal_loop", "cal_times"} => Elapsed
    /\ at = "cal_loop" => CalLoopInv
    /\ at = "cal_times" => CalTimesInv /\ e < NEVENT

(* A measurement: the cycles counted are those of f and of the ticks in it *)
(* and at most two ticks are counted that do not come in it.               *)
MeasureInv ==
    /\ at = "start" => ticks = 0 \/ (ticks = 1 /\ since = 0)
    /\ at = "f" =>
          /\ get_counter = own + during * TICK
          /\ left <= CHUNKS /\ own <= (CHUNKS - left) * MostCycles + 1
          /\ during * PERIOD + since <= own + PERIOD - 1
          /\ ticks - during \in {0, 1}
    /\ at = "stop" =>
          /\ time = own + during * TICK
          /\ ticks - during \in {0, 1} \/ (ticks - during = 2 /\ since = 0)

(* The other clocks. *)
ClockInv ==
    /\ at = "itimer" => start = 0 /\ own = wall - armed
    /\ at = "gettod" => own = wall - start

TimingInv == TimingTypes /\ TickCost /\ CalInv /\ MeasureInv /\ ClockInv

-----------------------------------------------------------------------------
(* Reading the counter. *)

(* A quotient and a remainder are unique. *)
LEMMA DivModUnique ==
  ASSUME NEW w \in Nat, w > 0, NEW q \in Int, NEW r \in 0 .. w - 1
  PROVE  (q * w + r) \div w = q /\ (q * w + r) % w = r
<1> DEFINE x == q * w + r
           d == x \div w
           m == x % w
<1>1. x \in Int
  OBVIOUS
<1> HIDE DEF x
<1>2. d \in Int /\ m \in 0 .. w - 1 /\ x = d * w + m
  BY <1>1
<1> HIDE DEF d, m
<1>3. (d - q) * w = r - m
  BY <1>2 DEF x
<1>4. d = q
  <2>1. CASE d - q >= 1
    <3>1. (d - q) * w >= w
      BY <1>2, <2>1
    <3> QED BY <3>1, <1>2, <1>3
  <2>2. CASE d - q <= -1
    <3>1. (d - q) * w <= -w
      BY <1>2, <2>2
    <3> QED BY <3>1, <1>2, <1>3
  <2> QED BY <2>1, <2>2, <1>2
<1> QED BY <1>2, <1>3, <1>4 DEF d, m, x

(* What wraps once. *)
LEMMA WrapOnce ==
  ASSUME NEW w \in Nat, w > 0, NEW x \in Int, -w <= x, x < 2 * w
  PROVE  x % w = IF x < 0 THEN x + w ELSE IF x < w THEN x ELSE x - w
<1>1. CASE x < 0
  <2>1. x + w \in 0 .. w - 1 /\ x = (-1) * w + (x + w)
    BY <1>1
  <2> QED BY <2>1, <1>1, DivModUnique
<1>2. CASE 0 <= x /\ x < w
  <2>1. x \in 0 .. w - 1 /\ x = 0 * w + x
    BY <1>2
  <2> QED BY <2>1, <1>2, DivModUnique
<1>3. CASE x >= w
  <2>1. x - w \in 0 .. w - 1 /\ x = 1 * w + (x - w)
    BY <1>3
  <2> QED BY <2>1, <1>3, DivModUnique
<1> QED BY <1>1, <1>2, <1>3

(* The two words of a value of the counter. *)
WordsOf(x, h, l) == h \in 0 .. HALF - 1 /\ l \in 0 .. HALF - 1 /\ x = h * HALF + l

(* access_counter gives them. *)
LEMMA Words ==
  ASSUME NEW x \in 0 .. WRAP - 1
  PROVE  WordsOf(x, x \div HALF, x % HALF)
<1> DEFINE h == x \div HALF
           l == x % HALF
<1>1. HALF \in Nat /\ HALF > 1 /\ x \in Nat /\ x < HALF * HALF
  BY TimingAssumption DEF WRAP
<1>2. h \in Int /\ l \in 0 .. HALF - 1 /\ x = h * HALF + l
  BY <1>1
<1> SUFFICES WordsOf(x, h, l)
  OBVIOUS
<1> HIDE DEF h, l
<1>3. h >= 0
  <2> SUFFICES ASSUME h <= -1 PROVE FALSE
    BY <1>2
  <2>1. h * HALF <= -HALF
    BY <1>1, <1>2
  <2> QED BY <2>1, <1>1, <1>2
<1>4. h < HALF
  <2> SUFFICES ASSUME h >= HALF PROVE FALSE
    BY <1>1, <1>2
  <2>1. h * HALF >= HALF * HALF
    BY <1>1, <1>2
  <2> QED BY <2>1, <1>1, <1>2
<1> QED BY <1>1, <1>2, <1>3, <1>4 DEF WordsOf

(* get_counter as a function of the counter and of the stored words. *)
Reading(t, h, l) ==
    LET lo == ((t % HALF) - l) % HALF
        borrow == IF lo > t % HALF THEN 1 ELSE 0
        hi == (t \div HALF - h - borrow) % HALF
    IN  hi * HALF + lo

(* It is the difference of the counter and the stored value, borrow and    *)
(* all, also when the counter has wrapped since.                           *)
LEMMA Difference ==
  ASSUME NEW t \in 0 .. WRAP - 1, NEW ch \in 0 .. HALF - 1, NEW cl \in 0 .. HALF - 1
  PROVE  LET s == ch * HALF + cl
         IN  /\ s \in 0 .. WRAP - 1
             /\ Reading(t, ch, cl) = IF t >= s THEN t - s ELSE t - s + WRAP
<1> DEFINE s == ch * HALF + cl
           H == t \div HALF
           L == t % HALF
           lo == (L - cl) % HALF
           borrow == IF lo > L THEN 1 ELSE 0
           hi == (H - ch - borrow) % HALF
<1>1. HALF \in Nat /\ HALF > 1 /\ WRAP = HALF * HALF
  BY TimingAssumption DEF WRAP
<1>2. H \in 0 .. HALF - 1 /\ L \in 0 .. HALF - 1 /\ t = H * HALF + L
  <2>1. WordsOf(t, H, L)
    BY Words
  <2> HIDE DEF H, L
  <2> QED BY <2>1 DEF WordsOf
<1>3. t \in Nat
  BY <1>1
<1>4. Reading(t, ch, cl) = hi * HALF + lo
  BY DEF Reading
<1> HIDE DEF H, L
<1>5. lo = IF L < cl THEN L - cl + HALF ELSE L - cl
  BY <1>1, <1>2, <1>3, WrapOnce
<1>6. borrow = IF L < cl THEN 1 ELSE 0
  BY <1>1, <1>2, <1>3, <1>5
<1>7. hi = IF H - ch - borrow < 0 THEN H - ch - borrow + HALF
                                      ELSE H - ch - borrow
  <2> HIDE DEF lo
  <2>1. borrow \in {0, 1}
    OBVIOUS
  <2> HIDE DEF borrow
  <2> QED BY <2>1, <1>1, <1>2, <1>3, WrapOnce
<1> HIDE DEF lo, borrow, hi
<1>8. s \in 0 .. WRAP - 1
  <2>1. ch * HALF \in Nat /\ ch * HALF <= (HALF - 1) * HALF
    BY <1>1, <1>3
  <2>2. (HALF - 1) * HALF = HALF * HALF - HALF
    BY <1>1
  <2> QED BY <2>1, <2>2, <1>1, <1>3
<1>9. lo - HALF * borrow = L - cl
  BY <1>1, <1>2, <1>3, <1>5, <1>6
<1>10. lo \in 0 .. HALF - 1 /\ borrow \in {0, 1}
  BY <1>1, <1>2, <1>3, <1>5, <1>6
<1>11. (H - ch - borrow) * HALF + lo = t - s
  <2>1. (H - ch - borrow) * HALF = H * HALF - ch * HALF - HALF * borrow
    BY <1>1, <1>2, <1>3, <1>10
  <2>2. H * HALF \in Int /\ ch * HALF \in Int /\ HALF * borrow \in Int
    BY <1>1, <1>2, <1>3, <1>10
  <2> QED BY <2>1, <2>2, <1>2, <1>3, <1>9, <1>10, <1>1
<1>12. CASE H - ch - borrow < 0
  <2> DEFINE g == H - ch - borrow
  <2>0. g \in Int
    BY <1>2, <1>3, <1>10
  <2>1. hi * HALF = g * HALF + WRAP
    BY <2>0, <1>1, <1>7, <1>12
  <2>2. g * HALF <= -HALF
    BY <2>0, <1>1, <1>12
  <2>3. g * HALF \in Int /\ g * HALF + lo = t - s
    BY <2>0, <1>1, <1>11
  <2> HIDE DEF g
  <2>4. t < s
    BY <2>2, <2>3, <1>1, <1>3, <1>8, <1>10
  <2> QED BY <2>1, <2>3, <2>4, <1>1, <1>3, <1>4, <1>8, <1>10
<1>13. CASE H - ch - borrow >= 0
  <2> DEFINE g == H - ch - borrow
  <2>0. g \in Int
    BY <1>2, <1>3, <1>10
  <2>1. hi = g
    BY <2>0, <1>7, <1>13
  <2>2. g * HALF >= 0
    BY <2>0, <1>1, <1>13
  <2>3. g * HALF \in Int /\ g * HALF + lo = t - s
    BY <2>0, <1>1, <1>11
  <2> HIDE DEF g
  <2>4. t >= s
    BY <2>2, <2>3, <1>1, <1>3, <1>8, <1>10
  <2> QED BY <2>1, <2>3, <2>4, <1>1, <1>3, <1>4, <1>8, <1>10
<1> QED BY <1>8, <1>12, <1>13, <1>2, <1>3, <1>10

(* The value of the counter that start_counter stored. *)
Started == cyc_hi * HALF + cyc_lo

CounterType ==
    tsc \in 0 .. WRAP - 1 /\ cyc_hi \in 0 .. HALF - 1 /\ cyc_lo \in 0 .. HALF - 1

(* What get_counter returns now, and in the next state. *)
LEMMA GetCounter ==
  /\ get_counter = Reading(tsc, cyc_hi, cyc_lo)
  /\ get_counter' = Reading(tsc', cyc_hi', cyc_lo')
BY DEF get_counter, Reading, ncyc_hi, ncyc_lo

(* Cycles pass and the reading grows by them. *)
LEMMA ReadingGrows ==
  ASSUME CounterType, NEW c \in Nat, get_counter + c < WRAP,
         tsc' = (tsc + c) % WRAP, UNCHANGED counter
  PROVE  CounterType' /\ get_counter' = get_counter + c /\ get_counter \in Nat
<1>1. WRAP \in Nat /\ WRAP > 0
  BY TimingAssumption DEF WRAP
<1>2. /\ Started \in 0 .. WRAP - 1
      /\ get_counter = IF tsc >= Started THEN tsc - Started ELSE tsc - Started + WRAP
  BY Difference, GetCounter DEF CounterType, Started
<1>3. tsc \in 0 .. WRAP - 1 /\ cyc_hi' = cyc_hi /\ cyc_lo' = cyc_lo
  BY DEF CounterType, counter
<1>4. c < WRAP
  BY <1>1, <1>2, <1>3
<1>5. tsc' = IF tsc + c < WRAP THEN tsc + c ELSE tsc + c - WRAP
  BY <1>1, <1>3, <1>4, WrapOnce
<1>6. CounterType' /\ Started' = Started
  BY <1>1, <1>3, <1>4, <1>5 DEF CounterType, Started
<1>7. get_counter' = IF tsc' >= Started' THEN tsc' - Started' ELSE tsc' - Started' + WRAP
  BY <1>6, Difference, GetCounter DEF CounterType, Started
<1> QED BY <1>1, <1>2, <1>3, <1>4, <1>5, <1>6, <1>7

(* After start_counter the reading is the number of cycles passed since. *)
LEMMA ReadingStarts ==
  ASSUME CounterType, start_counter, NEW c \in Nat, c < WRAP,
         tsc' = (tsc + c) % WRAP
  PROVE  CounterType' /\ get_counter' = c
<1>1. WRAP \in Nat /\ WRAP > 0
  BY TimingAssumption DEF WRAP
<1>2. tsc \in 0 .. WRAP - 1
  BY DEF CounterType
<1>3. cyc_hi' \in 0 .. HALF - 1 /\ cyc_lo' \in 0 .. HALF - 1 /\ Started' = tsc
  <2>1. WordsOf(tsc, cyc_hi', cyc_lo')
    BY <1>2, Words DEF start_counter, ncyc_hi, ncyc_lo
  <2> QED BY <2>1 DEF WordsOf, Started
<1>4. tsc' = IF tsc + c < WRAP THEN tsc + c ELSE tsc + c - WRAP
  BY <1>1, <1>2, WrapOnce
<1>5. CounterType'
  BY <1>1, <1>2, <1>3, <1>4 DEF CounterType
<1>6. get_counter' = IF tsc' >= Started' THEN tsc' - Started' ELSE tsc' - Started' + WRAP
  BY <1>5, Difference, GetCounter DEF CounterType, Started
<1> QED BY <1>1, <1>2, <1>3, <1>4, <1>5, <1>6

-----------------------------------------------------------------------------
(* callibrate *)

(* The bound on its cycles follows the ticks and the events. *)
LEMMA LongestFacts ==
  ASSUME NEW k \in 0 .. NEVENT, NEW t \in 0 .. 2, NEW s \in 0 .. PERIOD, t = 2 => k = 0
  PROVE  /\ Longest(k, t, s) \in Nat /\ Longest(k, t, s) < WRAP
         /\ Longest(k, t, s + 1) = Longest(k, t, s) + 1
         /\ Longest(k, t + 1, 0) = Longest(k, t, PERIOD) + TICK
         /\ t > 0 => Longest(k, t, s) <= Longest(k + 1, 0, s)
<1> DEFINE p == PERIOD + TICK
           x == IF k = 0 THEN 0 ELSE 1
           n == k + t + x
<1>1. /\ PERIOD \in Nat /\ TICK \in Nat /\ NEVENT \in Nat /\ WRAP \in Nat
      /\ (NEVENT + 2) * p + PERIOD < WRAP
  BY TimingAssumption, CounterAssumption DEF WRAP
<1>2. p \in Nat /\ p = PERIOD + TICK
  BY <1>1
<1>3. n \in 0 .. NEVENT + 2
  BY <1>1
<1>4. Longest(k, t, s) = n * p + s
  BY DEF Longest
<1>5. Longest(k, t, s + 1) = n * p + (s + 1)
  BY DEF Longest
<1>6. Longest(k, t, PERIOD) = n * p + PERIOD
  BY DEF Longest
<1>7. Longest(k, t + 1, 0) = (n + 1) * p
  <2>1. k + (t + 1) + x = n + 1
    OBVIOUS
  <2> HIDE DEF n
  <2>2. Longest(k, t + 1, 0) = (n + 1) * p + 0
    BY <2>1 DEF Longest
  <2> QED BY <2>2, <1>2, <1>3
<1>8. t > 0 => Longest(k + 1, 0, s) >= n * p + s
  <2> SUFFICES ASSUME t > 0 PROVE Longest(k + 1, 0, s) >= n * p + s
    OBVIOUS
  <2>1. Longest(k + 1, 0, s) = (k + 2) * p + s
    <3>1. k + 1 + 0 + 1 = k + 2
      OBVIOUS
    <3> QED BY <3>1 DEF Longest
  <2>2. n <= k + 2
    OBVIOUS
  <2> HIDE DEF n
  <2>3. (k + 2) * p >= n * p
    BY <2>2, <1>2, <1>3
  <2> QED BY <2>1, <2>3, <1>2, <1>3
<1> HIDE DEF n, p
<1>9. n * p \in Nat /\ n * p <= (NEVENT + 2) * p /\ (n + 1) * p = n * p + p
  BY <1>1, <1>2, <1>3
<1> QED BY <1>1, <1>2, <1>4, <1>5, <1>6, <1>7, <1>8, <1>9

(* The counter's part of the types. *)
LEMMA TypesOfCounter ==
  ASSUME TimingInv
  PROVE  CounterType
BY DEF TimingInv, TimingTypes, CounterType

(* The counts of ticks and events callibrate may have. *)
LEMMA CalTicks ==
  ASSUME TimingInv, at \in {"cal_old", "cal_loop", "cal_times"}
  PROVE  /\ ticks \in 0 .. 2 /\ (ticks = 2 => e = 0) /\ e \in 0 .. NEVENT
         /\ since \in 0 .. PERIOD
BY TimingAssumption DEF TimingInv, TimingTypes, CalInv, CalLoopInv, CalTimesInv, CalStages

(* A step of callibrate takes a cycle, which the counter does not lose. *)
LEMMA CalPass ==
  ASSUME TimingInv, at \in {"cal_old", "cal_loop", "cal_times"},
         CyclesPass(1), UNCHANGED counter
  PROVE  /\ CounterType' /\ get_counter \in Nat /\ get_counter' = get_counter + 1
         /\ get_counter' <= Longest(e, ticks, since') /\ since' = since + 1 /\ since < PERIOD
<1>1. /\ since' = since + 1 /\ since < PERIOD /\ tsc' = (tsc + 1) % WRAP
      /\ PERIOD \in Nat /\ WRAP \in Nat
  BY TimingAssumption DEF CyclesPass, WRAP
<1>2. /\ ticks \in 0 .. 2 /\ (ticks = 2 => e = 0) /\ e \in 0 .. NEVENT
      /\ since \in 0 .. PERIOD /\ since + 1 \in 0 .. PERIOD
  BY <1>1, CalTicks
<1>3. get_counter <= Longest(e, ticks, since)
  BY DEF TimingInv, CalInv, Elapsed
<1>4. /\ Longest(e, ticks, since) \in Nat
      /\ Longest(e, ticks, since + 1) = Longest(e, ticks, since) + 1
      /\ Longest(e, ticks, since + 1) < WRAP
  BY <1>2, LongestFacts
<1>5. CounterType
  BY TypesOfCounter
<1>6. get_counter \in Nat
  BY <1>1, <1>5, Difference, GetCounter DEF CounterType
<1>7. get_counter + 1 < WRAP
  BY <1>1, <1>3, <1>4, <1>6
<1>8. CounterType' /\ get_counter' = get_counter + 1
  BY <1>1, <1>5, <1>7, ReadingGrows
<1> QED BY <1>1, <1>3, <1>4, <1>6, <1>8

(* callibrate begins to watch the counter. *)
LEMMA CalBeginStep ==
  ASSUME TimingInv, CalBegin
  PROVE  TimingInv'
<1> USE DEF TimingInv
<1>1. /\ at = "cal" /\ at' = "cal_start" /\ ticks' = 0 /\ e' = 0
      /\ since < PERIOD /\ since' = since + 1 /\ tsc' = (tsc + 1) % WRAP
      /\ UNCHANGED <<cyc_hi, cyc_lo, cyc_per_tick, oldt, newt, left, time, wall, armed,
                     start, own, during>>
  BY DEF CalBegin, CyclesPass, counter, clocks, ghosts
<1>2. PERIOD \in Nat /\ WRAP \in Nat /\ WRAP > 0 /\ NEVENT \in Nat
  BY TimingAssumption DEF WRAP
<1>3. TimingTypes'
  <2>1. tsc' \in 0 .. WRAP - 1
    BY <1>1, <1>2 DEF TimingTypes
  <2> QED BY <2>1, <1>1, <1>2 DEF TimingTypes, Stages, FcycStages, CalStages
<1>4. CalInv'
  BY <1>1, <1>2 DEF CalInv, TimingTypes
<1> QED BY <1>1, <1>3, <1>4 DEF TickCost, MeasureInv, ClockInv

(* Between times() and start_counter a tick may have been counted.         *)
LEMMA CalStartStep ==
  ASSUME TimingInv, CalStart
  PROVE  TimingInv'
<1> USE DEF TimingInv
<1>1. /\ at = "cal_start" /\ at' = "cal_old" /\ start_counter
      /\ since < PERIOD /\ since' = since + 1 /\ tsc' = (tsc + 1) % WRAP
      /\ UNCHANGED <<ticks, cyc_per_tick, oldt, newt, e, left, time, wall, armed,
                     start, own, during>>
  BY DEF CalStart, CyclesPass, calib, clocks, ghosts
<1>2. PERIOD \in Nat /\ WRAP \in Nat /\ 1 < WRAP /\ NEVENT \in Nat /\ TICK \in Nat
  <2>1. HALF * HALF > 1 /\ HALF * HALF \in Nat
    BY TimingAssumption
  <2> QED BY <2>1, TimingAssumption DEF WRAP
<1>3. CounterType' /\ get_counter' = 1
  BY <1>1, <1>2, TypesOfCounter, ReadingStarts
<1>4. TimingTypes'
  BY <1>1, <1>3 DEF CounterType, TimingTypes, Stages, FcycStages, CalStages
<1>5. e = 0 /\ (ticks = 0 \/ (ticks = 1 /\ since = 0)) /\ since \in Nat
  BY <1>1 DEF CalInv, TimingTypes
<1>6. Elapsed'
  <2>1. Longest(0, ticks, since') >= since'
    <3>1. Longest(0, ticks, since') = ticks * (PERIOD + TICK) + since'
      BY <1>5 DEF Longest
    <3>2. ticks * (PERIOD + TICK) \in Nat
      BY <1>2, <1>5
    <3> QED BY <3>1, <3>2, <1>1, <1>5
  <2>2. Elapsed' <=> get_counter' <= Longest(0, ticks, since')
    BY <1>1, <1>5 DEF Elapsed
  <2>3. since' \in Nat /\ since' >= 1 /\ Longest(0, ticks, since') \in Int
    <3>1. Longest(0, ticks, since') = ticks * (PERIOD + TICK) + since'
      BY <1>5 DEF Longest
    <3> QED BY <3>1, <1>1, <1>2, <1>5
  <2> QED BY <2>1, <2>2, <2>3, <1>3
<1>7. CalInv'
  BY <1>1, <1>2, <1>5, <1>6 DEF CalInv
<1> QED BY <1>1, <1>4, <1>7 DEF TickCost, MeasureInv, ClockInv

(* The first reading. *)
LEMMA CalOldStep ==
  ASSUME TimingInv, CalOld
  PROVE  TimingInv'
<1> USE DEF TimingInv
<1>1. /\ at = "cal_old" /\ at' = "cal_loop" /\ oldt' = get_counter
      /\ CyclesPass(1) /\ UNCHANGED counter
      /\ UNCHANGED <<ticks, cyc_per_tick, newt, e, left, time, wall, armed,
                     start, own, during>>
  BY DEF CalOld, counter, clocks, ghosts
<1>2. /\ CounterType' /\ get_counter \in Nat /\ get_counter' = get_counter + 1
      /\ get_counter' <= Longest(e, ticks, since') /\ since' = since + 1 /\ since < PERIOD
  BY <1>1, CalPass
<1>3. PERIOD \in Nat /\ THRESHOLD \in Nat /\ THRESHOLD > 1
  BY TimingAssumption
<1>4. e = 0 /\ (ticks = 0 \/ (ticks = 1 /\ since <= 1)) /\ since \in Nat
  BY <1>1 DEF CalInv, TimingTypes
<1>5. TimingTypes'
  BY <1>1, <1>2, <1>4 DEF CounterType, TimingTypes, Stages, FcycStages, CalStages
<1>6. Elapsed'
  BY <1>1, <1>2 DEF Elapsed
<1>7. CalLoopInv'
  <2>1. get_counter' - oldt' = 1
    BY <1>1, <1>2
  <2> QED BY <2>1, <1>1, <1>2, <1>3, <1>4 DEF CalLoopInv
<1>8. CalInv'
  BY <1>1, <1>2, <1>3, <1>4, <1>6, <1>7 DEF CalInv
<1> QED BY <1>1, <1>5, <1>8 DEF TickCost, MeasureInv, ClockInv

(* A reading in the loop ends it exactly at THRESHOLD, unless a tick came. *)
LEMMA CalLoopStep ==
  ASSUME TimingInv, CalLoop
  PROVE  TimingInv'
<1> USE DEF TimingInv
<1>1. /\ at = "cal_loop" /\ e < NEVENT /\ newt' = get_counter
      /\ at' = IF newt' - oldt >= THRESHOLD THEN "cal_times" ELSE at
      /\ CyclesPass(1) /\ UNCHANGED counter
      /\ UNCHANGED <<ticks, cyc_per_tick, oldt, e, left, time, wall, armed,
                     start, own, during>>
  BY DEF CalLoop, counter, clocks, ghosts
<1>2. /\ CounterType' /\ get_counter \in Nat /\ get_counter' = get_counter + 1
      /\ get_counter' <= Longest(e, ticks, since') /\ since' = since + 1 /\ since < PERIOD
  BY <1>1, CalPass
<1>3. /\ PERIOD \in Nat /\ THRESHOLD \in Nat /\ THRESHOLD > 1
      /\ TICK \in Nat /\ TICK > THRESHOLD + 1
  BY TimingAssumption
<1>4. CalLoopInv /\ since \in Nat /\ ticks \in Nat /\ oldt \in Nat
  BY <1>1 DEF CalInv, TimingTypes
<1>5. TimingTypes'
  BY <1>1, <1>2, <1>4 DEF CounterType, TimingTypes, Stages, FcycStages, CalStages
<1>6. Elapsed'
  BY <1>1, <1>2 DEF Elapsed
<1>7. CASE get_counter - oldt >= THRESHOLD
  <2>1. at' = "cal_times"
    BY <1>1, <1>7
  <2>2. get_counter' - newt' = 1 /\ newt' - oldt' = get_counter - oldt
    BY <1>1, <1>2
  <2>3. CalTimesInv'
    BY <2>2, <1>1, <1>2, <1>3, <1>4, <1>7 DEF CalLoopInv, CalTimesInv
  <2>4. CalInv'
    BY <2>1, <2>3, <1>1, <1>2, <1>3, <1>4, <1>6 DEF CalInv
  <2> QED BY <2>1, <2>4, <1>1, <1>5 DEF TickCost, MeasureInv, ClockInv
<1>8. CASE get_counter - oldt < THRESHOLD
  <2>1. at' = "cal_loop"
    BY <1>1, <1>2, <1>3, <1>4, <1>8
  <2>2. get_counter' - oldt' = get_counter - oldt + 1
    BY <1>1, <1>2, <1>4
  <2>3. CalLoopInv'
    BY <2>2, <1>1, <1>2, <1>3, <1>4, <1>8 DEF CalLoopInv
  <2>4. CalInv'
    BY <2>1, <2>3, <1>1, <1>2, <1>3, <1>4, <1>6 DEF CalInv
  <2> QED BY <2>1, <2>4, <1>1, <1>5 DEF TickCost, MeasureInv, ClockInv
<1> QED BY <1>2, <1>3, <1>4, <1>7, <1>8

(* Half of a count of at least two, and what is divided by one. *)
LEMMA Ratio ==
  ASSUME NEW w \in Nat
  PROVE  w \div 1 = w /\ w \div 2 \in Nat /\ w \div 2 <= w
OBVIOUS

(* A ratio that is recorded is the cost of a tick and a few cycles. *)
LEMMA CalTimesStep ==
  ASSUME TimingInv, CalTimes
  PROVE  TimingInv'
<1> USE DEF TimingInv
<1> DEFINE cpt == (newt - oldt) \div ticks
<1>1. /\ at = "cal_times" /\ at' = "cal_loop" /\ oldt' = newt
      /\ CyclesPass(1) /\ UNCHANGED counter
      /\ UNCHANGED <<newt, left, time, wall, armed, start, own, during>>
      /\ IF ticks > 0
         THEN cyc_per_tick' = LeastTick(cpt) /\ e' = e + 1 /\ ticks' = 0
         ELSE UNCHANGED <<cyc_per_tick, e, ticks>>
  BY DEF CalTimes, counter, clocks, ghosts
<1>2. /\ CounterType' /\ get_counter \in Nat /\ get_counter' = get_counter + 1
      /\ get_counter' <= Longest(e, ticks, since') /\ since' = since + 1 /\ since < PERIOD
  BY <1>1, CalPass
<1>3. /\ PERIOD \in Nat /\ THRESHOLD \in Nat /\ THRESHOLD > 1
      /\ TICK \in Nat /\ TICK > RECORDTHRESH /\ RECORDTHRESH \in Nat
      /\ RECORDTHRESH > THRESHOLD + 1 /\ NEVENT \in Nat
  BY TimingAssumption
<1>4. /\ CalTimesInv /\ since \in Nat /\ ticks \in Nat /\ oldt \in Nat /\ newt \in Nat
      /\ e \in 0 .. NEVENT /\ e < NEVENT /\ cyc_per_tick \in Nat
  BY <1>1 DEF CalInv, TimingTypes
<1>5. ticks' = 0 /\ e' \in 0 .. NEVENT
  BY <1>1, <1>3, <1>4
<1>6. CalLoopInv'
  <2>1. get_counter' - oldt' = get_counter - newt + 1
    BY <1>1, <1>2, <1>4
  <2> QED BY <2>1, <1>2, <1>3, <1>4, <1>5 DEF CalTimesInv, CalLoopInv
<1>7. cyc_per_tick' \in Nat /\ TickCost'
  <2>1. CASE ticks = 0
    BY <2>1, <1>1, <1>4 DEF TickCost
  <2>2. CASE ticks > 0
    <3>1. /\ newt - oldt \in Nat /\ newt - oldt <= TICK + THRESHOLD
          /\ newt - oldt > THRESHOLD => newt - oldt > TICK /\ ticks = 1
          /\ ticks \in {1, 2}
      BY <2>2, <1>3, <1>4 DEF CalTimesInv
    <3>2. cpt \in Nat /\ cpt <= newt - oldt /\ (ticks = 1 => cpt = newt - oldt)
      BY <3>1, Ratio
    <3>3. cyc_per_tick' = LeastTick(cpt)
      BY <2>2, <1>1
    <3> HIDE DEF cpt
    <3>4. cpt > RECORDTHRESH => TICK <= cpt /\ cpt <= TICK + THRESHOLD
      BY <3>1, <3>2, <1>3
    <3> QED BY <3>2, <3>3, <3>4, <1>4 DEF LeastTick, TickCost
  <2> QED BY <2>1, <2>2, <1>4
<1>8. TimingTypes'
  BY <1>1, <1>2, <1>4, <1>5, <1>7 DEF CounterType, TimingTypes, Stages, FcycStages, CalStages
<1>9. Elapsed'
  <2>1. CASE ticks = 0
    BY <2>1, <1>1, <1>2, <1>4 DEF Elapsed
  <2>2. CASE ticks > 0
    <3>1. ticks \in 0 .. 2 /\ (ticks = 2 => e = 0) /\ since' \in 0 .. PERIOD
      BY <1>1, <1>2, <1>3, <1>4, CalTicks
    <3>2. /\ Longest(e, ticks, since') <= Longest(e + 1, 0, since')
          /\ Longest(e, ticks, since') \in Nat
      BY <2>2, <3>1, <1>4, LongestFacts
    <3>3. Longest(e', ticks', since') = Longest(e + 1, 0, since')
      BY <2>2, <1>1
    <3>4. Longest(e + 1, 0, since') \in Nat
      <4>1. (e + 1 + 0 + 1) * (PERIOD + TICK) \in Nat
        BY <1>3, <1>4
      <4>2. e + 1 # 0 /\ since' \in Nat
        BY <3>1, <1>3, <1>4
      <4>3. Longest(e + 1, 0, since') = (e + 1 + 0 + 1) * (PERIOD + TICK) + since'
        BY <4>2 DEF Longest
      <4> QED BY <4>1, <4>2, <4>3
    <3> QED BY <3>2, <3>3, <3>4, <1>2 DEF Elapsed
  <2> QED BY <2>1, <2>2, <1>4
<1>10. CalInv'
  BY <1>1, <1>2, <1>3, <1>4, <1>6, <1>9 DEF CalInv
<1> QED BY <1>1, <1>7, <1>8, <1>10 DEF MeasureInv, ClockInv

(* callibrate is over. *)
LEMMA CalEndStep ==
  ASSUME TimingInv, CalEnd
  PROVE  TimingInv'
<1> USE DEF TimingInv
<1>1. /\ at = "cal_loop" /\ at' = "times" /\ CyclesPass(1)
      /\ UNCHANGED <<ticks, cyc_hi, cyc_lo, cyc_per_tick, oldt, newt, e, left, time,
                     wall, armed, start, own, during>>
  BY DEF CalEnd, counter, calib, clocks, ghosts
<1>2. since' \in Nat /\ tsc' \in 0 .. WRAP - 1
  <2>1. WRAP \in Nat /\ WRAP > 0
    BY TimingAssumption DEF WRAP
  <2> QED BY <2>1, <1>1 DEF CyclesPass, TimingTypes
<1>3. TimingTypes'
  BY <1>1, <1>2 DEF TimingTypes, Stages, FcycStages
<1>4. CalInv' /\ MeasureInv' /\ ClockInv'
  BY <1>1 DEF CalInv, MeasureInv, ClockInv, CalStages
<1> QED BY <1>1, <1>3, <1>4 DEF TickCost

-----------------------------------------------------------------------------
(* The measured function *)

(* CounterAssumption gives the piece that takes longest. *)
LEMMA Most ==
  /\ MostCycles \in Nat /\ MostCycles \in Chunks /\ \A d \in Chunks : d <= MostCycles
  /\ WithTicks(CHUNKS * MostCycles + 1) < WRAP
<1>1. \E most \in Chunks : /\ \A c \in Chunks : c <= most
                           /\ WithTicks(CHUNKS * most + 1) < WRAP
  BY CounterAssumption
<1> QED BY <1>1, TimingAssumption DEF MostCycles

(* The ticks that come in a run of f do not bring the counter round. *)
LEMMA RunFits ==
  ASSUME NEW c \in Nat, NEW n \in Nat, c <= CHUNKS * MostCycles + 1,
         n * PERIOD <= c + PERIOD - 1
  PROVE  c + n * TICK < WRAP /\ n * TICK \in Nat
<1> DEFINE m == CHUNKS * MostCycles + 1
           q == (m + PERIOD - 1) \div PERIOD
<1>1. /\ PERIOD \in Nat /\ PERIOD > 0 /\ TICK \in Nat /\ m \in Nat /\ WRAP \in Nat
      /\ c <= m
  BY TimingAssumption, Most DEF WRAP
<1>2. m + q * TICK < WRAP
  BY Most DEF WithTicks
<1> HIDE DEF m
<1>3. m + PERIOD - 1 \in Nat
  BY <1>1
<1>4. q \in Int /\ q * PERIOD <= m + PERIOD - 1 /\ m + PERIOD - 1 < q * PERIOD + PERIOD
  <2> DEFINE r == (m + PERIOD - 1) % PERIOD
  <2>1. q \in Int /\ r \in 0 .. PERIOD - 1 /\ m + PERIOD - 1 = q * PERIOD + r
    BY <1>1, <1>3
  <2> HIDE DEF q, r
  <2> QED BY <2>1, <1>1
<1> HIDE DEF q
<1>5. n <= q
  <2> SUFFICES ASSUME n >= q + 1 PROVE FALSE
    BY <1>4
  <2>1. n * PERIOD >= (q + 1) * PERIOD
    BY <1>1, <1>4
  <2>2. (q + 1) * PERIOD = q * PERIOD + PERIOD
    BY <1>1, <1>4
  <2>3. n * PERIOD \in Int /\ q * PERIOD \in Int
    BY <1>1, <1>4
  <2> QED BY <2>1, <2>2, <2>3, <1>1, <1>4
<1>6. n * TICK <= q * TICK /\ n * TICK \in Nat /\ q * TICK \in Int
  BY <1>1, <1>4, <1>5
<1> QED BY <1>1, <1>2, <1>6

(* What passes in f is counted. *)
LEMMA RunPass ==
  ASSUME TimingInv, at = "f", UNCHANGED counter, NEW c \in Nat,
         tsc' = (tsc + c) % WRAP, NEW o \in Nat, NEW n \in Nat,
         o <= CHUNKS * MostCycles + 1, n * PERIOD <= o + PERIOD - 1,
         own + during * TICK + c = o + n * TICK
  PROVE  CounterType' /\ get_counter' = o + n * TICK
<1>1. get_counter = own + during * TICK
  BY DEF TimingInv, MeasureInv
<1>2. o + n * TICK < WRAP
  BY RunFits
<1>3. get_counter + c < WRAP
  BY <1>1, <1>2
<1>4. CounterType' /\ get_counter' = get_counter + c
  BY <1>3, ReadingGrows, TypesOfCounter
<1> QED BY <1>1, <1>4

(* times() *)
LEMMA StartTicksStep ==
  ASSUME TimingInv, StartTicks
  PROVE  TimingInv'
<1> USE DEF TimingInv
<1>1. /\ at = "times" /\ at' = "start" /\ CyclesPass(1) /\ ticks' = 0
      /\ UNCHANGED <<cyc_hi, cyc_lo, cyc_per_tick, oldt, newt, e, left, time,
                     wall, armed, start, own, during>>
  BY DEF StartTicks, counter, calib, clocks, ghosts
<1>2. since' \in Nat /\ tsc' \in 0 .. WRAP - 1
  <2>1. WRAP \in Nat /\ WRAP > 0
    BY TimingAssumption DEF WRAP
  <2> QED BY <2>1, <1>1 DEF CyclesPass, TimingTypes
<1>3. TimingTypes'
  BY <1>1, <1>2 DEF TimingTypes, Stages, FcycStages
<1>4. CalInv' /\ MeasureInv' /\ ClockInv'
  BY <1>1 DEF CalInv, MeasureInv, ClockInv, CalStages
<1> QED BY <1>1, <1>3, <1>4 DEF TickCost

(* start_counter, of the measurement. *)
LEMMA StartCounterStep ==
  ASSUME TimingInv, StartCounter
  PROVE  TimingInv'
<1> USE DEF TimingInv
<1>1. /\ at = "start" /\ at' = "f" /\ start_counter
      /\ since < PERIOD /\ since' = since + 1 /\ tsc' = (tsc + 1) % WRAP
      /\ own' = 1 /\ during' = 0 /\ left' = CHUNKS
      /\ UNCHANGED <<ticks, cyc_per_tick, oldt, newt, e, time, wall, armed, start>>
  BY DEF StartCounter, CyclesPass, calib, clocks
<1>2. /\ PERIOD \in Nat /\ WRAP \in Nat /\ 1 < WRAP /\ TICK \in Nat /\ CHUNKS \in Nat
  <2>1. HALF * HALF > 1 /\ HALF * HALF \in Nat
    BY TimingAssumption
  <2> QED BY <2>1, TimingAssumption DEF WRAP
<1>3. CounterType' /\ get_counter' = 1
  BY <1>1, <1>2, TypesOfCounter, ReadingStarts
<1>4. TimingTypes'
  BY <1>1, <1>2, <1>3 DEF CounterType, TimingTypes, Stages, FcycStages
<1>5. MeasureInv'
  <2>1. ticks' - during' \in {0, 1}
    BY <1>1 DEF MeasureInv
  <2>2. during' * TICK = 0 /\ during' * PERIOD = 0
    BY <1>1, <1>2
  <2>3. (CHUNKS - left') * MostCycles = 0
    BY <1>1, <1>2, Most
  <2>4. since' \in Nat /\ since' <= PERIOD
    BY <1>1, <1>2 DEF TimingTypes
  <2> QED BY <2>1, <2>2, <2>3, <2>4, <1>1, <1>2, <1>3 DEF MeasureInv
<1>6. CalInv' /\ ClockInv'
  BY <1>1 DEF CalInv, ClockInv, CalStages
<1> QED BY <1>1, <1>4, <1>5, <1>6 DEF TickCost

(* A piece of f. *)
LEMMA RunPieceStep ==
  ASSUME TimingInv, RunPiece
  PROVE  TimingInv'
<1> USE DEF TimingInv
<1>1. PICK c \in Chunks : CyclesPass(c) /\ own' = own + c
  BY DEF RunPiece
<1>2. /\ at = "f" /\ at' = "f" /\ left > 0 /\ left' = left - 1 /\ UNCHANGED counter
      /\ UNCHANGED <<ticks, cyc_per_tick, oldt, newt, e, time, wall, armed, start, during>>
  BY DEF RunPiece, calib, clocks
<1>3. /\ PERIOD \in Nat /\ CHUNKS \in Nat /\ TICK \in Nat /\ c \in Nat
      /\ MostCycles \in Nat /\ c <= MostCycles
  BY TimingAssumption, Most
<1>4. since' = since + c /\ tsc' = (tsc + c) % WRAP
  BY <1>1 DEF CyclesPass
<1>5. /\ since \in Nat /\ left \in Nat /\ own \in Nat /\ during \in Nat
      /\ get_counter = own + during * TICK /\ left <= CHUNKS
      /\ own <= (CHUNKS - left) * MostCycles + 1
      /\ during * PERIOD + since <= own + PERIOD - 1 /\ ticks - during \in {0, 1}
  BY <1>2 DEF TimingTypes, MeasureInv
<1>6. own' <= (CHUNKS - left') * MostCycles + 1 /\ own' \in Nat
  <2>1. CHUNKS - left' = (CHUNKS - left) + 1
    BY <1>2, <1>3, <1>5
  <2>2. (CHUNKS - left') * MostCycles = (CHUNKS - left) * MostCycles + MostCycles
    BY <2>1, <1>3, <1>5
  <2>3. (CHUNKS - left) * MostCycles \in Int
    BY <1>3, <1>5
  <2> QED BY <2>2, <2>3, <1>1, <1>3, <1>5
<1>7. (CHUNKS - left') * MostCycles <= CHUNKS * MostCycles
  <2>1. CHUNKS - left' <= CHUNKS /\ CHUNKS - left' \in Int
    BY <1>2, <1>3, <1>5
  <2> QED BY <2>1, <1>3
<1>8. during * PERIOD + since' <= own' + PERIOD - 1 /\ during * PERIOD \in Nat /\ during * TICK \in Nat
  <2>1. during * PERIOD \in Nat /\ during * TICK \in Nat
    BY <1>3, <1>5
  <2> QED BY <2>1, <1>1, <1>3, <1>4, <1>5
<1>9. CounterType' /\ get_counter' = own' + during * TICK
  <2>1. own' <= CHUNKS * MostCycles + 1
    <3>1. (CHUNKS - left') * MostCycles \in Int /\ CHUNKS * MostCycles \in Int
      BY <1>2, <1>3, <1>5
    <3> QED BY <3>1, <1>6, <1>7
  <2>2. during * PERIOD <= own' + PERIOD - 1
    <3>1. since' \in Nat
      BY <1>3, <1>4, <1>5
    <3> QED BY <3>1, <1>3, <1>6, <1>8
  <2>3. own + during * TICK + c = own' + during * TICK
    BY <1>1, <1>3, <1>5, <1>8
  <2> QED BY <2>1, <2>2, <2>3, <1>2, <1>3, <1>4, <1>5, <1>6, RunPass
<1>10. TimingTypes'
  BY <1>2, <1>3, <1>4, <1>5, <1>6, <1>9 DEF CounterType, TimingTypes
<1>11. MeasureInv'
  <2>1. left' <= CHUNKS
    BY <1>2, <1>3, <1>5
  <2> QED BY <2>1, <1>2, <1>5, <1>6, <1>8, <1>9 DEF MeasureInv
<1>12. CalInv' /\ ClockInv'
  BY <1>2 DEF CalInv, ClockInv, CalStages
<1> QED BY <1>2, <1>10, <1>11, <1>12 DEF TickCost

(* The last reading. *)
LEMMA StopCounterStep ==
  ASSUME TimingInv, StopCounter
  PROVE  TimingInv'
<1> USE DEF TimingInv
<1>1. /\ at = "f" /\ at' = "stop" /\ CyclesPass(1) /\ time' = get_counter
      /\ UNCHANGED <<ticks, cyc_hi, cyc_lo, cyc_per_tick, oldt, newt, e, left,
                     wall, armed, start, own, during>>
  BY DEF StopCounter, counter, calib, clocks, ghosts
<1>2. since' \in Nat /\ tsc' \in 0 .. WRAP - 1
  <2>1. WRAP \in Nat /\ WRAP > 0
    BY TimingAssumption DEF WRAP
  <2> QED BY <2>1, <1>1 DEF CyclesPass, TimingTypes
<1>3. time' = own + during * TICK /\ ticks - during \in {0, 1} /\ time' \in Int
  <2>1. own + during * TICK \in Int
    BY TimingAssumption DEF TimingTypes
  <2> QED BY <2>1, <1>1 DEF MeasureInv
<1>4. TimingTypes'
  BY <1>1, <1>2, <1>3 DEF TimingTypes, Stages, FcycStages
<1>5. CalInv' /\ MeasureInv' /\ ClockInv'
  BY <1>1, <1>3 DEF CalInv, MeasureInv, ClockInv, CalStages
<1> QED BY <1>1, <1>4, <1>5 DEF TickCost

-----------------------------------------------------------------------------
(* The timer tick *)

(* In callibrate a tick is due PERIOD cycles after the last one. *)
LEMMA TickInCal ==
  ASSUME TimingInv, Tick, at \in CalStages
  PROVE  TimingInv'
<1> USE DEF TimingInv
<1>1. /\ at' = at /\ since >= PERIOD /\ since' = 0 /\ ticks' = ticks + 1
      /\ tsc' = (tsc + TICK) % WRAP /\ during' = during /\ UNCHANGED counter
      /\ UNCHANGED <<cyc_per_tick, oldt, newt, e, left, time, wall, armed, start, own>>
  BY DEF Tick, calib, clocks, CalStages
<1>2. /\ PERIOD \in Nat /\ PERIOD > 0 /\ THRESHOLD \in Nat /\ THRESHOLD > 1 /\ TICK \in Nat
      /\ PERIOD > THRESHOLD + 1 /\ WRAP \in Nat /\ WRAP > 0
  BY TimingAssumption DEF WRAP
<1>3. /\ since = PERIOD /\ ticks \in Nat /\ e \in 0 .. NEVENT /\ oldt \in Nat /\ newt \in Nat
  BY <1>1, <1>2 DEF CalInv, TimingTypes
<1>4. TimingTypes'
  <2>1. tsc' \in 0 .. WRAP - 1
    BY <1>1, <1>2 DEF TimingTypes
  <2> QED BY <2>1, <1>1, <1>3 DEF TimingTypes, counter
<1>5. TickCost' /\ MeasureInv' /\ ClockInv'
  BY <1>1 DEF TickCost, MeasureInv, ClockInv, CalStages
<1>6. CASE at \in {"cal", "cal_start"}
  <2>1. CalInv'
    BY <1>1, <1>2, <1>3, <1>6 DEF CalInv
  <2> QED BY <2>1, <1>4, <1>5
<1>7. CASE at \in {"cal_old", "cal_loop", "cal_times"}
  <2>1. ticks \in 0 .. 1 /\ (ticks + 1 = 2 => e = 0)
    BY <1>2, <1>3, <1>7 DEF CalInv, CalLoopInv, CalTimesInv
  <2>2. get_counter <= Longest(e, ticks, PERIOD)
    BY <1>3, <1>7 DEF CalInv, Elapsed
  <2>3. /\ Longest(e, ticks, PERIOD) \in Nat
        /\ Longest(e, ticks + 1, 0) = Longest(e, ticks, PERIOD) + TICK
    BY <2>1, <1>2, <1>3, LongestFacts
  <2>4. Longest(e, ticks + 1, 0) < WRAP
    <3>1. ticks + 1 \in 0 .. 2 /\ 0 \in 0 .. PERIOD
      BY <2>1, <1>2
    <3> HIDE DEF TimingInv
    <3> QED BY <3>1, <2>1, <1>3, LongestFacts
  <2>5. CounterType /\ get_counter \in Nat
    <3>1. CounterType
      BY TypesOfCounter
    <3> QED BY <3>1, <1>2, Difference, GetCounter DEF CounterType
  <2>6. CounterType' /\ get_counter' = get_counter + TICK
    <3>1. get_counter + TICK < WRAP
      BY <2>2, <2>3, <2>4, <2>5, <1>2
    <3> QED BY <3>1, <2>5, <1>1, <1>2, ReadingGrows
  <2>7. Elapsed'
    <3>1. Longest(e', ticks', since') = Longest(e, ticks + 1, 0)
      BY <1>1
    <3> QED BY <3>1, <2>2, <2>3, <2>5, <2>6, <1>2 DEF Elapsed
  <2>8. at = "cal_loop" => CalLoopInv'
    <3> SUFFICES ASSUME at = "cal_loop" PROVE CalLoopInv'
      OBVIOUS
    <3>1. CalLoopInv
      BY DEF CalInv
    <3>2. get_counter' - oldt' = get_counter - oldt + TICK
      BY <2>5, <2>6, <1>1, <1>2, <1>3
    <3> QED BY <3>1, <3>2, <2>5, <1>1, <1>2, <1>3 DEF CalLoopInv
  <2>9. at = "cal_times" => CalTimesInv'
    <3> SUFFICES ASSUME at = "cal_times" PROVE CalTimesInv'
      OBVIOUS
    <3>1. CalTimesInv
      BY DEF CalInv
    <3>2. get_counter' - newt' = get_counter - newt + TICK /\ newt' - oldt' = newt - oldt
      BY <2>5, <2>6, <1>1, <1>2, <1>3
    <3> QED BY <3>1, <3>2, <2>5, <1>1, <1>2, <1>3 DEF CalTimesInv
  <2>10. CalInv'
    BY <2>7, <2>8, <2>9, <1>1, <1>2, <1>3, <1>7 DEF CalInv
  <2> QED BY <2>10, <1>4, <1>5
<1> QED BY <1>6, <1>7 DEF CalStages

(* In the run of f it is counted by the counter and by times(). *)
LEMMA TickInRun ==
  ASSUME TimingInv, Tick, at = "f"
  PROVE  TimingInv'
<1> USE DEF TimingInv
<1>1. /\ at' = "f" /\ since >= PERIOD /\ since' = 0 /\ ticks' = ticks + 1
      /\ tsc' = (tsc + TICK) % WRAP /\ during' = during + 1 /\ UNCHANGED counter
      /\ UNCHANGED <<cyc_per_tick, oldt, newt, e, left, time, wall, armed, start, own>>
  BY DEF Tick, calib, clocks
<1>2. /\ PERIOD \in Nat /\ TICK \in Nat /\ CHUNKS \in Nat /\ MostCycles \in Nat
  BY TimingAssumption, Most
<1>3. /\ since \in Nat /\ left \in Nat /\ own \in Nat /\ during \in Nat /\ ticks \in Nat
      /\ left <= CHUNKS /\ own <= (CHUNKS - left) * MostCycles + 1
      /\ during * PERIOD + since <= own + PERIOD - 1 /\ ticks - during \in {0, 1}
  BY DEF TimingTypes, MeasureInv
<1>4. /\ (during + 1) * PERIOD = during * PERIOD + PERIOD
      /\ (during + 1) * TICK = during * TICK + TICK
      /\ during * PERIOD \in Nat /\ during * TICK \in Nat
  BY <1>2, <1>3
<1>5. (during + 1) * PERIOD <= own + PERIOD - 1
  BY <1>1, <1>2, <1>3, <1>4
<1>6. own <= CHUNKS * MostCycles + 1
  <2>1. /\ (CHUNKS - left) * MostCycles \in Int /\ CHUNKS * MostCycles \in Int
        /\ (CHUNKS - left) * MostCycles <= CHUNKS * MostCycles
    BY <1>2, <1>3
  <2> QED BY <2>1, <1>3
<1>7. CounterType' /\ get_counter' = own + (during + 1) * TICK
  <2>1. own + during * TICK + TICK = own + (during + 1) * TICK /\ during + 1 \in Nat
    BY <1>2, <1>3, <1>4
  <2> QED BY <2>1, <1>1, <1>2, <1>3, <1>5, <1>6, RunPass
<1>8. TimingTypes'
  BY <1>1, <1>3, <1>7 DEF CounterType, TimingTypes
<1>9. MeasureInv'
  <2>1. during' * PERIOD + since' <= own' + PERIOD - 1
    BY <1>1, <1>2, <1>3, <1>4, <1>5
  <2>2. ticks' - during' \in {0, 1}
    BY <1>1, <1>3
  <2> QED BY <2>1, <2>2, <1>1, <1>3, <1>7 DEF MeasureInv
<1>10. CalInv' /\ ClockInv'
  BY <1>1 DEF CalInv, ClockInv, CalStages
<1> QED BY <1>1, <1>8, <1>9, <1>10 DEF TickCost

(* Elsewhere only times() counts it. *)
LEMMA TickElsewhere ==
  ASSUME TimingInv, Tick, at \in {"times", "start", "stop"}
  PROVE  TimingInv'
<1> USE DEF TimingInv
<1>1. /\ at' = at /\ since >= PERIOD /\ since' = 0 /\ ticks' = ticks + 1
      /\ tsc' = (tsc + TICK) % WRAP /\ during' = during
      /\ UNCHANGED <<cyc_hi, cyc_lo, cyc_per_tick, oldt, newt, e, left, time, wall, armed,
                     start, own>>
  BY DEF Tick, calib, clocks, counter
<1>2. PERIOD \in Nat /\ PERIOD > 0 /\ TICK \in Nat /\ WRAP \in Nat /\ WRAP > 0
  BY TimingAssumption DEF WRAP
<1>3. TimingTypes'
  <2>1. tsc' \in 0 .. WRAP - 1
    BY <1>1, <1>2 DEF TimingTypes
  <2> QED BY <2>1, <1>1, <1>2 DEF TimingTypes
<1>4. MeasureInv'
  BY <1>1, <1>2 DEF MeasureInv, TimingTypes
<1>5. CalInv' /\ ClockInv'
  BY <1>1 DEF CalInv, ClockInv, CalStages
<1> QED BY <1>1, <1>3, <1>4, <1>5 DEF TickCost

(* The tick. *)
LEMMA TickStep ==
  ASSUME TimingInv, Tick
  PROVE  TimingInv'
BY TickInCal, TickInRun, TickElsewhere DEF Tick, Ticking, CalStages

-----------------------------------------------------------------------------
(* The beginning and the end of a measurement; ftimer.c *)

(* fcyc *)
LEMMA FcycBeginStep ==
  ASSUME TimingInv, FcycBegin
  PROVE  TimingInv'
<1> USE DEF TimingInv
<1>1. /\ at' \in {"cal", "times"} /\ tsc' \in Starts /\ since' \in 0 .. PERIOD - 1
      /\ UNCHANGED <<ticks, cyc_hi, cyc_lo, cyc_per_tick, oldt, newt, e, left, time,
                     wall, armed, start, own, during>>
  BY DEF FcycBegin, NextSample, counter, calib, clocks, ghosts
<1>2. tsc' \in 0 .. WRAP - 1 /\ since' \in Nat /\ since' <= PERIOD
  BY <1>1, TimingAssumption
<1>3. TimingTypes'
  BY <1>1, <1>2 DEF TimingTypes, Stages, FcycStages, CalStages
<1>4. CalInv' /\ MeasureInv' /\ ClockInv'
  BY <1>1, <1>2 DEF CalInv, MeasureInv, ClockInv, CalStages
<1> QED BY <1>1, <1>3, <1>4 DEF TickCost

(* The end of a sample *)
LEMMA EndSampleStep ==
  ASSUME TimingInv, EndSample
  PROVE  TimingInv'
<1> USE DEF TimingInv
<1>1. /\ at' \in {"cal", "times", "done"} /\ since < PERIOD
      /\ UNCHANGED <<tsc, since, ticks, cyc_hi, cyc_lo, cyc_per_tick, oldt, newt, e, left,
                     time, wall, armed, start, own, during>>
  BY DEF EndSample, NextSample, cpu, counter, calib, clocks, ghosts
<1>2. PERIOD \in Nat /\ since \in Nat
  BY TimingAssumption DEF TimingTypes
<1>3. TimingTypes'
  BY <1>1 DEF TimingTypes, Stages, FcycStages, CalStages
<1>4. CalInv' /\ MeasureInv' /\ ClockInv'
  BY <1>1, <1>2 DEF CalInv, MeasureInv, ClockInv, CalStages
<1> QED BY <1>1, <1>3, <1>4 DEF TickCost

(* ftimer_itimer and ftimer_gettod *)
LEMMA FtimerBeginStep ==
  ASSUME TimingInv, NEW itimer \in BOOLEAN, FtimerBegin(itimer)
  PROVE  TimingInv'
<1> USE DEF TimingInv
<1>1. /\ wall' \in 0 .. USEC - 1 /\ left' = RUNS /\ own' = 0
      /\ \/ at' = "itimer" /\ armed' = wall' /\ start' = 0
         \/ at' = "gettod" /\ armed' = armed /\ start' = wall'
      /\ UNCHANGED <<tsc, since, ticks, cyc_hi, cyc_lo, cyc_per_tick, oldt, newt, e, time,
                     during>>
  BY DEF FtimerBegin, cpu, counter, calib
<1>2. wall' \in Nat /\ RUNS \in Nat
  BY <1>1, TimingAssumption
<1>3. TimingTypes'
  BY <1>1, <1>2 DEF TimingTypes, Stages, FcycStages, CalStages
<1>4. CalInv' /\ MeasureInv'
  BY <1>1 DEF CalInv, MeasureInv, CalStages
<1>5. ClockInv'
  BY <1>1, <1>2 DEF ClockInv
<1> QED BY <1>1, <1>3, <1>4, <1>5 DEF TickCost

(* A run of f under ftimer.c *)
LEMMA LapStep ==
  ASSUME TimingInv, Lap
  PROVE  TimingInv'
<1> USE DEF TimingInv
<1>1. PICK d \in Laps : wall' = wall + d /\ own' = own + d
  BY DEF Lap
<1>2. /\ at \in {"itimer", "gettod"} /\ left > 0 /\ left' = left - 1
      /\ UNCHANGED <<at, tsc, since, ticks, cyc_hi, cyc_lo, cyc_per_tick, oldt, newt, e,
                     time, armed, start, during>>
  BY DEF Lap, cpu, counter, calib
<1>3. d \in Nat
  BY TimingAssumption
<1>4. TimingTypes'
  BY <1>1, <1>2, <1>3 DEF TimingTypes
<1>5. ClockInv'
  BY <1>1, <1>2, <1>3 DEF TimingTypes, ClockInv
<1>6. CalInv' /\ MeasureInv'
  BY <1>2 DEF CalInv, MeasureInv, CalStages
<1> QED BY <1>2, <1>4, <1>5, <1>6 DEF TickCost

(* The ends of a measurement under ftimer.c *)
LEMMA FtimerEndStep ==
  ASSUME TimingInv, Alarm \/ ItimerEnd \/ GettodEnd
  PROVE  TimingInv'
<1> USE DEF TimingInv
<1>1. /\ at' \in {"killed", "done"}
      /\ UNCHANGED <<tsc, since, ticks, cyc_hi, cyc_lo, cyc_per_tick, oldt, newt, e, left,
                     time, wall, armed, start, own, during>>
  BY DEF Alarm, ItimerEnd, GettodEnd, cpu, counter, calib, clocks, ghosts
<1>2. TimingTypes'
  BY <1>1 DEF TimingTypes, Stages, FcycStages, CalStages
<1>3. CalInv' /\ MeasureInv' /\ ClockInv'
  BY <1>1 DEF CalInv, MeasureInv, ClockInv, CalStages
<1> QED BY <1>1, <1>2, <1>3 DEF TickCost

(* The return from the package *)
LEMMA ReturnStep ==
  ASSUME TimingInv, TimingReturn
  PROVE  TimingInv'
<1> USE DEF TimingInv
<1>1. TimingTypes'
  <2>1. /\ HALF \in Nat /\ HALF > 0 /\ WRAP \in Nat /\ WRAP > 0 /\ NEVENT \in Nat
    BY TimingAssumption DEF WRAP
  <2> QED BY <2>1 DEF TimingReturn, TimingTypes, Stages
<1>2. CalInv' /\ MeasureInv' /\ ClockInv'
  BY DEF TimingReturn, CalInv, MeasureInv, ClockInv, CalStages
<1> QED BY <1>1, <1>2 DEF TimingReturn, TickCost

(* The initial state *)
LEMMA TimingInitInv ==
  ASSUME TimingInit
  PROVE  TimingInv
<1> USE DEF TimingInv
<1>1. TimingTypes
  <2>1. /\ HALF \in Nat /\ HALF > 0 /\ WRAP \in Nat /\ WRAP > 0 /\ NEVENT \in Nat
    BY TimingAssumption DEF WRAP
  <2> QED BY <2>1 DEF TimingInit, TimingTypes, Stages
<1>2. CalInv /\ MeasureInv /\ ClockInv
  BY DEF TimingInit, CalInv, MeasureInv, ClockInv, CalStages
<1> QED BY <1>1, <1>2 DEF TimingInit, TickCost

(* Every step of the package keeps the invariant. *)
LEMMA TimingStep ==
  ASSUME TimingInv,
         TimingNext \/ TimingReturn \/ FcycBegin \/ FtimerBegin(TRUE) \/ FtimerBegin(FALSE)
         \/ UNCHANGED tvars
  PROVE  TimingInv'
<1>1. ASSUME UNCHANGED tvars PROVE TimingInv'
  <2>1. get_counter' = get_counter
    BY <1>1, GetCounter DEF tvars
  <2>2. TimingTypes' /\ TickCost' /\ ClockInv' /\ MeasureInv'
    BY <2>1, <1>1 DEF tvars, TimingInv, TimingTypes, TickCost, ClockInv, MeasureInv
  <2>3. CalInv'
    BY <2>1, <1>1 DEF tvars, TimingInv, CalInv, Elapsed, CalLoopInv, CalTimesInv
  <2> QED BY <2>2, <2>3 DEF TimingInv
<1> QED BY <1>1, TickStep, CalBeginStep, CalStartStep, CalOldStep, CalLoopStep,
           CalTimesStep, CalEndStep, StartTicksStep, StartCounterStep, RunPieceStep,
           StopCounterStep, EndSampleStep, LapStep, FtimerEndStep, ReturnStep,
           FcycBeginStep, FtimerBeginStep DEF TimingNext

-----------------------------------------------------------------------------
(* The sampler *)

(* A nonempty set of natural numbers has a least element. *)
LEMMA Least ==
  ASSUME NEW T \in SUBSET Nat, T # {}
  PROVE  \E x \in T : \A y \in T : x <= y
<1> DEFINE Less == StrictSubsetOrdering(Nat)
           I == {0 .. n : n \in T}
<1>1. IsWellFoundedOn(Less, FiniteSubsetsOf(Nat))
  BY FS_StrictSubsetOrderingWellFounded
<1>2. I \subseteq FiniteSubsetsOf(Nat) /\ I # {}
  <2>1. ASSUME NEW n \in T PROVE 0 .. n \in FiniteSubsetsOf(Nat)
    <3>1. n \in Int /\ 0 \in Int
      OBVIOUS
    <3>2. IsFiniteSet(0 .. n)
      BY <3>1, FS_Interval
    <3> QED BY <3>2 DEF FiniteSubsetsOf
  <2> QED BY <2>1
<1>3. \A x, y \in T : y < x => <<0 .. y, 0 .. x>> \in Less
  BY DEF StrictSubsetOrdering
<1> HIDE DEF Less
<1>4. PICK m \in I : \A B \in I : ~ (<<B, m>> \in Less)
  <2> HIDE DEF I
  <2> QED BY <1>1, <1>2, WFMin
<1>5. PICK x \in T : m = 0 .. x
  OBVIOUS
<1>6. ASSUME NEW y \in T PROVE x <= y
  <2>1. 0 .. y \in I
    OBVIOUS
  <2>2. ~ (<<0 .. y, 0 .. x>> \in Less)
    BY <2>1, <1>4, <1>5
  <2>3. ~ (y < x)
    BY <2>2, <1>3
  <2> QED BY <2>3
<1> QED BY <1>6

(* Induction, for a set. *)
LEMMA Induction ==
  ASSUME NEW T \in SUBSET Nat, 0 \in T, \A n \in T : n + 1 \in T
  PROVE  T = Nat
<1> SUFFICES ASSUME Nat \ T # {} PROVE FALSE
  OBVIOUS
<1>1. PICK x \in Nat \ T : \A y \in Nat \ T : x <= y
  BY Least
<1>2. x - 1 \in Nat /\ x - 1 \notin Nat \ T
  BY <1>1
<1> QED BY <1>1, <1>2

(* The last place that changes when a sample is stored after c others, and *)
(* the values when val takes the place q.                                  *)
LastPlace(c) == IF c < kbest THEN c + 1 ELSE kbest
Put(v, val, p, q) ==
    [k \in 1 .. kbest |-> IF k < q \/ k > p THEN v[k] ELSE IF k = q THEN val ELSE v[k - 1]]

(* Where add_sample puts a sample: q of its definition. *)
Sinks(val, p, j) ==
    /\ \A k \in j .. p - 1 : values[k] > val
    /\ j > 1 => values[j - 1] <= val

(* There is such a place. *)
LEMMA Place ==
  ASSUME values \in [1 .. kbest -> Int], NEW val \in Int, NEW p \in 1 .. kbest
  PROVE  \E j \in 1 .. p : Sinks(val, p, j)
<1> DEFINE T == {j \in 1 .. p : \A k \in j .. p - 1 : values[k] > val}
<1>1. p \in T /\ T \subseteq Nat
  OBVIOUS
<1>2. PICK q \in T : \A y \in T : q <= y
  <2> HIDE DEF T
  <2> QED BY <1>1, Least
<1>3. q \in 1 .. p /\ \A k \in q .. p - 1 : values[k] > val
  OBVIOUS
<1>4. ASSUME q > 1 PROVE values[q - 1] <= val
  <2>1. q - 1 \notin T /\ q - 1 \in 1 .. p
    BY <1>2, <1>3, <1>4
  <2>2. PICK k \in q - 1 .. p - 1 : ~ (values[k] > val)
    BY <2>1
  <2>3. k = q - 1
    BY <2>2, <1>3
  <2>4. values[q - 1] \in Int
    BY <2>1, TimingAssumption
  <2> QED BY <2>2, <2>3, <2>4
<1> QED BY <1>3, <1>4 DEF Sinks

(* What add_sample returns when the sample is stored. *)
LEMMA AddSample ==
  ASSUME values \in [1 .. kbest -> Int], NEW val \in Int, samplecount \in Nat, Stored(val)
  PROVE  \E q \in 1 .. LastPlace(samplecount) :
            /\ Sinks(val, LastPlace(samplecount), q)
            /\ add_sample(val) = Put(values, val, LastPlace(samplecount), q)
<1> DEFINE p == LastPlace(samplecount)
           q == CHOOSE j \in 1 .. p :
                   /\ \A k \in j .. p - 1 : values[k] > val
                   /\ j > 1 => values[j - 1] <= val
<1>1. p \in 1 .. kbest
  BY TimingAssumption DEF LastPlace
<1>2. add_sample(val) = Put(values, val, p, q)
  BY DEF add_sample, Put, LastPlace
<1> HIDE DEF p
<1>3. q \in 1 .. p /\ Sinks(val, p, q)
  <2>1. \E j \in 1 .. p : /\ \A k \in j .. p - 1 : values[k] > val
                          /\ j > 1 => values[j - 1] <= val
    BY <1>1, Place DEF Sinks
  <2> QED BY <2>1 DEF Sinks
<1> QED BY <1>2, <1>3 DEF p

(* The number of samples that are held. *)
Held(c) == IF c < kbest THEN c ELSE kbest

(* BestKept's parts, for c samples s of which the function f tells which   *)
(* are held in v.                                                          *)
Ascending(v, c) == \A k, l \in 1 .. Held(c) : k < l => v[k] <= v[l]
Once(f, c) == \A k, l \in 1 .. Held(c) : k # l => f[k] # f[l]
Holds(f, v, s, c) == \A k \in 1 .. Held(c) : v[k] = s[f[k]]
Rest(f, s, c, v) == \A x \in 1 .. c : \/ \E k \in 1 .. Held(c) : f[k] = x
                                      \/ Held(c) = kbest /\ s[x] >= v[kbest]
Best(f, v, s, c) ==
    /\ f \in [1 .. Held(c) -> 1 .. c]
    /\ Ascending(v, c) /\ Once(f, c) /\ Holds(f, v, s, c) /\ Rest(f, s, c, v)

SampleInv ==
    /\ samplecount \in Nat /\ samples \in Seq(Int)
    /\ at \in FcycStages => values \in [1 .. kbest -> Int]
    /\ BestKept

(* BestKept, in the parts. *)
LEMMA BestParts ==
  BestKept <=> /\ samplecount = Len(samples)
               /\ \E f \in [1 .. Held(samplecount) -> 1 .. samplecount] :
                     Best(f, values, samples, samplecount)
BY DEF BestKept, Best, Held, Ascending, Once, Holds, Rest

(* What an insertion at q does to the places k of 1 .. p: w and g are as v  *)
(* and f were before q, and lag one behind after it.                       *)
Inserted(n, c, p, q, v, f, val, w, g) ==
    \A k \in 1 .. p :
        /\ k < q => k \in 1 .. n /\ g[k] = f[k] /\ w[k] = v[k]
        /\ k = q => g[k] = c + 1 /\ w[k] = val
        /\ k > q => k - 1 \in 1 .. n /\ g[k] = f[k - 1] /\ w[k] = v[k - 1]

(* Conditions on the first n places. *)
Numbers(v, n)  == \A k \in 1 .. n : v[k] \in Int
Sorted(v, n)   == \A k, l \in 1 .. n : k < l => v[k] <= v[l]
Into(f, n, c)  == \A k \in 1 .. n : f[k] \in 1 .. c
Distinct(f, n) == \A k, l \in 1 .. n : k # l => f[k] # f[l]
Names(f, n, v, s) == \A k \in 1 .. n : v[k] = s[f[k]]
SinksIn(v, val, p, q) == (\A k \in q .. p - 1 : v[k] > val) /\ (q > 1 => v[q - 1] <= val)
Longer(t, s, c, val) == t[c + 1] = val /\ \A x \in 1 .. c : t[x] = s[x]

(* What was in order is in order after it. *)
LEMMA InsertAscending ==
  ASSUME NEW n \in Nat, NEW c \in Nat, NEW p \in Nat, NEW q \in 1 .. p, NEW val \in Int,
         NEW v, NEW f, NEW w, NEW g, Inserted(n, c, p, q, v, f, val, w, g),
         Numbers(v, n), Sorted(v, n), SinksIn(v, val, p, q)
  PROVE  Sorted(w, p)
<1> SUFFICES ASSUME NEW k \in 1 .. p, NEW l \in 1 .. p, k < l
             PROVE  w[k] <= w[l]
  BY DEF Sorted
<1> USE DEF Numbers, Sorted, SinksIn
<1>1. CASE l < q
  <2>1. w[k] = v[k] /\ w[l] = v[l] /\ k \in 1 .. n /\ l \in 1 .. n
    BY <1>1 DEF Inserted
  <2> QED BY <2>1
<1>2. CASE l = q
  <2>1. w[l] = val /\ w[k] = v[k] /\ k \in 1 .. n
    BY <1>2 DEF Inserted
  <2>2. q - 1 \in 1 .. p /\ q - 1 < q
    BY <1>2
  <2>3. q - 1 \in 1 .. n /\ v[q - 1] <= val
    BY <2>2 DEF Inserted
  <2>4. v[k] <= v[q - 1]
    <3>1. CASE k = q - 1
      BY <3>1, <2>1
    <3>2. CASE k < q - 1
      BY <3>2, <2>1, <2>3
    <3> QED BY <3>1, <3>2, <1>2
  <2> QED BY <2>1, <2>3, <2>4
<1>3. CASE l > q
  <2>1. w[l] = v[l - 1] /\ l - 1 \in 1 .. n /\ l - 1 \in q .. p - 1
    BY <1>3 DEF Inserted
  <2>2. v[l - 1] > val
    BY <2>1
  <2>3. CASE k < q
    <3>1. w[k] = v[k] /\ k \in 1 .. n /\ k < l - 1
      BY <1>3, <2>3 DEF Inserted
    <3> QED BY <3>1, <2>1
  <2>4. CASE k = q
    <3>1. w[k] = val
      BY <2>4 DEF Inserted
    <3> QED BY <3>1, <2>1, <2>2
  <2>5. CASE k > q
    <3>1. w[k] = v[k - 1] /\ k - 1 \in 1 .. n /\ k - 1 < l - 1
      BY <2>5 DEF Inserted
    <3> QED BY <3>1, <2>1
  <2> QED BY <2>3, <2>4, <2>5
<1> QED BY <1>1, <1>2, <1>3

(* No sample is held twice. *)
LEMMA InsertOnce ==
  ASSUME NEW n \in Nat, NEW c \in Nat, NEW p \in Nat, NEW q \in 1 .. p, NEW val,
         NEW v, NEW f, NEW w, NEW g, Inserted(n, c, p, q, v, f, val, w, g),
         Into(f, n, c), Distinct(f, n)
  PROVE  Into(g, p, c + 1) /\ Distinct(g, p)
<1> USE DEF Into, Distinct
<1>1. ASSUME NEW k \in 1 .. p PROVE g[k] \in 1 .. c + 1
  <2>1. CASE k < q
    <3>1. k \in 1 .. n /\ g[k] = f[k]
      BY <2>1 DEF Inserted
    <3> QED BY <3>1
  <2>2. CASE k = q
    <3>1. g[k] = c + 1
      BY <2>2 DEF Inserted
    <3> QED BY <3>1
  <2>3. CASE k > q
    <3>1. k - 1 \in 1 .. n /\ g[k] = f[k - 1]
      BY <2>3 DEF Inserted
    <3> QED BY <3>1
  <2> QED BY <2>1, <2>2, <2>3
<1>2. ASSUME NEW k \in 1 .. p, NEW l \in 1 .. p, k < l
      PROVE  g[k] # g[l]
  <2>1. CASE l < q
    <3>1. k \in 1 .. n /\ l \in 1 .. n /\ g[k] = f[k] /\ g[l] = f[l]
      BY <1>2, <2>1 DEF Inserted
    <3> QED BY <3>1, <1>2
  <2>2. CASE l = q
    <3>1. k \in 1 .. n /\ g[k] = f[k] /\ g[l] = c + 1
      BY <1>2, <2>2 DEF Inserted
    <3> QED BY <3>1
  <2>3. CASE l > q /\ k < q
    <3>1. g[k] = f[k] /\ g[l] = f[l - 1] /\ k \in 1 .. n /\ l - 1 \in 1 .. n /\ k # l - 1
      BY <2>3 DEF Inserted
    <3> QED BY <3>1
  <2>4. CASE l > q /\ k = q
    <3>1. g[k] = c + 1 /\ g[l] = f[l - 1] /\ l - 1 \in 1 .. n
      BY <2>4 DEF Inserted
    <3> QED BY <3>1
  <2>5. CASE l > q /\ k > q
    <3>1. /\ g[k] = f[k - 1] /\ g[l] = f[l - 1] /\ k - 1 \in 1 .. n /\ l - 1 \in 1 .. n
          /\ k - 1 # l - 1
      BY <1>2, <2>5 DEF Inserted
    <3> QED BY <3>1
  <2> QED BY <2>1, <2>2, <2>3, <2>4, <2>5
<1>3. ASSUME NEW k \in 1 .. p, NEW l \in 1 .. p, k # l
      PROVE  g[k] # g[l]
  BY <1>2, <1>3
<1> QED BY <1>1, <1>3

(* Each place keeps the sample it names. *)
LEMMA InsertHolds ==
  ASSUME NEW n \in Nat, NEW c \in Nat, NEW p \in Nat, NEW q \in 1 .. p, NEW val,
         NEW v, NEW f, NEW w, NEW g, Inserted(n, c, p, q, v, f, val, w, g),
         NEW s, NEW t, Longer(t, s, c, val), Into(f, n, c), Names(f, n, v, s)
  PROVE  Names(g, p, w, t)
<1> SUFFICES ASSUME NEW k \in 1 .. p PROVE w[k] = t[g[k]]
  BY DEF Names
<1> USE DEF Longer, Into, Names
<1>1. CASE k < q
  <2>1. k \in 1 .. n /\ g[k] = f[k] /\ w[k] = v[k]
    BY <1>1 DEF Inserted
  <2> QED BY <2>1
<1>2. CASE k = q
  <2>1. g[k] = c + 1 /\ w[k] = val
    BY <1>2 DEF Inserted
  <2> QED BY <2>1
<1>3. CASE k > q
  <2>1. k - 1 \in 1 .. n /\ g[k] = f[k - 1] /\ w[k] = v[k - 1]
    BY <1>3 DEF Inserted
  <2> QED BY <2>1
<1> QED BY <1>1, <1>2, <1>3

(* Whatever was held, but for the last place when p is n, still is. *)
LEMMA InsertKeeps ==
  ASSUME NEW n \in Nat, NEW c \in Nat, NEW p \in Nat, NEW q \in 1 .. p, NEW val,
         NEW v, NEW f, NEW w, NEW g, Inserted(n, c, p, q, v, f, val, w, g)
  PROVE  \A k \in 1 .. n : k < p => \E l \in 1 .. p : g[l] = f[k]
<1> SUFFICES ASSUME NEW k \in 1 .. n, k < p PROVE \E l \in 1 .. p : g[l] = f[k]
  OBVIOUS
<1>1. CASE k < q
  BY <1>1 DEF Inserted
<1>2. CASE k >= q
  <2>1. k + 1 \in 1 .. p /\ k + 1 > q /\ (k + 1) - 1 = k
    BY <1>2
  <2>2. g[k + 1] = f[k]
    BY <2>1 DEF Inserted
  <2> QED BY <2>1, <2>2
<1> QED BY <1>1, <1>2

(* A sample that is stored takes the place q and moves those behind it,    *)
(* the last of kbest away.                                                 *)
LEMMA SampleStored ==
  ASSUME kbest \in Nat \ {0},
         NEW v \in [1 .. kbest -> Int], NEW c \in Nat, NEW s, \A x \in 1 .. c : s[x] \in Int,
         NEW val \in Int, NEW f, Best(f, v, s, c),
         c < kbest \/ val < v[kbest],
         NEW q \in 1 .. LastPlace(c), SinksIn(v, val, LastPlace(c), q),
         NEW t, Longer(t, s, c, val)
  PROVE  /\ Put(v, val, LastPlace(c), q) \in [1 .. kbest -> Int]
         /\ \E g : Best(g, Put(v, val, LastPlace(c), q), t, c + 1)
<1> DEFINE n == Held(c)
           p == LastPlace(c)
           w == Put(v, val, p, q)
           g == [k \in 1 .. p |-> IF k < q THEN f[k] ELSE IF k = q THEN c + 1 ELSE f[k - 1]]
<1>1. /\ p = Held(c + 1) /\ p \in Nat /\ p \in 1 .. kbest /\ n \in Nat /\ n <= kbest /\ n <= c
      /\ (p = n + 1 \/ (p = n /\ n = kbest)) /\ (n < kbest => n = c /\ p = n + 1)
      /\ q \in 1 .. p /\ (c >= kbest => p = n)
  BY DEF Held, LastPlace
<1>2. /\ f \in [1 .. n -> 1 .. c] /\ \A k \in 1 .. n : v[k] = s[f[k]]
      /\ \A k, l \in 1 .. n : k < l => v[k] <= v[l]
      /\ \A k, l \in 1 .. n : k # l => f[k] # f[l]
      /\ \A x \in 1 .. c : \/ \E k \in 1 .. n : f[k] = x
                           \/ n = kbest /\ s[x] >= v[kbest]
  BY DEF Best, Ascending, Once, Holds, Rest
<1> HIDE DEF n, p
<1>3. w \in [1 .. kbest -> Int]
  <2>1. ASSUME NEW k \in 1 .. kbest, k > q PROVE v[k - 1] \in Int
    <3>1. k - 1 \in 1 .. kbest
      BY <2>1, <1>1
    <3> QED BY <3>1
  <2> QED BY <2>1, <1>1 DEF Put
<1>4. Inserted(n, c, p, q, v, f, val, w, g)
  BY <1>1 DEF Inserted, Put
<1> HIDE DEF w
<1>5. Numbers(v, n) /\ Sorted(v, n) /\ Into(f, n, c) /\ Distinct(f, n) /\ Names(f, n, v, s)
  BY <1>1, <1>2 DEF Numbers, Sorted, Into, Distinct, Names
<1>6. Into(g, p, c + 1) /\ Distinct(g, p)
  <2> HIDE DEF g
  <2> QED BY <1>1, <1>4, <1>5, InsertOnce
<1>7. g \in [1 .. p -> 1 .. c + 1]
  BY <1>6 DEF Into
<1> HIDE DEF g
<1>8. Sorted(w, p)
  BY <1>1, <1>4, <1>5, InsertAscending DEF p
<1>9. Names(g, p, w, t)
  BY <1>1, <1>4, <1>5, InsertHolds
<1>10. \A x \in 1 .. c : t[x] = s[x]
  BY DEF Longer
<1>11. p = n => w[kbest] <= v[kbest]
  <2> SUFFICES ASSUME p = n PROVE w[kbest] <= v[kbest]
    OBVIOUS
  <2>1. p = kbest /\ n = kbest /\ ~ (c < kbest) /\ val < v[kbest]
    BY <1>1
  <2>2. v[kbest] \in Int /\ kbest \in 1 .. p
    BY <2>1, <1>1
  <2>3. CASE q = kbest
    BY <2>1, <2>2, <2>3, <1>4 DEF Inserted
  <2>4. CASE q < kbest
    <3>1. kbest - 1 \in 1 .. n /\ w[kbest] = v[kbest - 1]
      BY <2>1, <2>2, <2>4, <1>4 DEF Inserted
    <3> QED BY <3>1, <2>1, <2>2, <1>2
  <2> QED BY <2>1, <2>3, <2>4, <1>1
<1>12. ASSUME NEW x \in 1 .. c + 1
       PROVE  (\E k \in 1 .. p : g[k] = x) \/ (p = kbest /\ t[x] >= w[kbest])
  <2>1. CASE x = c + 1
    BY <2>1, <1>1, <1>4 DEF Inserted
  <2>2. CASE x \in 1 .. c /\ \E k \in 1 .. n : f[k] = x /\ k < p
    <3>1. PICK k \in 1 .. n : f[k] = x /\ k < p
      BY <2>2
    <3>2. \A y \in 1 .. n : y < p => \E l \in 1 .. p : g[l] = f[y]
      BY <1>1, <1>4, InsertKeeps
    <3> QED BY <3>1, <3>2
  <2>3. CASE x \in 1 .. c /\ \E k \in 1 .. n : f[k] = x /\ k >= p
    <3>1. PICK k \in 1 .. n : f[k] = x /\ k >= p
      BY <2>3
    <3>2. k = kbest /\ p = n /\ p = kbest
      BY <3>1, <1>1
    <3>3. t[x] = v[kbest] /\ t[x] \in Int /\ w[kbest] \in Int
      BY <3>1, <3>2, <2>3, <1>2, <1>3, <1>10
    <3> QED BY <3>2, <3>3, <1>11
  <2>4. CASE x \in 1 .. c /\ n = kbest /\ s[x] >= v[kbest]
    <3>1. p = n /\ p = kbest
      BY <2>4, <1>1
    <3>2. t[x] = s[x] /\ s[x] \in Int /\ w[kbest] \in Int /\ v[kbest] \in Int
      BY <2>4, <1>3, <1>10
    <3> QED BY <2>4, <3>1, <3>2, <1>11
  <2>5. x \in 1 .. c => (\E k \in 1 .. n : f[k] = x) \/ (n = kbest /\ s[x] >= v[kbest])
    BY <1>2
  <2>6. \A k \in 1 .. n : k < p \/ k >= p
    BY <1>1
  <2> QED BY <2>1, <2>2, <2>3, <2>4, <2>5, <2>6
<1>13. Best(g, w, t, c + 1)
  BY <1>1, <1>6, <1>7, <1>8, <1>9, <1>12
     DEF Best, Ascending, Once, Holds, Rest, Sorted, Distinct, Names
<1> QED BY <1>3, <1>13 DEF w, p

(* A sample more, stored or not. *)
LEMMA SampleTaken ==
  ASSUME SampleInv, at \in FcycStages, NEW val \in Int
  PROVE  /\ add_sample(val) \in [1 .. kbest -> Int]
         /\ LET t == SubSeq(samples, 1, samplecount) \o <<val>>
            IN  /\ t \in Seq(Int) /\ Len(t) = samplecount + 1
                /\ \E g : Best(g, add_sample(val), t, samplecount + 1)
<1> DEFINE c == samplecount
           t == SubSeq(samples, 1, c) \o <<val>>
<1>1. /\ kbest \in Nat \ {0} /\ values \in [1 .. kbest -> Int] /\ c \in Nat
      /\ samples \in Seq(Int) /\ Len(samples) = c
  BY TimingAssumption, BestParts DEF SampleInv
<1>2. PICK f : Best(f, values, samples, c)
  BY BestParts DEF SampleInv
<1>3. /\ t \in Seq(Int) /\ Len(t) = c + 1 /\ Longer(t, samples, c, val)
  <2>1. SubSeq(samples, 1, c) = samples
    BY <1>1
  <2>2. t = samples \o <<val>>
    BY <2>1
  <2> HIDE DEF t, c
  <2> QED BY <2>2, <1>1 DEF Longer
<1>4. \A x \in 1 .. c : samples[x] \in Int
  BY <1>1
<1> HIDE DEF c, t
<1>5. CASE Stored(val)
  <2>1. c < kbest \/ val < values[kbest]
    BY <1>5 DEF Stored, c
  <2>2. PICK q \in 1 .. LastPlace(c) :
           Sinks(val, LastPlace(c), q) /\ add_sample(val) = Put(values, val, LastPlace(c), q)
    BY <1>1, <1>5, AddSample DEF c
  <2>3. SinksIn(values, val, LastPlace(c), q)
    BY <2>2 DEF Sinks, SinksIn
  <2>4. /\ Put(values, val, LastPlace(c), q) \in [1 .. kbest -> Int]
        /\ \E g : Best(g, Put(values, val, LastPlace(c), q), t, c + 1)
    BY <1>1, <1>2, <1>3, <1>4, <2>1, <2>3, SampleStored
  <2> QED BY <2>2, <2>4, <1>3 DEF c, t
<1>6. CASE ~Stored(val)
  <2>1. c >= kbest /\ val >= values[kbest] /\ values[kbest] \in Int
    BY <1>1, <1>6 DEF Stored, c
  <2>2. add_sample(val) = values
    BY <1>6 DEF add_sample
  <2>3. Held(c) = kbest /\ Held(c + 1) = kbest
    BY <2>1, <1>1 DEF Held
  <2>4. Best(f, values, t, c + 1)
    <3>1. t[c + 1] = val /\ \A x \in 1 .. c : t[x] = samples[x]
      BY <1>3 DEF Longer
    <3>2. f \in [1 .. kbest -> 1 .. c + 1] /\ \A k \in 1 .. kbest : f[k] \in 1 .. c
      BY <1>1, <1>2, <2>3 DEF Best
    <3>3. Ascending(values, c + 1) /\ Once(f, c + 1)
      BY <1>2, <2>3 DEF Best, Ascending, Once
    <3>4. Holds(f, values, t, c + 1)
      BY <1>2, <2>3, <3>1, <3>2 DEF Best, Holds
    <3>5. Rest(f, t, c + 1, values)
      <4> SUFFICES ASSUME NEW x \in 1 .. c + 1
                   PROVE  (\E k \in 1 .. kbest : f[k] = x) \/ t[x] >= values[kbest]
        BY <2>3 DEF Rest
      <4>1. CASE x = c + 1
        BY <4>1, <2>1, <3>1
      <4>2. CASE x \in 1 .. c
        BY <4>2, <1>2, <2>3, <3>1 DEF Best, Rest
      <4> QED BY <4>1, <4>2, <1>1
    <3> QED BY <2>3, <3>2, <3>3, <3>4, <3>5 DEF Best
  <2> QED BY <2>2, <2>4, <1>1, <1>3 DEF c, t
<1> QED BY <1>5, <1>6

(* No samples yet, or no more. *)
LEMMA NoSample ==
  ASSUME NEW v
  PROVE  Len(<<>>) = 0 /\ \E f \in [1 .. Held(0) -> 1 .. 0] : Best(f, v, <<>>, 0)
<1>1. Held(0) = 0
  BY TimingAssumption DEF Held
<1> DEFINE f == [k \in 1 .. 0 |-> 0]
<1>2. f \in [1 .. 0 -> 1 .. 0]
  OBVIOUS
<1> HIDE DEF f
<1>3. Best(f, v, <<>>, 0)
  BY <1>1, <1>2 DEF Best, Ascending, Once, Holds, Rest
<1> QED BY <1>1, <1>2, <1>3

(* Every step of the package, and StartSpeed, keeps BestKept.              *)
LEMMA SampleStep ==
  ASSUME TimingInv, SampleInv,
         TimingNext \/ TimingReturn \/ FcycBegin \/ FtimerBegin(TRUE) \/ FtimerBegin(FALSE)
         \/ UNCHANGED tvars
  PROVE  SampleInv'
<1>1. CASE FcycBegin
  <2>1. samplecount' = 0 /\ samples' = <<>> /\ values' \in [1 .. kbest -> Int]
    BY <1>1 DEF FcycBegin
  <2>2. BestKept'
    BY <2>1, NoSample DEF BestKept, Best, Held, Ascending, Once, Holds, Rest
  <2> QED BY <2>1, <2>2 DEF SampleInv
<1>2. CASE TimingReturn
  <2>1. samplecount' = 0 /\ samples' = <<>> /\ at' = "off"
    BY <1>2 DEF TimingReturn
  <2>2. BestKept'
    BY <2>1, NoSample DEF BestKept, Best, Held, Ascending, Once, Holds, Rest
  <2> QED BY <2>1, <2>2 DEF SampleInv, FcycStages, CalStages
<1>3. CASE EndSample
  <2> DEFINE val == time - ticks * cyc_per_tick
             t == SubSeq(samples, 1, samplecount) \o <<val>>
  <2>1. /\ values' = add_sample(val) /\ samples' = t /\ samplecount' = samplecount + 1
        /\ at = "stop"
    BY <1>3 DEF EndSample
  <2>2. val \in Int
    BY DEF TimingInv, TimingTypes
  <2> HIDE DEF val
  <2>3. /\ add_sample(val) \in [1 .. kbest -> Int]
        /\ t \in Seq(Int) /\ Len(t) = samplecount + 1
        /\ \E g : Best(g, add_sample(val), t, samplecount + 1)
    BY <2>1, <2>2, SampleTaken DEF FcycStages
  <2> HIDE DEF t
  <2>4. \E g \in [1 .. Held(samplecount') -> 1 .. samplecount'] :
           Best(g, values', samples', samplecount')
    BY <2>1, <2>3 DEF Best
  <2>5. BestKept'
    <3>1. samplecount' = Len(samples')
      BY <2>1, <2>3
    <3> QED BY <3>1, <2>4, BestParts DEF BestKept, Best, Held, Ascending, Once, Holds, Rest
  <2> QED BY <2>1, <2>3, <2>5 DEF SampleInv
<1>4. CASE UNCHANGED sampler /\ (at' \in FcycStages => at \in FcycStages)
  <2>1. BestKept' <=> BestKept
    BY <1>4 DEF sampler, BestKept
  <2> QED BY <2>1, <1>4 DEF SampleInv, sampler
<1>5. CASE UNCHANGED tvars
  BY <1>4, <1>5 DEF tvars, sampler
<1>6. CASE FtimerBegin(TRUE) \/ FtimerBegin(FALSE)
  BY <1>4, <1>6 DEF FtimerBegin, FcycStages, CalStages
<1>7. CASE Tick
  BY <1>4, <1>7 DEF Tick
<1>8. CASE CalBegin \/ CalStart \/ CalOld \/ CalLoop \/ CalTimes \/ CalEnd
  BY <1>4, <1>8 DEF CalBegin, CalStart, CalOld, CalLoop, CalTimes, CalEnd, FcycStages, CalStages
<1>9. CASE StartTicks \/ StartCounter \/ RunPiece \/ StopCounter
  BY <1>4, <1>9 DEF StartTicks, StartCounter, RunPiece, StopCounter, FcycStages, CalStages
<1>10. CASE Lap \/ Alarm \/ ItimerEnd \/ GettodEnd
  BY <1>4, <1>10 DEF Lap, Alarm, ItimerEnd, GettodEnd, FcycStages, CalStages
<1> QED BY <1>1, <1>2, <1>3, <1>5, <1>6, <1>7, <1>8, <1>9, <1>10 DEF TimingNext

(* The initial state *)
LEMMA SampleInit ==
  ASSUME TimingInit
  PROVE  SampleInv
<1>1. samplecount = 0 /\ samples = <<>> /\ at = "off"
  BY DEF TimingInit
<1>2. BestKept
  BY <1>1, NoSample DEF BestKept, Best, Held, Ascending, Once, Holds, Rest
<1> QED BY <1>1, <1>2 DEF SampleInv, FcycStages, CalStages

(* A compensated sample: what is taken off for the ticks in f leaves at    *)
(* least the cycles of f less the excess; two more ticks may be taken off. *)
LEMMA Compensated ==
  ASSUME TimingInv
  PROVE  CompensationBounds
<1>1. /\ TICK \in Nat /\ THRESHOLD \in Nat /\ cyc_per_tick \in Nat /\ own \in Nat
      /\ during \in Nat /\ ticks \in Nat
  BY TimingAssumption DEF TimingInv, TimingTypes
<1>2. cyc_per_tick = 0 \/ (TICK <= cyc_per_tick /\ cyc_per_tick <= TICK + THRESHOLD)
  BY DEF TimingInv, TickCost
<1>3. ASSUME at = "stop", cyc_per_tick > 0
      PROVE  LET excess == cyc_per_tick - TICK
                 ctime == time - ticks * cyc_per_tick
             IN  own - during * excess - 2 * cyc_per_tick <= ctime /\ ctime <= own
  <2> DEFINE x == ticks - during
  <2>1. time = own + during * TICK /\ x \in 0 .. 2
    BY <1>1, <1>3 DEF TimingInv, MeasureInv
  <2>2. ticks * cyc_per_tick = during * cyc_per_tick + x * cyc_per_tick
    <3>1. ticks = during + x
      BY <1>1
    <3> HIDE DEF x
    <3> QED BY <3>1, <2>1, <1>1
  <2> HIDE DEF x
  <2>3. during * (cyc_per_tick - TICK) = during * cyc_per_tick - during * TICK
    BY <1>1
  <2>4. x * cyc_per_tick >= 0 /\ x * cyc_per_tick <= 2 * cyc_per_tick
    BY <2>1, <1>1
  <2>5. during * (cyc_per_tick - TICK) >= 0
    BY <1>1, <1>2, <1>3
  <2>6. during * cyc_per_tick \in Int /\ during * TICK \in Int /\ x * cyc_per_tick \in Int
    BY <2>1, <1>1
  <2> QED BY <2>1, <2>2, <2>3, <2>4, <2>5, <2>6, <1>1
<1>4. cyc_per_tick = 0 \/ (0 <= cyc_per_tick - TICK /\ cyc_per_tick - TICK <= THRESHOLD)
  BY <1>1, <1>2
<1> QED BY <1>3, <1>4 DEF CompensationBounds

(* The interval timer counts down, the clock up, and both in two words:    *)
(* the differences are the time that passed.                               *)
LEMMA ClockParts ==
  ASSUME NEW t \in Int
  PROVE  USEC * Clock(t).sec + Clock(t).usec = t /\ Clock(t).sec \in Int /\ Clock(t).usec \in Int
<1> DEFINE q == t \div USEC
           r == t % USEC
<1>0. USEC \in Nat /\ USEC > 0
  BY TimingAssumption
<1>1. q \in Int /\ r \in Int /\ t = q * USEC + r
  BY <1>0
<1>2. Clock(t).sec = q /\ Clock(t).usec = r
  BY DEF Clock
<1> HIDE DEF q, r
<1>3. USEC * q = q * USEC
  BY <1>1, TimingAssumption
<1> QED BY <1>1, <1>2, <1>3

(* What ftimer_itimer and ftimer_gettod return. *)
LEMMA FtimerExact ==
  ASSUME TimingInv
  PROVE  /\ ItimerEnd => secs' = own
         /\ GettodEnd => secs' = own
<1>1. /\ MAX_ETIME \in Nat /\ USEC \in Nat /\ wall \in Nat /\ armed \in Nat /\ start \in Nat
      /\ own \in Nat
  BY TimingAssumption DEF TimingInv, TimingTypes
<1>2. ASSUME ItimerEnd PROVE secs' = own
  <2> DEFINE t == MAX_ETIME * USEC - (wall - armed)
             s == Clock(t).sec
             u == Clock(t).usec
  <2>1. start = 0 /\ own = wall - armed
    BY <1>2 DEF ItimerEnd, TimingInv, ClockInv
  <2>2. t \in Int /\ MAX_ETIME * USEC \in Int
    BY <1>1
  <2>3. USEC * s + u = t /\ s \in Int /\ u \in Int
    <3> HIDE DEF t
    <3> QED BY <2>2, ClockParts
  <2>4. secs' = USEC * (MAX_ETIME - s) + (0 - u) - start
    <3>1. TimerLeft = Clock(t)
      BY DEF TimerLeft
    <3>2. TimerLeft.sec = s /\ TimerLeft.usec = u
      BY <3>1
    <3>3. get_etime = USEC * (MAX_ETIME - s) + (0 - u)
      BY <3>2 DEF get_etime
    <3>4. secs' = get_etime - start
      BY <1>2 DEF ItimerEnd
    <3> HIDE DEF s, u, t
    <3> QED BY <3>3, <3>4, <2>3, <1>1
  <2> HIDE DEF s, u
  <2>5. USEC * (MAX_ETIME - s) = MAX_ETIME * USEC - USEC * s /\ USEC * s \in Int
    BY <2>3, <1>1
  <2> QED BY <2>4, <2>1, <2>2, <2>3, <2>5, <1>1
<1>3. ASSUME GettodEnd PROVE secs' = own
  <2> DEFINE s == Clock(start).sec
             u == Clock(start).usec
             s2 == Clock(wall).sec
             u2 == Clock(wall).usec
  <2>1. secs' = USEC * (s2 - s) + (u2 - u)
    BY <1>3 DEF GettodEnd, GettodDiff
  <2>2. own = wall - start
    BY <1>3 DEF GettodEnd, TimingInv, ClockInv
  <2>3. USEC * s + u = start /\ s \in Int /\ u \in Int /\ USEC * s2 + u2 = wall /\ s2 \in Int /\ u2 \in Int
    BY <1>1, ClockParts
  <2> HIDE DEF s, u, s2, u2
  <2>4. USEC * (s2 - s) = USEC * s2 - USEC * s /\ USEC * s \in Int /\ USEC * s2 \in Int
    BY <2>3, <1>1
  <2> QED BY <2>1, <2>2, <2>3, <2>4, <1>1
<1> QED BY <1>2, <1>3

(* The result is a number. *)
LEMMA SecsStep ==
  ASSUME TimingInv, SampleInv, secs \in Int,
         TimingNext \/ TimingReturn \/ FcycBegin \/ FtimerBegin(TRUE) \/ FtimerBegin(FALSE)
         \/ UNCHANGED tvars
  PROVE  secs' \in Int
<1>1. CASE EndSample
  <2> DEFINE val == time - ticks * cyc_per_tick
  <2>1. values' = add_sample(val) /\ (secs' = secs \/ secs' = values'[1]) /\ at = "stop"
    BY <1>1 DEF EndSample
  <2>2. val \in Int
    BY DEF TimingInv, TimingTypes
  <2> HIDE DEF val
  <2>3. add_sample(val) \in [1 .. kbest -> Int]
    BY <2>1, <2>2, SampleTaken DEF FcycStages
  <2>4. 1 \in 1 .. kbest
    BY TimingAssumption
  <2> QED BY <2>1, <2>3, <2>4
<1>2. CASE ItimerEnd \/ GettodEnd
  BY <1>2, FtimerExact DEF TimingInv, TimingTypes
<1>3. CASE UNCHANGED secs
  BY <1>3
<1>4. CASE TimingReturn
  BY <1>4 DEF TimingReturn
<1>5. CASE FcycBegin \/ FtimerBegin(TRUE) \/ FtimerBegin(FALSE) \/ UNCHANGED tvars
  BY <1>3, <1>5 DEF FcycBegin, FtimerBegin, tvars
<1>6. CASE Tick \/ CalBegin \/ CalStart \/ CalOld \/ CalLoop \/ CalTimes \/ CalEnd
  BY <1>3, <1>6 DEF Tick, CalBegin, CalStart, CalOld, CalLoop, CalTimes, CalEnd
<1>7. CASE StartTicks \/ StartCounter \/ RunPiece \/ StopCounter \/ Lap \/ Alarm
  BY <1>3, <1>7 DEF StartTicks, StartCounter, RunPiece, StopCounter, Lap, Alarm
<1> QED BY <1>1, <1>2, <1>4, <1>5, <1>6, <1>7 DEF TimingNext

-----------------------------------------------------------------------------
(* The driver *)

(* The stages belong to the package that config.h switches on, and what    *)
(* ftimer.c returns is exact.                                              *)
PackageInv ==
    /\ at \in FcycStages => package = "fcyc"
    /\ at \in {"itimer", "killed"} => package = "itimer"
    /\ at = "gettod" => package = "gettod"
    /\ at = "done" /\ package # "fcyc" => secs = own

MeasurementInv == TimingInv /\ SampleInv /\ secs \in Int /\ PackageInv

(* A step of the driver leaves the package alone or is one of its steps.   *)
TimingPart ==
    /\ package' = package
    /\ \/ UNCHANGED tvars \/ TimingNext \/ TimingReturn
       \/ FcycBegin /\ package = "fcyc"
       \/ FtimerBegin(TRUE) /\ package = "itimer"
       \/ FtimerBegin(FALSE) /\ package = "gettod"

(* The packages there are. *)
Known == package \in {"fcyc", "itimer", "gettod"}

(* What a step of the driver does to the state of the timing package. *)
LEMMA StepTiming ==
  ASSUME Known, [Next]_vars
  PROVE  TimingPart /\ Known'
<1>1. CASE StartSpeed
  <2>1. package' = package
    BY <1>1 DEF StartSpeed, Goto, options
  <2>2. CASE package = "fcyc"
    <3>1. FcycBegin
      BY <1>1, <2>2 DEF StartSpeed
    <3> QED BY <2>1, <2>2, <3>1 DEF TimingPart, Known
  <2>3. CASE package = "itimer"
    <3>1. FtimerBegin(TRUE)
      BY <1>1, <2>3 DEF StartSpeed
    <3> QED BY <2>1, <2>3, <3>1 DEF TimingPart, Known
  <2>4. CASE package = "gettod"
    <3>1. FtimerBegin(FALSE)
      BY <1>1, <2>4 DEF StartSpeed
    <3> QED BY <2>1, <2>4, <3>1 DEF TimingPart, Known
  <2> QED BY <2>2, <2>3, <2>4 DEF Known
<1>2. CASE Speed
  BY <1>2 DEF Speed, mvars, TimingPart, Known
<1>3. CASE SpeedDone
  BY <1>3 DEF SpeedDone, Goto, options, TimingPart, Known
<1>4. CASE Make \/ Load
  BY <1>4 DEF Make, Load, mvars, TimingPart, Known
<1>5. CASE StartMain \/ OpenNext \/ Loaded \/ LoadFails \/ Valid \/ MmInvalid \/ LibcInvalid
  BY <1>5 DEF StartMain, OpenNext, Loaded, LoadFails, Valid, MmInvalid, LibcInvalid,
              Exit, Goto, options, TimingPart, Known
<1>6. CASE Util \/ SpeedFails \/ FreeTrace \/ Report
  BY <1>6 DEF Util, SpeedFails, FreeTrace, Report, Exit, Goto, options, TimingPart, Known
<1>7. CASE UNCHANGED vars
  BY <1>7 DEF vars, mvars, TimingPart, Known
<1> QED BY <1>1, <1>2, <1>3, <1>4, <1>5, <1>6, <1>7 DEF Next, MainNext

(* The package's invariant, and the one of its samples, go through main's  *)
(* steps too.                                                              *)
LEMMA MeasurementStep ==
  ASSUME MeasurementInv, TimingPart
  PROVE  MeasurementInv'
<1>1. TimingInv' /\ SampleInv' /\ secs' \in Int
  BY TimingStep, SampleStep, SecsStep DEF MeasurementInv, TimingPart
<1>2. PackageInv'
  <2> USE DEF MeasurementInv, PackageInv, TimingPart, FcycStages, CalStages
  <2>1. CASE UNCHANGED tvars
    BY <2>1 DEF tvars
  <2>2. CASE TimingReturn
    BY <2>2 DEF TimingReturn
  <2>3. CASE FcycBegin /\ package = "fcyc"
    BY <2>3 DEF FcycBegin, NextSample
  <2>4. CASE FtimerBegin(TRUE) /\ package = "itimer"
    BY <2>4 DEF FtimerBegin
  <2>5. CASE FtimerBegin(FALSE) /\ package = "gettod"
    BY <2>5 DEF FtimerBegin
  <2>6. CASE Tick
    BY <2>6 DEF Tick, Ticking
  <2>7. CASE CalBegin \/ CalStart \/ CalOld \/ CalLoop \/ CalTimes \/ CalEnd
    BY <2>7 DEF CalBegin, CalStart, CalOld, CalLoop, CalTimes, CalEnd
  <2>8. CASE StartTicks \/ StartCounter \/ RunPiece \/ StopCounter \/ EndSample
    BY <2>8 DEF StartTicks, StartCounter, RunPiece, StopCounter, EndSample, NextSample
  <2>9. CASE Lap \/ Alarm
    BY <2>9 DEF Lap, Alarm
  <2>10. CASE ItimerEnd \/ GettodEnd
    <3>1. secs' = own
      BY <2>10, FtimerExact
    <3> QED BY <3>1, <2>10 DEF ItimerEnd, GettodEnd, ghosts
  <2> QED BY <2>1, <2>2, <2>3, <2>4, <2>5, <2>6, <2>7, <2>8, <2>9, <2>10 DEF TimingNext
<1> QED BY <1>1, <1>2 DEF MeasurementInv

(* They hold at first. *)
LEMMA MeasurementInit ==
  ASSUME Init
  PROVE  MeasurementInv /\ Known
<1>1. TimingInit
  BY DEF Init
<1>2. TimingInv /\ SampleInv
  BY <1>1, TimingInitInv, SampleInit
<1>3. secs \in Int /\ PackageInv
  BY <1>1 DEF TimingInit, PackageInv, FcycStages, CalStages
<1>4. Known
  BY EvaluationAssumption DEF Init, Known
<1> QED BY <1>2, <1>3, <1>4 DEF MeasurementInv

(* The invariant of the measurements. *)
THEOREM Measurements == FairSpec => [](MeasurementInv /\ Known)
<1>1. Init => MeasurementInv /\ Known
  BY MeasurementInit
<1>2. MeasurementInv /\ Known /\ [Next]_vars => MeasurementInv' /\ Known'
  BY StepTiming, MeasurementStep
<1> QED BY <1>1, <1>2, PTL DEF FairSpec

(* get_counter loses no cycle of f, however often the low word of the      *)
(* counter wraps during it, and the interval timer and the time of day     *)
(* give f's own time.                                                      *)
THEOREM Exact == FairSpec => []MeasuredExactly
<1>1. MeasurementInv => MeasuredExactly
  BY DEF MeasurementInv, TimingInv, MeasureInv, PackageInv, MeasuredExactly
<1> QED BY <1>1, Measurements, PTL

(* What callibrate takes for the cost of a tick is at most THRESHOLD too   *)
(* much, and a compensated sample never counts ticks as cycles of f.       *)
THEOREM Compensation == FairSpec => []CompensationBounds
<1>1. MeasurementInv => CompensationBounds
  BY Compensated DEF MeasurementInv
<1> QED BY <1>1, Measurements, PTL

(* add_sample keeps the kbest smallest of the samples in order, each of    *)
(* them one that was measured.                                             *)
THEOREM KBest == FairSpec => []BestKept
<1>1. MeasurementInv => BestKept
  BY DEF MeasurementInv, SampleInv
<1> QED BY <1>1, Measurements, PTL

-----------------------------------------------------------------------------
(* The sums over the traces *)

(* f holds the sums of the first 0, 1, .. n of s. *)
Adds(f, s, n) == f \in [0 .. n -> Int] /\ f[0] = 0 /\ \A k \in 1 .. n : f[k] = f[k - 1] + s[k]

(* There is such a function. *)
LEMMA AddsExists ==
  ASSUME NEW s \in Seq(Int)
  PROVE  \E f : Adds(f, s, Len(s))
<1> DEFINE T == {n \in Nat : n <= Len(s) => \E f : Adds(f, s, n)}
<1>1. 0 \in T
  <2>1. Adds([k \in 0 .. 0 |-> 0], s, 0)
    BY DEF Adds
  <2> QED BY <2>1
<1>2. ASSUME NEW n \in T PROVE n + 1 \in T
  <2> SUFFICES ASSUME n + 1 <= Len(s) PROVE \E f : Adds(f, s, n + 1)
    OBVIOUS
  <2>1. PICK f : Adds(f, s, n)
    OBVIOUS
  <2> DEFINE g == [k \in 0 .. n + 1 |-> IF k = n + 1 THEN f[n] + s[n + 1] ELSE f[k]]
  <2>2. n \in Nat /\ f[n] \in Int /\ s[n + 1] \in Int
    BY <2>1 DEF Adds
  <2>3. \A k \in 0 .. n : g[k] = f[k] /\ f[k] \in Int
    BY <2>1, <2>2 DEF Adds
  <2>4. g[n + 1] = f[n] + s[n + 1]
    BY <2>2
  <2>5. g \in [0 .. n + 1 -> Int]
    <3> SUFFICES ASSUME NEW k \in 0 .. n + 1
                 PROVE  (IF k = n + 1 THEN f[n] + s[n + 1] ELSE f[k]) \in Int
      OBVIOUS
    <3>1. CASE k = n + 1
      BY <3>1, <2>2
    <3>2. CASE k \in 0 .. n
      BY <3>2, <2>2, <2>3
    <3> QED BY <3>1, <3>2, <2>2
  <2> HIDE DEF g
  <2>6. ASSUME NEW k \in 1 .. n + 1 PROVE g[k] = g[k - 1] + s[k]
    <3>1. CASE k = n + 1
      BY <3>1, <2>2, <2>3, <2>4
    <3>2. CASE k \in 1 .. n
      <4>1. k - 1 \in 0 .. n /\ k \in 0 .. n
        BY <3>2, <2>2
      <4> QED BY <4>1, <3>2, <2>1, <2>3 DEF Adds
    <3> QED BY <3>1, <3>2, <2>2
  <2>7. Adds(g, s, n + 1)
    BY <2>1, <2>2, <2>3, <2>5, <2>6 DEF Adds
  <2> QED BY <2>7
<1>3. T = Nat
  <2> HIDE DEF T
  <2>1. T \subseteq Nat
    BY DEF T
  <2> QED BY <2>1, <1>1, <1>2, Induction
<1>4. Len(s) \in Nat
  OBVIOUS
<1> QED BY <1>3, <1>4

(* Total is the last of them. *)
LEMMA TotalAdds ==
  ASSUME NEW s \in Seq(Int)
  PROVE  \E f : Adds(f, s, Len(s)) /\ Total(s) = f[Len(s)]
<1> DEFINE N == Len(s)
           G(f) == [k \in 0 .. N |-> IF k = 0 THEN 0 ELSE f[k - 1] + s[k]]
           f0 == CHOOSE f : f = G(f)
<1>1. N \in Nat
  OBVIOUS
<1>2. PICK g : Adds(g, s, N)
  BY AddsExists
<1>3. g = G(g)
  BY <1>1, <1>2 DEF Adds
<1>4. f0 = G(f0)
  <2> HIDE DEF G
  <2> QED BY <1>3
<1>5. Total(s) = f0[N]
  BY DEF Total
<1> HIDE DEF f0
<1>6. f0[0] = 0 /\ (\A k \in 1 .. N : f0[k] = f0[k - 1] + s[k]) /\ f0 = [k \in 0 .. N |-> f0[k]]
  BY <1>1, <1>4
<1>7. \A k \in 0 .. N : f0[k] \in Int
  <2> DEFINE T == {n \in Nat : n <= N => f0[n] \in Int}
  <2> HIDE DEF N
  <2>1. 0 \in T
    BY <1>6
  <2>2. ASSUME NEW n \in T PROVE n + 1 \in T
    <3> SUFFICES ASSUME n + 1 <= N PROVE f0[n + 1] \in Int
      OBVIOUS
    <3>1. n \in Nat /\ n + 1 \in 1 .. N /\ f0[n] \in Int /\ (n + 1) - 1 = n
      BY <1>1
    <3>2. s[n + 1] \in Int
      BY <3>1 DEF N
    <3>3. f0[n + 1] = f0[(n + 1) - 1] + s[n + 1]
      BY <3>1, <1>6
    <3> QED BY <3>1, <3>2, <3>3
  <2>3. T = Nat
    <3> HIDE DEF T
    <3>1. T \subseteq Nat
      BY DEF T
    <3> QED BY <3>1, <2>1, <2>2, Induction
  <2> QED BY <2>3, <1>1
<1>8. Adds(f0, s, N)
  BY <1>6, <1>7 DEF Adds
<1> QED BY <1>5, <1>8

(* A sum of numbers that are not negative is not negative, and is zero     *)
(* only if they all are.                                                   *)
LEMMA TotalNat ==
  ASSUME NEW s \in Seq(Int), \A k \in 1 .. Len(s) : s[k] >= 0
  PROVE  Total(s) \in Nat /\ (Total(s) = 0 => \A k \in 1 .. Len(s) : s[k] = 0)
<1> DEFINE N == Len(s)
<1>1. N \in Nat /\ \A k \in 1 .. N : s[k] \in Nat
  OBVIOUS
<1>2. PICK f : Adds(f, s, N) /\ Total(s) = f[N]
  BY TotalAdds
<1> HIDE DEF N
<1> DEFINE T == {n \in Nat : n <= N => f[n] \in Nat /\ (f[n] = 0 => \A k \in 1 .. n : s[k] = 0)}
<1>3. 0 \in T
  BY <1>2 DEF Adds
<1>4. ASSUME NEW n \in T PROVE n + 1 \in T
  <2> SUFFICES ASSUME n + 1 <= N
               PROVE  f[n + 1] \in Nat /\ (f[n + 1] = 0 => \A k \in 1 .. n + 1 : s[k] = 0)
    OBVIOUS
  <2>1. /\ n \in Nat /\ n + 1 \in 1 .. N /\ f[n] \in Nat /\ (n + 1) - 1 = n
        /\ f[n] = 0 => \A k \in 1 .. n : s[k] = 0
    BY <1>1
  <2>2. f[n + 1] = f[n] + s[n + 1] /\ s[n + 1] \in Nat
    BY <2>1, <1>1, <1>2 DEF Adds
  <2> QED BY <2>1, <2>2
<1>5. T = Nat
  <2> HIDE DEF T
  <2>1. T \subseteq Nat
    BY DEF T
  <2> QED BY <2>1, <1>3, <1>4, Induction
<1> QED BY <1>1, <1>2, <1>5 DEF N

(* A sum of percentages. *)
LEMMA TotalAtMost ==
  ASSUME NEW s \in Seq(Int), \A k \in 1 .. Len(s) : s[k] <= 100
  PROVE  Total(s) <= 100 * Len(s)
<1> DEFINE N == Len(s)
<1>1. N \in Nat /\ \A k \in 1 .. N : s[k] \in Int
  OBVIOUS
<1>2. PICK f : Adds(f, s, N) /\ Total(s) = f[N]
  BY TotalAdds
<1>0. \A k \in 1 .. N : s[k] <= 100
  OBVIOUS
<1> HIDE DEF N
<1> DEFINE T == {n \in Nat : n <= N => f[n] <= 100 * n}
<1>3. 0 \in T
  BY <1>2 DEF Adds
<1>4. ASSUME NEW n \in T PROVE n + 1 \in T
  <2> SUFFICES ASSUME n + 1 <= N PROVE f[n + 1] <= 100 * (n + 1)
    OBVIOUS
  <2>1. n \in Nat /\ n + 1 \in 1 .. N /\ n \in 0 .. N /\ f[n] <= 100 * n /\ (n + 1) - 1 = n
    BY <1>1
  <2>2. f[n + 1] = f[n] + s[n + 1] /\ s[n + 1] \in Int /\ s[n + 1] <= 100 /\ f[n] \in Int
    BY <2>1, <1>0, <1>1, <1>2 DEF Adds
  <2> QED BY <2>1, <2>2
<1>5. T = Nat
  <2> HIDE DEF T
  <2>1. T \subseteq Nat
    BY DEF T
  <2> QED BY <2>1, <1>3, <1>4, Induction
<1>6. N \in T
  BY <1>1, <1>5
<1> QED BY <1>2, <1>6 DEF N

-----------------------------------------------------------------------------
(* main *)

Stat == [ops : Nat, valid : BOOLEAN, util : 0 .. 100, secs : Int]

MainTypes ==
    /\ Len(tracefiles) \in Nat /\ pass \in {"mm", "libc"}
    /\ program = "mdriver" => i \in 1 .. Len(tracefiles)
    /\ program = "mdriver" => \A k \in 1 .. Len(tracefiles) : tracefiles[k].ops \in Nat
    /\ program # "mdriver" => do = "start"
    /\ stats \in [1 .. Len(tracefiles) -> Stat]
    /\ program = "mdriver" => "num_ops" \in DOMAIN trace /\ trace.num_ops \in Nat
    /\ errors \in Nat /\ faulted \subseteq 1 .. Len(tracefiles)

(* The stages of a trace behind eval_mm_valid. *)
Judged == {"util", "speed", "time", "free", "report"}

(* A trace is faulted in its turn, and then not looked at again. *)
FaultedPast ==
    \A k \in faulted : pass = "mm" /\ (k < i \/ (k = i /\ do \in {"free", "report"}))

(* A trace whose turn is past is correct or faulted. *)
AllJudged ==
    pass = "mm" => \A k \in 1 .. Len(tracefiles) :
       k < i \/ (k = i /\ do \in Judged) => stats[k].valid \/ k \in faulted

(* One whose turn has not come has no results. *)
NotJudged ==
    \A k \in 1 .. Len(tracefiles) :
       pass = "libc" \/ k > i \/ (k = i /\ do \notin Judged) =>
          stats[k].util = 0 /\ stats[k].secs = 0 /\ ~stats[k].valid

(* While main runs. *)
Running ==
    /\ errors = 0 <=> faulted = {}
    /\ do = "start" => i = 1
    /\ do = "util" => pass = "mm"
    /\ FaultedPast /\ AllJudged /\ NotJudged
    /\ do = "report" => i = Len(tracefiles) /\ pass = "mm"

MainInv ==
    /\ MainTypes
    /\ do # "exit" => Running /\ ~report.done
    /\ \A k \in faulted : stats[k].util = 0 /\ stats[k].secs = 0 /\ ~stats[k].valid
    /\ ReportMatchesRuns

(* The files that main is given. *)
LEMMA GivenFiles ==
  ASSUME NEW fs \in TraceLists
  PROVE  Len(fs) \in Nat \ {0} /\ \A k \in 1 .. Len(fs) : fs[k] \in Files
<1>1. fs \in Seq(Files) /\ fs # <<>>
  BY EvaluationAssumption
<1> QED BY <1>1

(* The initial state *)
LEMMA MainInit ==
  ASSUME Init
  PROVE  MainInv
<1>1. report.done = FALSE /\ faulted = {} /\ errors = 0 /\ i = 1 /\ pass = "mm" /\ do = "start"
  BY DEF Init, NoReport
<1>2. stats = [k \in 1 .. Len(tracefiles) |-> NoStats] /\ NoStats \in Stat
  BY DEF Init, NoStats, Stat
<1>3. CASE program = "make"
  <2>1. Len(tracefiles) = 0
    BY <1>3 DEF Init
  <2>2. MainTypes
    BY <2>1, <1>1, <1>2, <1>3 DEF MainTypes
  <2>3. Running
    BY <2>1, <1>1 DEF Running, FaultedPast, AllJudged, NotJudged
  <2> QED BY <2>2, <2>3, <1>1 DEF MainInv, ReportMatchesRuns
<1>4. CASE program # "make"
  <2>1. program = "mdriver" /\ tracefiles \in TraceLists /\ trace = NoTrace
    BY <1>4 DEF Init
  <2>2. /\ Len(tracefiles) \in Nat \ {0}
        /\ \A k \in 1 .. Len(tracefiles) : tracefiles[k].ops \in Nat
    BY <2>1, GivenFiles DEF Files
  <2>3. "num_ops" \in DOMAIN trace /\ trace.num_ops \in Nat
    BY <2>1 DEF NoTrace
  <2>4. MainTypes
    <3>1. Len(tracefiles) \in Nat /\ i \in 1 .. Len(tracefiles)
      BY <2>2, <1>1
    <3>2. stats \in [1 .. Len(tracefiles) -> Stat]
      BY <1>2
    <3>3. errors \in Nat /\ faulted \subseteq 1 .. Len(tracefiles) /\ pass \in {"mm", "libc"}
      BY <1>1
    <3> QED BY <3>1, <3>2, <3>3, <2>1, <2>2, <2>3 DEF MainTypes
  <2>5. Running
    BY <1>1, <1>2, <2>2 DEF Running, FaultedPast, AllJudged, NotJudged, Judged, NoStats
  <2> QED BY <2>4, <2>5, <1>1 DEF MainInv, ReportMatchesRuns
<1> QED BY <1>3, <1>4

(* A step that changes nothing main decides by. *)
Quiet ==
    /\ UNCHANGED <<program, tracefiles, do, pass, i, stats, errors, report, faulted>>
    /\ program = "mdriver" =>
          "num_ops" \in DOMAIN trace' /\ trace'.num_ops \in Nat

(* A step of the timing package inside fsecs leaves main's state alone. *)
LEMMA MainQuiet ==
  ASSUME MainInv, Quiet
  PROVE  MainInv'
<1>1. UNCHANGED <<program, tracefiles, do, pass, i, stats, errors, report, faulted>>
  BY DEF Quiet
<1>2. MainTypes' /\ (Running' <=> Running) /\ (ReportMatchesRuns' <=> ReportMatchesRuns)
  <2>1. TotalSecs' = TotalSecs
    BY <1>1 DEF TotalSecs
  <2>2. MainTypes'
    BY <1>1 DEF Quiet, MainInv, MainTypes
  <2>3. Running' <=> Running
    BY <1>1 DEF Running, FaultedPast, AllJudged, NotJudged
  <2> QED BY <2>1, <2>2, <2>3, <1>1 DEF ReportMatchesRuns
<1> QED BY <1>1, <1>2 DEF MainInv

(* Reading a trace does not change its number of requests. *)
LEMMA ReadOps ==
  ASSUME ReadNext, "num_ops" \in DOMAIN trace
  PROVE  "num_ops" \in DOMAIN trace' /\ trace'.num_ops = trace.num_ops
BY DEF ReadNext, ReadLine, ReadEnd

(* Steps that do not judge. *)
LEMMA MainGoes ==
  ASSUME MainInv, StartMain \/ OpenNext \/ Loaded \/ StartSpeed
  PROVE  MainInv'
<1> USE DEF MainInv
<1>1. /\ UNCHANGED <<program, tracefiles, i, errors, report, faulted>>
      /\ do \in {"start", "read", "load", "speed"} /\ ~report.done /\ Running /\ program = "mdriver"
  BY DEF StartMain, OpenNext, Loaded, StartSpeed, Goto, options, MainTypes
<1>2. \/ do = "start" /\ do' = "read" /\ pass' \in {"mm", "libc"}
      \/ do = "read" /\ do' = "load" /\ pass' = pass
      \/ do = "load" /\ do' = "valid" /\ pass' = pass
      \/ do = "speed" /\ do' = "time" /\ pass' = pass
  BY DEF StartMain, OpenNext, Loaded, StartSpeed, Goto
<1>3. "num_ops" \in DOMAIN trace' /\ trace'.num_ops \in Nat
  <2>1. CASE OpenNext
    BY <2>1, <1>1 DEF OpenNext, OpenTrace, NoTrace, MainTypes
  <2>2. CASE UNCHANGED trace
    BY <2>2, <1>1 DEF MainTypes
  <2> QED BY <2>1, <2>2 DEF StartMain, Loaded, StartSpeed, fvars
<1>4. /\ stats' \in [1 .. Len(tracefiles) -> Stat]
      /\ \A k \in 1 .. Len(tracefiles) :
            stats'[k].valid = stats[k].valid /\ stats'[k].util = stats[k].util /\ stats'[k].secs = stats[k].secs
  <2>1. CASE Loaded /\ pass = "mm"
    <3>1. /\ stats' = [stats EXCEPT ![i].ops = trace.num_ops] /\ i \in 1 .. Len(tracefiles)
          /\ trace.num_ops \in Nat
      BY <2>1, <1>1 DEF Loaded, MainTypes
    <3> QED BY <3>1 DEF MainTypes, Stat
  <2>2. CASE UNCHANGED stats
    BY <2>2 DEF MainTypes
  <2> QED BY <2>1, <2>2 DEF StartMain, OpenNext, Loaded, StartSpeed
<1>5. MainTypes'
  BY <1>1, <1>2, <1>3, <1>4 DEF MainTypes
<1>6. Running'
  <2>1. FaultedPast'
    BY <1>1, <1>2 DEF Running, FaultedPast, MainTypes
  <2>2. AllJudged'
    BY <1>1, <1>2, <1>4 DEF Running, AllJudged, Judged, MainTypes
  <2>3. NotJudged'
    <3> SUFFICES ASSUME NEW k \in 1 .. Len(tracefiles),
                        pass' = "libc" \/ k > i \/ (k = i /\ do' \notin Judged)
                 PROVE  stats[k].util = 0 /\ stats[k].secs = 0 /\ ~stats[k].valid
      BY <1>1, <1>4 DEF NotJudged
    <3>1. pass = "libc" \/ k > i \/ (k = i /\ do \notin Judged)
      BY <1>1, <1>2 DEF Running, Judged, MainTypes
    <3> QED BY <3>1, <1>1 DEF Running, NotJudged
  <2> QED BY <2>1, <2>2, <2>3, <1>1, <1>2 DEF Running
<1>7. \A k \in faulted' : stats'[k].util = 0 /\ stats'[k].secs = 0 /\ ~stats'[k].valid
  BY <1>1, <1>4 DEF MainTypes
<1> QED BY <1>1, <1>5, <1>6, <1>7 DEF ReportMatchesRuns

(* main is left without a report. *)
LEMMA MainExits ==
  ASSUME MainInv, do' = "exit", do \notin {"start", "exit"},
         UNCHANGED <<program, tracefiles, pass, i, stats, trace, report, faulted>>,
         errors' \in {errors, errors + 1}
  PROVE  MainInv'
<1>1. MainTypes' /\ ~report'.done
  BY DEF MainInv, MainTypes
<1> QED BY <1>1 DEF MainInv, ReportMatchesRuns

(* eval_mm_valid or eval_libc_valid has passed. *)
LEMMA MainValid ==
  ASSUME MainInv, Valid
  PROVE  MainInv'
<1> USE DEF MainInv
<1>1. /\ UNCHANGED <<program, tracefiles, i, pass, trace, errors, report, faulted>>
      /\ do = "valid" /\ ~report.done /\ Running /\ program = "mdriver"
      /\ do' = IF pass = "mm" THEN "util" ELSE "speed"
      /\ stats' = IF pass = "mm" THEN [stats EXCEPT ![i].valid = TRUE] ELSE stats
  BY DEF Valid, Goto, options, MainTypes, fvars
<1>2. i \in 1 .. Len(tracefiles) /\ stats \in [1 .. Len(tracefiles) -> Stat]
  BY <1>1 DEF MainTypes
<1>3. /\ stats' \in [1 .. Len(tracefiles) -> Stat]
      /\ \A k \in 1 .. Len(tracefiles) :
            /\ stats'[k].util = stats[k].util /\ stats'[k].secs = stats[k].secs
            /\ stats'[k].valid = (stats[k].valid \/ (pass = "mm" /\ k = i))
  BY <1>1, <1>2 DEF Stat
<1>4. MainTypes'
  BY <1>1, <1>3 DEF MainTypes
<1>5. i \notin faulted
  BY <1>1, <1>2 DEF Running, FaultedPast
<1>6. Running'
  BY <1>1, <1>2, <1>3, <1>5 DEF Running, FaultedPast, AllJudged, NotJudged, Judged, MainTypes
<1>7. \A k \in faulted' : stats'[k].util = 0 /\ stats'[k].secs = 0 /\ ~stats'[k].valid
  BY <1>1, <1>3, <1>5 DEF MainTypes
<1> QED BY <1>1, <1>4, <1>6, <1>7 DEF ReportMatchesRuns

(* eval_mm_valid has called malloc_error. *)
LEMMA MainInvalid ==
  ASSUME MainInv, MmInvalid
  PROVE  MainInv'
<1> USE DEF MainInv
<1>1. /\ UNCHANGED <<program, tracefiles, i, pass, trace, stats, report>>
      /\ do = "valid" /\ ~report.done /\ Running /\ program = "mdriver" /\ pass = "mm"
      /\ do' = "free" /\ errors' = errors + 1 /\ faulted' = faulted \cup {i}
  BY DEF MmInvalid, Goto, options, MainTypes, fvars
<1>2. i \in 1 .. Len(tracefiles) /\ errors \in Nat
  BY <1>1 DEF MainTypes
<1>3. MainTypes'
  BY <1>1, <1>2 DEF MainTypes
<1>4. Running'
  BY <1>1, <1>2 DEF Running, FaultedPast, AllJudged, NotJudged, Judged, MainTypes
<1>5. stats[i].util = 0 /\ stats[i].secs = 0 /\ ~stats[i].valid
  BY <1>1, <1>2 DEF Running, FaultedPast, AllJudged, NotJudged, Judged
<1> QED BY <1>1, <1>3, <1>4, <1>5 DEF ReportMatchesRuns

(* eval_mm_util *)
LEMMA MainUtil ==
  ASSUME MainInv, Util, do' # "exit"
  PROVE  MainInv'
<1> USE DEF MainInv
<1>1. /\ UNCHANGED <<program, tracefiles, i, pass, trace, errors, report, faulted>>
      /\ do = "util" /\ ~report.done /\ Running /\ program = "mdriver" /\ do' = "speed"
  BY DEF Util, Goto, Exit, options, MainTypes, fvars
<1>2. PICK u \in Utils : stats' = [stats EXCEPT ![i].util = u]
  BY DEF Util, Exit, Goto
<1>3. i \in 1 .. Len(tracefiles) /\ stats \in [1 .. Len(tracefiles) -> Stat] /\ u \in 0 .. 100
  BY <1>1, EvaluationAssumption DEF MainTypes
<1>4. /\ stats' \in [1 .. Len(tracefiles) -> Stat]
      /\ \A k \in 1 .. Len(tracefiles) :
            /\ k # i => stats'[k] = stats[k]
            /\ stats'[k].valid = stats[k].valid
  BY <1>2, <1>3 DEF Stat
<1>5. MainTypes'
  BY <1>1, <1>4 DEF MainTypes
<1>6. i \notin faulted
  BY <1>1, <1>3 DEF Running, FaultedPast
<1>7. Running'
  <2>1. FaultedPast'
    BY <1>1, <1>3 DEF Running, FaultedPast
  <2>2. AllJudged'
    BY <1>1, <1>3, <1>4 DEF Running, AllJudged, Judged
  <2>3. NotJudged'
    <3> SUFFICES ASSUME NEW k \in 1 .. Len(tracefiles), pass = "libc" \/ k > i
                 PROVE  stats'[k].util = 0 /\ stats'[k].secs = 0 /\ ~stats'[k].valid
      BY <1>1 DEF NotJudged, Judged
    <3>1. pass = "mm" /\ k > i
      BY <1>1 DEF Running
    <3> QED BY <3>1, <1>1, <1>3, <1>4 DEF Running, NotJudged
  <2> QED BY <2>1, <2>2, <2>3, <1>1 DEF Running
<1>8. \A k \in faulted' : stats'[k].util = 0 /\ stats'[k].secs = 0 /\ ~stats'[k].valid
  BY <1>1, <1>4, <1>6 DEF MainTypes
<1> QED BY <1>1, <1>5, <1>7, <1>8 DEF ReportMatchesRuns

(* eval_mm_speed or eval_libc_speed *)
LEMMA MainSpeed ==
  ASSUME MainInv, SpeedDone, secs \in Int
  PROVE  MainInv'
<1> USE DEF MainInv
<1>1. /\ UNCHANGED <<program, tracefiles, i, pass, trace, errors, report, faulted>>
      /\ do = "time" /\ ~report.done /\ Running /\ program = "mdriver" /\ do' = "free"
      /\ stats' = IF pass = "mm" THEN [stats EXCEPT ![i].secs = secs] ELSE stats
  BY DEF SpeedDone, Goto, options, MainTypes, fvars
<1>2. i \in 1 .. Len(tracefiles) /\ stats \in [1 .. Len(tracefiles) -> Stat] /\ pass \in {"mm", "libc"}
  BY <1>1 DEF MainTypes
<1>3. /\ stats' \in [1 .. Len(tracefiles) -> Stat]
      /\ \A k \in 1 .. Len(tracefiles) :
            /\ k # i \/ pass = "libc" => stats'[k] = stats[k]
            /\ stats'[k].valid = stats[k].valid
  BY <1>1, <1>2 DEF Stat
<1>4. MainTypes'
  BY <1>1, <1>3 DEF MainTypes
<1>5. i \notin faulted
  BY <1>1, <1>2 DEF Running, FaultedPast
<1>6. Running'
  BY <1>1, <1>2, <1>3, <1>5 DEF Running, FaultedPast, AllJudged, NotJudged, Judged
<1>7. \A k \in faulted' : stats'[k].util = 0 /\ stats'[k].secs = 0 /\ ~stats'[k].valid
  BY <1>1, <1>3, <1>5 DEF MainTypes
<1> QED BY <1>1, <1>4, <1>6, <1>7 DEF ReportMatchesRuns

(* free_trace, and what comes next. *)
LEMMA MainFree ==
  ASSUME MainInv, FreeTrace
  PROVE  MainInv'
<1> USE DEF MainInv
<1>1. /\ UNCHANGED <<program, tracefiles, stats, errors, report, faulted>>
      /\ do = "free" /\ ~report.done /\ Running /\ program = "mdriver" /\ trace' = NoTrace
  BY DEF FreeTrace, Goto, options, MainTypes
<1>2. i \in 1 .. Len(tracefiles) /\ pass \in {"mm", "libc"} /\ Len(tracefiles) \in Nat
  BY <1>1 DEF MainTypes
<1>3. \/ i < Len(tracefiles) /\ i' = i + 1 /\ pass' = pass /\ do' = "read"
      \/ i = Len(tracefiles) /\ pass = "libc" /\ i' = 1 /\ pass' = "mm" /\ do' = "read"
      \/ i = Len(tracefiles) /\ pass = "mm" /\ i' = i /\ pass' = pass /\ do' = "report"
  BY <1>2 DEF FreeTrace, Goto
<1>4. "num_ops" \in DOMAIN trace' /\ trace'.num_ops \in Nat
  BY <1>1 DEF NoTrace
<1>5. MainTypes'
  BY <1>1, <1>2, <1>3, <1>4 DEF MainTypes
<1>6. Running'
  <2>1. faulted \subseteq 1 .. Len(tracefiles)
    BY DEF MainTypes
  <2>2. CASE i < Len(tracefiles)
    BY <2>1, <2>2, <1>1, <1>2, <1>3 DEF Running, FaultedPast, AllJudged, NotJudged, Judged
  <2>3. CASE i = Len(tracefiles) /\ pass = "libc"
    BY <2>1, <2>3, <1>1, <1>2, <1>3 DEF Running, FaultedPast, AllJudged, NotJudged, Judged
  <2>4. CASE i = Len(tracefiles) /\ pass = "mm"
    BY <2>1, <2>4, <1>1, <1>2, <1>3 DEF Running, FaultedPast, AllJudged, NotJudged, Judged
  <2> QED BY <2>2, <2>3, <2>4, <1>2
<1> QED BY <1>1, <1>5, <1>6 DEF ReportMatchesRuns

(* The sums main reports. *)
LEMMA Sums ==
  ASSUME MainTypes
  PROVE  /\ TotalOps \in Nat /\ (TotalOps = 0 => \A k \in DOMAIN stats : stats[k].ops = 0)
         /\ TotalUtil \in Nat /\ TotalUtil <= 100 * Len(stats)
         /\ TotalSecs \in Int
         /\ Len(stats) = Len(tracefiles) /\ DOMAIN stats = 1 .. Len(tracefiles)
<1>1. Len(tracefiles) \in Nat /\ stats \in [1 .. Len(tracefiles) -> Stat]
  BY DEF MainTypes
<1> DEFINE n == Len(tracefiles)
           o == [k \in 1 .. n |-> stats[k].ops]
           u == [k \in 1 .. n |-> stats[k].util]
           s == [k \in 1 .. n |-> stats[k].secs]
<1>2. DOMAIN stats = 1 .. n
  BY <1>1
<1>3. TotalOps = Total(o) /\ TotalUtil = Total(u) /\ TotalSecs = Total(s)
  BY <1>2 DEF TotalOps, TotalUtil, TotalSecs
<1>4. Len(stats) = n
  <2>1. stats \in Seq(Stat)
    BY <1>1
  <2> QED BY <2>1, <1>1
<1> HIDE DEF n
<1>5. \A k \in 1 .. n : o[k] \in Nat /\ u[k] \in 0 .. 100 /\ s[k] \in Int
  BY <1>1 DEF Stat, n
<1>6. o \in Seq(Int) /\ u \in Seq(Int) /\ s \in Seq(Int) /\ Len(o) = n /\ Len(u) = n /\ Len(s) = n
  <2>1. n \in Nat
    BY <1>1 DEF n
  <2> QED BY <2>1, <1>5
<1>7. \A k \in 1 .. n : o[k] = stats[k].ops
  OBVIOUS
<1> HIDE DEF o, u, s
<1>8. Total(o) \in Nat /\ (Total(o) = 0 => \A k \in 1 .. n : o[k] = 0)
  BY <1>5, <1>6, TotalNat
<1>9. Total(u) \in Nat /\ Total(u) <= 100 * n
  <2>1. /\ u \in Seq(Int) /\ \A k \in 1 .. Len(u) : u[k] >= 0
        /\ \A k \in 1 .. Len(u) : u[k] <= 100
    <3>1. \A k \in 1 .. n : u[k] >= 0 /\ u[k] <= 100
      BY <1>5
    <3> QED BY <3>1, <1>6
  <2>2. Total(u) \in Nat
    BY <2>1, TotalNat
  <2>3. Total(u) <= 100 * Len(u)
    BY <2>1, TotalAtMost
  <2> QED BY <2>2, <2>3, <1>6
<1>10. Total(s) \in Int
  <2>1. PICK f : Adds(f, s, Len(s)) /\ Total(s) = f[Len(s)]
    BY <1>6, TotalAdds
  <2>2. Len(s) \in 0 .. Len(s)
    BY <1>1, <1>6 DEF n
  <2> QED BY <2>1, <2>2 DEF Adds
<1> QED BY <1>2, <1>3, <1>4, <1>7, <1>8, <1>9, <1>10 DEF n

(* A quotient of which the bounds are known. *)
LEMMA Quotient ==
  ASSUME NEW a \in Nat, NEW b \in Nat, b > 0, NEW m \in Nat, a <= m * b
  PROVE  a \div b \in 0 .. m
<1> DEFINE q == a \div b
           r == a % b
<1>1. q \in Int /\ r \in 0 .. b - 1 /\ a = q * b + r
  OBVIOUS
<1> HIDE DEF q, r
<1>2. q >= 0
  <2> SUFFICES ASSUME q <= -1 PROVE FALSE
    BY <1>1
  <2>1. q * b <= -b
    BY <1>1
  <2> QED BY <2>1, <1>1
<1>3. q <= m
  <2> SUFFICES ASSUME q >= m + 1 PROVE FALSE
    BY <1>1
  <2>1. q * b >= (m + 1) * b /\ (m + 1) * b = m * b + b
    BY <1>1
  <2>2. q * b \in Int /\ m * b \in Int
    BY <1>1
  <2> QED BY <2>1, <2>2, <1>1
<1> QED BY <1>1, <1>2, <1>3 DEF q

(* The index. *)
LEMMA IndexBounds ==
  ASSUME MainTypes, Len(tracefiles) >= 1, TotalSecs >= 0
  PROVE  p1 \in 0 .. 60 /\ p2 \in 0 .. 40
<1>1. /\ TotalOps \in Nat /\ TotalUtil \in Nat /\ TotalUtil <= 100 * Len(stats)
      /\ TotalSecs \in Nat /\ Len(stats) \in Nat /\ Len(stats) >= 1
  BY Sums DEF MainTypes
<1>2. p1 \in 0 .. 60
  <2>1. /\ 60 * TotalUtil \in Nat /\ 100 * Len(stats) \in Nat /\ 100 * Len(stats) > 0
        /\ 60 * TotalUtil <= 60 * (100 * Len(stats))
    BY <1>1
  <2>2. (60 * TotalUtil) \div (100 * Len(stats)) \in 0 .. 60
    BY <2>1, Quotient
  <2> QED BY <2>2 DEF p1
<1>3. p2 \in 0 .. 40
  <2>1. CASE TotalOps > AVG_LIBC_THRUPUT * TotalSecs \/ TotalSecs = 0
    BY <2>1, <1>1 DEF p2
  <2>2. CASE ~ (TotalOps > AVG_LIBC_THRUPUT * TotalSecs \/ TotalSecs = 0)
    <3> DEFINE b == AVG_LIBC_THRUPUT * TotalSecs
    <3>1. AVG_LIBC_THRUPUT \in Nat /\ AVG_LIBC_THRUPUT > 0
      BY EvaluationAssumption
    <3>2. b \in Nat /\ b > 0
      BY <3>1, <2>2, <1>1
    <3>3. p2 = (40 * TotalOps) \div b
      BY <2>2, <1>1 DEF p2
    <3>4. TotalOps <= b
      BY <3>2, <2>2, <1>1
    <3> HIDE DEF b
    <3>5. 40 * TotalOps \in Nat /\ 40 * TotalOps <= 40 * b
      BY <3>2, <3>4, <1>1
    <3> QED BY <3>2, <3>3, <3>5, Quotient
  <2> QED BY <2>1, <2>2
<1> QED BY <1>2, <1>3

(* The report. *)
LEMMA MainReport ==
  ASSUME MainInv, Report
  PROVE  MainInv'
<1> USE DEF MainInv
<1>1. /\ UNCHANGED <<program, tracefiles, i, pass, trace, stats, errors, faulted>>
      /\ do = "report" /\ Running /\ program = "mdriver" /\ do' = "exit"
      /\ report' = Results
  BY DEF Report, options, MainTypes, fvars
<1>2. MainTypes'
  BY <1>1 DEF MainTypes
<1>3. /\ TotalOps = 0 => \A k \in DOMAIN stats : stats[k].ops = 0
      /\ TotalSecs' = TotalSecs /\ DOMAIN stats = 1 .. Len(tracefiles)
  BY <1>1, Sums DEF TotalSecs
<1> DEFINE n == Len(tracefiles)
           good == {k \in DOMAIN stats : stats[k].valid}
<1>4. n \in Nat /\ faulted \subseteq 1 .. n
  BY DEF MainTypes
<1>5. good = (1 .. n) \ faulted
  <2>1. i = n /\ pass = "mm"
    BY <1>1 DEF Running
  <2>2. \A k \in 1 .. n : stats[k].valid \/ k \in faulted
    BY <2>1, <1>1, <1>4 DEF Running, AllJudged, Judged
  <2> QED BY <2>2, <1>3, <1>4
<1>6. Cardinality(good) = n - Cardinality(faulted)
  <2> HIDE DEF n, good
  <2>1. IsFiniteSet(1 .. n) /\ Cardinality(1 .. n) = n
    BY <1>4, FS_Interval
  <2>2. (1 .. n) \cap faulted = faulted
    BY <1>4
  <2>3. Cardinality((1 .. n) \ faulted) = Cardinality(1 .. n) - Cardinality((1 .. n) \cap faulted)
    BY <2>1, FS_Difference
  <2> QED BY <2>1, <2>2, <2>3, <1>5
<1>7. /\ report'.done /\ report'.correct = n - Cardinality(faulted)
      /\ report'.printed <=> errors = 0
      /\ report'.nan => TotalOps = 0
      /\ report'.index = IF errors = 0 THEN p1 + p2 ELSE 0
  BY <1>1, <1>6 DEF Results
<1>8. TotalSecs >= 0 => 0 <= report'.index /\ report'.index <= 100
  <2>1. n >= 1
    BY <1>1 DEF MainTypes
  <2>2. TotalSecs >= 0 => p1 \in 0 .. 60 /\ p2 \in 0 .. 40
    BY <2>1, IndexBounds
  <2>3. report'.index = p1 + p2 \/ report'.index = 0
    BY <1>7
  <2>4. TotalSecs >= 0 => p1 + p2 \in 0 .. 100
    BY <2>2
  <2> QED BY <2>3, <2>4
<1>9. ReportMatchesRuns'
  BY <1>1, <1>3, <1>7, <1>8 DEF ReportMatchesRuns, Running
<1> QED BY <1>1, <1>2, <1>9

(* Every step *)
LEMMA MainStep ==
  ASSUME MainInv, secs \in Int, [Next]_vars
  PROVE  MainInv'
<1>1. CASE Make \/ Load \/ Speed \/ UNCHANGED vars
  <2>1. UNCHANGED <<program, tracefiles, do, pass, i, stats, errors, report, faulted>>
    BY <1>1 DEF Make, Load, Speed, vars, mvars
  <2>2. program = "mdriver" => "num_ops" \in DOMAIN trace' /\ trace'.num_ops \in Nat
    <3>1. CASE Make
      BY <3>1 DEF Make
    <3>2. CASE Load
      BY <3>2, ReadOps DEF Load, MainInv, MainTypes
    <3>3. CASE Speed \/ UNCHANGED vars
      BY <3>3 DEF Speed, vars, fvars, MainInv, MainTypes
    <3> QED BY <3>1, <3>2, <3>3, <1>1
  <2> QED BY <2>1, <2>2, MainQuiet DEF Quiet
<1>2. CASE StartMain \/ OpenNext \/ Loaded \/ StartSpeed
  BY <1>2, MainGoes
<1>3. CASE LoadFails \/ LibcInvalid \/ SpeedFails \/ (Util /\ do' = "exit")
  <2>1. /\ do' = "exit" /\ do \notin {"start", "exit"}
        /\ UNCHANGED <<program, tracefiles, pass, i, trace, report, faulted>>
        /\ errors' \in {errors, errors + 1}
    BY <1>3 DEF LoadFails, LibcInvalid, SpeedFails, Util, Exit, Goto, options, fvars
  <2>2. UNCHANGED stats
    BY <1>3 DEF LoadFails, LibcInvalid, SpeedFails, Util, Exit, Goto
  <2> QED BY <2>1, <2>2, MainExits
<1>4. CASE Util /\ do' # "exit"
  BY <1>4, MainUtil
<1> QED BY <1>1, <1>2, <1>3, <1>4, MainValid, MainInvalid, MainSpeed, MainFree, MainReport
        DEF Next, MainNext

(* The invariant of main. *)
THEOREM MainAlways == FairSpec => []MainInv
<1>1. Init => MainInv
  BY MainInit
<1>2. MainInv /\ MeasurementInv /\ [Next]_vars => MainInv'
  BY MainStep DEF MeasurementInv
<1> QED BY <1>1, <1>2, Measurements, PTL DEF FairSpec

(* What main prints at the end agrees with what malloc_error was called    *)
(* about, and the index lies between 0 and 100.                            *)
THEOREM Reports == FairSpec => []ReportMatchesRuns
<1>1. MainInv => ReportMatchesRuns
  BY DEF MainInv
<1> QED BY <1>1, MainAlways, PTL

-----------------------------------------------------------------------------
(* Trace files *)

KnownTypes == {"a", "r", "f"}
AllKnown(s) == \A k \in 1 .. Len(s) : s[k].type \in KnownTypes
NoBlank(s) == \A k \in 1 .. Len(s) : s[k] # BLANK

-----------------------------------------------------------------------------
(* Allocated indices *)

(* What is live depends on the requests before. *)
LEMMA LivePrefix ==
  ASSUME NEW s, NEW t, NEW k \in Nat, NEW j, \A l \in 1 .. k - 1 : s[l] = t[l]
  PROVE  LiveBefore(s, k, j) <=> LiveBefore(t, k, j)
BY DEF LiveBefore

(* An allocation makes an index live and a free ends that. *)
LEMMA LiveNext ==
  ASSUME NEW s, NEW k \in Nat \ {0}, NEW j
  PROVE  LiveBefore(s, k + 1, j) <=> (s[k] = A(j) \/ (LiveBefore(s, k, j) /\ s[k] # F(j)))
<1>1. A(j) # F(j)
  BY DEF A, F
<1>2. ASSUME LiveBefore(s, k + 1, j), s[k] # A(j)
      PROVE  LiveBefore(s, k, j) /\ s[k] # F(j)
  <2>1. PICK l \in 1 .. k : s[l] = A(j) /\ \A m \in l + 1 .. k : s[m] # F(j)
    BY <1>2 DEF LiveBefore
  <2>2. l # k
    BY <1>2, <2>1
  <2> QED BY <2>1, <2>2 DEF LiveBefore
<1>3. ASSUME s[k] = A(j)
      PROVE  LiveBefore(s, k + 1, j)
  <2>1. k \in 1 .. (k + 1) - 1 /\ \A m \in k + 1 .. (k + 1) - 1 : FALSE
    OBVIOUS
  <2> QED BY <2>1, <1>3 DEF LiveBefore
<1>4. ASSUME LiveBefore(s, k, j), s[k] # F(j)
      PROVE  LiveBefore(s, k + 1, j)
  <2>1. PICK l \in 1 .. k - 1 : s[l] = A(j) /\ \A m \in l + 1 .. k - 1 : s[m] # F(j)
    BY <1>4 DEF LiveBefore
  <2>2. l \in 1 .. (k + 1) - 1 /\ \A m \in l + 1 .. (k + 1) - 1 : m = k \/ m \in l + 1 .. k - 1
    OBVIOUS
  <2> QED BY <2>1, <2>2, <1>4 DEF LiveBefore
<1> QED BY <1>2, <1>3, <1>4

(* Nothing is live at first. *)
LEMMA LiveFirst ==
  ASSUME NEW s, NEW j
  PROVE  ~LiveBefore(s, 1, j)
BY DEF LiveBefore

-----------------------------------------------------------------------------
(* The table of checktrace.pl *)

Hashes == [FileIds -> {ABSENT, "a", "r", "f", "x"}]

(* Complains and Tally as functions of the table. *)
Objects(t, req) ==
    \/ req.type = "r" /\ t[req.id] = ABSENT
    \/ req.type = "a" /\ t[req.id] \in {"a", "f"}
    \/ req.type = "f" /\ t[req.id] = ABSENT
Enter(t, req) ==
    CASE req.type \in {"", "r"} -> t
      [] req.type = "f" -> [t EXCEPT ![req.id] = ABSENT]
      [] OTHER -> [t EXCEPT ![req.id] = req.type]

(* h holds the tables the script has after 0, 1, .. requests of s, none of *)
(* which it objects to.                                                    *)
Tables(h, s) ==
    /\ h \in [0 .. Len(s) -> Hashes] /\ h[0] = NoHash
    /\ \A k \in 1 .. Len(s) : ~Objects(h[k - 1], s[k]) /\ h[k] = Enter(h[k - 1], s[k])

(* The indices of requests are numbers. *)
LEMMA IdsNat ==
  \A j \in FileIds : j \in Nat
BY TraceAssumption DEF FileIds

(* Every line has the fields that the script splits it into. *)
LEMMA LineFields ==
  ASSUME NEW l \in LineSet
  PROVE  /\ l.type \in {"", "a", "r", "f", "x"} /\ l.id \in FileIds
         /\ l.type = "" <=> l = BLANK
         /\ \A j : (l = A(j) <=> l.type = "a" /\ l.id = j)
         /\ \A j : (l = F(j) <=> l.type = "f" /\ l.id = j)
<1>1. 0 \in FileIds
  BY TraceAssumption DEF FileIds
<1>2. CASE l = BLANK
  BY <1>1, <1>2 DEF BLANK, A, F
<1>3. CASE l # BLANK
  <2>1. PICK y \in {"a", "r", "f", "x"}, j \in FileIds : l = [type |-> y, id |-> j]
    BY <1>3 DEF LineSet
  <2> QED BY <2>1 DEF BLANK, A, F
<1> QED BY <1>2, <1>3

(* A table after a line. *)
LEMMA EnterType ==
  ASSUME NEW t \in Hashes, NEW l \in LineSet
  PROVE  /\ Enter(t, l) \in Hashes
         /\ l.type \in {"", "r"} => Enter(t, l) = t
         /\ l.type = "f" => Enter(t, l) = [t EXCEPT ![l.id] = ABSENT]
         /\ l.type \in {"a", "x"} => Enter(t, l) = [t EXCEPT ![l.id] = l.type]
<1>1. l.type \in {"", "a", "r", "f", "x"} /\ l.id \in FileIds
  BY LineFields
<1>2. CASE l.type \in {"", "r"}
  BY <1>2 DEF Enter
<1>3. CASE l.type = "f"
  <2>1. Enter(t, l) = [t EXCEPT ![l.id] = ABSENT]
    BY <1>3 DEF Enter
  <2>2. [t EXCEPT ![l.id] = ABSENT] \in Hashes
    BY <1>1 DEF Hashes
  <2> QED BY <2>1, <2>2, <1>3
<1>4. CASE l.type \in {"a", "x"}
  <2>1. Enter(t, l) = [t EXCEPT ![l.id] = l.type]
    BY <1>4 DEF Enter
  <2>2. [t EXCEPT ![l.id] = l.type] \in Hashes
    BY <1>1, <1>4 DEF Hashes
  <2> QED BY <2>1, <2>2, <1>4
<1> QED BY <1>1, <1>2, <1>3, <1>4

(* If all types are known, the ids in the table are the live ones. *)
LEMMA TablesLive ==
  ASSUME NEW s \in Seq(LineSet), NEW h, Tables(h, s), AllKnown(s)
  PROVE  \A k \in 0 .. Len(s) : \A j \in FileIds :
            h[k][j] = IF LiveBefore(s, k + 1, j) THEN "a" ELSE ABSENT
<1> DEFINE Right(k) == \A j \in FileIds :
              h[k][j] = IF LiveBefore(s, k + 1, j) THEN "a" ELSE ABSENT
           T == {k \in Nat : k <= Len(s) => Right(k)}
<1>1. 0 \in T
  <2>1. h[0] = NoHash
    BY DEF Tables
  <2> QED BY <2>1, LiveFirst DEF NoHash
<1>2. ASSUME NEW k \in T PROVE k + 1 \in T
  <2> SUFFICES ASSUME k + 1 <= Len(s) PROVE Right(k + 1)
    OBVIOUS
  <2>1. k \in 0 .. Len(s) /\ k + 1 \in 1 .. Len(s) /\ (k + 1) - 1 = k
    OBVIOUS
  <2>2. s[k + 1] \in LineSet /\ s[k + 1].type \in KnownTypes
    BY <2>1 DEF AllKnown
  <2>3. h[k] \in Hashes /\ h[k + 1] = Enter(h[k], s[k + 1])
    BY <2>1 DEF Tables
  <2>4. Right(k)
    BY <1>2, <2>1
  <2> HIDE DEF Right
  <2> SUFFICES ASSUME NEW j \in FileIds
               PROVE  h[k + 1][j] = IF LiveBefore(s, k + 2, j) THEN "a" ELSE ABSENT
    BY DEF Right
  <2>5. h[k][j] = IF LiveBefore(s, k + 1, j) THEN "a" ELSE ABSENT
    BY <2>4 DEF Right
  <2>6. LiveBefore(s, k + 2, j) <=>
           (s[k + 1] = A(j) \/ (LiveBefore(s, k + 1, j) /\ s[k + 1] # F(j)))
    BY LiveNext, k + 1 \in Nat \ {0}, (k + 1) + 1 = k + 2
  <2>7. /\ s[k + 1] = A(j) <=> s[k + 1].type = "a" /\ s[k + 1].id = j
        /\ s[k + 1] = F(j) <=> s[k + 1].type = "f" /\ s[k + 1].id = j
    BY <2>2, LineFields
  <2>8. CASE s[k + 1].type = "r"
    BY <2>2, <2>3, <2>5, <2>6, <2>7, <2>8, EnterType
  <2>9. CASE s[k + 1].type = "f"
    <3>1. h[k + 1] = [h[k] EXCEPT ![s[k + 1].id] = ABSENT]
      BY <2>2, <2>3, <2>9, EnterType
    <3> QED BY <3>1, <2>3, <2>5, <2>6, <2>7, <2>9 DEF Hashes
  <2>10. CASE s[k + 1].type = "a"
    <3>1. h[k + 1] = [h[k] EXCEPT ![s[k + 1].id] = s[k + 1].type]
      BY <2>2, <2>3, <2>10, EnterType
    <3> QED BY <3>1, <2>3, <2>5, <2>6, <2>7, <2>10 DEF Hashes
  <2> QED BY <2>2, <2>8, <2>9, <2>10 DEF KnownTypes
<1>3. T = Nat
  <2> HIDE DEF Right
  <2>1. T \in SUBSET Nat
    OBVIOUS
  <2> HIDE DEF T
  <2> QED BY <2>1, <1>1, <1>2, Induction
<1>4. \A k \in 0 .. Len(s) : Right(k)
  BY <1>3
<1> QED BY <1>4

(* What the script does not object to may be replayed. *)
LEMMA TablesReplay ==
  ASSUME NEW s \in Seq(LineSet), NEW h, Tables(h, s), AllKnown(s)
  PROVE  Replayable(s)
<1> SUFFICES ASSUME NEW k \in 1 .. Len(s)
             PROVE  s[k].type = "a" <=> ~LiveBefore(s, k, s[k].id)
  BY DEF Replayable
<1>1. k - 1 \in 0 .. Len(s) /\ (k - 1) + 1 = k
  OBVIOUS
<1>2. s[k] \in LineSet /\ s[k].type \in KnownTypes
  BY DEF AllKnown
<1>5. s[k].id \in FileIds
  BY <1>2, LineFields
<1>3. h[k - 1][s[k].id] = IF LiveBefore(s, k, s[k].id) THEN "a" ELSE ABSENT
  BY <1>1, <1>5, TablesLive
<1>4. ~Objects(h[k - 1], s[k])
  BY DEF Tables
<1> QED BY <1>2, <1>3, <1>4 DEF Objects, KnownTypes, ABSENT

-----------------------------------------------------------------------------
(* The requests among the first lines *)

Count(s, p) == Cardinality({k \in 1 .. p : s[k] # BLANK})

(* ls is what has been saved of the first p lines of s. *)
Kept(ls, s, p) ==
    /\ ls \in Seq(LineSet) /\ Len(ls) = Count(s, p)
    /\ \A k \in 1 .. Len(ls) : ls[k] # BLANK /\ \E l \in 1 .. p : s[l] = ls[k]
    /\ \A l \in 1 .. p : s[l] # BLANK => \E k \in 1 .. Len(ls) : ls[k] = s[l]
    /\ (\A k \in 1 .. p : s[k] # BLANK) => Len(ls) = p /\ \A k \in 1 .. p : ls[k] = s[k]

(* The requests among a line more. *)
LEMMA CountType ==
  ASSUME NEW s, NEW p \in Nat
  PROVE  /\ Count(s, p) \in Nat
         /\ Count(s, p + 1) = IF s[p + 1] = BLANK THEN Count(s, p) ELSE Count(s, p) + 1
         /\ \A q \in 0 .. p : Count(s, q) <= Count(s, p)
<1> DEFINE C(q) == {k \in 1 .. q : s[k] # BLANK}
<1>1. IsFiniteSet(C(p)) /\ Cardinality(C(p)) \in Nat
  <2>1. IsFiniteSet(1 .. p) /\ C(p) \in SUBSET (1 .. p)
    BY FS_Interval
  <2> QED BY <2>1, FS_Subset, FS_CardinalityType
<1>2. ASSUME s[p + 1] = BLANK
      PROVE  Count(s, p + 1) = Count(s, p)
  <2>1. C(p + 1) = C(p)
    BY <1>2
  <2>2. Count(s, p + 1) = Cardinality(C(p + 1)) /\ Count(s, p) = Cardinality(C(p))
    BY DEF Count
  <2> HIDE DEF C
  <2>3. Count(s, p + 1) = Count(s, p) /\ Count(s, p) \in Nat
    BY <2>1, <2>2, <1>1
  <2> QED BY <2>3, <1>2
<1>3. ASSUME s[p + 1] # BLANK
      PROVE  Count(s, p + 1) = Count(s, p) + 1
  <2>1. C(p + 1) = C(p) \cup {p + 1} /\ p + 1 \notin C(p)
    BY <1>3
  <2>2. Cardinality(C(p + 1)) = Cardinality(C(p)) + 1
    <3> HIDE DEF C
    <3> QED BY <2>1, <1>1, FS_AddElement
  <2>3. Count(s, p + 1) = Cardinality(C(p + 1)) /\ Count(s, p) = Cardinality(C(p))
    BY DEF Count
  <2> HIDE DEF C
  <2>4. Count(s, p + 1) = Count(s, p) + 1 /\ Count(s, p) \in Nat
    BY <2>2, <2>3, <1>1
  <2> QED BY <2>4, <1>3
<1>4. \A q \in 0 .. p : Count(s, q) <= Count(s, p)
  <2> SUFFICES ASSUME NEW q \in 0 .. p PROVE Cardinality(C(q)) <= Cardinality(C(p))
    BY DEF Count
  <2>1. C(q) \in SUBSET C(p)
    OBVIOUS
  <2> QED BY <2>1, <1>1, FS_Subset
<1>5. Count(s, p) \in Nat
  BY <1>1 DEF Count
<1> HIDE DEF C
<1> QED BY <1>2, <1>3, <1>4, <1>5

(* Nothing is saved before the first line. *)
LEMMA KeptNone ==
  ASSUME NEW s
  PROVE  Kept(<<>>, s, 0)
<1>1. {k \in 1 .. 0 : s[k] # BLANK} = {}
  OBVIOUS
<1>2. Count(s, 0) = 0
  BY <1>1, FS_EmptySet DEF Count
<1> QED BY <1>2 DEF Kept

(* A line more. *)
LEMMA KeptNext ==
  ASSUME NEW s \in Seq(LineSet), NEW p \in Nat, p < Len(s), NEW ls, Kept(ls, s, p)
  PROVE  Kept(IF s[p + 1] = BLANK THEN ls ELSE Append(ls, s[p + 1]), s, p + 1)
<1>1. p + 1 \in 1 .. Len(s) /\ s[p + 1] \in LineSet
  OBVIOUS
<1>2. ls \in Seq(LineSet) /\ Len(ls) = Count(s, p)
  BY DEF Kept
<1>3. CASE s[p + 1] = BLANK
  <2>1. \A k \in 1 .. Len(ls) : ls[k] # BLANK /\ \E l \in 1 .. p + 1 : s[l] = ls[k]
    BY DEF Kept
  <2>2. \A l \in 1 .. p + 1 : s[l] # BLANK => \E k \in 1 .. Len(ls) : ls[k] = s[l]
    BY <1>3 DEF Kept
  <2>3. ~ \A k \in 1 .. p + 1 : s[k] # BLANK
    BY <1>3
  <2>4. Len(ls) = Count(s, p + 1)
    BY <1>2, <1>3, CountType
  <2> QED BY <2>1, <2>2, <2>3, <2>4, <1>2, <1>3 DEF Kept
<1>4. CASE s[p + 1] # BLANK
  <2> DEFINE ns == Append(ls, s[p + 1])
  <2>1. ns \in Seq(LineSet) /\ Len(ns) = Len(ls) + 1 /\ Len(ls) \in Nat
    BY <1>1, <1>2
  <2>2. ns[Len(ls) + 1] = s[p + 1] /\ \A k \in 1 .. Len(ls) : ns[k] = ls[k]
    BY <1>1, <1>2
  <2> HIDE DEF ns
  <2>3. Len(ns) = Count(s, p + 1)
    BY <1>2, <1>4, <2>1, CountType
  <2>4. \A k \in 1 .. Len(ns) : ns[k] # BLANK /\ \E l \in 1 .. p + 1 : s[l] = ns[k]
    <3> SUFFICES ASSUME NEW k \in 1 .. Len(ns)
                 PROVE  ns[k] # BLANK /\ \E l \in 1 .. p + 1 : s[l] = ns[k]
      OBVIOUS
    <3>1. CASE k = Len(ls) + 1
      BY <3>1, <2>2, <1>4
    <3>2. CASE k # Len(ls) + 1
      <4>1. k \in 1 .. Len(ls) /\ ns[k] = ls[k]
        BY <3>2, <2>1, <2>2
      <4>2. PICK l \in 1 .. p : s[l] = ls[k]
        BY <4>1 DEF Kept
      <4>3. ls[k] # BLANK
        BY <4>1 DEF Kept
      <4> QED BY <4>1, <4>2, <4>3
    <3> QED BY <3>1, <3>2
  <2>5. \A l \in 1 .. p + 1 : s[l] # BLANK => \E k \in 1 .. Len(ns) : ns[k] = s[l]
    <3> SUFFICES ASSUME NEW l \in 1 .. p + 1, s[l] # BLANK
                 PROVE  \E k \in 1 .. Len(ns) : ns[k] = s[l]
      OBVIOUS
    <3>1. CASE l = p + 1
      BY <3>1, <2>1, <2>2
    <3>2. CASE l # p + 1
      <4>1. PICK k \in 1 .. Len(ls) : ls[k] = s[l]
        BY <3>2 DEF Kept
      <4> QED BY <4>1, <2>1, <2>2
    <3> QED BY <3>1, <3>2
  <2>6. (\A k \in 1 .. p + 1 : s[k] # BLANK) =>
           Len(ns) = p + 1 /\ \A k \in 1 .. p + 1 : ns[k] = s[k]
    <3> SUFFICES ASSUME \A k \in 1 .. p + 1 : s[k] # BLANK
                 PROVE  Len(ns) = p + 1 /\ \A k \in 1 .. p + 1 : ns[k] = s[k]
      OBVIOUS
    <3>1. Len(ls) = p /\ \A k \in 1 .. p : ls[k] = s[k]
      BY DEF Kept
    <3> QED BY <3>1, <2>1, <2>2
  <2> QED BY <2>1, <2>3, <2>4, <2>5, <2>6, <1>4 DEF Kept, ns
<1> QED BY <1>3, <1>4

(* With no blank line, the whole of it is saved. *)
LEMMA KeptAll ==
  ASSUME NEW s \in Seq(LineSet), NoBlank(s), NEW ls, Kept(ls, s, Len(s))
  PROVE  ls = s
<1>1. Len(ls) = Len(s) /\ \A k \in 1 .. Len(s) : ls[k] = s[k]
  BY DEF Kept, NoBlank
<1>2. ls \in Seq(LineSet)
  BY DEF Kept
<1> QED BY <1>1, <1>2

-----------------------------------------------------------------------------
(* Headers *)

(* A balanced file has no blank line. *)
LEMMA RequestsAll ==
  ASSUME NEW f, f.lines \in Seq(LineSet), NoBlank(f.lines)
  PROVE  Requests(f) = 1 .. Len(f.lines) /\ Cardinality(Requests(f)) = Len(f.lines)
<1>1. Requests(f) = 1 .. Len(f.lines)
  BY DEF Requests, NoBlank
<1>2. Len(f.lines) \in Nat
  OBVIOUS
<1> QED BY <1>1, <1>2, FS_Interval

(* The requests that were saved, and frees of known ids, under a header    *)
(* that counts them.                                                       *)
LEMMA HeaderKept ==
  ASSUME NEW f \in Files, HeaderRight(f), NEW ls, Kept(ls, f.lines, Len(f.lines)),
         NEW n \in Nat, NEW fs \in [1 .. n -> LineSet],
         \A k \in 1 .. n : fs[k].type = "f" /\ fs[k].id < f.ids
  PROVE  HeaderRight(File(f.ids, f.ops + n, ls \o fs))
<1> DEFINE g == File(f.ids, f.ops + n, ls \o fs)
<1>1. f.lines \in Seq(LineSet) /\ f.ops \in Nat /\ f.ids \in Nat
  BY DEF Files
<1>2. ls \in Seq(LineSet) /\ Len(ls) \in Nat
  BY DEF Kept
<1>3. fs \in Seq(LineSet) /\ Len(fs) = n
  OBVIOUS
<1>4. /\ ls \o fs \in Seq(LineSet) /\ Len(ls \o fs) = Len(ls) + n
      /\ \A k \in 1 .. Len(ls) : (ls \o fs)[k] = ls[k]
      /\ \A k \in Len(ls) + 1 .. Len(ls) + n : (ls \o fs)[k] = fs[k - Len(ls)]
  BY <1>2, <1>3
<1>5. g.ids = f.ids /\ g.ops = f.ops + n /\ g.lines = ls \o fs
  BY DEF File
<1> HIDE DEF g
<1>6. \A k \in 1 .. Len(ls) + n :
         \/ k \in 1 .. Len(ls) /\ g.lines[k] = ls[k]
         \/ g.lines[k].type = "f" /\ g.lines[k].id < f.ids
  <2> SUFFICES ASSUME NEW k \in 1 .. Len(ls) + n, k \notin 1 .. Len(ls)
               PROVE  g.lines[k].type = "f" /\ g.lines[k].id < f.ids
    BY <1>2, <1>4, <1>5
  <2>1. k \in Len(ls) + 1 .. Len(ls) + n /\ k - Len(ls) \in 1 .. n
    BY <1>2
  <2> QED BY <2>1, <1>4, <1>5
<1>7. NoBlank(g.lines)
  <2>1. \A k \in 1 .. Len(ls) : ls[k] # BLANK
    BY DEF Kept
  <2>2. BLANK.type # "f"
    BY DEF BLANK
  <2> QED BY <2>1, <2>2, <1>4, <1>5, <1>6 DEF NoBlank
<1>8. Requests(g) = 1 .. Len(ls) + n /\ Cardinality(Requests(g)) = Len(ls) + n
  BY <1>4, <1>5, <1>7, RequestsAll
<1>9. Len(ls) = f.ops
  <2>1. Len(ls) = Count(f.lines, Len(f.lines))
    BY DEF Kept
  <2> QED BY <2>1 DEF Count, HeaderRight, Requests
<1>10. \A k \in 1 .. Len(ls) : \E l \in Requests(f) : f.lines[l] = ls[k]
  BY DEF Kept, Requests
<1>11. \A k \in Requests(g) : g.lines[k].type \in {"a", "r", "f"}
  BY <1>6, <1>8, <1>10 DEF HeaderRight
<1>12. \A k \in Requests(g) : g.lines[k].id < g.ids
  <2> SUFFICES ASSUME NEW k \in 1 .. Len(ls) + n, ~(g.lines[k].id < f.ids)
               PROVE  g.lines[k].id < g.ids
    BY <1>5, <1>8
  <2>1. k \in 1 .. Len(ls) /\ g.lines[k] = ls[k]
    BY <1>6
  <2>2. PICK l \in Requests(f) : f.lines[l] = ls[k]
    BY <2>1, <1>10
  <2> QED BY <2>1, <2>2, <1>5 DEF HeaderRight
<1>13. f.ids = 1 \/ \E k \in Requests(g) : g.lines[k].type # "f" /\ g.lines[k].id = g.ids - 1
  <2> SUFFICES ASSUME f.ids # 1
               PROVE  \E k \in Requests(g) : g.lines[k].type # "f" /\ g.lines[k].id = g.ids - 1
    OBVIOUS
  <2>1. PICK l \in Requests(f) : f.lines[l].type # "f" /\ f.lines[l].id = f.ids - 1
    BY DEF HeaderRight
  <2>2. l \in 1 .. Len(f.lines) /\ f.lines[l] # BLANK
    BY <2>1 DEF Requests
  <2>3. PICK k \in 1 .. Len(ls) : ls[k] = f.lines[l]
    BY <2>2 DEF Kept
  <2>4. k \in 1 .. Len(ls) + n /\ g.lines[k] = ls[k]
    BY <2>3, <1>2, <1>4, <1>5
  <2> QED BY <2>1, <2>3, <2>4, <1>5, <1>8
<1>14. g.ops = Cardinality(Requests(g))
  BY <1>5, <1>8, <1>9
<1>15. HeaderRight(g)
  BY <1>5, <1>11, <1>12, <1>13, <1>14 DEF HeaderRight
<1> QED BY <1>15 DEF g

-----------------------------------------------------------------------------
(* The frees that balance a file *)

Rank(S, j) == Cardinality({l \in S : l < j})

(* There are finitely many ids. *)
LEMMA FewIds ==
  ASSUME NEW S \in SUBSET FileIds
  PROVE  IsFiniteSet(S) /\ Cardinality(S) \in Nat
<1>1. IsFiniteSet(FileIds)
  BY TraceAssumption, FS_Interval DEF FileIds
<1> QED BY <1>1, FS_Subset, FS_CardinalityType

(* The ranks of the elements are different and less than their number. *)
LEMMA RankOnce ==
  ASSUME NEW S \in SUBSET FileIds, NEW j \in S
  PROVE  /\ Rank(S, j) \in 0 .. Cardinality(S) - 1
         /\ \A m \in S : j < m => Rank(S, j) < Rank(S, m)
<1> DEFINE Below(m) == {l \in S : l < m}
<1>1. \A m : Below(m) \in SUBSET FileIds /\ IsFiniteSet(Below(m)) /\ Cardinality(Below(m)) \in Nat
  BY FewIds
<1>2. \A m \in S : m \in Int
  BY DEF FileIds
<1>3. Below(j) \in SUBSET S /\ Below(j) # S
  BY <1>2
<1>4. IsFiniteSet(S) /\ Cardinality(S) \in Nat
  BY FewIds
<1>5. Cardinality(Below(j)) < Cardinality(S)
  <2> HIDE DEF Below
  <2>1. Cardinality(Below(j)) <= Cardinality(S) /\ Cardinality(Below(j)) # Cardinality(S)
    BY <1>3, <1>4, FS_Subset
  <2> QED BY <2>1, <1>1, <1>4
<1>6. ASSUME NEW m \in S, j < m
      PROVE  Cardinality(Below(j)) < Cardinality(Below(m))
  <2>1. Below(j) \in SUBSET Below(m) /\ Below(j) # Below(m)
    BY <1>2, <1>6
  <2> HIDE DEF Below
  <2>2. Cardinality(Below(j)) <= Cardinality(Below(m)) /\ Cardinality(Below(j)) # Cardinality(Below(m))
    BY <2>1, <1>1, FS_Subset
  <2> QED BY <2>2, <1>1
<1>7. \A m : Rank(S, m) = Cardinality(Below(m))
  BY DEF Rank
<1> HIDE DEF Below
<1> QED BY <1>1, <1>4, <1>5, <1>6, <1>7

(* Each number below theirs is a rank. *)
LEMMA RankExists ==
  ASSUME NEW S \in SUBSET FileIds, NEW k \in 1 .. Cardinality(S)
  PROVE  \E j \in S : Rank(S, j) = k - 1
<1> DEFINE n == Cardinality(S)
           r == [j \in S |-> Rank(S, j)]
<1>1. IsFiniteSet(S) /\ n \in Nat
  BY FewIds
<1>2. r \in Injection(S, 0 .. n - 1)
  <2>1. r \in [S -> 0 .. n - 1]
    BY RankOnce
  <2>2. ASSUME NEW j \in S, NEW m \in S, r[j] = r[m]
        PROVE  j = m
    <3>1. j \in Int /\ m \in Int
      BY DEF FileIds
    <3>2. Rank(S, j) = Rank(S, m) /\ Rank(S, j) \in Int
      BY <2>2, RankOnce
    <3>3. ~ (j < m) /\ ~ (m < j)
      BY <3>2, RankOnce
    <3> QED BY <3>1, <3>3
  <2> QED BY <2>1, <2>2 DEF Injection, IsInjective
<1>3. IsFiniteSet(0 .. n - 1) /\ Cardinality(0 .. n - 1) = n
  <2>1. 0 \in Int /\ n - 1 \in Int /\ (IF 0 > n - 1 THEN 0 ELSE (n - 1) - 0 + 1) = n
    BY <1>1
  <2> HIDE DEF n
  <2> QED BY <2>1, FS_Interval
<1>4. r \in Surjection(S, 0 .. n - 1)
  <2> HIDE DEF r
  <2> QED BY <1>1, <1>2, <1>3, FS_Injection
<1>5. k - 1 \in 0 .. n - 1
  BY <1>1
<1>6. PICK j \in S : r[j] = k - 1
  BY <1>4, <1>5 DEF Surjection
<1> QED BY <1>6

(* The elements of two sequences, one after the other. *)
LEMMA Joined ==
  ASSUME NEW T, NEW s \in Seq(T), NEW t \in Seq(T)
  PROVE  /\ s \o t \in Seq(T) /\ Len(s \o t) = Len(s) + Len(t)
         /\ \A k \in 1 .. Len(s) : (s \o t)[k] = s[k]
         /\ \A k \in Len(s) + 1 .. Len(s) + Len(t) : (s \o t)[k] = t[k - Len(s)]
OBVIOUS

(* After the frees, in the order of the ranks, the table is empty. *)
LEMMA TablesFreed ==
  ASSUME NEW s \in Seq(LineSet), NEW h, Tables(h, s),
         NEW S \in SUBSET FileIds, \A j \in FileIds : j \in S <=> h[Len(s)][j] # ABSENT,
         NEW n, n = Cardinality(S),
         NEW order \in [1 .. n -> S], \A k \in 1 .. n : Rank(S, order[k]) = k - 1,
         NEW fs \in [1 .. n -> LineSet], \A k \in 1 .. n : fs[k] = F(order[k])
  PROVE  \E g : Tables(g, s \o fs) /\ g[Len(s) + n] = NoHash
<1> DEFINE m == Len(s)
           t == h[m]
           G(q) == [j \in FileIds |-> IF Rank(S, j) >= q THEN t[j] ELSE ABSENT]
           g == [k \in 0 .. m + n |-> IF k <= m THEN h[k] ELSE G(k - m)]
<1>1. m \in Nat /\ n \in Nat /\ S \in SUBSET FileIds /\ IsFiniteSet(S)
  BY FewIds
<1>2. h \in [0 .. m -> Hashes] /\ h[0] = NoHash /\ t \in Hashes
  BY <1>1 DEF Tables
<1>3. \A j : Rank(S, j) \in Nat
  <2> SUFFICES ASSUME NEW j PROVE Rank(S, j) \in Nat
    OBVIOUS
  <2>1. {l \in S : l < j} \in SUBSET FileIds
    BY <1>1
  <2> QED BY <2>1, FewIds DEF Rank
<1>4. G(0) = t
  <2>1. G(0) = [j \in FileIds |-> t[j]]
    <3> HIDE DEF t
    <3> QED BY <1>3
  <2> HIDE DEF t
  <2> QED BY <2>1, <1>2 DEF Hashes
<1>5. \A q \in Nat : G(q) \in Hashes
  BY <1>2 DEF Hashes
<1>6. G(n) = NoHash
  <2> SUFFICES ASSUME NEW j \in FileIds PROVE G(n)[j] = ABSENT
    BY DEF NoHash
  <2>1. j \in S => Rank(S, j) < n
    BY <1>1, RankOnce
  <2> QED BY <2>1, <1>1, <1>3
<1>7. ASSUME NEW q \in 1 .. n
      PROVE  /\ ~Objects(G(q - 1), fs[q])
             /\ G(q) = Enter(G(q - 1), fs[q])
  <2>1. order[q] \in S /\ order[q] \in FileIds /\ t[order[q]] # ABSENT /\ Rank(S, order[q]) = q - 1
    BY <1>1
  <2>2. fs[q] = F(order[q]) /\ fs[q].type = "f" /\ fs[q].id = order[q]
    BY DEF F
  <2> HIDE DEF t
  <2>3. G(q - 1)[order[q]] # ABSENT
    BY <2>1, <1>1
  <2>4. ~Objects(G(q - 1), fs[q])
    <3> HIDE DEF G
    <3> QED BY <2>2, <2>3 DEF Objects
  <2>5. Enter(G(q - 1), fs[q]) = [G(q - 1) EXCEPT ![order[q]] = ABSENT]
    <3> HIDE DEF G
    <3> QED BY <2>2 DEF Enter
  <2>6. ASSUME NEW j \in FileIds
        PROVE  G(q)[j] = [G(q - 1) EXCEPT ![order[q]] = ABSENT][j]
    <3>1. CASE j = order[q]
      BY <3>1, <2>1, <1>1
    <3>2. CASE j \notin S
      <4>1. t[j] = ABSENT /\ j # order[q]
        BY <3>2, <2>1 DEF t
      <4> QED BY <4>1
    <3>3. CASE j \in S /\ j # order[q]
      <4>1. j \in Int /\ order[q] \in Int /\ Rank(S, j) \in Int
        BY <2>1, <1>3 DEF FileIds
      <4>2. Rank(S, j) # q - 1
        BY <3>3, <4>1, <2>1, <1>1, RankOnce
      <4>3. Rank(S, j) >= q <=> Rank(S, j) >= q - 1
        BY <4>1, <4>2
      <4> QED BY <4>3, <3>3
    <3> QED BY <3>1, <3>2, <3>3
  <2> QED BY <2>4, <2>5, <2>6
<1>8. fs \in Seq(LineSet) /\ Len(fs) = n
  BY <1>1
<1>9. /\ Len(s \o fs) = m + n
      /\ \A k \in 1 .. m : (s \o fs)[k] = s[k]
      /\ \A k \in m + 1 .. m + n : (s \o fs)[k] = fs[k - m]
  BY <1>8, Joined
<1>10. g \in [0 .. m + n -> Hashes] /\ g[0] = NoHash
  <2> HIDE DEF G
  <2>1. \A k \in 0 .. m + n : k <= m => k \in 0 .. m
    BY <1>1
  <2>2. \A k \in 0 .. m + n : ~ (k <= m) => k - m \in Nat
    BY <1>1
  <2> QED BY <2>1, <2>2, <1>1, <1>2, <1>5
<1>11. \A k \in m .. m + n : g[k] = G(k - m)
  <2> SUFFICES ASSUME NEW k \in m .. m + n PROVE g[k] = G(k - m)
    OBVIOUS
  <2>1. CASE k = m
    <3>1. g[k] = t /\ k - m = 0
      BY <2>1, <1>1
    <3> HIDE DEF G, g, t
    <3> QED BY <3>1, <1>4
  <2>2. CASE k # m
    <3> HIDE DEF G
    <3> QED BY <2>2, <1>1
  <2> QED BY <2>1, <2>2
<1>12. ASSUME NEW k \in 1 .. m + n
       PROVE  ~Objects(g[k - 1], (s \o fs)[k]) /\ g[k] = Enter(g[k - 1], (s \o fs)[k])
  <2>1. CASE k <= m
    <3>1. g[k] = h[k] /\ g[k - 1] = h[k - 1] /\ (s \o fs)[k] = s[k]
      BY <2>1, <1>1, <1>9
    <3>2. ~Objects(h[k - 1], s[k]) /\ h[k] = Enter(h[k - 1], s[k])
      BY <2>1, <1>1 DEF Tables
    <3> HIDE DEF g
    <3> QED BY <3>1, <3>2
  <2>2. CASE k > m
    <3>1. k - m \in 1 .. n /\ k \in m .. m + n /\ k - 1 \in m .. m + n /\ (k - 1) - m = (k - m) - 1
      BY <2>2, <1>1
    <3>2. g[k] = G(k - m) /\ g[k - 1] = G((k - m) - 1)
      <4> HIDE DEF g, G
      <4> QED BY <3>1, <1>11
    <3>3. (s \o fs)[k] = fs[k - m]
      BY <2>2, <1>1, <1>9
    <3> HIDE DEF g, G
    <3> QED BY <3>1, <3>2, <3>3, <1>7
  <2> QED BY <2>1, <2>2, <1>1
<1>13. g[m + n] = NoHash
  <2>1. m + n \in m .. m + n /\ (m + n) - m = n
    BY <1>1
  <2> HIDE DEF g, G
  <2> QED BY <2>1, <1>6, <1>11
<1>14. Tables(g, s \o fs) /\ g[Len(s) + n] = NoHash
  <2> HIDE DEF g
  <2> QED BY <1>9, <1>10, <1>12, <1>13 DEF Tables
<1> QED BY <1>14

(* A request more. *)
LEMMA TablesNext ==
  ASSUME NEW s \in Seq(LineSet), NEW h, Tables(h, s), NEW l \in LineSet,
         ~Objects(h[Len(s)], l)
  PROVE  \E g : Tables(g, Append(s, l)) /\ g[Len(s) + 1] = Enter(h[Len(s)], l)
<1> DEFINE m == Len(s)
           g == [k \in 0 .. m + 1 |-> IF k <= m THEN h[k] ELSE Enter(h[m], l)]
<1>1. m \in Nat /\ h \in [0 .. m -> Hashes] /\ h[0] = NoHash /\ h[m] \in Hashes
  BY DEF Tables
<1>2. Enter(h[m], l) \in Hashes
  BY <1>1, EnterType
<1>3. /\ Len(Append(s, l)) = m + 1 /\ Append(s, l)[m + 1] = l
      /\ \A k \in 1 .. m : Append(s, l)[k] = s[k]
  OBVIOUS
<1>4. g \in [0 .. m + 1 -> Hashes] /\ g[0] = NoHash /\ g[m + 1] = Enter(h[m], l) /\ g[m] = h[m]
  BY <1>1, <1>2
<1>5. ASSUME NEW k \in 1 .. m + 1
      PROVE  ~Objects(g[k - 1], Append(s, l)[k]) /\ g[k] = Enter(g[k - 1], Append(s, l)[k])
  <2>1. CASE k = m + 1
    <3>1. k - 1 = m
      BY <2>1, <1>1
    <3> HIDE DEF g
    <3> QED BY <2>1, <3>1, <1>3, <1>4
  <2>2. CASE k # m + 1
    <3>1. k \in 1 .. m /\ g[k] = h[k] /\ g[k - 1] = h[k - 1]
      BY <2>2, <1>1
    <3>2. ~Objects(h[k - 1], s[k]) /\ h[k] = Enter(h[k - 1], s[k])
      BY <3>1 DEF Tables
    <3> HIDE DEF g
    <3> QED BY <3>1, <3>2, <1>3
  <2> QED BY <2>1, <2>2
<1>6. Tables(g, Append(s, l)) /\ g[Len(s) + 1] = Enter(h[Len(s)], l)
  <2> HIDE DEF g
  <2> QED BY <1>3, <1>4, <1>5 DEF Tables
<1> QED BY <1>6

(* No requests, no objections. *)
LEMMA TablesNone ==
  \E g : Tables(g, <<>>) /\ g[0] = NoHash
<1>1. NoHash \in Hashes
  BY DEF NoHash, Hashes
<1>2. Tables([k \in 0 .. 0 |-> NoHash], <<>>)
  BY <1>1 DEF Tables
<1> QED BY <1>2

-----------------------------------------------------------------------------
(* The invariant *)

(* What is asked of a file, whoever wrote it; of one a generator wrote. *)
Fine(f) ==
    /\ f \in Files /\ NoBlank(f.lines) /\ AllKnown(f.lines)
    /\ Replayable(f.lines) /\ HeaderRight(f)

(* The file has been balanced: the script objects to none of its requests  *)
(* and its table is empty at the end.                                      *)
Balanced(f) ==
    NoBlank(f.lines) /\ \E h : Tables(h, f.lines) /\ h[Len(f.lines)] = NoHash

TraceTypes ==
    /\ file \in Files /\ pos \in 0 .. Len(file.lines) /\ balanced \in BOOLEAN
    /\ trace \in [num_ids : Nat, num_ops : Nat, ops : Seq(LineSet), max_index : Nat]

(* An outstanding id is that of a line the script has read. *)
Entered(ls) == \A j \in Outstanding : \E k \in 1 .. Len(ls) : ls[k].id = j

CheckInv ==
    tool = "check" =>
        /\ Kept(lines, file.lines, pos)
        /\ \E h : Tables(h, lines) /\ HASH = h[Len(lines)]
        /\ Entered(lines)

SummaryInv ==
    tool = "summary" =>
        /\ NoBlank(file.lines)
        /\ \E h : Tables(h, file.lines) /\ h[Len(file.lines)] = NoHash /\ HASH = h[pos]

(* The largest index of an allocation or reallocation among the first p    *)
(* lines, as read_trace computes it.                                       *)
Sized(l) == l.type \in {"a", "r"}
Largest(m, s, p) ==
    /\ \A k \in 1 .. p : Sized(s[k]) => s[k].id <= m
    /\ m = 0 \/ \E k \in 1 .. p : Sized(s[k]) /\ s[k].id = m

ReadInv ==
    tool \in {"read", "loaded"} =>
        /\ trace.num_ids = file.ids /\ trace.num_ops = file.ops
        /\ Kept(trace.ops, file.lines, pos)
        /\ \A k \in 1 .. pos : file.lines[k] = BLANK \/ file.lines[k].type \in KnownTypes
        /\ Largest(trace.max_index, file.lines, pos)
        /\ tool = "loaded" => pos = Len(file.lines)

(* How the programs may end. *)
EndInv ==
    /\ tool \in {"bogus", "assert"} => ~HeaderRight(file)
    /\ tool = "died" => file \notin Generated

TraceInv ==
    /\ TraceTypes /\ CheckInv /\ SummaryInv /\ ReadInv /\ EndInv
    /\ tool = "made" => balanced
    /\ tool \in {"written", "check", "summary", "died"} => ~balanced
    /\ balanced => Balanced(file)
    /\ tool = "written" => pos = 0 /\ HASH = NoHash /\ lines = <<>>
    /\ tool \notin {"read", "loaded", "bogus", "assert"} => trace = NoTrace

(* Before a file is read, and after free_trace. *)
LEMMA NoTraceType ==
  NoTrace \in [num_ids : Nat, num_ops : Nat, ops : Seq(LineSet), max_index : Nat]
BY DEF NoTrace

(* checktrace.pl starts. *)
LEMMA StartCheckStep ==
  ASSUME TraceInv, StartCheck
  PROVE  TraceInv'
<1>1. /\ tool = "written" /\ tool' = "check"
      /\ UNCHANGED <<file, pos, HASH, lines, balanced, trace>>
  BY DEF StartCheck
<1>2. TraceTypes'
  BY <1>1 DEF TraceInv, TraceTypes
<1>3. CheckInv'
  <2>1. Kept(<<>>, file.lines, 0)
    BY KeptNone
  <2>2. pos' = 0 /\ HASH' = NoHash /\ lines' = <<>> /\ file' = file
    BY <1>1 DEF TraceInv
  <2>3. \E h : Tables(h, lines') /\ HASH' = h[Len(lines')]
    <3>1. Len(<<>>) = 0
      OBVIOUS
    <3> QED BY <3>1, <2>2, TablesNone
  <2>4. Entered(lines)'
    BY <2>2 DEF Entered, Outstanding, NoHash
  <2> QED BY <2>1, <2>2, <2>3, <2>4 DEF CheckInv
<1>4. SummaryInv' /\ ReadInv' /\ EndInv'
  BY <1>1 DEF SummaryInv, ReadInv, EndInv
<1> QED BY <1>1, <1>2, <1>3, <1>4 DEF TraceInv

(* The next line, and the table after it. *)
LEMMA LineIs ==
  ASSUME TraceTypes, pos < Len(file.lines)
  PROVE  /\ Line = file.lines[pos + 1] /\ Line \in LineSet
         /\ pos \in Nat /\ file.lines \in Seq(LineSet)
         /\ Complains(Line) <=> Objects(HASH, Line)
         /\ Tally(Line) = Enter(HASH, Line)
<1>1. file.lines \in Seq(LineSet) /\ pos \in Nat
  BY DEF TraceTypes, Files
<1>2. pos + 1 \in 1 .. Len(file.lines)
  BY <1>1
<1> QED BY <1>1, <1>2 DEF Line, Complains, Objects, Tally, Enter

(* In a file of a generator checktrace.pl knows what is live. *)
LEMMA GeneratedLive ==
  ASSUME TraceInv, tool = "check", Fine(file)
  PROVE  \A j \in FileIds : HASH[j] = IF LiveBefore(file.lines, pos + 1, j) THEN "a" ELSE ABSENT
<1>1. file.lines \in Seq(LineSet) /\ pos \in 0 .. Len(file.lines)
  BY DEF TraceInv, TraceTypes, Files
<1>2. Kept(lines, file.lines, pos)
  BY DEF TraceInv, CheckInv
<1>3. lines \in Seq(LineSet) /\ Len(lines) = pos /\ \A k \in 1 .. pos : lines[k] = file.lines[k]
  BY <1>1, <1>2 DEF Kept, Fine, NoBlank
<1>4. AllKnown(lines)
  BY <1>1, <1>3 DEF AllKnown, Fine
<1>5. PICK h : Tables(h, lines) /\ HASH = h[Len(lines)]
  BY DEF TraceInv, CheckInv
<1>6. \A j \in FileIds : HASH[j] = IF LiveBefore(lines, pos + 1, j) THEN "a" ELSE ABSENT
  BY <1>1, <1>3, <1>4, <1>5, TablesLive
<1>7. \A j : LiveBefore(lines, pos + 1, j) <=> LiveBefore(file.lines, pos + 1, j)
  BY <1>1, <1>3, LivePrefix, pos + 1 \in Nat, (pos + 1) - 1 = pos
<1> QED BY <1>6, <1>7

(* It reads a line. *)
LEMMA CheckLineStep ==
  ASSUME TraceInv, CheckLine, \A f \in Generated : Fine(f)
  PROVE  TraceInv'
<1> USE DEF TraceInv
<1>1. /\ tool \in {"check", "summary"} /\ pos < Len(file.lines) /\ pos' = pos + 1
      /\ tool' = IF Complains(Line) THEN "died" ELSE tool
      /\ lines' = IF Line = BLANK THEN lines ELSE Append(lines, Line)
      /\ HASH' = IF Complains(Line) THEN HASH ELSE Tally(Line)
      /\ UNCHANGED <<file, balanced, trace>>
  BY DEF CheckLine
<1>2. /\ Line = file.lines[pos + 1] /\ Line \in LineSet
      /\ pos \in Nat /\ file.lines \in Seq(LineSet)
      /\ Complains(Line) <=> Objects(HASH, Line)
      /\ Tally(Line) = Enter(HASH, Line)
  BY <1>1, LineIs
<1>3. TraceTypes'
  BY <1>1, <1>2 DEF TraceTypes
<1>4. CASE tool = "check" /\ ~Complains(Line)
  <2>1. tool' = "check" /\ HASH' = Enter(HASH, Line)
    BY <1>1, <1>2, <1>4
  <2>2. Kept(lines', file.lines, pos + 1)
    BY <1>1, <1>2, <1>4, KeptNext DEF CheckInv
  <2>3. \E h : Tables(h, lines') /\ HASH' = h[Len(lines')]
    <3>1. PICK h : Tables(h, lines) /\ HASH = h[Len(lines)]
      BY <1>4 DEF CheckInv
    <3>2. lines \in Seq(LineSet)
      BY <1>4 DEF CheckInv, Kept
    <3>3. CASE Line = BLANK
      <4>1. HASH \in Hashes
        BY <3>1, <3>2 DEF Tables
      <4>2. Enter(HASH, Line) = HASH
        BY <4>1, <3>3, <1>2, EnterType, LineFields
      <4> QED BY <4>2, <3>1, <3>3, <2>1, <1>1
    <3>4. CASE Line # BLANK
      <4>1. lines' = Append(lines, Line) /\ Len(lines') = Len(lines) + 1
        BY <3>4, <3>2, <1>1
      <4>2. ~Objects(h[Len(lines)], Line)
        BY <3>1, <1>2, <1>4
      <4>3. \E g : Tables(g, Append(lines, Line)) /\ g[Len(lines) + 1] = Enter(h[Len(lines)], Line)
        BY <3>1, <3>2, <1>2, <4>2, TablesNext
      <4> QED BY <4>1, <4>3, <3>1, <2>1
    <3> QED BY <3>3, <3>4
  <2>6. Entered(lines)'
    <3> SUFFICES ASSUME NEW j \in FileIds, HASH'[j] # ABSENT
                 PROVE  \E k \in 1 .. Len(lines') : lines'[k].id = j
      BY DEF Entered, Outstanding
    <3>1. /\ lines \in Seq(LineSet)
          /\ HASH[j] # ABSENT => \E k \in 1 .. Len(lines) : lines[k].id = j
      BY <1>4 DEF CheckInv, Kept, Entered, Outstanding
    <3>2. HASH \in Hashes
      BY <1>4, <3>1 DEF CheckInv, Tables
    <3>3. CASE Line = BLANK
      <4>1. Enter(HASH, Line) = HASH
        BY <3>2, <3>3, <1>2, EnterType, LineFields
      <4> QED BY <4>1, <3>1, <3>3, <2>1, <1>1
    <3>4. CASE Line # BLANK
      <4>1. lines' = Append(lines, Line)
        BY <3>4, <1>1
      <4>2. /\ Len(lines') = Len(lines) + 1 /\ lines'[Len(lines) + 1] = Line
            /\ \A k \in 1 .. Len(lines) : k \in 1 .. Len(lines') /\ lines'[k] = lines[k]
        BY <4>1, <3>1, <1>2
      <4>3. Len(lines) + 1 \in 1 .. Len(lines')
        BY <4>2, <3>1
      <4>4. HASH'[j] = HASH[j] \/ j = Line.id
        BY <2>1, <3>2 DEF Enter, Hashes
      <4> QED BY <4>2, <4>3, <4>4, <3>1
    <3> QED BY <3>3, <3>4
  <2>4. CheckInv'
    BY <2>1, <2>2, <2>3, <2>6, <1>1 DEF CheckInv
  <2>5. SummaryInv' /\ ReadInv' /\ EndInv'
    BY <2>1 DEF SummaryInv, ReadInv, EndInv
  <2> QED BY <2>1, <2>4, <2>5, <1>1, <1>3, <1>4
<1>5. CASE tool = "check" /\ Complains(Line)
  <2>1. tool' = "died"
    BY <1>1, <1>5
  <2>2. file \notin Generated
    <3> SUFFICES ASSUME file \in Generated PROVE FALSE
      OBVIOUS
    <3>1. Fine(file)
      OBVIOUS
    <3>2. \A j \in FileIds :
             HASH[j] = IF LiveBefore(file.lines, pos + 1, j) THEN "a" ELSE ABSENT
      BY <3>1, <1>5, GeneratedLive
    <3>3. pos + 1 \in 1 .. Len(file.lines)
      BY <1>1, <1>2
    <3>4. Line.type = "a" <=> ~LiveBefore(file.lines, pos + 1, Line.id)
      BY <3>1, <3>3, <1>2 DEF Fine, Replayable
    <3>5. Line.id \in FileIds
      BY <1>2, LineFields
    <3>6. Objects(HASH, Line)
      BY <1>2, <1>5
    <3> QED BY <3>2, <3>4, <3>5, <3>6 DEF Objects, ABSENT
  <2>3. CheckInv' /\ SummaryInv' /\ ReadInv' /\ EndInv'
    BY <2>1, <2>2, <1>1 DEF CheckInv, SummaryInv, ReadInv, EndInv
  <2> QED BY <2>1, <2>3, <1>1, <1>3, <1>5
<1>6. CASE tool = "summary"
  <2>1. PICK h : Tables(h, file.lines) /\ h[Len(file.lines)] = NoHash /\ HASH = h[pos]
    BY <1>6 DEF SummaryInv
  <2>2. ~Objects(h[pos], Line) /\ h[pos + 1] = Enter(h[pos], Line)
    <3>1. pos + 1 \in 1 .. Len(file.lines) /\ (pos + 1) - 1 = pos
      BY <1>1, <1>2
    <3> QED BY <2>1, <3>1, <1>2 DEF Tables
  <2>3. tool' = "summary" /\ HASH' = h[pos']
    BY <2>1, <2>2, <1>1, <1>2, <1>6
  <2>4. SummaryInv'
    <3>1. NoBlank(file.lines)
      BY <1>6 DEF SummaryInv
    <3> QED BY <2>1, <2>3, <3>1, <1>1 DEF SummaryInv
  <2>5. CheckInv' /\ ReadInv' /\ EndInv'
    BY <2>3 DEF CheckInv, ReadInv, EndInv
  <2> QED BY <2>3, <2>4, <2>5, <1>1, <1>3, <1>6
<1> QED BY <1>1, <1>4, <1>5, <1>6

(* The frees are those of the outstanding ids, in the order of their ranks. *)
LEMMA FreesAre ==
  ASSUME NEW n, n = Cardinality(Outstanding)
  PROVE  \E order \in [1 .. n -> Outstanding] :
            /\ \A k \in 1 .. n : Rank(Outstanding, order[k]) = k - 1
            /\ Frees(n) = [k \in 1 .. n |-> F(order[k])]
<1> DEFINE order == [k \in 1 .. n |-> CHOOSE j \in Outstanding : Rank(Outstanding, j) = k - 1]
<1>1. Outstanding \in SUBSET FileIds
  BY DEF Outstanding
<1>2. ASSUME NEW k \in 1 .. n
      PROVE  order[k] \in Outstanding /\ Rank(Outstanding, order[k]) = k - 1
  BY <1>1, RankExists
<1>3. order \in [1 .. n -> Outstanding]
  BY <1>2
<1>4. Frees(n) = [k \in 1 .. n |-> F(order[k])]
  BY DEF Frees, Rank
<1> HIDE DEF order
<1> QED BY <1>2, <1>3, <1>4

(* The output of checktrace.pl is balanced. *)
LEMMA EndCheckStep ==
  ASSUME TraceInv, EndCheck, \A f \in Generated : Fine(f)
  PROVE  TraceInv'
<1>1. /\ tool = "check" /\ pos = Len(file.lines) /\ UNCHANGED <<balanced, trace>>
      /\ IF \A j \in Outstanding : HASH[j] = "a"
         THEN /\ tool' = "summary" /\ file' = Balance
              /\ pos' = 0 /\ HASH' = NoHash /\ lines' = <<>>
         ELSE tool' = "died" /\ UNCHANGED <<file, pos, HASH, lines>>
  BY DEF EndCheck
<1>2. file \in Files /\ file.lines \in Seq(LineSet) /\ file.ids \in Nat /\ file.ops \in Nat
  BY DEF TraceInv, TraceTypes, Files
<1>3. CASE \A j \in Outstanding : HASH[j] = "a"
  <2> DEFINE n == Cardinality(Outstanding)
  <2>1. tool' = "summary" /\ file' = Balance /\ pos' = 0 /\ HASH' = NoHash /\ lines' = <<>>
    BY <1>1, <1>3
  <2>2. Kept(lines, file.lines, pos) /\ lines \in Seq(LineSet)
    BY <1>1 DEF TraceInv, CheckInv, Kept
  <2>3. PICK h : Tables(h, lines) /\ HASH = h[Len(lines)]
    BY <1>1 DEF TraceInv, CheckInv
  <2>4. Outstanding \in SUBSET FileIds /\ n \in Nat
    BY FewIds DEF Outstanding
  <2>5. \A j \in FileIds : j \in Outstanding <=> h[Len(lines)][j] # ABSENT
    BY <2>3 DEF Outstanding
  <2>6. PICK order \in [1 .. n -> Outstanding] :
            /\ \A k \in 1 .. n : Rank(Outstanding, order[k]) = k - 1
            /\ Frees(n) = [k \in 1 .. n |-> F(order[k])]
    BY FreesAre
  <2>7. Balance = File(file.ids, file.ops + n, lines \o Frees(n))
    BY DEF Balance
  <2>8. \A k \in 1 .. n : Frees(n)[k] = F(order[k]) /\ order[k] \in FileIds
    BY <2>4, <2>6
  <2>9. Frees(n) \in [1 .. n -> LineSet] /\ \A k \in 1 .. n : Frees(n)[k].type = "f"
    <3>1. \A k \in 1 .. n : Frees(n)[k] \in LineSet /\ Frees(n)[k].type = "f"
      <4> SUFFICES ASSUME NEW k \in 1 .. n PROVE F(order[k]) \in LineSet /\ F(order[k]).type = "f"
        BY <2>8
      <4>1. order[k] \in FileIds
        BY <2>8
      <4> QED BY <4>1 DEF F, LineSet
    <3>2. Frees(n) = [k \in 1 .. n |-> Frees(n)[k]]
      BY <2>6
    <3> HIDE DEF n
    <3> QED BY <3>1, <3>2
  <2> HIDE DEF n
  <2>10. /\ lines \o Frees(n) \in Seq(LineSet) /\ Len(lines \o Frees(n)) = Len(lines) + n
         /\ \A k \in 1 .. Len(lines) : (lines \o Frees(n))[k] = lines[k]
         /\ \A k \in Len(lines) + 1 .. Len(lines) + n :
               (lines \o Frees(n))[k] = Frees(n)[k - Len(lines)]
    <3>1. Frees(n) \in Seq(LineSet) /\ Len(Frees(n)) = n
      BY <2>4, <2>9
    <3> QED BY <2>2, <3>1
  <2>11. /\ file'.lines = lines \o Frees(n) /\ file'.ids = file.ids /\ file'.ops = file.ops + n
         /\ file' \in Files
    BY <2>1, <2>4, <2>7, <2>10, <1>2 DEF File, Files
  <2>12. NoBlank(lines \o Frees(n))
    <3> SUFFICES ASSUME NEW k \in 1 .. Len(lines) + n
                 PROVE  (lines \o Frees(n))[k] # BLANK
      BY <2>10 DEF NoBlank
    <3>1. CASE k \in 1 .. Len(lines)
      BY <3>1, <2>2, <2>10 DEF Kept
    <3>2. CASE k \notin 1 .. Len(lines)
      <4>1. k \in Len(lines) + 1 .. Len(lines) + n /\ k - Len(lines) \in 1 .. n
        BY <3>2, <2>2, <2>4
      <4>2. Frees(n)[k - Len(lines)].type = "f" /\ BLANK.type = ""
        BY <4>1, <2>9 DEF BLANK
      <4> QED BY <4>1, <4>2, <2>10
    <3> QED BY <3>1, <3>2
  <2>13. PICK g : Tables(g, lines \o Frees(n)) /\ g[Len(lines) + n] = NoHash
    <3>1. n = Cardinality(Outstanding)
      BY DEF n
    <3>2. /\ order \in [1 .. n -> Outstanding] /\ Frees(n) \in [1 .. n -> LineSet]
          /\ \A k \in 1 .. n : Rank(Outstanding, order[k]) = k - 1
      BY <2>6, <2>9
    <3>3. \A k \in 1 .. n : Frees(n)[k] = F(order[k])
      BY <2>8
    <3>4. \A S \in SUBSET FileIds : \A fs \in [1 .. n -> LineSet] :
             /\ \A j \in FileIds : j \in S <=> h[Len(lines)][j] # ABSENT
             /\ n = Cardinality(S) /\ order \in [1 .. n -> S]
             /\ \A k \in 1 .. n : Rank(S, order[k]) = k - 1
             /\ \A k \in 1 .. n : fs[k] = F(order[k])
             => \E g : Tables(g, lines \o fs) /\ g[Len(lines) + n] = NoHash
      BY <2>2, <2>3, TablesFreed
    <3> QED BY <3>1, <3>2, <3>3, <3>4, <2>4, <2>5
  <2>14. SummaryInv'
    <3>1. g[0] = NoHash /\ g[Len(file'.lines)] = NoHash /\ Tables(g, file'.lines)
      BY <2>10, <2>11, <2>13 DEF Tables
    <3> QED BY <3>1, <2>1, <2>11, <2>12 DEF SummaryInv
  <2>15. TraceTypes'
    <3>1. pos' \in 0 .. Len(file'.lines)
      BY <2>1, <2>2, <2>4, <2>10, <2>11
    <3> QED BY <3>1, <2>11, <1>1 DEF TraceInv, TraceTypes
  <2>16. CheckInv' /\ ReadInv' /\ EndInv'
    BY <2>1 DEF CheckInv, ReadInv, EndInv
  <2> QED BY <2>1, <2>14, <2>15, <2>16, <1>1 DEF TraceInv
<1>4. CASE ~ \A j \in Outstanding : HASH[j] = "a"
  <2>1. tool' = "died" /\ UNCHANGED <<file, pos, HASH, lines>>
    BY <1>1, <1>4
  <2>2. file \notin Generated
    <3> SUFFICES ASSUME Fine(file) PROVE FALSE
      OBVIOUS
    <3>1. \A j \in FileIds : HASH[j] \in {"a", ABSENT}
      BY <1>1, GeneratedLive
    <3> QED BY <3>1, <1>4 DEF Outstanding
  <2>3. CheckInv' /\ SummaryInv' /\ ReadInv' /\ EndInv' /\ TraceTypes'
    BY <2>1, <2>2, <1>1 DEF CheckInv, SummaryInv, ReadInv, EndInv, TraceInv, TraceTypes
  <2> QED BY <2>1, <2>3, <1>1 DEF TraceInv
<1> QED BY <1>3, <1>4

(* The table is empty when the balanced file has been read. *)
LEMMA EndSummaryStep ==
  ASSUME TraceInv, EndSummary
  PROVE  TraceInv'
<1>1. /\ tool = "summary" /\ pos = Len(file.lines) /\ tool' = "made"
      /\ balanced' = (Outstanding = {})
      /\ pos' = 0 /\ HASH' = NoHash /\ lines' = <<>>
      /\ UNCHANGED <<file, trace>>
  BY DEF EndSummary
<1>2. NoBlank(file.lines) /\ HASH = NoHash /\ Balanced(file)
  BY <1>1 DEF TraceInv, SummaryInv, Balanced
<1>3. balanced' = TRUE
  BY <1>1, <1>2 DEF Outstanding, NoHash
<1>4. TraceTypes'
  BY <1>1, <1>3 DEF TraceInv, TraceTypes, Files
<1>5. CheckInv' /\ SummaryInv' /\ ReadInv' /\ EndInv'
  BY <1>1 DEF CheckInv, SummaryInv, ReadInv, EndInv
<1> QED BY <1>1, <1>2, <1>3, <1>4, <1>5 DEF TraceInv

(* read_trace opens a file. *)
LEMMA OpenTraceStep ==
  ASSUME TraceInv, NEW f \in Files, OpenTrace(f), balanced => f = file
  PROVE  TraceInv'
<1>1. /\ file' = f /\ pos' = 0 /\ tool' = "read" /\ UNCHANGED <<HASH, lines, balanced>>
      /\ trace' = [NoTrace EXCEPT !.num_ids = f.ids, !.num_ops = f.ops]
  BY DEF OpenTrace
<1>2. f.ids \in Nat /\ f.ops \in Nat /\ Len(f.lines) \in Nat
  BY DEF Files
<1>3. /\ trace' \in [num_ids : Nat, num_ops : Nat, ops : Seq(LineSet), max_index : Nat]
      /\ trace'.num_ids = f.ids /\ trace'.num_ops = f.ops
      /\ trace'.ops = <<>> /\ trace'.max_index = 0
  <2>1. trace' = [num_ids |-> f.ids, num_ops |-> f.ops, ops |-> <<>>, max_index |-> 0]
    BY <1>1 DEF NoTrace
  <2> QED BY <2>1, <1>2
<1>4. TraceTypes'
  BY <1>1, <1>2, <1>3 DEF TraceInv, TraceTypes
<1>5. ReadInv'
  <2>1. Kept(<<>>, f.lines, 0) /\ Largest(0, f.lines, 0)
    BY KeptNone DEF Largest
  <2> QED BY <2>1, <1>1, <1>3 DEF ReadInv
<1>6. CheckInv' /\ SummaryInv' /\ EndInv'
  BY <1>1 DEF CheckInv, SummaryInv, EndInv
<1> QED BY <1>1, <1>4, <1>5, <1>6 DEF TraceInv

(* read_trace reads a line. *)
LEMMA ReadLineStep ==
  ASSUME TraceInv, ReadLine
  PROVE  TraceInv'
<1>1. /\ tool = "read" /\ pos < Len(file.lines) /\ pos' = pos + 1
      /\ UNCHANGED <<file, HASH, lines, balanced>>
  BY DEF ReadLine
<1>11. trace' = IF Line.type \in {"a", "r", "f"}
                THEN [trace EXCEPT !.ops = Append(@, Line), !.max_index = MaxIndex(Line)]
                ELSE trace
  BY DEF ReadLine
<1>12. tool' = IF Line.type \in {"a", "r", "f", ""} THEN tool ELSE "bogus"
  BY DEF ReadLine
<1>2. /\ Line = file.lines[pos + 1] /\ Line \in LineSet
      /\ pos \in Nat /\ file.lines \in Seq(LineSet)
  BY <1>1, LineIs DEF TraceInv
<1>10. pos + 1 \in 1 .. Len(file.lines) /\ \A k \in 1 .. pos : k \in 1 .. Len(file.lines)
  <2>1. pos \in Nat /\ Len(file.lines) \in Nat /\ pos < Len(file.lines)
    BY <1>1, <1>2
  <2> QED BY <2>1
<1>3. /\ Line.type \in {"", "a", "r", "f", "x"} /\ Line.id \in FileIds
      /\ Line.type = "" <=> Line = BLANK
  BY <1>2, LineFields
<1>4. /\ trace.num_ids = file.ids /\ trace.num_ops = file.ops
      /\ Kept(trace.ops, file.lines, pos) /\ Largest(trace.max_index, file.lines, pos)
      /\ \A k \in 1 .. pos : file.lines[k] = BLANK \/ file.lines[k].type \in KnownTypes
  BY <1>1 DEF TraceInv, ReadInv
<1>5. trace \in [num_ids : Nat, num_ops : Nat, ops : Seq(LineSet), max_index : Nat]
  BY DEF TraceInv, TraceTypes
<1>6. Line.id \in Nat
  BY <1>3, IdsNat
<1>7. CASE Line.type \in {"a", "r", "f"}
  <2>1. MaxIndex(Line) \in Nat
    BY <1>5, <1>6 DEF MaxIndex
  <2>2. trace' = [num_ids |-> trace.num_ids, num_ops |-> trace.num_ops,
                  ops |-> Append(trace.ops, Line), max_index |-> MaxIndex(Line)]
    BY <1>5, <1>7, <1>11
  <2>3. trace' \in [num_ids : Nat, num_ops : Nat, ops : Seq(LineSet), max_index : Nat]
    BY <2>1, <2>2, <1>2, <1>5
  <2>4. tool' = "read" /\ Line # BLANK
    BY <1>1, <1>3, <1>7, <1>12
  <2>5. Kept(Append(trace.ops, Line), file.lines, pos + 1)
    BY <2>4, <1>1, <1>2, <1>4, KeptNext
  <2>6. Largest(MaxIndex(Line), file.lines, pos + 1)
    <3> DEFINE m == MaxIndex(Line)
    <3>1. m = IF Sized(Line) /\ Line.id > trace.max_index THEN Line.id ELSE trace.max_index
      BY DEF MaxIndex, Sized
    <3>2. m >= trace.max_index /\ (Sized(Line) => Line.id <= m)
      BY <3>1, <1>5, <1>6
    <3>3. \A k \in 1 .. pos : Sized(file.lines[k]) => file.lines[k].id \in Nat
      <4> SUFFICES ASSUME NEW k \in 1 .. pos PROVE file.lines[k].id \in Nat
        OBVIOUS
      <4>1. file.lines[k] \in LineSet
        BY <1>2, <1>10
      <4>2. file.lines[k].id \in FileIds
        BY <4>1, LineFields
      <4> QED BY <4>2, IdsNat
    <3>4. m = trace.max_index \/ (Sized(Line) /\ m = Line.id)
      BY <3>1
    <3> HIDE DEF m
    <3>5. \A k \in 1 .. pos + 1 : Sized(file.lines[k]) => file.lines[k].id <= m
      <4> SUFFICES ASSUME NEW k \in 1 .. pos + 1, Sized(file.lines[k])
                   PROVE  file.lines[k].id <= m
        OBVIOUS
      <4>1. CASE k = pos + 1
        BY <4>1, <3>2, <1>2
      <4>2. CASE k # pos + 1
        <5>1. k \in 1 .. pos
          BY <4>2, <1>2
        <5>2. file.lines[k].id <= trace.max_index /\ file.lines[k].id \in Nat
          BY <5>1, <3>3, <1>4 DEF Largest
        <5>3. m \in Nat
          BY <2>1 DEF m
        <5> QED BY <5>2, <5>3, <3>2, <1>5
      <4> QED BY <4>1, <4>2
    <3>6. m = 0 \/ \E k \in 1 .. pos + 1 : Sized(file.lines[k]) /\ file.lines[k].id = m
      <4>1. CASE m = trace.max_index
        <5>1. \A k \in 1 .. pos : k \in 1 .. pos + 1
          BY <1>2
        <5> QED BY <4>1, <5>1, <1>4 DEF Largest
      <4>2. CASE Sized(Line) /\ m = Line.id
        BY <4>2, <1>2
      <4> QED BY <4>1, <4>2, <3>4
    <3> QED BY <3>5, <3>6 DEF Largest, m
  <2>7. \A k \in 1 .. pos + 1 : file.lines[k] = BLANK \/ file.lines[k].type \in KnownTypes
    BY <1>2, <1>4, <1>7 DEF KnownTypes
  <2>8. ReadInv'
    <3>1. /\ trace'.num_ids = trace.num_ids /\ trace'.num_ops = trace.num_ops
          /\ trace'.ops = Append(trace.ops, Line) /\ trace'.max_index = MaxIndex(Line)
      BY <2>2
    <3> QED BY <3>1, <2>4, <2>5, <2>6, <2>7, <1>1, <1>4 DEF ReadInv
  <2>9. TraceTypes'
    <3>1. file' = file /\ balanced' = balanced /\ pos' \in 0 .. Len(file.lines)
      BY <1>1, <1>10
    <3> QED BY <3>1, <2>3 DEF TraceInv, TraceTypes
  <2>10. CheckInv' /\ SummaryInv' /\ EndInv'
    BY <2>4 DEF CheckInv, SummaryInv, EndInv
  <2> QED BY <2>4, <2>8, <2>9, <2>10, <1>1 DEF TraceInv
<1>8. CASE Line.type = ""
  <2>1. tool' = "read" /\ trace' = trace /\ Line = BLANK /\ ~Sized(Line)
    BY <1>1, <1>3, <1>8, <1>11, <1>12 DEF Sized
  <2>2. Kept(trace.ops, file.lines, pos + 1)
    BY <2>1, <1>1, <1>2, <1>4, KeptNext
  <2>3. Largest(trace.max_index, file.lines, pos + 1)
    <3>1. \A k \in 1 .. pos + 1 : k = pos + 1 \/ k \in 1 .. pos
      BY <1>2
    <3>2. \A k \in 1 .. pos : k \in 1 .. pos + 1
      BY <1>2
    <3> QED BY <3>1, <3>2, <2>1, <1>2, <1>4 DEF Largest
  <2>4. \A k \in 1 .. pos + 1 : file.lines[k] = BLANK \/ file.lines[k].type \in KnownTypes
    BY <2>1, <1>2, <1>4
  <2>5. ReadInv'
    BY <2>1, <2>2, <2>3, <2>4, <1>1, <1>4 DEF ReadInv
  <2>6. TraceTypes'
    <3>1. file' = file /\ balanced' = balanced /\ pos' \in 0 .. Len(file.lines)
      BY <1>1, <1>10
    <3> QED BY <3>1, <2>1 DEF TraceInv, TraceTypes
  <2>7. CheckInv' /\ SummaryInv' /\ EndInv'
    BY <2>1 DEF CheckInv, SummaryInv, EndInv
  <2> QED BY <2>1, <2>5, <2>6, <2>7, <1>1 DEF TraceInv
<1>9. CASE Line.type = "x"
  <2>1. tool' = "bogus" /\ trace' = trace
    BY <1>9, <1>11, <1>12
  <2>2. ~HeaderRight(file)
    <3>1. pos + 1 \in Requests(file)
      BY <1>2, <1>3, <1>9, <1>10 DEF Requests
    <3> QED BY <3>1, <1>2, <1>9 DEF HeaderRight
  <2>3. TraceTypes'
    <3>1. file' = file /\ balanced' = balanced /\ pos' \in 0 .. Len(file.lines)
      BY <1>1, <1>10
    <3> QED BY <3>1, <2>1 DEF TraceInv, TraceTypes
  <2>4. CheckInv' /\ SummaryInv' /\ ReadInv' /\ EndInv'
    BY <2>1, <2>2, <1>1 DEF CheckInv, SummaryInv, ReadInv, EndInv
  <2> QED BY <2>1, <2>3, <2>4, <1>1 DEF TraceInv
<1> QED BY <1>3, <1>7, <1>8, <1>9

(* With a right header no request is stored past the end of ops, and none  *)
(* has an index past the end of blocks.                                    *)
LEMMA HeaderHolds ==
  ASSUME TraceInv, HeaderRight(file), tool \in {"read", "loaded"}
  PROVE  /\ Len(trace.ops) <= trace.num_ops
         /\ \A k \in DOMAIN trace.ops : trace.ops[k].id < trace.num_ids
         /\ pos = Len(file.lines) =>
               trace.max_index = trace.num_ids - 1 /\ trace.num_ops = Len(trace.ops)
<1>1. /\ file.lines \in Seq(LineSet) /\ pos \in 0 .. Len(file.lines)
      /\ file.ids \in Nat /\ file.ops \in Nat /\ trace.max_index \in Nat
  BY DEF TraceInv, TraceTypes, Files
<1>2. /\ trace.num_ids = file.ids /\ trace.num_ops = file.ops
      /\ Kept(trace.ops, file.lines, pos) /\ Largest(trace.max_index, file.lines, pos)
  BY DEF TraceInv, ReadInv
<1>3. file.ops = Count(file.lines, Len(file.lines))
  BY DEF HeaderRight, Requests, Count
<1>4. Len(trace.ops) = Count(file.lines, pos)
  BY <1>2 DEF Kept
<1>5. Count(file.lines, pos) <= Count(file.lines, Len(file.lines))
  BY <1>1, CountType, Len(file.lines) \in Nat
<1>6. \A k \in 1 .. Len(file.lines) :
         /\ file.lines[k] \in LineSet /\ file.lines[k].id \in Nat
         /\ Sized(file.lines[k]) <=>
               k \in Requests(file) /\ file.lines[k].type # "f"
  <2> SUFFICES ASSUME NEW k \in 1 .. Len(file.lines)
               PROVE  /\ file.lines[k] \in LineSet /\ file.lines[k].id \in Nat
                      /\ Sized(file.lines[k]) <=>
                            k \in Requests(file) /\ file.lines[k].type # "f"
    OBVIOUS
  <2>1. file.lines[k] \in LineSet
    BY <1>1
  <2>2. /\ file.lines[k].type \in {"", "a", "r", "f", "x"} /\ file.lines[k].id \in FileIds
        /\ file.lines[k].type = "" <=> file.lines[k] = BLANK
    BY <2>1, LineFields
  <2>3. k \in Requests(file) <=> file.lines[k] # BLANK
    BY DEF Requests
  <2>4. k \in Requests(file) => file.lines[k].type \in {"a", "r", "f"}
    BY DEF HeaderRight
  <2>5. file.lines[k].id \in Nat
    BY <2>2, IdsNat
  <2>6. Sized(file.lines[k]) <=> k \in Requests(file) /\ file.lines[k].type # "f"
    BY <2>2, <2>3, <2>4 DEF Sized
  <2> QED BY <2>1, <2>5, <2>6
<1>7. \A k \in 1 .. Len(file.lines) : Sized(file.lines[k]) => file.lines[k].id < file.ids
  BY <1>6 DEF HeaderRight
<1>8. file.ids = 1 \/ \E k \in 1 .. Len(file.lines) :
         Sized(file.lines[k]) /\ file.lines[k].id = file.ids - 1
  <2>1. \A k \in Requests(file) : k \in 1 .. Len(file.lines)
    BY DEF Requests
  <2> QED BY <2>1, <1>6 DEF HeaderRight
<1>9. \A k \in 1 .. pos : k \in 1 .. Len(file.lines)
  BY <1>1
<1>10. trace.max_index < file.ids
  <2>1. CASE trace.max_index = 0
    BY <2>1, <1>1, <1>6, <1>7, <1>8
  <2>2. CASE \E k \in 1 .. pos : Sized(file.lines[k]) /\ file.lines[k].id = trace.max_index
    BY <2>2, <1>7, <1>9
  <2> QED BY <2>1, <2>2, <1>2 DEF Largest
<1>11. ASSUME pos = Len(file.lines)
       PROVE  trace.max_index = file.ids - 1 /\ file.ops = Len(trace.ops)
  <2>1. CASE file.ids = 1
    BY <2>1, <1>1, <1>3, <1>4, <1>10, <1>11
  <2>2. CASE \E k \in 1 .. Len(file.lines) :
                Sized(file.lines[k]) /\ file.lines[k].id = file.ids - 1
    <3>1. file.ids - 1 <= trace.max_index
      BY <2>2, <1>2, <1>11 DEF Largest
    <3> QED BY <3>1, <1>1, <1>3, <1>4, <1>10, <1>11
  <2> QED BY <2>1, <2>2, <1>8
<1>12. ASSUME NEW k \in DOMAIN trace.ops PROVE trace.ops[k].id < file.ids
  <2>1. /\ trace.ops \in Seq(LineSet)
        /\ \A m \in 1 .. Len(trace.ops) :
              trace.ops[m] # BLANK /\ \E l \in 1 .. pos : file.lines[l] = trace.ops[m]
    BY <1>2 DEF Kept
  <2>2. k \in 1 .. Len(trace.ops)
    BY <2>1
  <2>3. PICK l \in 1 .. pos : file.lines[l] = trace.ops[k] /\ trace.ops[k] # BLANK
    BY <2>1, <2>2
  <2>4. l \in Requests(file)
    BY <2>3, <1>9 DEF Requests
  <2> QED BY <2>3, <2>4 DEF HeaderRight
<1> QED BY <1>2, <1>3, <1>4, <1>5, <1>11, <1>12

(* The assertions at the end of read_trace. *)
LEMMA ReadEndStep ==
  ASSUME TraceInv, ReadEnd
  PROVE  TraceInv'
<1>1. /\ tool = "read" /\ pos = Len(file.lines)
      /\ tool' = IF /\ trace.max_index = trace.num_ids - 1
                    /\ trace.num_ops = Len(trace.ops)
                 THEN "loaded" ELSE "assert"
      /\ UNCHANGED <<file, pos, HASH, lines, balanced, trace>>
  BY DEF ReadEnd
<1>2. TraceTypes' /\ CheckInv' /\ SummaryInv'
  BY <1>1 DEF TraceInv, TraceTypes, CheckInv, SummaryInv
<1>3. ReadInv'
  BY <1>1 DEF TraceInv, ReadInv
<1>4. EndInv'
  <2>1. HeaderRight(file) => tool' = "loaded"
    BY <1>1, HeaderHolds
  <2> QED BY <2>1, <1>1 DEF EndInv
<1> QED BY <1>1, <1>2, <1>3, <1>4 DEF TraceInv

-----------------------------------------------------------------------------
(* The generators *)

(* Requests that use each index once: the index is allocated in one place, *)
(* and live wherever it is reallocated or freed.                           *)
UsedOnce(s) ==
    /\ s \in Seq(LineSet) /\ AllKnown(s)
    /\ \A k, l \in 1 .. Len(s) : k < l /\ s[k].type = "a" /\ s[l].type = "a" => s[k].id # s[l].id
    /\ \A k \in 1 .. Len(s) : s[k].type # "a" => LiveBefore(s, k, s[k].id)

(* Such requests, under a header that counts them. *)
LEMMA OnceFine ==
  ASSUME NEW s, UsedOnce(s), NEW ids \in Nat, NEW ops, ops = Len(s),
         \A k \in 1 .. Len(s) : s[k].type # "f" => s[k].id < ids,
         \E k \in 1 .. Len(s) : s[k].type # "f" /\ s[k].id = ids - 1
  PROVE  Fine(File(ids, ops, s))
<1> DEFINE f == File(ids, ops, s)
<1>1. s \in Seq(LineSet) /\ Len(s) \in Nat /\ AllKnown(s)
  BY DEF UsedOnce
<1>2. f.ids = ids /\ f.ops = ops /\ f.lines = s /\ f \in Files
  BY <1>1 DEF File, Files
<1>3. NoBlank(s)
  <2>1. BLANK.type \notin KnownTypes
    BY DEF BLANK, KnownTypes
  <2> QED BY <2>1, <1>1 DEF AllKnown, NoBlank
<1> HIDE DEF f
<1>4. Requests(f) = 1 .. Len(s) /\ Cardinality(Requests(f)) = Len(s)
  BY <1>1, <1>2, <1>3, RequestsAll
<1>8. ASSUME NEW k \in 1 .. Len(s) PROVE s[k].id < ids
  <2>1. CASE s[k].type # "a"
    <3>1. PICK j \in 1 .. k - 1 : s[j] = A(s[k].id)
      BY <2>1 DEF UsedOnce, LiveBefore
    <3>2. j \in 1 .. Len(s) /\ s[j].type # "f" /\ s[j].id = s[k].id
      BY <3>1, <1>1 DEF A
    <3> QED BY <3>2
  <2> QED BY <2>1
<1>5. HeaderRight(f)
  BY <1>1, <1>2, <1>4, <1>8 DEF HeaderRight, AllKnown, KnownTypes
<1>6. Replayable(s)
  <2> SUFFICES ASSUME NEW k \in 1 .. Len(s), s[k].type = "a", LiveBefore(s, k, s[k].id)
               PROVE  FALSE
    BY DEF Replayable, UsedOnce
  <2>1. PICK j \in 1 .. k - 1 : s[j] = A(s[k].id)
    BY DEF LiveBefore
  <2>2. s[j].type = "a" /\ s[j].id = s[k].id /\ j < k /\ j \in 1 .. Len(s)
    BY <2>1, <1>1 DEF A
  <2> QED BY <2>2 DEF UsedOnce
<1>7. Fine(f)
  BY <1>1, <1>2, <1>3, <1>5, <1>6 DEF Fine
<1> QED BY <1>7 DEF f

(* The requests that are made with A, R and F. *)
LEMMA MadeLines ==
  ASSUME NEW j \in FileIds
  PROVE  /\ A(j) \in LineSet /\ A(j).type = "a" /\ A(j).id = j
         /\ R(j) \in LineSet /\ R(j).type = "r" /\ R(j).id = j
         /\ F(j) \in LineSet /\ F(j).type = "f" /\ F(j).id = j
BY DEF A, R, F, LineSet

(* A free, or a reallocation, of a live index. *)
LEMMA LiveSince ==
  ASSUME NEW s, NEW k \in Nat, NEW j \in 1 .. k - 1, NEW id, s[j] = A(id),
         \A l \in j + 1 .. k - 1 : s[l].type # "f" \/ s[l].id # id
  PROVE  LiveBefore(s, k, id)
BY DEF LiveBefore, F

(* The ids of a generator. *)
LEMMA GeneratorIds ==
  ASSUME NEW n \in Rounds
  PROVE  n \in Nat \ {0} /\ \A j \in 0 .. 3 * n - 1 : j \in FileIds
<1>1. n \in Nat \ {0} /\ 3 * n - 1 \in 0 .. MaxId /\ MaxId \in Nat
  BY EvaluationAssumption, TraceAssumption DEF FileIds
<1> QED BY <1>1 DEF FileIds

(* gen_binary.pl *)
LEMMA BinaryFine ==
  ASSUME NEW n \in Rounds
  PROVE  Fine(gen_binary(n))
<1> DEFINE a == [k \in 1 .. 2 * n |-> A(k - 1)]
           b == [k \in 1 .. n |-> F(2 * k - 1)]
           c == [k \in 1 .. n |-> A(2 * n + k - 1)]
           s == a \o b \o c
<1>1. n \in Nat \ {0} /\ \A j \in 0 .. 3 * n - 1 : j \in FileIds
  BY GeneratorIds
<1>2. a \in Seq(LineSet) /\ Len(a) = 2 * n
  <2>1. ASSUME NEW k \in 1 .. 2 * n PROVE A(k - 1) \in LineSet
    BY <1>1, MadeLines, k - 1 \in 0 .. 3 * n - 1
  <2> QED BY <2>1, <1>1
<1>3. b \in Seq(LineSet) /\ Len(b) = n
  <2>1. ASSUME NEW k \in 1 .. n PROVE F(2 * k - 1) \in LineSet
    BY <1>1, MadeLines, 2 * k - 1 \in 0 .. 3 * n - 1
  <2> QED BY <2>1, <1>1
<1>4. c \in Seq(LineSet) /\ Len(c) = n
  <2>1. ASSUME NEW k \in 1 .. n PROVE A(2 * n + k - 1) \in LineSet
    BY <1>1, MadeLines, 2 * n + k - 1 \in 0 .. 3 * n - 1
  <2> QED BY <2>1, <1>1
<1>5. /\ a \o b \in Seq(LineSet) /\ Len(a \o b) = 3 * n
      /\ \A k \in 1 .. 2 * n : (a \o b)[k] = A(k - 1)
      /\ \A k \in 2 * n + 1 .. 3 * n : (a \o b)[k] = F(2 * (k - 2 * n) - 1)
  <2>1. /\ a \o b \in Seq(LineSet) /\ Len(a \o b) = Len(a) + Len(b)
        /\ \A k \in 1 .. Len(a) : (a \o b)[k] = a[k]
        /\ \A k \in Len(a) + 1 .. Len(a) + Len(b) : (a \o b)[k] = b[k - Len(a)]
    <3> HIDE DEF a, b
    <3> QED BY <1>2, <1>3, Joined
  <2>2. \A k \in 2 * n + 1 .. 3 * n : k - 2 * n \in 1 .. n
    BY <1>1
  <2>3. \A k \in 2 * n + 1 .. 3 * n : b[k - 2 * n] = F(2 * (k - 2 * n) - 1)
    BY <2>2
  <2>4. \A k \in 1 .. 2 * n : a[k] = A(k - 1)
    OBVIOUS
  <2> HIDE DEF a, b
  <2>5. Len(a) + Len(b) = 3 * n /\ Len(a) = 2 * n
    BY <1>1, <1>2, <1>3
  <2> QED BY <2>1, <2>3, <2>4, <2>5
<1>6. /\ s \in Seq(LineSet) /\ Len(s) = 4 * n
      /\ \A k \in 1 .. 2 * n : s[k] = A(k - 1)
      /\ \A k \in 2 * n + 1 .. 3 * n : s[k] = F(2 * (k - 2 * n) - 1)
      /\ \A k \in 3 * n + 1 .. 4 * n : s[k] = A(k - n - 1)
  <2> DEFINE d == a \o b
  <2>1. /\ d \o c \in Seq(LineSet) /\ Len(d \o c) = Len(d) + Len(c)
        /\ \A k \in 1 .. Len(d) : (d \o c)[k] = d[k]
        /\ \A k \in Len(d) + 1 .. Len(d) + Len(c) : (d \o c)[k] = c[k - Len(d)]
    <3>1. d \in Seq(LineSet)
      BY <1>5
    <3> HIDE DEF d, c
    <3> QED BY <3>1, <1>4, Joined
  <2>2. \A k \in 3 * n + 1 .. 4 * n : k - 3 * n \in 1 .. n /\ 2 * n + (k - 3 * n) - 1 = k - n - 1
    BY <1>1
  <2>3. \A k \in 1 .. n : c[k] = A(2 * n + k - 1)
    OBVIOUS
  <2>4. Len(d) = 3 * n /\ s = d \o c
    BY <1>5
  <2>5. \A k \in 1 .. 2 * n : k \in 1 .. 3 * n /\ d[k] = A(k - 1)
    BY <1>1, <1>5
  <2>6. \A k \in 2 * n + 1 .. 3 * n : k \in 1 .. 3 * n /\ d[k] = F(2 * (k - 2 * n) - 1)
    BY <1>1, <1>5
  <2> HIDE DEF a, b, c, d, s
  <2>7. /\ s \in Seq(LineSet) /\ Len(s) = 4 * n
        /\ \A k \in 1 .. 3 * n : s[k] = d[k]
        /\ \A k \in 3 * n + 1 .. 4 * n : s[k] = c[k - 3 * n]
    BY <2>1, <2>4, <1>1, <1>4
  <2> QED BY <2>2, <2>3, <2>5, <2>6, <2>7
<1> HIDE DEF a, b, c, s
<1>7. ASSUME NEW k \in 1 .. 4 * n
      PROVE  \/ /\ k <= 2 * n /\ s[k].type = "a" /\ s[k].id = k - 1 /\ s[k] = A(k - 1)
             \/ /\ 2 * n < k /\ k <= 3 * n
                /\ s[k].type = "f" /\ s[k].id = 2 * (k - 2 * n) - 1
             \/ /\ 3 * n < k /\ s[k].type = "a" /\ s[k].id = k - n - 1
  <2>1. CASE k <= 2 * n
    BY <2>1, <1>1, <1>6, MadeLines, k \in 1 .. 2 * n, k - 1 \in 0 .. 3 * n - 1
  <2>2. CASE 2 * n < k /\ k <= 3 * n
    <3>1. k \in 2 * n + 1 .. 3 * n /\ 2 * (k - 2 * n) - 1 \in 0 .. 3 * n - 1
      BY <2>2, <1>1
    <3> QED BY <2>2, <3>1, <1>1, <1>6, MadeLines
  <2>3. CASE 3 * n < k
    <3>1. k \in 3 * n + 1 .. 4 * n /\ k - n - 1 \in 0 .. 3 * n - 1
      BY <2>3, <1>1
    <3> QED BY <2>3, <3>1, <1>1, <1>6, MadeLines
  <2> QED BY <2>1, <2>2, <2>3, <1>1
<1>8. ASSUME NEW k \in 1 .. 4 * n, s[k].type # "a"
      PROVE  LiveBefore(s, k, s[k].id)
  <2> DEFINE j == 2 * (k - 2 * n)
  <2>1. 2 * n < k /\ k <= 3 * n /\ s[k].id = j - 1
    BY <1>7, <1>8
  <2>2. j \in 1 .. k - 1 /\ j \in 1 .. 2 * n
    BY <2>1, <1>1
  <2>3. s[j] = A(s[k].id)
    BY <2>1, <2>2, <1>6
  <2>4. ASSUME NEW l \in j + 1 .. k - 1 PROVE s[l].type # "f" \/ s[l].id # s[k].id
    <3>1. l \in 1 .. 4 * n /\ l < k
      BY <2>2, <1>1
    <3> QED BY <3>1, <2>1, <1>1, <1>7
  <2> HIDE DEF j
  <2> QED BY <2>2, <2>3, <2>4, LiveSince
<1>9. UsedOnce(s)
  <2>1. AllKnown(s)
    BY <1>1, <1>6, <1>7 DEF AllKnown, KnownTypes
  <2>2. ASSUME NEW k \in 1 .. 4 * n, NEW l \in 1 .. 4 * n,
               k < l, s[k].type = "a", s[l].type = "a"
        PROVE  s[k].id # s[l].id
    BY <2>2, <1>1, <1>7
  <2> QED BY <2>1, <2>2, <1>6, <1>8 DEF UsedOnce
<1>10. Fine(File(3 * n, 4 * n, s))
  <2>1. \A k \in 1 .. Len(s) : s[k].type # "f" => s[k].id < 3 * n
    BY <1>1, <1>6, <1>7
  <2>2. \E k \in 1 .. Len(s) : s[k].type # "f" /\ s[k].id = 3 * n - 1
    <3>1. 4 * n \in 1 .. Len(s) /\ 4 * n \in 1 .. 4 * n /\ 3 * n < 4 * n
      BY <1>1, <1>6
    <3> QED BY <3>1, <1>1, <1>7
  <2>3. 3 * n \in Nat /\ 4 * n = Len(s)
    BY <1>1, <1>6
  <2> QED BY <2>1, <2>2, <2>3, <1>9, OnceFine
<1> QED BY <1>10 DEF gen_binary, s, a, b, c

(* A position among lines that come in groups of six. *)
LEMMA Sixes ==
  /\ \A q \in Nat, r \in 0 .. 5 : (6 * q + r) \div 6 = q /\ (6 * q + r) % 6 = r
  /\ \A k \in Nat : \E q \in Nat, r \in 0 .. 5 : k = 6 * q + r
<1>1. ASSUME NEW q \in Nat, NEW r \in 0 .. 5
      PROVE  (6 * q + r) \div 6 = q /\ (6 * q + r) % 6 = r
  OBVIOUS
<1>2. ASSUME NEW k \in Nat
      PROVE  \E q \in Nat, r \in 0 .. 5 : k = 6 * q + r
  <2>1. k \div 6 \in Nat /\ k % 6 \in 0 .. 5 /\ k = 6 * (k \div 6) + (k % 6)
    OBVIOUS
  <2> QED BY <2>1
<1> QED BY <1>1, <1>2

(* gen_coalescing.pl: in each round two blocks are allocated and freed,    *)
(* then one of their common size.                                          *)
LEMMA CoalescingFine ==
  ASSUME NEW n \in Rounds
  PROVE  Fine(gen_coalescing(n))
<1> DEFINE Group(b) == <<A(b), A(b + 1), F(b), F(b + 1), A(b + 2), F(b + 2)>>
           s == [k \in 1 .. 6 * n |->
                   LET b == 3 * ((k - 1) \div 6)
                   IN  <<A(b), A(b + 1), F(b), F(b + 1), A(b + 2), F(b + 2)>>[((k - 1) % 6) + 1]]
<1>1. n \in Nat \ {0} /\ \A j \in 0 .. 3 * n - 1 : j \in FileIds
  BY GeneratorIds
<1>2. ASSUME NEW q \in 0 .. n - 1, NEW r \in 0 .. 5
      PROVE  s[6 * q + r + 1] = Group(3 * q)[r + 1]
  <2>1. 6 * q + r + 1 \in 1 .. 6 * n /\ (6 * q + r + 1) - 1 = 6 * q + r
    BY <1>1
  <2>2. (6 * q + r) \div 6 = q /\ (6 * q + r) % 6 = r
    BY Sixes, <1>1
  <2> QED BY <2>1, <2>2
<1>3. ASSUME NEW k \in 1 .. 6 * n
      PROVE  \E q \in 0 .. n - 1, r \in 0 .. 5 : k = 6 * q + r + 1
  <2>1. PICK q \in Nat, r \in 0 .. 5 : k - 1 = 6 * q + r
    BY Sixes, k - 1 \in Nat
  <2>2. q \in 0 .. n - 1 /\ k = 6 * q + r + 1
    BY <2>1, <1>1
  <2> QED BY <2>2
<1>4. DOMAIN s = 1 .. 6 * n /\ s = [k \in 1 .. 6 * n |-> s[k]]
  OBVIOUS
<1>5. gen_coalescing(n) = File(3 * n, 6 * n, s)
  BY DEF gen_coalescing
<1> HIDE DEF s
<1>6. ASSUME NEW q \in 0 .. n - 1
      PROVE  /\ 3 * q \in FileIds /\ 3 * q + 1 \in FileIds /\ 3 * q + 2 \in FileIds
             /\ s[6 * q + 1] = A(3 * q) /\ s[6 * q + 2] = A(3 * q + 1)
             /\ s[6 * q + 3] = F(3 * q) /\ s[6 * q + 4] = F(3 * q + 1)
             /\ s[6 * q + 5] = A(3 * q + 2) /\ s[6 * q + 6] = F(3 * q + 2)
  <2>1. \A c \in 0 .. 2 : 3 * q + c \in 0 .. 3 * n - 1
    BY <1>1
  <2>2. \A r \in 0 .. 5 : s[6 * q + r + 1] = Group(3 * q)[r + 1]
    BY <1>2
  <2>3. /\ Group(3 * q)[1] = A(3 * q) /\ Group(3 * q)[2] = A(3 * q + 1)
        /\ Group(3 * q)[3] = F(3 * q) /\ Group(3 * q)[4] = F(3 * q + 1)
        /\ Group(3 * q)[5] = A(3 * q + 2) /\ Group(3 * q)[6] = F(3 * q + 2)
    OBVIOUS
  <2> HIDE DEF Group
  <2>4. 6 * q + 0 + 1 = 6 * q + 1 /\ 6 * q + 1 + 1 = 6 * q + 2 /\ 6 * q + 2 + 1 = 6 * q + 3
        /\ 6 * q + 3 + 1 = 6 * q + 4 /\ 6 * q + 4 + 1 = 6 * q + 5 /\ 6 * q + 5 + 1 = 6 * q + 6
    OBVIOUS
  <2>5. /\ s[6 * q + 1] = Group(3 * q)[1] /\ s[6 * q + 2] = Group(3 * q)[2]
        /\ s[6 * q + 3] = Group(3 * q)[3] /\ s[6 * q + 4] = Group(3 * q)[4]
        /\ s[6 * q + 5] = Group(3 * q)[5] /\ s[6 * q + 6] = Group(3 * q)[6]
    BY <2>2, <2>4, 0 + 1 = 1, 1 + 1 = 2, 2 + 1 = 3, 3 + 1 = 4, 4 + 1 = 5, 5 + 1 = 6
  <2>6. 3 * q \in FileIds /\ 3 * q + 1 \in FileIds /\ 3 * q + 2 \in FileIds
    BY <2>1, <1>1, 3 * q + 0 = 3 * q
  <2> QED BY <2>3, <2>5, <2>6
<1> HIDE DEF Group
(* The line at place r of round q. *)
<1>7. ASSUME NEW k \in 1 .. 6 * n
      PROVE  \E q \in 0 .. n - 1 :
                \/ k = 6 * q + 1 /\ s[k].type = "a" /\ s[k].id = 3 * q
                \/ k = 6 * q + 2 /\ s[k].type = "a" /\ s[k].id = 3 * q + 1
                \/ k = 6 * q + 3 /\ s[k].type = "f" /\ s[k].id = 3 * q
                \/ k = 6 * q + 4 /\ s[k].type = "f" /\ s[k].id = 3 * q + 1
                \/ k = 6 * q + 5 /\ s[k].type = "a" /\ s[k].id = 3 * q + 2
                \/ k = 6 * q + 6 /\ s[k].type = "f" /\ s[k].id = 3 * q + 2
  <2>1. PICK q \in 0 .. n - 1, r \in 0 .. 5 : k = 6 * q + r + 1
    BY <1>3
  <2>2. k \in {6 * q + 1, 6 * q + 2, 6 * q + 3, 6 * q + 4, 6 * q + 5, 6 * q + 6}
    BY <2>1
  <2> QED BY <2>2, <1>6, MadeLines
<1>8. s \in Seq(LineSet) /\ Len(s) = 6 * n
  <2>1. ASSUME NEW k \in 1 .. 6 * n PROVE s[k] \in LineSet
    <3>1. PICK q \in 0 .. n - 1, r \in 0 .. 5 : k = 6 * q + r + 1
      BY <1>3
    <3>2. k \in {6 * q + 1, 6 * q + 2, 6 * q + 3, 6 * q + 4, 6 * q + 5, 6 * q + 6}
      BY <3>1
    <3> QED BY <3>2, <1>6, MadeLines
  <2> QED BY <2>1, <1>1, <1>4
<1>9. ASSUME NEW k \in 1 .. 6 * n, s[k].type # "a"
      PROVE  LiveBefore(s, k, s[k].id)
  <2>1. PICK q \in 0 .. n - 1 :
                \/ k = 6 * q + 3 /\ s[k].id = 3 * q
                \/ k = 6 * q + 4 /\ s[k].id = 3 * q + 1
                \/ k = 6 * q + 6 /\ s[k].id = 3 * q + 2
    BY <1>7, <1>9
  <2>2. CASE k = 6 * q + 3 /\ s[k].id = 3 * q
    <3>1. 6 * q + 1 \in 1 .. k - 1 /\ \A l \in (6 * q + 1) + 1 .. k - 1 : l = 6 * q + 2
      BY <2>2
    <3>2. s[6 * q + 1] = A(s[k].id) /\ s[6 * q + 2].type # "f"
      BY <2>2, <1>6, MadeLines
    <3>3. /\ k \in Nat /\ 6 * q + 1 \in 1 .. k - 1 /\ s[6 * q + 1] = A(s[k].id)
          /\ \A l \in (6 * q + 1) + 1 .. k - 1 : s[l].type # "f" \/ s[l].id # s[k].id
      BY <3>1, <3>2, <1>1
    <3> QED BY <3>3, LiveSince
  <2>3. CASE k = 6 * q + 4 /\ s[k].id = 3 * q + 1
    <3>1. 6 * q + 2 \in 1 .. k - 1 /\ \A l \in (6 * q + 2) + 1 .. k - 1 : l = 6 * q + 3
      BY <2>3
    <3>2. s[6 * q + 2] = A(s[k].id) /\ s[6 * q + 3].id # s[k].id
      <4>1. s[6 * q + 3].id = 3 * q
        BY <1>6, MadeLines
      <4> QED BY <4>1, <2>3, <1>6
    <3>3. /\ k \in Nat /\ 6 * q + 2 \in 1 .. k - 1 /\ s[6 * q + 2] = A(s[k].id)
          /\ \A l \in (6 * q + 2) + 1 .. k - 1 : s[l].type # "f" \/ s[l].id # s[k].id
      BY <3>1, <3>2, <1>1
    <3> QED BY <3>3, LiveSince
  <2>4. CASE k = 6 * q + 6 /\ s[k].id = 3 * q + 2
    <3>1. 6 * q + 5 \in 1 .. k - 1 /\ \A l \in (6 * q + 5) + 1 .. k - 1 : FALSE
      BY <2>4
    <3>2. s[6 * q + 5] = A(s[k].id)
      BY <2>4, <1>6
    <3>3. /\ k \in Nat /\ 6 * q + 5 \in 1 .. k - 1 /\ s[6 * q + 5] = A(s[k].id)
          /\ \A l \in (6 * q + 5) + 1 .. k - 1 : s[l].type # "f" \/ s[l].id # s[k].id
      BY <3>1, <3>2, <1>1
    <3> QED BY <3>3, LiveSince
  <2> QED BY <2>1, <2>2, <2>3, <2>4
<1>10. UsedOnce(s)
  <2>1. AllKnown(s)
    BY <1>7, <1>8 DEF AllKnown, KnownTypes
  <2>2. ASSUME NEW k \in 1 .. 6 * n, NEW l \in 1 .. 6 * n,
               k < l, s[k].type = "a", s[l].type = "a"
        PROVE  s[k].id # s[l].id
    <3>1. PICK q \in 0 .. n - 1, c \in 0 .. 2 :
              s[k].id = 3 * q + c /\ k = 6 * q + (IF c = 2 THEN 5 ELSE c + 1)
      BY <1>7, <2>2, 3 * 0 = 0
    <3>2. PICK p \in 0 .. n - 1, d \in 0 .. 2 :
              s[l].id = 3 * p + d /\ l = 6 * p + (IF d = 2 THEN 5 ELSE d + 1)
      BY <1>7, <2>2
    <3> QED BY <3>1, <3>2, <2>2
  <2> QED BY <2>1, <2>2, <1>8, <1>9 DEF UsedOnce
<1>11. Fine(File(3 * n, 6 * n, s))
  <2>1. \A k \in 1 .. Len(s) : s[k].type # "f" => s[k].id < 3 * n
    BY <1>1, <1>7, <1>8
  <2>2. \E k \in 1 .. Len(s) : s[k].type # "f" /\ s[k].id = 3 * n - 1
    <3>1. n - 1 \in 0 .. n - 1 /\ 6 * (n - 1) + 5 \in 1 .. 6 * n /\ 3 * (n - 1) + 2 = 3 * n - 1
      BY <1>1
    <3>2. s[6 * (n - 1) + 5].type = "a" /\ s[6 * (n - 1) + 5].id = 3 * n - 1
      BY <3>1, <1>6, MadeLines
    <3> QED BY <3>1, <3>2, <1>8
  <2>3. 3 * n \in Nat /\ 6 * n = Len(s)
    BY <1>1, <1>8
  <2> QED BY <2>1, <2>2, <2>3, <1>10, OnceFine
<1> QED BY <1>5, <1>11

(* A position among lines that come in groups of three. *)
LEMMA Threes ==
  /\ \A q \in Nat, r \in 0 .. 2 : (3 * q + r) \div 3 = q /\ (3 * q + r) % 3 = r
  /\ \A k \in Nat : \E q \in Nat, r \in 0 .. 2 : k = 3 * q + r
<1>1. ASSUME NEW q \in Nat, NEW r \in 0 .. 2
      PROVE  (3 * q + r) \div 3 = q /\ (3 * q + r) % 3 = r
  OBVIOUS
<1>2. ASSUME NEW k \in Nat
      PROVE  \E q \in Nat, r \in 0 .. 2 : k = 3 * q + r
  <2>1. k \div 3 \in Nat /\ k % 3 \in 0 .. 2 /\ k = 3 * (k \div 3) + (k % 3)
    OBVIOUS
  <2> QED BY <2>1
<1> QED BY <1>1, <1>2

(* gen_realloc.pl: while index 0 grows, each other index is freed after    *)
(* the next one has been allocated.                                        *)
LEMMA ReallocFine ==
  ASSUME NEW n \in Rounds
  PROVE  Fine(gen_realloc(n))
<1> DEFINE Group(j) == <<R(0), A(j + 1), F(j)>>
           a == <<A(0), A(1)>>
           b == [k \in 1 .. 3 * (n - 1) |->
                   LET gi == (k - 1) \div 3 + 1
                   IN  <<R(0), A(gi + 1), F(gi)>>[((k - 1) % 3) + 1]]
           c == <<F(n), F(0)>>
           s == a \o b \o c
<1>1. n \in Nat \ {0} /\ \A j \in 0 .. n : j \in FileIds
  <2>1. n \in Nat \ {0} /\ \A j \in 0 .. 3 * n - 1 : j \in FileIds
    BY GeneratorIds
  <2>2. \A j \in 0 .. n : j \in 0 .. 3 * n - 1
    BY <2>1
  <2> QED BY <2>1, <2>2
<1>2. ASSUME NEW j \in 1 .. n - 1, NEW r \in 0 .. 2
      PROVE  b[3 * j + r - 2] = Group(j)[r + 1]
  <2>1. 3 * j + r - 2 \in 1 .. 3 * (n - 1) /\ (3 * j + r - 2) - 1 = 3 * (j - 1) + r
    BY <1>1
  <2>2. (3 * (j - 1) + r) \div 3 = j - 1 /\ (3 * (j - 1) + r) % 3 = r
    BY Threes, <1>1, j - 1 \in Nat
  <2>3. (3 * (j - 1) + r) \div 3 + 1 = j
    BY <2>2
  <2> QED BY <2>1, <2>2, <2>3
<1>3. ASSUME NEW k \in 1 .. 3 * (n - 1)
      PROVE  \E j \in 1 .. n - 1, r \in 0 .. 2 : k = 3 * j + r - 2
  <2>1. PICK q \in Nat, r \in 0 .. 2 : k - 1 = 3 * q + r
    BY Threes, k - 1 \in Nat
  <2>2. q + 1 \in 1 .. n - 1 /\ k = 3 * (q + 1) + r - 2
    BY <2>1, <1>1
  <2> QED BY <2>2
<1>4. b = [k \in 1 .. 3 * (n - 1) |-> b[k]]
  OBVIOUS
<1>5. gen_realloc(n) = File(n + 1, 3 * n + 1, s)
  BY DEF gen_realloc
<1> HIDE DEF b
<1>6. ASSUME NEW j \in 1 .. n - 1
      PROVE  /\ b[3 * j - 2] = R(0) /\ b[3 * j - 1] = A(j + 1) /\ b[3 * j] = F(j)
             /\ j \in FileIds /\ j + 1 \in FileIds /\ 0 \in FileIds
  <2>1. Group(j)[0 + 1] = R(0) /\ Group(j)[1 + 1] = A(j + 1) /\ Group(j)[2 + 1] = F(j)
    OBVIOUS
  <2> HIDE DEF Group
  <2>2. 3 * j + 0 - 2 = 3 * j - 2 /\ 3 * j + 1 - 2 = 3 * j - 1 /\ 3 * j + 2 - 2 = 3 * j
    OBVIOUS
  <2>3. j \in 0 .. n /\ j + 1 \in 0 .. n /\ 0 \in 0 .. n
    BY <1>1
  <2>4. b[3 * j - 2] = Group(j)[0 + 1] /\ b[3 * j - 1] = Group(j)[1 + 1] /\ b[3 * j] = Group(j)[2 + 1]
    BY <1>2, <2>2
  <2> QED BY <2>1, <2>3, <2>4, <1>1
<1> HIDE DEF Group
<1>7. b \in Seq(LineSet) /\ Len(b) = 3 * (n - 1)
  <2>1. ASSUME NEW k \in 1 .. 3 * (n - 1) PROVE b[k] \in LineSet
    <3>1. PICK j \in 1 .. n - 1, r \in 0 .. 2 : k = 3 * j + r - 2
      BY <1>3
    <3>2. k \in {3 * j - 2, 3 * j - 1, 3 * j}
      BY <3>1
    <3> QED BY <3>2, <1>6, MadeLines
  <2> QED BY <2>1, <1>1, <1>4
<1>8. /\ a \in Seq(LineSet) /\ Len(a) = 2 /\ a[1] = A(0) /\ a[2] = A(1)
      /\ c \in Seq(LineSet) /\ Len(c) = 2 /\ c[1] = F(n) /\ c[2] = F(0)
  <2>1. 0 \in FileIds /\ 1 \in FileIds /\ n \in FileIds
    BY <1>1
  <2>2. A(0) \in LineSet /\ A(1) \in LineSet /\ F(n) \in LineSet /\ F(0) \in LineSet
    BY <2>1, MadeLines
  <2> QED BY <2>2
<1> HIDE DEF a, c
<1>9. /\ a \o b \in Seq(LineSet) /\ Len(a \o b) = 3 * n - 1
      /\ (a \o b)[1] = A(0) /\ (a \o b)[2] = A(1)
      /\ \A k \in 3 .. 3 * n - 1 : (a \o b)[k] = b[k - 2]
  <2>1. /\ a \o b \in Seq(LineSet) /\ Len(a \o b) = Len(a) + Len(b)
        /\ \A k \in 1 .. Len(a) : (a \o b)[k] = a[k]
        /\ \A k \in Len(a) + 1 .. Len(a) + Len(b) : (a \o b)[k] = b[k - Len(a)]
    BY <1>7, <1>8, Joined
  <2> QED BY <2>1, <1>1, <1>7, <1>8
<1>10. /\ s \in Seq(LineSet) /\ Len(s) = 3 * n + 1
       /\ s[1] = A(0) /\ s[2] = A(1)
       /\ \A k \in 3 .. 3 * n - 1 : s[k] = b[k - 2]
       /\ s[3 * n] = F(n) /\ s[3 * n + 1] = F(0)
  <2> DEFINE d == a \o b
  <2>1. /\ d \o c \in Seq(LineSet) /\ Len(d \o c) = Len(d) + Len(c)
        /\ \A k \in 1 .. Len(d) : (d \o c)[k] = d[k]
        /\ \A k \in Len(d) + 1 .. Len(d) + Len(c) : (d \o c)[k] = c[k - Len(d)]
    <3>1. d \in Seq(LineSet)
      BY <1>9
    <3> HIDE DEF d
    <3> QED BY <3>1, <1>8, Joined
  <2>2. s = d \o c
    OBVIOUS
  <2>3. /\ Len(d) = 3 * n - 1 /\ d[1] = A(0) /\ d[2] = A(1)
        /\ \A k \in 3 .. 3 * n - 1 : d[k] = b[k - 2]
    BY <1>9
  <2> HIDE DEF d, s
  <2> QED BY <2>1, <2>2, <2>3, <1>1, <1>8
<1> HIDE DEF s
<1>11. ASSUME NEW j \in 1 .. n - 1
       PROVE  s[3 * j] = R(0) /\ s[3 * j + 1] = A(j + 1) /\ s[3 * j + 2] = F(j)
  <2>1. \A r \in 0 .. 2 : 3 * j + r \in 3 .. 3 * n - 1
    BY <1>1
  <2>2. s[3 * j] = b[3 * j - 2] /\ s[3 * j + 1] = b[3 * j - 1] /\ s[3 * j + 2] = b[3 * j]
    <3>1. /\ 3 * j \in 3 .. 3 * n - 1 /\ 3 * j + 1 \in 3 .. 3 * n - 1
          /\ 3 * j + 2 \in 3 .. 3 * n - 1
          /\ (3 * j + 1) - 2 = 3 * j - 1 /\ (3 * j + 2) - 2 = 3 * j
      BY <1>1
    <3> QED BY <3>1, <1>10
  <2> QED BY <2>2, <1>6
<1>12. ASSUME NEW k \in 1 .. 3 * n + 1
       PROVE  \/ k = 1 /\ s[k].type = "a" /\ s[k].id = 0
              \/ k = 2 /\ s[k].type = "a" /\ s[k].id = 1
              \/ k = 3 * n /\ s[k].type = "f" /\ s[k].id = n
              \/ k = 3 * n + 1 /\ s[k].type = "f" /\ s[k].id = 0
              \/ \E j \in 1 .. n - 1 :
                    \/ k = 3 * j /\ s[k].type = "r" /\ s[k].id = 0
                    \/ k = 3 * j + 1 /\ s[k].type = "a" /\ s[k].id = j + 1
                    \/ k = 3 * j + 2 /\ s[k].type = "f" /\ s[k].id = j
  <2>1. 0 \in FileIds /\ 1 \in FileIds /\ n \in FileIds
    BY <1>1
  <2>2. CASE k \in {1, 2, 3 * n, 3 * n + 1}
    BY <2>1, <2>2, <1>10, MadeLines
  <2>3. CASE k \in 3 .. 3 * n - 1
    <3>1. PICK q \in Nat, r \in 0 .. 2 : k = 3 * q + r
      BY Threes, k \in Nat
    <3>2. q \in 1 .. n - 1 /\ k \in {3 * q, 3 * q + 1, 3 * q + 2}
      BY <3>1, <2>3, <1>1
    <3> QED BY <3>2, <2>1, <1>6, <1>11, MadeLines
  <2> QED BY <2>2, <2>3, <1>1
<1>13. ASSUME NEW k \in 1 .. 3 * n + 1, NEW l \in 1 .. 3 * n + 1,
              s[k].type = "f", s[l].type = "f", s[k].id = s[l].id
       PROVE  k = l
  <2>1. \/ k = 3 * n /\ s[k].id = n
        \/ k = 3 * n + 1 /\ s[k].id = 0
        \/ s[k].id \in 1 .. n - 1 /\ k = 3 * s[k].id + 2
    BY <1>12, <1>13
  <2>2. \/ l = 3 * n /\ s[l].id = n
        \/ l = 3 * n + 1 /\ s[l].id = 0
        \/ s[l].id \in 1 .. n - 1 /\ l = 3 * s[l].id + 2
    BY <1>12, <1>13
  <2> QED BY <2>1, <2>2, <1>1, <1>13
<1>14. ASSUME NEW k \in 1 .. 3 * n + 1, s[k].type # "a"
       PROVE  LiveBefore(s, k, s[k].id)
  <2>1. \/ s[k].type = "r" /\ s[k].id = 0 /\ 3 <= k /\ k <= 3 * n - 1
        \/ s[k].type = "f" /\ s[k].id = 0 /\ k = 3 * n + 1
        \/ s[k].type = "f" /\ s[k].id \in 1 .. n /\ k >= 3 * s[k].id
    BY <1>1, <1>12, <1>14
  <2>2. CASE s[k].id = 0
    <3>1. ASSUME NEW l \in 1 + 1 .. k - 1, s[l].type = "f", s[l].id = 0 PROVE FALSE
      <4>1. l \in 1 .. 3 * n + 1 /\ l # 3 * n + 1
        BY <1>1
      <4> QED BY <3>1, <4>1, <1>1, <1>12
    <3>2. k \in Nat /\ 1 \in 1 .. k - 1 /\ s[1] = A(s[k].id)
      BY <2>1, <2>2, <1>1, <1>10
    <3> QED BY <2>2, <3>1, <3>2, LiveSince
  <2>3. CASE s[k].id # 0
    <3> DEFINE j == s[k].id
               p == IF j = 1 THEN 2 ELSE 3 * (j - 1) + 1
    <3>1. j \in 1 .. n /\ s[k].type = "f" /\ k >= 3 * j
      BY <2>1, <2>3
    <3>2. p \in 1 .. k - 1 /\ k \in Nat
      BY <3>1
    <3>3. s[p] = A(j)
      <4>1. CASE j = 1
        BY <4>1, <1>10
      <4>2. CASE j # 1
        <5>1. j - 1 \in 1 .. n - 1 /\ (j - 1) + 1 = j
          BY <3>1, <4>2, <1>1
        <5>2. s[3 * (j - 1) + 1] = A((j - 1) + 1)
          BY <5>1, <1>11
        <5> QED BY <5>1, <5>2, <4>2
      <4> QED BY <4>1, <4>2
    <3>4. \A l \in p + 1 .. k - 1 : s[l].type # "f" \/ s[l].id # s[k].id
      <4> SUFFICES ASSUME NEW l \in p + 1 .. k - 1, s[l].type = "f", s[l].id = s[k].id
                   PROVE  FALSE
        OBVIOUS
      <4>1. l \in 1 .. 3 * n + 1 /\ l # k
        BY <3>2, <1>1
      <4> QED BY <4>1, <3>1, <1>13
    <3> HIDE DEF p
    <3> QED BY <3>2, <3>3, <3>4, LiveSince
  <2> QED BY <2>2, <2>3
<1>15. UsedOnce(s)
  <2>1. AllKnown(s)
    BY <1>10, <1>12 DEF AllKnown, KnownTypes
  <2>2. ASSUME NEW k \in 1 .. 3 * n + 1, NEW l \in 1 .. 3 * n + 1,
               k < l, s[k].type = "a", s[l].type = "a"
        PROVE  s[k].id # s[l].id
    <3>1. \/ k = 1 /\ s[k].id = 0
          \/ k = 2 /\ s[k].id = 1
          \/ s[k].id \in 2 .. n /\ k = 3 * s[k].id - 2
      BY <1>1, <1>12, <2>2
    <3>2. \/ l = 1 /\ s[l].id = 0
          \/ l = 2 /\ s[l].id = 1
          \/ s[l].id \in 2 .. n /\ l = 3 * s[l].id - 2
      BY <1>1, <1>12, <2>2
    <3> QED BY <3>1, <3>2, <2>2
  <2> QED BY <2>1, <2>2, <1>10, <1>14 DEF UsedOnce
<1>16. Fine(File(n + 1, 3 * n + 1, s))
  <2>1. \A k \in 1 .. Len(s) : s[k].type # "f" => s[k].id < n + 1
    BY <1>1, <1>10, <1>12
  <2>2. \E k \in 1 .. Len(s) : s[k].type # "f" /\ s[k].id = (n + 1) - 1
    <3>1. CASE n = 1
      BY <3>1, <1>1, <1>10, <1>12
    <3>2. CASE n # 1
      <4>1. n - 1 \in 1 .. n - 1 /\ 3 * (n - 1) + 1 \in 1 .. 3 * n + 1 /\ (n - 1) + 1 = n
        BY <3>2, <1>1
      <4>2. s[3 * (n - 1) + 1] = A(n) /\ n \in FileIds
        BY <4>1, <1>1, <1>11
      <4> QED BY <4>1, <4>2, <1>1, <1>10, MadeLines
    <3> QED BY <3>1, <3>2
  <2>3. n + 1 \in Nat /\ 3 * n + 1 = Len(s)
    BY <1>1, <1>10
  <2> QED BY <2>1, <2>2, <2>3, <1>15, OnceFine
<1> QED BY <1>5, <1>16

(* A line inserted in a sequence of lines. *)
LEMMA InsertedAt ==
  ASSUME NEW s \in Seq(LineSet), NEW q \in 1 .. Len(s) + 1, NEW v \in LineSet,
         NEW u, u = InsertAt(s, q, v)
  PROVE  /\ u \in Seq(LineSet) /\ Len(u) = Len(s) + 1 /\ u[q] = v
         /\ \A k \in 1 .. q - 1 : u[k] = s[k]
         /\ \A k \in q + 1 .. Len(s) + 1 : u[k] = s[k - 1]
<1> DEFINE b == SubSeq(s, 1, q - 1)
           c == SubSeq(s, q, Len(s))
           d == b \o <<v>>
<1>1. /\ b \in Seq(LineSet) /\ Len(b) = q - 1 /\ \A k \in 1 .. q - 1 : b[k] = s[k]
  OBVIOUS
<1>2. /\ c \in Seq(LineSet) /\ Len(c) = Len(s) - q + 1
      /\ \A k \in 1 .. Len(s) - q + 1 : c[k] = s[q + k - 1]
  OBVIOUS
<1>3. <<v>> \in Seq(LineSet) /\ Len(<<v>>) = 1 /\ <<v>>[1] = v
  OBVIOUS
<1>4. u = d \o c
  BY DEF InsertAt
<1> HIDE DEF b, c
<1>5. /\ d \in Seq(LineSet) /\ Len(d) = q /\ d[q] = v
      /\ \A k \in 1 .. q - 1 : d[k] = s[k]
  BY <1>1, <1>3
<1> HIDE DEF d
<1>6. /\ d \o c \in Seq(LineSet) /\ Len(d \o c) = Len(d) + Len(c)
      /\ \A k \in 1 .. Len(d) : (d \o c)[k] = d[k]
      /\ \A k \in Len(d) + 1 .. Len(d) + Len(c) : (d \o c)[k] = c[k - Len(d)]
  BY <1>2, <1>5, Joined
<1>7. \A k \in q + 1 .. Len(s) + 1 :
         k - q \in 1 .. Len(s) - q + 1 /\ q + (k - q) - 1 = k - 1
  OBVIOUS
<1>8. \A k \in q + 1 .. Len(s) + 1 : c[k - q] = s[k - 1]
  BY <1>2, <1>7
<1> QED BY <1>2, <1>4, <1>5, <1>6, <1>8

(* The requests of gen_random.pl once c of the n blocks have their frees. *)
RandomInv(t, n, c) ==
    /\ t \in Seq(LineSet) /\ Len(t) = n + c
    /\ \A k \in 1 .. n + c :
          \/ t[k].type = "a" /\ t[k].id < n
          \/ t[k].type = "f" /\ t[k].id < c /\ LiveBefore(t, k, t[k].id)
    /\ \A k, l \in 1 .. n + c : k < l /\ t[k].type = "a" /\ t[l].type = "a" => t[k].id # t[l].id
    /\ \A j \in 0 .. n - 1 : \E k \in 1 .. n + c : t[k] = A(j)

(* At first the blocks are allocated in order. *)
LEMMA RandomFirst ==
  ASSUME NEW n \in Rounds
  PROVE  RandomInv([k \in 1 .. n |-> A(k - 1)], n, 0)
<1> DEFINE t == [k \in 1 .. n |-> A(k - 1)]
<1>1. n \in Nat \ {0} /\ \A j \in 0 .. 3 * n - 1 : j \in FileIds
  BY GeneratorIds
<1>2. ASSUME NEW k \in 1 .. n
      PROVE  t[k] \in LineSet /\ t[k] = A(k - 1) /\ t[k].type = "a" /\ t[k].id = k - 1
  <2>1. k - 1 \in FileIds
    BY <1>1, k - 1 \in 0 .. 3 * n - 1
  <2> QED BY <2>1, MadeLines
<1>3. t \in Seq(LineSet) /\ Len(t) = n
  BY <1>1, <1>2
<1> HIDE DEF t
<1>4. \A j \in 0 .. n - 1 : j + 1 \in 1 .. n /\ t[j + 1] = A(j)
  <2> SUFFICES ASSUME NEW j \in 0 .. n - 1 PROVE j + 1 \in 1 .. n /\ t[j + 1] = A(j)
    OBVIOUS
  <2>1. j + 1 \in 1 .. n /\ (j + 1) - 1 = j
    BY <1>1
  <2> QED BY <2>1, <1>2
<1>5. n + 0 = n
  BY <1>1
<1>6. RandomInv(t, n, 0)
  <2>1. \A k \in 1 .. n : t[k].type = "a" /\ t[k].id < n /\ t[k].id = k - 1
    BY <1>1, <1>2
  <2>2. \A k, l \in 1 .. n : k < l => t[k].id # t[l].id
    BY <2>1
  <2> QED BY <2>1, <2>2, <1>3, <1>4, <1>5 DEF RandomInv
<1> QED BY <1>6 DEF t

(* A free is spliced in behind its allocation. *)
LEMMA RandomNext ==
  ASSUME NEW n \in Rounds, NEW c \in 0 .. n - 1, NEW t, RandomInv(t, n, c),
         NEW u \in Spliced(t, n, c)
  PROVE  RandomInv(u, n, c + 1)
<1> DEFINE m == CHOOSE k \in 1 .. Len(t) : t[k] = A(c)
<1>1. n \in Nat \ {0} /\ c \in FileIds /\ c \in Nat
  <2>1. n \in Nat \ {0} /\ \A j \in 0 .. 3 * n - 1 : j \in FileIds
    BY GeneratorIds
  <2> QED BY <2>1, c \in 0 .. 3 * n - 1
<1>2. t \in Seq(LineSet) /\ Len(t) = n + c
  BY DEF RandomInv
<1>3. m \in 1 .. n + c /\ t[m] = A(c)
  BY <1>2 DEF RandomInv
<1>4. PICK p \in (m - 1) + 1 .. (m - 1) + (IF n + c - (m - 1) - 1 = 0 THEN 1 ELSE n + c - (m - 1) - 1) :
         u = InsertAt(t, p + 1, F(c))
  BY DEF Spliced
<1> HIDE DEF m
<1> DEFINE q == p + 1
<1>5. q \in m + 1 .. n + c + 1
  BY <1>1, <1>3, <1>4
<1>6. u = InsertAt(t, q, F(c))
  BY <1>4
<1> HIDE DEF q
<1>7. F(c) \in LineSet /\ F(c).type = "f" /\ F(c).id = c
  BY <1>1, MadeLines
<1>8. /\ u \in Seq(LineSet) /\ Len(u) = n + c + 1
      /\ \A k \in 1 .. q - 1 : u[k] = t[k]
      /\ u[q] = F(c)
      /\ \A k \in q + 1 .. n + c + 1 : u[k] = t[k - 1]
  <2>1. q \in 1 .. Len(t) + 1
    BY <1>1, <1>2, <1>3, <1>5
  <2>2. /\ u \in Seq(LineSet) /\ Len(u) = Len(t) + 1 /\ u[q] = F(c)
        /\ \A k \in 1 .. q - 1 : u[k] = t[k]
        /\ \A k \in q + 1 .. Len(t) + 1 : u[k] = t[k - 1]
    <3> DEFINE v == F(c)
    <3>1. v \in LineSet /\ u = InsertAt(t, q, v)
      BY <1>6, <1>7
    <3> HIDE DEF v
    <3>2. /\ u \in Seq(LineSet) /\ Len(u) = Len(t) + 1 /\ u[q] = v
          /\ \A k \in 1 .. q - 1 : u[k] = t[k]
          /\ \A k \in q + 1 .. Len(t) + 1 : u[k] = t[k - 1]
      <4>1. t \in Seq(LineSet) /\ q \in 1 .. Len(t) + 1 /\ v \in LineSet /\ u = InsertAt(t, q, v)
        BY <3>1, <2>1, <1>2
      <4>2. \A s \in Seq(LineSet) : \A r \in 1 .. Len(s) + 1 : \A w \in LineSet :
              LET x == InsertAt(s, r, w) IN
          /\ x \in Seq(LineSet) /\ Len(x) = Len(s) + 1 /\ x[r] = w
          /\ \A k \in 1 .. r - 1 : x[k] = s[k]
          /\ \A k \in r + 1 .. Len(s) + 1 : x[k] = s[k - 1]
        BY InsertedAt
      <4> QED BY <4>1, <4>2
    <3> QED BY <3>2 DEF v
  <2> QED BY <2>2, <1>2
<1>9. \A k \in 1 .. n + c :
          \/ t[k].type = "a" /\ t[k].id < n
          \/ t[k].type = "f" /\ t[k].id < c /\ LiveBefore(t, k, t[k].id)
  BY DEF RandomInv
<1>10. \A k \in 1 .. n + c : t[k].id \in Nat
  <2> SUFFICES ASSUME NEW k \in 1 .. n + c PROVE t[k].id \in Nat
    OBVIOUS
  <2>1. t[k] \in LineSet
    BY <1>2
  <2> QED BY <2>1, LineFields, IdsNat
<1>11. ASSUME NEW k \in 1 .. n + c + 1
       PROVE  \/ u[k].type = "a" /\ u[k].id < n
              \/ u[k].type = "f" /\ u[k].id < c + 1 /\ LiveBefore(u, k, u[k].id)
  <2>1. CASE k < q
    <3>1. k \in 1 .. q - 1 /\ k \in 1 .. n + c /\ u[k] = t[k]
      BY <2>1, <1>1, <1>5, <1>8
    <3>2. \A l \in 1 .. k - 1 : u[l] = t[l]
      BY <3>1, <1>5, <1>8
    <3>3. \A j : LiveBefore(u, k, j) <=> LiveBefore(t, k, j)
      BY <3>2, LivePrefix, k \in Nat
    <3>4. t[k].id \in Nat /\ c \in Nat
      BY <3>1, <1>1, <1>10
    <3>5. t[k].id < c => t[k].id < c + 1
      BY <3>4
    <3> QED BY <3>1, <3>3, <3>5, <1>9
  <2>2. CASE k = q
    <3>1. k \in Nat /\ m \in 1 .. k - 1 /\ u[m] = A(c)
      BY <2>2, <1>1, <1>3, <1>5, <1>8
    <3>2. ASSUME NEW l \in m + 1 .. k - 1, u[l].type = "f", u[l].id = c PROVE FALSE
      <4>1. u[l] = t[l] /\ l \in 1 .. n + c
        BY <2>2, <1>1, <1>3, <1>5, <1>8
      <4> QED BY <4>1, <3>2, <1>1, <1>9
    <3>3. LiveBefore(u, k, c)
      BY <3>1, <3>2, LiveSince
    <3> QED BY <3>3, <2>2, <1>1, <1>7, <1>8
  <2>3. CASE k > q
    <3>1. k \in q + 1 .. n + c + 1 /\ k - 1 \in 1 .. n + c /\ u[k] = t[k - 1]
      BY <2>3, <1>1, <1>3, <1>5, <1>8
    <3>2. ASSUME t[k - 1].type = "f", t[k - 1].id < c, LiveBefore(t, k - 1, t[k - 1].id)
          PROVE  LiveBefore(u, k, t[k - 1].id)
      <4> DEFINE id == t[k - 1].id
      <4>1. PICK j \in 1 .. (k - 1) - 1 : t[j] = A(id) /\ \A l \in j + 1 .. (k - 1) - 1 : t[l] # F(id)
        BY <3>2 DEF LiveBefore
      <4> DEFINE j1 == IF j < q THEN j ELSE j + 1
      <4>2. j1 \in 1 .. k - 1 /\ u[j1] = A(id)
        <5>1. CASE j < q
          BY <5>1, <4>1, <3>1, <1>5, <1>8, j \in 1 .. q - 1
        <5>2. CASE ~ (j < q)
          <6>1. j + 1 \in q + 1 .. n + c + 1 /\ (j + 1) - 1 = j
            BY <5>2, <3>1, <1>1, <1>3, <1>5
          <6> QED BY <5>2, <6>1, <4>1, <3>1, <1>8
        <5> QED BY <5>1, <5>2
      <4>3. F(c) # F(id)
        BY <3>1, <3>2, <1>1, <1>10 DEF F
      <4>4. ASSUME NEW l \in j1 + 1 .. k - 1 PROVE u[l] # F(id)
        <5>1. CASE l < q
          <6>1. u[l] = t[l] /\ l \in j + 1 .. (k - 1) - 1
            BY <5>1, <4>2, <3>1, <1>1, <1>3, <1>5, <1>8
          <6> QED BY <6>1, <4>1
        <5>2. CASE l = q
          BY <5>2, <4>3, <1>8
        <5>3. CASE l > q
          <6>1. u[l] = t[l - 1] /\ l \in q + 1 .. n + c + 1
            BY <5>3, <4>2, <3>1, <1>1, <1>3, <1>5, <1>8
          <6>2. l - 1 \in j + 1 .. (k - 1) - 1
            <7>1. CASE j < q
              BY <7>1, <5>3, <3>1, <1>1, <1>3, <1>5
            <7>2. CASE ~ (j < q)
              BY <7>2, <3>1, <1>1, <1>3, <1>5
            <7> QED BY <7>1, <7>2
          <6> QED BY <6>1, <6>2, <4>1
        <5> QED BY <5>1, <5>2, <5>3, <1>3, <1>5
      <4> HIDE DEF j1
      <4> QED BY <4>2, <4>4 DEF LiveBefore
    <3>3. t[k - 1].id < c => t[k - 1].id < c + 1
      BY <3>1, <1>1, <1>10
    <3> QED BY <3>1, <3>2, <3>3, <1>9
  <2> QED BY <2>1, <2>2, <2>3, <1>3, <1>5
<1>12. ASSUME NEW k \in 1 .. n + c + 1, NEW l \in 1 .. n + c + 1,
              k < l, u[k].type = "a", u[l].type = "a"
       PROVE  u[k].id # u[l].id
  <2>1. k # q /\ l # q
    BY <1>7, <1>8, <1>12
  <2> DEFINE Old(j) == IF j < q THEN j ELSE j - 1
  <2>5. ASSUME NEW j \in 1 .. n + c + 1, j # q
        PROVE  Old(j) \in 1 .. n + c /\ u[j] = t[Old(j)]
    <3>1. CASE j < q
      <4>1. j \in 1 .. q - 1 /\ j \in 1 .. n + c
        BY <3>1, <1>1, <1>3, <1>5
      <4> QED BY <4>1, <3>1, <1>8
    <3>2. CASE j > q
      <4>1. j \in q + 1 .. n + c + 1 /\ j - 1 \in 1 .. n + c /\ ~ (j < q)
        BY <3>2, <1>1, <1>3, <1>5
      <4> QED BY <4>1, <1>8
    <3> QED BY <3>1, <3>2, <2>5, <1>3, <1>5
  <2>2. PICK k1 \in 1 .. n + c : u[k] = t[k1] /\ k1 = IF k < q THEN k ELSE k - 1
    BY <2>1, <2>5
  <2>3. PICK l1 \in 1 .. n + c : u[l] = t[l1] /\ l1 = IF l < q THEN l ELSE l - 1
    BY <2>1, <2>5
  <2>4. k1 < l1
    BY <2>1, <2>2, <2>3, <1>1, <1>3, <1>5, <1>12
  <2> QED BY <2>2, <2>3, <2>4, <1>12 DEF RandomInv
<1>13. ASSUME NEW j \in 0 .. n - 1
       PROVE  \E k \in 1 .. n + c + 1 : u[k] = A(j)
  <2>1. PICK k \in 1 .. n + c : t[k] = A(j)
    BY DEF RandomInv
  <2>2. CASE k < q
    BY <2>1, <2>2, <1>1, <1>3, <1>5, <1>8, k \in 1 .. q - 1, k \in 1 .. n + c + 1
  <2>3. CASE ~ (k < q)
    <3>1. k + 1 \in q + 1 .. n + c + 1 /\ (k + 1) - 1 = k /\ k + 1 \in 1 .. n + c + 1
      BY <2>3, <1>1, <1>3, <1>5
    <3>2. u[k + 1] = t[k]
      BY <3>1, <1>8
    <3> QED BY <2>1, <3>1, <3>2
  <2> QED BY <2>2, <2>3
<1>14. n + (c + 1) = n + c + 1
  BY <1>1
<1> QED BY <1>8, <1>11, <1>12, <1>13, <1>14 DEF RandomInv

(* f gives what the program may have once the frees of 0 .. c - 1 are in. *)
After(f, n, m) ==
    f = [c \in 0 .. m |->
            IF c = 0 THEN {[k \in 1 .. n |-> A(k - 1)]}
            ELSE UNION {Spliced(t, n, c - 1) : t \in f[c - 1]}]

(* There is such a function. *)
LEMMA AfterExists ==
  ASSUME NEW n, NEW m \in Nat
  PROVE  \E f : After(f, n, m)
<1> DEFINE T == {c \in Nat : \E f : After(f, n, c)}
           First == {[k \in 1 .. n |-> A(k - 1)]}
           More(c, S) == UNION {Spliced(t, n, c - 1) : t \in S}
<1>1. \A f : \A c : After(f, n, c) <=>
          f = [k \in 0 .. c |-> IF k = 0 THEN First ELSE More(k, f[k - 1])]
  BY DEF After
<1> HIDE DEF First, More
<1>2. 0 \in T
  <2> DEFINE g == [k \in 0 .. 0 |-> First]
  <2>1. \A k \in 0 .. 0 : First = IF k = 0 THEN First ELSE More(k, g[k - 1])
    OBVIOUS
  <2>2. g = [k \in 0 .. 0 |-> IF k = 0 THEN First ELSE More(k, g[k - 1])]
    BY <2>1
  <2>3. After(g, n, 0)
    BY <2>2, <1>1
  <2> QED BY <2>3
<1>3. ASSUME NEW c \in T PROVE c + 1 \in T
  <2>1. PICK f : After(f, n, c)
    OBVIOUS
  <2> DEFINE g == [k \in 0 .. c + 1 |-> IF k = c + 1 THEN More(c + 1, f[c]) ELSE f[k]]
  <2>2. c \in Nat
    OBVIOUS
  <2>3. \A k \in 0 .. c : g[k] = f[k] /\ f[k] = IF k = 0 THEN First ELSE More(k, f[k - 1])
    BY <2>1, <2>2, <1>1
  <2>4. g[c + 1] = More(c + 1, f[c]) /\ g = [k \in 0 .. c + 1 |-> g[k]]
    BY <2>2
  <2> HIDE DEF g
  <2>5. \A k \in 0 .. c + 1 : g[k] = IF k = 0 THEN First ELSE More(k, g[k - 1])
    <3> SUFFICES ASSUME NEW k \in 0 .. c + 1
                 PROVE  g[k] = IF k = 0 THEN First ELSE More(k, g[k - 1])
      OBVIOUS
    <3>1. CASE k = c + 1
      <4>1. k # 0 /\ k - 1 = c /\ c \in 0 .. c
        BY <3>1, <2>2
      <4> QED BY <4>1, <3>1, <2>3, <2>4
    <3>2. CASE k \in 0 .. c
      <4>1. k = 0 \/ k - 1 \in 0 .. c
        BY <3>2, <2>2
      <4> QED BY <4>1, <3>2, <2>3
    <3> QED BY <3>1, <3>2, <2>2
  <2>6. g = [k \in 0 .. c + 1 |-> IF k = 0 THEN First ELSE More(k, g[k - 1])]
    BY <2>4, <2>5
  <2>7. After(g, n, c + 1)
    BY <2>6, <1>1
  <2> QED BY <2>2, <2>7
<1>4. T = Nat
  <2> HIDE DEF T
  <2>1. T \in SUBSET Nat
    BY DEF T
  <2> QED BY <2>1, <1>2, <1>3, Induction
<1> QED BY <1>4

(* gen_random.pl, wherever it puts the frees. *)
LEMMA RandomFine ==
  ASSUME NEW n \in Rounds, NEW f \in gen_random(n)
  PROVE  Fine(f)
<1> DEFINE after == CHOOSE g : After(g, n, n)
<1>1. n \in Nat \ {0}
  BY GeneratorIds
<1>2. gen_random(n) = {File(n, 2 * n, t) : t \in after[n]}
  BY DEF gen_random, After
<1>3. After(after, n, n)
  BY <1>1, AfterExists
<1> HIDE DEF after
<1> DEFINE First == {[k \in 1 .. n |-> A(k - 1)]}
           More(c, S) == UNION {Spliced(t, n, c - 1) : t \in S}
<1>4. after = [c \in 0 .. n |-> IF c = 0 THEN First ELSE More(c, after[c - 1])]
  BY <1>3 DEF After
<1>5. after[0] = First /\ \A c \in 1 .. n : after[c] = More(c, after[c - 1])
  <2> HIDE DEF First, More
  <2> QED BY <1>1, <1>4
<1> DEFINE T == {c \in Nat : c <= n => \A t \in after[c] : RandomInv(t, n, c)}
<1>6. 0 \in T
  BY <1>5, RandomFirst
<1>7. ASSUME NEW c \in T PROVE c + 1 \in T
  <2> SUFFICES ASSUME c + 1 <= n, NEW u \in after[c + 1] PROVE RandomInv(u, n, c + 1)
    OBVIOUS
  <2>1. c \in 0 .. n - 1 /\ c + 1 \in 1 .. n /\ (c + 1) - 1 = c /\ c <= n
    BY <1>1
  <2>2. u \in More(c + 1, after[(c + 1) - 1])
    <3> HIDE DEF More
    <3> QED BY <2>1, <1>5
  <2>3. PICK t \in after[(c + 1) - 1] : u \in Spliced(t, n, (c + 1) - 1)
    BY <2>2
  <2>4. RandomInv(t, n, c)
    BY <2>1, <2>3
  <2>5. u \in Spliced(t, n, c)
    BY <2>1, <2>3
  <2> QED BY <2>1, <2>4, <2>5, RandomNext
<1>8. T = Nat
  <2> HIDE DEF T
  <2>1. T \in SUBSET Nat
    BY DEF T
  <2> QED BY <2>1, <1>6, <1>7, Induction
<1>9. PICK t \in after[n] : f = File(n, 2 * n, t)
  BY <1>2
<1>10. RandomInv(t, n, n)
  BY <1>1, <1>8
<1>11. /\ t \in Seq(LineSet) /\ Len(t) = 2 * n
       /\ \A k \in 1 .. 2 * n :
             \/ t[k].type = "a" /\ t[k].id < n
             \/ t[k].type = "f" /\ t[k].id < n /\ LiveBefore(t, k, t[k].id)
       /\ \A k, l \in 1 .. 2 * n :
             k < l /\ t[k].type = "a" /\ t[l].type = "a" => t[k].id # t[l].id
       /\ \E k \in 1 .. 2 * n : t[k] = A(n - 1)
  <2>1. n + n = 2 * n /\ n - 1 \in 0 .. n - 1
    BY <1>1
  <2> QED BY <2>1, <1>10 DEF RandomInv
<1>12. UsedOnce(t)
  BY <1>11 DEF UsedOnce, AllKnown, KnownTypes
<1>13. \E k \in 1 .. Len(t) : t[k].type # "f" /\ t[k].id = n - 1
  BY <1>11 DEF A
<1> QED BY <1>1, <1>9, <1>11, <1>12, <1>13, OnceFine

(* Whatever a generator writes. *)
LEMMA GeneratedFine ==
  \A f \in Generated : Fine(f)
<1> SUFFICES ASSUME NEW n \in Rounds,
                    NEW f \in {gen_binary(n), gen_coalescing(n), gen_realloc(n)} \cup gen_random(n)
             PROVE  Fine(f)
  BY DEF Generated
<1> QED BY BinaryFine, CoalescingFine, ReallocFine, RandomFine

-----------------------------------------------------------------------------
(* The two programs *)

(* make only uses the scripts and read_trace; main only read_trace, for    *)
(* one of its files at a time.                                             *)
FilesInv ==
    \/ program = "make" /\ do = "start" /\ tool # "off"
    \/ /\ program = "mdriver" /\ ~balanced
       /\ tool \in {"off", "read", "loaded", "bogus", "assert"}
       /\ Len(tracefiles) \in Nat /\ i \in 1 .. Len(tracefiles)
       /\ \A k \in 1 .. Len(tracefiles) : tracefiles[k] \in Files
       /\ do \in {"start", "read"} => tool = "off"

(* Any file that is recorded, and those that main is given. *)
LEMMA FilesAre ==
  /\ \A f \in Generated \cup Recorded : f \in Files
  /\ \A fs \in TraceLists :
        Len(fs) \in Nat \ {0} /\ \A k \in 1 .. Len(fs) : fs[k] \in Files
<1>1. ASSUME NEW ids \in Nat, NEW ops \in Nat, NEW s \in Seq(LineSet)
      PROVE  File(ids, ops, s) \in Files
  BY DEF File, Files
<1>2. \A f \in Generated : f \in Files
  BY GeneratedFine DEF Fine
<1>3. ASSUME NEW f \in Recorded PROVE f \in Files
  <2> DEFINE Lines == {BLANK} \cup [type : {"a", "r", "f", "x"}, id : RecordedIds]
  <2> DEFINE Bodies == UNION {[1 .. n -> Lines] : n \in 0 .. MaxLines}
  <2>5. PICK ids \in 1 .. 2, ops \in 0 .. MaxLines + 1, s \in Bodies : f = File(ids, ops, s)
    BY DEF Recorded
  <2>1. PICK n \in 0 .. MaxLines : s \in [1 .. n -> Lines]
    BY <2>5
  <2>2. \A l \in Lines : l \in LineSet
    BY EvaluationAssumption DEF LineSet
  <2>3. n \in Nat /\ ids \in Nat /\ ops \in Nat
    BY EvaluationAssumption
  <2> HIDE DEF Lines
  <2>4. s \in Seq(LineSet)
    <3>1. s \in [1 .. n -> LineSet]
      BY <2>1, <2>2
    <3> QED BY <3>1, <2>3
  <2> QED BY <2>3, <2>4, <2>5, <1>1
<1> QED BY <1>2, <1>3, GivenFiles

(* The initial states *)
LEMMA TraceInit ==
  ASSUME Init
  PROVE  TraceInv /\ FilesInv
<1>1. HASH = NoHash /\ lines = <<>> /\ balanced = FALSE /\ trace = NoTrace /\ pos = 0
  BY DEF Init, FileInit
<1>2. file \in Files
  <2>1. CASE program = "make"
    BY <2>1, FilesAre DEF Init, FileInit
  <2>2. CASE program # "make"
    <3>1. tracefiles \in TraceLists /\ file = tracefiles[1]
      BY <2>2 DEF Init
    <3> QED BY <3>1, FilesAre
  <2> QED BY <2>1, <2>2
<1>3. Len(file.lines) \in Nat
  BY <1>2 DEF Files
<1>4. tool \in {"written", "off"}
  BY DEF Init, FileInit
<1>5. TraceTypes
  <2>1. pos \in 0 .. Len(file.lines)
    BY <1>1, <1>3
  <2> QED BY <2>1, <1>1, <1>2, NoTraceType DEF TraceTypes
<1>6. TraceInv
  BY <1>1, <1>4, <1>5 DEF TraceInv, CheckInv, SummaryInv, ReadInv, EndInv
<1>7. FilesInv
  <2>1. CASE program = "make"
    BY <2>1 DEF Init, FileInit, FilesInv
  <2>2. CASE program # "make"
    <3>1. /\ program = "mdriver" /\ tracefiles \in TraceLists /\ do = "start" /\ i = 1
          /\ tool = "off" /\ balanced = FALSE
      BY <2>2 DEF Init
    <3>2. Len(tracefiles) \in Nat \ {0} /\ \A k \in 1 .. Len(tracefiles) : tracefiles[k] \in Files
      BY <3>1, FilesAre
    <3> QED BY <3>1, <3>2 DEF FilesInv
  <2> QED BY <2>1, <2>2
<1> QED BY <1>6, <1>7

(* The scripts and read_trace, whoever runs them. *)
LEMMA ToolStep ==
  ASSUME TraceInv, CheckNext \/ ReadTrace \/ ReadNext
  PROVE  TraceInv'
<1>1. CASE CheckNext
  BY <1>1, GeneratedFine, StartCheckStep, CheckLineStep, EndCheckStep, EndSummaryStep DEF CheckNext
<1>2. CASE ReadTrace
  <2>1. file \in Files
    BY DEF TraceInv, TraceTypes
  <2> QED BY <1>2, <2>1, OpenTraceStep DEF ReadTrace
<1>3. CASE ReadNext
  BY <1>3, ReadLineStep, ReadEndStep DEF ReadNext
<1> QED BY <1>1, <1>2, <1>3

(* Where a file stays, so does what is known of it. *)
LEMMA FileStays ==
  ASSUME TraceInv, UNCHANGED fvars
  PROVE  TraceInv'
BY DEF TraceInv, fvars, TraceTypes, CheckInv, Entered, Outstanding, SummaryInv, ReadInv, EndInv

(* Every step preserves the two invariants. *)
LEMMA TraceStep ==
  ASSUME TraceInv, FilesInv, [Next]_vars
  PROVE  TraceInv' /\ FilesInv'
<1>1. CASE Make
  <2>1. UNCHANGED mvars /\ program = "make" /\ (CheckNext \/ ReadTrace \/ ReadNext)
    BY <1>1 DEF Make
  <2>2. tool' # "off"
    <3>1. tool # "off"
      BY <2>1 DEF FilesInv
    <3> QED BY <2>1, <3>1 DEF CheckNext, StartCheck, CheckLine, EndCheck, EndSummary,
                              ReadTrace, OpenTrace, ReadNext, ReadLine, ReadEnd
  <2> QED BY <2>1, <2>2, ToolStep DEF FilesInv, mvars
<1>2. CASE OpenNext
  <2>1. do = "read" /\ OpenTrace(tracefiles[i]) /\ do' = "load" /\ UNCHANGED <<options, i>>
    BY <1>2 DEF OpenNext, Goto
  <2>2. program = "mdriver" /\ ~balanced /\ tracefiles[i] \in Files
    BY <2>1 DEF FilesInv
  <2>3. TraceInv'
    BY <2>1, <2>2, OpenTraceStep
  <2> QED BY <2>1, <2>2, <2>3 DEF FilesInv, OpenTrace, options
<1>3. CASE Load
  <2>1. do = "load" /\ ReadNext /\ UNCHANGED mvars
    BY <1>3 DEF Load
  <2>2. tool' \in {"read", "loaded", "bogus", "assert"} /\ balanced' = balanced
    BY <2>1 DEF ReadNext, ReadLine, ReadEnd
  <2> QED BY <2>1, <2>2, ToolStep DEF FilesInv, mvars
<1>4. CASE FreeTrace
  <2>1. /\ do = "free" /\ trace' = NoTrace /\ tool' = "off"
        /\ UNCHANGED <<file, pos, HASH, lines, balanced>> /\ UNCHANGED options
        /\ i' \in {i, 1} \/ (i < Len(tracefiles) /\ i' = i + 1)
    BY <1>4 DEF FreeTrace, Goto
  <2>2. TraceInv'
    BY <2>1, NoTraceType DEF TraceInv, TraceTypes, CheckInv, SummaryInv, ReadInv, EndInv, FilesInv
  <2>3. i' \in 1 .. Len(tracefiles)
    BY <2>1 DEF FilesInv
  <2> QED BY <2>1, <2>2, <2>3 DEF FilesInv, options
<1>5. CASE StartMain
  <2>1. do = "start" /\ UNCHANGED <<fvars, i>> /\ UNCHANGED options /\ program = "mdriver"
    BY <1>5 DEF StartMain, Goto
  <2> QED BY <2>1, FileStays DEF FilesInv, fvars, options
<1>6. CASE \/ Loaded \/ LoadFails \/ Valid \/ MmInvalid \/ LibcInvalid \/ Util
           \/ StartSpeed \/ Speed \/ SpeedFails \/ SpeedDone \/ Report
  <2>1. /\ UNCHANGED fvars /\ UNCHANGED options /\ i' = i
        /\ do \notin {"start", "read"} /\ do' \notin {"start", "read"}
    BY <1>6 DEF Loaded, LoadFails, Valid, MmInvalid, LibcInvalid, Util, StartSpeed, Speed,
                SpeedFails, SpeedDone, Report, Goto, Exit, mvars, options
  <2> QED BY <2>1, FileStays DEF FilesInv, fvars, options
<1>7. CASE UNCHANGED vars
  BY <1>7, FileStays DEF vars, fvars, mvars, FilesInv
<1> QED BY <1>1, <1>2, <1>3, <1>4, <1>5, <1>6, <1>7 DEF Next, MainNext

(* The invariant of the trace files. *)
THEOREM TraceAlways == FairSpec => [](TraceInv /\ FilesInv)
<1>1. Init => TraceInv /\ FilesInv
  BY TraceInit
<1>2. TraceInv /\ FilesInv /\ [Next]_vars => (TraceInv /\ FilesInv)'
  BY TraceStep
<1> QED BY <1>1, <1>2, PTL DEF FairSpec

(* What the generators write is accepted by checktrace.pl and read_trace,  *)
(* for any number of iterations and every place of the random frees.       *)
THEOREM Accepted == FairSpec => []GeneratedAccepted
<1>1. TraceInv => GeneratedAccepted
  BY GeneratedFine DEF TraceInv, EndInv, GeneratedAccepted, Fine
<1> QED BY <1>1, TraceAlways, PTL

(* checktrace.pl does not object to what it has written, and finds it      *)
(* balanced.                                                               *)
THEOREM EndsEmpty == FairSpec => []BalancedEndsEmpty
<1>1. TraceInv => BalancedEndsEmpty
  <2> SUFFICES ASSUME TraceInv, tool = "summary", pos < Len(file.lines)
               PROVE  ~Complains(Line)
    BY DEF BalancedEndsEmpty, TraceInv
  <2>1. PICK h : Tables(h, file.lines) /\ HASH = h[pos]
    BY DEF TraceInv, SummaryInv
  <2>2. /\ Line = file.lines[pos + 1] /\ pos \in Nat /\ file.lines \in Seq(LineSet)
        /\ Complains(Line) <=> Objects(HASH, Line)
    BY LineIs DEF TraceInv
  <2>3. pos + 1 \in 1 .. Len(file.lines) /\ (pos + 1) - 1 = pos
    BY <2>2
  <2>4. ~Objects(h[pos], file.lines[pos + 1])
    BY <2>1, <2>3 DEF Tables
  <2> QED BY <2>1, <2>2, <2>4
<1> QED BY <1>1, TraceAlways, PTL

(* A balanced trace that has been loaded may be replayed. *)
THEOREM MayReplay == FairSpec => []LoadedReplayable
<1>1. TraceInv => LoadedReplayable
  <2> SUFFICES ASSUME TraceInv, tool = "loaded", balanced
               PROVE  Replayable(trace.ops)
    BY DEF LoadedReplayable
  <2>1. file.lines \in Seq(LineSet)
    BY DEF TraceInv, TraceTypes, Files
  <2>2. PICK h : NoBlank(file.lines) /\ Tables(h, file.lines)
    BY DEF TraceInv, Balanced
  <2>3. /\ Kept(trace.ops, file.lines, Len(file.lines))
        /\ \A k \in 1 .. Len(file.lines) : file.lines[k] = BLANK \/ file.lines[k].type \in KnownTypes
    BY DEF TraceInv, ReadInv
  <2>4. trace.ops = file.lines
    BY <2>1, <2>2, <2>3, KeptAll
  <2>5. AllKnown(file.lines)
    BY <2>2, <2>3 DEF AllKnown, NoBlank
  <2> QED BY <2>1, <2>2, <2>4, <2>5, TablesReplay
<1> QED BY <1>1, TraceAlways, PTL

(* checktrace.pl adds the frees to the number of requests in the header. *)
LEMMA EndCheckHeader ==
  ASSUME TraceInv, EndCheck, HeaderRight(file)
  PROVE  HeaderRight(file')
<1> DEFINE n == Cardinality(Outstanding)
<1>1. /\ tool = "check" /\ pos = Len(file.lines)
      /\ file' = Balance \/ file' = file
  BY DEF EndCheck
<1>2. file \in Files /\ Kept(lines, file.lines, Len(file.lines))
  BY <1>1 DEF TraceInv, TraceTypes, CheckInv
<1>3. Outstanding \in SUBSET FileIds /\ n \in Nat
  BY FewIds DEF Outstanding
<1>4. PICK order \in [1 .. n -> Outstanding] : Frees(n) = [k \in 1 .. n |-> F(order[k])]
  BY FreesAre
<1>5. Balance = File(file.ids, file.ops + n, lines \o Frees(n))
  BY DEF Balance
<1> HIDE DEF n
<1>6. \A k \in 1 .. n :
         F(order[k]) \in LineSet /\ F(order[k]).type = "f" /\ F(order[k]).id < file.ids
  <2> SUFFICES ASSUME NEW k \in 1 .. n
               PROVE  /\ F(order[k]) \in LineSet /\ F(order[k]).type = "f"
                      /\ F(order[k]).id < file.ids
    OBVIOUS
  <2>1. order[k] \in FileIds /\ order[k] \in Outstanding
    BY <1>3, <1>4
  <2>2. PICK m \in 1 .. Len(lines) : lines[m].id = order[k]
    BY <2>1, <1>1 DEF TraceInv, CheckInv, Entered
  <2>3. PICK l \in 1 .. Len(file.lines) : file.lines[l] = lines[m] /\ lines[m] # BLANK
    BY <1>2 DEF Kept
  <2>4. order[k] < file.ids
    BY <2>2, <2>3 DEF HeaderRight, Requests
  <2> QED BY <2>1, <2>4, MadeLines
<1>7. /\ Frees(n) \in [1 .. n -> LineSet]
      /\ \A k \in 1 .. n : Frees(n)[k].type = "f" /\ Frees(n)[k].id < file.ids
  BY <1>4, <1>6
<1>8. HeaderRight(Balance)
  <2>1. \A fs \in [1 .. n -> LineSet] :
           (\A k \in 1 .. n : fs[k].type = "f" /\ fs[k].id < file.ids) =>
           HeaderRight(File(file.ids, file.ops + n, lines \o fs))
    BY <1>2, <1>3, HeaderKept
  <2> QED BY <2>1, <1>5, <1>7
<1> QED BY <1>1, <1>8

(* A right header stays right. *)
LEMMA HeaderStep ==
  ASSUME TraceInv, FilesInv, [Next]_vars, HeaderRight(file), tool # "off"
  PROVE  HeaderRight(file')
<1>1. CASE EndCheck
  BY <1>1, EndCheckHeader
<1>2. CASE OpenNext
  BY <1>2 DEF OpenNext, FilesInv
<1>3. CASE ~EndCheck /\ ~OpenNext
  <2>1. CASE Make
    BY <2>1, <1>3 DEF Make, CheckNext, StartCheck, CheckLine, EndSummary,
                      ReadTrace, OpenTrace, ReadNext, ReadLine, ReadEnd
  <2>2. CASE Load
    BY <2>2 DEF Load, ReadNext, ReadLine, ReadEnd
  <2>3. CASE FreeTrace
    BY <2>3 DEF FreeTrace
  <2>4. CASE \/ StartMain \/ Loaded \/ LoadFails \/ Valid \/ MmInvalid \/ LibcInvalid \/ Util
             \/ StartSpeed \/ Speed \/ SpeedFails \/ SpeedDone \/ Report
    BY <2>4 DEF StartMain, Loaded, LoadFails, Valid, MmInvalid, LibcInvalid, Util, StartSpeed,
                Speed, SpeedFails, SpeedDone, Report, fvars
  <2>5. CASE UNCHANGED vars
    BY <2>5 DEF vars, fvars
  <2> QED BY <1>3, <2>1, <2>2, <2>3, <2>4, <2>5 DEF Next, MainNext
<1> QED BY <1>1, <1>2, <1>3

(* What read_trace does with a right header. *)
HeaderUsed ==
    HeaderRight(file) =>
        /\ tool \notin {"bogus", "assert"}
        /\ Len(trace.ops) <= trace.num_ops
        /\ \A k \in DOMAIN trace.ops : trace.ops[k].id < trace.num_ids

(* A right header stays right through checktrace.pl, and then read_trace   *)
(* stores nothing outside of its arrays and trips no assertion.            *)
THEOREM HeadersStayRight == FairSpec => HeaderStaysRight
<1>1. TraceInv => HeaderUsed
  <2> SUFFICES ASSUME TraceInv, HeaderRight(file)
               PROVE  /\ tool \notin {"bogus", "assert"}
                      /\ Len(trace.ops) <= trace.num_ops
                      /\ \A k \in DOMAIN trace.ops : trace.ops[k].id < trace.num_ids
    BY DEF HeaderUsed
  <2>1. tool \notin {"bogus", "assert"}
    BY DEF TraceInv, EndInv
  <2>2. CASE tool \in {"read", "loaded"}
    BY <2>1, <2>2, HeaderHolds
  <2>3. CASE tool \notin {"read", "loaded"}
    <3>1. trace = NoTrace
      BY <2>1, <2>3 DEF TraceInv
    <3>2. Len(NoTrace.ops) <= NoTrace.num_ops /\ DOMAIN NoTrace.ops = {}
      BY DEF NoTrace
    <3> QED BY <2>1, <3>1, <3>2
  <2> QED BY <2>2, <2>3
<1>2. TraceInv /\ FilesInv /\ HeaderUsed' /\ [Next]_vars =>
         (HeaderRight(file) /\ tool # "off" /\ tool' # "off" =>
            /\ HeaderRight(file')
            /\ tool' \notin {"bogus", "assert"}
            /\ Len(trace'.ops) <= trace'.num_ops
            /\ \A k \in DOMAIN trace'.ops : trace'.ops[k].id < trace'.num_ids)
  BY HeaderStep DEF HeaderUsed
<1> QED BY <1>1, <1>2, TraceAlways, PTL DEF FairSpec, HeaderStaysRight

=============================================================================
