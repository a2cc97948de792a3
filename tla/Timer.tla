------------------------------- MODULE Timer --------------------------------
(* The arithmetic of devices/timer.c and devices/pit.c: calibration of the   *)
(* delay loop, conversion of times into ticks and loops, and the count that  *)
(* programs the timer chip.  How ticks interleave with threads is in Threads. *)
EXTENDS Integers

CONSTANTS FirstBit,       \* the first guess, 1 << FirstBit: 10 in the code
          TIMER_FREQ,
          Thousand        \* 1000 in the code

(* A tick lasts as long as perTick loops. *)
too_many_loops(loops, perTick) == loops > perTick

RECURSIVE Double(_, _)
Double(loops, perTick) == IF too_many_loops(2 * loops, perTick) THEN loops ELSE Double(2 * loops, perTick)

(* Each bit is tried next to the highest bit alone. *)
RECURSIVE Refine(_, _, _, _)
Refine(loops, high_bit, test_bit, perTick) ==
  IF test_bit = high_bit \div 2^FirstBit THEN loops
  ELSE Refine(IF too_many_loops(high_bit + test_bit, perTick) THEN loops ELSE loops + test_bit,
              high_bit, test_bit \div 2, perTick)

timer_calibrate(perTick) ==
  LET high_bit == Double(2^FirstBit, perTick) IN Refine(high_bit, high_bit, high_bit \div 2, perTick)

(* Loops that real_time_delay waits, and what real_time_sleep does. *)
real_time_delay(num, denom, loops_per_tick) ==
  (((loops_per_tick * num) \div Thousand) * TIMER_FREQ) \div (denom \div Thousand)

real_time_sleep(num, denom, loops_per_tick) ==
  LET ticks == (num * TIMER_FREQ) \div denom
  IN  IF ticks > 0 THEN [ticks |-> ticks, loops |-> 0]
                   ELSE [ticks |-> 0, loops |-> real_time_delay(num, denom, loops_per_tick)]

PIT_HZ == 1193180

pit_count(frequency) ==
  IF frequency < 19 THEN 0
  ELSE IF frequency > PIT_HZ THEN 2 ELSE (PIT_HZ + frequency \div 2) \div frequency
-----------------------------------------------------------------------------
(* Calibration tries each bit next to the highest one alone, so that         *)
(* loops_per_tick is not "the number of loops per timer tick" of its         *)
(* declaration: it is never short by more than the last bit tried, but may   *)
(* be too large by any factor below two.  With it, a sleep of less than a    *)
(* tick waits for at most its length in calibrated loops, rounded down by    *)
(* less than what one unit of Thousand stands for, and a longer sleep for    *)
(* the whole ticks in it.                                                    *)
DelaysAreRight(perTick, num, denom) ==
  LET r == timer_calibrate(perTick)
      s == real_time_sleep(num, denom, r)
      exact == r * num * TIMER_FREQ                  \* loops, times denom
  IN  /\ perTick >= 2^FirstBit => r < 2 * perTick /\ perTick - r < r \div 2^(FirstBit - 1)
      /\ s.ticks * denom <= num * TIMER_FREQ /\ num * TIMER_FREQ < (s.ticks + 1) * denom
      /\ s.ticks = 0 => /\ s.loops * denom <= exact
                        /\ exact < (s.loops + 1) * denom + Thousand * TIMER_FREQ

(* The timer chip's count fits into its 16 bits and gives the frequency      *)
(* asked for as nearly as a count can, for every TIMER_FREQ that compiles.   *)
CountIsRight(frequency) ==
  LET count == pit_count(frequency)
      error(c) == LET e == PIT_HZ - c * frequency IN IF e < 0 THEN -e ELSE e
  IN  /\ count \in 2 .. 65535
      /\ error(count) <= error(count - 1) /\ error(count) <= error(count + 1)
=============================================================================
