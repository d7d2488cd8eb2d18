------------------------------ MODULE ClkDivMult ------------------------------
(***************************************************************************)
(* The clock divider and multiplier of the applets                         *)
(* (shim/include/util/clkdivmult.h), a record and its methods.             *)
(*                                                                         *)
(* Ticks are below 2^32: the counter of a module switched on does not get  *)
(* there for three days, and next_clock would then be passed at once.      *)
(***************************************************************************)
EXTENDS Integers

CONSTANTS
  ClockDivMax,      \* CLOCKDIV_MAX
  ClockDivMin       \* CLOCKDIV_MIN

ASSUME ClkDivMultAssumption ==
  /\ ClockDivMax \in Nat \ {0}
  /\ ClockDivMin \in Int /\ ClockDivMin < 0

\* steps > 0 divides by steps, steps < 0 multiplies by -steps, 0 is off.
Divider == [steps : ClockDivMin .. ClockDivMax, clockCount : Nat,
            nextClock : Nat, lastClock : Nat, cycleTime : Nat]

NewDivider == [steps |-> 1, clockCount |-> 0, nextClock |-> 0,
               lastClock |-> 0, cycleTime |-> 0]

\* Mutant: int8_t steps takes the value as it comes.
Unclipped(s) == s

Clipped(s) ==
  IF s < ClockDivMin THEN ClockDivMin
  ELSE IF s > ClockDivMax THEN ClockDivMax ELSE s

DividerSet(d, s) == [d EXCEPT !.steps = Clipped(s)]

DividerReset(d) == [d EXCEPT !.clockCount = 0, !.nextClock = 0]

\* tick_interval: the last cycle in as many parts as the clock is multiplied by.
Interval(d) == d.cycleTime \div (- d.steps)

-----------------------------------------------------------------------------
(***************************************************************************)
(* Tick, at a clock and after it. Each part says whether it puts out a     *)
(* trigger, and what the divider then is.                                  *)
(***************************************************************************)

\* The cycle is measured whatever the clock is then used for.
Timed(d, now) == [d EXCEPT !.cycleTime = now - d.lastClock, !.lastClock = now]

\* Mutants: the count is taken past its last step, or must meet it exactly.
DividedLate(d) ==
  LET count == d.clockCount + 1
  IN [d EXCEPT !.clockCount = IF count > d.steps THEN 0 ELSE count]
DividedOnTheDot(d) ==
  LET count == d.clockCount + 1
  IN [d EXCEPT !.clockCount = IF count = d.steps THEN 0 ELSE count]

Divided(d) ==
  LET count == d.clockCount + 1
  IN [d EXCEPT !.clockCount = IF count >= d.steps THEN 0 ELSE count]

Multiplied(d, now) ==
  [d EXCEPT !.nextClock = now + Interval(d), !.clockCount = 0]

\* At a clock: the divider after it.
Clocked(d, now) ==
  LET timed == Timed(d, now)
  IN IF d.steps > 0 THEN Divided(timed) ELSE Multiplied(timed, now)

\* At a clock a division fires on its first count, a multiplication always.
FiresAtClock(d) == d.steps < 0 \/ d.clockCount = 0

\* A trigger between the clocks is due.
Due(d, now) ==
  d.steps < 0 /\ d.nextClock > 0 /\ now >= d.nextClock /\ d.clockCount + 1 < - d.steps

\* Mutant: the triggers are not counted, and go on when the clock is late.
SubdividedForEver(d) == [d EXCEPT !.nextClock = @ + Interval(d)]

Subdivided(d) ==
  [d EXCEPT !.nextClock = @ + Interval(d), !.clockCount = @ + 1]

\* The divider after Tick, and the trigger Tick returns.
Ticked(d, now, clocked) ==
  IF d.steps = 0 THEN d
  ELSE LET then == IF clocked THEN Clocked(d, now) ELSE d
       IN IF Due(then, now) THEN Subdivided(then) ELSE then

Fires(d, now, clocked) ==
  /\ d.steps # 0
  /\ \/ clocked /\ FiresAtClock(d)
     \/ Due(IF clocked THEN Clocked(d, now) ELSE d, now)
=============================================================================
