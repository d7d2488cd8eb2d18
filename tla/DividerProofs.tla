----------------------------- MODULE DividerProofs -----------------------------
(***************************************************************************)
(* A ClkDivMult divides exactly and multiplies evenly, and a sequence of   *)
(* them plays its turns, for any settings, clocks and ticks.               *)
(*                                                                         *)
(* One divider: clock_count is the number of clocks since the trigger,     *)
(* modulo steps, once there was one at this setting (Counted). Until then  *)
(* it is whatever the setting before left, and what matters is that the    *)
(* clocks it still swallows, with those it has, are no more than steps     *)
(* (Settling). A multiplication waits for the next multiple of its part of *)
(* the cycle (Waits).                                                      *)
(*                                                                         *)
(* A sequence: the clocks of a round before the one that is played are as  *)
(* many as the clocks since the first turn, modulo the round (OnSchedule); *)
(* the divider whose turn it is has counted the turn, or waits (InTurn).   *)
(***************************************************************************)
EXTENDS Divider, DivSequence, FiniteSetTheorems, WellFoundedInduction, TLAPS

-----------------------------------------------------------------------------
(***************************************************************************)
(* Arithmetic.                                                             *)
(***************************************************************************)

LEMMA TimesMonotone ==
  ASSUME NEW a \in Nat, NEW b \in Nat, NEW p \in Nat, a <= b
  PROVE  a * p <= b * p /\ a * p \in Nat
<1>1. PICK c \in Nat : b = a + c
  <2>1. b - a \in Nat /\ b = a + (b - a)
    OBVIOUS
  <2> QED
    BY <2>1
<1>2. (a + c) * p = a * p + c * p
  OBVIOUS
<1>3. c * p \in Nat /\ a * p \in Nat
  OBVIOUS
<1> QED
  BY <1>1, <1>2, <1>3

LEMMA TimesSucc ==
  ASSUME NEW a \in Nat, NEW p \in Nat
  PROVE  (a + 1) * p = a * p + p
OBVIOUS

LEMMA ModRange ==
  ASSUME NEW n \in Nat, NEW k \in Nat \ {0}
  PROVE  n % k \in 0 .. k - 1
OBVIOUS

LEMMA Strictly ==
  ASSUME NEW k \in Nat \ {0}, NEW a \in Int, a > 0
  PROVE  k * a >= k
OBVIOUS

LEMMA QuotientUnique ==
  ASSUME NEW k \in Nat \ {0}, NEW q \in Int, NEW r \in 0 .. k - 1, NEW p \in Int, NEW s \in 0 .. k - 1,
         k * q + r = k * p + s
  PROVE  r = s
<1>1. k * (q - p) = s - r
  OBVIOUS
<1>2. CASE q = p
  BY <1>1, <1>2
<1>3. CASE q > p
  BY <1>1, <1>3, k * (q - p) >= k, Strictly
<1>4. CASE q < p
  <2>1. k * (p - q) = r - s
    OBVIOUS
  <2> QED BY <2>1, <1>4, k * (p - q) >= k, Strictly
<1> QED
  BY <1>2, <1>3, <1>4

LEMMA ModSucc ==
  ASSUME NEW n \in Nat, NEW k \in Nat \ {0}
  PROVE  (n + 1) % k = IF n % k = k - 1 THEN 0 ELSE (n % k) + 1
<1> DEFINE q == n \div k
           p == (n + 1) \div k
           r == n % k
           s == (n + 1) % k
<1>1. q \in Int /\ p \in Int /\ r \in 0 .. k - 1 /\ s \in 0 .. k - 1
  OBVIOUS
<1>2. n = k * q + r /\ n + 1 = k * p + s
  OBVIOUS
<1> HIDE DEF q, p, r, s
<1>3. CASE r = k - 1
  <2>1. k * (q + 1) + 0 = k * p + s
    BY <1>1, <1>2, <1>3
  <2>2. q + 1 \in Int /\ 0 \in 0 .. k - 1
    BY <1>1
  <2> QED
    BY <2>1, <2>2, <1>1, <1>3, QuotientUnique DEF r, s
<1>4. CASE r # k - 1
  <2>1. k * q + (r + 1) = k * p + s
    BY <1>1, <1>2
  <2>2. r + 1 \in 0 .. k - 1
    BY <1>1, <1>4
  <2>3. r + 1 = s
    BY <2>1, <2>2, <1>1, QuotientUnique
  <2> QED
    BY <2>3, <1>4 DEF r, s
<1> QED
  BY <1>3, <1>4

-----------------------------------------------------------------------------
(***************************************************************************)
(* The methods of a ClkDivMult.                                            *)
(***************************************************************************)

LEMMA ClippedType ==
  ASSUME NEW s \in Int
  PROVE  Clipped(s) \in ClockDivMin .. ClockDivMax
BY ClkDivMultAssumption DEF Clipped

LEMMA IntervalType ==
  ASSUME NEW d \in Divider, d.steps < 0
  PROVE  Interval(d) \in Nat
<1>1. d.cycleTime \in Nat /\ d.steps \in Int /\ - d.steps \in Nat \ {0}
  BY ClkDivMultAssumption DEF Divider
<1> QED
  BY <1>1 DEF Interval

\* A tick with a clock, and one without.
TickedAt(d, t) == Ticked(d, t, TRUE)
FiresAt(d, t) == Fires(d, t, TRUE)
TickedBetween(d, t) == Ticked(d, t, FALSE)
FiresBetween(d, t) == Fires(d, t, FALSE)

Bounded(d) == d.clockCount < ClockDivMax - ClockDivMin

\* The methods keep the divider's type and bound its count.
LEMMA ClockedType ==
  ASSUME NEW d \in Divider, d.steps # 0, NEW t \in Nat, d.lastClock <= t
  PROVE  /\ Clocked(d, t) \in Divider /\ Bounded(Clocked(d, t))
         /\ Clocked(d, t).steps = d.steps /\ Clocked(d, t).lastClock = t
<1> DEFINE timed == Timed(d, t)
<1>1. /\ timed \in Divider /\ timed.steps = d.steps
      /\ timed.lastClock = t /\ timed.clockCount = d.clockCount
  <2>1. t - d.lastClock \in Nat
    BY DEF Divider
  <2> QED
    BY <2>1 DEF Timed, Divider
<1> HIDE DEF timed
<1>2. CASE d.steps > 0
  <2> DEFINE count == IF timed.clockCount + 1 >= timed.steps THEN 0 ELSE timed.clockCount + 1
  <2>1. Clocked(d, t) = [timed EXCEPT !.clockCount = count]
    BY <1>2 DEF Clocked, Divided, timed
  <2>2. timed.clockCount \in Nat /\ timed.steps \in ClockDivMin .. ClockDivMax
    BY <1>1 DEF Divider
  <2>3. count \in Nat /\ count < ClockDivMax - ClockDivMin
    BY <2>2, ClkDivMultAssumption
  <2> HIDE DEF count
  <2>4. [timed EXCEPT !.clockCount = count] \in Divider
    BY <1>1, <2>3 DEF Divider
  <2>5. /\ Clocked(d, t).clockCount = count
        /\ Clocked(d, t).steps = timed.steps /\ Clocked(d, t).lastClock = timed.lastClock
    BY <1>1, <2>1 DEF Divider
  <2> QED
    BY <1>1, <2>1, <2>3, <2>4, <2>5 DEF Bounded
<1>3. CASE d.steps < 0
  <2>1. Clocked(d, t) = Multiplied(timed, t)
    BY <1>3, ClkDivMultAssumption DEF Clocked, timed, Divider
  <2>2. t + Interval(timed) \in Nat
    BY <1>1, <1>3, IntervalType
  <2>3. Clocked(d, t) = [timed EXCEPT !.nextClock = t + Interval(timed), !.clockCount = 0]
    BY <2>1 DEF Multiplied
  <2>4. 0 < ClockDivMax - ClockDivMin
    BY ClkDivMultAssumption
  <2> QED
    <3> DEFINE next == t + Interval(timed)
    <3>1. next \in Nat
      BY <2>2
    <3> HIDE DEF next
    <3>2. [timed EXCEPT !.nextClock = next, !.clockCount = 0] \in Divider
      BY <1>1, <3>1 DEF Divider
    <3>3. Clocked(d, t) = [timed EXCEPT !.nextClock = next, !.clockCount = 0]
      BY <2>3 DEF next
    <3>4. /\ Clocked(d, t).clockCount = 0 /\ Clocked(d, t).steps = timed.steps
          /\ Clocked(d, t).lastClock = timed.lastClock
      BY <1>1, <3>3 DEF Divider
    <3> QED
      BY <1>1, <2>4, <3>2, <3>3, <3>4 DEF Bounded
<1> QED
  BY <1>2, <1>3, ClkDivMultAssumption DEF Divider

LEMMA SubdividedType ==
  ASSUME NEW d \in Divider, NEW t \in Nat, Due(d, t)
  PROVE  /\ Subdivided(d) \in Divider /\ Bounded(Subdivided(d))
         /\ Subdivided(d).steps = d.steps /\ Subdivided(d).lastClock = d.lastClock
<1>1. /\ d.steps \in ClockDivMin .. ClockDivMax /\ d.steps < 0
      /\ d.clockCount \in Nat /\ d.clockCount + 1 < - d.steps /\ d.nextClock \in Nat
  BY DEF Due, Divider
<1>2. d.nextClock + Interval(d) \in Nat
  BY <1>1, IntervalType
<1>3. d.clockCount + 1 \in Nat /\ d.clockCount + 1 < ClockDivMax - ClockDivMin
  BY <1>1, ClkDivMultAssumption
<1>4. Subdivided(d) = [d EXCEPT !.nextClock = d.nextClock + Interval(d),
                                !.clockCount = d.clockCount + 1]
  BY DEF Subdivided
<1> QED
  BY <1>2, <1>3, <1>4 DEF Divider, Bounded

LEMMA TickedType ==
  ASSUME NEW d \in Divider, Bounded(d), NEW t \in Nat, d.lastClock <= t,
         NEW clocked \in BOOLEAN
  PROVE  /\ Ticked(d, t, clocked) \in Divider /\ Bounded(Ticked(d, t, clocked))
         /\ Ticked(d, t, clocked).steps = d.steps
         /\ Ticked(d, t, clocked).lastClock <= t
<1>1. CASE d.steps = 0
  BY <1>1 DEF Ticked
<1>2. CASE d.steps # 0
  <2> DEFINE then == IF clocked THEN Clocked(d, t) ELSE d
  <2>1. /\ then \in Divider /\ Bounded(then)
        /\ then.steps = d.steps /\ then.lastClock <= t
    BY <1>2, ClockedType
  <2>2. Ticked(d, t, clocked) = IF Due(then, t) THEN Subdivided(then) ELSE then
    BY <1>2 DEF Ticked
  <2> HIDE DEF then
  <2> QED
    BY <2>1, <2>2, SubdividedType
<1> QED
  BY <1>1, <1>2

LEMMA TickedClock ==
  ASSUME NEW d \in Divider, Bounded(d), NEW t \in Nat, d.lastClock <= t
  PROVE  /\ TickedAt(d, t) \in Divider /\ Bounded(TickedAt(d, t))
         /\ TickedAt(d, t).steps = d.steps
         /\ TickedAt(d, t).lastClock <= t
<1> DEFINE clocked == TRUE
<1>1. clocked \in BOOLEAN
  OBVIOUS
<1> HIDE DEF clocked
<1>2. /\ Ticked(d, t, clocked) \in Divider /\ Bounded(Ticked(d, t, clocked))
      /\ Ticked(d, t, clocked).steps = d.steps
      /\ Ticked(d, t, clocked).lastClock <= t
  BY <1>1, TickedType
<1> QED
  BY <1>2 DEF clocked, TickedAt

\* What a tick does to a division: nothing without a clock; with one the count
\* goes on, and fires if it was 0.
LEMMA DivisionTicks ==
  ASSUME NEW d \in Divider, d.steps > 0, NEW t \in Nat, NEW clocked \in BOOLEAN
  PROVE  /\ Fires(d, t, clocked) <=> clocked /\ d.clockCount = 0
         /\ Ticked(d, t, clocked).clockCount =
              IF ~ clocked THEN d.clockCount
              ELSE IF d.clockCount + 1 >= d.steps THEN 0 ELSE d.clockCount + 1
<1>1. d.steps \in Int /\ ~ (d.steps < 0) /\ d.steps # 0
  BY ClkDivMultAssumption DEF Divider
<1> DEFINE timed == Timed(d, t)
<1>2. timed \in [steps : ClockDivMin .. ClockDivMax, clockCount : Nat, nextClock : Nat,
                  lastClock : Nat, cycleTime : Int]
  <2>1. t - d.lastClock \in Int
    BY DEF Divider
  <2> QED
    BY <2>1 DEF Timed, Divider
<1>3. timed.steps = d.steps /\ timed.clockCount = d.clockCount
  BY DEF Timed, Divider
<1> HIDE DEF timed
<1>4. Clocked(d, t) = Divided(timed)
  BY DEF Clocked, timed
<1>5. /\ Clocked(d, t).steps = d.steps
      /\ Clocked(d, t).clockCount = IF d.clockCount + 1 >= d.steps THEN 0 ELSE d.clockCount + 1
  BY <1>2, <1>3, <1>4 DEF Divided
<1>6. ~ Due(d, t) /\ ~ Due(Clocked(d, t), t)
  BY <1>1, <1>5 DEF Due
<1> QED
  BY <1>1, <1>5, <1>6 DEF Ticked, Fires, FiresAtClock

\* A trigger belongs at t.
Beat(t, a, m, p) == \E k \in 0 .. m - 1 : t = a + k * p

\* c triggers of m have followed the clock at a, p apart, and next is due.
OnTime(c, m, p, a, next, t) ==
  /\ c \in 0 .. m - 1
  /\ next = a + (c + 1) * p
  /\ a + c * p <= t
  /\ t < next \/ c = m - 1

\* One tick of the wait: a trigger is due exactly at the multiples.
LEMMA OneTick ==
  ASSUME NEW m \in Nat \ {0}, NEW p \in Nat \ {0}, NEW a \in Nat, NEW t \in Nat,
         NEW c \in Nat, NEW next \in Nat, OnTime(c, m, p, a, next, t)
  PROVE  /\ t + 1 >= next /\ c + 1 < m <=> Beat(t + 1, a, m, p)
         /\ t + 1 >= next /\ c + 1 < m => OnTime(c + 1, m, p, a, next + p, t + 1)
         /\ ~ (t + 1 >= next /\ c + 1 < m) => OnTime(c, m, p, a, next, t + 1)
<1>1. c \in 0 .. m - 1 /\ next = a + (c + 1) * p /\ a + c * p <= t /\ (t < next \/ c = m - 1)
  BY DEF OnTime
<1>2. /\ (c + 1) * p = c * p + p /\ (c + 2) * p = (c + 1) * p + p
      /\ c * p \in Nat /\ (c + 1) * p \in Nat /\ (c + 2) * p \in Nat
  <2>1. c + 1 \in Nat /\ c + 2 = (c + 1) + 1
    OBVIOUS
  <2> QED
    BY <2>1, TimesSucc, TimesMonotone
<1>3. ASSUME NEW k \in 0 .. m - 1, t + 1 = a + k * p
      PROVE  k = c + 1
  <2>1. k \in Nat /\ c + 1 \in Nat /\ c + 2 \in Nat
    OBVIOUS
  <2>2. CASE k <= c
    <3>1. k * p <= c * p /\ k * p \in Nat
      BY <2>1, <2>2, TimesMonotone
    <3> QED
      BY <1>1, <1>2, <1>3, <3>1
  <2>3. CASE k >= c + 2
    <3>1. (c + 2) * p <= k * p /\ k * p \in Nat
      BY <2>1, <2>3, TimesMonotone
    <3>2. c # m - 1
      BY <1>1, <2>3
    <3> QED
      BY <1>1, <1>2, <1>3, <3>1, <3>2
  <2> QED
    BY <2>1, <2>2, <2>3
<1>4. CASE t + 1 >= next /\ c + 1 < m
  <2>1. t + 1 = next
    BY <1>1, <1>4
  <2>2. c + 1 \in 0 .. m - 1
    BY <1>4
  <2>3. OnTime(c + 1, m, p, a, next + p, t + 1)
    <3>1. next + p = a + ((c + 1) + 1) * p
      BY <1>1, <1>2
    <3> QED
      BY <1>1, <1>2, <2>1, <2>2, <3>1 DEF OnTime
  <2> QED
    BY <1>1, <1>4, <2>1, <2>2, <2>3 DEF Beat
<1>5. CASE ~ (t + 1 >= next /\ c + 1 < m)
  <2>1. ASSUME NEW k \in 0 .. m - 1, t + 1 = a + k * p PROVE FALSE
    <3>1. k = c + 1
      BY <1>3, <2>1
    <3>2. t + 1 = next /\ c + 1 < m
      BY <1>1, <2>1, <3>1
    <3> QED
      BY <1>5, <3>2
  <2>2. OnTime(c, m, p, a, next, t + 1)
    BY <1>1, <1>2, <1>5 DEF OnTime
  <2> QED
    BY <1>5, <2>1, <2>2 DEF Beat
<1> QED
  BY <1>4, <1>5

\* At t, in a cycle that began at a, the next trigger is the one nextClock has.
Waits(d, a, t) ==
  Interval(d) > 0 => OnTime(d.clockCount, - d.steps, Interval(d), a, d.nextClock, t)

\* Without a clock a multiplication waits on, and puts out what is due.
LEMMA WaitTick ==
  ASSUME NEW d \in Divider, d.steps < 0, NEW a \in Nat, NEW t \in Nat, Waits(d, a, t)
  PROVE  /\ TickedBetween(d, t + 1).steps = d.steps
         /\ TickedBetween(d, t + 1).lastClock = d.lastClock
         /\ TickedBetween(d, t + 1).cycleTime = d.cycleTime
         /\ Waits(TickedBetween(d, t + 1), a, t + 1)
         /\ Interval(d) > 0 =>
              (FiresBetween(d, t + 1) <=> Beat(t + 1, a, - d.steps, Interval(d)))
<1> DEFINE m == - d.steps
           p == Interval(d)
           then == TickedBetween(d, t + 1)
<1>1. /\ then = IF Due(d, t + 1) THEN Subdivided(d) ELSE d
      /\ FiresBetween(d, t + 1) <=> Due(d, t + 1)
  <2>1. d.steps # 0
    BY DEF Divider
  <2> QED
    BY <2>1 DEF Ticked, Fires, TickedBetween, FiresBetween
<1>2. then.steps = d.steps /\ then.lastClock = d.lastClock /\ then.cycleTime = d.cycleTime
  BY <1>1 DEF Subdivided, Divider
<1>3. Interval(then) = p /\ - then.steps = m
  BY <1>2 DEF Interval
<1>4. ASSUME p > 0
      PROVE  /\ OnTime(then.clockCount, m, p, a, then.nextClock, t + 1)
             /\ Due(d, t + 1) <=> Beat(t + 1, a, m, p)
  <2>1. /\ m \in Nat \ {0} /\ p \in Nat \ {0}
        /\ d.clockCount \in Nat /\ d.nextClock \in Nat
    <3>1. d.steps \in Int
      BY DEF Divider
    <3>2. p \in Nat
      BY IntervalType
    <3> QED
      BY <1>4, <3>1, <3>2 DEF Divider
  <2>2. OnTime(d.clockCount, m, p, a, d.nextClock, t)
    BY <1>4 DEF Waits
  <2> HIDE DEF m, p, then
  <2>3. d.nextClock > 0
    <3>1. (d.clockCount + 1) * p = d.clockCount * p + p /\ d.clockCount * p \in Nat
      BY <2>1, TimesSucc, TimesMonotone
    <3> QED
      BY <2>1, <2>2, <3>1 DEF OnTime
  <2>4. Due(d, t + 1) <=> t + 1 >= d.nextClock /\ d.clockCount + 1 < m
    BY <2>3 DEF Due, m
  <2>5. CASE Due(d, t + 1)
    <3>1. then.clockCount = d.clockCount + 1 /\ then.nextClock = d.nextClock + p
      BY <1>1, <2>5 DEF Subdivided, Divider, p
    <3>2. t + 1 >= d.nextClock /\ d.clockCount + 1 < m
      BY <2>4, <2>5
    <3>3. OnTime(d.clockCount + 1, m, p, a, d.nextClock + p, t + 1)
      BY <2>1, <2>2, <3>2, OneTick
    <3>4. Beat(t + 1, a, m, p)
      BY <2>1, <2>2, <3>2, OneTick
    <3> QED
      BY <2>5, <3>1, <3>3, <3>4
  <2>6. CASE ~ Due(d, t + 1)
    <3>1. then = d
      BY <1>1, <2>6
    <3>2. /\ OnTime(d.clockCount, m, p, a, d.nextClock, t + 1)
          /\ ~ Beat(t + 1, a, m, p)
      BY <2>1, <2>2, <2>4, <2>6, OneTick
    <3> QED
      BY <2>6, <3>1, <3>2
  <2> QED
    BY <2>5, <2>6
<1> QED
  BY <1>1, <1>2, <1>3, <1>4 DEF Waits

\* A clock is taken and timed by every divider that is not off; a multiplication
\* fires at it and begins to wait.
LEMMA WaitClock ==
  ASSUME NEW d \in Divider, d.steps # 0, NEW t \in Nat, d.lastClock <= t
  PROVE  /\ TickedAt(d, t).steps = d.steps
         /\ TickedAt(d, t).lastClock = t
         /\ TickedAt(d, t).cycleTime = t - d.lastClock
         /\ d.steps < 0 => /\ Waits(TickedAt(d, t), t, t)
                           /\ FiresAt(d, t)
<1> DEFINE then == Clocked(d, t)
           after == TickedAt(d, t)
<1>1. /\ after = IF Due(then, t) THEN Subdivided(then) ELSE then
      /\ FiresAt(d, t) <=> FiresAtClock(d) \/ Due(then, t)
  BY DEF Ticked, Fires, TickedAt, FiresAt
<1>2. then \in Divider /\ then.steps = d.steps /\ then.lastClock = t
  BY ClockedType
<1>3. then.cycleTime = t - d.lastClock
  BY DEF Clocked, Timed, Divided, Multiplied, Divider
<1>4. d.steps < 0 => then.nextClock = t + Interval(then) /\ then.clockCount = 0
  <2> DEFINE timed == Timed(d, t)
  <2>1. timed \in Divider
    <3>1. t - d.lastClock \in Nat
      BY DEF Divider
    <3> QED
      BY <3>1 DEF Timed, Divider
  <2>2. ASSUME d.steps < 0 PROVE ~ (d.steps > 0)
    BY <2>2 DEF Divider
  <2>3. d.steps < 0 => then = Multiplied(timed, t)
    BY <2>2 DEF Clocked
  <2> HIDE DEF timed
  <2> QED
    BY <2>1, <2>3 DEF Multiplied, Interval, Divider
<1> HIDE DEF then, after
<1>5. after.steps = d.steps /\ after.lastClock = t /\ after.cycleTime = then.cycleTime
  BY <1>1, <1>2 DEF Subdivided, Divider
<1>6. Interval(after) = Interval(then)
  BY <1>2, <1>5 DEF Interval
<1>7. ASSUME d.steps < 0, Interval(then) > 0
      PROVE  OnTime(after.clockCount, - d.steps, Interval(then), t, after.nextClock, t)
  <2>1. Interval(then) \in Nat /\ - d.steps \in Nat \ {0}
    BY <1>2, <1>7, IntervalType DEF Divider
  <2>2. after = then
    BY <1>1, <1>2, <1>4, <1>7, <2>1 DEF Due, Divider
  <2>3. 0 * Interval(then) = 0 /\ (0 + 1) * Interval(then) = Interval(then)
    BY <2>1
  <2> QED
    BY <1>4, <1>7, <2>1, <2>2, <2>3 DEF OnTime
<1>8. d.steps < 0 => Waits(after, t, t)
  BY <1>5, <1>6, <1>7 DEF Waits
<1> QED
  BY <1>1, <1>3, <1>5, <1>8 DEF FiresAtClock, after

\* A clock is the first of the triggers.
LEMMA BeatAtClock ==
  ASSUME NEW a \in Nat, NEW m \in Nat \ {0}, NEW p \in Nat
  PROVE  Beat(a, a, m, p)
<1>1. 0 \in 0 .. m - 1 /\ a = a + 0 * p
  OBVIOUS
<1> QED
  BY <1>1 DEF Beat

-----------------------------------------------------------------------------
(***************************************************************************)
(* One divider.                                                            *)
(***************************************************************************)

Counted ==
  div.steps > 0 /\ fired =>
    /\ since < div.steps
    /\ div.clockCount = IF since + 1 = div.steps THEN 0 ELSE since + 1

\* Clocks that a division lets pass until one fires.
Swallows(d) ==
  IF d.clockCount = 0 THEN 0
  ELSE IF d.clockCount >= d.steps THEN 1 ELSE d.steps - d.clockCount

Settling == div.steps > 0 /\ ~ fired => since + Swallows(div) <= div.steps

Types == TypeOK /\ div.lastClock <= now

IInv == Types /\ Counted /\ Settling

LEMMA InitInductive == Init => IInv
<1> SUFFICES ASSUME Init PROVE IInv
  OBVIOUS
<1>1. 1 \in ClockDivMin .. ClockDivMax /\ 0 < ClockDivMax - ClockDivMin
  BY ClkDivMultAssumption
<1>2. div \in Divider /\ div.lastClock = 0 /\ div.clockCount = 0 /\ div.steps = 1
  BY <1>1 DEF Init, NewDivider, Divider, InputInit
<1>3. Types
  <2>1. /\ now \in 0 .. LastTick /\ changes \in 0 .. MaxChanges
        /\ at \in 0 .. now /\ cycle \in 0 .. now /\ heard \in 0 .. 2
    BY ClockInputAssumption DEF Init, InputInit
  <2>2. /\ out \in [clocked : BOOLEAN, trig : BOOLEAN]
        /\ settled \in BOOLEAN /\ fired \in BOOLEAN /\ since \in Nat
    BY DEF Init, InputInit
  <2>3. div.lastClock <= now
    BY <1>2 DEF Init, InputInit
  <2> QED
    BY <1>1, <1>2, <2>1, <2>2, <2>3 DEF Types, TypeOK, InputTypeOK
<1>4. Counted /\ Settling
  BY <1>2 DEF Init, Counted, Settling, Swallows, InputInit
<1> QED
  BY <1>3, <1>4 DEF IInv

LEMMA TickInductive ==
  ASSUME IInv, NEW clocked \in BOOLEAN, Tick(clocked)
  PROVE  /\ IInv'
         /\ div.steps > 0 /\ fired => (out'.trig <=> clocked /\ since + 1 = div.steps)
<1> USE DEF IInv, Types
<1>1. /\ now' = now + 1 /\ now' \in 0 .. LastTick /\ now' \in Nat
      /\ div \in Divider /\ Bounded(div) /\ div.lastClock <= now'
      /\ since \in Nat /\ fired \in BOOLEAN
  BY ClockInputAssumption DEF Tick, TypeOK, Divider, Bounded, InnerTick, Returned, InputTypeOK
<1>2. /\ div' = Ticked(div, now', clocked)
      /\ out' = [clocked |-> clocked, trig |-> Fires(div, now', clocked)]
  BY DEF Tick, InnerTick, Returned
<1>3. /\ div' \in Divider /\ Bounded(div') /\ div'.steps = div.steps
      /\ div'.lastClock <= now'
  BY <1>1, <1>2, TickedType
<1>4. out'.trig \in BOOLEAN
  BY <1>2 DEF Fires, FiresAtClock, Due
<1>5. /\ fired' = (fired \/ out'.trig)
      /\ since' = IF out'.trig THEN 0 ELSE IF clocked THEN since + 1 ELSE since
  BY DEF Tick, InnerTick, Returned
<1>6. Types'
  <2>1. /\ out' \in [clocked : BOOLEAN, trig : BOOLEAN]
        /\ fired' \in BOOLEAN /\ since' \in Nat
    BY <1>1, <1>2, <1>4, <1>5
  <2>2. /\ at' \in 0 .. now' /\ cycle' \in 0 .. now'
        /\ heard' \in 0 .. 2 /\ settled' \in BOOLEAN /\ changes' \in 0 .. MaxChanges
    BY <1>1 DEF Tick, TypeOK, InnerTick, Returned, InputTypeOK
  <2> QED
    BY <1>1, <1>3, <2>1, <2>2 DEF TypeOK, Bounded, InputTypeOK
<1>7. ASSUME div.steps > 0
      PROVE  /\ out'.trig <=> clocked /\ div.clockCount = 0
             /\ div'.clockCount = IF ~ clocked THEN div.clockCount
                                  ELSE IF div.clockCount + 1 >= div.steps THEN 0
                                  ELSE div.clockCount + 1
             /\ div.steps \in Nat /\ div.clockCount \in Nat
  BY <1>1, <1>2, <1>7, DivisionTicks DEF Divider
<1>8. Counted' /\ (div.steps > 0 /\ fired => (out'.trig <=> clocked /\ since + 1 = div.steps))
  BY <1>1, <1>3, <1>5, <1>7 DEF Counted
<1>9. Settling'
  BY <1>1, <1>3, <1>5, <1>7 DEF Settling, Swallows
<1> QED
  BY <1>6, <1>8, <1>9

LEMMA ChangeInductive ==
  ASSUME IInv, Reset \/ \E s \in Settings : Set(s)
  PROVE  IInv'
<1>1. /\ div' \in Divider /\ Bounded(div') /\ div'.lastClock = div.lastClock
      /\ heard' \in 0 .. 2
  <2>1. div \in Divider /\ Bounded(div) /\ heard \in 0 .. 2
    BY DEF IInv, Types, TypeOK, Bounded, InputTypeOK
  <2>2. ASSUME NEW s \in Settings, Set(s) PROVE <1>1
    <3>1. Clipped(s) \in ClockDivMin .. ClockDivMax
      BY ClippedType, ClockInputAssumption
    <3>2. div' = [div EXCEPT !.steps = Clipped(s)]
      BY <2>2 DEF Set, DividerSet
    <3>3. heard' \in 0 .. 2
      BY <2>1, <2>2 DEF Set
    <3> QED
      BY <2>1, <3>1, <3>2, <3>3 DEF Divider, Bounded
  <2>3. CASE Reset
    <3>1. div' = [div EXCEPT !.clockCount = 0, !.nextClock = 0] /\ heard' = heard
      BY <2>3 DEF Reset, DividerReset, Changed
    <3>2. 0 < ClockDivMax - ClockDivMin
      BY ClkDivMultAssumption
    <3> QED
      BY <2>1, <3>1, <3>2 DEF Divider, Bounded
  <2> QED
    BY <2>2, <2>3
<1>2. /\ changes' \in 0 .. MaxChanges /\ UNCHANGED <<now, out, at, cycle>>
      /\ settled' = FALSE /\ fired' = FALSE /\ since' = 0
  BY ClockInputAssumption DEF Reset, Set, IInv, Types, TypeOK, InputTypeOK, Changed
<1>3. Types'
  BY <1>1, <1>2 DEF IInv, Types, TypeOK, Bounded, InputTypeOK
<1>4. Counted'
  BY <1>2 DEF Counted
<1>5. Settling'
  BY <1>1, <1>2 DEF Settling, Swallows, Divider
<1> QED
  BY <1>3, <1>4, <1>5 DEF IInv

LEMMA NextInductive == IInv /\ [Next]_vars => IInv'
<1>1. IInv /\ UNCHANGED vars => IInv'
  BY DEF IInv, Types, TypeOK, Counted, Settling, Swallows, vars, history_vars, InputTypeOK, input_vars
<1> QED
  BY <1>1, TickInductive, ChangeInductive DEF Next

LEMMA Inductive == Spec => []IInv
BY InitInductive, NextInductive, PTL DEF Spec

\* The divider's fields keep their types: steps stays within its clip, the
\* count below the width of the setting, the times below the present.
THEOREM TypeCorrect == Spec => []TypeOK
<1>1. IInv => TypeOK
  BY DEF IInv, Types
<1> QED
  BY <1>1, Inductive, PTL

\* A division never swallows more clocks than it divides by.
THEOREM FiresAlways == Spec => []FiresAgain
<1>1. IInv => FiresAgain
  <2> SUFFICES ASSUME IInv, div.steps > 0 PROVE since <= div.steps
    BY DEF FiresAgain
  <2>1. div.steps \in Nat /\ div.clockCount \in Nat /\ since \in Nat /\ fired \in BOOLEAN
    BY DEF IInv, Types, TypeOK, Divider, InputTypeOK
  <2> QED
    BY <2>1 DEF IInv, Counted, Settling, Swallows
<1> QED
  BY <1>1, Inductive, PTL

\* From one trigger of a division by k to the next there are exactly k clocks.
THEOREM Divides == Spec => DividesExactly
<1> DEFINE Exact ==
      \A clocked \in BOOLEAN :
        Tick(clocked) /\ div.steps > 0 /\ fired =>
          (out'.trig <=> clocked /\ since + 1 = div.steps)
<1>1. IInv => Exact
  BY TickInductive
<1>2. IInv /\ [Next]_vars => [Exact]_vars
  BY <1>1
<1> QED
  BY <1>2, Inductive, PTL DEF Spec, DividesExactly

-----------------------------------------------------------------------------
(***************************************************************************)
(* A multiplication is even: the divider knows the last two clocks, and    *)
(* the next trigger it waits for is the next multiple of the part of the   *)
(* cycle that it has not put out, if any is left.                          *)
(***************************************************************************)

\* The clocks as the divider has them are those there were.
Timely ==
  /\ div.steps = 0 => heard = 0
  /\ heard >= 1 => div.lastClock = at
  /\ heard = 2 => div.cycleTime = cycle

Waiting == div.steps < 0 /\ settled /\ heard = 2 => Waits(div, at, now)

EInv == IInv /\ Timely /\ Waiting /\ MultipliesEvenly

LEMMA EvenInit == Init => Timely /\ Waiting /\ MultipliesEvenly
BY DEF Init, Timely, Waiting, MultipliesEvenly, NewDivider, InputInit

LEMMA EvenChange ==
  ASSUME EInv, Reset \/ \E s \in Settings : Set(s)
  PROVE  Timely' /\ Waiting' /\ MultipliesEvenly'
<1>1. settled' = FALSE
  BY DEF Reset, Set, Changed
<1>2. Timely'
  <2>1. div \in Divider /\ Timely /\ heard \in 0 .. 2
    BY DEF EInv, IInv, Types, TypeOK, InputTypeOK
  <2>2. CASE Reset
    BY <2>1, <2>2 DEF Timely, Reset, DividerReset, Divider, Changed
  <2>3. ASSUME NEW s \in Settings, Set(s) PROVE Timely'
    <3>1. /\ div'.lastClock = div.lastClock /\ div'.cycleTime = div.cycleTime
          /\ UNCHANGED <<at, cycle>>
          /\ heard' = IF div'.steps = 0 THEN 0 ELSE heard
      BY <2>1, <2>3 DEF Set, DividerSet, Divider, Changed
    <3> QED
      BY <2>1, <3>1 DEF Timely
  <2> QED
    BY <2>2, <2>3
<1> QED
  BY <1>1, <1>2 DEF Waiting, MultipliesEvenly

\* Without a clock, the divider waits on.
LEMMA EvenWait ==
  ASSUME EInv, Tick(FALSE)
  PROVE  Timely' /\ Waiting' /\ MultipliesEvenly'
<1>1. /\ now' = now + 1 /\ now \in Nat /\ at \in Nat /\ heard \in 0 .. 2
      /\ div \in Divider /\ Timely /\ Waiting
  BY ClockInputAssumption
     DEF Tick, EInv, IInv, Types, TypeOK, InnerTick, Returned, InputTypeOK
<1>2. /\ div' = TickedBetween(div, now + 1) /\ out'.trig = FiresBetween(div, now + 1)
      /\ UNCHANGED <<at, cycle, heard, settled>>
  BY <1>1 DEF Tick, InnerTick, Returned, EInv, IInv, Types, TypeOK, TickedBetween, FiresBetween
<1>3. CASE div.steps < 0 /\ settled /\ heard = 2
  <2>1. Waits(div, at, now)
    BY <1>1, <1>3 DEF Waiting
  <2>2. /\ div'.steps = div.steps /\ div'.lastClock = div.lastClock
        /\ div'.cycleTime = div.cycleTime /\ Waits(div', at, now + 1)
        /\ Interval(div) > 0 => (out'.trig <=> Beat(now + 1, at, - div.steps, Interval(div)))
    BY <1>1, <1>2, <1>3, <2>1, WaitTick
  <2>3. Timely' /\ Waiting'
    BY <1>1, <1>2, <2>2 DEF Timely, Waiting
  <2>4. Interval(div) = cycle \div (- div.steps)
    BY <1>1, <1>3 DEF Timely, Interval
  <2> QED
    BY <1>1, <1>2, <2>2, <2>3, <2>4 DEF MultipliesEvenly, Beat
<1>4. CASE ~ (div.steps < 0 /\ settled /\ heard = 2)
  <2>1. div' = div \/ div' = Subdivided(div)
    BY <1>2 DEF Ticked, TickedBetween
  <2>2. div'.steps = div.steps /\ div'.lastClock = div.lastClock /\ div'.cycleTime = div.cycleTime
    BY <1>1, <2>1 DEF Subdivided, Divider
  <2> QED
    BY <1>1, <1>2, <1>4, <2>2 DEF Timely, Waiting, MultipliesEvenly
<1> QED
  BY <1>3, <1>4

\* A clock begins the wait anew, with the cycle that it ends.
LEMMA EvenClock ==
  ASSUME EInv, Tick(TRUE)
  PROVE  Timely' /\ Waiting' /\ MultipliesEvenly'
<1>1. /\ now' = now + 1 /\ now' \in Nat /\ heard \in 0 .. 2
      /\ div \in Divider /\ div.lastClock <= now' /\ Timely
  <2>1. /\ now' = now + 1 /\ now \in Nat /\ heard \in 0 .. 2
        /\ div \in Divider /\ div.lastClock <= now /\ Timely
    BY ClockInputAssumption
       DEF Tick, EInv, IInv, Types, TypeOK, InnerTick, Returned, InputTypeOK
  <2>2. div.lastClock \in Nat
    BY <2>1 DEF Divider
  <2> QED
    BY <2>1, <2>2
<1>2. /\ at' = now' /\ cycle' = now' - at /\ settled' = TRUE
      /\ heard' = IF div.steps # 0 /\ heard < 2 THEN heard + 1 ELSE heard
      /\ div' = TickedAt(div, now') /\ out'.trig = FiresAt(div, now')
  BY DEF Tick, InnerTick, Returned, TickedAt, FiresAt
<1>3. CASE div.steps = 0
  <2>1. div' = div
    BY <1>2, <1>3 DEF Ticked, TickedAt
  <2> QED
    BY <1>1, <1>2, <1>3, <2>1 DEF Timely, Waiting, MultipliesEvenly
<1>4. CASE div.steps # 0
  <2>1. /\ div'.steps = div.steps /\ div'.lastClock = now'
        /\ div'.cycleTime = now' - div.lastClock
        /\ div.steps < 0 => Waits(div', now', now') /\ out'.trig
    BY <1>1, <1>2, <1>4, WaitClock
  <2>2. Timely'
    <3>1. heard >= 1 => div.lastClock = at
      BY <1>1 DEF Timely
    <3>2. heard' = 2 => heard >= 1
      BY <1>1, <1>2
    <3>3. heard' = 2 => div'.cycleTime = cycle'
      <4>1. div'.cycleTime = now' - div.lastClock /\ cycle' = now' - at
        BY <1>2, <2>1
      <4> QED
        BY <3>1, <3>2, <4>1
    <3> QED
      BY <1>2, <1>4, <2>1, <3>3 DEF Timely
  <2>3. Waiting'
    BY <1>1, <1>2, <2>1 DEF Waiting
  <2>4. ASSUME div.steps < 0, cycle' \div (- div.steps) > 0
        PROVE  Beat(now', now', - div.steps, cycle' \div (- div.steps))
    <3>1. - div.steps \in Nat \ {0} /\ cycle' \in Int
      <4>1. at \in Int
        BY DEF EInv, IInv, Types, TypeOK, InputTypeOK
      <4> QED
        BY <1>1, <1>2, <2>4, <4>1 DEF Divider
    <3> QED
      BY <1>1, <2>4, <3>1, BeatAtClock
  <2> QED
    BY <1>2, <2>1, <2>2, <2>3, <2>4 DEF MultipliesEvenly, Beat
<1> QED
  BY <1>3, <1>4

\* A multiplication by m puts out exactly the clock and m - 1 triggers after it,
\* an m-th of the last cycle apart.
THEOREM Multiplies == Spec => []MultipliesEvenly
<1>1. Init => EInv
  BY InitInductive, EvenInit DEF EInv
<1>2. EInv /\ [Next]_vars => EInv'
  <2>1. EInv /\ UNCHANGED vars => EInv'
    BY DEF EInv, IInv, Types, TypeOK, Counted, Settling, Swallows, Timely, Waiting,
           MultipliesEvenly, vars, history_vars, InputTypeOK, input_vars
  <2>2. EInv /\ Next => EInv'
    BY TickInductive, ChangeInductive, EvenWait, EvenClock, EvenChange DEF EInv, Next
  <2> QED
    BY <2>1, <2>2
<1>3. EInv => MultipliesEvenly
  BY DEF EInv
<1> QED
  BY <1>1, <1>2, <1>3, PTL DEF Spec

-----------------------------------------------------------------------------
(***************************************************************************)
(* A sequence of dividers. In the order of a round each clock has exactly  *)
(* one more before it than the clock before, and the first has none: the   *)
(* number of earlier clocks is the number of clocks since the reset,       *)
(* modulo the round.                                                       *)
(***************************************************************************)

\* The least of some numbers, found by the well-founded inclusion of what is
\* up to each.
LEMMA MinExists ==
  ASSUME NEW n \in Nat, NEW S \in SUBSET (1 .. n), S # {}
  PROVE  Min(S) \in S /\ \A y \in S : Min(S) <= y
<1> DEFINE Upto(k) == S \cap (1 .. k)
           Parts == {Upto(k) : k \in S}
<1>1. IsFiniteSet(S)
  <2>1. IsFiniteSet(1 .. n)
    BY FS_Interval
  <2> QED
    BY <2>1, FS_Subset
<1>2. \A k \in S : Upto(k) \in FiniteSubsetsOf(S)
  BY <1>1, FS_Subset DEF FiniteSubsetsOf
<1>3. PICK B \in Parts : \A C \in Parts : ~ (<<C, B>> \in StrictSubsetOrdering(S))
  <2>1. Parts \subseteq FiniteSubsetsOf(S) /\ Parts # {}
    BY <1>2
  <2> HIDE DEF Parts
  <2> QED
    BY <2>1, FS_StrictSubsetOrderingWellFounded, WFMin
<1>4. PICK x \in S : B = Upto(x)
  OBVIOUS
<1>5. ASSUME NEW y \in S, y < x PROVE FALSE
  <2>1. Upto(y) \subseteq Upto(x) /\ x \in Upto(x) /\ x \notin Upto(y)
    BY <1>5
  <2>2. Upto(y) \in SUBSET S /\ Upto(x) \in SUBSET S
    OBVIOUS
  <2> HIDE DEF Upto
  <2>3. <<Upto(y), Upto(x)>> \in StrictSubsetOrdering(S)
    BY <2>1, <2>2 DEF StrictSubsetOrdering
  <2> QED
    BY <1>3, <1>4, <2>3
<1>6. \E z \in S : \A y \in S : z <= y
  BY <1>5
<1> QED
  BY <1>6 DEF Min

\* Adding modulo the number of steps, and the place of a step in a round: step 0
\* is the last.
LEMMA AroundTheRing ==
  ASSUME NEW s \in Steps, NEW i \in 1 .. NUM_STEPS
  PROVE  (s + i) % NUM_STEPS = IF s + i < NUM_STEPS THEN s + i ELSE s + i - NUM_STEPS
<1>1. NUM_STEPS \in Nat \ {0} /\ s \in 0 .. NUM_STEPS - 1
  BY DivSequenceAssumption DEF Steps
<1> DEFINE q == (s + i) \div NUM_STEPS
           r == (s + i) % NUM_STEPS
<1>2. q \in Int /\ r \in 0 .. NUM_STEPS - 1 /\ s + i = NUM_STEPS * q + r
  BY <1>1
<1> HIDE DEF q, r
<1>3. CASE s + i < NUM_STEPS
  <2>1. NUM_STEPS * 0 + (s + i) = NUM_STEPS * q + r /\ s + i \in 0 .. NUM_STEPS - 1
    BY <1>1, <1>2, <1>3
  <2> QED
    BY <1>1, <1>2, <1>3, <2>1, QuotientUnique DEF r
<1>4. CASE ~ (s + i < NUM_STEPS)
  <2>1. /\ NUM_STEPS * 1 + (s + i - NUM_STEPS) = NUM_STEPS * q + r
        /\ s + i - NUM_STEPS \in 0 .. NUM_STEPS - 1
    BY <1>1, <1>2, <1>4
  <2> QED
    BY <1>1, <1>2, <1>4, <2>1, QuotientUnique DEF r
<1> QED
  BY <1>3, <1>4

LEMMA PlaceInRound ==
  ASSUME NEW s \in Steps
  PROVE  RoundIndex(s) = IF s = 0 THEN NUM_STEPS - 1 ELSE s - 1
<1>1. NUM_STEPS \in Nat \ {0} /\ s \in 0 .. NUM_STEPS - 1
  BY DivSequenceAssumption DEF Steps
<1> DEFINE q == (s - 1) \div NUM_STEPS
           r == (s - 1) % NUM_STEPS
<1>2. q \in Int /\ r \in 0 .. NUM_STEPS - 1 /\ s - 1 = NUM_STEPS * q + r
  BY <1>1
<1> HIDE DEF q, r
<1>3. CASE s = 0
  <2>1. /\ NUM_STEPS * (- 1) + (NUM_STEPS - 1) = NUM_STEPS * q + r
        /\ NUM_STEPS - 1 \in 0 .. NUM_STEPS - 1 /\ - 1 \in Int
    BY <1>1, <1>2, <1>3
  <2>2. NUM_STEPS - 1 = r
    BY <1>1, <1>2, <2>1, QuotientUnique
  <2> QED
    BY <1>3, <2>2 DEF RoundIndex, r
<1>4. CASE s # 0
  <2>1. NUM_STEPS * 0 + (s - 1) = NUM_STEPS * q + r /\ s - 1 \in 0 .. NUM_STEPS - 1
    BY <1>1, <1>2, <1>4
  <2>2. s - 1 = r
    BY <1>1, <1>2, <2>1, QuotientUnique
  <2> QED
    BY <1>4, <2>2 DEF RoundIndex, r
<1> QED
  BY <1>3, <1>4

\* How far it is from s to t, around the ring.
Way(s, t) == IF t > s THEN t - s ELSE t - s + NUM_STEPS

\* Poke's loop finds an active step if there is one, and none is nearer.
LEMMA NextIsNearest ==
  ASSUME step_index \in Steps, Active # {}
  PROVE  NextStep \in Active /\ \A t \in Active : Way(step_index, NextStep) <= Way(step_index, t)
<1> DEFINE S == {i \in 1 .. NUM_STEPS : StepActive(StepAfter(i))}
<1>1. NUM_STEPS \in Nat \ {0}
  BY DivSequenceAssumption
<1>2. ASSUME NEW t \in Active
      PROVE  /\ Way(step_index, t) \in 1 .. NUM_STEPS
             /\ StepAfter(Way(step_index, t)) = t
  <2>1. t \in 0 .. NUM_STEPS - 1 /\ step_index \in 0 .. NUM_STEPS - 1
    BY DEF Active, Steps
  <2>2. Way(step_index, t) \in 1 .. NUM_STEPS
    BY <1>1, <2>1 DEF Way
  <2>3. (step_index + Way(step_index, t)) % NUM_STEPS
          = IF step_index + Way(step_index, t) < NUM_STEPS
            THEN step_index + Way(step_index, t)
            ELSE step_index + Way(step_index, t) - NUM_STEPS
    BY <2>2, AroundTheRing
  <2> QED
    BY <1>1, <2>1, <2>2, <2>3 DEF Way, StepAfter
<1>3. \A t \in Active : Way(step_index, t) \in S
  BY <1>2 DEF Active
<1>4. S \in SUBSET (1 .. NUM_STEPS) /\ S # {}
  BY <1>3
<1>5. NextStep = StepAfter(Min(S))
  BY DEF NextStep, Active
<1> DEFINE i == Min(S)
<1>6. i \in S /\ \A y \in S : i <= y
  <2> HIDE DEF S
  <2> QED
    BY <1>1, <1>4, MinExists
<1>7. /\ i \in 1 .. NUM_STEPS
      /\ StepActive(StepAfter(i))
  BY <1>6
<1> HIDE DEF i
<1>8. /\ StepAfter(i) \in Steps
      /\ Way(step_index, StepAfter(i)) = i
  <2>1. StepAfter(i) = IF step_index + i < NUM_STEPS THEN step_index + i
                       ELSE step_index + i - NUM_STEPS
    BY <1>7, AroundTheRing DEF StepAfter
  <2> QED
    BY <1>1, <1>7, <2>1 DEF Way, Steps
<1>9. NextStep = StepAfter(i)
  BY <1>5 DEF i
<1> QED
  BY <1>3, <1>6, <1>7, <1>8, <1>9 DEF Active

\* The clocks of a round, one after the other.
Before(R, x) ==
  {y \in R : \/ RoundIndex(y[1]) < RoundIndex(x[1])
             \/ y[1] = x[1] /\ y[2] < x[2]}

LEMMA LengthType ==
  ASSUME NEW s \in Steps, divmult[s] \in Divider
  PROVE  Length(s) \in 1 .. ClockDivMax
BY ClkDivMultAssumption DEF Length, Divider

LEMMA InRound ==
  ASSUME NEW s, NEW c
  PROVE  <<s, c>> \in Round <=> s \in Active /\ c \in 1 .. ClockDivMax /\ c <= Length(s)
BY DEF Round

LEMMA RoundElement ==
  ASSUME NEW y \in Round
  PROVE  /\ y = <<y[1], y[2]>>
         /\ y[1] \in Active /\ y[1] \in Steps
         /\ y[2] \in 1 .. ClockDivMax /\ y[2] <= Length(y[1])
BY DEF Round, Active

LEMMA RoundFinite ==
  ASSUME NEW x
  PROVE  /\ IsFiniteSet(Round) /\ Cardinality(Round) \in Nat
         /\ Before(Round, x) \in SUBSET Round
         /\ IsFiniteSet(Before(Round, x)) /\ Cardinality(Before(Round, x)) \in Nat
<1>1. IsFiniteSet(Steps) /\ IsFiniteSet(1 .. ClockDivMax)
  <2>1. 0 \in Int /\ NUM_STEPS - 1 \in Int /\ 1 \in Int /\ ClockDivMax \in Int
    BY DivSequenceAssumption, ClkDivMultAssumption
  <2> QED
    BY <2>1, FS_Interval DEF Steps
<1>2. IsFiniteSet(Steps \X (1 .. ClockDivMax))
  BY <1>1, FS_Product
<1>3. Round \in SUBSET (Steps \X (1 .. ClockDivMax))
  BY DEF Round, Active
<1>4. IsFiniteSet(Round)
  BY <1>2, <1>3, FS_Subset
<1>5. Before(Round, x) \in SUBSET Round
  BY DEF Before
<1>6. IsFiniteSet(Before(Round, x))
  BY <1>4, <1>5, FS_Subset
<1> QED
  BY <1>4, <1>5, <1>6, FS_CardinalityType

\* No clock is before itself.
LEMMA NotBefore ==
  ASSUME NEW x \in Round
  PROVE  x \notin Before(Round, x) /\ RoundIndex(x[1]) \in Int /\ x[2] \in Int
<1>1. /\ RoundIndex(x[1]) \in Int /\ x[2] \in Int
      /\ ~ (RoundIndex(x[1]) < RoundIndex(x[1])) /\ ~ (x[2] < x[2])
  BY RoundElement, PlaceInRound, DivSequenceAssumption DEF Steps
<1> QED
  BY <1>1 DEF Before

\* A clock that comes right after another has one more before it, and is not
\* the round's first again.
LEMMA OneMore ==
  ASSUME NEW x \in Round, NEW n \in Round, Before(Round, n) = Before(Round, x) \cup {x}
  PROVE  /\ Cardinality(Before(Round, n)) = Cardinality(Before(Round, x)) + 1
         /\ Cardinality(Before(Round, n)) < Cardinality(Round)
<1>1. x \notin Before(Round, x) /\ n \notin Before(Round, n)
  BY NotBefore
<1>2. Cardinality(Before(Round, n)) = Cardinality(Before(Round, x)) + 1
  BY <1>1, RoundFinite, FS_AddElement
<1>3. Before(Round, n) # Round
  BY <1>1
<1>4. /\ Cardinality(Before(Round, n)) <= Cardinality(Round)
      /\ Cardinality(Before(Round, n)) # Cardinality(Round)
  BY <1>3, RoundFinite, FS_Subset
<1> QED
  BY <1>2, <1>4, RoundFinite

\* The last clock of a round has all the others before it.
LEMMA AllButLast ==
  ASSUME NEW x \in Round, Round = Before(Round, x) \cup {x}
  PROVE  Cardinality(Round) = Cardinality(Before(Round, x)) + 1
<1>1. x \notin Before(Round, x)
  BY NotBefore
<1> QED
  BY <1>1, RoundFinite, FS_AddElement

\* Two clocks of a round are told apart by the number of those before them.
LEMMA PlacesDiffer ==
  ASSUME NEW x \in Round, NEW y \in Round,
         Cardinality(Before(Round, x)) = Cardinality(Before(Round, y))
  PROVE  x = y
<1>1. ASSUME NEW a \in Round, NEW b \in Round, a \in Before(Round, b)
      PROVE  Cardinality(Before(Round, a)) < Cardinality(Before(Round, b))
  <2>1. a \notin Before(Round, a)
    BY NotBefore
  <2>2. Before(Round, a) \subseteq Before(Round, b)
    <3>1. ASSUME NEW c \in Before(Round, a)
          PROVE  c \in Before(Round, b)
      <4>1. c \in Round
        BY DEF Before
      <4>2. /\ RoundIndex(a[1]) \in Int /\ RoundIndex(b[1]) \in Int /\ RoundIndex(c[1]) \in Int
            /\ a[2] \in Int /\ b[2] \in Int /\ c[2] \in Int
        BY <4>1, NotBefore
      <4> QED
        BY <1>1, <4>1, <4>2 DEF Before
    <3> QED
      BY <3>1
  <2>3. Before(Round, a) \in SUBSET Before(Round, b) /\ Before(Round, a) # Before(Round, b)
    BY <1>1, <2>1, <2>2
  <2> QED
    BY <2>3, RoundFinite, FS_Subset
<1>2. CASE x \in Before(Round, y)
  BY <1>1, <1>2, RoundFinite
<1>3. CASE y \in Before(Round, x)
  BY <1>1, <1>3, RoundFinite
<1>4. CASE x \notin Before(Round, y) /\ y \notin Before(Round, x)
  <2>1. /\ x[1] \in 0 .. NUM_STEPS - 1 /\ y[1] \in 0 .. NUM_STEPS - 1
        /\ x[2] \in Int /\ y[2] \in Int
    BY RoundElement DEF Steps
  <2>2. ~ (RoundIndex(x[1]) < RoundIndex(y[1])) /\ ~ (RoundIndex(y[1]) < RoundIndex(x[1]))
    BY <1>4 DEF Before
  <2>3. x[1] = y[1]
    BY <2>1, <2>2, PlaceInRound, DivSequenceAssumption DEF Steps
  <2>4. ~ (x[2] < y[2]) /\ ~ (y[2] < x[2])
    BY <1>4, <2>3 DEF Before
  <2> QED
    BY <2>1, <2>3, <2>4, RoundElement
<1> QED
  BY <1>2, <1>3, <1>4

\* Within a turn, from one clock to the next.
LEMMA NextInTurn ==
  ASSUME NEW s, NEW c, <<s, c>> \in Round, <<s, c + 1>> \in Round
  PROVE  Before(Round, <<s, c + 1>>) = Before(Round, <<s, c>>) \cup {<<s, c>>}
<1>1. c \in Int
  BY InRound
<1>2. ASSUME NEW y \in Round
      PROVE  y \in Before(Round, <<s, c + 1>>) <=> y \in Before(Round, <<s, c>>) \/ y = <<s, c>>
  <2>1. y = <<y[1], y[2]>> /\ y[2] \in Int
    BY RoundElement
  <2>2. y[2] < c + 1 <=> y[2] < c \/ y[2] = c
    BY <1>1, <2>1
  <2>3. RoundIndex(s) \in Int /\ ~ (RoundIndex(s) < RoundIndex(s))
    BY InRound, PlaceInRound, DivSequenceAssumption DEF Active, Steps
  <2> QED
    BY <2>1, <2>2, <2>3 DEF Before
<1> QED
  BY <1>2 DEF Before

\* From the last clock of a turn to the first of the next: either no clock is
\* between the two, or the one ends the round and the other begins it.
LEMMA NextTurn ==
  ASSUME step_index \in Steps, NEW x \in Round, x = <<step_index, Length(step_index)>>,
         NEW n, n = <<NextStep, 1>>,
         \A s \in Steps : Length(s) \in 1 .. ClockDivMax
  PROVE  /\ n \in Round
         /\ IF RoundIndex(NextStep) > RoundIndex(step_index)
            THEN Before(Round, n) = Before(Round, x) \cup {x}
            ELSE Before(Round, n) = {} /\ Round = Before(Round, x) \cup {x}
<1> DEFINE s == step_index
           t == NextStep
<1>1. s \in Active /\ t \in Active /\ \A u \in Active : Way(s, t) <= Way(s, u)
  <2>1. s \in Active
    BY RoundElement
  <2> QED
    BY <2>1, NextIsNearest
<1>2. n \in Round
  <2>1. Length(t) \in 1 .. ClockDivMax /\ 1 \in 1 .. ClockDivMax /\ 1 <= Length(t)
    BY <1>1, ClkDivMultAssumption DEF Active
  <2> QED
    BY <1>1, <2>1, InRound
<1> HIDE DEF t
<1>3. ASSUME NEW u \in Active
      PROVE  /\ RoundIndex(u) \in Int
             /\ RoundIndex(u) = RoundIndex(s) => u = s
             /\ RoundIndex(t) > RoundIndex(s) => ~ (RoundIndex(s) < RoundIndex(u) /\ RoundIndex(u) < RoundIndex(t))
             /\ ~ (RoundIndex(t) > RoundIndex(s)) => RoundIndex(t) <= RoundIndex(u) /\ RoundIndex(u) <= RoundIndex(s)
  <2>1. /\ s \in 0 .. NUM_STEPS - 1 /\ t \in 0 .. NUM_STEPS - 1 /\ u \in 0 .. NUM_STEPS - 1
        /\ NUM_STEPS \in Nat \ {0}
    BY <1>1, DivSequenceAssumption DEF Active, Steps
  <2>2. /\ RoundIndex(s) = IF s = 0 THEN NUM_STEPS - 1 ELSE s - 1
        /\ RoundIndex(t) = IF t = 0 THEN NUM_STEPS - 1 ELSE t - 1
        /\ RoundIndex(u) = IF u = 0 THEN NUM_STEPS - 1 ELSE u - 1
    BY <1>1, PlaceInRound DEF Active
  <2>3. Way(s, t) <= Way(s, u)
    BY <1>1
  <2> QED
    BY <2>1, <2>2, <2>3 DEF Way
<1>4. ASSUME NEW y \in Round
      PROVE  /\ y \in Before(Round, n) <=> RoundIndex(y[1]) < RoundIndex(t)
             /\ y \in Before(Round, x) \/ y = x <=> RoundIndex(y[1]) <= RoundIndex(s)
  <2>1. /\ y = <<y[1], y[2]>> /\ y[1] \in Active
        /\ y[2] \in 1 .. ClockDivMax /\ y[2] <= Length(y[1])
    BY RoundElement
  <2>2. ~ (y[2] < 1)
    BY <2>1
  <2>3. y \in Before(Round, n) <=> RoundIndex(y[1]) < RoundIndex(t)
    BY <2>2 DEF Before, t
  <2>4. y[1] = s => y[2] < Length(s) \/ y[2] = Length(s)
    <3>1. Length(s) \in Int
      BY <1>1 DEF Active
    <3> QED
      BY <2>1, <3>1
  <2>5. /\ RoundIndex(y[1]) \in Int /\ RoundIndex(s) \in Int
        /\ RoundIndex(y[1]) = RoundIndex(s) => y[1] = s
    BY <1>1, <1>3, <2>1
  <2>6. y \in Before(Round, x) <=>
          \/ RoundIndex(y[1]) < RoundIndex(s)
          \/ y[1] = s /\ y[2] < Length(s)
    BY DEF Before
  <2>7. y = x <=> y[1] = s /\ y[2] = Length(s)
    BY <2>1
  <2> QED
    BY <2>3, <2>4, <2>5, <2>6, <2>7
<1>5. /\ Before(Round, n) \subseteq Round /\ Before(Round, x) \subseteq Round
      /\ RoundIndex(t) \in Int /\ RoundIndex(s) \in Int
  BY <1>1, <1>3 DEF Before
<1>6. CASE RoundIndex(t) > RoundIndex(s)
  <2>1. ASSUME NEW y \in Round
        PROVE  RoundIndex(y[1]) < RoundIndex(t) <=> RoundIndex(y[1]) <= RoundIndex(s)
    BY <1>3, <1>5, <1>6, RoundElement
  <2>2. Before(Round, n) = Before(Round, x) \cup {x}
    BY <1>4, <1>5, <2>1
  <2> QED
    BY <1>2, <1>6, <2>2 DEF t
<1>7. CASE ~ (RoundIndex(t) > RoundIndex(s))
  <2>1. ASSUME NEW y \in Round
        PROVE  ~ (RoundIndex(y[1]) < RoundIndex(t)) /\ RoundIndex(y[1]) <= RoundIndex(s)
    BY <1>3, <1>5, <1>7, RoundElement
  <2>2. Before(Round, n) = {} /\ Round = Before(Round, x) \cup {x}
    BY <1>4, <1>5, <2>1
  <2> QED
    BY <1>2, <1>7, <2>2 DEF t
<1> QED
  BY <1>6, <1>7

\* The turn after step 0's begins a round, whether step 0 is active or not.
LEMMA FirstRound ==
  ASSUME step_index = 0, Active # {}, \A s \in Steps : Length(s) \in 1 .. ClockDivMax
  PROVE  /\ <<NextStep, 1>> \in Round
         /\ Before(Round, <<NextStep, 1>>) = {}
<1> DEFINE t == NextStep
<1>1. step_index \in Steps
  BY DivSequenceAssumption DEF Steps
<1>2. t \in Active /\ \A u \in Active : Way(step_index, t) <= Way(step_index, u)
  BY <1>1, NextIsNearest
<1>3. <<t, 1>> \in Round
  <2>1. 1 \in 1 .. ClockDivMax /\ 1 <= Length(t)
    BY <1>2, ClkDivMultAssumption DEF Active
  <2> QED
    BY <1>2, <2>1, InRound
<1> HIDE DEF t
<1>4. ASSUME NEW u \in Active
      PROVE  ~ (RoundIndex(u) < RoundIndex(t))
  <2>1. /\ t \in 0 .. NUM_STEPS - 1 /\ u \in 0 .. NUM_STEPS - 1 /\ NUM_STEPS \in Nat \ {0}
    BY <1>2, DivSequenceAssumption DEF Active, Steps
  <2>2. /\ RoundIndex(t) = IF t = 0 THEN NUM_STEPS - 1 ELSE t - 1
        /\ RoundIndex(u) = IF u = 0 THEN NUM_STEPS - 1 ELSE u - 1
    BY <1>2, PlaceInRound DEF Active
  <2>3. Way(0, t) <= Way(0, u)
    BY <1>2
  <2> QED
    BY <2>1, <2>2, <2>3 DEF Way
<1>5. ASSUME NEW y \in Round PROVE y \notin Before(Round, <<t, 1>>)
  <2>1. y[1] \in Active /\ ~ (y[2] < 1)
    BY RoundElement
  <2> QED
    BY <1>4, <2>1 DEF Before
<1>6. Before(Round, <<t, 1>>) = {}
  BY <1>5 DEF Before
<1> QED
  BY <1>3, <1>6 DEF t

-----------------------------------------------------------------------------
\* No divider of the sequence was clocked after t.
Sound(dm, t) ==
  /\ dm \in [Steps -> Divider]
  /\ \A s \in Steps : Bounded(dm[s]) /\ dm[s].lastClock <= t

SequenceTypes == SequenceTypeOK /\ Sound(divmult, now)

LEMMA SoundStep ==
  ASSUME NEW t \in Nat, NEW dm, Sound(dm, t), NEW i \in Steps,
         NEW d \in Divider, Bounded(d), d.lastClock <= t, d.steps = dm[i].steps
  PROVE  LET e == [dm EXCEPT ![i] = d]
         IN  Sound(e, t) /\ \A s \in Steps : e[s].steps = dm[s].steps
BY DEF Sound

LEMMA SoundLater ==
  ASSUME NEW t \in Nat, NEW dm, Sound(dm, t)
  PROVE  Sound(dm, t + 1)
<1>1. \A s \in Steps : dm[s].lastClock \in Nat
  BY DEF Sound, Divider
<1> QED
  BY <1>1 DEF Sound

\* A divider that is given the time of the clock before.
LEMMA TimeHandedOn ==
  ASSUME NEW d \in Divider, Bounded(d), NEW last \in Nat
  PROVE  LET e == [d EXCEPT !.lastClock = last]
         IN  /\ e \in Divider /\ Bounded(e) /\ e.lastClock = last
             /\ e.steps = d.steps /\ e.clockCount = d.clockCount
BY DEF Divider, Bounded

LEMMA EnteredType ==
  ASSUME NEW d \in Divider, last_clock \in Nat
  PROVE  /\ Entered(d) \in Divider /\ Bounded(Entered(d))
         /\ Entered(d).lastClock = last_clock
         /\ Entered(d).steps = d.steps /\ Entered(d).clockCount = 0
<1>1. 0 < ClockDivMax - ClockDivMin
  BY ClkDivMultAssumption
<1>2. DividerReset(d) \in Divider /\ DividerReset(d).clockCount = 0 /\ DividerReset(d).steps = d.steps
  BY DEF DividerReset, Divider
<1> QED
  BY <1>1, <1>2, TimeHandedOn DEF Entered, Bounded

\* What of the sequence a tick leaves alone: the steps, and so the round.
LEMMA SameRound ==
  ASSUME \A s \in Steps : divmult'[s].steps = divmult[s].steps, muted' = muted
  PROVE  /\ \A s \in Steps : /\ Length(s)' = Length(s)
                             /\ StepActive(s)' <=> StepActive(s)
         /\ Active' = Active /\ Round' = Round
<1>1. \A s \in Steps : Length(s)' = Length(s) /\ (StepActive(s)' <=> StepActive(s))
  BY DEF Length, StepActive
<1>2. Active' = Active
  BY <1>1 DEF Active
<1>3. Active \subseteq Steps
  BY DEF Active
<1>4. Round' = Round
  BY <1>1, <1>2, <1>3 DEF Round
<1> QED
  BY <1>1, <1>2, <1>4

LEMMA NextStepType ==
  ASSUME step_index \in Steps
  PROVE  NextStep \in Steps /\ (Active = {} => NextStep = step_index)
<1>1. CASE Active = {}
  BY <1>1 DEF NextStep, Active
<1>2. CASE Active # {}
  BY <1>2, NextIsNearest DEF Active
<1> QED
  BY <1>1, <1>2

\* The current step's divider is ticked; a step whose turn begins is ticked with
\* the sequence's time.
LEMMA PokeTypes ==
  ASSUME SequenceTypes, NEW clocked \in BOOLEAN, Poke(clocked)
  PROVE  /\ SequenceTypes' /\ muted' = muted /\ now' = now + 1 /\ now \in Nat
         /\ \A s \in Steps : divmult'[s].steps = divmult[s].steps
<1>1. /\ now \in Nat /\ now' = now + 1 /\ now' \in Nat /\ now' \in 0 .. LastTick
      /\ muted' = muted /\ clean' = clean /\ changes' = changes
      /\ at' = IF clocked THEN now' ELSE at
      /\ cycle' = IF clocked THEN now' - at ELSE cycle
      /\ clocks' = IF clocked THEN clocks + 1 ELSE clocks
  BY ClockInputAssumption DEF SequenceTypes, SequenceTypeOK, InputTypeOK, Poke, InnerTick
<1>2. /\ last_clock \in Nat /\ last_clock <= now' /\ last_clock = at
      /\ muted \subseteq Steps /\ clean \in BOOLEAN /\ clock_count \in 0 .. ClockDivMax
      /\ step_index \in -1 .. NUM_STEPS - 1 /\ changes \in 0 .. MaxChanges
      /\ at \in 0 .. now /\ cycle \in 0 .. now /\ clocks \in 0 .. now
  BY <1>1 DEF SequenceTypes, SequenceTypeOK, InputTypeOK
<1>3. /\ at' \in 0 .. now' /\ cycle' \in 0 .. now' /\ clocks' \in 0 .. now'
  BY <1>1, <1>2
<1>4. Sound(divmult, now')
  BY <1>1, SoundLater DEF SequenceTypes
<1>5. NUM_STEPS \in Nat \ {0} /\ 0 \in Steps
  BY DivSequenceAssumption DEF Steps
<1> DEFINE Moved == /\ Sound(divmult', now')
                    /\ \A s \in Steps : divmult'[s].steps = divmult[s].steps
                    /\ step_index' \in -1 .. NUM_STEPS - 1
                    /\ clock_count' \in 0 .. ClockDivMax
                    /\ last_clock' = at'
                    /\ out' \in [clocked : BOOLEAN, trig : BOOLEAN]
<1>6. ASSUME PokeFirst, clocked PROVE Moved
  <2> DEFINE first == [divmult[0] EXCEPT !.lastClock = last_clock]
  <2>1. /\ first \in Divider /\ Bounded(first) /\ first.lastClock <= now'
        /\ first.steps = divmult[0].steps
    BY <1>2, <1>4, <1>5, TimeHandedOn DEF Sound
  <2>2. divmult' = [divmult EXCEPT ![0] = TickedAt(first, now')]
    BY <1>6 DEF PokeFirst, TickedAt
  <2> HIDE DEF first
  <2>3. Sound(divmult', now') /\ \A s \in Steps : divmult'[s].steps = divmult[s].steps
    <3> DEFINE d == TickedAt(first, now')
    <3>1. d \in Divider /\ Bounded(d) /\ d.lastClock <= now' /\ d.steps = divmult[0].steps
      BY <1>1, <2>1, TickedClock
    <3> HIDE DEF d
    <3> DEFINE e == [divmult EXCEPT ![0] = d]
    <3>2. Sound(e, now') /\ \A s \in Steps : e[s].steps = divmult[s].steps
      BY <1>1, <1>4, <1>5, <3>1, SoundStep
    <3>3. divmult' = e
      BY <2>2 DEF d
    <3> HIDE DEF e
    <3> QED
      BY <3>2, <3>3
  <2>4. (FiresAt(first, now') /\ StepActive(0)) \in BOOLEAN
    BY DEF Fires
  <2>5. /\ step_index' = 0 /\ clock_count' = clock_count /\ last_clock' = now'
        /\ out' = [clocked |-> TRUE, trig |-> FiresAt(first, now') /\ StepActive(0)]
    BY <1>6 DEF PokeFirst, Returned, first, FiresAt
  <2> QED
    BY <1>1, <1>2, <1>5, <1>6, <2>3, <2>4, <2>5
<1>7. ASSUME PokeIdle, ~ clocked PROVE Moved
  BY <1>1, <1>2, <1>4, <1>7 DEF PokeIdle, Returned
<1>8. ASSUME step_index >= 0
      PROVE  LET ticked == StepTicked(clocked)
             IN  Sound(ticked, now') /\ \A s \in Steps : ticked[s].steps = divmult[s].steps
  <2>1. step_index \in Steps
    BY <1>2, <1>5, <1>8 DEF Steps
  <2>2. /\ divmult[step_index] \in Divider /\ Bounded(divmult[step_index])
        /\ divmult[step_index].lastClock <= now'
    BY <1>4, <2>1 DEF Sound
  <2> DEFINE d == Ticked(divmult[step_index], now', clocked)
  <2>3. /\ d \in Divider /\ Bounded(d) /\ d.lastClock <= now'
        /\ d.steps = divmult[step_index].steps
    BY <1>1, <2>2, TickedType
  <2> HIDE DEF d
  <2> DEFINE e == [divmult EXCEPT ![step_index] = d]
  <2>4. Sound(e, now') /\ \A s \in Steps : e[s].steps = divmult[s].steps
    BY <1>1, <1>4, <2>1, <2>3, SoundStep
  <2>5. StepTicked(clocked) = e
    BY DEF StepTicked, d
  <2> HIDE DEF e
  <2> QED
    BY <2>4, <2>5
<1>9. ASSUME PokeStays(clocked) PROVE Moved
  <2>1. /\ step_index >= 0 /\ divmult' = StepTicked(clocked) /\ step_index' = step_index
        /\ clocked => ~ TurnOver
        /\ clock_count' = IF clocked THEN clock_count + 1 ELSE clock_count
        /\ last_clock' = IF clocked THEN now' ELSE last_clock
        /\ out' = [clocked |-> clocked, trig |-> StepFires(clocked)]
    BY <1>9 DEF PokeStays, Returned
  <2>2. divmult[step_index].steps \in ClockDivMin .. ClockDivMax
    <3>1. step_index \in Steps
      BY <1>2, <1>5, <2>1 DEF Steps
    <3> QED
      BY <1>4, <3>1 DEF Sound, Divider
  <2>3. clock_count' \in 0 .. ClockDivMax
    BY <1>2, <2>1, <2>2, ClkDivMultAssumption DEF TurnOver
  <2> QED
    BY <1>1, <1>2, <1>8, <2>1, <2>3 DEF StepFires, Fires
<1>10. ASSUME PokeMoves, clocked PROVE Moved
  <2> DEFINE ticked == StepTicked(TRUE)
             entered == Entered(ticked[NextStep])
  <2>1. /\ step_index >= 0 /\ step_index' = NextStep /\ clock_count' = 0
        /\ last_clock' = now'
        /\ IF StepActive(NextStep)
           THEN /\ divmult' = [ticked EXCEPT ![NextStep] = TickedAt(entered, now')]
                /\ Returned(TRUE, FiresAt(entered, now'))
           ELSE divmult' = ticked /\ Returned(TRUE, StepFires(TRUE))
    BY <1>10 DEF PokeMoves, TickedAt, FiresAt
  <2>2. Sound(ticked, now') /\ \A s \in Steps : ticked[s].steps = divmult[s].steps
    BY <1>8, <1>10, <2>1
  <2>3. step_index \in Steps /\ NextStep \in Steps
    BY <1>2, <1>5, <2>1, NextStepType DEF Steps
  <2> HIDE DEF ticked
  <2>4. /\ entered \in Divider /\ Bounded(entered) /\ entered.lastClock <= now'
        /\ entered.steps = ticked[NextStep].steps
    BY <1>2, <2>2, <2>3, EnteredType DEF Sound
  <2> HIDE DEF entered
  <2>5. Sound(divmult', now') /\ \A s \in Steps : divmult'[s].steps = divmult[s].steps
    <3> DEFINE d == TickedAt(entered, now')
    <3>1. d \in Divider /\ Bounded(d) /\ d.lastClock <= now' /\ d.steps = ticked[NextStep].steps
      BY <1>1, <2>4, TickedClock
    <3> HIDE DEF d
    <3> DEFINE e == [ticked EXCEPT ![NextStep] = d]
    <3>2. Sound(e, now') /\ \A s \in Steps : e[s].steps = ticked[s].steps
      BY <1>1, <2>2, <2>3, <3>1, SoundStep
    <3>3. divmult' = e \/ divmult' = ticked
      BY <2>1 DEF d
    <3> HIDE DEF e
    <3> QED
      BY <2>2, <3>2, <3>3
  <2>6. out' \in [clocked : BOOLEAN, trig : BOOLEAN]
    <3>1. FiresAt(entered, now') \in BOOLEAN /\ StepFires(TRUE) \in BOOLEAN
      BY DEF Fires, StepFires, FiresAt
    <3>2. \E b \in BOOLEAN : out' = [clocked |-> TRUE, trig |-> b]
      BY <2>1, <3>1, Zenon DEF Returned
    <3> QED
      BY <3>2
  <2> QED
    BY <1>1, <1>5, <1>10, <2>1, <2>3, <2>5, <2>6, ClkDivMultAssumption DEF Steps
<1>11. Moved
  BY <1>6, <1>7, <1>9, <1>10 DEF Poke
<1>12. SequenceTypeOK'
  BY <1>1, <1>2, <1>3, <1>11 DEF SequenceTypeOK, InputTypeOK, Sound, Bounded
<1> QED
  BY <1>1, <1>11, <1>12 DEF SequenceTypes

\* The next clock of the schedule, in the round or at the beginning of the next.
LEMMA CountsOn ==
  ASSUME NEW n \in Nat, NEW x \in Round, NEW y \in Round,
         Cardinality(Before(Round, x)) = n % Cardinality(Round),
         \/ Before(Round, y) = Before(Round, x) \cup {x}
         \/ Before(Round, y) = {} /\ Round = Before(Round, x) \cup {x}
  PROVE  Cardinality(Before(Round, y)) = (n + 1) % Cardinality(Round)
<1> DEFINE k == Cardinality(Round)
           before == Cardinality(Before(Round, x))
<1>1. k \in Nat \ {0} /\ before \in Nat
  BY RoundFinite, FS_EmptySet
<1>2. CASE Before(Round, y) = Before(Round, x) \cup {x}
  <2>1. Cardinality(Before(Round, y)) = before + 1 /\ before + 1 < k
    BY <1>2, OneMore
  <2> HIDE DEF k, before
  <2>2. n % k = before
    BY DEF k, before
  <2>3. (n + 1) % k = before + 1
    <3>1. (n + 1) % k = IF n % k = k - 1 THEN 0 ELSE (n % k) + 1
      BY <1>1, ModSucc
    <3>2. before # k - 1
      BY <1>1, <2>1
    <3> QED
      BY <2>2, <3>1, <3>2
  <2> QED
    BY <2>1, <2>3 DEF k
<1>3. CASE Before(Round, y) = {} /\ Round = Before(Round, x) \cup {x}
  <2>1. Cardinality(Before(Round, y)) = 0 /\ k = before + 1
    BY <1>3, AllButLast, FS_EmptySet
  <2> HIDE DEF k, before
  <2>2. n % k = before
    BY DEF k, before
  <2>3. (n + 1) % k = 0
    <3>1. (n + 1) % k = IF n % k = k - 1 THEN 0 ELSE (n % k) + 1
      BY <1>1, ModSucc
    <3>2. before = k - 1
      BY <1>1, <2>1
    <3> QED
      BY <2>2, <3>1, <3>2
  <2> QED
    BY <2>1, <2>3 DEF k
<1> QED
  BY <1>2, <1>3

\* Step -1 is the state between a reset and the first clock.
FromReset ==
  /\ step_index = -1 <=> clocks = 0
  /\ step_index = -1 => clock_count = 0 /\ divmult[0].clockCount = 0

\* The clock of the round that the sequence is at.
Place == <<step_index, clock_count + 1>>

\* The clocks since the reset are the first turn of step 0, and from then on
\* as many modulo the round as there are clocks of it before this one.
OnSchedule ==
  clean /\ clocks > 0 =>
    IF clocks <= Length(0) THEN step_index = 0 /\ clock_count + 1 = clocks
    ELSE IF Active = {} THEN step_index = 0
    ELSE /\ Place \in Round
         /\ Cardinality(Before(Round, Place)) = (clocks - Length(0) - 1) % Cardinality(Round)

LEMMA LengthsType ==
  ASSUME SequenceTypes
  PROVE  \A s \in Steps : Length(s) \in 1 .. ClockDivMax
BY LengthType DEF SequenceTypes, Sound

LEMMA PokeFromReset ==
  ASSUME SequenceTypes, FromReset, NEW clocked \in BOOLEAN, Poke(clocked)
  PROVE  FromReset'
<1>1. /\ clocks \in Nat /\ clocks' = IF clocked THEN clocks + 1 ELSE clocks
      /\ step_index = -1 \/ (step_index \in Steps /\ step_index >= 0)
      /\ NUM_STEPS \in Nat
  <2>1. clocks \in 0 .. now /\ now \in 0 .. LastTick /\ step_index \in -1 .. NUM_STEPS - 1
    BY DEF SequenceTypes, SequenceTypeOK, InputTypeOK
  <2> QED
    BY <2>1, DivSequenceAssumption DEF Poke, Steps
<1>2. CASE clocked /\ PokeFirst
  BY <1>1, <1>2 DEF PokeFirst, FromReset
<1>3. CASE ~ clocked /\ PokeIdle
  BY <1>1, <1>3 DEF PokeIdle, FromReset
<1>4. CASE PokeStays(clocked)
  BY <1>1, <1>4 DEF PokeStays, FromReset
<1>5. CASE clocked /\ PokeMoves
  <2>1. step_index \in Steps /\ step_index' = NextStep
    BY <1>1, <1>5 DEF PokeMoves
  <2>2. NextStep \in Steps
    BY <2>1, NextStepType
  <2>3. step_index # -1 /\ step_index' # -1
    BY <2>1, <2>2 DEF Steps
  <2> QED
    BY <1>1, <1>5, <2>3 DEF FromReset
<1> QED
  BY <1>2, <1>3, <1>4, <1>5 DEF Poke

\* The turns pass with the clocks.
LEMMA PokeSchedule ==
  ASSUME SequenceTypes, FromReset, OnSchedule, NEW clocked \in BOOLEAN, Poke(clocked)
  PROVE  OnSchedule'
<1> SUFFICES ASSUME clean', clocks' > 0
             PROVE  OnSchedule'
  BY DEF OnSchedule
<1> DEFINE len == Length(0)
           k == Cardinality(Round)
           place == <<step_index', clock_count' + 1>>
           Goal == IF clocks' <= len THEN step_index' = 0 /\ clock_count' + 1 = clocks'
                   ELSE IF Active = {} THEN step_index' = 0
                   ELSE /\ place \in Round
                        /\ Cardinality(Before(Round, place)) = (clocks' - len - 1) % k
<1>1. /\ clean /\ clocks \in Nat /\ clock_count \in Nat
      /\ clocks' = IF clocked THEN clocks + 1 ELSE clocks
      /\ step_index \in -1 .. NUM_STEPS - 1 /\ NUM_STEPS \in Nat \ {0}
  <2>1. clocks \in 0 .. now /\ now \in 0 .. LastTick
    BY DEF SequenceTypes, SequenceTypeOK, InputTypeOK
  <2> QED
    BY <2>1, DivSequenceAssumption DEF Poke, SequenceTypes, SequenceTypeOK
<1>2. /\ \A s \in Steps : Length(s)' = Length(s)
      /\ Active' = Active /\ Round' = Round /\ 0 \in Steps
  BY <1>1, PokeTypes, SameRound DEF Steps
<1>3. Goal => OnSchedule'
  <2>1. Place' = place /\ Before(Round, Place)' = Before(Round, place)
    BY <1>2 DEF Place, Before
  <2> QED
    BY <1>2, <2>1 DEF OnSchedule
<1>4. len \in 1 .. ClockDivMax /\ k \in Nat
  BY <1>2, LengthsType, RoundFinite
<1>5. CASE clocks = 0
  <2>1. step_index = -1 /\ clock_count = 0
    BY <1>5 DEF FromReset
  <2>2. clocked
    BY <1>1, <1>5
  <2>3. step_index' = 0 /\ clock_count' = 0
    BY <1>1, <2>1, <2>2 DEF Poke, PokeFirst, PokeStays, PokeMoves
  <2> QED
    BY <1>1, <1>3, <1>4, <1>5, <2>2, <2>3
<1> SUFFICES ASSUME clocks # 0 PROVE Goal
  BY <1>3, <1>5
<1>6. /\ clocks > 0 /\ step_index >= 0 /\ step_index \in Steps
      /\ divmult[step_index] \in Divider
  <2>1. step_index >= 0 /\ step_index \in Steps
    BY <1>1 DEF FromReset, Steps
  <2> QED
    BY <1>1, <2>1 DEF SequenceTypes, Sound
<1>7. IF clocks <= len THEN step_index = 0 /\ clock_count + 1 = clocks
      ELSE IF Active = {} THEN step_index = 0
      ELSE /\ Place \in Round
           /\ Cardinality(Before(Round, Place)) = (clocks - len - 1) % k
  BY <1>1, <1>6 DEF OnSchedule
<1>8. /\ Length(step_index) \in 1 .. ClockDivMax
      /\ TurnOver <=> clock_count + 1 >= Length(step_index)
  <2>1. Length(step_index) \in 1 .. ClockDivMax /\ divmult[step_index].steps \in Int
    BY <1>6, LengthsType DEF Divider
  <2> QED
    BY <1>1, <2>1 DEF TurnOver, Length
<1> DEFINE Stays == /\ step_index' = step_index
                    /\ clock_count' = clock_count + 1 /\ clocks' = clocks + 1
           Moves == /\ step_index' = NextStep
                    /\ clock_count' = 0 /\ clocks' = clocks + 1
<1>9. clocked => IF TurnOver THEN Moves ELSE Stays
  <2>1. clocked => PokeStays(TRUE) \/ PokeMoves
    <3>1. step_index # -1
      BY <1>6
    <3> QED
      BY <3>1, Zenon DEF Poke, PokeFirst
  <2>2. clocked /\ PokeStays(TRUE) => ~ TurnOver /\ Stays
    BY <1>1 DEF PokeStays
  <2>3. clocked /\ PokeMoves => TurnOver /\ Moves
    BY <1>1 DEF PokeMoves
  <2> QED
    BY <2>1, <2>2, <2>3
<1>10. CASE ~ clocked
  <2>1. step_index' = step_index /\ clock_count' = clock_count /\ clocks' = clocks
    BY <1>1, <1>10 DEF Poke, PokeIdle, PokeStays
  <2> QED
    BY <1>7, <2>1 DEF Place
<1>11. CASE clocked /\ ~ TurnOver
  <2>1. step_index' = step_index /\ clock_count' = clock_count + 1 /\ clocks' = clocks + 1
    BY <1>11, <1>9
  <2>2. CASE clocks <= len
    BY <1>1, <1>4, <1>7, <1>8, <1>11, <2>1, <2>2
  <2>3. CASE clocks > len /\ Active = {}
    BY <1>1, <1>4, <1>7, <2>1, <2>3
  <2>4. CASE clocks > len /\ Active # {}
    <3>1. Place \in Round /\ Cardinality(Before(Round, Place)) = (clocks - len - 1) % k
      BY <1>1, <1>4, <1>7, <2>4
    <3>2. place \in Round
      <4>1. step_index \in Active /\ clock_count + 2 <= Length(step_index)
        BY <1>1, <1>8, <1>11, <3>1, InRound DEF Place
      <4>2. clock_count + 2 \in 1 .. ClockDivMax
        BY <1>1, <1>8, <4>1, ClkDivMultAssumption
      <4> QED
        BY <1>1, <2>1, <4>1, <4>2, InRound
    <3>3. Before(Round, place) = Before(Round, Place) \cup {Place}
      BY <2>1, <3>1, <3>2, NextInTurn DEF Place
    <3>4. clocks - len - 1 \in Nat /\ clocks' - len - 1 = (clocks - len - 1) + 1
      BY <1>1, <1>4, <2>1, <2>4
    <3> DEFINE n == clocks - len - 1
    <3> HIDE DEF n, place
    <3>5. Cardinality(Before(Round, place)) = (n + 1) % k
      BY <3>1, <3>2, <3>3, <3>4, CountsOn DEF n
    <3>6. clocks' > len
      BY <1>1, <1>4, <2>1, <2>4
    <3> QED
      BY <1>4, <2>4, <3>2, <3>4, <3>5, <3>6, <1>1 DEF n
  <2> QED
    BY <1>1, <1>4, <2>2, <2>3, <2>4
<1>12. CASE clocked /\ TurnOver
  <2>1. step_index' = NextStep /\ clock_count' = 0 /\ clocks' = clocks + 1
    BY <1>12, <1>9
  <2>2. place = <<NextStep, 1>>
    BY <2>1
  <2>3. clocks' > len
    BY <1>1, <1>4, <1>7, <1>8, <1>12, <2>1
  <2>4. CASE Active = {}
    BY <1>6, <1>7, <2>1, <2>3, <2>4, <1>1, <1>4, NextStepType
  <2>5. CASE clocks <= len /\ Active # {}
    <3>1. step_index = 0 /\ clocks = len
      BY <1>1, <1>4, <1>7, <1>8, <1>12, <2>5
    <3>2. place \in Round /\ Before(Round, place) = {}
      BY <2>2, <2>5, <3>1, FirstRound, LengthsType
    <3>3. Cardinality(Before(Round, place)) = 0 /\ k \in Nat \ {0}
      BY <3>2, FS_EmptySet, RoundFinite
    <3>4. clocks' - len - 1 = 0
      BY <1>1, <1>4, <2>1, <3>1
    <3> HIDE DEF k, place
    <3>5. 0 % k = 0
      BY <3>3
    <3> QED
      BY <2>3, <2>5, <3>2, <3>3, <3>4, <3>5, <1>1, <1>4
  <2>6. CASE clocks > len /\ Active # {}
    <3>1. Place \in Round /\ Cardinality(Before(Round, Place)) = (clocks - len - 1) % k
      BY <1>1, <1>4, <1>7, <2>6
    <3>2. Place = <<step_index, Length(step_index)>>
      <4>1. clock_count + 1 <= Length(step_index)
        BY <3>1, InRound DEF Place
      <4> QED
        BY <1>1, <1>8, <1>12, <4>1 DEF Place
    <3>3. /\ place \in Round
          /\ \/ Before(Round, place) = Before(Round, Place) \cup {Place}
             \/ Before(Round, place) = {} /\ Round = Before(Round, Place) \cup {Place}
      BY <1>6, <2>2, <3>1, <3>2, NextTurn, LengthsType
    <3>4. clocks - len - 1 \in Nat /\ clocks' - len - 1 = (clocks - len - 1) + 1
      BY <1>1, <1>4, <2>1, <2>6
    <3> DEFINE n == clocks - len - 1
    <3> HIDE DEF n, place
    <3>5. Cardinality(Before(Round, place)) = (n + 1) % k
      BY <3>1, <3>3, <3>4, CountsOn DEF n
    <3> QED
      BY <1>1, <1>4, <2>3, <2>6, <3>3, <3>4, <3>5 DEF n
  <2> QED
    BY <1>1, <1>4, <2>4, <2>5, <2>6
<1> QED
  BY <1>10, <1>11, <1>12

-----------------------------------------------------------------------------
\* A division counts the clocks of its turn; a multiplication waits, with the
\* cycle of all clocks, for the triggers of its one clock.
InTurn ==
  clean /\ clocks > 0 /\ StepActive(step_index) =>
    LET d == divmult[step_index]
    IN  IF d.steps < 0
        THEN /\ d.cycleTime = cycle /\ Waits(d, at, now)
             /\ Interval(d) > 0 => (out.trig <=> Beat(now, at, - d.steps, Interval(d)))
        ELSE /\ d.clockCount = IF clock_count + 1 = d.steps THEN 0 ELSE clock_count + 1
             /\ out.trig <=> out.clocked /\ clock_count = 0

\* A turn begins with the clock at t.
LEMMA TurnBegins ==
  ASSUME NEW d \in Divider, d.steps # 0, d.clockCount = 0, NEW t \in Nat, d.lastClock <= t,
         NEW e, e = TickedAt(d, t)
  PROVE  /\ FiresAt(d, t) /\ e.steps = d.steps
         /\ d.steps < 0 => /\ e.cycleTime = t - d.lastClock /\ Waits(e, t, t)
                           /\ Beat(t, t, - d.steps, Interval(e))
         /\ ~ (d.steps < 0) => e.clockCount = IF 0 + 1 = d.steps THEN 0 ELSE 0 + 1
<1>1. d.steps \in Int /\ t - d.lastClock \in Nat
  BY DEF Divider
<1>2. e.steps = d.steps /\ e.cycleTime = t - d.lastClock
  BY WaitClock
<1>3. ASSUME d.steps < 0
      PROVE  /\ FiresAt(d, t) /\ Waits(e, t, t)
             /\ Beat(t, t, - d.steps, Interval(e))
  <2>1. FiresAt(d, t) /\ Waits(e, t, t)
    BY <1>3, WaitClock
  <2>2. Interval(e) \in Nat
    <3>1. e.cycleTime \in Nat /\ - e.steps \in Nat \ {0}
      BY <1>1, <1>2, <1>3
    <3> QED
      BY <3>1 DEF Interval
  <2>3. - d.steps \in Nat \ {0}
    BY <1>1, <1>3
  <2> QED
    BY <2>1, <2>2, <2>3, BeatAtClock
<1>4. ASSUME d.steps > 0
      PROVE  FiresAt(d, t) /\ e.clockCount = IF 0 + 1 = d.steps THEN 0 ELSE 0 + 1
  <2> DEFINE clocked == TRUE
  <2>1. clocked \in BOOLEAN
    OBVIOUS
  <2> HIDE DEF clocked
  <2>2. /\ Fires(d, t, clocked) <=> clocked /\ d.clockCount = 0
        /\ Ticked(d, t, clocked).clockCount =
             IF ~ clocked THEN d.clockCount
             ELSE IF d.clockCount + 1 >= d.steps THEN 0 ELSE d.clockCount + 1
    BY <1>4, <2>1, DivisionTicks
  <2>3. FiresAt(d, t) /\ e.clockCount = IF 0 + 1 >= d.steps THEN 0 ELSE 0 + 1
    BY <2>2 DEF clocked, TickedAt, FiresAt
  <2> QED
    BY <1>1, <1>4, <2>3
<1> QED
  BY <1>1, <1>2, <1>3, <1>4

\* A division goes on in its turn: no trigger before the next.
LEMMA TurnGoesOn ==
  ASSUME NEW d \in Divider, NEW c \in Nat, d.steps > 0, c + 1 < d.steps, d.clockCount = c + 1,
         NEW t \in Nat
  PROVE  /\ ~ FiresAt(d, t)
         /\ TickedAt(d, t).clockCount = IF (c + 1) + 1 = d.steps THEN 0 ELSE (c + 1) + 1
<1> DEFINE clocked == TRUE
<1>1. clocked \in BOOLEAN
  OBVIOUS
<1> HIDE DEF clocked
<1>2. /\ Fires(d, t, clocked) <=> clocked /\ d.clockCount = 0
      /\ Ticked(d, t, clocked).clockCount =
           IF ~ clocked THEN d.clockCount
           ELSE IF d.clockCount + 1 >= d.steps THEN 0 ELSE d.clockCount + 1
  BY <1>1, DivisionTicks
<1>3. d.steps \in Int
  BY DEF Divider
<1>4. ~ FiresAt(d, t)
  <2>1. d.clockCount # 0
    OBVIOUS
  <2> QED
    BY <1>2, <2>1, Zenon DEF clocked, FiresAt
<1>5. TickedAt(d, t).clockCount = IF (c + 1) + 1 >= d.steps THEN 0 ELSE (c + 1) + 1
  BY <1>2 DEF clocked, TickedAt
<1> QED
  BY <1>3, <1>4, <1>5

\* Without a clock a division does nothing.
LEMMA DivisionIdle ==
  ASSUME NEW d \in Divider, d.steps > 0, NEW t \in Nat
  PROVE  ~ FiresBetween(d, t) /\ TickedBetween(d, t).clockCount = d.clockCount
<1> DEFINE clocked == FALSE
<1>1. clocked \in BOOLEAN
  OBVIOUS
<1> HIDE DEF clocked
<1>2. /\ Fires(d, t, clocked) <=> clocked /\ d.clockCount = 0
      /\ Ticked(d, t, clocked).clockCount =
           IF ~ clocked THEN d.clockCount
           ELSE IF d.clockCount + 1 >= d.steps THEN 0 ELSE d.clockCount + 1
  BY <1>1, DivisionTicks
<1> QED
  BY <1>2 DEF clocked, TickedBetween, FiresBetween

LEMMA PokeInTurn ==
  ASSUME SequenceTypes, FromReset, InTurn, NEW clocked \in BOOLEAN, Poke(clocked)
  PROVE  InTurn'
<1> SUFFICES ASSUME clean', clocks' > 0, StepActive(step_index)'
             PROVE  InTurn'
  BY DEF InTurn
<1> DEFINE d == divmult'[step_index']
           Goal == IF d.steps < 0
                   THEN /\ d.cycleTime = cycle' /\ Waits(d, at', now')
                        /\ Interval(d) > 0 => (out'.trig <=> Beat(now', at', - d.steps, Interval(d)))
                   ELSE /\ d.clockCount = IF clock_count' + 1 = d.steps THEN 0 ELSE clock_count' + 1
                        /\ out'.trig <=> out'.clocked /\ clock_count' = 0
<1>1. Goal => InTurn'
  BY DEF InTurn, Waits, Interval, OnTime, Beat
<1>2. /\ clean /\ clocks \in Nat /\ clock_count \in Nat /\ now \in Nat /\ now' = now + 1
      /\ clocks' = IF clocked THEN clocks + 1 ELSE clocks
      /\ at' = IF clocked THEN now' ELSE at
      /\ cycle' = IF clocked THEN now' - at ELSE cycle
      /\ at \in Nat /\ at <= now /\ last_clock = at
      /\ step_index \in -1 .. NUM_STEPS - 1
  <2>1. clocks \in 0 .. now /\ now \in 0 .. LastTick /\ at \in 0 .. now
    BY DEF SequenceTypes, SequenceTypeOK, InputTypeOK
  <2> QED
    BY <2>1 DEF Poke, InnerTick, SequenceTypes, SequenceTypeOK
<1>3. /\ NUM_STEPS \in Nat \ {0} /\ 0 \in Steps
      /\ \A s \in Steps : divmult[s] \in Divider /\ Bounded(divmult[s])
      /\ divmult \in [Steps -> Divider]
      /\ \A s \in Steps : divmult'[s].steps = divmult[s].steps
      /\ \A s \in Steps : StepActive(s)' <=> StepActive(s)
  BY PokeTypes, SameRound, DivSequenceAssumption DEF Steps, SequenceTypes, Sound
\* A turn that begins.
<1>4. ASSUME NEW e \in Divider, clocked, e.steps # 0, e.clockCount = 0, e.lastClock = at,
             d = TickedAt(e, now'), clock_count' = 0, out'.clocked,
             out'.trig <=> FiresAt(e, now')
      PROVE  Goal
  <2>1. now' \in Nat /\ at <= now' /\ at' = now' /\ cycle' = now' - at
    BY <1>2, <1>4
  <2>2. e.steps \in Int
    BY DEF Divider
  <2>3. d = TickedAt(e, now')
    BY <1>4
  <2> HIDE DEF d
  <2>4. /\ FiresAt(e, now') /\ d.steps = e.steps
        /\ e.steps < 0 => /\ d.cycleTime = now' - at /\ Waits(d, now', now')
                          /\ Beat(now', now', - e.steps, Interval(d))
        /\ ~ (e.steps < 0) => d.clockCount = IF 0 + 1 = e.steps THEN 0 ELSE 0 + 1
    BY <1>4, <2>1, <2>3, TurnBegins
  <2> QED
    BY <1>4, <2>1, <2>4
<1>5. CASE clocked /\ PokeFirst
  <2> DEFINE first == [divmult[0] EXCEPT !.lastClock = last_clock]
  <2>1. /\ step_index = -1 /\ step_index' = 0 /\ clock_count' = clock_count
        /\ divmult' = [divmult EXCEPT ![0] = TickedAt(first, now')]
        /\ out' = [clocked |-> TRUE, trig |-> FiresAt(first, now') /\ StepActive(0)]
    BY <1>5 DEF PokeFirst, Returned, TickedAt, FiresAt
  <2>2. divmult[0].clockCount = 0 /\ clock_count = 0
    BY <2>1 DEF FromReset
  <2>3. /\ first \in Divider /\ first.clockCount = 0 /\ first.lastClock = at
        /\ first.steps = divmult[0].steps
    BY <1>2, <1>3, <2>2, TimeHandedOn
  <2> HIDE DEF first
  <2>4. StepActive(0) /\ first.steps # 0
    BY <1>3, <2>1, <2>3 DEF StepActive
  <2>5. d = TickedAt(first, now')
    BY <1>3, <2>1
  <2>6. out'.clocked /\ (out'.trig <=> FiresAt(first, now'))
    BY <2>1, <2>4
  <2> HIDE DEF Goal, d
  <2> QED
    BY <1>1, <1>4, <1>5, <2>1, <2>2, <2>3, <2>4, <2>5, <2>6
<1>6. CASE clocked /\ PokeMoves
  <2> DEFINE ticked == StepTicked(TRUE)
             entered == Entered(ticked[NextStep])
  <2>1. step_index \in Steps /\ NextStep \in Steps
    <3>1. step_index \in Steps
      BY <1>2, <1>6 DEF PokeMoves, Steps
    <3> QED
      BY <3>1, NextStepType
  <2>2. StepActive(NextStep)
    BY <1>3, <1>6, <2>1 DEF PokeMoves
  <2>3. /\ step_index' = NextStep /\ clock_count' = 0
        /\ divmult' = [ticked EXCEPT ![NextStep] = TickedAt(entered, now')]
        /\ out' = [clocked |-> TRUE, trig |-> FiresAt(entered, now')]
    BY <1>6, <2>2 DEF PokeMoves, Returned, TickedAt, FiresAt
  <2>4. ticked[NextStep] \in Divider /\ ticked[NextStep].steps = divmult[NextStep].steps
        /\ ticked \in [Steps -> Divider]
    <3> DEFINE e == TickedAt(divmult[step_index], now')
    <3>1. e \in Divider /\ e.steps = divmult[step_index].steps
      <4>1. divmult[step_index].lastClock <= now'
        BY <1>2, <2>1, SoundLater DEF SequenceTypes, Sound
      <4>2. now' \in Nat
        BY <1>2
      <4> QED
        BY <1>3, <2>1, <4>1, <4>2, TickedClock
    <3>2. ticked = [divmult EXCEPT ![step_index] = e]
      BY DEF StepTicked, TickedAt
    <3> HIDE DEF e, ticked
    <3> QED
      BY <1>3, <2>1, <3>1, <3>2
  <2> HIDE DEF ticked
  <2>5. /\ entered \in Divider /\ entered.clockCount = 0 /\ entered.lastClock = at
        /\ entered.steps = divmult[NextStep].steps
    BY <1>2, <2>4, EnteredType
  <2> HIDE DEF entered
  <2>6. d = TickedAt(entered, now')
    BY <2>1, <2>3, <2>4
  <2>7. entered.steps # 0
    BY <2>2, <2>5 DEF StepActive
  <2>8. out'.clocked /\ (out'.trig <=> FiresAt(entered, now'))
    BY <2>3
  <2> HIDE DEF Goal, d
  <2> QED
    BY <1>1, <1>4, <1>6, <2>3, <2>5, <2>6, <2>7, <2>8
\* The turn that goes on.
<1> DEFINE b == divmult[step_index]
<1>7. ASSUME PokeStays(clocked)
      PROVE  /\ step_index' = step_index /\ step_index \in Steps /\ StepActive(step_index)
             /\ b \in Divider /\ b.steps # 0 /\ b.steps \in Int /\ clocks > 0
             /\ d = Ticked(b, now', clocked) /\ d.steps = b.steps
             /\ out' = [clocked |-> clocked, trig |-> StepFires(clocked)]
             /\ clocked => ~ TurnOver
             /\ clock_count' = IF clocked THEN clock_count + 1 ELSE clock_count
  <2>1. /\ step_index >= 0 /\ divmult' = StepTicked(clocked) /\ step_index' = step_index
        /\ clocked => ~ TurnOver
        /\ clock_count' = IF clocked THEN clock_count + 1 ELSE clock_count
        /\ out' = [clocked |-> clocked, trig |-> StepFires(clocked)]
    BY <1>7 DEF PokeStays, Returned
  <2>2. step_index \in Steps
    BY <1>2, <2>1 DEF Steps
  <2>3. StepActive(step_index)
    BY <1>3, <2>1, <2>2
  <2>4. b \in Divider /\ b.steps # 0 /\ b.steps \in Int
    BY <1>3, <2>2, <2>3 DEF StepActive, Divider
  <2>5. clocks > 0
    BY <1>2, <2>1 DEF FromReset
  <2>6. d = Ticked(b, now', clocked)
    BY <1>3, <2>1, <2>2 DEF StepTicked
  <2>7. d.steps = b.steps
    BY <1>3, <2>1, <2>2
  <2> QED
    BY <2>1, <2>2, <2>3, <2>4, <2>5, <2>6, <2>7
<1>8. CASE clocked /\ PokeStays(TRUE)
  <2>1. PokeStays(clocked) /\ clocked = TRUE
    BY <1>8
  <2>2. b.steps > 0 /\ clock_count + 1 < b.steps
    BY <1>2, <1>7, <2>1 DEF TurnOver
  <2>3. b.clockCount = clock_count + 1
    BY <1>2, <1>7, <2>1, <2>2 DEF InTurn
  <2>4. /\ d.steps = b.steps /\ d = TickedAt(b, now') /\ clock_count' = clock_count + 1
        /\ out' = [clocked |-> TRUE, trig |-> FiresAt(b, now')]
    BY <1>7, <2>1 DEF StepFires, TickedAt, FiresAt
  <2>5. b \in Divider /\ b.steps \in Int /\ now' \in Nat
    BY <1>2, <1>7, <2>1
  <2> HIDE DEF d, b
  <2>6. /\ ~ FiresAt(b, now')
        /\ TickedAt(b, now').clockCount =
             IF (clock_count + 1) + 1 = b.steps THEN 0 ELSE (clock_count + 1) + 1
    BY <1>2, <2>2, <2>3, <2>5, TurnGoesOn
  <2>7. out'.clocked /\ ~ out'.trig /\ clock_count' # 0 /\ ~ (d.steps < 0)
    BY <1>2, <2>2, <2>6, <2>4, <2>5
  <2>8. Goal
    BY <2>6, <2>4, <2>7
  <2> QED
    BY <1>1, <2>8
<1>9. CASE ~ clocked /\ PokeStays(FALSE)
  <2>1. PokeStays(clocked) /\ clocked = FALSE
    BY <1>9
  <2>2. /\ d.steps = b.steps /\ d = TickedBetween(b, now') /\ clock_count' = clock_count
        /\ out' = [clocked |-> FALSE, trig |-> FiresBetween(b, now')]
        /\ at' = at /\ cycle' = cycle
    BY <1>2, <1>7, <2>1 DEF StepFires, TickedBetween, FiresBetween
  <2>3. ~ out'.clocked /\ (out'.trig <=> FiresBetween(b, now'))
    BY <2>2
  <2>4. /\ b \in Divider /\ b.steps # 0 /\ b.steps \in Int
        /\ IF b.steps < 0
           THEN b.cycleTime = cycle /\ Waits(b, at, now)
           ELSE b.clockCount = IF clock_count + 1 = b.steps THEN 0 ELSE clock_count + 1
    BY <1>2, <1>7, <2>1 DEF InTurn
  <2> HIDE DEF b, d
  <2>5. CASE b.steps < 0
    <3>1. /\ d.cycleTime = b.cycleTime /\ Waits(d, at, now')
          /\ Interval(b) > 0 => (FiresBetween(b, now') <=> Beat(now', at, - b.steps, Interval(b)))
      BY <1>2, <2>2, <2>4, <2>5, WaitTick
    <3>2. Interval(d) = Interval(b)
      BY <2>2, <3>1 DEF Interval
    <3>3. Goal
      BY <2>2, <2>3, <2>4, <2>5, <3>1, <3>2
    <3> QED
      BY <1>1, <3>3
  <2>6. CASE b.steps > 0
    <3>1. now' \in Nat
      BY <1>2
    <3>2. ~ FiresBetween(b, now') /\ d.clockCount = b.clockCount
      BY <2>2, <2>4, <2>6, <3>1, DivisionIdle
    <3>3. ~ (d.steps < 0) /\ ~ out'.trig
      BY <2>2, <2>3, <2>4, <2>6, <3>2
    <3>4. d.clockCount = IF clock_count' + 1 = d.steps THEN 0 ELSE clock_count' + 1
      BY <2>2, <2>4, <2>6, <3>2
    <3> QED
      BY <1>1, <2>3, <3>3, <3>4
  <2> QED
    BY <2>4, <2>5, <2>6
<1>10. CASE ~ clocked /\ PokeIdle
  BY <1>2, <1>10 DEF PokeIdle, FromReset
<1> QED
  BY <1>5, <1>6, <1>8, <1>9, <1>10 DEF Poke

-----------------------------------------------------------------------------
SequenceInv == SequenceTypes /\ FromReset /\ OnSchedule /\ InTurn

LEMMA SequenceStarts == SequenceInit => SequenceInv
<1> SUFFICES ASSUME SequenceInit PROVE SequenceInv
  OBVIOUS
<1>1. /\ NewDivider \in Divider /\ Bounded(NewDivider)
      /\ NewDivider.lastClock = 0 /\ NewDivider.clockCount = 0
  BY ClkDivMultAssumption DEF NewDivider, Divider, Bounded
<1>2. /\ divmult = [s \in Steps |-> NewDivider] /\ now = 0 /\ clocks = 0
      /\ step_index = -1 /\ clock_count = 0 /\ 0 \in Steps
  BY DivSequenceAssumption DEF SequenceInit, InputInit, Steps
<1> HIDE DEF NewDivider
<1>3. Sound(divmult, now) /\ divmult[0].clockCount = 0
  BY <1>1, <1>2 DEF Sound
<1>4. InputTypeOK
  BY ClockInputAssumption DEF SequenceInit, InputInit, InputTypeOK
<1>5. SequenceTypeOK
  BY <1>2, <1>3, <1>4, ClkDivMultAssumption, DivSequenceAssumption
     DEF SequenceInit, InputInit, SequenceTypeOK, Sound, Bounded
<1> QED
  BY <1>2, <1>3, <1>5 DEF SequenceInv, SequenceTypes, FromReset, OnSchedule, InTurn

\* A step that is set or muted after the first clock ends what can be said till
\* the next reset.
LEMMA EditKeeps ==
  ASSUME SequenceInv, NEW s \in Steps, ToggleStep(s) \/ \E v \in Settings : SetStep(s, v)
  PROVE  SequenceInv'
<1>1. /\ SequenceTypeOK /\ Sound(divmult, now) /\ FromReset
      /\ InputTypeOK /\ clocks \in 0 .. now /\ now \in 0 .. LastTick
      /\ clean \in BOOLEAN /\ muted \subseteq Steps
  BY DEF SequenceInv, SequenceTypes, SequenceTypeOK, InputTypeOK
<1>2. /\ changes' = changes + 1 /\ changes < MaxChanges
      /\ UNCHANGED <<now, out, at, cycle>>
      /\ clean' = (clean /\ clocks = 0) /\ clocks' = clocks
      /\ UNCHANGED <<step_index, clock_count, last_clock>>
  BY DEF ToggleStep, SetStep, Changed, Edited
<1>3. /\ muted' \subseteq Steps /\ Sound(divmult', now)
      /\ \A i \in Steps : divmult'[i].clockCount = divmult[i].clockCount
  <2>1. CASE ToggleStep(s)
    BY <1>1, <2>1 DEF ToggleStep
  <2>2. ASSUME NEW v \in Settings, SetStep(s, v)
        PROVE  /\ muted' = muted /\ Sound(divmult', now)
               /\ \A i \in Steps : divmult'[i].clockCount = divmult[i].clockCount
    <3> DEFINE c == Clipped(v)
               d == DividerSet(divmult[s], v)
    <3>1. c \in ClockDivMin .. ClockDivMax
      BY ClippedType, ClockInputAssumption
    <3>2. d = [divmult[s] EXCEPT !.steps = c]
      BY DEF DividerSet
    <3> HIDE DEF c
    <3>3. divmult[s] \in Divider /\ Bounded(divmult[s]) /\ divmult[s].lastClock <= now
      BY <1>1 DEF Sound
    <3>4. /\ d \in Divider /\ Bounded(d) /\ d.lastClock <= now
          /\ d.clockCount = divmult[s].clockCount
      BY <3>1, <3>2, <3>3 DEF Divider, Bounded
    <3>5. divmult' = [divmult EXCEPT ![s] = d] /\ muted' = muted
      BY <2>2 DEF SetStep
    <3> HIDE DEF d
    <3> QED
      BY <1>1, <3>4, <3>5 DEF Sound
  <2> QED
    BY <1>1, <2>1, <2>2
<1>4. InputTypeOK'
  BY <1>1, <1>2, ClockInputAssumption DEF InputTypeOK
<1>5. SequenceTypes'
  BY <1>1, <1>2, <1>3, <1>4 DEF SequenceTypes, SequenceTypeOK, Sound, Bounded
<1>6. FromReset'
  BY <1>1, <1>2, <1>3, DivSequenceAssumption DEF FromReset, Steps
<1>7. ~ (clean' /\ clocks' > 0)
  <2>1. clean' => clocks = 0
    BY <1>2, Zenon
  <2>2. clocks' = clocks /\ ~ (0 > 0)
    BY <1>2
  <2> QED
    BY <2>1, <2>2, Zenon
<1> QED
  BY <1>5, <1>6, <1>7 DEF SequenceInv, OnSchedule, InTurn

LEMMA ResetKeeps ==
  ASSUME SequenceInv, ResetSequence
  PROVE  SequenceInv'
<1>1. /\ SequenceTypeOK /\ Sound(divmult, now)
      /\ InputTypeOK /\ now \in 0 .. LastTick /\ 0 \in Steps
  BY DivSequenceAssumption DEF SequenceInv, SequenceTypes, SequenceTypeOK, InputTypeOK, Steps
<1>2. /\ changes' = changes + 1 /\ changes < MaxChanges
      /\ UNCHANGED <<now, out, at, cycle, muted, last_clock>>
      /\ clean' = TRUE /\ clocks' = 0 /\ step_index' = -1 /\ clock_count' = 0
      /\ divmult' = [s \in Steps |-> DividerReset(divmult[s])]
  BY DEF ResetSequence, Changed
<1>3. ASSUME NEW s \in Steps
      PROVE  /\ DividerReset(divmult[s]) \in Divider /\ Bounded(DividerReset(divmult[s]))
             /\ DividerReset(divmult[s]).lastClock <= now
             /\ DividerReset(divmult[s]).clockCount = 0
  <2>1. divmult[s] \in Divider /\ divmult[s].lastClock <= now
    BY <1>1 DEF Sound
  <2> DEFINE d == divmult[s]
  <2> HIDE DEF d
  <2>2. /\ DividerReset(d).clockCount = 0 /\ DividerReset(d) \in Divider
        /\ DividerReset(d).lastClock = d.lastClock
    BY <2>1 DEF DividerReset, Divider, d
  <2> QED
    BY <2>1, <2>2, ClkDivMultAssumption DEF Bounded, d
<1>4. Sound(divmult', now) /\ divmult'[0].clockCount = 0
  BY <1>1, <1>2, <1>3 DEF Sound
<1>5. InputTypeOK'
  BY <1>1, <1>2, ClockInputAssumption DEF InputTypeOK
<1>6. SequenceTypes'
  BY <1>1, <1>2, <1>4, <1>5, DivSequenceAssumption, ClkDivMultAssumption
     DEF SequenceTypes, SequenceTypeOK, Sound, Bounded
<1> QED
  BY <1>2, <1>4, <1>6 DEF SequenceInv, FromReset, OnSchedule, InTurn

LEMMA SequenceInductive == SequenceSpec => []SequenceInv
<1>1. SequenceInv /\ [SequenceNext]_sequence_vars => SequenceInv'
  <2> SUFFICES ASSUME SequenceInv, [SequenceNext]_sequence_vars
               PROVE  SequenceInv'
    OBVIOUS
  <2>1. CASE UNCHANGED sequence_vars
    BY <2>1 DEF SequenceInv, SequenceTypes, SequenceTypeOK, InputTypeOK, Sound, FromReset,
                OnSchedule, InTurn, Length, Active, StepActive, Round, Place, Before, Waits,
                Interval, OnTime, Beat, sequence_vars, input_vars
  <2>2. ASSUME NEW clocked \in BOOLEAN, Poke(clocked) PROVE SequenceInv'
    BY <2>2, PokeTypes, PokeFromReset, PokeSchedule, PokeInTurn DEF SequenceInv
  <2>3. ASSUME NEW s \in Steps, ToggleStep(s) \/ \E v \in Settings : SetStep(s, v)
        PROVE  SequenceInv'
    BY <2>3, EditKeeps
  <2>4. CASE ResetSequence
    BY <2>4, ResetKeeps
  <2> QED
    BY <2>1, <2>2, <2>3, <2>4 DEF SequenceNext
<1> QED
  BY <1>1, SequenceStarts, PTL DEF SequenceSpec

\* The sequence stays well formed: in particular its own time is the last
\* clock's, and a divider's count fits its type.
THEOREM SequenceTypeCorrect == SequenceSpec => []SequenceTypeOK
BY SequenceInductive, PTL DEF SequenceInv, SequenceTypes

\* The schedule gives the clock that the sequence is at.
LEMMA ScheduledPlace ==
  ASSUME SequenceInv, clean, clocks > 0
  PROVE  /\ Scheduled(clocks)[1] = step_index
         /\ Active # {} => Scheduled(clocks)[2] = clock_count + 1
<1>1. IF clocks <= Length(0) THEN step_index = 0 /\ clock_count + 1 = clocks
      ELSE IF Active = {} THEN step_index = 0
      ELSE /\ Place \in Round
           /\ Cardinality(Before(Round, Place)) = (clocks - Length(0) - 1) % Cardinality(Round)
  BY DEF SequenceInv, OnSchedule
<1>2. CASE clocks <= Length(0) \/ Active = {}
  BY <1>1, <1>2 DEF Scheduled
<1>3. CASE ~ (clocks <= Length(0)) /\ Active # {}
  <2> DEFINE n == (clocks - Length(0) - 1) % Cardinality(Round)
             x == CHOOSE x \in Round : Cardinality(Earlier(x)) = n
  <2>1. Scheduled(clocks) = x
    BY <1>3 DEF Scheduled
  <2>2. Place \in Round /\ Cardinality(Before(Round, Place)) = n
    BY <1>1, <1>3
  <2> HIDE DEF n
  <2>3. \A y \in Round : Earlier(y) = Before(Round, y)
    BY DEF Earlier, Before
  <2>4. x \in Round /\ Cardinality(Before(Round, x)) = n
    BY <2>2, <2>3
  <2> HIDE DEF x
  <2>5. x = Place
    BY <2>2, <2>4, PlacesDiffer
  <2> QED
    BY <2>1, <2>5 DEF Place
<1> QED
  BY <1>2, <1>3

\* However long the turns are and whatever is off or muted, after any number of
\* clocks since a reset the step is the one whose turn it is.
THEOREM SchedulePlayed == SequenceSpec => []PlaysSchedule
<1>1. SequenceInv => PlaysSchedule
  BY ScheduledPlace DEF PlaysSchedule
<1> QED
  BY <1>1, SequenceInductive, PTL

\* A division puts out its one trigger at its turn's first clock, a
\* multiplication all of its own, evenly over the cycle of all clocks.
THEOREM TurnsTriggered == SequenceSpec => []TriggersInTurn
<1>1. SequenceInv => TriggersInTurn
  <2> SUFFICES ASSUME SequenceInv, clean, clocks > 0, StepActive(step_index)
               PROVE  TriggersInTurn
    BY DEF TriggersInTurn
  <2> DEFINE d == divmult[step_index]
             m == - d.steps
             part == cycle \div m
  <2>1. /\ IF d.steps < 0
           THEN /\ d.cycleTime = cycle
                /\ Interval(d) > 0 => (out.trig <=> Beat(now, at, - d.steps, Interval(d)))
           ELSE out.trig <=> out.clocked /\ clock_count = 0
        /\ clock_count \in Nat
    BY DEF SequenceInv, InTurn, SequenceTypes, SequenceTypeOK
  <2>2. step_index \in Steps /\ d.steps \in Int /\ d.steps # 0
    <3>1. step_index \in Steps
      <4>1. step_index \in -1 .. NUM_STEPS - 1 /\ step_index # -1
        BY DEF SequenceInv, SequenceTypes, SequenceTypeOK, FromReset
      <4> QED
        BY <4>1, DivSequenceAssumption DEF Steps
    <3> QED
      BY <3>1 DEF SequenceInv, SequenceTypes, Sound, Divider, StepActive
  <2>3. Active # {} /\ Scheduled(clocks)[2] = clock_count + 1
    BY <2>2, ScheduledPlace DEF Active
  <2>4. CASE m < 0
    <3>1. out.trig <=> out.clocked /\ Scheduled(clocks)[2] = 1
      BY <2>1, <2>2, <2>3, <2>4
    <3> QED
      BY <2>4, <3>1 DEF TriggersInTurn
  <2>5. CASE ~ (m < 0)
    <3>1. d.steps < 0
      BY <2>2, <2>5
    <3>2. part > 0 => (out.trig <=> \E k \in 0 .. m - 1 : now = at + k * part)
      BY <2>1, <3>1 DEF Interval, Beat
    <3> QED
      BY <2>5, <3>2 DEF TriggersInTurn
  <2> QED
    BY <2>4, <2>5
<1> QED
  BY <1>1, SequenceInductive, PTL
=============================================================================
