-------------------------- MODULE ClockManagerProofs --------------------------
(***************************************************************************)
(* The clock is exact in every calm beat, for any channels, multiples,     *)
(* tempi, shuffles and calls.                                              *)
(*                                                                         *)
(* In a calm beat the count of a multiplying channel is that of its tocks, *)
(* the downbeat's included, and the next one is not due yet (OnTime); the  *)
(* count of a dividing channel is that of its beats, modulo the division   *)
(* until it was heard (InStep).  That carries a calm beat to the tick      *)
(* before its downbeat, on which every channel is due at once.             *)
(***************************************************************************)
EXTENDS ClockManager, TLAPS

OnTime(ch) ==
  /\ count[ch] \in 1 .. tocks_per_beat[ch]
  /\ fired[ch] = count[ch] - 1
  /\ ticks < beat_tick + TockAt(ch, count[ch])

InStep(ch) ==
  /\ count[ch] >= 1
  /\ IF since[ch] = Unknown THEN calm <= (count[ch] - 1) % Division(ch)
     ELSE since[ch] < Division(ch) /\ count[ch] = since[ch] + 1

InBeat ==
  /\ IsRunning
  /\ beat_tick + ticks_per_beat < TickModulus
  /\ beat_tick <= ticks /\ ticks < beat_tick + ticks_per_beat

Calm ==
  /\ InBeat /\ Spaced
  /\ \A ch \in Channels :
       /\ Multiplies(ch) => OnTime(ch)
       /\ Divides(ch) => InStep(ch)

Heard == \A ch \in Channels : since[ch] # Unknown => calm > 0

IInv == TypeOK /\ Heard /\ (calm > 0 => Calm)

-----------------------------------------------------------------------------
(***************************************************************************)
(* Arithmetic.                                                             *)
(***************************************************************************)

LEMMA DivRange ==
  ASSUME NEW n \in Nat \ {0}, NEW b \in Nat \ {0}, b <= n
  PROVE  n \div b \in 1 .. n
OBVIOUS

LEMMA DivNat ==
  ASSUME NEW n \in Nat, NEW b \in Nat \ {0}
  PROVE  n \div b \in Nat
OBVIOUS

LEMMA DivExact ==
  ASSUME NEW n \in Nat, NEW b \in Nat \ {0}
  PROVE  (b * n) \div b = n
OBVIOUS

LEMMA ModRange ==
  ASSUME NEW n \in Nat, NEW k \in Nat \ {0}
  PROVE  n % k \in 0 .. k - 1
OBVIOUS

LEMMA Strictly ==
  ASSUME NEW k \in Nat \ {0}, NEW a \in Int, a > 0
  PROVE  k * a >= k
OBVIOUS

LEMMA QuotientUnique ==
  ASSUME NEW k \in Nat \ {0}, NEW q \in Int, NEW r \in 0 .. k - 1, NEW p \in Int, NEW s \in 0 .. k - 1,
         k * q + r = k * p + s
  PROVE  r = s
<1>1. k * (q - p) = s - r
  OBVIOUS
<1>2. CASE q = p
  BY <1>1, <1>2
<1>3. CASE q > p
  BY <1>1, <1>3, k * (q - p) >= k, Strictly
<1>4. CASE q < p
  <2>1. k * (p - q) = r - s
    OBVIOUS
  <2> QED BY <2>1, <1>4, k * (p - q) >= k, Strictly
<1> QED
  BY <1>2, <1>3, <1>4

LEMMA ModSucc ==
  ASSUME NEW n \in Nat, NEW k \in Nat \ {0}
  PROVE  (n + 1) % k = IF n % k = k - 1 THEN 0 ELSE (n % k) + 1
<1> DEFINE q == n \div k
           p == (n + 1) \div k
           r == n % k
           s == (n + 1) % k
<1>1. q \in Int /\ p \in Int /\ r \in 0 .. k - 1 /\ s \in 0 .. k - 1
  OBVIOUS
<1>2. n = k * q + r /\ n + 1 = k * p + s
  OBVIOUS
<1> HIDE DEF q, p, r, s
<1>3. CASE r = k - 1
  <2>1. k * (q + 1) + 0 = k * p + s
    BY <1>1, <1>2, <1>3
  <2>2. q + 1 \in Int /\ 0 \in 0 .. k - 1
    BY <1>1
  <2> QED
    BY <2>1, <2>2, <1>1, <1>3, QuotientUnique DEF r, s
<1>4. CASE r # k - 1
  <2>1. k * q + (r + 1) = k * p + s
    BY <1>1, <1>2
  <2>2. r + 1 \in 0 .. k - 1
    BY <1>1, <1>4
  <2>3. r + 1 = s
    BY <2>1, <2>2, <1>1, QuotientUnique
  <2> QED
    BY <2>3, <1>4 DEF r, s
<1> QED
  BY <1>3, <1>4

-----------------------------------------------------------------------------
(***************************************************************************)
(* Types.                                                                  *)
(***************************************************************************)

LEMMA ConstrainedType ==
  ASSUME NEW x \in Int, NEW lo \in Int, NEW hi \in Int, lo <= hi
  PROVE  Constrained(x, lo, hi) \in lo .. hi
BY DEF Constrained

LEMMA ShuffleType ==
  ASSUME NEW x \in Int
  PROVE  Constrained(x, 0, 99) \in 0 .. 99
BY DEF Constrained

LEMMA MultipleType ==
  ASSUME NEW m \in Int
  PROVE  Multiple(m) \in CLOCK_MIN_MULTIPLE .. CLOCK_MAX_MULTIPLE
BY ConstrainedType, ClockManagerAssumption DEF Multiple

LEMMA TempoType ==
  ASSUME NEW bpm \in Int
  PROVE  /\ Tempo(bpm) \in CLOCK_TEMPO_MIN .. CLOCK_TEMPO_MAX
         /\ TicksPerBeat(Tempo(bpm)) \in 1 .. TicksPerMinute
<1>1. Tempo(bpm) \in CLOCK_TEMPO_MIN .. CLOCK_TEMPO_MAX
  BY ConstrainedType, ClockManagerAssumption DEF Tempo
<1>2. Tempo(bpm) \in Nat \ {0} /\ Tempo(bpm) <= TicksPerMinute
  BY <1>1, ClockManagerAssumption
<1> QED
  BY <1>1, <1>2, DivRange, ClockManagerAssumption DEF TicksPerBeat

LEMMA TapsType ==
  ASSUME NEW mean \in Int, NEW t, t = Constrained(mean, CLOCK_TICKS_MIN, CLOCK_TICKS_MAX)
  PROVE  /\ t \in 1 .. TicksPerMinute
         /\ (TicksPerMinute \div t) % (CLOCK_TEMPO_MAX + 1) \in 0 .. CLOCK_TEMPO_MAX
<1>1. /\ CLOCK_TEMPO_MIN \in Nat \ {0} /\ CLOCK_TEMPO_MIN <= TicksPerMinute
      /\ CLOCK_TEMPO_MAX \in Nat \ {0} /\ CLOCK_TEMPO_MAX <= TicksPerMinute
      /\ CLOCK_TEMPO_MAX + 1 \in Nat \ {0} /\ TicksPerMinute \in Nat \ {0}
  BY ClockManagerAssumption
<1>2. /\ CLOCK_TICKS_MIN \in 1 .. TicksPerMinute
      /\ CLOCK_TICKS_MAX \in 1 .. TicksPerMinute
  BY <1>1, DivRange DEF CLOCK_TICKS_MIN, CLOCK_TICKS_MAX, TicksPerBeat
<1>3. t \in 1 .. TicksPerMinute
  BY <1>1, <1>2 DEF Constrained
<1>4. TicksPerMinute \div t \in Nat
  BY <1>1, <1>3, DivNat
<1> DEFINE q == TicksPerMinute \div t
<1> HIDE DEF q
<1>5. q \in Nat
  BY <1>4 DEF q
<1>6. q % (CLOCK_TEMPO_MAX + 1) \in 0 .. (CLOCK_TEMPO_MAX + 1) - 1
  BY <1>1, <1>5, ModRange
<1> QED
  BY <1>1, <1>3, <1>6 DEF q

LEMMA RanType ==
  ASSUME NEW settings \in [Channels -> CLOCK_MIN_MULTIPLE .. CLOCK_MAX_MULTIPLE],
         NEW tasks \in Seq(Task)
  PROVE  /\ Ran(settings, tasks) \in [Channels -> CLOCK_MIN_MULTIPLE .. CLOCK_MAX_MULTIPLE]
         /\ Ran(settings, tasks)[MIDI_CLOCK] = settings[MIDI_CLOCK]
<1>1. \A i \in DOMAIN tasks : tasks[i] \in Task
  OBVIOUS
<1>2. \A ch \in Channels : (\E i \in DOMAIN tasks : IsLastFor(ch, i, tasks))
        => Multiple(tasks[CHOOSE i \in DOMAIN tasks : IsLastFor(ch, i, tasks)].multiple)
             \in CLOCK_MIN_MULTIPLE .. CLOCK_MAX_MULTIPLE
  BY <1>1, MultipleType DEF Task
<1>3. ~ \E i \in DOMAIN tasks : IsLastFor(MIDI_CLOCK, i, tasks)
  BY <1>1 DEF Task, UserChannels, IsLastFor
<1> QED
  BY <1>2, <1>3, ClockManagerAssumption DEF Ran

\* The ticks of a beat's tocks, from the downbeat to the next.
LEMMA TockTypes ==
  ASSUME TypeOK, NEW ch \in Channels, Multiplies(ch)
  PROVE  /\ \A n \in Nat : TockAt(ch, n) \in Nat
         /\ TockAt(ch, 0) = 0
         /\ TockAt(ch, tocks_per_beat[ch]) = ticks_per_beat
<1> DEFINE t == tocks_per_beat[ch]
<1>1. t \in Nat \ {0} /\ ticks_per_beat \in Nat /\ shuffle \in Nat
  BY ClockManagerAssumption DEF TypeOK, Multiplies
<1>2. ASSUME NEW n \in Nat PROVE TockAt(ch, n) \in Nat
  <2>1. (n * ticks_per_beat) \div t \in Nat
    BY <1>1, n * ticks_per_beat \in Nat, DivNat
  <2>2. ((shuffle * ticks_per_beat) \div 100) \div t \in Nat
    BY <1>1, shuffle * ticks_per_beat \in Nat, DivNat
  <2>3. Swing(ch, n) \in Nat
    BY <2>2 DEF Swing
  <2> QED
    BY <2>1, <2>3 DEF TockAt
<1>3. Swing(ch, 0) = 0 /\ Swing(ch, t) = 0
  BY <1>1 DEF Swing
<1>4. (0 * ticks_per_beat) \div t = 0
  BY <1>1
<1>5. (t * ticks_per_beat) \div t = ticks_per_beat
  BY <1>1, DivExact
<1>6. TockAt(ch, 0) = 0 /\ TockAt(ch, t) = ticks_per_beat
  BY <1>1, <1>3, <1>4, <1>5 DEF TockAt
<1> QED
  BY <1>2, <1>6

LEMMA CountTypes ==
  ASSUME TypeOK, NEW now, NEW ch \in Channels
  PROVE  /\ Counted(ch, now) \in Nat /\ Fires(ch, now) \in BOOLEAN
         /\ CountAfter(ch, now) \in Nat
<1>1. count[ch] \in Nat /\ tocks_per_beat[ch] \in Int
  BY ClockManagerAssumption DEF TypeOK
<1>2. Counted(ch, now) \in Nat
  BY <1>1 DEF Counted
<1>3. Fires(ch, now) \in BOOLEAN
  BY DEF Fires
<1>4. CountAfter(ch, now) \in Nat
  <2>1. Divides(ch) => CountAfter(ch, now) \in Nat
    BY <1>2 DEF CountAfter
  <2>2. ~ Divides(ch) /\ Multiplies(ch) => CountAfter(ch, now) \in Nat
    BY <1>2 DEF CountAfter
  <2>3. ~ Divides(ch) /\ ~ Multiplies(ch) => CountAfter(ch, now) \in Nat
    BY <1>1 DEF CountAfter
  <2> QED
    BY <2>1, <2>2, <2>3
<1> QED
  BY <1>2, <1>3, <1>4

LEMMA HistoryTypes ==
  ASSUME TypeOK, NEW now, Observed(now)
  PROVE  /\ calm' \in 0 .. WidestDivision
         /\ fired' \in [Channels -> Nat]
         /\ since' \in [Channels -> Nat \cup {Unknown}]
<1>1. WidestDivision \in Nat
  BY ClockManagerAssumption DEF WidestDivision
<1>2. calm' \in 0 .. WidestDivision
  BY <1>1 DEF Observed, CalmAfter, TypeOK
<1>3. fired' \in [Channels -> Nat]
  <2>1. \A ch \in Channels : fired[ch] \in Nat
    BY DEF TypeOK
  <2> QED
    BY <2>1 DEF Observed
<1>4. since' \in [Channels -> Nat \cup {Unknown}]
  <2>1. \A ch \in Channels : since[ch] \in Nat \cup {Unknown}
    BY DEF TypeOK
  <2> QED
    BY <2>1 DEF Observed
<1> QED
  BY <1>2, <1>3, <1>4

LEMMA SyncTypes ==
  ASSUME TypeOK, NEW now, SyncTrig(now), now \in 0 .. TickModulus - 1
  PROVE  /\ tock' \in [Channels -> BOOLEAN] /\ count' \in [Channels -> Nat]
         /\ beat_tick' \in 0 .. TickModulus - 1
         /\ tocks_per_beat' \in [Channels -> CLOCK_MIN_MULTIPLE .. CLOCK_MAX_MULTIPLE]
         /\ tocks_per_beat'[MIDI_CLOCK] = MIDI_OUT_PPQN
         /\ syncfn_queue' \in Seq(Task) /\ Len(syncfn_queue') <= MaxQueued
<1>1. tock' \in [Channels -> BOOLEAN] /\ count' \in [Channels -> Nat]
  BY CountTypes DEF SyncTrig
<1>2. /\ tocks_per_beat' \in [Channels -> CLOCK_MIN_MULTIPLE .. CLOCK_MAX_MULTIPLE]
      /\ tocks_per_beat'[MIDI_CLOCK] = MIDI_OUT_PPQN
  BY RanType DEF SyncTrig, TypeOK
<1>3. syncfn_queue' \in Seq(Task) /\ Len(syncfn_queue') <= MaxQueued
  <2>1. CASE syncfn_queue' = <<>>
    BY <2>1, ClockManagerAssumption
  <2>2. CASE syncfn_queue' = syncfn_queue
    BY <2>2 DEF TypeOK
  <2> QED
    BY <2>1, <2>2 DEF SyncTrig
<1> QED
  BY <1>1, <1>2, <1>3 DEF SyncTrig, TypeOK

-----------------------------------------------------------------------------
(***************************************************************************)
(* A tick of a calm beat.                                                  *)
(***************************************************************************)

LEMMA InCalm ==
  ASSUME TypeOK, calm > 0, Calm
  PROVE  LET now == (ticks + 1) % TickModulus
         IN  /\ now = ticks + 1 /\ now # beat_tick
             /\ Resets(now) <=> now = beat_tick + ticks_per_beat
             /\ \A ch \in Channels :
                  /\ Multiplies(ch) =>
                       /\ Due(ch, now) <=> now = beat_tick + TockAt(ch, count[ch])
                       /\ now <= beat_tick + TockAt(ch, count[ch])
                       /\ now = beat_tick + ticks_per_beat
                            => Due(ch, now) /\ count[ch] = tocks_per_beat[ch]
                  /\ Divides(ch) => (Due(ch, now) <=> now = beat_tick + ticks_per_beat)
                  /\ Enabled(ch) => (Exceeded(ch, now) <=> now = beat_tick + ticks_per_beat)
<1> DEFINE now == (ticks + 1) % TickModulus
<1>1. /\ ticks \in Nat /\ beat_tick \in Nat /\ ticks_per_beat \in Nat \ {0}
      /\ TickModulus \in Nat \ {0} /\ MIDI_CLOCK \in Channels
      /\ tocks_per_beat[MIDI_CLOCK] \in Nat \ {0}
  BY ClockManagerAssumption DEF TypeOK
<1>2. /\ beat_tick + ticks_per_beat < TickModulus
      /\ beat_tick <= ticks /\ ticks < beat_tick + ticks_per_beat
  BY DEF Calm, InBeat
<1>3. now = ticks + 1 /\ now # beat_tick /\ now <= beat_tick + ticks_per_beat
  BY <1>1, <1>2
<1> HIDE DEF now
<1>4. ASSUME NEW ch \in Channels, Multiplies(ch)
      PROVE  /\ Due(ch, now) <=> now = beat_tick + TockAt(ch, count[ch])
             /\ now <= beat_tick + TockAt(ch, count[ch])
             /\ now = beat_tick + ticks_per_beat
                  <=> now = beat_tick + TockAt(ch, count[ch])
                        /\ count[ch] = tocks_per_beat[ch]
             /\ Exceeded(ch, now) <=> now = beat_tick + ticks_per_beat
  <2> DEFINE t == tocks_per_beat[ch]
             c == count[ch]
  <2>1. /\ t \in Nat \ {0} /\ c \in 1 .. t /\ ticks < beat_tick + TockAt(ch, c)
    BY <1>1, <1>4, ClockManagerAssumption DEF Calm, OnTime, TypeOK, Multiplies
  <2>2. /\ TockAt(ch, c) \in Nat /\ TockAt(ch, t) = ticks_per_beat
        /\ c < t => TockAt(ch, c) < TockAt(ch, t)
    BY <1>4, <2>1, TockTypes DEF Calm, Spaced
  <2> HIDE DEF t, c
  <2>3. TockAt(ch, c) <= ticks_per_beat
    BY <2>1, <2>2, <1>1
  <2>4. NextTockTick(ch) = beat_tick + TockAt(ch, c)
    <3>1. beat_tick + TockAt(ch, c) \in Nat /\ beat_tick + TockAt(ch, c) < TickModulus
      BY <1>1, <1>2, <2>2, <2>3
    <3> QED
      BY <3>1, <1>1 DEF NextTockTick, c
  <2>5. ~ Divides(ch)
    BY <1>4, <2>1 DEF Divides, t
  <2>6. Due(ch, now) <=> now >= beat_tick + TockAt(ch, c)
    BY <1>4, <2>4, <2>5 DEF Due
  <2>7. Counted(ch, now) > t <=> Due(ch, now) /\ c = t
    BY <2>1 DEF Counted, c
  <2>8. Exceeded(ch, now) <=> Due(ch, now) /\ c = t
    BY <2>5, <2>7 DEF Exceeded, t
  <2> QED
    BY <1>1, <1>3, <2>1, <2>2, <2>3, <2>6, <2>8 DEF c, t
<1>5. ASSUME NEW ch \in Channels, Divides(ch)
      PROVE  /\ Due(ch, now) <=> now = beat_tick + ticks_per_beat
             /\ Exceeded(ch, now) <=> Due(ch, now)
  <2>1. count[ch] >= 1 /\ count[ch] \in Nat
    BY <1>5 DEF Calm, InStep, TypeOK
  <2>2. NextBeat(ch) = beat_tick + ticks_per_beat
    BY <1>1, <1>2, <2>1 DEF NextBeat
  <2>3. ~ Multiplies(ch)
    BY <1>5, ClockManagerAssumption DEF Divides, Multiplies, TypeOK
  <2> QED
    BY <1>1, <1>3, <1>5, <2>2, <2>3 DEF Due, Exceeded
<1>6. /\ \A ch \in Channels :
           Enabled(ch) => (Exceeded(ch, now) <=> now = beat_tick + ticks_per_beat)
      /\ Resets(now) <=> now = beat_tick + ticks_per_beat
  <2>1. ASSUME NEW ch \in Channels
        PROVE  Enabled(ch) <=> Multiplies(ch) \/ Divides(ch)
    BY ClockManagerAssumption DEF Enabled, Multiplies, Divides, TypeOK
  <2>2. Multiplies(MIDI_CLOCK)
    BY <1>1 DEF Multiplies
  <2> QED
    BY <1>1, <1>4, <1>5, <2>1, <2>2 DEF Resets
<1>7. ASSUME NEW ch \in Channels, Multiplies(ch), now = beat_tick + ticks_per_beat
      PROVE  Due(ch, now) /\ count[ch] = tocks_per_beat[ch]
  BY <1>4, <1>7
<1> QED
  BY <1>3, <1>4, <1>5, <1>6, <1>7 DEF now

\* A division fires when it has counted the beats it divides by.
LEMMA FiresIff ==
  ASSUME TypeOK, NEW now, NEW ch \in Channels, Divides(ch), Due(ch, now)
  PROVE  /\ Division(ch) \in Nat /\ Division(ch) >= 2
         /\ Counted(ch, now) = count[ch] + 1
         /\ Fires(ch, now) <=> count[ch] % Division(ch) = 0
<1> DEFINE k == Division(ch)
           c == count[ch]
<1>1. k \in Nat /\ k >= 2 /\ c \in Nat
  BY ClockManagerAssumption DEF TypeOK, Division, Divides
<1>2. Counted(ch, now) = c + 1
  BY DEF Counted
<1>3. Fires(ch, now) <=> (c + 1) % k = 1
  BY <1>2 DEF Fires
<1> HIDE DEF k, c
<1>4. k \in Nat \ {0}
  BY <1>1
<1>5. (c + 1) % k = IF c % k = k - 1 THEN 0 ELSE (c % k) + 1
  BY <1>1, <1>4, ModSucc
<1>6. c % k \in 0 .. k - 1
  BY <1>1, <1>4, ModRange
<1>7. (c + 1) % k = 1 <=> c % k = 0
  BY <1>1, <1>5, <1>6
<1> QED
  BY <1>1, <1>2, <1>3, <1>7 DEF k, c

\* A downbeat begins a calm beat, whatever came before it.
LEMMA BeatBegins ==
  ASSUME IInv, Tick, NEW now, now = (ticks + 1) % TickModulus, IsRunning,
         Resets(now), calm' > 0
  PROVE  Calm'
<1>1. SyncTrig(now) /\ Observed(now) /\ ticks' = now
  BY DEF Tick
<1>2. /\ UNCHANGED <<tempo_vars, shuffle_vars, run_vars>>
      /\ tocks_per_beat' = tocks_per_beat
      /\ now + ticks_per_beat < TickModulus /\ Spaced
      /\ calm' <= calm + 1
  <2>1. CalmAfter(now) > 0
    BY <1>1 DEF Observed
  <2>2. now \in Nat /\ ticks_per_beat \in Nat \ {0} /\ TickModulus \in Nat \ {0} /\ calm \in Nat
    BY ClockManagerAssumption DEF IInv, TypeOK, WidestDivision
  <2>3. UNCHANGED <<tempo_vars, shuffle_vars, run_vars>>
    BY DEF Tick
  <2> QED
    BY <2>1, <2>2, <2>3, <1>1 DEF CalmAfter, Observed
<1>3. /\ beat_tick' = now /\ count' = [ch \in Channels |-> CountAfter(ch, now)]
  BY <1>1 DEF SyncTrig
<1>4. /\ \A ch \in Channels : /\ Multiplies(ch)' <=> Multiplies(ch)
                              /\ Divides(ch)' <=> Divides(ch)
                              /\ Division(ch)' = Division(ch)
                              /\ tocks_per_beat[ch]' = tocks_per_beat[ch]
                              /\ \A n : TockAt(ch, n)' = TockAt(ch, n)
      /\ Spaced' /\ IsRunning'
  BY <1>2 DEF Multiplies, Divides, Division, TockAt, Swing, Spaced, IsRunning,
              tempo_vars, shuffle_vars, run_vars
<1>5. InBeat'
  <2>1. now \in Nat /\ ticks_per_beat \in Nat \ {0} /\ TickModulus \in Nat
    BY ClockManagerAssumption DEF IInv, TypeOK
  <2> QED
    BY <1>1, <1>2, <1>3, <1>4, <2>1 DEF InBeat, tempo_vars
<1>6. ASSUME NEW ch \in Channels, Multiplies(ch)
      PROVE  OnTime(ch)'
  <2>1. tocks_per_beat[ch] \in Nat \ {0} /\ ~ Divides(ch) /\ now \in Nat
    BY <1>6, ClockManagerAssumption DEF IInv, TypeOK, Multiplies, Divides
  <2>2. count'[ch] = 1
    BY <1>3, <1>6, <2>1 DEF CountAfter
  <2>3. fired'[ch] = 0
    BY <1>1 DEF Observed
  <2>4. TockAt(ch, 1) \in Nat /\ 0 < TockAt(ch, 1)
    <3>1. 0 \in 0 .. tocks_per_beat[ch] /\ 1 \in 0 .. tocks_per_beat[ch]
      BY <2>1
    <3>2. TockAt(ch, 0) < TockAt(ch, 1)
      BY <1>2, <1>6, <3>1 DEF Spaced
    <3> QED
      BY <1>6, <3>2, TockTypes DEF IInv
  <2>5. TockAt(ch, count[ch])' = TockAt(ch, 1)
    <3>1. TockAt(ch, count[ch])' = TockAt(ch, 1)'
      BY <2>2 DEF TockAt, Swing
    <3> QED
      BY <3>1, <1>4
  <2> QED
    BY <1>1, <1>3, <1>4, <2>1, <2>2, <2>3, <2>4, <2>5 DEF OnTime
<1>7. ASSUME NEW ch \in Channels, Divides(ch)
      PROVE  InStep(ch)'
  <2> DEFINE k == Division(ch)
             c == count[ch]
  <2>1. Due(ch, now)
    <3>1. Enabled(ch)
      BY <1>7 DEF Enabled, Divides
    <3> QED
      BY <1>7, <3>1 DEF Resets, Exceeded
  <2>2. /\ k \in Nat /\ k >= 2 /\ c \in Nat
        /\ Fires(ch, now) <=> c % k = 0
        /\ count'[ch] = IF Fires(ch, now) THEN 1 ELSE c + 1
    <3>1. /\ k \in Nat /\ k >= 2 /\ Counted(ch, now) = c + 1
          /\ Fires(ch, now) <=> c % k = 0
      BY <1>7, <2>1, FiresIff DEF IInv
    <3>2. c \in Nat
      BY DEF IInv, TypeOK
    <3>3. ~ Multiplies(ch)
      BY <1>7, ClockManagerAssumption DEF IInv, TypeOK, Multiplies, Divides
    <3>4. CountAfter(ch, now) = IF Fires(ch, now) THEN 1 ELSE Counted(ch, now)
      BY <1>7, <3>3 DEF CountAfter
    <3> QED
      BY <1>3, <3>1, <3>2, <3>4
  <2>3. since'[ch] = IF Fires(ch, now) THEN 0
                     ELSE IF since[ch] # Unknown THEN since[ch] + 1 ELSE since[ch]
    BY <1>1, <1>7 DEF Observed
  <2>4. since[ch] \in Nat \cup {Unknown} /\ Unknown \notin Nat
    BY DEF IInv, TypeOK, Unknown
  <2>5. calm > 0 => InStep(ch)
    BY <1>7 DEF IInv, Calm
  <2>6. since[ch] # Unknown => c = since[ch] + 1 /\ since[ch] < k
    BY <2>5 DEF IInv, Heard, InStep
  <2>7. calm \in Nat /\ calm' \in Nat /\ calm' <= calm + 1
    <3>1. calm \in Nat
      BY ClockManagerAssumption DEF IInv, TypeOK, WidestDivision
    <3> QED
      BY <3>1, <1>1, <1>2, HistoryTypes DEF IInv
  <2> HIDE DEF k, c
  <2>8. k % k = 0
    BY <2>2
  <2>9. CASE Fires(ch, now)
    <3>1. count'[ch] = 1 /\ since'[ch] = 0
      BY <2>2, <2>3, <2>9
    <3> QED
      BY <3>1, <2>2, <2>4, <1>4 DEF InStep, k
  <2>10. CASE ~ Fires(ch, now) /\ since[ch] # Unknown
    <3>1. count'[ch] = c + 1 /\ since'[ch] = since[ch] + 1
      BY <2>2, <2>3, <2>10
    <3>2. c = since[ch] + 1 /\ since[ch] < k /\ c # k /\ since[ch] \in Nat
      BY <2>2, <2>4, <2>6, <2>8, <2>10
    <3>3. since'[ch] < k /\ count'[ch] = since'[ch] + 1 /\ count'[ch] >= 1 /\ since'[ch] \in Nat
      BY <3>1, <3>2, <2>2
    <3> QED
      BY <3>3, <2>4, <1>4 DEF InStep, k
  <2>11. CASE ~ Fires(ch, now) /\ since[ch] = Unknown
    <3>1. count'[ch] = c + 1 /\ since'[ch] = Unknown
      BY <2>2, <2>3, <2>11
    <3>2. c % k \in 1 .. k - 1
      BY <2>2, <2>11, ModRange
    <3>3. calm > 0 => c - 1 \in Nat /\ calm <= (c - 1) % k
      BY <2>2, <2>5, <2>11 DEF InStep, k, c
    <3>4. c - 1 \in Nat => c % k = ((c - 1) % k) + 1
      <4>1. SUFFICES ASSUME c - 1 \in Nat
                     PROVE  c % k = ((c - 1) % k) + 1
        OBVIOUS
      <4> DEFINE d == c - 1
      <4>2. d \in Nat /\ k \in Nat \ {0} /\ c = d + 1
        BY <4>1, <2>2
      <4> HIDE DEF d
      <4>3. (d + 1) % k = IF d % k = k - 1 THEN 0 ELSE (d % k) + 1
        BY <4>2, ModSucc
      <4> QED
        BY <4>2, <4>3, <3>2 DEF d
    <3>5. calm' <= c % k
      <4>1. CASE calm = 0
        BY <4>1, <2>7, <3>2
      <4>2. CASE calm > 0
        <5>1. (c - 1) % k \in Nat
          BY <4>2, <2>2, <3>3, ModRange
        <5> QED
          BY <4>2, <5>1, <2>7, <3>3, <3>4
      <4> QED
        BY <4>1, <4>2, <2>7
    <3>6. count'[ch] - 1 = c /\ count'[ch] >= 1
      BY <3>1, <2>2
    <3> QED
      BY <3>1, <3>5, <3>6, <1>4 DEF InStep, k
  <2> QED
    BY <2>9, <2>10, <2>11
<1> QED
  BY <1>4, <1>5, <1>6, <1>7 DEF Calm

\* Between two downbeats a calm beat goes on.
LEMMA BeatGoesOn ==
  ASSUME IInv, Tick, NEW now, now = (ticks + 1) % TickModulus, IsRunning,
         ~ Resets(now), calm' > 0
  PROVE  Calm'
<1>1. SyncTrig(now) /\ Observed(now) /\ ticks' = now
  BY DEF Tick
<1>2. /\ UNCHANGED <<tempo_vars, shuffle_vars, run_vars>>
      /\ tocks_per_beat' = tocks_per_beat /\ calm' = calm /\ calm > 0
      /\ beat_tick' = beat_tick /\ count' = [ch \in Channels |-> CountAfter(ch, now)]
  <2>1. CalmAfter(now) > 0 /\ calm' = CalmAfter(now)
    BY <1>1 DEF Observed
  <2>2. tocks_per_beat' = tocks_per_beat /\ calm' = calm /\ calm > 0
    BY <2>1 DEF CalmAfter
  <2>3. UNCHANGED <<tempo_vars, shuffle_vars, run_vars>>
    BY DEF Tick
  <2> QED
    BY <2>2, <2>3, <1>1 DEF SyncTrig
<1>3. TypeOK /\ Calm
  BY <1>2 DEF IInv
<1>4. /\ \A ch \in Channels : /\ Multiplies(ch)' <=> Multiplies(ch)
                              /\ Divides(ch)' <=> Divides(ch)
                              /\ Division(ch)' = Division(ch)
                              /\ tocks_per_beat[ch]' = tocks_per_beat[ch]
                              /\ \A n : TockAt(ch, n)' = TockAt(ch, n)
      /\ Spaced' /\ IsRunning'
  BY <1>2, <1>3 DEF Multiplies, Divides, Division, TockAt, Swing, Spaced, IsRunning,
              tempo_vars, shuffle_vars, run_vars, Calm
<1>5. now = ticks + 1 /\ now < beat_tick + ticks_per_beat
  <2>1. now = ticks + 1 /\ now # beat_tick + ticks_per_beat
    BY <1>2, <1>3, InCalm
  <2>2. ticks \in Nat /\ beat_tick \in Nat /\ ticks_per_beat \in Nat
    BY ClockManagerAssumption DEF IInv, TypeOK
  <2>3. ticks < beat_tick + ticks_per_beat
    BY <1>3 DEF Calm, InBeat
  <2> QED
    BY <2>1, <2>2, <2>3
<1>6. InBeat'
  <2>1. ticks \in Nat /\ beat_tick \in Nat /\ ticks_per_beat \in Nat /\ TickModulus \in Nat
    BY ClockManagerAssumption DEF IInv, TypeOK
  <2>2. beat_tick + ticks_per_beat < TickModulus /\ beat_tick <= ticks
    BY <1>3 DEF Calm, InBeat
  <2>3. beat_tick' = beat_tick /\ ticks_per_beat' = ticks_per_beat /\ ticks' = ticks + 1
    BY <1>1, <1>2, <1>5 DEF tempo_vars
  <2> QED
    BY <1>4, <1>5, <2>1, <2>2, <2>3 DEF InBeat
<1>7. ASSUME NEW ch \in Channels, Multiplies(ch)
      PROVE  OnTime(ch)'
  <2> DEFINE t == tocks_per_beat[ch]
             c == count[ch]
  <2>1. t \in Nat \ {0} /\ ~ Divides(ch) /\ now \in Nat /\ beat_tick \in Nat
    BY <1>3, <1>5, <1>7, ClockManagerAssumption DEF TypeOK, Multiplies, Divides
  <2>2. /\ Due(ch, now) <=> now = beat_tick + TockAt(ch, c)
        /\ now <= beat_tick + TockAt(ch, c)
    BY <1>2, <1>3, <1>5, <1>7, InCalm
  <2>3. c \in 1 .. t /\ fired[ch] = c - 1
    BY <1>3, <1>7 DEF Calm, OnTime
  <2>4. TockAt(ch, t) = ticks_per_beat /\ \A n \in Nat : TockAt(ch, n) \in Nat
    BY <1>3, <1>7, TockTypes
  <2>5. count'[ch] = IF Due(ch, now) THEN c + 1 ELSE c
    <3>1. CountAfter(ch, now) = Counted(ch, now)
      BY <1>7, <2>1 DEF CountAfter
    <3> QED
      BY <1>2, <3>1 DEF Counted
  <2>6. fired'[ch] = IF Due(ch, now) THEN fired[ch] + 1 ELSE fired[ch]
    <3>1. Fires(ch, now) <=> Due(ch, now)
      BY <2>1 DEF Fires
    <3> QED
      BY <1>1, <3>1 DEF Observed
  <2>7. TockAt(ch, count[ch])' = TockAt(ch, count'[ch])
    <3>1. TockAt(ch, count[ch])' = (count'[ch] * ticks_per_beat') \div tocks_per_beat'[ch]
                                    + Swing(ch, count[ch])'
      BY DEF TockAt
    <3>2. Swing(ch, count[ch])' = Swing(ch, count'[ch])
      BY <1>2 DEF Swing, tempo_vars, shuffle_vars
    <3> QED
      BY <1>2, <3>1, <3>2 DEF TockAt, tempo_vars
  <2> HIDE DEF t, c
  <2>8. CASE Due(ch, now)
    <3>1. now = beat_tick + TockAt(ch, c) /\ count'[ch] = c + 1 /\ fired'[ch] = c
      BY <2>2, <2>3, <2>5, <2>6, <2>8
    <3>2. c # t
      BY <1>5, <2>1, <2>4, <3>1
    <3>3. c \in 0 .. t /\ c + 1 \in 0 .. t /\ c < c + 1
      BY <2>1, <2>3, <3>2
    <3>4. TockAt(ch, c) < TockAt(ch, c + 1)
      BY <1>3, <1>7, <3>3 DEF Calm, Spaced, t
    <3>5. TockAt(ch, c) \in Nat /\ TockAt(ch, c + 1) \in Nat
      BY <2>1, <2>3, <2>4
    <3>6. now < beat_tick + TockAt(ch, c + 1)
      BY <2>1, <3>1, <3>4, <3>5
    <3>7. count'[ch] \in 1 .. t /\ fired'[ch] = count'[ch] - 1
      BY <2>1, <3>1, <3>3
    <3> QED
      BY <1>1, <1>2, <1>4, <2>7, <3>1, <3>6, <3>7 DEF OnTime, t
  <2>9. CASE ~ Due(ch, now)
    <3>1. now < beat_tick + TockAt(ch, c)
      <4>1. TockAt(ch, c) \in Nat
        BY <2>1, <2>3, <2>4
      <4> QED
        BY <2>1, <2>2, <2>9, <4>1
    <3>2. count'[ch] = c /\ fired'[ch] = c - 1
      BY <2>3, <2>5, <2>6, <2>9
    <3> QED
      BY <1>1, <1>2, <1>4, <2>3, <2>7, <3>1, <3>2 DEF OnTime, t
  <2> QED
    BY <2>8, <2>9
<1>8. ASSUME NEW ch \in Channels, Divides(ch)
      PROVE  InStep(ch)'
  <2>1. ~ Due(ch, now)
    <3>1. Due(ch, now) <=> now = beat_tick + ticks_per_beat
      BY <1>2, <1>3, <1>8, InCalm
    <3>2. now \in Nat /\ beat_tick \in Nat /\ ticks_per_beat \in Nat
      BY <1>3, <1>5, ClockManagerAssumption DEF TypeOK
    <3> QED
      BY <1>5, <3>1, <3>2
  <2>2. ~ Fires(ch, now) /\ Counted(ch, now) = count[ch]
    BY <2>1 DEF Fires, Counted
  <2>3. count'[ch] = count[ch]
    BY <1>2, <1>8, <2>2 DEF CountAfter
  <2>4. since'[ch] = since[ch]
    BY <1>1, <1>8, <2>2 DEF Observed
  <2>5. InStep(ch)
    BY <1>3, <1>8 DEF Calm
  <2> QED
    BY <1>2, <1>4, <2>3, <2>4, <2>5 DEF InStep
<1> QED
  BY <1>4, <1>6, <1>7, <1>8 DEF Calm

-----------------------------------------------------------------------------
(***************************************************************************)
(* The inductive invariant.                                                *)
(***************************************************************************)

LEMMA InitInductive == Init => IInv
<1> SUFFICES ASSUME Init PROVE IInv
  OBVIOUS
<1>1. /\ 120 \in Int /\ WidestDivision \in Nat
      /\ MIDI_OUT_PPQN \in CLOCK_MIN_MULTIPLE .. CLOCK_MAX_MULTIPLE
      /\ 0 \in CLOCK_MIN_MULTIPLE .. CLOCK_MAX_MULTIPLE
  BY ClockManagerAssumption DEF WidestDivision
<1>2. /\ tempo_setting \in CLOCK_TEMPO_MIN .. CLOCK_TEMPO_MAX
      /\ tempo_setting \in 0 .. CLOCK_TEMPO_MAX
      /\ ticks_per_beat \in 1 .. TicksPerMinute
  BY <1>1, TempoType, ClockManagerAssumption DEF Init
<1>3. /\ tocks_per_beat \in [Channels -> CLOCK_MIN_MULTIPLE .. CLOCK_MAX_MULTIPLE]
      /\ tocks_per_beat[MIDI_CLOCK] = MIDI_OUT_PPQN
  BY <1>1, ClockManagerAssumption DEF Init
<1>4. TypeOK
  <2>1. /\ 0 \in 0 .. TickModulus - 1 /\ 0 \in 0 .. MaxCalls /\ 0 \in 0 .. WidestDivision
        /\ <<>> \in Seq(Task) /\ Len(<<>>) <= MaxQueued
    BY <1>1, ClockManagerAssumption
  <2>2. /\ count \in [Channels -> Nat] /\ tock \in [Channels -> BOOLEAN]
        /\ fired \in [Channels -> Nat] /\ since \in [Channels -> Nat \cup {Unknown}]
    BY DEF Init
  <2>3. /\ ticks \in 0 .. TickModulus - 1 /\ beat_tick \in 0 .. TickModulus - 1
        /\ shuffle_setting \in 0 .. 99 /\ shuffle \in 0 .. 99
        /\ calls \in 0 .. MaxCalls /\ calm \in 0 .. WidestDivision
    BY <2>1 DEF Init
  <2>4. syncfn_queue \in Seq(Task) /\ Len(syncfn_queue) <= MaxQueued
    BY <2>1 DEF Init
  <2>5. running \in BOOLEAN /\ paused \in BOOLEAN
    BY DEF Init
  <2> QED
    BY <1>2, <1>3, <2>2, <2>3, <2>4, <2>5 DEF TypeOK
<1>5. Heard
  BY DEF Init, Heard
<1> QED
  BY <1>4, <1>5 DEF IInv, Init

LEMMA DisturbedTypes ==
  ASSUME Disturbed
  PROVE  /\ calm' = 0 /\ calm' \in 0 .. WidestDivision /\ Heard'
         /\ fired' \in [Channels -> Nat] /\ since' \in [Channels -> Nat \cup {Unknown}]
<1>1. calm' = 0 /\ 0 \in 0 .. WidestDivision
  BY ClockManagerAssumption DEF Disturbed, WidestDivision
<1> QED
  BY <1>1 DEF Disturbed, Heard

\* A user's call disturbs the beat, or only waits for the next.
LEMMA CallInductive ==
  ASSUME IInv, calls < MaxCalls, calls' = calls + 1, Call
  PROVE  IInv'
<1>1. calls' \in 0 .. MaxCalls /\ TypeOK
  BY ClockManagerAssumption DEF IInv, TypeOK
<1>2. ASSUME NEW ch \in UserChannels, NEW m \in Multiples[ch], SetMultiply(ch, m)
      PROVE  IInv'
  <2>1. m \in Int /\ ch \in Channels /\ ch # MIDI_CLOCK
    BY ClockManagerAssumption DEF UserChannels
  <2>2. Multiple(m) \in CLOCK_MIN_MULTIPLE .. CLOCK_MAX_MULTIPLE
    BY <2>1, MultipleType
  <2>3. /\ tocks_per_beat' \in [Channels -> CLOCK_MIN_MULTIPLE .. CLOCK_MAX_MULTIPLE]
        /\ tocks_per_beat'[MIDI_CLOCK] = MIDI_OUT_PPQN
    BY <1>1, <1>2, <2>1, <2>2, ClockManagerAssumption DEF SetMultiply, TypeOK
  <2>4. Disturbed
    BY <1>2 DEF SetMultiply
  <2> QED
    BY <1>1, <1>2, <2>3, <2>4, DisturbedTypes
    DEF SetMultiply, TypeOK, IInv, tempo_vars, shuffle_vars, run_vars, beat_vars
<1>3. ASSUME NEW ch \in UserChannels, NEW m \in Multiples[ch],
             BeatSync([ch |-> ch, multiple |-> m])
      PROVE  IInv'
  <2>1. [ch |-> ch, multiple |-> m] \in Task
    BY ClockManagerAssumption DEF Task
  <2>2. syncfn_queue' \in Seq(Task) /\ Len(syncfn_queue') <= MaxQueued
    BY <1>1, <1>3, <2>1, ClockManagerAssumption DEF BeatSync, TypeOK
  <2>3. UNCHANGED <<ticks, setting_vars, run_vars, beat_vars, history_vars>>
    BY <1>3 DEF BeatSync
  <2>4. TypeOK'
    BY <1>1, <2>2, <2>3 DEF TypeOK, setting_vars, tempo_vars, shuffle_vars, run_vars,
                            beat_vars, history_vars
  <2>5. Heard' /\ (calm' > 0 => Calm')
    BY <2>3 DEF IInv, Heard, Calm, InBeat, Spaced, OnTime, InStep, Multiplies, Divides,
                Division, TockAt, Swing, IsRunning, setting_vars, tempo_vars,
                shuffle_vars, run_vars, beat_vars, history_vars
  <2> QED
    BY <2>4, <2>5 DEF IInv
<1>4. ASSUME NEW bpm \in Tempos, SetTempoBPM(bpm)
      PROVE  IInv'
  <2> bpm \in Int
    BY ClockManagerAssumption
  <2>1. /\ tempo_setting' \in 0 .. CLOCK_TEMPO_MAX
        /\ ticks_per_beat' \in 1 .. TicksPerMinute
    <3>1. /\ tempo_setting' \in CLOCK_TEMPO_MIN .. CLOCK_TEMPO_MAX
          /\ ticks_per_beat' \in 1 .. TicksPerMinute
      BY <1>4, TempoType DEF SetTempoBPM
    <3> QED
      BY <3>1, ClockManagerAssumption
  <2>2. Disturbed
    BY <1>4 DEF SetTempoBPM
  <2> QED
    BY <1>1, <1>4, <2>1, <2>2, DisturbedTypes
    DEF SetTempoBPM, TypeOK, IInv, shuffle_vars, run_vars, beat_vars
<1>5. ASSUME NEW sh \in Shuffles, SetShuffle(sh)
      PROVE  IInv'
  <2> sh \in Int
    BY ClockManagerAssumption
  <2>1. shuffle_setting' \in 0 .. 99 /\ shuffle' \in 0 .. 99
    <3>1. Constrained(sh, 0, 99) \in 0 .. 99
      BY ShuffleType
    <3> QED
      BY <1>5, <3>1 DEF SetShuffle
  <2>2. Disturbed
    BY <1>5 DEF SetShuffle
  <2> QED
    BY <1>1, <1>5, <2>1, <2>2, DisturbedTypes
    DEF SetShuffle, TypeOK, IInv, tempo_vars, run_vars, beat_vars
<1>6. ASSUME NEW d \in Modulations, Modulate(d[1], d[2])
      PROVE  IInv'
  <2>1. d[1] \in Int /\ d[2] \in Int
    BY ClockManagerAssumption
  <2> DEFINE a == shuffle_setting + d[2]
             b == tempo_setting + d[1]
  <2>2. a \in Int /\ b \in Int
    <3>1. shuffle_setting \in Int /\ tempo_setting \in Int
      BY <1>1, ClockManagerAssumption DEF TypeOK
    <3> HIDE DEF IInv
    <3> QED
      BY <2>1, <3>1
  <2>3. shuffle' \in 0 .. 99 /\ ticks_per_beat' \in 1 .. TicksPerMinute
    <3>1. shuffle' = Constrained(a, 0, 99) /\ ticks_per_beat' = TicksPerBeat(Tempo(b))
      BY <1>6 DEF Modulate
    <3> HIDE DEF a, b
    <3> QED
      BY <2>2, <3>1, ShuffleType, TempoType
  <2>4. Disturbed
    BY <1>6 DEF Modulate
  <2>5. calm' = 0 /\ Heard'
    BY <2>4, DisturbedTypes
  <2>6. TypeOK'
    BY <1>1, <1>6, <2>3, <2>4, DisturbedTypes DEF Modulate, TypeOK, run_vars, beat_vars
  <2> QED
    BY <2>5, <2>6 DEF IInv
<1>7. ASSUME NEW p \in BOOLEAN, Start(p)
      PROVE  IInv'
  <2>1. Disturbed
    BY <1>7 DEF Start, Reset
  <2> QED
    BY <1>1, <1>7, <2>1, DisturbedTypes
    DEF Start, Reset, TypeOK, IInv, setting_vars, tempo_vars, shuffle_vars
<1>8. CASE Stop
  <2>1. Disturbed
    BY <1>8 DEF Stop
  <2>2. calm' = 0 /\ Heard'
    BY <2>1, DisturbedTypes
  <2>3. TypeOK'
    BY <1>1, <1>8, <2>1, DisturbedTypes
    DEF Stop, TypeOK, setting_vars, tempo_vars, shuffle_vars, beat_vars
  <2> QED
    BY <2>2, <2>3 DEF IInv
<1>9. CASE Pause
  <2>1. Disturbed
    BY <1>9 DEF Pause
  <2> QED
    BY <1>1, <1>9, <2>1, DisturbedTypes
    DEF Pause, TypeOK, IInv, setting_vars, tempo_vars, shuffle_vars, beat_vars
<1>10. ASSUME NEW mean \in Taps, SetTempoFromTaps(mean)
       PROVE  IInv'
  <2> mean \in Int
    BY ClockManagerAssumption
  <2>1. /\ tempo_setting' \in 0 .. CLOCK_TEMPO_MAX
        /\ ticks_per_beat' \in 1 .. TicksPerMinute
    BY <1>10, TapsType DEF SetTempoFromTaps
  <2>2. Disturbed
    BY <1>10 DEF SetTempoFromTaps
  <2> QED
    BY <1>1, <1>10, <2>1, <2>2, DisturbedTypes
    DEF SetTempoFromTaps, TypeOK, IInv, shuffle_vars, run_vars, beat_vars
<1>11. CASE Reset /\ UNCHANGED run_vars
  <2>1. Disturbed
    BY <1>11 DEF Reset
  <2> QED
    BY <1>1, <1>11, <2>1, DisturbedTypes
    DEF Reset, TypeOK, IInv, setting_vars, tempo_vars, shuffle_vars, run_vars
<1> QED
  BY <1>2, <1>3, <1>4, <1>5, <1>6, <1>7, <1>8, <1>9, <1>10, <1>11 DEF Call

LEMMA TickInductive ==
  ASSUME IInv, Tick, UNCHANGED calls
  PROVE  IInv'
<1> DEFINE now == (ticks + 1) % TickModulus
<1>1. now \in 0 .. TickModulus - 1 /\ TypeOK
  <2>1. ticks + 1 \in Nat /\ TickModulus \in Nat \ {0}
    BY ClockManagerAssumption DEF IInv, TypeOK
  <2> QED
    BY <2>1, ModRange DEF IInv
<1> HIDE DEF now
<1>2. ticks' = now /\ UNCHANGED <<tempo_vars, shuffle_vars, run_vars>>
  BY DEF Tick, now
<1>3. CASE IsRunning
  <2>1. SyncTrig(now) /\ Observed(now)
    BY <1>3 DEF Tick, now
  <2>2. TypeOK'
    BY <1>1, <1>2, <2>1, SyncTypes, HistoryTypes
    DEF TypeOK, tempo_vars, shuffle_vars, run_vars
  <2>3. Heard'
    <3>1. \A ch \in Channels : since'[ch] # Unknown => calm' # 0
      BY <2>1 DEF Observed
    <3>2. calm' \in Nat
      BY <2>2, ClockManagerAssumption DEF TypeOK, WidestDivision
    <3> QED
      BY <3>1, <3>2 DEF Heard
  <2>4. ASSUME calm' > 0 PROVE Calm'
    BY <1>3, <2>4, BeatBegins, BeatGoesOn DEF now
  <2> QED
    BY <2>2, <2>3, <2>4 DEF IInv
<1>4. CASE ~ IsRunning
  <2>1. UNCHANGED <<tocks_per_beat, beat_vars, syncfn_queue, history_vars>>
    BY <1>4 DEF Tick
  <2>2. TypeOK'
    BY <1>1, <1>2, <2>1 DEF TypeOK, tempo_vars, shuffle_vars, run_vars, beat_vars, history_vars
  <2>3. Heard' /\ calm' = calm
    BY <2>1 DEF IInv, Heard, history_vars
  <2>4. ~ (calm > 0)
    BY <1>4 DEF IInv, Calm, InBeat
  <2> QED
    BY <2>2, <2>3, <2>4 DEF IInv
<1> QED
  BY <1>3, <1>4

LEMMA StutterInductive ==
  ASSUME IInv, UNCHANGED vars
  PROVE  IInv'
<1>1. TypeOK'
  BY DEF IInv, vars, TypeOK, setting_vars, tempo_vars, shuffle_vars, run_vars,
         beat_vars, history_vars
<1>2. Heard' /\ (calm' > 0 => Calm')
  BY DEF IInv, vars, Heard, Calm, InBeat, Spaced, OnTime, InStep, Multiplies, Divides,
         Division, TockAt, Swing, IsRunning, setting_vars, tempo_vars,
         shuffle_vars, run_vars, beat_vars, history_vars
<1> QED
  BY <1>1, <1>2 DEF IInv

LEMMA Inductive == Spec => []IInv
<1>1. IInv /\ [Next]_vars => IInv'
  BY CallInductive, TickInductive, StutterInductive DEF Next
<1> QED
  BY InitInductive, <1>1, PTL DEF Spec

-----------------------------------------------------------------------------
(***************************************************************************)
(* Theorems.                                                               *)
(***************************************************************************)

\* Every setting stays in its range, whatever a user asks for: a multiple fits
\* in its int8_t, ticks_per_beat is never 0, and only users' channels change.
THEOREM TypeCorrect == Spec => []TypeOK
BY Inductive, PTL DEF IInv

\* The ticks that SyncTrig sees: only the inner tick moves the counter.
LEMMA TickOnly ==
  ASSUME IInv, [Next]_vars, ticks' # ticks, calm > 0
  PROVE  LET now == (ticks + 1) % TickModulus
         IN  /\ SyncTrig(now) /\ IsRunning /\ ticks' = now /\ TypeOK /\ Calm
             /\ UNCHANGED <<tempo_vars, shuffle_vars>>
<1>2. ~ UNCHANGED vars
  BY DEF vars
<1>3. ~ Call
  <2>1. Call => ticks' = ticks
    BY DEF Call, SetMultiply, BeatSync, SetTempoBPM, SetTempoFromTaps,
           SetShuffle, Modulate, Reset, Start, Stop, Pause
  <2> QED
    BY <2>1
<1>4. Tick /\ TypeOK /\ Calm
  BY <1>2, <1>3 DEF Next, IInv
<1>5. IsRunning
  BY <1>4 DEF Calm, InBeat
<1> QED
  BY <1>4, <1>5 DEF Tick

\* The downbeat of a calm beat is on the tick the tempo puts it.
LEMMA OnTheBeat ==
  ASSUME IInv, [Next]_vars, ticks' # ticks, calm > 0
  PROVE  /\ Downbeat <=> Resets((ticks + 1) % TickModulus)
         /\ Downbeat <=> ticks' = beat_tick + ticks_per_beat
<1> DEFINE now == (ticks + 1) % TickModulus
<1>1. SyncTrig(now) /\ ticks' = now /\ TypeOK /\ Calm
  BY TickOnly
<1>2. now # beat_tick /\ (Resets(now) <=> now = beat_tick + ticks_per_beat)
  BY <1>1, InCalm
<1> HIDE DEF now
<1>3. Downbeat <=> Resets(now)
  BY <1>1, <1>2 DEF Downbeat, SyncTrig
<1> QED
  BY <1>1, <1>2, <1>3 DEF now

\* A calm beat is ticks_per_beat long, for every tempo, whatever the channels'
\* multiples are and whatever was called before it.
THEOREM TempoKept == Spec => BeatsKeepTempo
<1>1. ASSUME IInv, [Next]_vars
      PROVE  calm > 0 /\ IsRunning /\ ticks' # ticks
               => (Downbeat <=> ticks' = beat_tick + ticks_per_beat)
  BY <1>1, OnTheBeat
<1> QED
  BY <1>1, Inductive, PTL DEF Spec, BeatsKeepTempo

\* No tock of a calm beat is lost or doubled: a multiplying channel fires as
\* often as it multiplies by, and last on the downbeat.
THEOREM TocksFilled == Spec => TocksFillBeat
<1>1. ASSUME IInv, [Next]_vars, calm > 0, Downbeat, NEW ch \in Channels, Multiplies(ch)
      PROVE  tock'[ch] /\ fired[ch] = tocks_per_beat[ch] - 1
  <2> DEFINE now == (ticks + 1) % TickModulus
  <2>1. ticks' # ticks
    BY <1>1 DEF Downbeat
  <2>2. SyncTrig(now) /\ ticks' = now /\ TypeOK /\ Calm
    BY <1>1, <2>1, TickOnly
  <2>3. now = beat_tick + ticks_per_beat
    BY <1>1, <2>1, <2>2, OnTheBeat
  <2>4. Due(ch, now) /\ count[ch] = tocks_per_beat[ch]
    BY <1>1, <2>2, <2>3, InCalm
  <2> HIDE DEF now
  <2>5. ~ Divides(ch)
    BY <1>1, <2>2, ClockManagerAssumption DEF Multiplies, Divides, TypeOK
  <2>6. Fires(ch, now) /\ fired[ch] = count[ch] - 1
    BY <1>1, <2>2, <2>4, <2>5 DEF Fires, Calm, OnTime
  <2>7. tock'[ch] = Fires(ch, now)
    BY <2>2 DEF SyncTrig
  <2> QED
    BY <2>4, <2>6, <2>7
<1>2. ASSUME IInv, [Next]_vars
      PROVE  calm > 0 /\ Downbeat
               => \A ch \in Channels : Multiplies(ch)
                    => tock'[ch] /\ fired[ch] = tocks_per_beat[ch] - 1
  BY <1>1, <1>2
<1> QED
  BY <1>2, Inductive, PTL DEF Spec, TocksFillBeat

\* A dividing channel fires on a downbeat and exactly as many beats after its
\* last tock as it divides by.
THEOREM DivisionsKept == Spec => DivisionsExact
<1>1. ASSUME IInv, [Next]_vars, calm > 0, ticks' # ticks, NEW ch \in Channels,
             Divides(ch), tock'[ch]
      PROVE  Downbeat /\ since[ch] \in {Unknown, Division(ch) - 1}
  <2> DEFINE now == (ticks + 1) % TickModulus
             k == Division(ch)
             c == count[ch]
  <2>1. SyncTrig(now) /\ ticks' = now /\ TypeOK /\ Calm
    BY <1>1, TickOnly
  <2>2. Due(ch, now) <=> now = beat_tick + ticks_per_beat
    BY <1>1, <2>1, InCalm
  <2>3. Downbeat <=> ticks' = beat_tick + ticks_per_beat
    BY <1>1, OnTheBeat
  <2> HIDE DEF now
  <2>4. Fires(ch, now) /\ Due(ch, now)
    BY <1>1, <2>1 DEF SyncTrig, Fires
  <2>5. k \in Nat /\ k >= 2 /\ c % k = 0
    BY <1>1, <2>1, <2>4, FiresIff
  <2>6. since[ch] # Unknown => since[ch] < k /\ c = since[ch] + 1 /\ since[ch] \in Nat
    BY <1>1, <2>1 DEF Calm, InStep, TypeOK
  <2> HIDE DEF k, c
  <2>7. since[ch] # Unknown => since[ch] = k - 1
    <3>1. SUFFICES ASSUME since[ch] # Unknown
                   PROVE  since[ch] = k - 1
      OBVIOUS
    <3>2. c \in 1 .. k
      BY <2>5, <2>6, <3>1
    <3>3. c # k => c % k = c
      BY <2>5, <3>2
    <3> QED
      BY <2>5, <2>6, <3>1, <3>2, <3>3
  <2> QED
    BY <2>1, <2>2, <2>3, <2>4, <2>7 DEF k
<1>2. ASSUME IInv, [Next]_vars
      PROVE  calm > 0 /\ ticks' # ticks
               => \A ch \in Channels : Divides(ch) /\ IsRunning /\ tock'[ch]
                    => Downbeat /\ since[ch] \in {Unknown, Division(ch) - 1}
  BY <1>1, <1>2
<1> QED
  BY <1>2, Inductive, PTL DEF Spec, DivisionsExact

\* A division is heard once in as many beats as it divides by, whatever count
\* the setting before it left.
THEOREM DivisionsHeard == Spec => []DivisionsFound
<1>1. IInv => DivisionsFound
  <2>1. SUFFICES ASSUME IInv, NEW ch \in Channels, Divides(ch)
                 PROVE  /\ since[ch] < Division(ch)
                        /\ calm >= Division(ch) => since[ch] # Unknown
    BY DEF DivisionsFound
  <2>2. Division(ch) \in Nat /\ Division(ch) >= 2 /\ count[ch] \in Nat /\ calm \in Nat
    BY <2>1, ClockManagerAssumption DEF IInv, TypeOK, Division, Divides, WidestDivision
  <2>3. since[ch] # Unknown => since[ch] < Division(ch)
    BY <2>1 DEF IInv, Heard, Calm, InStep
  <2>4. since[ch] = Unknown => since[ch] < Division(ch)
    BY <2>2 DEF Unknown
  <2>5. ASSUME calm >= Division(ch) PROVE since[ch] # Unknown
    <3>1. InStep(ch)
      BY <2>1, <2>2, <2>5 DEF IInv, Calm
    <3>2. (count[ch] - 1) % Division(ch) \in 0 .. Division(ch) - 1
      <4> DEFINE d == count[ch] - 1
                 k == Division(ch)
      <4>1. d \in Nat /\ k \in Nat \ {0}
        BY <2>2, <3>1 DEF InStep
      <4> HIDE DEF d, k
      <4>2. d % k \in 0 .. k - 1
        BY <4>1, ModRange
      <4> QED
        BY <4>2 DEF d, k
    <3> QED
      BY <2>2, <2>5, <3>1, <3>2 DEF InStep
  <2> QED
    BY <2>3, <2>4, <2>5
<1> QED
  BY <1>1, Inductive, PTL

\* The queued functions of a calm beat run on its downbeat.
THEOREM SyncsHeld == Spec => SyncsOnDownbeat
<1>1. ASSUME IInv, [Next]_vars, calm > 0, syncfn_queue # <<>>, syncfn_queue' = <<>>
      PROVE  Downbeat
  <2> DEFINE now == (ticks + 1) % TickModulus
  <2>1. ~ UNCHANGED vars
    BY <1>1 DEF vars
  <2>2. ~ Call
    <3>1. \A task : ~ BeatSync(task)
      <4>1. SUFFICES ASSUME NEW task, BeatSync(task) PROVE FALSE
        OBVIOUS
      <4>2. syncfn_queue \in Seq(Task) /\ syncfn_queue' = Append(syncfn_queue, task)
        BY <1>1, <4>1 DEF BeatSync, IInv, TypeOK
      <4>3. Len(syncfn_queue') = Len(syncfn_queue) + 1 /\ Len(syncfn_queue) \in Nat
        BY <4>2
      <4> QED
        BY <1>1, <4>3
    <3>2. Call => syncfn_queue' = syncfn_queue
      BY <3>1 DEF Call, SetMultiply, SetTempoBPM, SetTempoFromTaps,
           SetShuffle, Modulate, Reset, Start, Stop, Pause
    <3> QED
      BY <1>1, <3>2
  <2>3. Tick /\ TypeOK /\ Calm
    BY <1>1, <2>1, <2>2 DEF Next, IInv
  <2>4. SyncTrig(now) /\ ticks' = now
    BY <2>3 DEF Tick, Calm, InBeat
  <2>5. Syncs(now)
    BY <1>1, <2>4 DEF SyncTrig
  <2>6. now = ticks + 1 /\ now # beat_tick
    BY <1>1, <2>3, InCalm
  <2>7. ticks' # ticks
    <3>1. ticks \in Nat
      BY <2>3, ClockManagerAssumption DEF TypeOK
    <3> QED
      BY <2>4, <2>6, <3>1
  <2>8. PICK ch \in Channels :
          /\ Enabled(ch)
          /\ \/ Exceeded(ch, now)
             \/ Multiplies(ch) /\ Due(ch, now) /\ Counted(ch, now) = 1
    BY <2>5 DEF Syncs
  <2>9. Exceeded(ch, now)
    <3>1. SUFFICES ASSUME Multiplies(ch), Due(ch, now), Counted(ch, now) = 1
                   PROVE  FALSE
      BY <2>8
    <3>2. count[ch] \in Nat /\ count[ch] >= 1
      BY <2>3, <3>1 DEF Calm, OnTime, TypeOK
    <3> QED
      BY <3>1, <3>2 DEF Counted
  <2>10. now = beat_tick + ticks_per_beat
    BY <1>1, <2>3, <2>8, <2>9, InCalm
  <2> QED
    BY <1>1, <2>4, <2>7, <2>10, OnTheBeat
<1>2. ASSUME IInv, [Next]_vars
      PROVE  calm > 0 /\ syncfn_queue # <<>> /\ syncfn_queue' = <<>> => Downbeat
  BY <1>1, <1>2
<1> QED
  BY <1>2, Inductive, PTL DEF Spec, SyncsOnDownbeat
================================================================================
