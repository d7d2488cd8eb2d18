---------------------------- MODULE ClockManager ----------------------------
(***************************************************************************)
(* The internal clock that the applets of a plug-in share                  *)
(* (shim/include/HSClockManager.h), advanced once per inner tick.          *)
(*                                                                         *)
(* The shim only ever calls SyncTrig(false): its half that follows an      *)
(* external clock, and extsync, tickno, clock_tick, Nudge and              *)
(* SetClockPPQN with it, is never reached.  Left out: cycle and            *)
(* beat_count, which are displayed, boop, and the MIDI real-time messages. *)
(***************************************************************************)
EXTENDS Integers, Sequences

CONSTANTS
  Channels,            \* ClockOutput
  MIDI_CLOCK,          \* the channel of the MIDI clock
  MIDI_OUT_PPQN,       \* 24
  CLOCK_MIN_MULTIPLE,  \* -31: a division by 32
  CLOCK_MAX_MULTIPLE,  \* 24
  TicksPerMinute,      \* 1000000
  CLOCK_TEMPO_MIN, CLOCK_TEMPO_MAX,
  TickModulus,         \* 2^32
  \* what the callers ask for
  Multiples,           \* per channel
  Tempos, Taps, Shuffles, Modulations,
  MaxQueued,           \* bound: functions waiting for a beat
  MaxCalls             \* bound: calls of the users

UserChannels == Channels \ {MIDI_CLOCK}

ASSUME ClockManagerAssumption ==
  /\ MIDI_CLOCK \in Channels
  /\ CLOCK_MAX_MULTIPLE \in Nat \ {0}
  /\ CLOCK_MIN_MULTIPLE \in Int /\ CLOCK_MIN_MULTIPLE < 0
  /\ MIDI_OUT_PPQN \in 1 .. CLOCK_MAX_MULTIPLE
  /\ TicksPerMinute \in Nat \ {0}
  /\ CLOCK_TEMPO_MIN \in Nat \ {0} /\ CLOCK_TEMPO_MAX \in Nat
  /\ CLOCK_TEMPO_MIN <= CLOCK_TEMPO_MAX /\ CLOCK_TEMPO_MAX <= TicksPerMinute
  /\ TickModulus \in Nat \ {0}
  /\ Multiples \in [UserChannels -> SUBSET Int]
  /\ Tempos \subseteq Nat /\ Taps \subseteq Nat /\ Shuffles \subseteq Int
  /\ Modulations \subseteq Int \X Int
  /\ MaxQueued \in Nat /\ MaxCalls \in Nat

VARIABLES
  ticks,          \* OC::CORE::ticks
  tocks_per_beat, \* per channel: multiplies above 0, divides below, 0 is off
  count,          \* per channel: tocks, or beats of a division
  tock,           \* per channel: what Tock answers
  beat_tick,
  tempo_setting,
  ticks_per_beat,
  shuffle_setting, shuffle,
  running, paused,
  syncfn_queue,   \* functions waiting for a beat: they set multipliers
  calls,          \* of the users, for the bound
  \* history
  calm,           \* downbeats since a setting was changed, up to the widest division
  fired,          \* per channel: tocks after the downbeat of a calm beat
  since           \* per channel: calm beats since its last tock, or Unknown

tempo_vars == <<tempo_setting, ticks_per_beat>>
shuffle_vars == <<shuffle_setting, shuffle>>
setting_vars == <<tocks_per_beat, tempo_vars, shuffle_vars>>
run_vars == <<running, paused>>
beat_vars == <<count, tock, beat_tick>>
history_vars == <<calm, fired, since>>
vars == <<ticks, setting_vars, run_vars, beat_vars, syncfn_queue, calls, history_vars>>

Unknown == -1

-----------------------------------------------------------------------------
(***************************************************************************)
(* Settings.                                                               *)
(***************************************************************************)

Constrained(x, lo, hi) == IF x < lo THEN lo ELSE IF x > hi THEN hi ELSE x

\* Mutant: int8_t tocks_per_beat takes the multiple as it comes.
MultipleAsAsked(m) == m

Multiple(m) == Constrained(m, CLOCK_MIN_MULTIPLE, CLOCK_MAX_MULTIPLE)
Tempo(bpm) == Constrained(bpm, CLOCK_TEMPO_MIN, CLOCK_TEMPO_MAX)
TicksPerBeat(bpm) == TicksPerMinute \div bpm
CLOCK_TICKS_MIN == TicksPerBeat(CLOCK_TEMPO_MAX)
CLOCK_TICKS_MAX == TicksPerBeat(CLOCK_TEMPO_MIN)

Task == [ch : UserChannels, multiple : Int]

\* SetMultiply of each queued function in turn: the last for a channel stays.
IsLastFor(ch, i, tasks) ==
  /\ tasks[i].ch = ch
  /\ \A j \in DOMAIN tasks : tasks[j].ch = ch => j <= i
Ran(settings, tasks) ==
  [ch \in Channels |->
     IF \E i \in DOMAIN tasks : IsLastFor(ch, i, tasks)
     THEN Multiple(tasks[CHOOSE i \in DOMAIN tasks : IsLastFor(ch, i, tasks)].multiple)
     ELSE settings[ch]]

IsRunning == running /\ ~paused

\* From here on the beat is not one that all settings stood for.
Disturbed ==
  /\ calm' = 0
  /\ fired' = [ch \in Channels |-> 0]
  /\ since' = [ch \in Channels |-> Unknown]

SetMultiply(ch, m) ==
  /\ tocks_per_beat' = [tocks_per_beat EXCEPT ![ch] = Multiple(m)]
  /\ Disturbed
  /\ UNCHANGED <<ticks, tempo_vars, shuffle_vars, run_vars, beat_vars, syncfn_queue>>

SetTempoBPM(bpm) ==
  /\ tempo_setting' = Tempo(bpm)
  /\ ticks_per_beat' = TicksPerBeat(tempo_setting')
  /\ Disturbed
  /\ UNCHANGED <<ticks, tocks_per_beat, shuffle_vars, run_vars, beat_vars, syncfn_queue>>

\* The mean of the taps is the beat; the tempo shown is 16 bits of what it gives.
SetTempoFromTaps(mean) ==
  /\ ticks_per_beat' = Constrained(mean, CLOCK_TICKS_MIN, CLOCK_TICKS_MAX)
  /\ tempo_setting' = (TicksPerMinute \div ticks_per_beat') % (CLOCK_TEMPO_MAX + 1)
  /\ Disturbed
  /\ UNCHANGED <<ticks, tocks_per_beat, shuffle_vars, run_vars, beat_vars, syncfn_queue>>

SetShuffle(sh) ==
  /\ shuffle_setting' = Constrained(sh, 0, 99)
  /\ shuffle' = shuffle_setting'
  /\ Disturbed
  /\ UNCHANGED <<ticks, tocks_per_beat, tempo_vars, run_vars, beat_vars, syncfn_queue>>

\* Off the settings, until the next call.
Modulate(tempo_diff, shuffle_diff) ==
  /\ shuffle' = Constrained(shuffle_setting + shuffle_diff, 0, 99)
  /\ ticks_per_beat' = TicksPerBeat(Tempo(tempo_setting + tempo_diff))
  /\ Disturbed
  /\ UNCHANGED <<ticks, tocks_per_beat, tempo_setting, shuffle_setting, run_vars,
                 beat_vars, syncfn_queue>>

BeatSync(task) ==
  /\ Len(syncfn_queue) < MaxQueued
  /\ syncfn_queue' = Append(syncfn_queue, task)
  /\ UNCHANGED <<ticks, setting_vars, run_vars, beat_vars, history_vars>>

-----------------------------------------------------------------------------
(***************************************************************************)
(* SyncTrig at tick now.                                                   *)
(***************************************************************************)

Enabled(ch) == tocks_per_beat[ch] # 0
Multiplies(ch) == tocks_per_beat[ch] > 0
Divides(ch) == tocks_per_beat[ch] < 0
Division(ch) == 1 - tocks_per_beat[ch]

\* Mutant: the tock on the downbeat swings too.
SwingAll(ch, n) ==
  IF ch # MIDI_CLOCK /\ n % 2 = 1
  THEN ((shuffle * ticks_per_beat) \div 100) \div tocks_per_beat[ch]
  ELSE 0

\* Odd tocks are late, but never the downbeat.
Swing(ch, n) ==
  IF ch # MIDI_CLOCK /\ n % 2 = 1 /\ n < tocks_per_beat[ch]
  THEN ((shuffle * ticks_per_beat) \div 100) \div tocks_per_beat[ch]
  ELSE 0

\* The n-th tock of a beat, in ticks after the downbeat.
TockAt(ch, n) == (n * ticks_per_beat) \div tocks_per_beat[ch] + Swing(ch, n)

NextTockTick(ch) == (beat_tick + TockAt(ch, count[ch])) % TickModulus

NextBeat(ch) ==
  (beat_tick + (IF count[ch] = 0 THEN 0 ELSE ticks_per_beat)) % TickModulus

Due(ch, now) ==
  \/ Multiplies(ch) /\ now >= NextTockTick(ch)
  \/ Divides(ch) /\ now >= NextBeat(ch)

Counted(ch, now) == IF Due(ch, now) THEN count[ch] + 1 ELSE count[ch]

\* Mutant: the count is looked for at the end of the division only.
FiresAtEnd(ch, now) ==
  /\ Due(ch, now)
  /\ Divides(ch) => Counted(ch, now) \in {1, Division(ch) + 1}

Fires(ch, now) ==
  /\ Due(ch, now)
  /\ Divides(ch) => Counted(ch, now) % Division(ch) = 1

\* Mutant: through with the last tock that its setting counts.
ExceededEarly(ch, now) ==
  IF Divides(ch) THEN Due(ch, now) ELSE Counted(ch, now) >= tocks_per_beat[ch]

\* The channel is through with its beat.
Exceeded(ch, now) ==
  IF Divides(ch) THEN Due(ch, now) ELSE Counted(ch, now) > tocks_per_beat[ch]

Resets(now) == \A ch \in Channels : Enabled(ch) => Exceeded(ch, now)

\* Mutant: any tock will do.
SyncsOnAnyTock(now) == \E ch \in Channels : Enabled(ch) /\ Fires(ch, now)

\* Mutant: the start of a count only.
SyncsOnFirst(now) == \E ch \in Channels :
  Multiplies(ch) /\ Due(ch, now) /\ Counted(ch, now) = 1

Syncs(now) == \E ch \in Channels :
  /\ Enabled(ch)
  /\ \/ Exceeded(ch, now)
     \/ Multiplies(ch) /\ Due(ch, now) /\ Counted(ch, now) = 1

\* Mutant: a division counts its beats from 0 again.
CountFromZero(ch, now) ==
  CASE Divides(ch) -> IF Fires(ch, now) THEN 0 ELSE Counted(ch, now)
    [] Multiplies(ch) -> IF Resets(now) THEN 1 ELSE Counted(ch, now)
    [] OTHER -> count[ch]

\* Reset(1) skips the tock the multiplying channels are already on.
CountAfter(ch, now) ==
  CASE Divides(ch) -> IF Fires(ch, now) THEN 1 ELSE Counted(ch, now)
    [] Multiplies(ch) -> IF Resets(now) THEN 1 ELSE Counted(ch, now)
    [] OTHER -> count[ch]

SyncTrig(now) ==
  /\ tock' = [ch \in Channels |-> Fires(ch, now)]
  /\ count' = [ch \in Channels |-> CountAfter(ch, now)]
  /\ beat_tick' = IF Resets(now) THEN now ELSE beat_tick
  /\ IF Syncs(now) THEN /\ tocks_per_beat' = Ran(tocks_per_beat, syncfn_queue)
                        /\ syncfn_queue' = <<>>
                   ELSE UNCHANGED <<tocks_per_beat, syncfn_queue>>

-----------------------------------------------------------------------------
(***************************************************************************)
(* An inner tick, and the transport.                                       *)
(***************************************************************************)

WidestDivision == 1 - CLOCK_MIN_MULTIPLE

\* A tick fires a channel once, so no two tocks of it may be due on the same.
Spaced == \A ch \in Channels : Multiplies(ch) =>
  \A m, n \in 0 .. tocks_per_beat[ch] : m < n => TockAt(ch, m) < TockAt(ch, n)

\* A beat that the tick counter overflows in is not a calm one.
CalmAfter(now) ==
  IF tocks_per_beat' # tocks_per_beat THEN 0
  ELSE IF ~Resets(now) THEN calm
  ELSE IF now + ticks_per_beat >= TickModulus \/ ~Spaced THEN 0
  ELSE IF calm < WidestDivision THEN calm + 1 ELSE calm

Observed(now) ==
  /\ calm' = CalmAfter(now)
  /\ fired' = [ch \in Channels |->
       IF calm' = 0 \/ Resets(now) THEN 0
       ELSE IF Fires(ch, now) THEN fired[ch] + 1 ELSE fired[ch]]
  /\ since' = [ch \in Channels |->
       IF calm' = 0 \/ ~Divides(ch) THEN Unknown
       ELSE IF Fires(ch, now) THEN 0
       ELSE IF since[ch] # Unknown /\ Resets(now) THEN since[ch] + 1 ELSE since[ch]]

\* The inner-tick loop of an applet's step: the counter first, then the clock.
Tick ==
  LET now == (ticks + 1) % TickModulus
  IN  /\ ticks' = now
      /\ IF IsRunning
         THEN SyncTrig(now) /\ Observed(now)
         ELSE UNCHANGED <<tocks_per_beat, beat_vars, syncfn_queue, history_vars>>
      /\ UNCHANGED <<tempo_vars, shuffle_vars, run_vars>>

Reset ==
  /\ beat_tick' = ticks
  /\ count' = [ch \in Channels |-> 0]
  /\ Disturbed
  /\ UNCHANGED <<ticks, setting_vars, tock, syncfn_queue>>

\* Start(p): armed and waiting if p.
Start(p) ==
  /\ Reset
  /\ running' = TRUE
  /\ paused' = p

Stop ==
  /\ running' = FALSE
  /\ paused' = FALSE
  /\ Disturbed
  /\ UNCHANGED <<ticks, setting_vars, beat_vars, syncfn_queue>>

Pause ==
  /\ paused' = TRUE
  /\ Disturbed
  /\ UNCHANGED <<ticks, setting_vars, running, beat_vars, syncfn_queue>>

Init ==
  /\ ticks = 0
  /\ tocks_per_beat = [ch \in Channels |-> IF ch = MIDI_CLOCK THEN MIDI_OUT_PPQN ELSE 0]
  /\ count = [ch \in Channels |-> 0]
  /\ tock = [ch \in Channels |-> FALSE]
  /\ beat_tick = 0
  /\ tempo_setting = Tempo(120)
  /\ ticks_per_beat = TicksPerBeat(tempo_setting)
  /\ shuffle_setting = 0 /\ shuffle = 0
  /\ running = FALSE /\ paused = FALSE
  /\ syncfn_queue = <<>>
  /\ calls = 0
  /\ calm = 0
  /\ fired = [ch \in Channels |-> 0]
  /\ since = [ch \in Channels |-> Unknown]

Call ==
  \/ \E ch \in UserChannels : \E m \in Multiples[ch] :
       SetMultiply(ch, m) \/ BeatSync([ch |-> ch, multiple |-> m])
  \/ \E bpm \in Tempos : SetTempoBPM(bpm)
  \/ \E mean \in Taps : SetTempoFromTaps(mean)
  \/ \E sh \in Shuffles : SetShuffle(sh)
  \/ \E d \in Modulations : Modulate(d[1], d[2])
  \/ Reset /\ UNCHANGED run_vars
  \/ \E p \in BOOLEAN : Start(p)
  \/ Stop
  \/ Pause

Next ==
  \/ Tick /\ UNCHANGED calls
  \/ calls < MaxCalls /\ calls' = calls + 1 /\ Call

\* The firmware calls step for every buffer; nothing makes a user call again.
Spec == Init /\ [][Next]_vars /\ WF_vars(Tick /\ UNCHANGED calls)

-----------------------------------------------------------------------------
TypeOK ==
  /\ ticks \in 0 .. TickModulus - 1 /\ beat_tick \in 0 .. TickModulus - 1
  /\ tocks_per_beat \in [Channels -> CLOCK_MIN_MULTIPLE .. CLOCK_MAX_MULTIPLE]
  /\ tocks_per_beat[MIDI_CLOCK] = MIDI_OUT_PPQN
  /\ count \in [Channels -> Nat] /\ tock \in [Channels -> BOOLEAN]
  /\ tempo_setting \in 0 .. CLOCK_TEMPO_MAX
  /\ ticks_per_beat \in 1 .. TicksPerMinute
  /\ shuffle_setting \in 0 .. 99 /\ shuffle \in 0 .. 99
  /\ running \in BOOLEAN /\ paused \in BOOLEAN
  /\ syncfn_queue \in Seq(Task) /\ Len(syncfn_queue) <= MaxQueued
  /\ calls \in 0 .. MaxCalls
  /\ calm \in 0 .. WidestDivision
  /\ fired \in [Channels -> Nat]
  /\ since \in [Channels -> Nat \cup {Unknown}]

\* A tick of SyncTrig on which Reset(1) moved the beat.
Downbeat == ticks' # ticks /\ beat_tick' # beat_tick

\* Whatever the settings were before, a beat that no setting changes in is as
\* long as the tempo says: some channel's SetMultiply may have held the beat
\* before it open, or the tick counter overflowed in it.
BeatsKeepTempo ==
  [][calm > 0 /\ IsRunning /\ ticks' # ticks
     => (Downbeat <=> ticks' = beat_tick + ticks_per_beat)]_vars

\* A multiplying channel fires as often as its setting says in a calm beat,
\* the last time on the downbeat, which it shares with every other one however
\* they shuffle.
TocksFillBeat ==
  [][calm > 0 /\ Downbeat
     => \A ch \in Channels : Multiplies(ch)
          => tock'[ch] /\ fired[ch] = tocks_per_beat[ch] - 1]_vars

\* A dividing channel fires on downbeats only, and on every k-th.
DivisionsExact ==
  [][calm > 0 /\ ticks' # ticks
     => \A ch \in Channels : Divides(ch) /\ IsRunning /\ tock'[ch]
          => Downbeat /\ since[ch] \in {Unknown, Division(ch) - 1}]_vars

\* No division goes without a tock for longer than it divides by, whatever
\* count an earlier setting left it with.
DivisionsFound ==
  \A ch \in Channels : Divides(ch) =>
    /\ since[ch] < Division(ch)
    /\ calm >= Division(ch) => since[ch] # Unknown

\* "Things that should only happen on the downbeat": in a calm beat the queued
\* functions wait for it.
SyncsOnDownbeat ==
  [][calm > 0 /\ syncfn_queue # <<>> /\ syncfn_queue' = <<>> => Downbeat]_vars

\* A queued function is run while the clock is, whatever the settings do.
SyncsRun == syncfn_queue # <<>> ~> (syncfn_queue = <<>> \/ ~IsRunning)
=============================================================================
