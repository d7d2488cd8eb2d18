------------------------------ MODULE AppRuntime ------------------------------
(***************************************************************************)
(* The runtime every OC app plug-in is built on                            *)
(* (plugins/apps/_per_app_runtime.h and oc_customui_dispatch.h), around an *)
(* external app: Init resets the app's settings, its event handlers may    *)
(* change them, its isr, loop and draw functions do not.                   *)
(*                                                                         *)
(* The app, its settings, the tick counter and the trigger scan are file-  *)
(* scope objects of the plug-in, so instances of one plug-in share them;   *)
(* what AppAlgorithm holds, each instance has for itself.                  *)
(***************************************************************************)
EXTENDS Integers, FiniteSets, FooterOverdraw

CONSTANTS
  Instances,         \* instances of one app plug-in
  Buttons,           \* the mapped controls: buttons 3, 4, encoder pushes
  Settings,          \* the app's settings, one parameter each
  Values,            \* what a setting can be
  Default,           \* its default
  IsrFreq,           \* OC_CORE_ISR_FREQ
  SampleRate,        \* NT_globals.sampleRate once it is set
  BufferSizes,       \* frames of a buffer
  TickModulus,       \* 2^32, the width of OC::CORE::ticks
  LongPressTicks,    \* kLongPressTicks
  ScreensaverTicks,  \* kScreensaverTimeoutTicks
  Nothing,           \* no page of this app, no saved preset
  MaxPending,        \* bound: edits whose parameterChanged is still due
  QuietHolds         \* TRUE: no hold spans a page change or a tick overflow

ASSUME AppAssumption ==
  /\ IsrFreq \in Nat /\ SampleRate \in Nat \ {0} /\ BufferSizes \subseteq Nat
  /\ TickModulus \in Nat \ {0}
  /\ LongPressTicks \in Nat \ {0} /\ ScreensaverTicks \in Nat \ {0}
  /\ Default \in Values
  /\ Nothing \notin Instances
  /\ QuietHolds \in BOOLEAN

VARIABLES
  \* file scope
  ticks,         \* OC::CORE::ticks
  settings,      \* the app's settings
  lastHigh,      \* last_high_ of one trigger input
  \* AppAlgorithm, per instance
  numerator,     \* tick_numerator
  alive,         \* alive
  heldSince,     \* held_since
  lastControls,  \* last_controls
  lastActive,    \* last_active_tick
  sinceDraw,     \* steps_since_draw
  \* the firmware, external
  phase,         \* "absent", "constructed" or "registered", per instance
  load,          \* "new", or how far loading a preset's state got: "due",
                 \* "restored" or "failed"
  v,             \* parameter values of an instance
  pending,       \* parameters of an instance whose parameterChanged is due
  saved,         \* the saved preset, or Nothing
  rated,         \* the sample rate is set
  shown,         \* the instance whose page is shown, or Nothing
  down,          \* buttons held down
  out,           \* what the last callback did
  \* history
  played,        \* frames stepped at a valid rate, times IsrFreq
  bus,           \* trigger level of the last buffer stepped at a valid rate
  held,          \* ticks a button has been, or was last, held down
  pushed         \* the settings were pushed since construct

shared_vars == <<ticks, settings, lastHigh>>
control_vars == <<heldSince, lastControls, lastActive>>
fw_vars == <<phase, load, saved, rated, shown>>
param_vars == <<v, pending>>
clock_vars == <<numerator, played, bus>>
vars == <<shared_vars, control_vars, alive, sinceDraw, fw_vars, param_vars,
          down, clock_vars, held, pushed, out>>

-----------------------------------------------------------------------------
NoCall == [call |-> "none"]
Defaults == [s \in Settings |-> Default]

Set(f, i, x) == [f EXCEPT ![i] = x]

\* step's while loop: isr ticks due once x frames' worth has accumulated, and
\* what is left of it.
TicksDue(x) == x \div SampleRate
\* Mutant: the accumulator is cleared, not reduced.
RemainderDropped(x) == 0
Remainder(x) == x % SampleRate

\* Scan once per tick, the level held for the whole buffer: the ticks of a
\* buffer that see a rising edge, and the level the last Scan leaves.
\* Mutant: the level is remembered once per buffer.
EdgesSeenPerTick(high, k) == IF high /\ ~lastHigh THEN k ELSE 0
EdgesSeen(high, k) == IF high /\ ~lastHigh /\ k > 0 THEN 1 ELSE 0
LevelScanned(high, k) == IF k > 0 THEN high ELSE lastHigh

\* was_long_press_already_emitted: a 64-bit difference of 32-bit counts.
\* Mutant: the threshold itself is short.
WasLongStrictly(i, b) ==
  ticks < heldSince[i][b] \/ ticks - heldSince[i][b] > LongPressTicks
WasLong(i, b) ==
  \/ ticks < heldSince[i][b]
  \/ ticks - heldSince[i][b] >= LongPressTicks

\* draw's idle test, a 32-bit difference.
Screensaving(i) == (ticks - lastActive[i]) % TickModulus >= ScreensaverTicks

\* push_settings_to_params: the settings a push writes to the parameters.
\* Mutant: only what is off its default is pushed.
DivergedFromDefault(i, values) ==
  {s \in Settings : v[i][s] # values[s] /\ values[s] # Default}
Diverged(i, values) == {s \in Settings : v[i][s] # values[s]}

-----------------------------------------------------------------------------
(***************************************************************************)
(* The entry points.                                                       *)
(***************************************************************************)

\* construct, then the firmware binds v to the defaults or, loading a preset,
\* to the saved values, and owes a parameterChanged for each parameter.
Construct(i, how) ==
  /\ phase[i] = "absent"
  /\ how = "due" => saved # Nothing
  /\ phase' = Set(phase, i, "constructed")
  /\ load' = Set(load, i, how)
  /\ v' = Set(v, i, IF how = "due" THEN saved.v ELSE Defaults)
  /\ pending' = Set(pending, i, Settings)
  /\ ticks' = 0
  /\ settings' = Defaults
  /\ numerator' = Set(numerator, i, 0)
  /\ lastActive' = Set(lastActive, i, 0)
  /\ lastControls' = Set(lastControls, i, {})
  /\ heldSince' = Set(heldSince, i, [b \in Buttons |-> 0])
  /\ sinceDraw' = Set(sinceDraw, i, NeverDrawn)
  /\ alive' = Set(alive, i, FALSE)
  /\ played' = Set(played, i, 0)
  /\ pushed' = Set(pushed, i, FALSE)
  /\ out' = NoCall
  /\ UNCHANGED <<lastHigh, saved, rated, shown, down, bus, held>>

\* deserialise: every member is parsed before restore is called, if it is.
Deserialise(i, parsed) ==
  /\ phase[i] = "constructed" /\ load[i] = "due"
  /\ load' = Set(load, i, IF parsed THEN "restored" ELSE "failed")
  /\ settings' = IF parsed THEN saved.settings ELSE settings
  /\ out' = NoCall
  /\ UNCHANGED <<ticks, lastHigh, control_vars, alive, sinceDraw, phase, saved,
                 rated, shown, param_vars, down, clock_vars, held, pushed>>

Register(i) ==
  /\ phase[i] = "constructed" /\ load[i] # "due" /\ pending[i] = {}
  /\ phase' = Set(phase, i, "registered")
  /\ out' = NoCall
  /\ UNCHANGED <<shared_vars, control_vars, alive, sinceDraw, load, saved,
                 rated, shown, param_vars, down, clock_vars, held, pushed>>

\* serialise, into the preset on the card.
Serialise(i) ==
  /\ phase[i] = "registered"
  /\ \A j \in Instances : phase[j] # "constructed"
  /\ saved' = [v |-> v[i], settings |-> settings]
  /\ out' = NoCall
  /\ UNCHANGED <<shared_vars, control_vars, alive, sinceDraw, phase, load,
                 rated, shown, param_vars, down, clock_vars, held, pushed>>

\* step.  Without a sample rate it returns before the accumulator.
Step(i, frames, high) ==
  LET x == numerator[i] + frames * IsrFreq
      k == TicksDue(x)
  IN
  /\ phase[i] # "absent"
  /\ rated
  /\ QuietHolds /\ down # {} => ticks + k < TickModulus
  /\ numerator' = Set(numerator, i, Remainder(x))
  /\ ticks' = (ticks + k) % TickModulus
  /\ lastHigh' = LevelScanned(high, k)
  /\ sinceDraw' = Set(sinceDraw, i, AfterStep(sinceDraw[i]))
  /\ out' = [call |-> "step", of |-> i, edges |-> EdgesSeen(high, k)]
  /\ played' = Set(played, i,
                   (played[i] + frames * IsrFreq) % (SampleRate * TickModulus))
  /\ bus' = Set(bus, i, high)
  /\ held' = [b \in Buttons |->
                IF b \notin down \/ shown \notin {i, Nothing} THEN held[b]
                ELSE IF held[b] + k < LongPressTicks THEN held[b] + k
                ELSE LongPressTicks]
  /\ UNCHANGED <<settings, control_vars, alive, fw_vars, param_vars, down, pushed>>

\* draw.
Draw(i) ==
  /\ phase[i] = "registered" /\ shown = i
  /\ alive' = Set(alive, i, TRUE)
  /\ sinceDraw' = Set(sinceDraw, i, AfterDraw)
  /\ out' = [call |-> IF Screensaving(i) THEN "screensaver" ELSE "menu"]
  /\ UNCHANGED <<shared_vars, control_vars, fw_vars, param_vars, down,
                 clock_vars, held, pushed>>

\* Mutant: parameterChanged without the sentinel.
ParameterChangedUnguarded(i, s) ==
  /\ s \in pending[i]
  /\ pending' = Set(pending, i, pending[i] \ {s})
  /\ settings' = [settings EXCEPT ![s] = v[i][s]]
  /\ out' = NoCall
  /\ UNCHANGED <<ticks, lastHigh, control_vars, alive, sinceDraw, fw_vars, v,
                 down, clock_vars, held, pushed>>

\* parameterChanged for a setting: nothing before the first draw.
ParameterChanged(i, s) ==
  /\ s \in pending[i]
  /\ pending' = Set(pending, i, pending[i] \ {s})
  /\ settings' = IF alive[i] THEN [settings EXCEPT ![s] = v[i][s]] ELSE settings
  /\ out' = NoCall
  /\ UNCHANGED <<ticks, lastHigh, control_vars, alive, sinceDraw, fw_vars, v,
                 down, clock_vars, held, pushed>>

\* dispatch_custom_ui with the buttons in now held down, and perhaps an
\* encoder turned: an event for each button released, one for the encoder;
\* push the settings the handlers changed; then the bookkeeping.
CustomUi(i, now, turned) ==
  LET released == down \ now
      pressed == now \ down
  IN
  /\ phase[i] = "registered" /\ shown = i
  /\ now # down \/ turned
  /\ settings' \in IF released # {} \/ turned THEN [Settings -> Values]
                                              ELSE {settings}
  /\ IF alive[i]
       THEN /\ v' = Set(v, i, [s \in Settings |->
                               IF s \in Diverged(i, settings') THEN settings'[s]
                                                              ELSE v[i][s]])
            /\ pending' = Set(pending, i, pending[i] \cup Diverged(i, settings'))
            /\ pushed' = Set(pushed, i, TRUE)
       ELSE UNCHANGED <<v, pending, pushed>>
  /\ heldSince' = [heldSince EXCEPT ![i] =
                     [b \in Buttons |-> IF b \in pressed THEN ticks ELSE @[b]]]
  /\ lastControls' = Set(lastControls, i, now)
  /\ lastActive' = IF now # {} \/ turned THEN Set(lastActive, i, ticks)
                                         ELSE lastActive
  /\ out' = [call |-> "events", of |-> i,
             long |-> [b \in released |-> WasLong(i, b)]]
  /\ down' = now
  /\ held' = [b \in Buttons |-> IF b \in pressed THEN 0 ELSE held[b]]
  /\ UNCHANGED <<ticks, lastHigh, alive, sinceDraw, fw_vars, clock_vars>>

-----------------------------------------------------------------------------
(***************************************************************************)
(* The firmware and its user.                                              *)
(***************************************************************************)

RateSet ==
  /\ ~rated
  /\ rated' = TRUE
  /\ out' = NoCall
  /\ UNCHANGED <<shared_vars, control_vars, alive, sinceDraw, phase, load,
                 saved, shown, param_vars, down, clock_vars, held, pushed>>

EditParameter(i, s, x) ==
  /\ phase[i] = "registered"
  /\ Cardinality(pending[i] \cup {s}) <= MaxPending
  /\ v' = [v EXCEPT ![i][s] = x]
  /\ pending' = Set(pending, i, pending[i] \cup {s})
  /\ out' = NoCall
  /\ UNCHANGED <<shared_vars, control_vars, alive, sinceDraw, fw_vars, down,
                 clock_vars, held, pushed>>

ShowPage(page) ==
  /\ page \in {Nothing} \cup {i \in Instances : phase[i] = "registered"}
  /\ page # shown
  /\ QuietHolds => down = {}
  /\ shown' = page
  /\ out' = NoCall
  /\ UNCHANGED <<shared_vars, control_vars, alive, sinceDraw, phase, load,
                 saved, rated, param_vars, down, clock_vars, held, pushed>>

\* Buttons pressed and released while another page is shown.
OtherPage(now) ==
  /\ shown = Nothing /\ now # down
  /\ down' = now
  /\ held' = [b \in Buttons |-> IF b \in now \ down THEN 0 ELSE held[b]]
  /\ out' = NoCall
  /\ UNCHANGED <<shared_vars, control_vars, alive, sinceDraw, fw_vars,
                 param_vars, clock_vars, pushed>>

Remove(i) ==
  /\ phase[i] = "registered" /\ shown # i
  /\ phase' = Set(phase, i, "absent")
  /\ pending' = Set(pending, i, {})
  /\ pushed' = Set(pushed, i, FALSE)
  /\ out' = NoCall
  /\ UNCHANGED <<shared_vars, control_vars, alive, sinceDraw, load, saved,
                 rated, shown, v, down, clock_vars, held>>

Init ==
  /\ ticks = 0 /\ settings = Defaults /\ lastHigh = FALSE
  /\ numerator = [i \in Instances |-> 0]
  /\ alive = [i \in Instances |-> FALSE]
  /\ heldSince = [i \in Instances |-> [b \in Buttons |-> 0]]
  /\ lastControls = [i \in Instances |-> {}]
  /\ lastActive = [i \in Instances |-> 0]
  /\ sinceDraw = [i \in Instances |-> NeverDrawn]
  /\ phase = [i \in Instances |-> "absent"]
  /\ load = [i \in Instances |-> "new"]
  /\ v = [i \in Instances |-> Defaults]
  /\ pending = [i \in Instances |-> {}]
  /\ saved = Nothing /\ rated = FALSE /\ shown = Nothing /\ down = {}
  /\ out = NoCall
  /\ played = [i \in Instances |-> 0]
  /\ bus = [i \in Instances |-> FALSE]
  /\ held = [b \in Buttons |-> 0]
  /\ pushed = [i \in Instances |-> FALSE]

StepAny(i) == \E frames \in BufferSizes, high \in BOOLEAN : Step(i, frames, high)

Next ==
  \/ \E i \in Instances :
       \/ \E how \in {"new", "due"} : Construct(i, how)
       \/ \E parsed \in BOOLEAN : Deserialise(i, parsed)
       \/ Register(i)
       \/ Serialise(i)
       \/ StepAny(i)
       \/ Draw(i)
       \/ \E s \in Settings : ParameterChanged(i, s)
       \/ \E now \in SUBSET Buttons, turned \in BOOLEAN : CustomUi(i, now, turned)
       \/ \E s \in Settings, x \in Values : EditParameter(i, s, x)
       \/ Remove(i)
  \/ RateSet
  \/ \E page \in Instances \cup {Nothing} : ShowPage(page)
  \/ \E now \in SUBSET Buttons : OtherPage(now)

Spec == Init /\ [][Next]_vars

\* The audio thread calls step for ever, and the firmware sets the rate.
FairSpec ==
  /\ Spec
  /\ WF_vars(RateSet)
  /\ \A i \in Instances : WF_vars(StepAny(i))

-----------------------------------------------------------------------------
TypeOK ==
  /\ ticks \in 0 .. TickModulus - 1
  /\ settings \in [Settings -> Values] /\ v \in [Instances -> [Settings -> Values]]
  /\ lastHigh \in BOOLEAN /\ rated \in BOOLEAN
  /\ numerator \in [Instances -> Nat] /\ played \in [Instances -> Nat]
  /\ alive \in [Instances -> BOOLEAN] /\ pushed \in [Instances -> BOOLEAN]
  /\ heldSince \in [Instances -> [Buttons -> 0 .. TickModulus - 1]]
  /\ lastActive \in [Instances -> 0 .. TickModulus - 1]
  /\ lastControls \in [Instances -> SUBSET Buttons] /\ down \subseteq Buttons
  /\ sinceDraw \in [Instances -> FooterCounts]
  /\ phase \in [Instances -> {"absent", "constructed", "registered"}]
  /\ load \in [Instances -> {"new", "due", "restored", "failed"}]
  /\ pending \in [Instances -> SUBSET Settings]
  /\ saved = Nothing \/ saved \in [v : [Settings -> Values],
                                   settings : [Settings -> Values]]
  /\ shown \in Instances \cup {Nothing}
  /\ bus \in [Instances -> BOOLEAN]
  /\ held \in [Buttons -> 0 .. LongPressTicks]

\* "This keeps the long-term tick rate equal to OC_CORE_ISR_FREQ": the ticks
\* run since construct, and the part of a tick carried over, are the audio
\* time an instance has played, modulo the width of the tick counter.
KeepsTime ==
  \A i \in Instances :
    phase[i] # "absent" =>
      /\ numerator[i] < SampleRate
      /\ ticks * SampleRate + numerator[i] = played[i]

\* A trigger that rises from one buffer to the next is seen by exactly one
\* tick of the later one, a level that stays by none.
RisesSeenOnce ==
  [][\A i \in Instances :
       out'.call = "step" /\ out'.of = i =>
         out'.edges = IF bus'[i] /\ ~bus[i] THEN 1 ELSE 0]_vars

\* A release is long exactly if the button was held for the long-press time.
PressesTimed ==
  out.call = "events" =>
    \A b \in DOMAIN out.long : out.long[b] <=> held[b] = LongPressTicks

\* An app that is no longer shown stops painting its footer over the page
\* that is.
ScreenReleased ==
  \A i \in Instances :
    shown # i ~>
      shown = i \/ phase[i] = "absent" \/ ~Restoring(sinceDraw[i])

\* Parameters show the app's settings: once pushed, they agree but where a
\* parameterChanged is still due.
Mirrored ==
  \A i \in Instances : pushed[i] =>
    \A s \in Settings \ pending[i] : v[i][s] = settings[s]

\* Loading a preset, the fan-out of parameterChanged does not undo what
\* deserialise restored, in whatever order they come.
SavedStateWins ==
  \A i \in Instances :
    phase[i] = "constructed" /\ load[i] = "restored" => settings = saved.settings
=============================================================================
