# nt_and_crime in TLA+

nt_and_crime makes Phazerville Hemisphere applets and O_C apps run as plug-ins of
the disting NT. This directory holds TLA+ models of its own code: the two host
plug-ins, the runtimes every app and applet plug-in is built on, and what they
share. Each definition names its idea as the C++ does; `PROJECT.json` maps it to
its lines.

## 1. The system

| Part | State | Operations | Interaction | Hard part |
|---|---|---|---|---|
| Proxy aggregator (`shim/src/host_proxy.cpp`) | enum table, one slot mapping and parameter block per lane | scan the preset, resolve an enum value, aggregate a slot, decode a forward | called by both hosts | every answer is of the preset at the time of the call |
| Hemispheres host (`plugins/hosts/Hemispheres_host.cpp`) | proxy state, cached plug-in pointers, footer | construct, parameterChanged, draw, step, customUi | calls into other plug-ins, forwards parameters to them | preset edits between any two calls; construct-time fan-out |
| Quadrants host (`plugins/hosts/Quadrants_host.cpp`) | the same, and the focused lane | the same, serialise, deserialise | the same | two lookups of one lane; restored focus |
| OC app runtime (`plugins/apps/_per_app_runtime.h`, `oc_customui_dispatch.h`) | tick accumulator, hold times, idle stamp, sentinel, footer; file-scope ticks, settings, trigger scan | construct, step, draw, parameterChanged, customUi, serialise, deserialise | isr, loop and event handlers of the app; pushes settings to parameters | two copies of each setting; rates that do not divide; overflow; file-scope state with several instances |
| Applet runtime (`plugins/applets/_per_applet_runtime.h`, `hem_shim.h`, `HSIOFrame.h`) | edge and CV tracking per instance; file-scope frame, ticks | step, customUi, serialise, deserialise, render_view | Controller of the applet; called by hosts | inner ticks per buffer, countdowns, shared frame |
| Clock manager (`shim/include/HSClockManager.h`) | beat tick, counts and multiples per channel, tempo, shuffle, queue of functions | SyncTrig, Start, Stop, Pause, Reset, SetMultiply, SetTempo, taps, shuffle, modulation, BeatSync | one SyncTrig per inner tick | multiples and divisions that share one beat; settings in mid-beat; overflow |
| Clock dividers (`shim/include/util/clkdivmult.h`) | counts and the last clock per divider; turn and mutes of a sequence | Tick, Set, Reset; Poke, ToggleStep, SetMute | Controllers of applets | multiplication between clocks; turns of steps that are off, muted or edited |
| Persistence (`_per_applet_runtime.h`, `_per_app_runtime.h`) | two halves of an applet's word; an app's blob of settings | serialise, deserialise | the preset, through JSON streams | signed halves; members that are missing, spoilt or out of order |
| CV maps, OC DAC, menus, quantiser, Relabi and Lorenz managers | small records | see the sources | used by vendor code | packing; history ring; cursor windows |
| JSON streams (`harness/src/nt_jsonstream.cpp`) | writer's contexts; nodes and stack of frames of the reader | add, open, close; read, enter, match, skip | serialise and deserialise of plug-ins, scenarios | the position between calls |
| Harness runtime (`harness/`) | simulated firmware, loader | NT_* calls | tests | parameter store |
| Verifier, probes | measurement | | | not part of the product |

What makes each part correct:

- hosts: what the host shows, what it forwards parameter edits to and what it
  hands controls to is the algorithm the user selected, in the preset as it is;
  nothing is forwarded before registration; no lane outgrows its table.
- OC app runtime: audio time and app time agree; a trigger edge is seen once;
  presses are classified by their length; parameters mirror settings; a restored
  preset survives; the screen is left alone once the page is another's.
- applet runtime: an edge and a CV change are told to the instance whose input it
  is; a pulse lasts as long as it was asked to; saved words come back whole.
- clock manager: a beat is as long as the tempo says, a multiple fires as often in
  it as it says, a division on every k-th; what waits for the beat runs on it.
- dividers: exactly k clocks, or m triggers an m-th of a cycle apart; the steps of
  a sequence take turns by their lengths.
- persistence: a load changes nothing, or brings back as saved every part the
  preset still has; an applet that lost a half gets nothing, an app that lost a
  word may get 0 for it beside words that were saved.
- JSON streams: values come in the order written, and a call that asks for another
  is refused without effect.

The vendor submodules and the NT firmware are not in the repository. The firmware
and its user are external actions: they call the entry points one at a time, edit
the preset, move parameters, show pages.

## 2. Modules

| Module | Models |
|---|---|
| `FooterOverdraw` | the footer count of both hosts and of the app runtime (constant level) |
| `HostProxy` | `host_proxy.cpp` at constant level: the preset scan, lanes, forwards |
| `HostCore` | what both hosts share: variables, entry points, firmware and user, invariants |
| `HemispheresHost`, `QuadrantsHost` | the hosts proper: `resolve_and_cache`, draw, customUi, focus and its persistence |
| `AppRuntime` | the OC app runtime with its dispatch, around an external app |
| `AppletRuntime` | construct and step of an applet plug-in around an external Controller: edges, CV changes, inner ticks, pulses, the shared frame |
| `AppletInstances` | `AppletRuntime` beside what each instance would put out alone |
| `ClkDivMult` | the methods of a clock divider, at constant level |
| `ClockInput` | what an applet gives its dividers: inner ticks with a clock or without, calls of the user |
| `Divider` | one divider ticked, set and reset by an applet |
| `DivSequence` | a sequence of dividers, poked in every inner tick and edited in between, beside the schedule it should keep |
| `ClockManager` | the internal clock: SyncTrig tick by tick, transport and every setting |
| `JsonReader` | what a reader of a document promises: a position in it |
| `JsonFrames` | the frame stack of the reader, over any document and its tree; refines `JsonReader` |
| `JsonStream` | the writer and the parser in front of it; refines `JsonFrames` |
| `SavedState` | what saving promises, part by part: what is kept comes back as saved; for what is lost a plug-in gets 0 if it is tolerant (an app), or its load is refused (an applet); a refused load changes nothing |
| `Persistence` | saving, editing and loading the members of an applet or app; refines `SavedState` |
| `MC*` | values of the constants for TLC |
| `*Proofs` | theorems and proofs about the module they are named after |

`HemispheresHost` and `QuadrantsHost` extend `HostCore`, which extends `HostProxy`
and, as `AppRuntime` does, takes the footer from `FooterOverdraw`. `Divider` and
`DivSequence` extend `ClkDivMult` and `ClockInput`, `JsonStream` extends
`JsonFrames`.

Notes on the correspondence.

- A preset is a sequence of algorithm instances; slots are 1-based in the model.
  `enum_strs` is the function from the enum values in use to entries
  `<<slot, label>>`; two tables are equal exactly if the C++ strings are.
- A lane is `[slot, count, shows]`: `ProxyMap`, and the instance whose parameter
  definitions are in the lane's part of `proxy_params`. Equal names mean equal
  parameter tables (`HostProxyAssumption`): a slot carries its plug-in's name.
- A parameter edit stores the value at once and owes a `parameterChanged`
  (`pending`), which the firmware delivers later. The reentrancy probe
  (`plugins/probes/reentrancy_probe.cpp`) measured that the call never nests; the
  harness calls synchronously, which is one of the orders the model allows.
- During construct the firmware binds `v[]` and calls `parameterChanged` for every
  parameter in order, then registers the algorithm: `phase`.
- Parameter offset is 0, as in the harness by default.
- The app behind `AppRuntime` is external: Init resets its settings, an event
  handler may set them to anything, isr, loop and draw leave them alone.
- `ticks`, the app's settings and the trigger scan's last levels are file-scope
  objects in the C++ and therefore not indexed by instance in `AppRuntime`.
- `AppletRuntime` takes a step in three parts, `Fill`, one `Tick` for each
  Controller call and `Flush`; `doing` is the control point between them and no
  other entry point comes in between. The Controller is external: in each inner
  tick it writes nothing, a level or a pulse. One gate, one CV and one output
  stand for up to four of each, which never meet in the code. A buffer is the
  sequence of its gate levels and the mean of its CV.
- The histories of `AppletRuntime` (`level`, `told`) follow what each instance sees
  on its own buses, not what the code remembers, so that state kept in the wrong
  place or moved at the wrong time shows.
- `ClockInput` counts ticks up to `LastTick`, below the overflow of the 32-bit
  counter (three days), and `MaxChanges` calls of the user: `Set` and `Reset` of a
  `Divider`, the edits of a `DivSequence`.
- `DivSequence` keeps a `ClkDivMult` per step, with the sequence's own count and
  time. `Poke` is four actions: the first clock after a reset, nothing before it,
  a poke that stays on the step, and a clock that moves on. `clean` is the history
  that makes the schedule comparable: nothing was edited since the first clock
  after a reset. The schedule lists a round, every clock of every active step, and
  finds the n-th clock by how many of the round are earlier: it knows neither the
  sequence's count nor the dividers'.
- A `Tick` of `ClockManager` is an inner tick of an applet: the counter, then
  `SyncTrig(false)`, the only call there is of it in the repository, so that the
  half that follows an external clock is unreachable. The loop over the channels
  is a function of the channel (`Fires`, `CountAfter`); they meet only in
  `Resets` and `Syncs`. A queued function is a setting of a channel's multiple,
  which is what the applets queue. `Disturbed` marks every call that changes a
  setting or the beat; `calm` counts the downbeats since.
- `Persistence` keeps the bytes of a blob in their words. One step of a load is
  one iteration of its loop over the members; the reader underneath is
  `JsonReader`'s position. `Edit` stands for whatever else writes presets: it
  loses, spoils, adds and swaps members. `kept` is what the object still has of
  the state last saved.
- `JsonStream` has tokens instead of characters. A document is first written by
  calls in any legal order, then parsed, then read by calls in any order. In
  the refinement the position is the node the cursor of the top frame is at.
  `JsonFrames` leaves open how the document was written and parsed: its nodes are
  a tree of the values written (`Tree`), however nested (`Document`).
- 32-bit counters are modulo `TickModulus`; `held_since` is 64 bits wide in the
  code and its difference with the 32-bit tick count is modelled as such.

## 3. Runs

| Run | Question | Outcome |
|---|---|---|
| `hemi_host` | do lanes, forwards, cached pointers and the picture follow the selectors through preset edits, and is construct silent? | holds |
| `quad_host` | the same of Quadrants with two instances of one applet; are the firmware's definitions current; does a restored focus stay on a lane? | holds |
| `hemi_lost_refresh` | ... even if a selector moves between a preset edit and the next draw? | violated |
| `app_clock` | do ticks keep audio time, are triggers seen once, presses timed? | holds |
| `app_sync` | do parameters mirror settings, does a restored preset survive, is the screen released? | holds |
| `applet_runtime` | is each of two instances told of its own edges and changes, and does a pulse last as asked? | holds |
| `applet_instances` | does an instance put out only what it wrote itself? | violated |
| `divider` | does a divider divide exactly, multiply evenly, and come round after any change? | holds |
| `sequence` | do the active steps of a sequence take turns by their lengths, each with its triggers, after steps were set, muted and reset at any time? | holds |
| `clock` | do beats keep the tempo, multiples and divisions their counts, and queued functions their downbeat, from the next downbeat after any calls on? are queued functions run at all? | holds |
| `json` | is every document parsed to a tree of its values, and read as it was written in any order of calls? | holds |
| `saved_state` | does a load change nothing, or bring back as saved what the object still has (lost words of an app as 0, nothing to an applet that lost a half), and is a whole object never refused? | holds |

Bounds. `MaxSlots`, `MaxPending`, `MaxMembers` limit presets, edits whose
`parameterChanged` is due, and members of a saved object. Three slots hold the host
and two more, enough for a removal, a load and a swap around either lane; the enum
is one entry shorter than the preset could fill, and the other kind of algorithm
has more parameters than a lane has room for, so that every limit is met. One
pending edit at a time beside the construct-time fan-out is enough for every
order of an edit, its call, a preset edit and a draw. The app's sample rate is no
multiple of its isr rate and buffers are of two sizes, so that all remainders
occur; `TickModulus` 8 lets the tick counter overflow. The applet runs have
buffers of one and two inner ticks, pulses of one tick and of the default two, so
that a pulse ends within, at the end of, and after a buffer; three CVs and a
threshold of 1 let a drift add up; a gate of three samples rises, falls, or does
either twice in a buffer. Fourteen ticks let a divider by three come round four
times, and every pattern of clocks and two changes occurs in them; settings
reach past both ends of the clip.

A sequence of three steps is the shortest in which a step can be skipped between
two others; three changes set two lengths and mute a step, or set, reset and set
again, and eight ticks hold a round, and the start of the next, of most of them (three
divisions by 3 take nine). The clock
has beats of 4, 5 and 6 ticks (two tempos and a tap), a counter that overflows at
20, so that every tick of a beat is the one it overflows in, a channel that
divides by 3, one that divides by 2 or asks for more than the greatest multiple,
the MIDI channel at 2 a beat, and four calls at any ticks. Four values are enough
for a container in a container with something after each, and two names for a
mismatch. Words of two bits have a sign; a blob of two words can lose either or
both; two edits spoil and move, or lose and add. The blob is the longest that is
accepted (`StorageBytes = MaxBlobBytes`).
`EntersEmpty = FALSE` is an assumption of `json`: the reader enters no empty
container but the last value (see findings).

`QuietEdits` and `QuietHolds` are assumptions, not code: no selector call between
a preset edit and the next draw; no button hold over a page change or a tick
overflow. The runs without them, and the hazards, say what happens otherwise.

Fairness. `app_sync` and `clock` state liveness properties. The audio thread calls
step for ever and the firmware sets the sample rate: in `AppRuntime` weak fairness
on `Step` of each instance and on `RateSet`, in `ClockManager` on `Tick`; none on
the user, none on draw.

Deadlock is checked in every run but `divider` and `sequence`, which stop at
`LastTick`.

## 4. Proofs

For all values of the constants:

- `HemispheresHostProofs`: `TypeCorrect`, `ConstructForwardsNothing`,
  `ControlsReachLiveApplets`, and under `QuietEdits` `LanesFollow`, `ForwardsHit`,
  `DrawsSelected`.
- `QuadrantsHostProofs`: `TypeCorrect`, `ControlsReachLiveApplets`, and under
  `QuietEdits` `DefinitionsStayCurrent`, `ViewAgrees`.
- `HostCoreProofs`: the lemmas about `HostProxy` and `HostCore`: the scan counts without gaps,
  two presets with equal tables agree slot by slot, aggregation is typed,
  each shared action preserves each part of the inductive invariants.

- `AppletRuntimeProofs`: `TypeCorrect`, `EdgesAreTold`, `ChangesAreTold`,
  `PulsesAreExact`, for any instances, buffers and Controllers.
- `AppRuntimeProofs`: `TypeCorrect` for any number of instances; for one instance
  (`OneInstance`) `TimeKept`, `RestoredKept`, `ParametersMirror`, under
  `QuietHolds` `PressLengths`, and under `LongBuffers` `RisesSeenExactly`.
- `DividerProofs`: `TypeCorrect`, `Divides`, `FiresAlways`, `Multiplies`; for a
  sequence of any number of steps `SequenceTypeCorrect`, `SchedulePlayed`,
  `TurnsTriggered`.
- `ClockManagerProofs`: `TypeCorrect`, `TempoKept`, `TocksFilled`, `DivisionsKept`,
  `DivisionsHeard`, `SyncsHeld`, for any channels, settings and calls.
- `PersistenceProofs`: `TypeCorrect`, `KeepsPromise` (the refinement of
  `SavedState`), `AppletsWholeOrUntouched` (an applet's load is all or nothing; no
  app has this), `RestoresWhole`, for any width of words, any blob, any edits; of the
  reader, `StackIsPosition` (the refinement of `JsonReader`) for any document,
  unless an empty container is entered (`~EntersEmpty`).

The assumptions are those the modules declare on their constants
(`HostProxyAssumption`, `AppAssumption`, `FooterAssumption`, `AppletAssumption`,
`ClkDivMultAssumption`, `ClockInputAssumption`, `DivSequenceAssumption`,
`ClockManagerAssumption`,
`PersistenceAssumption`), and TLC evaluates them in the runs.

The argument for the lanes: `LanesFollowSelectors` speaks of a drawn and unedited
preset and is not inductive, since a draw that finds the table unchanged keeps its
lanes. The strengthening (`LanesDescribed`) speaks of no preset at all: a lane that
is not pending has the slot which the *table itself* names for the entry its
selector is at, and a bound lane shows what an entry of the table describes. Equal
tables name equal slots, so a draw carries it over to the live preset.

The argument for the applets: `PerInstanceState` holds exactly what the instance has
seen (`Remembers`), and while a pulse is the last thing written the countdown is
what is left of it (`PulseCounted`).

The argument for an app: the ticks and the remainder grow by what the frames add, up
to the overflow of the counter (`TimeAdds`); before the first draw nothing reaches
the settings, since a constructed instance is not alive (`Sentinel`); and a button
down on the app's page was pressed there, so the time since its stamp is the time it
has been held (`HoldsTimed`). All three fail with a second instance, which resets
`ticks` and the settings from its construct: `OneInstance` is not a convenience. `LongBuffers`, every buffer
runs a tick, holds of four frames up to 66664 Hz and of eight up to 133328 Hz; a
buffer too short to run a tick does not scan.

The argument for divisions: once a trigger was put out at a setting, the count is
the clocks since (`Counted`); until then it is whatever an earlier setting left,
and the clocks it still swallows with those it has are at most the setting
(`Settling`). For multiplications: the divider has the last two clocks right
(`Timely`), and after c triggers waits for the clock plus c + 1 parts of the cycle,
or for the next clock once all are out (`Waiting`); one tick of that is `OneTick`.

The argument for sequences: the properties speak of the clocks since the reset, the
code of a step and a count. They are tied by a number: of the clocks of a round, those
earlier than the one the sequence is at are as many as the clocks since step 0's
first turn, modulo the round (`OnSchedule`). Within a turn, and from a turn to the
next, exactly one more clock is earlier (`NextInTurn`, `NextTurn`), or the round
starts anew (`FirstRound`); Poke's loop stops at the nearest active step, so it
skips none (`NextIsNearest`). The clock the schedule chooses is then the one the
sequence is at, since no two clocks of a round have equally many earlier ones
(`PlacesDiffer`). For the triggers, the current divider's own count agrees with the
turn's if it divides, and if it multiplies it waits with the cycle of all clocks,
those in other steps' turns included, which it has from the sequence (`InTurn`).

The argument for the clock: none of its properties is inductive, since what a count
means depends on the setting it was counted under. A beat is *calm* if no setting
changed since a downbeat before it, the counter does not overflow in it and no two
tocks of a channel are due on one tick (`Spaced`; a shuffle and few ticks can make
them). In a calm beat (`Calm`) a multiplying channel has fired count - 1 times
and its next tock is due later (`OnTime`), a dividing one has counted one less than the
beats since its tock, or has not had one for fewer beats than its division
(`InStep`), and the beat is younger than its length (`InBeat`). A downbeat starts
such a beat whatever the counts were (`BeatBegins`): the reset skips the
multiplying channels to 1 together. Every other tick goes on with it (`BeatGoesOn`).

The argument for saved states: the object holds each part not lost exactly once, as
saved or spoilt, among members of other names (`ObjectKept`); every edit keeps that,
adjusting `kept`. While a load runs, its locals are what it has read of the parts so
far, 0 elsewhere (`ReadSoFar`). At the end all parts have been read (`AllRead`), and
a word survives the signed int it was written as (`UnsignedOfSigned`), so the loop's
last step is `Restore` or `Refuse` of `SavedState`; a spoilt member returns early,
which is `Refuse`; every other step of a load is a stutter. An applet accepts only
with both halves read, so nothing is lost and `Restore` brings back all of `kept`.

The argument for the reader: what is below a value is an interval of the document
(`Span`), so the children of a value are met one after another, each where all of
the one before ends, and the last ends where the value does (`ChildrenFollow`). In a
stack of frames all but the last have more to come, and what comes next in a frame
is what follows all of the node of the frame above it; nothing follows the node of
the first (`Stacked`). Hence popping the last frame when it is exhausted resumes
where its node ends (`AdvancedIs`), and one frame is all a call can exhaust, since a
container is pushed after the frame it exhausts is gone (`EnteredIs`).

Liveness and ENABLED are out of the prover's reach and model-checked only
(`ScreenReleased`, `SyncsRun`). So is `ParsesAsWritten`, that the parser, recursive
over data, makes a tree of what was written: `StackIsPosition` begins with one. The
violated properties have no theorem.

## 5. Findings

See `findings` in `PROJECT.json`. With a run that shows it:

- a refresh of the hosts' enum that a selector call swallows (`hemi_lost_refresh`);
- outputs that the instances of an applet share (`applet_instances`).

Met while modelling, with no run of their own:

- a lane set to "---" shows the applet of its default entry; selections are
  ordinals where the design document says slots;
- the release of the only control held does not defer the screensaver;
- the tick counter is shared by the instances of an app plug-in and reset by each
  construct: `KeepsTime` is violated with `Instances = {one, two}`;
- `Changed` compares with the last CV reported, not with that of the step before;
- `Stop` and `Pause` leave `tock` set: a clock stopped on a tock keeps answering it;
- an empty JSON container, once entered, is never left: `ReadsAsWritten` is
  violated with `EntersEmpty = TRUE`;
- muted steps of a divider sequence are not always silent;
- an app whose object lost a word restores 0 in its place and keeps the others:
  `LoadsWhatIsKept` allows it, since `Persistence` instantiates `SavedState` with
  `tolerant <- (runtime = "app")`, and is violated with `tolerant <- FALSE`.

The host design document also says that the host mirrors a watched algorithm's own
edits at the next draw; no code reads values back.

## 6. Not modelled

- Vendored code, about half of all source lines:
  `harness/include/catch.hpp` and `catch_main.cpp` are the test framework, and
  `bjorklund.cpp` is a table of patterns. The bodies of applets and apps, and the NT API,
  are submodules that are not in the repository; they are external in the models.
- The wrappers: some seventy files in `plugins/applets` and `plugins/apps` that
  include a vendor source and one of the two runtimes, with a table of names each.
- `render_view` and `customUi` of the applet runtime, which call the vendor applet
  and keep nothing; `refresh_oc_inputs` and `flush_oc_outputs` of the app runtime,
  conversions of voltages without state.
- The external-clock half of `SyncTrig`, `Nudge` and `SetClockPPQN`: no caller in
  the repository reaches them.
- An app whose blob is longer than `kMaxBlobBytes`, which saves and restores nothing
  (`PersistenceAssumption`), and a firmware that cannot describe one of a slot's own
  parameters, which cuts the lane's count short of it (`Aggregate`).
- The base64 helpers of `_per_app_runtime.h`: dead code.
- CV and trigger maps, `PackingUtils`: clamped assignments and shifts of bytes.
- OC DAC: conversions, and a history ring that a screensaver draws.
- Menus, graphics, `HSUtils`: pixel output with one clamped cursor.
- Relabi and Lorenz managers: mailboxes between vendor applets.
- Quantiser: `Process` and `Lookup` are here, the class with `Configure` and the
  scales in a submodule, so that what a change of scale does to the kept cell
  cannot be read.
- The harness's simulated firmware and loader: the models leave the firmware
  external, which allows every order the harness takes and more. The probes and the
  verifier are measurements; the reentrancy probe's result is an assumption of
  `HostCore`.
