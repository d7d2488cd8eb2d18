---------------------------- MODULE AppletRuntime ----------------------------
(***************************************************************************)
(* The runtime every applet plug-in is built on                            *)
(* (plugins/applets/_per_applet_runtime.h, hem_shim.h, HSIOFrame.h),       *)
(* around an external applet with a gate input, a CV input and an output.  *)
(* Its channels do not interact, so one of each kind stands for all.       *)
(*                                                                         *)
(* step fills the frame from the buses, runs the applet's Controller a     *)
(* number of inner ticks and writes the frame's outputs; the model takes   *)
(* it in these parts, Fill, Tick and Flush, and nothing comes in between.  *)
(* HS::frame and OC::CORE::ticks are file-scope objects that instances of  *)
(* one plug-in share; PerInstanceState each instance has for itself.       *)
(***************************************************************************)
EXTENDS Integers, Sequences

CONSTANTS
  Instances,        \* instances of one applet plug-in
  BufferSizes,      \* frames of a buffer
  Gates,            \* the levels the gate bus goes through in one buffer
  Cvs,              \* means of the CV bus over one buffer
  ChangeThreshold,  \* 32
  PulseLengths,     \* arguments of the applet's ClockOut
  ClockTicks,       \* HEMISPHERE_CLOCK_TICKS
  High,             \* PULSE_VOLTAGE * ONE_OCTAVE
  Levels,           \* what else the applet puts out
  Reroutable,       \* the bus parameters the user moves
  TickModulus,      \* 2^32, the width of OC::CORE::ticks
  Nobody            \* no instance

Buses == {"gate", "cv", "out"}

ASSUME AppletAssumption ==
  /\ BufferSizes \subseteq Nat
  /\ Gates \subseteq Seq(BOOLEAN) \ {<<>>}
  /\ Cvs \subseteq Int /\ ChangeThreshold \in Nat
  /\ PulseLengths \subseteq Int /\ ClockTicks \in Nat \ {0}
  /\ High \in Int \ {0} /\ Levels \subseteq Int
  /\ Reroutable \subseteq Buses
  /\ TickModulus \in Nat \ {0}
  /\ Nobody \notin Instances

VARIABLES
  \* file scope
  ticks,      \* OC::CORE::ticks
  frame,      \* HS::frame: what the inputs said, the output, its countdown
  \* PerInstanceState
  gatePrev,   \* gate_prev
  lastCv,     \* last_cv
  \* the firmware, external
  live,       \* the constructed instances
  routed,     \* the buses an instance has, its v[] above 0
  \* the control point of step
  doing,      \* the instance in step and its inner ticks to go
  \* history
  level,      \* where the gate an instance sees was left
  rose,       \* it rose in this buffer
  told,       \* the CV an instance was last told of
  moved,      \* it is told of one in this buffer
  pulse       \* the last write to the output, if a ClockOut

input_vars == <<gatePrev, lastCv>>
history_vars == <<level, rose, told, moved>>
vars == <<ticks, frame, input_vars, live, routed, doing, history_vars, pulse>>

-----------------------------------------------------------------------------
(***************************************************************************)
(* The frame.                                                              *)
(***************************************************************************)

Idle == [of |-> Nobody, left |-> 0]
NoPulse == [of |-> Nobody, age |-> 0, length |-> 0]

EmptyFrame == [clocked |-> FALSE, high |-> FALSE, input |-> 0,
               changed |-> FALSE, countdown |-> 0, output |-> 0]

Distance(a, b) == IF a < b THEN b - a ELSE a - b

\* read_gate over the levels of a buffer, from the level prev before it.
Rises(prev, gate) ==
  \E k \in DOMAIN gate : gate[k] /\ ~(IF k = 1 THEN prev ELSE gate[k - 1])

\* Controller calls of one step.
InnerTicks(frames) == IF frames \div 3 < 1 THEN 1 ELSE frames \div 3

\* The writes a Controller may make: none, a level, a pulse.
NoWrite == [kind |-> "none"]
Level(x) == [kind |-> "level", to |-> x]
Pulse(n) == [kind |-> "pulse", ticks |-> n]
Writes == {NoWrite} \cup {Level(x) : x \in Levels} \cup {Pulse(n) : n \in PulseLengths}

\* Mutant: no default, so that a countdown of 0 or less never ends.
PulseTicksAsked(n) == n

PulseTicks(n) == IF n <= 0 THEN ClockTicks ELSE n

\* Mutant: the countdown stops one tick short.
CountedDownEarly(f) ==
  IF f.countdown <= 0 THEN f
  ELSE [f EXCEPT !.countdown = @ - 1,
                 !.output = IF f.countdown <= 2 THEN 0 ELSE @]

\* The countdown of one inner tick: the tick that ends it lowers the output,
\* whatever the output holds by then.
CountedDown(f) ==
  IF f.countdown <= 0 THEN f
  ELSE [f EXCEPT !.countdown = @ - 1,
                 !.output = IF f.countdown = 1 THEN 0 ELSE @]

\* Out leaves the countdown alone, ClockOut sets it anew.
Written(f, w) ==
  CASE w.kind = "none"  -> f
    [] w.kind = "level" -> [f EXCEPT !.output = w.to]
    [] w.kind = "pulse" -> [f EXCEPT !.output = High, !.countdown = PulseTicks(w.ticks)]

-----------------------------------------------------------------------------
(***************************************************************************)
(* Inputs.                                                                 *)
(***************************************************************************)

\* Mutants: state that the instances share, or that a small move wears off.
GatePrevShared(i, last) == [j \in Instances |-> last]
LastCvDrifting(i, cv) == [lastCv EXCEPT ![i] = cv]

\* gate_prev once a buffer has left the gate at a level.
GatePrevAfter(i, last) == [gatePrev EXCEPT ![i] = last]

\* last_cv moves only with a change that is reported.
LastCvAfter(i, cv) ==
  IF Distance(cv, lastCv[i]) > ChangeThreshold THEN [lastCv EXCEPT ![i] = cv]
                                               ELSE lastCv

\* What instance i makes of a bus: an unrouted gate is low, an unrouted CV 0.
GateSeen(i, gate) == IF "gate" \in routed[i] THEN gate ELSE <<FALSE>>
CvSeen(i, cv) == IF "cv" \in routed[i] THEN cv ELSE 0

\* read_gate does not look at a bus that is not routed.
Rising(i, gate) == "gate" \in routed[i] /\ Rises(gatePrev[i], gate)

-----------------------------------------------------------------------------
(***************************************************************************)
(* step.                                                                   *)
(***************************************************************************)

\* populate_frame_from_bus.
Fill(i, frames, gate, bus) ==
  LET seen == GateSeen(i, gate)
      last == seen[Len(seen)]
      cv == CvSeen(i, bus)
  IN
  /\ doing = Idle /\ i \in live
  /\ doing' = [of |-> i, left |-> InnerTicks(frames)]
  /\ frame' = [frame EXCEPT
                 !.clocked = Rising(i, gate),
                 !.high = last,
                 !.input = cv,
                 !.changed = Distance(cv, lastCv[i]) > ChangeThreshold]
  /\ gatePrev' = GatePrevAfter(i, last)
  /\ lastCv' = LastCvAfter(i, cv)
  /\ level' = [level EXCEPT ![i] = last]
  /\ rose' = Rises(level[i], seen)
  /\ moved' = (Distance(cv, told[i]) > ChangeThreshold)
  /\ told' = IF moved' THEN [told EXCEPT ![i] = cv] ELSE told
  /\ UNCHANGED <<ticks, live, routed, pulse>>

\* One round of run_controller_inner_ticks, w what the Controller writes.
Tick(i, w) ==
  /\ doing.of = i /\ doing.left > 0
  /\ doing' = [doing EXCEPT !.left = @ - 1]
  /\ ticks' = (ticks + 1) % TickModulus
  /\ frame' = Written(CountedDown(frame), w)
  /\ pulse' = CASE w.kind = "pulse" ->
                     [of |-> i, age |-> 0, length |-> PulseTicks(w.ticks)]
                [] w.kind = "none" /\ pulse.of = i ->
                     [pulse EXCEPT !.age = IF @ < pulse.length THEN @ + 1 ELSE @]
                [] OTHER -> NoPulse
  /\ UNCHANGED <<input_vars, live, routed, history_vars>>

\* write_outputs_to_bus: nothing of the plug-in's own changes.
Flush(i) ==
  /\ doing.of = i /\ doing.left = 0
  /\ doing' = Idle
  /\ UNCHANGED <<ticks, frame, input_vars, live, routed, history_vars, pulse>>

\* What Flush puts on the bus of i with f as the frame.
FlushedBy(i, f) == IF "out" \in routed[i] THEN {f.output} ELSE {}

-----------------------------------------------------------------------------
(***************************************************************************)
(* The other entry points, and the firmware.                               *)
(***************************************************************************)

\* construct: new edge state, but the frame is as other instances left it.
Construct(i) ==
  /\ doing = Idle /\ i \notin live
  /\ live' = live \cup {i}
  /\ gatePrev' = [gatePrev EXCEPT ![i] = FALSE]
  /\ lastCv' = [lastCv EXCEPT ![i] = 0]
  /\ routed' = [routed EXCEPT ![i] = Buses]
  /\ level' = [level EXCEPT ![i] = FALSE]
  /\ told' = [told EXCEPT ![i] = 0]
  /\ UNCHANGED <<ticks, frame, doing, rose, moved, pulse>>

Remove(i) ==
  /\ doing = Idle /\ i \in live
  /\ live' = live \ {i}
  /\ UNCHANGED <<ticks, frame, input_vars, routed, doing, history_vars, pulse>>

\* The user moves a bus parameter to or from 0; parameterChanged does nothing.
Reroute(i, b) ==
  /\ doing = Idle /\ i \in live
  /\ routed' = [routed EXCEPT ![i] = IF b \in @ THEN @ \ {b} ELSE @ \cup {b}]
  /\ UNCHANGED <<ticks, frame, input_vars, live, doing, history_vars, pulse>>

Init ==
  /\ ticks = 0 /\ frame = EmptyFrame
  /\ gatePrev = [i \in Instances |-> FALSE]
  /\ lastCv = [i \in Instances |-> 0]
  /\ live = {}
  /\ routed = [i \in Instances |-> Buses]
  /\ doing = Idle
  /\ level = [i \in Instances |-> FALSE] /\ rose = FALSE
  /\ told = [i \in Instances |-> 0] /\ moved = FALSE
  /\ pulse = NoPulse

\* Everything but the Controller.
Around(i) ==
  \/ \E frames \in BufferSizes, gate \in Gates, cv \in Cvs : Fill(i, frames, gate, cv)
  \/ Flush(i)
  \/ Construct(i)
  \/ Remove(i)
  \/ \E b \in Reroutable : Reroute(i, b)

Next == \E i \in Instances : Around(i) \/ \E w \in Writes : Tick(i, w)

Spec == Init /\ [][Next]_vars

-----------------------------------------------------------------------------
TypeOK ==
  /\ ticks \in 0 .. TickModulus - 1
  /\ frame \in [clocked : BOOLEAN, high : BOOLEAN, input : Cvs \cup {0},
                changed : BOOLEAN, countdown : Nat, output : Levels \cup {0, High}]
  /\ gatePrev \in [Instances -> BOOLEAN] /\ lastCv \in [Instances -> Cvs \cup {0}]
  /\ live \subseteq Instances
  /\ routed \in [Instances -> SUBSET Buses]
  /\ doing \in [of : live \cup {Nobody}, left : Nat]
  /\ doing.of = Nobody => doing = Idle
  /\ level \in [Instances -> BOOLEAN] /\ rose \in BOOLEAN
  /\ told \in [Instances -> Cvs \cup {0}] /\ moved \in BOOLEAN
  /\ pulse \in [of : Instances \cup {Nobody}, age : Nat, length : Nat]

Stepping(i) == doing.of = i /\ doing.left > 0

\* The Controller of an instance is told of a clock in exactly the buffers in
\* which the gate that instance sees rises, whatever other instances see.
EdgesTold == \A i \in Instances : Stepping(i) => (frame.clocked <=> rose)

\* It is told of a CV change in exactly the buffers whose CV is further than
\* the threshold from the one it was last told of: a slow drift is noticed,
\* and another instance's CV is none of its business.
ChangesTold == \A i \in Instances : Stepping(i) => (frame.changed <=> moved)

\* A clock put out as the last write, with no other instance stepping since,
\* stays for as many ticks as it was asked to and not one more.
PulsesExact ==
  pulse # NoPulse =>
    frame.output = IF pulse.age < pulse.length THEN High ELSE 0
=============================================================================
