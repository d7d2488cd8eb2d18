-------------------------- MODULE AppletRuntimeProofs --------------------------
(***************************************************************************)
(* What AppletRuntime promises an applet's Controller, for any instances,  *)
(* buffers, gates and voltages.                                            *)
(*                                                                         *)
(* Edges and changes are told right because PerInstanceState holds exactly *)
(* what the instance has seen (Remembers); pulses are exact because the    *)
(* countdown is what is left of the pulse and the output is high until it  *)
(* is over (PulseCounted), which another instance's tick would break were  *)
(* it not the end of the history of the pulse.                             *)
(***************************************************************************)
EXTENDS AppletRuntime, TLAPS

Remembers == gatePrev = level /\ lastCv = told

PulseCounted ==
  pulse # NoPulse =>
    /\ pulse.age <= pulse.length
    /\ frame.countdown = pulse.length - pulse.age
    /\ frame.output = IF pulse.age < pulse.length THEN High ELSE 0

IInv == TypeOK /\ Remembers /\ EdgesTold /\ ChangesTold /\ PulseCounted

-----------------------------------------------------------------------------
LEMMA InnerTicksPositive ==
  ASSUME NEW frames \in BufferSizes
  PROVE  InnerTicks(frames) \in Nat \ {0}
BY AppletAssumption DEF InnerTicks

LEMMA PulseTicksPositive ==
  ASSUME NEW n \in PulseLengths
  PROVE  PulseTicks(n) \in Nat \ {0}
BY AppletAssumption DEF PulseTicks

LEMMA FurtherIsBoolean ==
  ASSUME NEW a \in Cvs \cup {0}, NEW b \in Cvs \cup {0}
  PROVE  (Distance(a, b) > ChangeThreshold) \in BOOLEAN
<1>1. Distance(a, b) \in Int /\ ChangeThreshold \in Int
  BY AppletAssumption DEF Distance
<1> QED
  BY <1>1

\* What an instance sees of a gate is a buffer of its own.
LEMMA GateSeenType ==
  ASSUME TypeOK, NEW i \in Instances, NEW gate \in Gates
  PROVE  LET seen == GateSeen(i, gate) IN seen[Len(seen)] \in BOOLEAN
<1>1. gate \in Seq(BOOLEAN) /\ gate # <<>>
  BY AppletAssumption
<1>2. gate[Len(gate)] \in BOOLEAN
  BY <1>1
<1>3. <<FALSE>>[Len(<<FALSE>>)] \in BOOLEAN
  OBVIOUS
<1> QED
  BY <1>2, <1>3 DEF GateSeen

\* A gate that is not routed never rises, so read_gate need not look.
LEMMA RisingIsSeen ==
  ASSUME TypeOK, Remembers, NEW i \in Instances, NEW gate \in Gates
  PROVE  Rising(i, gate) <=> Rises(level[i], GateSeen(i, gate))
<1>1. CASE "gate" \in routed[i]
  BY <1>1 DEF Rising, GateSeen, Remembers
<1>2. CASE "gate" \notin routed[i]
  <2>1. GateSeen(i, gate) = <<FALSE>>
    BY <1>2 DEF GateSeen
  <2>2. DOMAIN <<FALSE>> = {1} /\ <<FALSE>>[1] = FALSE
    OBVIOUS
  <2>3. ~ Rises(level[i], <<FALSE>>)
    BY <2>2 DEF Rises
  <2> QED
    BY <1>2, <2>1, <2>3 DEF Rising
<1> QED
  BY <1>1, <1>2

-----------------------------------------------------------------------------
LEMMA InitInductive == Init => IInv
<1> SUFFICES ASSUME Init PROVE IInv
  OBVIOUS
<1> USE DEF Init
<1>1. TypeOK
  <2>1. ticks \in 0 .. TickModulus - 1
    BY AppletAssumption
  <2> QED
    BY <2>1 DEF TypeOK, EmptyFrame, Idle, NoPulse, Buses
<1>2. Remembers /\ PulseCounted
  BY DEF Remembers, PulseCounted
<1>3. EdgesTold /\ ChangesTold
  BY DEF EdgesTold, ChangesTold, Stepping, Idle
<1> QED
  BY <1>1, <1>2, <1>3 DEF IInv

LEMMA FillInductive ==
  ASSUME IInv, NEW i \in Instances, NEW frames \in BufferSizes, NEW gate \in Gates,
         NEW cv \in Cvs, Fill(i, frames, gate, cv)
  PROVE  IInv'
<1> DEFINE seen == GateSeen(i, gate)
           last == seen[Len(seen)]
           heard == CvSeen(i, cv)
<1> USE DEF IInv
<1>1. last \in BOOLEAN
  BY GateSeenType
<1>2. heard \in Cvs \cup {0}
  BY DEF CvSeen
<1>3. InnerTicks(frames) \in Nat
  BY InnerTicksPositive
<1>4. Rising(i, gate) \in BOOLEAN
  BY DEF Rising, Rises
<1>5. Rises(level[i], seen) <=> Rising(i, gate)
  BY RisingIsSeen
<1>6. i \in live /\ i # Nobody /\ doing' = [of |-> i, left |-> InnerTicks(frames)]
  BY AppletAssumption DEF Fill
<1>7. UNCHANGED <<ticks, live, routed, pulse>>
  BY DEF Fill
<1>8. frame' = [frame EXCEPT !.clocked = Rising(i, gate), !.high = last, !.input = heard,
                             !.changed = Distance(heard, lastCv[i]) > ChangeThreshold]
  BY DEF Fill
<1>9. /\ gatePrev' = [gatePrev EXCEPT ![i] = last]
      /\ level' = [level EXCEPT ![i] = last]
      /\ rose' = Rises(level[i], seen)
  BY DEF Fill, GatePrevAfter
<1>10. /\ lastCv' = LastCvAfter(i, heard)
       /\ moved' = (Distance(heard, told[i]) > ChangeThreshold)
       /\ told' = IF moved' THEN [told EXCEPT ![i] = heard] ELSE told
  BY DEF Fill
<1>11. lastCv' \in [Instances -> Cvs \cup {0}] /\ told' = lastCv'
  BY <1>2, <1>10 DEF LastCvAfter, TypeOK, Remembers
<1> HIDE DEF seen, last, heard
<1>12. TypeOK'
  <2>0. /\ (Distance(heard, lastCv[i]) > ChangeThreshold) \in BOOLEAN
        /\ (Distance(heard, told[i]) > ChangeThreshold) \in BOOLEAN
    BY <1>2, FurtherIsBoolean DEF TypeOK
  <2>1. frame' \in [clocked : BOOLEAN, high : BOOLEAN, input : Cvs \cup {0},
                    changed : BOOLEAN, countdown : Nat, output : Levels \cup {0, High}]
    BY <1>1, <1>2, <1>4, <1>8, <2>0 DEF TypeOK
  <2>2. moved' \in BOOLEAN
    BY <1>10, <2>0, Zenon
  <2>3. Rises(level[i], seen) \in BOOLEAN
    BY DEF Rises
  <2>4. rose' \in BOOLEAN
    BY <1>9, <2>3, Zenon
  <2> QED
    BY <1>1, <1>3, <1>6, <1>7, <1>9, <1>11, <2>1, <2>2, <2>4 DEF TypeOK
<1>13. Remembers'
  BY <1>9, <1>11 DEF Remembers
<1>14. EdgesTold'
  BY <1>5, <1>8, <1>9 DEF EdgesTold, TypeOK
<1>15. ChangesTold'
  BY <1>8, <1>10 DEF ChangesTold, TypeOK, Remembers
<1>16. PulseCounted'
  BY <1>7, <1>8 DEF PulseCounted, TypeOK, NoPulse
<1> QED
  BY <1>12, <1>13, <1>14, <1>15, <1>16

LEMMA TickInductive ==
  ASSUME IInv, NEW i \in Instances, NEW w \in Writes, Tick(i, w)
  PROVE  IInv'
<1> DEFINE counted == CountedDown(frame)
<1> USE DEF IInv
<1>1. /\ doing.of = i /\ doing.left > 0 /\ i # Nobody
      /\ doing' = [doing EXCEPT !.left = @ - 1]
      /\ UNCHANGED <<input_vars, live, routed, history_vars>>
  BY AppletAssumption DEF Tick
<1>2. ticks' \in 0 .. TickModulus - 1
  BY AppletAssumption DEF Tick, TypeOK
<1>3. /\ counted \in [clocked : BOOLEAN, high : BOOLEAN, input : Cvs \cup {0},
                      changed : BOOLEAN, countdown : Nat, output : Levels \cup {0, High}]
      /\ counted.clocked = frame.clocked /\ counted.changed = frame.changed
      /\ frame.countdown = 0 => counted = frame
      /\ frame.countdown > 0 =>
           /\ counted.countdown = frame.countdown - 1
           /\ counted.output = IF frame.countdown = 1 THEN 0 ELSE frame.output
  <2>1. frame.countdown \in Nat
    BY DEF TypeOK
  <2>2. CASE frame.countdown = 0
    BY <2>2 DEF CountedDown, TypeOK
  <2>3. CASE frame.countdown > 0
    <3>1. counted = [frame EXCEPT !.countdown = @ - 1,
                                  !.output = IF frame.countdown = 1 THEN 0 ELSE @]
      BY <2>1, <2>3 DEF CountedDown
    <3>2. (IF frame.countdown = 1 THEN 0 ELSE frame.output) \in Levels \cup {0, High}
      BY DEF TypeOK
    <3>3. frame.countdown - 1 \in Nat
      BY <2>1, <2>3
    <3>4. frame.countdown # 0
      BY <2>3
    <3> HIDE DEF counted
    <3>5. /\ counted \in [clocked : BOOLEAN, high : BOOLEAN, input : Cvs \cup {0},
                          changed : BOOLEAN, countdown : Nat, output : Levels \cup {0, High}]
          /\ counted.clocked = frame.clocked /\ counted.changed = frame.changed
      BY <3>1, <3>2, <3>3 DEF TypeOK
    <3>6. /\ counted.countdown = frame.countdown - 1
          /\ counted.output = IF frame.countdown = 1 THEN 0 ELSE frame.output
      BY <3>1 DEF TypeOK
    <3> QED
      BY <3>4, <3>5, <3>6
  <2> QED
    BY <2>1, <2>2, <2>3
<1>4. frame' = Written(counted, w)
  BY DEF Tick
<1> HIDE DEF counted
<1> DEFINE Kept ==
      /\ frame' \in [clocked : BOOLEAN, high : BOOLEAN, input : Cvs \cup {0},
                     changed : BOOLEAN, countdown : Nat, output : Levels \cup {0, High}]
      /\ frame'.clocked = frame.clocked /\ frame'.changed = frame.changed
      /\ pulse' \in [of : Instances \cup {Nobody}, age : Nat, length : Nat]
      /\ PulseCounted'
<1>5. Kept
  <2>1. CASE w = NoWrite
    <3>1. frame' = counted
      BY <1>4, <2>1 DEF Written, NoWrite
    <3>2. CASE pulse.of = i
      <4>1. pulse' = [pulse EXCEPT !.age = IF @ < pulse.length THEN @ + 1 ELSE @]
        BY <2>1, <3>2 DEF Tick, NoWrite
      <4>2. pulse # NoPulse
        BY <1>1, <3>2 DEF NoPulse
      <4>3. pulse' \in [of : Instances \cup {Nobody}, age : Nat, length : Nat]
        BY <4>1 DEF TypeOK
      <4>4. /\ pulse'.length = pulse.length
            /\ pulse'.age = IF pulse.age < pulse.length THEN pulse.age + 1 ELSE pulse.age
        BY <4>1 DEF TypeOK
      <4>5. /\ pulse.age <= pulse.length
            /\ frame.countdown = pulse.length - pulse.age
            /\ frame.output = IF pulse.age < pulse.length THEN High ELSE 0
        BY <4>2 DEF PulseCounted
      <4>6. PulseCounted'
        <5>1. pulse.age \in Nat /\ pulse.length \in Nat
          BY DEF TypeOK
        <5>2. CASE pulse.age < pulse.length
          BY <1>3, <3>1, <4>4, <4>5, <5>1, <5>2 DEF PulseCounted
        <5>3. CASE pulse.age = pulse.length
          BY <1>3, <3>1, <4>4, <4>5, <5>1, <5>3 DEF PulseCounted
        <5> QED
          BY <4>5, <5>1, <5>2, <5>3
      <4> QED
        BY <1>3, <3>1, <4>3, <4>6
    <3>3. CASE pulse.of # i
      <4>1. pulse' = NoPulse
        BY <2>1, <3>3 DEF Tick, NoWrite
      <4> QED
        BY <1>3, <3>1, <4>1 DEF PulseCounted, NoPulse
    <3> QED
      BY <3>2, <3>3
  <2>2. ASSUME NEW x \in Levels, w = Level(x)
        PROVE  Kept
    <3>1. frame' = [counted EXCEPT !.output = x]
      BY <1>4, <2>2 DEF Written, Level
    <3>2. pulse' = NoPulse
      BY <2>2 DEF Tick, Level
    <3> QED
      BY <1>3, <3>1, <3>2 DEF PulseCounted, NoPulse
  <2>3. ASSUME NEW n \in PulseLengths, w = Pulse(n)
        PROVE  Kept
    <3>1. frame' = [counted EXCEPT !.output = High, !.countdown = PulseTicks(n)]
      BY <1>4, <2>3 DEF Written, Pulse
    <3>2. pulse' = [of |-> i, age |-> 0, length |-> PulseTicks(n)]
      BY <2>3 DEF Tick, Pulse
    <3>3. PulseTicks(n) \in Nat \ {0}
      BY PulseTicksPositive
    <3>4. /\ pulse'.age = 0 /\ pulse'.length = PulseTicks(n)
          /\ frame'.countdown = PulseTicks(n) /\ frame'.output = High
      BY <1>3, <3>1, <3>2
    <3>5. PulseCounted'
      BY <3>3, <3>4 DEF PulseCounted
    <3> QED
      BY <1>3, <3>1, <3>2, <3>3, <3>5
  <2> QED
    BY <2>1, <2>2, <2>3 DEF Writes
<1>6. TypeOK'
  BY <1>1, <1>2, <1>5 DEF TypeOK, input_vars, history_vars
<1>7. Remembers'
  BY <1>1 DEF Remembers, input_vars, history_vars
<1>8. EdgesTold' /\ ChangesTold'
  BY <1>1, <1>5 DEF EdgesTold, ChangesTold, Stepping, TypeOK, input_vars, history_vars
<1> QED
  BY <1>5, <1>6, <1>7, <1>8

LEMMA FlushInductive ==
  ASSUME IInv, NEW i \in Instances, Flush(i)
  PROVE  IInv'
<1> SUFFICES doing' = Idle /\ UNCHANGED <<ticks, frame, input_vars, live, routed, history_vars, pulse>>
  BY DEF IInv, TypeOK, Remembers, EdgesTold, ChangesTold, Stepping, PulseCounted, Idle,
         input_vars, history_vars
<1> QED
  BY DEF Flush

LEMMA ConstructInductive ==
  ASSUME IInv, NEW i \in Instances, Construct(i)
  PROVE  IInv'
<1> USE DEF IInv, Construct
<1>1. TypeOK'
  BY DEF TypeOK, Idle
<1>2. Remembers'
  BY DEF Remembers
<1>3. EdgesTold' /\ ChangesTold' /\ PulseCounted'
  BY DEF EdgesTold, ChangesTold, Stepping, PulseCounted, Idle
<1> QED
  BY <1>1, <1>2, <1>3

LEMMA FirmwareInductive ==
  ASSUME IInv, NEW i \in Instances,
         Remove(i) \/ \E b \in Reroutable : Reroute(i, b)
  PROVE  IInv'
<1> USE DEF IInv, Remove, Reroute
<1>1. /\ doing = Idle /\ doing' = Idle /\ live' \subseteq live
      /\ UNCHANGED <<ticks, frame, input_vars, history_vars, pulse>>
  BY DEF TypeOK
<1>2. routed' \in [Instances -> SUBSET Buses]
  BY AppletAssumption DEF TypeOK
<1>3. TypeOK'
  BY <1>1, <1>2 DEF TypeOK, Idle, input_vars, history_vars
<1>4. Remembers' /\ EdgesTold' /\ ChangesTold' /\ PulseCounted'
  BY <1>1 DEF Remembers, EdgesTold, ChangesTold, Stepping, PulseCounted, Idle, input_vars, history_vars
<1> QED
  BY <1>3, <1>4

-----------------------------------------------------------------------------
LEMMA NextInductive == IInv /\ [Next]_vars => IInv'
<1> SUFFICES ASSUME IInv, [Next]_vars PROVE IInv'
  OBVIOUS
<1>1. CASE UNCHANGED vars
  BY <1>1 DEF IInv, TypeOK, Remembers, EdgesTold, ChangesTold, Stepping, PulseCounted,
              vars, input_vars, history_vars
<1>2. ASSUME NEW i \in Instances, Around(i) PROVE IInv'
  BY <1>2, FillInductive, FlushInductive, ConstructInductive, FirmwareInductive DEF Around
<1>3. ASSUME NEW i \in Instances, NEW w \in Writes, Tick(i, w) PROVE IInv'
  BY <1>3, TickInductive
<1> QED
  BY <1>1, <1>2, <1>3 DEF Next

LEMMA Inductive == Spec => []IInv
BY InitInductive, NextInductive, PTL DEF Spec

\* The frame, the edge state and the control point of step keep their types,
\* the countdown never goes below 0 and only live instances step.
THEOREM TypeCorrect == Spec => []TypeOK
<1>1. IInv => TypeOK
  BY DEF IInv
<1> QED
  BY <1>1, Inductive, PTL

\* A Controller is told of exactly the rises of the gate its instance sees.
THEOREM EdgesAreTold == Spec => []EdgesTold
<1>1. IInv => EdgesTold
  BY DEF IInv
<1> QED
  BY <1>1, Inductive, PTL

\* A Controller is told of exactly the moves of its CV past the threshold.
THEOREM ChangesAreTold == Spec => []ChangesTold
<1>1. IInv => ChangesTold
  BY DEF IInv
<1> QED
  BY <1>1, Inductive, PTL

\* A clock put out lasts as many ticks as it was asked to, and no more.
THEOREM PulsesAreExact == Spec => []PulsesExact
<1>1. IInv => PulsesExact
  BY DEF IInv, PulseCounted, PulsesExact
<1> QED
  BY <1>1, Inductive, PTL
================================================================================
