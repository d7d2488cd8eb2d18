--------------------------- MODULE AppRuntimeProofs ---------------------------
(***************************************************************************)
(* What AppRuntime promises an OC app, for any settings, rates, buffers    *)
(* and controls. Types are kept by any number of instances of a plug-in;   *)
(* the rest is said of one, since ticks, settings and the trigger scan are *)
(* file-scope objects (OneInstance).                                       *)
(***************************************************************************)
EXTENDS AppRuntime, TLAPS

OneInstance == \A i, j \in Instances : i = j

\* Every buffer runs at least one tick.
LongBuffers == \A frames \in BufferSizes : frames * IsrFreq >= SampleRate

-----------------------------------------------------------------------------
(***************************************************************************)
(* Arithmetic.                                                             *)
(***************************************************************************)

LEMMA TimesMonotone ==
  ASSUME NEW a \in Nat, NEW b \in Nat, NEW p \in Nat, a <= b
  PROVE  a * p <= b * p /\ a * p \in Nat
<1>1. PICK c \in Nat : b = a + c
  <2>1. b - a \in Nat /\ b = a + (b - a)
    OBVIOUS
  <2> QED
    BY <2>1
<1>2. (a + c) * p = a * p + c * p
  OBVIOUS
<1>3. c * p \in Nat /\ a * p \in Nat
  OBVIOUS
<1> QED
  BY <1>1, <1>2, <1>3

LEMMA ModUnique ==
  ASSUME NEW q \in Nat, NEW w \in Nat, NEW n \in Nat \ {0}, w < n
  PROVE  (q * n + w) % n = w
<1> DEFINE a == q * n + w
           d == a \div n
           r == a % n
<1>1. a \in Nat /\ q * n \in Nat
  OBVIOUS
<1>2. d \in Nat /\ r \in 0 .. n - 1 /\ a = d * n + r
  BY <1>1
<1> HIDE DEF d, r
<1>3. d = q
  <2>1. CASE d >= q + 1
    <3>1. (q + 1) * n <= d * n /\ (q + 1) * n = q * n + n /\ d * n \in Nat
      BY <1>2, <2>1, TimesMonotone
    <3> QED
      BY <1>1, <1>2, <3>1
  <2>2. CASE d + 1 <= q
    <3>1. (d + 1) * n <= q * n /\ (d + 1) * n = d * n + n /\ d * n \in Nat
      BY <1>2, <2>2, TimesMonotone
    <3> QED
      BY <1>1, <1>2, <3>1
  <2> QED
    BY <1>2, <2>1, <2>2
<1>4. r = w
  BY <1>1, <1>2, <1>3
<1> QED
  BY <1>4 DEF r

LEMMA TicksDueType ==
  ASSUME NEW x \in Nat
  PROVE  /\ TicksDue(x) \in Nat /\ Remainder(x) \in Nat /\ Remainder(x) < SampleRate
         /\ x = TicksDue(x) * SampleRate + Remainder(x)
BY AppAssumption DEF TicksDue, Remainder

\* What a step adds to the ticks and the remainder is what it adds to the
\* frames played, up to the overflow of the tick counter.
LEMMA TimeAdds ==
  ASSUME NEW t \in 0 .. TickModulus - 1, NEW n \in Nat, NEW f \in Nat
  PROVE  ((t + TicksDue(n + f)) % TickModulus) * SampleRate + Remainder(n + f)
           = (t * SampleRate + n + f) % (SampleRate * TickModulus)
<1> DEFINE k == TicksDue(n + f)
           r == Remainder(n + f)
           q == (t + k) \div TickModulus
           z == (t + k) % TickModulus
           w == z * SampleRate + r
<1>1. SampleRate \in Nat \ {0} /\ TickModulus \in Nat \ {0} /\ t \in Nat
  BY AppAssumption
<1>2. k \in Nat /\ r \in Nat /\ r < SampleRate /\ n + f = k * SampleRate + r
  BY TicksDueType
<1> HIDE DEF k, r
<1>3. q \in Nat /\ z \in 0 .. TickModulus - 1 /\ t + k = q * TickModulus + z
  BY <1>1, <1>2
<1> HIDE DEF q, z
<1>4. t * SampleRate + n + f = q * (SampleRate * TickModulus) + w
  <2>1. t * SampleRate + (n + f) = (t + k) * SampleRate + r
    BY <1>1, <1>2
  <2>2. (q * TickModulus + z) * SampleRate = q * (SampleRate * TickModulus) + z * SampleRate
    BY <1>1, <1>3
  <2> QED
    BY <1>1, <1>2, <1>3, <2>1, <2>2
<1>5. w \in Nat /\ w < SampleRate * TickModulus
  <2>1. z * SampleRate \in Nat /\ (z + 1) * SampleRate = z * SampleRate + SampleRate
    BY <1>1, <1>3
  <2>2. (z + 1) * SampleRate <= TickModulus * SampleRate
    BY <1>1, <1>3, TimesMonotone
  <2>3. TickModulus * SampleRate = SampleRate * TickModulus
    BY <1>1
  <2> QED
    BY <1>1, <1>2, <2>1, <2>2, <2>3
<1>6. SampleRate * TickModulus \in Nat \ {0}
  BY <1>1
<1>7. (q * (SampleRate * TickModulus) + w) % (SampleRate * TickModulus) = w
  BY <1>3, <1>5, <1>6, ModUnique
<1> QED
  BY <1>4, <1>7 DEF k, r, z
LEMMA FramesType ==
  ASSUME NEW frames \in BufferSizes
  PROVE  frames * IsrFreq \in Nat
BY AppAssumption

LEMMA FooterStep ==
  ASSUME NEW n \in FooterCounts
  PROVE  AfterStep(n) \in FooterCounts
BY FooterAssumption DEF AfterStep, Restoring, FooterCounts, NeverDrawn

LEMMA FooterEnds == NeverDrawn \in FooterCounts /\ AfterDraw \in FooterCounts
BY FooterAssumption DEF NeverDrawn, AfterDraw, FooterCounts

-----------------------------------------------------------------------------
(***************************************************************************)
(* Types.                                                                  *)
(***************************************************************************)

\* A load that is due has a preset to load.
Presets == [v : [Settings -> Values], settings : [Settings -> Values]]
LoadsSaved == \A i \in Instances : load[i] = "due" => saved \in Presets

TypeInv == TypeOK /\ LoadsSaved

LEMMA InitType == Init => TypeOK
<1> SUFFICES ASSUME Init PROVE TypeOK
  OBVIOUS
<1>1. 0 \in 0 .. TickModulus - 1 /\ 0 \in 0 .. LongPressTicks /\ Defaults \in [Settings -> Values]
  BY AppAssumption DEF Defaults
<1> QED
  BY <1>1, FooterEnds DEF Init, TypeOK

LEMMA ConstructType ==
  ASSUME TypeOK, NEW i \in Instances, NEW how \in {"new", "due"}, Construct(i, how)
  PROVE  TypeOK'
<1>1. 0 \in 0 .. TickModulus - 1 /\ Defaults \in [Settings -> Values]
  BY AppAssumption DEF Defaults
<1>2. (IF how = "due" THEN saved.v ELSE Defaults) \in [Settings -> Values]
  BY <1>1 DEF Construct, TypeOK
<1> QED
  BY <1>1, <1>2, FooterEnds DEF Construct, TypeOK, Set

LEMMA LoadType ==
  ASSUME TypeInv, NEW i \in Instances,
         Register(i) \/ Serialise(i) \/ Remove(i) \/ \E parsed \in BOOLEAN : Deserialise(i, parsed)
  PROVE  TypeOK'
<1> USE DEF TypeInv
<1>1. CASE Register(i) \/ Remove(i)
  BY <1>1 DEF Register, Remove, TypeOK, Set, shared_vars, control_vars, param_vars, clock_vars
<1>2. CASE Serialise(i)
  BY <1>2 DEF Serialise, TypeOK, shared_vars, control_vars, param_vars, clock_vars
<1>3. ASSUME NEW parsed \in BOOLEAN, Deserialise(i, parsed) PROVE TypeOK'
  <2>1. settings' \in [Settings -> Values]
    BY <1>3 DEF Deserialise, TypeOK, LoadsSaved, Presets
  <2> QED
    BY <1>3, <2>1 DEF Deserialise, TypeOK, Set, control_vars, param_vars, clock_vars
<1> QED
  BY <1>1, <1>2, <1>3

LEMMA StepType ==
  ASSUME TypeOK, NEW i \in Instances, StepAny(i)
  PROVE  TypeOK'
<1>1. PICK frames \in BufferSizes, high \in BOOLEAN : Step(i, frames, high)
  BY DEF StepAny
<1> DEFINE x == numerator[i] + frames * IsrFreq
           k == TicksDue(x)
<1>2. x \in Nat
  BY FramesType DEF TypeOK
<1>3. k \in Nat /\ Remainder(x) \in Nat
  BY <1>2, TicksDueType
<1>4. /\ numerator' = Set(numerator, i, Remainder(x))
      /\ ticks' = (ticks + k) % TickModulus
      /\ lastHigh' = LevelScanned(high, k)
      /\ sinceDraw' = Set(sinceDraw, i, AfterStep(sinceDraw[i]))
      /\ played' = Set(played, i, (played[i] + frames * IsrFreq) % (SampleRate * TickModulus))
      /\ bus' = Set(bus, i, high)
      /\ held' = [b \in Buttons |->
                    IF b \notin down \/ shown \notin {i, Nothing} THEN held[b]
                    ELSE IF held[b] + k < LongPressTicks THEN held[b] + k
                    ELSE LongPressTicks]
      /\ UNCHANGED <<settings, control_vars, alive, fw_vars, param_vars, down, pushed>>
  BY <1>1 DEF Step
<1> HIDE DEF x, k
<1>5. ticks' \in 0 .. TickModulus - 1
  BY <1>3, <1>4, AppAssumption DEF TypeOK
<1>6. numerator' \in [Instances -> Nat] /\ bus' \in [Instances -> BOOLEAN] /\ lastHigh' \in BOOLEAN
  BY <1>3, <1>4 DEF TypeOK, Set, LevelScanned
<1>7. sinceDraw' \in [Instances -> FooterCounts]
  BY <1>4, FooterStep DEF TypeOK, Set
<1>8. played' \in [Instances -> Nat]
  <2>1. SampleRate * TickModulus \in Nat \ {0}
    BY AppAssumption
  <2>2. played[i] + frames * IsrFreq \in Nat
    BY FramesType DEF TypeOK
  <2>3. (played[i] + frames * IsrFreq) % (SampleRate * TickModulus) \in Nat
    BY <2>1, <2>2
  <2> QED
    BY <1>4, <2>3 DEF TypeOK, Set
<1>9. held' \in [Buttons -> 0 .. LongPressTicks]
  BY <1>3, <1>4, AppAssumption DEF TypeOK
<1> QED
  BY <1>4, <1>5, <1>6, <1>7, <1>8, <1>9 DEF TypeOK, control_vars, fw_vars, param_vars

LEMMA DrawType ==
  ASSUME TypeOK, NEW i \in Instances, Draw(i)
  PROVE  TypeOK'
BY FooterEnds DEF Draw, TypeOK, Set, shared_vars, control_vars, fw_vars, param_vars, clock_vars

LEMMA ParameterType ==
  ASSUME TypeOK, NEW i \in Instances, NEW s \in Settings,
         ParameterChanged(i, s) \/ \E x \in Values : EditParameter(i, s, x)
  PROVE  TypeOK'
<1>1. CASE ParameterChanged(i, s)
  BY <1>1 DEF ParameterChanged, TypeOK, Set, control_vars, fw_vars, clock_vars
<1>2. ASSUME NEW x \in Values, EditParameter(i, s, x) PROVE TypeOK'
  BY <1>2 DEF EditParameter, TypeOK, Set, shared_vars, control_vars, fw_vars, clock_vars
<1> QED
  BY <1>1, <1>2

LEMMA CustomUiType ==
  ASSUME TypeOK, NEW i \in Instances, NEW now \in SUBSET Buttons, NEW turned \in BOOLEAN,
         CustomUi(i, now, turned)
  PROVE  TypeOK'
<1>1. settings' \in [Settings -> Values]
  BY DEF CustomUi, TypeOK
<1>2. v' \in [Instances -> [Settings -> Values]] /\ pending' \in [Instances -> SUBSET Settings]
      /\ pushed' \in [Instances -> BOOLEAN]
  <2>1. CASE ~ alive[i]
    BY <2>1 DEF CustomUi, TypeOK
  <2>2. CASE alive[i]
    <3>1. Diverged(i, settings') \subseteq Settings
      BY DEF Diverged
    <3>2. [s \in Settings |-> IF s \in Diverged(i, settings') THEN settings'[s] ELSE v[i][s]]
            \in [Settings -> Values]
      BY <1>1 DEF TypeOK
    <3>3. /\ v' = Set(v, i, [s \in Settings |->
                              IF s \in Diverged(i, settings') THEN settings'[s] ELSE v[i][s]])
          /\ pending' = Set(pending, i, pending[i] \cup Diverged(i, settings'))
          /\ pushed' = Set(pushed, i, TRUE)
      BY <2>2 DEF CustomUi
    <3>4. v' \in [Instances -> [Settings -> Values]]
      BY <3>2, <3>3 DEF TypeOK, Set
    <3>5. pending' \in [Instances -> SUBSET Settings] /\ pushed' \in [Instances -> BOOLEAN]
      BY <3>1, <3>3 DEF TypeOK, Set
    <3> QED
      BY <3>4, <3>5
  <2> QED
    BY <2>1, <2>2
<1>3. heldSince' \in [Instances -> [Buttons -> 0 .. TickModulus - 1]]
  BY DEF CustomUi, TypeOK
<1>4. lastControls' \in [Instances -> SUBSET Buttons] /\ down' \subseteq Buttons
      /\ lastActive' \in [Instances -> 0 .. TickModulus - 1]
  BY DEF CustomUi, TypeOK, Set
<1>5. held' \in [Buttons -> 0 .. LongPressTicks]
  BY AppAssumption DEF CustomUi, TypeOK
<1> QED
  BY <1>1, <1>2, <1>3, <1>4, <1>5 DEF CustomUi, TypeOK, fw_vars, clock_vars

LEMMA FirmwareType ==
  ASSUME TypeOK,
         \/ RateSet
         \/ \E page \in Instances \cup {Nothing} : ShowPage(page)
         \/ \E now \in SUBSET Buttons : OtherPage(now)
  PROVE  TypeOK'
<1>1. CASE RateSet
  BY <1>1 DEF RateSet, TypeOK, shared_vars, control_vars, param_vars, clock_vars
<1>2. ASSUME NEW page \in Instances \cup {Nothing}, ShowPage(page) PROVE TypeOK'
  BY <1>2 DEF ShowPage, TypeOK, shared_vars, control_vars, param_vars, clock_vars
<1>3. ASSUME NEW now \in SUBSET Buttons, OtherPage(now) PROVE TypeOK'
  <2>1. held' \in [Buttons -> 0 .. LongPressTicks]
    BY <1>3, AppAssumption DEF OtherPage, TypeOK
  <2> QED
    BY <1>3, <2>1 DEF OtherPage, TypeOK, shared_vars, control_vars, fw_vars, param_vars, clock_vars
<1> QED
  BY <1>1, <1>2, <1>3

LEMMA LoadsSavedKept == TypeInv /\ [Next]_vars => LoadsSaved'
<1> SUFFICES ASSUME TypeInv, [Next]_vars PROVE LoadsSaved'
  OBVIOUS
<1> USE DEF TypeInv, LoadsSaved, Presets
<1>1. CASE UNCHANGED <<load, saved>>
  BY <1>1
<1>2. ASSUME NEW i \in Instances, NEW how \in {"new", "due"}, Construct(i, how)
      PROVE  LoadsSaved'
  BY <1>2 DEF Construct, TypeOK, Set
<1>3. ASSUME NEW i \in Instances, NEW parsed \in BOOLEAN, Deserialise(i, parsed)
      PROVE  LoadsSaved'
  <2>1. saved' = saved /\ load' = Set(load, i, IF parsed THEN "restored" ELSE "failed")
    BY <1>3 DEF Deserialise
  <2> QED
    BY <2>1 DEF TypeOK, Set
<1>4. ASSUME NEW i \in Instances, Serialise(i)
      PROVE  LoadsSaved'
  BY <1>4 DEF Serialise, TypeOK
<1>5. ASSUME NEW i \in Instances,
             \/ Register(i) \/ StepAny(i) \/ Draw(i) \/ Remove(i)
             \/ \E s \in Settings : ParameterChanged(i, s)
             \/ \E now \in SUBSET Buttons, turned \in BOOLEAN : CustomUi(i, now, turned)
             \/ \E s \in Settings, x \in Values : EditParameter(i, s, x)
      PROVE  LoadsSaved'
  <2>1. CASE Register(i) \/ Draw(i) \/ Remove(i)
    BY <1>1, <2>1 DEF Register, Draw, Remove, fw_vars
  <2>2. CASE StepAny(i)
    BY <1>1, <2>2 DEF StepAny, Step, fw_vars
  <2>3. ASSUME NEW s \in Settings, ParameterChanged(i, s) PROVE LoadsSaved'
    BY <1>1, <2>3 DEF ParameterChanged, fw_vars
  <2>4. ASSUME NEW now \in SUBSET Buttons, NEW turned \in BOOLEAN, CustomUi(i, now, turned)
        PROVE  LoadsSaved'
    BY <1>1, <2>4 DEF CustomUi, fw_vars
  <2>5. ASSUME NEW s \in Settings, NEW x \in Values, EditParameter(i, s, x)
        PROVE  LoadsSaved'
    BY <1>1, <2>5 DEF EditParameter, fw_vars
  <2> QED
    BY <1>5, <2>1, <2>2, <2>3, <2>4, <2>5
<1>6. CASE RateSet
  BY <1>1, <1>6 DEF RateSet
<1>7. ASSUME NEW page \in Instances \cup {Nothing}, ShowPage(page) PROVE LoadsSaved'
  BY <1>1, <1>7 DEF ShowPage
<1>8. ASSUME NEW now \in SUBSET Buttons, OtherPage(now) PROVE LoadsSaved'
  BY <1>1, <1>8 DEF OtherPage, fw_vars
<1>9. CASE UNCHANGED vars
  BY <1>1, <1>9 DEF vars, fw_vars
<1> QED
  BY <1>2, <1>3, <1>4, <1>5, <1>6, <1>7, <1>8, <1>9 DEF Next

LEMMA NextType == TypeInv /\ [Next]_vars => TypeInv'
<1>1. TypeOK /\ UNCHANGED vars => TypeOK'
  BY DEF TypeOK, vars, shared_vars, control_vars, fw_vars, param_vars, clock_vars
<1>2. TypeInv /\ Next => TypeOK'
  BY ConstructType, LoadType, StepType, DrawType, ParameterType, CustomUiType, FirmwareType
     DEF Next, TypeInv
<1> QED
  BY <1>1, <1>2, LoadsSavedKept DEF TypeInv

LEMMA TypeInductive == Spec => []TypeInv
<1>1. Init => TypeInv
  BY InitType DEF Init, TypeInv, LoadsSaved
<1> QED
  BY <1>1, NextType, PTL DEF Spec

\* Every variable of the runtime keeps its type, the tick counter and the
\* stamps within 32 bits, the footer count and the held times within theirs.
THEOREM TypeCorrect == Spec => []TypeOK
<1>1. TypeInv => TypeOK
  BY DEF TypeInv
<1> QED
  BY <1>1, TypeInductive, PTL

-----------------------------------------------------------------------------
(***************************************************************************)
(* One instance. What its shared state holds is its own, its parameters    *)
(* are left alone until the first draw, and a button that is down while    *)
(* its page is shown was pressed there.                                    *)
(***************************************************************************)

Sentinel ==
  \A i \in Instances : /\ phase[i] = "constructed" => ~ alive[i]
                       /\ pushed[i] => alive[i]

ShownRegistered == \A i \in Instances : shown = i => phase[i] = "registered"

HoldsTimed ==
  QuietHolds =>
    \A i \in Instances : shown = i =>
      \A b \in down :
        /\ heldSince[i][b] <= ticks
        /\ held[b] = IF ticks - heldSince[i][b] < LongPressTicks
                       THEN ticks - heldSince[i][b] ELSE LongPressTicks

HoldsInv == HoldsTimed /\ (QuietHolds => PressesTimed)

OneInv ==
  /\ TypeInv /\ KeepsTime
  /\ Sentinel /\ SavedStateWins /\ Mirrored
  /\ ShownRegistered /\ HoldsInv

LEMMA OneInit == Init => OneInv
<1> SUFFICES ASSUME Init PROVE OneInv
  OBVIOUS
<1>1. TypeInv
  BY InitType DEF Init, TypeInv, LoadsSaved
<1>2. KeepsTime /\ Sentinel /\ SavedStateWins /\ Mirrored
  BY DEF Init, KeepsTime, Sentinel, SavedStateWins, Mirrored
<1>3. ShownRegistered /\ HoldsInv
  BY AppAssumption DEF Init, ShownRegistered, HoldsInv, HoldsTimed, PressesTimed, NoCall
<1> QED
  BY <1>1, <1>2, <1>3 DEF OneInv

LEMMA OneConstruct ==
  ASSUME OneInstance, OneInv, NEW i \in Instances, NEW how \in {"new", "due"}, Construct(i, how)
  PROVE  /\ KeepsTime'
         /\ Sentinel' /\ SavedStateWins' /\ Mirrored'
         /\ ShownRegistered' /\ HoldsInv'
<1> USE DEF OneInv, TypeInv
<1>0. \A j \in Instances : j = i
  BY DEF OneInstance
<1>1. KeepsTime'
  <2>1. /\ ticks' = 0 /\ numerator'[i] = 0 /\ played'[i] = 0
    BY DEF Construct, Set, TypeOK
  <2>2. 0 * SampleRate + 0 = 0 /\ 0 < SampleRate
    BY AppAssumption
  <2> QED
    BY <1>0, <2>1, <2>2 DEF KeepsTime
<1>3. Sentinel' /\ SavedStateWins' /\ Mirrored'
  <2>1. alive'[i] = FALSE /\ pushed'[i] = FALSE /\ load'[i] = how
    BY DEF Construct, Set, TypeOK
  <2> QED
    BY <1>0, <2>1 DEF Sentinel, SavedStateWins, Mirrored
<1>4. shown # i /\ shown' = shown
  BY DEF Construct, ShownRegistered
<1>5. ShownRegistered' /\ HoldsInv'
  BY <1>0, <1>4 DEF ShownRegistered, HoldsInv, HoldsTimed, PressesTimed, Construct, NoCall
<1> QED
  BY <1>1, <1>3, <1>5

LEMMA OneLoad ==
  ASSUME OneInstance, OneInv, NEW i \in Instances,
         Register(i) \/ Serialise(i) \/ Remove(i) \/ \E parsed \in BOOLEAN : Deserialise(i, parsed)
  PROVE  /\ KeepsTime'
         /\ Sentinel' /\ SavedStateWins' /\ Mirrored'
         /\ ShownRegistered' /\ HoldsInv'
<1> USE DEF OneInv, TypeInv
<1>0. \A j \in Instances : j = i
  BY DEF OneInstance
<1>1. /\ UNCHANGED <<ticks, lastHigh, control_vars, alive, shown, v, down, clock_vars, held>>
      /\ phase[i] # "absent" /\ out' = NoCall
  BY DEF Register, Serialise, Remove, Deserialise, shared_vars, param_vars
<1>2. KeepsTime' /\ HoldsInv'
  BY <1>0, <1>1 DEF KeepsTime, HoldsInv, HoldsTimed, PressesTimed, clock_vars, control_vars, NoCall
<1>3. ASSUME Register(i) \/ Remove(i)
      PROVE  Sentinel' /\ SavedStateWins' /\ Mirrored' /\ ShownRegistered'
  <2>1. /\ phase'[i] \in {"registered", "absent"} /\ (shown = i => phase'[i] = "registered")
        /\ pushed'[i] => pushed[i]
        /\ \A s \in Settings : s \notin pending'[i] => s \notin pending[i] \/ ~ pushed'[i]
        /\ settings' = settings /\ saved' = saved
    BY <1>3 DEF Register, Remove, Set, TypeOK, shared_vars, param_vars
  <2>2. Sentinel' /\ SavedStateWins'
    BY <1>0, <1>1, <2>1 DEF Sentinel, SavedStateWins
  <2>3. Mirrored'
    BY <1>0, <1>1, <2>1 DEF Mirrored
  <2>4. ShownRegistered'
    BY <1>0, <1>1, <2>1 DEF ShownRegistered
  <2> QED
    BY <2>2, <2>3, <2>4
<1>4. ASSUME Serialise(i)
      PROVE  Sentinel' /\ SavedStateWins' /\ Mirrored' /\ ShownRegistered'
  BY <1>0, <1>1, <1>4 DEF Serialise, Sentinel, SavedStateWins, Mirrored, ShownRegistered, shared_vars, param_vars
<1>5. ASSUME NEW parsed \in BOOLEAN, Deserialise(i, parsed)
      PROVE  Sentinel' /\ SavedStateWins' /\ Mirrored' /\ ShownRegistered'
  <2>1. /\ phase[i] = "constructed" /\ UNCHANGED <<phase, saved, pushed, pending>>
        /\ load'[i] = IF parsed THEN "restored" ELSE "failed"
        /\ settings' = IF parsed THEN saved.settings ELSE settings
    BY <1>5 DEF Deserialise, Set, TypeOK, param_vars
  <2>2. ~ pushed[i]
    BY <2>1 DEF Sentinel
  <2>3. Sentinel' /\ ShownRegistered'
    BY <1>0, <1>1, <2>1 DEF Sentinel, ShownRegistered
  <2>4. SavedStateWins'
    BY <1>0, <2>1 DEF SavedStateWins
  <2>5. Mirrored'
    BY <1>0, <2>1, <2>2 DEF Mirrored
  <2> QED
    BY <2>3, <2>4, <2>5
<1> QED
  <2>1. Sentinel' /\ SavedStateWins' /\ Mirrored' /\ ShownRegistered'
    BY <1>3, <1>4, <1>5
  <2> QED
    BY <1>2, <2>1

LEMMA OneStep ==
  ASSUME OneInstance, OneInv, NEW i \in Instances, StepAny(i)
  PROVE  /\ KeepsTime'
         /\ Sentinel' /\ SavedStateWins' /\ Mirrored'
         /\ ShownRegistered' /\ HoldsInv'
<1> USE DEF OneInv, TypeInv
<1>0. \A j \in Instances : j = i
  BY DEF OneInstance
<1>1. PICK frames \in BufferSizes, high \in BOOLEAN : Step(i, frames, high)
  BY DEF StepAny
<1> DEFINE f == frames * IsrFreq
           k == TicksDue(numerator[i] + f)
<1>2. f \in Nat /\ numerator[i] \in Nat /\ numerator[i] + f \in Nat /\ ticks \in 0 .. TickModulus - 1
  BY FramesType DEF TypeOK
<1>3. k \in Nat /\ Remainder(numerator[i] + f) < SampleRate
  BY <1>2, TicksDueType
<1>4. /\ phase[i] # "absent"
      /\ QuietHolds /\ down # {} => ticks + k < TickModulus
      /\ numerator'[i] = Remainder(numerator[i] + f)
      /\ ticks' = (ticks + k) % TickModulus
      /\ played'[i] = (played[i] + f) % (SampleRate * TickModulus)
      /\ out'.call = "step"
      /\ held' = [b \in Buttons |->
                    IF b \notin down \/ shown \notin {i, Nothing} THEN held[b]
                    ELSE IF held[b] + k < LongPressTicks THEN held[b] + k
                    ELSE LongPressTicks]
      /\ UNCHANGED <<settings, control_vars, alive, fw_vars, param_vars, down, pushed>>
  BY <1>1 DEF Step, Set, TypeOK
<1>5. KeepsTime'
  <2>1. played[i] = ticks * SampleRate + numerator[i]
    BY <1>4 DEF KeepsTime
  <2>2. ticks * SampleRate \in Nat
    BY <1>2, AppAssumption
  <2> HIDE DEF f, k
  <2>3. played[i] + f = ticks * SampleRate + numerator[i] + f
    BY <1>2, <2>1, <2>2
  <2>4. ((ticks + TicksDue(numerator[i] + f)) % TickModulus) * SampleRate + Remainder(numerator[i] + f)
           = (ticks * SampleRate + numerator[i] + f) % (SampleRate * TickModulus)
    BY <1>2, TimeAdds
  <2>5. ticks' * SampleRate + numerator'[i] = played'[i]
    BY <1>4, <2>3, <2>4 DEF k
  <2> QED
    BY <1>0, <1>3, <1>4, <2>5 DEF KeepsTime
<1> HIDE DEF f, k
<1>6. Sentinel' /\ SavedStateWins' /\ ShownRegistered'
  BY <1>4 DEF Sentinel, SavedStateWins, ShownRegistered, fw_vars
<1>7. Mirrored'
  BY <1>4 DEF Mirrored, param_vars
<1>8. HoldsTimed'
  <2> SUFFICES ASSUME QuietHolds, shown = i, NEW b \in down
               PROVE  /\ heldSince[i][b] <= ticks'
                      /\ held'[b] = IF ticks' - heldSince[i][b] < LongPressTicks
                                      THEN ticks' - heldSince[i][b] ELSE LongPressTicks
    BY <1>0, <1>4 DEF HoldsTimed, control_vars, fw_vars
  <2>1. b \in Buttons /\ heldSince[i][b] \in 0 .. TickModulus - 1
    BY DEF TypeOK
  <2>2. ticks' = ticks + k
    BY <1>2, <1>3, <1>4, AppAssumption
  <2>3. /\ heldSince[i][b] <= ticks
        /\ held[b] = IF ticks - heldSince[i][b] < LongPressTicks
                       THEN ticks - heldSince[i][b] ELSE LongPressTicks
    BY DEF HoldsInv, HoldsTimed
  <2>4. held'[b] = IF held[b] + k < LongPressTicks THEN held[b] + k ELSE LongPressTicks
    BY <1>4, <2>1
  <2> QED
    BY <1>2, <1>3, <2>1, <2>2, <2>3, <2>4, AppAssumption
<1>9. PressesTimed'
  BY <1>4 DEF PressesTimed
<1> QED
  BY <1>5, <1>6, <1>7, <1>8, <1>9 DEF HoldsInv

LEMMA OneDraw ==
  ASSUME OneInstance, OneInv, NEW i \in Instances, Draw(i)
  PROVE  /\ KeepsTime'
         /\ Sentinel' /\ SavedStateWins' /\ Mirrored'
         /\ ShownRegistered' /\ HoldsInv'
<1> USE DEF OneInv, TypeInv
<1>0. \A j \in Instances : j = i
  BY DEF OneInstance
<1>1. /\ phase[i] = "registered" /\ alive'[i] = TRUE
      /\ out'.call \in {"screensaver", "menu"}
      /\ UNCHANGED <<ticks, settings, lastHigh, control_vars, fw_vars, param_vars, down,
                     clock_vars, held, pushed>>
  BY DEF Draw, Set, TypeOK, shared_vars
<1>2. KeepsTime' /\ SavedStateWins' /\ ShownRegistered'
  BY <1>1 DEF KeepsTime, SavedStateWins, ShownRegistered, fw_vars, clock_vars
<1>3. Sentinel'
  BY <1>0, <1>1 DEF Sentinel, fw_vars
<1>4. Mirrored'
  BY <1>1 DEF Mirrored, param_vars
<1>5. HoldsInv'
  BY <1>1 DEF HoldsInv, HoldsTimed, PressesTimed, fw_vars, control_vars
<1> QED
  BY <1>2, <1>3, <1>4, <1>5

LEMMA OneParameter ==
  ASSUME OneInstance, OneInv, NEW i \in Instances, NEW s \in Settings,
         ParameterChanged(i, s) \/ \E x \in Values : EditParameter(i, s, x)
  PROVE  /\ KeepsTime'
         /\ Sentinel' /\ SavedStateWins' /\ Mirrored'
         /\ ShownRegistered' /\ HoldsInv'
<1> USE DEF OneInv, TypeInv
<1>0. \A j \in Instances : j = i
  BY DEF OneInstance
<1>1. /\ out' = NoCall
      /\ UNCHANGED <<ticks, lastHigh, control_vars, alive, fw_vars, down, clock_vars, held, pushed>>
  BY DEF ParameterChanged, EditParameter, shared_vars
<1>2. KeepsTime' /\ Sentinel' /\ ShownRegistered' /\ HoldsInv'
  BY <1>1 DEF KeepsTime, Sentinel, ShownRegistered, HoldsInv, HoldsTimed,
              PressesTimed, NoCall, fw_vars, control_vars, clock_vars
<1>3. ASSUME ParameterChanged(i, s) PROVE SavedStateWins' /\ Mirrored'
  <2>1. /\ v' = v /\ pending'[i] = pending[i] \ {s}
        /\ settings' = IF alive[i] THEN [settings EXCEPT ![s] = v[i][s]] ELSE settings
    BY <1>3 DEF ParameterChanged, Set, TypeOK
  <2>2. SavedStateWins'
    BY <1>0, <1>1, <2>1 DEF SavedStateWins, Sentinel, fw_vars
  <2>3. Mirrored'
    <3> SUFFICES ASSUME pushed[i], NEW t \in Settings, t \notin pending'[i]
                 PROVE  v[i][t] = settings'[t]
      BY <1>0, <1>1, <2>1 DEF Mirrored
    <3>1. settings' = [settings EXCEPT ![s] = v[i][s]] /\ settings \in [Settings -> Values]
      BY <2>1 DEF Sentinel, TypeOK
    <3>2. CASE t = s
      BY <3>1, <3>2
    <3>3. CASE t # s
      BY <2>1, <3>1, <3>3 DEF Mirrored
    <3> QED
      BY <3>2, <3>3
  <2> QED
    BY <2>2, <2>3
<1>4. ASSUME NEW x \in Values, EditParameter(i, s, x) PROVE SavedStateWins' /\ Mirrored'
  <2>1. /\ v' = [v EXCEPT ![i][s] = x] /\ pending'[i] = pending[i] \cup {s}
        /\ settings' = settings
    BY <1>4 DEF EditParameter, Set, TypeOK, shared_vars
  <2>2. \A t \in Settings : t # s => v'[i][t] = v[i][t]
    BY <2>1 DEF TypeOK
  <2>3. SavedStateWins'
    BY <1>1, <2>1 DEF SavedStateWins, fw_vars
  <2>4. Mirrored'
    BY <1>0, <1>1, <2>1, <2>2 DEF Mirrored
  <2> QED
    BY <2>3, <2>4
<1> QED
  BY <1>2, <1>3, <1>4

LEMMA OneCustomUi ==
  ASSUME OneInstance, OneInv, NEW i \in Instances, NEW now \in SUBSET Buttons,
         NEW turned \in BOOLEAN, CustomUi(i, now, turned)
  PROVE  /\ KeepsTime'
         /\ Sentinel' /\ SavedStateWins' /\ Mirrored'
         /\ ShownRegistered' /\ HoldsInv'
<1> USE DEF OneInv, TypeInv
<1>0. \A j \in Instances : j = i
  BY DEF OneInstance
<1>1. /\ phase[i] = "registered" /\ shown = i /\ down' = now
      /\ settings' \in [Settings -> Values]
      /\ UNCHANGED <<ticks, lastHigh, alive, fw_vars, clock_vars>>
  BY DEF CustomUi, TypeOK
<1>2. KeepsTime' /\ ShownRegistered'
  BY <1>1 DEF KeepsTime, ShownRegistered, fw_vars, clock_vars
<1>3. SavedStateWins'
  BY <1>0, <1>1 DEF SavedStateWins, fw_vars
<1>4. Sentinel' /\ Mirrored'
  <2>1. CASE ~ alive[i]
    <3>1. UNCHANGED <<v, pending, pushed>>
      BY <2>1 DEF CustomUi
    <3>2. ~ pushed[i]
      BY <2>1 DEF Sentinel
    <3> QED
      BY <1>0, <1>1, <3>1, <3>2 DEF Sentinel, Mirrored, fw_vars
  <2>2. CASE alive[i]
    <3>1. Sentinel'
      BY <1>0, <1>1, <2>2 DEF Sentinel, fw_vars
    <3>2. /\ v'[i] = [s \in Settings |->
                       IF s \in Diverged(i, settings') THEN settings'[s] ELSE v[i][s]]
      BY <2>2 DEF CustomUi, Set, TypeOK
    <3>3. \A s \in Settings : v'[i][s] = settings'[s]
      BY <3>2 DEF Diverged
    <3> QED
      BY <1>0, <3>1, <3>3 DEF Mirrored
  <2> QED
    BY <2>1, <2>2
<1>5. \A b \in Buttons :
        /\ heldSince'[i][b] = IF b \in now \ down THEN ticks ELSE heldSince[i][b]
        /\ held'[b] = IF b \in now \ down THEN 0 ELSE held[b]
  BY DEF CustomUi, TypeOK
<1>6. /\ ticks \in 0 .. TickModulus - 1
      /\ \A b \in Buttons : heldSince[i][b] \in 0 .. TickModulus - 1
  BY DEF TypeOK
<1>7. HoldsTimed'
  <2> SUFFICES ASSUME QuietHolds, NEW b \in now
               PROVE  /\ heldSince'[i][b] <= ticks
                      /\ held'[b] = IF ticks - heldSince'[i][b] < LongPressTicks
                                      THEN ticks - heldSince'[i][b] ELSE LongPressTicks
    BY <1>0, <1>1 DEF HoldsTimed
  <2>1. CASE b \in down
    BY <1>1, <1>5, <2>1 DEF HoldsInv, HoldsTimed
  <2>2. CASE b \notin down
    BY <1>5, <1>6, <2>2, AppAssumption
  <2> QED
    BY <2>1, <2>2
<1>8. QuietHolds => PressesTimed'
  <2> SUFFICES ASSUME QuietHolds, NEW b \in DOMAIN out'.long
               PROVE  out'.long[b] <=> held'[b] = LongPressTicks
    BY DEF PressesTimed
  <2>1. out'.long = [c \in down \ now |-> WasLong(i, c)]
    BY DEF CustomUi
  <2>2. b \in down /\ b \notin now /\ b \in Buttons /\ (out'.long[b] <=> WasLong(i, b))
    BY <2>1 DEF TypeOK
  <2>3. /\ heldSince[i][b] <= ticks
        /\ held'[b] = IF ticks - heldSince[i][b] < LongPressTicks
                        THEN ticks - heldSince[i][b] ELSE LongPressTicks
    BY <1>1, <1>5, <2>2 DEF HoldsInv, HoldsTimed
  <2>4. WasLong(i, b) <=> ticks - heldSince[i][b] >= LongPressTicks
    BY <1>6, <2>2, <2>3 DEF WasLong
  <2>5. held'[b] = LongPressTicks <=> ticks - heldSince[i][b] >= LongPressTicks
    BY <1>6, <2>2, <2>3, AppAssumption
  <2> QED
    BY <2>2, <2>4, <2>5
<1> QED
  BY <1>2, <1>3, <1>4, <1>7, <1>8 DEF HoldsInv

LEMMA OneFirmware ==
  ASSUME OneInv,
         \/ RateSet
         \/ \E page \in Instances \cup {Nothing} : ShowPage(page)
         \/ \E now \in SUBSET Buttons : OtherPage(now)
  PROVE  /\ KeepsTime'
         /\ Sentinel' /\ SavedStateWins' /\ Mirrored'
         /\ ShownRegistered' /\ HoldsInv'
<1> USE DEF OneInv, TypeInv
<1>1. /\ UNCHANGED <<ticks, settings, lastHigh, control_vars, alive, phase, load, saved,
                     v, pending, clock_vars, pushed>>
      /\ out' = NoCall
  BY DEF RateSet, ShowPage, OtherPage, shared_vars, param_vars, fw_vars
<1>2. KeepsTime' /\ Sentinel' /\ SavedStateWins' /\ Mirrored'
  BY <1>1 DEF KeepsTime, Sentinel, SavedStateWins, Mirrored, clock_vars
<1>3. PressesTimed'
  BY <1>1 DEF PressesTimed, NoCall
<1>4. ShownRegistered' /\ HoldsTimed'
  <2>1. CASE RateSet
    BY <1>1, <2>1 DEF RateSet, ShownRegistered, HoldsInv, HoldsTimed, control_vars
  <2>2. ASSUME NEW page \in Instances \cup {Nothing}, ShowPage(page)
        PROVE  ShownRegistered' /\ HoldsTimed'
    <3>1. /\ page = Nothing \/ phase[page] = "registered"
          /\ shown' = page /\ down' = down /\ (QuietHolds => down = {})
      BY <2>2 DEF ShowPage
    <3> QED
      BY <1>1, <3>1, AppAssumption DEF ShownRegistered, HoldsTimed
  <2>3. ASSUME NEW now \in SUBSET Buttons, OtherPage(now)
        PROVE  ShownRegistered' /\ HoldsTimed'
    <3>1. shown = Nothing /\ shown' = shown
      BY <2>3 DEF OtherPage, fw_vars
    <3> QED
      BY <1>1, <3>1, AppAssumption DEF ShownRegistered, HoldsTimed
  <2> QED
    BY <2>1, <2>2, <2>3
<1> QED
  BY <1>2, <1>3, <1>4 DEF HoldsInv

LEMMA OneStutter ==
  ASSUME OneInv, UNCHANGED vars
  PROVE  OneInv'
<1>1. TypeInv'
  BY NextType DEF OneInv
<1>2. UNCHANGED <<shared_vars, control_vars, alive, fw_vars, param_vars, down, clock_vars,
                  held, pushed, out>>
  BY DEF vars
<1>3. KeepsTime' /\ Sentinel' /\ SavedStateWins' /\ Mirrored' /\ ShownRegistered'
  BY <1>2 DEF OneInv, KeepsTime, Sentinel, SavedStateWins, Mirrored, ShownRegistered,
              shared_vars, fw_vars, param_vars, clock_vars
<1>4. HoldsInv'
  BY <1>2 DEF OneInv, HoldsInv, HoldsTimed, PressesTimed, shared_vars, control_vars, fw_vars
<1> QED
  BY <1>1, <1>3, <1>4 DEF OneInv

LEMMA OneInductive ==
  ASSUME OneInstance
  PROVE  Spec => []OneInv
<1>1. ASSUME OneInv, [Next]_vars PROVE OneInv'
  <2>1. TypeInv'
    BY <1>1, NextType DEF OneInv
  <2>2. CASE UNCHANGED vars
    BY <1>1, <2>2, OneStutter
  <2>3. ASSUME NEW i \in Instances,
               \/ \E how \in {"new", "due"} : Construct(i, how)
               \/ \E parsed \in BOOLEAN : Deserialise(i, parsed)
               \/ Register(i) \/ Serialise(i) \/ StepAny(i) \/ Draw(i)
               \/ \E s \in Settings : ParameterChanged(i, s)
               \/ \E now \in SUBSET Buttons, turned \in BOOLEAN : CustomUi(i, now, turned)
               \/ \E s \in Settings, x \in Values : EditParameter(i, s, x)
               \/ Remove(i)
        PROVE  OneInv'
    <3>1. ASSUME NEW how \in {"new", "due"}, Construct(i, how) PROVE OneInv'
      BY <1>1, <2>1, <3>1, OneConstruct DEF OneInv
    <3>2. CASE Register(i) \/ Serialise(i) \/ Remove(i)
               \/ \E parsed \in BOOLEAN : Deserialise(i, parsed)
      BY <1>1, <2>1, <3>2, OneLoad DEF OneInv
    <3>3. CASE StepAny(i)
      BY <1>1, <2>1, <3>3, OneStep DEF OneInv
    <3>4. CASE Draw(i)
      BY <1>1, <2>1, <3>4, OneDraw DEF OneInv
    <3>5. ASSUME NEW s \in Settings,
                 ParameterChanged(i, s) \/ \E x \in Values : EditParameter(i, s, x)
          PROVE  OneInv'
      BY <1>1, <2>1, <3>5, OneParameter DEF OneInv
    <3>6. ASSUME NEW now \in SUBSET Buttons, NEW turned \in BOOLEAN, CustomUi(i, now, turned)
          PROVE  OneInv'
      BY <1>1, <2>1, <3>6, OneCustomUi DEF OneInv
    <3> QED
      BY <2>3, <3>1, <3>2, <3>3, <3>4, <3>5, <3>6
  <2>4. CASE \/ RateSet
             \/ \E page \in Instances \cup {Nothing} : ShowPage(page)
             \/ \E now \in SUBSET Buttons : OtherPage(now)
    BY <1>1, <2>1, <2>4, OneFirmware DEF OneInv
  <2> QED
    BY <1>1, <2>2, <2>3, <2>4 DEF Next
<1> QED
  BY <1>1, OneInit, PTL DEF Spec

\* step runs the app's interrupt at its nominal rate however the host cuts
\* the audio into buffers: no tick is lost or run twice, for any sample rate.
THEOREM TimeKept ==
  ASSUME OneInstance
  PROVE  Spec => []KeepsTime
<1>1. OneInv => KeepsTime
  BY DEF OneInv
<1> QED
  BY <1>1, OneInductive, PTL

\* What deserialise restored survives the parameterChanged calls that follow
\* it and everything else until the instance is registered.
THEOREM RestoredKept ==
  ASSUME OneInstance
  PROVE  Spec => []SavedStateWins
<1>1. OneInv => SavedStateWins
  BY DEF OneInv
<1> QED
  BY <1>1, OneInductive, PTL

\* A parameter disagrees with the app's setting only while its
\* parameterChanged is due, once the settings have been pushed.
THEOREM ParametersMirror ==
  ASSUME OneInstance
  PROVE  Spec => []Mirrored
<1>1. OneInv => Mirrored
  BY DEF OneInv
<1> QED
  BY <1>1, OneInductive, PTL

\* The press length dispatch_custom_ui reports is the length of the hold, if
\* no hold spans a page change or the overflow of the tick counter.
THEOREM PressLengths ==
  ASSUME OneInstance, QuietHolds
  PROVE  Spec => []PressesTimed
<1>1. OneInv => PressesTimed
  BY DEF OneInv, HoldsInv
<1> QED
  BY <1>1, OneInductive, PTL

-----------------------------------------------------------------------------
(***************************************************************************)
(* The trigger scan, once per tick with the level of the buffer: with at   *)
(* least one tick a buffer, the level remembered is that of the last one.  *)
(***************************************************************************)

Scanned == \A i \in Instances : lastHigh = bus[i]

RisesSeen ==
  \A i \in Instances :
    out'.call = "step" /\ out'.of = i =>
      out'.edges = IF bus'[i] /\ ~ bus[i] THEN 1 ELSE 0

LEMMA OneScan ==
  ASSUME OneInstance, LongBuffers, TypeInv, Scanned, NEW i \in Instances, StepAny(i)
  PROVE  /\ Scanned'
         /\ out'.call = "step" /\ out'.of = i
         /\ out'.edges = IF bus'[i] /\ ~ bus[i] THEN 1 ELSE 0
<1> USE DEF TypeInv
<1>0. \A j \in Instances : j = i
  BY DEF OneInstance
<1>1. PICK frames \in BufferSizes, high \in BOOLEAN : Step(i, frames, high)
  BY DEF StepAny
<1> DEFINE x == numerator[i] + frames * IsrFreq
<1>2. x \in Nat /\ x >= SampleRate
  <2>1. /\ numerator[i] \in Nat /\ frames * IsrFreq \in Nat
        /\ SampleRate \in Nat /\ frames * IsrFreq >= SampleRate
    BY FramesType, AppAssumption DEF LongBuffers, TypeOK
  <2> QED
    BY <2>1
<1>3. TicksDue(x) \in Nat /\ TicksDue(x) > 0
  BY <1>2, AppAssumption DEF TicksDue
<1>4. /\ lastHigh' = LevelScanned(high, TicksDue(x))
      /\ out' = [call |-> "step", of |-> i, edges |-> EdgesSeen(high, TicksDue(x))]
      /\ bus'[i] = high
  BY <1>1 DEF Step, Set, TypeOK
<1> HIDE DEF x
<1>5. lastHigh' = high /\ out'.edges = IF high /\ ~ lastHigh THEN 1 ELSE 0
  BY <1>3, <1>4 DEF LevelScanned, EdgesSeen
<1>6. bus[i] = lastHigh
  BY DEF Scanned
<1> QED
  BY <1>0, <1>4, <1>5, <1>6 DEF Scanned

\* Only step scans, reads the trigger or reports a step.
LEMMA OthersDoNotScan ==
  ASSUME Scanned, Next, \A i \in Instances : ~ StepAny(i)
  PROVE  Scanned' /\ out'.call # "step"
<1> DEFINE Quiet == lastHigh' = lastHigh /\ bus' = bus /\ out'.call # "step"
<1> USE DEF shared_vars, clock_vars, NoCall
<1>1. ASSUME NEW i \in Instances, NEW how \in {"new", "due"}, Construct(i, how) PROVE Quiet
  BY <1>1 DEF Construct
<1>2. ASSUME NEW i \in Instances, NEW parsed \in BOOLEAN, Deserialise(i, parsed) PROVE Quiet
  BY <1>2 DEF Deserialise
<1>3. ASSUME NEW i \in Instances, Register(i) \/ Serialise(i) \/ Draw(i) \/ Remove(i) PROVE Quiet
  <2>1. CASE Register(i) \/ Serialise(i) \/ Remove(i)
    <3>1. lastHigh' = lastHigh /\ bus' = bus /\ out' = NoCall
      BY <2>1 DEF Register, Serialise, Remove
    <3> QED
      BY <3>1
  <2>2. CASE Draw(i)
    <3>1. out'.call \in {"screensaver", "menu"}
      BY <2>2 DEF Draw
    <3> QED
      BY <2>2, <3>1 DEF Draw
  <2> QED
    BY <1>3, <2>1, <2>2
<1>4. ASSUME NEW i \in Instances, NEW s \in Settings, ParameterChanged(i, s) PROVE Quiet
  BY <1>4 DEF ParameterChanged
<1>5. ASSUME NEW i \in Instances, NEW s \in Settings, NEW x \in Values, EditParameter(i, s, x)
      PROVE  Quiet
  BY <1>5 DEF EditParameter
<1>6. ASSUME NEW i \in Instances, NEW now \in SUBSET Buttons, NEW turned \in BOOLEAN,
             CustomUi(i, now, turned)
      PROVE  Quiet
  BY <1>6 DEF CustomUi
<1>7. CASE RateSet
  BY <1>7 DEF RateSet, Scanned
<1>8. ASSUME NEW page \in Instances \cup {Nothing}, ShowPage(page) PROVE Quiet
  BY <1>8 DEF ShowPage
<1>9. ASSUME NEW now \in SUBSET Buttons, OtherPage(now) PROVE Quiet
  BY <1>9 DEF OtherPage
<1>10. Quiet => Scanned' /\ out'.call # "step"
  BY DEF Scanned
<1> HIDE DEF Quiet
<1> QED
  BY <1>1, <1>2, <1>3, <1>4, <1>5, <1>6, <1>7, <1>8, <1>9, <1>10 DEF Next

\* A trigger that rises from one buffer to the next is a rising edge of one
\* tick of the later one, and of no other tick, if every buffer runs a tick.
THEOREM RisesSeenExactly ==
  ASSUME OneInstance, LongBuffers
  PROVE  Spec => RisesSeenOnce
<1>1. Init => Scanned
  BY DEF Init, Scanned
<1>2. ASSUME TypeInv, Scanned, [Next]_vars
      PROVE  Scanned' /\ (RisesSeen \/ UNCHANGED vars)
  <2>1. CASE \E i \in Instances : StepAny(i)
    BY <1>2, <2>1, OneScan DEF OneInstance, RisesSeen
  <2>2. CASE Next /\ \A i \in Instances : ~ StepAny(i)
    BY <1>2, <2>2, OthersDoNotScan DEF RisesSeen
  <2>3. CASE UNCHANGED vars
    BY <1>2, <2>3 DEF vars, shared_vars, clock_vars, Scanned
  <2> QED
    BY <1>2, <2>1, <2>2, <2>3
<1> QED
  BY <1>1, <1>2, TypeInductive, PTL DEF Spec, RisesSeenOnce, RisesSeen
===============================================================================
