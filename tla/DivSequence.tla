----------------------------- MODULE DivSequence -----------------------------
(***************************************************************************)
(* A sequence of clock dividers (shim/include/util/clkdivmult.h): each     *)
(* step is a ClkDivMult of its own, has the clocks to itself for its turn  *)
(* and hands them on to the next step that is neither off nor muted.       *)
(* Poked once in every inner tick, edited by the user between ticks.       *)
(***************************************************************************)
EXTENDS ClkDivMult, ClockInput, FiniteSetsExt

CONSTANT NUM_STEPS

ASSUME DivSequenceAssumption == NUM_STEPS \in Nat \ {0}

Steps == 0 .. NUM_STEPS - 1

VARIABLES
  step_index,   \* -1 after a reset
  clock_count,  \* of this turn
  divmult,      \* per step
  muted,
  last_clock,
  \* history
  clocks,       \* since the last Reset
  clean         \* nothing was edited since the first of them

sequence_vars ==
  <<input_vars, step_index, clock_count, divmult, muted, last_clock, clocks, clean>>

StepActive(s) == divmult[s].steps # 0 /\ s \notin muted

-----------------------------------------------------------------------------
(***************************************************************************)
(* Poke.                                                                   *)
(***************************************************************************)

\* The s-th step counted from the one after the current.
StepAfter(i) == (step_index + i) % NUM_STEPS

\* The next active step, the current one last, if there is any.
NextStep ==
  IF \E s \in Steps : StepActive(s)
  THEN StepAfter(Min({i \in 1 .. NUM_STEPS : StepActive(StepAfter(i))}))
  ELSE step_index

\* Mutants: a turn takes one clock too many; a step starts with the time that
\* its last turn left it.
TurnOverLate == divmult[step_index].steps < 0 \/ clock_count >= divmult[step_index].steps
EnteredStale(d) == DividerReset(d)

\* The clock ends the current turn.
TurnOver == divmult[step_index].steps < 0 \/ clock_count + 1 >= divmult[step_index].steps

\* A step whose turn starts takes the time of the clock before from the sequence.
Entered(d) == [DividerReset(d) EXCEPT !.lastClock = last_clock]

\* After a reset, step 0 takes the first clock; it is told if it is not active.
PokeFirst ==
  LET first == [divmult[0] EXCEPT !.lastClock = last_clock]
  IN  /\ step_index = -1
      /\ step_index' = 0
      /\ divmult' = [divmult EXCEPT ![0] = Ticked(first, now', TRUE)]
      /\ last_clock' = now'
      /\ Returned(TRUE, Fires(first, now', TRUE) /\ StepActive(0))
      /\ UNCHANGED clock_count

PokeIdle ==
  /\ step_index = -1
  /\ Returned(FALSE, FALSE)
  /\ UNCHANGED <<step_index, clock_count, divmult, last_clock>>

\* The current step's ClkDivMult, whether it is active or not.
StepFires(clocked) == Fires(divmult[step_index], now', clocked)
StepTicked(clocked) == [divmult EXCEPT ![step_index] = Ticked(@, now', clocked)]

PokeStays(clocked) ==
  /\ step_index >= 0
  /\ clocked => ~TurnOver
  /\ divmult' = StepTicked(clocked)
  /\ clock_count' = IF clocked THEN clock_count + 1 ELSE clock_count
  /\ last_clock' = IF clocked THEN now' ELSE last_clock
  /\ Returned(clocked, StepFires(clocked))
  /\ UNCHANGED step_index

PokeMoves ==
  LET ticked == StepTicked(TRUE)
      entered == Entered(ticked[NextStep])
  IN  /\ step_index >= 0 /\ TurnOver
      /\ step_index' = NextStep
      /\ clock_count' = 0
      /\ last_clock' = now'
      /\ IF StepActive(NextStep)
         THEN /\ divmult' = [ticked EXCEPT ![NextStep] = Ticked(entered, now', TRUE)]
              /\ Returned(TRUE, Fires(entered, now', TRUE))
         ELSE /\ divmult' = ticked
              /\ Returned(TRUE, StepFires(TRUE))

-----------------------------------------------------------------------------
Poke(clocked) ==
  /\ InnerTick(clocked)
  /\ IF clocked THEN PokeFirst \/ PokeStays(TRUE) \/ PokeMoves
                ELSE PokeIdle \/ PokeStays(FALSE)
  /\ clocks' = IF clocked THEN clocks + 1 ELSE clocks
  /\ UNCHANGED <<muted, clean>>

Edited == clean' = (clean /\ clocks = 0) /\ UNCHANGED clocks

SetStep(s, v) ==
  /\ Changed /\ Edited
  /\ divmult' = [divmult EXCEPT ![s] = DividerSet(@, v)]
  /\ UNCHANGED <<step_index, clock_count, muted, last_clock>>

\* SetMute too
ToggleStep(s) ==
  /\ Changed /\ Edited
  /\ muted' = IF s \in muted THEN muted \ {s} ELSE muted \cup {s}
  /\ UNCHANGED <<step_index, clock_count, divmult, last_clock>>

ResetSequence ==
  /\ Changed
  /\ step_index' = -1
  /\ clock_count' = 0
  /\ divmult' = [s \in Steps |-> DividerReset(divmult[s])]
  /\ clocks' = 0 /\ clean' = TRUE
  /\ UNCHANGED <<muted, last_clock>>

SequenceInit ==
  /\ InputInit
  /\ step_index = -1 /\ clock_count = 0
  /\ divmult = [s \in Steps |-> NewDivider]
  /\ muted = {} /\ last_clock = 0
  /\ clocks = 0 /\ clean = TRUE

SequenceNext ==
  \/ \E clocked \in BOOLEAN : Poke(clocked)
  \/ \E s \in Steps : ToggleStep(s) \/ \E v \in Settings : SetStep(s, v)
  \/ ResetSequence

SequenceSpec == SequenceInit /\ [][SequenceNext]_sequence_vars

-----------------------------------------------------------------------------
(***************************************************************************)
(* What a musician expects: the active steps take turns, a division by k   *)
(* for k clocks, a multiplication for one. After a reset step 0 has the    *)
(* first turn in any case.                                                 *)
(***************************************************************************)

Length(s) == IF divmult[s].steps > 0 THEN divmult[s].steps ELSE 1
Active == {s \in Steps : StepActive(s)}

\* A round is one turn of each active step, from step 1 on: its clocks, each the
\* i-th of a step's turn.
Round == {x \in Active \X (1 .. ClockDivMax) : x[2] <= Length(x[1])}
RoundIndex(s) == (s - 1) % NUM_STEPS
Earlier(x) ==
  {y \in Round : \/ RoundIndex(y[1]) < RoundIndex(x[1])
                 \/ y[1] = x[1] /\ y[2] < x[2]}

\* The step that the n-th clock after a reset belongs to, and the how-manieth
\* of its turn it is.
Scheduled(n) ==
  IF n <= Length(0) \/ Active = {} THEN <<0, n>>
  ELSE CHOOSE x \in Round :
         Cardinality(Earlier(x)) = (n - Length(0) - 1) % Cardinality(Round)

SequenceTypeOK ==
  /\ InputTypeOK
  /\ step_index \in -1 .. NUM_STEPS - 1
  /\ clock_count \in 0 .. ClockDivMax
  /\ divmult \in [Steps -> Divider]
  /\ \A s \in Steps : divmult[s].clockCount < ClockDivMax - ClockDivMin
  /\ muted \subseteq Steps
  /\ last_clock = at
  /\ clocks \in 0 .. now /\ clean \in BOOLEAN

\* The step the sequence is at is the one whose turn it is by the clocks since
\* the reset, for all lengths, steps that are off and mutes: Poke counts its
\* turns beside the dividers' own counts and skips in a loop.
PlaysSchedule ==
  clean /\ clocks > 0 => step_index = Scheduled(clocks)[1]

\* A division puts out one trigger a turn, at its first clock, a multiplication
\* as many as it says, evenly over a cycle measured in other steps' turns.
TriggersInTurn ==
  clean /\ clocks > 0 /\ StepActive(step_index) =>
    LET m == - divmult[step_index].steps
        part == cycle \div m
    IN  IF m < 0 THEN out.trig <=> out.clocked /\ Scheduled(clocks)[2] = 1
        ELSE part > 0 => (out.trig <=> \E k \in 0 .. m - 1 : now = at + k * part)
=============================================================================
