------------------------------ MODULE ClockInput ------------------------------
(***************************************************************************)
(* What an applet gives its dividers: an inner tick, with a clock or       *)
(* without, and calls of the user between ticks.                           *)
(***************************************************************************)
EXTENDS Integers

CONSTANTS
  Settings,         \* arguments of Set
  LastTick,         \* bound on the ticks of a behaviour
  MaxChanges        \* bound on the calls of the user

ASSUME ClockInputAssumption ==
  Settings \subseteq Int /\ LastTick \in Nat /\ MaxChanges \in Nat

VARIABLES
  now,          \* OC::CORE::ticks
  out,          \* what the last tick was given and what it returned
  changes,      \* calls of the user
  \* history
  at, cycle     \* the tick of the last clock, and from the one before it to it

input_vars == <<now, out, changes, at, cycle>>

\* The counter goes up, then the Controller runs.
InnerTick(clocked) ==
  /\ now < LastTick
  /\ now' = now + 1
  /\ at' = IF clocked THEN now' ELSE at
  /\ cycle' = IF clocked THEN now' - at ELSE cycle
  /\ UNCHANGED changes

Returned(clocked, trig) == out' = [clocked |-> clocked, trig |-> trig]

Changed ==
  /\ changes < MaxChanges
  /\ changes' = changes + 1
  /\ UNCHANGED <<now, out, at, cycle>>

InputInit ==
  /\ now = 0
  /\ out = [clocked |-> FALSE, trig |-> FALSE]
  /\ changes = 0
  /\ at = 0 /\ cycle = 0

InputTypeOK ==
  /\ now \in 0 .. LastTick
  /\ out \in [clocked : BOOLEAN, trig : BOOLEAN]
  /\ changes \in 0 .. MaxChanges
  /\ at \in 0 .. now /\ cycle \in 0 .. now
===============================================================================
