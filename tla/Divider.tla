-------------------------------- MODULE Divider --------------------------------
(***************************************************************************)
(* A ClkDivMult in an applet: ticked once in every inner tick, with a      *)
(* clock or without, and set and reset by the user between ticks.          *)
(***************************************************************************)
EXTENDS ClkDivMult, ClockInput

VARIABLES
  div,          \* the ClkDivMult
  \* history
  heard,        \* clocks since the divider was off, as far as two
  settled,      \* a clock came since the last change
  fired,        \* a trigger was put out since the last change
  since         \* clocks since the last trigger or change

history_vars == <<heard, settled, fired, since>>
vars == <<input_vars, div, history_vars>>

-----------------------------------------------------------------------------
Tick(clocked) ==
  /\ InnerTick(clocked)
  /\ div' = Ticked(div, now', clocked)
  /\ Returned(clocked, Fires(div, now', clocked))
  /\ heard' = IF div.steps # 0 /\ clocked /\ heard < 2 THEN heard + 1 ELSE heard
  /\ settled' = (settled \/ clocked)
  /\ fired' = (fired \/ out'.trig)
  /\ since' = IF out'.trig THEN 0 ELSE IF clocked THEN since + 1 ELSE since

\* Changed by the user: nothing is known of it till the clocks tell.
Set(s) ==
  /\ Changed
  /\ div' = DividerSet(div, s)
  /\ heard' = IF div'.steps = 0 THEN 0 ELSE heard
  /\ settled' = FALSE /\ fired' = FALSE /\ since' = 0

Reset ==
  /\ Changed
  /\ div' = DividerReset(div)
  /\ settled' = FALSE /\ fired' = FALSE /\ since' = 0
  /\ UNCHANGED heard

Init ==
  /\ InputInit
  /\ div = NewDivider
  /\ heard = 0
  /\ settled = FALSE /\ fired = FALSE /\ since = 0

Next ==
  \/ \E clocked \in BOOLEAN : Tick(clocked)
  \/ \E s \in Settings : Set(s)
  \/ Reset

Spec == Init /\ [][Next]_vars

-----------------------------------------------------------------------------
TypeOK ==
  /\ InputTypeOK
  /\ div \in Divider
  /\ div.clockCount < ClockDivMax - ClockDivMin
  /\ heard \in 0 .. 2 /\ settled \in BOOLEAN /\ fired \in BOOLEAN /\ since \in Nat

\* From one trigger of a division by k to the next there are k clocks, however
\* the clocks come and whatever it was set to and counted before.
DividesExactly ==
  [][\A clocked \in BOOLEAN :
       Tick(clocked) /\ div.steps > 0 /\ fired =>
         (out'.trig <=> clocked /\ since + 1 = div.steps)]_vars

\* A multiplication by m puts out a trigger at the clock and m - 1 more, an
\* m-th of the last cycle apart, and is otherwise silent: none is early, late,
\* lost or doubled, also when the clock speeds up, slows down or stops. (A cycle
\* of fewer than m ticks has no room for them.)
MultipliesEvenly ==
  div.steps < 0 /\ settled /\ heard = 2 =>
    LET m == - div.steps
        part == cycle \div m
    IN part > 0 =>
         (out.trig <=> \E k \in 0 .. m - 1 : now = at + k * part)

\* A divider that is set or reset at any time, whatever it has counted till
\* then as a divider or a multiplier, never swallows more clocks than it divides by.
FiresAgain == div.steps > 0 => since <= div.steps
================================================================================
