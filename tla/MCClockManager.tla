--------------------------- MODULE MCClockManager ---------------------------
(***************************************************************************)
(* Instances for TLC: the MIDI clock at 2 a beat and two channels, beats   *)
(* of 4, 5 and 6 ticks, a tick counter that overflows.                     *)
(***************************************************************************)
EXTENDS ClockManager, TLC

CONSTANTS c1, c2, midi

MCMin == -2
MCMultiples == c1 :> {-2} @@ c2 :> {-1, 7}
MCModulations == {<<-1, 60>>}
=============================================================================
