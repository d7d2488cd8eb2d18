--------------------------- MODULE MCHemispheresHost ---------------------------
(***************************************************************************)
(* Instances for TLC: a 'Hm' applet, and an algorithm of another kind,     *)
(* which takes a preset slot but no enum entry.                            *)
(***************************************************************************)
EXTENDS HemispheresHost, TLC

CONSTANTS self, div, reverb

MCLabel == (self :> "Hemispheres Host") @@ (div :> "ClkDiv") @@ (reverb :> "Reverb")
MCParamCount == (self :> 3) @@ (div :> 1) @@ (reverb :> 4)
=============================================================================
