---------------------------- MODULE MCQuadrantsHost ----------------------------
(***************************************************************************)
(* Instances for TLC: two ClockDividers, which share a name.  Removing one *)
(* and loading the other leaves the enum as it was.                        *)
(***************************************************************************)
EXTENDS QuadrantsHost, TLC

CONSTANTS self, div1, div2

MCLabel == (self :> "Quadrants Host") @@ (div1 :> "ClkDiv") @@ (div2 :> "ClkDiv")
MCParamCount == (self :> 6) @@ (div1 :> 1) @@ (div2 :> 1)
MCSymmetry == Permutations({div1, div2})
=============================================================================
