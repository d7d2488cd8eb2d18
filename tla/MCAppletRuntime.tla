--------------------------- MODULE MCAppletRuntime ---------------------------
(***************************************************************************)
(* Instances for TLC: buffers of one and of two inner ticks, whose gate    *)
(* holds, rises, falls, or does so twice.                                  *)
(***************************************************************************)
EXTENDS AppletRuntime, TLC

CONSTANTS one, two

MCGates == UNION {[1 .. n -> BOOLEAN] : n \in 1 .. 3}
MCPulseLengths == {-1, 1}
MCSymmetry == Permutations({one, two})
=============================================================================
