---------------------------- MODULE MCDivSequence ----------------------------
(***************************************************************************)
(* Instances for TLC: three steps, each off, muted, a division by 2 or by  *)
(* 3 (clipped from 4), or a multiplication by 2.                           *)
(***************************************************************************)
EXTENDS DivSequence

MCMin == -2
MCSettings == {-2, 0, 2, 4}
=============================================================================
