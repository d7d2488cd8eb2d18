------------------------------ MODULE MCDivider ------------------------------
(***************************************************************************)
(* Instances for TLC: division by up to 3, multiplication by up to 3, off, *)
(* and arguments that are clipped.                                         *)
(***************************************************************************)
EXTENDS Divider

MCMin == -3
MCSettings == -4 .. 4
=============================================================================
