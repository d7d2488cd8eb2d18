---------------------------- MODULE MCJsonStream ----------------------------
(***************************************************************************)
(* Instances for TLC: every document of up to four values.                 *)
(***************************************************************************)
EXTENDS JsonStream

CONSTANTS a, b, noname
=============================================================================
