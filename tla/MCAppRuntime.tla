----------------------------- MODULE MCAppRuntime -----------------------------
(***************************************************************************)
(* Instances for TLC: a sample rate that is no multiple of the isr rate,   *)
(* as 48000 is none of 16666, and buffers of two sizes.                    *)
(***************************************************************************)
EXTENDS AppRuntime

CONSTANTS one, two, button, setting

MCBufferSizes == {4, 8}
=============================================================================
