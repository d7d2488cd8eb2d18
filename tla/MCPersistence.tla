---------------------------- MODULE MCPersistence ---------------------------
(***************************************************************************)
(* Instances for TLC: words of two bits, a blob of two words.              *)
(***************************************************************************)
EXTENDS Persistence

CONSTANTS w0, w1, w2

MCBlobWords == <<w0, w1>>
=============================================================================
