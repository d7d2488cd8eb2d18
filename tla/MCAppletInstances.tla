-------------------------- MODULE MCAppletInstances --------------------------
(***************************************************************************)
(* Two instances of one applet plug-in: a pulse or a level is enough.      *)
(***************************************************************************)
EXTENDS AppletInstances

MCGates == {<<FALSE>>, <<TRUE>>}
MCPulseLengths == {-1, 1}
=============================================================================
