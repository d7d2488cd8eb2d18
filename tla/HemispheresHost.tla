---------------------------- MODULE HemispheresHost ----------------------------
(***************************************************************************)
(* The Hemispheres host (plugins/hosts/Hemispheres_host.cpp): two lanes,   *)
(* left controls to lane 0, right controls to lane 1.                      *)
(***************************************************************************)
EXTENDS HostCore

\* Mutant: a lane that resolves to no slot keeps its old pointer.
CachedPluginKept(t, ls, l) ==
  LET mapped == ls[l].slot
      slot == IF mapped # Unbound THEN mapped
              ELSE Resolve(preset, t, selDef[l])
  IN IF slot = Unbound THEN cached[l] ELSE ResolvePlugin(slot)

\* resolve_and_cache: the lane's mapped slot; when the lane is unbound, the
\* slot the selector's default entry resolves to.
CachedPlugin(t, ls, l) ==
  LET mapped == ls[l].slot
      slot == IF mapped # Unbound THEN mapped
              ELSE Resolve(preset, t, selDef[l])
  IN ResolvePlugin(slot)

ResolveAndCache(t, ls) == [l \in Lanes |-> CachedPlugin(t, ls, l)]

ParameterChanged(p) == SelectorChanged(p) \/ ProxyChanged(p)

\* Mutant: resolve_and_cache before the enum refresh.
DrawResolvingFirst == Redraw /\ cached' = ResolveAndCache(table, lanes)

\* The redraw redefines the selectors only: the firmware keeps the lane
\* definitions it read before.
Draw == Redraw /\ cached' = ResolveAndCache(table', lanes')

\* customUi with one control of lane l turned or newly pressed: the left
\* encoder, its button and button 1 are lane 0's, the others lane 1's.  Calls
\* with several controls hand them out one after the other.
CustomUi(l) ==
  /\ phase = "running"
  /\ FillCache(ResolveAndCache(table, lanes))
  /\ HandOver(l)
  /\ UNCHANGED <<phase, preset_vars, edited, fw_vars, proxy_vars,
                 drawn, sinceDraw>>

Init == HostInit

Next ==
  \/ Construct
  \/ Register
  \/ \E p \in HostParams : ParameterChanged(p)
  \/ Step
  \/ Draw
  \/ \E l \in Lanes : CustomUi(l)
  \/ User

Spec == Init /\ [][Next]_hostVars

-----------------------------------------------------------------------------
TypeOK == HostTypeOK

\* A draw renders, and hands the controls of a lane to, the algorithm the
\* lane's selector names; it shows the stub when that one is incompatible.
DrawsSelectedAlgorithm ==
  [][Draw => \A l \in Lanes \ pending :
       LET slot == Resolve(preset, EnumTable(preset), sel[l])
       IN slot # Unbound => cached'[l] = ResolvePlugin(slot)]_hostVars
=============================================================================
