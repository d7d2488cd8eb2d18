------------------------------- MODULE HostCore -------------------------------
(***************************************************************************)
(* What the two host plug-ins (plugins/hosts/*.cpp) have in common: the    *)
(* instance's state, the selector branch of parameterChanged, the proxy    *)
(* branch, step, and the firmware around them.  The two .cpp files repeat  *)
(* this code; where they differ, HemispheresHost and QuadrantsHost say so. *)
(*                                                                         *)
(* The firmware is external.  It calls the host's entry points one at a    *)
(* time, and between any two of them the user may edit the preset, move    *)
(* a parameter or leave the host's page.  A parameter edit stores the      *)
(* value at once and calls parameterChanged later: the reentrancy probe    *)
(* measured that the call never nests inside the one that caused it.       *)
(***************************************************************************)
EXTENDS HostProxy, FooterOverdraw

CONSTANTS
  Self,                \* the host's own instance (its guid is 'Hm' as well)
  Compatible,          \* instances whose magic and interface version check out
  MaxSlots,            \* slots of a preset
  MaxPending,          \* bound: edits whose parameterChanged is still due
  QuietEdits           \* TRUE: no selector call between a preset edit and draw

ASSUME HostCoreAssumption ==
  /\ Self \in HemiGuid
  /\ Compatible \subseteq HemiGuid \ {Self}
  /\ MaxSlots \in Nat \ {0}
  /\ MaxPending \in Nat \ {0}
  /\ QuietEdits \in BOOLEAN

VARIABLES
  phase,      \* "absent", "constructed" (parameterChanged fan-out), "running"
  preset,     \* the instances in the preset's slots
  unloaded,   \* instances never loaded so far
  edited,     \* the preset changed since the host last drew
  sel,        \* v[0 .. K-1]
  selDef,     \* proxy_params[lane].def of the selectors
  fwMax,      \* selector maximum in the definition the firmware last read
  pending,    \* parameters whose parameterChanged is due
  table,      \* enum_strs
  lanes,      \* maps[] and the lane parts of proxy_params[]
  drawn,      \* draw_count > 0
  cached,     \* cached_slot[]
  sinceDraw,  \* steps_since_draw
  out         \* the outside call the last callback made

preset_vars == <<preset, unloaded>>
proxy_vars == <<table, lanes, selDef>>
fw_vars == <<sel, fwMax, pending>>
frame_vars == <<drawn, cached, sinceDraw>>
hostVars == <<phase, preset_vars, edited, fw_vars, proxy_vars,
              frame_vars, out>>

-----------------------------------------------------------------------------
(***************************************************************************)
(* Values.                                                                 *)
(***************************************************************************)

NoCall == [call |-> "none"]
Restore == [call |-> "restore"]
Forward(p, t, hit) ==
  [call |-> "forward", from |-> p, slot |-> t.slot, param |-> t.param,
   hit |-> hit]
Deliver(plugin) == [call |-> "deliver", on |-> plugin]

EnumValues == 0 .. MaxEnumEntries - 1

\* What preset slot s holds; Nobody when there is no such slot.
Occupant(s) == IF s \in DOMAIN preset THEN preset[s] ELSE Nobody

\* host_helpers::resolve_slot: the plug-in pointer, or null.
ResolvePlugin(s) ==
  IF Occupant(s) \in Compatible THEN Occupant(s) ELSE Nobody

InPreset == {preset[i] : i \in DOMAIN preset}

\* customUi uses the pointers of the last draw, and resolves only when all of
\* them are null.
FillCache(resolved) ==
  cached' = IF \A l \in Lanes : cached[l] = Nobody THEN resolved ELSE cached

HandOver(l) ==
  out' = IF cached'[l] # Nobody THEN Deliver(cached'[l]) ELSE NoCall

-----------------------------------------------------------------------------
(***************************************************************************)
(* The entry points.                                                       *)
(***************************************************************************)

\* construct: scan the preset, default lane l to the (l + 1)-th entry,
\* aggregate.  The firmware then binds v[] (saved values, or the defaults) and
\* calls parameterChanged for every parameter before it registers the host.
Construct ==
  LET t == EnumTable(preset)
      d == [l \in Lanes |-> SelectorDefault(t, l + 1)]
  IN
  /\ phase = "absent" /\ Len(preset) < MaxSlots
  /\ phase' = "constructed"
  /\ table' = t
  /\ selDef' = d
  /\ lanes' = [l \in Lanes |->
                 Aggregate(preset, Resolve(preset, t, d[l]), UnboundLane)]
  /\ sel' \in [Lanes -> EnumValues]
  /\ pending' = HostParams
  /\ UNCHANGED <<preset_vars, edited, fwMax, frame_vars, out>>

\* The algorithm gets its slot; the firmware reads the parameter table.
Register ==
  /\ phase = "constructed" /\ pending = {}
  /\ phase' = "running"
  /\ preset' = Append(preset, Self)
  /\ edited' = TRUE
  /\ fwMax' = [l \in Lanes |-> LastEntry(table)]
  /\ out' = NoCall
  /\ UNCHANGED <<unloaded, sel, pending, proxy_vars, frame_vars>>

\* During the fan-out the firmware goes through the parameters in order.
Due(p) ==
  /\ p \in pending
  /\ phase = "constructed" => \A q \in pending : p <= q
  /\ phase = "running" /\ p \in Selectors /\ QuietEdits => ~edited

\* parameterChanged(p) for a selector: refresh the enum (whether it changed
\* is not looked at), redefine the selector, re-aggregate this one lane and
\* redefine its parameters.  NT_algorithmIndex is invalid until registration.
SelectorChanged(p) ==
  LET t == EnumTable(preset)
      lane == Aggregate(preset, Resolve(preset, t, sel[p]), lanes[p])
  IN
  /\ p \in Selectors /\ Due(p)
  /\ pending' = pending \ {p}
  /\ table' = t
  /\ lanes' = [lanes EXCEPT ![p] = lane]
  /\ IF phase = "running"
       THEN fwMax' = [fwMax EXCEPT ![p] = LastEntry(t)]
       ELSE UNCHANGED fwMax
  /\ out' = NoCall
  /\ UNCHANGED <<phase, preset_vars, edited, sel, selDef, frame_vars>>

\* Mutant: no construct-time guard.
ProxyChangedUnguarded(p) ==
  LET t == DecodeForward(lanes, p) IN
  /\ p \in ProxyParams /\ Due(p)
  /\ pending' = pending \ {p}
  /\ out' = IF t # NoTarget THEN Forward(p, t, Occupant(t.slot)) ELSE NoCall
  /\ UNCHANGED <<phase, preset_vars, edited, sel, fwMax,
                 proxy_vars, frame_vars>>

\* parameterChanged(p) for a proxy parameter: nothing before the first draw;
\* after it, forward v[p] to whatever slot the lane maps to.
ProxyChanged(p) ==
  LET t == DecodeForward(lanes, p) IN
  /\ p \in ProxyParams /\ Due(p)
  /\ pending' = pending \ {p}
  /\ out' = IF drawn /\ t # NoTarget
              THEN Forward(p, t, Occupant(t.slot))
              ELSE NoCall
  /\ UNCHANGED <<phase, preset_vars, edited, sel, fwMax,
                 proxy_vars, frame_vars>>

\* step: put the cached footer back, for a while after each draw.
Step ==
  /\ phase = "running"
  /\ sinceDraw' = AfterStep(sinceDraw)
  /\ out' = IF Restoring(sinceDraw) THEN Restore ELSE NoCall
  /\ UNCHANGED <<phase, preset_vars, edited, fw_vars, proxy_vars, drawn,
                 cached>>

\* The part of draw both hosts share: count the draw, refresh the enum and,
\* if it changed, re-aggregate every lane; snapshot the footer.  Each host
\* adds its own resolve_and_cache.
Redraw ==
  LET t == EnumTable(preset)
      fresh == [l \in Lanes |->
                  Aggregate(preset, Resolve(preset, t, sel[l]), lanes[l])]
  IN
  /\ phase = "running"
  /\ drawn' = TRUE
  /\ table' = t
  /\ IF t # table
       THEN /\ lanes' = fresh
            /\ fwMax' = [l \in Lanes |-> LastEntry(t)]
       ELSE UNCHANGED <<lanes, fwMax>>
  /\ sinceDraw' = AfterDraw
  /\ edited' = FALSE
  /\ out' = NoCall
  /\ UNCHANGED <<phase, preset_vars, sel, selDef, pending>>

-----------------------------------------------------------------------------
(***************************************************************************)
(* The firmware and its user.                                              *)
(***************************************************************************)

\* A knob, a MIDI mapping or another host moves one of the parameters.
EditParameter(p) ==
  /\ phase = "running"
  /\ Cardinality(pending \cup {p}) <= MaxPending
  /\ IF p \in Selectors
       THEN \E e \in 0 .. fwMax[p] : sel' = [sel EXCEPT ![p] = e]
       ELSE UNCHANGED sel
  /\ pending' = pending \cup {p}
  /\ out' = NoCall
  /\ UNCHANGED <<phase, preset_vars, edited, fwMax,
                 proxy_vars, frame_vars>>

PresetEdit ==
  /\ phase # "constructed"
  /\ edited' = TRUE
  /\ out' = NoCall
  /\ UNCHANGED <<phase, fw_vars, proxy_vars, frame_vars>>

LoadAlgorithm ==
  /\ Len(preset) < MaxSlots
  /\ \E a \in unloaded : /\ preset' = Append(preset, a)
                         /\ unloaded' = unloaded \ {a}
  /\ PresetEdit

RemoveAlgorithm ==
  /\ \E i \in DOMAIN preset :
       /\ preset[i] # Self
       /\ preset' = SubSeq(preset, 1, i - 1) \o SubSeq(preset, i + 1, Len(preset))
  /\ UNCHANGED unloaded
  /\ PresetEdit

MoveAlgorithm ==
  /\ \E i \in 1 .. Len(preset) - 1 :
       preset' = [preset EXCEPT ![i] = preset[i + 1], ![i + 1] = preset[i]]
  /\ UNCHANGED unloaded
  /\ PresetEdit

HostInit ==
  /\ phase = "absent"
  /\ preset = <<>>
  /\ unloaded = Algorithms \ {Self}
  /\ edited = FALSE
  /\ sel = [l \in Lanes |-> 0]
  /\ selDef = [l \in Lanes |-> 0]
  /\ fwMax = [l \in Lanes |-> 0]
  /\ pending = {}
  /\ table = <<>>
  /\ lanes = [l \in Lanes |-> UnboundLane]
  /\ drawn = FALSE
  /\ cached = [l \in Lanes |-> Nobody]
  /\ sinceDraw = NeverDrawn
  /\ out = NoCall

User ==
  \/ LoadAlgorithm
  \/ RemoveAlgorithm
  \/ MoveAlgorithm
  \/ \E p \in HostParams : EditParameter(p)

-----------------------------------------------------------------------------
HostTypeOK ==
  /\ phase \in {"absent", "constructed", "running"}
  /\ preset \in Seq(Algorithms) /\ unloaded \subseteq Algorithms
  /\ edited \in BOOLEAN /\ drawn \in BOOLEAN
  /\ sel \in [Lanes -> EnumValues] /\ selDef \in [Lanes -> EnumValues]
  /\ fwMax \in [Lanes -> EnumValues]
  /\ pending \subseteq HostParams
  /\ lanes \in [Lanes -> Lane]
  /\ cached \in [Lanes -> Compatible \cup {Nobody}]
  /\ sinceDraw \in FooterCounts

\* The construct-time fan-out of parameterChanged forwards nothing: no
\* NT_setParameterFromUi before the host is registered.
NoForwardDuringConstruct == out.call = "forward" => phase = "running"

\* Once drawn on an unchanged preset, a lane maps to the slot its selector
\* names, unless that selector's parameterChanged is still due.
LanesFollowSelectors ==
  drawn /\ ~edited =>
    \A l \in Lanes \ pending :
      lanes[l].slot = Resolve(preset, EnumTable(preset), sel[l])

\* A proxy edit lands on the algorithm whose parameters the host shows under
\* that name, on one of that algorithm's own parameters, as long as the
\* preset is the one the host last drew.
ForwardHitsShownAlgorithm ==
  out.call = "forward" /\ ~edited =>
    /\ out.hit # Nobody
    /\ Label[out.hit] = Label[lanes[LaneOf(out.from)].shows]
    /\ out.param < ParamCount[out.hit]

\* Controls reach live applets only, as long as the preset is the one the
\* host last drew.
CachedPluginsLive ==
  drawn /\ ~edited =>
    \A l \in Lanes : cached[l] # Nobody => cached[l] \in InPreset
=============================================================================
