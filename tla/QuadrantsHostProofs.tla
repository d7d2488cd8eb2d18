-------------------------- MODULE QuadrantsHostProofs --------------------------
(***************************************************************************)
(* The Quadrants host is correct for any preset, any number of lanes and   *)
(* any saved object.                                                       *)
(***************************************************************************)
EXTENDS QuadrantsHost, HostCoreProofs

\* What the firmware last read of the lanes, and an unbound lane shows nothing.
DefinitionsInv ==
  /\ \A l \in Lanes : lanes[l].slot = Unbound => lanes[l].shows = Nobody
  /\ phase = "running" =>
       \A l \in Lanes : /\ fwMax[l] = LastEntry(table)
                        /\ fwShows[l] = lanes[l].shows

Inv == SafeInv /\ TypeOK
InvQuiet == QuietInv /\ DefinitionsInv

LEMMA ResolveAndCacheLive ==
  ASSUME NEW t
  PROVE  ResolveAndCache(t) \in Pointers /\ AllLive(ResolveAndCache(t))
BY ResolvePluginLive DEF ResolveAndCache, Pointers, AllLive

LEMMA FocusStaysOnALane ==
  ASSUME focus \in Lanes, NEW buttons
  PROVE  FocusAfter(buttons) \in Lanes
<1>1. \A q \in Nat : q % NumLanes \in Lanes
  BY HostProxyAssumption DEF Lanes
<1>2. focus + 1 \in Nat /\ focus + NumLanes - 1 \in Nat
  BY HostProxyAssumption DEF Lanes
<1>. QED
  BY <1>1, <1>2 DEF FocusAfter

LEMMA ShownType ==
  ASSUME NEW ls \in [Lanes -> Lane]
  PROVE  Shown(ls) \in [Lanes -> Algorithms \cup {Nobody}]
BY DEF Shown, Lane

LEMMA InitInv == Init => Inv
<1>. SUFFICES ASSUME Init PROVE Inv
  OBVIOUS
<1>1. SafeInv
  BY HostInitSafe DEF Init
<1>2. 0 \in Lanes
  BY HostProxyAssumption DEF Lanes
<1>. QED
  BY <1>1, <1>2 DEF Init, Inv, SafeInv, TypeOK

LEMMA DrawSafe == SafeInv /\ Draw => SafeInv'
<1>. SUFFICES ASSUME SafeInv, Draw PROVE SafeInv'
  OBVIOUS
<1>1. cached' \in Pointers /\ AllLive(cached')
  BY ResolveAndCacheLive DEF Draw
<1>. QED
  BY <1>1, RedrawSafe DEF Draw

LEMMA CustomUiStep ==
  ASSUME Inv, NEW buttons, NEW control \in BOOLEAN, CustomUi(buttons, control)
  PROVE  SafeInv' /\ focus' \in Lanes /\ fwShows' = fwShows
<1>1. focus' \in Lanes /\ fwShows' = fwShows
  BY FocusStaysOnALane DEF CustomUi, Inv, TypeOK
<1>2. UNCHANGED <<phase, preset_vars, edited, fw_vars, proxy_vars, drawn, sinceDraw>>
  BY DEF CustomUi
<1>3. FillCache(ResolveAndCache(table)) /\ (HandOver(focus') \/ out' = NoCall)
  BY DEF CustomUi
<1>4. ResolveAndCache(table) \in Pointers /\ AllLive(ResolveAndCache(table))
  BY ResolveAndCacheLive
<1>. QED
  BY <1>1, <1>2, <1>3, <1>4, CustomUiSafe DEF Inv

\* Only members that name a lane are accepted.
LEMMA DeserialiseStep ==
  ASSUME Inv, NEW ms, Deserialise(ms)
  PROVE  SafeInv' /\ focus' \in Lanes /\ fwShows' = fwShows
<1>1. UNCHANGED hostVars /\ fwShows' = fwShows
  BY DEF Deserialise
<1>2. focus' = focus \/ \E i \in Accepted(ms) : focus' = ms[i]
  BY DEF Deserialise
<1>. QED
  BY <1>1, <1>2, StutterKeepsInv DEF Inv, TypeOK, Accepted

LEMMA NextInv == Inv /\ [Next]_vars => Inv'
<1>. SUFFICES ASSUME Inv, [Next]_vars PROVE Inv'
  OBVIOUS
<1>0. focus \in Lanes /\ fwShows \in [Lanes -> Algorithms \cup {Nobody}] /\ SafeInv
      /\ 0 \in Lanes /\ lanes \in [Lanes -> Lane]
  BY HostProxyAssumption DEF Inv, TypeOK, SafeInv, HostTypeOK, Lanes
<1>. SUFFICES SafeInv' /\ focus' \in Lanes
              /\ fwShows' \in [Lanes -> Algorithms \cup {Nobody}]
  BY DEF Inv, TypeOK, SafeInv
<1>1. CASE Constructed
  BY <1>0, <1>1, ConstructSafe DEF Constructed
<1>2. CASE Registered
  BY <1>0, <1>2, RegisterSafe, ShownType DEF Registered
<1>3. ASSUME NEW p \in HostParams, SelectorEdited(p)
      PROVE  SafeInv' /\ focus' \in Lanes
             /\ fwShows' \in [Lanes -> Algorithms \cup {Nobody}]
  <2>1. SafeInv'
    BY <1>0, <1>3, SelectorChangedSafe DEF SelectorEdited
  <2>2. p \in Lanes
    BY <1>3, ConstantFacts DEF SelectorEdited, SelectorChanged
  <2>3. lanes'[p].shows \in Algorithms \cup {Nobody}
    BY <2>1, <2>2 DEF SafeInv, HostTypeOK, Lane
  <2>. QED
    BY <1>0, <1>3, <2>1, <2>3 DEF SelectorEdited
<1>4. ASSUME NEW p \in HostParams, ProxyEdited(p)
      PROVE  SafeInv' /\ focus' \in Lanes
             /\ fwShows' \in [Lanes -> Algorithms \cup {Nobody}]
  BY <1>0, <1>4, ProxyChangedSafe DEF ProxyEdited
<1>5. CASE Draw
  <2>1. SafeInv'
    BY <1>0, <1>5, DrawSafe
  <2>2. Shown(lanes') \in [Lanes -> Algorithms \cup {Nobody}]
    BY <2>1, ShownType DEF SafeInv, HostTypeOK
  <2>. QED
    BY <1>0, <1>5, <2>1, <2>2 DEF Draw, PushedByDraw
<1>6. CASE \E buttons \in SUBSET {"button3", "button4"}, control \in BOOLEAN :
             CustomUi(buttons, control)
  BY <1>0, <1>6, CustomUiStep
<1>7. CASE \E n \in 0 .. MaxMembers : \E ms \in [1 .. n -> Members] : Deserialise(ms)
  BY <1>0, <1>7, DeserialiseStep
<1>8. CASE (Step \/ User) /\ UNCHANGED <<focus, fwShows>>
  BY <1>0, <1>8, StepSafe, UserSafe
<1>9. CASE UNCHANGED vars
  BY <1>0, <1>9, StutterKeepsInv DEF vars
<1>. QED
  BY <1>1, <1>2, <1>3, <1>4, <1>5, <1>6, <1>7, <1>8, <1>9 DEF Next

LEMMA SafeInvariant == Spec => []Inv
BY InitInv, NextInv, PTL DEF Spec

-----------------------------------------------------------------------------
LEMMA RunningDefinitions ==
  ASSUME SafeInv, QuietInv, DefinitionsInv, drawn, ~edited
  PROVE  DefinitionsCurrent
<1>1. phase = "running" /\ table = EnumTable(preset)
  BY DEF SafeInv, QuietInv, TableCurrent
<1>2. ASSUME NEW l \in Lanes
      PROVE  SameParameters(fwShows[l], Occupant(lanes[l].slot))
  <2>1. fwShows[l] = lanes[l].shows
    BY <1>1 DEF DefinitionsInv
  <2>2. CASE lanes[l].slot = Unbound
    <3>1. Occupant(Unbound) = Nobody
      BY HostProxyAssumption, LenProperties DEF Occupant, SafeInv, HostTypeOK
    <3>. QED
      BY <2>1, <2>2, <3>1 DEF DefinitionsInv, SameParameters
  <2>3. CASE lanes[l].slot # Unbound
    <3>1. PICK e \in DOMAIN table : Describes(table[e], lanes[l])
      BY <1>1, <2>3 DEF QuietInv, LanesDescribed
    <3>2. /\ lanes[l].slot \in HemiSlots(preset)
          /\ Label[preset[lanes[l].slot]] = Label[lanes[l].shows]
      BY <1>1, <3>1, EntryIsNth, NthHemiIsHemi DEF Describes
    <3>3. /\ Occupant(lanes[l].slot) = preset[lanes[l].slot]
          /\ preset[lanes[l].slot] # Nobody /\ lanes[l].shows # Nobody
      BY <3>1, <3>2, HostProxyAssumption DEF Occupant, HemiSlots, Describes
    <3>. QED
      BY <2>1, <3>2, <3>3 DEF SameParameters
  <2>. QED
    BY <2>2, <2>3
<1>. QED
  BY <1>1, <1>2 DEF DefinitionsCurrent, DefinitionsInv

LEMMA InitQuiet == Init => InvQuiet
<1>1. Init => DefinitionsInv
  BY DEF Init, HostInit, DefinitionsInv, UnboundLane
<1>. QED
  BY <1>1, HostInitQuiet DEF Init, InvQuiet

LEMMA NextQuietInv ==
  ASSUME QuietEdits
  PROVE  Inv /\ InvQuiet /\ [Next]_vars => QuietInv'
<1>. SUFFICES ASSUME SafeInv, QuietInv, [Next]_vars PROVE QuietInv'
  BY DEF Inv, InvQuiet
<1>1. CASE Constructed
  BY <1>1, ConstructQuiet DEF Constructed
<1>2. CASE Registered
  BY <1>2, RegisterQuiet DEF Registered
<1>3. CASE \E p \in HostParams : SelectorEdited(p) \/ ProxyEdited(p)
  BY <1>3, SelectorChangedQuiet, ProxyChangedQuiet DEF SelectorEdited, ProxyEdited
<1>4. CASE Draw
  BY <1>4, RedrawQuiet DEF Draw
<1>5. CASE \E buttons \in SUBSET {"button3", "button4"}, control \in BOOLEAN :
             CustomUi(buttons, control)
  <2>1. PICK buttons, control : CustomUi(buttons, control)
    BY <1>5
  <2>2. HandOver(focus') \/ out' = NoCall
    BY <2>1 DEF CustomUi
  <2>3. out'.call # "forward"
    BY <2>2 DEF HandOver, NoCall, Deliver
  <2>4. UNCHANGED <<phase, preset_vars, edited, fw_vars, proxy_vars>>
    BY <2>1 DEF CustomUi
  <2>. QED
    BY <2>3, <2>4 DEF QuietInv, preset_vars, fw_vars, proxy_vars, TableCurrent,
                      LanesDescribed, ForwardHitsShownAlgorithm
<1>6. CASE \E n \in 0 .. MaxMembers : \E ms \in [1 .. n -> Members] : Deserialise(ms)
  BY <1>6, StutterKeepsInv DEF Deserialise
<1>7. CASE (Step \/ User) /\ UNCHANGED <<focus, fwShows>>
  BY <1>7, StepQuiet, UserQuiet
<1>8. CASE UNCHANGED vars
  BY <1>8, StutterKeepsInv DEF vars
<1>. QED
  BY <1>1, <1>2, <1>3, <1>4, <1>5, <1>6, <1>7, <1>8 DEF Next

\* A lane whose slot is unbound shows nothing.
EmptyIfUnbound(lane) == lane.slot = Unbound => lane.shows = Nobody

LEMMA AggregateEmptyIfUnbound ==
  ASSUME NEW pre \in Seq(Algorithms), NEW e, NEW old
  PROVE  EmptyIfUnbound(Aggregate(pre, Resolve(pre, EnumTable(pre), e), old))
BY AggregateFollowsTable DEF EmptyIfUnbound

LEMMA NextDefinitions ==
  ASSUME QuietEdits
  PROVE  Inv /\ InvQuiet /\ [Next]_vars => DefinitionsInv'
<1>. SUFFICES ASSUME SafeInv, TypeOK, QuietInv, DefinitionsInv, [Next]_vars
              PROVE  DefinitionsInv'
  BY DEF Inv, InvQuiet
<1>0. preset \in Seq(Algorithms) /\ lanes \in [Lanes -> Lane]
      /\ fwMax \in [Lanes -> EnumValues]
      /\ fwShows \in [Lanes -> Algorithms \cup {Nobody}]
  BY DEF SafeInv, HostTypeOK, TypeOK
<1>1. CASE Constructed
  <2>1. phase' # "running"
    BY <1>1 DEF Constructed, Construct
  <2>2. \A l \in Lanes : EmptyIfUnbound(lanes'[l])
    BY <1>0, <1>1, AggregateEmptyIfUnbound DEF Constructed, Construct
  <2>. QED
    BY <2>1, <2>2 DEF DefinitionsInv, EmptyIfUnbound
<1>2. CASE Registered
  BY <1>2 DEF Registered, Register, proxy_vars, DefinitionsInv, Shown
<1>3. ASSUME NEW p \in HostParams, SelectorEdited(p) PROVE DefinitionsInv'
  <2>1. p \in Lanes /\ (phase = "running" => table = EnumTable(preset))
    BY <1>3, ConstantFacts
    DEF SelectorEdited, SelectorChanged, Due, QuietInv, TableCurrent
  <2>2. EmptyIfUnbound(lanes'[p]) /\ \A l \in Lanes \ {p} : lanes'[l] = lanes[l]
    BY <1>0, <1>3, <2>1, AggregateEmptyIfUnbound DEF SelectorEdited, SelectorChanged
  <2>3. phase' = phase /\ table' = EnumTable(preset)
    BY <1>3 DEF SelectorEdited, SelectorChanged
  <2>4. CASE phase = "running"
    <3>1. /\ fwMax' = [fwMax EXCEPT ![p] = LastEntry(table')]
          /\ fwShows' = [fwShows EXCEPT ![p] = lanes'[p].shows]
      BY <1>3, <2>3, <2>4 DEF SelectorEdited, SelectorChanged
    <3>. QED
      BY <1>0, <2>1, <2>2, <2>3, <2>4, <3>1 DEF DefinitionsInv, EmptyIfUnbound
  <2>5. CASE phase # "running"
    BY <2>1, <2>2, <2>3, <2>5 DEF DefinitionsInv, EmptyIfUnbound
  <2>. QED
    BY <2>4, <2>5
<1>4. ASSUME NEW p \in HostParams, ProxyEdited(p) PROVE DefinitionsInv'
  BY <1>4 DEF ProxyEdited, ProxyChanged, proxy_vars, DefinitionsInv
<1>5. CASE Draw
  <2>1. table' = EnumTable(preset) /\ phase = "running" /\ phase' = phase
    BY <1>5 DEF Draw, Redraw
  <2>2. CASE table' # table
    <3>1. \A l \in Lanes : EmptyIfUnbound(lanes'[l])
      BY <1>0, <1>5, <2>1, <2>2, AggregateEmptyIfUnbound DEF Draw, Redraw
    <3>2. fwMax' = [l \in Lanes |-> LastEntry(table')] /\ fwShows' = Shown(lanes')
      BY <1>5, <2>1, <2>2 DEF Draw, Redraw, PushedByDraw
    <3>. QED
      BY <3>1, <3>2 DEF DefinitionsInv, EmptyIfUnbound, Shown
  <2>3. CASE table' = table
    BY <1>5, <2>1, <2>3 DEF Draw, Redraw, PushedByDraw, DefinitionsInv
  <2>. QED
    BY <2>2, <2>3
<1>6. CASE \E buttons \in SUBSET {"button3", "button4"}, control \in BOOLEAN :
             CustomUi(buttons, control)
  BY <1>6 DEF CustomUi, fw_vars, proxy_vars, DefinitionsInv
<1>7. CASE \E n \in 0 .. MaxMembers : \E ms \in [1 .. n -> Members] : Deserialise(ms)
  BY <1>7 DEF Deserialise, hostVars, fw_vars, proxy_vars, DefinitionsInv
<1>8. CASE (Step \/ User) /\ UNCHANGED <<focus, fwShows>>
  BY <1>8 DEF Step, User, LoadAlgorithm, RemoveAlgorithm, MoveAlgorithm, PresetEdit,
              EditParameter, fw_vars, proxy_vars, DefinitionsInv
<1>9. CASE UNCHANGED vars
  BY <1>9 DEF vars, hostVars, fw_vars, proxy_vars, DefinitionsInv
<1>. QED
  BY <1>1, <1>2, <1>3, <1>4, <1>5, <1>6, <1>7, <1>8, <1>9 DEF Next

LEMMA QuietInvariant ==
  ASSUME QuietEdits
  PROVE  Spec => []InvQuiet
<1>1. Inv /\ InvQuiet /\ [Next]_vars => InvQuiet'
  BY NextQuietInv, NextDefinitions DEF InvQuiet
<1>. QED
  BY <1>1, InitQuiet, SafeInvariant, PTL DEF Spec

-----------------------------------------------------------------------------
\* Types; whatever is restored or pressed, the focus stays on a lane.
THEOREM TypeCorrect == Spec => []TypeOK
<1>1. Inv => TypeOK
  BY DEF Inv
<1>. QED
  BY <1>1, SafeInvariant, PTL

\* On the preset it last drew the host hands controls to live applets only.
THEOREM ControlsReachLiveApplets == Spec => []CachedPluginsLive
<1>1. Inv => CachedPluginsLive
  BY DEF Inv, SafeInv
<1>. QED
  BY <1>1, SafeInvariant, PTL

\* If no selector edit is delivered between a preset edit and the draw that
\* picks it up, the definitions the firmware holds are those of the
\* algorithms it would forward to.
THEOREM DefinitionsStayCurrent ==
  ASSUME QuietEdits
  PROVE  Spec => []DefinitionsCurrent
<1>1. Inv /\ InvQuiet => DefinitionsCurrent
  <2>. SUFFICES ASSUME SafeInv, QuietInv, DefinitionsInv, drawn, ~edited
                PROVE  DefinitionsCurrent
    BY DEF Inv, InvQuiet, DefinitionsCurrent
  <2>. QED
    BY RunningDefinitions
<1>. QED
  BY <1>1, SafeInvariant, QuietInvariant, PTL

LEMMA DrawAgrees ==
  ASSUME QuietInv', Draw
  PROVE  \A l \in Lanes \ pending : cached'[l] = ResolvePlugin(lanes'[l].slot)
<1>1. /\ table' = EnumTable(preset) /\ sel' = sel /\ pending' = pending
      /\ phase' = "running" /\ cached' = ResolveAndCache(EnumTable(preset))
  BY DEF Draw, Redraw
<1>2. \A l \in Lanes \ pending : lanes'[l].slot = SlotIn(EnumTable(preset), sel[l])
  BY <1>1 DEF QuietInv, LanesDescribed
<1>. QED
  BY <1>1, <1>2, ResolveReadsTable DEF ResolveAndCache

\* Under the same condition the applet a lane draws is the one its parameter
\* edits are forwarded to.
THEOREM ViewAgrees ==
  ASSUME QuietEdits
  PROVE  Spec => ViewAndParametersAgree
<1>1. InvQuiet /\ InvQuiet' /\ [Next]_vars =>
        [Draw => \A l \in Lanes \ pending :
           cached'[l] = ResolvePlugin(lanes'[l].slot)]_vars
  BY DrawAgrees DEF InvQuiet
<1>. QED
  BY <1>1, QuietInvariant, PTL DEF Spec, ViewAndParametersAgree
=============================================================================
