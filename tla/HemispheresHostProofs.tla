------------------------- MODULE HemispheresHostProofs -------------------------
(***************************************************************************)
(* The Hemispheres host is correct for any preset, any number of lanes and *)
(* any number of edits in flight.                                          *)
(***************************************************************************)
EXTENDS HemispheresHost, HostCoreProofs

LEMMA ResolveAndCacheLive ==
  ASSUME NEW t, NEW ls
  PROVE  ResolveAndCache(t, ls) \in Pointers /\ AllLive(ResolveAndCache(t, ls))
<1>1. \A l \in Lanes : \E s : CachedPlugin(t, ls, l) = ResolvePlugin(s)
  BY DEF CachedPlugin
<1>. QED
  BY <1>1, ResolvePluginLive DEF ResolveAndCache, Pointers, AllLive

LEMMA InitSafe == Init => SafeInv
BY HostInitSafe DEF Init

LEMMA NextSafe == SafeInv /\ [Next]_hostVars => SafeInv'
<1>. SUFFICES ASSUME SafeInv, [Next]_hostVars PROVE SafeInv'
  OBVIOUS
<1>1. CASE Construct
  BY <1>1, ConstructSafe
<1>2. CASE Register
  BY <1>2, RegisterSafe
<1>3. CASE \E p \in HostParams : ParameterChanged(p)
  BY <1>3, SelectorChangedSafe, ProxyChangedSafe DEF ParameterChanged
<1>4. CASE Step
  BY <1>4, StepSafe
<1>5. CASE Draw
  <2>1. cached' \in Pointers
    BY <1>5, ResolveAndCacheLive DEF Draw
  <2>2. AllLive(cached')
    BY <1>5, ResolveAndCacheLive DEF Draw
  <2>. QED
    BY <1>5, <2>1, <2>2, RedrawSafe DEF Draw
<1>6. CASE \E l \in Lanes : CustomUi(l)
  <2>1. PICK l \in Lanes : CustomUi(l)
    BY <1>6
  <2>2. ResolveAndCache(table, lanes) \in Pointers /\ AllLive(ResolveAndCache(table, lanes))
    BY ResolveAndCacheLive
  <2>3. UNCHANGED <<phase, preset_vars, edited, fw_vars, proxy_vars, drawn, sinceDraw>>
    BY <2>1 DEF CustomUi
  <2>4. FillCache(ResolveAndCache(table, lanes)) /\ HandOver(l)
    BY <2>1 DEF CustomUi
  <2>. QED
    BY <2>2, <2>3, <2>4, CustomUiSafe
<1>7. CASE User
  BY <1>7, UserSafe
<1>8. CASE UNCHANGED hostVars
  BY <1>8, StutterKeepsInv
<1>. QED
  BY <1>1, <1>2, <1>3, <1>4, <1>5, <1>6, <1>7, <1>8 DEF Next

LEMMA SafeInvariant == Spec => []SafeInv
BY InitSafe, NextSafe, PTL DEF Spec

LEMMA NextQuiet ==
  ASSUME QuietEdits
  PROVE  SafeInv /\ QuietInv /\ [Next]_hostVars => QuietInv'
<1>. SUFFICES ASSUME SafeInv, QuietInv, [Next]_hostVars PROVE QuietInv'
  OBVIOUS
<1>1. CASE Construct
  BY <1>1, ConstructQuiet
<1>2. CASE Register
  BY <1>2, RegisterQuiet
<1>3. CASE \E p \in HostParams : ParameterChanged(p)
  BY <1>3, SelectorChangedQuiet, ProxyChangedQuiet DEF ParameterChanged
<1>4. CASE Step
  BY <1>4, StepQuiet
<1>5. CASE Draw
  BY <1>5, RedrawQuiet DEF Draw
<1>6. CASE \E l \in Lanes : CustomUi(l)
  BY <1>6, CustomUiQuiet DEF CustomUi
<1>7. CASE User
  BY <1>7, UserQuiet
<1>8. CASE UNCHANGED hostVars
  BY <1>8, StutterKeepsInv
<1>. QED
  BY <1>1, <1>2, <1>3, <1>4, <1>5, <1>6, <1>7, <1>8 DEF Next

LEMMA QuietInvariant ==
  ASSUME QuietEdits
  PROVE  Spec => []QuietInv
<1>1. Init => QuietInv
  BY HostInitQuiet DEF Init
<1>. QED
  BY <1>1, NextQuiet, SafeInvariant, PTL DEF Spec

-----------------------------------------------------------------------------
\* The parameter tables, lane maps and slot pointers keep their types.
THEOREM TypeCorrect == Spec => []TypeOK
<1>1. SafeInv => TypeOK
  BY DEF SafeInv, TypeOK
<1>. QED
  BY <1>1, SafeInvariant, PTL

\* The construct-time guard of parameterChanged (draw_count == 0) keeps
\* NT_setParameterFromUi from being called before the host is registered.
THEOREM ConstructForwardsNothing == Spec => []NoForwardDuringConstruct
<1>1. SafeInv => NoForwardDuringConstruct
  BY DEF SafeInv
<1>. QED
  BY <1>1, SafeInvariant, PTL

\* On the preset it last drew the host hands controls to live applets only.
THEOREM ControlsReachLiveApplets == Spec => []CachedPluginsLive
<1>1. SafeInv => CachedPluginsLive
  BY DEF SafeInv
<1>. QED
  BY <1>1, SafeInvariant, PTL

\* If no selector edit is delivered between a preset edit and the draw that
\* picks it up, every lane maps to the slot its selector names.
THEOREM LanesFollow ==
  ASSUME QuietEdits
  PROVE  Spec => []LanesFollowSelectors
BY QuietImpliesLanesFollow, SafeInvariant, QuietInvariant, PTL

\* Under the same condition a proxy edit lands on the algorithm whose
\* parameters the host shows, on one of its own parameters.
THEOREM ForwardsHit ==
  ASSUME QuietEdits
  PROVE  Spec => []ForwardHitsShownAlgorithm
<1>1. QuietInv => ForwardHitsShownAlgorithm
  BY DEF QuietInv
<1>. QED
  BY <1>1, QuietInvariant, PTL

LEMMA DrawFollowsSelectors ==
  ASSUME SafeInv, QuietInv, QuietInv', Draw
  PROVE  \A l \in Lanes \ pending :
           LET slot == Resolve(preset, EnumTable(preset), sel[l])
           IN slot # Unbound => cached'[l] = ResolvePlugin(slot)
<1>. DEFINE t == EnumTable(preset)
<1>1. /\ table' = t /\ sel' = sel /\ pending' = pending /\ phase' = "running"
      /\ cached' = ResolveAndCache(t, lanes')
  BY DEF Draw, Redraw
<1>2. \A l \in Lanes \ pending : lanes'[l].slot = SlotIn(t, sel[l])
  BY <1>1 DEF QuietInv, LanesDescribed
<1>. QED
  BY <1>1, <1>2, ResolveReadsTable DEF ResolveAndCache, CachedPlugin

\* Under the same condition a draw renders, and routes the controls of a lane
\* to, the applet the lane's selector names.
THEOREM DrawsSelected ==
  ASSUME QuietEdits
  PROVE  Spec => DrawsSelectedAlgorithm
<1>1. SafeInv /\ QuietInv /\ QuietInv' /\ [Next]_hostVars =>
        [Draw => \A l \in Lanes \ pending :
           LET slot == Resolve(preset, EnumTable(preset), sel[l])
           IN slot # Unbound => cached'[l] = ResolvePlugin(slot)]_hostVars
  BY DrawFollowsSelectors
<1>. QED
  BY <1>1, SafeInvariant, QuietInvariant, PTL DEF Spec, DrawsSelectedAlgorithm
=============================================================================
