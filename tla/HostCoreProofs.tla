---------------------------- MODULE HostCoreProofs ----------------------------
(***************************************************************************)
(* What every step the two hosts share preserves.  SafeInv needs nothing   *)
(* of the user; QuietInv also needs QuietEdits.  First, facts about the    *)
(* proxy aggregator: the enum table and the rescan that answers a selector *)
(* agree, a lane aggregated from them is described by its table entry, and *)
(* a forward names an earlier parameter.                                   *)
(***************************************************************************)
EXTENDS HostCore, FiniteSetTheorems, SequenceTheorems, TLAPS

\* The slot a table entry shows; 0 and values out of the table are unbound.
SlotIn(names, e) == IF e \in DOMAIN names THEN names[e][1] ELSE Unbound

\* What an entry says of the lane it was aggregated into.
Describes(entry, lane) ==
  /\ lane.shows \in Algorithms
  /\ entry = <<lane.slot, Label[lane.shows]>>
  /\ lane.count = AtMost(ParamCount[lane.shows], MaxProxyParams)

LEMMA NthHemiIsHemi ==
  ASSUME NEW slots, NEW n \in Ordinals(slots)
  PROVE  NthHemi(slots, n) \in HemiSlots(slots)
BY DEF NthHemi, Ordinals

\* An entry of the table is the slot the rescan finds, with its name.
LEMMA EntryIsNth ==
  ASSUME NEW slots, NEW e \in DOMAIN EnumTable(slots)
  PROVE  /\ e \in Ordinals(slots)
         /\ EnumTable(slots)[e] =
              <<NthHemi(slots, e), Label[slots[NthHemi(slots, e)]]>>
BY DEF EnumTable

\* The rescan answers a selector with the slot its entry shows, as long as the
\* table is the current one.
LEMMA ResolveReadsTable ==
  ASSUME NEW slots, NEW e
  PROVE  Resolve(slots, EnumTable(slots), e) = SlotIn(EnumTable(slots), e)
BY EntryIsNth DEF Resolve, SlotIn

LEMMA ResolveType ==
  ASSUME NEW slots \in Seq(Algorithms), NEW names, NEW e
  PROVE  LET s == Resolve(slots, names, e) IN
         s # Unbound => /\ s \in DOMAIN slots /\ s \in Nat
                        /\ slots[s] \in HemiGuid
BY NthHemiIsHemi DEF Resolve, HemiSlots

LEMMA LastEntryBound ==
  ASSUME NEW slots
  PROVE  LastEntry(EnumTable(slots)) \in 0 .. MaxEnumEntries - 1
<1>. DEFINE D == DOMAIN EnumTable(slots)
            I == 1 .. MaxEnumEntries - 1
<1>1. D \in SUBSET I
  BY DEF EnumTable
<1>2. IsFiniteSet(I) /\ Cardinality(I) = MaxEnumEntries - 1
  BY HostProxyAssumption, FS_Interval
<1>3. IsFiniteSet(D) /\ Cardinality(D) <= Cardinality(I)
  BY <1>1, <1>2, FS_Subset
<1>4. Cardinality(D) \in Nat
  BY <1>3, FS_CardinalityType
<1>. QED
  BY <1>2, <1>3, <1>4, HostProxyAssumption DEF LastEntry

\* A lane aggregated against the current table maps to the slot its selector
\* shows, and its definitions are those of the algorithm the entry names.
LEMMA AggregateFollowsTable ==
  ASSUME NEW slots \in Seq(Algorithms), NEW e, NEW old
  PROVE  LET t == EnumTable(slots)
             lane == Aggregate(slots, Resolve(slots, t, e), old)
         IN /\ lane \in Lane
            /\ lane.slot = SlotIn(t, e)
            /\ lane.slot = Unbound => lane.shows = Nobody
            /\ lane.slot # Unbound =>
                 /\ e \in DOMAIN t /\ Describes(t[e], lane)
                 /\ lane.slot \in DOMAIN slots /\ lane.shows = slots[lane.slot]
<1>. DEFINE t == EnumTable(slots)
            s == Resolve(slots, t, e)
            lane == Aggregate(slots, s, old)
<1>1. s = SlotIn(t, e)
  BY ResolveReadsTable
<1>2. CASE s = Unbound
  BY <1>1, <1>2, HostProxyAssumption DEF Aggregate, UnboundLane, Lane
<1>3. CASE s # Unbound
  <2>1. s \in DOMAIN slots /\ s \in Nat /\ slots[s] \in Algorithms
    BY <1>3, ResolveType, HostProxyAssumption
  <2>2. lane = [slot |-> s, count |-> AtMost(ParamCount[slots[s]], MaxProxyParams),
                shows |-> slots[s]]
    BY <1>3, <2>1 DEF Aggregate
  <2>3. AtMost(ParamCount[slots[s]], MaxProxyParams) \in 0 .. MaxProxyParams
    BY <2>1, HostProxyAssumption DEF AtMost
  <2>4. e \in DOMAIN t /\ s = NthHemi(slots, e)
    BY <1>3 DEF Resolve
  <2>5. t[e] = <<s, Label[slots[s]]>>
    BY <2>4, EntryIsNth
  <2>6. lane \in Lane
    BY <2>1, <2>2, <2>3 DEF Lane
  <2>7. Describes(t[e], lane)
    BY <2>1, <2>2, <2>5 DEF Describes
  <2>. QED
    BY <1>1, <1>3, <2>1, <2>2, <2>4, <2>6, <2>7
<1>. QED
  BY <1>2, <1>3

LEMMA DivMod ==
  ASSUME NEW q \in Nat, NEW M \in Nat \ {0}, NEW K \in Nat \ {0}, q < K * M
  PROVE  q \div M \in 0 .. K - 1 /\ q % M \in 0 .. M - 1 /\ q % M <= q
<1>1. q = M * (q \div M) + (q % M)
  OBVIOUS
<1>2. q % M \in 0 .. M - 1
  OBVIOUS
<1>3. q \div M \in Int
  OBVIOUS
<1>4. q \div M >= 0
  BY <1>1, <1>2, <1>3
<1>5. q \div M < K
  BY <1>1, <1>2, <1>3
<1>6. q % M <= q
  BY <1>1, <1>2, <1>3, <1>4
<1>. QED
  BY <1>2, <1>3, <1>4, <1>5, <1>6

\* A forward names one of the parameters the lane took over, and one that
\* comes before the edited parameter: hosts that watch each other, or
\* themselves, pass an edit on finitely often.
LEMMA ForwardDescends ==
  ASSUME NEW maps \in [Lanes -> Lane], NEW p \in HostParams,
         DecodeForward(maps, p) # NoTarget
  PROVE  LET t == DecodeForward(maps, p) IN
         /\ p \in ProxyParams /\ LaneOf(p) \in Lanes
         /\ t.slot = maps[LaneOf(p)].slot /\ t.slot # Unbound
         /\ t.param \in 0 .. maps[LaneOf(p)].count - 1
         /\ t.param < p
<1>. DEFINE K == NumLanes
            M == MaxProxyParams
            q == p - K
<1>1. p \in ProxyParams /\ DecodeForward(maps, p) =
        [slot |-> maps[LaneOf(p)].slot, param |-> ParamOf(p)]
      /\ maps[LaneOf(p)].slot # Unbound /\ ParamOf(p) < maps[LaneOf(p)].count
  BY DEF DecodeForward
<1>2. K \in Nat \ {0} /\ M \in Nat \ {0} /\ q \in Nat /\ q < K * M
  BY <1>1, HostProxyAssumption DEF ProxyParams, HostParams, Selectors, Lanes
<1>3. q \div M \in 0 .. K - 1 /\ q % M \in 0 .. M - 1 /\ q % M <= q
  BY <1>2, DivMod
<1>4. LaneOf(p) \in Lanes /\ ParamOf(p) \in Nat /\ ParamOf(p) <= q
  BY <1>2, <1>3, HostProxyAssumption DEF LaneOf, ParamOf, Lanes
<1>5. maps[LaneOf(p)].count \in Nat
  BY <1>4, HostProxyAssumption DEF Lane
<1>6. ParamOf(p) < p
  BY <1>2, <1>4, HostProxyAssumption DEF HostParams
<1>. HIDE DEF q
<1>. QED
  BY <1>1, <1>4, <1>5, <1>6

-----------------------------------------------------------------------------

SafeInv ==
  /\ HostTypeOK
  /\ phase # "absent" => LastEntry(table) \in EnumValues
  /\ phase = "absent" => pending = {}
  /\ drawn => phase = "running"
  /\ NoForwardDuringConstruct
  /\ CachedPluginsLive

\* The table is the preset's, from construct to registration and from each
\* draw to the next preset edit.
TableCurrent ==
  phase = "constructed" \/ (phase = "running" /\ ~edited) =>
    table = EnumTable(preset)

\* Whether or not the table is current, the lanes agree with it: that is what
\* lets a draw that finds it unchanged keep them.
LanesDescribed ==
  phase # "absent" =>
    \A l \in Lanes :
      /\ l \notin pending => lanes[l].slot = SlotIn(table, sel[l])
      /\ lanes[l].slot # Unbound =>
           \E e \in DOMAIN table : Describes(table[e], lanes[l])

QuietInv ==
  /\ TableCurrent
  /\ LanesDescribed
  /\ ForwardHitsShownAlgorithm

-----------------------------------------------------------------------------
LEMMA ConstantFacts ==
  /\ Lanes \subseteq HostParams /\ Selectors = Lanes
  /\ 0 \in EnumValues /\ Compatible \subseteq Algorithms /\ Self \in Algorithms
  /\ Self \notin Compatible
<1>1. NumLanes * MaxProxyParams \in Nat
  BY HostProxyAssumption
<1>. QED
  BY <1>1, HostProxyAssumption, HostCoreAssumption
  DEF Lanes, HostParams, Selectors, EnumValues

LEMMA HostInitSafe == HostInit => SafeInv
<1>1. NeverDrawn \in FooterCounts
  BY FooterAssumption DEF FooterCounts, NeverDrawn
<1>2. UnboundLane \in Lane
  BY HostProxyAssumption DEF UnboundLane, Lane
<1>3. ASSUME HostInit PROVE HostTypeOK
  <2>1. phase = "absent" /\ preset \in Seq(Algorithms) /\ unloaded \subseteq Algorithms
    BY <1>3, EmptySeq DEF HostInit
  <2>2. sel \in [Lanes -> EnumValues] /\ selDef \in [Lanes -> EnumValues]
        /\ fwMax \in [Lanes -> EnumValues]
    BY <1>3, ConstantFacts DEF HostInit
  <2>3. lanes \in [Lanes -> Lane] /\ cached \in [Lanes -> Compatible \cup {Nobody}]
    BY <1>2, <1>3 DEF HostInit
  <2>4. edited \in BOOLEAN /\ drawn \in BOOLEAN /\ pending \subseteq HostParams
        /\ sinceDraw \in FooterCounts
    BY <1>1, <1>3 DEF HostInit
  <2>. QED
    BY <2>1, <2>2, <2>3, <2>4 DEF HostTypeOK
<1>4. HostInit => NoForwardDuringConstruct
  BY DEF HostInit, NoForwardDuringConstruct, NoCall
<1>. QED
  BY <1>3, <1>4 DEF HostInit, SafeInv, CachedPluginsLive

LEMMA HostInitQuiet == HostInit => QuietInv
BY DEF HostInit, QuietInv, TableCurrent, LanesDescribed,
       ForwardHitsShownAlgorithm, NoCall

\* resolve_slot answers with a live, compatible instance or not at all.
LEMMA ResolvePluginLive ==
  ASSUME NEW s
  PROVE  /\ ResolvePlugin(s) \in Compatible \cup {Nobody}
         /\ ResolvePlugin(s) # Nobody => ResolvePlugin(s) \in InPreset
BY HostProxyAssumption, ConstantFacts
DEF ResolvePlugin, Occupant, InPreset

\* Before a draw, no forward leaves.
LEMMA ConstructSafe == SafeInv /\ Construct => SafeInv'
<1>. SUFFICES ASSUME SafeInv, Construct PROVE SafeInv'
  OBVIOUS
<1>. DEFINE t == EnumTable(preset)
<1>1. LastEntry(t) \in EnumValues
  BY LastEntryBound DEF EnumValues
<1>2. \A l \in Lanes : SelectorDefault(t, l + 1) \in EnumValues
  BY <1>1, HostProxyAssumption DEF SelectorDefault, AtMost, EnumValues, Lanes
<1>3. preset \in Seq(Algorithms)
  BY DEF SafeInv, HostTypeOK
<1>4. \A l \in Lanes :
        Aggregate(preset, Resolve(preset, t, SelectorDefault(t, l + 1)), UnboundLane)
          \in Lane
  BY <1>3, AggregateFollowsTable
<1>5. HostTypeOK'
  BY <1>2, <1>4
  DEF SafeInv, HostTypeOK, Construct, preset_vars, frame_vars
<1>6. phase = "absent" /\ phase' = "constructed" /\ table' = t /\ out' = out
      /\ drawn' = drawn
  BY DEF Construct, frame_vars
<1>. QED
  BY <1>1, <1>5, <1>6 DEF SafeInv, NoForwardDuringConstruct, CachedPluginsLive

LEMMA ConstructQuiet == SafeInv /\ QuietInv /\ Construct => QuietInv'
<1>. SUFFICES ASSUME SafeInv, Construct PROVE QuietInv'
  OBVIOUS
<1>. DEFINE t == EnumTable(preset)
            e(l) == SelectorDefault(t, l + 1)
<1>1. preset \in Seq(Algorithms)
  BY DEF SafeInv, HostTypeOK
<1>2. /\ phase = "absent" /\ preset' = preset /\ table' = t /\ out' = out
      /\ pending' = HostParams
      /\ \A l \in Lanes :
           lanes'[l] = Aggregate(preset, Resolve(preset, t, e(l)), UnboundLane)
  BY DEF Construct, preset_vars
<1>3. TableCurrent'
  BY <1>2 DEF TableCurrent
<1>4. LanesDescribed'
  BY <1>1, <1>2, AggregateFollowsTable, ConstantFacts DEF LanesDescribed
<1>5. ForwardHitsShownAlgorithm'
  BY <1>2 DEF SafeInv, NoForwardDuringConstruct, ForwardHitsShownAlgorithm
<1>. QED
  BY <1>3, <1>4, <1>5 DEF QuietInv

LEMMA RegisterSafe == SafeInv /\ Register => SafeInv'
<1>. SUFFICES ASSUME SafeInv, Register PROVE SafeInv'
  OBVIOUS
<1>1. preset' \in Seq(Algorithms)
  BY ConstantFacts DEF SafeInv, HostTypeOK, Register
<1>2. HostTypeOK'
  BY <1>1 DEF SafeInv, HostTypeOK, Register, proxy_vars, frame_vars
<1>. QED
  BY <1>2 DEF SafeInv, Register, proxy_vars, frame_vars, NoCall,
              NoForwardDuringConstruct, CachedPluginsLive

LEMMA RegisterQuiet == QuietInv /\ Register => QuietInv'
BY DEF QuietInv, Register, proxy_vars, NoCall, TableCurrent, LanesDescribed,
       ForwardHitsShownAlgorithm

LEMMA SelectorChangedSafe ==
  ASSUME NEW p \in HostParams, SafeInv, SelectorChanged(p)
  PROVE  SafeInv'
<1>. DEFINE t == EnumTable(preset)
            lane == Aggregate(preset, Resolve(preset, t, sel[p]), lanes[p])
<1>1. LastEntry(t) \in EnumValues
  BY LastEntryBound DEF EnumValues
<1>2. lane \in Lane
  BY AggregateFollowsTable DEF SafeInv, HostTypeOK
<1>3. HostTypeOK'
  BY <1>1, <1>2
  DEF SafeInv, HostTypeOK, SelectorChanged, preset_vars, frame_vars
<1>. QED
  BY <1>1, <1>3 DEF SafeInv, SelectorChanged, preset_vars, frame_vars, NoCall,
                    NoForwardDuringConstruct, CachedPluginsLive, InPreset

\* Only the lane of the selector is re-aggregated.  The others stay right as
\* the table does not change here: it was current already.
LEMMA SelectorChangedQuiet ==
  ASSUME NEW p \in HostParams, QuietEdits, SafeInv, QuietInv, SelectorChanged(p)
  PROVE  QuietInv'
<1>. DEFINE t == EnumTable(preset)
            lane == Aggregate(preset, Resolve(preset, t, sel[p]), lanes[p])
<1>1. p \in Lanes /\ phase # "absent" /\ table = t
  <2>1. p \in Lanes /\ p \in pending /\ (phase = "running" => ~edited)
    BY ConstantFacts DEF SelectorChanged, Due
  <2>2. phase # "absent"
    BY <2>1 DEF SafeInv
  <2>. QED
    BY <2>1, <2>2 DEF SafeInv, HostTypeOK, QuietInv, TableCurrent
<1>2. /\ table' = t /\ lanes' = [lanes EXCEPT ![p] = lane] /\ sel' = sel
      /\ pending' = pending \ {p} /\ phase' = phase /\ preset' = preset
      /\ edited' = edited /\ out' = NoCall
  BY DEF SelectorChanged, preset_vars
<1>3. /\ lane.slot = SlotIn(t, sel[p])
      /\ lane.slot # Unbound => sel[p] \in DOMAIN t /\ Describes(t[sel[p]], lane)
  BY AggregateFollowsTable DEF SafeInv, HostTypeOK
<1>4. LanesDescribed'
  BY <1>1, <1>2, <1>3 DEF SafeInv, HostTypeOK, QuietInv, LanesDescribed
<1>5. TableCurrent'
  BY <1>2 DEF TableCurrent
<1>6. ForwardHitsShownAlgorithm'
  BY <1>2 DEF ForwardHitsShownAlgorithm, NoCall
<1>. QED
  BY <1>4, <1>5, <1>6 DEF QuietInv

LEMMA ProxyChangedSafe ==
  ASSUME NEW p \in HostParams, SafeInv, ProxyChanged(p)
  PROVE  SafeInv'
<1>1. HostTypeOK'
  BY DEF SafeInv, HostTypeOK, ProxyChanged, preset_vars, proxy_vars,
         frame_vars
<1>2. out'.call = "forward" => drawn
  BY DEF ProxyChanged, NoCall
<1>. QED
  BY <1>1, <1>2 DEF SafeInv, ProxyChanged, preset_vars, proxy_vars, frame_vars,
                    NoForwardDuringConstruct, CachedPluginsLive, InPreset

\* The entry that describes the lane also describes the live preset.
LEMMA ProxyChangedQuiet ==
  ASSUME NEW p \in HostParams, SafeInv, QuietInv, ProxyChanged(p)
  PROVE  QuietInv'
<1>. DEFINE t == DecodeForward(lanes, p)
            lane == lanes[LaneOf(p)]
<1>1. /\ phase' = phase /\ preset' = preset /\ edited' = edited /\ sel' = sel
      /\ table' = table /\ lanes' = lanes /\ pending' = pending \ {p}
      /\ p \notin Lanes
  BY ConstantFacts
  DEF ProxyChanged, preset_vars, proxy_vars, frame_vars, ProxyParams
<1>2. TableCurrent' /\ LanesDescribed'
  BY <1>1 DEF QuietInv, TableCurrent, LanesDescribed
<1>3. ASSUME drawn, ~edited, t # NoTarget
      PROVE  /\ Occupant(t.slot) # Nobody
             /\ Label[Occupant(t.slot)] = Label[lane.shows]
             /\ t.param < ParamCount[Occupant(t.slot)]
  <2>1. phase = "running" /\ table = EnumTable(preset)
    BY <1>3 DEF SafeInv, QuietInv, TableCurrent
  <2>2. /\ LaneOf(p) \in Lanes /\ t.slot = lane.slot /\ lane.slot # Unbound
        /\ t.param \in 0 .. lane.count - 1
    BY <1>3, ForwardDescends DEF SafeInv, HostTypeOK
  <2>3. PICK e \in DOMAIN table : Describes(table[e], lane)
    BY <2>1, <2>2 DEF QuietInv, LanesDescribed
  <2>4. /\ lane.slot \in HemiSlots(preset)
        /\ Label[preset[lane.slot]] = Label[lane.shows]
    BY <2>1, <2>3, EntryIsNth, NthHemiIsHemi DEF Describes
  <2>5. Occupant(t.slot) = preset[lane.slot] /\ preset[lane.slot] \in Algorithms
    BY <2>2, <2>4, HostProxyAssumption DEF Occupant, HemiSlots
  <2>6. ParamCount[preset[lane.slot]] = ParamCount[lane.shows]
    BY <2>3, <2>4, <2>5, HostProxyAssumption DEF Describes
  <2>7. lane.count <= ParamCount[lane.shows] /\ lane.count \in Nat
    BY <2>3, HostProxyAssumption DEF Describes, AtMost
  <2>8. ParamCount[lane.shows] \in Nat
    BY <2>3, HostProxyAssumption DEF Describes
  <2>. QED
    BY <2>2, <2>4, <2>5, <2>6, <2>7, <2>8, HostProxyAssumption
<1>4. /\ out' = NoCall \/ out' = Forward(p, t, Occupant(t.slot))
      /\ out' # NoCall => drawn /\ t # NoTarget
  BY DEF ProxyChanged
<1>5. ForwardHitsShownAlgorithm'
  BY <1>1, <1>3, <1>4 DEF ForwardHitsShownAlgorithm, NoCall, Forward
<1>. QED
  BY <1>2, <1>5 DEF QuietInv

LEMMA StepSafe == SafeInv /\ Step => SafeInv'
<1>. SUFFICES ASSUME SafeInv, Step PROVE SafeInv'
  OBVIOUS
<1>1. sinceDraw' \in FooterCounts
  BY FooterAssumption DEF SafeInv, HostTypeOK, FooterCounts, Step, AfterStep,
                          Restoring, NeverDrawn
<1>2. out'.call # "forward"
  BY DEF Step, NoCall, Restore
<1>. QED
  BY <1>1, <1>2 DEF SafeInv, HostTypeOK, Step, preset_vars, fw_vars, proxy_vars,
                    NoForwardDuringConstruct, CachedPluginsLive, InPreset

LEMMA StepQuiet == QuietInv /\ Step => QuietInv'
<1>. SUFFICES ASSUME QuietInv, Step PROVE QuietInv'
  OBVIOUS
<1>1. out'.call # "forward"
  BY DEF Step, NoCall, Restore
<1>. QED
  BY <1>1 DEF QuietInv, Step, preset_vars, fw_vars, proxy_vars, TableCurrent,
              LanesDescribed, ForwardHitsShownAlgorithm

\* The pointers a host resolves for its lanes.
Pointers == [Lanes -> Compatible \cup {Nobody}]
AllLive(cs) == \A l \in Lanes : cs[l] # Nobody => cs[l] \in InPreset

LEMMA RedrawSafe ==
  ASSUME SafeInv, Redraw, cached' \in Pointers, AllLive(cached')
  PROVE  SafeInv'
<1>. DEFINE t == EnumTable(preset)
<1>1. LastEntry(t) \in EnumValues
  BY LastEntryBound DEF EnumValues
<1>2. lanes' \in [Lanes -> Lane] /\ fwMax' \in [Lanes -> EnumValues]
  BY <1>1, AggregateFollowsTable DEF SafeInv, HostTypeOK, Redraw
<1>3. sinceDraw' \in FooterCounts
  BY FooterAssumption DEF Redraw, AfterDraw, FooterCounts, NeverDrawn
<1>4. HostTypeOK'
  BY <1>2, <1>3 DEF SafeInv, HostTypeOK, Redraw, preset_vars, Pointers
<1>5. CachedPluginsLive'
  BY DEF Redraw, preset_vars, CachedPluginsLive, AllLive, InPreset
<1>. QED
  BY <1>1, <1>4, <1>5 DEF SafeInv, Redraw, NoCall, NoForwardDuringConstruct

\* A table that changed re-aggregates every lane; one that did not still
\* describes the lanes as they are.
LEMMA RedrawQuiet == SafeInv /\ QuietInv /\ Redraw => QuietInv'
<1>. SUFFICES ASSUME SafeInv, QuietInv, Redraw PROVE QuietInv'
  OBVIOUS
<1>. DEFINE t == EnumTable(preset)
<1>1. /\ table' = t /\ phase = "running" /\ phase' = phase /\ preset' = preset
      /\ sel' = sel /\ pending' = pending /\ out' = NoCall
  BY DEF Redraw, preset_vars
<1>2. CASE t # table
  <2>1. \A l \in Lanes :
          lanes'[l] = Aggregate(preset, Resolve(preset, t, sel[l]), lanes[l])
    BY <1>2 DEF Redraw
  <2>. QED
    BY <1>1, <2>1, AggregateFollowsTable
    DEF SafeInv, HostTypeOK, QuietInv, TableCurrent, LanesDescribed,
        ForwardHitsShownAlgorithm, NoCall
<1>3. CASE t = table
  <2>1. lanes' = lanes
    BY <1>3 DEF Redraw
  <2>. QED
    BY <1>1, <1>3, <2>1
    DEF QuietInv, TableCurrent, LanesDescribed, ForwardHitsShownAlgorithm, NoCall
<1>. QED
  BY <1>2, <1>3

LEMMA EditParameterSafe ==
  ASSUME NEW p \in HostParams, SafeInv, EditParameter(p)
  PROVE  SafeInv'
<1>1. sel' \in [Lanes -> EnumValues]
  <2>1. CASE p \in Selectors
    <3>1. PICK e \in 0 .. fwMax[p] : sel' = [sel EXCEPT ![p] = e]
      BY <2>1 DEF EditParameter
    <3>2. e \in EnumValues
      BY <2>1, ConstantFacts, HostProxyAssumption
      DEF SafeInv, HostTypeOK, EnumValues
    <3>. QED
      BY <3>1, <3>2 DEF SafeInv, HostTypeOK
  <2>2. CASE p \notin Selectors
    BY <2>2 DEF EditParameter, SafeInv, HostTypeOK
  <2>. QED
    BY <2>1, <2>2
<1>2. HostTypeOK'
  BY <1>1 DEF SafeInv, HostTypeOK, EditParameter, preset_vars, proxy_vars,
              frame_vars
<1>. QED
  BY <1>2 DEF SafeInv, EditParameter, preset_vars, proxy_vars, frame_vars, NoCall,
              NoForwardDuringConstruct, CachedPluginsLive, InPreset

\* A selector that moves is pending: its lane owes nothing until delivery.
LEMMA EditParameterQuiet ==
  ASSUME NEW p \in HostParams, SafeInv, QuietInv, EditParameter(p)
  PROVE  QuietInv'
<1>1. /\ phase' = phase /\ preset' = preset /\ edited' = edited /\ out' = NoCall
      /\ table' = table /\ lanes' = lanes /\ pending' = pending \cup {p}
      /\ \A l \in Lanes \ {p} : sel'[l] = sel[l]
  BY ConstantFacts DEF EditParameter, preset_vars, proxy_vars, SafeInv, HostTypeOK
<1>. QED
  BY <1>1 DEF QuietInv, TableCurrent, LanesDescribed, ForwardHitsShownAlgorithm,
              NoCall

\* What a preset edit leaves alone.
LEMMA PresetEditSafe ==
  ASSUME SafeInv, PresetEdit, preset' \in Seq(Algorithms), unloaded' \subseteq Algorithms
  PROVE  SafeInv'
<1>1. HostTypeOK'
  BY DEF SafeInv, HostTypeOK, PresetEdit, fw_vars, proxy_vars, frame_vars
<1>. QED
  BY <1>1 DEF SafeInv, PresetEdit, fw_vars, proxy_vars, frame_vars, NoCall,
              NoForwardDuringConstruct, CachedPluginsLive

LEMMA PresetEditQuiet == QuietInv /\ PresetEdit => QuietInv'
BY DEF QuietInv, PresetEdit, fw_vars, proxy_vars, NoCall, TableCurrent,
       LanesDescribed, ForwardHitsShownAlgorithm

LEMMA UserSafe == SafeInv /\ User => SafeInv'
<1>. SUFFICES ASSUME SafeInv, User PROVE SafeInv'
  OBVIOUS
<1>0. preset \in Seq(Algorithms) /\ unloaded \subseteq Algorithms
  BY DEF SafeInv, HostTypeOK
<1>1. CASE LoadAlgorithm
  <2>1. preset' \in Seq(Algorithms) /\ unloaded' \subseteq Algorithms
    BY <1>0, <1>1 DEF LoadAlgorithm
  <2>. QED
    BY <1>1, <2>1, PresetEditSafe DEF LoadAlgorithm
<1>2. CASE RemoveAlgorithm
  <2>1. PICK i \in DOMAIN preset :
          preset' = SubSeq(preset, 1, i - 1) \o SubSeq(preset, i + 1, Len(preset))
    BY <1>2 DEF RemoveAlgorithm
  <2>2. SubSeq(preset, 1, i - 1) \in Seq(Algorithms)
    BY <1>0, <2>1, SubSeqProperties, ElementOfSeq, LenProperties
  <2>3. SubSeq(preset, i + 1, Len(preset)) \in Seq(Algorithms)
    BY <1>0, <2>1, SubSeqProperties, ElementOfSeq, LenProperties
  <2>4. preset' \in Seq(Algorithms) /\ unloaded' \subseteq Algorithms
    BY <1>0, <1>2, <2>1, <2>2, <2>3, ConcatProperties DEF RemoveAlgorithm
  <2>. QED
    BY <1>2, <2>4, PresetEditSafe DEF RemoveAlgorithm
<1>3. CASE MoveAlgorithm
  <2>1. PICK i \in 1 .. Len(preset) - 1 :
          preset' = [preset EXCEPT ![i] = preset[i + 1], ![i + 1] = preset[i]]
    BY <1>3 DEF MoveAlgorithm
  <2>2. Len(preset) \in Nat /\ i \in 1 .. Len(preset) /\ i + 1 \in 1 .. Len(preset)
    BY <1>0, <2>1, LenProperties
  <2>3. preset[i] \in Algorithms /\ preset[i + 1] \in Algorithms
    BY <1>0, <2>2, ElementOfSeq
  <2>4. preset' \in Seq(Algorithms) /\ unloaded' \subseteq Algorithms
    BY <1>0, <1>3, <2>1, <2>2, <2>3, ExceptSeq DEF MoveAlgorithm
  <2>. QED
    BY <1>3, <2>4, PresetEditSafe DEF MoveAlgorithm
<1>4. CASE \E p \in HostParams : EditParameter(p)
  BY <1>4, EditParameterSafe
<1>. QED
  BY <1>1, <1>2, <1>3, <1>4 DEF User

LEMMA UserQuiet == SafeInv /\ QuietInv /\ User => QuietInv'
BY EditParameterQuiet, PresetEditQuiet
DEF User, LoadAlgorithm, RemoveAlgorithm, MoveAlgorithm

\* customUi changes the pointers at most, and only to fresh ones.
LEMMA CustomUiSafe ==
  ASSUME SafeInv, NEW resolved \in Pointers, AllLive(resolved), FillCache(resolved),
         NEW l \in Lanes, HandOver(l) \/ out' = NoCall,
         UNCHANGED <<phase, preset_vars, edited, fw_vars, proxy_vars, drawn, sinceDraw>>
  PROVE  SafeInv'
<1>1. cached' \in Pointers
  BY DEF FillCache, SafeInv, HostTypeOK, Pointers
<1>2. HostTypeOK'
  BY <1>1 DEF SafeInv, HostTypeOK, preset_vars, fw_vars, proxy_vars,
              Pointers
<1>3. CachedPluginsLive'
  BY DEF FillCache, SafeInv, preset_vars, CachedPluginsLive, AllLive, InPreset
<1>4. out'.call # "forward"
  BY DEF HandOver, NoCall, Deliver
<1>. QED
  BY <1>2, <1>3, <1>4 DEF SafeInv, fw_vars, proxy_vars, NoForwardDuringConstruct

LEMMA CustomUiQuiet ==
  ASSUME QuietInv, NEW l \in Lanes, HandOver(l) \/ out' = NoCall,
         UNCHANGED <<phase, preset_vars, edited, fw_vars, proxy_vars>>
  PROVE  QuietInv'
<1>1. out'.call # "forward"
  BY DEF HandOver, NoCall, Deliver
<1>. QED
  BY <1>1 DEF QuietInv, preset_vars, fw_vars, proxy_vars, TableCurrent,
              LanesDescribed, ForwardHitsShownAlgorithm

-----------------------------------------------------------------------------
LEMMA QuietImpliesLanesFollow == SafeInv /\ QuietInv => LanesFollowSelectors
BY ResolveReadsTable
DEF SafeInv, QuietInv, TableCurrent, LanesDescribed, LanesFollowSelectors

LEMMA StutterKeepsInv ==
  /\ SafeInv /\ UNCHANGED hostVars => SafeInv'
  /\ QuietInv /\ UNCHANGED hostVars => QuietInv'
BY DEF hostVars, preset_vars, fw_vars, proxy_vars, frame_vars, SafeInv, HostTypeOK,
       NoForwardDuringConstruct, CachedPluginsLive, InPreset, QuietInv,
       TableCurrent, LanesDescribed, ForwardHitsShownAlgorithm
=============================================================================
