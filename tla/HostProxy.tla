------------------------------ MODULE HostProxy ------------------------------
(***************************************************************************)
(* The proxy aggregator both host plug-ins share                           *)
(* (shim/src/host_proxy.cpp).  Everything here is constant level: a preset *)
(* comes in as an argument, and what the C++ code stores in                *)
(* host_proxy::State comes out as a value.                                 *)
(*                                                                         *)
(* A preset is a sequence of algorithm instances; preset[i] sits in NT     *)
(* slot i - 1.  An enum value e > 0 of a selector names the e-th instance  *)
(* of the preset whose guid starts with 'Hm'; 0 is the "---" entry.        *)
(***************************************************************************)
EXTENDS Integers, Sequences, FiniteSets

CONSTANTS
  Algorithms,      \* algorithm instances, loaded or not
  HemiGuid,        \* those whose guid starts with 'Hm' (applets and hosts)
  Label,           \* Label[a]: slot name of a, cut to the enum entry's 19 chars
  ParamCount,      \* ParamCount[a]: numParameters of a
  NumLanes,        \* K, the slots a host watches
  MaxProxyParams,  \* kMaxProxyParamsPerSlot
  MaxEnumEntries,  \* kMaxHemiPrefixEnumEntries, the "---" entry included
  Unbound,         \* kInvalidSlotIdx
  Nobody           \* a lane showing no algorithm, a null plug-in pointer

ASSUME HostProxyAssumption ==
  /\ HemiGuid \subseteq Algorithms
  /\ ParamCount \in [Algorithms -> Nat]
  /\ NumLanes \in Nat \ {0}
  /\ MaxProxyParams \in Nat \ {0}
  /\ MaxEnumEntries \in Nat \ {0}
  /\ Unbound \notin Nat
  /\ Nobody \notin Algorithms
  \* A slot carries its plug-in's name: equal names, equal parameter tables.
  /\ \A a, b \in Algorithms :
       Label[a] = Label[b] => ParamCount[a] = ParamCount[b]

AtMost(m, n) == IF m <= n THEN m ELSE n

Lanes == 0 .. NumLanes - 1
Selectors == Lanes
HostParams == 0 .. NumLanes + NumLanes * MaxProxyParams - 1
ProxyParams == HostParams \ Selectors

-----------------------------------------------------------------------------
(***************************************************************************)
(* The preset scan.                                                        *)
(***************************************************************************)

HemiSlots(preset) == {i \in DOMAIN preset : preset[i] \in HemiGuid}

\* The number of 'Hm' instances the scan has kept once it is past slot i.
Kept(preset, i) == Cardinality({j \in HemiSlots(preset) : j <= i})

NthHemi(preset, n) ==
  CHOOSE i \in HemiSlots(preset) : Kept(preset, i) = n

\* The enum values a scan can reach: 1 up to the number of 'Hm' instances.
Ordinals(preset) == {Kept(preset, i) : i \in HemiSlots(preset)}

\* Mutant: entries without the slot number.
EnumTableByName(preset) ==
  [n \in Ordinals(preset) \cap 1 .. MaxEnumEntries - 1 |->
     Label[preset[NthHemi(preset, n)]]]

\* What refresh_enum_strings leaves in enum_strs after "---": one entry
\* "<slot> <name>" per 'Hm' instance, in preset order, while there is room.
EnumTable(preset) ==
  [n \in Ordinals(preset) \cap 1 .. MaxEnumEntries - 1 |->
     LET i == NthHemi(preset, n) IN <<i, Label[preset[i]]>>]

\* enum_strs.count - 1, the selectors' maximum.
LastEntry(table) == Cardinality(DOMAIN table)

\* resolve_enum_to_slot: bounded by the table of the last refresh, but
\* answered by a new scan of the live preset.
Resolve(preset, table, e) ==
  IF e \in DOMAIN table /\ e \in Ordinals(preset)
    THEN NthHemi(preset, e)
    ELSE Unbound

-----------------------------------------------------------------------------
(***************************************************************************)
(* Lanes: State::maps[lane], and the instance whose parameter definitions  *)
(* State::proxy_params holds for that lane.                                *)
(***************************************************************************)

UnboundLane == [slot |-> Unbound, count |-> 0, shows |-> Nobody]

Lane == [slot : Nat \cup {Unbound},
         count : 0 .. MaxProxyParams,
         shows : Algorithms \cup {Nobody}]

\* Mutant: the parameter count is not cut to the lane's room.
AggregateUncut(preset, slot, old) ==
  IF slot = Unbound THEN UnboundLane
  ELSE IF slot \notin DOMAIN preset
    THEN [old EXCEPT !.slot = Unbound, !.count = 0]
    ELSE [slot |-> slot, count |-> ParamCount[preset[slot]],
          shows |-> preset[slot]]

\* aggregate_slot.  A slot that cannot be read unmaps the lane and leaves its
\* old definitions in place.  Whether the firmware fails to describe one of the
\* slot's own parameters is left out: it would only make the count smaller.
Aggregate(preset, slot, old) ==
  IF slot = Unbound THEN UnboundLane
  ELSE IF slot \notin DOMAIN preset
    THEN [old EXCEPT !.slot = Unbound, !.count = 0]
    ELSE [slot |-> slot,
          count |-> AtMost(ParamCount[preset[slot]], MaxProxyParams),
          shows |-> preset[slot]]

\* init_selector: the default entry, clamped to the table.
SelectorDefault(table, def) == AtMost(def, LastEntry(table))

-----------------------------------------------------------------------------
(***************************************************************************)
(* decode_forward: where an edit of host parameter p goes.                 *)
(***************************************************************************)

LaneOf(p) == (p - NumLanes) \div MaxProxyParams
ParamOf(p) == (p - NumLanes) % MaxProxyParams

NoTarget == [slot |-> Unbound, param |-> -1]

\* Mutant: the offset in the lane is not compared with slot_param_cnt.
DecodeForwardUnchecked(lanes, p) ==
  IF p \in ProxyParams /\ lanes[LaneOf(p)].slot # Unbound
    THEN [slot |-> lanes[LaneOf(p)].slot, param |-> ParamOf(p)]
    ELSE NoTarget

DecodeForward(lanes, p) ==
  IF /\ p \in ProxyParams
     /\ lanes[LaneOf(p)].slot # Unbound
     /\ ParamOf(p) < lanes[LaneOf(p)].count
    THEN [slot |-> lanes[LaneOf(p)].slot, param |-> ParamOf(p)]
    ELSE NoTarget
=============================================================================
