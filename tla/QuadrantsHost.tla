----------------------------- MODULE QuadrantsHost -----------------------------
(***************************************************************************)
(* The Quadrants host (plugins/hosts/Quadrants_host.cpp): K lanes side by  *)
(* side, one of them focused.  Buttons 3 and 4 move the focus, the other   *)
(* controls go to the focused lane.  The focus is the only state it saves. *)
(***************************************************************************)
EXTENDS HostCore

CONSTANT MaxMembers    \* bound: members of a saved object

ASSUME QuadrantsAssumption == MaxMembers \in Nat

VARIABLES
  focus,      \* focused_slot_idx
  fwShows     \* algorithms of the lane definitions the firmware last read

vars == <<hostVars, focus, fwShows>>

SameParameters(a, b) ==
  IF Nobody \in {a, b} THEN a = b ELSE Label[a] = Label[b]

Shown(ls) == [l \in Lanes |-> ls[l].shows]

\* Mutant: resolved from the defaults.
ResolveAndCacheDefaults(t) ==
  [l \in Lanes |-> ResolvePlugin(Resolve(preset, t, selDef[l]))]

\* resolve_and_cache: straight from the selectors, not from maps[].
ResolveAndCache(t) ==
  [l \in Lanes |-> ResolvePlugin(Resolve(preset, t, sel[l]))]

-----------------------------------------------------------------------------
Constructed ==
  /\ Construct
  /\ focus' = 0
  /\ UNCHANGED fwShows

Registered ==
  /\ Register
  /\ fwShows' = Shown(lanes)
  /\ UNCHANGED focus

\* The definitions of the re-aggregated lane are pushed once registered.
SelectorEdited(p) ==
  /\ SelectorChanged(p)
  /\ fwShows' = IF phase = "running" THEN [fwShows EXCEPT ![p] = lanes'[p].shows]
                                     ELSE fwShows
  /\ UNCHANGED focus

ProxyEdited(p) == ProxyChanged(p) /\ UNCHANGED <<focus, fwShows>>

\* Mutant: as in Hemispheres, only the selectors are pushed.
PushedSelectorsOnly(changed) == fwShows

\* A changed enum pushes the selectors and all the lanes.
PushedByDraw(changed) == IF changed THEN Shown(lanes') ELSE fwShows

\* Mutant: the pointers are resolved again only when the enum changed.
DrawKeepingCache ==
  /\ Redraw
  /\ cached' = IF table' # table THEN ResolveAndCache(table') ELSE cached
  /\ fwShows' = PushedByDraw(table' # table)
  /\ UNCHANGED focus

Draw ==
  /\ Redraw /\ cached' = ResolveAndCache(table')
  /\ fwShows' = PushedByDraw(table' # table)
  /\ UNCHANGED focus

\* Button 3 moves the focus on by one lane, button 4 back by one; together
\* they leave it.
FocusAfter(buttons) ==
  CASE buttons = {"button3"} -> (focus + 1) % NumLanes
    [] buttons = {"button4"} -> (focus + NumLanes - 1) % NumLanes
    [] OTHER -> focus

\* customUi with some of buttons 3 and 4 newly pressed, and perhaps another
\* control turned or newly pressed: the focus moves first.
CustomUi(buttons, control) ==
  /\ phase = "running"
  /\ focus' = FocusAfter(buttons)
  /\ FillCache(ResolveAndCache(table))
  /\ IF control THEN HandOver(focus') ELSE out' = NoCall
  /\ UNCHANGED <<phase, preset_vars, edited, fw_vars, proxy_vars,
                 drawn, sinceDraw, fwShows>>

-----------------------------------------------------------------------------
(***************************************************************************)
(* The saved state.  A member of the parsed object is a focus, some other  *)
(* member, or one the parser fails on.                                     *)
(***************************************************************************)

Unparsed == -1
Other == -2
Members == {Unparsed, Other} \cup 0 .. NumLanes

\* Mutant: v <= K in place of v <= K - 1.
AcceptedOneMore(ms) ==
  {i \in DOMAIN ms : ms[i] \in 0 .. NumLanes /\ \A j \in 1 .. i : ms[j] # Unparsed}

\* Members are taken in order up to one that fails; out-of-range numbers are
\* passed over.
Accepted(ms) ==
  {i \in DOMAIN ms : ms[i] \in Lanes /\ \A j \in 1 .. i : ms[j] # Unparsed}

Deserialise(ms) ==
  /\ phase = "constructed"
  /\ IF Accepted(ms) = {}
       THEN UNCHANGED focus
       ELSE \E i \in Accepted(ms) :
              (\A j \in Accepted(ms) : j <= i) /\ focus' = ms[i]
  /\ UNCHANGED <<hostVars, fwShows>>

-----------------------------------------------------------------------------
Init ==
  /\ HostInit
  /\ focus = 0
  /\ fwShows = [l \in Lanes |-> Nobody]

Next ==
  \/ Constructed
  \/ Registered
  \/ \E p \in HostParams : SelectorEdited(p) \/ ProxyEdited(p)
  \/ Draw
  \/ \E buttons \in SUBSET {"button3", "button4"}, control \in BOOLEAN :
       CustomUi(buttons, control)
  \/ \E n \in 0 .. MaxMembers : \E ms \in [1 .. n -> Members] : Deserialise(ms)
  \/ (Step \/ User) /\ UNCHANGED <<focus, fwShows>>

Spec == Init /\ [][Next]_vars

-----------------------------------------------------------------------------
\* Types; the focus stays on a lane whatever is restored or pressed.
TypeOK ==
  /\ HostTypeOK
  /\ fwShows \in [Lanes -> Algorithms \cup {Nobody}]
  /\ focus \in Lanes

\* A draw finds the applet of a lane from the selector, a forward finds its
\* slot from maps[]: after every draw both name the same algorithm, unless
\* the selector's parameterChanged is still due.
ViewAndParametersAgree ==
  [][Draw => \A l \in Lanes \ pending :
       cached'[l] = ResolvePlugin(lanes'[l].slot)]_vars

\* Once drawn on an unchanged preset, the definitions the firmware holds
\* offer every 'Hm' instance, and those of a lane are the parameters of the
\* algorithm an edit of them would be forwarded to.
DefinitionsCurrent ==
  drawn /\ ~edited =>
    \A l \in Lanes :
      /\ fwMax[l] = LastEntry(EnumTable(preset))
      /\ SameParameters(fwShows[l], Occupant(lanes[l].slot))
=============================================================================
