---------------------------- MODULE AppletInstances ----------------------------
(***************************************************************************)
(* AppletRuntime beside itself alone: what every instance would put out if *)
(* HS::frame were its own, as its edge state is. The comment of            *)
(* PerInstanceState (plugins/applets/_per_applet_runtime.h:135-138) speaks *)
(* of two identical slots in Quadrants.                                    *)
(***************************************************************************)
EXTENDS AppletRuntime

VARIABLE alone      \* history: the frame of each instance, had it one

AloneInit == Init /\ alone = [i \in Instances |-> EmptyFrame]

\* Fill, Flush, Remove and Reroute leave the outputs alone; a new instance
\* would begin with none.
AroundAlone(i) ==
  /\ Around(i)
  /\ alone' = IF i \in live' \ live THEN [alone EXCEPT ![i] = EmptyFrame] ELSE alone

TickAlone(i, w) ==
  /\ Tick(i, w)
  /\ alone' = [alone EXCEPT ![i] = Written(CountedDown(@), w)]

AloneNext == \E i \in Instances : AroundAlone(i) \/ \E w \in Writes : TickAlone(i, w)

AloneSpec == AloneInit /\ [][AloneNext]_<<vars, alone>>

\* What goes on the bus of an instance is what it would put there alone: an
\* output another instance holds does not show up at this one's jack.
OutputsOwn ==
  \A i \in Instances :
    doing = [of |-> i, left |-> 0] =>
      FlushedBy(i, frame) = FlushedBy(i, alone[i])
================================================================================
