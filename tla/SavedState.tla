----------------------------- MODULE SavedState -----------------------------
(***************************************************************************)
(* What saving a plug-in promises, part by part: a load either leaves the  *)
(* state there is, or brings back each part that is still kept as it was   *)
(* when it was saved.  A part that is spoilt lets no load through.  A part *)
(* that is lost comes back as 0 if the plug-in tolerates the loss, which   *)
(* mixes saved parts with zeros; otherwise it too lets no load through, so *)
(* that all parts are restored or none.                                    *)
(***************************************************************************)
EXTENDS Integers

CONSTANT Words   \* what a part of the state can be

VARIABLES
  tolerant, \* of the loss of parts
  state,
  kept,     \* the parts last saved, as far as they still are
  loading

vars == <<tolerant, state, kept, loading>>

Lost == -1
Spoilt == -2
Parts == DOMAIN state

Init ==
  /\ tolerant \in BOOLEAN
  /\ state \in [Parts -> Words]
  /\ kept = [p \in Parts |-> Lost]
  /\ loading = FALSE

Change ==
  /\ ~loading
  /\ state' \in [Parts -> Words]
  /\ UNCHANGED <<tolerant, kept, loading>>

Save ==
  /\ ~loading
  /\ kept' = state
  /\ UNCHANGED <<tolerant, state, loading>>

Damage ==
  /\ ~loading
  /\ \E p \in Parts, harm \in {Lost, Spoilt} : kept' = [kept EXCEPT ![p] = harm]
  /\ UNCHANGED <<tolerant, state, loading>>

Load ==
  /\ ~loading
  /\ loading' = TRUE
  /\ UNCHANGED <<tolerant, state, kept>>

Restore ==
  /\ loading
  /\ \A p \in Parts : kept[p] # Spoilt /\ (kept[p] = Lost => tolerant)
  /\ state' = [p \in Parts |-> IF kept[p] = Lost THEN 0 ELSE kept[p]]
  /\ loading' = FALSE
  /\ UNCHANGED <<tolerant, kept>>

Refuse ==
  /\ loading
  /\ loading' = FALSE
  /\ UNCHANGED <<tolerant, state, kept>>

Next == Change \/ Save \/ Damage \/ Load \/ Restore \/ Refuse

Spec == Init /\ [][Next]_vars
=============================================================================
