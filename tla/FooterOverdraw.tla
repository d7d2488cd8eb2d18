---------------------------- MODULE FooterOverdraw ----------------------------
(***************************************************************************)
(* The footer overdraw of both hosts and of every OC app: draw caches the  *)
(* bottom rows of its frame, and for a number of audio buffers after it    *)
(* step paints them back over the firmware's helper text.  The count stops *)
(* a plug-in whose page is no longer shown from painting over another's.   *)
(***************************************************************************)
EXTENDS Naturals

CONSTANT FooterRestoreSteps  \* kFooterRestoreSteps

ASSUME FooterAssumption == FooterRestoreSteps \in Nat

\* steps_since_draw before the first draw is UINT32_MAX: any number out of
\* the window stands for it, as it is never counted up.
NeverDrawn == FooterRestoreSteps + 1

\* A count n of steps_since_draw.
FooterCounts == 0 .. NeverDrawn

Restoring(n) == n < FooterRestoreSteps

\* Mutants: a step counts outside of the window too; no step counts.
AfterStepAlways(n) == n + 1
AfterStepNever(n) == n
AfterStep(n) == IF Restoring(n) THEN n + 1 ELSE n

AfterDraw == 0
=============================================================================
