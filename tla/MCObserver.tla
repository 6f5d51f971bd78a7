----------------------------- MODULE MCObserver -----------------------------
(***************************************************************************)
(* The parts behind the screens, and the clock they share with the fleet,  *)
(* one after the other in one run.  They have no state in common: the      *)
(* scene, chosen in the initial state, is the only part that moves.        *)
(***************************************************************************)
EXTENDS OtaWindow, LedRail, Climate, FleetClock

CONSTANT Scene

VARIABLE scene

well     == [alive |-> TRUE, eligible |-> TRUE, serving |-> TRUE, leads |-> FALSE,
             benched |-> FALSE, updating |-> FALSE, back |-> FALSE]
lost     == [well EXCEPT !.alive = FALSE]
updating == [well EXCEPT !.updating = TRUE]
Views    == {well, lost, updating}

\* On either side of nought, where C rounds the other way.
Degrees == {-3, 2}

\* Off stage a part waits in one of its initial states.
ObserverInit ==
  /\ scene \in Scene
  /\ WindowInit /\ RailInit /\ ClimateInit /\ ClockInit
  /\ scene # "window" => creds

WindowScene ==
  scene = "window" /\ WindowNext /\ UNCHANGED <<scene, railVars, climateVars, clockVars>>
RailScene ==
  scene = "rail" /\ RailNext /\ UNCHANGED <<scene, windowVars, climateVars, clockVars>>
ClimateScene ==
  scene = "climate" /\ ClimateNext /\ UNCHANGED <<scene, windowVars, railVars, clockVars>>
ClockScene ==
  scene = "clock" /\ ClockNext /\ UNCHANGED <<scene, windowVars, railVars, climateVars>>

ObserverNext == WindowScene \/ RailScene \/ ClimateScene \/ ClockScene

ObserverSpec ==
  ObserverInit /\ [][ObserverNext]_<<scene, windowVars, railVars, climateVars, clockVars>>

----------------------------------------------------------------------------
(* Properties *)

\* The parts behind the screens keep to their types: window budgets, pixels,
\* ring cells and clocks all stay within what their fields hold.
ObserverTypeOK == WindowTypeOK /\ RailTypeOK /\ ClimateTypeOK /\ ClockTypeOK
=============================================================================
