------------------------------ MODULE MCSwarm -------------------------------
(***************************************************************************)
(* The fleet for TLC, from a cold start and from peace.  One unit of time  *)
(* is one second, and the timers are the ones compiled into the firmware.  *)
(***************************************************************************)
EXTENDS Swarm

\* Node 1 has the lowest id and an eligible ledger entry, but runs an image
\* without a server; 2, 3 and 4 are blades.
Mixed     == {1, 2, 3, 4}
MixedReal == {2, 3, 4}

\* The blades of the cold start.
Pair == {2, 3}

VARIABLE fitted    \* the boards there are; the others never get power

ColdInit ==
  /\ fitted = Pair
  /\ on = [i \in Node |-> i \in Pair] /\ wire = on
  /\ node = [i \in Node |-> Booted(i)]
  /\ roster = [i \in Node |-> [j \in Node |-> Lost]]
  /\ turned = [i \in Node |-> FALSE] /\ beat = [i \in Node |-> FALSE]
  /\ calm = 0 /\ dark = 0 /\ twin = 0 /\ faults = 0

FleetInit == ColdInit \/ (fitted = Node /\ SteadyInit)

FleetNext == (Tick \/ \E i \in fitted : NodeStep(i)) /\ UNCHANGED fitted

FleetSpec == FleetInit /\ [][FleetNext]_<<fitted, vars>>

----------------------------------------------------------------------------
(* Properties *)

\* The README's takeover promise from a cold start, and a second better than
\* it for a fleet that was at peace when the faults struck.
SwiftTakeover == TakenOver /\ (fitted = Node => dark < TAKEOVER)
=============================================================================
