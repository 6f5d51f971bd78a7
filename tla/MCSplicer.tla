----------------------------- MODULE MCSplicer -----------------------------
(***************************************************************************)
(* Instances of the splicer for TLC.                                       *)
(***************************************************************************)
EXTENDS Splicer

CONSTANTS v1, v2

Slots1 == {v1}
Slots2 == {v1, v2}
Peers1 == {1}
Peers2 == {1, 2}
=============================================================================
