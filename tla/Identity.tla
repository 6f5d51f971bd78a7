------------------------------ MODULE Identity ------------------------------
(***************************************************************************)
(* What the fleet takes for granted of a blade that changes its identity:  *)
(* no face changes on a live link, each change takes the link down, and    *)
(* what a blade is between two units makes one whole.  Swarm's nodes, that *)
(* swap in one step, and Mask's blade, that swaps in many, are both such.  *)
(***************************************************************************)
EXTENDS Integers

CONSTANTS LINK_GRACE, CLAIM_TIMEOUT

VARIABLES
  wearing,   \* the mask is on
  live,      \* the link is up, and no swap is about to take it down
  wire,      \* the cable
  address,   \* the blade believes that it has an address
  downFor,   \* since the link went down, negative if it never did
  claimFor,  \* since the mask was put on
  leads,     \* the blade's election names itself
  watched    \* its monitor has had its turn

face == <<wearing, live>>

Swap == wearing' = ~wearing /\ live' = FALSE
Rise == ~live /\ live' = TRUE /\ UNCHANGED wearing
Fall == live /\ live' = FALSE /\ UNCHANGED wearing

\* A life begins without a mask, or at peace with one.
Spec == (wearing => live) /\ [][Swap \/ Rise \/ Fall]_face

\* A wearer leads.  One with a link has its address, and a blade with an address
\* has, or had, a link.  After a turn of the monitor no wearer is left whose wire
\* is gone or whose claim is overdue.
Whole ==
  /\ live => wire
  /\ wearing => leads
  /\ wearing /\ live => address
  /\ address => live \/ downFor >= 0
  /\ wearing /\ watched =>
       /\ live \/ downFor <= LINK_GRACE
       /\ address \/ claimFor <= CLAIM_TIMEOUT
=============================================================================
