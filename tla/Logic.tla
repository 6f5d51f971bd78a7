------------------------------- MODULE Logic -------------------------------
(***************************************************************************)
(* The pure decision kernels of firmware/eth/main/logic.h that the state   *)
(* machines of this project share.  Times and ages are in whatever unit    *)
(* the using module counts; every kernel only compares them.               *)
(***************************************************************************)
EXTENDS Integers, FiniteSets

\* A peer is alive while its last heartbeat is younger than the lost window;
\* an age equal to the window (or "never heard") reads as silence.
PeerAlive(age, lostAfter) == age < lostAfter

\* THE ELECTION: the least eligible candidate that can serve, with ourselves
\* among them iff selfOk; 0 when nobody can lead.
BohunElect(self, selfOk, cands) ==
  LET fit == (IF selfOk THEN {self} ELSE {}) \cup
             {c.id : c \in {d \in cands : d.alive /\ d.able /\ d.eligible}}
      least == {m \in fit : \A n \in fit : m <= n}
  IN  IF least = {} THEN 0 ELSE CHOOSE m \in least : TRUE

\* A claimant counts as holding an address for `grace` after its claim.
ClaimGrace(wearing, hasIp, claimedFor, grace) ==
  hasIp \/ (wearing /\ claimedFor < grace)

\* The bench: how many dead connections in a row it takes, and for how long.
BenchThreshold(prevBench, streak) == IF prevBench # 0 THEN 1 ELSE streak

BenchNext(prevBench, first, ceiling) ==
  LET b == IF prevBench # 0 THEN prevBench * 2 ELSE first
  IN  IF b > ceiling THEN ceiling ELSE b

\* A client that has said nothing since accept is not a visitor.
PairSilent(spoke, acceptedFor, patience) == ~spoke /\ acceptedFor > patience
=============================================================================
