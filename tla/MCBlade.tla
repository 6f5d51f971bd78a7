------------------------------ MODULE MCBlade -------------------------------
(***************************************************************************)
(* The parts of a blade that no other model composes, one after the other  *)
(* in one run.  They share no state: the scene, chosen in the initial      *)
(* state, is the only part that moves.                                     *)
(***************************************************************************)
EXTENDS BlackBox, Mask, Ledger, Clicks, TcpipBeat

CONSTANT Scene

VARIABLE scene

\* Off stage a part waits in one of its initial states.
BladeInit ==
  /\ scene \in Scene
  /\ RecorderInit /\ MaskInit /\ LedgerInit /\ ClicksInit /\ BeatInit
  /\ scene # "clicks" => nvsOpen

RecorderScene ==
  /\ scene = "recorder" /\ RecorderNext
  /\ UNCHANGED <<scene, maskVars, ledgerVars, clickVars, beatVars>>
MaskScene ==
  /\ scene = "mask" /\ MaskNext
  /\ UNCHANGED <<scene, recorderVars, ledgerVars, clickVars, beatVars>>
LedgerScene ==
  /\ scene = "ledger" /\ LedgerNext
  /\ UNCHANGED <<scene, recorderVars, maskVars, clickVars, beatVars>>
ClicksScene ==
  /\ scene = "clicks" /\ ClicksNext
  /\ UNCHANGED <<scene, recorderVars, maskVars, ledgerVars, beatVars>>
BeatScene ==
  /\ scene = "beat" /\ BeatNext
  /\ UNCHANGED <<scene, recorderVars, maskVars, ledgerVars, clickVars>>

BladeNext ==
  RecorderScene \/ MaskScene \/ LedgerScene \/ ClicksScene \/ BeatScene

BladeSpec ==
  BladeInit
  /\ [][BladeNext]_<<scene, recorderVars, maskVars, ledgerVars, clickVars, beatVars>>

----------------------------------------------------------------------------
(* Properties *)

\* The parts of a blade keep to their types: ring head, identities, tallies,
\* click stamps and probe counters all stay within what their fields hold.
BladeTypeOK ==
  RecorderTypeOK /\ MaskTypeOK /\ LedgerTypeOK /\ ClicksTypeOK /\ BeatTypeOK
=============================================================================
