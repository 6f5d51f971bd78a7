--------------------------- MODULE Release_proofs ---------------------------
(***************************************************************************)
(* What holds of a blade's images and of its self-probe for every soak,    *)
(* hold, period and threshold: types, that there is always an image to     *)
(* boot, that a dead port is noticed, that a trial is decided, and, for a  *)
(* node that reboots before its millisecond stamps wrap, that permanence   *)
(* is earned.                                                              *)
(***************************************************************************)
EXTENDS Release, TLAPS

----------------------------------------------------------------------------
(* The inductive invariants *)

\* NoBrick, with what the OTA door and the boot pointer owe each other.
FlashInv ==
  /\ NoBrick
  /\ ota # "idle" => slot[run] = "valid"
  /\ ota = "whole" => slot[Spare] = "whole"
  /\ boot # run <=> ota = "flipped"

\* A dead port has been mute for no longer than the failures it cost, plus the
\* part of the period since the last of them.
ProbeInv ==
  /\ serve.fails < ABORT
  /\ ~serve.task \/ listens \/ serve.wait > PROBE => mute = 0
  /\ serve.wait <= PROBE => mute <= serve.fails * PROBE + PROBE - serve.wait

\* The trial's clock is the node's.
TrialInv ==
  slot[run] = "pending" /\ ~trial.stuck =>
    /\ trial.on /\ trial.elapsed < DEADLINE
    /\ now = trial.elapsed + (IF trial.polled THEN 0 ELSE 1)

\* The instant of the next poll.
NextPoll == IF trial.polled THEN now + 1 ELSE now

\* A run of healthy polls began after the hold, or will be broken by it.
SoakInv ==
  /\ serve.stood <= now
  /\ trial.on /\ trial.healthy > 0 /\ serve.stood # 0 =>
       NextPoll - serve.stood < HOLD \/ NextPoll - serve.stood >= HOLD + trial.healthy

----------------------------------------------------------------------------
(* Types *)

\* The four ways down are one: a reboot.
LEMMA Steps ==
  ASSUME Next
  PROVE  \/ Reboot \/ OtaBegin \/ OtaFail \/ OtaEnd \/ OtaSetBoot
         \/ TrialPoll \/ TrialWon \/ Serving \/ FrontTurns \/ Tick
BY DEF Next, OtaRestart, ProbeAbort, Crash, TrialLost

\* A fresh boot of the server is well typed.
LEMMA BootedTyped ==
  ASSUME NEW public \in BOOLEAN, NEW admin \in BOOLEAN
  PROVE  Booted(public, admin) \in ServeState
BY ProbeAssumption, SMT DEF Booted, ServeState

\* What one judged verdict leaves of the server's statics, below the abort.
LEMMA ProbedTyped ==
  ASSUME ServeTypeOK, NEW v, Probed(v).fails < ABORT
  PROVE  Probed(v) \in ServeState
<1>1. /\ PROBE \in Nat /\ ABORT \in Nat /\ WRAP \in Nat \ {0}
      /\ serve \in ServeState /\ now \in Nat
  BY ProbeAssumption, SMT DEF ServeTypeOK
<1>2. now % WRAP \in 0..WRAP - 1
  BY <1>1, SMT
<1>3. Probed(v).fails = ProbeStreak(serve.fails, v)
  BY <1>1 DEF Probed, ServeState
<1>4. ProbeStreak(serve.fails, v) \in 0..ABORT
  BY <1>1, <1>3, SMT DEF ProbeStreak, ServeState
<1>5. (IF v = "DEAD" /\ ProbeStreak(serve.fails, v) >= SICK THEN now % WRAP ELSE serve.stood)
        \in 0..WRAP - 1
  BY <1>1, <1>2 DEF ServeState
<1> QED BY <1>1, <1>4, <1>5 DEF Probed, ServeState

LEMMA InitTyped == Init => TypeOK
<1> SUFFICES ASSUME Init PROVE TypeOK
  OBVIOUS
<1>1. ServeTypeOK
  BY BootedTyped, ProbeAssumption, SMT DEF Init, ServeInit, ServeTypeOK
<1>2. slot \in [Slot -> SlotState] /\ boot \in Slot /\ run \in Slot
  BY DEF Init, Slot, SlotState
<1>3. trial \in TrialState
  BY TrialAssumption, SMT DEF Init, NoTrial, TrialState
<1> QED BY <1>1, <1>2, <1>3 DEF Init, TypeOK

\* The bootloader leaves slots and pointers typed.
LEMMA BootloadTyped ==
  ASSUME TypeOK, Bootload
  PROVE  slot' \in [Slot -> SlotState] /\ boot' \in Slot /\ run' \in Slot
<1>1. boot \in Slot /\ 1 - boot \in Slot /\ slot \in [Slot -> SlotState]
  BY SMT DEF TypeOK, Slot
<1>2. CASE slot[boot] = "new"
  BY <1>1, <1>2 DEF Bootload, SlotState
<1>3. CASE slot[boot] = "pending"
  BY <1>1, <1>3 DEF Bootload, SlotState
<1>4. CASE slot[boot] # "new" /\ slot[boot] # "pending"
  BY <1>1, <1>4 DEF Bootload
<1> QED BY <1>2, <1>3, <1>4

LEMMA RebootTyped ==
  ASSUME TypeOK, Reboot PROVE TypeOK'
<1>1. ServeTypeOK'
  BY BootedTyped, ProbeAssumption, SMT DEF Reboot, ServeReset, ServeTypeOK
<1>2. slot' \in [Slot -> SlotState] /\ boot' \in Slot /\ run' \in Slot
  BY BootloadTyped DEF Reboot
<1>3. trial' \in TrialState
  <2>1. (slot'[run'] = "pending") \in BOOLEAN
    OBVIOUS
  <2>2. 0 \in 0..SOAK /\ 0 \in 0..DEADLINE
    BY TrialAssumption, SMT
  <2>3. trial' = [on |-> (slot'[run'] = "pending"), polled |-> TRUE, healthy |-> 0,
                  elapsed |-> 0, stuck |-> FALSE]
    BY DEF Reboot, NoTrial
  <2> QED BY <2>1, <2>2, <2>3 DEF TrialState
<1> QED BY <1>1, <1>2, <1>3 DEF Reboot, TypeOK

LEMMA ServingTyped ==
  ASSUME TypeOK, Serving PROVE TypeOK'
<1> SUFFICES ServeTypeOK'
  BY DEF Serving, flash, TypeOK
<1> USE DEF TypeOK, ServeTypeOK
<1>1. CASE Probe
  BY <1>1, ProbedTyped DEF Probe
<1>2. CASE Admit
  <2>1. [serve EXCEPT !.fresh = TRUE] \in ServeState
    BY DEF ServeState
  <2> QED BY <1>2, <2>1 DEF Admit
<1>3. CASE ListenerTurns
  BY <1>3, SMT DEF ListenerTurns
<1>4. ASSUME NEW secs \in Requests, Standby(secs) PROVE ServeTypeOK'
  <2>1. StandbyFor(secs) \in 0..STANDBY_MAX
    BY ProbeAssumption, SMT DEF StandbyFor
  <2> QED BY <1>4, <2>1, SMT DEF Standby, ServeState
<1> QED BY <1>1, <1>2, <1>3, <1>4 DEF Serving

LEMMA TickTyped ==
  ASSUME TypeOK, Tick PROVE TypeOK'
<1>1. ServeTypeOK'
  <2>1. now' \in 0..HORIZON /\ deaf' \in Nat /\ mute' \in Nat /\ listens' \in BOOLEAN
    BY ProbeAssumption, SMT DEF Tick, ServeTick, TypeOK, ServeTypeOK
  <2>2. /\ (IF serve.standby > 0 THEN serve.standby - 1 ELSE 0) \in 0..STANDBY_MAX
        /\ (IF serve.wait > 0 THEN serve.wait - 1 ELSE 0) \in Nat
    BY ProbeAssumption, SMT DEF TypeOK, ServeTypeOK, ServeState
  <2>3. serve' \in ServeState
    BY <2>2 DEF Tick, ServeTick, TypeOK, ServeTypeOK, ServeState
  <2> QED BY <2>1, <2>3 DEF ServeTypeOK
<1>2. trial' \in TrialState
  BY DEF Tick, TypeOK, TrialState
<1> QED BY <1>1, <1>2 DEF Tick, TypeOK, flash

LEMMA NextTyped == TypeOK /\ [Next]_vars => TypeOK'
<1> SUFFICES ASSUME TypeOK, [Next]_vars PROVE TypeOK'
  OBVIOUS
<1>0. Spare \in Slot
  BY SMT DEF TypeOK, Spare, Slot
<1>1. CASE Reboot
  BY <1>1, RebootTyped
<1>2. CASE OtaBegin
  BY <1>0, <1>2 DEF OtaBegin, TypeOK, SlotState, serveVars, ServeTypeOK
<1>3. CASE OtaFail
  BY <1>3 DEF OtaFail, TypeOK, flash, serveVars, ServeTypeOK
<1>4. CASE OtaEnd
  BY <1>0, <1>4 DEF OtaEnd, TypeOK, SlotState, serveVars, ServeTypeOK
<1>5. CASE OtaSetBoot
  BY <1>0, <1>5 DEF OtaSetBoot, TypeOK, SlotState, serveVars, ServeTypeOK
<1>6. CASE TrialPoll
  <2>1. trial' \in TrialState
    <3>1. HealthyRun \in 0..SOAK
      BY <1>6, TrialAssumption, SMT DEF TrialPoll, HealthyRun, TypeOK, TrialState
    <3>2. trial.elapsed + 1 \in 0..DEADLINE
      BY <1>6, TrialAssumption, SMT DEF TrialPoll, Late, TypeOK, TrialState
    <3> QED BY <1>6, <3>1, <3>2 DEF TrialPoll, TypeOK, TrialState
  <2> QED BY <1>6, <2>1 DEF TrialPoll, TypeOK, flash, serveVars, ServeTypeOK
<1>7. CASE TrialWon
  <2>1. 0 \in 0..SOAK /\ 0 \in 0..DEADLINE
    BY TrialAssumption, SMT
  <2>2. trial' \in TrialState
    <3>1. NoTrial \in TrialState /\ [NoTrial EXCEPT !.stuck = TRUE] \in TrialState
      BY <2>1 DEF NoTrial, TrialState
    <3> QED BY <1>7, <3>1 DEF TrialWon
  <2> QED BY <1>7, <2>2 DEF TrialWon, TypeOK, SlotState, serveVars, ServeTypeOK
<1>8. CASE Serving
  BY <1>8, ServingTyped
<1>9. CASE FrontTurns
  BY <1>9 DEF FrontTurns, TypeOK, flash, serveVars, ServeTypeOK
<1>10. CASE Tick
  BY <1>10, TickTyped
<1>11. CASE UNCHANGED vars
  BY <1>11 DEF vars, flash, serveVars, TypeOK, ServeTypeOK
<1> QED BY <1>1, <1>2, <1>3, <1>4, <1>5, <1>6, <1>7, <1>8, <1>9, <1>10, <1>11, Steps

\* Every reachable state is well typed, whatever the thresholds and periods.
THEOREM Typed == Spec => []TypeOK
<1> QED BY InitTyped, NextTyped, PTL DEF Spec

----------------------------------------------------------------------------
(* There is always something to boot *)

LEMMA InitFlash == Init => FlashInv
BY SMT DEF Init, FlashInv, NoBrick, Spare, Slot

\* Whatever was going on, a reboot ends on a sound slot with nothing pending.
LEMMA RebootFlash ==
  ASSUME TypeOK, FlashInv, Reboot PROVE FlashInv'
<1>1. /\ boot \in Slot /\ run \in Slot /\ slot \in [Slot -> SlotState]
      /\ \A s \in Slot : 1 - s \in Slot /\ 1 - s # s /\ 1 - (1 - s) = s
      /\ \A s, u \in Slot : s # u => s = 1 - u
  BY SMT DEF TypeOK, Slot
<1>2. ota' = "idle"
  BY DEF Reboot
<1>3. CASE slot[boot] = "new"
  <2>1. boot # run /\ slot[run] = "valid"
    BY <1>3 DEF FlashInv, NoBrick
  <2>2. run' = boot /\ boot' = boot /\ slot' = [slot EXCEPT ![boot] = "pending"]
    BY <1>3 DEF Reboot, Bootload
  <2>3. 1 - run' = run
    BY <1>1, <2>1, <2>2
  <2> QED BY <1>1, <1>2, <2>1, <2>2, <2>3 DEF FlashInv, NoBrick, Spare
<1>4. CASE slot[boot] = "pending"
  <2>1. boot = run /\ slot[1 - run] = "valid"
    BY <1>4 DEF FlashInv, NoBrick, Spare
  <2>2. run' = 1 - run /\ boot' = 1 - run /\ slot' = [slot EXCEPT ![run] = "aborted"]
    BY <1>4, <2>1 DEF Reboot, Bootload
  <2>3. slot'[run'] = "valid"
    BY <1>1, <2>1, <2>2
  <2> QED BY <1>2, <2>2, <2>3 DEF FlashInv, NoBrick
<1>5. CASE slot[boot] # "new" /\ slot[boot] # "pending"
  <2>1. boot = run /\ slot[run] = "valid"
    BY <1>5 DEF FlashInv, NoBrick
  <2>2. run' = boot /\ boot' = boot /\ slot' = slot
    BY <1>5 DEF Reboot, Bootload
  <2> QED BY <1>2, <2>1, <2>2 DEF FlashInv, NoBrick
<1> QED BY <1>3, <1>4, <1>5

LEMMA NextFlash == TypeOK /\ FlashInv /\ [Next]_vars => FlashInv'
<1> SUFFICES ASSUME TypeOK, FlashInv, [Next]_vars PROVE FlashInv'
  OBVIOUS
<1>0. /\ boot \in Slot /\ run \in Slot /\ slot \in [Slot -> SlotState]
      /\ Spare \in Slot /\ Spare # run
  BY SMT DEF TypeOK, Slot, Spare
<1> USE DEF FlashInv, NoBrick
<1>1. CASE Reboot
  BY <1>1, RebootFlash
<1>2. CASE OtaBegin
  <2>1. slot[run] = "valid" /\ boot = run
    BY <1>2 DEF OtaBegin
  <2>2. Spare' = Spare /\ run' = run /\ boot' = boot /\ ota' = "taking" /\ slot'[run] = slot[run]
    BY <1>0, <1>2 DEF OtaBegin, Spare
  <2> QED BY <2>1, <2>2
<1>3. CASE OtaFail
  BY <1>3 DEF OtaFail, flash, Spare
<1>4. CASE OtaEnd
  <2>1. slot[run] = "valid" /\ boot = run
    BY <1>4 DEF OtaEnd
  <2>2. /\ Spare' = Spare /\ run' = run /\ boot' = boot /\ ota' = "whole"
        /\ slot'[run] = slot[run] /\ slot'[Spare] = "whole"
    BY <1>0, <1>4 DEF OtaEnd, Spare
  <2> QED BY <2>1, <2>2
<1>5. CASE OtaSetBoot
  <2>1. slot[run] = "valid" /\ boot = run
    BY <1>5 DEF OtaSetBoot
  <2>2. CASE ota' = "flipped" /\ boot' = Spare /\ slot' = [slot EXCEPT ![Spare] = "new"]
    <3>1. Spare' = Spare /\ run' = run /\ slot'[run] = slot[run] /\ slot'[Spare] = "new"
      BY <1>0, <1>5, <2>2 DEF OtaSetBoot, Spare
    <3> QED BY <1>0, <2>1, <2>2, <3>1
  <2>3. CASE ota' = "idle" /\ UNCHANGED <<slot, boot>>
    BY <1>5, <2>1, <2>3 DEF OtaSetBoot, Spare
  <2> QED BY <1>5, <2>2, <2>3 DEF OtaSetBoot
<1>6. CASE TrialPoll
  BY <1>6 DEF TrialPoll, flash, Spare
<1>7. CASE TrialWon
  <2>1. Spare' = Spare /\ run' = run /\ boot' = boot /\ ota' = ota
    BY <1>7 DEF TrialWon, Spare
  <2>2. CASE slot' = [slot EXCEPT ![run] = "valid"]
    <3>1. slot'[run] = "valid" /\ slot'[Spare] = slot[Spare]
      BY <1>0, <2>2
    <3>2. boot # run => slot'[boot] = "new"
      BY <1>0, <2>2
    <3> QED BY <2>1, <3>1, <3>2
  <2>3. CASE slot' = slot
    BY <2>1, <2>3
  <2> QED BY <1>7, <2>2, <2>3 DEF TrialWon
<1>8. CASE Serving
  BY <1>8 DEF Serving, flash, Spare
<1>9. CASE FrontTurns
  BY <1>9 DEF FrontTurns, flash, Spare
<1>10. CASE Tick
  BY <1>10 DEF Tick, flash, Spare
<1>11. CASE UNCHANGED vars
  BY <1>11 DEF vars, flash, Spare
<1> QED BY <1>1, <1>2, <1>3, <1>4, <1>5, <1>6, <1>7, <1>8, <1>9, <1>10, <1>11, Steps

\* ota.c and the bootloader: no interleaving of transfers, flips, trials and
\* resets leaves the node without an image to boot or to fall back on.
THEOREM AlwaysBoots == Spec => []NoBrick
<1>1. FlashInv => NoBrick
  BY DEF FlashInv
<1> QED BY <1>1, Typed, InitFlash, NextFlash, PTL DEF Spec

----------------------------------------------------------------------------
(* A dead port is noticed *)

\* One more failure is worth one more period.
LEMMA Worth ==
  ASSUME NEW f \in Nat, NEW k \in Nat, f < k
  PROVE  f * PROBE + PROBE <= k * PROBE
<1>1. PROBE \in Nat
  BY ProbeAssumption
<1>2. PICK d \in Nat : k = f + 1 + d
  <2>1. k - f - 1 \in Nat /\ k = f + 1 + (k - f - 1)
    BY SMT
  <2> QED BY <2>1
<1>3. k * PROBE = f * PROBE + PROBE + d * PROBE
  BY <1>1, <1>2, SMT
<1>4. d * PROBE \in Nat /\ f * PROBE \in Nat /\ k * PROBE \in Nat
  BY <1>1, <1>2, SMT
<1> QED BY <1>1, <1>3, <1>4, SMT

LEMMA InitProbe == Init => ProbeInv
<1> SUFFICES ASSUME Init PROVE ProbeInv
  OBVIOUS
<1>1. serve.fails = 0 /\ serve.wait = BOOT_DELAY /\ mute = 0
  BY DEF Init, ServeInit, Booted
<1> QED BY <1>1, ProbeAssumption, SMT DEF ProbeInv

LEMMA NextProbe == TypeOK /\ ProbeInv /\ [Next]_vars => ProbeInv'
<1> SUFFICES ASSUME TypeOK, ProbeInv, [Next]_vars PROVE ProbeInv'
  OBVIOUS
<1>0. /\ PROBE \in Nat \ {0} /\ ABORT \in Nat /\ SICK \in Nat \ {0} /\ SICK < ABORT
      /\ serve \in ServeState /\ serve.fails \in 0..ABORT /\ serve.wait \in Nat /\ mute \in Nat
  BY ProbeAssumption DEF TypeOK, ServeTypeOK, ServeState
<1>1. CASE Reboot
  <2>1. serve'.fails = 0 /\ serve'.wait = BOOT_DELAY /\ mute' = 0
    BY <1>1 DEF Reboot, ServeReset, Booted
  <2> QED BY <2>1, ProbeAssumption, SMT DEF ProbeInv
<1>2. CASE UNCHANGED serveVars
  BY <1>2 DEF serveVars, ProbeInv
<1>3. CASE Probe
  <2>1. PICK pairs \in Pairs, err \in Meets :
          LET heard == Heard(pairs, err)
              after == Probed(ProbeJudge(heard, serve.fresh))
          IN  /\ after.fails < ABORT /\ serve' = after
              /\ mute' = IF heard = "DEAD" /\ ~serve.fresh THEN mute ELSE 0
    BY <1>3 DEF Probe
  <2> DEFINE v == ProbeJudge(Heard(pairs, err), serve.fresh)
  <2>2. /\ serve'.fails = ProbeStreak(serve.fails, v) /\ serve'.wait = PROBE
        /\ serve'.fails < ABORT /\ serve'.task = serve.task
    BY <1>0, <2>1 DEF Probed, ServeState
  <2>3. serve.task /\ serve.wait = 0 /\ listens' = listens
    BY <1>3 DEF Probe, ProbeDue
  <2>4. serve'.fails \in Nat
    BY <1>0, <2>2, SMT DEF ProbeStreak
  <2>5. CASE Heard(pairs, err) = "DEAD" /\ ~serve.fresh
    <3>1. v = "DEAD" /\ mute' = mute
      BY <2>1, <2>5 DEF ProbeJudge
    <3>2. serve'.fails = serve.fails + 1
      BY <2>2, <3>1 DEF ProbeStreak
    <3>3. mute <= serve.fails * PROBE + PROBE
      BY <1>0, <2>3, SMT DEF ProbeInv
    <3>4. serve.fails * PROBE + PROBE = (serve.fails + 1) * PROBE
      BY <1>0, SMT
    <3>5. mute' <= serve'.fails * PROBE
      BY <3>1, <3>2, <3>3, <3>4
    <3>6. ~serve'.task \/ listens' \/ serve'.wait > PROBE => mute' = 0
      BY <1>0, <2>2, <2>3, <3>1, SMT DEF ProbeInv
    <3>7. serve'.fails * PROBE + PROBE - serve'.wait = serve'.fails * PROBE
      BY <1>0, <2>2, <2>4, SMT
    <3> QED BY <2>2, <3>5, <3>6, <3>7 DEF ProbeInv
  <2>6. CASE ~(Heard(pairs, err) = "DEAD" /\ ~serve.fresh)
    <3>1. mute' = 0
      BY <2>1, <2>6
    <3>2. 0 <= serve'.fails * PROBE + PROBE - serve'.wait
      BY <1>0, <2>2, <2>4, SMT
    <3> QED BY <2>2, <3>1, <3>2 DEF ProbeInv
  <2> QED BY <2>5, <2>6
<1>4. CASE Admit
  <2>1. /\ serve'.fails = serve.fails /\ serve'.wait = serve.wait /\ serve'.task = serve.task
        /\ listens' = listens /\ mute' = mute
    BY <1>0, <1>4 DEF Admit, ServeState
  <2> QED BY <2>1 DEF ProbeInv
<1>5. ASSUME NEW secs \in Requests, Standby(secs) PROVE ProbeInv'
  <2>1. /\ serve'.fails = serve.fails /\ serve'.wait = serve.wait /\ serve'.task = serve.task
        /\ listens' = listens /\ mute' = mute
    BY <1>0, <1>5 DEF Standby, ServeState
  <2> QED BY <2>1 DEF ProbeInv
<1>6. CASE ListenerTurns
  <2>1. serve' = serve /\ mute' = 0
    BY <1>6 DEF ListenerTurns
  <2>2. serve.fails * PROBE \in Nat
    BY <1>0, SMT
  <2> QED BY <1>0, <2>1, <2>2, SMT DEF ProbeInv
<1>7. CASE ServeTick
  <2>1. /\ serve'.fails = serve.fails /\ serve'.task = serve.task /\ listens' = listens
        /\ serve'.wait = IF serve.wait > 0 THEN serve.wait - 1 ELSE 0
        /\ mute' = IF serve.task /\ ~listens /\ serve.wait <= PROBE THEN mute + 1 ELSE 0
        /\ serve.task => serve.wait > 0
    BY <1>0, <1>7 DEF ServeTick, ServeState
  <2> DEFINE debt == serve.fails * PROBE
  <2>2. debt \in Nat
    BY <1>0, SMT
  <2>3. serve.wait <= PROBE => mute <= debt + PROBE - serve.wait
    BY DEF ProbeInv
  <2>4. /\ serve'.wait <= PROBE => mute' <= debt + PROBE - serve'.wait
        /\ ~serve'.task \/ listens' \/ serve'.wait > PROBE => mute' = 0
    <3> HIDE DEF debt
    <3> QED BY <1>0, <2>1, <2>2, <2>3, SMT
  <2> QED BY <2>1, <2>4 DEF ProbeInv
<1>8. Reboot \/ UNCHANGED serveVars \/ Probe \/ Admit \/ ListenerTurns \/ ServeTick
        \/ \E secs \in Requests : Standby(secs)
  BY Steps DEF OtaBegin, OtaFail, OtaEnd, OtaSetBoot, TrialPoll, TrialWon, Serving,
               FrontTurns, Tick, vars
<1> QED BY <1>1, <1>2, <1>3, <1>4, <1>5, <1>6, <1>7, <1>8

\* serve.c: "the line that stops the fleet trusting a corpse's word for it".
THEOREM Noticed == Spec => []Corpse
<1>1. TypeOK /\ ProbeInv => Corpse
  <2> SUFFICES ASSUME TypeOK, ProbeInv PROVE Corpse
    OBVIOUS
  <2>1. /\ PROBE \in Nat \ {0} /\ ABORT \in Nat /\ SICK \in Nat \ {0} /\ SICK < ABORT
        /\ serve.fails \in Nat /\ serve.fails < ABORT /\ serve.wait \in Nat /\ mute \in Nat
    BY ProbeAssumption, SMT DEF ProbeInv, TypeOK, ServeTypeOK, ServeState
  <2>2. mute <= serve.fails * PROBE + PROBE
    <3>1. serve.fails * PROBE \in Nat
      BY <2>1, SMT
    <3> QED BY <2>1, <3>1, SMT DEF ProbeInv
  <2>3. serve.fails * PROBE + PROBE <= ABORT * PROBE
    BY <2>1, Worth
  <2>4. serve.fails < SICK => serve.fails * PROBE + PROBE <= SICK * PROBE
    BY <2>1, Worth
  <2>5. serve.fails * PROBE \in Nat /\ SICK * PROBE \in Nat /\ ABORT * PROBE \in Nat
    BY <2>1, SMT
  <2>6. mute > SICK * PROBE => ~(serve.fails < SICK)
    BY <2>1, <2>2, <2>4, <2>5, SMT
  <2>7. mute <= ABORT * PROBE
    BY <2>1, <2>2, <2>3, <2>5, SMT
  <2> QED BY <2>6, <2>7 DEF Corpse, Ready, ProbeFit
<1>2. Init => ProbeInv
  BY InitProbe
<1> QED BY <1>1, <1>2, Typed, NextProbe, PTL DEF Spec

----------------------------------------------------------------------------
(* A trial is decided *)

LEMMA InitTrial == Init => TrialInv
<1> SUFFICES ASSUME Init PROVE slot[run] = "valid"
  BY DEF TrialInv
<1> QED BY SMT DEF Init, Slot

\* Everything but a reboot, a poll, a verdict and the clock leaves the trial, and
\* what runs, alone; the OTA door does not open under a trial.
LEMMA TrialUntouched ==
  ASSUME TypeOK, FlashInv, [Next]_vars,
         ~Reboot, ~TrialPoll, ~TrialWon, ~Tick
  PROVE  trial' = trial /\ now' = now /\ run' = run /\ slot'[run] = slot[run]
<1>1. Spare \in Slot /\ run \in Slot /\ Spare # run /\ slot \in [Slot -> SlotState]
  BY SMT DEF TypeOK, Slot, Spare
<1>2. CASE OtaBegin \/ OtaEnd \/ OtaSetBoot
  BY <1>1, <1>2 DEF OtaBegin, OtaEnd, OtaSetBoot, serveVars
<1>3. CASE OtaFail \/ FrontTurns \/ UNCHANGED vars
  BY <1>3 DEF OtaFail, FrontTurns, vars, flash, serveVars
<1>4. CASE Serving
  BY <1>4 DEF Serving, flash, Probe, Admit, ListenerTurns, Standby
<1> QED BY <1>2, <1>3, <1>4, Steps

LEMMA NextTrial == TypeOK /\ FlashInv /\ TrialInv /\ [Next]_vars => TrialInv'
<1> SUFFICES ASSUME TypeOK, FlashInv, TrialInv, [Next]_vars PROVE TrialInv'
  OBVIOUS
<1>0. /\ DEADLINE \in Nat \ {0} /\ now \in Nat /\ trial \in TrialState
      /\ trial.elapsed \in Nat
  BY TrialAssumption, SMT DEF TypeOK, ServeTypeOK, TrialState
<1>1. CASE Reboot
  <2>1. /\ now' = 0
        /\ trial' = [on |-> (slot'[run'] = "pending"), polled |-> TRUE, healthy |-> 0,
                     elapsed |-> 0, stuck |-> FALSE]
    BY <1>1 DEF Reboot, ServeReset, NoTrial
  <2>2. /\ trial'.on = (slot'[run'] = "pending") /\ trial'.polled = TRUE
        /\ trial'.elapsed = 0
    BY <2>1
  <2>3. trial'.elapsed < DEADLINE /\ now' = trial'.elapsed + 0
    BY <1>0, <2>1, <2>2, SMT
  <2> QED BY <2>2, <2>3 DEF TrialInv
<1>2. CASE TrialPoll
  <2>1. /\ slot' = slot /\ run' = run /\ now' = now /\ trial.on /\ ~trial.polled
        /\ trial.elapsed + 1 < DEADLINE
    BY <1>0, <1>2, SMT DEF TrialPoll, Polling, Late, flash, serveVars
  <2>2. /\ trial'.on = trial.on /\ trial'.polled = TRUE /\ trial'.stuck = trial.stuck
        /\ trial'.elapsed = trial.elapsed + 1
    BY <1>0, <1>2 DEF TrialPoll, TrialState
  <2> QED BY <1>0, <2>1, <2>2, SMT DEF TrialInv
<1>3. CASE TrialWon
  <2>1. run' = run /\ run \in Slot /\ slot \in [Slot -> SlotState]
    BY <1>3 DEF TrialWon, TypeOK
  <2>2. CASE slot' = [slot EXCEPT ![run] = "valid"]
    <3>1. slot'[run'] = "valid"
      BY <2>1, <2>2
    <3> QED BY <3>1 DEF TrialInv
  <2>3. CASE trial' = [NoTrial EXCEPT !.stuck = TRUE]
    <3>1. trial'.stuck
      BY <2>3 DEF NoTrial
    <3> QED BY <3>1 DEF TrialInv
  <2> QED BY <1>3, <2>2, <2>3 DEF TrialWon
<1>4. CASE Tick
  <2>1. slot' = slot /\ run' = run /\ now' = now + 1 /\ (trial.on => trial.polled)
    BY <1>4 DEF Tick, ServeTick, flash
  <2>2. /\ trial'.on = trial.on /\ trial'.polled = FALSE /\ trial'.stuck = trial.stuck
        /\ trial'.elapsed = trial.elapsed
    BY <1>0, <1>4 DEF Tick, TrialState
  <2> QED BY <1>0, <2>1, <2>2, SMT DEF TrialInv
<1>5. CASE ~Reboot /\ ~TrialPoll /\ ~TrialWon /\ ~Tick
  BY <1>5, TrialUntouched DEF TrialInv
<1> QED BY <1>1, <1>2, <1>3, <1>4, <1>5

\* selftest.c's deadline: no image stays on trial past it, however it behaves.
THEOREM Bounded == Spec => []Decided
<1>1. TypeOK /\ TrialInv => Decided
  BY TrialAssumption, SMT DEF TrialInv, Decided, TypeOK, ServeTypeOK, TrialState
<1> QED BY <1>1, Typed, InitFlash, NextFlash, InitTrial, NextTrial, PTL DEF Spec

----------------------------------------------------------------------------
(* Permanence is earned *)

\* A node is up for less than one turn of its stamps, and its hold is longer
\* than the time between two polls.
OneWrap == HORIZON < WRAP /\ HOLD >= 2

\* Before the wrap a stamp is the time it was taken at.
LEMMA Unwrapped ==
  ASSUME OneWrap, ServeTypeOK
  PROVE  /\ now % WRAP = now
         /\ serve.stood <= now => (now - serve.stood) % WRAP = now - serve.stood
<1>1. /\ WRAP \in Nat \ {0} /\ HORIZON \in Nat /\ HORIZON < WRAP /\ now \in 0..HORIZON
      /\ serve.stood \in 0..WRAP - 1
  BY ProbeAssumption DEF OneWrap, ServeTypeOK, ServeState
<1>2. \A x \in Nat : x < WRAP => x % WRAP = x
  BY <1>1, SMT
<1>3. now \in Nat /\ now < WRAP
  BY <1>1, SMT
<1>4. serve.stood <= now => now - serve.stood \in Nat /\ now - serve.stood < WRAP
  BY <1>1, SMT
<1> QED BY <1>2, <1>3, <1>4

\* Outside a hold, and only there, a node that stood down can be ready.
LEMMA HeldDown ==
  ASSUME OneWrap, TypeOK, serve.stood <= now, Ready, serve.stood # 0
  PROVE  now - serve.stood >= HOLD
<1>1. ((now % WRAP) - serve.stood) % WRAP >= HOLD
  BY DEF Ready, ProbeFit
<1> QED BY <1>1, Unwrapped DEF TypeOK

LEMMA InitSoak == Init => SoakInv
<1> SUFFICES ASSUME Init PROVE SoakInv
  OBVIOUS
<1>1. serve.stood = 0 /\ now = 0 /\ trial.on = FALSE
  BY DEF Init, ServeInit, Booted, NoTrial
<1> QED BY <1>1 DEF SoakInv

LEMMA NextSoak ==
  ASSUME OneWrap
  PROVE  TypeOK /\ SoakInv /\ [Next]_vars => SoakInv'
<1> SUFFICES ASSUME TypeOK, SoakInv, [Next]_vars PROVE SoakInv'
  OBVIOUS
<1>0. /\ HOLD \in Nat /\ HOLD >= 2 /\ now \in Nat /\ serve.stood \in Nat
      /\ serve \in ServeState /\ trial \in TrialState /\ trial.healthy \in Nat
  BY ProbeAssumption, SMT DEF OneWrap, TypeOK, ServeTypeOK, ServeState, TrialState
<1>1. CASE Reboot
  <2>1. now' = 0 /\ serve'.stood = 0
    BY <1>1 DEF Reboot, ServeReset, Booted
  <2> QED BY <2>1 DEF SoakInv
<1>2. CASE TrialPoll
  <2>1. now' = now /\ serve' = serve /\ trial.on /\ ~trial.polled
    BY <1>2 DEF TrialPoll, Polling, serveVars
  <2>2. trial'.on = trial.on /\ trial'.polled = TRUE /\ trial'.healthy = HealthyRun
    BY <1>0, <1>2 DEF TrialPoll, TrialState
  <2>3. NextPoll = now /\ NextPoll' = now + 1
    BY <2>1, <2>2 DEF NextPoll
  <2>4. CASE Ready /\ front
    <3>1. HealthyRun = trial.healthy + 1
      BY <2>4 DEF HealthyRun
    <3>2. serve.stood # 0 => now - serve.stood >= HOLD
      BY <2>4, HeldDown DEF SoakInv
    <3>3. serve.stood # 0 => now - serve.stood >= HOLD + trial.healthy
      <4>1. CASE trial.healthy > 0
        BY <1>0, <2>1, <2>3, <3>2, <4>1, SMT DEF SoakInv
      <4>2. CASE trial.healthy = 0
        BY <1>0, <3>2, <4>2, SMT
      <4> QED BY <1>0, <4>1, <4>2, SMT
    <3> QED BY <1>0, <2>1, <2>2, <2>3, <3>1, <3>3, SMT DEF SoakInv
  <2>5. CASE ~(Ready /\ front)
    <3>1. trial'.healthy = 0
      BY <2>2, <2>5 DEF HealthyRun
    <3> QED BY <2>1, <3>1 DEF SoakInv
  <2> QED BY <2>4, <2>5
<1>3. CASE TrialWon
  <2>1. now' = now /\ serve' = serve
    BY <1>3 DEF TrialWon, serveVars
  <2>2. trial'.on = FALSE
    BY <1>3 DEF TrialWon, NoTrial
  <2> QED BY <2>1, <2>2 DEF SoakInv
<1>4. CASE Tick
  <2>1. now' = now + 1 /\ (trial.on => trial.polled)
    BY <1>4 DEF Tick, ServeTick
  <2>2. /\ trial'.on = trial.on /\ trial'.polled = FALSE /\ trial'.healthy = trial.healthy
        /\ serve'.stood = serve.stood
    BY <1>0, <1>4 DEF Tick, ServeTick, TrialState, ServeState
  <2> QED BY <1>0, <2>1, <2>2, SMT DEF SoakInv, NextPoll
<1>5. CASE Probe /\ trial' = trial
  <2>1. PICK v : serve' = Probed(v)
    BY <1>5 DEF Probe
  <2>2. now' = now /\ NextPoll' = NextPoll /\ NextPoll \in {now, now + 1}
    BY <1>5 DEF Probe, NextPoll
  <2>3. serve'.stood = IF v = "DEAD" /\ ProbeStreak(serve.fails, v) >= SICK
                         THEN now % WRAP ELSE serve.stood
    BY <1>0, <2>1 DEF Probed, ServeState
  <2>4. CASE serve'.stood = serve.stood
    BY <1>5, <2>2, <2>4 DEF SoakInv
  <2>5. CASE serve'.stood = now
    BY <1>0, <1>5, <2>2, <2>5, SMT DEF SoakInv
  <2> QED BY <2>3, <2>4, <2>5, Unwrapped DEF TypeOK
<1>6. CASE serve'.stood = serve.stood /\ now' = now /\ trial' = trial
  BY <1>6 DEF SoakInv, NextPoll
<1>7. \/ Reboot \/ TrialPoll \/ TrialWon \/ Tick
      \/ Probe /\ trial' = trial
      \/ serve'.stood = serve.stood /\ now' = now /\ trial' = trial
  <2>1. ASSUME Serving
        PROVE  \/ Probe /\ trial' = trial
               \/ serve'.stood = serve.stood /\ now' = now /\ trial' = trial
    BY <1>0, <2>1 DEF Serving, Admit, ListenerTurns, Standby, ServeState
  <2>2. ASSUME \/ OtaBegin \/ OtaFail \/ OtaEnd \/ OtaSetBoot \/ FrontTurns \/ UNCHANGED vars
        PROVE  serve'.stood = serve.stood /\ now' = now /\ trial' = trial
    BY <2>2 DEF OtaBegin, OtaFail, OtaEnd, OtaSetBoot, FrontTurns, vars, serveVars
  <2>3. \/ Reboot \/ TrialPoll \/ TrialWon \/ Tick \/ Serving
        \/ OtaBegin \/ OtaFail \/ OtaEnd \/ OtaSetBoot \/ FrontTurns \/ UNCHANGED vars
    BY Steps
  <2> QED BY <2>1, <2>2, <2>3
<1> QED BY <1>1, <1>2, <1>3, <1>4, <1>5, <1>6, <1>7

\* Only a won trial makes a pending image valid.
LEMMA OnlyWon ==
  ASSUME TypeOK, FlashInv, [Next]_vars, Certifies PROVE TrialWon
<1>0. /\ boot \in Slot /\ run \in Slot /\ slot \in [Slot -> SlotState]
      /\ slot[run] = "pending" /\ run' = run /\ slot'[run] = "valid" /\ 1 - run # run
  BY SMT DEF TypeOK, Slot, Certifies
<1>1. ~Reboot
  <2> SUFFICES ASSUME Reboot PROVE FALSE
    OBVIOUS
  <2>1. boot = run
    BY <1>0 DEF FlashInv, NoBrick
  <2>2. run' = 1 - run
    BY <1>0, <2>1 DEF Reboot, Bootload
  <2> QED BY <1>0, <2>2
<1>2. slot'[run] = slot[run] \/ TrialWon
  BY <1>1, TrialUntouched DEF TrialPoll, Tick, flash
<1> QED BY <1>0, <1>2

\* selftest.c: "an image must EARN permanence".
THEOREM Permanent ==
  ASSUME OneWrap
  PROVE  Spec => Earned
<1>1. TypeOK /\ FlashInv /\ SoakInv /\ [Next]_vars
        => [Certifies => serve.stood = 0 \/ now - serve.stood >= HOLD + SOAK - 1]_vars
  <2> SUFFICES ASSUME TypeOK, FlashInv, SoakInv, [Next]_vars, Certifies, serve.stood # 0
               PROVE  now - serve.stood >= HOLD + SOAK - 1
    OBVIOUS
  <2>1. TrialWon
    BY OnlyWon
  <2>2. trial.on /\ NextPoll = now /\ HealthyRun >= SOAK
    BY <2>1 DEF TrialWon, Polling, NextPoll
  <2>3. SOAK \in Nat \ {0} /\ HOLD \in Nat /\ now \in Nat /\ serve.stood \in Nat /\ trial.healthy \in Nat
    BY ProbeAssumption, TrialAssumption, SMT DEF TypeOK, ServeTypeOK, ServeState, TrialState
  <2>4. Ready /\ HealthyRun = trial.healthy + 1
    BY <2>2, <2>3, SMT DEF HealthyRun
  <2>5. now - serve.stood >= HOLD
    BY <2>4, HeldDown DEF SoakInv
  <2>6. trial.healthy > 0 => now - serve.stood >= HOLD + trial.healthy
    BY <2>2, <2>3, <2>5, SMT DEF SoakInv
  <2> QED BY <2>2, <2>3, <2>4, <2>5, <2>6, SMT
<1>2. TypeOK /\ SoakInv /\ [Next]_vars => SoakInv'
  BY NextSoak
<1> QED BY <1>1, <1>2, Typed, InitFlash, NextFlash, InitSoak, PTL DEF Spec, Earned
=============================================================================
