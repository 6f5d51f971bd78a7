------------------------------ MODULE Release ------------------------------
(***************************************************************************)
(* The life of an image on a blade: the OTA door (ota.c) writes it to the  *)
(* spare slot and flips the boot pointer, the bootloader starts it on      *)
(* trial, and selftest.c lets it become permanent only after an unbroken   *)
(* soak of health, or reboots so that the bootloader rolls it back.        *)
(* Composed with SelfProbe, whose serve_is_ready() is half of that health. *)
(*                                                                         *)
(* The unit of time is one poll of the trial.  The bootloader and the OTA  *)
(* calls of the chip's library are external, modelled from their use.      *)
(***************************************************************************)
EXTENDS SelfProbe

CONSTANTS
  SOAK,       \* polls in a row that must find the node healthy
  DEADLINE    \* polls after which an undecided trial is lost

ASSUME TrialAssumption == SOAK \in Nat \ {0} /\ DEADLINE \in Nat \ {0}

VARIABLES
  slot,    \* the two app slots, as otadata and their contents have them
  boot,    \* the slot otadata selects
  run,     \* the slot whose image is running
  ota,     \* how far ota_post_handler is
  trial,   \* selftest_task (the record below)
  front    \* mask_link_up() /\ splice_is_up()

Slot      == {0, 1}
SlotState == {"torn", "whole", "new", "pending", "valid", "aborted"}
TrialState ==
  [on      : BOOLEAN,          \* the task is polling
   polled  : BOOLEAN,          \* and has polled in this unit
   healthy : 0..SOAK,          \* healthy_s
   elapsed : 0..DEADLINE,      \* elapsed_s
   stuck   : BOOLEAN]          \* the trial was won and marking it valid failed

TypeOK ==
  /\ ServeTypeOK
  /\ slot \in [Slot -> SlotState] /\ boot \in Slot /\ run \in Slot
  /\ ota \in {"idle", "taking", "whole", "flipped"}
  /\ trial \in TrialState
  /\ front \in BOOLEAN

flash == <<slot, boot, run>>
vars  == <<serveVars, flash, ota, trial, front>>

Spare == 1 - run

----------------------------------------------------------------------------
(* The OTA door: POST /ota on the admin port *)

\* esp_ota_begin erases the spare slot; it refuses a running image on trial.
\* Earlier refusals (key, variant, short head) change nothing.
OtaBegin ==
  /\ serve.task /\ ota = "idle" /\ slot[run] # "pending"
  /\ ota' = "taking" /\ slot' = [slot EXCEPT ![Spare] = "torn"]
  /\ UNCHANGED <<serveVars, boot, run, trial, front>>

\* A failed receive or write, or an image esp_ota_end finds invalid.
OtaFail ==
  /\ ota = "taking" /\ ota' = "idle"
  /\ UNCHANGED <<serveVars, flash, trial, front>>

OtaEnd ==
  /\ ota = "taking" /\ ota' = "whole"
  /\ slot' = [slot EXCEPT ![Spare] = "whole"]
  /\ UNCHANGED <<serveVars, boot, run, trial, front>>

\* Seeded slip: the boot pointer moves before the image is known to be whole.
OtaSetBootEarly ==
  /\ ota \in {"taking", "whole"}
  /\ \/ /\ ota' = "flipped" /\ boot' = Spare
        /\ slot' = [slot EXCEPT ![Spare] = IF ota = "whole" THEN "new" ELSE @]
     \/ ota' = "idle" /\ UNCHANGED <<slot, boot>>
  /\ UNCHANGED <<serveVars, run, trial, front>>

\* esp_ota_set_boot_partition, which may fail: stay up on the current image.
OtaSetBoot ==
  /\ ota = "whole"
  /\ \/ /\ ota' = "flipped" /\ boot' = Spare
        /\ slot' = [slot EXCEPT ![Spare] = "new"]
     \/ ota' = "idle" /\ UNCHANGED <<slot, boot>>
  /\ UNCHANGED <<serveVars, run, trial, front>>

----------------------------------------------------------------------------
(* Reboots *)

\* The bootloader: a new image goes on trial, one found still on trial has
\* failed it and gives way to the other slot.
Bootload ==
  CASE slot[boot] = "new" ->
         /\ run' = boot /\ slot' = [slot EXCEPT ![boot] = "pending"]
         /\ UNCHANGED boot
    [] slot[boot] = "pending" ->
         /\ boot' = 1 - boot /\ run' = 1 - boot
         /\ slot' = [slot EXCEPT ![boot] = "aborted"]
    [] OTHER -> run' = boot /\ UNCHANGED <<slot, boot>>

NoTrial == [on |-> FALSE, polled |-> FALSE, healthy |-> 0, elapsed |-> 0, stuck |-> FALSE]

\* The trial's first poll comes one unit after its start.
Reboot ==
  /\ Bootload /\ ServeReset
  /\ ota' = "idle"
  /\ trial' = [NoTrial EXCEPT !.on = (slot'[run'] = "pending"), !.polled = TRUE]
  /\ front' = FALSE

\* The handler's own restart, the probe's abort(), and every other reset: a
\* panic, a watchdog, the power.
OtaRestart == ota = "flipped" /\ Reboot
ProbeAbort == ProbeAborts /\ Reboot
Crash      == Reboot

----------------------------------------------------------------------------
(* The trial *)

Polling == trial.on /\ ~trial.polled
Late    == trial.elapsed + 1 >= DEADLINE

\* DEADLINE: reboot, so that the bootloader restores the last good image.
TrialLost == Polling /\ Late /\ Reboot

\* Seeded slip: a stumble does not restart the clock.
HealthyRunKept == IF Ready /\ front THEN trial.healthy + 1 ELSE trial.healthy

HealthyRun == IF Ready /\ front THEN trial.healthy + 1 ELSE 0

\* Seeded slip: a stumble restarts both clocks.
TrialPollForgiving ==
  /\ Polling /\ ~Late /\ HealthyRun < SOAK
  /\ trial' = [trial EXCEPT !.polled = TRUE, !.healthy = HealthyRun,
                            !.elapsed = IF HealthyRun = 0 THEN 0 ELSE @ + 1]
  /\ UNCHANGED <<serveVars, flash, ota, front>>

TrialPoll ==
  /\ Polling /\ ~Late /\ HealthyRun < SOAK
  /\ trial' = [trial EXCEPT !.polled = TRUE, !.healthy = HealthyRun, !.elapsed = @ + 1]
  /\ UNCHANGED <<serveVars, flash, ota, front>>

\* esp_ota_mark_app_valid_cancel_rollback, which may fail; the task then ends.
TrialWon ==
  /\ Polling /\ ~Late /\ HealthyRun >= SOAK
  /\ \/ slot' = [slot EXCEPT ![run] = "valid"] /\ trial' = NoTrial
     \/ UNCHANGED slot /\ trial' = [NoTrial EXCEPT !.stuck = TRUE]
  /\ UNCHANGED <<serveVars, boot, run, ota, front>>

----------------------------------------------------------------------------
(* The specification *)

Serving ==
  /\ Probe \/ Admit \/ ListenerTurns \/ \E secs \in Requests : Standby(secs)
  /\ UNCHANGED <<flash, ota, trial, front>>

\* The wire comes up or goes, the splicer comes up.
FrontTurns ==
  /\ front' = ~front
  /\ UNCHANGED <<serveVars, flash, ota, trial>>

Tick ==
  /\ trial.on => trial.polled
  /\ ServeTick
  /\ trial' = [trial EXCEPT !.polled = FALSE]
  /\ UNCHANGED <<flash, ota, front>>

\* Flashed over USB: a trusted image in slot 0, nothing in slot 1.
Init ==
  /\ ServeInit
  /\ slot = [s \in Slot |-> IF s = 0 THEN "valid" ELSE "torn"]
  /\ boot = 0 /\ run = 0 /\ ota = "idle" /\ trial = NoTrial
  /\ front = FALSE

Next ==
  \/ OtaBegin \/ OtaFail \/ OtaEnd \/ OtaSetBoot
  \/ OtaRestart \/ ProbeAbort \/ Crash
  \/ TrialPoll \/ TrialLost \/ TrialWon
  \/ Serving \/ FrontTurns \/ Tick

Spec == Init /\ [][Next]_vars

----------------------------------------------------------------------------
(* Properties *)

\* A power cut, a crash or an abort at any point of a transfer, a flip, a trial
\* or a roll-back finds something to boot: what runs is valid or on trial, an
\* image on trial has a valid one behind it, and the boot pointer leaves the
\* running slot only for a whole new image, over a valid one.
NoBrick ==
  /\ slot[run] \in {"valid", "pending"}
  /\ slot[run] = "pending" => slot[Spare] = "valid"
  /\ boot # run => slot[boot] = "new" /\ slot[run] = "valid"

\* No trial goes on for ever: at the deadline an image is valid, gone, or one
\* that won and could not be marked.
Decided == slot[run] = "pending" /\ now >= DEADLINE + 1 => trial.stuck

Certifies == slot[run] = "pending" /\ run' = run /\ slot'[run] = "valid"

\* An image is made permanent only if its server has not stood down within a
\* whole hold and, after that, a whole soak.
Earned ==
  [][Certifies => serve.stood = 0 \/ now - serve.stood >= HOLD + SOAK - 1]_vars

\* selftest.c: it "refuses to mark it valid until the TLS server is listening,
\* the wire is up, and both STAY that way for the soak".  The code does not keep
\* this: a leader's own visitors, bound for the other blades, turn every dead
\* probe of its port into a busy one.
CertifiedListens == [][Certifies => deaf < SOAK]_vars
=============================================================================
