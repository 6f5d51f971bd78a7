----------------------------- MODULE TcpipBeat ------------------------------
(***************************************************************************)
(* The watchdog of the tcpip thread (swarm.c): each heartbeat posts a      *)
(* callback that the thread runs and that moves a beat; when the beat has  *)
(* stood still for STALLS heartbeats the blade aborts, for its coredump.   *)
(* The thread and its mailbox are external: it may be slow, or stop for    *)
(* good, and the mailbox takes what is posted.                             *)
(***************************************************************************)
EXTENDS Integers

CONSTANTS
  STALLS,     \* heartbeats without a beat that end in abort: 12
  SETTLE,     \* heartbeats of boot settle: 30
  IDLE_CAP    \* bound: the histories count up to here

ASSUME BeatAssumption ==
  STALLS \in Nat \ {0} /\ SETTLE \in Nat /\ IDLE_CAP \in Nat /\ IDLE_CAP > STALLS + 1

VARIABLES
  upFor,      \* heartbeats since boot, as far as SETTLE + 1
  linkLost,   \* mask_link_lost()
  hung,       \* the thread has stopped for good
  posted,     \* a callback is in its mailbox
  beaten,     \* s_tcpip_beat # s_tcpip_beat_seen
  stall,      \* s_tcpip_stall
  aborted,    \* abort()
  idle,       \* history: heartbeats since the last beat
  watched     \* history: of these, those that the watchdog was armed for

beatVars == <<upFor, linkLost, hung, posted, beaten, stall, aborted, idle, watched>>

BeatTypeOK ==
  /\ upFor \in 0..SETTLE + 1 /\ linkLost \in BOOLEAN /\ hung \in BOOLEAN /\ posted \in BOOLEAN
  /\ beaten \in BOOLEAN /\ stall \in 0..STALLS /\ aborted \in BOOLEAN
  /\ idle \in 0..IDLE_CAP /\ watched \in 0..idle

Armed == upFor > SETTLE /\ ~linkLost

Up(n) == IF n < IDLE_CAP THEN n + 1 ELSE n

\* Seeded slip: without a wire the count is started over.
WatchdogForgets ==
  IF ~Armed THEN stall' = 0 /\ UNCHANGED <<beaten, aborted>>
  ELSE IF beaten THEN beaten' = FALSE /\ stall' = 0 /\ UNCHANGED aborted
  ELSE stall' = stall + 1 /\ aborted' = (stall' >= STALLS) /\ UNCHANGED beaten

Watchdog ==
  IF ~Armed THEN UNCHANGED <<beaten, stall, aborted>>
  ELSE IF beaten THEN beaten' = FALSE /\ stall' = 0 /\ UNCHANGED aborted
  ELSE stall' = stall + 1 /\ aborted' = (stall' >= STALLS) /\ UNCHANGED beaten

\* swarm_hb_tx_task: the watchdog, and the callback for the next heartbeat.
Heartbeat ==
  /\ ~aborted /\ Watchdog
  /\ upFor' = IF upFor > SETTLE THEN upFor ELSE upFor + 1
  /\ posted' = TRUE /\ idle' = Up(idle) /\ watched' = IF Armed THEN Up(watched) ELSE watched
  /\ UNCHANGED <<linkLost, hung>>

\* count_pcbs_cb, on the thread.
Callback ==
  /\ posted /\ ~hung /\ ~aborted
  /\ posted' = FALSE /\ beaten' = TRUE /\ idle' = 0 /\ watched' = 0
  /\ UNCHANGED <<upFor, linkLost, hung, stall, aborted>>

Hang ==
  /\ ~hung /\ hung' = TRUE
  /\ UNCHANGED <<upFor, linkLost, posted, beaten, stall, aborted, idle, watched>>

LinkTurns ==
  /\ ~aborted /\ linkLost' = ~linkLost
  /\ UNCHANGED <<upFor, hung, posted, beaten, stall, aborted, idle, watched>>

\* The panic handler's reset, or any other.
Rebooted ==
  /\ upFor' = 0 /\ linkLost' = FALSE /\ hung' = FALSE /\ posted' = FALSE /\ beaten' = FALSE
  /\ stall' = 0 /\ aborted' = FALSE /\ idle' = 0 /\ watched' = 0

BeatInit ==
  /\ upFor = 0 /\ linkLost = FALSE /\ hung = FALSE /\ posted = FALSE /\ beaten = FALSE
  /\ stall = 0 /\ aborted = FALSE /\ idle = 0 /\ watched = 0

BeatNext == Heartbeat \/ Callback \/ Hang \/ LinkTurns \/ Rebooted

BeatSpec == BeatInit /\ [][BeatNext]_beatVars

----------------------------------------------------------------------------
(* Properties *)

\* "If its beat freezes ~12 s the thread is hung": a blade whose thread has run
\* anything within the last STALLS - 1 heartbeats is not aborted, however the
\* wire comes and goes between them.
NoFalseAbort == aborted => idle >= STALLS

\* "Record and reboot": a blade with a wire does not go on without its thread for
\* more heartbeats than the count and the one that first misses the beat, and a
\* lost wire in between does not start the count over.
HangEnds == watched <= STALLS + 1 /\ (watched = STALLS + 1 => aborted)

\* The watchdog aborts neither too early nor too late.
WatchdogSound == NoFalseAbort /\ HangEnds
=============================================================================
