----------------------------- MODULE SelfProbe -----------------------------
(***************************************************************************)
(* How a blade knows whether it may be trusted with traffic: serve.c's     *)
(* self-probe (a loopback connect to its own public port every few         *)
(* seconds), the drill standby, and serve_is_ready(), which the election,  *)
(* the heartbeat, the splicers, the mask and the image trial all read.     *)
(* The kernels are those of logic.h.                                       *)
(*                                                                         *)
(* serve_start() runs to its end inside a boot: a boot decides whether the *)
(* public server bound, and whether the admin server did, which is what    *)
(* starts the probe task.  Nothing here survives a reboot.                 *)
(***************************************************************************)
EXTENDS Integers

CONSTANTS
  PROBE,        \* units between two probes
  BOOT_DELAY,   \* units from boot to the first probe
  SICK,         \* consecutive dead probes at which the node stands down
  ABORT,        \* consecutive dead probes at which it aborts
  HOLD,         \* units a node stays down after its last sick-level failure
  STANDBY_MAX,  \* the longest drill standby
  Requests,     \* standbys an operator asks for
  Pairs,        \* relay pairs the probe may find the splicer holding
  POOL,         \* TCP control blocks (LWIP_MAX_ACTIVE_TCP)
  WRAP,         \* the millisecond stamps count modulo this (2^32)
  HORIZON       \* bound: units of uptime

ASSUME ProbeAssumption ==
  /\ PROBE \in Nat \ {0} /\ BOOT_DELAY \in Nat \ {0}
  /\ SICK \in Nat \ {0} /\ ABORT \in Nat /\ SICK < ABORT
  /\ HOLD \in Nat /\ STANDBY_MAX \in Nat /\ POOL \in Nat
  /\ Requests \subseteq Int /\ Pairs \subseteq Nat
  /\ WRAP \in Nat \ {0} /\ HORIZON \in Nat

VARIABLES
  now,      \* esp_timer_get_time(), units since boot
  serve,    \* serve.c's statics (the record below)
  listens,  \* the public port takes connections (the world)
  deaf,     \* units the port has been dead, no probe of it short of room (history)
  mute      \* the same, and no visitor excusing a probe either (history)

ServeState ==
  [ready   : BOOLEAN,             \* s_ready: the public server has bound
   task    : BOOLEAN,             \* the admin server is up, so probe_task runs
   fails   : 0..ABORT,            \* s_probe_fails
   stood   : 0..WRAP - 1,         \* s_stood_down_ms, 0 = never
   standby : 0..STANDBY_MAX,      \* until s_standby_until_us
   fresh   : BOOLEAN,             \* the splicer admitted somebody since admitted_seen
   wait    : Nat]                 \* until the next probe

ServeTypeOK ==
  /\ now \in 0..HORIZON
  /\ serve \in ServeState
  /\ listens \in BOOLEAN
  /\ deaf \in Nat /\ mute \in Nat

serveVars == <<now, serve, listens, deaf, mute>>

----------------------------------------------------------------------------
(* Kernels *)

BusyErrno == {"ENOBUFS"}            \* with ENOMEM, ENFILE, EMFILE, EAGAIN
DeadErrno == {"ETIMEDOUT"}          \* with ECONNREFUSED, ECONNRESET, ...

ProbeVerdict(err) ==
  IF err = "connected" THEN "OK" ELSE IF err \in BusyErrno THEN "BUSY" ELSE "DEAD"

\* A loopback connect costs two blocks, and so does every relay pair.
ProbeRoom(pairs) == 2 * pairs + 4 <= POOL

\* Seeded slip: an unsigned count compared with >= 0.
ProbeJudgeAlways(v, admitted) == IF v = "DEAD" THEN "BUSY" ELSE v

\* A failure in a window that admitted a visitor is congestion, not death.
ProbeJudge(v, admitted) == IF v = "DEAD" /\ admitted THEN "BUSY" ELSE v

ProbeStreak(fails, v) ==
  IF v = "OK" THEN 0 ELSE IF v = "DEAD" THEN fails + 1 ELSE fails

ProbeFit(fails, stood, at) ==
  /\ fails < SICK
  /\ stood # 0 => (at - stood) % WRAP >= HOLD

\* serve_is_ready()
Ready ==
  /\ serve.standby = 0
  /\ ProbeFit(serve.fails, serve.stood, now % WRAP)
  /\ serve.ready

----------------------------------------------------------------------------
(* The probe *)

\* What probe_once can meet.  A live listener may be congested or short of
\* blocks; nothing connects to a dead one.
Meets == BusyErrno \cup DeadErrno \cup (IF listens THEN {"connected"} ELSE {})

\* What the connect says before judgement; with no room it is not tried.
Heard(pairs, err) == IF ProbeRoom(pairs) THEN ProbeVerdict(err) ELSE "BUSY"

\* One turn of probe_task, up to the abort; `v` is the judged verdict.
Probed(v) ==
  LET fails == ProbeStreak(serve.fails, v)
  IN  [serve EXCEPT !.fails = fails, !.fresh = FALSE, !.wait = PROBE,
                    !.stood = IF v = "DEAD" /\ fails >= SICK THEN now % WRAP ELSE @]

ProbeDue == serve.task /\ serve.wait = 0

Probe ==
  /\ ProbeDue
  /\ \E pairs \in Pairs, err \in Meets :
       LET heard == Heard(pairs, err)
           after == Probed(ProbeJudge(heard, serve.fresh))
       IN  /\ after.fails < ABORT
           /\ serve' = after
           /\ deaf' = IF heard = "DEAD" THEN deaf ELSE 0
           /\ mute' = IF heard = "DEAD" /\ ~serve.fresh THEN mute ELSE 0
  /\ UNCHANGED <<now, listens>>

\* The failure that reaches ABORT: the task calls abort().
ProbeAborts ==
  /\ ProbeDue
  /\ \E pairs \in Pairs, err \in Meets :
       Probed(ProbeJudge(Heard(pairs, err), serve.fresh)).fails >= ABORT

----------------------------------------------------------------------------
(* The others *)

StandbyFor(secs) ==
  IF secs < 0 THEN 0 ELSE IF secs > STANDBY_MAX THEN STANDBY_MAX ELSE secs

\* POST /standby?s=NN, behind the admin server; 0 = come back now.
Standby(secs) ==
  /\ serve.task
  /\ serve' = [serve EXCEPT !.standby = StandbyFor(secs)]
  /\ UNCHANGED <<now, listens, deaf, mute>>

\* The splicer accepts a visitor on 443.
Admit ==
  /\ ~serve.fresh
  /\ serve' = [serve EXCEPT !.fresh = TRUE]
  /\ UNCHANGED <<now, listens, deaf, mute>>

\* The server's tasks block behind an undrained accept queue, or get out again.
ListenerTurns ==
  /\ serve.ready
  /\ listens' = ~listens /\ deaf' = 0 /\ mute' = 0
  /\ UNCHANGED <<now, serve>>

ServeTick ==
  /\ now < HORIZON
  /\ serve.task => serve.wait > 0
  /\ now' = now + 1
  /\ serve' = [serve EXCEPT !.standby = IF @ > 0 THEN @ - 1 ELSE 0,
                            !.wait = IF @ > 0 THEN @ - 1 ELSE 0]
  /\ deaf' = IF serve.task /\ ~listens THEN deaf + 1 ELSE 0
  /\ mute' = IF serve.task /\ ~listens /\ serve.wait <= PROBE THEN mute + 1 ELSE 0
  /\ UNCHANGED listens

\* Power on to the end of serve_start.
Booted(public, admin) ==
  [ready |-> public, task |-> admin, fails |-> 0, stood |-> 0, standby |-> 0,
   fresh |-> FALSE, wait |-> BOOT_DELAY]

ServeInit ==
  /\ now = 0 /\ deaf = 0 /\ mute = 0
  /\ \E public, admin \in BOOLEAN :
       serve = Booted(public, admin) /\ listens = public

ServeReset ==
  /\ now' = 0 /\ deaf' = 0 /\ mute' = 0
  /\ \E public, admin \in BOOLEAN :
       serve' = Booted(public, admin) /\ listens' = public

----------------------------------------------------------------------------
(* Properties *)

\* The fleet does not trust a corpse's word for it: a listener that lets nobody
\* in, with no full pool and no visitor to excuse the probe, is out of the
\* election within SICK probes, and the node has aborted within ABORT.
Corpse ==
  /\ mute > SICK * PROBE => ~Ready
  /\ mute <= ABORT * PROBE
=============================================================================
