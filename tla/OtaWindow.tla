----------------------------- MODULE OtaWindow -----------------------------
(***************************************************************************)
(* The observers' update window (ota_window.c): a held touch opens it, a   *)
(* task of its own joins the WiFi, serves the update door, and takes all   *)
(* of it down again; beside it runs the trial of a freshly updated image,  *)
(* which wants to hear the swarm on the radio the window takes away.       *)
(*                                                                         *)
(* s_state is shared by the touch, the tasks and the server.  A window may *)
(* be opened again while it shows that the last one FAILED: two tasks then *)
(* run on one set of statics.  A unit of time is one turn of the task's    *)
(* loop, 500 ms.  The network, the server and the bootloader are external. *)
(***************************************************************************)
EXTENDS Integers, FiniteSets

CONSTANTS
  Task,       \* the window tasks that may be alive at once
  JOIN,       \* JOIN_S: budget for association and lease
  SHOW,       \* the time FAILED stays on the glass
  WINDOW,     \* WINDOW_S
  EXTEND,     \* what a transfer in flight leaves of the window
  TRIAL,      \* TRIAL_S
  DEADLINE    \* DEADLINE_S

ASSUME TaskAssumption == IsFiniteSet(Task)
ASSUME TimesAssumption ==
  /\ {JOIN, SHOW, WINDOW, EXTEND, TRIAL, DEADLINE} \subseteq Nat \ {0}
  /\ JOIN + SHOW <= WINDOW /\ EXTEND <= WINDOW /\ TRIAL <= DEADLINE

VARIABLES
  creds,    \* the build has WiFi credentials
  state,    \* s_state
  ip,       \* s_ip holds a lease
  left,     \* s_expiry_us, as the time to it
  srv,      \* s_srv is a server
  radio,    \* who has the channel: the swarm, a join, an AP, an AP that is lost
  task,     \* the window tasks
  upload,   \* the handler the server is in; "none" <=> ~s_updating
  trial,    \* trial_task and what it decides (the record below)
  age       \* history: time since the last opening or the last transfer

windowVars == <<creds, state, ip, left, srv, radio, task, upload, trial, age>>

PAST == -1

Gone == [pc |-> "gone", wait |-> 0, turned |-> TRUE]
Live == {t \in Task : task[t].pc # "gone"}

TaskState ==
  [pc     : {"gone", "loop", "showing", "stopping"},
   wait   : PAST..JOIN + SHOW,   \* to the end of the join, or of the display
   turned : BOOLEAN]             \* the loop has had its turn in this unit

WindowTypeOK ==
  /\ creds \in BOOLEAN /\ ip \in BOOLEAN /\ srv \in BOOLEAN
  /\ state \in {"idle", "nocreds", "joining", "ready", "receiving", "failed"}
  /\ left \in PAST..WINDOW
  /\ radio \in {"swarm", "joining", "ap", "lost"}
  /\ task \in [Task -> TaskState]
  /\ upload \in {"none", "ota", "page"}
  /\ trial \in [pending : BOOLEAN, on : BOOLEAN, up : 0..DEADLINE]
  /\ age \in 0..WINDOW + 2

----------------------------------------------------------------------------
(* The touch *)

\* ota_window_open and the first lines of the task it creates, which outranks
\* its creator.
Open(t) ==
  /\ state \in {"idle", "nocreds", "failed"} /\ creds /\ task[t] = Gone
  /\ state' = "joining" /\ ip' = FALSE /\ left' = WINDOW /\ radio' = "joining"
  /\ task' = [task EXCEPT ![t] = [pc |-> "loop", wait |-> JOIN, turned |-> TRUE]]
  /\ age' = 0
  /\ UNCHANGED <<creds, srv, upload, trial>>

OpenNoCreds ==
  /\ state \in {"idle", "nocreds", "failed"} /\ ~creds
  /\ state' = "nocreds"
  /\ UNCHANGED <<creds, ip, left, srv, radio, task, upload, trial, age>>

\* ota_window_close
Close ==
  /\ \/ state = "nocreds" /\ state' = "idle" /\ UNCHANGED left
     \/ state \notin {"nocreds", "idle"} /\ left' = PAST /\ UNCHANGED state
  /\ UNCHANGED <<creds, ip, srv, radio, task, upload, trial, age>>

----------------------------------------------------------------------------
(* The network *)

Associate ==
  /\ radio = "joining" /\ radio' = "ap"
  /\ UNCHANGED <<creds, state, ip, left, srv, task, upload, trial, age>>

\* got_ip_cb
GotIp ==
  /\ radio = "ap" /\ ip' = TRUE
  /\ UNCHANGED <<creds, state, left, srv, radio, task, upload, trial, age>>

\* The AP drops us.  Nobody asks for another association, and s_ip stays.
Dropped ==
  /\ radio = "ap" /\ radio' = "lost"
  /\ UNCHANGED <<creds, state, ip, left, srv, task, upload, trial, age>>

----------------------------------------------------------------------------
(* Reboots *)

\* Every static is cleared; what the bootloader makes of the image on trial
\* is in pending.
BoardBoot(onTrial) ==
  /\ state' = "idle" /\ ip' = FALSE /\ left' = PAST /\ srv' = FALSE
  /\ radio' = "swarm" /\ task' = [t \in Task |-> Gone] /\ upload' = "none"
  /\ trial' = [pending |-> onTrial, on |-> onTrial, up |-> 0]
  /\ age' = 0 /\ UNCHANGED creds

\* Power, a panic.  An image found still on trial gives way to the last one.
BoardCrash == BoardBoot(FALSE)

----------------------------------------------------------------------------
(* The server: one request at a time, the handlers of /ota and /page *)

Stopping == \E t \in Task : task[t].pc = "stopping"

\* Seeded slip: an image may follow another that is still on trial.
UploadAnyway(kind) ==
  /\ srv /\ radio = "ap" /\ ~Stopping /\ upload = "none"
  /\ upload' = kind
  /\ UNCHANGED <<creds, state, ip, left, srv, radio, task, trial, age>>

\* swarm_set_ota(TRUE).  esp_ota_begin refuses while the running image is on
\* trial; /page has no such guard.
Upload(kind) ==
  /\ srv /\ radio = "ap" /\ ~Stopping /\ upload = "none"
  /\ kind = "ota" => ~trial.pending
  /\ upload' = kind
  /\ UNCHANGED <<creds, state, ip, left, srv, radio, task, trial, age>>

\* A failed transfer, or a page written: the handler answers, swarm_set_ota(FALSE).
Answered ==
  /\ upload # "none" /\ upload' = "none" /\ age' = 0
  /\ UNCHANGED <<creds, state, ip, left, srv, radio, task, trial>>

\* The image is whole and the boot pointer on it: esp_restart.
Updated == upload = "ota" /\ BoardBoot(TRUE)

----------------------------------------------------------------------------
(* window_task *)

\* Seeded slip: the channel is not pinned again.
FinishUnpinned(t) ==
  /\ srv' = FALSE /\ ip' = FALSE /\ state' = "idle"
  /\ task' = [task EXCEPT ![t] = Gone]
  /\ UNCHANGED <<creds, left, radio, upload, trial, age>>

\* The end of the task: handlers off, WiFi off the AP, channel pinned again.
Finish(t) ==
  /\ srv' = FALSE /\ ip' = FALSE /\ radio' = "swarm" /\ state' = "idle"
  /\ task' = [task EXCEPT ![t] = Gone]
  /\ UNCHANGED <<creds, left, upload, trial, age>>

\* httpd_ssl_stop waits for the handler it is in.  A second task stopping the
\* server the first is about to free is undefined: here, a panic.
Teardown(t, s, open) ==
  IF ~open THEN Finish(t)
  ELSE IF Stopping THEN BoardCrash
  ELSE /\ task' = [task EXCEPT ![t] = [pc |-> "stopping", wait |-> 0, turned |-> TRUE]]
       /\ state' = s /\ srv' = open
       /\ UNCHANGED <<creds, ip, left, radio, upload, trial, age>>

\* Seeded slip: a server that did not start is announced all the same.
ServerStartsBlind ==
  IF state = "joining" /\ ip
  THEN {[state |-> "ready", srv |-> TRUE], [state |-> "ready", srv |-> srv]}
  ELSE {[state |-> state, srv |-> srv]}

\* server_start, if this turn is the one that finds the lease.
ServerStarts ==
  IF state = "joining" /\ ip
  THEN {[state |-> "ready", srv |-> TRUE], [state |-> "failed", srv |-> srv]}
  ELSE {[state |-> state, srv |-> srv]}

\* Seeded slip: the state, not the flag, says that a transfer is in flight.
InFlightSticky(s) == upload # "none" \/ s = "receiving"

\* swarm_own_updating
InFlight(s) == upload # "none"

\* A transfer in flight sets the time left, which may be less than it was.
Extended(inFlight) == IF inFlight THEN EXTEND ELSE left

\* The loop's turn: start the server, give the join up, notice what others
\* have done to the state, notice the time, follow the transfer.
Turn(t) ==
  /\ task[t].pc = "loop" /\ ~task[t].turned
  /\ \E now \in ServerStarts :
       IF now.state = "joining" /\ task[t].wait = PAST
       THEN /\ state' = "failed"
            /\ task' = [task EXCEPT ![t] = [pc |-> "showing", wait |-> SHOW, turned |-> TRUE]]
            /\ UNCHANGED <<creds, ip, left, srv, radio, upload, trial, age>>
       ELSE IF now.state \in {"failed", "idle"} \/ left = PAST
       THEN Teardown(t, now.state, now.srv)
       ELSE /\ srv' = now.srv
            /\ state' = IF InFlight(now.state) THEN "receiving"
                        ELSE IF now.state = "receiving" THEN "ready" ELSE now.state
            /\ left' = Extended(InFlight(now.state))
            /\ task' = [task EXCEPT ![t].turned = TRUE]
            /\ UNCHANGED <<creds, ip, radio, upload, trial, age>>

\* The glass has shown FAILED for long enough.
Shown(t) ==
  /\ task[t].pc = "showing" /\ task[t].wait = 0
  /\ Teardown(t, state, srv)

Stopped(t) == task[t].pc = "stopping" /\ upload = "none" /\ Finish(t)

----------------------------------------------------------------------------
(* trial_task, whose turns are as long as the window's here *)

\* A live peer on the roster.  Marking the image valid may fail, unnoticed.
TrialWon ==
  /\ trial.on /\ trial.up >= TRIAL
  /\ \E marked \in BOOLEAN :
       trial' = [trial EXCEPT !.on = FALSE, !.pending = ~marked]
  /\ UNCHANGED <<creds, state, ip, left, srv, radio, task, upload, age>>

\* Nobody heard until the deadline: restart, so that the bootloader rolls back.
TrialLost == trial.on /\ trial.up >= DEADLINE /\ BoardBoot(FALSE)

----------------------------------------------------------------------------
(* Time *)

Due(t) ==
  \/ task[t].pc = "loop" /\ ~task[t].turned
  \/ task[t].pc = "showing" /\ task[t].wait = 0
  \/ task[t].pc = "stopping" /\ upload = "none"

OlderTrial == [trial EXCEPT !.up = IF trial.on THEN @ + 1 ELSE @]

OlderTask(r) ==
  [r EXCEPT !.wait   = IF r.pc = "loop" THEN (IF @ = PAST THEN PAST ELSE @ - 1)
                       ELSE IF r.pc = "showing" THEN @ - 1 ELSE @,
            !.turned = r.pc # "loop"]

Tick ==
  /\ \A t \in Task : ~Due(t)
  /\ trial.on => trial.up < DEADLINE
  /\ task' = [t \in Task |-> OlderTask(task[t])]
  /\ left' = IF left = PAST THEN PAST ELSE left - 1
  /\ trial' = OlderTrial
  /\ age' = IF Live = {} \/ upload # "none" THEN 0
            ELSE IF age < WINDOW + 2 THEN age + 1 ELSE age
  /\ UNCHANGED <<creds, state, ip, srv, radio, upload>>

----------------------------------------------------------------------------
(* The specification *)

WindowInit ==
  /\ creds \in BOOLEAN
  /\ state = "idle" /\ ip = FALSE /\ left = PAST /\ srv = FALSE
  /\ radio = "swarm" /\ task = [t \in Task |-> Gone] /\ upload = "none"
  /\ trial = [pending |-> FALSE, on |-> FALSE, up |-> 0]
  /\ age = 0

WindowTask(t) == Open(t) \/ Turn(t) \/ Shown(t) \/ Stopped(t)

WindowNext ==
  \/ \E t \in Task : WindowTask(t)
  \/ OpenNoCreds \/ Close
  \/ Associate \/ GotIp \/ Dropped
  \/ Upload("ota") \/ Upload("page") \/ Answered \/ Updated
  \/ TrialWon \/ TrialLost \/ BoardCrash \/ Tick

WindowSpec == WindowInit /\ [][WindowNext]_windowVars

----------------------------------------------------------------------------
(* Properties *)

\* Radio-only again: however windows overlapped, were cancelled or crashed,
\* when the last task is gone there is no server, no lease, the swarm has its
\* channel back and the glass says so.
RadioPure ==
  Live = {} => ~srv /\ ~ip /\ radio = "swarm" /\ upload = "none"
               /\ state \in {"idle", "nocreds"}

\* The address on the glass is that of a server: no other task has stopped it
\* under a state that says READY or RECEIVING.
DoorIsThere == state \in {"ready", "receiving"} => srv /\ ip

\* "The window always closes": a whole window after the last opening or the
\* last transfer, at the latest, no task is left.
WindowCloses == Live # {} /\ upload = "none" => age <= WINDOW + 1

\* "A slow transfer is never cut mid-write": not by the window, whose server
\* waits for its handler, and not by the restart of a trial that nobody heard.
\* True of images only: a page transfer in a trial's time is cut.
ImageNeverCut == [][TrialLost => upload # "ota"]_windowVars
=============================================================================
