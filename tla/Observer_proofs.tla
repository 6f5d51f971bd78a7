-------------------------- MODULE Observer_proofs --------------------------
(***************************************************************************)
(* What holds behind the screens whatever the sizes, the budgets and the   *)
(* delays: of the update window and any number of overlapping tasks, of    *)
(* the LED rail that three tasks paint, of the clocks that follow beacons  *)
(* and of the climate's ring; and that their runs in one are theirs.       *)
(***************************************************************************)
EXTENDS MCObserver, Sums, TLAPS

----------------------------------------------------------------------------
(* The update window: its inductive invariant *)

\* Who answers for the server: the state says whether it is there, it is there
\* while a handler or a stop is in it, and only one task stops it.
Doors ==
  /\ srv <=> state \in {"ready", "receiving"}
  /\ srv => ip
  /\ upload # "none" => srv
  /\ \A t \in Task : task[t].pc = "stopping" => srv
  /\ \A t, u \in Task :
       task[t].pc = "stopping" /\ task[u].pc = "stopping" => t = u
  /\ (\A t \in Task : task[t].pc = "gone") => ~srv /\ ~ip /\ radio = "swarm" /\ state # "failed" /\ state # "joining"

Waits ==
  \A t \in Task : /\ task[t].pc = "showing" => task[t].wait \in 0..SHOW
                  /\ task[t].pc = "loop" => task[t].wait \in PAST..JOIN

Shape == WindowTypeOK /\ Doors /\ Waits

\* The age at which a task must have left the phase it is in.
Joins(t) ==
  task[t].pc = "loop" /\ state = "joining" =>
    IF task[t].wait = PAST
    THEN age <= IF task[t].turned THEN JOIN ELSE JOIN + 1
    ELSE age + task[t].wait <= JOIN

Loops(t) ==
  task[t].pc = "loop" => age <= IF task[t].turned THEN WINDOW ELSE WINDOW + 1

Shows(t) == task[t].pc = "showing" => age + task[t].wait <= JOIN + 1 + SHOW

Stops(t) == task[t].pc = "stopping" => age <= WINDOW + 1

Clocks ==
  upload = "none" =>
    /\ left # PAST => left + age <= WINDOW
    /\ \A t \in Task : Joins(t) /\ Loops(t) /\ Shows(t) /\ Stops(t)

WindowInv == Shape /\ Clocks

----------------------------------------------------------------------------
(* The budgets, and the ends a turn can have *)

LEMMA Budgets ==
  /\ JOIN \in Nat /\ SHOW \in Nat /\ WINDOW \in Nat /\ EXTEND \in Nat
  /\ TRIAL \in Nat /\ DEADLINE \in Nat
  /\ 0 < JOIN /\ 0 < SHOW /\ 0 < DEADLINE
  /\ JOIN + SHOW <= WINDOW /\ EXTEND <= WINDOW
BY TimesAssumption

\* What Turn and Shown can come to: the join is given up, the task goes on, it
\* waits for the server to stop, it ends, or it panics.
GivesUp(t) ==
  /\ task[t].pc = "loop" /\ ~task[t].turned
  /\ task[t].wait = PAST /\ state = "joining" /\ state' = "failed"
  /\ task' = [task EXCEPT ![t] = [pc |-> "showing", wait |-> SHOW, turned |-> TRUE]]
  /\ UNCHANGED <<creds, ip, left, srv, radio, upload, trial, age>>

GoesOn(t) ==
  /\ task[t].pc = "loop" /\ ~task[t].turned /\ left # PAST
  /\ state' \in {"joining", "ready", "receiving", "nocreds"}
  /\ state' = "joining" => state = "joining" /\ task[t].wait # PAST
  /\ srv' \in BOOLEAN
  /\ srv' <=> state' \in {"ready", "receiving"}
  /\ srv => srv'
  /\ srv' => ip
  /\ left' = left \/ (upload # "none" /\ left' = EXTEND)
  /\ task' = [task EXCEPT ![t].turned = TRUE]
  /\ UNCHANGED <<creds, ip, radio, upload, trial, age>>

Waiting(t) ==
  /\ task[t].pc \in {"loop", "showing"} /\ (task[t].pc = "showing" => task[t].wait = 0)
  /\ \A u \in Task : task[u].pc # "stopping"
  /\ state' \in {"ready", "receiving"} /\ srv' = TRUE /\ ip
  /\ task' = [task EXCEPT ![t] = [pc |-> "stopping", wait |-> 0, turned |-> TRUE]]
  /\ UNCHANGED <<creds, ip, left, radio, upload, trial, age>>

Ends(t) ==
  /\ upload = "none" /\ task[t].pc # "gone"
  /\ \A u \in Task : u # t => task[u].pc # "stopping"
  /\ Finish(t)

LEMMA TeardownEnds ==
  ASSUME Shape, NEW t \in Task, NEW s, NEW open \in BOOLEAN,
         task[t].pc \in {"loop", "showing"}, task[t].pc = "showing" => task[t].wait = 0,
         open <=> s \in {"ready", "receiving"}, open => ip, srv => open,
         Teardown(t, s, open)
  PROVE  Ends(t) \/ Waiting(t) \/ BoardCrash
<1>1. CASE ~open
  <2>1. Finish(t) BY <1>1 DEF Teardown
  <2>2. upload = "none" /\ \A u \in Task : task[u].pc # "stopping"
    BY <1>1 DEF Shape, Doors, WindowTypeOK
  <2> QED BY <2>1, <2>2 DEF Ends
<1>2. CASE open /\ Stopping
  BY <1>2 DEF Teardown
<1>3. CASE open /\ ~Stopping
  <2>1. \A u \in Task : task[u].pc # "stopping"
    BY <1>3 DEF Stopping
  <2> QED BY <1>3, <2>1 DEF Teardown, Waiting
<1> QED BY <1>1, <1>2, <1>3

LEMMA TurnEnds ==
  ASSUME Shape, NEW t \in Task, Turn(t)
  PROVE  GivesUp(t) \/ GoesOn(t) \/ Ends(t) \/ Waiting(t) \/ BoardCrash
<1>1. task[t].pc = "loop" /\ ~task[t].turned
  BY DEF Turn
<1>2. PICK now \in ServerStarts :
        IF now.state = "joining" /\ task[t].wait = PAST
        THEN /\ state' = "failed"
             /\ task' = [task EXCEPT ![t] = [pc |-> "showing", wait |-> SHOW, turned |-> TRUE]]
             /\ UNCHANGED <<creds, ip, left, srv, radio, upload, trial, age>>
        ELSE IF now.state \in {"failed", "idle"} \/ left = PAST
        THEN Teardown(t, now.state, now.srv)
        ELSE /\ srv' = now.srv
             /\ state' = IF InFlight(now.state) THEN "receiving"
                         ELSE IF now.state = "receiving" THEN "ready" ELSE now.state
             /\ left' = Extended(InFlight(now.state))
             /\ task' = [task EXCEPT ![t].turned = TRUE]
             /\ UNCHANGED <<creds, ip, radio, upload, trial, age>>
  BY DEF Turn
<1>3. /\ now.srv \in BOOLEAN
      /\ now.srv <=> now.state \in {"ready", "receiving"}
      /\ now.srv => ip
      /\ srv => now.srv
      /\ now.state = "joining" => state = "joining"
      /\ now.state \in {"idle", "nocreds", "joining", "ready", "receiving", "failed"}
  <2>1. /\ srv \in BOOLEAN /\ (srv <=> state \in {"ready", "receiving"}) /\ (srv => ip)
        /\ state \in {"idle", "nocreds", "joining", "ready", "receiving", "failed"}
    BY DEF Shape, Doors, WindowTypeOK
  <2>2. CASE state = "joining" /\ ip
    <3>1. now = [state |-> "ready", srv |-> TRUE] \/ now = [state |-> "failed", srv |-> srv]
      BY <2>2, <1>2 DEF ServerStarts
    <3>2. ~srv BY <2>1, <2>2
    <3>3. CASE now = [state |-> "ready", srv |-> TRUE]
      <4>1. now.state = "ready" /\ now.srv = TRUE BY <3>3
      <4> QED BY <2>2, <4>1
    <3>4. CASE now = [state |-> "failed", srv |-> srv]
      <4>1. now.state = "failed" /\ now.srv = srv BY <3>4
      <4> QED BY <2>1, <2>2, <3>2, <4>1
    <3> QED BY <3>1, <3>3, <3>4
  <2>3. CASE ~(state = "joining" /\ ip)
    <3>1. now = [state |-> state, srv |-> srv]
      BY <2>3, <1>2 DEF ServerStarts
    <3>2. now.state = state /\ now.srv = srv BY <3>1
    <3> QED BY <2>1, <3>2
  <2> QED BY <2>2, <2>3
<1>4. CASE now.state = "joining" /\ task[t].wait = PAST
  BY <1>1, <1>2, <1>3, <1>4 DEF GivesUp
<1>5. CASE ~(now.state = "joining" /\ task[t].wait = PAST)
           /\ (now.state \in {"failed", "idle"} \/ left = PAST)
  <2>1. Teardown(t, now.state, now.srv) BY <1>2, <1>5
  <2> QED BY <1>1, <1>3, <2>1, TeardownEnds
<1>6. CASE ~(now.state = "joining" /\ task[t].wait = PAST)
           /\ ~(now.state \in {"failed", "idle"} \/ left = PAST)
  <2>1. /\ srv' = now.srv
        /\ state' = IF upload # "none" THEN "receiving"
                    ELSE IF now.state = "receiving" THEN "ready" ELSE now.state
        /\ left' = IF upload # "none" THEN EXTEND ELSE left
        /\ task' = [task EXCEPT ![t].turned = TRUE]
        /\ UNCHANGED <<creds, ip, radio, upload, trial, age>>
    BY <1>2, <1>6 DEF InFlight, Extended
  <2>2. upload # "none" => now.srv
    BY <1>3 DEF Shape, Doors
  <2>3. state' \in {"joining", "ready", "receiving", "nocreds"}
    BY <1>3, <1>6, <2>1
  <2>4. state' = "joining" => state = "joining" /\ task[t].wait # PAST
    BY <1>3, <1>6, <2>1
  <2>5. srv' <=> state' \in {"ready", "receiving"}
    BY <1>3, <2>1, <2>2
  <2> QED BY <1>1, <1>3, <1>6, <2>1, <2>3, <2>4, <2>5 DEF GoesOn
<1> QED BY <1>4, <1>5, <1>6

LEMMA ShownEnds ==
  ASSUME Shape, NEW t \in Task, Shown(t)
  PROVE  Ends(t) \/ Waiting(t) \/ BoardCrash
<1>1. task[t].pc = "showing" /\ task[t].wait = 0 /\ Teardown(t, state, srv)
  BY DEF Shown
<1>2. srv \in BOOLEAN /\ (srv <=> state \in {"ready", "receiving"}) /\ (srv => ip)
  BY DEF Shape, Doors, WindowTypeOK
<1> QED BY <1>1, <1>2, TeardownEnds

LEMMA StoppedEnds ==
  ASSUME Shape, NEW t \in Task, Stopped(t)
  PROVE  Ends(t)
BY DEF Stopped, Ends, Shape, Doors

----------------------------------------------------------------------------
(* Shape is inductive *)

LEMMA ShapeInit == WindowInit => Shape
<1> SUFFICES ASSUME WindowInit PROVE Shape
  OBVIOUS
<1> USE Budgets DEF PAST
<1>1. Gone \in TaskState BY DEF Gone, TaskState
<1>2. WindowTypeOK
  <2>1. task \in [Task -> TaskState] BY <1>1 DEF WindowInit
  <2>2. left \in PAST..WINDOW /\ age \in 0..WINDOW + 2 BY DEF WindowInit
  <2>3. trial \in [pending : BOOLEAN, on : BOOLEAN, up : 0..DEADLINE] BY DEF WindowInit
  <2> QED BY <2>1, <2>2, <2>3 DEF WindowInit, WindowTypeOK
<1>3. Doors BY DEF WindowInit, Doors, Gone
<1>4. Waits BY DEF WindowInit, Waits, Gone
<1> QED BY <1>2, <1>3, <1>4 DEF Shape

LEMMA BootShape == ASSUME NEW b \in BOOLEAN, Shape, BoardBoot(b) PROVE Shape'
<1> USE Budgets DEF PAST
<1>1. Gone \in TaskState BY DEF Gone, TaskState
<1>2. WindowTypeOK'
  <2>1. task' \in [Task -> TaskState] BY <1>1 DEF BoardBoot
  <2>2. left' \in PAST..WINDOW /\ age' \in 0..WINDOW + 2 BY DEF BoardBoot
  <2>3. trial' \in [pending : BOOLEAN, on : BOOLEAN, up : 0..DEADLINE] BY DEF BoardBoot
  <2> QED BY <2>1, <2>2, <2>3 DEF BoardBoot, Shape, WindowTypeOK
<1>3. Doors' BY DEF BoardBoot, Doors, Gone
<1>4. Waits' BY DEF BoardBoot, Waits, Gone
<1> QED BY <1>2, <1>3, <1>4 DEF Shape

LEMMA TaskShape ==
  ASSUME Shape, NEW t \in Task, GivesUp(t) \/ GoesOn(t) \/ Ends(t) \/ Waiting(t)
  PROVE  Shape'
<1> USE Budgets DEF PAST
<1>0. ASSUME NEW r \in TaskState, task' = [task EXCEPT ![t] = r]
      PROVE  task' \in [Task -> TaskState]
  BY <1>0 DEF Shape, WindowTypeOK
<1>1. CASE GivesUp(t)
  <2>1. [pc |-> "showing", wait |-> SHOW, turned |-> TRUE] \in TaskState BY DEF TaskState
  <2>2. WindowTypeOK' BY <1>0, <1>1, <2>1 DEF GivesUp, Shape, WindowTypeOK
  <2>3. Doors' BY <1>1 DEF GivesUp, Shape, WindowTypeOK, Doors
  <2>4. Waits' BY <1>1 DEF GivesUp, Shape, WindowTypeOK, Waits
  <2> QED BY <2>2, <2>3, <2>4 DEF Shape
<1>2. CASE GoesOn(t)
  <2>1. task' \in [Task -> TaskState] BY <1>2 DEF GoesOn, Shape, WindowTypeOK, TaskState
  <2>2. WindowTypeOK' BY <1>2, <2>1 DEF GoesOn, Shape, WindowTypeOK
  <2>3. \A u \in Task : task'[u].pc = task[u].pc BY <1>2 DEF GoesOn, Shape, WindowTypeOK, TaskState
  <2>4. Doors' BY <1>2, <2>3 DEF GoesOn, Shape, Doors
  <2>5. Waits' BY <1>2 DEF GoesOn, Shape, WindowTypeOK, TaskState, Waits
  <2> QED BY <2>2, <2>4, <2>5 DEF Shape
<1>3. CASE Ends(t)
  <2>1. Gone \in TaskState BY DEF Gone, TaskState
  <2>2. WindowTypeOK' BY <1>0, <1>3, <2>1 DEF Ends, Finish, Shape, WindowTypeOK
  <2>3. Doors' BY <1>3 DEF Ends, Finish, Gone, Shape, WindowTypeOK, Doors
  <2>4. Waits' BY <1>3 DEF Ends, Finish, Gone, Shape, WindowTypeOK, Waits
  <2> QED BY <2>2, <2>3, <2>4 DEF Shape
<1>4. CASE Waiting(t)
  <2>1. [pc |-> "stopping", wait |-> 0, turned |-> TRUE] \in TaskState BY DEF TaskState
  <2>2. WindowTypeOK' BY <1>0, <1>4, <2>1 DEF Waiting, Shape, WindowTypeOK
  <2>3. Doors' BY <1>4 DEF Waiting, Shape, WindowTypeOK, Doors
  <2>4. Waits' BY <1>4 DEF Waiting, Shape, WindowTypeOK, Waits
  <2> QED BY <2>2, <2>3, <2>4 DEF Shape
<1> QED BY <1>1, <1>2, <1>3, <1>4

LEMMA OpenShape == ASSUME Shape, NEW t \in Task, Open(t) PROVE Shape'
<1> USE Budgets DEF PAST
<1>0. [pc |-> "loop", wait |-> JOIN, turned |-> TRUE] \in TaskState BY DEF TaskState
<1>1. WindowTypeOK'
  <2>1. task' \in [Task -> TaskState] BY <1>0 DEF Open, Shape, WindowTypeOK
  <2>2. left' \in PAST..WINDOW /\ age' \in 0..WINDOW + 2 BY DEF Open
  <2> QED BY <2>1, <2>2 DEF Open, Shape, WindowTypeOK
<1>2. Doors' BY DEF Open, Shape, WindowTypeOK, Doors, Gone
<1>3. Waits' BY DEF Open, Shape, WindowTypeOK, Waits
<1> QED BY <1>1, <1>2, <1>3 DEF Shape

LEMMA TickTasks ==
  ASSUME Shape, Tick, NEW t \in Task
  PROVE  /\ task'[t].pc = task[t].pc
         /\ task'[t].turned = (task[t].pc # "loop")
         /\ task[t].pc = "loop" =>
              /\ task[t].turned
              /\ task'[t].wait = IF task[t].wait = PAST THEN PAST ELSE task[t].wait - 1
         /\ task[t].pc = "showing" =>
              task[t].wait # 0 /\ task'[t].wait = task[t].wait - 1
         /\ task[t].pc = "stopping" => upload # "none"
         /\ task'[t] \in TaskState
<1> DEFINE r == task[t]
<1>1. r \in TaskState BY DEF Shape, WindowTypeOK
<1>2. ~Due(t) /\ task'[t] = OlderTask(r) BY DEF Tick
<1>3. /\ r.pc = "loop" => r.turned
      /\ r.pc = "showing" => r.wait # 0
      /\ r.pc = "stopping" => upload # "none"
  BY <1>1, <1>2 DEF Due, TaskState
<1>4. /\ task'[t].pc = r.pc
      /\ task'[t].turned = (r.pc # "loop")
      /\ task'[t].wait = IF r.pc = "loop" THEN (IF r.wait = PAST THEN PAST ELSE r.wait - 1)
                         ELSE IF r.pc = "showing" THEN r.wait - 1 ELSE r.wait
  BY <1>1, <1>2 DEF OlderTask, TaskState
<1>5. task'[t] = [pc |-> task'[t].pc, wait |-> task'[t].wait, turned |-> task'[t].turned]
  BY <1>1, <1>2 DEF OlderTask, TaskState
<1>6. task'[t].wait \in PAST..JOIN + SHOW
  BY <1>1, <1>3, <1>4, Budgets DEF TaskState, Shape, Waits, PAST
<1>7. task'[t] \in TaskState
  BY <1>1, <1>4, <1>5, <1>6 DEF TaskState
<1> QED BY <1>3, <1>4, <1>7

LEMMA TickShape == ASSUME Shape, Tick PROVE Shape'
<1> USE Budgets DEF PAST
<1>1. task' \in [Task -> TaskState]
  <2>1. task' = [t \in Task |-> task'[t]] BY DEF Tick
  <2> QED BY <2>1, TickTasks
<1>2. WindowTypeOK'
  <2>1. trial' \in [pending : BOOLEAN, on : BOOLEAN, up : 0..DEADLINE]
    BY DEF Tick, OlderTrial, Shape, WindowTypeOK
  <2> QED BY <1>1, <2>1 DEF Tick, Shape, WindowTypeOK
<1>3. \A t \in Task : task'[t].pc = task[t].pc
  BY TickTasks
<1>4. Doors'
  BY <1>3 DEF Tick, Shape, Doors
<1>5. Waits'
  <2> SUFFICES ASSUME NEW t \in Task
               PROVE  /\ task'[t].pc = "showing" => task'[t].wait \in 0..SHOW
                      /\ task'[t].pc = "loop" => task'[t].wait \in PAST..JOIN
    BY DEF Waits
  <2> QED BY TickTasks DEF Shape, Waits
<1> QED BY <1>2, <1>4, <1>5 DEF Shape

LEMMA ShapeStep == Shape /\ [WindowNext]_windowVars => Shape'
<1> SUFFICES ASSUME Shape, [WindowNext]_windowVars PROVE Shape'
  OBVIOUS
<1>1. ASSUME NEW t \in Task, WindowTask(t) PROVE Shape'
  <2>1. CASE Open(t) BY <2>1, OpenShape
  <2>2. CASE Turn(t) BY <2>2, TurnEnds, TaskShape, BootShape DEF BoardCrash
  <2>3. CASE Shown(t) BY <2>3, ShownEnds, TaskShape, BootShape DEF BoardCrash
  <2>4. CASE Stopped(t) BY <2>4, StoppedEnds, TaskShape
  <2> QED BY <1>1, <2>1, <2>2, <2>3, <2>4 DEF WindowTask
<1>2. CASE OpenNoCreds
  BY <1>2 DEF OpenNoCreds, Shape, WindowTypeOK, Doors, Waits
<1>3. CASE Close
  BY <1>3, Budgets DEF Close, Shape, WindowTypeOK, Doors, Waits, PAST
<1>4. CASE Associate \/ GotIp \/ Dropped
  <2>1. radio \in {"joining", "ap"} /\ radio' # "swarm" /\ UNCHANGED <<state, srv, task, upload>>
        /\ (ip' = ip \/ ip' = TRUE)
    BY <1>4 DEF Associate, GotIp, Dropped
  <2>2. WindowTypeOK' BY <1>4 DEF Associate, GotIp, Dropped, Shape, WindowTypeOK
  <2>3. Doors' BY <2>1 DEF Shape, Doors
  <2>4. Waits' BY <2>1 DEF Shape, Waits
  <2> QED BY <2>2, <2>3, <2>4 DEF Shape
<1>5. CASE Upload("ota") \/ Upload("page")
  BY <1>5 DEF Upload, Shape, WindowTypeOK, Doors, Waits
<1>6. CASE Answered
  BY <1>6, Budgets DEF Answered, Shape, WindowTypeOK, Doors, Waits
<1>7. CASE Updated \/ TrialLost \/ BoardCrash
  BY <1>7, BootShape DEF Updated, TrialLost, BoardCrash
<1>8. CASE TrialWon
  BY <1>8 DEF TrialWon, Shape, WindowTypeOK, Doors, Waits
<1>9. CASE Tick BY <1>9, TickShape
<1>10. CASE UNCHANGED windowVars
  BY <1>10 DEF windowVars, Shape, WindowTypeOK, Doors, Waits
<1> QED BY <1>1, <1>2, <1>3, <1>4, <1>5, <1>6, <1>7, <1>8, <1>9, <1>10 DEF WindowNext

----------------------------------------------------------------------------
(* Clocks is inductive, given Shape *)

Timely(t) == Joins(t) /\ Loops(t) /\ Shows(t) /\ Stops(t)

LEMMA ClocksInit == WindowInit => Clocks
BY DEF WindowInit, Gone, Clocks, Joins, Loops, Shows, Stops

\* With no age every phase is in time.
LEMMA FreshClocks ==
  ASSUME Shape', age' = 0 PROVE Clocks'
<1> USE Budgets DEF PAST
<1>1. left' + age' <= WINDOW
  <2>1. left' \in PAST..WINDOW /\ age' = 0 BY DEF Shape, WindowTypeOK
  <2>2. \A l \in PAST..WINDOW : l + 0 <= WINDOW OBVIOUS
  <2> QED BY <2>1, <2>2
<1>2. ASSUME NEW t \in Task PROVE Timely(t)'
  <2>1. task'[t].wait \in PAST..JOIN + SHOW BY DEF Shape, WindowTypeOK, TaskState
  <2> QED BY <2>1 DEF Shape, Waits, Timely, Joins, Loops, Shows, Stops
<1> QED BY <1>1, <1>2 DEF Clocks, Timely

\* The tasks a step does not touch stay in time while nothing gets older.
LEMMA StillTimely ==
  ASSUME NEW t \in Task, Timely(t), task'[t] = task[t], age' = age,
         state' = "joining" => state = "joining"
  PROVE  Timely(t)'
BY DEF Timely, Joins, Loops, Shows, Stops

LEMMA TaskClocks ==
  ASSUME Shape, Clocks, NEW t \in Task, GivesUp(t) \/ GoesOn(t) \/ Ends(t) \/ Waiting(t)
  PROVE  Clocks'
<1> SUFFICES ASSUME upload' = "none"
             PROVE  /\ left' # PAST => left' + age' <= WINDOW
                    /\ \A u \in Task : Timely(u)'
  BY DEF Clocks, Timely
<1> USE Budgets DEF PAST
<1>1. /\ upload = "none" /\ age' = age /\ left' = left
      /\ state' = "joining" => state = "joining"
      /\ \A u \in Task : u # t => task'[u] = task[u]
  BY DEF GivesUp, GoesOn, Ends, Finish, Waiting, Shape, WindowTypeOK
<1>2. (left # PAST => left + age <= WINDOW) /\ \A u \in Task : Timely(u)
  BY <1>1 DEF Clocks, Timely
<1>3. ASSUME NEW u \in Task, u # t PROVE Timely(u)'
  BY <1>1, <1>2, <1>3, StillTimely
<1>4. age \in Nat /\ task[t] \in TaskState /\ left \in PAST..WINDOW
  BY DEF Shape, WindowTypeOK
<1>5. Timely(t)'
  <2>1. CASE GivesUp(t)
    <3>1. task'[t] = [pc |-> "showing", wait |-> SHOW, turned |-> TRUE]
      BY <2>1 DEF GivesUp, Shape, WindowTypeOK
    <3>2. age <= JOIN + 1
      BY <1>2, <2>1 DEF GivesUp, Timely, Joins
    <3> QED BY <1>1, <1>4, <3>1, <3>2 DEF Timely, Joins, Loops, Shows, Stops
  <2>2. CASE GoesOn(t)
    <3>1. task'[t].pc = "loop" /\ task'[t].wait = task[t].wait /\ task'[t].turned
      BY <1>4, <2>2 DEF GoesOn, Shape, WindowTypeOK, TaskState
    <3>2. age <= WINDOW
      BY <1>2, <1>4, <2>2 DEF GoesOn
    <3>3. state' = "joining" => age + task[t].wait <= JOIN /\ task[t].wait # PAST
      BY <1>2, <2>2 DEF GoesOn, Timely, Joins
    <3> QED BY <1>1, <3>1, <3>2, <3>3 DEF Timely, Joins, Loops, Shows, Stops
  <2>3. CASE Ends(t)
    <3>1. task'[t].pc = "gone"
      BY <2>3 DEF Ends, Finish, Gone, Shape, WindowTypeOK
    <3> QED BY <3>1 DEF Timely, Joins, Loops, Shows, Stops
  <2>4. CASE Waiting(t)
    <3>1. task'[t].pc = "stopping"
      BY <2>4 DEF Waiting, Shape, WindowTypeOK
    <3>2. CASE task[t].pc = "loop"
      <4>1. age <= WINDOW + 1 BY <1>2, <1>4, <3>2 DEF Timely, Loops
      <4> QED BY <1>1, <3>1, <4>1 DEF Timely, Joins, Loops, Shows, Stops
    <3>3. CASE task[t].pc = "showing" /\ task[t].wait = 0
      <4>1. age <= WINDOW + 1 BY <1>2, <1>4, <3>3 DEF Timely, Shows
      <4> QED BY <1>1, <3>1, <4>1 DEF Timely, Joins, Loops, Shows, Stops
    <3> QED BY <2>4, <3>2, <3>3 DEF Waiting
  <2> QED BY <2>1, <2>2, <2>3, <2>4
<1> QED BY <1>1, <1>2, <1>3, <1>5

LEMMA TickClocks == ASSUME Shape, Clocks, Tick PROVE Clocks'
<1> SUFFICES ASSUME upload' = "none"
             PROVE  /\ left' # PAST => left' + age' <= WINDOW
                    /\ \A t \in Task : Timely(t)'
  BY DEF Clocks, Timely
<1> USE Budgets DEF PAST
<1>1. upload = "none" /\ state' = state
  BY DEF Tick
<1>2. /\ age \in Nat /\ age' \in Nat /\ age' <= age + 1
      /\ left \in PAST..WINDOW /\ left' = IF left = PAST THEN PAST ELSE left - 1
  BY DEF Tick, Shape, WindowTypeOK
<1>3. (left # PAST => left + age <= WINDOW) /\ \A t \in Task : Timely(t)
  BY <1>1 DEF Clocks, Timely
<1>4. left' # PAST => left' + age' <= WINDOW
  <2> SUFFICES ASSUME left' # PAST PROVE left' + age' <= WINDOW
    OBVIOUS
  <2>1. left # PAST /\ left' = left - 1 BY <1>2
  <2>2. left + age <= WINDOW BY <1>3, <2>1
  <2>3. \A l, a, b \in Int : l + a <= WINDOW /\ b <= a + 1 => (l - 1) + b <= WINDOW
    OBVIOUS
  <2>4. left \in Int /\ age \in Int /\ age' \in Int /\ age' <= age + 1 BY <1>2
  <2> QED BY <2>1, <2>2, <2>3, <2>4
<1>5. ASSUME NEW t \in Task PROVE Timely(t)'
  <2>1. /\ task'[t].pc = task[t].pc
        /\ task'[t].turned = (task[t].pc # "loop")
        /\ task[t].pc = "loop" =>
             /\ task[t].turned
             /\ task'[t].wait = IF task[t].wait = PAST THEN PAST ELSE task[t].wait - 1
        /\ task[t].pc = "showing" =>
             task[t].wait # 0 /\ task'[t].wait = task[t].wait - 1
        /\ task[t].pc # "stopping"
    BY <1>1, TickTasks
  <2>2. task[t].wait \in PAST..JOIN + SHOW BY DEF Shape, WindowTypeOK, TaskState
  <2>3. Timely(t) BY <1>3
  <2>4. CASE task[t].pc = "loop"
    <3>1. ~task'[t].turned BY <2>1, <2>4
    <3>2. age <= WINDOW BY <2>1, <2>3, <2>4 DEF Timely, Loops
    <3>3. state = "joining" =>
            IF task[t].wait = PAST THEN age <= JOIN ELSE age + task[t].wait <= JOIN
      BY <2>1, <2>3, <2>4 DEF Timely, Joins
    <3> QED BY <1>1, <1>2, <2>1, <2>2, <2>4, <3>1, <3>2, <3>3 DEF Timely, Joins, Loops, Shows, Stops
  <2>5. CASE task[t].pc = "showing"
    <3>1. age + task[t].wait <= JOIN + 1 + SHOW BY <2>3, <2>5 DEF Timely, Shows
    <3> QED BY <1>2, <2>1, <2>2, <2>5, <3>1 DEF Timely, Joins, Loops, Shows, Stops
  <2>6. CASE task[t].pc = "gone"
    BY <2>1, <2>6 DEF Timely, Joins, Loops, Shows, Stops
  <2> QED BY <2>1, <2>4, <2>5, <2>6 DEF Shape, WindowTypeOK, TaskState
<1> QED BY <1>4, <1>5

LEMMA ClocksStep == Shape /\ Clocks /\ [WindowNext]_windowVars => Clocks'
<1> SUFFICES ASSUME Shape, Clocks, [WindowNext]_windowVars PROVE Clocks'
  OBVIOUS
<1>0. Shape' BY ShapeStep
<1>1. ASSUME NEW t \in Task, WindowTask(t) PROVE Clocks'
  <2>1. CASE Open(t)
    <3>1. age' = 0 BY <2>1 DEF Open
    <3> QED BY <1>0, <3>1, FreshClocks
  <2>2. CASE BoardCrash
    <3>1. age' = 0 BY <2>2 DEF BoardCrash, BoardBoot
    <3> QED BY <1>0, <3>1, FreshClocks
  <2>3. CASE Turn(t) BY <2>2, <2>3, TurnEnds, TaskClocks
  <2>4. CASE Shown(t) BY <2>2, <2>4, ShownEnds, TaskClocks
  <2>5. CASE Stopped(t) BY <2>5, StoppedEnds, TaskClocks
  <2> QED BY <1>1, <2>1, <2>3, <2>4, <2>5 DEF WindowTask
<1>2. CASE Answered \/ Updated \/ TrialLost \/ BoardCrash
  <2>1. age' = 0 BY <1>2 DEF Answered, Updated, TrialLost, BoardCrash, BoardBoot
  <2> QED BY <1>0, <2>1, FreshClocks
<1>3. CASE Close
  <2>1. /\ UNCHANGED <<task, upload, age>> /\ left' \in {left, PAST}
        /\ state' = "joining" => state = "joining"
    BY <1>3 DEF Close
  <2>2. \A t \in Task : Timely(t) => Timely(t)' BY <2>1, StillTimely
  <2> QED BY <2>1, <2>2 DEF Clocks, Timely
<1>4. CASE OpenNoCreds \/ Associate \/ GotIp \/ Dropped \/ TrialWon \/ UNCHANGED windowVars
  <2>1. /\ UNCHANGED <<task, upload, age, left>>
        /\ state' = "joining" => state = "joining"
    BY <1>4 DEF OpenNoCreds, Associate, GotIp, Dropped, TrialWon, windowVars
  <2>2. \A t \in Task : Timely(t) => Timely(t)' BY <2>1, StillTimely
  <2> QED BY <2>1, <2>2 DEF Clocks, Timely
<1>5. CASE Upload("ota") \/ Upload("page")
  <2>1. upload' # "none" BY <1>5 DEF Upload
  <2> QED BY <2>1 DEF Clocks
<1>6. CASE Tick BY <1>6, TickClocks
<1> QED BY <1>1, <1>2, <1>3, <1>4, <1>5, <1>6 DEF WindowNext

----------------------------------------------------------------------------
(* Theorems *)

LEMMA WindowInvariant == WindowSpec => []WindowInv
<1>1. WindowInit => WindowInv BY ShapeInit, ClocksInit DEF WindowInv
<1>2. WindowInv /\ [WindowNext]_windowVars => WindowInv' BY ShapeStep, ClocksStep DEF WindowInv
<1> QED BY <1>1, <1>2, PTL DEF WindowSpec

\* The statics of ota_window.c keep their types however tasks overlap, and the
\* time left never exceeds a window.
THEOREM WindowTyped == WindowSpec => []WindowTypeOK
<1>1. WindowInv => WindowTypeOK BY DEF WindowInv, Shape
<1> QED BY <1>1, WindowInvariant, PTL

\* However windows overlap, fail, are cancelled or crash, the end of the last
\* task leaves no server, no lease and the swarm's channel.
THEOREM Pure == WindowSpec => []RadioPure
<1>1. WindowInv => RadioPure
  <2> SUFFICES ASSUME WindowInv, Live = {}
               PROVE  ~srv /\ ~ip /\ radio = "swarm" /\ upload = "none" /\ state \in {"idle", "nocreds"}
    BY DEF RadioPure
  <2>1. \A t \in Task : task[t].pc = "gone" BY DEF Live
  <2>2. ~srv /\ ~ip /\ radio = "swarm" /\ state # "failed" /\ state # "joining"
    BY <2>1 DEF WindowInv, Shape, Doors
  <2>3. upload = "none" /\ state \in {"idle", "nocreds"}
    BY <2>2 DEF WindowInv, Shape, Doors, WindowTypeOK
  <2> QED BY <2>2, <2>3
<1> QED BY <1>1, WindowInvariant, PTL

\* The address on the glass is always that of a running server.
THEOREM NoFalseDoor == WindowSpec => []DoorIsThere
<1>1. WindowInv => DoorIsThere BY DEF WindowInv, Shape, Doors, DoorIsThere
<1> QED BY <1>1, WindowInvariant, PTL

\* For all budgets with JOIN + SHOW <= WINDOW and EXTEND <= WINDOW, no task
\* outlives the window by more than the turn that notices it.
THEOREM AlwaysCloses == WindowSpec => []WindowCloses
<1>1. WindowInv => WindowCloses
  <2> SUFFICES ASSUME WindowInv, Live # {}, upload = "none" PROVE age <= WINDOW + 1
    BY DEF WindowCloses
  <2>1. PICK t \in Task : task[t].pc # "gone" BY DEF Live
  <2>2. task[t] \in TaskState /\ age \in Nat BY DEF WindowInv, Shape, WindowTypeOK
  <2>3. Loops(t) /\ Shows(t) /\ Stops(t) BY DEF WindowInv, Clocks
  <2>4. task[t].pc = "showing" => task[t].wait \in 0..SHOW BY DEF WindowInv, Shape, Waits
  <2> QED BY <2>1, <2>2, <2>3, <2>4, Budgets DEF Loops, Shows, Stops, TaskState
<1> QED BY <1>1, WindowInvariant, PTL

----------------------------------------------------------------------------
(* The update window: its trial *)

\* The trial runs only beside an image that is not marked, and beside such an
\* image no other is received.
OneImage == (trial.on => trial.pending) /\ (upload = "ota" => ~trial.pending)

LEMMA OneImageKept == Shape /\ OneImage /\ [WindowNext]_windowVars => OneImage'
<1> SUFFICES ASSUME Shape, OneImage, [WindowNext]_windowVars PROVE OneImage'
  OBVIOUS
<1>1. ASSUME NEW b \in BOOLEAN, BoardBoot(b) PROVE OneImage'
  BY <1>1 DEF BoardBoot, OneImage
<1>2. ASSUME NEW t \in Task, WindowTask(t) PROVE OneImage'
  <2>1. ASSUME GivesUp(t) \/ GoesOn(t) \/ Ends(t) \/ Waiting(t) PROVE OneImage'
    BY <2>1 DEF GivesUp, GoesOn, Ends, Finish, Waiting, OneImage
  <2>2. CASE Open(t) BY <2>2 DEF Open, OneImage
  <2>3. CASE Turn(t) BY <2>3, <1>1, <2>1, TurnEnds DEF BoardCrash
  <2>4. CASE Shown(t) BY <2>4, <1>1, <2>1, ShownEnds DEF BoardCrash
  <2>5. CASE Stopped(t) BY <2>5, <2>1, StoppedEnds
  <2> QED BY <1>2, <2>2, <2>3, <2>4, <2>5 DEF WindowTask
<1>3. CASE OpenNoCreds \/ Close \/ Associate \/ GotIp \/ Dropped \/ Answered
  BY <1>3 DEF OpenNoCreds, Close, Associate, GotIp, Dropped, Answered, OneImage
<1>4. CASE Upload("ota") \/ Upload("page")
  BY <1>4 DEF Upload, OneImage
<1>5. CASE Updated \/ TrialLost \/ BoardCrash
  BY <1>1, <1>5 DEF Updated, TrialLost, BoardCrash
<1>6. CASE TrialWon
  <2>1. trial \in [pending : BOOLEAN, on : BOOLEAN, up : 0..DEADLINE] BY DEF Shape, WindowTypeOK
  <2> QED BY <1>6, <2>1 DEF TrialWon, OneImage
<1>7. CASE Tick
  <2>1. trial \in [pending : BOOLEAN, on : BOOLEAN, up : 0..DEADLINE] BY DEF Shape, WindowTypeOK
  <2>2. trial'.pending = trial.pending /\ trial'.on = trial.on /\ upload' = upload
    BY <1>7, <2>1 DEF Tick, OlderTrial
  <2> QED BY <2>2 DEF OneImage
<1>8. CASE UNCHANGED windowVars
  BY <1>8 DEF windowVars, OneImage
<1> QED BY <1>2, <1>3, <1>4, <1>5, <1>6, <1>7, <1>8 DEF WindowNext

\* However windows and trials overlap, the restart of a trial that nobody heard
\* (trial_task) meets no image under way: the trial is over, or its image is not
\* marked and the server takes no other.
THEOREM NeverCut == WindowSpec => ImageNeverCut
<1> DEFINE Spared == TrialLost => upload # "ota"
<1>1. WindowInit => OneImage
  BY DEF WindowInit, OneImage
<1>2. OneImage => [Spared]_windowVars
  BY DEF OneImage, TrialLost
<1> HIDE DEF Spared
<1>3. WindowSpec => [][Spared]_windowVars
  BY <1>1, <1>2, OneImageKept, ShapeInit, ShapeStep, PTL DEF WindowSpec
<1> QED BY <1>3 DEF ImageNeverCut, Spared

----------------------------------------------------------------------------
(* The rail: blackout *)

LEMMA Pixels == HOST \in Pixel /\ Member \subseteq Pixel /\ HOST \notin Member
BY PixelAssumption DEF Pixel

\* A rail held dark is not being woken; between its clear and its refresh the
\* buffer is dark, and afterwards the strip.
DarkInv ==
  /\ touch \in {"amber", "flag", "open"} => ~blackout
  /\ blackout /\ ~smudged =>
       /\ touch = "rest" => strip = AllDark
       /\ touch = "again" => buf = AllDark

\* A pixel painted dark leaves a dark buffer dark.
LEMMA DarkPixel == ASSUME NEW p PROVE [AllDark EXCEPT ![p] = "dark"] = AllDark
BY DEF AllDark

LEMMA PainterKeeps ==
  ASSUME DarkInv, NEW p, NEW c, Px(p, c), UNCHANGED <<touch, blackout, strip>>
  PROVE  DarkInv'
<1>1. CASE smudged'
  BY <1>1 DEF DarkInv
<1>2. CASE ~smudged'
  <2>1. ~smudged /\ (touch = "again" => c = "dark")
    BY <1>2 DEF Px
  <2>2. touch = "again" /\ blackout => buf' = AllDark
    BY <2>1, DarkPixel DEF Px, DarkInv
  <2> QED BY <2>1, <2>2 DEF DarkInv, Px, AllDark, Pixel
<1> QED BY <1>1, <1>2

LEMMA DarkKept == DarkInv /\ [RailNext]_railVars => DarkInv'
<1> SUFFICES ASSUME DarkInv, [RailNext]_railVars PROVE DarkInv'
  OBVIOUS
<1>1. CASE RenderStart
  BY <1>1 DEF RenderStart, DarkInv, AllDark, Pixel
<1>2. ASSUME NEW p \in Member, RenderDraw(p) PROVE DarkInv'
  BY <1>2, PainterKeeps DEF RenderDraw
<1>3. CASE RenderSelf \/ RenderHost
  BY <1>3, PainterKeeps DEF RenderSelf, RenderHost
<1>4. CASE RenderShow
  BY <1>4 DEF RenderShow, Pushed, ghosts, DarkInv, AllDark, Pixel
<1>5. CASE AnimPx
  BY <1>5, PainterKeeps DEF AnimPx
<1>6. CASE AnimShow
  BY <1>6 DEF AnimShow, Pushed, ghosts, DarkInv, AllDark, Pixel
<1>7. CASE HoldDark
  BY <1>7 DEF HoldDark, DarkInv
<1>8. CASE DarkUnwink \/ DarkLock
  BY <1>8 DEF DarkUnwink, DarkLock, DarkInv, ghosts
<1>9. CASE DarkClear
  BY <1>9 DEF DarkClear, DarkInv, AllDark, Pixel
<1>10. CASE DarkAgain
  BY <1>10 DEF DarkAgain, Pushed, DarkInv, AllDark, Pixel, ghosts
<1>11. CASE HoldOta
  BY <1>11 DEF HoldOta, DarkInv, ghosts
<1>14. CASE TouchAmber \/ TouchFlag
  <2>1. touch \in {"amber", "flag"} /\ touch' \in {"flag", "open"} /\ blackout' = blackout
    BY <1>14 DEF TouchAmber, TouchFlag
  <2> QED BY <2>1 DEF DarkInv
<1>15. CASE TouchOpen
  BY <1>15 DEF TouchOpen, DarkInv, ghosts
<1>12. CASE Tap
  <2>1. touch = "rest" /\ UNCHANGED <<buf, strip, touch, smudged>> /\ (blackout' => blackout)
    BY <1>12 DEF Tap, ghosts, taskVars
  <2> QED BY <2>1 DEF DarkInv, AllDark, Pixel
<1>13. CASE UNCHANGED <<buf, strip, blackout, touch, smudged>>
  BY <1>13 DEF DarkInv, AllDark, Pixel
<1> QED
  BY <1>1, <1>2, <1>3, <1>4, <1>5, <1>6, <1>7, <1>8, <1>9, <1>10, <1>11, <1>12, <1>13, <1>14, <1>15
  DEF RailNext, RenderTask, AnimTask, TouchTask, WindowEnds, railVars, taskVars, ghosts,
      RenderSkips, RenderLock, RenderGlass, RenderAmber, RenderFlag,
      AnimWake, AnimRead, AnimDone, AnimLock

----------------------------------------------------------------------------
(* The rail: types, one part after the other *)

Lamps == Wink \cup {Absent}

Renders ==
  [at : {"rest", "self", "draw", "lock", "show", "glass", "amber", "flag"},
   frame : [Member -> Lamps], todo : SUBSET Member, heard : BOOLEAN, ow : BOOLEAN]

\* What is still to be drawn has a colour of its own.
RenderPart == render \in Renders /\ \A p \in render.todo : render.frame[p] \in Wink

Anims ==
  [at : {"rest", "read", "px", "lock", "show"}, i : 0..LED_N, colour : Colour, touched : BOOLEAN]

AnimPart == animator \in Anims /\ (animator.at = "px" => animator.i < LED_N)

WinkPart == wink \in [Pixel -> Wink]
LatchPart == latch \in [Member -> 0..LATCH]

LEMMA LampIsWink == ASSUME NEW v, NEW n PROVE Lamp(v, n) \in Wink
BY DEF Lamp, Steady, SlowAmber, Wink, Pace, Colour

\* Of our own entry, too.
LEMMA OwnLamps ==
  \A w \in {Steady("blue"), SlowAmber} : w \in Wink /\ w.colour \in Colour
BY DEF Steady, SlowAmber, Wink, Pace, Colour

LEMMA RenderKept == RenderPart /\ [RailNext]_railVars => RenderPart'
<1> SUFFICES ASSUME RenderPart, [RailNext]_railVars PROVE RenderPart'
  OBVIOUS
<1>a. Resting \in Renders /\ Resting.todo = {}
  BY DEF Resting, NoFrame, Lamps, Renders
<1> USE <1>a DEF RenderPart, Renders
<1>1. CASE RenderSkips
  BY <1>1 DEF RenderSkips, RenderDone, Resting
<1>2. CASE RenderStart
  <2>1. PICK here \in SUBSET Member : \E v \in [here -> View] :
       /\ latch' = [p \in Member |-> IF p \in here THEN Latched(v[p], latch[p])
                                      ELSE Spent(latch[p])]
       /\ render' = [render EXCEPT
            !.at = "self", !.todo = here,
            !.heard = \E p \in here : v[p].alive,
            !.frame = [p \in Member |-> IF p \in here THEN Lamp(v[p], latch'[p]) ELSE Absent]]
    BY <1>2 DEF RenderStart
  <2>2. PICK v \in [here -> View] :
        render' = [render EXCEPT
            !.at = "self", !.todo = here,
            !.heard = \E p \in here : v[p].alive,
            !.frame = [p \in Member |-> IF p \in here THEN Lamp(v[p], latch'[p]) ELSE Absent]]
    BY <2>1
  <2> DEFINE frame == [p \in Member |-> IF p \in here THEN Lamp(v[p], latch'[p]) ELSE Absent]
             heard == \E p \in here : v[p].alive
  <2>3. frame \in [Member -> Lamps]
    BY LampIsWink DEF Lamps
  <2>4. heard \in BOOLEAN
    BY Zenon
  <2>5. render' = [render EXCEPT !.at = "self", !.todo = here, !.heard = heard, !.frame = frame]
    BY <2>2
  <2>6. \A p \in here : frame[p] \in Wink
    BY LampIsWink
  <2> HIDE DEF frame, heard
  <2>7. render' \in Renders /\ render'.todo = here /\ render'.frame = frame
    BY <2>3, <2>4, <2>5
  <2> QED BY <2>6, <2>7
<1>3. ASSUME NEW p \in Member, RenderDraw(p) PROVE RenderPart'
  BY <1>3 DEF RenderDraw
<1>4. CASE RenderSelf \/ RenderHost \/ RenderLock \/ RenderAmber
  BY <1>4 DEF RenderSelf, RenderHost, RenderLock, RenderAmber
<1>5. CASE RenderShow
  BY <1>5 DEF RenderShow, RenderDone, Resting
<1>6. CASE RenderGlass
  <2>1. render' = [render EXCEPT !.at = "amber", !.ow = (otaw = "open")]
    BY <1>6 DEF RenderGlass
  <2>2. (otaw = "open") \in BOOLEAN
    BY Zenon
  <2> QED BY <2>1, <2>2
<1>7. CASE RenderFlag
  BY <1>7 DEF RenderFlag
<1>8. CASE render' = render
  BY <1>8
<1> QED
  BY <1>1, <1>2, <1>3, <1>4, <1>5, <1>6, <1>7, <1>8
  DEF RailNext, RenderTask, AnimTask, TouchTask, WindowEnds, railVars, taskVars,
      AnimWake, AnimRead, AnimPx, AnimDone, AnimLock, AnimShow,
      HoldDark, DarkUnwink, DarkLock, DarkClear, DarkAgain, HoldOta, TouchAmber, TouchFlag, TouchOpen, Tap

LEMMA WinkKept == WinkPart /\ RenderPart /\ [RailNext]_railVars => WinkPart'
<1> SUFFICES ASSUME WinkPart, RenderPart, [RailNext]_railVars PROVE WinkPart'
  OBVIOUS
<1>a. SlowAmber \in Wink
  BY DEF SlowAmber, Wink, Pace, Colour
<1>b. \A w \in Wink : [w EXCEPT !.pace = "solid"] \in Wink
  BY DEF Wink, Pace
<1> USE <1>a, <1>b DEF WinkPart
<1>1. ASSUME NEW p \in Member, RenderDraw(p) PROVE WinkPart'
  BY <1>1 DEF RenderDraw, RenderPart
<1>2. CASE RenderHost
  <2>1. wink' = [wink EXCEPT ![HOST] = [wink[HOST] EXCEPT !.pace = "solid"]]
    BY <1>2 DEF RenderHost
  <2> QED BY <2>1, Pixels
<1>6. CASE RenderSelf
  <2>1. PICK w \in {Steady("blue"), SlowAmber} : wink' = [wink EXCEPT ![HOST] = w]
    BY <1>6 DEF RenderSelf
  <2> QED BY <2>1, OwnLamps
<1>3. CASE RenderAmber \/ TouchAmber
  BY <1>3 DEF RenderAmber, TouchAmber, OtaAmber
<1>4. CASE DarkUnwink
  BY <1>4 DEF DarkUnwink
<1>5. CASE wink' = wink
  BY <1>5
<1> QED
  BY <1>1, <1>2, <1>3, <1>4, <1>5, <1>6
  DEF RailNext, RenderTask, AnimTask, TouchTask, WindowEnds, railVars,
      RenderSkips, RenderStart, RenderLock, RenderShow, RenderGlass, RenderFlag,
      AnimWake, AnimRead, AnimPx, AnimDone, AnimLock, AnimShow,
      HoldDark, DarkLock, DarkClear, DarkAgain, HoldOta, TouchFlag, TouchOpen, Tap

LEMMA AnimKept == AnimPart /\ WinkPart /\ [RailNext]_railVars => AnimPart'
<1> SUFFICES ASSUME AnimPart, WinkPart, [RailNext]_railVars PROVE AnimPart'
  OBVIOUS
<1>a. /\ LED_N \in Nat \ {0} /\ "dark" \in Colour
  BY PixelAssumption DEF Colour
<1>b. Asleep \in Anims /\ Asleep.at = "rest"
  BY <1>a DEF Asleep, Anims
<1> USE <1>a, <1>b DEF AnimPart, Anims
<1>1. CASE AnimWake
  BY <1>1 DEF AnimWake
<1>2. CASE AnimRead
  <2> DEFINE w == wink[animator.i]
  <2>1. animator.i < LED_N /\ animator.i \in Pixel /\ animator.i + 1 \in 0..LED_N
    BY <1>2 DEF AnimRead, Pixel
  <2>2. w.colour \in Colour
    BY <2>1 DEF WinkPart, Wink
  <2>3. \/ animator' = [animator EXCEPT !.i = @ + 1]
        \/ \E c \in {w.colour, "dark"} : animator' = [animator EXCEPT !.at = "px", !.colour = c]
    BY <1>2 DEF AnimRead
  <2> HIDE DEF w
  <2>4. CASE animator' = [animator EXCEPT !.i = @ + 1]
    <3>1. animator.at = "read"
      BY <1>2 DEF AnimRead
    <3> QED BY <2>1, <2>4, <3>1
  <2>5. CASE \E c \in {w.colour, "dark"} : animator' = [animator EXCEPT !.at = "px", !.colour = c]
    BY <2>1, <2>2, <2>5
  <2> QED BY <2>3, <2>4, <2>5
<1>3. CASE AnimPx
  <2>1. animator.i + 1 \in 0..LED_N
    BY <1>3 DEF AnimPx
  <2> QED BY <1>3, <2>1 DEF AnimPx
<1>4. CASE AnimDone
  BY <1>4 DEF AnimDone
<1>5. CASE AnimLock \/ AnimShow
  BY <1>5 DEF AnimLock, AnimShow
<1>6. CASE animator' = animator
  BY <1>6
<1> QED
  BY <1>1, <1>2, <1>3, <1>4, <1>5, <1>6
  DEF RailNext, RenderTask, AnimTask, TouchTask, WindowEnds, railVars, taskVars,
      RenderSkips, RenderStart, RenderSelf, RenderDraw, RenderHost, RenderLock, RenderShow, RenderGlass,
      RenderAmber, RenderFlag,
      HoldDark, DarkUnwink, DarkLock, DarkClear, DarkAgain, HoldOta, TouchAmber, TouchFlag, TouchOpen, Tap

LEMMA LatchKept == LatchPart /\ [RailNext]_railVars => LatchPart'
<1> SUFFICES ASSUME LatchPart, [RailNext]_railVars PROVE LatchPart'
  OBVIOUS
<1> USE LatchAssumption DEF LatchPart
<1>a. \A n \in 0..LATCH : Spent(n) \in 0..LATCH
  BY DEF Spent
<1>b. ASSUME NEW v, NEW n \in 0..LATCH PROVE Latched(v, n) \in 0..LATCH
  BY <1>a DEF Latched
<1>1. CASE RenderSkips
  BY <1>1, <1>a DEF RenderSkips
<1>2. CASE RenderStart
  <2>1. PICK here \in SUBSET Member : \E v \in [here -> View] :
          latch' = [p \in Member |-> IF p \in here THEN Latched(v[p], latch[p]) ELSE Spent(latch[p])]
    BY <1>2 DEF RenderStart
  <2>2. PICK v \in [here -> View] :
          latch' = [p \in Member |-> IF p \in here THEN Latched(v[p], latch[p]) ELSE Spent(latch[p])]
    BY <2>1
  <2>3. \A p \in Member : (IF p \in here THEN Latched(v[p], latch[p]) ELSE Spent(latch[p])) \in 0..LATCH
    BY <1>a, <1>b
  <2> QED BY <2>2, <2>3
<1>3. CASE latch' = latch
  BY <1>3
<1> QED
  BY <1>1, <1>2, <1>3
  DEF RailNext, RenderTask, AnimTask, TouchTask, WindowEnds, railVars,
      RenderSelf, RenderDraw, RenderHost, RenderLock, RenderShow, RenderGlass, RenderAmber, RenderFlag,
      AnimWake, AnimRead, AnimPx, AnimDone, AnimLock, AnimShow,
      HoldDark, DarkUnwink, DarkLock, DarkClear, DarkAgain, HoldOta, TouchAmber, TouchFlag, TouchOpen, Tap

FlagPart ==
  /\ blackout \in BOOLEAN /\ otaRail \in BOOLEAN /\ blanked \in BOOLEAN
  /\ clean \in BOOLEAN /\ smudged \in BOOLEAN
  /\ otaw \in {"idle", "nocreds", "open"} /\ paint \in {FREE, "render", "animator", "touch"}
  /\ touch \in {"rest", "unwink", "lock", "clear", "again", "amber", "flag", "open"}

LEMMA FlagKept == FlagPart /\ RenderPart /\ [RailNext]_railVars => FlagPart'
<1> SUFFICES ASSUME FlagPart, RenderPart, [RailNext]_railVars PROVE FlagPart'
  OBVIOUS
<1>a. render.ow \in BOOLEAN
  BY DEF RenderPart, Renders
<1> USE <1>a DEF FlagPart, ghosts, taskVars, Pushed, Take, OtaFlag
<1>1. CASE RenderSkips \/ RenderGlass \/ RenderAmber
  BY <1>1 DEF RenderSkips, RenderGlass, RenderAmber
<1>2. CASE RenderStart
  <2>1. UNCHANGED <<blackout, otaRail, blanked, otaw, paint, touch, smudged>> /\ clean' = (animator.at = "rest")
    BY <1>2 DEF RenderStart
  <2> QED BY <2>1, Zenon
<1>3. ASSUME NEW p, NEW c, Px(p, c), UNCHANGED <<blackout, otaRail, blanked, otaw, paint, touch, clean>>
      PROVE  FlagPart'
  <2>1. smudged' = (smudged \/ (touch = "again" /\ c # "dark"))
    BY <1>3 DEF Px
  <2> QED BY <1>3, <2>1, Zenon
<1>4. ASSUME NEW p \in Member, RenderDraw(p) PROVE FlagPart'
  BY <1>4, <1>3 DEF RenderDraw
<1>5. CASE RenderSelf \/ RenderHost
  BY <1>5, <1>3 DEF RenderSelf, RenderHost
<1>6. CASE AnimPx
  BY <1>6, <1>3 DEF AnimPx
<1>7. CASE RenderLock \/ AnimLock \/ DarkLock
  BY <1>7 DEF RenderLock, AnimLock, DarkLock
<1>8. CASE RenderShow \/ AnimShow \/ DarkAgain
  BY <1>8 DEF RenderShow, AnimShow, DarkAgain
<1>9. CASE RenderFlag
  BY <1>9 DEF RenderFlag
<1>10. CASE AnimWake \/ AnimRead \/ AnimDone
  BY <1>10 DEF AnimWake, AnimRead, AnimDone
<1>11. CASE HoldDark \/ HoldOta
  BY <1>11 DEF HoldDark, HoldOta
<1>12. CASE DarkUnwink \/ DarkClear
  BY <1>12 DEF DarkUnwink, DarkClear
<1>13. CASE TouchAmber \/ TouchFlag
  BY <1>13 DEF TouchAmber, TouchFlag
<1>14. CASE TouchOpen \/ WindowEnds
  BY <1>14 DEF TouchOpen, WindowEnds
<1>15. CASE Tap
  <2>1. /\ UNCHANGED <<otaRail, paint, touch, clean, smudged>> /\ otaw' \in {otaw, "idle"}
        /\ \/ UNCHANGED <<blanked, blackout>>
           \/ blanked' = ~blanked /\ blackout' = (blackout /\ ~blanked)
    BY <1>15, Zenon DEF Tap
  <2>2. blanked' \in BOOLEAN /\ blackout' \in BOOLEAN
    BY <2>1, Zenon
  <2> QED BY <2>1, <2>2
<1>16. CASE UNCHANGED railVars
  BY <1>16 DEF railVars
<1> QED
  BY <1>1, <1>2, <1>4, <1>5, <1>6, <1>7, <1>8, <1>9, <1>10, <1>11, <1>12, <1>13, <1>14, <1>15, <1>16
  DEF RailNext, RenderTask, AnimTask, TouchTask

\* Buffer and strip.
StripPart == buf \in [Pixel -> Colour] /\ strip \in [Pixel -> Colour]

LEMMA StripKept == StripPart /\ RenderPart /\ AnimPart /\ [RailNext]_railVars => StripPart'
<1> SUFFICES ASSUME StripPart, RenderPart, AnimPart, [RailNext]_railVars PROVE StripPart'
  OBVIOUS
<1>a. AllDark \in [Pixel -> Colour]
  BY DEF AllDark, Colour
<1> USE <1>a DEF StripPart
<1>b. ASSUME NEW p, NEW c \in Colour, Px(p, c), UNCHANGED strip PROVE StripPart'
  BY <1>b DEF Px
<1>c. ASSUME NEW who, NEW blind, Pushed(who, blind), UNCHANGED buf PROVE StripPart'
  BY <1>c DEF Pushed
<1>1. CASE RenderStart
  BY <1>1 DEF RenderStart
<1>2. ASSUME NEW p \in Member, RenderDraw(p) PROVE StripPart'
  <2>1. render.frame[p].colour \in Colour
    BY <1>2 DEF RenderDraw, RenderPart, Wink
  <2> QED BY <1>2, <2>1, <1>b DEF RenderDraw
<1>3. CASE RenderHost
  <2>1. (IF render.heard THEN "blue" ELSE "red") \in Colour
    BY DEF Colour
  <2> QED BY <1>3, <2>1, <1>b DEF RenderHost
<1>10. CASE RenderSelf
  <2>1. PICK w \in {Steady("blue"), SlowAmber} : Px(HOST, w.colour) /\ UNCHANGED strip
    BY <1>10 DEF RenderSelf
  <2> QED BY <2>1, <1>b, OwnLamps
<1>4. CASE RenderShow
  BY <1>4, <1>c DEF RenderShow
<1>5. CASE AnimPx
  <2>1. animator.colour \in Colour
    BY DEF AnimPart, Anims
  <2> QED BY <1>5, <2>1, <1>b DEF AnimPx
<1>6. CASE AnimShow
  BY <1>6, <1>c DEF AnimShow
<1>7. CASE DarkClear
  BY <1>7 DEF DarkClear
<1>8. CASE DarkAgain
  BY <1>8, <1>c DEF DarkAgain
<1>9. CASE UNCHANGED <<buf, strip>>
  BY <1>9
<1> QED
  BY <1>1, <1>2, <1>3, <1>4, <1>5, <1>6, <1>7, <1>8, <1>9, <1>10
  DEF RailNext, RenderTask, AnimTask, TouchTask, WindowEnds, railVars,
      RenderSkips, RenderLock, RenderGlass, RenderAmber, RenderFlag,
      AnimWake, AnimRead, AnimDone, AnimLock,
      HoldDark, DarkUnwink, DarkLock, HoldOta, TouchAmber, TouchFlag, TouchOpen, Tap

RailParts ==
  /\ StripPart /\ RenderPart /\ AnimPart /\ WinkPart /\ LatchPart /\ FlagPart

LEMMA RailPartsStart == RailInit => RailParts
<1> SUFFICES ASSUME RailInit PROVE RailParts
  OBVIOUS
<1> USE DEF RailInit
<1>1. StripPart BY DEF StripPart, AllDark, Colour
<1>2. RenderPart BY DEF RenderPart, Renders, Resting, NoFrame, Lamps
<1>3. AnimPart BY PixelAssumption DEF AnimPart, Anims, Asleep, Colour
<1>4. WinkPart BY DEF WinkPart, Wink, Steady, Pace, Colour
<1>5. LatchPart BY LatchAssumption DEF LatchPart
<1>6. FlagPart BY DEF FlagPart
<1> QED BY <1>1, <1>2, <1>3, <1>4, <1>5, <1>6 DEF RailParts

LEMMA RailPartsKept == RailParts /\ [RailNext]_railVars => RailParts'
BY StripKept, RenderKept, AnimKept, WinkKept, LatchKept, FlagKept DEF RailParts

----------------------------------------------------------------------------
(* The rail: a frame that nobody crosses *)

\* Pixels of the frame that is being drawn, or about to be shown.
Drawn(p) == buf[p] = render.frame[p].colour
HostDrawn == buf[HOST] = IF render.heard THEN "blue" ELSE "red"

\* While nobody crosses the frame, the animation is asleep, and the buffer holds
\* what has been drawn so far.
FrameInv ==
  clean =>
    /\ animator.at = "rest"
    /\ render.at \in {"self", "draw"} => \A p \in Member \ render.todo : Drawn(p)
    /\ render.at \in {"lock", "show"} => HostDrawn /\ \A p \in Member : Drawn(p)

LEMMA FrameKept == RailParts /\ FrameInv /\ [RailNext]_railVars => FrameInv'
<1> SUFFICES ASSUME RailParts, FrameInv, [RailNext]_railVars PROVE FrameInv'
  OBVIOUS
<1>a. RenderPart /\ StripPart
  BY DEF RailParts
<1>b. ASSUME UNCHANGED <<buf, clean>>, animator.at = "rest" => animator'.at = "rest",
             UNCHANGED render \/ render'.at \notin {"self", "draw", "lock", "show"}
      PROVE  FrameInv'
  BY <1>b DEF FrameInv, Drawn, HostDrawn
<1>1. CASE RenderStart
  <2>1. PICK here \in SUBSET Member : \E v \in [here -> View] :
          render' = [render EXCEPT
            !.at = "self", !.todo = here,
            !.heard = \E p \in here : v[p].alive,
            !.frame = [p \in Member |-> IF p \in here THEN Lamp(v[p], latch'[p]) ELSE Absent]]
    BY <1>1 DEF RenderStart
  <2>2. render'.at = "self" /\ render'.todo = here /\ \A p \in Member \ here : render'.frame[p] = Absent
    BY <1>a, <2>1 DEF RenderPart, Renders
  <2>3. buf' = AllDark /\ (clean' => animator'.at = "rest")
    BY <1>1 DEF RenderStart
  <2>4. \A p \in Member \ here : buf'[p] = render'.frame[p].colour
    BY <2>2, <2>3, Pixels DEF AllDark, Absent
  <2> QED BY <2>2, <2>3, <2>4 DEF FrameInv, Drawn
<1>14. CASE RenderSelf
  <2>1. PICK w \in {Steady("blue"), SlowAmber} : Px(HOST, w.colour)
    BY <1>14 DEF RenderSelf
  <2>2. /\ render.at = "self" /\ UNCHANGED <<clean, animator>>
        /\ buf' = [buf EXCEPT ![HOST] = w.colour]
        /\ render' = [render EXCEPT !.at = "draw"]
    BY <1>14, <2>1 DEF RenderSelf, Px
  <2>3. render'.at = "draw" /\ render'.frame = render.frame /\ render'.todo = render.todo
    BY <1>a, <2>2 DEF RenderPart, Renders
  <2>4. \A q \in Member : buf'[q] = buf[q]
    BY <1>a, <2>2, Pixels DEF StripPart
  <2> QED BY <2>2, <2>3, <2>4 DEF FrameInv, Drawn
<1>2. ASSUME NEW p \in Member, RenderDraw(p) PROVE FrameInv'
  <2>1. /\ render.at = "draw" /\ p \in render.todo /\ UNCHANGED <<clean, animator>>
        /\ buf' = [buf EXCEPT ![p] = render.frame[p].colour]
        /\ render' = [render EXCEPT !.todo = @ \ {p}]
    BY <1>2 DEF RenderDraw, Px
  <2>2. render'.at = "draw" /\ render'.frame = render.frame /\ render'.todo = render.todo \ {p}
    BY <1>a, <2>1 DEF RenderPart, Renders
  <2>3. \A q \in Member : buf'[q] = IF q = p THEN render.frame[p].colour ELSE buf[q]
    BY <1>a, <2>1, Pixels DEF StripPart
  <2> QED BY <2>1, <2>2, <2>3 DEF FrameInv, Drawn
<1>3. CASE RenderHost
  <2>1. /\ render.at = "draw" /\ render.todo = {} /\ UNCHANGED <<clean, animator>>
        /\ buf' = [buf EXCEPT ![HOST] = IF render.heard THEN "blue" ELSE "red"]
        /\ render' = [render EXCEPT !.at = "lock"]
    BY <1>3 DEF RenderHost, Px
  <2>2. render'.at = "lock" /\ render'.frame = render.frame /\ render'.heard = render.heard
    BY <1>a, <2>1 DEF RenderPart, Renders
  <2>3. /\ buf'[HOST] = IF render.heard THEN "blue" ELSE "red"
        /\ \A q \in Member : buf'[q] = buf[q]
    BY <1>a, <2>1, Pixels DEF StripPart
  <2> QED BY <2>1, <2>2, <2>3 DEF FrameInv, Drawn, HostDrawn
<1>4. CASE RenderLock
  <2>1. /\ render.at = "lock" /\ UNCHANGED <<buf, clean, animator>>
        /\ render' = [render EXCEPT !.at = "show"]
    BY <1>4 DEF RenderLock, ghosts
  <2>2. render'.at = "show" /\ render'.frame = render.frame /\ render'.heard = render.heard
    BY <1>a, <2>1 DEF RenderPart, Renders
  <2> QED BY <2>1, <2>2 DEF FrameInv, Drawn, HostDrawn
<1>5. CASE RenderSkips \/ RenderShow \/ RenderFlag
  <2>1. Resting.at = "rest" /\ [Resting EXCEPT !.at = "glass"].at = "glass"
    BY DEF Resting
  <2>2. render'.at \in {"rest", "glass"}
    BY <1>5, <2>1 DEF RenderSkips, RenderShow, RenderDone, RenderFlag
  <2>3. UNCHANGED <<buf, clean, animator>>
    BY <1>5 DEF RenderSkips, RenderShow, RenderFlag, ghosts
  <2> QED BY <2>2, <2>3, <1>b
<1>6. CASE RenderGlass \/ RenderAmber
  BY <1>6, <1>a, <1>b DEF RenderGlass, RenderAmber, RenderPart, Renders, ghosts
<1>7. CASE AnimWake \/ DarkClear
  BY <1>7 DEF AnimWake, DarkClear, FrameInv
<1>8. CASE AnimRead \/ AnimDone \/ AnimLock \/ AnimShow
  BY <1>8, <1>b DEF AnimRead, AnimDone, AnimLock, AnimShow, ghosts
<1>9. CASE AnimPx
  BY <1>9 DEF AnimPx, FrameInv
<1>10. CASE HoldDark \/ DarkUnwink \/ DarkLock \/ DarkAgain
  BY <1>10, <1>b DEF HoldDark, DarkUnwink, DarkLock, DarkAgain, ghosts
<1>11. CASE HoldOta \/ TouchAmber \/ TouchFlag \/ TouchOpen
  BY <1>11, <1>b DEF HoldOta, TouchAmber, TouchFlag, TouchOpen, ghosts
<1>12. CASE Tap \/ WindowEnds
  BY <1>12, <1>b DEF Tap, WindowEnds, ghosts, taskVars
<1>13. CASE UNCHANGED railVars
  BY <1>13, <1>b DEF railVars, ghosts, taskVars
<1> QED
  BY <1>1, <1>2, <1>3, <1>4, <1>5, <1>6, <1>7, <1>8, <1>9, <1>10, <1>11, <1>12, <1>13, <1>14
  DEF RailNext, RenderTask, AnimTask, TouchTask

----------------------------------------------------------------------------
(* The rail: theorems *)

RailInv == RailParts /\ DarkInv /\ FrameInv

LEMMA RailStarts == RailInit => RailInv
<1> SUFFICES ASSUME RailInit PROVE RailInv
  OBVIOUS
<1>1. RailParts BY RailPartsStart
<1>2. DarkInv
  <2>1. blackout = FALSE /\ touch = "rest"
    BY DEF RailInit
  <2> QED BY <2>1 DEF DarkInv
<1>3. FrameInv BY DEF RailInit, FrameInv
<1> QED BY <1>1, <1>2, <1>3 DEF RailInv

LEMMA RailKept == RailInv /\ [RailNext]_railVars => RailInv'
BY RailPartsKept, DarkKept, FrameKept DEF RailInv

\* The rail of led.c keeps to its types: no pixel beyond the strip, no latch below
\* nought, whatever its three tasks do.
THEOREM RailTyped == RailSpec => []RailTypeOK
<1>1. RailInv => RailTypeOK
  BY DEF RailInv, RailParts, StripPart, RenderPart, Renders, Lamps, AnimPart, Anims, WinkPart,
     LatchPart, FlagPart, RailTypeOK
<1> QED BY <1>1, RailStarts, RailKept, PTL DEF RailSpec

\* For any strip, any members and any number of frames in flight: once led_blackout
\* has returned the strip is dark until somebody wakes it, except for a pixel
\* painted between its clear and its refresh.
THEOREM StaysDark == RailSpec => []HeldDark
<1>1. RailInv => HeldDark
  BY DEF RailInv, DarkInv, HeldDark
<1> QED BY <1>1, RailStarts, RailKept, PTL DEF RailSpec

\* For any strip and any roster: a frame of led_render that neither the animation
\* nor a blackout has crossed shows the roster as it was when the frame began.
THEOREM FramesWhole == RailSpec => WholeFrame
<1> DEFINE Whole ==
      render.at = "show" /\ render'.at # "show" /\ ~blackout /\ clean =>
        /\ strip'[HOST] = IF render.heard THEN "blue" ELSE "red"
        /\ \A p \in Member : strip'[p] = render.frame[p].colour
<1>1. RailInv /\ [RailNext]_railVars => [Whole]_railVars
  <2> SUFFICES ASSUME RailInv, RailNext, render.at = "show", render'.at # "show", ~blackout, clean
               PROVE  /\ strip'[HOST] = IF render.heard THEN "blue" ELSE "red"
                      /\ \A p \in Member : strip'[p] = render.frame[p].colour
    BY DEF Whole
  <2>1. RenderShow
    BY DEF RailNext, RenderTask, AnimTask, TouchTask, WindowEnds, taskVars,
      RenderSkips, RenderStart, RenderSelf, RenderDraw, RenderHost, RenderLock, RenderGlass, RenderAmber, RenderFlag,
      AnimWake, AnimRead, AnimPx, AnimDone, AnimLock, AnimShow,
      HoldDark, DarkUnwink, DarkLock, DarkClear, DarkAgain, HoldOta, TouchAmber, TouchFlag, TouchOpen, Tap
  <2>2. strip' = buf
    BY <2>1 DEF RenderShow, Pushed
  <2> QED BY <2>2 DEF RailInv, FrameInv, Drawn, HostDrawn
<1> HIDE DEF Whole
<1>2. RailSpec => [][Whole]_railVars
  BY <1>1, RailStarts, RailKept, PTL DEF RailSpec
<1> QED BY <1>2 DEF WholeFrame, Whole

----------------------------------------------------------------------------
(* The clock: arithmetic of whole seconds *)

LEMMA Units ==
  /\ SUB \in Nat \ {0} /\ TOL \in Nat /\ LAG \in Nat /\ MAX_HOPS \in Nat /\ MAX_CUTS \in Nat
  /\ PerHop \in Nat /\ PerHop = SUB - 1 + LAG
BY ClockAssumption DEF PerHop

\* C's division of the microseconds, for a clock behind or ahead of the truth.
LEMMA WholeSeconds ==
  ASSUME NEW e \in Int, phase \in 0..SUB - 1
  PROVE  /\ Second(e) \in Int
         /\ SUB * Second(e) <= phase + e /\ phase + e < SUB * Second(e) + SUB
BY Units DEF Second

LEMMA OneMore == ASSUME NEW h \in Nat PROVE (h + 1) * PerHop = h * PerHop + PerHop
BY Units

\* A clock that is no further behind than the tolerance reads a second that is
\* none of the future and none before the tolerance.
LEMMA InTolerance ==
  ASSUME NEW e \in Int, phase \in 0..SUB - 1, e <= 0, -e <= TOL * SUB
  PROVE  Second(e) \in -TOL..0
<1> DEFINE q == Second(e)
<1>1. q \in Int /\ SUB * q <= phase + e /\ phase + e < SUB * q + SUB
  BY WholeSeconds
<1> HIDE DEF q
<1>2. q <= 0
  <2>1. SUB * q < SUB
    BY <1>1, Units
  <2>2. ASSUME q >= 1 PROVE SUB * q >= SUB
    <3>1. q - 1 \in Nat /\ SUB \in Nat
      BY <1>1, <2>2, Units
    <3>2. SUB * (q - 1) >= 0
      BY <3>1
    <3>3. SUB * q = SUB * (q - 1) + SUB
      BY <1>1, <3>1
    <3> QED BY <3>1, <3>2, <3>3, <1>1
  <2>3. SUB * q \in Int /\ SUB \in Int
    BY <1>1, Units
  <2> QED BY <1>1, <2>1, <2>2, <2>3
<1>3. q >= -TOL
  <2>1. 0 <= phase + e + TOL * SUB
    BY Units
  <2>2. SUB * q + SUB + TOL * SUB > 0
    BY <1>1, <2>1, Units
  <2>3. SUB * (q + 1 + TOL) = SUB * q + SUB + TOL * SUB
    BY <1>1, Units
  <2>4. q + 1 + TOL <= 0 => SUB * (q + 1 + TOL) <= 0
    BY <1>1, Units
  <2> QED BY <1>1, <2>2, <2>3, <2>4, Units
<1> QED BY <1>1, <1>2, <1>3, Units DEF q

----------------------------------------------------------------------------
(* The clock: how far behind it may be *)

Letters ==
  inbox \in [Clocked -> [from : Blade \cup {NOBODY}, error : Int, age : 0..LAG, hops : 0..MAX_HOPS]]

ClockTypes ==
  /\ sane \in [Clocked -> BOOLEAN] /\ offset \in [Clocked -> Int]
  /\ hops \in [Clocked -> 0..MAX_HOPS] /\ phase \in 0..SUB - 1 /\ cuts \in 0..MAX_CUTS

Origins ==
  /\ origin \in [Clocked -> Blade \cup {NOBODY}] /\ \A m \in Clocked : origin[m] # m

\* A beacon in a queue is behind by no more than its chain, the fraction of a second
\* that it left out, and its wait.
BeaconHonest ==
  \A m \in Clocked : inbox[m] # NoBeacon =>
    /\ inbox[m].from # m
    /\ inbox[m].hops >= 1 /\ inbox[m].error <= 0
    /\ -inbox[m].error <= (inbox[m].hops - 1) * PerHop + SUB - 1 + inbox[m].age

ClockInv == Letters /\ ClockTypes /\ Origins /\ BeaconHonest /\ ClockHonest

LEMMA ClockStarts == ClockInit => ClockInv
<1> SUFFICES ASSUME ClockInit PROVE ClockInv
  OBVIOUS
<1> USE Units DEF ClockInit
<1>1. Letters BY DEF Letters, NoBeacon
<1>2. ClockTypes BY DEF ClockTypes
<1>3. Origins BY NobodyAssumption DEF Origins
<1>4. BeaconHonest BY DEF BeaconHonest
<1>5. ClockHonest BY DEF ClockHonest
<1> QED BY <1>1, <1>2, <1>3, <1>4, <1>5 DEF ClockInv

\* What a beacon says when it is taken out of the queue.
LEMMA Arrived ==
  ASSUME Letters, BeaconHonest, NEW m \in Clocked, inbox[m] # NoBeacon
  PROVE  /\ inbox[m].error \in Int /\ inbox[m].error <= 0
         /\ inbox[m].hops * PerHop \in Int
         /\ -inbox[m].error <= inbox[m].hops * PerHop
<1> DEFINE tf == inbox[m]
<1>1. /\ tf.error \in Int /\ tf.age \in 0..LAG /\ tf.hops \in 1..MAX_HOPS /\ tf.error <= 0
      /\ -tf.error <= (tf.hops - 1) * PerHop + SUB - 1 + tf.age
  BY Units DEF Letters, BeaconHonest
<1>2. tf.hops - 1 \in Nat /\ tf.hops = (tf.hops - 1) + 1
  BY <1>1, Units
<1>3. tf.hops * PerHop = (tf.hops - 1) * PerHop + PerHop
  BY <1>2, OneMore
<1>4. (tf.hops - 1) * PerHop \in Int
  BY <1>2, Units
<1> QED BY <1>1, <1>3, <1>4, Units

LEMMA ClockKept == ClockInv /\ [ClockNext]_clockVars => ClockInv'
<1> SUFFICES ASSUME ClockInv, [ClockNext]_clockVars PROVE ClockInv'
  OBVIOUS
<1>a. Letters /\ ClockTypes /\ Origins /\ BeaconHonest /\ ClockHonest
  BY DEF ClockInv
<1> USE <1>a, Units DEF ClockInv
<1>1. ASSUME NEW b \in Blade, Ntp(b) PROVE ClockInv'
  <2>0. b \in Clocked BY DEF Clocked
  <2>1. ClockTypes' BY <1>1, <2>0 DEF Ntp, ClockTypes
  <2>2. Letters' /\ Origins' /\ BeaconHonest' BY <1>1 DEF Ntp, Letters, Origins, BeaconHonest
  <2>3. ClockHonest' BY <1>1, <2>0 DEF Ntp, ClockHonest, ClockTypes
  <2> QED BY <2>1, <2>2, <2>3
<1>2. ASSUME NEW b \in Blade, Beacon(b) PROVE ClockInv'
  <2>0. b \in Clocked BY DEF Clocked
  <2> DEFINE said == [from |-> b, error |-> Said(b), age |-> 0, hops |-> hops[b] + 1]
  <2>1. PICK heard \in SUBSET {m \in Clocked \ {b} : inbox[m] = NoBeacon} :
          inbox' = [m \in Clocked |-> IF m \in heard THEN said ELSE inbox[m]]
    BY <1>2 DEF Beacon
  <2>2. sane[b] /\ hops[b] < MAX_HOPS /\ UNCHANGED <<sane, offset, origin, phase, hops, cuts>>
    BY <1>2 DEF Beacon
  <2>3. /\ Said(b) \in Int /\ Said(b) <= offset[b] /\ Said(b) >= offset[b] - (SUB - 1)
    <3>1. offset[b] \in Int /\ phase \in 0..SUB - 1
      BY <2>0 DEF ClockTypes
    <3>2. Second(offset[b]) \in Int /\ SUB * Second(offset[b]) = Second(offset[b]) * SUB
      BY <3>1, WholeSeconds
    <3> QED BY <3>1, <3>2, WholeSeconds DEF Said
  <2>4. offset[b] <= 0 /\ -offset[b] <= hops[b] * PerHop /\ hops[b] \in 0..MAX_HOPS /\ offset[b] \in Int
    BY <2>0, <2>2 DEF ClockHonest, ClockTypes
  <2>5. hops[b] * PerHop \in Int
    BY <2>4
  <2>6. said \in [from : Blade \cup {NOBODY}, error : Int, age : 0..LAG, hops : 0..MAX_HOPS]
    BY <2>2, <2>3, <2>4
  <2>7. Letters'
    BY <2>1, <2>6 DEF Letters
  <2>8. /\ said.hops >= 1 /\ said.error <= 0
        /\ -said.error <= (said.hops - 1) * PerHop + SUB - 1 + said.age
    BY <2>3, <2>4, <2>5
  <2>9. BeaconHonest'
    <3> SUFFICES ASSUME NEW m \in Clocked, inbox'[m] # NoBeacon
                 PROVE  /\ inbox'[m].from # m
                        /\ inbox'[m].hops >= 1 /\ inbox'[m].error <= 0
                        /\ -inbox'[m].error <= (inbox'[m].hops - 1) * PerHop + SUB - 1 + inbox'[m].age
      BY DEF BeaconHonest, PerHop
    <3>1. CASE m \in heard
      <4>1. inbox'[m] = said /\ m # b
        BY <2>1, <3>1
      <4> QED BY <4>1, <2>8
    <3>2. CASE m \notin heard
      <4>1. inbox'[m] = inbox[m]
        BY <2>1, <3>2
      <4> QED BY <4>1 DEF BeaconHonest
    <3> QED BY <3>1, <3>2
  <2>10. ClockTypes' /\ Origins' /\ ClockHonest'
    BY <2>2 DEF ClockTypes, Origins, ClockHonest, PerHop
  <2> QED BY <2>7, <2>9, <2>10
<1>3. ASSUME NEW m \in Clocked, Hear(m) PROVE ClockInv'
  <2> DEFINE tf == inbox[m]
  <2>1. /\ tf # NoBeacon /\ inbox' = [inbox EXCEPT ![m] = NoBeacon] /\ UNCHANGED <<phase, cuts>>
    BY <1>3 DEF Hear
  <2>2. /\ tf.from \in Blade \cup {NOBODY} /\ tf.from # m /\ tf.error \in Int
        /\ tf.age \in 0..LAG /\ tf.hops \in 1..MAX_HOPS /\ tf.error <= 0
        /\ -tf.error <= (tf.hops - 1) * PerHop + SUB - 1 + tf.age
    BY <2>1 DEF Letters, BeaconHonest
  <2>3. -tf.error <= tf.hops * PerHop
    BY <2>1, Arrived
  <2>4. Letters' /\ BeaconHonest'
    BY <2>1 DEF Letters, BeaconHonest, NoBeacon, PerHop
  <2>5. CASE UNCHANGED <<sane, offset, origin, hops>>
    BY <2>1, <2>4, <2>5 DEF ClockTypes, Origins, ClockHonest, PerHop
  <2>6. CASE /\ sane' = [sane EXCEPT ![m] = TRUE] /\ offset' = [offset EXCEPT ![m] = tf.error]
             /\ origin' = [origin EXCEPT ![m] = tf.from] /\ hops' = [hops EXCEPT ![m] = tf.hops]
    <3>1. ClockTypes' BY <2>1, <2>2, <2>6 DEF ClockTypes
    <3>2. Origins' BY <2>2, <2>6 DEF Origins
    <3>3. ClockHonest' BY <2>2, <2>3, <2>6 DEF ClockHonest, ClockTypes, PerHop
    <3> QED BY <2>4, <3>1, <3>2, <3>3
  <2> QED BY <1>3, <2>5, <2>6 DEF Hear
<1>4. ASSUME NEW m \in Clocked, Restart(m) PROVE ClockInv'
  <2>1. Letters' /\ BeaconHonest'
    BY <1>4 DEF Restart, Letters, BeaconHonest, NoBeacon, PerHop
  <2>2. Origins'
    BY <1>4, NobodyAssumption DEF Restart, Origins
  <2>3. CASE UNCHANGED <<sane, offset, hops, cuts>>
    BY <1>4, <2>1, <2>2, <2>3 DEF Restart, ClockTypes, ClockHonest, PerHop
  <2>4. CASE /\ cuts < MAX_CUTS /\ cuts' = cuts + 1
             /\ sane' = [sane EXCEPT ![m] = FALSE]
             /\ offset' = [offset EXCEPT ![m] = 0] /\ hops' = [hops EXCEPT ![m] = 0]
    <3>1. ClockTypes' BY <1>4, <2>4 DEF Restart, ClockTypes
    <3>2. ClockHonest' BY <2>4 DEF ClockHonest, ClockTypes, PerHop
    <3> QED BY <2>1, <2>2, <3>1, <3>2
  <2> QED BY <1>4, <2>3, <2>4 DEF Restart
<1>5. CASE ClockTick
  <2>1. /\ \A m \in Clocked : inbox[m] # NoBeacon => inbox[m].age < LAG
        /\ inbox' = [m \in Clocked |-> IF inbox[m] = NoBeacon THEN NoBeacon
                     ELSE [inbox[m] EXCEPT !.error = @ - 1, !.age = @ + 1]]
        /\ phase' = (phase + 1) % SUB /\ UNCHANGED <<sane, offset, origin, hops, cuts>>
    BY <1>5 DEF ClockTick
  <2>2. ClockTypes' /\ Origins' /\ ClockHonest'
    <3>1. phase' \in 0..SUB - 1
      <4>1. phase + 1 \in Nat
        BY DEF ClockTypes
      <4>2. \A x \in Nat : x % SUB \in 0..SUB - 1
        BY Units
      <4> QED BY <2>1, <4>1, <4>2
    <3> QED BY <2>1, <3>1 DEF ClockTypes, Origins, ClockHonest, PerHop
  <2>3. ASSUME NEW m \in Clocked
        PROVE  /\ inbox'[m] \in [from : Blade \cup {NOBODY}, error : Int, age : 0..LAG, hops : 0..MAX_HOPS]
               /\ inbox[m] = NoBeacon => inbox'[m] = NoBeacon
               /\ inbox[m] # NoBeacon =>
                    /\ inbox'[m].from = inbox[m].from /\ inbox'[m].hops = inbox[m].hops
                    /\ inbox'[m].error = inbox[m].error - 1 /\ inbox'[m].age = inbox[m].age + 1
    <3>1. inbox[m] \in [from : Blade \cup {NOBODY}, error : Int, age : 0..LAG, hops : 0..MAX_HOPS]
      BY DEF Letters
    <3>2. CASE inbox[m] = NoBeacon
      BY <2>1, <3>1, <3>2
    <3>3. CASE inbox[m] # NoBeacon
      <4>1. inbox[m].age < LAG
        BY <2>1, <3>3
      <4>2. inbox'[m] = [inbox[m] EXCEPT !.error = @ - 1, !.age = @ + 1]
        BY <2>1, <3>3
      <4>3. /\ inbox'[m].from = inbox[m].from /\ inbox'[m].hops = inbox[m].hops
            /\ inbox'[m].error = inbox[m].error - 1 /\ inbox'[m].age = inbox[m].age + 1
        BY <3>1, <4>2
      <4>4. inbox[m].error - 1 \in Int /\ inbox[m].age + 1 \in 0..LAG
        BY <3>1, <4>1
      <4> QED BY <3>1, <3>3, <4>2, <4>3, <4>4
    <3> QED BY <3>2, <3>3
  <2>4. Letters'
    BY <2>1, <2>3 DEF Letters
  <2>5. BeaconHonest'
    <3> SUFFICES ASSUME NEW m \in Clocked, inbox'[m] # NoBeacon
                 PROVE  /\ inbox'[m].from # m
                        /\ inbox'[m].hops >= 1 /\ inbox'[m].error <= 0
                        /\ -inbox'[m].error <= (inbox'[m].hops - 1) * PerHop + SUB - 1 + inbox'[m].age
      BY DEF BeaconHonest, PerHop
    <3>1. /\ inbox[m].error \in Int /\ inbox[m].age \in Int /\ inbox[m].hops \in Int
          /\ (inbox[m].hops - 1) * PerHop \in Int
      BY DEF Letters
    <3> QED BY <2>3, <3>1 DEF BeaconHonest
  <2> QED BY <2>2, <2>4, <2>5
<1>6. CASE UNCHANGED clockVars
  BY <1>6 DEF clockVars, Letters, ClockTypes, Origins, BeaconHonest, ClockHonest, PerHop
<1> QED BY <1>1, <1>2, <1>3, <1>4, <1>5, <1>6 DEF ClockNext

----------------------------------------------------------------------------
(* The clock: theorems *)

\* The clocks and beacons keep to their types, and nobody adopts its own beacon.
THEOREM ClockTyped == ClockSpec => []ClockTypeOK
<1>1. ClockInv => ClockTypeOK
  BY DEF ClockInv, Letters, ClockTypes, Origins, ClockTypeOK
<1> QED BY <1>1, ClockStarts, ClockKept, PTL DEF ClockSpec

\* For any fleet, tolerance and delay: a clock set over beacons (swarm_hb_tx_task,
\* bohun_time_adopt) is never ahead of the truth, and behind it by no more than
\* its chain of beacons accounts for.
THEOREM HonestClocks == ClockSpec => []ClockHonest
<1>1. ClockInv => ClockHonest
  BY DEF ClockInv
<1> QED BY <1>1, ClockStarts, ClockKept, PTL DEF ClockSpec

\* For any fleet, tolerance and delay: no beacon moves a clock that is set while
\* the chains of both stay within the tolerance, so a bucket edge stays put.
THEOREM SteadyClocks == ClockSpec => NoWander
<1> DEFINE Still ==
      \A m \in Clocked :
        inbox[m] # NoBeacon /\ inbox'[m] = NoBeacon /\ sane[m] /\ offset'[m] # offset[m] /\ sane'[m] =>
          hops[m] * PerHop > TOL * SUB \/ inbox[m].hops * PerHop > TOL * SUB
<1>1. ClockInv /\ [ClockNext]_clockVars => [Still]_clockVars
  <2> SUFFICES ASSUME ClockInv, ClockNext, NEW m \in Clocked,
                      inbox[m] # NoBeacon, inbox'[m] = NoBeacon, sane[m],
                      offset'[m] # offset[m], sane'[m],
                      ~(hops[m] * PerHop > TOL * SUB), ~(inbox[m].hops * PerHop > TOL * SUB)
               PROVE  FALSE
    BY DEF Still
  <2>a. Letters /\ ClockTypes /\ BeaconHonest /\ ClockHonest
    BY DEF ClockInv
  <2>1. ASSUME NEW b \in Blade, Ntp(b) \/ Beacon(b) PROVE FALSE
    BY <2>1 DEF Ntp, Beacon
  <2>2. ASSUME NEW u \in Clocked, Hear(u) PROVE FALSE
    <3>1. u = m
      BY <2>2, <2>a DEF Hear, Letters
    <3>2. Adopt(m, inbox[m].error)
      BY <2>2, <3>1 DEF Hear
    <3> DEFINE mine == offset[m]  theirs == inbox[m].error
    <3>3. /\ mine \in Int /\ mine <= 0 /\ -mine <= hops[m] * PerHop /\ hops[m] * PerHop \in Int
          /\ phase \in 0..SUB - 1
      BY <2>a, Units DEF ClockTypes, ClockHonest
    <3>4. /\ theirs \in Int /\ theirs <= 0 /\ -theirs <= inbox[m].hops * PerHop
          /\ inbox[m].hops * PerHop \in Int
      BY <2>a, Arrived
    <3>5. TOL * SUB \in Int
      BY Units
    <3>6. -mine <= TOL * SUB /\ -theirs <= TOL * SUB
      BY <3>3, <3>4, <3>5
    <3>7. Second(mine) \in -TOL..0 /\ Second(theirs) \in -TOL..0
      BY <3>3, <3>4, <3>6, InTolerance
    <3>8. Apart(Second(mine), Second(theirs)) <= TOL
      BY <3>7, Units DEF Apart
    <3>9. Apart(Second(mine), Second(theirs)) > TOL
      BY <3>2 DEF Adopt
    <3>10. Apart(Second(mine), Second(theirs)) \in Int
      BY <3>7, Units DEF Apart
    <3> QED BY <3>8, <3>9, <3>10, Units
  <2>3. ASSUME NEW u \in Clocked, Restart(u) PROVE FALSE
    BY <2>3, <2>a DEF Restart, ClockTypes
  <2>4. CASE ClockTick
    BY <2>4 DEF ClockTick
  <2> QED BY <2>1, <2>2, <2>3, <2>4 DEF ClockNext
<1> HIDE DEF Still
<1>2. ClockSpec => [][Still]_clockVars
  BY <1>1, ClockStarts, ClockKept, PTL DEF ClockSpec
<1> QED BY <1>2 DEF NoWander, Still

----------------------------------------------------------------------------
(* The climate: arithmetic *)

LEMMA ClimateSizes ==
  /\ BUCKETS \in Nat /\ BUCKETS > 0 /\ BUCKET_S \in Nat /\ BUCKET_S > 0
  /\ REDRAW_S \in Nat /\ REDRAW_S > 0 /\ SANE_S \in Nat /\ MAX_CLOCK \in Nat /\ MAX_PASSES \in Nat
  /\ SANE_S \div BUCKET_S >= BUCKETS /\ \A t \in Degree : t \in Int
  /\ WORD \in Nat /\ MAX_CLOCK < WORD /\ REDRAW_S <= SANE_S
BY ClimateAssumption

LEMMA Multiples ==
  ASSUME NEW n \in Nat, NEW x \in Int, NEW y \in Int
  PROVE  /\ n * x \in Int /\ (n + 1) * x = n * x + x
         /\ x <= y => n * x <= n * y
<1>1. n * x \in Int /\ n * y \in Int /\ (n + 1) * x = n * x + x
  OBVIOUS
<1>2. ASSUME x <= y PROVE n * x <= n * y
  <2> DEFINE d == y - x
  <2>1. d \in Nat /\ y = x + d
    BY <1>2
  <2> HIDE DEF d
  <2>2. n * y = n * x + n * d /\ n * d \in Nat
    BY <2>1
  <2> QED BY <1>1, <2>2
<1> QED BY <1>1, <1>2

LEMMA Divided ==
  ASSUME NEW x \in Nat, NEW c \in Nat, c > 0
  PROVE  /\ x \div c \in Nat /\ x % c \in 0..c - 1
         /\ x = (x \div c) * c + (x % c)
OBVIOUS

\* A later second is in no earlier bucket.
LEMMA DividedInOrder ==
  ASSUME NEW x \in Nat, NEW y \in Nat, NEW c \in Nat, c > 0, x <= y
  PROVE  x \div c <= y \div c
<1> DEFINE p == x \div c
           q == y \div c
<1>1. /\ p \in Nat /\ q \in Nat /\ x % c \in 0..c - 1 /\ y % c \in 0..c - 1
      /\ x = p * c + (x % c) /\ y = q * c + (y % c)
  BY Divided
<1> DEFINE u == x % c
           v == y % c
<1> HIDE DEF p, q, u, v
<1>2. ASSUME q < p PROVE FALSE
  <2>1. q + 1 \in Nat /\ q + 1 <= p
    BY <1>1, <1>2
  <2>2. c * (q + 1) <= c * p
    BY <2>1, <1>1, Multiples
  <2>3. c * (q + 1) = q * c + c /\ c * p = p * c /\ q * c \in Nat /\ p * c \in Nat
    BY <1>1
  <2> DEFINE pc == p * c
             qc == q * c
  <2>4. qc + c <= pc /\ qc \in Nat /\ pc \in Nat /\ x = pc + u /\ y = qc + v /\ u \in Nat /\ v < c /\ v \in Nat
    <3>1. x = pc + u /\ y = qc + v /\ u \in Nat /\ v < c /\ v \in Nat
      BY <1>1 DEF u, v
    <3>2. pc \in Nat /\ qc \in Nat /\ qc + c <= pc
      BY <2>2, <2>3
    <3> QED BY <3>1, <3>2
  <2> HIDE DEF pc, qc
  <2> QED BY <2>4
<1>3. p <= q
  BY <1>1, <1>2
<1> QED BY <1>3 DEF p, q

\* Of the buckets of one window, no two have the same slot.
LEMMA SlotsApart ==
  ASSUME NEW x \in Nat, NEW y \in Nat, NEW c \in Nat, c > 0, x <= y, y <= x + c - 1, x % c = y % c
  PROVE  x = y
<1> DEFINE p == x \div c
           q == y \div c
           u == x % c
<1>1. /\ p \in Nat /\ q \in Nat /\ u \in Nat
      /\ x = p * c + u /\ y = q * c + u
  BY Divided
<1>2. p <= q
  BY DividedInOrder
<1> HIDE DEF p, q, u
<1>3. ASSUME p < q PROVE FALSE
  <2>1. p + 1 \in Nat /\ p + 1 <= q
    BY <1>1, <1>3
  <2>2. c * (p + 1) <= c * q
    BY <1>1, <2>1, Multiples
  <2>3. c * (p + 1) = p * c + c /\ c * q = q * c /\ p * c \in Nat /\ q * c \in Nat
    BY <1>1
  <2> DEFINE pc == p * c
             qc == q * c
  <2>4. pc + c <= qc /\ qc \in Nat /\ pc \in Nat /\ x = pc + u /\ y = qc + u
    BY <1>1, <2>2, <2>3
  <2> HIDE DEF pc, qc
  <2> QED BY <1>1, <2>4
<1>4. p = q
  BY <1>1, <1>2, <1>3
<1> QED BY <1>1, <1>4

LEMMA SlotIn == \A b \in Nat : SlotOf(b) \in Bin
BY ClimateSizes, Divided DEF SlotOf, Bin

LEMMA BucketInOrder ==
  ASSUME NEW x \in Nat, NEW y \in Nat, x <= y PROVE Bucket(x) <= Bucket(y) /\ Bucket(x) \in Nat /\ Bucket(y) \in Nat
BY ClimateSizes, Divided, DividedInOrder DEF Bucket

\* No bucket of a clock that is set is in the first window of all.
LEMMA SaneBucket ==
  ASSUME NEW t \in Nat, Sane(t) PROVE Bucket(t) \in Nat /\ Bucket(t) >= BUCKETS
<1>1. SANE_S \in Nat /\ SANE_S <= t /\ Bucket(SANE_S) >= BUCKETS
  BY ClimateSizes DEF Sane, Bucket
<1>2. Bucket(SANE_S) <= Bucket(t) /\ Bucket(SANE_S) \in Nat /\ Bucket(t) \in Nat
  BY <1>1, BucketInOrder
<1> QED BY <1>1, <1>2, ClimateSizes

----------------------------------------------------------------------------
(* The climate: a cell *)

CellState == [sum : Int, n : Nat, min : Int, max : Int]

\* The cell c is the statistic of the terms of f on the finite set H.
Tells(c, f, H) ==
  /\ c \in CellState /\ IsFiniteSet(H) /\ c.n = Cardinality(H)
  /\ \A j \in H : f[j] \in Int
  /\ c.sum = Total(f, H)
  /\ c.n > 0 => c.n * c.min <= c.sum /\ c.sum <= c.n * c.max
  /\ H # {} => /\ (\E j \in H : f[j] = c.max) /\ (\E j \in H : f[j] = c.min)
               /\ \A j \in H : c.min <= f[j] /\ f[j] <= c.max

LEMMA NoneTells == ASSUME NEW f PROVE Tells(NoCell, f, {})
BY FS_EmptySet, TotalEmpty DEF Tells, NoCell, CellState

LEMMA SameTells ==
  ASSUME NEW c, NEW f, NEW h, NEW H, Tells(c, f, H), \A j \in H : h[j] = f[j]
  PROVE  Tells(c, h, H)
<1>1. Total(f, H) = Total(h, H)
  BY TotalSame DEF Tells
<1> QED BY <1>1 DEF Tells

\* A reading folded into a cell.
LEMMA FoldTells ==
  ASSUME NEW c, NEW f, NEW h, NEW H, Tells(c, f, H), \A j \in H : h[j] = f[j],
         NEW x, x \notin H, NEW t \in Int, h[x] = t
  PROVE  Tells(Folded(c, t), h, H \cup {x})
<1> DEFINE G == H \cup {x}
           d == Folded(c, t)
<1>1. Tells(c, h, H)
  BY SameTells
<1>2. /\ c \in CellState /\ IsFiniteSet(H) /\ c.n = Cardinality(H)
      /\ c.sum = Total(h, H) /\ \A j \in H : h[j] \in Int
  BY <1>1 DEF Tells
<1>3. c.n \in Nat /\ c.min \in Int /\ c.max \in Int /\ c.sum \in Int
  BY <1>2 DEF CellState
<1>4. IsFiniteSet(G) /\ Cardinality(G) = c.n + 1
  BY <1>2, FS_AddElement
<1>5. /\ \A j \in G : h[j] \in Int
      /\ x \in G /\ G \ {x} = H
  BY <1>2
<1>6. Total(h, G) = c.sum + t
  <2>1. Total(h, G) = h[x] + Total(h, G \ {x})
    BY <1>4, <1>5, TotalSplit
  <2>2. h[x] = t /\ t \in Int /\ Total(h, G \ {x}) = c.sum
    BY <1>2, <1>5
  <2> HIDE DEF G
  <2> QED BY <1>3, <2>1, <2>2
<1>7. CASE c.n = 0
  <2>1. H = {}
    BY <1>2, <1>7, FS_EmptySet
  <2>2. c.sum = 0
    BY <1>2, <2>1, TotalEmpty
  <2>3. d = [sum |-> t, n |-> 1, min |-> t, max |-> t]
    BY <1>7 DEF Folded
  <2>4. \A j \in G : j = x
    BY <2>1
  <2>5. 1 * t = t
    OBVIOUS
  <2> HIDE DEF G, d
  <2>6. d \in CellState /\ d.n = 1 /\ d.sum = t /\ d.min = t /\ d.max = t
    BY <2>3 DEF CellState
  <2>7. Tells(d, h, G)
    BY <1>4, <1>5, <1>6, <1>7, <2>2, <2>4, <2>5, <2>6 DEF Tells
  <2> QED BY <2>7 DEF d, G
<1>8. CASE c.n # 0
  <2> DEFINE mn == IF t < c.min THEN t ELSE c.min
             mx == IF t > c.max THEN t ELSE c.max
             n == c.n
  <2>1. H # {}
    BY <1>2, <1>8, FS_EmptySet
  <2>2. /\ n * c.min <= c.sum /\ c.sum <= n * c.max
        /\ (\E j \in H : h[j] = c.max) /\ (\E j \in H : h[j] = c.min)
        /\ \A j \in H : c.min <= h[j] /\ h[j] <= c.max
    BY <1>1, <1>3, <1>8, <2>1 DEF Tells
  <2>3. d = [sum |-> c.sum + t, n |-> n + 1, min |-> mn, max |-> mx]
    BY <1>8 DEF Folded
  <2>4. mn \in Int /\ mx \in Int /\ mn <= c.min /\ c.max <= mx /\ mn <= t /\ t <= mx
    BY <1>3
  <2>5. mn = t \/ mn = c.min
    OBVIOUS
  <2>6. mx = t \/ mx = c.max
    OBVIOUS
  <2> HIDE DEF mn, mx, d, G
  <2>7. /\ d \in CellState /\ d.sum = c.sum + t /\ d.n = n + 1 /\ d.min = mn /\ d.max = mx
    BY <1>3, <2>3, <2>4 DEF CellState
  <2>8. (n + 1) * mn <= c.sum + t
    <3>1. n * mn \in Int /\ (n + 1) * mn = n * mn + mn /\ n * mn <= n * c.min /\ n * c.min \in Int
      BY <1>3, <2>4, Multiples
    <3> DEFINE u == n * mn
               v == n * c.min
    <3>2. u \in Int /\ (n + 1) * mn = u + mn /\ u <= v /\ v \in Int /\ v <= c.sum
      BY <2>2, <3>1
    <3> HIDE DEF u, v, n
    <3> QED BY <1>3, <2>4, <3>2
  <2>9. c.sum + t <= (n + 1) * mx
    <3>1. n * mx \in Int /\ (n + 1) * mx = n * mx + mx /\ n * c.max <= n * mx /\ n * c.max \in Int
      BY <1>3, <2>4, Multiples
    <3> DEFINE u == n * mx
               v == n * c.max
    <3>2. u \in Int /\ (n + 1) * mx = u + mx /\ v <= u /\ v \in Int /\ c.sum <= v
      BY <2>2, <3>1
    <3> HIDE DEF u, v, n
    <3> QED BY <1>3, <2>4, <3>2
  <2>10. \A j \in G : mn <= h[j] /\ h[j] <= mx
    <3> SUFFICES ASSUME NEW j \in G PROVE mn <= h[j] /\ h[j] <= mx
      OBVIOUS
    <3>1. CASE j = x
      BY <2>4, <3>1
    <3>2. CASE j \in H
      BY <1>2, <1>3, <2>2, <2>4, <3>2
    <3> QED BY <3>1, <3>2 DEF G
  <2>11. (\E j \in G : h[j] = mx) /\ \E j \in G : h[j] = mn
    BY <2>2, <2>5, <2>6 DEF G
  <2>12. Tells(d, h, G)
    BY <1>4, <1>5, <1>6, <2>7, <2>8, <2>9, <2>10, <2>11 DEF Tells
  <2> QED BY <2>12 DEF d, G
<1> QED BY <1>7, <1>8

----------------------------------------------------------------------------
(* The climate: the ring and the passes filed in it *)

Passes == [at : Nat, bucket : Nat, heard : UNION {[here -> Degree] : here \in SUBSET Die}]

\* Of the passes in a log: those b's slot stands for, as Standing has it, those
\* of them that had a reading of node i, and what each reading was.
Stand(log, b) ==
  {k \in 1..Len(log) :
     /\ log[k].bucket = b
     /\ \A j \in k + 1..Len(log) :
          SlotOf(log[j].bucket) = SlotOf(b) /\ DOMAIN log[j].heard # {} => log[j].bucket = b}
Of(log, b, i) == {j \in Stand(log, b) : i \in DOMAIN log[j].heard}
Readings(log, i) == [j \in 1..Len(log) |-> log[j].heard[i]]

\* Each cell is the statistic of the readings its slot stands for.
CellsTell ==
  \A i \in Die, s \in Bin : Tells(temps.cell[i][s], Readings(filed, i), Of(filed, temps.key[s], i))

\* A reading that a slot still stands for is under the key the slot has.
KeysTell ==
  \A k \in 1..Len(filed) :
    DOMAIN filed[k].heard # {} /\ k \in Stand(filed, filed[k].bucket) =>
      temps.key[SlotOf(filed[k].bucket)] = filed[k].bucket

\* A clock that only goes forward files its passes in order.
InOrder ==
  ~backward =>
    \A k \in 1..Len(filed) :
      /\ filed[k].bucket <= Bucket(clock)
      /\ \A j \in k..Len(filed) : filed[k].bucket <= filed[j].bucket

RingOK ==
  /\ temps = [key |-> temps.key, cell |-> temps.cell]
  /\ temps.key \in [Bin -> AnyBucket] /\ temps.cell \in [Die -> [Bin -> CellState]]
  /\ \A s \in Bin : temps.key[s] = 0 \/ SlotOf(temps.key[s]) = s

FiledOK ==
  /\ filed \in Seq(Passes) /\ Len(filed) <= MAX_PASSES
  /\ \A k \in 1..Len(filed) : filed[k].bucket >= BUCKETS

ClockOK ==
  /\ clock \in 0..MAX_CLOCK /\ drawn \in 0..MAX_CLOCK /\ backward \in BOOLEAN
  /\ stat \in Stat /\ glass.stat \in Stat

ClimateInv == ClockOK /\ RingOK /\ FiledOK /\ CellsTell /\ KeysTell /\ InOrder

\* Bucket 0 is no pass's: it is the key of a slot that was never used.
LEMMA NothingAtZero == ASSUME FiledOK PROVE \A i \in Die : Of(filed, 0, i) = {}
<1>1. \A k \in 1..Len(filed) : filed[k].bucket # 0
  BY ClimateSizes DEF FiledOK
<1> QED BY <1>1 DEF Of, Stand

\* One more pass, at second a, under bucket b; and at any second.
FilesAt(next, log, a, b, got) == next = Append(log, [at |-> a, bucket |-> b, heard |-> got])
Files(next, log, b, got) == \E a \in Nat : FilesAt(next, log, a, b, got)

\* What it does to the passes that stand.
LEMMA Appended ==
  ASSUME NEW log \in Seq(Passes), NEW b \in Nat, NEW got, NEW next, Files(next, log, b, got)
  PROVE  LET n == Len(log) IN
         /\ n \in Nat /\ Len(next) = n + 1
         /\ \A j \in 1..n : next[j] = log[j]
         /\ next[n + 1].bucket = b /\ next[n + 1].heard = got
         /\ \A e \in Nat :
              DOMAIN got = {} \/ SlotOf(e) # SlotOf(b) \/ e = b =>
                Stand(next, e) = Stand(log, e) \cup (IF e = b THEN {n + 1} ELSE {})
         /\ \A e \in Nat :
              DOMAIN got # {} /\ SlotOf(e) = SlotOf(b) /\ e # b => Stand(next, e) = {}
<1> DEFINE n == Len(log)
<1>1. /\ n \in Nat /\ Len(next) = n + 1
      /\ \A j \in 1..n : next[j] = log[j]
      /\ next[n + 1].bucket = b /\ next[n + 1].heard = got
  BY DEF Files, FilesAt
<1> HIDE DEF n
<1> DEFINE Slot(k, e) == SlotOf(log[k].bucket) = SlotOf(e) /\ DOMAIN log[k].heard # {}
           Slot1(k, e) == SlotOf(next[k].bucket) = SlotOf(e) /\ DOMAIN next[k].heard # {}
<1>2. ASSUME NEW e \in Nat
      PROVE  Stand(next, e) =
               {k \in 1..n + 1 : /\ next[k].bucket = e
                                 /\ \A j \in k + 1..n + 1 : Slot1(j, e) => next[j].bucket = e}
  BY <1>1 DEF Stand
<1>3. ASSUME NEW e \in Nat
      PROVE  Stand(log, e) =
               {k \in 1..n : /\ log[k].bucket = e
                             /\ \A j \in k + 1..n : Slot(j, e) => log[j].bucket = e}
  BY DEF Stand, n
<1>4. \A j \in 1..n, e \in Nat : Slot1(j, e) <=> Slot(j, e)
  BY <1>1
<1>5. \A e \in Nat : Slot1(n + 1, e) <=> SlotOf(b) = SlotOf(e) /\ DOMAIN got # {}
  BY <1>1
<1> HIDE DEF Slot, Slot1
<1>6. ASSUME NEW e \in Nat, NEW k \in 1..n,
             DOMAIN got = {} \/ SlotOf(e) # SlotOf(b) \/ e = b
      PROVE  k \in Stand(next, e) <=> k \in Stand(log, e)
  <2>1. k + 1..n + 1 = (k + 1..n) \cup {n + 1} /\ k \in 1..n + 1
    BY <1>1
  <2>2. Slot1(n + 1, e) => next[n + 1].bucket = e
    BY <1>1, <1>5, <1>6
  <2>3. next[k] = log[k] /\ \A j \in k + 1..n : j \in 1..n
    BY <1>1
  <2>4. (\A j \in k + 1..n + 1 : Slot1(j, e) => next[j].bucket = e)
          <=> \A j \in k + 1..n : Slot(j, e) => log[j].bucket = e
    BY <1>1, <1>4, <2>1, <2>2, <2>3
  <2>5. k \in Stand(next, e) <=>
          /\ next[k].bucket = e
          /\ \A j \in k + 1..n + 1 : Slot1(j, e) => next[j].bucket = e
    BY <1>2, <2>1
  <2>6. k \in Stand(log, e) <=>
          /\ log[k].bucket = e
          /\ \A j \in k + 1..n : Slot(j, e) => log[j].bucket = e
    BY <1>3
  <2> QED BY <2>3, <2>4, <2>5, <2>6
<1>7. ASSUME NEW e \in Nat PROVE n + 1 \in Stand(next, e) <=> e = b
  <2>1. (n + 1) + 1..n + 1 = {} /\ n + 1 \in 1..n + 1
    BY <1>1
  <2> QED BY <1>1, <1>2, <2>1
<1>8. ASSUME NEW e \in Nat, DOMAIN got = {} \/ SlotOf(e) # SlotOf(b) \/ e = b
      PROVE  Stand(next, e) = Stand(log, e) \cup (IF e = b THEN {n + 1} ELSE {})
  <2>1. Stand(next, e) \subseteq 1..n + 1 /\ Stand(log, e) \subseteq 1..n
    BY <1>2, <1>3
  <2>2. \A k : k \in 1..n + 1 <=> k \in 1..n \/ k = n + 1
    BY <1>1
  <2>3. \A k \in 1..n : k \in Stand(next, e) <=> k \in Stand(log, e)
    BY <1>6, <1>8
  <2>4. n + 1 \notin 1..n
    BY <1>1
  <2> QED BY <1>7, <2>1, <2>2, <2>3, <2>4
<1>9. ASSUME NEW e \in Nat, DOMAIN got # {}, SlotOf(e) = SlotOf(b), e # b
      PROVE  Stand(next, e) = {}
  <2> SUFFICES ASSUME NEW k \in Stand(next, e) PROVE FALSE
    OBVIOUS
  <2>1. k \in 1..n + 1 /\ next[k].bucket = e
        /\ \A j \in k + 1..n + 1 : Slot1(j, e) => next[j].bucket = e
    BY <1>2
  <2>2. k # n + 1
    BY <1>1, <1>9, <2>1
  <2>3. n + 1 \in k + 1..n + 1
    BY <1>1, <2>1, <2>2
  <2> QED BY <1>1, <1>5, <1>9, <2>1, <2>3
<1> QED BY <1>1, <1>8, <1>9 DEF n

\* The cells that a pass leaves alone, and those it makes.
LEMMA CellsKept ==
  ASSUME FiledOK, FiledOK', RingOK, CellsTell, KeysTell,
         NEW a \in Nat, NEW b \in Nat, b >= BUCKETS, NEW here \in SUBSET Die, NEW got \in [here -> Degree],
         filed' = Append(filed, [at |-> a, bucket |-> b, heard |-> got]),
         temps' = IF here = {} THEN temps ELSE Recorded(temps, b, got)
  PROVE  CellsTell'
<1> DEFINE n == Len(filed)
<1>1. /\ n \in Nat /\ Len(filed') = n + 1 /\ DOMAIN got = here
      /\ \A j \in 1..n : filed'[j] = filed[j]
      /\ filed'[n + 1].bucket = b /\ filed'[n + 1].heard = got
      /\ \A e \in Nat :
           here = {} \/ SlotOf(e) # SlotOf(b) \/ e = b =>
             Stand(filed', e) = Stand(filed, e) \cup (IF e = b THEN {n + 1} ELSE {})
      /\ \A e \in Nat :
           here # {} /\ SlotOf(e) = SlotOf(b) /\ e # b => Stand(filed', e) = {}
  <2>1. filed \in Seq(Passes) /\ DOMAIN got = here
    BY DEF FiledOK
  <2> DEFINE next == filed'
  <2>2. Files(next, filed, b, got) /\ b \in Nat
    BY DEF Files, FilesAt
  <2> HIDE DEF next
  <2>3. /\ n \in Nat /\ Len(next) = n + 1
        /\ \A j \in 1..n : next[j] = filed[j]
        /\ next[n + 1].bucket = b /\ next[n + 1].heard = got
        /\ \A e \in Nat :
             DOMAIN got = {} \/ SlotOf(e) # SlotOf(b) \/ e = b =>
               Stand(next, e) = Stand(filed, e) \cup (IF e = b THEN {n + 1} ELSE {})
        /\ \A e \in Nat :
             DOMAIN got # {} /\ SlotOf(e) = SlotOf(b) /\ e # b => Stand(next, e) = {}
    BY ONLY <2>1, <2>2, Appended
  <2> QED BY <2>1, <2>3 DEF next
<1>2. \A e \in Nat, i \in Die :
        Of(filed', e, i) = {j \in Stand(filed', e) : i \in DOMAIN filed'[j].heard}
  BY DEF Of
<1>3. \A e : Stand(filed, e) \subseteq 1..n
  BY DEF Stand
<1> HIDE DEF n
<1>4. ASSUME NEW e \in Nat, NEW i \in Die, here = {} \/ SlotOf(e) # SlotOf(b)
      PROVE  Of(filed', e, i) = Of(filed, e, i)
  <2>1. CASE e # b
    <3>1. Stand(filed', e) = Stand(filed, e)
      BY <1>1, <1>4, <2>1
    <3> QED BY <1>1, <1>2, <1>3, <3>1 DEF Of
  <2>2. CASE e = b
    <3>1. Stand(filed', e) = Stand(filed, e) \cup {n + 1} /\ here = {}
      BY <1>1, <1>4, <2>2
    <3>2. i \notin DOMAIN filed'[n + 1].heard
      BY <1>1, <3>1
    <3>3. \A j \in Stand(filed, e) : filed'[j] = filed[j]
      BY <1>1, <1>3
    <3> QED BY <1>2, <3>1, <3>2, <3>3 DEF Of
  <2> QED BY <2>1, <2>2
<1>5. ASSUME NEW i \in Die
      PROVE  Of(filed', b, i) = Of(filed, b, i) \cup (IF i \in here THEN {n + 1} ELSE {})
  <2>1. Stand(filed', b) = Stand(filed, b) \cup {n + 1}
    BY <1>1
  <2>2. i \in DOMAIN filed'[n + 1].heard <=> i \in here
    BY <1>1
  <2>3. \A j \in Stand(filed, b) : filed'[j] = filed[j]
    BY <1>1, <1>3
  <2> QED BY <1>2, <2>1, <2>2, <2>3 DEF Of
<1>6. ASSUME NEW i \in Die
      PROVE  /\ \A j \in 1..n : Readings(filed', i)[j] = Readings(filed, i)[j]
             /\ i \in here => Readings(filed', i)[n + 1] = got[i] /\ got[i] \in Int
  <2>1. Readings(filed', i) = [j \in 1..n + 1 |-> filed'[j].heard[i]]
    BY <1>1 DEF Readings
  <2>2. Readings(filed, i) = [j \in 1..n |-> filed[j].heard[i]]
    BY DEF Readings, n
  <2>3. n + 1 \in 1..n + 1 /\ \A j \in 1..n : j \in 1..n + 1
    BY <1>1
  <2>4. i \in here => got[i] \in Int
    BY ClimateSizes
  <2> QED BY <1>1, <2>1, <2>2, <2>3, <2>4
<1>7. ASSUME NEW i \in Die, NEW e PROVE Of(filed, e, i) \subseteq 1..n
  BY <1>3 DEF Of
<1>8. ASSUME NEW i \in Die, NEW s \in Bin,
             here = {} \/ s # SlotOf(b), temps'.key[s] = temps.key[s],
             temps'.cell[i][s] = temps.cell[i][s]
      PROVE  Tells(temps'.cell[i][s], Readings(filed', i), Of(filed', temps'.key[s], i))
  <2> DEFINE e == temps.key[s]
  <2>1. e \in Nat /\ (e = 0 \/ SlotOf(e) = s)
    <3>1. e \in AnyBucket /\ (e = 0 \/ SlotOf(e) = s)
      BY DEF RingOK
    <3> QED BY <3>1 DEF AnyBucket
  <2>2. Of(filed', e, i) = Of(filed, e, i)
    <3>1. CASE e = 0
      <4>1. Of(filed, e, i) = {}
        BY <3>1, NothingAtZero
      <4>2. FiledOK' => Of(filed', 0, i) = {}
        <5>1. ASSUME FiledOK' PROVE \A k \in 1..Len(filed') : filed'[k].bucket # 0
          BY <5>1, ClimateSizes DEF FiledOK
        <5> QED BY <5>1 DEF Of, Stand
      <4> QED BY <3>1, <4>1, <4>2
    <3>2. CASE SlotOf(e) = s
      BY <1>4, <1>8, <2>1, <3>2
    <3> QED BY <2>1, <3>1, <3>2
  <2>3. Tells(temps.cell[i][s], Readings(filed, i), Of(filed, e, i))
    BY DEF CellsTell
  <2>4. \A j \in Of(filed, e, i) : Readings(filed', i)[j] = Readings(filed, i)[j]
    BY <1>6, <1>7
  <2> HIDE DEF e
  <2>5. Tells(temps.cell[i][s], Readings(filed', i), Of(filed, e, i))
    BY <2>3, <2>4, SameTells
  <2> QED BY <1>8, <2>2, <2>5 DEF e
<1>9. CASE here = {}
  <2>1. temps' = temps
    BY <1>9
  <2>2. \A i \in Die, s \in Bin : Tells(temps'.cell[i][s], Readings(filed', i), Of(filed', temps'.key[s], i))
    BY <1>8, <1>9, <2>1
  <2>3. temps.key' = temps'.key /\ temps.cell' = temps'.cell
    OBVIOUS
  <2> QED BY <2>1, <2>2 DEF CellsTell
<1>10. CASE here # {}
  <2> DEFINE s0 == SlotOf(b)
             Kept(i) == IF temps.key[s0] = b THEN temps.cell[i][s0] ELSE NoCell
  <2>1. s0 \in Bin
    BY SlotIn
  <2>2. /\ temps'.key = [temps.key EXCEPT ![s0] = b]
        /\ temps'.cell = [i \in Die |-> [temps.cell[i] EXCEPT ![s0] =
                             IF i \in here THEN Folded(Kept(i), got[i]) ELSE Kept(i)]]
    BY <1>1, <1>10 DEF Recorded
  <2>3. temps.key \in [Bin -> AnyBucket] /\ temps.cell \in [Die -> [Bin -> CellState]]
    BY DEF RingOK
  <2>4. ASSUME NEW i \in Die, NEW s \in Bin, s # s0
        PROVE  Tells(temps'.cell[i][s], Readings(filed', i), Of(filed', temps'.key[s], i))
    <3>1. temps'.key[s] = temps.key[s]
      BY <2>2, <2>3, <2>4
    <3>2. temps'.cell[i][s] = temps.cell[i][s]
      BY <2>2, <2>3, <2>4
    <3> QED BY <1>8, <2>4, <3>1, <3>2
  <2>5. ASSUME NEW i \in Die
        PROVE  Tells(temps'.cell[i][s0], Readings(filed', i), Of(filed', temps'.key[s0], i))
    <3>1. temps'.key[s0] = b
      BY <2>1, <2>2, <2>3
    <3>2. temps'.cell[i][s0] = IF i \in here THEN Folded(Kept(i), got[i]) ELSE Kept(i)
      BY <2>1, <2>2, <2>3
    <3>3. Tells(Kept(i), Readings(filed, i), Of(filed, b, i))
      <4>1. CASE temps.key[s0] = b
        <5>1. Tells(temps.cell[i][s0], Readings(filed, i), Of(filed, temps.key[s0], i))
          BY <2>1 DEF CellsTell
        <5> QED BY <4>1, <5>1
      <4>2. CASE temps.key[s0] # b
        <5>1. Of(filed, b, i) = {}
          <6> SUFFICES ASSUME NEW j \in Of(filed, b, i) PROVE FALSE
            OBVIOUS
          <6>1. j \in 1..Len(filed) /\ filed[j].bucket = b /\ j \in Stand(filed, b) /\ DOMAIN filed[j].heard # {}
            BY DEF Of, Stand
          <6> QED BY <4>2, <6>1 DEF KeysTell
        <5> QED BY <4>2, <5>1, NoneTells
      <4> QED BY <4>1, <4>2
    <3> HIDE DEF Kept, s0
    <3>4. \A j \in Of(filed, b, i) : Readings(filed', i)[j] = Readings(filed, i)[j]
      BY <1>6, <1>7
    <3>5. CASE i \in here
      <4>1. n + 1 \notin Of(filed, b, i) /\ Readings(filed', i)[n + 1] = got[i] /\ got[i] \in Int
        <5>1. n + 1 \notin 1..n
          BY <1>1
        <5> QED BY <1>6, <1>7, <3>5, <5>1
      <4>2. Tells(Folded(Kept(i), got[i]), Readings(filed', i), Of(filed, b, i) \cup {n + 1})
        BY ONLY <3>3, <3>4, <4>1, FoldTells
      <4> QED BY <1>5, <3>1, <3>2, <3>5, <4>2
    <3>6. CASE i \notin here
      <4>1. Tells(Kept(i), Readings(filed', i), Of(filed, b, i))
        BY <3>3, <3>4, SameTells
      <4> QED BY <1>5, <3>1, <3>2, <3>6, <4>1
    <3> QED BY <3>5, <3>6
  <2> QED BY <2>4, <2>5 DEF CellsTell
<1> QED BY <1>9, <1>10

LEMMA KeysKept ==
  ASSUME FiledOK, RingOK, KeysTell,
         NEW a \in Nat, NEW b \in Nat, NEW here \in SUBSET Die, NEW got \in [here -> Degree],
         filed' = Append(filed, [at |-> a, bucket |-> b, heard |-> got]),
         temps' = IF here = {} THEN temps ELSE Recorded(temps, b, got)
  PROVE  KeysTell'
<1> DEFINE n == Len(filed)
<1>1. /\ n \in Nat /\ Len(filed') = n + 1 /\ DOMAIN got = here
      /\ \A j \in 1..n : filed'[j] = filed[j]
      /\ filed'[n + 1].bucket = b /\ filed'[n + 1].heard = got
      /\ \A e \in Nat :
           here = {} \/ SlotOf(e) # SlotOf(b) \/ e = b =>
             Stand(filed', e) = Stand(filed, e) \cup (IF e = b THEN {n + 1} ELSE {})
      /\ \A e \in Nat :
           here # {} /\ SlotOf(e) = SlotOf(b) /\ e # b => Stand(filed', e) = {}
      /\ \A k \in 1..n : filed[k].bucket \in Nat
  <2>1. filed \in Seq(Passes) /\ DOMAIN got = here
    BY DEF FiledOK
  <2> DEFINE next == filed'
  <2>2. Files(next, filed, b, got) /\ b \in Nat
    BY DEF Files, FilesAt
  <2> HIDE DEF next
  <2>3. /\ n \in Nat /\ Len(next) = n + 1
        /\ \A j \in 1..n : next[j] = filed[j]
        /\ next[n + 1].bucket = b /\ next[n + 1].heard = got
        /\ \A e \in Nat :
             DOMAIN got = {} \/ SlotOf(e) # SlotOf(b) \/ e = b =>
               Stand(next, e) = Stand(filed, e) \cup (IF e = b THEN {n + 1} ELSE {})
        /\ \A e \in Nat :
             DOMAIN got # {} /\ SlotOf(e) = SlotOf(b) /\ e # b => Stand(next, e) = {}
    BY ONLY <2>1, <2>2, Appended
  <2>4. \A k \in 1..n : filed[k].bucket \in Nat
    <3> SUFFICES ASSUME NEW k \in 1..n PROVE filed[k].bucket \in Nat
      OBVIOUS
    <3>1. filed[k] \in Passes
      BY <2>1
    <3> QED BY <3>1 DEF Passes
  <2> QED BY <2>1, <2>3, <2>4 DEF next
<1>2. SlotOf(b) \in Bin /\ temps.key \in [Bin -> AnyBucket]
  BY SlotIn DEF RingOK
<1>3. here # {} => temps'.key = [temps.key EXCEPT ![SlotOf(b)] = b]
  BY <1>1 DEF Recorded
<1>4. here = {} => temps' = temps
  OBVIOUS
<1> SUFFICES ASSUME NEW k \in 1..Len(filed'), DOMAIN filed'[k].heard # {},
                    k \in Stand(filed', filed'[k].bucket)
             PROVE  temps'.key[SlotOf(filed'[k].bucket)] = filed'[k].bucket
  BY DEF KeysTell
<1> HIDE DEF n
<1>5. CASE k = n + 1
  BY <1>1, <1>2, <1>3, <1>5
<1>6. CASE k # n + 1
  <2> DEFINE e == filed[k].bucket
  <2>1. k \in 1..n /\ filed'[k] = filed[k] /\ e \in Nat
    BY <1>1, <1>6
  <2>2. k \in Stand(filed', e)
    BY <2>1
  <2>3. SlotOf(e) \in Bin
    BY <2>1, SlotIn
  <2>4. k \in Stand(filed, e) => temps.key[SlotOf(e)] = e
    BY <2>1 DEF KeysTell, n
  <2> HIDE DEF e
  <2>5. CASE here = {} \/ SlotOf(e) # SlotOf(b)
    <3>1. k \in Stand(filed, e)
      BY <1>1, <1>6, <2>1, <2>2, <2>5
    <3>2. temps'.key[SlotOf(e)] = temps.key[SlotOf(e)]
      BY <1>2, <1>3, <1>4, <2>3, <2>5
    <3> QED BY <2>1, <2>4, <3>1, <3>2 DEF e
  <2>6. CASE here # {} /\ SlotOf(e) = SlotOf(b)
    <3>1. e = b
      BY <1>1, <2>1, <2>2, <2>6
    <3>2. temps'.key[SlotOf(e)] = b
      BY <1>2, <1>3, <2>6
    <3> QED BY <2>1, <3>1, <3>2 DEF e
  <2> QED BY <2>5, <2>6
<1> QED BY <1>5, <1>6

LEMMA RingKept ==
  ASSUME RingOK, NEW b \in AnyBucket, NEW here \in SUBSET Die, NEW got \in [here -> Degree],
         temps' = IF here = {} THEN temps ELSE Recorded(temps, b, got), CellsTell'
  PROVE  RingOK'
<1>1. CASE here = {}
  BY <1>1 DEF RingOK
<1>2. CASE here # {}
  <2> DEFINE s0 == SlotOf(b)
             Kept(i) == IF temps.key[s0] = b THEN temps.cell[i][s0] ELSE NoCell
             key == [temps.key EXCEPT ![s0] = b]
             cell == [i \in Die |-> [temps.cell[i] EXCEPT ![s0] =
                        IF i \in here THEN Folded(Kept(i), got[i]) ELSE Kept(i)]]
  <2>1. temps' = [key |-> key, cell |-> cell]
    BY <1>2 DEF Recorded
  <2>2. s0 \in Bin
    BY SlotIn DEF AnyBucket
  <2>3. /\ temps.key \in [Bin -> AnyBucket] /\ temps.cell \in [Die -> [Bin -> CellState]]
        /\ \A s \in Bin : temps.key[s] = 0 \/ SlotOf(temps.key[s]) = s
    BY DEF RingOK
  <2>4. key \in [Bin -> AnyBucket]
    BY <2>2, <2>3
  <2>5. \A s \in Bin : key[s] = 0 \/ SlotOf(key[s]) = s
    BY <2>2, <2>3
  <2>6. temps'.key = key /\ temps'.cell = cell
    BY <2>1
  <2>7. \A i \in Die, s \in Bin : cell[i][s] \in CellState
    BY <2>6 DEF CellsTell, Tells
  <2>8. cell \in [Die -> [Bin -> CellState]]
    <3>1. \A i \in Die : cell[i] = [s \in Bin |-> cell[i][s]]
      <4> SUFFICES ASSUME NEW i \in Die PROVE cell[i] = [s \in Bin |-> cell[i][s]]
        OBVIOUS
      <4>1. temps.cell[i] \in [Bin -> CellState]
        BY <2>3
      <4> QED BY <4>1
    <3>2. cell = [i \in Die |-> cell[i]]
      OBVIOUS
    <3> HIDE DEF cell
    <3> QED BY <2>7, <3>1, <3>2
  <2> HIDE DEF key, cell
  <2> QED BY <2>1, <2>4, <2>5, <2>6, <2>8 DEF RingOK
<1> QED BY <1>1, <1>2

LEMMA ClimateStarts == ClimateInit => ClimateInv
<1> SUFFICES ASSUME ClimateInit PROVE ClimateInv
  OBVIOUS
<1>1. ClockOK /\ FiledOK
  <2>1. filed = << >> /\ << >> \in Seq(Passes) /\ Len(<< >>) = 0 /\ 1..0 = {}
    BY DEF ClimateInit
  <2>2. FiledOK
    BY ONLY <2>1, ClimateSizes DEF FiledOK
  <2>3. ClockOK
    <3>1. /\ clock = 0 /\ drawn = 0 /\ backward = FALSE
          /\ stat \in Stat /\ glass.stat \in Stat
      BY DEF ClimateInit, Stat
    <3>2. 0 \in 0..MAX_CLOCK
      BY ClimateSizes
    <3> QED BY <3>1, <3>2 DEF ClockOK
  <2> QED BY <2>2, <2>3
<1>2. 0 \in AnyBucket
  BY ClimateSizes, BucketInOrder DEF AnyBucket
<1>3. RingOK
  BY <1>2 DEF ClimateInit, RingOK, NoCell, CellState
<1>4. \A i \in Die : Of(filed, 0, i) = {}
  BY <1>1, NothingAtZero
<1>5. CellsTell
  <2> SUFFICES ASSUME NEW i \in Die, NEW s \in Bin
               PROVE  Tells(temps.cell[i][s], Readings(filed, i), Of(filed, temps.key[s], i))
    BY DEF CellsTell
  <2>1. temps.cell[i][s] = NoCell /\ temps.key[s] = 0
    BY DEF ClimateInit
  <2>2. Tells(NoCell, Readings(filed, i), {})
    BY NoneTells
  <2> QED BY <1>4, <2>1, <2>2
<1>6. KeysTell /\ InOrder
  BY DEF ClimateInit, KeysTell, InOrder
<1> QED BY <1>1, <1>3, <1>5, <1>6 DEF ClimateInv

LEMMA PassKeeps == ClimateInv /\ Pass => ClimateInv'
<1> SUFFICES ASSUME ClimateInv, Pass PROVE ClimateInv'
  OBVIOUS
<1> USE DEF ClimateInv
<1> DEFINE b == Bucket(clock)
           a == clock
<1>1. PICK here \in SUBSET Die : \E got \in [here -> Degree] : File(got)
  BY Zenon DEF Pass
<1>2. PICK got \in [here -> Degree] : File(got)
  BY <1>1
<1>3. clock \in Nat /\ clock <= MAX_CLOCK /\ Sane(clock) /\ MAX_CLOCK \in Nat
  BY ClimateSizes DEF Pass, ClockOK
<1>4. b \in Nat /\ b >= BUCKETS /\ b \in AnyBucket
  BY <1>3, SaneBucket, BucketInOrder DEF AnyBucket
<1>5. /\ clock' = clock /\ backward' = backward /\ stat' = stat
      /\ drawn' \in {clock, drawn} /\ glass'.stat \in {stat, glass.stat}
      /\ Len(filed) < MAX_PASSES
  BY DEF Pass, Render
<1>6. /\ temps' = IF here = {} THEN temps ELSE Recorded(temps, b, got)
      /\ filed' = Append(filed, [at |-> a, bucket |-> b, heard |-> got])
  <2>1. DOMAIN got = here
    OBVIOUS
  <2> QED BY <1>2, <2>1 DEF File
<1>a. a \in Nat
  BY <1>3
<1> HIDE DEF a
<1> HIDE DEF b
<1>7. ClockOK'
  BY <1>5 DEF ClockOK
<1>8. FiledOK'
  <2>1. filed \in Seq(Passes) /\ Len(filed) \in Nat /\ \A k \in 1..Len(filed) : filed[k].bucket >= BUCKETS
    BY DEF FiledOK
  <2>2. [at |-> a, bucket |-> b, heard |-> got] \in Passes
    BY <1>4, <1>a DEF Passes
  <2>3. /\ filed' \in Seq(Passes) /\ Len(filed') = Len(filed) + 1
        /\ \A k \in 1..Len(filed) + 1 :
             filed'[k] = IF k = Len(filed) + 1 THEN [at |-> a, bucket |-> b, heard |-> got] ELSE filed[k]
    BY <1>6, <2>1, <2>2
  <2>4. \A k \in 1..Len(filed') : filed'[k].bucket >= BUCKETS
    BY <1>4, <2>1, <2>3
  <2>5. Len(filed') <= MAX_PASSES
    BY <1>5, <2>1, <2>3, ClimateSizes
  <2> QED BY <2>3, <2>4, <2>5 DEF FiledOK
<1>9. CellsTell'
  BY ONLY ClimateInv, <1>4, <1>6, <1>8, <1>a, here \in SUBSET Die, got \in [here -> Degree], CellsKept
<1>10. KeysTell'
  BY ONLY ClimateInv, <1>4, <1>6, <1>a, here \in SUBSET Die, got \in [here -> Degree], KeysKept
<1>11. RingOK'
  BY ONLY ClimateInv, <1>4, <1>6, <1>9, here \in SUBSET Die, got \in [here -> Degree], RingKept
<1>12. InOrder'
  <2> SUFFICES ASSUME ~backward, NEW k \in 1..Len(filed'), NEW j \in k..Len(filed')
               PROVE  filed'[k].bucket <= b /\ filed'[k].bucket <= filed'[j].bucket
    BY <1>3, <1>5 DEF InOrder, b
  <2>1. filed \in Seq(Passes) /\ Len(filed) \in Nat
    BY DEF FiledOK
  <2>2. /\ Len(filed') = Len(filed) + 1
        /\ \A m \in 1..Len(filed) : filed'[m] = filed[m]
        /\ filed'[Len(filed) + 1].bucket = b
    BY <1>6, <2>1
  <2>3. \A m \in 1..Len(filed) : /\ filed[m].bucket <= b
                                 /\ \A l \in m..Len(filed) : filed[m].bucket <= filed[l].bucket
    BY DEF InOrder, b
  <2> QED BY <1>4, <2>1, <2>2, <2>3
<1> QED BY <1>7, <1>8, <1>9, <1>10, <1>11, <1>12

LEMMA ClimateKeeps == ClimateInv /\ [ClimateNext]_climateVars => ClimateInv'
<1> SUFFICES ASSUME ClimateInv, [ClimateNext]_climateVars PROVE ClimateInv'
  OBVIOUS
<1>1. ASSUME ClockOK', UNCHANGED <<temps, filed>>, InOrder' PROVE ClimateInv'
  <2>1. RingOK' /\ FiledOK' /\ KeysTell'
    BY <1>1 DEF ClimateInv, RingOK, FiledOK, KeysTell
  <2>2. CellsTell'
    BY <1>1 DEF ClimateInv, CellsTell
  <2> QED BY <1>1, <2>1, <2>2 DEF ClimateInv
<1>2. CASE Pass
  BY <1>2, PassKeeps
<1>3. CASE (\E st \in Stat : SetMode(st)) \/ UNCHANGED climateVars
  <2>1. /\ clock' = clock /\ backward' = backward /\ temps' = temps /\ filed' = filed
        /\ drawn' \in {clock, drawn} /\ stat' \in Stat \cup {stat}
        /\ glass'.stat \in Stat \cup {glass.stat}
    BY <1>3 DEF SetMode, Render, climateVars
  <2>2. ClockOK' /\ InOrder'
    BY <2>1 DEF ClimateInv, ClockOK, InOrder
  <2> QED BY <1>1, <2>1, <2>2
<1>4. CASE \E t \in {0} \cup SANE_S..MAX_CLOCK : t # clock /\ ClockGoes(t)
  <2>1. PICK t \in {0} \cup SANE_S..MAX_CLOCK : ClockGoes(t)
    BY <1>4
  <2>2. /\ clock' = t /\ temps' = temps /\ filed' = filed /\ drawn' = drawn
        /\ stat' = stat /\ glass' = glass
        /\ backward' = (backward \/ t < clock)
    BY <2>1 DEF ClockGoes
  <2>3. t \in 0..MAX_CLOCK /\ clock \in 0..MAX_CLOCK /\ t \in Nat /\ clock \in Nat
    BY ClimateSizes DEF ClimateInv, ClockOK
  <2>4. backward' \in BOOLEAN
    BY <2>2, Zenon DEF ClimateInv, ClockOK
  <2>5. ClockOK'
    BY <2>2, <2>3, <2>4 DEF ClimateInv, ClockOK
  <2>6. InOrder'
    <3> SUFFICES ASSUME ~backward'
                 PROVE  \A k \in 1..Len(filed) :
                          /\ filed[k].bucket <= Bucket(t)
                          /\ \A j \in k..Len(filed) : filed[k].bucket <= filed[j].bucket
      BY <2>2 DEF InOrder
    <3>1. ~backward /\ ~(t < clock)
      BY <2>2
    <3>2. Bucket(clock) <= Bucket(t) /\ Bucket(clock) \in Nat /\ Bucket(t) \in Nat
      BY <2>3, <3>1, BucketInOrder
    <3>3. \A k \in 1..Len(filed) : filed[k].bucket \in Nat
      <4> SUFFICES ASSUME NEW k \in 1..Len(filed) PROVE filed[k].bucket \in Nat
        OBVIOUS
      <4>1. filed[k] \in Passes
        BY DEF ClimateInv, FiledOK
      <4> QED BY <4>1 DEF Passes
    <3> QED BY <3>1, <3>2, <3>3 DEF ClimateInv, InOrder
  <2> QED BY <1>1, <2>2, <2>5, <2>6
<1> QED BY <1>2, <1>3, <1>4 DEF ClimateNext

THEOREM ClimateKept == ClimateSpec => []ClimateInv
<1> QED BY ClimateStarts, ClimateKeeps, PTL DEF ClimateSpec

----------------------------------------------------------------------------
(* The climate: what the chart tells *)

LEMMA Extremes ==
  ASSUME NEW S, \A x \in S : x \in Int, NEW m \in S
  PROVE  /\ (\A x \in S : x <= m) => Max(S) = m
         /\ (\A x \in S : m <= x) => Min(S) = m
<1>1. ASSUME \A x \in S : x <= m PROVE Max(S) = m
  <2>1. \A x \in S : m >= x
    BY <1>1
  <2>2. Max(S) \in S /\ \A x \in S : Max(S) >= x
    BY <2>1, Zenon DEF Max
  <2> HIDE DEF Max
  <2>3. Max(S) >= m /\ Max(S) <= m /\ Max(S) \in Int /\ m \in Int
    BY <1>1, <2>2
  <2> QED BY ONLY <2>3
<1>2. ASSUME \A x \in S : m <= x PROVE Min(S) = m
  <2>1. \A x \in S : m <= x
    BY <1>2
  <2>2. Min(S) \in S /\ \A x \in S : Min(S) <= x
    BY <2>1, Zenon DEF Min
  <2>3. Min(S) >= m /\ Min(S) <= m /\ Min(S) \in Int /\ m \in Int
    BY <1>2, <2>2
  <2> QED BY ONLY <2>3
<1> QED BY <1>1, <1>2

LEMMA InWindow ==
  ASSUME ClockOK, Sane(clock), NEW k \in 0..BUCKETS - 1
  PROVE  WindowStart(clock) + k \in Nat /\ SlotOf(WindowStart(clock) + k) \in Bin
<1>1. clock \in Nat
  BY ClimateSizes DEF ClockOK
<1>2. Bucket(clock) \in Nat /\ Bucket(clock) >= BUCKETS
  BY <1>1, SaneBucket
<1>3. WindowStart(clock) + k \in Nat
  BY <1>2, ClimateSizes DEF WindowStart
<1> QED BY <1>3, SlotIn

\* What a cell shows of itself, and the passes it should be showing.
Show(c, st) ==
  IF c.n = 0 THEN 0
  ELSE CASE st = "max" -> c.max [] st = "min" -> c.min [] st = "avg" -> Quotient(c.sum, c.n)

Heeded(log, n, b, i) ==
  {j \in {k \in 1..n :
            /\ log[k].bucket = b
            /\ \A j \in k + 1..n :
                 SlotOf(log[j].bucket) = SlotOf(b) /\ DOMAIN log[j].heard # {} => log[j].bucket = b} :
     i \in DOMAIN log[j].heard}

\* The point p shows the first n passes of a log, of node i under bucket b.
Depicts(p, st, log, n, i, b) ==
  \E c \in CellState : Tells(c, Readings(log, i), Heeded(log, n, b, i)) /\ p = Show(c, st)

\* A point that shows some passes is what they told.
LEMMA ShownIsTold ==
  ASSUME FiledOK, NEW n \in 0..Len(filed), NEW i, NEW b, NEW st \in Stat, NEW p,
         Depicts(p, st, filed, n, i, b)
  PROVE  p = Told(n, i, b, st)
<1> DEFINE H == {j \in Standing(n, b) : i \in DOMAIN filed[j].heard}
           R == Readings(filed, i)
           told == {filed[j].heard[i] : j \in H}
           total == MapThenSumSet(LAMBDA j : filed[j].heard[i], H)
<1>1. H = Heeded(filed, n, b, i)
  BY DEF Heeded, Standing
<1>2. Told(n, i, b, st) =
        IF H = {} THEN 0
        ELSE CASE st = "max" -> Max(told) [] st = "min" -> Min(told)
               [] st = "avg" -> Quotient(total, Cardinality(H))
  BY DEF Told
<1>3. PICK c \in CellState : Tells(c, R, H) /\ p = Show(c, st)
  BY <1>1 DEF Depicts
<1>4. \A j \in H : j \in 1..Len(filed) /\ R[j] = filed[j].heard[i]
  <2>1. Len(filed) \in Nat
    BY DEF FiledOK
  <2>2. H \subseteq 1..n /\ 1..n \subseteq 1..Len(filed)
    BY <1>1, <2>1 DEF Heeded
  <2> QED BY <2>2 DEF Readings
<1> HIDE DEF R, H
<1>5. CASE H = {}
  <2>1. c.n = 0
    BY <1>3, <1>5, FS_EmptySet DEF Tells
  <2> QED BY <1>2, <1>3, <1>5, <2>1 DEF Show
<1>6. CASE H # {}
  <2>1. /\ IsFiniteSet(H) /\ c.n = Cardinality(H) /\ c.sum = Total(R, H)
        /\ \A j \in H : R[j] \in Int
        /\ (\E j \in H : R[j] = c.max) /\ (\E j \in H : R[j] = c.min)
        /\ \A j \in H : c.min <= R[j] /\ R[j] <= c.max
    BY <1>3, <1>6 DEF Tells
  <2>2. c.n # 0
    BY <1>6, <2>1, FS_EmptySet
  <2>3. total = c.sum
    <3> DEFINE F == [j \in H |-> filed[j].heard[i]]
    <3>1. total = Total(F, H)
      <4> DEFINE Fold(g) == g = [s \in SUBSET H |->
                                  IF s = {} THEN 0 ELSE filed[First(s)].heard[i] + g[s \ {First(s)}]]
                 it == CHOOSE g : Fold(g)
      <4>1. ASSUME NEW g PROVE Fold(g) <=> Builds(g, F, H)
        <5>1. \A s \in SUBSET H : s # {} => F[First(s)] = filed[First(s)].heard[i]
          BY FirstIn
        <5> HIDE DEF F
        <5> QED BY <5>1 DEF Builds, Folds
      <4>2. \E g : Builds(g, F, H)
        BY <2>1, FoldsAll
      <4>3. Fold(it)
        <5> HIDE DEF Fold
        <5> QED BY <4>1, <4>2, Zenon
      <4>4. total = it[H]
        BY DEF MapThenSumSet, MapThenFoldSet, First
      <4>5. PICK g : Builds(g, F, H) /\ Total(F, H) = g[H]
        BY <2>1, TotalFolds
      <4>6. Builds(it, F, H) /\ Builds(g, F, H) /\ IsFiniteSet(H)
        BY <2>1, <4>1, <4>3, <4>5
      <4> HIDE DEF it, F, total
      <4>7. \A s \in SUBSET H : s \subseteq H /\ (\A x \in s : F[x] = F[x]) => it[s] = g[s]
        BY ONLY <4>6, FoldsSame
      <4> QED BY <4>4, <4>5, <4>7
    <3>2. \A j \in H : F[j] = R[j]
      BY <1>4
    <3> HIDE DEF F, total
    <3>3. Total(F, H) = Total(R, H)
      BY <2>1, <3>2, TotalSame
    <3> QED BY <2>1, <3>1, <3>3
  <2>4. Max(told) = c.max /\ Min(told) = c.min
    <3>1. \A x \in told : x \in Int /\ c.min <= x /\ x <= c.max
      BY <1>4, <2>1
    <3>2. c.max \in told /\ c.min \in told
      BY <1>4, <2>1
    <3> HIDE DEF told
    <3> QED BY <3>1, <3>2, Extremes
  <2> HIDE DEF told, total
  <2> QED BY <1>2, <1>3, <1>6, <2>1, <2>2, <2>3, <2>4 DEF Show, Stat
<1> QED BY <1>5, <1>6

\* The ring, asked for any bucket at all, shows every pass there was.
RingShows ==
  \A i \in Die, b \in Nat, st \in Stat :
    Depicts(Value(temps, i, b, st), st, filed, Len(filed), i, b)

LEMMA CellsShow == ClimateInv => RingShows
<1> SUFFICES ASSUME ClimateInv, NEW i \in Die, NEW b \in Nat, NEW st \in Stat
             PROVE  Depicts(Value(temps, i, b, st), st, filed, Len(filed), i, b)
  BY DEF RingShows
<1> DEFINE s0 == SlotOf(b)
           c == temps.cell[i][s0]
           R == Readings(filed, i)
<1>1. s0 \in Bin
  BY SlotIn
<1>2. Heeded(filed, Len(filed), b, i) = Of(filed, b, i)
  BY DEF Heeded, Of, Stand
<1>3. Tells(c, R, Of(filed, temps.key[s0], i))
  BY <1>1 DEF ClimateInv, CellsTell
<1>4. Value(temps, i, b, st) = IF temps.key[s0] # b THEN 0 ELSE Show(c, st)
  BY DEF Value, Show, Stat
<1> HIDE DEF c, R
<1>5. CASE temps.key[s0] = b
  <2>1. c \in CellState
    BY <1>3 DEF Tells
  <2> HIDE DEF s0
  <2> QED BY <1>2, <1>3, <1>4, <1>5, <2>1 DEF Depicts, R
<1>6. CASE temps.key[s0] # b
  <2>1. Of(filed, b, i) = {}
    <3> SUFFICES ASSUME NEW j \in Of(filed, b, i) PROVE FALSE
      OBVIOUS
    <3>1. j \in 1..Len(filed) /\ filed[j].bucket = b /\ j \in Stand(filed, b) /\ DOMAIN filed[j].heard # {}
      BY DEF Of, Stand
    <3> QED BY <1>6, <3>1 DEF ClimateInv, KeysTell
  <2>2. Tells(NoCell, R, {}) /\ NoCell \in CellState /\ Show(NoCell, st) = 0
    BY NoneTells DEF NoCell, CellState, Show
  <2> QED BY <1>2, <1>4, <1>6, <2>1, <2>2 DEF Depicts, R
<1> QED BY <1>5, <1>6

LEMMA CellsShowNext == ClimateInv' => RingShows'
BY CellsShow, PTL

LEMMA Tell == ClimateInv => PointsTell
<1> SUFFICES ASSUME ClimateInv, Sane(clock), NEW st \in Stat, NEW i \in Die,
                    NEW k \in 0..BUCKETS - 1
             PROVE  Chart(temps, st)[i][k] = Told(Len(filed), i, WindowStart(clock) + k, st)
  BY DEF PointsTell
<1> DEFINE b == WindowStart(clock) + k
<1>1. b \in Nat
  BY InWindow DEF ClimateInv
<1>2. Chart(temps, st)[i][k] = Value(temps, i, b, st)
  BY DEF Chart
<1>3. Len(filed) \in 0..Len(filed) /\ FiledOK
  BY DEF ClimateInv, FiledOK
<1> HIDE DEF b
<1>4. Depicts(Value(temps, i, b, st), st, filed, Len(filed), i, b)
  BY <1>1, CellsShow DEF RingShows
<1>5. Value(temps, i, b, st) = Told(Len(filed), i, b, st)
  BY <1>3, <1>4, ShownIsTold
<1> QED BY <1>2, <1>5 DEF b

LEMMA Whole == ClimateInv => WindowWhole
<1> SUFFICES ASSUME ClimateInv, ~backward, NEW k \in 1..Len(filed),
                    filed[k].bucket >= WindowStart(clock)
             PROVE  k \in Standing(Len(filed), filed[k].bucket)
  BY DEF WindowWhole
<1>1. SUFFICES ASSUME NEW j \in k + 1..Len(filed), SlotOf(filed[j].bucket) = SlotOf(filed[k].bucket)
               PROVE  filed[j].bucket = filed[k].bucket
  BY DEF Standing
<1>2. Len(filed) \in Nat /\ \A m \in 1..Len(filed) : filed[m].bucket \in Nat
  <2>1. filed \in Seq(Passes)
    BY DEF ClimateInv, FiledOK
  <2>2. \A m \in 1..Len(filed) : filed[m] \in Passes
    BY <2>1
  <2> QED BY <2>1, <2>2 DEF Passes
<1> DEFINE x == filed[k].bucket
           y == filed[j].bucket
<1>3. j \in 1..Len(filed) /\ j \in k..Len(filed)
  BY <1>2
<1>4. x \in Nat /\ y \in Nat /\ x <= y /\ y <= Bucket(clock)
  BY <1>2, <1>3 DEF ClimateInv, InOrder
<1>5. clock \in Nat /\ Bucket(clock) \in Nat
  <2>1. clock \in Nat
    BY ClimateSizes DEF ClimateInv, ClockOK
  <2> QED BY <2>1, BucketInOrder
<1>6. Bucket(clock) - (BUCKETS - 1) <= x
  BY DEF WindowStart
<1>7. x % BUCKETS = y % BUCKETS
  BY <1>1 DEF SlotOf
<1> HIDE DEF x, y
<1>8. y <= x + BUCKETS - 1
  BY <1>4, <1>5, <1>6, ClimateSizes
<1>9. x = y
  BY <1>4, <1>7, <1>8, ClimateSizes, SlotsApart
<1> QED BY <1>9 DEF x, y

\* Each point of the chart is the statistic of the readings filed under its
\* bucket for its node, wherever the clock has been, and while the clock has only
\* gone forward none of the last BUCKETS buckets has lost one: for any nodes, any
\* size of the ring and any passes.
THEOREM ChartsClimate == ClimateSpec => []ChartTells
<1>1. ClimateInv => ChartTells
  BY Tell, Whole DEF ChartTells
<1> QED BY <1>1, ClimateKept, PTL

----------------------------------------------------------------------------
(* The climate: what stands on the glass *)

\* A glass g drawn at second d shows the first passes of a log, and of the others
\* none that is older or ten seconds younger.
Painted(g, d, log) ==
  \E n \in 0..Len(log) :
    /\ \A i \in Die, k \in 0..BUCKETS - 1 :
         Depicts(g.point[i][k], g.stat, log, n, i, WindowStart(d) + k)
    /\ \A j \in n + 1..Len(log) : d <= log[j].at /\ log[j].at - d < REDRAW_S

\* Whatever is drawn is drawn by a clock that is set; a button pressed while it is
\* not leaves the glass alone, and then the clock has been set back.
GlassInv ==
  /\ drawn # 0 => Sane(drawn) /\ Painted(glass, drawn, filed) /\ (backward \/ glass.stat = stat)
  /\ backward \/ drawn <= clock

LEMMA RenderPaints ==
  ASSUME ClockOK, Sane(clock), NEW h, NEW log, NEW g, NEW st \in Stat, Len(log) \in Nat,
         \A i \in Die, b \in Nat : Depicts(Value(h, i, b, st), st, log, Len(log), i, b),
         g = [stat |-> st, point |-> Chart(h, st)]
  PROVE  Painted(g, clock, log)
<1> DEFINE n == Len(log)
<1>1. n \in 0..Len(log) /\ n + 1..Len(log) = {}
  OBVIOUS
<1>2. ASSUME NEW i \in Die, NEW k \in 0..BUCKETS - 1
      PROVE  Depicts(g.point[i][k], g.stat, log, n, i, WindowStart(clock) + k)
  <2>1. WindowStart(clock) + k \in Nat
    BY InWindow
  <2>2. g.stat = st /\ g.point[i][k] = Value(h, i, WindowStart(clock) + k, st)
    BY DEF Chart
  <2> QED BY <2>1, <2>2
<1> HIDE DEF n
<1> QED BY <1>1, <1>2 DEF Painted, n

\* One more pass, soon enough, takes nothing from a glass.
LEMMA StillPainted ==
  ASSUME NEW g, NEW d \in Nat, NEW log \in Seq(Passes), NEW next, Painted(g, d, log),
         NEW a \in Nat, NEW b \in Nat, NEW here \in SUBSET Die, NEW got \in [here -> Degree],
         FilesAt(next, log, a, b, got), d <= a, a - d < REDRAW_S
  PROVE  Painted(g, d, next)
<1>1. /\ Len(log) \in Nat /\ Len(next) = Len(log) + 1
      /\ \A j \in 1..Len(log) : next[j] = log[j]
      /\ next[Len(log) + 1].at = a
  BY DEF FilesAt
<1>2. PICK n \in 0..Len(log) :
        /\ \A i \in Die, k \in 0..BUCKETS - 1 :
             Depicts(g.point[i][k], g.stat, log, n, i, WindowStart(d) + k)
        /\ \A j \in n + 1..Len(log) : d <= log[j].at /\ log[j].at - d < REDRAW_S
  BY DEF Painted
<1>3. n \in Nat /\ n <= Len(log) /\ n \in 0..Len(next) /\ \A j \in 1..n : next[j] = log[j]
  BY <1>1
<1>4. \A j \in n + 1..Len(next) : d <= next[j].at /\ next[j].at - d < REDRAW_S
  <2> SUFFICES ASSUME NEW j \in n + 1..Len(next)
               PROVE  d <= next[j].at /\ next[j].at - d < REDRAW_S
    OBVIOUS
  <2>1. CASE j = Len(log) + 1
    BY <1>1, <2>1
  <2>2. CASE j # Len(log) + 1
    <3>1. j \in n + 1..Len(log) /\ j \in 1..Len(log)
      BY <1>1, <1>3, <2>2
    <3> QED BY <1>1, <1>2, <3>1
  <2> QED BY <2>1, <2>2
<1>5. ASSUME NEW i \in Die, NEW e, NEW p, NEW st, Depicts(p, st, log, n, i, e)
      PROVE  Depicts(p, st, next, n, i, e)
  <2>1. PICK c \in CellState : Tells(c, Readings(log, i), Heeded(log, n, e, i)) /\ p = Show(c, st)
    BY <1>5 DEF Depicts
  <2>2. Heeded(next, n, e, i) = Heeded(log, n, e, i)
    <3>1. \A k \in 1..n : \A j \in k + 1..n : j \in 1..n
      BY <1>3
    <3> QED BY <1>3, <3>1 DEF Heeded
  <2>3. \A j \in Heeded(log, n, e, i) : Readings(next, i)[j] = Readings(log, i)[j]
    <3>1. \A j \in Heeded(log, n, e, i) : j \in 1..n
      BY DEF Heeded
    <3>2. \A j \in 1..n : j \in 1..Len(log) /\ j \in 1..Len(next)
      BY <1>1, <1>3
    <3> QED BY <1>3, <3>1, <3>2 DEF Readings
  <2>4. Tells(c, Readings(next, i), Heeded(next, n, e, i))
    BY <2>1, <2>2, <2>3, SameTells
  <2> QED BY <2>1, <2>4 DEF Depicts
<1>6. \A i \in Die, k \in 0..BUCKETS - 1 :
        Depicts(g.point[i][k], g.stat, next, n, i, WindowStart(d) + k)
  BY <1>2, <1>5
<1> QED BY <1>3, <1>4, <1>6 DEF Painted

\* A pass that draws nothing comes less than ten seconds after the one that did:
\* a clock that went back, and one that was never drawn at, are both a difference
\* of nearly the whole word.
LEMMA NotDue ==
  ASSUME ClockOK, Sane(clock), ~Redraw
  PROVE  drawn <= clock /\ clock - drawn < REDRAW_S
<1>1. /\ clock \in Nat /\ drawn \in Nat /\ clock < WORD /\ drawn < WORD
      /\ WORD \in Nat /\ REDRAW_S \in Nat /\ REDRAW_S <= clock
  BY ClimateSizes DEF ClockOK, Sane
<1>2. CASE drawn <= clock
  <2> DEFINE d == clock - drawn
  <2>1. d \in Nat /\ d < WORD
    BY <1>1, <1>2
  <2>2. d % WORD = d
    BY <1>1, <2>1
  <2> QED BY <1>1, <1>2, <2>1, <2>2 DEF Redraw
<1>3. CASE clock < drawn
  <2> DEFINE d == clock - drawn
  <2>1. d \in Int /\ d + WORD \in 0..WORD - 1 /\ d + WORD >= REDRAW_S
    BY <1>1, <1>3
  <2>2. d % WORD = d + WORD
    BY <1>1, <2>1
  <2> QED BY <1>1, <2>1, <2>2 DEF Redraw
<1> QED BY <1>1, <1>2, <1>3

LEMMA GlassStarts == ClimateInit => GlassInv
BY ClimateSizes DEF ClimateInit, GlassInv

LEMMA GlassKept == ClimateInv /\ GlassInv /\ [ClimateNext]_climateVars => GlassInv'
<1> SUFFICES ASSUME ClimateInv, GlassInv, [ClimateNext]_climateVars PROVE GlassInv'
  OBVIOUS
<1>1. ClimateInv'
  BY ClimateKeeps
<1>2. /\ clock \in Nat /\ drawn \in Nat /\ backward \in BOOLEAN /\ filed \in Seq(Passes)
      /\ stat \in Stat /\ ClockOK
  BY ClimateSizes DEF ClimateInv, ClockOK, FiledOK
<1>3. Sane(clock) => clock # 0
  <2>1. 0 \div BUCKET_S = 0
    BY ClimateSizes
  <2> QED BY <1>2, <2>1, ClimateSizes, SaneBucket DEF Bucket
<1>4. CASE Pass
  <2>1. /\ Sane(clock) /\ clock' = clock /\ backward' = backward /\ stat' = stat
        /\ IF Redraw THEN Render(temps', stat) ELSE drawn' = drawn /\ glass' = glass
    BY <1>4 DEF Pass
  <2>2. CASE Redraw
    <3>1. drawn' = clock /\ glass' = [stat |-> stat, point |-> Chart(temps', stat)]
      BY <2>1, <2>2 DEF Render
    <3>2. \A i \in Die, b \in Nat :
            Depicts(Value(temps', i, b, stat), stat, filed', Len(filed'), i, b)
      BY <1>1, <1>2, CellsShowNext DEF RingShows
    <3>3. Len(filed') \in Nat
      BY <1>1 DEF ClimateInv, FiledOK
    <3> DEFINE h == temps'
               log == filed'
               g == glass'
    <3>4. /\ \A i \in Die, b \in Nat : Depicts(Value(h, i, b, stat), stat, log, Len(log), i, b)
          /\ Len(log) \in Nat /\ g = [stat |-> stat, point |-> Chart(h, stat)]
      BY <3>1, <3>2, <3>3
    <3> HIDE DEF h, log, g
    <3>5. Painted(g, clock, log)
      BY ONLY <1>2, <2>1, <3>4, RenderPaints
    <3>6. Painted(glass, drawn, filed)'
      BY <3>1, <3>5 DEF h, log, g
    <3> QED BY <1>2, <2>1, <3>1, <3>6 DEF GlassInv
  <2>3. CASE ~Redraw
    <3>1. drawn <= clock /\ clock - drawn < REDRAW_S /\ drawn' = drawn /\ glass' = glass
      BY <1>2, <2>1, <2>3, NotDue
    <3>2. PICK here \in SUBSET Die : \E got \in [here -> Degree] : File(got)
      BY <1>4, Zenon DEF Pass
    <3>3. PICK got \in [here -> Degree] : File(got)
      BY <3>2
    <3> DEFINE next == filed'
               b == Bucket(clock)
    <3>4. FilesAt(next, filed, clock, b, got) /\ b \in Nat
      BY <1>2, <3>3, BucketInOrder DEF File, FilesAt
    <3> HIDE DEF next, b
    <3>5. Painted(glass, drawn, filed) => Painted(glass, drawn, next)
      BY ONLY <1>2, <3>1, <3>4, here \in SUBSET Die, got \in [here -> Degree], StillPainted
    <3>6. Painted(glass, drawn, filed) => Painted(glass, drawn, filed)'
      BY <3>1, <3>5 DEF next
    <3> QED BY <1>2, <2>1, <3>1, <3>6 DEF GlassInv
  <2> QED BY <2>2, <2>3
<1>5. ASSUME NEW st \in Stat, SetMode(st) PROVE GlassInv'
  <2>1. /\ clock' = clock /\ backward' = backward /\ stat' = st /\ filed' = filed
        /\ IF Sane(clock) THEN Render(temps, st) ELSE drawn' = drawn /\ glass' = glass
    BY <1>5 DEF SetMode
  <2>2. CASE Sane(clock)
    <3>1. drawn' = clock /\ glass' = [stat |-> st, point |-> Chart(temps, st)]
      BY <2>1, <2>2 DEF Render
    <3> DEFINE g == glass'
    <3>2. /\ \A i \in Die, b \in Nat : Depicts(Value(temps, i, b, st), st, filed, Len(filed), i, b)
          /\ Len(filed) \in Nat /\ g = [stat |-> st, point |-> Chart(temps, st)]
      BY <1>2, <3>1, CellsShow DEF RingShows
    <3> HIDE DEF g
    <3>3. Painted(g, clock, filed)
      BY ONLY <1>2, <2>2, st \in Stat, <3>2, RenderPaints
    <3>4. Painted(glass, drawn, filed)'
      BY <2>1, <3>1, <3>3 DEF g
    <3> QED BY <1>2, <2>1, <2>2, <3>1, <3>4 DEF GlassInv
  <2>3. CASE ~Sane(clock)
    <3>1. drawn' = drawn /\ glass' = glass
      BY <2>1, <2>3
    <3>2. drawn # 0 => backward
      BY <1>2, <2>3, ClimateSizes DEF GlassInv, Sane
    <3>3. Painted(glass, drawn, filed) => Painted(glass, drawn, filed)'
      BY <2>1, <3>1
    <3> QED BY <1>2, <2>1, <3>1, <3>2, <3>3 DEF GlassInv
  <2> QED BY <2>2, <2>3
<1>6. ASSUME NEW t \in {0} \cup SANE_S..MAX_CLOCK, ClockGoes(t) PROVE GlassInv'
  <2>1. /\ clock' = t /\ backward' = (backward \/ t < clock) /\ drawn' = drawn /\ glass' = glass
        /\ filed' = filed /\ stat' = stat /\ t \in Nat
    BY <1>6, ClimateSizes DEF ClockGoes
  <2>2. Painted(glass, drawn, filed) => Painted(glass, drawn, filed)'
    BY <2>1
  <2>3. backward' \/ (~backward /\ clock <= t)
    <3>1. ~backward' => ~backward /\ ~(t < clock)
      BY <2>1, Zenon
    <3> QED BY <1>2, <2>1, <3>1
  <2>4. backward' \/ drawn' <= clock'
    BY <1>2, <2>1, <2>3 DEF GlassInv
  <2>5. backward => backward'
    BY <2>1
  <2> QED BY <2>1, <2>2, <2>4, <2>5 DEF GlassInv
<1>7. CASE UNCHANGED climateVars
  <2>1. /\ clock' = clock /\ backward' = backward /\ drawn' = drawn /\ glass' = glass
        /\ filed' = filed /\ stat' = stat
    BY <1>7 DEF climateVars
  <2> QED BY <2>1 DEF GlassInv
<1> QED BY <1>4, <1>5, <1>6, <1>7 DEF ClimateNext

\* What stands on the glass is true of the window it was drawn for, whatever the
\* clock, the buttons and the nodes have done since; and no pass that it leaves out
\* was filed ten seconds after it or before it, since the difference of
\* ui.c:1563 is unsigned.
THEOREM GlassIsTrue == ClimateSpec => []GlassTells
<1>1. ClimateInv /\ GlassInv => GlassTells
  <2> SUFFICES ASSUME ClimateInv, GlassInv, drawn # 0
               PROVE  /\ \E n \in 0..Len(filed) :
                           /\ \A i \in Die, k \in 0..BUCKETS - 1 :
                                glass.point[i][k] = Told(n, i, WindowStart(drawn) + k, glass.stat)
                           /\ \A j \in n + 1..Len(filed) :
                                drawn <= filed[j].at /\ filed[j].at - drawn < REDRAW_S
                      /\ backward \/ glass.stat = stat
    BY DEF GlassTells
  <2>1. Painted(glass, drawn, filed) /\ (backward \/ glass.stat = stat)
    BY DEF GlassInv
  <2>2. PICK n \in 0..Len(filed) :
          /\ \A i \in Die, k \in 0..BUCKETS - 1 :
               Depicts(glass.point[i][k], glass.stat, filed, n, i, WindowStart(drawn) + k)
          /\ \A j \in n + 1..Len(filed) :
               drawn <= filed[j].at /\ filed[j].at - drawn < REDRAW_S
    BY <2>1 DEF Painted
  <2>3. FiledOK /\ glass.stat \in Stat
    BY DEF ClimateInv, ClockOK
  <2>4. \A i \in Die, k \in 0..BUCKETS - 1 :
          glass.point[i][k] = Told(n, i, WindowStart(drawn) + k, glass.stat)
    BY <2>2, <2>3, ShownIsTold
  <2> QED BY <2>1, <2>2, <2>4
<1> QED BY <1>1, ClimateStarts, ClimateKeeps, GlassStarts, GlassKept, PTL DEF ClimateSpec

\* The climate keeps to its types: no cell counts more readings than there were
\* passes, and its sum lies between as many minima and as many maxima.
THEOREM ClimateTyped == ClimateSpec => []ClimateTypeOK
<1>1. ClimateInv => ClimateTypeOK
  <2> SUFFICES ASSUME ClimateInv PROVE ClimateTypeOK
    OBVIOUS
  <2>1. /\ clock \in 0..MAX_CLOCK /\ drawn \in 0..MAX_CLOCK /\ backward \in BOOLEAN
        /\ temps.key \in [Bin -> AnyBucket] /\ Len(filed) <= MAX_PASSES /\ filed \in Seq(Passes)
        /\ stat \in Stat /\ glass.stat \in Stat
    BY DEF ClimateInv, ClockOK, RingOK, FiledOK
  <2>2. ASSUME NEW i \in Die, NEW s \in Bin
        PROVE  LET c == temps.cell[i][s]
               IN  c.n \in 0..MAX_PASSES /\ (c.n > 0 => c.n * c.min <= c.sum /\ c.sum <= c.n * c.max)
    <3> DEFINE c == temps.cell[i][s]
               H == Of(filed, temps.key[s], i)
               n == Len(filed)
    <3>1. Tells(c, Readings(filed, i), H)
      BY DEF ClimateInv, CellsTell
    <3>2. H \subseteq 1..n
      BY DEF Of, Stand
    <3> HIDE DEF c, H
    <3>3. n \in Nat /\ 1 \in Int /\ n \in Int
      BY <2>1
    <3>4. IsFiniteSet(1..n) /\ Cardinality(1..n) = n
      <4> HIDE DEF n
      <4> QED BY <3>3, FS_Interval
    <3>5. Cardinality(H) <= n
      <4>1. Cardinality(H) <= Cardinality(1..n)
        BY <3>2, <3>4, FS_Subset
      <4> QED BY <3>4, <4>1
    <3>6. /\ c.n \in Nat /\ c.n = Cardinality(H)
          /\ c.n > 0 => c.n * c.min <= c.sum /\ c.sum <= c.n * c.max
      BY <3>1 DEF Tells, CellState
    <3>7. c.n \in 0..MAX_PASSES
      BY <2>1, <3>3, <3>5, <3>6, ClimateSizes
    <3> QED BY <3>6, <3>7 DEF c
  <2> QED BY <2>1, <2>2 DEF ClimateTypeOK
<1> QED BY <1>1, ClimateKept, PTL

----------------------------------------------------------------------------
(* The parts in one run *)

\* Each part behaves in the run they share as it does alone, so that what is
\* proved of a part is proved of the run.
THEOREM PartsApart == ObserverSpec => WindowSpec /\ RailSpec /\ ClimateSpec /\ ClockSpec
<1>1. ObserverInit => WindowInit /\ RailInit /\ ClimateInit /\ ClockInit
  BY DEF ObserverInit
<1>2. [ObserverNext]_<<scene, windowVars, railVars, climateVars, clockVars>> =>
        /\ [WindowNext]_windowVars /\ [RailNext]_railVars
        /\ [ClimateNext]_climateVars /\ [ClockNext]_clockVars
  BY DEF ObserverNext, WindowScene, RailScene, ClimateScene, ClockScene
<1> QED BY <1>1, <1>2, PTL DEF ObserverSpec, WindowSpec, RailSpec, ClimateSpec, ClockSpec

\* The parts behind the screens keep to their types, in any sizes.
THEOREM ObserverTyped == ObserverSpec => []ObserverTypeOK
<1>1. WindowTypeOK /\ RailTypeOK /\ ClimateTypeOK /\ ClockTypeOK => ObserverTypeOK
  BY DEF ObserverTypeOK
<1> QED BY <1>1, PartsApart, WindowTyped, RailTyped, ClimateTyped, ClockTyped, PTL
=============================================================================
