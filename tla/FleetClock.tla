----------------------------- MODULE FleetClock -----------------------------
(***************************************************************************)
(* The fleet's clock.  The blades fetch NTP; every blade whose clock is    *)
(* set says in a beacon which second it is; a receiver whose clock is      *)
(* unset, or too far from the beacon, sets its own to the start of that    *)
(* second (swarm.c, logic.h).                                              *)
(*                                                                         *)
(* A clock is kept as its error: how far it is from the truth, in parts of *)
(* a second.  A beacon in the air or in a queue is the error a clock would *)
(* have that were set from it now, so it grows older with every tick.      *)
(* Crystals do not drift and NTP is exact (external).                      *)
(***************************************************************************)
EXTENDS Integers

CONSTANTS
  Blade, Watcher,  \* the members with a wire to an NTP server, and the others
  SUB,             \* ticks in a second
  TOL,             \* TIME_ADOPT_TOL_S
  LAG,             \* ticks at most from reading the clock to the monitor's turn
  MAX_CUTS,        \* bound: power cuts
  MAX_HOPS         \* bound: a clock this many beacons from NTP sends none

ASSUME ClockAssumption ==
  /\ SUB \in Nat \ {0} /\ TOL \in Nat /\ LAG \in Nat /\ MAX_CUTS \in Nat /\ MAX_HOPS \in Nat
  /\ Blade \cap Watcher = {}

VARIABLES
  sane,     \* bohun_time_sane of the member's clock
  offset,   \* its error, in ticks
  origin,   \* s_clock_source
  inbox,    \* a beacon in its receive queue, or NoBeacon
  phase,    \* ticks since the true second began
  hops,     \* history: beacons between this clock and an NTP server
  cuts      \* history: power cuts so far

clockVars == <<sane, offset, origin, inbox, phase, hops, cuts>>

Clocked  == Blade \cup Watcher
NOBODY   == "nobody"

ASSUME NobodyAssumption == NOBODY \notin Clocked

NoBeacon == [from |-> NOBODY, error |-> 0, age |-> 0, hops |-> 0]

ClockTypeOK ==
  /\ sane \in [Clocked -> BOOLEAN] /\ offset \in [Clocked -> Int]
  /\ origin \in [Clocked -> Blade \cup {NOBODY}]
  /\ inbox \in [Clocked -> [from : Blade \cup {NOBODY}, error : Int, age : 0..LAG, hops : 0..MAX_HOPS]]
  /\ phase \in 0..SUB - 1
  /\ hops \in [Clocked -> 0..MAX_HOPS] /\ cuts \in 0..MAX_CUTS
  /\ \A m \in Clocked : origin[m] # m

\* The second that a clock with this error reads, counted from the true one.
Second(e) == (phase + e) \div SUB

Apart(a, b) == IF a > b THEN a - b ELSE b - a

\* Seeded slip: a disagreement as large as the tolerance is adopted too.
AdoptAtTolerance(m, e) == ~sane[m] \/ Apart(Second(offset[m]), Second(e)) >= TOL

\* bohun_time_adopt: the sender's clock is sane, or it would not have spoken.
Adopt(m, e) == ~sane[m] \/ Apart(Second(offset[m]), Second(e)) > TOL

----------------------------------------------------------------------------
(* Steps *)

\* esp_netif_sntp sets the clock, and nobody is asked.
Ntp(b) ==
  /\ sane' = [sane EXCEPT ![b] = TRUE] /\ offset' = [offset EXCEPT ![b] = 0]
  /\ hops' = [hops EXCEPT ![b] = 0]
  /\ UNCHANGED <<origin, inbox, phase, cuts>>

\* Seeded slip: whole seconds are rounded up.
SaidUp(b) == (Second(offset[b]) + 1) * SUB - phase

\* The beacon tells whole seconds.
Said(b) == Second(offset[b]) * SUB - phase

\* Every tenth heartbeat, and only with a clock; heard by some of the fleet.
Beacon(b) ==
  /\ sane[b] /\ hops[b] < MAX_HOPS
  /\ \E heard \in SUBSET {m \in Clocked \ {b} : inbox[m] = NoBeacon} :
       inbox' = [m \in Clocked |-> IF m \in heard
                 THEN [from |-> b, error |-> Said(b), age |-> 0, hops |-> hops[b] + 1]
                 ELSE inbox[m]]
  /\ UNCHANGED <<sane, offset, origin, phase, hops, cuts>>

\* The monitor's turn takes the beacon out of the queue.
Hear(m) ==
  /\ inbox[m] # NoBeacon /\ inbox' = [inbox EXCEPT ![m] = NoBeacon]
  /\ LET tf == inbox[m]
     IN  IF Adopt(m, tf.error)
         THEN /\ sane' = [sane EXCEPT ![m] = TRUE] /\ offset' = [offset EXCEPT ![m] = tf.error]
              /\ origin' = [origin EXCEPT ![m] = tf.from] /\ hops' = [hops EXCEPT ![m] = tf.hops]
         ELSE UNCHANGED <<sane, offset, origin, hops>>
  /\ UNCHANGED <<phase, cuts>>

\* The monitor takes its turn within LAG ticks.
ClockTick ==
  /\ \A m \in Clocked : inbox[m] # NoBeacon => inbox[m].age < LAG
  /\ inbox' = [m \in Clocked |-> IF inbox[m] = NoBeacon THEN NoBeacon
               ELSE [inbox[m] EXCEPT !.error = @ - 1, !.age = @ + 1]]
  /\ phase' = (phase + 1) % SUB
  /\ UNCHANGED <<sane, offset, origin, hops, cuts>>

\* A reset keeps the clock; a power cut does not.
Restart(m) ==
  /\ inbox' = [inbox EXCEPT ![m] = NoBeacon] /\ origin' = [origin EXCEPT ![m] = NOBODY]
  /\ \/ UNCHANGED <<sane, offset, hops, cuts>>
     \/ /\ cuts < MAX_CUTS /\ cuts' = cuts + 1
        /\ sane' = [sane EXCEPT ![m] = FALSE]
        /\ offset' = [offset EXCEPT ![m] = 0] /\ hops' = [hops EXCEPT ![m] = 0]
  /\ UNCHANGED phase

ClockInit ==
  /\ sane = [m \in Clocked |-> FALSE] /\ offset = [m \in Clocked |-> 0]
  /\ origin = [m \in Clocked |-> NOBODY] /\ inbox = [m \in Clocked |-> NoBeacon]
  /\ phase = 0 /\ hops = [m \in Clocked |-> 0] /\ cuts = 0

ClockNext ==
  \/ \E b \in Blade : Ntp(b) \/ Beacon(b)
  \/ \E m \in Clocked : Hear(m) \/ Restart(m)
  \/ ClockTick

ClockSpec == ClockInit /\ [][ClockNext]_clockVars

----------------------------------------------------------------------------
(* Properties *)

\* What one beacon may cost: the part of the second it leaves out, and its way.
PerHop == SUB - 1 + LAG

\* A clock, once set, is never ahead of the truth and behind it by no more than
\* the beacons between it and NTP account for, whatever was lost, queued,
\* reset or cut: no reading is ever filed under a bucket that has not begun.
ClockHonest ==
  \A m \in Clocked : sane[m] => offset[m] <= 0 /\ -offset[m] <= hops[m] * PerHop

\* "Never for jitter inside it, so a bucket edge cannot wander with the radio":
\* a beacon moves a clock that is set only if the beacons between one of the
\* two and NTP add up to more than the tolerance.
NoWander ==
  [][\A m \in Clocked :
       inbox[m] # NoBeacon /\ inbox'[m] = NoBeacon /\ sane[m] /\ offset'[m] # offset[m] /\ sane'[m] =>
         hops[m] * PerHop > TOL * SUB \/ inbox[m].hops * PerHop > TOL * SUB]_clockVars
=============================================================================
