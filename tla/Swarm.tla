------------------------------- MODULE Swarm -------------------------------
(***************************************************************************)
(* The fleet: every blade gossips a heartbeat, keeps a roster of what it   *)
(* heard, elects the lowest able id from it, and wears or drops the mask.  *)
(* swarm.c (heartbeat and monitor tasks) composed with mask.c (the swap of *)
(* identity and the link behind it), for a set of nodes and a lossy radio. *)
(*                                                                         *)
(* Time is discrete.  In one unit every running node sends one heartbeat   *)
(* and takes one turn of its monitor loop, in any order with everyone      *)
(* else's; Tick then ages every timer.  What happens to a node from the    *)
(* outside (power, cable, PHY, DHCP, readiness) happens between two units, *)
(* except that readiness, another task's variable, may also change in the  *)
(* middle of a turn, where the code reads it twice.  Module Mask has the   *)
(* book of reigns that a turn also keeps, and the steps of one swap.       *)
(***************************************************************************)
EXTENDS Logic

CONSTANTS
  Node,           \* fleet ids
  Eligible,       \* members whose ledger entry lets them lead
  Real,           \* nodes whose firmware has a real server aboard
  PEER_LOST,      \* units of radio silence after which a peer is lost
  LINK_GRACE,     \* units of link-down that are still taken for a bounce
  CLAIM_GRACE,    \* units a claimant without address still reads as serving
  CLAIM_TIMEOUT,  \* units after which a claim without address is given up
  MAX_BOUNCE,     \* units the PHY needs at most to come back, wire in place
  MAX_FAULTS,     \* bound: crashes, cuts, stand-downs and lossy heartbeats
  SETTLE,         \* bound: cap of the calm counter
  TAKEOVER,       \* bound: units the fleet may go without a wearer
  TWIN            \* bound: units the fleet may show two faces

NONE  == 0        \* s_leader_id = 0: nobody leads
NEVER == -1       \* s_link_down_us = 0: no link-down on record

ASSUME NodeAssumption == Node \subseteq Nat \ {NONE} /\ IsFiniteSet(Node)
ASSUME KindAssumption == Eligible \subseteq Node /\ Real \subseteq Node
ASSUME TimeAssumption ==
  /\ PEER_LOST \in Nat \ {0} /\ LINK_GRACE \in Nat
  /\ CLAIM_GRACE \in Nat /\ CLAIM_TIMEOUT \in Nat
  /\ MAX_BOUNCE \in Nat /\ MAX_FAULTS \in Nat /\ SETTLE \in Nat /\ TAKEOVER \in Nat /\ TWIN \in Nat

VARIABLES
  on,        \* powered and past boot
  wire,      \* the cable is plugged in
  node,      \* what each node knows of itself (the record below)
  roster,    \* swarm.c s_roster: what each node believes of each peer
  turned,    \* has this node taken its monitor turn in this unit
  beat,      \* has this node sent its heartbeat in this unit
  calm,      \* units since the last disturbance (history, capped)
  dark,      \* units on end without a wearer though one is fit (history, capped)
  twin,      \* units on end with two live faces (history, capped)
  faults     \* faults so far (bound)

sched == <<turned, beat>>
hist  == <<calm, dark, twin, faults>>
vars  == <<on, wire, node, roster, sched, hist>>

NodeState ==
  [ready    : BOOLEAN,                        \* serve_is_ready()
   link     : BOOLEAN,                        \* s_link_up
   downFor  : {NEVER} \cup 0..LINK_GRACE + 1, \* since s_link_down_us
   relink   : 0..MAX_BOUNCE,                  \* how long the PHY has been trying
   lease    : BOOLEAN,                        \* s_have_lease
   wearing  : BOOLEAN,                        \* s_wearing
   haveIp   : BOOLEAN,                        \* s_have_ip
   claimFor : 0..CLAIM_TIMEOUT + 1,           \* since s_wear_started_us, until the address
   leader   : Node \cup {NONE}]               \* s_leader_id

Entry == [age : 0..PEER_LOST, able : BOOLEAN]
Lost  == [age |-> PEER_LOST, able |-> FALSE]

\* A board without a server answers the weak serve_is_ready(): always true.
Booted(i) ==
  [ready |-> i \notin Real, link |-> FALSE, downFor |-> NEVER, relink |-> 0,
   lease |-> FALSE, wearing |-> FALSE, haveIp |-> FALSE, claimFor |-> 0,
   leader |-> NONE]

TypeOK ==
  /\ on \in [Node -> BOOLEAN] /\ wire \in [Node -> BOOLEAN]
  /\ node \in [Node -> NodeState]
  /\ roster \in [Node -> [Node -> Entry]]
  /\ turned \in [Node -> BOOLEAN] /\ beat \in [Node -> BOOLEAN]
  /\ calm \in 0..SETTLE /\ faults \in 0..MAX_FAULTS
  /\ dark \in 0..TAKEOVER + 1 /\ twin \in 0..TWIN + 1

----------------------------------------------------------------------------
(* What a node reads of itself *)

LinkLost(n) == ~n.link /\ n.downFor > LINK_GRACE

\* Seeded slip: the claim counts only once its address is set.
HasIpStrict(n) == n.haveIp

HasIp(n) == ClaimGrace(n.wearing, n.haveIp, n.claimFor, CLAIM_GRACE)

\* Seeded slip: the weak serve_is_ready() is believed.
SelfOkUnreal(i, n) == i \in Eligible /\ ~LinkLost(n) /\ n.ready

\* The gate a node holds itself to.  It does not ask for an address: a blade
\* elects itself first and gets the mask's static address afterwards.
SelfOk(i, n) == i \in Eligible /\ i \in Real /\ ~LinkLost(n) /\ n.ready

\* The two flags peers elect on, link_up and serving.
AbleFlag(i, n) == ~LinkLost(n) /\ n.ready /\ i \in Real /\ HasIp(n)

ComputeLeader(i, n) ==
  BohunElect(i, SelfOk(i, n),
             {[id |-> j, eligible |-> j \in Eligible,
               alive |-> PeerAlive(roster[i][j].age, PEER_LOST),
               able |-> roster[i][j].able] : j \in Node \ {i}})

----------------------------------------------------------------------------
(* The mask: functions from a node's state to its next one *)

\* mask_on_link_down: stamped only if the link was up.
LinkDown(n) ==
  [n EXCEPT !.link = FALSE, !.relink = 0, !.downFor = IF n.link THEN 0 ELSE @]

\* swap_identity: the address is gone and the PHY restarts, whatever the new
\* identity is.
Swap(n, wears) ==
  [LinkDown(n) EXCEPT !.wearing = wears, !.haveIp = FALSE, !.claimFor = 0]

\* Seeded slip: a lost election does not take the mask off.
SetLeaderKeeps(n, lead) == IF lead /\ ~n.wearing THEN Swap(n, TRUE) ELSE n

\* mask_set_leader: wear or drop the mask if that is a change.
SetLeader(n, lead) == IF lead # n.wearing THEN Swap(n, lead) ELSE n

\* mask_abdicate and s_leader_id = 0, for a wearer whose wire is gone.
LoseWire(n) ==
  IF n.wearing /\ LinkLost(n)
  THEN [Swap(n, FALSE) EXCEPT !.leader = NONE] ELSE n

\* The election: the mask follows the answer only when the answer is new.
ElectStep(i, n) ==
  LET m   == LoseWire(n)
      now == ComputeLeader(i, m)
  IN  IF now # m.leader
      THEN SetLeader([m EXCEPT !.leader = now], now = i) ELSE m

\* mask_tick: drop the mask when the server is not ready, or when the claim
\* has stayed without an address for too long.  Neither touches the leader.
MaskTickStep(n) ==
  IF n.wearing /\ (~n.ready \/ (~n.haveIp /\ n.claimFor > CLAIM_TIMEOUT))
  THEN Swap(n, FALSE) ELSE n

\* mask_on_link_up: the mask's static address, the remembered lease, or else
\* a discovery whose answer is GotIp's.
LinkUpStep(n) ==
  [n EXCEPT !.link = TRUE, !.downFor = NEVER, !.relink = 0,
            !.haveIp = @ \/ n.wearing \/ n.lease]

----------------------------------------------------------------------------
(* The fleet's own tasks *)

\* One fault out of the budget; any disturbance restarts the calm.
Unrest  == calm' = 0 /\ dark' = 0 /\ twin' = 0
Fault   == faults < MAX_FAULTS /\ faults' = faults + 1 /\ Unrest
Disturb == Unrest /\ UNCHANGED faults

SetReady(i) == IF node[i].ready THEN Fault ELSE Disturb

\* One turn of the monitor loop: election, then mask_tick.
Turn(i) ==
  LET elected == ElectStep(i, node[i])
  IN  /\ on[i] /\ ~turned[i]
      /\ turned' = [turned EXCEPT ![i] = TRUE]
      /\ \/ /\ node' = [node EXCEPT ![i] = MaskTickStep(elected)]
            /\ UNCHANGED hist
         \/ /\ i \in Real       \* readiness changed between the two reads
            /\ node' = [node EXCEPT ![i] =
                          MaskTickStep([elected EXCEPT !.ready = ~@])]
            /\ SetReady(i)
      /\ UNCHANGED <<on, wire, roster, beat>>

\* One heartbeat to every running peer but those in `missed`.  Reception
\* stamps the roster entry; the receiver's queue holds it less than a unit.
Heartbeat(i) ==
  LET peers == {j \in Node \ {i} : on[j]}
      entry == [age |-> 0, able |-> AbleFlag(i, node[i])]
  IN  /\ on[i] /\ ~beat[i]
      /\ beat' = [beat EXCEPT ![i] = TRUE]
      /\ \E missed \in SUBSET peers :
           /\ roster' = [j \in Node |->
                IF j \in peers \ missed THEN [roster[j] EXCEPT ![i] = entry]
                                        ELSE roster[j]]
           /\ IF missed = {} THEN UNCHANGED hist ELSE Fault
      /\ UNCHANGED <<on, wire, node, turned>>

----------------------------------------------------------------------------
(* What happens to a node, between two units *)

BetweenUnits == \A j \in Node : ~turned[j] /\ ~beat[j]

\* The PHY of i has its wire and is not up yet.
Trying(i) == on[i] /\ wire[i] /\ ~node[i].link

\* ETHERNET_EVENT_CONNECTED, at any moment.
LinkUp(i) ==
  /\ Trying(i)
  /\ node' = [node EXCEPT ![i] = LinkUpStep(@)]
  /\ UNCHANGED <<on, wire, roster, sched, hist>>

\* IP_EVENT_ETH_GOT_IP: discovery, retried by mask_tick until it lands.
GotIp(i) ==
  /\ BetweenUnits /\ on[i]
  /\ node[i].link /\ ~node[i].wearing /\ ~node[i].haveIp
  /\ node' = [node EXCEPT ![i].haveIp = TRUE, ![i].lease = TRUE]
  /\ UNCHANGED <<on, wire, roster, sched, hist>>

\* serve_start binding, a hold or a standby running out; the other way a sick
\* self-probe or an operator's standby.
Readiness(i) ==
  /\ BetweenUnits /\ on[i] /\ i \in Real
  /\ node' = [node EXCEPT ![i].ready = ~@]
  /\ SetReady(i)
  /\ UNCHANGED <<on, wire, roster, sched>>

\* ETHERNET_EVENT_DISCONNECTED by a pulled cable.
WireCut(i) ==
  /\ BetweenUnits /\ on[i] /\ wire[i]
  /\ wire' = [wire EXCEPT ![i] = FALSE]
  /\ node' = [node EXCEPT ![i] = LinkDown(@)]
  /\ Fault
  /\ UNCHANGED <<on, roster, sched>>

WirePlug(i) ==
  /\ BetweenUnits /\ ~wire[i] /\ i \in Real
  /\ wire' = [wire EXCEPT ![i] = TRUE]
  /\ Disturb
  /\ UNCHANGED <<on, node, roster, sched>>

\* Power pulled, panic or watchdog abort: all of it was RAM.
Crash(i) ==
  /\ BetweenUnits /\ on[i]
  /\ on' = [on EXCEPT ![i] = FALSE]
  /\ node' = [node EXCEPT ![i] = Booted(i)]
  /\ roster' = [roster EXCEPT ![i] = [j \in Node |-> Lost]]
  /\ Fault
  /\ UNCHANGED <<wire, sched>>

Boot(i) ==
  /\ BetweenUnits /\ ~on[i]
  /\ on' = [on EXCEPT ![i] = TRUE]
  /\ Disturb
  /\ UNCHANGED <<wire, node, roster, sched>>

----------------------------------------------------------------------------
(* Time *)

\* A live face: on the wire, with the static address set.
Faces == {i \in Node : node[i].wearing /\ node[i].link /\ node[i].haveIp}

\* Fit to be the face right now, whatever anyone has gossiped about it.
Fit == {i \in Node : on[i] /\ SelfOk(i, node[i]) /\ node[i].link}

\* The known trap (see NeverDark): a fit blade that names itself leader without
\* wearing.  Its answer never changes, so mask_set_leader is never called.
Stuck == \E i \in Fit : node[i].leader = i /\ ~node[i].wearing

Older(age, bound) == IF age < bound THEN age + 1 ELSE bound

\* Seeded slip: silence is never told from speech.
OlderEntryForever(e) == e

OlderEntry(e) == IF e.age + 1 < PEER_LOST THEN [e EXCEPT !.age = @ + 1] ELSE Lost

OlderNode(n, trying) ==
  [n EXCEPT
    !.downFor  = IF @ = NEVER THEN NEVER ELSE Older(@, LINK_GRACE + 1),
    !.relink   = IF trying THEN Older(@, MAX_BOUNCE) ELSE 0,
    !.claimFor = IF n.wearing /\ ~n.haveIp THEN Older(@, CLAIM_TIMEOUT + 1) ELSE 0]

\* A unit passes when every running node has had its turn and its heartbeat,
\* and no PHY with its wire in place is overdue.
Tick ==
  /\ \A i \in Node : /\ on[i] => beat[i] /\ turned[i]
                     /\ Trying(i) => node[i].relink < MAX_BOUNCE
  /\ node' = [i \in Node |-> OlderNode(node[i], Trying(i))]
  /\ roster' = [i \in Node |-> [j \in Node |-> OlderEntry(roster[i][j])]]
  /\ turned' = [i \in Node |-> FALSE] /\ beat' = [i \in Node |-> FALSE]
  /\ calm' = Older(calm, SETTLE)
  /\ dark' = IF Fit = {} \/ Stuck \/ \E i \in Node : node[i].wearing
             THEN 0 ELSE Older(dark, TAKEOVER + 1)
  /\ twin' = IF Cardinality(Faces) <= 1 THEN 0 ELSE Older(twin, TWIN + 1)
  /\ UNCHANGED <<on, wire, faults>>

----------------------------------------------------------------------------
(* The specification *)

\* The site is powered: everyone boots at once, nobody serves yet.  A board
\* without a server has no wire.
Init ==
  /\ on = [i \in Node |-> TRUE] /\ wire = [i \in Node |-> i \in Real]
  /\ node = [i \in Node |-> Booted(i)]
  /\ roster = [i \in Node |-> [j \in Node |-> Lost]]
  /\ turned = [i \in Node |-> FALSE] /\ beat = [i \in Node |-> FALSE]
  /\ calm = 0 /\ dark = 0 /\ twin = 0 /\ faults = 0

\* A fleet long at peace, which a cold start reaches without a fault: every
\* blade serves, and the lowest of them is the face.
Steady(i, face) ==
  IF i \notin Real THEN [Booted(i) EXCEPT !.leader = face]
  ELSE [Booted(i) EXCEPT !.ready = TRUE, !.link = TRUE, !.lease = TRUE,
                         !.haveIp = TRUE, !.leader = face, !.wearing = (i = face)]

SteadyInit ==
  /\ on = [i \in Node |-> TRUE] /\ wire = [i \in Node |-> i \in Real]
  /\ \E face \in Eligible \cap Real :
       /\ \A j \in Eligible \cap Real : face <= j
       /\ node = [i \in Node |-> Steady(i, face)]
  /\ roster = [i \in Node |-> [j \in Node |->
       IF j = i THEN Lost ELSE OlderEntry([age |-> 0, able |-> j \in Real])]]
  /\ turned = [i \in Node |-> FALSE] /\ beat = [i \in Node |-> FALSE]
  /\ calm = SETTLE /\ dark = 0 /\ twin = 0 /\ faults = 0

NodeStep(i) ==
  \/ Turn(i) \/ Heartbeat(i)
  \/ LinkUp(i) \/ GotIp(i) \/ Readiness(i)
  \/ WireCut(i) \/ WirePlug(i) \/ Crash(i) \/ Boot(i)

Next == Tick \/ \E i \in Node : NodeStep(i)

Spec == Init /\ [][Next]_vars

SteadySpec == SteadyInit /\ [][Next]_vars

----------------------------------------------------------------------------
(* Properties *)

Lowest(S) == CHOOSE m \in S : \A n \in S : m <= n

\* Whoever wears the mask has elected itself, is a blade allowed to, and has a
\* server aboard: no path of the abdications and swaps leaves the vMAC behind
\* on a node whose own election names somebody else.
OnlyElectedWear ==
  \A i \in Node : node[i].wearing =>
    on[i] /\ node[i].leader = i /\ i \in Eligible \cap Real

\* SETTLE units after the last disturbance the fleet has converged: the lowest
\* fit blade is the only wearer, it is live, and every node whose own state does
\* not put it forward names it.  This is what the election, the claim grace,
\* the link grace and the claim timeout of swarm.c and mask.c are for.
OneFace ==
  calm = SETTLE /\ Fit # {} /\ ~Stuck =>
    LET face == Lowest(Fit)
    IN  /\ Faces = {face}
        /\ \A i \in Node : node[i].wearing => i = face
        /\ \A i \in Node : on[i] /\ (i \in Fit \/ ~SelfOk(i, node[i]))
                             => node[i].leader = face

\* Two blades never answer for the one address for long: between two
\* disturbances, for at most TWIN units on end.
NoTwinFaces == twin <= TWIN

\* The README's promise, "another blade wears the mask in under four seconds":
\* between two disturbances nobody wears it for at most TAKEOVER units on end
\* while some blade is fit to.
TakenOver == dark <= TAKEOVER

\* The 2026-10-23 cascade: nobody claims past a lower claimant whose PHY is
\* still restarting inside its grace, once that one's heartbeat has gone out
\* and everyone has had a turn to read it.
NoCascade ==
  [][calm >= 2 =>
       \A i, j \in Node :
         /\ ~node[i].wearing /\ node'[i].wearing
         /\ j < i /\ node[j].wearing /\ ~node[j].haveIp /\ node[j].claimFor >= 2
         => ~node[j].ready \/ LinkLost(node[j]) \/ node[j].claimFor >= CLAIM_GRACE]_vars

\* SYSTEM_DESIGN.md: "the site keeps serving from a single blade".  The code
\* does not keep this: see Stuck.
NeverDark == calm = SETTLE /\ Fit # {} => Faces # {}
=============================================================================
