--------------------------- MODULE Swarm_proofs ----------------------------
(***************************************************************************)
(* What holds of the fleet for every set of nodes, every kind of firmware  *)
(* aboard and every value of the timers.                                   *)
(***************************************************************************)
EXTENDS MCSwarm, FiniteSetTheorems, WellFoundedInduction, TLAPS

\* The election answers with nobody, with ourselves when we may lead, or with
\* an able candidate: never with a node that the gates turned away.
LEMMA ElectAnswers ==
  ASSUME NEW i \in Node, NEW n
  PROVE  /\ ComputeLeader(i, n) \in Node \cup {NONE}
         /\ ComputeLeader(i, n) = i => SelfOk(i, n)
<1> DEFINE C == {[id |-> j, eligible |-> j \in Eligible,
                  alive |-> PeerAlive(roster[i][j].age, PEER_LOST),
                  able |-> roster[i][j].able] : j \in Node \ {i}}
           others == {c.id : c \in {d \in C : d.alive /\ d.able /\ d.eligible}}
           fit == (IF SelfOk(i, n) THEN {i} ELSE {}) \cup others
           least == {m \in fit : \A k \in fit : m <= k}
<1>1. others \subseteq Node \ {i}
  OBVIOUS
<1>2. fit \subseteq Node /\ (i \in fit => SelfOk(i, n))
  BY <1>1
<1>3. ComputeLeader(i, n) = IF least = {} THEN 0 ELSE CHOOSE m \in least : TRUE
  BY DEF ComputeLeader, BohunElect
<1>4. CASE least = {}
  BY <1>3, <1>4, NodeAssumption DEF NONE
<1>5. CASE least # {}
  <2>1. ComputeLeader(i, n) \in least
    BY <1>3, <1>5
  <2> QED
    BY <1>2, <2>1
<1> QED
  BY <1>4, <1>5

----------------------------------------------------------------------------
(* What the swaps do to one node's record *)

\* A node that wears the mask may, and is its own leader: one node's share of
\* OnlyElectedWear.
Entitled(i, n) == n.wearing => n.leader = i /\ i \in Eligible \cap Real

LEMMA SwapTyped ==
  ASSUME NEW n \in NodeState, NEW b \in BOOLEAN
  PROVE  /\ LinkDown(n) \in NodeState
         /\ LinkDown(n).wearing = n.wearing /\ LinkDown(n).leader = n.leader
         /\ Swap(n, b) \in NodeState
         /\ Swap(n, b).wearing = b /\ Swap(n, b).leader = n.leader
<1>1. 0 \in {NEVER} \cup 0..LINK_GRACE + 1 /\ 0 \in 0..MAX_BOUNCE /\ 0 \in 0..CLAIM_TIMEOUT + 1
  BY TimeAssumption
<1>2. /\ LinkDown(n) \in NodeState
      /\ LinkDown(n).wearing = n.wearing /\ LinkDown(n).leader = n.leader
  BY <1>1 DEF LinkDown, NodeState
<1>3. /\ Swap(n, b) \in NodeState
      /\ Swap(n, b).wearing = b /\ Swap(n, b).leader = LinkDown(n).leader
  BY <1>1, <1>2 DEF Swap, NodeState
<1> QED
  BY <1>2, <1>3

\* Coming up, ageing and changing readiness touch neither mask nor leader.
LEMMA LinkUpTyped ==
  ASSUME NEW n \in NodeState
  PROVE  /\ LinkUpStep(n) \in NodeState
         /\ LinkUpStep(n).wearing = n.wearing /\ LinkUpStep(n).leader = n.leader
<1>1. NEVER \in {NEVER} \cup 0..LINK_GRACE + 1 /\ 0 \in 0..MAX_BOUNCE
  BY TimeAssumption
<1> QED
  BY <1>1 DEF LinkUpStep, NodeState

LEMMA OlderTyped ==
  ASSUME NEW n \in NodeState, NEW t \in BOOLEAN
  PROVE  /\ OlderNode(n, t) \in NodeState
         /\ OlderNode(n, t).wearing = n.wearing /\ OlderNode(n, t).leader = n.leader
<1>1. ASSUME NEW b \in Nat, NEW a \in 0..b PROVE Older(a, b) \in 0..b
  BY DEF Older
<1>2. /\ (IF n.downFor = NEVER THEN NEVER ELSE Older(n.downFor, LINK_GRACE + 1))
            \in {NEVER} \cup 0..LINK_GRACE + 1
      /\ (IF t THEN Older(n.relink, MAX_BOUNCE) ELSE 0) \in 0..MAX_BOUNCE
      /\ (IF n.wearing /\ ~n.haveIp THEN Older(n.claimFor, CLAIM_TIMEOUT + 1) ELSE 0)
            \in 0..CLAIM_TIMEOUT + 1
  <2>1. LINK_GRACE + 1 \in Nat /\ MAX_BOUNCE \in Nat /\ CLAIM_TIMEOUT + 1 \in Nat
    BY TimeAssumption
  <2>2. /\ n.downFor \in {NEVER} \cup 0..LINK_GRACE + 1
        /\ n.relink \in 0..MAX_BOUNCE /\ n.claimFor \in 0..CLAIM_TIMEOUT + 1
    BY DEF NodeState
  <2>3. n.downFor # NEVER => Older(n.downFor, LINK_GRACE + 1) \in 0..LINK_GRACE + 1
    BY <1>1, <2>1, <2>2
  <2>4. /\ Older(n.relink, MAX_BOUNCE) \in 0..MAX_BOUNCE
        /\ Older(n.claimFor, CLAIM_TIMEOUT + 1) \in 0..CLAIM_TIMEOUT + 1
    BY <1>1, <2>1, <2>2
  <2> QED
    BY <2>1, <2>3, <2>4
<1> QED
  BY <1>2 DEF OlderNode, NodeState

LEMMA EntryTyped ==
  ASSUME NEW e \in Entry
  PROVE  OlderEntry(e) \in Entry
BY TimeAssumption DEF OlderEntry, Entry, Lost

LEMMA BootedTyped ==
  ASSUME NEW i \in Node
  PROVE  Booted(i) \in NodeState /\ ~Booted(i).wearing
BY TimeAssumption DEF Booted, NodeState, NONE, NEVER

\* mask_tick only ever drops the mask.
LEMMA MaskTickEntitled ==
  ASSUME NEW n \in NodeState
  PROVE  /\ MaskTickStep(n) \in NodeState
         /\ MaskTickStep(n).leader = n.leader
         /\ MaskTickStep(n).wearing => n.wearing
BY SwapTyped DEF MaskTickStep

\* Whatever the election answers, the mask is on after it only if the answer
\* is this node: a changed answer moves the mask with it, an unchanged one
\* leaves a mask that was entitled before.
LEMMA ElectEntitled ==
  ASSUME NEW i \in Node, NEW n \in NodeState, Entitled(i, n)
  PROVE  ElectStep(i, n) \in NodeState /\ Entitled(i, ElectStep(i, n))
<1> DEFINE m   == LoseWire(n)
           now == ComputeLeader(i, m)
           e   == [m EXCEPT !.leader = now]
<1>1. m \in NodeState /\ Entitled(i, m)
  <2>1. CASE n.wearing /\ LinkLost(n)
    <3>1. Swap(n, FALSE) \in NodeState /\ ~Swap(n, FALSE).wearing
      BY SwapTyped
    <3>2. m = [Swap(n, FALSE) EXCEPT !.leader = NONE]
      BY <2>1 DEF LoseWire
    <3> QED
      BY <3>1, <3>2 DEF NodeState, Entitled
  <2>2. CASE ~(n.wearing /\ LinkLost(n))
    BY <2>2 DEF LoseWire
  <2> QED
    BY <2>1, <2>2
<1>2. now \in Node \cup {NONE} /\ (now = i => SelfOk(i, m))
  BY ElectAnswers
<1>3. CASE now = m.leader
  BY <1>1, <1>3 DEF ElectStep
<1>4. CASE now # m.leader
  <2>1. e \in NodeState /\ e.wearing = m.wearing /\ e.leader = now
    BY <1>1, <1>2 DEF NodeState
  <2>2. ElectStep(i, n) = SetLeader(e, now = i)
    BY <1>4 DEF ElectStep
  <2>3. /\ SetLeader(e, now = i) \in NodeState
        /\ SetLeader(e, now = i).leader = now
        /\ SetLeader(e, now = i).wearing <=> now = i
    <3>1. e.wearing \in BOOLEAN
      BY <2>1 DEF NodeState
    <3>2. CASE (now = i) # e.wearing
      BY <2>1, <3>2, SwapTyped DEF SetLeader
    <3>3. CASE (now = i) = e.wearing
      BY <2>1, <3>3 DEF SetLeader
    <3> QED
      BY <3>2, <3>3
  <2> QED
    BY <1>2, <2>2, <2>3 DEF Entitled, SelfOk
<1> QED
  BY <1>3, <1>4

----------------------------------------------------------------------------
(* The inductive invariant *)

IInv == TypeOK /\ OnlyElectedWear

\* What the fleets of the runs start from: everyone powered on at once, peace,
\* or two blades on a site where nothing else has power.
Start == Init \/ SteadyInit \/ ColdInit

Runs == Spec \/ SteadySpec \/ (Pair \subseteq Node /\ FleetSpec)

\* Boards that never get power take no step of their own.
LEMMA FleetRuns == Runs => Start /\ [][Next]_vars
<1>1. Pair \subseteq Node /\ FleetInit => Start /\ fitted \subseteq Node
  BY DEF FleetInit, Start, ColdInit
<1>2. fitted \subseteq Node /\ [FleetNext]_<<fitted, vars>> => [Next]_vars /\ (fitted \subseteq Node)'
  BY DEF FleetNext, Next
<1>3. Pair \subseteq Node /\ FleetSpec => Start /\ [][Next]_vars
  <2> SUFFICES ASSUME Pair \subseteq Node PROVE FleetSpec => Start /\ [][Next]_vars
    OBVIOUS
  <2> QED
    BY <1>1, <1>2, PTL DEF FleetSpec
<1> QED
  BY <1>3, PTL DEF Runs, Spec, SteadySpec, Start

\* Power on finds every board as its boot left it.
LEMMA PowerUp ==
  Init \/ ColdInit =>
    /\ on \in [Node -> BOOLEAN] /\ wire \in [Node -> BOOLEAN]
    /\ node = [i \in Node |-> Booted(i)]
    /\ roster = [i \in Node |-> [j \in Node |-> Lost]]
    /\ turned = [i \in Node |-> FALSE] /\ beat = [i \in Node |-> FALSE]
    /\ calm = 0 /\ dark = 0 /\ twin = 0 /\ faults = 0
<1>1. ASSUME Init PROVE on \in [Node -> BOOLEAN] /\ wire \in [Node -> BOOLEAN]
  BY <1>1 DEF Init
<1>2. ASSUME ColdInit PROVE on \in [Node -> BOOLEAN] /\ wire \in [Node -> BOOLEAN]
  BY <1>2 DEF ColdInit
<1> QED
  BY <1>1, <1>2 DEF Init, ColdInit

LEMMA InitIInv == Init \/ ColdInit => IInv
<1> SUFFICES ASSUME Init \/ ColdInit PROVE IInv
  OBVIOUS
<1>1. /\ [i \in Node |-> Booted(i)] \in [Node -> NodeState]
      /\ \A i \in Node : ~node[i].wearing
  BY BootedTyped, PowerUp
<1>2. roster \in [Node -> [Node -> Entry]]
  <2>1. Lost \in Entry
    BY TimeAssumption DEF Lost, Entry
  <2> QED
    BY <2>1, PowerUp
<1>3. turned \in [Node -> BOOLEAN] /\ beat \in [Node -> BOOLEAN]
  BY PowerUp
<1>4. /\ calm \in 0..SETTLE /\ faults \in 0..MAX_FAULTS
      /\ dark \in 0..TAKEOVER + 1 /\ twin \in 0..TWIN + 1
  BY PowerUp, TimeAssumption
<1> QED
  BY <1>1, <1>2, <1>3, <1>4, PowerUp DEF IInv, TypeOK, OnlyElectedWear

\* A fleet at peace starts inside it too.
LEMMA SteadyIInv == SteadyInit => IInv
<1> SUFFICES ASSUME SteadyInit PROVE IInv
  OBVIOUS
<1>1. PICK face \in Eligible \cap Real : node = [i \in Node |-> Steady(i, face)]
  BY DEF SteadyInit
<1>2. \A i \in Node : /\ Steady(i, face) \in NodeState
                      /\ Steady(i, face).wearing => i = face /\ Steady(i, face).leader = i
  <2> TAKE i \in Node
  <2>1. Booted(i) \in NodeState /\ ~Booted(i).wearing /\ face \in Node
    BY BootedTyped, KindAssumption
  <2>2. CASE i \in Real
    BY <2>1, <2>2 DEF Steady, NodeState
  <2>3. CASE i \notin Real
    BY <2>1, <2>3 DEF Steady, NodeState
  <2> QED
    BY <2>2, <2>3
<1>3. roster \in [Node -> [Node -> Entry]]
  <2>1. Lost \in Entry
    BY TimeAssumption DEF Lost, Entry
  <2>2. ASSUME NEW j \in Node PROVE OlderEntry([age |-> 0, able |-> j \in Real]) \in Entry
    <3>1. [age |-> 0, able |-> j \in Real] \in Entry
      BY TimeAssumption DEF Entry
    <3> QED
      BY <3>1, EntryTyped
  <2> QED
    BY <2>1, <2>2 DEF SteadyInit
<1>4. TypeOK
  BY <1>1, <1>2, <1>3, TimeAssumption DEF SteadyInit, TypeOK
<1>5. OnlyElectedWear
  BY <1>1, <1>2 DEF SteadyInit, OnlyElectedWear
<1> QED
  BY <1>4, <1>5 DEF IInv

LEMMA StartIInv == Start => IInv
BY InitIInv, SteadyIInv DEF Start

\* The share of IInv every action but Turn has to show: the node records keep
\* their type, and nobody who did not wear the mask wears it now.
LEMMA KeepsElected ==
  ASSUME IInv, node' \in [Node -> NodeState],
         \A i \in Node : node'[i].wearing =>
           on'[i] /\ node[i].wearing /\ node'[i].leader = node[i].leader
  PROVE  OnlyElectedWear'
BY DEF IInv, OnlyElectedWear

LEMMA TurnIInv ==
  ASSUME IInv, NEW i \in Node, Turn(i)
  PROVE  IInv'
<1> USE DEF IInv
<1> DEFINE e == ElectStep(i, node[i])
           f == [e EXCEPT !.ready = ~@]
<1>1. node[i] \in NodeState /\ Entitled(i, node[i])
  BY DEF TypeOK, OnlyElectedWear, Entitled
<1>2. e \in NodeState /\ Entitled(i, e)
  BY <1>1, ElectEntitled
<1>3. f \in NodeState /\ Entitled(i, f)
  BY <1>2 DEF NodeState, Entitled
<1>4. PICK m \in {e, f} : node' = [node EXCEPT ![i] = MaskTickStep(m)]
  BY DEF Turn
<1>5. MaskTickStep(m) \in NodeState /\ Entitled(i, MaskTickStep(m))
  BY <1>2, <1>3, MaskTickEntitled DEF Entitled
<1>6. node' \in [Node -> NodeState]
  BY <1>4, <1>5 DEF TypeOK
<1>7. TypeOK'
  <2>1. /\ calm' \in 0..SETTLE /\ faults' \in 0..MAX_FAULTS
        /\ dark' \in 0..TAKEOVER + 1 /\ twin' \in 0..TWIN + 1
    BY TimeAssumption DEF Turn, SetReady, Fault, Disturb, Unrest, TypeOK, hist
  <2> QED
    BY <1>6, <2>1 DEF Turn, TypeOK
<1>8. OnlyElectedWear'
  <2> SUFFICES ASSUME NEW j \in Node, node'[j].wearing
               PROVE  on'[j] /\ node'[j].leader = j /\ j \in Eligible \cap Real
    BY DEF OnlyElectedWear
  <2>1. CASE j = i
    BY <1>4, <1>5, <2>1 DEF Turn, TypeOK, Entitled
  <2>2. CASE j # i
    BY <1>4, <2>2 DEF Turn, TypeOK, OnlyElectedWear
  <2> QED
    BY <2>1, <2>2
<1> QED
  BY <1>7, <1>8

LEMMA HeartbeatIInv ==
  ASSUME IInv, NEW i \in Node, Heartbeat(i)
  PROVE  IInv'
<1> USE DEF IInv
<1> DEFINE entry == [age |-> 0, able |-> AbleFlag(i, node[i])]
<1>1. entry \in Entry
  <2>1. AbleFlag(i, node[i]) \in BOOLEAN
    BY DEF AbleFlag
  <2> QED
    BY <2>1, TimeAssumption DEF Entry
<1>2. roster' \in [Node -> [Node -> Entry]]
  <2> PICK missed \in SUBSET {j \in Node \ {i} : on[j]} :
        roster' = [j \in Node |->
                     IF j \in {k \in Node \ {i} : on[k]} \ missed
                     THEN [roster[j] EXCEPT ![i] = entry] ELSE roster[j]]
    BY DEF Heartbeat
  <2> QED
    BY <1>1 DEF TypeOK
<1>3. /\ calm' \in 0..SETTLE /\ faults' \in 0..MAX_FAULTS
      /\ dark' \in 0..TAKEOVER + 1 /\ twin' \in 0..TWIN + 1
  BY TimeAssumption DEF Heartbeat, Fault, Unrest, TypeOK, hist
<1>4. TypeOK'
  BY <1>2, <1>3 DEF Heartbeat, TypeOK
<1> QED
  BY <1>4 DEF Heartbeat, OnlyElectedWear

LEMMA TickIInv ==
  ASSUME IInv, Tick
  PROVE  IInv'
<1> USE DEF IInv
<1>1. ASSUME NEW i \in Node
      PROVE  /\ node'[i] \in NodeState
             /\ node'[i].wearing = node[i].wearing
             /\ node'[i].leader = node[i].leader
  <2>1. Trying(i) \in BOOLEAN /\ node[i] \in NodeState
    BY DEF Trying, TypeOK
  <2> QED
    BY <2>1, OlderTyped DEF Tick
<1>2. node' \in [Node -> NodeState]
  BY <1>1 DEF Tick
<1>3. roster' \in [Node -> [Node -> Entry]]
  BY EntryTyped DEF Tick, TypeOK
<1>4. /\ calm' \in 0..SETTLE /\ faults' \in 0..MAX_FAULTS
      /\ dark' \in 0..TAKEOVER + 1 /\ twin' \in 0..TWIN + 1
  BY TimeAssumption DEF Tick, Older, TypeOK
<1>5. TypeOK'
  BY <1>2, <1>3, <1>4 DEF Tick, TypeOK
<1>6. OnlyElectedWear'
  BY <1>1 DEF Tick, OnlyElectedWear
<1> QED
  BY <1>5, <1>6

\* Power, cable, PHY, DHCP and readiness: one node's record changes, its mask
\* and its leader only in a crash.
LEMMA OutsideIInv ==
  ASSUME IInv, NEW i \in Node,
         \/ LinkUp(i) \/ GotIp(i) \/ Readiness(i)
         \/ WireCut(i) \/ WirePlug(i) \/ Crash(i) \/ Boot(i)
  PROVE  IInv'
<1> USE DEF IInv
<1>1. node[i] \in NodeState /\ node \in [Node -> NodeState]
  BY DEF TypeOK
<1>2. /\ calm' \in 0..SETTLE /\ faults' \in 0..MAX_FAULTS
      /\ dark' \in 0..TAKEOVER + 1 /\ twin' \in 0..TWIN + 1
  BY TimeAssumption DEF LinkUp, GotIp, Readiness, WireCut, WirePlug, Crash, Boot,
     SetReady, Fault, Disturb, Unrest, TypeOK, hist
<1>3. CASE LinkUp(i)
  <2>1. node' \in [Node -> NodeState]
    BY <1>1, <1>3, LinkUpTyped DEF LinkUp
  <2>2. OnlyElectedWear'
    BY <1>1, <1>3, <2>1, LinkUpTyped, KeepsElected DEF LinkUp, OnlyElectedWear
  <2> QED
    BY <1>2, <1>3, <2>1, <2>2 DEF LinkUp, TypeOK, sched
<1>4. CASE GotIp(i)
  <2>1. node' = [node EXCEPT ![i] = [node[i] EXCEPT !.haveIp = TRUE, !.lease = TRUE]]
    BY <1>1, <1>4 DEF GotIp
  <2>2. node' \in [Node -> NodeState]
    BY <1>1, <2>1 DEF NodeState
  <2>3. OnlyElectedWear'
    BY <1>1, <1>4, <2>1, <2>2 DEF GotIp, OnlyElectedWear, NodeState
  <2> QED
    BY <1>2, <1>4, <2>2, <2>3 DEF GotIp, TypeOK, sched
<1>5. CASE Readiness(i)
  <2>1. node' = [node EXCEPT ![i] = [node[i] EXCEPT !.ready = ~@]]
    BY <1>1, <1>5 DEF Readiness
  <2>2. node' \in [Node -> NodeState]
    BY <1>1, <2>1 DEF NodeState
  <2>3. OnlyElectedWear'
    BY <1>1, <1>5, <2>1, <2>2 DEF Readiness, OnlyElectedWear, NodeState
  <2> QED
    BY <1>2, <1>5, <2>2, <2>3 DEF Readiness, TypeOK, sched
<1>6. CASE WireCut(i)
  <2>1. LinkDown(node[i]) \in NodeState /\ LinkDown(node[i]).wearing = node[i].wearing
        /\ LinkDown(node[i]).leader = node[i].leader
    BY <1>1, SwapTyped
  <2>2. node' \in [Node -> NodeState]
    BY <1>1, <1>6, <2>1 DEF WireCut
  <2>3. OnlyElectedWear'
    BY <1>1, <1>6, <2>1 DEF WireCut, OnlyElectedWear
  <2> QED
    BY <1>2, <1>6, <2>2, <2>3 DEF WireCut, TypeOK, sched
<1>7. CASE WirePlug(i)
  BY <1>2, <1>7 DEF WirePlug, TypeOK, OnlyElectedWear, sched
<1>8. CASE Crash(i)
  <2>1. Booted(i) \in NodeState /\ ~Booted(i).wearing
    BY BootedTyped
  <2>2. Lost \in Entry
    BY TimeAssumption DEF Lost, Entry
  <2>3. node' \in [Node -> NodeState] /\ roster' \in [Node -> [Node -> Entry]]
    BY <1>1, <1>8, <2>1, <2>2 DEF Crash, TypeOK
  <2>4. OnlyElectedWear'
    BY <1>1, <1>8, <2>1 DEF Crash, OnlyElectedWear, TypeOK
  <2> QED
    BY <1>2, <1>8, <2>3, <2>4 DEF Crash, TypeOK, sched
<1>9. CASE Boot(i)
  <2>1. on' \in [Node -> BOOLEAN] /\ \A j \in Node : on[j] => on'[j]
    BY <1>9 DEF Boot, TypeOK
  <2> QED
    BY <1>2, <1>9, <2>1 DEF Boot, TypeOK, OnlyElectedWear, sched
<1> QED
  BY <1>3, <1>4, <1>5, <1>6, <1>7, <1>8, <1>9

LEMMA NextIInv == IInv /\ [Next]_vars => IInv'
<1> SUFFICES ASSUME IInv, [Next]_vars PROVE IInv'
  OBVIOUS
<1>1. CASE Tick
  BY <1>1, TickIInv
<1>2. ASSUME NEW i \in Node, NodeStep(i) PROVE IInv'
  BY <1>2, TurnIInv, HeartbeatIInv, OutsideIInv DEF NodeStep
<1>3. CASE UNCHANGED vars
  BY <1>3 DEF IInv, TypeOK, OnlyElectedWear, vars, sched, hist
<1> QED
  BY <1>1, <1>2, <1>3 DEF Next

----------------------------------------------------------------------------
(* Nobody claims past a lower claimant *)

\* Everything a node's record says but its leader, its readiness and its lease.
Same(m, n) ==
  /\ m.wearing = n.wearing /\ m.haveIp = n.haveIp /\ m.claimFor = n.claimFor
  /\ m.link = n.link /\ m.downFor = n.downFor /\ m.relink = n.relink

\* What a swap makes of n: no address, a claim and a PHY that start over, and a
\* link-down stamped only if there was a link.
Restart(m, n) ==
  /\ ~m.haveIp /\ m.claimFor = 0 /\ ~m.link /\ m.relink = 0
  /\ m.downFor = IF n.link THEN 0 ELSE n.downFor

\* What a step of a turn may do to n: restart it or leave it.
Turns(m, n) == Restart(m, n) \/ Same(m, n)

LEMMA SwapRestarts ==
  ASSUME NEW n \in NodeState, NEW b \in BOOLEAN
  PROVE  Restart(Swap(n, b), n) /\ Swap(n, b).ready = n.ready
<1>1. /\ LinkDown(n) \in NodeState /\ ~LinkDown(n).link /\ LinkDown(n).ready = n.ready
      /\ LinkDown(n).relink = 0
      /\ LinkDown(n).downFor = IF n.link THEN 0 ELSE n.downFor
  BY SwapTyped DEF LinkDown, NodeState
<1> QED
  BY <1>1 DEF Swap, NodeState, Restart

LEMMA TurnsCompose ==
  ASSUME NEW p, NEW m, NEW n, Turns(p, m), Turns(m, n)
  PROVE  Turns(p, n)
BY DEF Turns, Restart, Same

LEMMA MaskTickTurns ==
  ASSUME NEW n \in NodeState
  PROVE  Turns(MaskTickStep(n), n) /\ MaskTickStep(n).ready = n.ready
<1>1. CASE n.wearing /\ (~n.ready \/ (~n.haveIp /\ n.claimFor > CLAIM_TIMEOUT))
  <2>1. MaskTickStep(n) = Swap(n, FALSE)
    BY <1>1 DEF MaskTickStep
  <2> QED
    BY <2>1, SwapRestarts DEF Turns
<1>2. CASE ~(n.wearing /\ (~n.ready \/ (~n.haveIp /\ n.claimFor > CLAIM_TIMEOUT)))
  BY <1>2 DEF MaskTickStep, Turns, Same
<1> QED
  BY <1>1, <1>2

LEMMA LoseWireTurns ==
  ASSUME NEW n \in NodeState
  PROVE  LoseWire(n) \in NodeState /\ Turns(LoseWire(n), n) /\ LoseWire(n).ready = n.ready
<1>1. CASE n.wearing /\ LinkLost(n)
  <2>1. /\ Swap(n, FALSE) \in NodeState /\ Restart(Swap(n, FALSE), n)
        /\ Swap(n, FALSE).ready = n.ready
    BY SwapTyped, SwapRestarts
  <2>2. LoseWire(n) = [Swap(n, FALSE) EXCEPT !.leader = NONE]
    BY <1>1 DEF LoseWire
  <2> QED
    BY <2>1, <2>2 DEF NodeState, Restart, Turns
<1>2. CASE ~(n.wearing /\ LinkLost(n))
  BY <1>2 DEF LoseWire, Turns, Same
<1> QED
  BY <1>1, <1>2

LEMMA ElectTurns ==
  ASSUME NEW i \in Node, NEW n \in NodeState
  PROVE  /\ ElectStep(i, n) \in NodeState /\ Turns(ElectStep(i, n), n)
         /\ ElectStep(i, n).ready = n.ready
         /\ ElectStep(i, n).leader = ComputeLeader(i, LoseWire(n))
<1> DEFINE m   == LoseWire(n)
           now == ComputeLeader(i, m)
           e   == [m EXCEPT !.leader = now]
<1>1. m \in NodeState /\ Turns(m, n) /\ m.ready = n.ready
  BY LoseWireTurns
<1>2. now \in Node \cup {NONE}
  BY ElectAnswers
<1>3. CASE now = m.leader
  BY <1>1, <1>3 DEF ElectStep
<1>4. CASE now # m.leader
  <2> HIDE DEF m, now
  <2>1. e \in NodeState /\ e.ready = m.ready /\ e.leader = now /\ Turns(e, m)
    BY <1>1, <1>2 DEF NodeState, Turns, Same
  <2>2. ElectStep(i, n) = SetLeader(e, now = i)
    BY <1>4 DEF ElectStep, m, now
  <2> HIDE DEF e
  <2>3. CASE (now = i) # e.wearing
    <3> DEFINE b == now = i
    <3>1. ElectStep(i, n) = Swap(e, b)
      BY <2>2, <2>3 DEF SetLeader
    <3>2. b \in BOOLEAN
      OBVIOUS
    <3> HIDE DEF b
    <3>3. /\ Swap(e, b) \in NodeState /\ Turns(Swap(e, b), e) /\ Swap(e, b).ready = e.ready
          /\ Swap(e, b).leader = e.leader
      BY <2>1, <3>2, SwapTyped, SwapRestarts DEF Turns
    <3>4. Turns(Swap(e, b), n)
      BY <1>1, <2>1, <3>3, TurnsCompose
    <3> QED
      BY <1>1, <2>1, <3>1, <3>3, <3>4 DEF m, now
  <2>4. CASE (now = i) = e.wearing
    <3>1. ElectStep(i, n) = e
      BY <2>2, <2>4 DEF SetLeader
    <3>2. Turns(e, n)
      BY <1>1, <2>1, TurnsCompose
    <3> QED
      BY <1>1, <2>1, <3>1, <3>2 DEF m, now
  <2> QED
    BY <2>3, <2>4
<1> QED
  BY <1>3, <1>4

\* What a whole turn does to its node.  A turn in which readiness does not
\* change is the only one that leaves the calm.
CalmTurn(i) ==
  /\ Turn(i) /\ calm' = calm
  /\ node' = [node EXCEPT ![i] = MaskTickStep(ElectStep(i, node[i]))]

LEMMA TurnTurns ==
  ASSUME TypeOK, NEW i \in Node, Turn(i)
  PROVE  /\ node' = [node EXCEPT ![i] = node'[i]]
         /\ Turns(node'[i], node[i])
         /\ CalmTurn(i) \/ calm' = 0
         /\ CalmTurn(i) => node'[i].ready = node[i].ready
<1> DEFINE e == ElectStep(i, node[i])
           f == [e EXCEPT !.ready = ~@]
<1>1. e \in NodeState /\ Turns(e, node[i]) /\ e.ready = node[i].ready
  BY ElectTurns DEF TypeOK
<1>2. f \in NodeState /\ Turns(f, e)
  BY <1>1 DEF NodeState, Turns, Same
<1> HIDE DEF e
<1>3. /\ Turns(MaskTickStep(e), e) /\ Turns(MaskTickStep(f), f)
      /\ MaskTickStep(e).ready = node[i].ready
  BY <1>1, <1>2, MaskTickTurns
<1> HIDE DEF f
<1>4. Turns(MaskTickStep(e), node[i]) /\ Turns(MaskTickStep(f), node[i])
  <2>1. Turns(f, node[i])
    BY <1>1, <1>2, TurnsCompose
  <2> QED
    BY <1>1, <1>3, <2>1, TurnsCompose
<1>5. \/ node' = [node EXCEPT ![i] = MaskTickStep(e)] /\ calm' = calm
      \/ node' = [node EXCEPT ![i] = MaskTickStep(f)] /\ calm' = 0
  BY DEF Turn, SetReady, Fault, Disturb, Unrest, hist, e, f
<1>6. node' = [node EXCEPT ![i] = node'[i]] /\ Turns(node'[i], node[i])
  BY <1>4, <1>5 DEF TypeOK
<1>7. CalmTurn(i) \/ calm' = 0
  BY <1>5 DEF CalmTurn, e
<1>8. CalmTurn(i) => node'[i].ready = node[i].ready
  BY <1>3 DEF TypeOK, CalmTurn, e
<1> QED
  BY <1>6, <1>7, <1>8

\* A claimant the fleet must wait for.
Sure(n) ==
  /\ n.wearing /\ ~n.haveIp /\ n.ready /\ ~LinkLost(n) /\ n.claimFor < CLAIM_GRACE

\* j reads as able to serve in the roster of every running node, from an entry
\* no older than age.
Vouched(j, age) ==
  \A i \in Node \ {j} : on[i] => roster[i][j].age <= age /\ roster[i][j].able

\* A claimant without its address has no link yet; while nothing disturbs it,
\* everyone holds its heartbeat of this unit or, before that one is sent, of
\* the last.
ClaimInv ==
  \A j \in Node :
    LET n == node[j]
    IN  /\ n.wearing /\ ~n.haveIp => ~n.link
        /\ Sure(n) /\ calm >= 1 /\ n.claimFor >= 1 /\ beat[j] => Vouched(j, 0)
        /\ Sure(n) /\ calm >= 2 /\ n.claimFor >= 2 /\ ~beat[j] => Vouched(j, 1)

LEMMA SureAble ==
  ASSUME NEW j \in Real, Sure(node[j])
  PROVE  AbleFlag(j, node[j])
BY DEF Sure, AbleFlag, HasIp, ClaimGrace

LEMMA InitClaim == Start => ClaimInv
<1>1. ASSUME Init \/ ColdInit PROVE ClaimInv
  BY <1>1, PowerUp DEF Booted, ClaimInv, Sure
<1>2. ASSUME SteadyInit PROVE ClaimInv
  <2>1. PICK face \in Node : node = [i \in Node |-> Steady(i, face)]
    BY <1>2, KindAssumption DEF SteadyInit
  <2>2. \A i \in Node : node[i].wearing => node[i].haveIp
    <3> TAKE i \in Node
    <3>1. CASE i \in Real
      BY <2>1, <3>1 DEF Steady, Booted
    <3>2. CASE i \notin Real
      BY <2>1, <3>2 DEF Steady, Booted
    <3> QED
      BY <3>1, <3>2
  <2> QED
    BY <2>2 DEF ClaimInv, Sure
<1> QED
  BY <1>1, <1>2 DEF Start

LEMMA TurnClaim ==
  ASSUME IInv, ClaimInv, NEW i \in Node, Turn(i)
  PROVE  ClaimInv'
<1>1. /\ node' = [node EXCEPT ![i] = node'[i]]
      /\ Turns(node'[i], node[i])
      /\ (node'[i].ready = node[i].ready /\ calm' = calm) \/ calm' = 0
  BY TurnTurns DEF IInv, CalmTurn
<1>2. on' = on /\ roster' = roster /\ beat' = beat
  BY DEF Turn
<1>3. \A j \in Node, a \in {0, 1} : Vouched(j, a)' <=> Vouched(j, a)
  BY <1>2 DEF Vouched
<1> SUFFICES ASSUME NEW j \in Node
             PROVE  LET n == node'[j]
                    IN  /\ n.wearing /\ ~n.haveIp => ~n.link
                        /\ Sure(n) /\ calm' >= 1 /\ n.claimFor >= 1 /\ beat'[j] => Vouched(j, 0)'
                        /\ Sure(n) /\ calm' >= 2 /\ n.claimFor >= 2 /\ ~beat'[j] => Vouched(j, 1)'
  BY DEF ClaimInv
<1>4. \/ Restart(node'[j], node[j])
      \/ Same(node'[j], node[j]) /\ calm' = 0
      \/ Same(node'[j], node[j]) /\ node'[j].ready = node[j].ready /\ calm' = calm
  <2>1. CASE j = i
    BY <1>1, <2>1 DEF Turns
  <2>2. CASE j # i
    <3>1. node'[j] = node[j]
      BY <1>1, <2>2 DEF IInv, TypeOK
    <3> QED
      BY <1>1, <3>1 DEF Same
  <2> QED
    BY <2>1, <2>2
<1>5. CASE Restart(node'[j], node[j])
  BY <1>5 DEF Restart
<1>6. CASE Same(node'[j], node[j]) /\ calm' = 0
  BY <1>6 DEF Same, ClaimInv
<1>7. CASE Same(node'[j], node[j]) /\ node'[j].ready = node[j].ready /\ calm' = calm
  <2>1. Sure(node'[j]) <=> Sure(node[j])
    BY <1>7 DEF Sure, Same, LinkLost
  <2> QED
    BY <1>2, <1>3, <1>7, <2>1 DEF Same, ClaimInv
<1> QED
  BY <1>4, <1>5, <1>6, <1>7

LEMMA HeartbeatClaim ==
  ASSUME IInv, ClaimInv, NEW k \in Node, Heartbeat(k)
  PROVE  ClaimInv'
<1> DEFINE peers == {j \in Node \ {k} : on[j]}
           entry == [age |-> 0, able |-> AbleFlag(k, node[k])]
<1>1. on' = on /\ node' = node /\ beat' = [beat EXCEPT ![k] = TRUE]
  BY DEF Heartbeat
<1>2. PICK missed \in SUBSET peers :
        /\ roster' = [j \in Node |->
             IF j \in peers \ missed THEN [roster[j] EXCEPT ![k] = entry] ELSE roster[j]]
        /\ IF missed = {} THEN UNCHANGED hist ELSE Fault
  BY DEF Heartbeat
<1>3. \A i \in Node, j \in Node \ {k} : roster'[i][j] = roster[i][j]
  BY <1>2 DEF IInv, TypeOK
<1>4. missed = {} => calm' = calm /\ \A i \in Node \ {k} : on[i] => roster'[i][k] = entry
  BY <1>2 DEF IInv, TypeOK, hist
<1>5. missed # {} => calm' = 0
  BY <1>2 DEF Fault, Unrest
<1>6. CASE missed # {}
  BY <1>1, <1>5, <1>6 DEF ClaimInv
<1>7. CASE missed = {}
  <2>1. Sure(node[k]) => Vouched(k, 0)'
    <3>1. Sure(node[k]) => AbleFlag(k, node[k])
      BY SureAble DEF Sure, IInv, OnlyElectedWear
    <3> QED
      BY <1>1, <1>4, <1>7, <3>1 DEF Vouched
  <2>2. \A j \in Node \ {k}, a \in {0, 1} : Vouched(j, a) => Vouched(j, a)'
    BY <1>1, <1>3 DEF Vouched
  <2>3. \A j \in Node \ {k} : beat'[j] = beat[j]
    BY <1>1 DEF IInv, TypeOK
  <2>4. beat'[k]
    BY <1>1 DEF IInv, TypeOK
  <2> QED
    BY <1>1, <1>4, <1>7, <2>1, <2>2, <2>3, <2>4 DEF ClaimInv
<1> QED
  BY <1>6, <1>7

LEMMA OlderFields ==
  ASSUME NEW n \in NodeState, NEW t \in BOOLEAN
  PROVE  /\ OlderNode(n, t).ready = n.ready /\ OlderNode(n, t).link = n.link
         /\ OlderNode(n, t).wearing = n.wearing /\ OlderNode(n, t).haveIp = n.haveIp
         /\ OlderNode(n, t).leader = n.leader /\ OlderNode(n, t).lease = n.lease
         /\ OlderNode(n, t).downFor =
              IF n.downFor = NEVER THEN NEVER ELSE Older(n.downFor, LINK_GRACE + 1)
         /\ OlderNode(n, t).relink = IF t THEN Older(n.relink, MAX_BOUNCE) ELSE 0
         /\ OlderNode(n, t).claimFor =
              IF n.wearing /\ ~n.haveIp THEN Older(n.claimFor, CLAIM_TIMEOUT + 1) ELSE 0
BY DEF OlderNode, NodeState

LEMMA TickClaim ==
  ASSUME IInv, ClaimInv, Tick, PEER_LOST > 1
  PROVE  ClaimInv'
<1>1. SUFFICES ASSUME NEW j \in Node
               PROVE  LET n == node'[j]
                      IN  /\ n.wearing /\ ~n.haveIp => ~n.link
                          /\ Sure(n) /\ calm' >= 1 /\ n.claimFor >= 1 /\ beat'[j] => Vouched(j, 0)'
                          /\ Sure(n) /\ calm' >= 2 /\ n.claimFor >= 2 /\ ~beat'[j] => Vouched(j, 1)'
  BY DEF ClaimInv
<1>2. node[j] \in NodeState /\ Trying(j) \in BOOLEAN
  BY DEF IInv, TypeOK, Trying
<1>3. node'[j] = OlderNode(node[j], Trying(j)) /\ on' = on /\ ~beat'[j]
  BY DEF Tick
<1>4. /\ node'[j].ready = node[j].ready /\ node'[j].link = node[j].link
      /\ node'[j].wearing = node[j].wearing /\ node'[j].haveIp = node[j].haveIp
  BY <1>2, <1>3, OlderFields
<1>5. node'[j].wearing /\ ~node'[j].haveIp => ~node'[j].link
  BY <1>4 DEF ClaimInv
<1>6. ASSUME Sure(node'[j]), calm' >= 2, node'[j].claimFor >= 2
      PROVE  Vouched(j, 1)'
  <2>1. /\ node[j].claimFor \in Nat /\ node[j].downFor \in Nat \cup {NEVER}
        /\ calm \in Nat /\ calm <= SETTLE /\ SETTLE \in Nat
        /\ CLAIM_TIMEOUT \in Nat /\ LINK_GRACE \in Nat /\ CLAIM_GRACE \in Nat
    BY <1>2, TimeAssumption DEF IInv, TypeOK, NodeState
  <2>2. calm >= 1
    BY <1>6, <2>1 DEF Tick, Older
  <2>3. node'[j].claimFor = Older(node[j].claimFor, CLAIM_TIMEOUT + 1)
    BY <1>2, <1>3, <1>4, <1>6, OlderFields DEF Sure
  <2>4. node[j].claimFor >= 1 /\ node[j].claimFor < CLAIM_GRACE
    <3>1. node[j].claimFor <= CLAIM_TIMEOUT + 1
      BY <1>2, <2>1 DEF NodeState
    <3> QED
      BY <1>6, <2>1, <2>3, <3>1 DEF Older, Sure
  <2>5. ~LinkLost(node[j])
    <3>1. node'[j].downFor = IF node[j].downFor = NEVER THEN NEVER
                                                        ELSE Older(node[j].downFor, LINK_GRACE + 1)
      BY <1>2, <1>3, OlderFields
    <3> QED
      BY <1>4, <1>6, <2>1, <3>1 DEF LinkLost, Sure, Older, NEVER
  <2>6. Sure(node[j])
    BY <1>4, <1>6, <2>4, <2>5 DEF Sure
  <2>7. beat[j]
    BY <2>6 DEF Tick, IInv, OnlyElectedWear, Sure
  <2>8. Vouched(j, 0)
    BY <2>2, <2>4, <2>6, <2>7 DEF ClaimInv
  <2>9. SUFFICES ASSUME NEW i \in Node \ {j}, on[i]
                 PROVE  roster'[i][j].age <= 1 /\ roster'[i][j].able
    BY <1>3 DEF Vouched
  <2>10. roster[i][j] \in Entry /\ roster[i][j].age = 0 /\ roster[i][j].able
    <3>1. roster[i][j] \in Entry
      BY DEF IInv, TypeOK
    <3> QED
      BY <2>8, <2>9, <3>1, TimeAssumption DEF Vouched, Entry
  <2>11. roster'[i][j] = OlderEntry(roster[i][j])
    BY DEF Tick
  <2> QED
    BY <2>10, <2>11, TimeAssumption DEF OlderEntry, Entry
<1> QED
  BY <1>3, <1>5, <1>6

\* From the outside: the link comes up, and with it the claimant's address, or
\* the calm is over.
LEMMA OutsideClaim ==
  ASSUME IInv, ClaimInv, NEW i \in Node,
         \/ LinkUp(i) \/ GotIp(i) \/ Readiness(i)
         \/ WireCut(i) \/ WirePlug(i) \/ Crash(i) \/ Boot(i)
  PROVE  ClaimInv'
<1>1. node[i] \in NodeState /\ node \in [Node -> NodeState]
  BY DEF IInv, TypeOK
<1>2. CASE LinkUp(i) \/ GotIp(i)
  <2>1. on' = on /\ roster' = roster /\ beat' = beat /\ calm' = calm
    BY <1>2 DEF LinkUp, GotIp, sched, hist
  <2>2. \A j \in Node, a \in {0, 1} : Vouched(j, a)' <=> Vouched(j, a)
    BY <2>1 DEF Vouched
  <2>3. \A j \in Node \ {i} : node'[j] = node[j]
    BY <1>1, <1>2 DEF LinkUp, GotIp
  <2>4. node'[i].wearing => node'[i].haveIp
    <3>1. CASE LinkUp(i)
      <4>1. node'[i] = LinkUpStep(node[i])
        BY <1>1, <3>1 DEF LinkUp
      <4> QED
        BY <1>1, <4>1 DEF LinkUpStep, NodeState
    <3>2. CASE GotIp(i)
      BY <1>1, <3>2 DEF GotIp, NodeState
    <3> QED
      BY <1>2, <3>1, <3>2
  <2> QED
    BY <2>1, <2>2, <2>3, <2>4 DEF ClaimInv, Sure
<1>3. CASE Readiness(i) \/ WireCut(i) \/ WirePlug(i) \/ Crash(i) \/ Boot(i)
  <2>1. calm' = 0
    BY <1>3 DEF Readiness, WireCut, WirePlug, Crash, Boot, SetReady, Fault, Disturb, Unrest
  <2>2. \A j \in Node : node'[j].wearing /\ ~node'[j].haveIp => ~node'[j].link
    <3>1. CASE Readiness(i)
      BY <1>1, <3>1 DEF Readiness, NodeState, ClaimInv
    <3>2. CASE WireCut(i)
      <4>1. LinkDown(node[i]).link = FALSE
        BY <1>1 DEF LinkDown, NodeState
      <4> QED
        BY <1>1, <3>2, <4>1 DEF WireCut, ClaimInv
    <3>3. CASE WirePlug(i) \/ Boot(i)
      BY <3>3 DEF WirePlug, Boot, ClaimInv
    <3>4. CASE Crash(i)
      BY <1>1, <3>4, BootedTyped DEF Crash, ClaimInv
    <3> QED
      BY <1>3, <3>1, <3>2, <3>3, <3>4
  <2> QED
    BY <2>1, <2>2 DEF ClaimInv
<1> QED
  BY <1>2, <1>3

LEMMA NextClaim == PEER_LOST > 1 /\ IInv /\ ClaimInv /\ [Next]_vars => ClaimInv'
<1> SUFFICES ASSUME PEER_LOST > 1, IInv, ClaimInv, [Next]_vars PROVE ClaimInv'
  OBVIOUS
<1>1. CASE Tick
  BY <1>1, TickClaim
<1>2. ASSUME NEW i \in Node, NodeStep(i) PROVE ClaimInv'
  BY <1>2, TurnClaim, HeartbeatClaim, OutsideClaim DEF NodeStep
<1>3. CASE UNCHANGED vars
  BY <1>3 DEF ClaimInv, Vouched, vars, sched, hist
<1> QED
  BY <1>1, <1>2, <1>3 DEF Next

\* The election never answers with a node while its roster shows a lower one
\* that is eligible, alive and able.
LEMMA ElectLowest ==
  ASSUME NEW i \in Node, NEW n, NEW j \in Node \ {i}, j \in Eligible,
         PeerAlive(roster[i][j].age, PEER_LOST), roster[i][j].able, 
         ComputeLeader(i, n) # NONE
  PROVE  ComputeLeader(i, n) <= j
<1> DEFINE C == {[id |-> k, eligible |-> k \in Eligible,
                  alive |-> PeerAlive(roster[i][k].age, PEER_LOST),
                  able |-> roster[i][k].able] : k \in Node \ {i}}
           others == {c.id : c \in {d \in C : d.alive /\ d.able /\ d.eligible}}
           fit == (IF SelfOk(i, n) THEN {i} ELSE {}) \cup others
           least == {m \in fit : \A k \in fit : m <= k}
<1>1. j \in others
  <2> DEFINE c == [id |-> j, eligible |-> j \in Eligible,
                   alive |-> PeerAlive(roster[i][j].age, PEER_LOST),
                   able |-> roster[i][j].able]
  <2>1. c \in C /\ c.alive /\ c.able /\ c.eligible /\ c.id = j
    OBVIOUS
  <2> QED
    BY <2>1
<1>2. ComputeLeader(i, n) = IF least = {} THEN 0 ELSE CHOOSE m \in least : TRUE
  BY DEF ComputeLeader, BohunElect
<1>3. least # {}
  BY <1>2 DEF NONE
<1>4. ComputeLeader(i, n) \in least
  BY <1>2, <1>3
<1> QED
  BY <1>1, <1>4

\* A turn puts the mask on only when the election names this node.
LEMMA TurnClaims ==
  ASSUME IInv, NEW i \in Node, Turn(i), ~node[i].wearing, node'[i].wearing
  PROVE  ComputeLeader(i, node[i]) = i
<1> DEFINE e == ElectStep(i, node[i])
           f == [e EXCEPT !.ready = ~@]
           now == ComputeLeader(i, node[i])
           m == [node[i] EXCEPT !.leader = now]
<1>1. node[i] \in NodeState
  BY DEF IInv, TypeOK
<1>2. e \in NodeState
  BY <1>1, ElectTurns
<1>3. f \in NodeState /\ f.wearing = e.wearing
  BY <1>2 DEF NodeState
<1>4. e.wearing
  <2>1. node' = [node EXCEPT ![i] = MaskTickStep(e)] \/ node' = [node EXCEPT ![i] = MaskTickStep(f)]
    BY DEF Turn
  <2>2. MaskTickStep(e).wearing \/ MaskTickStep(f).wearing
    BY <2>1 DEF IInv, TypeOK
  <2> QED
    BY <1>2, <1>3, <2>2, MaskTickEntitled
<1>5. LoseWire(node[i]) = node[i]
  BY DEF LoseWire
<1>6. now # node[i].leader
  BY <1>4, <1>5 DEF ElectStep
<1>7. e = SetLeader(m, now = i)
  BY <1>5, <1>6 DEF ElectStep
<1>8. m \in NodeState /\ ~m.wearing
  BY <1>1, ElectAnswers DEF NodeState
<1>9. ASSUME now # i PROVE FALSE
  <2>1. m.wearing = FALSE /\ (now = i) = FALSE
    BY <1>8, <1>9 DEF NodeState
  <2> HIDE DEF m, now, e
  <2>2. e = m
    BY <1>7, <2>1 DEF SetLeader
  <2> QED
    BY <1>4, <1>8, <2>2
<1> QED
  BY <1>9

LEMMA CascadeStep ==
  ASSUME PEER_LOST > 1, IInv, ClaimInv, Next, calm >= 2, NEW i \in Node, NEW j \in Node,
         ~node[i].wearing, node'[i].wearing, j < i, node[j].wearing, ~node[j].haveIp,
         node[j].claimFor >= 2
  PROVE  ~node[j].ready \/ LinkLost(node[j]) \/ node[j].claimFor >= CLAIM_GRACE
<1>1. node \in [Node -> NodeState]
  BY DEF IInv, TypeOK
<1>2. Turn(i)
  <2>1. CASE Tick
    <3>1. node'[i] = OlderNode(node[i], Trying(i))
      BY <2>1 DEF Tick
    <3>2. Trying(i) \in BOOLEAN
      BY <1>1 DEF Trying, NodeState, IInv, TypeOK
    <3> QED
      BY <1>1, <3>1, <3>2, OlderTyped
  <2>2. ASSUME NEW k \in Node, NodeStep(k) PROVE Turn(i)
    <3>1. CASE Turn(k)
      <4>1. k = i
        <5>1. node' = [node EXCEPT ![k] = node'[k]]
          BY <3>1, TurnTurns DEF IInv
        <5> QED
          BY <1>1, <5>1
      <4> QED
        BY <3>1, <4>1
    <3>2. CASE Heartbeat(k) \/ WirePlug(k) \/ Boot(k)
      BY <3>2 DEF Heartbeat, WirePlug, Boot
    <3>3. CASE LinkUp(k)
      <4>1. LinkUpStep(node[k]).wearing = node[k].wearing
        BY <1>1, LinkUpTyped
      <4> QED
        BY <1>1, <3>3, <4>1 DEF LinkUp
    <3>4. CASE GotIp(k)
      BY <1>1, <3>4 DEF GotIp, NodeState
    <3>5. CASE Readiness(k)
      BY <1>1, <3>5 DEF Readiness, NodeState
    <3>6. CASE WireCut(k)
      <4>1. LinkDown(node[k]).wearing = node[k].wearing
        BY <1>1, SwapTyped
      <4> QED
        BY <1>1, <3>6, <4>1 DEF WireCut
    <3>7. CASE Crash(k)
      BY <1>1, <3>7, BootedTyped DEF Crash
    <3> QED
      BY <2>2, <3>1, <3>2, <3>3, <3>4, <3>5, <3>6, <3>7 DEF NodeStep
  <2> QED
    BY <2>1, <2>2 DEF Next
<1>3. SUFFICES ASSUME Sure(node[j]) PROVE FALSE
  <2>1. node[j].claimFor \in Nat /\ CLAIM_GRACE \in Nat
    BY <1>1, TimeAssumption DEF NodeState
  <2> QED
    BY <2>1 DEF Sure
<1>4. i \in Nat /\ j \in Nat /\ j # i
  BY NodeAssumption
<1>5. calm \in Nat /\ node[j].claimFor \in Nat
  BY <1>1 DEF IInv, TypeOK, NodeState
<1>6. Vouched(j, 0) \/ Vouched(j, 1)
  BY <1>3, <1>5 DEF ClaimInv
<1>7. roster[i][j].age <= 1 /\ roster[i][j].able /\ roster[i][j].age \in Nat
  <2>1. on[i]
    BY <1>2 DEF Turn
  <2>2. roster[i][j].age \in Nat
    BY DEF IInv, TypeOK, Entry
  <2> QED
    BY <1>4, <1>6, <2>1, <2>2 DEF Vouched
<1>8. PeerAlive(roster[i][j].age, PEER_LOST)
  BY <1>7, TimeAssumption DEF PeerAlive
<1>9. ComputeLeader(i, node[i]) = i
  BY <1>2, TurnClaims
<1>10. j \in Eligible
  BY DEF IInv, OnlyElectedWear
<1>11. i # NONE
  BY NodeAssumption
<1>12. i <= j
  BY <1>4, <1>7, <1>8, <1>9, <1>10, <1>11, ElectLowest
<1> QED
  BY <1>4, <1>12

----------------------------------------------------------------------------
(* One face: the fleet converges *)

\* Who could be the face, its wire apart: running, eligible, with a server that
\* is ready.  None of it changes while the fleet is calm.
Willing(i) == on[i] /\ i \in Eligible \cap Real /\ node[i].ready

\* The willing below i have no cable: i stands in front of all who have.
Front(i) == \A j \in Node : Willing(j) /\ j < i => ~wire[j]

\* A willing node without a cable that never had a link since it booted: its
\* link cannot be lost, so it goes on electing itself (see SelfOk).
Ghost(j) == Willing(j) /\ ~wire[j] /\ node[j].downFor = NEVER

\* Those whom the calm alone silences.
Dumb(j) == ~Willing(j) \/ (~wire[j] /\ node[j].downFor # NEVER)

\* By when, after the last disturbance: the radio's silence and the link grace
\* are over; then each ghost in turn, lowest first, has claimed, timed out and
\* been heard to be silent; then the face has had three bounces of its PHY.
Base == LINK_GRACE + 1 + PEER_LOST
Haunt == CLAIM_TIMEOUT + 4
Climb == 3 * MAX_BOUNCE + 7

Rank(i) == Cardinality({j \in Eligible \cap Real : j < i})
Due(i)  == Base + (Haunt + 1) * Rank(i)

\* Enough calm for the last of them all.
Enough == Base + (Haunt + 1) * Cardinality(Eligible \cap Real) + Climb + 2

\* The roster of i has j as a candidate; no running node's has.
Shown(i, j) ==
  j \in Eligible /\ PeerAlive(roster[i][j].age, PEER_LOST) /\ roster[i][j].able

Unheard(j) ==
  \A i \in Node \ {j} : on[i] => ~Shown(i, j)

MuteAt(j) == IF Ghost(j) THEN Due(j) + Haunt ELSE LINK_GRACE + 1
Still(j)  == on[j] /\ (Dumb(j) \/ (Ghost(j) /\ Front(j)))

\* Units a ghost still needs to be through with its claim.
GhostLeft(i, n, t) ==
  IF n.leader # i THEN CLAIM_TIMEOUT + (IF t THEN 4 ELSE 3)
  ELSE IF ~n.wearing THEN 0
  ELSE IF n.claimFor <= CLAIM_TIMEOUT THEN CLAIM_TIMEOUT + 2 - n.claimFor
  ELSE IF t THEN 2 ELSE 1

\* A claim made with the link up: every timer of it runs with the PHY's.
Clean(n) == n.downFor # NEVER /\ n.downFor <= n.relink /\ n.claimFor <= n.relink

\* Units the front node with its wire still needs to have its link for good.
FaceLeft(i, n, t) ==
  IF n.link
  THEN IF n.leader = i THEN 0 ELSE MAX_BOUNCE + (IF t THEN 3 ELSE 2)
  ELSE IF n.wearing
  THEN IF Clean(n) THEN MAX_BOUNCE + 1 - n.relink ELSE 3 * MAX_BOUNCE + 5 - n.relink
  ELSE IF n.leader = i \/ LinkLost(n) THEN 2 * MAX_BOUNCE + 4 - n.relink
  ELSE 3 * MAX_BOUNCE + (IF t THEN 7 ELSE 6)

\* What holds of every node, calm or not.
NodeInv ==
  \A i \in Node :
    LET n == node[i]
    IN  /\ ~wire[i] => ~n.link
        /\ n.wearing /\ ~n.haveIp => ~n.link
        /\ ~n.link /\ n.downFor = NEVER => ~n.haveIp
        /\ ~wire[i] /\ n.downFor # NEVER => n.downFor >= calm \/ n.downFor > LINK_GRACE
        /\ n.wearing => on[i]

\* Silence spreads: of the nodes that are off, and of those that are still.
SilentInv ==
  \A j \in Node :
    /\ ~on[j] => \A i \in Node \ {j} :
         on[i] => roster[i][j].age >= calm \/ ~PeerAlive(roster[i][j].age, PEER_LOST)
    /\ Still(j) /\ calm >= MuteAt(j) /\ beat[j] => Unheard(j)
    /\ Still(j) /\ calm > MuteAt(j) => Unheard(j)

GhostInv ==
  \A i \in Node : Ghost(i) /\ Front(i) /\ calm >= Due(i) =>
    LET left == GhostLeft(i, node[i], turned[i])
    IN  left = 0 \/ left + calm <= Due(i) + Haunt

\* The front node with a wire climbs to a link and its own leadership; if it
\* wears the mask then, everyone hears it; and everyone follows.
Leads(i) == Willing(i) /\ wire[i] /\ Front(i)

Follows(k, i) == k > i \/ ~SelfOk(k, node[k])

FaceInv ==
  \A i \in Node : Leads(i) =>
    /\ calm >= Due(i) =>
         LET left == FaceLeft(i, node[i], turned[i])
         IN  left = 0 \/ left + calm <= Due(i) + Climb
    /\ calm >= Due(i) + Climb /\ node[i].wearing /\ beat[i] => Vouched(i, 0)
    /\ calm > Due(i) + Climb /\ node[i].wearing /\ ~beat[i] => Vouched(i, 1)
    /\ \A k \in Node \ {i} : on[k] /\ node[i].wearing /\ Follows(k, i) =>
         /\ calm > Due(i) + Climb /\ turned[k] => node[k].leader = i
         /\ calm > Due(i) + Climb + 1 => node[k].leader = i

\* The least of a set of naturals.
LEMMA Least ==
  ASSUME NEW S, S \subseteq Nat, S # {}
  PROVE  \E m \in S : \A k \in S : m <= k
<1>1. PICK m \in S : \A k \in S : ~ (<<k, m>> \in OpToRel(<, Nat))
  BY NatLessThanWellFounded, WFMin
<1>2. ASSUME NEW k \in S PROVE m <= k
  <2>1. ~ (k < m)
    BY <1>1 DEF OpToRel
  <2> QED
    BY <2>1
<1> QED
  BY <1>2

LEMMA TimesNat ==
  ASSUME NEW a \in Nat, NEW b \in Nat
  PROVE  a * b \in Nat
OBVIOUS

LEMMA TimesNext ==
  ASSUME NEW a \in Nat, NEW b \in Nat, NEW c \in Nat, b + 1 <= c
  PROVE  a * b \in Nat /\ a * c \in Nat /\ a * b + a <= a * c
<1> DEFINE d == c - b - 1
<1>1. d \in Nat /\ c = b + 1 + d
  OBVIOUS
<1> HIDE DEF d
<1>2. a * c = a * b + a + a * d
  BY <1>1
<1>3. a * b \in Nat /\ a * c \in Nat /\ a * d \in Nat
  BY <1>1, TimesNat
<1> QED
  BY <1>2, <1>3

\* The timetable of the convergence.
LEMMA Times ==
  /\ PEER_LOST \in Nat \ {0} /\ LINK_GRACE \in Nat /\ CLAIM_TIMEOUT \in Nat
  /\ MAX_BOUNCE \in Nat /\ SETTLE \in Nat
  /\ Base \in Nat /\ Base >= PEER_LOST /\ Base > LINK_GRACE + 1
  /\ Haunt \in Nat /\ Haunt = CLAIM_TIMEOUT + 4
  /\ Climb \in Nat /\ Climb = 3 * MAX_BOUNCE + 7
BY TimeAssumption DEF Base, Haunt, Climb

LEMMA Dues ==
  ASSUME NEW i \in Node
  PROVE  /\ Due(i) \in Nat /\ Due(i) >= Base
         /\ \A j \in Eligible \cap Real : j < i => Due(j) + Haunt < Due(i)
         /\ i \in Eligible \cap Real => Due(i) + Haunt + Climb + 2 < Enough
<1> DEFINE R(k) == {j \in Eligible \cap Real : j < k}
           N == Cardinality(Eligible \cap Real)
<1>1. /\ IsFiniteSet(Eligible \cap Real) /\ Eligible \cap Real \subseteq Nat
      /\ Eligible \cap Real \subseteq Node /\ i \in Nat
  BY NodeAssumption, KindAssumption, FS_Subset
<1>2. /\ N \in Nat
      /\ \A k \in Node : IsFiniteSet(R(k)) /\ Cardinality(R(k)) \in Nat
  BY <1>1, FS_Subset, FS_CardinalityType
<1>3. ASSUME NEW j \in Eligible \cap Real, NEW S, IsFiniteSet(S), R(j) \cup {j} \subseteq S
      PROVE  Cardinality(R(j)) + 1 <= Cardinality(S)
  <2>1. j \notin R(j)
    BY <1>1
  <2>2. j \in Node
    BY <1>1
  <2>3. Cardinality(R(j) \cup {j}) = Cardinality(R(j)) + 1
    BY <1>2, <2>1, <2>2, FS_AddElement
  <2>4. Cardinality(R(j) \cup {j}) <= Cardinality(S)
    BY <1>3, FS_Subset
  <2> QED
    BY <2>3, <2>4
<1>4. \A k \in Node : Due(k) = Base + (Haunt + 1) * Cardinality(R(k))
  BY DEF Due, Rank
<1>5. Due(i) \in Nat /\ Due(i) >= Base
  <2>1. (Haunt + 1) * Cardinality(R(i)) \in Nat
    BY <1>2, Times, TimesNat
  <2> QED
    BY <1>4, <2>1, Times
<1>6. ASSUME NEW j \in Eligible \cap Real, j < i
      PROVE  Due(j) + Haunt < Due(i)
  <2>1. R(j) \cup {j} \subseteq R(i)
    BY <1>1, <1>6
  <2>2. Cardinality(R(j)) + 1 <= Cardinality(R(i))
    BY <1>2, <1>3, <2>1
  <2>3. j \in Node
    BY <1>1
  <2>4. Due(j) = Base + (Haunt + 1) * Cardinality(R(j))
    BY <1>4, <2>3
  <2>5. Due(i) = Base + (Haunt + 1) * Cardinality(R(i))
    BY <1>4
  <2> HIDE DEF R
  <2>6. Cardinality(R(j)) \in Nat /\ Cardinality(R(i)) \in Nat /\ Haunt + 1 \in Nat
    BY <1>2, <2>3, Times
  <2>7. /\ (Haunt + 1) * Cardinality(R(j)) \in Nat /\ (Haunt + 1) * Cardinality(R(i)) \in Nat
        /\ (Haunt + 1) * Cardinality(R(j)) + (Haunt + 1) <= (Haunt + 1) * Cardinality(R(i))
    BY <2>2, <2>6, TimesNext
  <2> QED
    BY <2>4, <2>5, <2>7, Times
<1>7. ASSUME i \in Eligible \cap Real
      PROVE  Due(i) + Haunt + Climb + 2 < Enough
  <2>1. Cardinality(R(i)) + 1 <= N
    BY <1>1, <1>3, <1>7
  <2>2. Due(i) = Base + (Haunt + 1) * Cardinality(R(i))
    BY <1>4
  <2>3. Cardinality(R(i)) \in Nat /\ Haunt + 1 \in Nat
    BY <1>2, Times
  <2>4. Enough = Base + (Haunt + 1) * N + Climb + 2
    BY DEF Enough
  <2> HIDE DEF R, N
  <2>5. /\ (Haunt + 1) * Cardinality(R(i)) \in Nat /\ (Haunt + 1) * N \in Nat
        /\ (Haunt + 1) * Cardinality(R(i)) + (Haunt + 1) <= (Haunt + 1) * N
    BY <1>2, <2>1, <2>3, TimesNext
  <2> QED
    BY <2>2, <2>4, <2>5, Times
<1> QED
  BY <1>5, <1>6, <1>7

\* The fields of a node as the timers and the links read them.
LEMMA NodeFields ==
  ASSUME NEW n \in NodeState
  PROVE  /\ n.downFor \in Int /\ (n.downFor = NEVER \/ n.downFor >= 0) /\ n.downFor <= LINK_GRACE + 1
         /\ n.relink \in Nat /\ n.relink <= MAX_BOUNCE
         /\ n.claimFor \in Nat /\ n.claimFor <= CLAIM_TIMEOUT + 1
         /\ NEVER \in Int /\ NEVER < 0
BY TimeAssumption DEF NodeState, NEVER

\* Restarting or leaving a node says the same of its link's loss.
LEMMA TurnsLost ==
  ASSUME NEW m, NEW n \in NodeState, Turns(m, n)
  PROVE  /\ LinkLost(m) <=> LinkLost(n)
         /\ m.link => n.link
         /\ ~n.link => m.downFor = n.downFor
         /\ m.haveIp => n.haveIp
<1>1. CASE Same(m, n)
  BY <1>1 DEF Same, LinkLost
<1>2. CASE Restart(m, n)
  <2>1. CASE n.link
    BY <1>2, <2>1, TimeAssumption DEF Restart, LinkLost
  <2>2. CASE ~n.link
    BY <1>2, <2>2 DEF Restart, LinkLost
  <2> QED
    BY <2>1, <2>2, <1>2 DEF Restart
<1> QED
  BY <1>1, <1>2 DEF Turns

LEMMA LinkUpFields ==
  ASSUME NEW n \in NodeState
  PROVE  LET m == LinkUpStep(n)
         IN  /\ m.link /\ m.downFor = NEVER /\ m.relink = 0
             /\ m.wearing = n.wearing /\ m.leader = n.leader /\ m.ready = n.ready
             /\ n.wearing => m.haveIp
BY DEF LinkUpStep, NodeState

\* What the steps do to one node's record, whoever takes them.
LEMMA BeatShape ==
  ASSUME TypeOK, NEW k \in Node, Heartbeat(k)
  PROVE  /\ on' = on /\ wire' = wire /\ node' = node /\ turned' = turned
         /\ beat' = [beat EXCEPT ![k] = TRUE]
         /\ \A i \in Node, j \in Node \ {k} : roster'[i][j] = roster[i][j]
         /\ \/ calm' = 0
            \/ calm' = calm /\ \A i \in Node \ {k} :
                 on[i] => roster'[i][k] = [age |-> 0, able |-> AbleFlag(k, node[k])]
<1> DEFINE peers == {j \in Node \ {k} : on[j]}
           entry == [age |-> 0, able |-> AbleFlag(k, node[k])]
<1>1. on' = on /\ wire' = wire /\ node' = node /\ turned' = turned /\ beat' = [beat EXCEPT ![k] = TRUE]
  BY DEF Heartbeat
<1>2. PICK missed \in SUBSET peers :
        /\ roster' = [j \in Node |->
             IF j \in peers \ missed THEN [roster[j] EXCEPT ![k] = entry] ELSE roster[j]]
        /\ IF missed = {} THEN UNCHANGED hist ELSE Fault
  BY DEF Heartbeat
<1> HIDE DEF entry
<1>3. \A i \in Node, j \in Node \ {k} : roster'[i][j] = roster[i][j]
  BY <1>2 DEF TypeOK
<1>4. missed = {} => calm' = calm /\ \A i \in Node \ {k} : on[i] => roster'[i][k] = entry
  BY <1>2 DEF TypeOK, hist
<1>5. missed # {} => calm' = 0
  BY <1>2 DEF Fault, Unrest
<1> QED
  BY <1>1, <1>3, <1>4, <1>5 DEF entry

CalmBeat(k) ==
  /\ Heartbeat(k) /\ calm' = calm
  /\ \A i \in Node \ {k} : on[i] => roster'[i][k] = [age |-> 0, able |-> AbleFlag(k, node[k])]

\* Every step either ends the calm or is one of these.
LEMMA CalmSteps ==
  ASSUME IInv, [Next]_vars, calm' # 0
  PROVE  \/ Tick
         \/ UNCHANGED vars
         \/ \E i \in Node : CalmTurn(i) \/ CalmBeat(i) \/ LinkUp(i) \/ GotIp(i)
<1>1. ASSUME NEW i \in Node, NodeStep(i)
      PROVE  CalmTurn(i) \/ CalmBeat(i) \/ LinkUp(i) \/ GotIp(i)
  <2>1. CASE Turn(i)
    BY <2>1, TurnTurns DEF IInv
  <2>2. CASE Heartbeat(i)
    BY <2>2, BeatShape DEF IInv, CalmBeat
  <2>3. CASE Readiness(i) \/ WireCut(i) \/ WirePlug(i) \/ Crash(i) \/ Boot(i)
    BY <2>3 DEF Readiness, WireCut, WirePlug, Crash, Boot, SetReady, Fault, Disturb, Unrest
  <2> QED
    BY <1>1, <2>1, <2>2, <2>3 DEF NodeStep
<1> QED
  BY <1>1 DEF Next

LEMMA TickShape ==
  ASSUME IInv, Tick, NEW i \in Node
  PROVE  LET n == node[i]
             m == node'[i]
         IN  /\ m.ready = n.ready /\ m.link = n.link /\ m.wearing = n.wearing
             /\ m.haveIp = n.haveIp /\ m.leader = n.leader
             /\ n.downFor = NEVER => m.downFor = NEVER
             /\ n.downFor # NEVER => m.downFor = Older(n.downFor, LINK_GRACE + 1)
             /\ Trying(i) => n.relink < MAX_BOUNCE /\ m.relink = n.relink + 1
             /\ n.wearing /\ ~n.haveIp => m.claimFor = Older(n.claimFor, CLAIM_TIMEOUT + 1)
             /\ on' = on /\ wire' = wire /\ ~turned'[i] /\ ~beat'[i]
             /\ on[i] => turned[i] /\ beat[i]
             /\ calm' = Older(calm, SETTLE)
             /\ \A j \in Node : roster'[i][j] = OlderEntry(roster[i][j])
<1>1. node[i] \in NodeState /\ Trying(i) \in BOOLEAN
  BY DEF IInv, TypeOK, Trying
<1>2. node'[i] = OlderNode(node[i], Trying(i)) /\ (Trying(i) => node[i].relink < MAX_BOUNCE)
  BY DEF Tick
<1>3. Trying(i) => node'[i].relink = node[i].relink + 1
  <2>1. ASSUME Trying(i) PROVE node'[i].relink = Older(node[i].relink, MAX_BOUNCE)
    <3>1. Trying(i) = TRUE
      BY <1>1, <2>1
    <3>2. node'[i] = OlderNode(node[i], TRUE)
      BY <1>2, <3>1
    <3> QED
      BY <1>1, <3>2, OlderFields
  <2> QED
    BY <1>1, <1>2, <2>1, NodeFields, Times DEF Older
<1> QED
  BY <1>1, <1>2, <1>3, OlderFields DEF Tick

----------------------------------------------------------------------------
(* What holds of every node, calm or not *)

LEMMA NodeInvAt ==
  ASSUME IInv, NodeInv, NEW i \in Node
  PROVE  LET n == node[i]
         IN  /\ n \in NodeState
             /\ ~wire[i] => ~n.link
             /\ n.wearing /\ ~n.haveIp => ~n.link
             /\ ~n.link /\ n.downFor = NEVER => ~n.haveIp
             /\ ~wire[i] /\ n.downFor # NEVER => n.downFor >= calm \/ n.downFor > LINK_GRACE
             /\ n.wearing => on[i] /\ n.leader = i
BY DEF IInv, TypeOK, OnlyElectedWear, NodeInv

LEMMA InitNode == Start => NodeInv
<1>1. ASSUME Init \/ ColdInit PROVE NodeInv
  BY <1>1, PowerUp DEF Booted, NodeInv
<1>2. ASSUME SteadyInit PROVE NodeInv
  <2>1. PICK face \in Eligible \cap Real : node = [i \in Node |-> Steady(i, face)]
    BY <1>2 DEF SteadyInit
  <2>2. ASSUME NEW i \in Node
        PROVE  LET n == node[i]
               IN  /\ i \in Real => n.link /\ n.haveIp /\ wire[i]
                   /\ i \notin Real => ~n.link /\ ~n.haveIp /\ ~n.wearing /\ n.downFor = NEVER
                   /\ on[i]
    <3>1. CASE i \in Real
      BY <1>2, <2>1, <3>1 DEF Steady, Booted, SteadyInit
    <3>2. CASE i \notin Real
      BY <1>2, <2>1, <3>2 DEF Steady, Booted, SteadyInit
    <3> QED
      BY <3>1, <3>2
  <2> QED
    BY <2>2 DEF NodeInv
<1> QED
  BY <1>1, <1>2 DEF Start

\* One node's share, for a step that turns it, wire and calm as they were.
LEMMA TurnsNode ==
  ASSUME IInv, NodeInv, NEW i \in Node, NEW m, Turns(m, node[i])
  PROVE  /\ ~wire[i] => ~m.link
         /\ m.wearing /\ ~m.haveIp => ~m.link
         /\ ~m.link /\ m.downFor = NEVER => ~m.haveIp
         /\ ~wire[i] => m.downFor = node[i].downFor
<1>1. node[i] \in NodeState /\ (~wire[i] => ~node[i].link)
  BY NodeInvAt
<1>2. CASE Same(m, node[i])
  BY <1>2 DEF Same, NodeInv
<1>3. CASE Restart(m, node[i])
  BY <1>1, <1>3 DEF Restart
<1> QED
  BY <1>2, <1>3 DEF Turns

LEMMA NextNode == IInv /\ NodeInv /\ [Next]_vars => NodeInv'
<1> SUFFICES ASSUME IInv, NodeInv, [Next]_vars PROVE NodeInv'
  OBVIOUS
<1>0. IInv' /\ calm' \in Nat /\ calm \in Nat
  <2>1. IInv'
    BY NextIInv
  <2> QED
    BY <2>1, TimeAssumption DEF IInv, TypeOK
<1>1. SUFFICES ASSUME NEW i \in Node
               PROVE  LET m == node'[i]
                      IN  /\ ~wire'[i] => ~m.link
                          /\ m.wearing /\ ~m.haveIp => ~m.link
                          /\ ~m.link /\ m.downFor = NEVER => ~m.haveIp
                          /\ ~wire'[i] /\ m.downFor # NEVER => m.downFor >= calm' \/ m.downFor > LINK_GRACE
  <2>1. \A i \in Node : node'[i].wearing => on'[i]
    BY <1>0 DEF IInv, OnlyElectedWear
  <2> QED
    BY <1>1, <2>1 DEF NodeInv
<1> DEFINE n == node[i]
<1>2. /\ n \in NodeState
      /\ ~wire[i] => ~n.link
      /\ n.wearing /\ ~n.haveIp => ~n.link
      /\ ~n.link /\ n.downFor = NEVER => ~n.haveIp
      /\ ~wire[i] /\ n.downFor # NEVER => n.downFor >= calm \/ n.downFor > LINK_GRACE
  BY NodeInvAt
<1>3. node'[i] \in NodeState /\ node \in [Node -> NodeState]
  BY <1>0 DEF IInv, TypeOK
<1>4. /\ n.downFor \in Int /\ (n.downFor = NEVER \/ n.downFor >= 0)
      /\ node'[i].downFor \in Int /\ (node'[i].downFor = NEVER \/ node'[i].downFor >= 0)
      /\ NEVER \in Int
  BY <1>2, <1>3, NodeFields
<1>5. CASE node'[i] = n /\ wire'[i] = wire[i] /\ (calm' = calm \/ calm' = 0)
  BY <1>0, <1>2, <1>4, <1>5
<1>6. CASE Tick
  <2>1. /\ node'[i].link = n.link /\ node'[i].wearing = n.wearing /\ node'[i].haveIp = n.haveIp
        /\ n.downFor = NEVER => node'[i].downFor = NEVER
        /\ n.downFor # NEVER => node'[i].downFor = Older(n.downFor, LINK_GRACE + 1)
        /\ wire' = wire /\ calm' = Older(calm, SETTLE)
    BY <1>6, TickShape
  <2>2. n.downFor # NEVER /\ ~wire[i] => node'[i].downFor >= calm' \/ node'[i].downFor > LINK_GRACE
    BY <1>0, <1>2, <1>4, <2>1, Times DEF Older, NEVER
  <2>3. n.downFor # NEVER => node'[i].downFor # NEVER
    BY <1>4, <2>1, Times DEF Older, NEVER
  <2> QED
    BY <1>2, <2>1, <2>2, <2>3
<1>7. ASSUME NEW k \in Node, NodeStep(k), k # i
      PROVE  node'[i] = n /\ (wire'[i] = wire[i]) /\ (calm' = calm \/ calm' = 0)
  <2>1. CASE Turn(k)
    <3>1. node' = [node EXCEPT ![k] = node'[k]] /\ (calm' = calm \/ calm' = 0)
      BY <2>1, TurnTurns DEF IInv, CalmTurn
    <3> QED
      BY <1>3, <1>7, <2>1, <3>1 DEF Turn
  <2>2. CASE Heartbeat(k)
    BY <2>2, BeatShape DEF IInv
  <2>3. CASE LinkUp(k) \/ GotIp(k) \/ Readiness(k) \/ WireCut(k) \/ WirePlug(k) \/ Crash(k) \/ Boot(k)
    BY <1>7, <2>3 DEF LinkUp, GotIp, Readiness, WireCut, WirePlug, Crash, Boot, SetReady, Fault,
       Disturb, Unrest, hist, IInv, TypeOK
  <2> QED
    BY <1>7, <2>1, <2>2, <2>3 DEF NodeStep
<1>8. CASE Turn(i)
  <2>1. Turns(node'[i], n) /\ wire' = wire /\ (calm' = calm \/ calm' = 0)
    BY <1>8, TurnTurns DEF IInv, CalmTurn, Turn
  <2>2. /\ ~wire[i] => ~node'[i].link
        /\ node'[i].wearing /\ ~node'[i].haveIp => ~node'[i].link
        /\ ~node'[i].link /\ node'[i].downFor = NEVER => ~node'[i].haveIp
        /\ ~wire[i] => node'[i].downFor = n.downFor
    BY <2>1, TurnsNode
  <2> QED
    BY <1>0, <1>2, <1>4, <2>1, <2>2
<1>9. CASE LinkUp(i)
  <2>1. node'[i] = LinkUpStep(n) /\ wire[i] /\ wire' = wire
    BY <1>3, <1>9 DEF LinkUp, Trying
  <2> QED
    BY <1>2, <2>1, LinkUpFields
<1>10. CASE GotIp(i)
  <2>1. /\ node'[i] = [n EXCEPT !.haveIp = TRUE, !.lease = TRUE] /\ n.link /\ ~n.wearing
        /\ wire' = wire
    BY <1>3, <1>10 DEF GotIp
  <2> QED
    BY <1>2, <2>1 DEF NodeState
<1>11. CASE Readiness(i)
  <2>1. node'[i] = [n EXCEPT !.ready = ~@] /\ wire' = wire /\ calm' = 0
    BY <1>3, <1>11 DEF Readiness, SetReady, Fault, Disturb, Unrest
  <2>2. /\ node'[i].link = n.link /\ node'[i].wearing = n.wearing /\ node'[i].haveIp = n.haveIp
        /\ node'[i].downFor = n.downFor
    BY <1>2, <2>1 DEF NodeState
  <2> QED
    BY <1>2, <1>4, <2>1, <2>2
<1>12. CASE WireCut(i)
  <2>1. node'[i] = LinkDown(n) /\ calm' = 0
    BY <1>3, <1>12 DEF WireCut, Fault, Unrest
  <2>2. /\ ~node'[i].link /\ node'[i].haveIp = n.haveIp
        /\ node'[i].downFor = IF n.link THEN 0 ELSE n.downFor
    BY <1>2, <2>1 DEF LinkDown, NodeState
  <2> QED
    BY <1>2, <1>4, <2>1, <2>2 DEF NEVER
<1>13. CASE WirePlug(i) \/ Boot(i)
  <2>1. node' = node /\ calm' = 0 /\ (wire'[i] \/ wire'[i] = wire[i])
    BY <1>13 DEF WirePlug, Boot, Disturb, Unrest, IInv, TypeOK
  <2> QED
    BY <1>2, <1>4, <2>1
<1>14. CASE Crash(i)
  <2>1. node'[i] = Booted(i)
    BY <1>3, <1>14 DEF Crash
  <2> QED
    BY <2>1 DEF Booted
<1>15. CASE UNCHANGED vars
  BY <1>5, <1>15 DEF vars, hist
<1>16. ASSUME NEW k \in Node, NodeStep(k), k = i
       PROVE  \/ Turn(i) \/ Heartbeat(i) \/ LinkUp(i) \/ GotIp(i) \/ Readiness(i)
              \/ WireCut(i) \/ WirePlug(i) \/ Boot(i) \/ Crash(i)
  BY <1>16 DEF NodeStep
<1>17. Heartbeat(i) => node'[i] = n /\ wire'[i] = wire[i] /\ (calm' = calm \/ calm' = 0)
  BY BeatShape DEF IInv
<1> HIDE DEF n
<1> QED
  BY <1>5, <1>6, <1>7, <1>8, <1>9, <1>10, <1>11, <1>12, <1>13, <1>14, <1>15, <1>16, <1>17 DEF Next

----------------------------------------------------------------------------
(* What a calm step leaves alone *)

LEMMA Frozen ==
  ASSUME IInv, NodeInv, [Next]_vars, calm' # 0
  PROVE  /\ on' = on /\ wire' = wire
         /\ \A i \in Node : /\ Willing(i)' <=> Willing(i)
                            /\ Front(i)' <=> Front(i)
                            /\ Ghost(i)' <=> Ghost(i)
                            /\ Dumb(i)' <=> Dumb(i)
                            /\ Still(i)' <=> Still(i)
                            /\ Leads(i)' <=> Leads(i)
                            /\ MuteAt(i)' = MuteAt(i)
<1>1. /\ on' = on /\ wire' = wire
      /\ \A i \in Node : /\ node'[i].ready = node[i].ready
                         /\ ~wire[i] => (node'[i].downFor = NEVER <=> node[i].downFor = NEVER)
  <2>1. CASE Tick
    <3>1. ASSUME NEW i \in Node, node[i].downFor # NEVER
          PROVE  node'[i].downFor # NEVER
      <4>1. node'[i].downFor = Older(node[i].downFor, LINK_GRACE + 1)
        BY <2>1, <3>1, TickShape
      <4> QED
        BY <3>1, <4>1, NodeInvAt, NodeFields, Times DEF Older
    <3> QED
      BY <2>1, <3>1, TickShape DEF Tick
  <2>2. ASSUME NEW k \in Node, CalmTurn(k)
        PROVE  /\ on' = on /\ wire' = wire
               /\ \A i \in Node : /\ node'[i].ready = node[i].ready
                                  /\ ~wire[i] => node'[i].downFor = node[i].downFor
    <3>1. /\ node' = [node EXCEPT ![k] = node'[k]] /\ Turns(node'[k], node[k])
          /\ node'[k].ready = node[k].ready
      BY <2>2, TurnTurns DEF CalmTurn, IInv
    <3>2. ~wire[k] => node'[k].downFor = node[k].downFor
      BY <3>1, TurnsNode
    <3> QED
      BY <2>2, <3>1, <3>2 DEF CalmTurn, Turn, IInv, TypeOK
  <2>3. ASSUME NEW k \in Node, CalmBeat(k) PROVE on' = on /\ wire' = wire /\ node' = node
    BY <2>3 DEF CalmBeat, Heartbeat
  <2>4. ASSUME NEW k \in Node, LinkUp(k)
        PROVE  /\ on' = on /\ wire' = wire
               /\ \A i \in Node : /\ node'[i].ready = node[i].ready
                                  /\ ~wire[i] => node'[i].downFor = node[i].downFor
    <3>1. node' = [node EXCEPT ![k] = LinkUpStep(node[k])] /\ node[k] \in NodeState
      BY <2>4 DEF LinkUp, IInv, TypeOK
    <3>2. LinkUpStep(node[k]).ready = node[k].ready
      BY <3>1, LinkUpFields
    <3> QED
      BY <2>4, <3>1, <3>2 DEF LinkUp, Trying, IInv, TypeOK
  <2>5. ASSUME NEW k \in Node, GotIp(k)
        PROVE  /\ on' = on /\ wire' = wire
               /\ \A i \in Node : /\ node'[i].ready = node[i].ready
                                  /\ node'[i].downFor = node[i].downFor
    BY <2>5 DEF GotIp, IInv, TypeOK, NodeState
  <2>6. CASE UNCHANGED vars
    BY <2>6 DEF vars
  <2> QED
    BY <2>1, <2>2, <2>3, <2>4, <2>5, <2>6, CalmSteps
<1>2. \A i \in Node : Willing(i)' <=> Willing(i)
  BY <1>1 DEF Willing
<1>3. \A i \in Node : Front(i)' <=> Front(i)
  BY <1>1, <1>2 DEF Front
<1>4. \A i \in Node : (Ghost(i)' <=> Ghost(i)) /\ (Dumb(i)' <=> Dumb(i))
  BY <1>1, <1>2 DEF Ghost, Dumb
<1>5. \A i \in Node : (Still(i)' <=> Still(i)) /\ (Leads(i)' <=> Leads(i)) /\ MuteAt(i)' = MuteAt(i)
  BY <1>1, <1>2, <1>3, <1>4 DEF Still, Leads, MuteAt, Due, Rank
<1> QED
  BY <1>1, <1>2, <1>3, <1>4, <1>5

\* The calm counts one at a time, and only Tick counts it.
LEMMA CalmCounts ==
  ASSUME IInv, [Next]_vars
  PROVE  /\ calm \in Nat /\ calm' \in Nat /\ calm' <= calm + 1
         /\ calm' = 0 \/ calm' = calm \/ Tick
         /\ Tick => calm <= calm'
<1>1. IInv'
  BY NextIInv
<1>2. calm \in Nat /\ calm' \in Nat /\ calm <= SETTLE /\ SETTLE \in Nat
  BY <1>1, TimeAssumption DEF IInv, TypeOK
<1>3. calm' # 0 => calm' = calm \/ Tick
  BY CalmSteps DEF CalmTurn, CalmBeat, LinkUp, GotIp, vars, hist
<1>4. Tick => calm' = Older(calm, SETTLE)
  BY DEF Tick
<1> QED
  BY <1>2, <1>3, <1>4 DEF Older

----------------------------------------------------------------------------
(* The election among those whom the roster shows *)

\* The election answers with the least of those the roster shows and ourselves.
LEMMA ElectIs ==
  ASSUME NEW k \in Node, NEW n, NEW x \in Node,
         (x = k /\ SelfOk(k, n)) \/ (x # k /\ Shown(k, x)),
         \A j \in Node \ {k} : j < x => ~Shown(k, j),
         k < x => ~SelfOk(k, n)
  PROVE  ComputeLeader(k, n) = x
<1> DEFINE C == {[id |-> j, eligible |-> j \in Eligible,
                  alive |-> PeerAlive(roster[k][j].age, PEER_LOST),
                  able |-> roster[k][j].able] : j \in Node \ {k}}
           others == {c.id : c \in {d \in C : d.alive /\ d.able /\ d.eligible}}
           fit == (IF SelfOk(k, n) THEN {k} ELSE {}) \cup others
           least == {m \in fit : \A j \in fit : m <= j}
<1>1. ComputeLeader(k, n) = IF least = {} THEN 0 ELSE CHOOSE m \in least : TRUE
  BY DEF ComputeLeader, BohunElect
<1>2. \A j \in Node \ {k} : j \in others <=> Shown(k, j)
  <2> TAKE j \in Node \ {k}
  <2>1. ASSUME j \in others PROVE Shown(k, j)
    <3>1. PICK c \in C : c.alive /\ c.able /\ c.eligible /\ c.id = j
      BY <2>1
    <3>2. PICK p \in Node \ {k} : c = [id |-> p, eligible |-> p \in Eligible,
                                        alive |-> PeerAlive(roster[k][p].age, PEER_LOST),
                                        able |-> roster[k][p].able]
      OBVIOUS
    <3>3. /\ c.id = p /\ c.eligible = (p \in Eligible)
          /\ c.alive = PeerAlive(roster[k][p].age, PEER_LOST) /\ c.able = roster[k][p].able
      BY <3>2
    <3> QED
      BY <3>1, <3>3, Zenon DEF Shown
  <2>2. ASSUME Shown(k, j) PROVE j \in others
    <3> DEFINE c == [id |-> j, eligible |-> j \in Eligible,
                     alive |-> PeerAlive(roster[k][j].age, PEER_LOST),
                     able |-> roster[k][j].able]
    <3>1. c \in C /\ c.alive /\ c.able /\ c.eligible /\ c.id = j
      BY <2>2 DEF Shown
    <3> QED
      BY <3>1
  <2> QED
    BY <2>1, <2>2
<1>3. others \subseteq Node \ {k}
  OBVIOUS
<1> HIDE DEF others
<1>4. x \in fit
  BY <1>2
<1>5. \A j \in fit : x <= j
  <2> SUFFICES ASSUME NEW j \in fit PROVE x <= j
    OBVIOUS
  <2>1. j \in Node /\ j \in Nat /\ x \in Nat
    BY <1>3, NodeAssumption
  <2>2. ~ (j < x)
    BY <1>2, <1>3
  <2> QED
    BY <2>1, <2>2
<1>6. fit \subseteq Nat
  BY <1>3, NodeAssumption
<1> HIDE DEF fit
<1>7. x \in least
  BY <1>4, <1>5
<1>8. ASSUME NEW m \in least PROVE m = x
  <2>1. m \in Nat /\ x \in Nat /\ m <= x /\ x <= m
    BY <1>4, <1>5, <1>6, <1>8
  <2> QED
    BY <2>1
<1> HIDE DEF least
<1> QED
  BY <1>1, <1>7, <1>8

\* LoseWire does not change what a node reads of itself.
LEMMA SelfOkSame ==
  ASSUME NEW k \in Node, NEW m, NEW n \in NodeState, Turns(m, n), m.ready = n.ready
  PROVE  SelfOk(k, m) <=> SelfOk(k, n)
BY TurnsLost DEF SelfOk

\* After a calm turn a node names the answer of its election.
LEMMA TurnNames ==
  ASSUME IInv, NEW k \in Node, CalmTurn(k)
  PROVE  /\ node'[k].leader = ComputeLeader(k, LoseWire(node[k]))
         /\ SelfOk(k, LoseWire(node[k])) <=> SelfOk(k, node[k])
         /\ SelfOk(k, node'[k]) <=> SelfOk(k, node[k])
<1>1. node[k] \in NodeState
  BY DEF IInv, TypeOK
<1>2. node'[k] = MaskTickStep(ElectStep(k, node[k]))
  BY DEF CalmTurn, IInv, TypeOK
<1>3. ElectStep(k, node[k]) \in NodeState
      /\ ElectStep(k, node[k]).leader = ComputeLeader(k, LoseWire(node[k]))
  BY <1>1, ElectTurns
<1>4. node'[k].leader = ComputeLeader(k, LoseWire(node[k]))
  BY <1>2, <1>3, MaskTickEntitled
<1>5. SelfOk(k, LoseWire(node[k])) <=> SelfOk(k, node[k])
  BY <1>1, LoseWireTurns, SelfOkSame
<1>6. SelfOk(k, node'[k]) <=> SelfOk(k, node[k])
  <2>1. Turns(node'[k], node[k]) /\ node'[k].ready = node[k].ready
    BY TurnTurns DEF IInv, CalmTurn
  <2> QED
    BY <1>1, <2>1, SelfOkSame
<1> QED
  BY <1>4, <1>5, <1>6

\* The turn of a willing node that sees nobody below it.  With its link lost it
\* does not wear the mask; else it leads: it claims if it led not before, and
\* keeps or, its claim having timed out, drops the mask if it did.
LEMMA HeadTurn ==
  ASSUME IInv, NEW i \in Node, CalmTurn(i), Willing(i),
         \A j \in Node : j < i => ~Shown(i, j)
  PROVE  LET n == node[i]
             m == node'[i]
         IN  /\ LinkLost(n) => ~m.wearing /\ (~n.wearing => Same(m, n))
             /\ LinkLost(n) /\ n.wearing => Restart(m, n)
             /\ ~LinkLost(n) => m.leader = i
             /\ ~LinkLost(n) /\ n.leader = i /\ ~n.wearing => ~m.wearing /\ Same(m, n)
             /\ ~LinkLost(n) /\ n.leader # i /\ ~n.wearing => m.wearing /\ Restart(m, n)
             /\ ~LinkLost(n) /\ n.wearing /\ ~n.haveIp /\ n.claimFor > CLAIM_TIMEOUT
                  => ~m.wearing /\ Restart(m, n)
             /\ ~LinkLost(n) /\ n.wearing /\ (n.haveIp \/ n.claimFor <= CLAIM_TIMEOUT) => m = n
<1> DEFINE n == node[i]
           l == LoseWire(n)
           now == ComputeLeader(i, l)
           e == ElectStep(i, n)
           m == node'[i]
<1>1. n \in NodeState /\ n.ready /\ i \in Eligible \cap Real /\ (n.wearing => n.leader = i)
  BY DEF IInv, TypeOK, Willing, OnlyElectedWear
<1>2. m = MaskTickStep(e) /\ m.leader = now
  BY TurnNames DEF CalmTurn, IInv, TypeOK
<1>3. Turns(m, n) /\ m.ready = n.ready /\ Turns(e, n) /\ e.ready = n.ready /\ e \in NodeState
  BY <1>1, TurnTurns, ElectTurns DEF IInv, CalmTurn
<1>4. SelfOk(i, l) <=> ~LinkLost(n)
  BY <1>1, TurnNames DEF SelfOk
<1>5. ~LinkLost(n) => now = i
  <2>1. ~(i < i) /\ \A j \in Node \ {i} : j < i => ~Shown(i, j)
    BY NodeAssumption
  <2> QED
    BY <1>4, <2>1, ElectIs
<1>6. LinkLost(n) => now # i
  BY <1>4, ElectAnswers
<1>7. e = IF now # l.leader THEN SetLeader([l EXCEPT !.leader = now], now = i) ELSE l
  BY DEF ElectStep
<1>8. now \in Node \cup {NONE} /\ i # NONE
  BY ElectAnswers, NodeAssumption
<1> HIDE DEF now
<1>9. CASE LinkLost(n)
  <2>1. CASE n.wearing
    <3>1. l = [Swap(n, FALSE) EXCEPT !.leader = NONE]
      BY <1>9, <2>1 DEF LoseWire
    <3>2. Swap(n, FALSE) \in NodeState /\ Restart(Swap(n, FALSE), n) /\ ~Swap(n, FALSE).wearing
      BY <1>1, SwapTyped, SwapRestarts
    <3>3. l \in NodeState /\ Restart(l, n) /\ ~l.wearing
      BY <3>1, <3>2 DEF NodeState, Restart
    <3> HIDE DEF l
    <3> DEFINE q == [l EXCEPT !.leader = now]
    <3>4. q \in NodeState /\ Restart(q, n) /\ ~q.wearing
      BY <1>8, <3>3 DEF NodeState, Restart
    <3>5. SetLeader(q, now = i) = q
      <4>1. q.wearing = FALSE /\ (now = i) = FALSE
        BY <1>6, <1>9, <3>4 DEF NodeState
      <4> HIDE DEF q
      <4> QED
        BY <4>1 DEF SetLeader
    <3>6. e = q \/ e = l
      BY <1>7, <3>5
    <3>7. Restart(e, n) /\ ~e.wearing
      BY <3>3, <3>4, <3>6
    <3>8. m = e
      BY <1>2, <3>7 DEF MaskTickStep
    <3> QED
      BY <1>9, <2>1, <3>7, <3>8
  <2>2. CASE ~n.wearing
    <3>1. l = n
      BY <2>2 DEF LoseWire
    <3> DEFINE q == [n EXCEPT !.leader = now]
    <3>4. q \in NodeState /\ Same(q, n) /\ ~q.wearing
      BY <1>1, <1>8, <2>2 DEF NodeState, Same
    <3>5. SetLeader(q, now = i) = q
      <4>1. q.wearing = FALSE /\ (now = i) = FALSE
        BY <1>6, <1>9, <3>4 DEF NodeState
      <4> HIDE DEF q
      <4> QED
        BY <4>1 DEF SetLeader
    <3>6. e = q \/ e = n
      BY <1>7, <3>1, <3>5
    <3>7. Same(e, n) /\ ~e.wearing
      BY <2>2, <3>4, <3>6 DEF Same
    <3>8. m = e
      BY <1>2, <3>7 DEF MaskTickStep
    <3> QED
      BY <1>9, <2>2, <3>7, <3>8
  <2> QED
    BY <2>1, <2>2
<1>10. CASE ~LinkLost(n)
  <2>1. l = n /\ now = i
    BY <1>5, <1>10 DEF LoseWire
  <2>2. CASE n.leader = i
    <3>1. e = n
      BY <1>7, <2>1, <2>2
    <3>2. CASE n.wearing /\ ~n.haveIp /\ n.claimFor > CLAIM_TIMEOUT
      <4>1. m = Swap(n, FALSE)
        BY <1>2, <3>1, <3>2 DEF MaskTickStep
      <4>2. ~m.wearing /\ Restart(m, n)
        <5>1. ~Swap(n, FALSE).wearing /\ Restart(Swap(n, FALSE), n)
          BY <1>1, SwapTyped, SwapRestarts
        <5> HIDE DEF m, n
        <5> QED
          BY <4>1, <5>1
      <4> QED
        BY <1>2, <1>10, <2>1, <2>2, <3>2, <4>2, NodeFields, <1>1, Times
    <3>3. CASE ~(n.wearing /\ ~n.haveIp /\ n.claimFor > CLAIM_TIMEOUT)
      <4>1. m = n
        BY <1>1, <1>2, <3>1, <3>3 DEF MaskTickStep
      <4> QED
        BY <1>10, <2>2, <3>3, <4>1 DEF Same
    <3> QED
      BY <3>2, <3>3
  <2>3. CASE n.leader # i
    <3>1. ~n.wearing
      BY <1>1, <2>3
    <3> DEFINE q == [n EXCEPT !.leader = i]
    <3>2. q \in NodeState /\ ~q.wearing /\ q.ready /\ Same(q, n)
      BY <1>1, <3>1 DEF NodeState, Same
    <3>3. e = SetLeader(q, TRUE)
      <4>1. e = SetLeader(q, i = i)
        BY <1>7, <2>1, <2>3
      <4>2. (i = i) = TRUE
        OBVIOUS
      <4> QED
        BY <4>1, <4>2
    <3> HIDE DEF q
    <3>4. e = Swap(q, TRUE)
      <4>1. q.wearing = FALSE
        BY <3>2 DEF NodeState
      <4> QED
        BY <3>3, <4>1 DEF SetLeader
    <3>5. /\ e \in NodeState /\ e.wearing /\ e.ready /\ Restart(e, q)
      <4>1. /\ Swap(q, TRUE) \in NodeState /\ Swap(q, TRUE).wearing
            /\ Swap(q, TRUE).ready = q.ready /\ Restart(Swap(q, TRUE), q)
        BY <3>2, SwapTyped, SwapRestarts
      <4> HIDE DEF e
      <4> QED
        BY <3>2, <3>4, <4>1
    <3>6. m = e
      <4>1. ~(e.claimFor > CLAIM_TIMEOUT)
        BY <3>5, Times DEF Restart
      <4> QED
        BY <1>2, <3>5, <4>1 DEF MaskTickStep
    <3>7. Restart(m, n)
      BY <3>2, <3>5, <3>6 DEF Restart, Same
    <3> QED
      BY <1>2, <1>10, <2>1, <2>3, <3>1, <3>5, <3>6, <3>7
  <2> QED
    BY <2>2, <2>3
<1> QED
  BY <1>9, <1>10

----------------------------------------------------------------------------
(* Silence spreads *)

\* A ghost that is through with its claim names itself and wears nothing.
LEMMA GhostDone ==
  ASSUME IInv, NEW i \in Node, GhostLeft(i, node[i], turned[i]) <= 0
  PROVE  node[i].leader = i /\ ~node[i].wearing
<1>1. node[i] \in NodeState
  BY DEF IInv, TypeOK
<1>2. node[i].claimFor \in Nat
  BY <1>1, NodeFields
<1> QED
  BY <1>2, Times DEF GhostLeft

LEMMA GhostLeftType ==
  ASSUME IInv, NEW i \in Node
  PROVE  /\ GhostLeft(i, node[i], turned[i]) \in Int
         /\ GhostLeft(i, node[i], turned[i]) <= Haunt
<1>1. node[i] \in NodeState
  BY DEF IInv, TypeOK
<1>2. node[i].claimFor \in Nat
  BY <1>1, NodeFields
<1> QED
  BY <1>2, Times DEF GhostLeft

\* Who is still, and has been for as long as it takes, does not read as able.
LEMMA Mute ==
  ASSUME IInv, NodeInv, GhostInv, NEW j \in Node, Still(j), calm >= MuteAt(j), j \in Eligible
  PROVE  ~AbleFlag(j, node[j])
<1>1. /\ node[j] \in NodeState /\ calm \in Nat
      /\ ~wire[j] => ~node[j].link
      /\ ~node[j].link /\ node[j].downFor = NEVER => ~node[j].haveIp
      /\ ~wire[j] /\ node[j].downFor # NEVER => node[j].downFor >= calm \/ node[j].downFor > LINK_GRACE
  BY NodeInvAt DEF IInv, TypeOK
<1>2. CASE ~Willing(j)
  BY <1>2 DEF Willing, Still, AbleFlag
<1>3. CASE ~wire[j] /\ node[j].downFor # NEVER
  <2>1. calm >= LINK_GRACE + 1
    BY <1>3 DEF MuteAt, Ghost
  <2>2. node[j].downFor \in Int
    BY <1>1, NodeFields
  <2>3. LinkLost(node[j])
    BY <1>1, <1>3, <2>1, <2>2, Times DEF LinkLost
  <2> QED
    BY <2>3 DEF AbleFlag
<1>4. CASE Ghost(j) /\ Front(j)
  <2>1. calm >= Due(j) + Haunt /\ Due(j) \in Nat
    BY <1>4, Dues DEF MuteAt
  <2>2. GhostLeft(j, node[j], turned[j]) <= 0
    <3> DEFINE left == GhostLeft(j, node[j], turned[j])
    <3>1. left = 0 \/ left + calm <= Due(j) + Haunt
      BY <1>1, <1>4, <2>1, Times DEF GhostInv
    <3>2. left \in Int
      BY GhostLeftType
    <3> HIDE DEF left
    <3>3. left <= 0
      BY <1>1, <2>1, <3>1, <3>2, Times
    <3> QED
      BY <3>3 DEF left
  <2>3. ~node[j].wearing /\ ~node[j].haveIp
    BY <1>1, <1>4, <2>2, GhostDone DEF Ghost
  <2> QED
    BY <2>3 DEF AbleFlag, HasIp, ClaimGrace
<1> QED
  BY <1>2, <1>3, <1>4 DEF Still, Dumb

LEMMA MuteTimes ==
  ASSUME NEW j \in Node
  PROVE  MuteAt(j) \in Nat /\ MuteAt(j) > 0
BY Dues, Times DEF MuteAt

\* Nobody has a candidate below the front.
LEMMA LowerUnheard ==
  ASSUME IInv, SilentInv, NEW i \in Node, Front(i), calm >= Due(i),
         NEW j \in Node, j < i
  PROVE  Unheard(j)
<1>1. calm \in Nat /\ Due(i) \in Nat /\ Due(i) >= Base
  BY Dues DEF IInv, TypeOK
<1>2. CASE ~on[j]
  <2>1. ASSUME NEW k \in Node \ {j}, on[k] PROVE ~PeerAlive(roster[k][j].age, PEER_LOST)
    <3>1. roster[k][j].age >= calm \/ ~PeerAlive(roster[k][j].age, PEER_LOST)
      BY <1>2, <2>1 DEF SilentInv
    <3>2. roster[k][j].age \in Nat
      BY DEF IInv, TypeOK, Entry
    <3> QED
      BY <1>1, <3>1, <3>2, Times DEF PeerAlive
  <2> QED
    BY <2>1 DEF Unheard, Shown
<1>3. CASE on[j]
  <2>1. Willing(j) => ~wire[j] /\ Front(j)
    BY NodeAssumption DEF Front
  <2>2. Still(j)
    BY <1>3, <2>1 DEF Still, Dumb, Ghost
  <2>3. MuteAt(j) < Due(i)
    <3>1. Ghost(j) => Due(j) + Haunt < Due(i)
      BY Dues DEF Ghost, Willing
    <3> QED
      BY <1>1, <3>1, Times DEF MuteAt
  <2>4. calm > MuteAt(j)
    BY <1>1, <2>3, MuteTimes
  <2> QED
    BY <2>2, <2>4 DEF SilentInv
<1> QED
  BY <1>2, <1>3

\* Below the front a running node sees nobody.
LEMMA FrontSees ==
  ASSUME IInv, SilentInv, NEW i \in Node, Front(i), calm >= Due(i)
  PROVE  /\ on[i] => \A j \in Node : j < i => ~Shown(i, j)
         /\ \A k \in Node : on[k] => \A j \in Node \ {k} : j < i => ~Shown(k, j)
<1>1. \A j \in Node : j < i => Unheard(j)
  BY LowerUnheard
<1>2. \A j \in Node : j < i => j # i
  BY NodeAssumption
<1> QED
  BY <1>1, <1>2 DEF Unheard

\* Ageing brings nobody back.
LEMMA OlderEntryFacts ==
  ASSUME NEW e \in Entry
  PROVE  /\ OlderEntry(e).able => e.able
         /\ PeerAlive(OlderEntry(e).age, PEER_LOST) => /\ PeerAlive(e.age, PEER_LOST)
                                                       /\ OlderEntry(e).age = e.age + 1
BY TimeAssumption DEF OlderEntry, Entry, Lost, PeerAlive

LEMMA NextSilent == IInv /\ NodeInv /\ GhostInv /\ SilentInv /\ [Next]_vars => SilentInv'
<1> SUFFICES ASSUME IInv, NodeInv, GhostInv, SilentInv, [Next]_vars PROVE SilentInv'
  OBVIOUS
<1>1. IInv' /\ calm \in Nat /\ calm' \in Nat /\ calm' <= calm + 1
  BY NextIInv, CalmCounts
<1>2. SUFFICES ASSUME NEW j \in Node
               PROVE  /\ ~on'[j] => \A i \in Node \ {j} :
                           on'[i] => \/ roster'[i][j].age >= calm'
                                     \/ ~PeerAlive(roster'[i][j].age, PEER_LOST)
                      /\ Still(j)' /\ calm' >= MuteAt(j)' /\ beat'[j] => Unheard(j)'
                      /\ Still(j)' /\ calm' > MuteAt(j)' => Unheard(j)'
  BY DEF SilentInv
<1>3. CASE calm' = 0
  <2>1. MuteAt(j)' \in Nat /\ MuteAt(j)' > 0
    <3>1. Due(j)' = Due(j)
      BY DEF Due, Rank
    <3> QED
      BY <3>1, Dues, Times DEF MuteAt
  <2>2. \A i \in Node : roster'[i][j].age \in Nat
    BY <1>1 DEF IInv, TypeOK, Entry
  <2> QED
    BY <1>3, <2>1, <2>2
<1>4. CASE calm' # 0
  <2>1. on' = on /\ (Still(j)' <=> Still(j)) /\ MuteAt(j)' = MuteAt(j)
    BY <1>4, Frozen
  <2>2. MuteAt(j) \in Nat /\ MuteAt(j) > 0
    BY MuteTimes
  <2>3. CASE Tick
    <3>1. ASSUME NEW i \in Node
          PROVE  /\ roster[i][j] \in Entry /\ roster'[i][j] = OlderEntry(roster[i][j])
                 /\ roster[i][j].age \in Nat
      BY <2>3 DEF Tick, IInv, TypeOK, Entry
    <3>2. ASSUME NEW i \in Node \ {j}, ~on[j], on[i], PeerAlive(roster'[i][j].age, PEER_LOST)
          PROVE  roster'[i][j].age >= calm'
      <4>1. PeerAlive(roster[i][j].age, PEER_LOST) /\ roster'[i][j].age = roster[i][j].age + 1
        BY <3>1, <3>2, OlderEntryFacts
      <4>2. roster[i][j].age >= calm
        BY <3>2, <4>1 DEF SilentInv
      <4> QED
        BY <1>1, <3>1, <4>1, <4>2
    <3>3. Unheard(j) => Unheard(j)'
      BY <2>1, <3>1, OlderEntryFacts DEF Unheard, Shown
    <3>4. ASSUME Still(j), calm' > MuteAt(j) PROVE Unheard(j)
      <4>1. calm >= MuteAt(j) /\ beat[j]
        BY <1>1, <2>2, <2>3, <3>4 DEF Tick, Still
      <4> QED
        BY <3>4, <4>1 DEF SilentInv
    <3>5. ~beat'[j]
      BY <2>3, TickShape
    <3> QED
      BY <2>1, <3>2, <3>3, <3>4, <3>5
  <2>4. ASSUME NEW k \in Node, CalmBeat(k)
        PROVE  /\ ~on[j] => \A i \in Node \ {j} :
                    on[i] => roster'[i][j].age >= calm \/ ~PeerAlive(roster'[i][j].age, PEER_LOST)
               /\ Still(j) /\ calm >= MuteAt(j) /\ beat'[j] => Unheard(j)'
               /\ Still(j) /\ calm > MuteAt(j) => Unheard(j)'
               /\ calm' = calm
    <3>1. /\ \A i \in Node, l \in Node \ {k} : roster'[i][l] = roster[i][l]
          /\ beat' = [beat EXCEPT ![k] = TRUE] /\ calm' = calm /\ on[k]
      BY <2>4, BeatShape DEF IInv, CalmBeat, Heartbeat
    <3>2. CASE j # k
      <4>1. beat'[j] = beat[j] /\ \A i \in Node : roster'[i][j] = roster[i][j]
        BY <3>1, <3>2 DEF IInv, TypeOK
      <4>2. Unheard(j) => Unheard(j)'
        BY <2>1, <4>1 DEF Unheard, Shown
      <4> QED
        BY <3>1, <4>1, <4>2 DEF SilentInv
    <3>3. CASE j = k
      <4>1. ASSUME Still(j), calm >= MuteAt(j) PROVE Unheard(j)'
        <5>1. j \in Eligible => ~AbleFlag(j, node[j])
          BY <4>1, Mute
        <5>2. \A i \in Node \ {j} : on[i] => roster'[i][j] = [age |-> 0, able |-> AbleFlag(j, node[j])]
          BY <2>4, <3>3 DEF CalmBeat
        <5>3. \A i \in Node \ {j} : on[i] => roster'[i][j].able = AbleFlag(j, node[j])
          BY <5>2
        <5> QED
          BY <2>1, <5>1, <5>3 DEF Unheard, Shown
      <4> QED
        BY <1>1, <2>2, <3>1, <3>3, <4>1
    <3> QED
      BY <3>2, <3>3
  <2>5. ASSUME NEW k \in Node, CalmTurn(k) \/ LinkUp(k) \/ GotIp(k)
        PROVE  roster' = roster /\ beat' = beat /\ calm' = calm
    BY <2>5 DEF CalmTurn, Turn, LinkUp, GotIp, sched, hist
  <2>6. CASE roster' = roster /\ beat' = beat /\ calm' = calm
    <3>1. Unheard(j)' <=> Unheard(j)
      BY <2>1, <2>6 DEF Unheard, Shown
    <3> QED
      BY <2>1, <2>6, <3>1 DEF SilentInv
  <2>7. CASE UNCHANGED vars
    BY <2>6, <2>7 DEF vars, sched, hist
  <2> QED
    BY <1>4, <2>1, <2>3, <2>4, <2>5, <2>6, <2>7, CalmSteps
<1> QED
  BY <1>3, <1>4

----------------------------------------------------------------------------
(* The ghosts fall silent, lowest first *)

\* One unit takes a ghost a step further; no other step takes it back.
LEMMA GhostMoves ==
  ASSUME IInv, NodeInv, [Next]_vars, calm' # 0, NEW i \in Node, Ghost(i),
         \A j \in Node : j < i => ~Shown(i, j)
  PROVE  LET old == GhostLeft(i, node[i], turned[i])
             new == GhostLeft(i, node'[i], turned'[i])
         IN  /\ old = 0 => new = 0
             /\ new <= old
             /\ Tick => new = 0 \/ new < old
<1> DEFINE n == node[i]
           m == node'[i]
           old == GhostLeft(i, n, turned[i])
           new == GhostLeft(i, m, turned'[i])
           Goal == (old = 0 => new = 0) /\ new <= old /\ (Tick => new = 0 \/ new < old)
<1>1. /\ n \in NodeState /\ on[i] /\ ~wire[i] /\ ~n.link /\ ~n.haveIp /\ n.downFor = NEVER
      /\ Willing(i) /\ (n.wearing => n.leader = i)
  BY NodeInvAt DEF Ghost, Willing
<1>2. n.claimFor \in Nat /\ n.claimFor <= CLAIM_TIMEOUT + 1 /\ ~LinkLost(n)
  BY <1>1, NodeFields, Times DEF LinkLost
<1>3. ASSUME Tick PROVE Goal
  <2>1. /\ m.wearing = n.wearing /\ m.leader = n.leader /\ turned[i] /\ ~turned'[i]
        /\ n.wearing => m.claimFor = Older(n.claimFor, CLAIM_TIMEOUT + 1)
    BY <1>1, <1>3, TickShape
  <2> HIDE DEF n, m
  <2>2. CASE n.leader # i
    <3>1. old = CLAIM_TIMEOUT + 4 /\ new = CLAIM_TIMEOUT + 3
      BY <2>1, <2>2 DEF GhostLeft
    <3> HIDE DEF old, new
    <3> QED
      BY <3>1, Times
  <2>3. CASE n.leader = i /\ ~n.wearing
    <3>1. old = 0 /\ new = 0
      BY <2>1, <2>3 DEF GhostLeft
    <3> HIDE DEF old, new
    <3> QED
      BY <3>1
  <2>4. CASE n.leader = i /\ n.wearing /\ n.claimFor < CLAIM_TIMEOUT
    <3>1. m.claimFor = n.claimFor + 1
      BY <1>2, <2>1, <2>4, Times DEF Older
    <3>2. old = CLAIM_TIMEOUT + 2 - n.claimFor /\ new = CLAIM_TIMEOUT + 2 - (n.claimFor + 1)
      BY <1>2, <2>1, <2>4, <3>1, Times DEF GhostLeft
    <3> HIDE DEF old, new
    <3> QED
      BY <1>2, <2>4, <3>2, Times
  <2>5. CASE n.leader = i /\ n.wearing /\ n.claimFor = CLAIM_TIMEOUT
    <3>1. m.claimFor = CLAIM_TIMEOUT + 1
      BY <1>2, <2>1, <2>5, Times DEF Older
    <3>2. old = 2 /\ new = 1
      BY <1>2, <2>1, <2>5, <3>1, Times DEF GhostLeft
    <3> HIDE DEF old, new
    <3> QED
      BY <3>2
  <2>6. CASE n.leader = i /\ n.wearing /\ n.claimFor > CLAIM_TIMEOUT
    <3>1. m.claimFor = CLAIM_TIMEOUT + 1
      BY <1>2, <2>1, <2>6, Times DEF Older
    <3>2. old = 2 /\ new = 1
      BY <1>2, <2>1, <2>6, <3>1, Times DEF GhostLeft
    <3> HIDE DEF old, new
    <3> QED
      BY <3>2
  <2> HIDE DEF Goal
  <2> QED
    BY <1>2, <2>2, <2>3, <2>4, <2>5, <2>6, Times
<1>4. ASSUME CalmTurn(i) PROVE Goal
  <2>1. ~turned[i] /\ turned'[i] /\ ~Tick
    <3>1. ~turned[i] /\ turned' = [turned EXCEPT ![i] = TRUE]
      BY <1>4 DEF CalmTurn, Turn
    <3> QED
      BY <1>1, <3>1 DEF IInv, TypeOK, Tick
  <2>2. /\ m.leader = i
        /\ n.leader = i /\ ~n.wearing => ~m.wearing
        /\ n.leader # i => m.wearing /\ Restart(m, n)
        /\ n.wearing /\ n.claimFor > CLAIM_TIMEOUT => ~m.wearing
        /\ n.wearing /\ n.claimFor <= CLAIM_TIMEOUT => m = n
    BY <1>1, <1>2, <1>4, HeadTurn
  <2> HIDE DEF n, m
  <2>3. CASE n.leader # i
    <3>1. old = CLAIM_TIMEOUT + 3
      BY <2>1, <2>3 DEF GhostLeft
    <3>2. new = CLAIM_TIMEOUT + 2
      BY <2>2, <2>3, Times DEF GhostLeft, Restart
    <3> HIDE DEF old, new
    <3> QED
      BY <2>1, <3>1, <3>2, Times
  <2>4. CASE n.leader = i /\ ~n.wearing
    <3>1. old = 0 /\ new = 0
      BY <2>2, <2>4 DEF GhostLeft
    <3> HIDE DEF old, new
    <3> QED
      BY <2>1, <3>1
  <2>5. CASE n.leader = i /\ n.wearing /\ n.claimFor > CLAIM_TIMEOUT
    <3>1. old = 1 /\ new = 0
      BY <1>2, <2>1, <2>2, <2>5, Times DEF GhostLeft
    <3> HIDE DEF old, new
    <3> QED
      BY <2>1, <3>1
  <2>6. CASE n.leader = i /\ n.wearing /\ n.claimFor <= CLAIM_TIMEOUT
    <3>1. /\ old = CLAIM_TIMEOUT + 2 - n.claimFor
          /\ new = CLAIM_TIMEOUT + 2 - n.claimFor
      BY <2>2, <2>6 DEF GhostLeft
    <3> HIDE DEF old, new
    <3> QED
      BY <1>2, <2>1, <3>1, Times
  <2>7. n.leader = i \/ ~n.wearing
    BY <1>1 DEF n
  <2> HIDE DEF Goal
  <2> QED
    BY <1>2, <2>3, <2>4, <2>5, <2>6, Times
<1>5. ASSUME ~Tick, ~CalmTurn(i) PROVE Goal
  <2>1. ASSUME NEW k \in Node, CalmTurn(k) \/ CalmBeat(k) \/ LinkUp(k) \/ GotIp(k)
        PROVE  m = n /\ turned'[i] = turned[i]
    <3>1. CASE CalmTurn(k)
      <4>1. k # i
        BY <1>5, <3>1
      <4> QED
        BY <3>1, <4>1 DEF CalmTurn, Turn, IInv, TypeOK
    <3>2. CASE CalmBeat(k)
      BY <3>2 DEF CalmBeat, Heartbeat
    <3>3. CASE LinkUp(k)
      BY <1>1, <3>3 DEF LinkUp, Trying, sched, IInv, TypeOK
    <3>4. CASE GotIp(k)
      BY <1>1, <3>4 DEF GotIp, sched, IInv, TypeOK
    <3> QED
      BY <2>1, <3>1, <3>2, <3>3, <3>4
  <2>2. UNCHANGED vars => m = n /\ turned'[i] = turned[i]
    BY DEF vars, sched
  <2>3. m = n /\ turned'[i] = turned[i]
    BY <1>5, <2>1, <2>2, CalmSteps
  <2>4. new = old
    BY <2>3
  <2>5. old \in Int
    BY GhostLeftType
  <2> HIDE DEF old, new
  <2> QED
    BY <1>5, <2>4, <2>5
<1>6. Goal
  <2> HIDE DEF Goal
  <2> QED
    BY <1>3, <1>4, <1>5
<1> QED
  BY <1>6

LEMMA NextGhost == IInv /\ NodeInv /\ SilentInv /\ GhostInv /\ [Next]_vars => GhostInv'
<1> SUFFICES ASSUME IInv, NodeInv, SilentInv, GhostInv, [Next]_vars PROVE GhostInv'
  OBVIOUS
<1>1. IInv' /\ calm \in Nat /\ calm' \in Nat /\ calm' <= calm + 1
  BY NextIInv, CalmCounts
<1>2. \A i \in Node : Due(i)' = Due(i) /\ Due(i) \in Nat /\ Due(i) >= Base
  BY Dues DEF Due, Rank
<1> SUFFICES ASSUME NEW i \in Node, Ghost(i)', Front(i)', calm' >= Due(i)
             PROVE  LET left == GhostLeft(i, node'[i], turned'[i])
                    IN  left = 0 \/ left + calm' <= Due(i) + Haunt
  BY <1>2 DEF GhostInv, GhostLeft
<1> DEFINE old == GhostLeft(i, node[i], turned[i])
           new == GhostLeft(i, node'[i], turned'[i])
<1>3. calm' # 0
  BY <1>1, <1>2, Times
<1>4. Ghost(i) /\ Front(i) /\ on[i]
  BY <1>3, Frozen DEF Ghost, Willing
<1>5. new \in Int /\ new <= Haunt
  <2>1. node'[i] \in NodeState
    BY <1>1 DEF IInv, TypeOK
  <2>2. node'[i].claimFor \in Nat
    BY <2>1, NodeFields
  <2> QED
    BY <2>2, Times DEF GhostLeft
<1>6. old \in Int
  BY GhostLeftType
<1>7. CASE calm < Due(i)
  <2>1. calm' = Due(i)
    BY <1>1, <1>2, <1>7, CalmCounts
  <2> HIDE DEF new
  <2>2. new + calm' <= Due(i) + Haunt
    BY <1>2, <1>5, <2>1, Times
  <2> QED
    BY <2>2 DEF new
<1>8. CASE calm >= Due(i)
  <2>1. \A j \in Node : j < i => ~Shown(i, j)
    BY <1>4, <1>8, FrontSees
  <2>2. (old = 0 => new = 0) /\ new <= old /\ (Tick => new = 0 \/ new < old)
    BY <1>3, <1>4, <2>1, GhostMoves
  <2>3. old = 0 \/ old + calm <= Due(i) + Haunt
    BY <1>4, <1>8 DEF GhostInv
  <2>4. calm' = calm \/ Tick
    BY <1>3, CalmCounts
  <2> HIDE DEF old, new
  <2>5. new = 0 \/ new + calm' <= Due(i) + Haunt
    BY <1>1, <1>2, <1>5, <1>6, <2>2, <2>3, <2>4, Times
  <2> QED
    BY <2>5 DEF new
<1> QED
  BY <1>1, <1>2, <1>7, <1>8

----------------------------------------------------------------------------
(* The front node climbs to the face *)

\* The PHY bounces inside the grace and inside the claim.
Bounces == MAX_BOUNCE <= LINK_GRACE /\ MAX_BOUNCE <= CLAIM_TIMEOUT

LEMMA FaceLeftType ==
  ASSUME NEW i \in Node, NEW n \in NodeState, NEW t
  PROVE  /\ FaceLeft(i, n, t) \in Int
         /\ FaceLeft(i, n, t) >= 0 /\ FaceLeft(i, n, t) <= Climb
         /\ FaceLeft(i, n, t) = 0 => n.link /\ n.leader = i
BY NodeFields, Times DEF FaceLeft

LEMMA FaceMoves ==
  ASSUME Bounces, IInv, NodeInv, [Next]_vars, calm' # 0, NEW i \in Node, Leads(i),
         \A j \in Node : j < i => ~Shown(i, j)
  PROVE  LET old == FaceLeft(i, node[i], turned[i])
             new == FaceLeft(i, node'[i], turned'[i])
         IN  /\ old = 0 => new = 0
             /\ new <= old
             /\ Tick => new = 0 \/ new < old
<1> DEFINE n == node[i]
           m == node'[i]
           old == FaceLeft(i, n, turned[i])
           new == FaceLeft(i, m, turned'[i])
           Goal == (old = 0 => new = 0) /\ new <= old /\ (Tick => new = 0 \/ new < old)
<1>1. /\ n \in NodeState /\ on[i] /\ wire[i] /\ Willing(i)
      /\ (n.wearing => n.leader = i) /\ (n.wearing /\ n.link => n.haveIp)
  BY NodeInvAt DEF Leads, Willing
<1>2. /\ n.downFor \in Int /\ (n.downFor = NEVER \/ n.downFor >= 0) /\ n.downFor <= LINK_GRACE + 1
      /\ n.relink \in Nat /\ n.relink <= MAX_BOUNCE
      /\ n.claimFor \in Nat /\ n.claimFor <= CLAIM_TIMEOUT + 1
      /\ NEVER \in Int /\ NEVER < 0
  BY <1>1, NodeFields
<1>3. m \in NodeState
  <2>1. IInv'
    BY NextIInv
  <2> QED
    BY <2>1 DEF IInv, TypeOK
<1>4. ASSUME Tick PROVE Goal
  <2>1. /\ m.link = n.link /\ m.wearing = n.wearing /\ m.leader = n.leader
        /\ turned[i] /\ ~turned'[i]
        /\ n.downFor = NEVER => m.downFor = NEVER
        /\ n.downFor # NEVER => m.downFor = Older(n.downFor, LINK_GRACE + 1)
        /\ ~n.link => n.relink < MAX_BOUNCE /\ m.relink = n.relink + 1
        /\ n.wearing /\ ~n.haveIp => m.claimFor = Older(n.claimFor, CLAIM_TIMEOUT + 1)
    BY <1>1, <1>4, TickShape DEF Trying
  <2>2. n.wearing /\ ~n.link /\ n.haveIp => m.haveIp
    BY <1>1, <1>4, TickShape
  <2>3. LinkLost(n) => LinkLost(m)
    <3>1. LinkLost(n) => n.downFor # NEVER /\ n.downFor > LINK_GRACE /\ ~n.link
      BY <1>2, Times DEF LinkLost
    <3> QED
      BY <1>2, <2>1, <3>1, Times DEF LinkLost, Older
  <2>4. m.claimFor <= n.claimFor + 1 /\ m.claimFor \in Nat
    <3>1. m.claimFor = 0 \/ m.claimFor = Older(n.claimFor, CLAIM_TIMEOUT + 1)
      <4>1. m = OlderNode(n, Trying(i)) /\ Trying(i) \in BOOLEAN
        BY <1>1, <1>4 DEF Tick, Trying, NodeState
      <4> QED
        BY <1>1, <4>1, OlderFields
    <3> QED
      BY <1>2, <3>1, Times DEF Older
  <2>5. ~n.link /\ Clean(n) => Clean(m)
    <3>1. ~n.link /\ Clean(n) => m.downFor = n.downFor + 1 /\ m.relink = n.relink + 1
      BY <1>2, <2>1, Times DEF Clean, Older, Bounces
    <3> QED
      BY <1>2, <2>4, <3>1 DEF Clean
  <2> HIDE DEF n, m
  <2>6. CASE n.link /\ n.leader = i
    <3>1. new = 0 /\ old = 0
      BY <2>1, <2>6 DEF FaceLeft
    <3> HIDE DEF old, new
    <3> QED
      BY <3>1
  <2>7. CASE n.link /\ n.leader # i
    <3>1. new = MAX_BOUNCE + 2 /\ old = MAX_BOUNCE + 3
      BY <2>1, <2>7 DEF FaceLeft
    <3> HIDE DEF old, new
    <3> QED
      BY <3>1, Times
  <2>8. CASE ~n.link /\ n.wearing /\ Clean(n)
    <3>1. new = MAX_BOUNCE + 1 - (n.relink + 1) /\ old = MAX_BOUNCE + 1 - n.relink
      BY <2>1, <2>5, <2>8 DEF FaceLeft
    <3> HIDE DEF old, new
    <3> QED
      BY <1>2, <3>1, Times
  <2>9. CASE ~n.link /\ n.wearing /\ ~Clean(n)
    <3>1. /\ old = 3 * MAX_BOUNCE + 5 - n.relink
          /\ \/ new = MAX_BOUNCE + 1 - (n.relink + 1)
             \/ new = 3 * MAX_BOUNCE + 5 - (n.relink + 1)
      BY <2>1, <2>9 DEF FaceLeft
    <3> HIDE DEF old, new
    <3> QED
      BY <1>2, <3>1, Times
  <2>10. CASE ~n.link /\ ~n.wearing /\ (n.leader = i \/ LinkLost(n))
    <3>1. new = 2 * MAX_BOUNCE + 4 - (n.relink + 1) /\ old = 2 * MAX_BOUNCE + 4 - n.relink
      BY <2>1, <2>3, <2>10 DEF FaceLeft
    <3> HIDE DEF old, new
    <3> QED
      BY <1>2, <3>1, Times
  <2>11. CASE ~n.link /\ ~n.wearing /\ ~(n.leader = i \/ LinkLost(n))
    <3>1. /\ old = 3 * MAX_BOUNCE + 7
          /\ new = 3 * MAX_BOUNCE + 6 \/ new = 2 * MAX_BOUNCE + 4 - (n.relink + 1)
      BY <2>1, <2>11 DEF FaceLeft
    <3> HIDE DEF old, new
    <3> QED
      BY <1>2, <3>1, Times
  <2> HIDE DEF Goal
  <2> QED
    BY <2>6, <2>7, <2>8, <2>9, <2>10, <2>11
<1>5. ASSUME CalmTurn(i) PROVE Goal
  <2>1. ~turned[i] /\ turned'[i] /\ ~Tick
    <3>1. ~turned[i] /\ turned' = [turned EXCEPT ![i] = TRUE]
      BY <1>5 DEF CalmTurn, Turn
    <3> QED
      BY <1>1, <3>1 DEF IInv, TypeOK, Tick
  <2>2. /\ LinkLost(n) => ~m.wearing /\ (~n.wearing => Same(m, n))
        /\ LinkLost(n) /\ n.wearing => Restart(m, n)
        /\ ~LinkLost(n) => m.leader = i
        /\ ~LinkLost(n) /\ n.leader = i /\ ~n.wearing => ~m.wearing /\ Same(m, n)
        /\ ~LinkLost(n) /\ n.leader # i /\ ~n.wearing => m.wearing /\ Restart(m, n)
        /\ ~LinkLost(n) /\ n.wearing /\ ~n.haveIp /\ n.claimFor > CLAIM_TIMEOUT
             => ~m.wearing /\ Restart(m, n)
        /\ ~LinkLost(n) /\ n.wearing /\ (n.haveIp \/ n.claimFor <= CLAIM_TIMEOUT) => m = n
    BY <1>1, <1>5, HeadTurn
  <2>3. LinkLost(m) <=> LinkLost(n)
    BY <1>1, <1>5, TurnsLost, TurnTurns DEF IInv, CalmTurn
  <2>4. LinkLost(n) => ~n.link
    BY DEF LinkLost
  <2> HIDE DEF n, m
  <2>5. CASE n.link /\ n.leader = i
    <3>1. m.link /\ m.leader = i
      BY <1>1, <2>2, <2>4, <2>5 DEF Same, n
    <3>2. new = 0 /\ old = 0
      BY <2>5, <3>1 DEF FaceLeft
    <3> HIDE DEF old, new
    <3> QED
      BY <3>2
  <2>6. CASE n.link /\ n.leader # i
    <3>1. m.wearing /\ Restart(m, n) /\ m.leader = i
      BY <1>1, <2>2, <2>4, <2>6 DEF n
    <3>2. ~m.link /\ Clean(m) /\ m.relink = 0
      BY <1>2, <2>6, <3>1 DEF Restart, Clean, NEVER
    <3>3. new = MAX_BOUNCE + 1 - 0 /\ old = MAX_BOUNCE + 2
      BY <2>1, <2>6, <3>1, <3>2 DEF FaceLeft
    <3> HIDE DEF old, new
    <3> QED
      BY <2>1, <3>3, Times
  <2>7. CASE ~n.link /\ n.wearing /\ ~LinkLost(n) /\ (n.haveIp \/ n.claimFor <= CLAIM_TIMEOUT)
    <3>1. new = old
      BY <2>2, <2>7 DEF FaceLeft
    <3>2. old \in Int
      BY <1>1, FaceLeftType DEF n
    <3> HIDE DEF old, new
    <3> QED
      BY <2>1, <3>1, <3>2
  <2>8. CASE ~n.link /\ n.wearing /\ ~LinkLost(n) /\ ~(n.haveIp \/ n.claimFor <= CLAIM_TIMEOUT)
    <3>1. ~m.wearing /\ Restart(m, n) /\ m.leader = i
      BY <1>2, <2>2, <2>8, Times DEF n
    <3>2. ~Clean(n)
      BY <1>2, <2>8, Times DEF Clean, Bounces, n
    <3>3. new = 2 * MAX_BOUNCE + 4 - 0 /\ old = 3 * MAX_BOUNCE + 5 - n.relink
      BY <2>8, <3>1, <3>2 DEF FaceLeft, Restart
    <3> HIDE DEF old, new
    <3> QED
      BY <1>2, <2>1, <3>3, Times DEF n
  <2>9. CASE ~n.link /\ n.wearing /\ LinkLost(n)
    <3>1. ~m.wearing /\ Restart(m, n) /\ LinkLost(m)
      BY <2>2, <2>3, <2>9
    <3>2. ~Clean(n)
      BY <1>2, <2>9, Times DEF Clean, Bounces, LinkLost, n
    <3>3. new = 2 * MAX_BOUNCE + 4 - 0 /\ old = 3 * MAX_BOUNCE + 5 - n.relink
      BY <2>9, <3>1, <3>2 DEF FaceLeft, Restart
    <3> HIDE DEF old, new
    <3> QED
      BY <1>2, <2>1, <3>3, Times DEF n
  <2>10. CASE ~n.link /\ ~n.wearing /\ (n.leader = i \/ LinkLost(n))
    <3>1. ~m.wearing /\ Same(m, n) /\ (m.leader = i \/ LinkLost(m))
      BY <2>2, <2>3, <2>10
    <3>2. new = 2 * MAX_BOUNCE + 4 - n.relink /\ old = 2 * MAX_BOUNCE + 4 - n.relink
      BY <2>10, <3>1 DEF FaceLeft, Same
    <3> HIDE DEF old, new
    <3> QED
      BY <1>2, <2>1, <3>2, Times DEF n
  <2>11. CASE ~n.link /\ ~n.wearing /\ ~(n.leader = i \/ LinkLost(n))
    <3>1. m.wearing /\ Restart(m, n)
      BY <2>2, <2>11
    <3>2. /\ new = MAX_BOUNCE + 1 - 0 \/ new = 3 * MAX_BOUNCE + 5 - 0
          /\ old = 3 * MAX_BOUNCE + 6
      BY <2>1, <2>11, <3>1 DEF FaceLeft, Restart
    <3> HIDE DEF old, new
    <3> QED
      BY <2>1, <3>2, Times
  <2> HIDE DEF Goal
  <2> QED
    BY <2>5, <2>6, <2>7, <2>8, <2>9, <2>10, <2>11
<1>6. ASSUME LinkUp(i), ~Tick PROVE Goal
  <2>1. m = LinkUpStep(n) /\ ~n.link /\ turned'[i] = turned[i]
    BY <1>1, <1>6 DEF LinkUp, Trying, sched, IInv, TypeOK
  <2>2. m.link /\ m.leader = n.leader
    BY <1>1, <2>1, LinkUpFields
  <2> HIDE DEF n, m
  <2>3. CASE n.leader = i
    <3>1. new = 0
      BY <2>2, <2>3 DEF FaceLeft
    <3>2. old \in Int /\ old >= 0
      BY <1>1, FaceLeftType DEF n
    <3> HIDE DEF old, new
    <3> QED
      BY <1>6, <3>1, <3>2
  <2>4. CASE n.leader # i
    <3>1. new = MAX_BOUNCE + 3 \/ new = MAX_BOUNCE + 2
      BY <2>2, <2>4 DEF FaceLeft
    <3>2. new = MAX_BOUNCE + 3 => turned[i]
      BY <2>1, <2>2, <2>4, Times DEF FaceLeft
    <3>3. \/ old = 2 * MAX_BOUNCE + 4 - n.relink
          \/ old = 3 * MAX_BOUNCE + 7 \/ old = 3 * MAX_BOUNCE + 6
      BY <1>1, <2>1, <2>4 DEF FaceLeft, n
    <3> HIDE DEF old, new
    <3> QED
      BY <1>2, <1>6, <3>1, <3>2, <3>3, Times DEF n
  <2> HIDE DEF Goal
  <2> QED
    BY <2>3, <2>4
<1>7. ASSUME GotIp(i), ~Tick PROVE Goal
  <2>1. /\ m = [n EXCEPT !.haveIp = TRUE, !.lease = TRUE] /\ n.link /\ turned'[i] = turned[i]
    BY <1>1, <1>7 DEF GotIp, sched, IInv, TypeOK
  <2>2. m.link /\ m.leader = n.leader
    BY <1>1, <2>1 DEF NodeState
  <2> HIDE DEF n, m
  <2>3. new = old
    BY <2>1, <2>2 DEF FaceLeft
  <2>4. old \in Int
    BY <1>1, FaceLeftType DEF n
  <2> HIDE DEF old, new
  <2> QED
    BY <1>7, <2>3, <2>4
<1>8. ASSUME ~Tick, ~CalmTurn(i), ~LinkUp(i), ~GotIp(i) PROVE Goal
  <2>1. ASSUME NEW k \in Node, CalmTurn(k) \/ CalmBeat(k) \/ LinkUp(k) \/ GotIp(k)
        PROVE  m = n /\ turned'[i] = turned[i]
    <3>1. CASE CalmBeat(k)
      BY <3>1 DEF CalmBeat, Heartbeat
    <3>2. CASE CalmTurn(k) \/ LinkUp(k) \/ GotIp(k)
      <4>1. k # i
        BY <1>8, <3>2
      <4> QED
        BY <3>2, <4>1 DEF CalmTurn, Turn, LinkUp, GotIp, sched, IInv, TypeOK
    <3> QED
      BY <2>1, <3>1, <3>2
  <2>2. UNCHANGED vars => m = n /\ turned'[i] = turned[i]
    BY DEF vars, sched
  <2>3. m = n /\ turned'[i] = turned[i]
    BY <1>8, <2>1, <2>2, CalmSteps
  <2>4. new = old
    BY <2>3
  <2>5. old \in Int
    BY <1>1, FaceLeftType
  <2> HIDE DEF old, new
  <2> QED
    BY <1>8, <2>4, <2>5
<1>9. Goal
  <2> HIDE DEF Goal
  <2> QED
    BY <1>4, <1>5, <1>6, <1>7, <1>8
<1> QED
  BY <1>9

\* Once it has climbed, the front node has its link and its own leadership,
\* reads as able if it wears the mask, and no step of the calm changes it.
LEMMA FaceDone ==
  ASSUME IInv, NodeInv, FaceInv, NEW i \in Node, Leads(i), calm >= Due(i) + Climb
  PROVE  /\ node[i].link /\ node[i].leader = i
         /\ node[i].wearing => AbleFlag(i, node[i])
<1>1. /\ node[i] \in NodeState /\ calm \in Nat /\ Due(i) \in Nat
      /\ node[i].wearing /\ node[i].link => node[i].haveIp
  BY NodeInvAt, Dues DEF IInv, TypeOK
<1> DEFINE left == FaceLeft(i, node[i], turned[i])
<1>2. left = 0 \/ left + calm <= Due(i) + Climb
  BY <1>1, Times DEF FaceInv
<1>3. left \in Int /\ left >= 0 /\ (left = 0 => node[i].link /\ node[i].leader = i)
  BY <1>1, FaceLeftType
<1> HIDE DEF left
<1>4. node[i].link /\ node[i].leader = i
  BY <1>1, <1>2, <1>3, Times
<1>5. node[i].wearing => AbleFlag(i, node[i])
  BY <1>1, <1>4 DEF AbleFlag, LinkLost, HasIp, ClaimGrace, Leads, Willing
<1> QED
  BY <1>4, <1>5

LEMMA FaceStays ==
  ASSUME Bounces, IInv, NodeInv, SilentInv, FaceInv, [Next]_vars, calm' # 0,
         NEW i \in Node, Leads(i), calm >= Due(i) + Climb
  PROVE  node'[i].wearing = node[i].wearing
<1>1. /\ node[i] \in NodeState /\ node[i].link /\ node[i].leader = i /\ calm \in Nat
      /\ node[i].wearing => node[i].haveIp
  BY NodeInvAt, FaceDone DEF IInv, TypeOK
<1>2. CASE Tick
  BY <1>2, TickShape
<1>3. CASE CalmTurn(i)
  <2>1. \A j \in Node : j < i => ~Shown(i, j)
    <3>1. calm >= Due(i)
      BY <1>1, Dues, Times
    <3> QED
      BY <3>1, FrontSees DEF Leads, Willing
  <2>2. ~LinkLost(node[i])
    BY <1>1 DEF LinkLost
  <2>3. node[i].wearing => node'[i] = node[i]
    BY <1>1, <1>3, <2>1, <2>2, HeadTurn DEF Leads
  <2>4. ~node[i].wearing => ~node'[i].wearing
    BY <1>1, <1>3, <2>1, <2>2, HeadTurn DEF Leads
  <2>5. node[i].wearing \in BOOLEAN /\ node'[i].wearing \in BOOLEAN
    <3>1. IInv'
      BY NextIInv
    <3> QED
      BY <3>1, <1>1 DEF IInv, TypeOK, NodeState
  <2> QED
    BY <2>3, <2>4, <2>5
<1>4. ASSUME NEW k \in Node, CalmTurn(k), k # i PROVE node'[i] = node[i]
  BY <1>4 DEF CalmTurn, IInv, TypeOK
<1>5. ASSUME NEW k \in Node, LinkUp(k) PROVE node'[i] = node[i]
  BY <1>1, <1>5 DEF LinkUp, Trying, IInv, TypeOK
<1>6. ASSUME NEW k \in Node, GotIp(k) PROVE node'[i].wearing = node[i].wearing
  BY <1>1, <1>6 DEF GotIp, IInv, TypeOK, NodeState
<1>7. ASSUME NEW k \in Node, CalmBeat(k) PROVE node'[i] = node[i]
  BY <1>7 DEF CalmBeat, Heartbeat
<1>8. UNCHANGED vars => node'[i] = node[i]
  BY DEF vars
<1> QED
  BY <1>2, <1>3, <1>4, <1>5, <1>6, <1>7, <1>8, CalmSteps

\* Whoever follows after a calm step was to follow before it.
LEMMA FollowsStays ==
  ASSUME IInv, NodeInv, [Next]_vars, calm' # 0, calm > LINK_GRACE,
         NEW i \in Node, Front(i), NEW k \in Node \ {i}, on[k], Follows(k, i)'
  PROVE  Follows(k, i)
<1> SUFFICES ASSUME ~(k > i), SelfOk(k, node[k]), ~SelfOk(k, node'[k]) PROVE FALSE
  BY DEF Follows
<1>1. k \in Nat /\ i \in Nat /\ k < i
  BY NodeAssumption
<1>2. Willing(k) /\ ~wire[k]
  BY <1>1 DEF SelfOk, Willing, Front
<1>3. /\ node[k] \in NodeState /\ ~node[k].link /\ calm \in Nat
      /\ node[k].downFor # NEVER => node[k].downFor >= calm \/ node[k].downFor > LINK_GRACE
  BY <1>2, NodeInvAt DEF IInv, TypeOK
<1>4. node[k].downFor = NEVER
  BY <1>3, NodeFields, Times DEF SelfOk, LinkLost
<1>5. Ghost(k)'
  BY <1>2, <1>4, Frozen DEF Ghost
<1>6. node'[k].downFor = NEVER /\ Willing(k)'
  BY <1>5 DEF Ghost
<1>7. SelfOk(k, node'[k])
  BY <1>6, Times DEF SelfOk, Willing, LinkLost, NEVER
<1> QED
  BY <1>7

\* The face is heard by everyone.
LEMMA FaceHeard ==
  ASSUME PEER_LOST > 1, Bounces, IInv, NodeInv, SilentInv, FaceInv, [Next]_vars, calm' # 0,
         NEW i \in Node, Leads(i), node'[i].wearing
  PROVE  /\ calm' >= Due(i) + Climb /\ beat'[i] => Vouched(i, 0)'
         /\ calm' > Due(i) + Climb /\ ~beat'[i] => Vouched(i, 1)'
<1>1. /\ calm \in Nat /\ calm' \in Nat /\ calm' <= calm + 1
      /\ calm' = calm \/ Tick
      /\ Due(i) \in Nat /\ Climb \in Nat
  BY CalmCounts, Dues, Times
<1>2. on' = on /\ on[i]
  BY Frozen DEF Leads, Willing
<1>3. \A k \in Node : roster[k][i] \in Entry /\ roster[k][i].age \in Nat
  BY DEF IInv, TypeOK, Entry
<1>4. calm >= Due(i) + Climb => node[i].wearing
  BY FaceStays
<1>5. CASE Tick
  <2>1. ~beat'[i] /\ beat[i] /\ \A k \in Node : roster'[k][i] = OlderEntry(roster[k][i])
    BY <1>2, <1>5, TickShape DEF Tick
  <2>2. ASSUME calm' > Due(i) + Climb PROVE Vouched(i, 1)'
    <3>1. calm >= Due(i) + Climb
      BY <1>1, <2>2
    <3>2. Vouched(i, 0)
      BY <1>4, <2>1, <3>1 DEF FaceInv
    <3> SUFFICES ASSUME NEW k \in Node \ {i}, on[k]
                 PROVE  roster'[k][i].age <= 1 /\ roster'[k][i].able
      BY <1>2 DEF Vouched
    <3>3. roster[k][i].age = 0 /\ roster[k][i].able
      BY <1>3, <3>2 DEF Vouched
    <3> DEFINE e == roster[k][i]
    <3>4. roster'[k][i] = [e EXCEPT !.age = @ + 1]
      <4>1. e.age + 1 < PEER_LOST
        BY <3>3, Times
      <4>2. roster'[k][i] = OlderEntry(e)
        BY <2>1
      <4> HIDE DEF e
      <4> QED
        BY <4>1, <4>2 DEF OlderEntry
    <3> QED
      BY <1>3, <3>3, <3>4 DEF Entry
  <2> QED
    BY <2>1, <2>2
<1>6. CASE CalmBeat(i)
  <2>1. ~Tick
    <3>1. beat'[i]
      BY <1>6, BeatShape DEF CalmBeat, IInv, TypeOK
    <3> QED
      BY <3>1 DEF Tick
  <2>2. /\ beat'[i] /\ calm' = calm
        /\ \A k \in Node \ {i} : on[k] => roster'[k][i] = [age |-> 0, able |-> AbleFlag(i, node[i])]
    BY <1>6, BeatShape DEF CalmBeat, IInv, TypeOK
  <2>3. ASSUME calm >= Due(i) + Climb PROVE Vouched(i, 0)'
    <3>1. AbleFlag(i, node[i])
      BY <1>4, <2>3, FaceDone
    <3>2. \A k \in Node \ {i} : on[k] => roster'[k][i].age = 0 /\ roster'[k][i].able
      BY <2>2, <3>1
    <3> QED
      BY <1>2, <3>2 DEF Vouched
  <2> QED
    BY <2>2, <2>3
<1>7. ASSUME ~Tick, ~CalmBeat(i)
      PROVE  beat'[i] = beat[i] /\ \A k \in Node : roster'[k][i] = roster[k][i]
  <2>1. ASSUME NEW k \in Node, CalmBeat(k)
        PROVE  beat'[i] = beat[i] /\ \A l \in Node : roster'[l][i] = roster[l][i]
    BY <1>7, <2>1, BeatShape DEF CalmBeat, IInv, TypeOK
  <2>2. ASSUME NEW k \in Node, CalmTurn(k) \/ LinkUp(k) \/ GotIp(k)
        PROVE  beat' = beat /\ roster' = roster
    BY <2>2 DEF CalmTurn, Turn, LinkUp, GotIp, sched
  <2>3. UNCHANGED vars => beat' = beat /\ roster' = roster
    BY DEF vars, sched
  <2> QED
    BY <1>7, <2>1, <2>2, <2>3, CalmSteps
<1>8. CASE ~Tick /\ ~CalmBeat(i)
  <2>1. calm' = calm
    BY <1>1, <1>8
  <2>2. (Vouched(i, 0)' <=> Vouched(i, 0)) /\ (Vouched(i, 1)' <=> Vouched(i, 1))
    BY <1>2, <1>7, <1>8 DEF Vouched
  <2>3. calm > Due(i) + Climb => calm >= Due(i) + Climb
    BY <1>1
  <2> QED
    BY <1>4, <1>7, <1>8, <2>1, <2>2, <2>3 DEF FaceInv
<1> QED
  BY <1>5, <1>6, <1>8

\* The turn of a follower that hears the face and nobody below it names it.
LEMMA TurnFollows ==
  ASSUME PEER_LOST > 1, IInv, SilentInv, FaceInv, NEW i \in Node, Leads(i), node[i].wearing,
         calm > Due(i) + Climb, NEW k \in Node \ {i}, CalmTurn(k), Follows(k, i)
  PROVE  node'[k].leader = i
<1>1. on[k] /\ calm \in Nat /\ Due(i) \in Nat /\ Climb \in Nat
  BY Dues, Times DEF CalmTurn, Turn, IInv, TypeOK
<1>2. calm >= Due(i) /\ calm >= Due(i) + Climb
  BY <1>1
<1>3. Shown(k, i)
  <2>1. Vouched(i, 0) \/ Vouched(i, 1)
    BY <1>2 DEF FaceInv
  <2>2. roster[k][i].age \in Nat
    BY DEF IInv, TypeOK, Entry
  <2> QED
    BY <1>1, <2>1, <2>2, Times DEF Vouched, Shown, PeerAlive, Leads, Willing
<1>4. \A j \in Node \ {k} : j < i => ~Shown(k, j)
  BY <1>1, <1>2, FrontSees DEF Leads
<1>5. k < i => ~SelfOk(k, LoseWire(node[k]))
  <2>1. k \in Nat /\ i \in Nat
    BY NodeAssumption
  <2> QED
    BY <2>1, TurnNames DEF Follows
<1> QED
  BY <1>3, <1>4, <1>5, ElectIs, TurnNames

LEMMA FaceFollowed ==
  ASSUME PEER_LOST > 1, Bounces, IInv, NodeInv, SilentInv, FaceInv, [Next]_vars, calm' # 0,
         NEW i \in Node, Leads(i), node'[i].wearing,
         NEW k \in Node \ {i}, on[k], Follows(k, i)'
  PROVE  /\ calm' > Due(i) + Climb /\ turned'[k] => node'[k].leader = i
         /\ calm' > Due(i) + Climb + 1 => node'[k].leader = i
<1>1. /\ calm \in Nat /\ calm' \in Nat /\ calm' <= calm + 1
      /\ calm' = calm \/ Tick
      /\ Due(i) \in Nat /\ Climb \in Nat /\ Due(i) >= Base
  BY CalmCounts, Dues, Times
<1>2. ASSUME calm > Due(i) + Climb
      PROVE  /\ node[i].wearing /\ Follows(k, i) /\ node[i].link
             /\ turned[k] => node[k].leader = i
             /\ calm > Due(i) + Climb + 1 => node[k].leader = i
  <2>1. calm >= Due(i) + Climb /\ calm > LINK_GRACE
    BY <1>1, <1>2, Times
  <2>2. node[i].wearing /\ node[i].link
    BY <2>1, FaceStays, FaceDone
  <2>3. Follows(k, i)
    BY <2>1, FollowsStays DEF Leads
  <2> QED
    BY <1>2, <2>2, <2>3 DEF FaceInv
<1>3. CASE Tick
  <2>1. ~turned'[k] /\ turned[k] /\ node'[k].leader = node[k].leader
    BY <1>3, TickShape
  <2>2. calm' > Due(i) + Climb + 1 => calm > Due(i) + Climb
    BY <1>1
  <2> QED
    BY <1>2, <2>1, <2>2
<1>4. CASE ~Tick /\ ~(calm > Due(i) + Climb)
  BY <1>1, <1>4
<1>5. CASE ~Tick /\ calm > Due(i) + Climb
  <2>1. calm' = calm
    BY <1>1, <1>5
  <2>2. CASE CalmTurn(k)
    BY <1>2, <1>5, <2>2, TurnFollows
  <2>3. CASE ~CalmTurn(k)
    <3>1. ASSUME NEW l \in Node, CalmTurn(l) \/ CalmBeat(l) \/ LinkUp(l) \/ GotIp(l)
          PROVE  node'[k].leader = node[k].leader /\ turned'[k] = turned[k]
      <4>1. CASE CalmTurn(l)
        <5>1. l # k
          BY <2>3, <4>1
        <5> QED
          BY <4>1, <5>1 DEF CalmTurn, Turn, IInv, TypeOK
      <4>2. CASE CalmBeat(l)
        BY <4>2 DEF CalmBeat, Heartbeat
      <4>3. CASE LinkUp(l)
        <5>1. node' = [node EXCEPT ![l] = LinkUpStep(node[l])] /\ node[l] \in NodeState
          BY <4>3 DEF LinkUp, IInv, TypeOK
        <5>2. LinkUpStep(node[l]).leader = node[l].leader
          BY <5>1, LinkUpFields
        <5> QED
          BY <4>3, <5>1, <5>2 DEF LinkUp, sched, IInv, TypeOK
      <4>4. CASE GotIp(l)
        BY <4>4 DEF GotIp, sched, IInv, TypeOK, NodeState
      <4> QED
        BY <3>1, <4>1, <4>2, <4>3, <4>4
    <3>2. UNCHANGED vars => node'[k].leader = node[k].leader /\ turned'[k] = turned[k]
      BY DEF vars, sched
    <3>3. node'[k].leader = node[k].leader /\ turned'[k] = turned[k]
      BY <1>5, <3>1, <3>2, CalmSteps
    <3> QED
      BY <1>2, <1>5, <2>1, <3>3
  <2> QED
    BY <2>2, <2>3
<1> QED
  BY <1>3, <1>4, <1>5

LEMMA NextFace ==
  /\ PEER_LOST > 1 /\ Bounces
  /\ IInv /\ NodeInv /\ SilentInv /\ FaceInv /\ [Next]_vars
  => FaceInv'
<1> SUFFICES ASSUME PEER_LOST > 1, Bounces, IInv, NodeInv, SilentInv, FaceInv, [Next]_vars
             PROVE  FaceInv'
  OBVIOUS
<1>1. IInv' /\ calm \in Nat /\ calm' \in Nat /\ calm' <= calm + 1
  BY NextIInv, CalmCounts
<1>2. \A i \in Node : Due(i)' = Due(i) /\ Due(i) \in Nat /\ Due(i) >= Base
  BY Dues DEF Due, Rank
<1>3. CASE calm' = 0
  BY <1>2, <1>3, Times DEF FaceInv
<1>4. CASE calm' # 0
  <2> SUFFICES ASSUME NEW i \in Node, Leads(i)'
               PROVE  /\ calm' >= Due(i) =>
                           LET left == FaceLeft(i, node'[i], turned'[i])
                           IN  left = 0 \/ left + calm' <= Due(i) + Climb
                      /\ calm' >= Due(i) + Climb /\ node'[i].wearing /\ beat'[i] => Vouched(i, 0)'
                      /\ calm' > Due(i) + Climb /\ node'[i].wearing /\ ~beat'[i] => Vouched(i, 1)'
                      /\ \A k \in Node \ {i} : on'[k] /\ node'[i].wearing /\ Follows(k, i)' =>
                           /\ calm' > Due(i) + Climb /\ turned'[k] => node'[k].leader = i
                           /\ calm' > Due(i) + Climb + 1 => node'[k].leader = i
    BY <1>2 DEF FaceInv, FaceLeft, Clean, LinkLost
  <2>1. Leads(i) /\ Front(i) /\ on[i] /\ on' = on
    BY <1>4, Frozen DEF Leads, Willing
  <2> DEFINE old == FaceLeft(i, node[i], turned[i])
             new == FaceLeft(i, node'[i], turned'[i])
  <2>2. new \in Int /\ new <= Climb /\ old \in Int
    BY <1>1, FaceLeftType DEF IInv, TypeOK
  <2>3. ASSUME calm' >= Due(i)
        PROVE  new = 0 \/ new + calm' <= Due(i) + Climb
    <3>1. CASE calm < Due(i)
      <4>1. calm' = Due(i)
        BY <1>1, <1>2, <2>3, <3>1
      <4> HIDE DEF new
      <4> QED
        BY <1>2, <2>2, <4>1, Times
    <3>2. CASE calm >= Due(i)
      <4>1. \A j \in Node : j < i => ~Shown(i, j)
        BY <2>1, <3>2, FrontSees
      <4>2. (old = 0 => new = 0) /\ new <= old /\ (Tick => new = 0 \/ new < old)
        BY <1>4, <2>1, <4>1, FaceMoves
      <4>3. old = 0 \/ old + calm <= Due(i) + Climb
        BY <2>1, <3>2 DEF FaceInv
      <4>4. calm' = calm \/ Tick
        BY <1>4, CalmCounts
      <4> HIDE DEF old, new
      <4> QED
        BY <1>1, <1>2, <2>2, <4>2, <4>3, <4>4, Times
    <3> HIDE DEF new
    <3> QED
      BY <1>1, <1>2, <3>1, <3>2
  <2>4. node'[i].wearing =>
          /\ calm' >= Due(i) + Climb /\ beat'[i] => Vouched(i, 0)'
          /\ calm' > Due(i) + Climb /\ ~beat'[i] => Vouched(i, 1)'
    BY <1>4, <2>1, FaceHeard
  <2>5. \A k \in Node \ {i} : on'[k] /\ node'[i].wearing /\ Follows(k, i)' =>
          /\ calm' > Due(i) + Climb /\ turned'[k] => node'[k].leader = i
          /\ calm' > Due(i) + Climb + 1 => node'[k].leader = i
    BY <1>4, <2>1, FaceFollowed
  <2> QED
    BY <2>3, <2>4, <2>5
<1> QED
  BY <1>3, <1>4

----------------------------------------------------------------------------
(* How long nobody wears the mask *)

\* A step either disturbs the fleet, or is Tick, or leaves the history alone.
LEMMA QuietSteps ==
  ASSUME IInv, [Next]_vars
  PROVE  \/ calm' = 0 /\ dark' = 0 /\ twin' = 0
         \/ Tick
         \/ /\ UNCHANGED hist
            /\ UNCHANGED vars \/ \E i \in Node : CalmTurn(i) \/ CalmBeat(i) \/ LinkUp(i) \/ GotIp(i)
<1>1. ASSUME NEW i \in Node, NodeStep(i)
      PROVE  \/ calm' = 0 /\ dark' = 0 /\ twin' = 0
             \/ UNCHANGED hist /\ (CalmTurn(i) \/ CalmBeat(i) \/ LinkUp(i) \/ GotIp(i))
  <2>1. CASE Turn(i)
    <3>1. \/ node' = [node EXCEPT ![i] = MaskTickStep(ElectStep(i, node[i]))] /\ UNCHANGED hist
          \/ SetReady(i)
      BY <2>1 DEF Turn
    <3> QED
      BY <2>1, <3>1 DEF CalmTurn, SetReady, Fault, Disturb, Unrest, hist
  <2>2. CASE Heartbeat(i)
    <3> DEFINE peers == {j \in Node \ {i} : on[j]}
               entry == [age |-> 0, able |-> AbleFlag(i, node[i])]
    <3>1. PICK missed \in SUBSET peers :
            /\ roster' = [j \in Node |->
                 IF j \in peers \ missed THEN [roster[j] EXCEPT ![i] = entry] ELSE roster[j]]
            /\ IF missed = {} THEN UNCHANGED hist ELSE Fault
      BY <2>2 DEF Heartbeat
    <3> HIDE DEF entry
    <3>2. missed = {} => \A j \in Node \ {i} : on[j] => roster'[j][i] = entry
      BY <3>1 DEF IInv, TypeOK
    <3> QED
      BY <2>2, <3>1, <3>2 DEF CalmBeat, Fault, Unrest, hist, entry
  <2>3. CASE Readiness(i) \/ WireCut(i) \/ WirePlug(i) \/ Crash(i) \/ Boot(i)
    BY <2>3 DEF Readiness, WireCut, WirePlug, Crash, Boot, SetReady, Fault, Disturb, Unrest
  <2>4. CASE LinkUp(i) \/ GotIp(i)
    BY <2>4 DEF LinkUp, GotIp
  <2> QED
    BY <1>1, <2>1, <2>2, <2>3, <2>4 DEF NodeStep
<1>2. CASE UNCHANGED vars
  BY <1>2 DEF vars
<1> QED
  BY <1>1, <1>2 DEF Next

\* The longest the fleet may be without a wearer while a blade is fit: the link
\* grace, in which one whose cable was pulled still reads as able, the bounce
\* of a PHY, or the silence of a blade that died; and the turns that follow.
Larger(a, b) == IF a < b THEN b ELSE a
Longest == Larger(Larger(LINK_GRACE + 2, MAX_BOUNCE + 1), PEER_LOST)

LEMMA LongestIs ==
  /\ Longest \in Nat /\ Longest >= LINK_GRACE + 2 /\ Longest >= MAX_BOUNCE + 1
  /\ Longest >= PEER_LOST
BY TimeAssumption DEF Longest, Larger

\* Nobody wears the mask.
Bare == \A i \in Node : ~node[i].wearing

\* While nobody does, nobody swaps: no link goes down, and each that is down
\* has been so since before the dark.
LinksAge ==
  \A i \in Node :
    /\ ~node[i].link /\ node[i].downFor # NEVER =>
         node[i].downFor >= dark \/ node[i].downFor > LINK_GRACE
    /\ Trying(i) => dark <= node[i].relink

\* Who is off falls silent.
DeadAge ==
  \A i \in Node : \A j \in Node \ {i} :
    on[i] /\ ~on[j] => roster[i][j].age >= dark \/ ~PeerAlive(roster[i][j].age, PEER_LOST)

\* Once the link grace is over, whoever runs and is shown as able is fit.
ShownFit ==
  \A i \in Node : \A j \in Node \ {i} :
    /\ on[i] /\ on[j] /\ Shown(i, j)
    /\ dark > LINK_GRACE + 1 \/ (dark > LINK_GRACE /\ beat[j])
    => node[j].link /\ node[j].ready /\ j \in Real

\* In the last unit of the dark the lowest fit blade names itself.
Named ==
  \A f \in Fit : dark >= Longest /\ turned[f] /\ (\A g \in Fit : f <= g) => node[f].leader = f

DarkInv ==
  dark > 0 =>
    /\ dark <= Longest
    /\ \A i \in Node : node[i].wearing => turned[i]
    /\ Bare => LinksAge /\ DeadAge /\ ShownFit /\ Named

\* A calm turn that neither starts nor ends with the mask on swaps nothing.
LEMMA IdleTurn ==
  ASSUME IInv, NEW i \in Node, CalmTurn(i), ~node[i].wearing, ~node'[i].wearing
  PROVE  Same(node'[i], node[i])
<1> DEFINE n == node[i]
           now == ComputeLeader(i, n)
           q == [n EXCEPT !.leader = now]
           e == ElectStep(i, n)
<1>1. n \in NodeState /\ node'[i] = MaskTickStep(e)
  BY DEF CalmTurn, IInv, TypeOK
<1>2. LoseWire(n) = n
  BY DEF LoseWire
<1>3. now \in Node \cup {NONE} /\ (now = i => SelfOk(i, n))
  BY ElectAnswers
<1>4. q \in NodeState /\ ~q.wearing /\ q.ready = n.ready /\ Same(q, n)
  BY <1>1, <1>3 DEF NodeState, Same
<1>5. e = IF now # n.leader THEN SetLeader(q, now = i) ELSE n
  BY <1>2 DEF ElectStep
<1>6. e = n \/ e = q \/ (now = i /\ e = Swap(q, TRUE))
  <2>1. q.wearing = FALSE
    BY <1>4 DEF NodeState
  <2> HIDE DEF q, e
  <2>2. CASE now = i
    <3>1. (now = i) = TRUE
      BY <2>2
    <3> QED
      BY <1>5, <2>1, <2>2, <3>1 DEF SetLeader
  <2>3. CASE now # i
    <3>1. (now = i) = FALSE
      BY <2>3
    <3> QED
      BY <1>5, <2>1, <3>1 DEF SetLeader
  <2> QED
    BY <2>2, <2>3
<1>7. CASE e = n \/ e = q
  <2>1. ~e.wearing /\ Same(e, n)
    BY <1>4, <1>7 DEF Same
  <2>2. node'[i] = e
    BY <1>1, <2>1 DEF MaskTickStep
  <2> QED
    BY <2>1, <2>2
<1>8. CASE now = i /\ e = Swap(q, TRUE)
  <2> HIDE DEF q
  <2>1. Swap(q, TRUE).wearing /\ Swap(q, TRUE).ready = q.ready /\ Restart(Swap(q, TRUE), q)
    BY <1>4, SwapTyped, SwapRestarts
  <2>2. e.wearing /\ e.ready /\ e.claimFor = 0
    BY <1>3, <1>4, <1>8, <2>1 DEF SelfOk, Restart
  <2> HIDE DEF e
  <2>3. ~(e.claimFor > CLAIM_TIMEOUT)
    BY <2>2, Times
  <2>4. node'[i] = e
    BY <1>1, <2>2, <2>3 DEF MaskTickStep
  <2> QED
    BY <2>2, <2>4
<1> QED
  BY <1>6, <1>7, <1>8

\* In the dark a heartbeat says able of a blade only if it is fit.
LEMMA DarkAble ==
  ASSUME IInv, NodeInv, Bare, LinksAge, dark > LINK_GRACE, NEW k \in Node, AbleFlag(k, node[k])
  PROVE  node[k].link /\ node[k].ready /\ k \in Real
<1>1. /\ node[k] \in NodeState /\ ~node[k].wearing
      /\ ~node[k].link /\ node[k].downFor = NEVER => ~node[k].haveIp
  BY NodeInvAt DEF Bare
<1>2. node[k].downFor \in Int /\ dark \in Nat
  BY <1>1, NodeFields, TimeAssumption DEF IInv, TypeOK
<1>3. ~node[k].link => node[k].downFor = NEVER \/ LinkLost(node[k])
  BY <1>2, Times DEF LinksAge, LinkLost
<1> QED
  BY <1>1, <1>3 DEF AbleFlag, HasIp, ClaimGrace

\* Before the dark's last unit is over, the lowest fit blade sees nobody able
\* below it, and elects itself.
LEMMA LowestNames ==
  ASSUME IInv, ShownFit, DeadAge, dark >= Longest, NEW f \in Fit, \A g \in Fit : f <= g
  PROVE  ComputeLeader(f, node[f]) = f
<1>1. f \in Node /\ on[f] /\ SelfOk(f, node[f]) /\ dark \in Nat
  BY TimeAssumption DEF Fit, IInv, TypeOK
<1>2. ASSUME NEW j \in Node \ {f}, j < f, Shown(f, j) PROVE FALSE
  <2>1. on[j]
    <3> SUFFICES ASSUME ~on[j] PROVE FALSE
      OBVIOUS
    <3>1. roster[f][j].age >= dark \/ ~PeerAlive(roster[f][j].age, PEER_LOST)
      BY <1>1 DEF DeadAge
    <3>2. roster[f][j].age \in Nat
      BY <1>1 DEF IInv, TypeOK, Entry
    <3> QED
      BY <1>1, <1>2, <3>1, <3>2, LongestIs, Times DEF Shown, PeerAlive
  <2>2. node[j].link /\ node[j].ready /\ j \in Real
    BY <1>1, <1>2, <2>1, LongestIs, Times DEF ShownFit
  <2>3. j \in Fit
    BY <1>2, <2>1, <2>2 DEF Fit, SelfOk, LinkLost, Shown
  <2>4. f <= j /\ f \in Nat /\ j \in Nat
    BY <1>1, <2>3, NodeAssumption
  <2> QED
    BY <1>2, <2>4
<1>3. ~(f < f)
  BY <1>1, NodeAssumption
<1> QED
  BY <1>1, <1>2, <1>3, ElectIs

LEMMA DarkTick ==
  ASSUME IInv, DarkInv, Tick
  PROVE  DarkInv'
<1> SUFFICES ASSUME dark' > 0 PROVE DarkInv'
  BY DEF DarkInv
<1>1. /\ Fit # {} /\ ~Stuck /\ Bare /\ dark' = Older(dark, TAKEOVER + 1)
      /\ \A i \in Node : on[i] => beat[i] /\ turned[i]
      /\ on' = on /\ wire' = wire /\ \A i \in Node : ~turned'[i] /\ ~beat'[i]
  BY DEF Tick, Bare
<1>2. dark \in Nat /\ dark' <= dark + 1 /\ dark' \in Nat /\ (dark = 0 => dark' = 1)
  BY <1>1, TimeAssumption DEF IInv, TypeOK, Older
<1>3. dark > 0 => dark < Longest
  <2> SUFFICES ASSUME dark > 0, ~(dark < Longest) PROVE FALSE
    OBVIOUS
  <2>1. dark >= Longest /\ Named
    BY <1>1, <1>2, LongestIs DEF DarkInv
  <2>2. Fit \subseteq Nat
    BY NodeAssumption DEF Fit
  <2>3. PICK f \in Fit : \A g \in Fit : f <= g
    BY <1>1, <2>2, Least
  <2>4. turned[f] /\ ~node[f].wearing
    BY <1>1 DEF Fit, Bare
  <2>5. node[f].leader = f
    BY <2>1, <2>3, <2>4 DEF Named
  <2> QED
    BY <1>1, <2>4, <2>5 DEF Stuck
<1>4. dark' <= Longest
  BY <1>2, <1>3, LongestIs, Times
<1>5. Bare'
  BY <1>1, TickShape DEF Bare
<1>6. LinksAge'
  <2> SUFFICES ASSUME NEW i \in Node
               PROVE  /\ ~node'[i].link /\ node'[i].downFor # NEVER =>
                           node'[i].downFor >= dark' \/ node'[i].downFor > LINK_GRACE
                      /\ Trying(i)' => dark' <= node'[i].relink
    BY DEF LinksAge
  <2>1. /\ node'[i].link = node[i].link
        /\ node[i].downFor = NEVER => node'[i].downFor = NEVER
        /\ node[i].downFor # NEVER => node'[i].downFor = Older(node[i].downFor, LINK_GRACE + 1)
        /\ Trying(i) => node'[i].relink = node[i].relink + 1
    BY TickShape
  <2>2. /\ node[i].downFor \in Int /\ (node[i].downFor = NEVER \/ node[i].downFor >= 0)
        /\ node[i].relink \in Nat
    BY NodeFields DEF IInv, TypeOK
  <2>3. dark > 0 => /\ ~node[i].link /\ node[i].downFor # NEVER =>
                         node[i].downFor >= dark \/ node[i].downFor > LINK_GRACE
                    /\ Trying(i) => dark <= node[i].relink
    BY <1>1 DEF DarkInv, LinksAge
  <2>4. Trying(i)' => Trying(i)
    BY <1>1, <2>1 DEF Trying
  <2>5. Trying(i)' => dark' <= node'[i].relink
    BY <1>2, <2>1, <2>2, <2>3, <2>4
  <2>6. ~node'[i].link /\ node'[i].downFor # NEVER =>
          node'[i].downFor >= dark' \/ node'[i].downFor > LINK_GRACE
    BY <1>2, <2>1, <2>2, <2>3, Times DEF Older
  <2> QED
    BY <2>5, <2>6
<1>7. \A i, j \in Node : roster'[i][j] = OlderEntry(roster[i][j]) /\ roster[i][j] \in Entry
  BY TickShape DEF IInv, TypeOK
<1>8. DeadAge'
  <2> SUFFICES ASSUME NEW i \in Node, NEW j \in Node \ {i}, on[i], ~on[j]
               PROVE  roster'[i][j].age >= dark' \/ ~PeerAlive(roster'[i][j].age, PEER_LOST)
    BY <1>1 DEF DeadAge
  <2>1. dark > 0 => roster[i][j].age >= dark \/ ~PeerAlive(roster[i][j].age, PEER_LOST)
    BY <1>1 DEF DarkInv, DeadAge
  <2>2. roster'[i][j] = OlderEntry(roster[i][j]) /\ roster[i][j] \in Entry
    BY <1>7
  <2> QED
    BY <1>2, <2>1, <2>2, Times DEF OlderEntry, Entry, Lost, PeerAlive
<1>9. ShownFit'
  <2> SUFFICES ASSUME NEW i \in Node, NEW j \in Node \ {i}, on[i], on[j], Shown(i, j)',
                      dark' > LINK_GRACE + 1
               PROVE  node'[j].link /\ node'[j].ready /\ j \in Real
    BY <1>1 DEF ShownFit
  <2>1. Shown(i, j)
    <3>1. roster'[i][j] = OlderEntry(roster[i][j]) /\ roster[i][j] \in Entry
      BY <1>7
    <3> QED
      BY <3>1, Times DEF Shown, OlderEntry, Entry, Lost, PeerAlive
  <2>2. dark > LINK_GRACE /\ dark > 0 /\ beat[j]
    BY <1>1, <1>2, Times
  <2>3. node[j].link /\ node[j].ready /\ j \in Real
    BY <1>1, <2>1, <2>2 DEF DarkInv, ShownFit
  <2> QED
    BY <2>3, TickShape
<1>10. Named'
  BY <1>1 DEF Named, Fit
<1> QED
  BY <1>4, <1>5, <1>6, <1>8, <1>9, <1>10 DEF DarkInv, Bare

\* A calm turn, in the dark.
LEMMA DarkTurn ==
  ASSUME IInv, NodeInv, DarkInv, [Next]_vars, NEW k \in Node, CalmTurn(k), UNCHANGED hist
  PROVE  DarkInv'
<1> SUFFICES ASSUME dark > 0 PROVE DarkInv'
  BY DEF DarkInv, hist
<1>1. /\ dark' = dark /\ on' = on /\ wire' = wire /\ roster' = roster /\ beat' = beat
      /\ ~turned[k] /\ turned' = [turned EXCEPT ![k] = TRUE]
      /\ \A i \in Node \ {k} : node'[i] = node[i]
      /\ dark <= Longest /\ dark \in Nat
  BY TimeAssumption DEF CalmTurn, Turn, hist, IInv, TypeOK, DarkInv
<1>2. \A i \in Node : node[i].wearing => turned[i]
  BY DEF DarkInv
<1>3. \A i \in Node : turned'[i] <=> turned[i] \/ i = k
  BY <1>1 DEF IInv, TypeOK
<1>4. \A i \in Node : node'[i].wearing => turned'[i]
  BY <1>1, <1>2, <1>3
<1>5. ASSUME Bare' PROVE LinksAge' /\ DeadAge' /\ ShownFit' /\ Named'
  <2>1. Bare
    BY <1>1, <1>2, <1>5 DEF Bare
  <2>2. LinksAge /\ DeadAge /\ ShownFit /\ Named
    BY <2>1 DEF DarkInv
  <2>3. Same(node'[k], node[k]) /\ node'[k].ready = node[k].ready
    <3>1. ~node[k].wearing /\ ~node'[k].wearing
      BY <1>5, <2>1 DEF Bare
    <3>2. node'[k].ready = node[k].ready
      BY TurnTurns DEF CalmTurn, IInv
    <3> QED
      BY <3>1, <3>2, IdleTurn
  <2>4. \A i \in Node : Same(node'[i], node[i]) /\ node'[i].ready = node[i].ready
    BY <1>1, <2>3 DEF Same
  <2>5. LinksAge' /\ ShownFit' /\ DeadAge'
    BY <1>1, <2>2, <2>4 DEF LinksAge, ShownFit, DeadAge, Trying, Same, Shown
  <2>6. Fit' = Fit
    BY <1>1, <2>4 DEF Fit, SelfOk, LinkLost, Same
  <2>7. Named'
    <3> SUFFICES ASSUME NEW f \in Fit, dark >= Longest, turned'[f], \A g \in Fit : f <= g
                 PROVE  node'[f].leader = f
      BY <1>1, <2>6 DEF Named
    <3>1. CASE f = k
      <4>1. ComputeLeader(f, node[f]) = f
        BY <2>2, LowestNames
      <4>2. LoseWire(node[f]) = node[f]
        BY <2>1 DEF LoseWire, Bare, Fit
      <4> QED
        BY <3>1, <4>1, <4>2, TurnNames
    <3>2. CASE f # k
      BY <1>1, <1>3, <2>2, <3>2 DEF Named, Fit
    <3> QED
      BY <3>1, <3>2
  <2> QED
    BY <2>5, <2>7
<1> QED
  BY <1>1, <1>4, <1>5 DEF DarkInv

\* A heartbeat that everyone hears, a link and an address that come, in the dark.
LEMMA DarkRest ==
  ASSUME IInv, NodeInv, DarkInv, NEW k \in Node,
         CalmBeat(k) \/ LinkUp(k) \/ GotIp(k), UNCHANGED hist
  PROVE  DarkInv'
<1> SUFFICES ASSUME dark > 0 PROVE DarkInv'
  BY DEF DarkInv, hist
<1>1. /\ dark' = dark /\ on' = on /\ wire' = wire /\ turned' = turned
      /\ dark <= Longest /\ dark \in Nat /\ \A i \in Node : node[i] \in NodeState
  BY TimeAssumption DEF CalmBeat, Heartbeat, LinkUp, GotIp, sched, hist, IInv, TypeOK, DarkInv
<1>2. CASE CalmBeat(k)
  <2>1. /\ node' = node /\ beat' = [beat EXCEPT ![k] = TRUE] /\ on[k]
        /\ \A i \in Node, j \in Node \ {k} : roster'[i][j] = roster[i][j]
        /\ \A i \in Node \ {k} : on[i] => roster'[i][k] = [age |-> 0, able |-> AbleFlag(k, node[k])]
    BY <1>2, BeatShape DEF CalmBeat, Heartbeat, IInv
  <2>2. ASSUME Bare PROVE LinksAge' /\ DeadAge' /\ ShownFit' /\ Named'
    <3>1. LinksAge /\ DeadAge /\ ShownFit /\ Named
      BY <2>2 DEF DarkInv
    <3>2. LinksAge' /\ Named'
      BY <1>1, <2>1, <3>1 DEF LinksAge, Named, Trying, Fit
    <3>3. DeadAge'
      BY <1>1, <2>1, <3>1 DEF DeadAge
    <3>4. ShownFit'
      <4> SUFFICES ASSUME NEW i \in Node, NEW j \in Node \ {i}, on[i], on[j], Shown(i, j)',
                          dark > LINK_GRACE + 1 \/ (dark > LINK_GRACE /\ beat'[j])
                   PROVE  node[j].link /\ node[j].ready /\ j \in Real
        BY <1>1, <2>1 DEF ShownFit
      <4>1. CASE j = k
        <5>1. AbleFlag(k, node[k])
          BY <2>1, <4>1 DEF Shown
        <5>2. dark > LINK_GRACE
          BY <1>1, Times
        <5> QED
          BY <2>2, <3>1, <4>1, <5>1, <5>2, DarkAble
      <4>2. CASE j # k
        <5>1. beat'[j] = beat[j] /\ roster'[i][j] = roster[i][j]
          BY <2>1, <4>2 DEF IInv, TypeOK
        <5> QED
          BY <3>1, <5>1 DEF ShownFit, Shown
      <4> QED
        BY <4>1, <4>2
    <3> QED
      BY <3>2, <3>3, <3>4
  <2> QED
    BY <1>1, <2>1, <2>2 DEF DarkInv, Bare
<1>3. CASE LinkUp(k) \/ GotIp(k)
  <2>1. /\ roster' = roster /\ beat' = beat /\ \A i \in Node \ {k} : node'[i] = node[i]
        /\ node'[k].wearing = node[k].wearing /\ node'[k].leader = node[k].leader
        /\ node'[k].ready = node[k].ready /\ node'[k].link
    <3>1. CASE LinkUp(k)
      <4>1. node'[k] = LinkUpStep(node[k])
        BY <3>1 DEF LinkUp, IInv, TypeOK
      <4> QED
        BY <1>1, <3>1, <4>1, LinkUpFields DEF LinkUp, sched, IInv, TypeOK
    <3>2. CASE GotIp(k)
      <4>1. node'[k] = [node[k] EXCEPT !.haveIp = TRUE, !.lease = TRUE] /\ node[k].link
        BY <3>2 DEF GotIp, IInv, TypeOK
      <4> QED
        BY <1>1, <3>2, <4>1 DEF GotIp, sched, IInv, TypeOK, NodeState
    <3> QED
      BY <1>3, <3>1, <3>2
  <2>2. ASSUME Bare PROVE LinksAge' /\ DeadAge' /\ ShownFit' /\ Named'
    <3>1. LinksAge /\ DeadAge /\ ShownFit /\ Named
      BY <2>2 DEF DarkInv
    <3>2. LinksAge'
      <4> SUFFICES ASSUME NEW i \in Node
                   PROVE  /\ ~node'[i].link /\ node'[i].downFor # NEVER =>
                               node'[i].downFor >= dark \/ node'[i].downFor > LINK_GRACE
                          /\ Trying(i)' => dark <= node'[i].relink
        BY <1>1 DEF LinksAge
      <4> QED
        BY <1>1, <2>1, <3>1 DEF LinksAge, Trying
    <3>3. DeadAge' /\ ShownFit'
      BY <1>1, <2>1, <3>1 DEF DeadAge, ShownFit, Shown
    <3>4. Named'
      <4>1. CASE LinkUp(k)
        <5>1. dark <= node[k].relink /\ node[k].relink <= MAX_BOUNCE /\ node[k].relink \in Nat
          BY <1>1, <3>1, <4>1, NodeFields DEF LinksAge, LinkUp
        <5>2. ~(dark >= Longest)
          BY <1>1, <5>1, LongestIs, Times
        <5> QED
          BY <1>1, <5>2 DEF Named
      <4>2. CASE GotIp(k)
        <5>1. node'[k] = [node[k] EXCEPT !.haveIp = TRUE, !.lease = TRUE]
          BY <4>2 DEF GotIp, IInv, TypeOK
        <5>2. \A i \in Node : /\ node'[i].ready = node[i].ready /\ node'[i].link = node[i].link
                              /\ node'[i].downFor = node[i].downFor
                              /\ node'[i].leader = node[i].leader
          BY <1>1, <2>1, <5>1 DEF NodeState
        <5>3. Fit' = Fit
          BY <1>1, <5>2 DEF Fit, SelfOk, LinkLost
        <5> QED
          BY <1>1, <3>1, <5>2, <5>3 DEF Named, Fit
      <4> QED
        BY <1>3, <4>1, <4>2
    <3> QED
      BY <3>2, <3>3, <3>4
  <2> QED
    BY <1>1, <2>1, <2>2 DEF DarkInv, Bare
<1> QED
  BY <1>2, <1>3

LEMMA NextDark == IInv /\ NodeInv /\ DarkInv /\ [Next]_vars => DarkInv'
<1> SUFFICES ASSUME IInv, NodeInv, DarkInv, [Next]_vars PROVE DarkInv'
  OBVIOUS
<1>1. CASE dark' = 0
  BY <1>1 DEF DarkInv
<1>2. CASE UNCHANGED vars
  BY <1>2 DEF vars, sched, hist, DarkInv, Bare, LinksAge, DeadAge, ShownFit, Named, Shown,
              Trying, Fit
<1> QED
  BY <1>1, <1>2, QuietSteps, DarkTick, DarkTurn, DarkRest

----------------------------------------------------------------------------
(* How long two faces last *)

\* Nobody wears the mask after its turn with a server that is not ready.
RipeInv == \A i \in Node : turned[i] /\ node[i].wearing => node[i].ready

LEMMA NextRipe == IInv /\ RipeInv /\ [Next]_vars => RipeInv'
<1> SUFFICES ASSUME IInv, RipeInv, [Next]_vars PROVE RipeInv'
  OBVIOUS
<1>0. node \in [Node -> NodeState] /\ turned \in [Node -> BOOLEAN]
  BY DEF IInv, TypeOK
<1>1. ASSUME NEW k \in Node, Turn(k) PROVE RipeInv'
  <2> DEFINE e == ElectStep(k, node[k])
             f == [e EXCEPT !.ready = ~@]
  <2>1. e \in NodeState
    BY <1>0, ElectTurns
  <2>2. f \in NodeState
    BY <2>1 DEF NodeState
  <2>3. /\ node' = [node EXCEPT ![k] = MaskTickStep(e)] \/ node' = [node EXCEPT ![k] = MaskTickStep(f)]
        /\ turned' = [turned EXCEPT ![k] = TRUE]
    BY <1>1 DEF Turn
  <2>4. ASSUME NEW n \in NodeState, MaskTickStep(n).wearing PROVE MaskTickStep(n).ready
    <3>1. ~Swap(n, FALSE).wearing
      BY SwapTyped
    <3> QED
      BY <2>4, <3>1 DEF MaskTickStep
  <2> HIDE DEF e, f
  <2>5. node'[k].wearing => node'[k].ready
    BY <1>0, <2>1, <2>2, <2>3, <2>4
  <2>6. \A i \in Node \ {k} : node'[i] = node[i] /\ turned'[i] = turned[i]
    BY <1>0, <2>3
  <2> QED
    BY <2>5, <2>6 DEF RipeInv
<1>2. ASSUME NEW k \in Node, Heartbeat(k) \/ WirePlug(k) \/ Boot(k) PROVE RipeInv'
  BY <1>2 DEF Heartbeat, WirePlug, Boot, sched, RipeInv
<1>3. ASSUME NEW k \in Node, LinkUp(k) \/ GotIp(k) \/ WireCut(k) PROVE RipeInv'
  <2>1. /\ turned' = turned /\ \A i \in Node \ {k} : node'[i] = node[i]
        /\ node'[k].wearing = node[k].wearing /\ node'[k].ready = node[k].ready
    <3>1. CASE LinkUp(k)
      <4>1. node'[k] = LinkUpStep(node[k])
        BY <1>0, <3>1 DEF LinkUp
      <4> QED
        BY <1>0, <3>1, <4>1, LinkUpFields DEF LinkUp, sched
    <3>2. CASE GotIp(k)
      BY <1>0, <3>2 DEF GotIp, sched, NodeState
    <3>3. CASE WireCut(k)
      <4>1. node'[k] = LinkDown(node[k])
        BY <1>0, <3>3 DEF WireCut
      <4> QED
        BY <1>0, <3>3, <4>1 DEF WireCut, sched, NodeState, LinkDown
    <3> QED
      BY <1>3, <3>1, <3>2, <3>3
  <2> QED
    BY <2>1 DEF RipeInv
<1>4. ASSUME NEW k \in Node, Readiness(k) \/ Crash(k) PROVE RipeInv'
  BY <1>4 DEF Readiness, Crash, BetweenUnits, sched, RipeInv
<1>5. CASE Tick
  BY <1>5 DEF Tick, RipeInv
<1>6. CASE UNCHANGED vars
  BY <1>6 DEF vars, sched, RipeInv
<1> QED
  BY <1>1, <1>2, <1>3, <1>4, <1>5, <1>6 DEF Next, NodeStep

\* What the fleet knows of a blade that has been a live face for s units on end:
\* everyone holds its heartbeat of this unit, or of the last; after two units no
\* higher blade comes out of its turn with the mask, and after three none has it.
Heard(i, s) ==
  /\ s >= 1 => node[i].ready
  /\ s >= 1 /\ beat[i] => Vouched(i, 0)
  /\ s >= 2 => Vouched(i, 1)
  /\ s >= 2 => \A j \in Node : j > i /\ turned[j] => ~node[j].wearing
  /\ s >= 3 => \A j \in Node : j > i => ~node[j].wearing

LEMMA FaceIs ==
  ASSUME NEW i
  PROVE  i \in Faces <=> i \in Node /\ node[i].wearing /\ node[i].link /\ node[i].haveIp
BY DEF Faces

\* Whoever takes its turn with a lower blade in its roster does not lead itself.
LEMMA YieldTurn ==
  ASSUME IInv, [Next]_vars, PEER_LOST > 1, NEW k \in Node, CalmTurn(k), NEW i \in Faces, i < k,
         Vouched(i, 1)
  PROVE  ~node'[k].wearing
<1>1. i \in Node \ {k} /\ i \in Eligible /\ i \in Nat /\ k \in Nat /\ on[k]
  BY NodeAssumption DEF Faces, IInv, OnlyElectedWear, CalmTurn, Turn
<1>2. roster[k][i].age <= 1 /\ roster[k][i].able /\ roster[k][i].age \in Nat
  BY <1>1 DEF Vouched, IInv, TypeOK, Entry
<1>3. PeerAlive(roster[k][i].age, PEER_LOST)
  BY <1>2, Times DEF PeerAlive
<1> DEFINE now == ComputeLeader(k, LoseWire(node[k]))
<1>4. now # k
  <2>1. now # NONE => now <= i
    BY <1>1, <1>2, <1>3, ElectLowest
  <2>2. k # NONE /\ now \in Node \cup {NONE}
    BY ElectAnswers, NodeAssumption
  <2> QED
    BY <1>1, <2>1, <2>2
<1>5. node'[k].leader = now
  BY TurnNames
<1>6. IInv'
  BY NextIInv
<1> QED
  BY <1>4, <1>5, <1>6 DEF IInv, OnlyElectedWear

\* Within a unit that nothing disturbs.
LEMMA FaceStep ==
  ASSUME IInv, [Next]_vars, PEER_LOST > 1, UNCHANGED hist, NEW k \in Node,
         CalmTurn(k) \/ CalmBeat(k) \/ LinkUp(k) \/ GotIp(k),
         NEW i \in Faces, i \in Faces', NEW s \in Nat, Heard(i, s)
  PROVE  Heard(i, s)'
<1>0. i \in Node /\ node \in [Node -> NodeState] /\ i \in Real
  BY DEF Faces, IInv, TypeOK, OnlyElectedWear
<1>1. CASE CalmTurn(k)
  <2>1. /\ on' = on /\ roster' = roster /\ beat' = beat
        /\ turned' = [turned EXCEPT ![k] = TRUE]
        /\ \A j \in Node \ {k} : node'[j] = node[j]
        /\ node'[k].ready = node[k].ready
    BY <1>0, <1>1, TurnTurns DEF CalmTurn, Turn, IInv
  <2>2. \A a \in {0, 1} : Vouched(i, a)' <=> Vouched(i, a)
    BY <2>1 DEF Vouched
  <2>3. s >= 2 /\ k > i => ~node'[k].wearing
    BY <1>1, YieldTurn, NodeAssumption, <1>0 DEF Heard
  <2>4. node'[i].ready = node[i].ready
    BY <1>0, <2>1
  <2>5. \A j \in Node \ {k} : turned'[j] = turned[j]
    BY <2>1 DEF IInv, TypeOK
  <2>6. \A j \in Node : j > i => (j = k => (s >= 2 => ~node'[j].wearing))
    BY <2>3
  <2>7. s >= 2 => \A j \in Node : j > i /\ turned'[j] => ~node'[j].wearing
    BY <2>1, <2>5, <2>6 DEF Heard
  <2>8. s >= 3 => \A j \in Node : j > i => ~node'[j].wearing
    BY <2>1, <2>6 DEF Heard
  <2> QED
    BY <2>1, <2>2, <2>4, <2>7, <2>8 DEF Heard
<1>2. CASE CalmBeat(k)
  <2>1. /\ node' = node /\ on' = on /\ turned' = turned /\ beat' = [beat EXCEPT ![k] = TRUE]
        /\ \A j \in Node, h \in Node \ {k} : roster'[j][h] = roster[j][h]
        /\ \A j \in Node \ {k} : on[j] => roster'[j][k] = [age |-> 0, able |-> AbleFlag(k, node[k])]
    BY <1>2, BeatShape DEF CalmBeat, IInv
  <2>2. CASE k = i
    <3>1. s >= 1 => AbleFlag(i, node[i])
      BY <1>0, FaceIs DEF Heard, AbleFlag, LinkLost, HasIp, ClaimGrace
    <3>2. s >= 1 => Vouched(i, 0)' /\ Vouched(i, 1)'
      BY <2>1, <2>2, <3>1 DEF Vouched
    <3> QED
      BY <2>1, <3>2 DEF Heard
  <2>3. CASE k # i
    <3>1. \A a \in {0, 1} : Vouched(i, a)' <=> Vouched(i, a)
      BY <1>0, <2>1, <2>3 DEF Vouched
    <3>2. beat'[i] = beat[i]
      BY <1>0, <2>1, <2>3 DEF IInv, TypeOK
    <3> QED
      BY <2>1, <3>1, <3>2 DEF Heard
  <2> QED
    BY <2>2, <2>3
<1>3. CASE LinkUp(k) \/ GotIp(k)
  <2>1. /\ on' = on /\ roster' = roster /\ turned' = turned /\ beat' = beat
        /\ \A j \in Node : node'[j].wearing = node[j].wearing /\ node'[j].ready = node[j].ready
    <3>1. CASE LinkUp(k)
      <4>1. node' = [node EXCEPT ![k] = LinkUpStep(node[k])] /\ node[k] \in NodeState
        BY <1>0, <3>1 DEF LinkUp
      <4>2. LinkUpStep(node[k]).wearing = node[k].wearing /\ LinkUpStep(node[k]).ready = node[k].ready
        BY <4>1, LinkUpFields
      <4> QED
        BY <1>0, <3>1, <4>1, <4>2 DEF LinkUp, sched
    <3>2. CASE GotIp(k)
      BY <1>0, <3>2 DEF GotIp, sched, NodeState
    <3> QED
      BY <1>3, <3>1, <3>2
  <2>2. \A a \in {0, 1} : Vouched(i, a)' <=> Vouched(i, a)
    BY <2>1 DEF Vouched
  <2> QED
    BY <1>0, <2>1, <2>2 DEF Heard
<1> QED
  BY <1>1, <1>2, <1>3

\* From one unit to the next.
LEMMA FaceTick ==
  ASSUME IInv, RipeInv, Tick, PEER_LOST > 1, NEW i \in Faces, NEW s \in Nat, Heard(i, s),
         NEW t \in Nat, t <= s + 1
  PROVE  i \in Faces' /\ Heard(i, t)'
<1>1. i \in Node /\ node[i].wearing /\ on[i]
  BY DEF Faces, IInv, OnlyElectedWear
<1>2. /\ turned[i] /\ beat[i] /\ on' = on
      /\ \A j \in Node : /\ on[j] => turned[j]
                         /\ ~turned'[j] /\ ~beat'[j]
                         /\ node'[j].wearing = node[j].wearing
                         /\ node'[j].ready = node[j].ready
                         /\ node[j].wearing => on[j]
                         /\ node'[j].link = node[j].link /\ node'[j].haveIp = node[j].haveIp
  BY <1>1, TickShape DEF IInv, OnlyElectedWear, Tick
<1>3. i \in Faces' /\ node'[i].ready
  BY <1>1, <1>2, FaceIs DEF RipeInv, Faces
<1>4. s >= 1 => Vouched(i, 1)'
  <2> SUFFICES ASSUME s >= 1, NEW j \in Node \ {i}, on[j]
               PROVE  roster'[j][i].age <= 1 /\ roster'[j][i].able
    BY <1>2 DEF Vouched
  <2>1. roster[j][i].age <= 0 /\ roster[j][i].able /\ roster[j][i] \in Entry
    BY <1>1, <1>2 DEF Heard, Vouched, IInv, TypeOK
  <2>2. roster'[j][i] = OlderEntry(roster[j][i])
    BY <1>1, TickShape
  <2> QED
    BY <2>1, <2>2, Times DEF OlderEntry, Entry
<1>5. s >= 2 => \A j \in Node : j > i => ~node'[j].wearing
  BY <1>1, <1>2 DEF Heard
<1>6. (t >= 2 => s >= 1) /\ (t >= 3 => s >= 2)
  OBVIOUS
<1>7. (t >= 1 /\ beat[i] => Vouched(i, 0))'
  BY <1>1, <1>2
<1> QED
  BY <1>1, <1>2, <1>3, <1>4, <1>5, <1>6, <1>7 DEF Heard

\* A turn takes a live face off the air by taking off its mask, or not at all.
LEMMA FaceTurn ==
  ASSUME IInv, NEW i \in Faces, CalmTurn(i)
  PROVE  i \in Faces' \/ ~node'[i].wearing
<1> DEFINE n == node[i]
           now == ComputeLeader(i, n)
           q == [n EXCEPT !.leader = now]
           e == ElectStep(i, n)
<1>1. n \in NodeState /\ node'[i] = MaskTickStep(e) /\ i \in Node /\ n.wearing /\ n.link /\ n.haveIp
  BY DEF CalmTurn, IInv, TypeOK, Faces
<1>2. LoseWire(n) = n
  BY <1>1 DEF LoseWire, LinkLost
<1>3. now \in Node \cup {NONE}
  BY <1>1, ElectAnswers
<1>4. q \in NodeState /\ q.wearing /\ q.link /\ q.haveIp
  BY <1>1, <1>3 DEF NodeState
<1>5. e = IF now # n.leader THEN SetLeader(q, now = i) ELSE n
  BY <1>2 DEF ElectStep
<1>6. e = n \/ e = q \/ e = Swap(q, FALSE)
  <2>1. q.wearing = TRUE
    BY <1>4 DEF NodeState
  <2> HIDE DEF q, e
  <2>2. CASE now = i
    <3>1. (now = i) = TRUE
      BY <2>2
    <3> QED
      BY <1>5, <2>1, <3>1 DEF SetLeader
  <2>3. CASE now # i
    <3>1. (now = i) = FALSE
      BY <2>3
    <3> QED
      BY <1>5, <2>1, <3>1 DEF SetLeader
  <2> QED
    BY <2>2, <2>3
<1>7. CASE e = n \/ e = q
  <2>1. e \in NodeState /\ e.wearing /\ e.link /\ e.haveIp
    BY <1>1, <1>4, <1>7
  <2> HIDE DEF e
  <2>2. node'[i] = e \/ node'[i] = Swap(e, FALSE)
    BY <1>1 DEF MaskTickStep
  <2>3. ~Swap(e, FALSE).wearing
    BY <2>1, SwapTyped
  <2> QED
    BY <1>1, <2>1, <2>2, <2>3 DEF Faces
<1>8. CASE e = Swap(q, FALSE)
  <2> HIDE DEF q
  <2>1. Swap(q, FALSE) \in NodeState /\ ~Swap(q, FALSE).wearing
    BY <1>4, SwapTyped
  <2> HIDE DEF e
  <2> QED
    BY <1>1, <1>8, <2>1 DEF MaskTickStep
<1> QED
  BY <1>6, <1>7, <1>8

\* The blades with power that may lead are of B.
Crew(B) == \A i \in Eligible \cap Real : on[i] => i \in B

\* Two blades, and the history `twin` that counts their units side by side.
TwinInv(B) ==
  /\ twin <= 2
  /\ twin >= 1 => \A i \in B : i \in Faces \/ (turned[i] /\ ~node[i].wearing)
  /\ \A i \in Faces : Heard(i, twin)

TwoOf(B) == B \subseteq Node /\ Cardinality(B) <= 2

LEMMA TwinTick ==
  ASSUME NEW B, TwoOf(B), Crew(B), IInv, RipeInv, TwinInv(B), Tick, PEER_LOST > 1
  PROVE  TwinInv(B)'
<1>1. /\ twin \in Nat /\ twin' \in Nat /\ twin' <= twin + 1
      /\ twin' > 0 => ~(Cardinality(Faces) <= 1)
  BY TimeAssumption DEF IInv, TypeOK, Tick, Older
<1>2. Faces \subseteq Faces' /\ Faces' \subseteq Faces
  <2>1. \A i \in Node : /\ node'[i].wearing = node[i].wearing /\ node'[i].link = node[i].link
                        /\ node'[i].haveIp = node[i].haveIp
    BY TickShape
  <2> QED
    BY <2>1 DEF Faces
<1>3. \A i \in Faces : Heard(i, twin)'
  <2> TAKE i \in Faces
  <2>1. Heard(i, twin)
    BY DEF TwinInv
  <2>2. ASSUME NEW t \in Nat, t = twin' PROVE Heard(i, t)'
    BY <1>1, <2>1, <2>2, FaceTick
  <2>3. ASSUME NEW t \in Nat, t = twin' PROVE Heard(i, twin)'
    BY <2>2, <2>3 DEF Heard
  <2> QED
    BY <1>1, <2>3
<1>4. CASE twin' > 0
  <2>1. IsFiniteSet(B) /\ Faces \subseteq B /\ Faces \subseteq Nat
    BY NodeAssumption, KindAssumption, FS_Subset DEF Faces, IInv, OnlyElectedWear, TwoOf, Crew
  <2>2. /\ IsFiniteSet(Faces) /\ Cardinality(Faces) \in Nat /\ Cardinality(B) \in Nat
        /\ Cardinality(Faces) <= Cardinality(B) /\ Cardinality(B) <= 2
    BY <2>1, FS_Subset, FS_CardinalityType DEF TwoOf
  <2>3. Cardinality(Faces) = Cardinality(B)
    BY <1>1, <1>4, <2>2
  <2>4. Faces = B
    BY <2>1, <2>3, FS_Subset
  <2>5. PICK i \in Faces : \A j \in Faces : i <= j
    <3>1. Faces # {}
      BY <1>1, <1>4, FS_EmptySet
    <3> QED
      BY <2>1, <3>1, Least
  <2>6. PICK j \in Faces : j # i
    <3> SUFFICES ASSUME Faces = {i} PROVE FALSE
      BY <2>5
    <3>1. Cardinality({i}) = 1
      BY FS_Singleton
    <3> QED
      BY <1>1, <1>4, <3>1
  <2>7. i < j /\ node[j].wearing /\ on[j] /\ turned[j] /\ j \in Node
    <3>1. j \in Node /\ node[j].wearing
      BY <2>6 DEF Faces
    <3>2. i < j
      BY <2>1, <2>5, <2>6
    <3>3. on[j]
      BY <3>1 DEF IInv, OnlyElectedWear
    <3> QED
      BY <3>1, <3>2, <3>3 DEF Tick
  <2>8. ~(twin >= 2)
    BY <2>7 DEF TwinInv, Heard
  <2> QED
    BY <1>1, <1>2, <1>3, <2>4, <2>8 DEF TwinInv
<1>5. CASE ~(twin' > 0)
  BY <1>1, <1>2, <1>3, <1>5 DEF TwinInv
<1> QED
  BY <1>4, <1>5

LEMMA TwinStep ==
  ASSUME NEW B, TwoOf(B), Crew(B), IInv, TwinInv(B), [Next]_vars, PEER_LOST > 1, UNCHANGED hist,
         NEW k \in Node, CalmTurn(k) \/ CalmBeat(k) \/ LinkUp(k) \/ GotIp(k)
  PROVE  TwinInv(B)'
<1>1. twin' = twin /\ twin \in Nat /\ node \in [Node -> NodeState]
  BY TimeAssumption DEF hist, IInv, TypeOK
<1>2. ASSUME NEW i \in Node, node'[i].wearing, ~node[i].wearing
      PROVE  CalmTurn(i) /\ ~turned[i]
  <2>1. CASE CalmTurn(k)
    <3>1. node' = [node EXCEPT ![k] = node'[k]]
      BY <2>1, TurnTurns DEF CalmTurn, IInv
    <3> QED
      BY <1>1, <1>2, <2>1, <3>1 DEF CalmTurn, Turn
  <2>2. CASE CalmBeat(k)
    BY <1>2, <2>2 DEF CalmBeat, Heartbeat
  <2>3. CASE LinkUp(k)
    <3>1. LinkUpStep(node[k]).wearing = node[k].wearing
      BY <1>1, LinkUpFields
    <3> QED
      BY <1>1, <1>2, <2>3, <3>1 DEF LinkUp
  <2>4. CASE GotIp(k)
    BY <1>1, <1>2, <2>4 DEF GotIp, NodeState
  <2> QED
    BY <2>1, <2>2, <2>3, <2>4
<1>3. \A i \in Node : turned[i] => turned'[i]
  BY DEF CalmTurn, Turn, CalmBeat, Heartbeat, LinkUp, GotIp, sched, IInv, TypeOK
<1>4. ASSUME NEW i \in Faces, i \notin Faces'
      PROVE  turned'[i] /\ ~node'[i].wearing
  <2>1. node[i] \in NodeState /\ i \in Node /\ node[i].wearing /\ node[i].link /\ node[i].haveIp
    BY <1>1 DEF Faces
  <2>2. node'[i] # node[i]
    BY <1>4, <2>1 DEF Faces
  <2>3. CASE CalmTurn(k)
    <3>1. i = k
      BY <1>1, <2>1, <2>2, <2>3 DEF CalmTurn
    <3>2. turned'[i]
      BY <2>1, <2>3, <3>1 DEF CalmTurn, Turn, IInv, TypeOK
    <3> QED
      BY <1>4, <2>3, <3>1, <3>2, FaceTurn
  <2>4. CASE CalmBeat(k) \/ LinkUp(k) \/ GotIp(k)
    BY <1>1, <2>1, <2>2, <2>4 DEF CalmBeat, Heartbeat, LinkUp, Trying, GotIp
  <2> QED
    BY <2>3, <2>4
<1>5. ASSUME twin >= 1, NEW i \in B
      PROVE  i \in Faces' \/ (turned'[i] /\ ~node'[i].wearing)
  <2>1. i \in Node /\ (i \in Faces \/ (turned[i] /\ ~node[i].wearing))
    BY <1>5 DEF TwinInv, TwoOf
  <2> QED
    BY <1>2, <1>3, <1>4, <2>1
<1>6. ASSUME NEW i \in Faces' PROVE Heard(i, twin)'
  <2>1. i \in Node /\ node'[i].wearing
    BY <1>6 DEF Faces
  <2>2. CASE i \in Faces
    BY <1>1, <1>6, <2>2, FaceStep DEF TwinInv
  <2>3. CASE i \notin Faces /\ twin >= 1
    <3>1. i \in B
      <4>1. IInv' /\ on' = on
        BY NextIInv DEF CalmTurn, Turn, CalmBeat, Heartbeat, LinkUp, GotIp
      <4> QED
        BY <2>1, <4>1 DEF IInv, OnlyElectedWear, Crew
    <3> QED
      BY <1>2, <2>1, <2>3, <3>1 DEF TwinInv
  <2>4. CASE ~(twin >= 1)
    BY <1>1, <2>4 DEF Heard
  <2> QED
    BY <2>2, <2>3, <2>4
<1> QED
  BY <1>1, <1>5, <1>6 DEF TwinInv

LEMMA NextTwin ==
  ASSUME NEW B, TwoOf(B), Crew(B), IInv, RipeInv, TwinInv(B), [Next]_vars, PEER_LOST > 1
  PROVE  TwinInv(B)'
<1>1. CASE twin' = 0
  BY <1>1 DEF TwinInv, Heard
<1>2. CASE UNCHANGED vars
  BY <1>2 DEF vars, sched, hist, TwinInv, Heard, Vouched, Faces
<1> QED
  BY <1>1, <1>2, QuietSteps, TwinTick, TwinStep

----------------------------------------------------------------------------
(* Any number of faces, with a history of its own *)

VARIABLE stood   \* units on end, undisturbed, for which a node has been a live face

Stand ==
  stood' = [i \in Node |->
    IF i \notin Faces' \/ calm' = 0 THEN 0
    ELSE IF Tick THEN Older(stood[i], 3) ELSE stood[i]]

StandInit == Start /\ stood = [i \in Node |-> 0]

StandSpec == StandInit /\ [][Next /\ Stand]_<<vars, stood>>

StoodInv ==
  /\ stood \in [Node -> 0..3]
  /\ \A i \in Node : stood[i] > 0 => i \in Faces /\ Heard(i, stood[i])

\* Of two live faces the lower one is at most two units old.
OldFaceAlone == \A i, j \in Faces : i < j => stood[i] <= 2

LEMMA NextStood ==
  ASSUME PEER_LOST > 1, IInv, RipeInv, StoodInv, [Next /\ Stand]_<<vars, stood>>
  PROVE  StoodInv'
<1>1. CASE UNCHANGED <<vars, stood>>
  BY <1>1 DEF vars, sched, StoodInv, Heard, Vouched, Faces
<1>2. CASE Next /\ Stand
  <2>1. [Next]_vars /\ \A i \in Node : stood[i] \in 0..3
    BY <1>2 DEF StoodInv
  <2>2. stood' = [i \in Node |->
           IF i \notin Faces' \/ calm' = 0 THEN 0
           ELSE IF Tick THEN Older(stood[i], 3) ELSE stood[i]]
    BY <1>2 DEF Stand
  <2>3. ASSUME NEW i \in Node, NEW s \in 0..3, s = stood[i], NEW t, t = stood'[i]
        PROVE  t \in 0..3 /\ (t > 0 => i \in Faces' /\ Heard(i, t)')
    <3>1. t = IF i \notin Faces' \/ calm' = 0 THEN 0
              ELSE IF Tick THEN Older(s, 3) ELSE s
      BY <2>2, <2>3
    <3>2. Older(s, 3) \in 0..3 /\ Older(s, 3) <= s + 1
      BY DEF Older
    <3>3. t \in 0..3
      BY <3>1, <3>2
    <3>4. s > 0 => i \in Faces /\ Heard(i, s)
      BY <2>3 DEF StoodInv
    <3>5. ASSUME t > 0 PROVE i \in Faces' /\ Heard(i, t)'
      <4>1. i \in Faces' /\ calm' # 0
        BY <3>1, <3>5
      <4>2. CASE Tick
        <5>1. t = Older(s, 3)
          BY <3>1, <4>1, <4>2
        <5>2. i \in Faces
          <6>1. /\ node'[i].wearing = node[i].wearing /\ node'[i].link = node[i].link
                /\ node'[i].haveIp = node[i].haveIp
            BY <4>2, TickShape
          <6> QED
            BY <4>1, <6>1 DEF Faces
        <5>3. Heard(i, s)
          <6>1. CASE s = 0
            BY <6>1 DEF Heard
          <6> QED
            BY <3>4, <6>1
        <5> QED
          BY <3>2, <3>3, <4>2, <5>1, <5>2, <5>3, FaceTick
      <4>3. CASE ~Tick
        <5>1. t = s
          BY <3>1, <4>1, <4>3
        <5>2. i \in Faces /\ Heard(i, t)
          BY <3>4, <3>5, <5>1
        <5>3. CASE UNCHANGED vars
          BY <4>1, <5>2, <5>3 DEF vars, sched, Heard, Vouched
        <5>4. ASSUME NEW k \in Node, UNCHANGED hist,
                     CalmTurn(k) \/ CalmBeat(k) \/ LinkUp(k) \/ GotIp(k)
              PROVE  Heard(i, t)'
          BY <2>1, <3>3, <4>1, <5>2, <5>4, FaceStep
        <5> QED
          BY <2>1, <4>1, <4>3, <5>3, <5>4, QuietSteps
      <4> QED
        BY <4>2, <4>3
    <3> QED
      BY <3>3, <3>5
  <2>4. \A i \in Node : stood'[i] \in 0..3 /\ (stood'[i] > 0 => i \in Faces' /\ Heard(i, stood[i])')
    <3> TAKE i \in Node
    <3>1. ASSUME NEW s \in 0..3, s = stood[i], NEW t, t = stood'[i]
          PROVE  stood'[i] \in 0..3 /\ (stood'[i] > 0 => i \in Faces' /\ Heard(i, stood[i])')
      <4>1. t \in 0..3 /\ (t > 0 => i \in Faces' /\ Heard(i, t)')
        BY <2>3, <3>1
      <4> QED
        BY <3>1, <4>1 DEF Heard
    <3> QED
      BY <2>1, <3>1
  <2> QED
    BY <2>2, <2>4 DEF StoodInv
<1> QED
  BY <1>1, <1>2

----------------------------------------------------------------------------
(* The start, and the end *)

LEMMA InitConverge == PEER_LOST > 1 /\ Start => SilentInv /\ GhostInv /\ FaceInv
<1>1. ASSUME Init \/ ColdInit PROVE SilentInv /\ GhostInv /\ FaceInv
  <2>1. /\ calm = 0 /\ \A j \in Node : ~beat[j]
        /\ \A i, j \in Node : roster[i][j].age >= calm
    BY <1>1, PowerUp, Times DEF Lost
  <2>2. \A j \in Node : MuteAt(j) > 0 /\ MuteAt(j) \in Nat /\ Due(j) \in Nat /\ Due(j) > 0
    BY MuteTimes, Dues, Times
  <2> QED
    BY <2>1, <2>2, Times DEF SilentInv, GhostInv, FaceInv
<1>2. ASSUME SteadyInit, PEER_LOST > 1 PROVE SilentInv /\ GhostInv /\ FaceInv
  <2>1. PICK face \in Eligible \cap Real : /\ \A j \in Eligible \cap Real : face <= j
                                           /\ node = [i \in Node |-> Steady(i, face)]
    BY <1>2 DEF SteadyInit
  <2>2. ASSUME NEW i \in Node
        PROVE  /\ on[i] /\ (wire[i] <=> i \in Real) /\ ~beat[i] /\ ~turned[i]
               /\ node[i].leader = face
               /\ i \in Real => node[i].link
    <3>1. CASE i \in Real
      BY <1>2, <2>1, <3>1 DEF Steady, Booted, SteadyInit
    <3>2. CASE i \notin Real
      BY <1>2, <2>1, <3>2 DEF Steady, Booted, SteadyInit
    <3> QED
      BY <3>1, <3>2
  <2>3. ASSUME NEW i \in Node, NEW j \in Node \ {i}
        PROVE  /\ roster[i][j].age <= 1 /\ roster[i][j].able = (j \in Real)
    <3>1. roster[i][j] = OlderEntry([age |-> 0, able |-> j \in Real])
      BY <1>2 DEF SteadyInit
    <3> DEFINE e == [age |-> 0, able |-> j \in Real]
    <3>2. OlderEntry(e) = [e EXCEPT !.age = @ + 1]
      BY <1>2, Times DEF OlderEntry
    <3> QED
      BY <3>1, <3>2
  <2>4. \A j \in Node : Still(j) => j \notin Eligible \/ j \notin Real \/ ~node[j].ready
    BY <2>2 DEF Still, Dumb, Ghost, Willing
  <2>5. \A j \in Real : node[j].ready
    BY <2>1, KindAssumption DEF Steady, Booted
  <2>6. SilentInv
    BY <2>2, <2>3, <2>4, <2>5 DEF SilentInv, Unheard, Shown
  <2>7. GhostInv
    BY <2>2 DEF GhostInv, Ghost, Willing
  <2>8. FaceInv
    <3> SUFFICES ASSUME NEW i \in Node, Leads(i)
                 PROVE  /\ i = face
                        /\ FaceLeft(i, node[i], turned[i]) = 0
                        /\ Vouched(i, 1)
      BY <2>2 DEF FaceInv
    <3>1. i = face
      <4>1. Willing(face) /\ wire[face] /\ face \in Node
        BY <2>2, <2>5, KindAssumption DEF Willing
      <4>2. face <= i /\ i \in Nat /\ face \in Nat
        BY <2>1, <4>1, NodeAssumption DEF Leads, Willing
      <4>3. ~(face < i)
        BY <4>1 DEF Leads, Front
      <4> QED
        BY <4>2, <4>3
    <3>2. FaceLeft(i, node[i], turned[i]) = 0
      BY <2>2, <3>1 DEF FaceLeft
    <3>3. Vouched(i, 1)
      BY <2>3, <3>1 DEF Vouched
    <3> QED
      BY <3>1, <3>2, <3>3
  <2> QED
    BY <2>6, <2>7, <2>8
<1> QED
  BY <1>1, <1>2 DEF Start

LEMMA InitDark == Start => DarkInv
<1>1. Start => dark = 0
  BY DEF Start, Init, ColdInit, SteadyInit
<1> QED
  BY <1>1 DEF DarkInv

LEMMA InitTwin == Start => RipeInv /\ \A B : TwinInv(B)
<1>1. Start => twin = 0 /\ \A i \in Node : ~turned[i]
  BY DEF Start, Init, ColdInit, SteadyInit
<1> QED
  BY <1>1 DEF RipeInv, TwinInv, Heard

\* The invariants, after enough calm, say what OneFace says.
LEMMA CalmIsOneFace ==
  ASSUME SETTLE >= Enough, IInv, NodeInv, SilentInv, GhostInv, FaceInv
  PROVE  OneFace
<1> SUFFICES ASSUME calm = SETTLE, Fit # {}, ~Stuck
             PROVE  LET face == Lowest(Fit)
                    IN  /\ Faces = {face}
                        /\ \A i \in Node : node[i].wearing => i = face
                        /\ \A i \in Node : on[i] /\ (i \in Fit \/ ~SelfOk(i, node[i]))
                                             => node[i].leader = face
  BY DEF OneFace
<1> DEFINE W == {i \in Node : Willing(i) /\ wire[i]}
<1>1. Fit \subseteq W
  BY NodeInvAt DEF Fit, SelfOk, Willing
<1>2. PICK f \in W : \A k \in W : f <= k
  BY <1>1, Least, NodeAssumption
<1>3. Leads(f) /\ f \in Node /\ f \in Eligible \cap Real
  <2>1. \A j \in Node : Willing(j) /\ j < f => ~wire[j]
    <3> SUFFICES ASSUME NEW j \in Node, Willing(j), j < f, wire[j] PROVE FALSE
      OBVIOUS
    <3>1. f <= j /\ f \in Nat /\ j \in Nat
      BY <1>2, NodeAssumption
    <3> QED
      BY <3>1
  <2> QED
    BY <2>1 DEF Leads, Front, Willing
<1>4. /\ Due(f) \in Nat /\ calm \in Nat /\ Due(f) >= Base
      /\ Due(f) + Haunt + Climb + 2 < calm
  <2>1. Due(f) + Haunt + Climb + 2 < Enough /\ Due(f) \in Nat /\ Due(f) >= Base
    BY <1>3, Dues
  <2>2. Enough \in Nat
    <3>1. IsFiniteSet(Eligible \cap Real)
      BY NodeAssumption, KindAssumption, FS_Subset
    <3>2. Cardinality(Eligible \cap Real) \in Nat /\ Haunt + 1 \in Nat
      BY <3>1, FS_CardinalityType, Times
    <3>3. (Haunt + 1) * Cardinality(Eligible \cap Real) \in Nat
      BY <3>2, TimesNat
    <3> QED
      BY <3>3, Times DEF Enough
  <2> QED
    BY <2>1, <2>2, Times
<1>5. /\ calm >= Due(f) + Climb /\ calm > Due(f) + Climb + 1 /\ calm > LINK_GRACE
  BY <1>4, Times
<1>6. node[f].link /\ node[f].leader = f /\ node[f] \in NodeState /\ f \in Fit
  <2>1. node[f].link /\ node[f].leader = f
    BY <1>3, <1>5, FaceDone
  <2> QED
    BY <1>3, <2>1, NodeInvAt DEF Fit, SelfOk, LinkLost, Leads, Willing
<1>7. node[f].wearing /\ node[f].haveIp
  BY <1>3, <1>6, NodeInvAt DEF Stuck
<1>8. \A k \in Node \ {f} : on[k] /\ Follows(k, f) => node[k].leader = f
  BY <1>3, <1>5, <1>7 DEF FaceInv
<1>9. ASSUME NEW k \in Node, k # f, node[k].wearing PROVE FALSE
  <2>1. on[k] /\ node[k].leader = k /\ node[k] \in NodeState
    BY <1>9, NodeInvAt
  <2>2. ~Follows(k, f)
    BY <1>8, <1>9, <2>1
  <2>3. k < f /\ SelfOk(k, node[k])
    BY <1>9, <2>2, NodeAssumption DEF Follows
  <2>4. Willing(k) /\ ~wire[k] /\ Front(k)
    <3>1. Willing(k)
      BY <2>1, <2>3 DEF SelfOk, Willing
    <3>2. ~wire[k]
      BY <1>3, <2>3, <3>1 DEF Leads, Front
    <3>3. Front(k)
      BY <1>3, <2>3, NodeAssumption DEF Leads, Front
    <3> QED
      BY <3>1, <3>2, <3>3
  <2>5. Ghost(k)
    <3>1. ~node[k].link /\ (node[k].downFor # NEVER => node[k].downFor >= calm \/ node[k].downFor > LINK_GRACE)
      BY <2>4, NodeInvAt
    <3>2. node[k].downFor \in Int
      BY <2>1, NodeFields
    <3> QED
      BY <1>4, <1>5, <2>3, <2>4, <3>1, <3>2, Times DEF Ghost, SelfOk, LinkLost
  <2>6. Due(k) \in Nat /\ Due(k) + Haunt < Due(f)
    BY <1>3, <2>3, <2>4, Dues DEF Willing
  <2> DEFINE left == GhostLeft(k, node[k], turned[k])
  <2>7. left = 0 \/ left + calm <= Due(k) + Haunt
    <3>1. calm >= Due(k)
      BY <1>4, <2>6, Times
    <3> QED
      BY <2>4, <2>5, <3>1 DEF GhostInv
  <2>8. left \in Int
    BY GhostLeftType
  <2>9. left <= 0
    <3> HIDE DEF left
    <3> QED
      BY <1>4, <2>6, <2>7, <2>8, Times
  <2> QED
    BY <1>9, <2>9, GhostDone
<1>10. Lowest(Fit) = f
  <2>1. \A n \in Fit : f <= n
    BY <1>1, <1>2
  <2>2. \A m \in Fit : (\A n \in Fit : m <= n) => m = f
    <3> SUFFICES ASSUME NEW m \in Fit, m <= f, f <= m PROVE m = f
      BY <1>6, <2>1
    <3>1. m \in Nat /\ f \in Nat
      BY <1>3, NodeAssumption DEF Fit
    <3> QED
      BY <3>1
  <2> QED
    BY <1>6, <2>1, <2>2 DEF Lowest
<1>11. Faces = {f}
  BY <1>3, <1>6, <1>7, <1>9 DEF Faces
<1>12. ASSUME NEW i \in Node, on[i], i \in Fit \/ ~SelfOk(i, node[i])
       PROVE  node[i].leader = f
  <2>1. CASE i = f
    BY <1>6, <2>1
  <2>2. CASE i # f
    <3>1. i \in Fit => i > f
      BY <1>1, <1>2, <2>2, NodeAssumption
    <3>2. Follows(i, f)
      BY <1>12, <3>1 DEF Follows
    <3> QED
      BY <1>8, <1>12, <2>2, <3>2
  <2> QED
    BY <2>1, <2>2
<1> QED
  BY <1>9, <1>10, <1>11, <1>12

----------------------------------------------------------------------------
(* Theorems *)

\* Every variable of the fleet stays in its type, the timers capped by the
\* comparisons the code makes with them.
THEOREM Typed == Runs => []TypeOK
<1>1. IInv => TypeOK
  BY DEF IInv
<1> QED
  BY FleetRuns, StartIInv, NextIInv, <1>1, PTL

\* However many blades, whatever is lost, cut, crashed or stood down: the mask
\* is only ever on a running, eligible, real node that elected itself.
THEOREM ElectedWear == Runs => []OnlyElectedWear
<1>1. IInv => OnlyElectedWear
  BY DEF IInv
<1> QED
  BY FleetRuns, StartIInv, NextIInv, <1>1, PTL

\* From a cold start or from peace, whatever is lost, cut, crashed or stood
\* down, nobody puts the mask on past a lower claimant that is inside its graces
\* and whose heartbeat is out: if the radio's silence outlasts a unit, the cascade
\* of 2026-10-23 cannot return.
THEOREM NobodyClaimsPast == PEER_LOST > 1 => (Runs => NoCascade)
<1> SUFFICES ASSUME PEER_LOST > 1 PROVE Runs => NoCascade
  OBVIOUS
<1>1. Start => IInv /\ ClaimInv
  BY StartIInv, InitClaim
<1>2. IInv /\ ClaimInv /\ [Next]_vars => (IInv /\ ClaimInv)'
  BY NextIInv, NextClaim
<1>3. ASSUME IInv, ClaimInv, Next
      PROVE  calm >= 2 =>
               \A i, j \in Node :
                 /\ ~node[i].wearing /\ node'[i].wearing
                 /\ j < i /\ node[j].wearing /\ ~node[j].haveIp /\ node[j].claimFor >= 2
                 => ~node[j].ready \/ LinkLost(node[j]) \/ node[j].claimFor >= CLAIM_GRACE
  BY <1>3, CascadeStep
<1>4. IInv /\ ClaimInv /\ [Next]_vars =>
        [calm >= 2 =>
           \A i, j \in Node :
             /\ ~node[i].wearing /\ node'[i].wearing
             /\ j < i /\ node[j].wearing /\ ~node[j].haveIp /\ node[j].claimFor >= 2
             => ~node[j].ready \/ LinkLost(node[j]) \/ node[j].claimFor >= CLAIM_GRACE]_vars
  BY <1>3
<1> QED
  BY FleetRuns, <1>1, <1>2, <1>4, PTL DEF NoCascade

\* Once the fleet has been left alone for long enough, the lowest fit blade is
\* the one face, it is live, and everyone follows it, whatever was lost, cut,
\* crashed or stood down before: if the silence of a peer outlasts a unit and
\* the PHY comes back inside the link grace and the claim timeout.
THEOREM Converges ==
  PEER_LOST > 1 /\ Bounces /\ SETTLE >= Enough => (Runs => []OneFace)
<1> SUFFICES ASSUME PEER_LOST > 1, Bounces, SETTLE >= Enough
             PROVE  Runs => []OneFace
  OBVIOUS
<1> DEFINE Inv == IInv /\ NodeInv /\ SilentInv /\ GhostInv /\ FaceInv
<1>1. Start => Inv
  BY StartIInv, InitNode, InitConverge
<1>2. Inv /\ [Next]_vars => Inv'
  BY NextIInv, NextNode, NextSilent, NextGhost, NextFace
<1>3. Inv => OneFace
  BY CalmIsOneFace
<1> QED
  BY FleetRuns, <1>1, <1>2, <1>3, PTL

\* The gap of a takeover, whatever was lost, cut, crashed or stood down and in
\* whatever order: left alone, a fleet with a blade fit for the mask has a wearer
\* again within the longest of three waits, the silence of a dead peer, the link
\* grace of a deaf leader (and the unit in which it is heard of), and the PHY.
THEOREM TakesOver == TAKEOVER >= Longest => (Runs => []TakenOver)
<1> SUFFICES ASSUME TAKEOVER >= Longest PROVE Runs => []TakenOver
  OBVIOUS
<1>1. Start => IInv /\ NodeInv /\ DarkInv
  BY StartIInv, InitNode, InitDark
<1>2. IInv /\ NodeInv /\ DarkInv /\ [Next]_vars => (IInv /\ NodeInv /\ DarkInv)'
  BY NextIInv, NextNode, NextDark
<1>3. IInv /\ DarkInv => TakenOver
  <2>1. IInv /\ DarkInv => dark \in Nat /\ (dark > 0 => dark <= Longest)
    BY TimeAssumption DEF IInv, TypeOK, DarkInv
  <2> QED
    BY <2>1, LongestIs, TimeAssumption DEF TakenOver
<1> QED
  BY FleetRuns, <1>1, <1>2, <1>3, PTL

\* The same of the fleet that the takeover run starts from its cold pair and from
\* peace, with the unit to spare that the run asks of the latter.
THEOREM SwiftFleet ==
  Pair \subseteq Node /\ TAKEOVER > Longest => (FleetSpec => []SwiftTakeover)
<1> SUFFICES ASSUME Pair \subseteq Node, TAKEOVER > Longest PROVE FleetSpec => []SwiftTakeover
  OBVIOUS
<1>1. Start => IInv /\ NodeInv /\ DarkInv
  BY StartIInv, InitNode, InitDark
<1>2. IInv /\ NodeInv /\ DarkInv /\ [Next]_vars => (IInv /\ NodeInv /\ DarkInv)'
  BY NextIInv, NextNode, NextDark
<1>3. IInv /\ DarkInv => SwiftTakeover
  <2>1. IInv /\ DarkInv => dark \in Nat /\ (dark > 0 => dark <= Longest)
    BY TimeAssumption DEF IInv, TypeOK, DarkInv
  <2> QED
    BY <2>1, LongestIs, TimeAssumption DEF TakenOver, SwiftTakeover
<1>4. FleetSpec => Start /\ [][Next]_vars
  BY FleetRuns DEF Runs
<1> QED
  BY <1>1, <1>2, <1>3, <1>4, PTL

\* Of two live faces that nothing disturbs, the lower is at most two units old:
\* by then everyone has heard it and has had a turn to stand back.  For any number
\* of blades, no two of them stay faces side by side for a third unit.
THEOREM OldFaceYields == PEER_LOST > 1 => (StandSpec => []OldFaceAlone)
<1> SUFFICES ASSUME PEER_LOST > 1 PROVE StandSpec => []OldFaceAlone
  OBVIOUS
<1>1. StandInit => IInv /\ RipeInv /\ StoodInv
  <2>1. Start /\ stood = [i \in Node |-> 0] => StoodInv
    BY DEF StoodInv
  <2> QED
    BY <2>1, StartIInv, InitTwin DEF StandInit
<1>2. IInv /\ RipeInv /\ StoodInv /\ [Next /\ Stand]_<<vars, stood>>
        => (IInv /\ RipeInv /\ StoodInv)'
  <2>1. [Next /\ Stand]_<<vars, stood>> => [Next]_vars
    OBVIOUS
  <2> QED
    BY <2>1, NextIInv, NextRipe, NextStood
<1>3. IInv /\ StoodInv => OldFaceAlone
  <2> SUFFICES ASSUME IInv, StoodInv, NEW i \in Faces, NEW j \in Faces, i < j, stood[i] > 2
               PROVE  FALSE
    BY DEF OldFaceAlone, StoodInv, Faces
  <2>1. i \in Node /\ j \in Node /\ node[j].wearing
    BY DEF Faces
  <2>2. Heard(i, stood[i]) /\ stood[i] >= 3
    BY <2>1 DEF StoodInv
  <2> QED
    BY <2>1, <2>2 DEF Heard
<1> QED
  BY <1>1, <1>2, <1>3, PTL DEF StandSpec

\* A fleet with two blades that may lead never shows two faces for a third unit
\* on end, whatever was lost, cut, crashed or stood down before.
THEOREM TwoBlades ==
  PEER_LOST > 1 /\ TWIN >= 2 /\ Cardinality(Eligible \cap Real) <= 2 =>
    (Runs => []NoTwinFaces)
<1> SUFFICES ASSUME PEER_LOST > 1, TWIN >= 2, Cardinality(Eligible \cap Real) <= 2
             PROVE  Runs => []NoTwinFaces
  OBVIOUS
<1> DEFINE B == Eligible \cap Real
<1>1. TwoOf(B) /\ Crew(B)
  BY KindAssumption DEF TwoOf, Crew
<1> HIDE DEF B
<1>2. Start => IInv /\ RipeInv /\ TwinInv(B)
  BY StartIInv, InitTwin
<1>3. IInv /\ RipeInv /\ TwinInv(B) /\ [Next]_vars => (IInv /\ RipeInv /\ TwinInv(B))'
  BY <1>1, NextIInv, NextRipe, NextTwin
<1>4. IInv /\ TwinInv(B) => NoTwinFaces
  BY TimeAssumption DEF IInv, TypeOK, TwinInv, NoTwinFaces
<1> QED
  BY FleetRuns, <1>2, <1>3, <1>4, PTL

\* Nor do the two blades of the cold start, on a site of any size.
THEOREM ColdPair ==
  PEER_LOST > 1 /\ TWIN >= 2 /\ Pair \subseteq Node =>
    (FleetSpec => [](fitted = Pair => NoTwinFaces))
<1> SUFFICES ASSUME PEER_LOST > 1, TWIN >= 2, Pair \subseteq Node
             PROVE  FleetSpec => [](fitted = Pair => NoTwinFaces)
  OBVIOUS
<1> DEFINE Manned == fitted = Pair => \A i \in Node : on[i] => i \in Pair
           Inv == IInv /\ RipeInv /\ (fitted = Pair => TwinInv(Pair))
<1>1. TwoOf(Pair) /\ (fitted = Pair /\ Manned => Crew(Pair))
  <2>1. IsFiniteSet({2}) /\ Cardinality({2}) = 1
    BY FS_Singleton
  <2>2. Cardinality(Pair) = 2
    <3>1. 3 \notin {2} /\ {2} \cup {3} = Pair
      BY DEF Pair
    <3>2. Cardinality({2} \cup {3}) = Cardinality({2}) + 1
      BY <2>1, <3>1, FS_AddElement
    <3> QED
      BY <2>1, <3>1, <3>2
  <2> QED
    BY <2>2, KindAssumption DEF TwoOf, Crew
<1>2. FleetInit => Inv /\ Manned
  <2>1. FleetInit => Start /\ Manned
    BY DEF FleetInit, Start, ColdInit
  <2> QED
    BY <2>1, StartIInv, InitTwin
<1>3. Inv /\ Manned /\ [FleetNext]_<<fitted, vars>> => Manned'
  <2> SUFFICES ASSUME IInv, Manned, [FleetNext]_<<fitted, vars>>, fitted' = Pair,
                      NEW i \in Node, on'[i]
               PROVE  i \in Pair
    BY DEF Manned, Inv
  <2>1. fitted = Pair /\ (on[i] => i \in Pair)
    BY DEF FleetNext
  <2>2. CASE on' = on
    BY <2>1, <2>2
  <2>3. ASSUME NEW j \in fitted, NodeStep(j), on' # on PROVE i \in Pair
    <3>1. Crash(j) \/ Boot(j)
      BY <2>3 DEF NodeStep, Turn, Heartbeat, LinkUp, GotIp, Readiness, WireCut, WirePlug
    <3>2. i # j => on'[i] = on[i]
      BY <3>1 DEF Crash, Boot, IInv, TypeOK
    <3> QED
      BY <2>1, <2>3, <3>2
  <2> QED
    BY <2>2, <2>3 DEF FleetNext, Tick, vars
<1>4. Inv /\ Manned /\ [Next]_vars /\ fitted' = fitted => Inv'
  BY <1>1, NextIInv, NextRipe, NextTwin
<1>5. [FleetNext]_<<fitted, vars>> => fitted' = fitted
  BY DEF FleetNext
<1>6. Inv /\ fitted = Pair => NoTwinFaces
  BY TimeAssumption DEF IInv, TypeOK, TwinInv, NoTwinFaces
<1> HIDE DEF Manned, Inv
<1>7. FleetSpec => [](Inv /\ Manned)
  <2>1. FleetSpec => [][Next]_vars
    BY FleetRuns DEF Runs
  <2> QED
    BY <1>2, <1>3, <1>4, <1>5, <2>1, PTL DEF FleetSpec
<1> QED
  BY <1>6, <1>7, PTL

----------------------------------------------------------------------------
(* What the fleet takes for granted of a blade *)

Blade(i) == INSTANCE Identity WITH
  wearing <- node[i].wearing, live <- node[i].link, wire <- wire[i],
  address <- node[i].haveIp, downFor <- node[i].downFor, claimFor <- node[i].claimFor,
  leads <- (node[i].leader = i), watched <- turned[i]

\* A turn leaves no wearer whose wire is gone, and none whose claim is overdue.
SeenInv ==
  \A i \in Node : turned[i] /\ node[i].wearing =>
    ~LinkLost(node[i]) /\ (node[i].haveIp \/ node[i].claimFor <= CLAIM_TIMEOUT)

LEMMA ElectHasWire ==
  ASSUME NEW i \in Node, NEW n \in NodeState, ElectStep(i, n).wearing
  PROVE  ~LinkLost(ElectStep(i, n))
<1> DEFINE m   == LoseWire(n)
           now == ComputeLeader(i, m)
           e   == [m EXCEPT !.leader = now]
<1>1. SUFFICES ASSUME LinkLost(n) PROVE ~ElectStep(i, n).wearing
  BY ElectTurns, TurnsLost
<1>2. m \in NodeState /\ ~m.wearing /\ LinkLost(m)
  <2>1. m \in NodeState /\ LinkLost(m)
    BY <1>1, LoseWireTurns, TurnsLost
  <2>2. ~m.wearing
    <3>1. CASE n.wearing
      <4>1. Swap(n, FALSE) \in NodeState /\ ~Swap(n, FALSE).wearing
        BY SwapTyped
      <4>2. m = [Swap(n, FALSE) EXCEPT !.leader = NONE]
        BY <1>1, <3>1 DEF LoseWire
      <4> QED
        BY <4>1, <4>2 DEF NodeState
    <3>2. CASE ~n.wearing
      BY <3>2 DEF LoseWire
    <3> QED
      BY <3>1, <3>2
  <2> QED
    BY <2>1, <2>2
<1>3. now # i
  BY <1>2, ElectAnswers DEF SelfOk
<1> HIDE DEF m, now
<1>4. ~e.wearing
  BY <1>2 DEF NodeState
<1>5. ElectStep(i, n) = m \/ ElectStep(i, n) = SetLeader(e, FALSE)
  BY <1>3 DEF ElectStep, m, now
<1>6. SetLeader(e, FALSE) = e
  BY <1>2, <1>4 DEF SetLeader, NodeState
<1> QED
  BY <1>2, <1>4, <1>5, <1>6

LEMMA TickHasWire ==
  ASSUME NEW n \in NodeState, n.wearing => ~LinkLost(n), MaskTickStep(n).wearing
  PROVE  /\ ~LinkLost(MaskTickStep(n))
         /\ MaskTickStep(n).haveIp \/ MaskTickStep(n).claimFor <= CLAIM_TIMEOUT
<1>1. ~Swap(n, FALSE).wearing
  BY SwapTyped
<1>2. MaskTickStep(n) = n /\ n.wearing /\ (n.haveIp \/ ~(n.claimFor > CLAIM_TIMEOUT))
  BY <1>1 DEF MaskTickStep
<1> QED
  BY <1>2, TimeAssumption DEF NodeState

LEMMA NextSeen == IInv /\ SeenInv /\ [Next]_vars => SeenInv'
<1> SUFFICES ASSUME IInv, SeenInv, [Next]_vars PROVE SeenInv'
  OBVIOUS
<1>0. node \in [Node -> NodeState] /\ turned \in [Node -> BOOLEAN]
  BY DEF IInv, TypeOK
<1>1. ASSUME NEW k \in Node, Turn(k) PROVE SeenInv'
  <2> DEFINE e == ElectStep(k, node[k])
             f == [e EXCEPT !.ready = ~@]
  <2>1. e \in NodeState /\ (e.wearing => ~LinkLost(e))
    BY <1>0, ElectTurns, ElectHasWire
  <2>2. f \in NodeState /\ (f.wearing => ~LinkLost(f))
    BY <2>1 DEF NodeState, LinkLost
  <2>3. /\ node' = [node EXCEPT ![k] = MaskTickStep(e)] \/ node' = [node EXCEPT ![k] = MaskTickStep(f)]
        /\ turned' = [turned EXCEPT ![k] = TRUE]
    BY <1>1 DEF Turn
  <2> HIDE DEF e, f
  <2>4. node'[k].wearing =>
          ~LinkLost(node'[k]) /\ (node'[k].haveIp \/ node'[k].claimFor <= CLAIM_TIMEOUT)
    BY <1>0, <2>1, <2>2, <2>3, TickHasWire
  <2>5. \A i \in Node \ {k} : node'[i] = node[i] /\ turned'[i] = turned[i]
    BY <1>0, <2>3
  <2> QED
    BY <2>4, <2>5 DEF SeenInv
<1>2. ASSUME NEW k \in Node, Heartbeat(k) \/ WirePlug(k) \/ Boot(k) PROVE SeenInv'
  BY <1>2 DEF Heartbeat, WirePlug, Boot, sched, SeenInv
<1>3. ASSUME NEW k \in Node, LinkUp(k) PROVE SeenInv'
  <2>1. /\ node'[k] = LinkUpStep(node[k]) /\ turned' = turned
        /\ \A i \in Node \ {k} : node'[i] = node[i]
    BY <1>0, <1>3 DEF LinkUp, sched
  <2>2. node'[k].link /\ (node[k].wearing => node'[k].haveIp) /\ node'[k].wearing = node[k].wearing
    BY <1>0, <2>1, LinkUpFields
  <2> QED
    BY <2>1, <2>2 DEF SeenInv, LinkLost
<1>4. ASSUME NEW k \in Node, GotIp(k) \/ WireCut(k) \/ Readiness(k) \/ Crash(k) PROVE SeenInv'
  <2>1. \A i \in Node : ~turned'[i]
    BY <1>4 DEF GotIp, WireCut, Readiness, Crash, BetweenUnits, sched
  <2> QED
    BY <2>1 DEF SeenInv
<1>5. CASE Tick
  BY <1>5 DEF Tick, SeenInv
<1>6. CASE UNCHANGED vars
  BY <1>6 DEF vars, sched, SeenInv
<1> QED
  BY <1>1, <1>2, <1>3, <1>4, <1>5, <1>6 DEF Next, NodeStep

\* Every step of the fleet is a swap, a rise or a fall of one blade's face, or
\* leaves it alone.
LEMMA FaceMovesOnly ==
  ASSUME IInv, [Next]_vars, NEW i \in Node
  PROVE  [Blade(i)!Swap \/ Blade(i)!Rise \/ Blade(i)!Fall]_(Blade(i)!face)
<1> DEFINE n == node[i]
           m == node'[i]
<1>1. n \in NodeState /\ m \in NodeState /\ node \in [Node -> NodeState]
  BY NextIInv DEF IInv, TypeOK
<1>2. SUFFICES m.wearing = n.wearing \/ ~m.link
  BY <1>1 DEF NodeState, Blade!Swap, Blade!Rise, Blade!Fall, Blade!face
<1>3. CASE m = n
  BY <1>3
<1>4. CASE Tick
  BY <1>4, TickShape
<1>5. ASSUME NEW k \in Node, NodeStep(k), k # i PROVE m = n
  <2>1. CASE Turn(k)
    <3>1. node' = [node EXCEPT ![k] = node'[k]]
      BY <2>1, TurnTurns DEF IInv
    <3> QED
      BY <1>1, <1>5, <3>1
  <2>2. CASE ~Turn(k)
    BY <1>1, <1>5, <2>2 DEF NodeStep, Heartbeat, LinkUp, GotIp, Readiness, WireCut, WirePlug, Crash, Boot
  <2> QED
    BY <2>1, <2>2
<1>6. ASSUME NodeStep(i) PROVE m.wearing = n.wearing \/ ~m.link
  <2>1. CASE Turn(i)
    BY <2>1, TurnTurns DEF IInv, Turns, Same, Restart
  <2>2. CASE LinkUp(i)
    <3>1. m = LinkUpStep(n)
      BY <1>1, <2>2 DEF LinkUp
    <3> QED
      BY <1>1, <3>1, LinkUpTyped
  <2>3. CASE GotIp(i) \/ Readiness(i)
    BY <1>1, <2>3 DEF GotIp, Readiness, NodeState
  <2>4. CASE WireCut(i)
    <3>1. m = LinkDown(n)
      BY <1>1, <2>4 DEF WireCut
    <3> QED
      BY <1>1, <3>1, SwapTyped
  <2>5. CASE Heartbeat(i) \/ WirePlug(i) \/ Boot(i)
    BY <2>5 DEF Heartbeat, WirePlug, Boot
  <2>6. CASE Crash(i)
    <3>1. m = Booted(i)
      BY <1>1, <2>6 DEF Crash
    <3> QED
      BY <3>1 DEF Booted
  <2> QED
    BY <1>6, <2>1, <2>2, <2>3, <2>4, <2>5, <2>6 DEF NodeStep
<1> QED
  BY <1>3, <1>4, <1>5, <1>6 DEF Next, vars

LEMMA InitWhole == Start => SeenInv /\ \A i \in Node : node[i].wearing => node[i].link
<1>1. ASSUME Init \/ ColdInit PROVE \A i \in Node : ~node[i].wearing
  BY <1>1, PowerUp DEF Booted
<1>2. ASSUME SteadyInit PROVE \A i \in Node : (node[i].wearing => node[i].link) /\ ~turned[i]
  <2>1. PICK face \in Eligible \cap Real : node = [i \in Node |-> Steady(i, face)]
    BY <1>2 DEF SteadyInit
  <2>2. ASSUME NEW i \in Node PROVE Steady(i, face).wearing => Steady(i, face).link
    <3>1. CASE i \in Real
      BY <3>1 DEF Steady, Booted
    <3>2. CASE i \notin Real
      BY <3>2 DEF Steady, Booted
    <3> QED
      BY <3>1, <3>2
  <2> QED
    BY <1>2, <2>1, <2>2 DEF SteadyInit
<1> QED
  BY <1>1, <1>2 DEF Start, SeenInv

\* For any fleet and any timers: each of its blades changes its face only by
\* taking its link down, and is whole at every step.
THEOREM NodesWhole == ASSUME NEW i \in Node PROVE Runs => Blade(i)!Spec /\ []Blade(i)!Whole
<1> DEFINE I == IInv /\ NodeInv /\ SeenInv
<1>1. Start => I /\ (node[i].wearing => node[i].link)
  BY StartIInv, InitNode, InitWhole
<1>2. I /\ [Next]_vars => I' /\ [Blade(i)!Swap \/ Blade(i)!Rise \/ Blade(i)!Fall]_(Blade(i)!face)
  BY NextIInv, NextNode, NextSeen, FaceMovesOnly
<1>3. I => Blade(i)!Whole
  <2> SUFFICES ASSUME I PROVE Blade(i)!Whole
    OBVIOUS
  <2> DEFINE n == node[i]
  <2>1. /\ n \in NodeState /\ (~wire[i] => ~n.link) /\ (n.wearing /\ ~n.haveIp => ~n.link)
        /\ (~n.link /\ n.downFor = NEVER => ~n.haveIp) /\ (n.wearing => n.leader = i)
        /\ wire[i] \in BOOLEAN
    BY NodeInvAt DEF IInv, TypeOK
  <2>2. n.downFor = NEVER \/ (n.downFor \in Nat)
    BY <2>1, TimeAssumption DEF NodeState
  <2>3. turned[i] /\ n.wearing => ~LinkLost(n) /\ (n.haveIp \/ n.claimFor <= CLAIM_TIMEOUT)
    BY DEF SeenInv
  <2>4. ~LinkLost(n) => n.link \/ n.downFor <= LINK_GRACE
    BY <2>2, TimeAssumption DEF LinkLost, NEVER
  <2> QED
    BY <2>1, <2>2, <2>3, <2>4 DEF Blade!Whole
<1> QED
  BY FleetRuns, <1>1, <1>2, <1>3, PTL DEF Blade!Spec
=============================================================================
