---------------------------- MODULE Blade_proofs ----------------------------
(***************************************************************************)
(* What holds of the parts of one blade for all times and bounds: when the *)
(* watchdog of the tcpip thread aborts, what a power cut takes from the    *)
(* click ledger, how far flash is behind the book of reigns, which address *)
(* goes with the MAC and for how long a wearer can be without it, and what *)
(* a blade tells of its refusals.  With the recorder, whose proofs are in  *)
(* BlackBox_proofs, these are the parts that share a run.                  *)
(***************************************************************************)
EXTENDS MCBlade, BlackBox_proofs, FiniteSetTheorems, TLAPS

----------------------------------------------------------------------------
(* The watchdog *)

BeatFlags ==
  /\ linkLost \in BOOLEAN /\ hung \in BOOLEAN /\ posted \in BOOLEAN
  /\ beaten \in BOOLEAN /\ aborted \in BOOLEAN

\* The count is as long as the heartbeats watched since the last beat, less the
\* one that may have taken that beat; a beat not yet seen has none behind it.
BeatCounts ==
  /\ upFor \in 0..SETTLE + 1 /\ stall \in 0..STALLS
  /\ idle \in 0..IDLE_CAP /\ watched \in 0..idle
  /\ aborted => stall = STALLS
  /\ stall = STALLS => aborted
  /\ beaten => watched = 0 /\ ~aborted
  /\ ~beaten => stall <= watched /\ watched <= stall + 1

BeatInv == BeatFlags /\ BeatCounts

LEMMA BeatStarts == BeatInit => BeatInv
<1>1. BeatInit => BeatFlags BY DEF BeatInit, BeatFlags
<1>2. BeatInit => BeatCounts BY BeatAssumption DEF BeatInit, BeatCounts
<1> QED BY <1>1, <1>2 DEF BeatInv

LEMMA BeatKept == BeatInv /\ [BeatNext]_beatVars => BeatInv'
<1> SUFFICES ASSUME BeatInv, [BeatNext]_beatVars PROVE BeatInv'
  OBVIOUS
<1> USE BeatAssumption DEF BeatInv
<1>1. CASE Heartbeat
  <2>1. aborted' \in BOOLEAN /\ beaten' \in BOOLEAN
    <3>1. \/ beaten' = beaten /\ aborted' = aborted
          \/ beaten' = FALSE /\ aborted' = aborted
          \/ beaten' = beaten /\ aborted' = (stall' >= STALLS)
      BY <1>1, Zenon DEF Heartbeat, Watchdog
    <3>2. (stall' >= STALLS) \in BOOLEAN
      OBVIOUS
    <3> QED BY <3>1, <3>2, Zenon DEF BeatFlags
  <2>2. linkLost' = linkLost /\ hung' = hung /\ posted' = TRUE
    BY <1>1 DEF Heartbeat
  <2>3. BeatFlags'
    BY <2>1, <2>2 DEF BeatFlags
  <2>4. upFor' \in 0..SETTLE + 1
    BY <1>1 DEF Heartbeat, BeatCounts
  <2>5. /\ stall \in 0..STALLS /\ idle \in 0..IDLE_CAP /\ watched \in 0..idle
        /\ ~aborted /\ stall # STALLS
    BY <1>1 DEF Heartbeat, BeatCounts
  <2>6. CASE ~Armed
    <3>1. /\ beaten' = beaten /\ stall' = stall /\ aborted' = aborted
          /\ watched' = watched /\ idle' \in 0..IDLE_CAP /\ idle' >= idle
      BY <1>1, <2>5, <2>6 DEF Heartbeat, Watchdog, Up
    <3> QED BY <2>3, <2>4, <2>5, <3>1 DEF BeatCounts
  <2>7. CASE Armed /\ beaten
    <3>1. ~beaten' /\ stall' = 0 /\ aborted' = aborted
      BY <1>1, <2>7 DEF Heartbeat, Watchdog
    <3>2. watched' = 1 /\ idle' \in 1..IDLE_CAP
      BY <1>1, <2>5, <2>7 DEF Heartbeat, Up, BeatCounts
    <3> QED BY <2>3, <2>4, <2>5, <3>1, <3>2 DEF BeatCounts
  <2>8. CASE Armed /\ ~beaten
    <3>1. ~beaten' /\ stall' = stall + 1 /\ (aborted' <=> stall' >= STALLS)
      BY <1>1, <2>8 DEF Heartbeat, Watchdog
    <3>2. /\ watched' = watched + 1 /\ idle' \in 0..IDLE_CAP /\ watched' <= idle'
          /\ stall <= watched /\ watched <= stall + 1
      BY <1>1, <2>5, <2>8 DEF Heartbeat, Up, BeatCounts
    <3> QED BY <2>3, <2>4, <2>5, <3>1, <3>2 DEF BeatCounts
  <2> QED BY <2>6, <2>7, <2>8
<1>2. CASE Callback
  <2>1. BeatFlags' BY <1>2 DEF Callback, BeatFlags
  <2>2. BeatCounts' BY <1>2 DEF Callback, BeatCounts
  <2> QED BY <2>1, <2>2
<1>3. CASE Hang
  <2>1. BeatFlags' BY <1>3 DEF Hang, BeatFlags
  <2>2. BeatCounts' BY <1>3 DEF Hang, BeatCounts
  <2> QED BY <2>1, <2>2
<1>4. CASE LinkTurns
  <2>1. BeatFlags' BY <1>4 DEF LinkTurns, BeatFlags
  <2>2. BeatCounts' BY <1>4 DEF LinkTurns, BeatCounts
  <2> QED BY <2>1, <2>2
<1>5. CASE Rebooted
  <2>1. BeatFlags' BY <1>5 DEF Rebooted, BeatFlags
  <2>2. BeatCounts' BY <1>5 DEF Rebooted, BeatCounts
  <2> QED BY <2>1, <2>2
<1>6. CASE UNCHANGED beatVars
  BY <1>6 DEF beatVars, BeatFlags, BeatCounts
<1> QED BY <1>1, <1>2, <1>3, <1>4, <1>5, <1>6 DEF BeatNext

\* The watchdog of swarm_hb_tx_task keeps to its types.
THEOREM BeatTyped == BeatSpec => []BeatTypeOK
<1>1. BeatInv => BeatTypeOK BY DEF BeatInv, BeatFlags, BeatCounts, BeatTypeOK
<1> QED BY <1>1, BeatStarts, BeatKept, PTL DEF BeatSpec

\* For any count and any settling: the watchdog of swarm_hb_tx_task aborts no
\* blade whose tcpip thread has run lately, and every armed one whose thread
\* has not, however its wire comes and goes.
THEOREM Watched == BeatSpec => []WatchdogSound
<1>1. BeatInv => WatchdogSound
  BY BeatAssumption DEF BeatInv, BeatCounts, WatchdogSound, NoFalseAbort, HangEnds
<1> QED BY <1>1, BeatStarts, BeatKept, PTL DEF BeatSpec

----------------------------------------------------------------------------
(* The click ledger *)

\* No click that flash does not know is older than the stamp of the last write.
ClickInv == ClicksTypeOK /\ unkept <= sinceKept

LEMMA ClicksStart == ClicksInit => ClickInv
BY ClicksAssumption DEF ClicksInit, ClickInv, ClicksTypeOK, NONE_UNKEPT

LEMMA ClicksKept == ClickInv /\ [ClicksNext]_clickVars => ClickInv'
<1> SUFFICES ASSUME ClickInv, [ClicksNext]_clickVars PROVE ClickInv'
  OBVIOUS
<1> USE ClicksAssumption DEF ClickInv, ClicksTypeOK, NONE_UNKEPT
<1>1. CASE Click
  <2>1. CASE nvsOpen /\ sinceKept > MINUTE
    BY <1>1, <2>1 DEF Click
  <2>2. CASE ~(nvsOpen /\ sinceKept > MINUTE)
    BY <1>1, <2>2 DEF Click
  <2> QED BY <2>1, <2>2
<1>2. CASE ClickTime
  BY <1>2 DEF ClickTime, Later
<1>3. CASE ClickBoot
  BY <1>3 DEF ClickBoot
<1>4. CASE UNCHANGED clickVars
  BY <1>4 DEF clickVars
<1> QED BY <1>1, <1>2, <1>3, <1>4 DEF ClicksNext

\* The click counters of serve.c keep to their types.
THEOREM ClicksTyped == ClicksSpec => []ClicksTypeOK
<1>1. ClickInv => ClicksTypeOK BY DEF ClickInv
<1> QED BY <1>1, ClicksStart, ClicksKept, PTL DEF ClicksSpec

\* For any minute and any width of the counter: a click that comes when flash has
\* been behind for more than a minute is written, so a cut forfeits no more.
THEOREM MinuteForfeit == ClicksSpec => ClicksForfeit
<1> DEFINE Written == nvsOpen /\ unkept > MINUTE /\ clicks' > clicks => kept' = clicks'
<1>1. ClickInv /\ [ClicksNext]_clickVars => [Written]_clickVars
  <2> SUFFICES ASSUME ClickInv, [ClicksNext]_clickVars PROVE [Written]_clickVars
    OBVIOUS
  <2> USE ClicksAssumption DEF ClickInv, ClicksTypeOK, NONE_UNKEPT
  <2>1. CASE Click
    BY <2>1 DEF Click
  <2>2. CASE ClickTime
    BY <2>2 DEF ClickTime
  <2>3. CASE ClickBoot
    BY <2>3 DEF ClickBoot
  <2>4. CASE UNCHANGED clickVars
    BY <2>4
  <2> QED BY <2>1, <2>2, <2>3, <2>4 DEF ClicksNext
<1> HIDE DEF Written
<1>2. ClicksSpec => [][Written]_clickVars
  BY <1>1, ClicksStart, ClicksKept, PTL DEF ClicksSpec
<1> QED BY <1>2 DEF ClicksForfeit, Written

----------------------------------------------------------------------------
(* The mask and its book of reigns *)

Event == ({"up", "down"} \X {NOADDR}) \cup ({"ip"} \X {OWN, VMAC})
MaskPart == mask \in MaskState
NetPart == netif \in [mac : {OWN, VMAC}, addr : Addr, dhcp : BOOLEAN]
EventPart == events \in Seq(Event)
HandlerPart ==
  /\ handler \in [at : {"rest", "branch", "apply", "done", "lease"}, addr : Addr]
  /\ handler.at = "apply" => handler.addr # NOADDR
IdentityParts == MaskPart /\ NetPart /\ EventPart /\ HandlerPart

LEMMA FirstEvent == ASSUME EventPart, events # <<>> PROVE events[1] \in Event /\ Tail(events) \in Seq(Event)
BY DEF EventPart

LEMMA EventAddr == ASSUME NEW e \in Event PROVE e[2] \in Addr /\ (e[1] = "ip" => e[2] \in {OWN, VMAC})
BY DEF Event, Addr, NOADDR, OWN, VMAC

LEMMA MaskKept == IdentityParts /\ [MaskNext]_maskVars => MaskPart'
<1> SUFFICES ASSUME IdentityParts, [MaskNext]_maskVars PROVE MaskPart'
  OBVIOUS
<1>0. LINK_GRACE \in Nat /\ CLAIM_TIMEOUT \in Nat /\ DHCP_RETRY \in Nat BY MaskTimesAssumption
<1>a. mask \in MaskState BY DEF IdentityParts, MaskPart
<1> USE <1>0, <1>a DEF MaskPart, MaskState
<1>1. CASE MonWatch
  BY <1>1 DEF MonWatch
<1>3. CASE MonClaim
  <2>1. mask' = mask \/ mask' = [mask EXCEPT !.wearing = TRUE, !.claimFor = 0]
    BY <1>3, Zenon DEF MonClaim
  <2>2. 0 \in 0..CLAIM_TIMEOUT + 1
    OBVIOUS
  <2> QED BY <2>1, <2>2
<1>4. CASE MonDrop
  BY <1>4 DEF MonDrop
<1>6. CASE SwapMac
  BY <1>6 DEF SwapMac
<1>8. CASE MonTick
  <2>1. CASE mask' = mask
    BY <2>1
  <2>2. CASE mask' # mask
    <3> DEFINE worn == mask.wearing /\ ~ClaimOverdue
               wait == IF ~Discovering THEN NEVER
                       ELSE IF mask.dhcpFor = NEVER \/ RetryDue THEN 0 ELSE mask.dhcpFor
    <3>1. mask' = [mask EXCEPT !.wearing = worn, !.dhcpFor = wait]
      BY <1>8, <2>2 DEF MonTick
    <3>2. worn \in BOOLEAN
      BY Zenon
    <3>3. wait \in {NEVER} \cup 0..DHCP_RETRY + 1
      OBVIOUS
    <3> HIDE DEF worn, wait
    <3> QED BY <3>1, <3>2, <3>3
  <2> QED BY <2>1, <2>2
<1>10. CASE HandleUp
  BY <1>10 DEF HandleUp
<1>12. CASE HandleApply
  BY <1>12 DEF HandleApply, IdentityParts, HandlerPart
<1>13. CASE HandleDone
  BY <1>13 DEF HandleDone
<1>14. CASE HandleDown
  <2> DEFINE gone == IF mask.linkUp THEN 0 ELSE mask.downFor
  <2>1. mask' = [mask EXCEPT !.linkUp = FALSE, !.curIp = NOADDR, !.downFor = gone]
    BY <1>14 DEF HandleDown
  <2>2. gone \in {NEVER} \cup 0..LINK_GRACE + 1 /\ NOADDR \in Addr
    BY DEF Addr
  <2> HIDE DEF gone
  <2> QED BY <2>1, <2>2
<1>15. CASE HandleIp
  BY <1>15, FirstEvent, EventAddr DEF HandleIp, Head1, IdentityParts
<1>16. CASE HandleLease
  BY <1>16 DEF HandleLease, IdentityParts, NetPart
<1>24. CASE Reboot
  BY <1>24 DEF Reboot, BootWith, BootMask, Addr
<1>25. CASE MaskTime
  <2> DEFINE gone == AgedMark(mask.downFor, LINK_GRACE + 1)
             held == IF mask.wearing THEN Aged(mask.claimFor, CLAIM_TIMEOUT + 1) ELSE 0
             wait == AgedMark(mask.dhcpFor, DHCP_RETRY + 1)
  <2>1. mask' = [mask EXCEPT !.downFor = gone, !.claimFor = held, !.dhcpFor = wait]
    BY <1>25 DEF MaskTime
  <2>2. gone \in {NEVER} \cup 0..LINK_GRACE + 1
    BY DEF Aged, AgedMark, NEVER
  <2>3. held \in 0..CLAIM_TIMEOUT + 1
    BY DEF Aged
  <2>4. wait \in {NEVER} \cup 0..DHCP_RETRY + 1
    BY DEF Aged, AgedMark, NEVER
  <2> HIDE DEF gone, held, wait
  <2> QED BY <2>1, <2>2, <2>3, <2>4
<1>26. CASE mask' = mask
  BY <1>26
<1> QED BY <1>1, <1>3, <1>4, <1>6, <1>8, <1>10, <1>12, <1>13, <1>14, <1>15, <1>16, <1>24, <1>25, <1>26
  DEF MaskNext, MonitorTask, EventTask, maskVars, MonElect, SwapStop, SwapStart, MonSave, HandleBranch, WipeCount, WipeDone, PhyUp, Unplug, Plug, Lease, Serves

LEMMA NetKept == IdentityParts /\ [MaskNext]_maskVars => NetPart'
<1> SUFFICES ASSUME IdentityParts, [MaskNext]_maskVars PROVE NetPart'
  OBVIOUS
<1>a. netif \in [mac : {OWN, VMAC}, addr : Addr, dhcp : BOOLEAN]
  BY DEF IdentityParts, NetPart
<1>b. NOADDR \in Addr /\ OWN \in Addr /\ VMAC \in Addr
  BY DEF Addr
<1> USE <1>a, <1>b DEF NetPart
<1>1. CASE SwapMac
  BY <1>1 DEF SwapMac
<1>2. CASE MonTick
  <2>1. netif' = netif \/ netif' = [netif EXCEPT !.dhcp = TRUE, !.addr = NOADDR]
    BY <1>2, Zenon DEF MonTick
  <2> QED BY <2>1
<1>3. CASE HandleBranch
  <2>1. netif' = netif \/ netif' = [netif EXCEPT !.dhcp = TRUE, !.addr = NOADDR]
    BY <1>3, Zenon DEF HandleBranch
  <2> QED BY <2>1
<1>4. CASE HandleApply
  BY <1>4 DEF HandleApply, IdentityParts, HandlerPart
<1>5. CASE HandleDown
  BY <1>5 DEF HandleDown
<1>6. CASE Lease
  BY <1>6 DEF Lease
<1>7. CASE Reboot
  BY <1>7 DEF Reboot, BootWith
<1>8. CASE netif' = netif
  BY <1>8
<1> QED BY <1>1, <1>2, <1>3, <1>4, <1>5, <1>6, <1>7, <1>8
  DEF MaskNext, MonitorTask, EventTask, maskVars, MonWatch, MonElect, MonClaim, MonDrop,
      SwapStop, SwapStart, MonSave, HandleUp, HandleDone, HandleIp, HandleLease,
      WipeCount, WipeDone, PhyUp, Unplug, Plug, Serves, MaskTime

LEMMA HandlerKept == IdentityParts /\ [MaskNext]_maskVars => HandlerPart'
<1> SUFFICES ASSUME IdentityParts, [MaskNext]_maskVars PROVE HandlerPart'
  OBVIOUS
<1>a. handler \in [at : {"rest", "branch", "apply", "done", "lease"}, addr : Addr]
  BY DEF IdentityParts, HandlerPart
<1>b. /\ NOADDR \in Addr /\ OWN \in Addr /\ VMAC \in Addr
      /\ NOADDR # VMAC /\ (handler.at = "apply" => handler.addr # NOADDR)
  BY DEF Addr, NOADDR, OWN, VMAC, IdentityParts, HandlerPart
<1> USE <1>a, <1>b DEF HandlerPart, Idle
<1>1. CASE HandleUp
  BY <1>1 DEF HandleUp
<1>2. CASE HandleBranch
  BY <1>2 DEF HandleBranch, IdentityParts, MaskPart, MaskState
<1>3. CASE HandleApply
  BY <1>3 DEF HandleApply
<1>4. CASE HandleDone \/ HandleLease \/ Reboot
  BY <1>4 DEF HandleDone, HandleLease, Reboot, BootWith
<1>5. CASE HandleIp
  BY <1>5 DEF HandleIp
<1>6. CASE handler' = handler
  BY <1>6
<1> QED BY <1>1, <1>2, <1>3, <1>4, <1>5, <1>6
  DEF MaskNext, MonitorTask, EventTask, maskVars, MonWatch, MonElect, MonClaim, MonDrop,
      SwapStop, SwapMac, SwapStart, MonTick, MonSave, HandleDown,
      WipeCount, WipeDone, PhyUp, Unplug, Plug, Lease, Serves, MaskTime

LEMMA EventKept == IdentityParts /\ [MaskNext]_maskVars => EventPart'
<1> SUFFICES ASSUME IdentityParts, [MaskNext]_maskVars PROVE EventPart'
  OBVIOUS
<1>a. events \in Seq(Event)
  BY DEF IdentityParts, EventPart
<1>b. /\ <<"up", NOADDR>> \in Event /\ <<"down", NOADDR>> \in Event
      /\ <<"ip", OWN>> \in Event /\ <<"ip", VMAC>> \in Event
  BY DEF Event
<1>c. ASSUME NEW e \in Event, events' = Append(events, e) PROVE EventPart'
  BY <1>a, <1>c DEF EventPart
<1>d. ASSUME events # <<>>, events' = Tail(events) PROVE EventPart'
  BY <1>a, <1>d DEF EventPart
<1>1. CASE SwapStop
  BY <1>1, <1>a, <1>b, <1>c DEF SwapStop, Post, EventPart
<1>2. CASE HandleUp \/ HandleDown \/ HandleIp
  BY <1>2, <1>d DEF HandleUp, HandleDown, HandleIp, Head1
<1>3. CASE HandleApply
  <2>1. <<"ip", handler.addr>> \in Event
    BY <1>3 DEF HandleApply, IdentityParts, HandlerPart, Event, Addr
  <2> QED BY <1>3, <2>1, <1>c DEF HandleApply, Post
<1>4. CASE PhyUp
  BY <1>4, <1>b, <1>c DEF PhyUp, Post
<1>5. CASE Unplug
  BY <1>5, <1>a, <1>b, <1>c DEF Unplug, Post, EventPart
<1>6. CASE Lease
  BY <1>6, <1>b, <1>c DEF Lease, Post
<1>7. CASE Reboot
  BY <1>7 DEF Reboot, BootWith, EventPart
<1>8. CASE events' = events
  BY <1>8, <1>a DEF EventPart
<1> QED BY <1>1, <1>2, <1>3, <1>4, <1>5, <1>6, <1>7, <1>8
  DEF MaskNext, MonitorTask, EventTask, maskVars, MonWatch, MonElect, MonClaim, MonDrop,
      SwapMac, SwapStart, MonTick, MonSave, HandleBranch, HandleDone, HandleLease,
      WipeCount, WipeDone, Plug, Serves, MaskTime

LinkPart ==
  /\ phy \in {"stopped", "down", "up"} /\ wipe \in {"idle", "marking"}
  /\ wire \in BOOLEAN /\ able \in BOOLEAN /\ acted \in BOOLEAN /\ crossed \in BOOLEAN

LEMMA LinkKept == LinkPart /\ [MaskNext]_maskVars => LinkPart'
<1> SUFFICES ASSUME LinkPart, [MaskNext]_maskVars PROVE LinkPart'
  OBVIOUS
<1> USE DEF LinkPart, link, outside, mvars
<1>1. CASE MonWatch \/ MonClaim \/ MonDrop \/ SwapStop \/ SwapMac \/ SwapStart
  BY <1>1 DEF MonWatch, MonClaim, MonDrop, SwapStop, SwapMac, SwapStart
<1>2. CASE MonElect
  <2>1. UNCHANGED <<phy, wipe, wire, able, acted>>
    BY <1>2 DEF MonElect
  <2>2. crossed' = crossed \/ crossed' = (crossed \/ wipe # "idle")
    BY <1>2, Zenon DEF MonElect, NewAnswer
  <2>3. crossed' \in BOOLEAN
    BY <2>2, Zenon
  <2> QED BY <2>1, <2>3
<1>3. CASE MonTick \/ MonSave
  BY <1>3 DEF MonTick, MonSave
<1>4. CASE EventTask
  BY <1>4 DEF EventTask, HandleUp, HandleBranch, HandleApply, HandleDone, HandleDown, HandleIp, HandleLease
<1>5. CASE WipeCount
  <2>1. /\ UNCHANGED <<phy, wire, able, acted>> /\ wipe' = "marking"
        /\ crossed' \in {TRUE, FALSE}
    BY <1>5 DEF WipeCount
  <2> QED BY <2>1
<1>6. CASE WipeDone
  BY <1>6 DEF WipeDone
<1>7. CASE PhyUp \/ Lease
  BY <1>7 DEF PhyUp, Lease
<1>8. CASE Unplug \/ Plug
  BY <1>8 DEF Unplug, Plug
<1>9. CASE Serves
  BY <1>9, Zenon DEF Serves
<1>10. CASE Reboot
  BY <1>10, Zenon DEF Reboot, BootWith
<1>11. CASE MaskTime
  BY <1>11 DEF MaskTime
<1>12. CASE UNCHANGED maskVars
  BY <1>12 DEF maskVars
<1> QED BY <1>1, <1>2, <1>3, <1>4, <1>5, <1>6, <1>7, <1>8, <1>9, <1>10, <1>11, <1>12
  DEF MaskNext, MonitorTask

RelinkPart == relink \in 0..RELINK

LEMMA RelinkKept == RelinkPart /\ [MaskNext]_maskVars => RelinkPart'
<1> SUFFICES ASSUME RelinkPart, [MaskNext]_maskVars PROVE RelinkPart'
  OBVIOUS
<1> USE MaskTimesAssumption DEF RelinkPart, link
<1>1. CASE SwapStart \/ Unplug \/ Reboot
  BY <1>1 DEF SwapStart, Unplug, Reboot, BootWith
<1>2. CASE MaskTime
  BY <1>2 DEF MaskTime
<1>3. CASE relink' = relink
  BY <1>3
<1> QED BY <1>1, <1>2, <1>3
  DEF MaskNext, MonitorTask, EventTask, maskVars, MonWatch, MonElect, MonClaim, MonDrop,
      SwapStop, SwapMac, MonTick, MonSave, HandleUp, HandleBranch, HandleApply,
      HandleDone, HandleDown, HandleIp, HandleLease, WipeCount, WipeDone,
      PhyUp, Plug, Lease, Serves

StrandPart == stranded \in 0..CLAIM_TIMEOUT + LINK_GRACE + 3

LEMMA StrandKept == StrandPart /\ [MaskNext]_maskVars => StrandPart'
<1> SUFFICES ASSUME StrandPart, [MaskNext]_maskVars PROVE StrandPart'
  OBVIOUS
<1> USE MaskTimesAssumption DEF StrandPart, mvars
<1>1. CASE MonClaim
  BY <1>1 DEF MonClaim
<1>2. CASE HandleApply \/ PhyUp
  BY <1>2 DEF HandleApply, PhyUp, Recount
<1>3. CASE Reboot
  BY <1>3 DEF Reboot, BootWith
<1>4. CASE MaskTime
  BY <1>4 DEF MaskTime, Aged
<1>5. CASE stranded' = stranded
  BY <1>5
<1> QED BY <1>1, <1>2, <1>3, <1>4, <1>5
  DEF MaskNext, MonitorTask, EventTask, maskVars, MonWatch, MonElect, MonDrop,
      SwapStop, SwapMac, SwapStart, MonTick, MonSave, HandleUp, HandleBranch,
      HandleDone, HandleDown, HandleIp, HandleLease, WipeCount, WipeDone,
      Unplug, Plug, Lease, Serves

MonitorPart ==
  /\ monitor \in [at : {"rest", "elect", "claim", "drop", "stop", "mac", "start", "tick", "save"},
                  then : {"rest", "elect", "tick", "save"}]
  /\ monitor.at \in {"drop", "stop", "mac", "start"} => monitor.then # "rest"

LEMMA MonitorKept == MonitorPart /\ [MaskNext]_maskVars => MonitorPart'
<1> SUFFICES ASSUME MonitorPart, [MaskNext]_maskVars PROVE MonitorPart'
  OBVIOUS
<1> USE DEF MonitorPart, GoOn, SwapThen
<1>1. CASE MonWatch
  BY <1>1 DEF MonWatch
<1>2. CASE MonElect
  <2>1. \/ GoOn("tick") \/ GoOn("claim")
        \/ monitor' = [at |-> IF mask.wearing THEN "drop" ELSE "tick", then |-> "tick"]
    BY <1>2, Zenon DEF MonElect, NewAnswer
  <2> QED BY <2>1
<1>3. CASE MonClaim \/ MonDrop
  BY <1>3 DEF MonClaim, MonDrop
<1>4. CASE SwapStop \/ SwapMac \/ SwapStart
  BY <1>4 DEF SwapStop, SwapMac, SwapStart
<1>5. CASE MonTick
  BY <1>5 DEF MonTick
<1>6. CASE MonSave \/ Reboot
  BY <1>6 DEF MonSave, Reboot, BootWith, AtRest
<1>7. CASE monitor' = monitor
  BY <1>7
<1> QED BY <1>1, <1>2, <1>3, <1>4, <1>5, <1>6, <1>7
  DEF MaskNext, MonitorTask, EventTask, maskVars, HandleUp, HandleBranch, HandleApply,
      HandleDone, HandleDown, HandleIp, HandleLease, WipeCount, WipeDone,
      PhyUp, Unplug, Plug, Lease, Serves, MaskTime

BookPart ==
  book \in [leader : {"me", "other", "none"}, reigns : 0..MAX_REIGNS, dirty : BOOLEAN,
            since : 0..SAVE + 1, flash : 0..MAX_REIGNS]

OwedPart == owed \in {NEVER} \cup 0..SAVE + 2

LEMMA BookKept == BookPart /\ MonitorPart /\ [MaskNext]_maskVars => BookPart'
<1> SUFFICES ASSUME BookPart, MonitorPart, [MaskNext]_maskVars PROVE BookPart'
  OBVIOUS
<1>a. SAVE \in Nat /\ MAX_REIGNS \in Nat \ {0}
  BY MaskTimesAssumption, MaskBoundAssumption
<1> USE <1>a DEF BookPart
<1>1. CASE MonWatch
  BY <1>1 DEF MonWatch
<1>2. CASE MonElect
  <2>1. CASE book' = book
    BY <2>1
  <2>2. CASE \E who \in Answers \ {book.leader} : NewAnswer(who)
    <3>1. PICK who \in Answers : NewAnswer(who)
      BY <2>2
    <3>2. who \in {"me", "other", "none"}
      BY DEF Answers
    <3>3. Reigns(book.reigns) \in 0..MAX_REIGNS
      BY DEF Reigns
    <3> QED BY <3>1, <3>2, <3>3 DEF NewAnswer
  <2> QED BY <1>2, <2>1, <2>2 DEF MonElect
<1>3. CASE MonSave
  <2>1. \/ book' = book
        \/ book' = [book EXCEPT !.flash = book.reigns, !.dirty = FALSE, !.since = 0]
    BY <1>3, Zenon DEF MonSave
  <2>2. 0 \in 0..SAVE + 1
    OBVIOUS
  <2> QED BY <2>1, <2>2
<1>4. CASE WipeCount
  <2>1. PICK n \in {0, 1} : book' = [book EXCEPT !.reigns = n, !.flash = n]
    BY <1>4 DEF WipeCount
  <2>2. n \in 0..MAX_REIGNS
    OBVIOUS
  <2> QED BY <2>1, <2>2
<1>5. CASE WipeDone
  BY <1>5 DEF WipeDone
<1>6. CASE Reboot
  BY <1>6 DEF Reboot, BootWith
<1>7. CASE MaskTime
  <2> DEFINE older == Aged(book.since, SAVE + 1)
  <2>1. book' = [book EXCEPT !.since = older]
    BY <1>7 DEF MaskTime
  <2>2. older \in 0..SAVE + 1
    BY DEF Aged
  <2> HIDE DEF older
  <2> QED BY <2>1, <2>2
<1>8. CASE book' = book
  BY <1>8
<1> QED BY <1>1, <1>2, <1>3, <1>4, <1>5, <1>6, <1>7, <1>8
  DEF MaskNext, MonitorTask, EventTask, maskVars, MonClaim, MonDrop,
      SwapStop, SwapMac, SwapStart, MonTick, HandleUp, HandleBranch, HandleApply,
      HandleDone, HandleDown, HandleIp, HandleLease, PhyUp, Unplug, Plug, Lease, Serves

LEMMA OwedKept == OwedPart /\ [MaskNext]_maskVars => OwedPart'
<1> SUFFICES ASSUME OwedPart, [MaskNext]_maskVars PROVE OwedPart'
  OBVIOUS
<1> USE MaskTimesAssumption DEF OwedPart, NEVER, mvars
<1>1. CASE MonElect
  <2>1. owed' = owed \/ owed' = (IF owed = -1 THEN 0 ELSE owed)
    BY <1>1, Zenon DEF MonElect, NewAnswer
  <2> QED BY <2>1
<1>2. CASE MonSave \/ WipeCount \/ Reboot
  BY <1>2 DEF MonSave, WipeCount, Reboot, BootWith
<1>3. CASE MaskTime
  BY <1>3 DEF MaskTime, AgedMark, Aged
<1>4. CASE owed' = owed
  BY <1>4
<1> QED BY <1>1, <1>2, <1>3, <1>4
  DEF MaskNext, MonitorTask, EventTask, maskVars, MonWatch, MonClaim, MonDrop,
      SwapStop, SwapMac, SwapStart, MonTick, HandleUp, HandleBranch, HandleApply,
      HandleDone, HandleDown, HandleIp, HandleLease, WipeDone,
      PhyUp, Unplug, Plug, Lease, Serves

\* The parts of the type, with what the handlers and the swap hold in addition.
MaskParts ==
  /\ IdentityParts /\ LinkPart /\ RelinkPart /\ MonitorPart /\ StrandPart /\ BookPart /\ OwedPart

LEMMA MaskPartsType == MaskParts => MaskTypeOK
<1> SUFFICES ASSUME MaskParts PROVE MaskTypeOK
  OBVIOUS
<1>1. \A k \in 1..Len(events) : events[k] \in ({"up", "down"} \X {NOADDR}) \cup ({"ip"} \X {OWN, VMAC})
  <2>1. events \in Seq(Event)
    BY DEF MaskParts, IdentityParts, EventPart
  <2>2. \A k \in 1..Len(events) : events[k] \in Event
    BY <2>1
  <2> QED BY <2>2 DEF Event
<1> QED BY <1>1, Zenon DEF MaskTypeOK, MaskParts, IdentityParts, MaskPart, NetPart, HandlerPart, LinkPart,
       RelinkPart, MonitorPart, StrandPart, BookPart, OwedPart

LEMMA MaskPartsStart == MaskInit => MaskParts
<1> SUFFICES ASSUME MaskInit PROVE MaskParts
  OBVIOUS
<1> USE MaskTimesAssumption, MaskBoundAssumption DEF MaskInit
<1>1. MaskPart BY DEF MaskPart, MaskState, BootMask, Addr
<1>2. NetPart BY DEF NetPart, Addr
<1>3. EventPart BY DEF EventPart
<1>4. HandlerPart BY DEF HandlerPart, Idle, Addr
<1>5. LinkPart BY DEF LinkPart
<1>6. RelinkPart BY DEF RelinkPart
<1>7. MonitorPart BY DEF MonitorPart, AtRest
<1>8. StrandPart BY DEF StrandPart
<1>9. BookPart BY DEF BookPart
<1>10. OwedPart BY DEF OwedPart
<1> QED BY <1>1, <1>2, <1>3, <1>4, <1>5, <1>6, <1>7, <1>8, <1>9, <1>10 DEF MaskParts, IdentityParts

LEMMA MaskPartsKept == MaskParts /\ [MaskNext]_maskVars => MaskParts'
BY MaskKept, NetKept, EventKept, HandlerKept, LinkKept, RelinkKept, MonitorKept, StrandKept,
   BookKept, OwedKept
DEF MaskParts, IdentityParts

\* While no wipe has crossed an election: a reign that flash does not know keeps
\* the book open, no wipe is half way through it, and it is no older than the
\* last write; a turn of the monitor leaves no open book that is a minute old;
\* and a claim is counted before the mask is put on.
ReignInv ==
  ~crossed =>
    /\ owed # NEVER => book.dirty /\ wipe = "idle" /\ owed <= book.since
    /\ book.flash # book.reigns => owed # NEVER
    /\ monitor.at = "rest" /\ acted /\ book.dirty => book.since <= SAVE
    /\ mask.wearing \/ monitor.at = "claim" => book.reigns > 0

LEMMA ReignKept == MaskParts /\ ReignInv /\ [MaskNext]_maskVars => ReignInv'
<1> SUFFICES ASSUME MaskParts, ReignInv, [MaskNext]_maskVars PROVE ReignInv'
  OBVIOUS
<1>a. SAVE \in Nat /\ MAX_REIGNS \in Nat \ {0}
  BY MaskTimesAssumption, MaskBoundAssumption
<1>b. BookPart /\ OwedPart /\ MonitorPart
  BY DEF MaskParts
<1>c. mask \in MaskState
  BY DEF MaskParts, IdentityParts, MaskPart
\* Steps that leave the book alone: the mask may be taken off, and the monitor
\* may go on to anything but a claim or its rest.
<1>d. ASSUME UNCHANGED <<book, owed, crossed, wipe>>,
             mask'.wearing => mask.wearing \/ monitor.at = "claim",
             monitor'.at = "claim" => monitor.at = "claim",
             monitor'.at = "rest" /\ acted' => monitor.at = "rest" /\ acted
      PROVE  ReignInv'
  BY <1>d DEF ReignInv
<1> USE <1>a, <1>b, <1>c
<1>1. CASE MonWatch
  <2>1. /\ UNCHANGED <<owed, crossed, wipe>> /\ monitor'.at # "rest" /\ monitor'.at # "claim"
    BY <1>1 DEF MonWatch, GoOn, SwapThen, mvars
  <2>2. (mask'.wearing => mask.wearing) /\ UNCHANGED <<book.dirty, book.since, book.flash, book.reigns>>
    BY <1>1 DEF MonWatch, MaskState, BookPart
  <2> QED BY <2>1, <2>2 DEF ReignInv
<1>2. CASE MonElect
  <2>1. CASE GoOn("tick") /\ UNCHANGED <<book, owed, crossed>>
    <3>1. monitor'.at \notin {"rest", "claim"} /\ UNCHANGED <<mask, wipe>>
      BY <1>2, <2>1 DEF MonElect, GoOn
    <3> QED BY <2>1, <3>1, <1>d
  <2>2. CASE \E who \in Answers \ {book.leader} : NewAnswer(who)
    <3>1. PICK who \in Answers : NewAnswer(who)
      BY <2>2
    <3>2. UNCHANGED <<mask, wipe>>
      BY <1>2 DEF MonElect
    <3>3. CASE who = "me"
      <4>0. /\ book' = [book EXCEPT !.leader = who, !.reigns = Reigns(@), !.dirty = TRUE]
            /\ owed' = (IF owed = NEVER THEN 0 ELSE owed)
            /\ crossed' <=> crossed \/ wipe # "idle"
            /\ GoOn("claim")
        BY <3>1, <3>3, Zenon DEF NewAnswer
      <4>1. /\ book'.dirty /\ book'.since = book.since /\ book'.reigns = Reigns(book.reigns)
            /\ owed' = (IF owed = NEVER THEN 0 ELSE owed) /\ monitor'.at = "claim"
        BY <4>0 DEF BookPart, GoOn
      <4>2. book'.reigns > 0
        BY <4>1 DEF Reigns, BookPart
      <4>3. owed' # NEVER
        BY <4>1 DEF NEVER
      <4>4. ~crossed' => ~crossed /\ wipe' = "idle"
        BY <4>0, <3>2
      <4>5. ~crossed' => owed' <= book'.since
        BY <4>1, <4>4 DEF ReignInv, BookPart, OwedPart, NEVER
      <4> QED BY <3>2, <4>1, <4>2, <4>3, <4>4, <4>5 DEF ReignInv
    <3>4. CASE who # "me"
      <4>1. /\ book'.dirty = book.dirty /\ book'.since = book.since /\ book'.reigns = book.reigns
            /\ book'.flash = book.flash /\ UNCHANGED <<owed, crossed>>
            /\ monitor'.at \notin {"rest", "claim"}
        BY <3>1, <3>4 DEF NewAnswer, BookPart
      <4> QED BY <3>2, <4>1 DEF ReignInv
    <3> QED BY <3>3, <3>4
  <2> QED BY <1>2, <2>1, <2>2 DEF MonElect
<1>3. CASE MonClaim
  <2>1. monitor.at = "claim" /\ monitor'.at \notin {"rest", "claim"}
    BY <1>3 DEF MonClaim, GoOn, SwapThen
  <2> QED BY <1>3, <2>1, <1>d DEF MonClaim
<1>4. CASE MonDrop
  <2>1. /\ monitor'.at = "stop" /\ ~mask'.wearing
        /\ UNCHANGED <<book, owed, crossed, wipe>>
    BY <1>4 DEF MonDrop, SwapThen, mvars, MaskState
  <2> QED BY <2>1, <1>d
<1>5. CASE SwapStop
  BY <1>5, <1>d DEF SwapStop, mvars, MonitorPart
<1>6. CASE SwapMac
  BY <1>6, <1>d DEF SwapMac, mvars, MonitorPart, MaskState
<1>7. CASE SwapStart
  BY <1>7 DEF SwapStart, GoOn, mvars, MonitorPart, ReignInv
<1>8. CASE MonTick
  <2>1. monitor'.at \notin {"rest", "claim"} /\ UNCHANGED <<book, owed, crossed, wipe>>
    BY <1>8 DEF MonTick, GoOn, SwapThen, mvars
  <2>2. mask'.wearing => mask.wearing
    BY <1>8 DEF MonTick, MaskState
  <2> QED BY <2>1, <2>2, <1>d
<1>9. CASE MonSave
  <2>1. monitor'.at = "rest" /\ UNCHANGED <<mask, crossed, wipe, acted>>
    BY <1>9 DEF MonSave, AtRest
  <2>2. CASE book.dirty /\ book.since > SAVE
    <3>1. /\ book'.flash = book'.reigns /\ book'.reigns = book.reigns /\ ~book'.dirty /\ owed' = NEVER
      BY <1>9, <2>2 DEF MonSave, BookPart
    <3> QED BY <2>1, <3>1 DEF ReignInv
  <2>3. CASE ~(book.dirty /\ book.since > SAVE)
    <3>1. UNCHANGED <<book, owed>>
      BY <1>9, <2>3 DEF MonSave
    <3>2. book.dirty => book.since <= SAVE
      BY <2>3 DEF BookPart
    <3> QED BY <2>1, <3>1, <3>2 DEF ReignInv
  <2> QED BY <2>2, <2>3
<1>10. CASE EventTask
  <2>1. UNCHANGED <<monitor, acted, book, wipe, owed, crossed>>
    BY <1>10 DEF EventTask, HandleUp, HandleBranch, HandleApply, HandleDone, HandleDown, HandleIp, HandleLease, mvars
  <2>2. mask'.wearing = mask.wearing
    BY <1>10 DEF EventTask, HandleUp, HandleBranch, HandleApply, HandleDone, HandleDown, HandleIp, HandleLease, MaskState
  <2> QED BY <2>1, <2>2, <1>d
<1>11. CASE WipeCount
  <2>1. /\ book'.flash = book'.reigns /\ (mask.wearing => book'.reigns = 1) /\ owed' = NEVER
        /\ book'.dirty = book.dirty /\ book'.since = book.since
        /\ UNCHANGED <<mask, monitor, acted>>
    BY <1>11 DEF WipeCount, BookPart
  <2>2. crossed' \/ (~crossed /\ monitor.at \notin {"claim", "save"})
    BY <1>11 DEF WipeCount
  <2> QED BY <2>1, <2>2 DEF ReignInv
<1>12. CASE WipeDone
  <2>1. /\ wipe = "marking" /\ UNCHANGED <<mask, monitor, acted, owed, crossed>>
        /\ book'.flash = book.flash /\ book'.reigns = book.reigns /\ ~book'.dirty
    BY <1>12 DEF WipeDone, BookPart, mvars
  <2> QED BY <2>1 DEF ReignInv
<1>13. CASE PhyUp \/ Unplug \/ Plug \/ Lease \/ Serves
  BY <1>13, <1>d DEF PhyUp, Unplug, Plug, Lease, Serves, mvars
<1>14. CASE Reboot
  BY <1>14 DEF Reboot, BootWith, BootMask, AtRest, ReignInv
<1>15. CASE MaskTime
  <2>1. /\ monitor.at = "rest" /\ acted /\ ~acted' /\ UNCHANGED <<monitor, crossed, wipe>>
        /\ mask'.wearing = mask.wearing
    BY <1>15 DEF MaskTime, AtRest, MaskState
  <2>2. /\ book'.since = Aged(book.since, SAVE + 1) /\ book'.dirty = book.dirty
        /\ book'.flash = book.flash /\ book'.reigns = book.reigns
        /\ owed' = AgedMark(owed, SAVE + 2)
    BY <1>15 DEF MaskTime, BookPart
  <2>3. owed' = NEVER <=> owed = NEVER
    BY <2>2 DEF AgedMark, Aged, OwedPart, NEVER
  <2>4. ~crossed /\ owed # NEVER => owed' <= book'.since
    BY <2>1, <2>2 DEF AgedMark, Aged, OwedPart, BookPart, NEVER, ReignInv
  <2> QED BY <2>1, <2>2, <2>3, <2>4 DEF ReignInv
<1>16. CASE UNCHANGED maskVars
  BY <1>16, <1>d DEF maskVars, mvars
<1> QED BY <1>1, <1>2, <1>3, <1>4, <1>5, <1>6, <1>7, <1>8, <1>9, <1>10, <1>11, <1>12, <1>13, <1>14, <1>15, <1>16
  DEF MaskNext, MonitorTask

LEMMA ReignStarts == MaskInit => ReignInv
BY DEF MaskInit, ReignInv, BootMask, AtRest, NEVER

\* The identity of a blade keeps to its types however monitor, event task and
\* wipes interleave: every address is one of its own or the mask's.
THEOREM MaskTyped == MaskSpec => []MaskTypeOK
BY MaskPartsStart, MaskPartsKept, MaskPartsType, PTL DEF MaskSpec

\* For any timers: as long as no wipe has crossed an election half way, flash is at
\* most a minute behind the reigns counted by swarm_monitor_task, and no wearer
\* counts none, whatever interleaves with it and wherever it is reset.
THEOREM Reigned == MaskSpec => []ReignsKept
<1>1. MaskParts /\ ReignInv => ReignsKept
  <2> SUFFICES ASSUME MaskParts, ReignInv, ~crossed PROVE MinuteLost /\ WearerReigned
    BY DEF ReignsKept
  <2>1. BookPart /\ OwedPart /\ SAVE \in Nat
    BY MaskTimesAssumption DEF MaskParts
  <2>2. owed <= SAVE + 1
    BY <2>1 DEF BookPart, OwedPart, ReignInv, NEVER
  <2> QED BY <2>2 DEF ReignInv, MinuteLost, WearerReigned
<1> QED
  BY <1>1, MaskPartsStart, MaskPartsKept, ReignStarts, ReignKept, PTL DEF MaskSpec

----------------------------------------------------------------------------
(* The mask's address *)

Waits(kind) == \E k \in 1..Len(events) : events[k][1] = kind
InChain     == handler.at \in {"branch", "apply", "done"}

\* Of an outage at most one "down" is outstanding, and of a link at most one
\* "up", which is the next event to be handled.
QueueInv ==
  /\ \A k \in 1..Len(events) : events[k][1] = "up" => k = 1 /\ handler = Idle
  /\ \A j, k \in 1..Len(events) : events[j][1] = "down" /\ events[k][1] = "down" => j = k

\* What mask.c takes the link for is what the driver has, but for the events that
\* are still to come; and everything about the old link has been handled before
\* a PHY begins to count.
LinkInv ==
  /\ Waits("down") => mask.linkUp \/ Waits("up")
  /\ phy = "up" => ~Waits("down") /\ (Waits("up") <=> ~mask.linkUp)
  /\ phy # "up" => Waits("down") \/ (~mask.linkUp /\ ~Waits("up"))
  /\ ~mask.linkUp => ~netif.dhcp /\ ~InChain
  /\ phy = "stopped" <=> monitor.at \in {"mac", "start"}
  /\ phy = "down" /\ relink < RELINK => events = <<>> /\ handler = Idle

DriverInv == QueueInv /\ LinkInv

LEMMA QueueGrows ==
  ASSUME EventPart, NEW kind, NEW addr, Post(kind, addr)
  PROVE  /\ Len(events') = Len(events) + 1
         /\ \A k \in 1..Len(events) : events'[k] = events[k]
         /\ events'[Len(events) + 1] = <<kind, addr>>
         /\ \A q : Waits(q)' <=> Waits(q) \/ q = kind
<1>1. /\ Len(events') = Len(events) + 1 /\ Len(events) \in Nat
      /\ \A k \in 1..Len(events) : events'[k] = events[k]
      /\ events'[Len(events) + 1] = <<kind, addr>>
  BY DEF EventPart, Post
<1>2. ASSUME NEW q PROVE Waits(q)' <=> Waits(q) \/ q = kind
  <2>1. ASSUME Waits(q)' PROVE Waits(q) \/ q = kind
    <3>1. PICK k \in 1..Len(events') : events'[k][1] = q
      BY <2>1 DEF Waits
    <3> QED BY <1>1, <3>1 DEF Waits
  <2>2. ASSUME Waits(q) PROVE Waits(q)'
    <3>1. PICK k \in 1..Len(events) : events[k][1] = q
      BY <2>2 DEF Waits
    <3>2. k \in 1..Len(events') /\ events'[k][1] = q
      BY <1>1, <3>1
    <3> QED BY <3>2 DEF Waits
  <2>3. ASSUME q = kind PROVE Waits(q)'
    <3>1. Len(events) + 1 \in 1..Len(events') /\ events'[Len(events) + 1][1] = q
      BY <1>1, <2>3
    <3> QED BY <3>1 DEF Waits
  <2> QED BY <2>1, <2>2, <2>3
<1> QED BY <1>1, <1>2

LEMMA QueueShrinks ==
  ASSUME EventPart, QueueInv, NEW kind, Head1(kind)
  PROVE  /\ Len(events') = Len(events) - 1
         /\ \A k \in 1..Len(events') : events'[k] = events[k + 1]
         /\ Waits(kind) /\ (Waits("up") => kind = "up") /\ ~Waits("up")'
         /\ \A q : Waits(q)' => Waits(q)
         /\ \A q : q # kind => (Waits(q)' <=> Waits(q))
         /\ kind = "down" => ~Waits("down")'
<1>1. /\ events # <<>> /\ events \in Seq(Event) /\ events' = Tail(events) /\ events[1][1] = kind
  BY DEF EventPart, Head1
<1>2. /\ Len(events') = Len(events) - 1 /\ Len(events) \in Nat /\ Len(events) > 0
      /\ \A k \in 1..Len(events') : events'[k] = events[k + 1]
  BY <1>1
<1>3. ASSUME NEW q, Waits(q)' PROVE \E k \in 2..Len(events) : events[k][1] = q
  <2>1. PICK k \in 1..Len(events') : events'[k][1] = q
    BY <1>3 DEF Waits
  <2>2. k + 1 \in 2..Len(events) /\ events[k + 1][1] = q
    BY <1>2, <2>1
  <2> QED BY <2>2
<1>4. ASSUME NEW q, Waits(q)' PROVE Waits(q)
  BY <1>2, <1>3, <1>4 DEF Waits
<1>5. ASSUME NEW q, q # kind, Waits(q) PROVE Waits(q)'
  <2>1. PICK k \in 1..Len(events) : events[k][1] = q
    BY <1>5 DEF Waits
  <2>2. k # 1
    BY <1>1, <1>5, <2>1
  <2>3. k - 1 \in 1..Len(events') /\ events'[k - 1] = events[(k - 1) + 1] /\ (k - 1) + 1 = k
    BY <1>2, <2>1, <2>2
  <2> QED BY <2>1, <2>3 DEF Waits
<1>6. Waits(kind)
  BY <1>1, <1>2 DEF Waits
<1>7. ~Waits("up")'
  BY <1>2, <1>3 DEF QueueInv
<1>8. Waits("up") => kind = "up"
  BY <1>5, <1>7
<1>9. kind = "down" => ~Waits("down")'
  <2> SUFFICES ASSUME kind = "down", Waits("down")' PROVE FALSE
    OBVIOUS
  <2>1. PICK k \in 2..Len(events) : events[k][1] = "down"
    BY <1>3
  <2>2. 1 \in 1..Len(events) /\ k \in 1..Len(events) /\ events[1][1] = "down" /\ k # 1
    BY <1>1, <1>2, <2>1
  <2> QED BY <2>1, <2>2 DEF QueueInv
<1> QED BY <1>2, <1>4, <1>5, <1>6, <1>7, <1>8, <1>9

LEMMA DriverStarts == MaskInit => DriverInv
<1> SUFFICES ASSUME MaskInit PROVE DriverInv
  OBVIOUS
<1>1. events = <<>> /\ Len(events) = 0
  BY DEF MaskInit
<1>2. \A q : ~Waits(q)
  BY <1>1 DEF Waits
<1>3. QueueInv
  BY <1>1 DEF QueueInv
<1> QED BY <1>1, <1>2, <1>3 DEF DriverInv, LinkInv, MaskInit, BootMask, AtRest, Idle, InChain

LEMMA QueueKept == RELINK > 0 /\ MaskParts /\ DriverInv /\ [MaskNext]_maskVars => QueueInv'
<1> SUFFICES ASSUME RELINK > 0, MaskParts, DriverInv, [MaskNext]_maskVars PROVE QueueInv'
  OBVIOUS
<1>a. EventPart /\ QueueInv /\ LinkInv /\ Len(events) \in Nat
  BY DEF MaskParts, IdentityParts, EventPart, DriverInv
<1>b. RELINK \in Nat /\ relink \in 0..RELINK
  BY MaskTimesAssumption DEF MaskParts, RelinkPart
\* A "down" is posted only over a live link, which has none outstanding.
<1>c. ASSUME phy = "up", Post("down", NOADDR), handler' = handler PROVE QueueInv'
  <2>1. \A k \in 1..Len(events) : events[k][1] # "down"
    BY <1>a, <1>c DEF LinkInv, Waits
  <2>2. /\ Len(events') = Len(events) + 1
        /\ \A k \in 1..Len(events) : events'[k] = events[k]
        /\ events'[Len(events) + 1][1] = "down"
    BY <1>a, <1>c, QueueGrows
  <2>3. \A k \in 1..Len(events') : k \in 1..Len(events) \/ k = Len(events) + 1
    BY <1>a, <2>2
  <2> QED BY <1>a, <1>c, <2>1, <2>2, <2>3 DEF QueueInv
\* An address is nobody's link.
<1>d. ASSUME NEW addr, Post("ip", addr), handler' = handler \/ ~Waits("up") PROVE QueueInv'
  <2>2. /\ Len(events') = Len(events) + 1
        /\ \A k \in 1..Len(events) : events'[k] = events[k]
        /\ events'[Len(events) + 1][1] = "ip"
    BY <1>a, <1>d, QueueGrows
  <2>3. \A k \in 1..Len(events') : k \in 1..Len(events) \/ (k = Len(events) + 1 /\ events'[k][1] = "ip")
    BY <1>a, <2>2
  <2>4. handler' = handler \/ \A k \in 1..Len(events) : events[k][1] # "up"
    BY <1>d DEF Waits
  <2> QED BY <1>a, <2>2, <2>3, <2>4 DEF QueueInv
<1>e. ASSUME NEW kind, Head1(kind) PROVE QueueInv'
  <2>1. /\ Len(events') = Len(events) - 1
        /\ \A k \in 1..Len(events') : events'[k] = events[k + 1] /\ events'[k][1] # "up"
    <3>1. ~Waits("up")' /\ Len(events') = Len(events) - 1 /\ \A k \in 1..Len(events') : events'[k] = events[k + 1]
      BY <1>a, <1>e, QueueShrinks
    <3> QED BY <3>1 DEF Waits
  <2>2. \A k \in 1..Len(events') : k + 1 \in 1..Len(events)
    BY <1>a, <2>1
  <2>3. ASSUME NEW j \in 1..Len(events'), NEW k \in 1..Len(events'), events'[j][1] = "down", events'[k][1] = "down"
        PROVE  j = k
    <3>1. j + 1 = k + 1
      BY <1>a, <2>1, <2>2, <2>3 DEF QueueInv
    <3> QED BY <3>1
  <2> QED BY <2>1, <2>3 DEF QueueInv
<1>f. ASSUME events' = <<>> PROVE QueueInv'
  BY <1>f DEF QueueInv
<1>g. ASSUME events' = events, handler' = handler \/ handler' = Idle \/ ~Waits("up") PROVE QueueInv'
  <2>1. handler' = handler \/ handler' = Idle \/ \A k \in 1..Len(events) : events[k][1] # "up"
    BY <1>g DEF Waits
  <2> QED BY <1>a, <1>g, <2>1 DEF QueueInv
<1>h. handler.at # "rest" => ~Waits("up")
  BY <1>a DEF QueueInv, Waits, Idle
<1>1. CASE SwapStop
  BY <1>1, <1>c, <1>g DEF SwapStop
<1>2. CASE HandleUp \/ HandleDown \/ HandleIp
  BY <1>2, <1>e DEF HandleUp, HandleDown, HandleIp
<1>3. CASE HandleApply
  BY <1>3, <1>d, <1>h DEF HandleApply
<1>4. CASE HandleBranch \/ HandleDone \/ HandleLease
  BY <1>4, <1>g, <1>h DEF HandleBranch, HandleDone, HandleLease
<1>5. CASE PhyUp
  <2>1. events = <<>> /\ handler = Idle /\ handler' = handler /\ Len(events) = 0
    BY <1>5, <1>a, <1>b DEF PhyUp, LinkInv
  <2>2. Len(events') = 1 /\ events'[1][1] = "up"
    BY <1>5, <1>a, <2>1, QueueGrows DEF PhyUp
  <2> QED BY <2>1, <2>2 DEF QueueInv
<1>6. CASE Unplug
  BY <1>6, <1>c, <1>g DEF Unplug
<1>7. CASE Lease
  BY <1>7, <1>d DEF Lease
<1>8. CASE Reboot
  BY <1>8, <1>f DEF Reboot, BootWith
<1>9. CASE UNCHANGED <<events, handler>>
  BY <1>9, <1>g
<1> QED BY <1>1, <1>2, <1>3, <1>4, <1>5, <1>6, <1>7, <1>8, <1>9
  DEF MaskNext, MonitorTask, EventTask, maskVars, MonWatch, MonElect, MonClaim, MonDrop,
      SwapMac, SwapStart, MonTick, MonSave, WipeCount, WipeDone, Plug, Serves, MaskTime

LEMMA LinkToldKept == RELINK > 0 /\ MaskParts /\ DriverInv /\ [MaskNext]_maskVars => LinkInv'
<1> SUFFICES ASSUME RELINK > 0, MaskParts, DriverInv, [MaskNext]_maskVars PROVE LinkInv'
  OBVIOUS
<1>a. /\ EventPart /\ QueueInv /\ LinkInv
      /\ RELINK \in Nat /\ relink \in 0..RELINK
      /\ mask \in MaskState /\ NetPart /\ HandlerPart /\ MonitorPart
      /\ phy \in {"stopped", "down", "up"}
  BY MaskTimesAssumption DEF MaskParts, RelinkPart, IdentityParts, DriverInv, MaskPart, LinkPart
<1>b. (events' = events) => \A q : Waits(q)' <=> Waits(q)
  BY DEF Waits
\* Nothing of the link, and nothing of the handler's chain.
<1>c. ASSUME UNCHANGED <<phy, relink, events, handler>>, mask'.linkUp = mask.linkUp,
             netif'.dhcp => netif.dhcp \/ mask.linkUp,
             monitor'.at \in {"mac", "start"} <=> monitor.at \in {"mac", "start"}
      PROVE  LinkInv'
  BY <1>a, <1>b, <1>c DEF LinkInv, InChain
<1>1. CASE MonWatch \/ MonElect \/ MonClaim \/ MonDrop \/ MonTick \/ MonSave
  <2>1. UNCHANGED <<phy, relink, events, handler>>
    BY <1>1 DEF MonWatch, MonElect, MonClaim, MonDrop, MonTick, MonSave, link
  <2>2. mask'.linkUp = mask.linkUp /\ (netif'.dhcp => netif.dhcp \/ mask.linkUp)
    BY <1>1, <1>a DEF MonWatch, MonElect, MonClaim, MonDrop, MonTick, MonSave, MaskState, RetryDue, Discovering, NetPart
  <2>3. monitor'.at \notin {"mac", "start"} /\ monitor.at \notin {"mac", "start"}
    <3>1. CASE MonElect
      <4>1. \/ GoOn("tick") \/ GoOn("claim")
            \/ monitor' = [at |-> IF mask.wearing THEN "drop" ELSE "tick", then |-> "tick"]
        BY <3>1, Zenon DEF MonElect, NewAnswer
      <4>2. monitor.at = "elect"
        BY <3>1 DEF MonElect
      <4> QED BY <4>1, <4>2 DEF GoOn
    <3>2. CASE ~MonElect
      BY <1>1, <3>2 DEF MonWatch, MonClaim, MonDrop, MonTick, MonSave, GoOn, SwapThen, AtRest
    <3> QED BY <3>1, <3>2
  <2> QED BY <2>1, <2>2, <2>3, <1>c
<1>2. CASE SwapStop
  <2>1. /\ phy' = "stopped" /\ monitor'.at = "mac" /\ UNCHANGED <<mask, netif, handler>>
    BY <1>2, <1>a DEF SwapStop, MonitorPart
  <2>2. CASE phy = "up"
    <3>1. \A q : Waits(q)' <=> Waits(q) \/ q = "down"
      BY <1>2, <1>a, <2>2, QueueGrows DEF SwapStop
    <3> QED BY <1>a, <2>1, <2>2, <3>1 DEF LinkInv, InChain
  <2>3. CASE phy # "up"
    BY <1>2, <1>a, <1>b, <2>1, <2>3 DEF SwapStop, LinkInv, InChain
  <2> QED BY <2>2, <2>3
<1>3. CASE SwapMac
  <2>1. UNCHANGED <<phy, relink, events, handler>> /\ mask'.linkUp = mask.linkUp /\ netif'.dhcp = netif.dhcp
    BY <1>3, <1>a DEF SwapMac, link, MaskState, NetPart
  <2>2. monitor.at = "mac" /\ monitor'.at = "start"
    BY <1>3, <1>a DEF SwapMac, MonitorPart
  <2> QED BY <2>1, <2>2, <1>c
<1>4. CASE SwapStart
  <2>1. /\ phy = "stopped" /\ phy' = "down" /\ relink' = RELINK /\ UNCHANGED <<mask, netif, events, handler>>
        /\ monitor'.at \notin {"mac", "start"}
    BY <1>4, <1>a DEF SwapStart, GoOn, MonitorPart, LinkInv
  <2> QED BY <1>a, <1>b, <2>1 DEF LinkInv, InChain
<1>5. CASE HandleUp
  <2>1. /\ Waits("up") /\ ~Waits("up")' /\ (Waits("down")' <=> Waits("down"))
    BY <1>5, <1>a, QueueShrinks DEF HandleUp
  <2>2. UNCHANGED <<netif, phy, relink, monitor>> /\ mask'.linkUp /\ events # <<>>
    BY <1>5, <1>a DEF HandleUp, link, MaskState, Head1
  <2> QED BY <1>a, <2>1, <2>2 DEF LinkInv, InChain
<1>6. CASE HandleDown
  <2>1. /\ ~Waits("up") /\ ~Waits("up")' /\ ~Waits("down")' /\ Waits("down")
    BY <1>6, <1>a, QueueShrinks DEF HandleDown
  <2>2. /\ UNCHANGED <<phy, relink, monitor, handler>> /\ ~mask'.linkUp /\ ~netif'.dhcp /\ handler = Idle /\ events # <<>>
    BY <1>6, <1>a DEF HandleDown, link, MaskState, Head1, NetPart
  <2> QED BY <1>a, <2>1, <2>2 DEF LinkInv, InChain, Idle
<1>7. CASE HandleIp
  <2>1. /\ ~Waits("up") /\ ~Waits("up")' /\ (Waits("down")' <=> Waits("down"))
    BY <1>7, <1>a, QueueShrinks DEF HandleIp
  <2>2. /\ UNCHANGED <<phy, relink, monitor, netif>> /\ mask'.linkUp = mask.linkUp /\ handler'.at = "lease" /\ events # <<>>
    BY <1>7, <1>a DEF HandleIp, link, MaskState, Head1, Idle
  <2> QED BY <1>a, <2>1, <2>2 DEF LinkInv, InChain
<1>8. CASE HandleBranch
  <2>1. /\ UNCHANGED <<mask, phy, relink, events, monitor>> /\ handler.at = "branch"
    BY <1>8 DEF HandleBranch, link
  <2> QED BY <1>a, <1>b, <2>1 DEF LinkInv, InChain, Idle
<1>9. CASE HandleApply
  <2>1. /\ UNCHANGED <<phy, relink, monitor>> /\ handler.at = "apply" /\ mask'.linkUp = mask.linkUp
    BY <1>9, <1>a DEF HandleApply, link, MaskState
  <2>2. \A q : Waits(q)' <=> Waits(q) \/ q = "ip"
    BY <1>9, <1>a, QueueGrows DEF HandleApply
  <2> QED BY <1>a, <2>1, <2>2 DEF LinkInv, InChain, Idle
<1>10. CASE HandleDone \/ HandleLease
  <2>1. /\ UNCHANGED <<phy, relink, monitor, events, netif>> /\ handler.at # "rest" /\ handler' = Idle
        /\ mask'.linkUp = mask.linkUp
    BY <1>10, <1>a DEF HandleDone, HandleLease, link, MaskState
  <2> QED BY <1>a, <1>b, <2>1 DEF LinkInv, InChain, Idle
<1>11. CASE PhyUp
  <2>1. /\ phy = "down" /\ phy' = "up" /\ events = <<>> /\ handler = Idle /\ UNCHANGED <<mask, netif, handler, monitor>>
    BY <1>11, <1>a DEF PhyUp, LinkInv
  <2>2. \A q : Waits(q)' <=> Waits(q) \/ q = "up"
    BY <1>11, <1>a, QueueGrows DEF PhyUp
  <2>3. \A q : ~Waits(q)
    BY <2>1 DEF Waits
  <2> QED BY <1>a, <2>1, <2>2, <2>3 DEF LinkInv, InChain
<1>12. CASE Unplug
  <2>1. UNCHANGED <<mask, netif, handler, monitor>>
    BY <1>12 DEF Unplug
  <2>2. CASE phy = "up"
    <3>1. phy' = "down" /\ relink' = RELINK
      BY <1>12, <2>2 DEF Unplug
    <3>2. \A q : Waits(q)' <=> Waits(q) \/ q = "down"
      BY <1>12, <1>a, <2>2, QueueGrows DEF Unplug
    <3> QED BY <1>a, <2>1, <2>2, <3>1, <3>2 DEF LinkInv, InChain
  <2>3. CASE phy # "up"
    BY <1>12, <1>a, <1>c, <2>1, <2>3 DEF Unplug, link
  <2> QED BY <2>2, <2>3
<1>13. CASE Lease
  <2>1. /\ UNCHANGED <<mask, phy, relink, handler, monitor>> /\ netif'.dhcp = netif.dhcp /\ phy = "up"
    BY <1>13, <1>a DEF Lease, link, NetPart
  <2>2. \A q : Waits(q)' <=> Waits(q) \/ q = "ip"
    BY <1>13, <1>a, QueueGrows DEF Lease
  <2> QED BY <1>a, <2>1, <2>2 DEF LinkInv, InChain
<1>14. CASE Reboot
  <2>1. /\ events' = <<>> /\ phy' = "down" /\ relink' = RELINK /\ ~mask'.linkUp /\ ~netif'.dhcp
        /\ handler' = Idle /\ monitor' = AtRest /\ Len(events') = 0
    BY <1>14 DEF Reboot, BootWith, BootMask
  <2>2. \A q : ~Waits(q)'
    BY <2>1 DEF Waits
  <2> QED BY <1>a, <2>1, <2>2 DEF LinkInv, InChain, AtRest, Idle
<1>15. CASE MaskTime
  <2>1. /\ UNCHANGED <<phy, events, handler, monitor, netif>> /\ events = <<>> /\ handler = Idle
        /\ mask'.linkUp = mask.linkUp
    BY <1>15, <1>a DEF MaskTime, MaskState
  <2> QED BY <1>a, <1>b, <2>1 DEF LinkInv, InChain
<1>16. CASE WipeCount \/ WipeDone \/ Plug \/ Serves \/ UNCHANGED maskVars
  <2>1. UNCHANGED <<phy, relink, events, handler, mask, netif, monitor>>
    BY <1>16 DEF WipeCount, WipeDone, Plug, Serves, maskVars, link
  <2> QED BY <2>1, <1>c
<1> QED BY <1>1, <1>2, <1>3, <1>4, <1>5, <1>6, <1>7, <1>8, <1>9, <1>10, <1>11, <1>12, <1>13, <1>14, <1>15, <1>16
  DEF MaskNext, MonitorTask, EventTask

LEMMA DriverKept == RELINK > 0 /\ MaskParts /\ DriverInv /\ [MaskNext]_maskVars => DriverInv'
BY QueueKept, LinkToldKept DEF DriverInv

\* The link is up, and no swap is about to take it down.
Live == phy = "up" /\ monitor.at # "stop"

MaskIpsOnly == \A k \in 1..Len(events) : events[k][1] = "ip" => events[k][2] = VMAC

\* A wearer on a live link has the mask's address, or is about to set it; no
\* DHCP client and no older address are left that could take it away.
WearerInv ==
  /\ monitor.at \notin {"stop", "mac"} => netif.mac = IF mask.wearing THEN VMAC ELSE OWN
  /\ Live /\ mask.wearing =>
       /\ ~netif.dhcp /\ MaskIpsOnly
       /\ mask.linkUp /\ handler.at = "apply" => handler.addr = VMAC
       /\ mask.linkUp /\ handler.at \notin {"branch", "apply"} => netif.addr = VMAC /\ mask.curIp = VMAC

\* mask_tick takes the mask off by a swap, or not at all.
LEMMA TickSwaps == mask \in MaskState /\ MonTick => monitor'.at = "stop" \/ mask'.wearing = mask.wearing
<1> SUFFICES ASSUME mask \in MaskState, MonTick PROVE monitor'.at = "stop" \/ mask'.wearing = mask.wearing
  OBVIOUS
<1>1. CASE mask' = mask
  BY <1>1
<1>2. CASE ClaimOverdue /\ mask' # mask
  BY <1>2 DEF MonTick, SwapThen
<1>3. CASE ~ClaimOverdue /\ mask' # mask
  <2> DEFINE worn == mask.wearing /\ ~ClaimOverdue
  <2>1. mask'.wearing = worn
    BY <1>3 DEF MonTick, MaskState
  <2>2. worn = mask.wearing
    BY <1>3, Zenon DEF MaskState
  <2> QED BY <2>1, <2>2
<1> QED BY <1>1, <1>2, <1>3

LEMMA WearerKept == RELINK > 0 /\ MaskParts /\ DriverInv /\ WearerInv /\ [MaskNext]_maskVars => WearerInv'
<1> SUFFICES ASSUME RELINK > 0, MaskParts, DriverInv, WearerInv, [MaskNext]_maskVars PROVE WearerInv'
  OBVIOUS
<1>a. /\ EventPart /\ QueueInv /\ LinkInv
      /\ RELINK \in Nat /\ relink \in 0..RELINK
      /\ mask \in MaskState /\ NetPart /\ HandlerPart /\ MonitorPart
      /\ phy \in {"stopped", "down", "up"}
  BY MaskTimesAssumption DEF MaskParts, RelinkPart, IdentityParts, DriverInv, MaskPart, LinkPart
<1>b. ASSUME monitor'.at = "stop" PROVE WearerInv'
  BY <1>b DEF WearerInv, Live
<1>c. ASSUME UNCHANGED <<phy, events, handler>>, netif'.mac = netif.mac, netif' = netif \/ ~mask.wearing,
             mask'.wearing = mask.wearing, mask'.linkUp = mask.linkUp, mask'.curIp = mask.curIp,
             monitor' = monitor \/ monitor.at \notin {"stop", "mac"}
      PROVE  WearerInv'
  <2>1. MaskIpsOnly' <=> MaskIpsOnly
    BY <1>c DEF MaskIpsOnly
  <2>2. Live' => Live
    BY <1>c DEF Live
  <2> QED BY <1>c, <2>1, <2>2 DEF WearerInv
\* Only the interface's MAC matters while the link is down.
<1>d. ASSUME phy' # "up", mask'.wearing = mask.wearing, netif'.mac = netif.mac, monitor'.at = monitor.at PROVE WearerInv'
  BY <1>d DEF WearerInv, Live
<1>e. ASSUME NEW kind, Head1(kind), MaskIpsOnly PROVE MaskIpsOnly'
  <2>1. /\ Len(events') = Len(events) - 1 /\ Len(events) \in Nat
        /\ \A k \in 1..Len(events') : events'[k] = events[k + 1]
    BY <1>a, <1>e, QueueShrinks DEF EventPart
  <2>2. \A k \in 1..Len(events') : k + 1 \in 1..Len(events)
    BY <2>1
  <2> QED BY <1>e, <2>1, <2>2 DEF MaskIpsOnly
<1>1. CASE MonWatch
  <2>1. UNCHANGED <<phy, events, handler, netif>> /\ monitor.at = "rest"
    BY <1>1 DEF MonWatch, link
  <2>2. monitor'.at = "stop" \/ mask' = mask
    BY <1>1 DEF MonWatch, SwapThen
  <2> QED BY <2>1, <2>2, <1>b, <1>c
<1>2. CASE MonElect \/ MonSave
  <2>1. UNCHANGED <<phy, events, handler, netif, mask>> /\ monitor.at \notin {"stop", "mac"}
    BY <1>2 DEF MonElect, MonSave, link
  <2> QED BY <2>1, <1>c
<1>3. CASE MonClaim \/ MonDrop
  <2>1. UNCHANGED <<phy, events, handler, netif>> /\ monitor.at \notin {"stop", "mac"}
    BY <1>3 DEF MonClaim, MonDrop, link
  <2>2. monitor'.at = "stop" \/ mask' = mask
    BY <1>3 DEF MonClaim, MonDrop, SwapThen
  <2> QED BY <2>1, <2>2, <1>b, <1>c
<1>4. CASE MonTick
  <2>1. UNCHANGED <<phy, events, handler>> /\ monitor.at = "tick"
    BY <1>4 DEF MonTick, link
  <2>2. monitor'.at = "stop" \/ mask'.wearing = mask.wearing
    BY <1>4, <1>a, TickSwaps
  <2>3. /\ mask'.linkUp = mask.linkUp /\ mask'.curIp = mask.curIp
        /\ netif'.mac = netif.mac /\ (netif' = netif \/ ~mask.wearing)
    BY <1>4, <1>a DEF MonTick, MaskState, NetPart, RetryDue, Discovering
  <2> QED BY <2>1, <2>2, <2>3, <1>b, <1>c
<1>5. CASE SwapStop
  BY <1>5, <1>a DEF SwapStop, WearerInv, Live, MonitorPart
<1>6. CASE SwapMac
  <2>1. /\ phy' # "up" /\ mask'.wearing = mask.wearing /\ netif'.mac = IF mask.wearing THEN VMAC ELSE OWN
    BY <1>6, <1>a DEF SwapMac, link, MaskState, NetPart, LinkInv
  <2> QED BY <2>1 DEF WearerInv, Live
<1>7. CASE SwapStart
  BY <1>7 DEF SwapStart, WearerInv, Live
<1>8. CASE HandleUp
  <2>1. /\ Head1("up") /\ UNCHANGED <<netif, phy, monitor>> /\ mask'.wearing = mask.wearing
        /\ handler'.at = "branch"
    BY <1>8, <1>a DEF HandleUp, link, MaskState, Idle
  <2> QED BY <2>1, <1>e DEF WearerInv, Live
<1>9. CASE HandleBranch
  <2>1. UNCHANGED <<mask, phy, events, monitor>> /\ netif'.mac = netif.mac
    BY <1>9, <1>a DEF HandleBranch, link, NetPart
  <2>2. mask.wearing => handler' = [at |-> "apply", addr |-> VMAC] /\ netif' = netif
    BY <1>9 DEF HandleBranch
  <2>3. MaskIpsOnly' <=> MaskIpsOnly
    BY <2>1 DEF MaskIpsOnly
  <2> QED BY <2>1, <2>2, <2>3 DEF WearerInv, Live
<1>10. CASE HandleApply
  <2>1. /\ UNCHANGED <<phy, monitor>> /\ handler.at = "apply" /\ handler'.at = "done"
        /\ mask'.wearing = mask.wearing /\ mask'.curIp = handler.addr
        /\ netif'.mac = netif.mac /\ netif'.addr = handler.addr /\ ~netif'.dhcp
    BY <1>10, <1>a DEF HandleApply, link, MaskState, NetPart, HandlerPart
  <2>2. mask.linkUp
    BY <2>1, <1>a DEF LinkInv, InChain
  <2>3. ASSUME Live, mask.wearing PROVE handler.addr = VMAC /\ MaskIpsOnly'
    <3>1. handler.addr = VMAC /\ MaskIpsOnly
      BY <2>1, <2>2, <2>3 DEF WearerInv
    <3>2. /\ Len(events') = Len(events) + 1 /\ Len(events) \in Nat
          /\ \A k \in 1..Len(events) : events'[k] = events[k]
          /\ events'[Len(events) + 1] = <<"ip", VMAC>>
      BY <1>10, <1>a, <3>1, QueueGrows DEF HandleApply, EventPart
    <3>3. \A k \in 1..Len(events') : k \in 1..Len(events) \/ k = Len(events) + 1
      BY <3>2
    <3> QED BY <3>1, <3>2, <3>3 DEF MaskIpsOnly
  <2> QED BY <2>1, <2>2, <2>3 DEF WearerInv, Live
<1>11. CASE HandleDone \/ HandleLease
  <2>1. /\ UNCHANGED <<netif, phy, events, monitor>> /\ handler.at \in {"done", "lease"} /\ handler'.at = "rest"
        /\ mask'.wearing = mask.wearing /\ mask'.linkUp = mask.linkUp /\ mask'.curIp = mask.curIp
    BY <1>11, <1>a DEF HandleDone, HandleLease, link, MaskState, Idle
  <2>2. MaskIpsOnly' <=> MaskIpsOnly
    BY <2>1 DEF MaskIpsOnly
  <2> QED BY <2>1, <2>2 DEF WearerInv, Live
<1>12. CASE HandleDown
  <2>1. phy # "up"
    BY <1>12, <1>a, QueueShrinks DEF HandleDown, LinkInv
  <2> QED BY <1>12, <1>a, <2>1, <1>d DEF HandleDown, link, MaskState, NetPart
<1>13. CASE HandleIp
  <2>1. /\ Head1("ip") /\ UNCHANGED <<netif, phy, monitor>>
        /\ handler.at = "rest" /\ handler'.at = "lease"
        /\ mask'.wearing = mask.wearing /\ mask'.linkUp = mask.linkUp /\ mask'.curIp = events[1][2]
    BY <1>13, <1>a, FirstEvent, EventAddr DEF HandleIp, Head1, link, MaskState, Idle
  <2>2. MaskIpsOnly => mask'.curIp = VMAC
    <3>1. 1 \in 1..Len(events) /\ events[1][1] = "ip"
      BY <2>1, <1>a DEF Head1, EventPart
    <3> QED BY <2>1, <3>1 DEF MaskIpsOnly
  <2> QED BY <2>1, <2>2, <1>e DEF WearerInv, Live
<1>14. CASE PhyUp
  <2>1. /\ phy = "down" /\ events = <<>> /\ handler = Idle /\ UNCHANGED <<mask, netif, monitor>>
        /\ Post("up", NOADDR)
    BY <1>14, <1>a DEF PhyUp, LinkInv
  <2>2. ~mask.linkUp /\ ~netif.dhcp
    BY <2>1, <1>a DEF LinkInv, Waits
  <2>3. MaskIpsOnly'
    BY <2>1, <1>a, QueueGrows DEF MaskIpsOnly
  <2> QED BY <2>1, <2>2, <2>3 DEF WearerInv, Live
<1>15. CASE Unplug
  <2>1. UNCHANGED <<mask, netif, handler, monitor>>
    BY <1>15 DEF Unplug
  <2>2. phy' # "up" \/ UNCHANGED <<phy, events>>
    BY <1>15 DEF Unplug, link
  <2> QED BY <2>1, <2>2, <1>c, <1>d
<1>16. CASE Lease
  <2>1. /\ UNCHANGED <<mask, phy, handler, monitor>> /\ netif'.mac = netif.mac /\ netif.dhcp
    BY <1>16, <1>a DEF Lease, link, NetPart
  <2> QED BY <2>1 DEF WearerInv, Live
<1>17. CASE Reboot
  BY <1>17 DEF Reboot, BootWith, BootMask, WearerInv, Live
<1>18. CASE MaskTime
  <2>1. /\ UNCHANGED <<phy, events, handler, monitor, netif>>
        /\ mask'.wearing = mask.wearing /\ mask'.linkUp = mask.linkUp /\ mask'.curIp = mask.curIp
    BY <1>18, <1>a DEF MaskTime, MaskState
  <2> QED BY <2>1, <1>c
<1>19. CASE WipeCount \/ WipeDone \/ Plug \/ Serves \/ UNCHANGED maskVars
  <2>1. UNCHANGED <<phy, events, handler, mask, netif, monitor>>
    BY <1>19 DEF WipeCount, WipeDone, Plug, Serves, maskVars, link
  <2> QED BY <2>1, <1>c
<1> QED BY <1>1, <1>2, <1>3, <1>4, <1>5, <1>6, <1>7, <1>8, <1>9, <1>10, <1>11, <1>12, <1>13, <1>14, <1>15, <1>16, <1>17, <1>18, <1>19
  DEF MaskNext, MonitorTask, EventTask

\* The DHCP clock of mask_tick stands still while the link is down, and starts
\* again only with the handling of the link: no retry comes into the middle of it.
Ticked == monitor.at = "save" \/ (monitor.at = "rest" /\ acted)
DhcpInv ==
  /\ phy = "up" /\ (Waits("up") \/ InChain) => mask.dhcpFor <= 0
  /\ phy = "down" /\ relink < RELINK /\ (relink <= RELINK - 2 \/ Ticked) => mask.dhcpFor = NEVER

\* Out of the mask on a live link: the address is the remembered lease, once there
\* is one, and mask.c knows that it has it.
LeaseInv ==
  Live /\ ~mask.wearing /\ mask.linkUp =>
    /\ handler.at = "apply" => handler.addr = mask.lease
    /\ handler.at \notin {"branch", "apply"} =>
         /\ mask.lease = OWN => netif.addr = OWN
         /\ mask.lease # VMAC => netif.addr # VMAC
    /\ handler.at = "lease" \/ (handler.at = "rest" /\ mask.lease = OWN) => mask.haveIp

LEMMA DhcpKept == RELINK > 1 /\ MaskParts /\ DriverInv /\ DhcpInv /\ [MaskNext]_maskVars => DhcpInv'
<1> SUFFICES ASSUME RELINK > 1, MaskParts, DriverInv, DhcpInv, [MaskNext]_maskVars PROVE DhcpInv'
  OBVIOUS
<1>a. /\ EventPart /\ QueueInv /\ LinkInv
      /\ RELINK \in Nat /\ relink \in 0..RELINK /\ DHCP_RETRY \in Nat
      /\ mask \in MaskState /\ NetPart /\ HandlerPart /\ MonitorPart
      /\ phy \in {"stopped", "down", "up"}
  BY MaskTimesAssumption DEF MaskParts, RelinkPart, IdentityParts, DriverInv, MaskPart, LinkPart
<1>b. (events' = events) => \A q : Waits(q)' <=> Waits(q)
  BY DEF Waits
<1>c. ASSUME UNCHANGED <<phy, relink>>, Waits("up")' \/ InChain' => Waits("up") \/ InChain,
             mask'.dhcpFor = mask.dhcpFor, Ticked' => Ticked
      PROVE  DhcpInv'
  BY <1>c DEF DhcpInv
<1>1. CASE MonWatch \/ MonElect \/ MonClaim \/ MonDrop \/ SwapMac
  <2>1. UNCHANGED <<phy, relink, events, handler>> /\ mask'.dhcpFor = mask.dhcpFor
    BY <1>1, <1>a DEF MonWatch, MonElect, MonClaim, MonDrop, SwapMac, link, MaskState
  <2>2. monitor'.at \notin {"rest", "save"}
    <3>1. CASE MonElect
      <4>1. \/ GoOn("tick") \/ GoOn("claim")
            \/ monitor' = [at |-> IF mask.wearing THEN "drop" ELSE "tick", then |-> "tick"]
        BY <3>1, Zenon DEF MonElect, NewAnswer
      <4> QED BY <4>1 DEF GoOn
    <3>2. CASE ~MonElect
      BY <1>1, <1>a, <3>2 DEF MonWatch, MonClaim, MonDrop, SwapMac, GoOn, SwapThen, MonitorPart
    <3> QED BY <3>1, <3>2
  <2> QED BY <1>b, <1>c, <2>1, <2>2 DEF Ticked, InChain
<1>2. CASE SwapStop
  BY <1>2 DEF SwapStop, DhcpInv
<1>3. CASE SwapStart
  <2>1. phy' = "down" /\ relink' = RELINK
    BY <1>3 DEF SwapStart
  <2> QED BY <1>a, <2>1 DEF DhcpInv
<1>4. CASE MonTick
  <2>1. UNCHANGED <<phy, relink, events, handler>> /\ monitor.at = "tick" /\ monitor'.at # "rest"
    BY <1>4 DEF MonTick, link, GoOn, SwapThen
  <2>2. CASE mask' = mask /\ monitor'.at = "drop"
    BY <1>b, <1>c, <2>1, <2>2 DEF Ticked, InChain
  <2>3. CASE mask'.dhcpFor = IF ~Discovering THEN NEVER
                             ELSE IF mask.dhcpFor = NEVER \/ RetryDue THEN 0 ELSE mask.dhcpFor
    <3>1. phy = "down" /\ relink < RELINK => ~Discovering
      <4>1. phy = "down" /\ relink < RELINK => ~Waits("down")
        BY <1>a DEF LinkInv, Waits
      <4> QED BY <1>a, <4>1 DEF LinkInv, Discovering
    <3>2. mask'.dhcpFor <= 0 \/ mask'.dhcpFor = mask.dhcpFor
      BY <2>3 DEF NEVER
    <3> QED BY <1>b, <2>1, <2>3, <3>1, <3>2 DEF DhcpInv, InChain
  <2>4. CASE mask.wearing /\ ~able
    BY <1>4, <2>2, <2>4 DEF MonTick
  <2>5. CASE ~(mask.wearing /\ ~able)
    <3> DEFINE worn == mask.wearing /\ ~ClaimOverdue
               wait == IF ~Discovering THEN NEVER
                       ELSE IF mask.dhcpFor = NEVER \/ RetryDue THEN 0 ELSE mask.dhcpFor
    <3>1. mask' = [mask EXCEPT !.wearing = worn, !.dhcpFor = wait]
      BY <1>4, <2>5 DEF MonTick
    <3> HIDE DEF worn, wait
    <3>2. mask'.dhcpFor = wait
      BY <1>a, <3>1 DEF MaskState
    <3> QED BY <2>3, <3>2 DEF wait
  <2> QED BY <2>4, <2>5
<1>5. CASE MonSave
  <2>1. UNCHANGED <<phy, relink, events, handler, mask>> /\ monitor.at = "save"
    BY <1>5 DEF MonSave, link
  <2> QED BY <1>b, <1>c, <2>1 DEF Ticked, InChain
<1>6. CASE HandleUp
  <2>1. UNCHANGED <<phy, relink, monitor, acted>> /\ mask'.dhcpFor = mask.dhcpFor
    BY <1>6, <1>a DEF HandleUp, link, MaskState
  <2>2. Waits("up")
    BY <1>6, <1>a, QueueShrinks DEF HandleUp
  <2> QED BY <1>c, <2>1, <2>2 DEF Ticked
<1>7. CASE HandleBranch \/ HandleDone \/ HandleLease
  <2>1. /\ UNCHANGED <<phy, relink, monitor, acted, events>> /\ mask'.dhcpFor = mask.dhcpFor
        /\ (InChain' => InChain)
    BY <1>7, <1>a DEF HandleBranch, HandleDone, HandleLease, link, MaskState, Idle, InChain
  <2> QED BY <1>b, <1>c, <2>1 DEF Ticked
<1>8. CASE HandleApply
  <2>1. UNCHANGED <<phy, relink, monitor, acted>> /\ mask'.dhcpFor = mask.dhcpFor /\ InChain
    BY <1>8, <1>a DEF HandleApply, link, MaskState, InChain
  <2> QED BY <1>c, <2>1 DEF Ticked
<1>9. CASE HandleDown \/ HandleIp
  <2>1. UNCHANGED <<phy, relink, monitor, acted>> /\ mask'.dhcpFor = mask.dhcpFor
    BY <1>9, <1>a DEF HandleDown, HandleIp, link, MaskState
  <2>2. ~InChain'
    BY <1>9 DEF HandleDown, HandleIp, Head1, InChain, Idle
  <2>3. ~Waits("up")'
    BY <1>9, <1>a, QueueShrinks DEF HandleDown, HandleIp
  <2> QED BY <1>c, <2>1, <2>2, <2>3 DEF Ticked
<1>10. CASE PhyUp
  <2>1. phy = "down" /\ relink = 0 /\ phy' = "up" /\ mask' = mask
    BY <1>10 DEF PhyUp
  <2>2. mask'.dhcpFor = NEVER
    BY <1>a, <2>1 DEF DhcpInv
  <2> QED BY <2>1, <2>2 DEF DhcpInv, NEVER
<1>11. CASE Unplug
  <2>1. UNCHANGED <<mask, handler, monitor, acted>>
    BY <1>11 DEF Unplug
  <2>2. (phy' = "down" /\ relink' = RELINK) \/ UNCHANGED <<phy, relink, events>>
    BY <1>11 DEF Unplug, link
  <2>3. CASE phy' = "down" /\ relink' = RELINK
    BY <1>a, <2>3 DEF DhcpInv
  <2>4. CASE UNCHANGED <<phy, relink, events>>
    BY <1>b, <1>c, <2>1, <2>4 DEF Ticked, InChain
  <2> QED BY <2>2, <2>3, <2>4
<1>12. CASE Lease
  <2>1. UNCHANGED <<mask, phy, relink, handler, monitor, acted>>
    BY <1>12 DEF Lease, link
  <2>2. Waits("up")' => Waits("up")
    BY <1>12, <1>a, QueueGrows DEF Lease
  <2> QED BY <1>c, <2>1, <2>2 DEF Ticked, InChain
<1>13. CASE Reboot
  BY <1>13 DEF Reboot, BootWith, BootMask, DhcpInv, NEVER
<1>14. CASE MaskTime
  <2>1. /\ events = <<>> /\ handler = Idle /\ monitor.at = "rest" /\ acted /\ ~acted'
        /\ UNCHANGED <<phy, events, handler, monitor>>
        /\ relink' = (IF phy = "down" /\ relink > 0 THEN relink - 1 ELSE relink)
        /\ mask'.dhcpFor = AgedMark(mask.dhcpFor, DHCP_RETRY + 1)
    BY <1>14, <1>a DEF MaskTime, MaskState, AtRest
  <2>2. ~Waits("up")' /\ ~InChain' /\ ~Ticked'
    BY <2>1, <1>b DEF Waits, InChain, Idle, Ticked
  <2>3. ASSUME phy = "down", relink' <= RELINK - 2 PROVE mask'.dhcpFor = NEVER
    <3>1. relink < RELINK
      BY <1>a, <2>1, <2>3
    <3>2. mask.dhcpFor = NEVER
      BY <2>1, <2>3, <3>1 DEF DhcpInv, Ticked
    <3> QED BY <2>1, <3>2 DEF AgedMark
  <2> QED BY <2>1, <2>2, <2>3 DEF DhcpInv
<1>15. CASE WipeCount \/ WipeDone \/ Plug \/ Serves \/ UNCHANGED maskVars
  <2>1. UNCHANGED <<phy, relink, events, handler, mask, monitor, acted>>
    BY <1>15 DEF WipeCount, WipeDone, Plug, Serves, maskVars, link
  <2> QED BY <1>b, <1>c, <2>1 DEF Ticked, InChain
<1> QED BY <1>1, <1>2, <1>3, <1>4, <1>5, <1>6, <1>7, <1>8, <1>9, <1>10, <1>11, <1>12, <1>13, <1>14, <1>15
  DEF MaskNext, MonitorTask, EventTask

LEMMA LeaseKept == RELINK > 0 /\ MaskParts /\ DriverInv /\ DhcpInv /\ LeaseInv /\ [MaskNext]_maskVars => LeaseInv'
<1> SUFFICES ASSUME RELINK > 0, MaskParts, DriverInv, DhcpInv, LeaseInv, [MaskNext]_maskVars PROVE LeaseInv'
  OBVIOUS
<1>a. /\ EventPart /\ QueueInv /\ LinkInv
      /\ RELINK \in Nat /\ relink \in 0..RELINK /\ DHCP_RETRY \in Nat
      /\ mask \in MaskState /\ NetPart /\ HandlerPart /\ MonitorPart
      /\ phy \in {"stopped", "down", "up"}
  BY MaskTimesAssumption DEF MaskParts, RelinkPart, IdentityParts, DriverInv, MaskPart, LinkPart
<1>b. ASSUME monitor'.at = "stop" \/ phy' # "up" \/ ~mask'.linkUp PROVE LeaseInv'
  BY <1>b DEF LeaseInv, Live
<1>c. ASSUME UNCHANGED <<phy, handler>>, netif'.addr = netif.addr,
             mask'.wearing = mask.wearing, mask'.linkUp = mask.linkUp, mask'.lease = mask.lease,
             mask.haveIp => mask'.haveIp, monitor.at # "stop" \/ monitor'.at = "stop"
      PROVE  LeaseInv'
  BY <1>c DEF LeaseInv, Live
<1>1. CASE MonWatch \/ MonElect \/ MonClaim \/ MonDrop \/ MonSave
  <2>1. UNCHANGED <<phy, handler, netif>> /\ monitor.at # "stop"
    BY <1>1 DEF MonWatch, MonElect, MonClaim, MonDrop, MonSave, link
  <2>2. monitor'.at = "stop" \/ mask' = mask
    BY <1>1 DEF MonWatch, MonElect, MonClaim, MonDrop, MonSave, SwapThen
  <2> QED BY <2>1, <2>2, <1>b, <1>c
<1>2. CASE MonTick
  <2>1. UNCHANGED <<phy, handler>> /\ monitor.at = "tick"
    BY <1>2 DEF MonTick, link
  <2>2. monitor'.at = "stop" \/ mask'.wearing = mask.wearing
    BY <1>2, <1>a, TickSwaps
  <2>3. mask'.linkUp = mask.linkUp /\ mask'.lease = mask.lease /\ mask'.haveIp = mask.haveIp
    BY <1>2, <1>a DEF MonTick, MaskState
  <2>4. CASE ~RetryDue
    <3>1. netif' = netif
      BY <1>2, <2>4 DEF MonTick
    <3> QED BY <1>b, <1>c, <2>1, <2>2, <2>3, <3>1
  \* A retry, on a live link: no handler is at work, and no lease is known.
  <2>5. CASE RetryDue /\ Live
    <3>1. ~mask.wearing /\ mask.linkUp /\ ~mask.haveIp /\ mask.dhcpFor > 0
      BY <1>a, <2>5 DEF RetryDue, Discovering, MaskState, NEVER
    <3>2. ~InChain
      BY <1>a, <2>5, <3>1 DEF DhcpInv, Live, MaskState, NEVER
    <3>3. handler.at = "rest" /\ mask.lease # OWN
      BY <1>a, <2>5, <3>1, <3>2 DEF LeaseInv, InChain, HandlerPart
    <3>4. netif' = netif \/ netif'.addr = NOADDR
      BY <1>2, <1>a, <2>5 DEF MonTick, NetPart
    <3> QED BY <1>b, <1>c, <2>1, <2>2, <2>3, <3>1, <3>3, <3>4 DEF LeaseInv, NOADDR, VMAC, OWN
  <2>6. CASE ~Live
    BY <2>1, <2>6, <1>b DEF Live
  <2> QED BY <2>4, <2>5, <2>6
<1>3. CASE SwapStop
  BY <1>3, <1>b DEF SwapStop
<1>4. CASE SwapMac \/ SwapStart
  <2>1. phy' # "up"
    BY <1>4, <1>a DEF SwapMac, SwapStart, link, LinkInv
  <2> QED BY <2>1, <1>b
<1>5. CASE HandleUp
  BY <1>5 DEF HandleUp, LeaseInv, Idle
<1>6. CASE HandleBranch
  <2>1. UNCHANGED <<mask, phy, monitor>>
    BY <1>6 DEF HandleBranch, link
  <2>2. ~mask.wearing =>
          \/ handler' = [at |-> "apply", addr |-> mask.lease]
          \/ mask.lease = NOADDR /\ handler' = Idle /\ netif'.addr = NOADDR
    BY <1>6, <1>a DEF HandleBranch, NetPart
  <2> QED BY <2>1, <2>2 DEF LeaseInv, Live, Idle, NOADDR, VMAC, OWN
<1>7. CASE HandleApply
  <2>1. /\ UNCHANGED <<phy, monitor>> /\ handler.at = "apply" /\ handler'.at = "done"
        /\ mask'.wearing = mask.wearing /\ mask'.linkUp = mask.linkUp /\ mask'.lease = mask.lease
        /\ netif'.addr = handler.addr
    BY <1>7, <1>a DEF HandleApply, link, MaskState, NetPart, HandlerPart
  <2> QED BY <2>1 DEF LeaseInv, Live
<1>8. CASE HandleDone
  <2>1. /\ UNCHANGED <<phy, monitor, netif>> /\ handler.at = "done" /\ handler'.at = "rest"
        /\ mask'.wearing = mask.wearing /\ mask'.linkUp = mask.linkUp /\ mask'.lease = mask.lease
        /\ mask'.haveIp
    BY <1>8, <1>a DEF HandleDone, link, MaskState, Idle
  <2> QED BY <2>1 DEF LeaseInv, Live
<1>9. CASE HandleDown
  <2>1. ~mask'.linkUp
    BY <1>9, <1>a DEF HandleDown, MaskState
  <2> QED BY <2>1, <1>b
<1>10. CASE HandleIp
  <2>1. /\ UNCHANGED <<phy, monitor, netif>> /\ handler.at = "rest" /\ handler'.at = "lease"
        /\ mask'.wearing = mask.wearing /\ mask'.linkUp = mask.linkUp /\ mask'.lease = mask.lease
        /\ mask'.haveIp
    BY <1>10, <1>a, FirstEvent, EventAddr DEF HandleIp, Head1, link, MaskState, Idle
  <2> QED BY <2>1 DEF LeaseInv, Live
<1>11. CASE HandleLease
  <2>1. /\ UNCHANGED <<phy, monitor, netif>> /\ handler.at = "lease" /\ handler'.at = "rest"
        /\ mask'.wearing = mask.wearing /\ mask'.linkUp = mask.linkUp /\ mask'.haveIp = mask.haveIp
        /\ mask'.lease = mask.lease \/ mask'.lease = netif.addr
    BY <1>11, <1>a DEF HandleLease, link, MaskState, NetPart, Idle
  <2> QED BY <2>1 DEF LeaseInv, Live
<1>12. CASE PhyUp
  <2>1. phy = "down" /\ events = <<>> /\ mask' = mask
    BY <1>12, <1>a DEF PhyUp, LinkInv
  <2>2. ~mask.linkUp
    BY <1>a, <2>1 DEF LinkInv, Waits
  <2> QED BY <2>1, <2>2, <1>b
<1>13. CASE Unplug
  <2>1. UNCHANGED <<mask, netif, handler, monitor>> /\ (phy' # "up" \/ phy' = phy)
    BY <1>13 DEF Unplug, link
  <2> QED BY <2>1, <1>b, <1>c
<1>14. CASE Lease
  <2>1. /\ UNCHANGED <<mask, phy, handler, monitor>> /\ netif'.addr = OWN
    BY <1>14, <1>a DEF Lease, link, NetPart
  <2> QED BY <2>1 DEF LeaseInv, Live, VMAC, OWN
<1>15. CASE Reboot
  BY <1>15, <1>b DEF Reboot, BootWith
<1>16. CASE MaskTime
  <2>1. /\ UNCHANGED <<phy, handler, monitor, netif>>
        /\ mask'.wearing = mask.wearing /\ mask'.linkUp = mask.linkUp /\ mask'.lease = mask.lease
        /\ mask'.haveIp = mask.haveIp
    BY <1>16, <1>a DEF MaskTime, MaskState
  <2> QED BY <2>1, <1>c
<1>17. CASE WipeCount \/ WipeDone \/ Plug \/ Serves \/ UNCHANGED maskVars
  <2>1. UNCHANGED <<phy, handler, mask, netif, monitor>>
    BY <1>17 DEF WipeCount, WipeDone, Plug, Serves, maskVars, link
  <2> QED BY <2>1, <1>c
<1> QED BY <1>1, <1>2, <1>3, <1>4, <1>5, <1>6, <1>7, <1>8, <1>9, <1>10, <1>11, <1>12, <1>13, <1>14, <1>15, <1>16, <1>17
  DEF MaskNext, MonitorTask, EventTask

\* Before the first link a blade has no address at all, and its DHCP client never
\* runs with the mask's.
Unlinked == ~mask.linkUp /\ mask.downFor = NEVER
OwnAddrInv ==
  /\ Unlinked => ~mask.haveIp /\ netif.addr = NOADDR /\ ~Waits("ip")
  /\ netif.dhcp => netif.addr # VMAC

\* What the turn of the monitor in this unit has seen to: no wearer is left whose
\* wire is gone, and none whose claim is overdue.
GraceInv ==
  /\ monitor.at = "claim" \/ (mask.wearing /\ (monitor.at # "rest" \/ acted)) => ~WireGone
  /\ mask.wearing /\ ~mask.haveIp /\ Ticked => mask.claimFor <= CLAIM_TIMEOUT
  /\ monitor.then = "save" /\ monitor.at \in {"stop", "mac", "start"} => ~mask.wearing

LEMMA OwnAddrKept == RELINK > 0 /\ MaskParts /\ DriverInv /\ OwnAddrInv /\ [MaskNext]_maskVars => OwnAddrInv'
<1> SUFFICES ASSUME RELINK > 0, MaskParts, DriverInv, OwnAddrInv, [MaskNext]_maskVars PROVE OwnAddrInv'
  OBVIOUS
<1>a. /\ EventPart /\ QueueInv /\ LinkInv /\ LINK_GRACE \in Nat
      /\ mask \in MaskState /\ NetPart /\ HandlerPart
  BY MaskTimesAssumption DEF MaskParts, IdentityParts, DriverInv, MaskPart
<1>b. (events' = events) => \A q : Waits(q)' <=> Waits(q)
  BY DEF Waits
<1>c. ASSUME Waits("ip")' => Waits("ip"), mask'.linkUp = mask.linkUp, mask'.downFor = NEVER => mask.downFor = NEVER,
             mask'.haveIp => mask.haveIp, netif'.addr = netif.addr, netif'.dhcp => netif.dhcp
      PROVE  OwnAddrInv'
  BY <1>c DEF OwnAddrInv, Unlinked
<1>d. ASSUME mask'.linkUp, netif'.addr # VMAC \/ ~netif'.dhcp PROVE OwnAddrInv'
  BY <1>d DEF OwnAddrInv, Unlinked
<1>1. CASE MonWatch \/ MonElect \/ MonClaim \/ MonDrop \/ SwapMac \/ SwapStart \/ MonSave
  <2>1. events' = events /\ netif'.addr = netif.addr /\ netif'.dhcp = netif.dhcp
    BY <1>1, <1>a DEF MonWatch, MonElect, MonClaim, MonDrop, SwapMac, SwapStart, MonSave, NetPart
  <2>2. /\ mask'.linkUp = mask.linkUp /\ mask'.downFor = mask.downFor
        /\ mask'.haveIp => mask.haveIp
    BY <1>1, <1>a DEF MonWatch, MonElect, MonClaim, MonDrop, SwapMac, SwapStart, MonSave, MaskState
  <2> QED BY <1>b, <1>c, <2>1, <2>2
<1>2. CASE MonTick
  <2>1. /\ events' = events
        /\ mask'.linkUp = mask.linkUp /\ mask'.downFor = mask.downFor /\ mask'.haveIp = mask.haveIp
    BY <1>2, <1>a DEF MonTick, MaskState
  <2>2. \/ netif' = netif
        \/ mask.linkUp /\ netif'.addr = NOADDR
    BY <1>2, <1>a DEF MonTick, RetryDue, Discovering, NetPart
  <2> QED BY <1>b, <1>c, <1>d, <2>1, <2>2 DEF NOADDR, VMAC
<1>3. CASE SwapStop \/ Unplug
  <2>1. Waits("ip")' => Waits("ip")
    BY <1>3, <1>a, <1>b, QueueGrows DEF SwapStop, Unplug
  <2> QED BY <1>3, <1>c, <2>1 DEF SwapStop, Unplug
<1>4. CASE HandleUp
  <2>1. mask'.linkUp /\ netif' = netif
    BY <1>4, <1>a DEF HandleUp, MaskState
  <2> QED BY <1>d, <2>1 DEF OwnAddrInv
<1>5. CASE HandleBranch
  <2>1. mask' = mask /\ mask.linkUp /\ (netif' = netif \/ netif'.addr = NOADDR)
    BY <1>5, <1>a DEF HandleBranch, NetPart, LinkInv, InChain
  <2> QED BY <1>d, <2>1 DEF OwnAddrInv, NOADDR, VMAC
<1>6. CASE HandleApply
  <2>1. mask'.linkUp /\ ~netif'.dhcp
    BY <1>6, <1>a DEF HandleApply, NetPart, MaskState, LinkInv, InChain
  <2> QED BY <1>d, <2>1
<1>7. CASE HandleDone
  <2>1. mask'.linkUp /\ netif' = netif
    BY <1>7, <1>a DEF HandleDone, MaskState, LinkInv, InChain
  <2> QED BY <1>d, <2>1 DEF OwnAddrInv
<1>8. CASE HandleDown
  <2>1. mask.linkUp
    BY <1>8, <1>a, QueueShrinks DEF HandleDown, LinkInv
  <2>2. mask'.downFor = 0 /\ ~netif'.dhcp
    BY <1>8, <1>a, <2>1 DEF HandleDown, MaskState, NetPart
  <2> QED BY <2>2 DEF OwnAddrInv, Unlinked, NEVER
<1>9. CASE HandleIp
  <2>1. Waits("ip") /\ (Waits("ip")' => Waits("ip"))
    BY <1>9, <1>a, QueueShrinks DEF HandleIp
  <2>2. mask'.linkUp = mask.linkUp /\ mask'.downFor = mask.downFor /\ netif' = netif
    BY <1>9, <1>a, FirstEvent, EventAddr DEF HandleIp, Head1, MaskState
  <2> QED BY <2>1, <2>2 DEF OwnAddrInv, Unlinked
<1>10. CASE HandleLease
  <2>1. events' = events /\ netif' = netif /\ mask'.linkUp = mask.linkUp /\ mask'.downFor = mask.downFor
        /\ mask'.haveIp = mask.haveIp
    BY <1>10, <1>a DEF HandleLease, MaskState
  <2> QED BY <1>b, <1>c, <2>1
<1>11. CASE PhyUp
  <2>1. Waits("ip")' => Waits("ip")
    BY <1>11, <1>a, QueueGrows DEF PhyUp
  <2> QED BY <1>11, <1>c, <2>1 DEF PhyUp
<1>12. CASE Lease
  <2>1. mask' = mask /\ mask.linkUp /\ netif'.addr = OWN
    BY <1>12, <1>a DEF Lease, NetPart, LinkInv
  <2> QED BY <1>d, <2>1 DEF OWN, VMAC
<1>13. CASE Reboot
  <2>1. events' = <<>> /\ ~mask'.haveIp /\ netif'.addr = NOADDR /\ Len(events') = 0
    BY <1>13 DEF Reboot, BootWith, BootMask
  <2> QED BY <2>1 DEF OwnAddrInv, Waits, NOADDR, VMAC
<1>14. CASE MaskTime
  <2>1. /\ events' = events /\ netif' = netif /\ mask'.linkUp = mask.linkUp /\ mask'.haveIp = mask.haveIp
        /\ mask'.downFor = AgedMark(mask.downFor, LINK_GRACE + 1)
    BY <1>14, <1>a DEF MaskTime, MaskState
  <2>2. mask'.downFor = NEVER => mask.downFor = NEVER
    BY <1>a, <2>1 DEF MaskState, AgedMark, Aged, NEVER
  <2> QED BY <1>b, <1>c, <2>1, <2>2
<1>15. CASE WipeCount \/ WipeDone \/ Plug \/ Serves \/ UNCHANGED maskVars
  <2>1. UNCHANGED <<events, mask, netif>>
    BY <1>15 DEF WipeCount, WipeDone, Plug, Serves, maskVars
  <2> QED BY <1>b, <1>c, <2>1
<1> QED BY <1>1, <1>2, <1>3, <1>4, <1>5, <1>6, <1>7, <1>8, <1>9, <1>10, <1>11, <1>12, <1>13, <1>14, <1>15
  DEF MaskNext, MonitorTask, EventTask

LEMMA GraceKept == RELINK > 0 /\ MaskParts /\ DriverInv /\ GraceInv /\ [MaskNext]_maskVars => GraceInv'
<1> SUFFICES ASSUME RELINK > 0, MaskParts, DriverInv, GraceInv, [MaskNext]_maskVars PROVE GraceInv'
  OBVIOUS
<1>a. /\ EventPart /\ QueueInv /\ LinkInv /\ LINK_GRACE \in Nat /\ CLAIM_TIMEOUT \in Nat
      /\ mask \in MaskState /\ MonitorPart
  BY MaskTimesAssumption DEF MaskParts, IdentityParts, DriverInv, MaskPart
<1>b. ASSUME mask'.wearing => mask.wearing, WireGone' => WireGone,
             UNCHANGED <<monitor, acted>>, mask'.claimFor = mask.claimFor, mask'.haveIp = mask.haveIp \/ mask'.haveIp
      PROVE  GraceInv'
  BY <1>b DEF GraceInv, Ticked
<1>c. ASSUME mask'.linkUp = mask.linkUp, mask'.downFor = mask.downFor PROVE WireGone' <=> WireGone
  BY <1>c DEF WireGone
<1>1. CASE MonWatch
  <2>1. CASE mask.wearing /\ WireGone
    <3>1. mask' = [mask EXCEPT !.wearing = FALSE, !.haveIp = FALSE] /\ SwapThen("elect")
      BY <1>1, <2>1, Zenon DEF MonWatch
    <3>2. ~mask'.wearing /\ monitor'.at = "stop"
      BY <1>a, <3>1 DEF SwapThen, MaskState
    <3> QED BY <3>2 DEF GraceInv, Ticked
  <2>2. CASE ~(mask.wearing /\ WireGone)
    <3>1. mask' = mask /\ monitor'.at = "elect"
      BY <1>1, <2>2 DEF MonWatch, GoOn
    <3> QED BY <2>2, <3>1, <1>c DEF GraceInv, Ticked
  <2> QED BY <2>1, <2>2
<1>2. CASE MonElect
  <2>1. monitor.at = "elect" /\ mask' = mask
    BY <1>2 DEF MonElect
  <2>2. \/ monitor'.at \in {"tick", "drop"}
        \/ monitor'.at = "claim" /\ ~WireGone
    <3>1. CASE GoOn("tick")
      BY <3>1 DEF GoOn
    <3>2. CASE \E who \in Answers \ {book.leader} : NewAnswer(who)
      <4>1. PICK who \in Answers : NewAnswer(who)
        BY <3>2
      <4>2. CASE who = "me"
        BY <4>1, <4>2 DEF NewAnswer, GoOn, Answers
      <4>3. CASE who # "me"
        BY <4>1, <4>3 DEF NewAnswer
      <4> QED BY <4>2, <4>3
    <3> QED BY <1>2, <3>1, <3>2 DEF MonElect
  <2> QED BY <2>1, <2>2, <1>c DEF GraceInv, Ticked
<1>3. CASE MonClaim
  <2>1. CASE mask.wearing
    <3>1. mask' = mask /\ monitor'.at = "tick" /\ monitor.at = "claim"
      BY <1>3, <2>1 DEF MonClaim, GoOn
    <3> QED BY <3>1, <1>c DEF GraceInv, Ticked
  <2>2. CASE ~mask.wearing
    <3>1. /\ mask' = [mask EXCEPT !.wearing = TRUE, !.claimFor = 0] /\ SwapThen("tick")
          /\ monitor.at = "claim"
      BY <1>3, <2>2, Zenon DEF MonClaim
    <3>2. /\ monitor'.at = "stop" /\ monitor'.then = "tick"
          /\ mask'.linkUp = mask.linkUp /\ mask'.downFor = mask.downFor
      BY <1>a, <3>1 DEF SwapThen, MaskState
    <3> QED BY <3>1, <3>2, <1>c DEF GraceInv, Ticked
  <2> QED BY <2>1, <2>2
<1>4. CASE MonDrop
  <2>1. ~mask'.wearing /\ monitor'.at = "stop"
    BY <1>4, <1>a DEF MonDrop, SwapThen, MaskState
  <2> QED BY <2>1 DEF GraceInv, Ticked
<1>5. CASE SwapStop \/ SwapMac
  <2>1. /\ mask'.linkUp = mask.linkUp /\ mask'.downFor = mask.downFor /\ mask'.wearing = mask.wearing
        /\ monitor.at \in {"stop", "mac"} /\ monitor'.at \in {"mac", "start"} /\ monitor'.then = monitor.then
    BY <1>5, <1>a DEF SwapStop, SwapMac, MaskState, MonitorPart
  <2> QED BY <2>1, <1>c DEF GraceInv, Ticked
<1>6. CASE SwapStart
  <2>1. /\ mask' = mask /\ monitor.at = "start" /\ monitor'.at = monitor.then /\ monitor'.then = "rest"
        /\ monitor.then \in {"elect", "tick", "save"}
    BY <1>6, <1>a DEF SwapStart, GoOn, MonitorPart
  <2> QED BY <2>1, <1>c DEF GraceInv, Ticked
<1>7. CASE MonTick
  <2>1. /\ mask'.linkUp = mask.linkUp /\ mask'.downFor = mask.downFor /\ monitor.at = "tick"
        /\ mask'.claimFor = mask.claimFor /\ mask'.haveIp = mask.haveIp /\ (mask'.wearing => mask.wearing)
    BY <1>7, <1>a DEF MonTick, MaskState
  <2>2. CASE monitor'.at = "drop"
    BY <2>1, <2>2, <1>c DEF GraceInv, Ticked
  <2>3. CASE ClaimOverdue /\ monitor'.at # "drop"
    <3>1. SwapThen("save") /\ (mask'.wearing => mask.wearing /\ ~ClaimOverdue)
      <4>1. ~(mask.wearing /\ ~able)
        BY <1>7, <2>3 DEF MonTick
      <4> DEFINE worn == mask.wearing /\ ~ClaimOverdue
                 wait == IF ~Discovering THEN NEVER
                         ELSE IF mask.dhcpFor = NEVER \/ RetryDue THEN 0 ELSE mask.dhcpFor
      <4>2. mask' = [mask EXCEPT !.wearing = worn, !.dhcpFor = wait] /\ SwapThen("save")
        BY <1>7, <2>3, <4>1 DEF MonTick
      <4> HIDE DEF worn, wait
      <4>3. mask'.wearing = worn
        BY <1>a, <4>2 DEF MaskState
      <4> QED BY <4>2, <4>3 DEF worn
    <3>2. ~mask'.wearing /\ monitor'.at = "stop"
      BY <2>3, <3>1 DEF SwapThen
    <3> QED BY <3>2 DEF GraceInv, Ticked
  <2>4. CASE ~ClaimOverdue /\ monitor'.at # "drop"
    <3>1. monitor'.at = "save"
      BY <1>7, <2>4 DEF MonTick, GoOn
    <3>2. mask.wearing /\ ~mask.haveIp => mask.claimFor <= CLAIM_TIMEOUT
      BY <1>a, <2>4 DEF ClaimOverdue, MaskState
    <3> QED BY <2>1, <3>1, <3>2, <1>c DEF GraceInv, Ticked
  <2> QED BY <2>2, <2>3, <2>4
<1>8. CASE MonSave
  <2>1. mask' = mask /\ monitor.at = "save" /\ monitor'.at = "rest"
    BY <1>8 DEF MonSave, AtRest
  <2> QED BY <2>1, <1>c DEF GraceInv, Ticked
<1>9. CASE HandleUp
  <2>1. /\ mask'.linkUp /\ mask'.wearing = mask.wearing /\ mask'.claimFor = mask.claimFor
        /\ mask'.haveIp = mask.haveIp /\ UNCHANGED <<monitor, acted>>
    BY <1>9, <1>a DEF HandleUp, MaskState
  <2> QED BY <2>1, <1>b DEF WireGone
<1>10. CASE HandleDown
  <2>1. mask.linkUp
    BY <1>10, <1>a, QueueShrinks DEF HandleDown, LinkInv
  <2>2. /\ mask'.downFor = 0 /\ mask'.wearing = mask.wearing /\ mask'.claimFor = mask.claimFor
        /\ mask'.haveIp = mask.haveIp /\ UNCHANGED <<monitor, acted>>
    BY <1>10, <1>a, <2>1 DEF HandleDown, MaskState
  <2>3. ~WireGone'
    BY <1>a, <2>2 DEF WireGone
  <2> QED BY <2>2, <2>3, <1>b
<1>11. CASE HandleBranch \/ HandleApply \/ HandleDone \/ HandleLease
  <2>1. /\ mask'.linkUp = mask.linkUp /\ mask'.downFor = mask.downFor
        /\ mask'.wearing = mask.wearing /\ mask'.claimFor = mask.claimFor
        /\ mask'.haveIp = mask.haveIp \/ mask'.haveIp
    BY <1>11, <1>a DEF HandleBranch, HandleApply, HandleDone, HandleLease, MaskState
  <2>2. UNCHANGED <<monitor, acted>>
    BY <1>11 DEF HandleBranch, HandleApply, HandleDone, HandleLease
  <2> QED BY <2>1, <2>2, <1>b, <1>c
<1>12. CASE HandleIp
  <2>1. /\ mask'.linkUp = mask.linkUp /\ mask'.downFor = mask.downFor
        /\ mask'.wearing = mask.wearing /\ mask'.claimFor = mask.claimFor
        /\ mask'.haveIp /\ UNCHANGED <<monitor, acted>>
    BY <1>12, <1>a, FirstEvent, EventAddr DEF HandleIp, Head1, MaskState
  <2> QED BY <2>1, <1>b, <1>c
<1>13. CASE Reboot
  BY <1>13 DEF Reboot, BootWith, BootMask, AtRest, GraceInv, Ticked
<1>14. CASE MaskTime
  <2>1. monitor'.at = "rest" /\ monitor'.then = "rest" /\ ~acted'
    BY <1>14 DEF MaskTime, AtRest
  <2> QED BY <2>1 DEF GraceInv, Ticked
<1>15. CASE UNCHANGED <<mask, monitor, acted>>
  BY <1>15, <1>b, <1>c
<1> QED BY <1>1, <1>2, <1>3, <1>4, <1>5, <1>6, <1>7, <1>8, <1>9, <1>10, <1>11, <1>12, <1>13, <1>14, <1>15
  DEF MaskNext, MonitorTask, EventTask, WipeCount, WipeDone, PhyUp, Unplug, Plug, Lease, Serves, maskVars

\* For how long a wearer can have been off its address: before its first link,
\* since its claim; afterwards since the link went down, to which the flap of a
\* cable that lets the handlers set the address adds what came before.
StrandInv ==
  stranded > 0 /\ mask.wearing =>
    /\ Waits("up") => netif.addr # VMAC
    /\ handler.at = "apply" => handler.addr = VMAC
    /\ netif.addr = VMAC => stranded <= CLAIM_TIMEOUT + 1 + (IF mask.linkUp THEN 0 ELSE mask.downFor)
    /\ netif.addr # VMAC /\ mask.linkUp => handler.at \in {"branch", "apply"} /\ stranded <= CLAIM_TIMEOUT + 1
    /\ netif.addr # VMAC /\ ~mask.linkUp => stranded <= IF mask.downFor = NEVER THEN mask.claimFor ELSE mask.downFor

OffAddr == OwnAddrInv /\ GraceInv /\ StrandInv

LEMMA StrandBound ==
  LINK_GRACE <= CLAIM_TIMEOUT /\ MaskParts /\ OwnAddrInv /\ StrandInv /\ mask.wearing => NeverStranded
<1> SUFFICES ASSUME LINK_GRACE <= CLAIM_TIMEOUT, MaskParts, OwnAddrInv, StrandInv, mask.wearing PROVE NeverStranded
  OBVIOUS
<1>1. LINK_GRACE \in Nat /\ CLAIM_TIMEOUT \in Nat
  BY MaskTimesAssumption
<1>2. stranded \in Nat /\ mask.downFor \in {NEVER} \cup 0..LINK_GRACE + 1 /\ mask.claimFor \in 0..CLAIM_TIMEOUT + 1
  BY <1>1 DEF MaskParts, IdentityParts, MaskPart, StrandPart, MaskState
<1>3. netif.addr = VMAC /\ ~mask.linkUp => mask.downFor # NEVER
  BY DEF OwnAddrInv, Unlinked, NOADDR, VMAC
<1> QED BY <1>1, <1>2, <1>3 DEF StrandInv, NeverStranded, NEVER

LEMMA OffAddrKept ==
  RELINK > 0 /\ LINK_GRACE <= CLAIM_TIMEOUT /\ MaskParts /\ DriverInv /\ WearerInv /\ OffAddr
    /\ [MaskNext]_maskVars => StrandInv'
<1> SUFFICES ASSUME RELINK > 0, LINK_GRACE <= CLAIM_TIMEOUT, MaskParts, DriverInv, WearerInv, OffAddr, [MaskNext]_maskVars
             PROVE  StrandInv'
  OBVIOUS
<1>a. /\ EventPart /\ QueueInv /\ LinkInv /\ LINK_GRACE \in Nat /\ CLAIM_TIMEOUT \in Nat
      /\ mask \in MaskState /\ NetPart /\ HandlerPart /\ MonitorPart
      /\ stranded \in Nat /\ phy \in {"stopped", "down", "up"}
      /\ OwnAddrInv /\ GraceInv /\ StrandInv
  BY MaskTimesAssumption DEF MaskParts, IdentityParts, DriverInv, MaskPart, StrandPart, LinkPart, OffAddr
<1>b. (events' = events) => \A q : Waits(q)' <=> Waits(q)
  BY DEF Waits
\* Steps that leave link and address as they are to a wearer.
<1>c. ASSUME mask'.wearing => /\ mask.wearing /\ netif'.addr = netif.addr
                              /\ handler' = handler \/ (~InChain /\ ~InChain'),
             mask'.linkUp = mask.linkUp, mask'.downFor = mask.downFor, mask'.claimFor = mask.claimFor,
             Waits("up")' => Waits("up"), stranded' = stranded
      PROVE  StrandInv'
  <2> SUFFICES ASSUME stranded' > 0, mask'.wearing PROVE StrandInv'
    BY DEF StrandInv
  <2>1. CASE handler' = handler
    BY <1>a, <1>c, <2>1 DEF StrandInv
  <2>2. CASE ~InChain /\ ~InChain'
    BY <1>a, <1>c, <2>2 DEF StrandInv, InChain
  <2> QED BY <1>c, <2>1, <2>2
<1>d. ASSUME stranded' = 0 PROVE StrandInv'
  BY <1>d DEF StrandInv
<1>e. ASSUME UNCHANGED <<mask, netif, handler>>, Waits("up")' => Waits("up"), stranded' = stranded PROVE StrandInv'
  BY <1>c, <1>e
<1>1. CASE MonWatch \/ MonElect \/ MonDrop \/ MonSave \/ SwapMac \/ SwapStart
  <2>1. /\ events' = events /\ handler' = handler /\ stranded' = stranded /\ netif'.addr = netif.addr
    BY <1>1, <1>a DEF MonWatch, MonElect, MonDrop, MonSave, SwapMac, SwapStart, mvars, NetPart
  <2>2. /\ mask'.linkUp = mask.linkUp /\ mask'.downFor = mask.downFor /\ mask'.claimFor = mask.claimFor
        /\ mask'.wearing => mask.wearing
    BY <1>1, <1>a DEF MonWatch, MonElect, MonDrop, MonSave, SwapMac, SwapStart, MaskState
  <2> QED BY <1>b, <1>c, <2>1, <2>2
<1>2. CASE MonClaim
  <2>1. CASE mask.wearing
    <3>1. UNCHANGED <<mask, netif, handler, events>> /\ stranded' = stranded
      BY <1>2, <2>1 DEF MonClaim
    <3> QED BY <1>b, <1>e, <3>1
  <2>2. CASE ~mask.wearing
    BY <1>2, <2>2, <1>d DEF MonClaim
  <2> QED BY <2>1, <2>2
<1>3. CASE SwapStop \/ Unplug
  <2>1. Waits("up")' => Waits("up")
    BY <1>3, <1>a, <1>b, QueueGrows DEF SwapStop, Unplug
  <2> QED BY <1>3, <2>1, <1>e DEF SwapStop, Unplug, mvars
<1>4. CASE MonTick
  <2>1. /\ events' = events /\ handler' = handler /\ stranded' = stranded
        /\ mask'.linkUp = mask.linkUp /\ mask'.downFor = mask.downFor /\ mask'.claimFor = mask.claimFor
        /\ mask'.wearing => mask.wearing
    BY <1>4, <1>a DEF MonTick, MaskState, mvars
  <2>2. mask.wearing => netif' = netif
    BY <1>4 DEF MonTick, RetryDue, Discovering
  <2> QED BY <1>b, <1>c, <2>1, <2>2
<1>5. CASE HandleUp
  <2>1. Waits("up") /\ ~Waits("up")'
    BY <1>5, <1>a, QueueShrinks DEF HandleUp
  <2>2. /\ handler.at = "rest" /\ handler'.at = "branch" /\ netif' = netif /\ stranded' = stranded
        /\ mask'.linkUp /\ mask'.wearing = mask.wearing
    BY <1>5, <1>a DEF HandleUp, Head1, Idle, MaskState, mvars
  <2>3. stranded > 0 /\ mask.wearing => netif.addr # VMAC /\ stranded <= CLAIM_TIMEOUT + 1
    BY <1>a, <2>1, <2>2 DEF StrandInv, MaskState, NEVER
  <2> QED BY <1>a, <2>1, <2>2, <2>3 DEF StrandInv
<1>6. CASE HandleBranch
  <2>1. mask' = mask /\ handler.at = "branch" /\ mask.linkUp /\ stranded' = stranded
    BY <1>6, <1>a DEF HandleBranch, LinkInv, InChain, mvars
  <2>2. mask.wearing => handler' = [at |-> "apply", addr |-> VMAC] /\ netif' = netif
    BY <1>6 DEF HandleBranch
  <2>3. ~Waits("up")'
    BY <1>6, <1>a, <1>b, <2>1 DEF HandleBranch, QueueInv, Waits, Idle
  <2> QED BY <1>a, <2>1, <2>2, <2>3 DEF StrandInv
<1>7. CASE HandleApply
  <2>1. /\ handler.at = "apply" /\ handler'.at = "done" /\ netif'.addr = handler.addr
        /\ mask'.linkUp = mask.linkUp /\ mask.linkUp /\ mask'.wearing = mask.wearing
    BY <1>7, <1>a DEF HandleApply, HandlerPart, NetPart, MaskState, LinkInv, InChain
  <2>2. stranded' = stranded \/ stranded' = 0
    BY <1>7 DEF HandleApply, Recount
  <2>3. ~Waits("up")'
    <3>1. ~Waits("up")
      BY <1>a, <2>1 DEF QueueInv, Waits, Idle
    <3> QED BY <1>7, <1>a, <3>1, QueueGrows DEF HandleApply
  <2> QED BY <1>a, <1>d, <2>1, <2>2, <2>3 DEF StrandInv
<1>8. CASE HandleDone
  <2>1. /\ handler.at = "done" /\ handler'.at = "rest" /\ netif' = netif /\ mask.linkUp
        /\ mask'.linkUp = mask.linkUp /\ mask'.wearing = mask.wearing /\ stranded' = stranded
    BY <1>8, <1>a DEF HandleDone, Idle, MaskState, LinkInv, InChain, mvars
  <2>2. ~Waits("up")'
    BY <1>8, <1>a, <1>b, <2>1 DEF HandleDone, QueueInv, Waits, Idle
  <2> QED BY <1>a, <2>1, <2>2 DEF StrandInv
<1>9. CASE HandleDown
  <2>1. mask.linkUp /\ ~Waits("up")'
    BY <1>9, <1>a, QueueShrinks DEF HandleDown, LinkInv
  <2>2. /\ handler.at = "rest" /\ handler' = handler /\ stranded' = stranded
        /\ ~mask'.linkUp /\ mask'.downFor = 0 /\ mask'.wearing = mask.wearing
        /\ ~netif.dhcp => netif'.addr = netif.addr
    BY <1>9, <1>a, <2>1 DEF HandleDown, Head1, Idle, MaskState, NetPart, mvars
  <2>3. stranded > 0 /\ mask.wearing => netif.addr = VMAC /\ stranded <= CLAIM_TIMEOUT + 1
    BY <1>a, <2>1, <2>2 DEF StrandInv
  <2>4. netif.addr = VMAC => netif'.addr = VMAC
    BY <1>a, <2>2 DEF OwnAddrInv
  <2> QED BY <1>a, <2>1, <2>2, <2>3, <2>4 DEF StrandInv
<1>10. CASE HandleIp
  <2>1. ~Waits("up")'
    BY <1>10, <1>a, QueueShrinks DEF HandleIp
  <2>2. /\ ~InChain /\ ~InChain' /\ netif' = netif /\ stranded' = stranded
        /\ mask'.linkUp = mask.linkUp /\ mask'.downFor = mask.downFor /\ mask'.claimFor = mask.claimFor
        /\ mask'.wearing = mask.wearing
    BY <1>10, <1>a, FirstEvent, EventAddr DEF HandleIp, Head1, Idle, InChain, MaskState, mvars
  <2> QED BY <1>c, <2>1, <2>2
<1>11. CASE HandleLease
  <2>1. /\ ~InChain /\ ~InChain' /\ netif' = netif /\ stranded' = stranded /\ events' = events
        /\ mask'.linkUp = mask.linkUp /\ mask'.downFor = mask.downFor /\ mask'.claimFor = mask.claimFor
        /\ mask'.wearing = mask.wearing
    BY <1>11, <1>a DEF HandleLease, Idle, InChain, MaskState, mvars
  <2> QED BY <1>b, <1>c, <2>1
<1>12. CASE PhyUp
  <2>1. phy' = "up" /\ UNCHANGED <<mask, netif, handler>> /\ Recount
    BY <1>12 DEF PhyUp
  <2>2. CASE netif.addr = VMAC
    <3>1. ~Stranded'
      BY <2>1, <2>2 DEF Stranded
    <3> QED BY <2>1, <3>1, <1>d DEF Recount
  <2>3. CASE netif.addr # VMAC
    <3>1. stranded' = stranded \/ stranded' = 0
      BY <2>1 DEF Recount
    <3> QED BY <1>a, <1>d, <2>1, <2>3, <3>1 DEF StrandInv
  <2> QED BY <2>2, <2>3
<1>13. CASE Lease
  <2>1. /\ UNCHANGED <<mask, handler>> /\ stranded' = stranded /\ netif.addr # VMAC /\ netif'.addr # VMAC
    BY <1>13, <1>a DEF Lease, NetPart, mvars, NOADDR, OWN, VMAC
  <2>2. Waits("up")' => Waits("up")
    BY <1>13, <1>a, QueueGrows DEF Lease
  <2> QED BY <1>a, <2>1, <2>2 DEF StrandInv
<1>14. CASE Reboot
  BY <1>14, <1>d DEF Reboot, BootWith
<1>15. CASE MaskTime
  <2>1. /\ events = <<>> /\ handler = Idle /\ monitor.at = "rest" /\ acted
        /\ UNCHANGED <<events, handler, netif>>
        /\ mask'.linkUp = mask.linkUp /\ mask'.wearing = mask.wearing
        /\ mask'.downFor = AgedMark(mask.downFor, LINK_GRACE + 1)
        /\ mask.wearing => mask'.claimFor = Aged(mask.claimFor, CLAIM_TIMEOUT + 1)
    BY <1>15, <1>a DEF MaskTime, MaskState, AtRest
  <2>2. CASE ~Stranded
    BY <1>15, <2>2, <1>d DEF MaskTime
  <2>3. CASE Stranded
    <3>1. mask.wearing /\ stranded' \in Nat /\ stranded' <= stranded + 1 /\ \A q : ~Waits(q) /\ ~Waits(q)'
      BY <1>15, <1>a, <2>1, <2>3 DEF MaskTime, Stranded, Aged, Waits
    <3>2. phy # "up"
      <4> SUFFICES ASSUME phy = "up" PROVE FALSE
        OBVIOUS
      <4>1. Live /\ mask.linkUp
        BY <1>a, <2>1, <3>1 DEF Live, LinkInv
      <4>2. netif.addr = VMAC
        BY <2>1, <3>1, <4>1 DEF WearerInv, Idle
      <4> QED BY <2>3, <4>2 DEF Stranded
    <3>3. ~mask.linkUp
      BY <1>a, <3>1, <3>2 DEF LinkInv
    <3>4. mask.downFor # NEVER => mask.downFor <= LINK_GRACE /\ mask'.downFor = mask.downFor + 1
      <4>1. ~WireGone
        BY <1>a, <2>1, <3>1 DEF GraceInv
      <4> QED BY <1>a, <2>1, <3>3, <4>1 DEF WireGone, MaskState, AgedMark, Aged, NEVER
    <3>5. mask.downFor = NEVER =>
            /\ mask'.downFor = NEVER /\ netif.addr # VMAC
            /\ mask'.claimFor = mask.claimFor + 1
      <4> SUFFICES ASSUME mask.downFor = NEVER
                   PROVE  /\ mask'.downFor = NEVER /\ netif.addr # VMAC
                          /\ mask'.claimFor = mask.claimFor + 1
        OBVIOUS
      <4>1. ~mask.haveIp /\ netif.addr # VMAC
        BY <1>a, <3>3 DEF OwnAddrInv, Unlinked, NOADDR, VMAC
      <4>2. mask.claimFor <= CLAIM_TIMEOUT
        BY <1>a, <2>1, <3>1, <4>1 DEF GraceInv, Ticked
      <4> QED BY <1>a, <2>1, <3>1, <4>1, <4>2 DEF AgedMark, Aged, MaskState
    <3>6. handler.at = "rest"
      BY <2>1 DEF Idle
    <3>7. mask.downFor \in {NEVER} \cup 0..LINK_GRACE + 1 /\ mask.claimFor \in 0..CLAIM_TIMEOUT + 1
      BY <1>a DEF MaskState
    <3>8. CASE netif.addr = VMAC
      <4>1. stranded <= CLAIM_TIMEOUT + 1 + mask.downFor
        BY <1>a, <3>1, <3>3, <3>4, <3>5, <3>7, <3>8 DEF StrandInv, NEVER
      <4>2. stranded' <= CLAIM_TIMEOUT + 1 + mask'.downFor
        BY <1>a, <3>1, <3>4, <3>5, <3>7, <3>8, <4>1 DEF NEVER
      <4> QED BY <2>1, <3>1, <3>3, <3>6, <3>8, <4>2 DEF StrandInv
    <3>9. CASE netif.addr # VMAC
      <4>1. stranded <= IF mask.downFor = NEVER THEN mask.claimFor ELSE mask.downFor
        BY <1>a, <3>1, <3>3, <3>7, <3>9 DEF StrandInv, NEVER
      <4>2. stranded' <= IF mask'.downFor = NEVER THEN mask'.claimFor ELSE mask'.downFor
        BY <1>a, <3>1, <3>4, <3>5, <3>7, <4>1 DEF NEVER
      <4> QED BY <2>1, <3>1, <3>3, <3>6, <3>9, <4>2 DEF StrandInv
    <3> QED BY <3>8, <3>9
  <2> QED BY <2>2, <2>3
<1>16. CASE WipeCount \/ WipeDone \/ Plug \/ Serves \/ UNCHANGED maskVars
  <2>1. UNCHANGED <<events, handler, mask, netif>> /\ stranded' = stranded
    BY <1>16 DEF WipeCount, WipeDone, Plug, Serves, maskVars, mvars
  <2> QED BY <1>b, <1>e, <2>1
<1> QED BY <1>1, <1>2, <1>3, <1>4, <1>5, <1>6, <1>7, <1>8, <1>9, <1>10, <1>11, <1>12, <1>13, <1>14, <1>15, <1>16
  DEF MaskNext, MonitorTask, EventTask

LEMMA AddressStarts == MaskInit => DriverInv /\ WearerInv /\ DhcpInv /\ LeaseInv /\ OffAddr /\ NeverStranded
<1> SUFFICES ASSUME MaskInit PROVE DriverInv /\ WearerInv /\ DhcpInv /\ LeaseInv /\ OffAddr /\ NeverStranded
  OBVIOUS
<1>1. DriverInv
  BY DriverStarts
<1>2. WearerInv /\ LeaseInv
  BY DEF MaskInit, WearerInv, LeaseInv, Live, BootMask
<1>3. DhcpInv
  BY DEF MaskInit, DhcpInv, BootMask
<1>4. OwnAddrInv
  BY DEF MaskInit, OwnAddrInv, Unlinked, BootMask, Waits, NOADDR, VMAC
<1>5. GraceInv
  BY DEF MaskInit, GraceInv, BootMask, AtRest
<1>6. StrandInv /\ NeverStranded
  BY MaskTimesAssumption DEF MaskInit, StrandInv, BootMask, NeverStranded
<1> QED BY <1>1, <1>2, <1>3, <1>4, <1>5, <1>6 DEF OffAddr

LEMMA AddressFollows ==
  MaskParts /\ DriverInv /\ WearerInv /\ LeaseInv => AddressFits
<1> SUFFICES ASSUME MaskParts, DriverInv, WearerInv, LeaseInv, Settled, phy = "up", mask.lease # VMAC
             PROVE  /\ netif.mac = IF mask.wearing THEN VMAC ELSE OWN
                    /\ mask.wearing => netif.addr = VMAC /\ mask.curIp = VMAC
                    /\ ~mask.wearing => netif.addr # VMAC /\ (mask.lease = OWN => netif.addr = OWN)
  BY DEF AddressFits
<1>1. monitor.at = "rest" /\ handler.at = "rest" /\ Len(events) = 0
  BY DEF Settled, AtRest, Idle
<1>2. mask.linkUp
  BY <1>1 DEF DriverInv, LinkInv, Waits
<1> QED BY <1>1, <1>2 DEF WearerInv, LeaseInv, Live

LEMMA StrandedKept ==
  RELINK > 0 /\ LINK_GRACE <= CLAIM_TIMEOUT /\ MaskParts /\ DriverInv /\ WearerInv /\ OffAddr /\ NeverStranded
    /\ [MaskNext]_maskVars => NeverStranded'
<1> SUFFICES ASSUME RELINK > 0, LINK_GRACE <= CLAIM_TIMEOUT, MaskParts, DriverInv, WearerInv, OffAddr, NeverStranded,
                    [MaskNext]_maskVars
             PROVE  NeverStranded'
  OBVIOUS
<1>1. CASE mask'.wearing
  <2>1. (LINK_GRACE <= CLAIM_TIMEOUT /\ MaskParts /\ OwnAddrInv /\ StrandInv /\ mask.wearing => NeverStranded)'
    BY StrandBound, PTL
  <2>2. MaskParts' /\ OwnAddrInv' /\ StrandInv'
    BY MaskPartsKept, OwnAddrKept, OffAddrKept DEF OffAddr
  <2> QED BY <1>1, <2>1, <2>2
<1>2. CASE ~mask'.wearing
  <2>1. CASE MaskTime
    <3>1. mask'.wearing = mask.wearing
      BY <2>1 DEF MaskTime, MaskParts, IdentityParts, MaskPart, MaskState
    <3>2. stranded' = 0
      BY <1>2, <2>1, <3>1 DEF MaskTime, Stranded
    <3> QED BY <3>2, MaskTimesAssumption DEF NeverStranded
  <2>2. CASE ~MaskTime
    <3>1. stranded' = stranded \/ stranded' = 0
      BY <2>2 DEF MaskNext, MonitorTask, EventTask, maskVars, mvars, MonWatch, MonElect, MonClaim, MonDrop,
         SwapStop, SwapMac, SwapStart, MonTick, MonSave, HandleUp, HandleBranch, HandleApply, HandleDone, HandleDown,
         HandleIp, HandleLease, WipeCount, WipeDone, PhyUp, Unplug, Plug, Lease, Serves, Reboot, BootWith, Recount
    <3> QED BY <3>1, MaskTimesAssumption DEF NeverStranded
  <2> QED BY <2>1, <2>2
<1> QED BY <1>1, <1>2

\* For any timers, and with any number of events outstanding: as long as a relink
\* takes more than one turn of the monitor (mask.c:134), what swap_identity, its
\* bounce and the link and address handlers leave on a live link is the address
\* that goes with the MAC.
THEOREM AddressRight == RELINK > 1 => (MaskSpec => []AddressFits)
<1> SUFFICES ASSUME RELINK > 1 PROVE MaskSpec => []AddressFits
  OBVIOUS
<1>0. RELINK > 0
  BY MaskTimesAssumption
<1> DEFINE I == MaskParts /\ DriverInv /\ WearerInv /\ DhcpInv /\ LeaseInv
<1>1. MaskInit => I
  BY MaskPartsStart, AddressStarts
<1>2. I /\ [MaskNext]_maskVars => I'
  BY <1>0, MaskPartsKept, DriverKept, WearerKept, DhcpKept, LeaseKept
<1>3. I => AddressFits
  BY AddressFollows
<1> QED BY <1>1, <1>2, <1>3, PTL DEF MaskSpec

\* However often cable, handlers and elections cross: mask_tick and the abdication
\* of swarm_monitor_task take the mask off a blade whose address leads nowhere
\* within a claim and a link grace, if the grace is no longer than the claim.
THEOREM NotStranded == RELINK > 0 /\ LINK_GRACE <= CLAIM_TIMEOUT => (MaskSpec => []NeverStranded)
<1> SUFFICES ASSUME RELINK > 0, LINK_GRACE <= CLAIM_TIMEOUT PROVE MaskSpec => []NeverStranded
  OBVIOUS
<1> DEFINE I == MaskParts /\ DriverInv /\ WearerInv /\ OffAddr /\ NeverStranded
<1>1. MaskInit => I
  BY MaskPartsStart, AddressStarts
<1>2. I /\ [MaskNext]_maskVars => I'
  <2>1. I /\ [MaskNext]_maskVars => OffAddr'
    BY OwnAddrKept, GraceKept, OffAddrKept DEF OffAddr
  <2> QED BY <2>1, MaskPartsKept, DriverKept, WearerKept, StrandedKept
<1> QED BY <1>1, <1>2, PTL DEF MaskSpec

----------------------------------------------------------------------------
(* What the fleet takes for granted of a blade *)

Id == INSTANCE Identity WITH
  wearing <- mask.wearing, live <- Live, address <- mask.haveIp,
  downFor <- mask.downFor, claimFor <- mask.claimFor, leads <- (book.leader = "me"), watched <- acted

\* The mask is on a blade that elected itself, until the drain before the drop.
CrownInv ==
  /\ mask.wearing /\ monitor.at # "drop" => book.leader = "me"
  /\ monitor.at = "claim" => book.leader = "me"

\* A wearer whose link has been handled has its address.
HeldInv == Live /\ mask.wearing /\ mask.linkUp /\ ~InChain => mask.haveIp

WiredInv == phy = "up" => wire

LEMMA CrownKept == MaskParts /\ CrownInv /\ [MaskNext]_maskVars => CrownInv'
<1> SUFFICES ASSUME MaskParts, CrownInv, [MaskNext]_maskVars PROVE CrownInv'
  OBVIOUS
<1>a. mask \in MaskState /\ MonitorPart /\ BookPart
  BY DEF MaskParts, IdentityParts, MaskPart
<1>b. ASSUME mask'.wearing => mask.wearing, book'.leader = book.leader,
             monitor.at # "drop" \/ monitor' = monitor, monitor'.at # "claim" \/ monitor' = monitor
      PROVE  CrownInv'
  BY <1>b DEF CrownInv
<1>1. CASE MonWatch
  <2>1. CASE mask.wearing /\ WireGone
    <3>1. mask' = [mask EXCEPT !.wearing = FALSE, !.haveIp = FALSE] /\ SwapThen("elect")
      BY <1>1, <2>1, Zenon DEF MonWatch
    <3> QED BY <1>a, <3>1 DEF CrownInv, SwapThen, MaskState
  <2>2. CASE ~(mask.wearing /\ WireGone)
    <3>1. mask' = mask /\ book' = book /\ monitor.at = "rest" /\ monitor'.at = "elect"
      BY <1>1, <2>2 DEF MonWatch, GoOn
    <3> QED BY <1>b, <3>1
  <2> QED BY <2>1, <2>2
<1>2. CASE MonElect
  <2>1. monitor.at = "elect" /\ mask' = mask
    BY <1>2 DEF MonElect
  <2>2. CASE GoOn("tick") /\ book' = book
    BY <1>b, <2>1, <2>2 DEF GoOn
  <2>3. CASE \E who \in Answers \ {book.leader} : NewAnswer(who)
    <3>1. PICK who \in Answers : NewAnswer(who)
      BY <2>3
    <3>2. book'.leader = who
      BY <1>a, <3>1 DEF NewAnswer, BookPart
    <3>3. CASE who = "me"
      BY <3>2, <3>3 DEF CrownInv
    <3>4. CASE who # "me"
      <4>1. monitor'.at = IF mask.wearing THEN "drop" ELSE "tick"
        BY <3>1, <3>4 DEF NewAnswer
      <4> QED BY <2>1, <4>1 DEF CrownInv
    <3> QED BY <3>3, <3>4
  <2> QED BY <1>2, <2>2, <2>3 DEF MonElect
<1>3. CASE MonClaim
  <2>1. book.leader = "me" /\ book' = book
    BY <1>3 DEF MonClaim, CrownInv
  <2> QED BY <2>1 DEF CrownInv
<1>4. CASE MonDrop
  <2>1. ~mask'.wearing /\ monitor'.at = "stop"
    BY <1>4, <1>a DEF MonDrop, SwapThen, MaskState
  <2> QED BY <2>1 DEF CrownInv
<1>5. CASE SwapStop \/ SwapMac \/ SwapStart
  <2>1. /\ book' = book /\ mask'.wearing = mask.wearing
        /\ monitor.at # "drop" /\ monitor'.at # "claim"
    BY <1>5, <1>a DEF SwapStop, SwapMac, SwapStart, GoOn, MonitorPart, MaskState
  <2> QED BY <1>b, <2>1
<1>6. CASE MonTick
  <2>1. book' = book /\ monitor.at = "tick" /\ monitor'.at # "claim"
    BY <1>6 DEF MonTick, GoOn, SwapThen
  <2>2. mask'.wearing => mask.wearing
    BY <1>6, <1>a DEF MonTick, MaskState
  <2> QED BY <1>b, <2>1, <2>2
<1>7. CASE MonSave
  <2>1. mask' = mask /\ book'.leader = book.leader /\ monitor.at = "save" /\ monitor'.at = "rest"
    BY <1>7, <1>a DEF MonSave, AtRest, BookPart
  <2> QED BY <1>b, <2>1
<1>8. CASE EventTask
  <2>1. UNCHANGED <<monitor, book>>
    BY <1>8 DEF EventTask, HandleUp, HandleBranch, HandleApply, HandleDone, HandleDown, HandleIp, HandleLease
  <2>2. mask'.wearing = mask.wearing
    BY <1>8, <1>a DEF EventTask, HandleUp, HandleBranch, HandleApply, HandleDone, HandleDown, HandleIp, HandleLease, MaskState
  <2> QED BY <1>b, <2>1, <2>2
<1>9. CASE WipeCount \/ WipeDone
  <2>1. UNCHANGED <<monitor, mask>> /\ book'.leader = book.leader
    BY <1>9, <1>a DEF WipeCount, WipeDone, BookPart
  <2> QED BY <1>b, <2>1
<1>10. CASE PhyUp \/ Unplug \/ Plug \/ Lease \/ Serves \/ UNCHANGED maskVars
  <2>1. UNCHANGED <<monitor, mask, book>>
    BY <1>10 DEF PhyUp, Unplug, Plug, Lease, Serves, maskVars
  <2> QED BY <1>b, <2>1
<1>11. CASE Reboot
  BY <1>11 DEF Reboot, BootWith, BootMask, AtRest, CrownInv
<1>12. CASE MaskTime
  <2>1. monitor' = monitor /\ mask'.wearing = mask.wearing /\ book'.leader = book.leader
    BY <1>12, <1>a DEF MaskTime, MaskState, BookPart
  <2> QED BY <1>b, <2>1
<1> QED BY <1>1, <1>2, <1>3, <1>4, <1>5, <1>6, <1>7, <1>8, <1>9, <1>10, <1>11, <1>12 DEF MaskNext, MonitorTask

LEMMA HeldKept == RELINK > 0 /\ MaskParts /\ DriverInv /\ HeldInv /\ [MaskNext]_maskVars => HeldInv'
<1> SUFFICES ASSUME RELINK > 0, MaskParts, DriverInv, HeldInv, [MaskNext]_maskVars PROVE HeldInv'
  OBVIOUS
<1>a. mask \in MaskState /\ MonitorPart /\ HandlerPart /\ LinkInv
  BY DEF MaskParts, IdentityParts, MaskPart, DriverInv
<1>b. ASSUME Live' /\ mask'.wearing => Live /\ mask.wearing, mask'.linkUp = mask.linkUp, mask'.haveIp = mask.haveIp,
             InChain => InChain'
      PROVE  HeldInv'
  BY <1>b DEF HeldInv
<1>c. ASSUME ~Live' \/ ~mask'.wearing \/ ~mask'.linkUp \/ InChain' \/ mask'.haveIp PROVE HeldInv'
  BY <1>c DEF HeldInv
<1>1. CASE MonWatch \/ MonElect \/ MonClaim \/ MonDrop
  <2>1. CASE monitor'.at = "stop"
    BY <1>c, <2>1 DEF Live
  <2>2. CASE monitor'.at # "stop"
    <3>1. phy' = phy /\ handler' = handler /\ mask' = mask /\ monitor.at # "stop"
      BY <1>1, <1>a, <2>2 DEF MonWatch, MonElect, MonClaim, MonDrop, SwapThen, link
    <3> QED BY <1>b, <3>1 DEF Live, InChain
  <2> QED BY <2>1, <2>2
<1>2. CASE SwapStop \/ SwapMac \/ SwapStart
  <2>1. phy' # "up"
    BY <1>2, <1>a DEF SwapStop, SwapMac, SwapStart, link, LinkInv
  <2> QED BY <1>c, <2>1 DEF Live
<1>3. CASE MonTick
  <2>1. UNCHANGED <<phy, handler>> /\ monitor.at # "stop" /\ mask'.linkUp = mask.linkUp /\ mask'.haveIp = mask.haveIp
    BY <1>3, <1>a DEF MonTick, link, MaskState
  <2>2. ~Live' \/ mask'.wearing = mask.wearing
    BY <1>3, <1>a, TickSwaps DEF Live
  <2> QED BY <1>b, <2>1, <2>2 DEF Live, InChain
<1>4. CASE MonSave
  <2>1. UNCHANGED <<phy, handler, mask>> /\ monitor.at # "stop"
    BY <1>4 DEF MonSave, link
  <2> QED BY <1>b, <2>1 DEF Live, InChain
<1>5. CASE HandleUp \/ HandleApply
  BY <1>5, <1>a, <1>c DEF HandleUp, HandleApply, InChain, Idle, HandlerPart
<1>6. CASE HandleBranch
  BY <1>6, <1>c DEF HandleBranch, InChain
<1>7. CASE HandleDone \/ HandleDown \/ HandleIp
  BY <1>7, <1>a, <1>c DEF HandleDone, HandleDown, HandleIp, MaskState
<1>8. CASE HandleLease
  <2>1. UNCHANGED <<phy, monitor>> /\ ~InChain
    BY <1>8 DEF HandleLease, link, InChain
  <2>2. mask'.wearing = mask.wearing /\ mask'.linkUp = mask.linkUp /\ mask'.haveIp = mask.haveIp
    BY <1>8, <1>a DEF HandleLease, MaskState
  <2> QED BY <1>b, <2>1, <2>2 DEF Live
<1>9. CASE PhyUp
  <2>1. phy = "down" /\ relink = 0 /\ mask' = mask
    BY <1>9 DEF PhyUp
  <2>2. Len(events) = 0
    BY <1>a, <2>1 DEF LinkInv
  <2>3. ~mask'.linkUp
    BY <1>a, <2>1, <2>2 DEF LinkInv, Waits
  <2> QED BY <1>c, <2>3
<1>10. CASE Unplug \/ Plug \/ Lease \/ Serves \/ WipeCount \/ WipeDone \/ UNCHANGED maskVars
  <2>1. UNCHANGED <<mask, monitor, handler>> /\ (phy' = "up" => phy = "up")
    BY <1>10 DEF Unplug, Plug, Lease, Serves, WipeCount, WipeDone, maskVars, link
  <2> QED BY <1>b, <2>1 DEF Live, InChain
<1>11. CASE Reboot
  BY <1>11, <1>c DEF Reboot, BootWith, BootMask
<1>12. CASE MaskTime
  <2>1. /\ UNCHANGED <<phy, monitor, handler>> /\ mask'.wearing = mask.wearing
        /\ mask'.linkUp = mask.linkUp /\ mask'.haveIp = mask.haveIp
    BY <1>12, <1>a DEF MaskTime, MaskState
  <2> QED BY <1>b, <2>1 DEF Live, InChain
<1> QED BY <1>1, <1>2, <1>3, <1>4, <1>5, <1>6, <1>7, <1>8, <1>9, <1>10, <1>11, <1>12 DEF MaskNext, MonitorTask, EventTask

LEMMA WiredKept == WiredInv /\ [MaskNext]_maskVars => WiredInv'
BY DEF WiredInv, MaskNext, MonitorTask, EventTask, maskVars, link, outside, MonWatch, MonElect, MonClaim, MonDrop,
   SwapStop, SwapMac, SwapStart, MonTick, MonSave, HandleUp, HandleBranch, HandleApply, HandleDone, HandleDown,
   HandleIp, HandleLease, WipeCount, WipeDone, PhyUp, Unplug, Plug, Lease, Serves, Reboot, BootWith, MaskTime

\* Every step is a swap, a rise or a fall of the face, or leaves it alone.
LEMMA FaceSteps ==
  ASSUME MaskParts, [MaskNext]_maskVars
  PROVE  [Id!Swap \/ Id!Rise \/ Id!Fall]_(Id!face)
<1>a. mask \in MaskState /\ mask' \in MaskState
  BY MaskPartsKept DEF MaskParts, IdentityParts, MaskPart
<1>1. SUFFICES mask'.wearing = mask.wearing \/ ~Live'
  BY <1>a DEF MaskState, Live, Id!Swap, Id!Rise, Id!Fall, Id!face
<1>2. CASE MonWatch \/ MonElect \/ MonClaim \/ MonDrop
  <2>1. monitor'.at = "stop" \/ mask' = mask
    BY <1>2 DEF MonWatch, MonElect, MonClaim, MonDrop, SwapThen
  <2> QED BY <2>1 DEF Live
<1>3. CASE SwapStop \/ SwapMac \/ SwapStart \/ MonSave
  BY <1>3, <1>a DEF SwapStop, SwapMac, SwapStart, MonSave, MaskState
<1>4. CASE MonTick
  BY <1>4, <1>a, TickSwaps DEF Live
<1>5. CASE EventTask
  BY <1>5, <1>a DEF EventTask, HandleUp, HandleBranch, HandleApply, HandleDone, HandleDown, HandleIp, HandleLease, MaskState
<1>6. CASE WipeCount \/ WipeDone \/ PhyUp \/ Unplug \/ Plug \/ Lease \/ Serves \/ UNCHANGED maskVars
  BY <1>6 DEF WipeCount, WipeDone, PhyUp, Unplug, Plug, Lease, Serves, maskVars
<1>7. CASE Reboot
  BY <1>7 DEF Reboot, BootWith, Live
<1>8. CASE MaskTime
  BY <1>8, <1>a DEF MaskTime, MaskState
<1> QED BY <1>2, <1>3, <1>4, <1>5, <1>6, <1>7, <1>8 DEF MaskNext, MonitorTask

\* At rest mask.c's link is the driver's, the MAC goes with the mask, and the blade
\* is whole.
AtRestWhole ==
  Settled =>
    /\ Id!Whole
    /\ mask.linkUp <=> Live
    /\ netif.mac = IF mask.wearing THEN VMAC ELSE OWN

\* However monitor, handlers, cable and elections interleave: a blade changes its
\* face only by a swap that takes its link down, and whenever its events have been
\* handled it is what a node of Swarm is between two steps.
THEOREM MaskWhole == RELINK > 0 => (MaskSpec => Id!Spec /\ []AtRestWhole)
<1> SUFFICES ASSUME RELINK > 0 PROVE MaskSpec => Id!Spec /\ []AtRestWhole
  OBVIOUS
<1> DEFINE I == MaskParts /\ DriverInv /\ WearerInv /\ OwnAddrInv /\ GraceInv /\ CrownInv /\ HeldInv /\ WiredInv
<1>1. MaskInit => I /\ (mask.wearing => Live)
  <2>1. MaskInit => MaskParts /\ DriverInv /\ WearerInv /\ OwnAddrInv /\ GraceInv
    BY MaskPartsStart, AddressStarts DEF OffAddr
  <2>2. MaskInit => CrownInv /\ HeldInv /\ WiredInv /\ ~mask.wearing
    BY DEF MaskInit, CrownInv, HeldInv, WiredInv, BootMask, AtRest
  <2> QED BY <2>1, <2>2
<1>2. I /\ [MaskNext]_maskVars => I' /\ [Id!Swap \/ Id!Rise \/ Id!Fall]_(Id!face)
  BY MaskPartsKept, DriverKept, WearerKept, OwnAddrKept, GraceKept, CrownKept, HeldKept, WiredKept, FaceSteps
<1>3. I => AtRestWhole
  <2> SUFFICES ASSUME I, Settled
               PROVE  Id!Whole /\ (mask.linkUp <=> Live) /\ netif.mac = IF mask.wearing THEN VMAC ELSE OWN
    BY DEF AtRestWhole
  <2>1. monitor.at = "rest" /\ handler.at = "rest" /\ Len(events) = 0
    BY DEF Settled, AtRest, Idle
  <2>2. mask.linkUp <=> Live
    BY <2>1 DEF DriverInv, LinkInv, Waits, Live, MaskParts, IdentityParts, LinkPart
  <2>3. netif.mac = IF mask.wearing THEN VMAC ELSE OWN
    BY <2>1 DEF WearerInv
  <2>4. /\ mask \in MaskState /\ (mask.downFor = NEVER \/ mask.downFor \in Nat) /\ LINK_GRACE \in Nat
        /\ mask.claimFor \in Nat /\ CLAIM_TIMEOUT \in Nat
    BY MaskTimesAssumption DEF MaskParts, IdentityParts, MaskPart, MaskState
  <2>5. (Live => wire) /\ (mask.wearing => book.leader = "me") /\ (mask.wearing /\ Live => mask.haveIp)
    BY <2>1, <2>2 DEF WiredInv, CrownInv, HeldInv, Live, InChain
  <2>6. mask.haveIp => Live \/ mask.downFor >= 0
    BY <2>2, <2>4 DEF OwnAddrInv, Unlinked
  <2>7. mask.wearing /\ acted =>
          /\ Live \/ mask.downFor <= LINK_GRACE
          /\ mask.haveIp \/ mask.claimFor <= CLAIM_TIMEOUT
    BY <2>1, <2>2, <2>4 DEF GraceInv, Ticked, WireGone, NEVER
  <2> QED BY <2>2, <2>3, <2>5, <2>6, <2>7 DEF Id!Whole
<1> QED BY <1>1, <1>2, <1>3, PTL DEF MaskSpec, Id!Spec

----------------------------------------------------------------------------
(* The tally of refusals *)

\* Who has a refusal that the counters do not know, and that no face shows yet.
Uncounted == {c \in Counter : job[c].at \in {"tally", "count"}}
Unseen    == {s \in Server : job[s].at # "rest"}
Pending   == {c \in Counter : job[c].at # "rest"}

\* Who has raised the tally of a kind and not the counter.
Ours   == {s \in Server : job[s].at = "count" /\ job[s].ours}
Theirs == {s \in Server : job[s].at = "count" /\ ~job[s].ours}

TallyTypes ==
  /\ served \in 0..MAX_SERVED
  /\ kinds \in [srv : 0..KIND_MAX, rest : 0..KIND_MAX]
  /\ job \in [Counter -> [at : Doing, ours : BOOLEAN]] /\ job[SPLICER].at \in {"rest", "count"}
  /\ wiping \in {"rest", "all", "srv", "kinds"}

FlagTypes == spliced \in BOOLEAN /\ muddled \in BOOLEAN

\* No counter outgrows the refusals it has had and those still to come.
CountTypes ==
  /\ err \in [all : Nat, srv : Nat]
  /\ err.all + Cardinality(Uncounted) <= MAX_REFUSED
  /\ err.srv + Cardinality(Uncounted) <= MAX_REFUSED

FaceTypes ==
  /\ sampled \in Seq(Server) /\ faces.total = Len(sampled)
  /\ faces \in [rec : [0..RING - 1 -> Server \cup {NOFACE}], total : Nat]
  /\ Len(sampled) + Cardinality(Unseen) <= MAX_REFUSED

\* The books, while the splicer has had no part in them and no wipe has met a
\* refusal: a tally that is not full is ahead of its counter by those who have
\* raised one and not the other.  A wipe finds every server at rest.
Clean == ~spliced /\ ~muddled /\ job[SPLICER].at = "rest"

Books ==
  Clean =>
    /\ wiping = "rest" =>
         /\ kinds.srv < KIND_MAX => kinds.srv = err.srv + Cardinality(Ours)
         /\ kinds.rest < KIND_MAX => kinds.rest = err.all - err.srv + Cardinality(Theirs)
    /\ wiping \in {"srv", "kinds"} => err.all = 0
    /\ wiping = "kinds" => err.srv = 0

WipeAlone == ~muddled /\ wiping # "rest" => Unseen = {}

\* The last RING faces stand where their numbers say.
Shown ==
  \A i \in 1..Len(sampled) : i > Len(sampled) - RING => faces.rec[(i - 1) % RING] = sampled[i]

TallyInv == TallyTypes /\ FlagTypes /\ CountTypes /\ FaceTypes /\ Books /\ WipeAlone /\ Shown

LEMMA Counters ==
  /\ IsFiniteSet(Counter) /\ SPLICER \in Counter /\ Server \subseteq Counter
  /\ IsFiniteSet(Server) /\ SPLICER \notin Server
<1>1. IsFiniteSet(Server) /\ SPLICER \notin Server BY LedgerAssumption DEF SPLICER
<1> QED BY <1>1, FS_AddElement DEF Counter

\* The sets of refusals under way are finite.
LEMMA JobSets ==
  /\ IsFiniteSet(Uncounted) /\ IsFiniteSet(Unseen) /\ IsFiniteSet(Pending)
  /\ Cardinality(Uncounted) \in Nat /\ Cardinality(Unseen) \in Nat /\ Cardinality(Pending) \in Nat
  /\ IsFiniteSet(Ours) /\ Cardinality(Ours) \in Nat /\ IsFiniteSet(Theirs) /\ Cardinality(Theirs) \in Nat
<1>1. Uncounted \subseteq Counter /\ Unseen \subseteq Counter /\ Pending \subseteq Counter
  BY Counters DEF Uncounted, Unseen, Pending
<1>2. Ours \subseteq Counter /\ Theirs \subseteq Counter
  BY Counters DEF Ours, Theirs
<1>3. \A S : S \subseteq Counter => IsFiniteSet(S) /\ Cardinality(S) \in Nat
  BY Counters, FS_Subset, FS_CardinalityType
<1> QED BY <1>1, <1>2, <1>3

LEMMA JobSetsThen ==
  (/\ IsFiniteSet(Uncounted) /\ IsFiniteSet(Unseen) /\ IsFiniteSet(Pending)
   /\ Cardinality(Uncounted) \in Nat /\ Cardinality(Unseen) \in Nat /\ Cardinality(Pending) \in Nat
   /\ IsFiniteSet(Ours) /\ Cardinality(Ours) \in Nat /\ IsFiniteSet(Theirs) /\ Cardinality(Theirs) \in Nat)'
BY JobSets, PTL

LEMMA Grows ==
  ASSUME NEW S, NEW x, IsFiniteSet(S), x \notin S, NEW T, T = S \cup {x}
  PROVE  Cardinality(T) = Cardinality(S) + 1
BY FS_AddElement

LEMMA Shrinks ==
  ASSUME NEW S, NEW x, IsFiniteSet(S), x \in S, NEW T, T = S \ {x}
  PROVE  Cardinality(T) = Cardinality(S) - 1
BY FS_RemoveElement

LEMMA Fewer ==
  ASSUME NEW S, IsFiniteSet(S), NEW T, T \subseteq S
  PROVE  Cardinality(T) <= Cardinality(S)
BY FS_Subset

LEMMA TallyStarts == LedgerInit => TallyInv
<1> SUFFICES ASSUME LedgerInit PROVE TallyInv
  OBVIOUS
<1>1. \A c \in Counter : job[c].at = "rest" /\ job[c] \in [at : Doing, ours : BOOLEAN]
  BY DEF LedgerInit, NoJob, Doing
<1>2. Uncounted = {} /\ Unseen = {} /\ Ours = {} /\ Theirs = {}
  BY <1>1, Counters DEF Uncounted, Unseen, Ours, Theirs
<1>3. Cardinality({}) = 0 BY FS_EmptySet
<1>4. TallyTypes
  <2>1. /\ job \in [Counter -> [at : Doing, ours : BOOLEAN]] /\ job[SPLICER].at = "rest"
        /\ served = 0 /\ kinds = [srv |-> 0, rest |-> 0] /\ wiping = "rest"
    BY <1>1, Counters DEF LedgerInit
  <2> QED BY <2>1, LedgerAssumption DEF TallyTypes
<1>5. CountTypes
  BY <1>2, <1>3, LedgerAssumption DEF LedgerInit, CountTypes
<1>6. FaceTypes
  BY <1>2, <1>3, LedgerAssumption DEF LedgerInit, FaceTypes
<1>7. Books
  <2>1. Cardinality(Ours) = 0 /\ Cardinality(Theirs) = 0 BY <1>2, <1>3
  <2>2. kinds.srv = 0 /\ kinds.rest = 0 /\ err.srv = 0 /\ err.all = 0 /\ wiping = "rest"
    BY DEF LedgerInit
  <2> QED BY <2>1, <2>2, SMT DEF Books
<1>8. FlagTypes BY DEF LedgerInit, FlagTypes
<1>9. WipeAlone BY DEF LedgerInit, WipeAlone
<1>10. Shown BY DEF LedgerInit, Shown
<1> QED BY <1>4, <1>5, <1>6, <1>7, <1>8, <1>9, <1>10 DEF TallyInv

LEMMA FlagsKept == FlagTypes /\ [LedgerNext]_ledgerVars => FlagTypes'
<1> SUFFICES ASSUME FlagTypes, [LedgerNext]_ledgerVars PROVE FlagTypes'
  OBVIOUS
<1>1. CASE WipeServed BY <1>1, Zenon DEF WipeServed, Busy, FlagTypes
<1>2. ASSUME NEW s \in Server, Refusal(s) PROVE FlagTypes'
  BY <1>2, Zenon DEF Refusal, FlagTypes
<1>3. CASE SpliceCount BY <1>3, Zenon DEF SpliceCount, FlagTypes
<1>4. CASE UNCHANGED <<spliced, muddled>> BY <1>4, Zenon DEF FlagTypes
<1> QED BY <1>1, <1>2, <1>3, <1>4
  DEF LedgerNext, ledgerVars, Serve, SpliceRefused, Tally, CountRefusal, Sample, WipeAll, WipeSrv, WipeKinds

LEMMA TallyTypesKept == TallyTypes /\ [LedgerNext]_ledgerVars => TallyTypes'
<1> SUFFICES ASSUME TallyTypes, [LedgerNext]_ledgerVars PROVE TallyTypes'
  OBVIOUS
<1>a. /\ KIND_MAX \in Nat /\ MAX_SERVED \in Nat /\ SPLICER \in Counter
      /\ Server \subseteq Counter /\ SPLICER \notin Server /\ ADMIN \in Server
  BY LedgerAssumption, Counters
<1> USE <1>a DEF TallyTypes, Doing
<1>1. CASE Serve
  BY <1>1 DEF Serve
<1>2. CASE SpliceRefused \/ SpliceCount
  <2>1. PICK l \in {"rest", "count"} : job' = [job EXCEPT ![SPLICER].at = l]
    BY <1>2 DEF SpliceRefused, SpliceCount, At
  <2>2. UNCHANGED <<served, kinds, wiping>>
    BY <1>2 DEF SpliceRefused, SpliceCount
  <2> QED BY <2>1, <2>2
<1>3. ASSUME NEW s \in Server, Refusal(s) PROVE TallyTypes'
  <2>1. PICK ours \in BOOLEAN : job' = [job EXCEPT ![s] = [at |-> "tally", ours |-> ours]]
    BY <1>3 DEF Refusal
  <2>2. UNCHANGED <<served, kinds, wiping>>
    BY <1>3 DEF Refusal
  <2> QED BY <2>1, <2>2
<1>4. ASSUME NEW s \in Server, Tally(s) PROVE TallyTypes'
  BY <1>4 DEF Tally, At, Raised
<1>5. ASSUME NEW s \in Server, CountRefusal(s) PROVE TallyTypes'
  BY <1>5 DEF CountRefusal, At
<1>6. ASSUME NEW s \in Server, Sample(s) PROVE TallyTypes'
  BY <1>6 DEF Sample, NoJob
<1>7. CASE WipeServed
  <2>1. served' = 0 /\ wiping' = "all" /\ UNCHANGED <<kinds, job>>
    BY <1>7 DEF WipeServed
  <2> QED BY <2>1
<1>8. CASE WipeAll \/ WipeSrv
  BY <1>8 DEF WipeAll, WipeSrv
<1>9. CASE WipeKinds
  BY <1>9 DEF WipeKinds, Wiped
<1>10. CASE UNCHANGED ledgerVars
  BY <1>10 DEF ledgerVars
<1> QED BY <1>1, <1>2, <1>3, <1>4, <1>5, <1>6, <1>7, <1>8, <1>9, <1>10 DEF LedgerNext

\* Who is at what, after each step of a refusal.
LEMMA RefusalJobs ==
  ASSUME TallyTypes, NEW s \in Server, Refusal(s)
  PROVE  /\ Unseen' = Unseen \cup {s} /\ s \notin Unseen
         /\ Uncounted' \subseteq Pending \cup {s} /\ s \notin Pending
         /\ Ours' = Ours /\ Theirs' = Theirs
<1> USE Counters DEF TallyTypes, Doing, Unseen, Uncounted, Pending, Ours, Theirs
<1>1. PICK ours \in BOOLEAN : job' = [job EXCEPT ![s] = [at |-> "tally", ours |-> ours]]
  BY DEF Refusal
<1>2. job[s].at = "rest" BY DEF Refusal
<1> QED BY <1>1, <1>2

LEMMA TallyJobs ==
  ASSUME TallyTypes, NEW s \in Server, Tally(s)
  PROVE  /\ Unseen' = Unseen /\ Uncounted' = Uncounted /\ s \notin Ours /\ s \notin Theirs
         /\ Ours' = IF job[s].ours THEN Ours \cup {s} ELSE Ours
         /\ Theirs' = IF job[s].ours THEN Theirs ELSE Theirs \cup {s}
BY Counters DEF TallyTypes, Doing, Unseen, Uncounted, Pending, Ours, Theirs, Tally, At

LEMMA CountJobs ==
  ASSUME TallyTypes, NEW s \in Server, CountRefusal(s)
  PROVE  /\ Unseen' = Unseen /\ s \in Uncounted /\ Uncounted' = Uncounted \ {s}
         /\ IF job[s].ours THEN s \in Ours /\ Ours' = Ours \ {s} /\ Theirs' = Theirs
                           ELSE s \in Theirs /\ Theirs' = Theirs \ {s} /\ Ours' = Ours
BY Counters DEF TallyTypes, Doing, Unseen, Uncounted, Pending, Ours, Theirs, CountRefusal, At

LEMMA SampleJobs ==
  ASSUME TallyTypes, NEW s \in Server, Sample(s)
  PROVE  /\ s \in Unseen /\ Unseen' = Unseen \ {s} /\ Uncounted' = Uncounted
         /\ Ours' = Ours /\ Theirs' = Theirs
BY Counters DEF TallyTypes, Doing, Unseen, Uncounted, Pending, Ours, Theirs, Sample, NoJob

LEMMA SpliceJobs ==
  ASSUME TallyTypes
  PROVE  /\ SpliceRefused => /\ Uncounted' \subseteq Pending \cup {SPLICER} /\ SPLICER \notin Pending
                             /\ UNCHANGED <<Unseen, Ours, Theirs>>
         /\ SpliceCount => /\ SPLICER \in Uncounted /\ Uncounted' = Uncounted \ {SPLICER}
                           /\ UNCHANGED <<Unseen, Ours, Theirs>>
BY Counters
DEF TallyTypes, Doing, Unseen, Uncounted, Pending, Ours, Theirs, SpliceRefused, SpliceCount, At

LEMMA SameJobs ==
  ASSUME job' = job PROVE UNCHANGED <<Unseen, Uncounted, Ours, Theirs>>
BY DEF Unseen, Uncounted, Ours, Theirs

LEMMA CountsKept == TallyTypes /\ CountTypes /\ [LedgerNext]_ledgerVars => CountTypes'
<1> SUFFICES ASSUME TallyTypes, CountTypes, [LedgerNext]_ledgerVars PROVE CountTypes'
  OBVIOUS
<1>a. err \in [all : Nat, srv : Nat] /\ MAX_REFUSED \in Nat
  BY LedgerAssumption DEF CountTypes
<1>b. /\ IsFiniteSet(Uncounted) /\ Cardinality(Uncounted) \in Nat
      /\ IsFiniteSet(Pending) /\ Cardinality(Pending) \in Nat
  BY JobSets
<1>c. Cardinality(Uncounted') \in Nat
  BY JobSetsThen
<1>d. /\ err.all + Cardinality(Uncounted) <= MAX_REFUSED
      /\ err.srv + Cardinality(Uncounted) <= MAX_REFUSED
  BY DEF CountTypes
<1>1. ASSUME NEW c, c \notin Pending, Uncounted' \subseteq Pending \cup {c}, MoreRefusals, err' = err
      PROVE  CountTypes'
  <2>1. Cardinality(Pending \cup {c}) = Cardinality(Pending) + 1 /\ IsFiniteSet(Pending \cup {c})
    BY <1>1, <1>b, FS_AddElement
  <2>2. Cardinality(Uncounted') <= Cardinality(Pending) + 1
    BY <1>1, <2>1, Fewer
  <2>3. err.all + Cardinality(Pending) < MAX_REFUSED /\ err.srv + Cardinality(Pending) < MAX_REFUSED
    BY <1>1 DEF MoreRefusals, Pending
  <2> QED BY <1>1, <1>a, <1>b, <1>c, <2>2, <2>3 DEF CountTypes
<1>2. ASSUME NEW c \in Uncounted, Uncounted' = Uncounted \ {c},
             err'.all = err.all + 1, err'.srv \in {err.srv, err.srv + 1},
             err' \in [all : Nat, srv : Nat]
      PROVE  CountTypes'
  <2>1. Cardinality(Uncounted') = Cardinality(Uncounted) - 1
    BY <1>2, <1>b, Shrinks
  <2> QED BY <1>2, <1>a, <1>b, <1>c, <1>d, <2>1 DEF CountTypes
<1>3. ASSUME NEW s \in Server, Refusal(s) PROVE CountTypes'
  BY <1>1, <1>3, RefusalJobs DEF Refusal
<1>4. CASE SpliceRefused
  BY <1>1, <1>4, SpliceJobs DEF SpliceRefused
<1>5. ASSUME NEW s \in Server, CountRefusal(s) PROVE CountTypes'
  <2>1. s \in Uncounted /\ Uncounted' = Uncounted \ {s} BY <1>5, CountJobs
  <2>2. err'.all = err.all + 1 /\ err'.srv \in {err.srv, err.srv + 1} /\ err' \in [all : Nat, srv : Nat]
    BY <1>5, <1>a DEF CountRefusal
  <2> QED BY <1>2, <2>1, <2>2
<1>6. CASE SpliceCount
  <2>1. SPLICER \in Uncounted /\ Uncounted' = Uncounted \ {SPLICER} BY <1>6, SpliceJobs
  <2>2. err'.all = err.all + 1 /\ err'.srv \in {err.srv, err.srv + 1} /\ err' \in [all : Nat, srv : Nat]
    BY <1>6, <1>a DEF SpliceCount
  <2> QED BY <1>2, <2>1, <2>2
<1>7. ASSUME Uncounted' = Uncounted, err' \in [all : {0, err.all}, srv : {0, err.srv}] PROVE CountTypes'
  BY <1>7, <1>a, <1>b, <1>d DEF CountTypes
<1>8. ASSUME NEW s \in Server, Tally(s) \/ Sample(s) PROVE CountTypes'
  <2>1. Uncounted' = Uncounted BY <1>8, TallyJobs, SampleJobs
  <2>2. err' = err BY <1>8 DEF Tally, Sample
  <2> QED BY <1>7, <1>a, <2>1, <2>2
<1>9. CASE WipeAll \/ WipeSrv
  <2>1. Uncounted' = Uncounted BY <1>9, SameJobs DEF WipeAll, WipeSrv
  <2>2. err' \in [all : {0, err.all}, srv : {0, err.srv}]
    BY <1>9, <1>a DEF WipeAll, WipeSrv, Wiped
  <2> QED BY <1>7, <2>1, <2>2
<1>10. CASE UNCHANGED <<err, job>>
  <2>1. Uncounted' = Uncounted BY <1>10, SameJobs
  <2> QED BY <1>7, <1>10, <1>a, <2>1
<1> QED BY <1>3, <1>4, <1>5, <1>6, <1>8, <1>9, <1>10
    DEF LedgerNext, ledgerVars, Serve, WipeServed, WipeKinds

LEMMA FacesKept == TallyTypes /\ FaceTypes /\ [LedgerNext]_ledgerVars => FaceTypes'
<1> SUFFICES ASSUME TallyTypes, FaceTypes, [LedgerNext]_ledgerVars PROVE FaceTypes'
  OBVIOUS
<1>a. /\ sampled \in Seq(Server) /\ faces.total = Len(sampled) /\ Len(sampled) \in Nat
      /\ faces \in [rec : [0..RING - 1 -> Server \cup {NOFACE}], total : Nat]
      /\ Len(sampled) + Cardinality(Unseen) <= MAX_REFUSED /\ MAX_REFUSED \in Nat /\ RING \in Nat \ {0}
  BY LedgerAssumption DEF FaceTypes
<1>b. /\ IsFiniteSet(Unseen) /\ Cardinality(Unseen) \in Nat
      /\ IsFiniteSet(Pending) /\ Cardinality(Pending) \in Nat
  BY JobSets
<1>1. ASSUME NEW s \in Server, Refusal(s) PROVE FaceTypes'
  <2>1. Unseen' = Unseen \cup {s} /\ s \notin Unseen BY <1>1, RefusalJobs
  <2>2. Cardinality(Unseen') = Cardinality(Unseen) + 1 BY <1>b, <2>1, Grows
  <2>3. Cardinality(Unseen) <= Cardinality(Pending)
    <3>1. Unseen \subseteq Pending BY Counters DEF Unseen, Pending
    <3> QED BY <1>b, <3>1, Fewer
  <2>4. Len(sampled) + Cardinality(Pending) < MAX_REFUSED
    BY <1>1 DEF Refusal, MoreRefusals, Pending
  <2>5. UNCHANGED <<faces, sampled>> BY <1>1 DEF Refusal
  <2> QED BY <1>a, <1>b, <2>2, <2>3, <2>4, <2>5 DEF FaceTypes
<1>2. ASSUME NEW s \in Server, Sample(s) PROVE FaceTypes'
  <2>1. Cardinality(Unseen') = Cardinality(Unseen) - 1
    <3>1. s \in Unseen /\ Unseen' = Unseen \ {s} BY <1>2, SampleJobs
    <3> QED BY <1>b, <3>1, Shrinks
  <2>2. /\ faces' = [rec |-> [faces.rec EXCEPT ![faces.total % RING] = s], total |-> faces.total + 1]
        /\ sampled' = Append(sampled, s)
    BY <1>2 DEF Sample
  <2>3. sampled' \in Seq(Server) /\ Len(sampled') = Len(sampled) + 1
    BY <1>a, <2>2
  <2>4. faces' \in [rec : [0..RING - 1 -> Server \cup {NOFACE}], total : Nat]
    BY <1>a, <2>2
  <2>5. faces'.total = Len(sampled') BY <1>a, <2>2, <2>3
  <2> QED BY <1>a, <1>b, <2>1, <2>3, <2>4, <2>5 DEF FaceTypes
<1>3. ASSUME Unseen' = Unseen, UNCHANGED <<faces, sampled>> PROVE FaceTypes'
  BY <1>3, <1>a DEF FaceTypes
<1>4. ASSUME NEW s \in Server, Tally(s) \/ CountRefusal(s) PROVE FaceTypes'
  <2>1. Unseen' = Unseen BY <1>4, TallyJobs, CountJobs
  <2> QED BY <1>3, <1>4, <2>1 DEF Tally, CountRefusal
<1>5. CASE SpliceRefused \/ SpliceCount
  <2>1. Unseen' = Unseen BY <1>5, SpliceJobs
  <2> QED BY <1>3, <1>5, <2>1 DEF SpliceRefused, SpliceCount
<1>6. CASE UNCHANGED <<job, faces, sampled>>
  <2>1. Unseen' = Unseen BY <1>6, SameJobs
  <2> QED BY <1>3, <1>6, <2>1
<1> QED BY <1>1, <1>2, <1>4, <1>5, <1>6
    DEF LedgerNext, ledgerVars, Serve, WipeServed, WipeAll, WipeSrv, WipeKinds

\* Two places less than a round apart are two slots of the ring.
LEMMA TwoSlots ==
  ASSUME NEW r \in Nat \ {0}, NEW a \in Nat, NEW b \in Nat, a < b, b - a < r
  PROVE  a % r # b % r
<1> SUFFICES ASSUME a % r = b % r PROVE FALSE
  OBVIOUS
<1> DEFINE p == a \div r
           q == b \div r
<1>1. a = r * p + (a % r) /\ b = r * q + (b % r) /\ p \in Int /\ q \in Int /\ a % r \in Int
  BY SMT
<1> HIDE DEF p, q
<1>2. r * (q - p) = b - a
  <2>1. r * (q - p) = r * q - r * p /\ r * q \in Int /\ r * p \in Int BY <1>1, SMT
  <2> QED BY <1>1, <2>1, SMT
<1>3. q - p >= 1 => r * (q - p) >= r
  <2>1. r * (q - p) = r + r * (q - p - 1) BY <1>1, SMT
  <2>2. q - p >= 1 => r * (q - p - 1) >= 0 BY <1>1, SMT
  <2> QED BY <1>1, <2>1, <2>2, SMT
<1>4. q - p <= 0 => r * (q - p) <= 0
  BY <1>1, SMT
<1> QED BY <1>1, <1>2, <1>3, <1>4, SMT

LEMMA ShownKept == FaceTypes /\ Shown /\ [LedgerNext]_ledgerVars => Shown'
<1> SUFFICES ASSUME FaceTypes, Shown, [LedgerNext]_ledgerVars PROVE Shown'
  OBVIOUS
<1>a. /\ sampled \in Seq(Server) /\ faces.total = Len(sampled) /\ Len(sampled) \in Nat
      /\ faces \in [rec : [0..RING - 1 -> Server \cup {NOFACE}], total : Nat] /\ RING \in Nat \ {0}
  BY LedgerAssumption DEF FaceTypes
<1>1. ASSUME NEW s \in Server, Sample(s) PROVE Shown'
  <2> DEFINE n == Len(sampled)
  <2>1. /\ faces' = [rec |-> [faces.rec EXCEPT ![n % RING] = s], total |-> n + 1]
        /\ sampled' = Append(sampled, s)
    BY <1>1, <1>a DEF Sample
  <2>2. Len(sampled') = n + 1 /\ sampled'[n + 1] = s /\ \A i \in 1..n : sampled'[i] = sampled[i]
    BY <1>a, <2>1
  <2>3. n % RING \in 0..RING - 1 BY <1>a
  <2>4. faces'.rec[n % RING] = s /\ \A k \in 0..RING - 1 : k # n % RING => faces'.rec[k] = faces.rec[k]
    BY <1>a, <2>1, <2>3
  <2>5. ASSUME NEW i \in 1..Len(sampled'), i > Len(sampled') - RING
        PROVE  faces'.rec[(i - 1) % RING] = sampled'[i]
    <3>1. CASE i = n + 1
      BY <1>a, <2>2, <2>4, <3>1
    <3>2. CASE i # n + 1
      <4>1. i \in 1..n /\ i > n - RING /\ i - 1 \in Nat /\ i - 1 < n /\ n - (i - 1) < RING /\ n \in Nat
        BY <1>a, <2>2, <2>5, <3>2
      <4> HIDE DEF n
      <4>2. (i - 1) % RING # n % RING
        BY <1>a, <4>1, TwoSlots
      <4>3. (i - 1) % RING \in 0..RING - 1 BY <1>a, <4>1
      <4>4. faces.rec[(i - 1) % RING] = sampled[i] BY <4>1 DEF Shown, n
      <4> QED BY <2>2, <2>4, <4>1, <4>2, <4>3, <4>4
    <3> QED BY <3>1, <3>2
  <2> QED BY <2>5 DEF Shown
<1>2. CASE UNCHANGED <<faces, sampled>>
  BY <1>2 DEF Shown
<1> QED BY <1>1, <1>2
    DEF LedgerNext, ledgerVars, Serve, SpliceRefused, SpliceCount, Refusal, Tally, CountRefusal,
        WipeServed, WipeAll, WipeSrv, WipeKinds

LEMMA WipeAloneKept == TallyTypes /\ WipeAlone /\ [LedgerNext]_ledgerVars => WipeAlone'
<1> SUFFICES ASSUME TallyTypes, WipeAlone, [LedgerNext]_ledgerVars, ~muddled', wiping' # "rest"
             PROVE  Unseen' = {}
  BY DEF WipeAlone
<1>1. ASSUME NEW s \in Server, Refusal(s) PROVE FALSE
  BY <1>1, Zenon DEF Refusal
<1>2. ASSUME NEW s \in Server, Tally(s) \/ CountRefusal(s) \/ Sample(s) PROVE FALSE
  <2>1. s \in Unseen BY <1>2 DEF Unseen, Tally, CountRefusal, Sample
  <2>2. ~muddled /\ wiping # "rest" BY <1>2 DEF Tally, CountRefusal, Sample
  <2> QED BY <2>1, <2>2 DEF WipeAlone
<1>3. CASE WipeServed
  <2>1. ~Busy BY <1>3, Zenon DEF WipeServed
  <2>2. Unseen = {} BY <2>1 DEF Busy, Unseen
  <2>3. job' = job BY <1>3 DEF WipeServed
  <2> QED BY <2>2, <2>3, SameJobs
<1>4. CASE SpliceRefused \/ SpliceCount
  <2>1. ~muddled /\ wiping # "rest"
    BY <1>4 DEF SpliceRefused, SpliceCount
  <2>2. Unseen' = Unseen
    BY <1>4, SpliceJobs
  <2> QED BY <2>1, <2>2 DEF WipeAlone
<1>5. CASE UNCHANGED <<job, muddled>> /\ wiping # "rest"
  BY <1>5, SameJobs DEF WipeAlone
<1> QED BY <1>1, <1>2, <1>3, <1>4, <1>5
    DEF LedgerNext, ledgerVars, Serve, WipeAll, WipeSrv, WipeKinds

LEMMA BooksKept ==
  TallyTypes /\ CountTypes /\ WipeAlone /\ Books /\ [LedgerNext]_ledgerVars => Books'
<1> SUFFICES ASSUME TallyTypes, CountTypes, WipeAlone, Books, [LedgerNext]_ledgerVars, Clean'
             PROVE  /\ wiping' = "rest" =>
                         /\ kinds'.srv < KIND_MAX => kinds'.srv = err'.srv + Cardinality(Ours')
                         /\ kinds'.rest < KIND_MAX
                              => kinds'.rest = err'.all - err'.srv + Cardinality(Theirs')
                    /\ wiping' \in {"srv", "kinds"} => err'.all = 0
                    /\ wiping' = "kinds" => err'.srv = 0
  BY DEF Books
<1> DEFINE Goal == /\ wiping' = "rest" =>
                         /\ kinds'.srv < KIND_MAX => kinds'.srv = err'.srv + Cardinality(Ours')
                         /\ kinds'.rest < KIND_MAX
                              => kinds'.rest = err'.all - err'.srv + Cardinality(Theirs')
                   /\ wiping' \in {"srv", "kinds"} => err'.all = 0
                   /\ wiping' = "kinds" => err'.srv = 0
<1>a. ~spliced' /\ ~muddled' /\ job'[SPLICER].at = "rest"
  BY DEF Clean
<1>b. /\ err.all \in Nat /\ err.srv \in Nat /\ kinds.srv \in Nat /\ kinds.rest \in Nat /\ KIND_MAX \in Nat
      /\ kinds \in [srv : 0..KIND_MAX, rest : 0..KIND_MAX] /\ err \in [all : Nat, srv : Nat]
  BY LedgerAssumption DEF TallyTypes, CountTypes
<1>c. /\ IsFiniteSet(Ours) /\ Cardinality(Ours) \in Nat
      /\ IsFiniteSet(Theirs) /\ Cardinality(Theirs) \in Nat
  BY JobSets
<1>d. ASSUME ~spliced, ~muddled, job[SPLICER].at = "rest", wiping = "rest"
      PROVE  /\ kinds.srv < KIND_MAX => kinds.srv = err.srv + Cardinality(Ours)
             /\ kinds.rest < KIND_MAX => kinds.rest = err.all - err.srv + Cardinality(Theirs)
  BY <1>d DEF Books, Clean
<1>e. ASSUME NEW s \in Server PROVE SPLICER # s
  BY Counters
<1>1. ASSUME NEW s \in Server, Refusal(s) PROVE Goal
  <2>1. ~muddled /\ wiping = "rest" /\ wiping' = "rest" /\ ~spliced
    BY <1>1, <1>a, Zenon DEF Refusal
  <2>2. job[SPLICER].at = "rest"
    BY <1>1, <1>a, <1>e DEF Refusal, TallyTypes
  <2>3. Ours' = Ours /\ Theirs' = Theirs BY <1>1, RefusalJobs
  <2>4. UNCHANGED <<err, kinds>> BY <1>1 DEF Refusal
  <2> QED BY <1>d, <2>1, <2>2, <2>3, <2>4
<1>2. ASSUME NEW s \in Server, Tally(s) PROVE Goal
  <2>1. ~spliced /\ ~muddled /\ job[SPLICER].at = "rest"
    BY <1>2, <1>a, <1>e DEF Tally, At, TallyTypes
  <2>2. wiping = "rest" /\ wiping' = "rest"
    <3>1. s \in Unseen BY <1>2 DEF Unseen, Tally
    <3> QED BY <1>2, <2>1, <3>1 DEF WipeAlone, Tally
  <2>3. /\ kinds.srv < KIND_MAX => kinds.srv = err.srv + Cardinality(Ours)
        /\ kinds.rest < KIND_MAX => kinds.rest = err.all - err.srv + Cardinality(Theirs)
    BY <1>d, <2>1, <2>2
  <2>4. /\ s \notin Ours /\ s \notin Theirs
        /\ Ours' = IF job[s].ours THEN Ours \cup {s} ELSE Ours
        /\ Theirs' = IF job[s].ours THEN Theirs ELSE Theirs \cup {s}
    BY <1>2, TallyJobs
  <2>5. CASE job[s].ours
    <3>1. Cardinality(Ours') = Cardinality(Ours) + 1 /\ Theirs' = Theirs BY <1>c, <2>4, <2>5, Grows
    <3>2. err' = err /\ kinds'.srv = Raised(kinds.srv) /\ kinds'.rest = kinds.rest
      BY <1>2, <1>b, <2>5 DEF Tally
    <3> QED BY <1>b, <1>c, <2>2, <2>3, <3>1, <3>2 DEF Raised
  <2>6. CASE ~job[s].ours
    <3>1. Cardinality(Theirs') = Cardinality(Theirs) + 1 /\ Ours' = Ours BY <1>c, <2>4, <2>6, Grows
    <3>2. err' = err /\ kinds'.rest = Raised(kinds.rest) /\ kinds'.srv = kinds.srv
      BY <1>2, <1>b, <2>6 DEF Tally
    <3> QED BY <1>b, <1>c, <2>2, <2>3, <3>1, <3>2 DEF Raised
  <2> QED BY <2>5, <2>6
<1>3. ASSUME NEW s \in Server, CountRefusal(s) PROVE Goal
  <2>1. ~spliced /\ ~muddled /\ job[SPLICER].at = "rest"
    BY <1>3, <1>a, <1>e DEF CountRefusal, At, TallyTypes
  <2>2. wiping = "rest" /\ wiping' = "rest"
    <3>1. s \in Unseen BY <1>3 DEF Unseen, CountRefusal
    <3> QED BY <1>3, <2>1, <3>1 DEF WipeAlone, CountRefusal
  <2>3. /\ kinds.srv < KIND_MAX => kinds.srv = err.srv + Cardinality(Ours)
        /\ kinds.rest < KIND_MAX => kinds.rest = err.all - err.srv + Cardinality(Theirs)
    BY <1>d, <2>1, <2>2
  <2>4. IF job[s].ours THEN s \in Ours /\ Ours' = Ours \ {s} /\ Theirs' = Theirs
                       ELSE s \in Theirs /\ Theirs' = Theirs \ {s} /\ Ours' = Ours
    BY <1>3, CountJobs
  <2>5. CASE job[s].ours
    <3>1. Cardinality(Ours') = Cardinality(Ours) - 1 /\ Theirs' = Theirs BY <1>c, <2>4, <2>5, Shrinks
    <3>2. kinds' = kinds /\ err'.all = err.all + 1 /\ err'.srv = err.srv + 1
      BY <1>3, <2>5 DEF CountRefusal
    <3> QED BY <1>b, <1>c, <2>2, <2>3, <3>1, <3>2
  <2>6. CASE ~job[s].ours
    <3>1. Cardinality(Theirs') = Cardinality(Theirs) - 1 /\ Ours' = Ours BY <1>c, <2>4, <2>6, Shrinks
    <3>2. kinds' = kinds /\ err'.all = err.all + 1 /\ err'.srv = err.srv
      BY <1>3, <1>b, <2>6 DEF CountRefusal
    <3> QED BY <1>b, <1>c, <2>2, <2>3, <3>1, <3>2
  <2> QED BY <2>5, <2>6
<1>4. ASSUME NEW s \in Server, Sample(s) PROVE Goal
  <2>1. Clean BY <1>4, <1>a, <1>e DEF Clean, Sample, TallyTypes
  <2>2. Ours' = Ours /\ Theirs' = Theirs /\ UNCHANGED <<err, kinds, wiping>>
    BY <1>4, SampleJobs DEF Sample
  <2> QED BY <2>1, <2>2 DEF Books
<1>5. CASE SpliceRefused \/ SpliceCount
  <2>1. SPLICER \in Counter BY Counters
  <2> QED BY <1>5, <1>a, <2>1 DEF SpliceRefused, SpliceCount, At, TallyTypes
<1>6. CASE WipeServed
  BY <1>6 DEF WipeServed
<1>7. ASSUME WipeAll \/ WipeSrv \/ WipeKinds
      PROVE  /\ Clean /\ Unseen = {} /\ job' = job
             /\ \A c \in Counter : job[c].at = "rest"
  <2>1. /\ ~spliced /\ ~muddled /\ wiping # "rest" /\ job' = job /\ job[SPLICER].at = "rest"
    BY <1>7, <1>a DEF WipeAll, WipeSrv, WipeKinds
  <2>2. Unseen = {} BY <2>1 DEF WipeAlone
  <2> QED BY <2>1, <2>2 DEF Clean, Unseen, Counter
<1>8. CASE WipeAll
  <2>1. \A v : v \in Wiped(err.all, "count") => v = 0 BY <1>7, <1>8 DEF Wiped
  <2>2. err'.all = 0 /\ wiping' = "srv" BY <1>8, <1>b, <2>1 DEF WipeAll
  <2> QED BY <2>2
<1>9. CASE WipeSrv
  <2>1. \A v : v \in Wiped(err.srv, "count") => v = 0 BY <1>7, <1>9 DEF Wiped
  <2>2. err'.srv = 0 /\ err'.all = err.all /\ wiping' = "kinds" /\ wiping = "srv"
    BY <1>9, <1>b, <2>1 DEF WipeSrv
  <2>3. err.all = 0 BY <1>7, <1>9, <2>2 DEF Books
  <2> QED BY <2>2, <2>3
<1>10. CASE WipeKinds
  <2>1. /\ \A v : v \in Wiped(kinds.srv, "tally") => v = 0
        /\ \A v : v \in Wiped(kinds.rest, "tally") => v = 0
    BY <1>7, <1>10 DEF Wiped
  <2>2. kinds'.srv = 0 /\ kinds'.rest = 0 /\ err' = err /\ wiping' = "rest" /\ wiping = "kinds"
    BY <1>10, <2>1 DEF WipeKinds
  <2>3. err.all = 0 /\ err.srv = 0 BY <1>7, <1>10, <2>2 DEF Books
  <2>4. Ours' = {} /\ Theirs' = {}
    BY <1>7, <1>10, Counters DEF Ours, Theirs
  <2>5. Cardinality(Ours') = 0 /\ Cardinality(Theirs') = 0 BY <2>4, FS_EmptySet
  <2> QED BY <2>2, <2>3, <2>5
<1>11. CASE UNCHANGED <<err, kinds, job, wiping, spliced, muddled>>
  <2>1. Ours' = Ours /\ Theirs' = Theirs BY <1>11, SameJobs
  <2>2. Clean BY <1>11, <1>a DEF Clean
  <2> QED BY <1>11, <2>1, <2>2 DEF Books
<1> QED BY <1>1, <1>2, <1>3, <1>4, <1>5, <1>6, <1>8, <1>9, <1>10, <1>11
    DEF LedgerNext, ledgerVars, Serve

LEMMA TallyKept == TallyInv /\ [LedgerNext]_ledgerVars => TallyInv'
BY TallyTypesKept, FlagsKept, CountsKept, FacesKept, BooksKept, WipeAloneKept, ShownKept DEF TallyInv

\* However many servers refuse at once: tallies, counters and the ring of faces
\* (serve.c, swarm.c) keep to their types, wipes or no wipes.
THEOREM LedgerTyped == LedgerSpec => []LedgerTypeOK
<1>1. TallyInv => LedgerTypeOK
  <2> SUFFICES ASSUME TallyInv PROVE LedgerTypeOK
    OBVIOUS
  <2>1. /\ err \in [all : Nat, srv : Nat] /\ err.all <= MAX_REFUSED /\ err.srv <= MAX_REFUSED
        /\ MAX_REFUSED \in Nat
    BY JobSets, LedgerAssumption DEF TallyInv, CountTypes
  <2>2. /\ faces \in [rec : [0..RING - 1 -> Server \cup {NOFACE}], total : Nat]
        /\ faces.total <= MAX_REFUSED /\ sampled \in Seq(Server)
    BY JobSets, LedgerAssumption DEF TallyInv, FaceTypes
  <2>3. err \in [all : Total, srv : Total] BY <2>1 DEF Total
  <2>4. faces \in [rec : [0..RING - 1 -> Server \cup {NOFACE}], total : Total] BY <2>1, <2>2 DEF Total
  <2> QED BY <2>2, <2>3, <2>4 DEF TallyInv, TallyTypes, FlagTypes, LedgerTypeOK
<1> QED BY <1>1, TallyStarts, TallyKept, PTL DEF LedgerSpec

\* However many servers refuse at once, and whatever the ring and the saturation
\* of the tallies: a blade and its peers come to the same availability, except
\* after a refusal of the splicer, a wipe that met a refusal half way or with a
\* full tally; and the dump of faces is the latest refusals, newest first
\* (bohun_refusal_dump, swarm_avail_x10, peer_avail_x10).
THEOREM Told == LedgerSpec => []RefusalsTold
<1>1. TallyInv => BooksAgree
  <2> SUFFICES ASSUME TallyInv, Quiet, ~spliced, ~muddled, kinds.srv < KIND_MAX, kinds.rest < KIND_MAX
               PROVE  err.srv = kinds.srv /\ err.all = kinds.srv + kinds.rest
    BY DEF BooksAgree, Own, Peers
  <2>1. Ours = {} /\ Theirs = {} /\ job[SPLICER].at = "rest" /\ wiping = "rest"
    BY Counters DEF Quiet, Ours, Theirs
  <2>2. Cardinality(Ours) = 0 /\ Cardinality(Theirs) = 0 BY <2>1, FS_EmptySet
  <2>3. kinds.srv = err.srv + 0 /\ kinds.rest = err.all - err.srv + 0
    BY <2>1, <2>2 DEF TallyInv, Books, Clean
  <2>4. err.srv \in Nat /\ err.all \in Nat BY DEF TallyInv, CountTypes
  <2> QED BY <2>3, <2>4
<1>2. TallyInv => FacesNewest
  <2> SUFFICES ASSUME TallyInv PROVE FacesNewest
    OBVIOUS
  <2> DEFINE n == Len(sampled)
             m == IF n < RING THEN n ELSE RING
  <2>1. /\ sampled \in Seq(Server) /\ faces.total = n /\ n \in Nat /\ RING \in Nat \ {0} /\ m \in 0..n
    BY LedgerAssumption DEF TallyInv, FaceTypes
  <2>2. Dump = [i \in 1..m |-> faces.rec[(n - i) % RING]]
    BY <2>1 DEF Dump
  <2>3. Reverse(sampled) = [i \in 1..n |-> sampled[n - i + 1]]
    BY DEF Reverse
  <2>4. SubSeq(Reverse(sampled), 1, m) = [i \in 1..m |-> sampled[n - i + 1]]
    <3>1. Reverse(sampled) \in Seq(Server) /\ Len(Reverse(sampled)) = n
      BY <2>1, <2>3
    <3> HIDE DEF n, m
    <3> QED BY <2>1, <2>3, <3>1
  <2>5. ASSUME NEW i \in 1..m PROVE faces.rec[(n - i) % RING] = sampled[n - i + 1]
    <3>1. n - i + 1 \in 1..n /\ n - i + 1 > n - RING /\ (n - i + 1) - 1 = n - i
      BY <2>1
    <3> QED BY <3>1 DEF TallyInv, Shown
  <2> HIDE DEF n, m
  <2>6. Dump = SubSeq(Reverse(sampled), 1, m)
    BY <2>2, <2>4, <2>5
  <2> QED BY <2>6 DEF FacesNewest, n, m
<1> QED BY <1>1, <1>2, TallyStarts, TallyKept, PTL DEF LedgerSpec, RefusalsTold

----------------------------------------------------------------------------
(* The parts in one run *)

\* Each part behaves in the run they share as it does alone, so that what is
\* proved of a part is proved of the run.
THEOREM PartsApart ==
  BladeSpec => RecorderSpec /\ MaskSpec /\ LedgerSpec /\ ClicksSpec /\ BeatSpec
<1>1. BladeInit => RecorderInit /\ MaskInit /\ LedgerInit /\ ClicksInit /\ BeatInit
  BY DEF BladeInit
<1>2. [BladeNext]_<<scene, recorderVars, maskVars, ledgerVars, clickVars, beatVars>> =>
        /\ [RecorderNext]_recorderVars /\ [MaskNext]_maskVars /\ [LedgerNext]_ledgerVars
        /\ [ClicksNext]_clickVars /\ [BeatNext]_beatVars
  BY DEF BladeNext, RecorderScene, MaskScene, LedgerScene, ClicksScene, BeatScene
<1> QED BY <1>1, <1>2, PTL DEF BladeSpec, RecorderSpec, MaskSpec, LedgerSpec, ClicksSpec, BeatSpec

\* The parts of a blade keep to their types, in any sizes.
THEOREM BladeTyped == BladeSpec => []BladeTypeOK
<1>1. /\ RecorderTypeOK /\ MaskTypeOK /\ LedgerTypeOK /\ ClicksTypeOK /\ BeatTypeOK
      => BladeTypeOK
  BY DEF BladeTypeOK
<1> QED BY <1>1, PartsApart, Typed, MaskTyped, LedgerTyped, ClicksTyped, BeatTyped, PTL
=============================================================================
