-------------------------------- MODULE Mask --------------------------------
(***************************************************************************)
(* One blade's identity, step by step: the monitor task of swarm.c elects, *)
(* swaps the identity and keeps the book of its reigns; the event task     *)
(* runs the Ethernet and address handlers of mask.c and eth_main.c; httpd  *)
(* may wipe the statistics.  Swarm takes a swap for one step; here it is   *)
(* as many as the tasks can see of each other.                             *)
(*                                                                         *)
(* The driver posts its events in order and the event task handles them    *)
(* one by one.  Driver, network interface and DHCP are external.  No       *)
(* handler and no turn of the monitor takes as long as a unit of time.     *)
(***************************************************************************)
EXTENDS Integers, Sequences

CONSTANTS
  LINK_GRACE,     \* MASK_LINK_GRACE_US
  CLAIM_TIMEOUT,  \* MASK_CLAIM_TIMEOUT_US
  DHCP_RETRY,     \* DHCP_RETRY_US
  SAVE,           \* ELECTED_SAVE_MS
  RELINK,         \* units a PHY needs at least to come up
  MAX_REIGNS,     \* bound: reigns are counted up to here
  MAX_EVENTS      \* bound: events outstanding when the outside adds another

ASSUME MaskTimesAssumption ==
  LINK_GRACE \in Nat /\ CLAIM_TIMEOUT \in Nat /\ DHCP_RETRY \in Nat /\ SAVE \in Nat /\ RELINK \in Nat
ASSUME MaskBoundAssumption == MAX_REIGNS \in Nat \ {0} /\ MAX_EVENTS \in Nat \ {0}

VARIABLES
  mask,      \* the statics of mask.c (the record below)
  netif,     \* the interface: MAC, address, DHCP client
  phy,       \* the link as the driver has it
  relink,    \* what the PHY still needs before it can come up
  wire,      \* the cable
  events,    \* the event loop's queue
  handler,   \* the event task, inside a handler
  monitor,   \* the monitor task, inside a turn
  acted,     \* the monitor has had a turn in this unit
  able,      \* serve_is_ready()
  book,      \* leader, reigns, and what flash says of them
  wipe,      \* swarm_reset_stats, under way
  owed,      \* history: age of the oldest reign that flash does not know
  crossed,   \* history: a wipe and an election have crossed
  stranded   \* history: units on end as a wearer that answers at no address

link     == <<phy, relink>>
outside  == <<wire, able>>
mvars    == <<owed, crossed, stranded>>
maskVars == <<mask, netif, link, outside, events, handler, monitor, acted, book, wipe, mvars>>

NEVER  == -1
NOADDR == "none"
OWN    == "own"
VMAC   == "mask"       \* the mask's MAC, and its static address
Addr   == {NOADDR, OWN, VMAC}

MaskState ==
  [wearing  : BOOLEAN,                        \* s_wearing
   haveIp   : BOOLEAN,                        \* s_have_ip
   lease    : Addr,                           \* s_own_lease; NOADDR is ~s_have_lease
   linkUp   : BOOLEAN,                        \* s_link_up
   downFor  : {NEVER} \cup 0..LINK_GRACE + 1, \* since s_link_down_us
   claimFor : 0..CLAIM_TIMEOUT + 1,           \* since s_wear_started_us
   dhcpFor  : {NEVER} \cup 0..DHCP_RETRY + 1, \* since s_dhcp_wait_us
   curIp    : Addr]                           \* s_current_ip

MaskTypeOK ==
  /\ mask \in MaskState
  /\ netif \in [mac : {OWN, VMAC}, addr : Addr, dhcp : BOOLEAN]
  /\ phy \in {"stopped", "down", "up"} /\ relink \in 0..RELINK /\ wire \in BOOLEAN /\ able \in BOOLEAN
  /\ \A k \in 1..Len(events) : events[k] \in ({"up", "down"} \X {NOADDR}) \cup ({"ip"} \X {OWN, VMAC})
  /\ handler \in [at : {"rest", "branch", "apply", "done", "lease"}, addr : Addr]
  /\ monitor \in [at : {"rest", "elect", "claim", "drop", "stop", "mac", "start", "tick", "save"},
                  then : {"rest", "elect", "tick", "save"}]
  /\ acted \in BOOLEAN
  /\ book \in [leader : {"me", "other", "none"}, reigns : 0..MAX_REIGNS, dirty : BOOLEAN,
               since : 0..SAVE + 1, flash : 0..MAX_REIGNS]
  /\ wipe \in {"idle", "marking"}
  /\ owed \in {NEVER} \cup 0..SAVE + 2 /\ crossed \in BOOLEAN
  /\ stranded \in 0..CLAIM_TIMEOUT + LINK_GRACE + 3

AtRest == [at |-> "rest", then |-> "rest"]
Idle   == [at |-> "rest", addr |-> NOADDR]

\* mask_link_lost
WireGone == ~mask.linkUp /\ mask.downFor > LINK_GRACE

\* A wearer that the mask's address does not lead to.
Stranded == mask.wearing /\ ~(phy = "up" /\ netif.addr = VMAC)
Recount == stranded' = IF Stranded' THEN stranded ELSE 0

Post(kind, addr) == events' = Append(events, <<kind, addr>>)

----------------------------------------------------------------------------
(* The monitor task *)

GoOn(label) == monitor' = [at |-> label, then |-> "rest"]
SwapThen(label) == monitor' = [at |-> "stop", then |-> label]

\* A wearer whose wire is gone abdicates, and forgets who leads.
MonWatch ==
  /\ monitor.at = "rest" /\ ~acted /\ acted' = TRUE
  /\ IF mask.wearing /\ WireGone
     THEN /\ mask' = [mask EXCEPT !.wearing = FALSE, !.haveIp = FALSE]
          /\ book' = [book EXCEPT !.leader = "none"]
          /\ SwapThen("elect")
     ELSE GoOn("elect") /\ UNCHANGED <<mask, book>>
  /\ UNCHANGED <<netif, link, outside, events, handler, wipe, mvars>>

Reigns(n) == IF n < MAX_REIGNS THEN n + 1 ELSE n

\* The election's answer: ourselves only with a wire and a server.
Answers == {"other", "none"} \cup (IF ~WireGone /\ able THEN {"me"} ELSE {})

\* A new answer.  The mask follows it only after the books: blackbox_event
\* writes flash in between.
NewAnswer(who) ==
  IF who = "me"
  THEN /\ book' = [book EXCEPT !.leader = who, !.reigns = Reigns(@), !.dirty = TRUE]
       /\ owed' = (IF owed = NEVER THEN 0 ELSE owed)
       /\ crossed' = (crossed \/ wipe # "idle")
       /\ GoOn("claim")
  ELSE /\ book' = [book EXCEPT !.leader = who]
       /\ monitor' = [at |-> IF mask.wearing THEN "drop" ELSE "tick", then |-> "tick"]
       /\ UNCHANGED <<owed, crossed>>

MonElect ==
  /\ monitor.at = "elect"
  /\ \/ book.leader \in Answers /\ GoOn("tick") /\ UNCHANGED <<book, owed, crossed>>
     \/ \E who \in Answers \ {book.leader} : NewAnswer(who)
  /\ UNCHANGED <<mask, netif, link, outside, events, handler, acted, wipe, stranded>>

\* mask_set_leader(true)
MonClaim ==
  /\ monitor.at = "claim"
  /\ IF mask.wearing THEN GoOn("tick") /\ UNCHANGED mask
     ELSE /\ mask' = [mask EXCEPT !.wearing = TRUE, !.claimFor = 0]
          /\ SwapThen("tick")
  /\ stranded' = (IF mask.wearing THEN stranded ELSE 0)
  /\ UNCHANGED <<netif, link, outside, events, handler, acted, book, wipe, owed, crossed>>

\* The drain is over, or has waited long enough.
MonDrop ==
  /\ monitor.at = "drop"
  /\ mask' = [mask EXCEPT !.wearing = FALSE]
  /\ SwapThen(monitor.then)
  /\ UNCHANGED <<netif, link, outside, events, handler, acted, book, wipe, mvars>>

\* swap_identity: esp_eth_stop; the MAC and s_have_ip; esp_eth_start.
SwapStop ==
  /\ monitor.at = "stop" /\ monitor' = [monitor EXCEPT !.at = "mac"]
  /\ phy' = "stopped" /\ UNCHANGED relink
  /\ IF phy = "up" THEN Post("down", NOADDR) ELSE UNCHANGED events
  /\ UNCHANGED <<mask, netif, outside, handler, acted, book, wipe, mvars>>

SwapMac ==
  /\ monitor.at = "mac" /\ monitor' = [monitor EXCEPT !.at = "start"]
  /\ netif' = [netif EXCEPT !.mac = IF mask.wearing THEN VMAC ELSE OWN]
  /\ mask' = [mask EXCEPT !.haveIp = FALSE]
  /\ UNCHANGED <<link, outside, events, handler, acted, book, wipe, mvars>>

SwapStart ==
  /\ monitor.at = "start" /\ GoOn(monitor.then)
  /\ phy' = "down" /\ relink' = RELINK
  /\ UNCHANGED <<mask, netif, outside, events, handler, acted, book, wipe, mvars>>

Discovering == ~mask.wearing /\ mask.linkUp /\ ~mask.haveIp
RetryDue    == Discovering /\ mask.dhcpFor > DHCP_RETRY

\* Seeded slip: a claim waits for its address for ever.
ClaimOverdueNever == FALSE
ClaimOverdue == mask.wearing /\ ~mask.haveIp /\ mask.claimFor > CLAIM_TIMEOUT

\* mask_tick
MonTick ==
  /\ monitor.at = "tick"
  /\ IF mask.wearing /\ ~able
     THEN monitor' = [at |-> "drop", then |-> "save"] /\ UNCHANGED <<mask, netif>>
     ELSE /\ mask' = [mask EXCEPT
               !.wearing = @ /\ ~ClaimOverdue,
               !.dhcpFor = IF ~Discovering THEN NEVER
                           ELSE IF @ = NEVER \/ RetryDue THEN 0 ELSE @]
          /\ netif' = IF RetryDue THEN [netif EXCEPT !.dhcp = TRUE, !.addr = NOADDR] ELSE netif
          /\ IF ClaimOverdue THEN SwapThen("save") ELSE GoOn("save")
  /\ UNCHANGED <<link, outside, events, handler, acted, book, wipe, mvars>>

\* Seeded slip: the book is closed before the minute is over, and not written.
MonSaveForgets ==
  /\ monitor.at = "save" /\ monitor' = AtRest
  /\ book' = [book EXCEPT !.dirty = FALSE]
  /\ UNCHANGED <<mask, netif, link, outside, events, handler, acted, wipe, mvars>>

\* At most one commit a minute.
MonSave ==
  /\ monitor.at = "save" /\ monitor' = AtRest
  /\ IF book.dirty /\ book.since > SAVE
     THEN /\ book' = [book EXCEPT !.flash = book.reigns, !.dirty = FALSE, !.since = 0]
          /\ owed' = NEVER
     ELSE UNCHANGED <<book, owed>>
  /\ UNCHANGED <<mask, netif, link, outside, events, handler, acted, wipe, crossed, stranded>>

MonitorTask ==
  \/ MonWatch \/ MonElect \/ MonClaim \/ MonDrop \/ SwapStop \/ SwapMac \/ SwapStart
  \/ MonTick \/ MonSave

----------------------------------------------------------------------------
(* The event task *)

Head1(kind) == handler = Idle /\ events # <<>> /\ events[1][1] = kind /\ events' = Tail(events)

\* mask_on_link_up: the link first, what to do about it next.
HandleUp ==
  /\ Head1("up")
  /\ mask' = [mask EXCEPT !.linkUp = TRUE, !.downFor = NEVER]
  /\ handler' = [Idle EXCEPT !.at = "branch"]
  /\ UNCHANGED <<netif, link, outside, monitor, acted, book, wipe, mvars>>

\* Seeded slip: a lease is taken back that was never had.
HandleBranchBlind ==
  /\ handler.at = "branch" /\ UNCHANGED netif
  /\ handler' = [at |-> "apply", addr |-> IF mask.wearing THEN VMAC ELSE mask.lease]
  /\ UNCHANGED <<mask, link, outside, events, monitor, acted, book, wipe, mvars>>

\* Seeded slip: the remembered lease comes first, mask or no mask.
HandleBranchLease ==
  /\ handler.at = "branch"
  /\ IF mask.wearing /\ mask.lease = NOADDR
     THEN handler' = [at |-> "apply", addr |-> VMAC] /\ UNCHANGED netif
     ELSE IF mask.lease # NOADDR
     THEN handler' = [at |-> "apply", addr |-> mask.lease] /\ UNCHANGED netif
     ELSE handler' = Idle /\ netif' = [netif EXCEPT !.dhcp = TRUE, !.addr = NOADDR]
  /\ UNCHANGED <<mask, link, outside, events, monitor, acted, book, wipe, mvars>>

\* The mask's static address, the remembered lease, or else a discovery.
HandleBranch ==
  /\ handler.at = "branch"
  /\ IF mask.wearing THEN handler' = [at |-> "apply", addr |-> VMAC] /\ UNCHANGED netif
     ELSE IF mask.lease # NOADDR
     THEN handler' = [at |-> "apply", addr |-> mask.lease] /\ UNCHANGED netif
     ELSE handler' = Idle /\ netif' = [netif EXCEPT !.dhcp = TRUE, !.addr = NOADDR]
  /\ UNCHANGED <<mask, link, outside, events, monitor, acted, book, wipe, mvars>>

\* Setting an address is an event of its own.
HandleApply ==
  /\ handler.at = "apply" /\ handler' = [handler EXCEPT !.at = "done"]
  /\ netif' = [netif EXCEPT !.addr = handler.addr, !.dhcp = FALSE]
  /\ mask' = [mask EXCEPT !.curIp = handler.addr]
  /\ Post("ip", handler.addr)
  /\ UNCHANGED <<link, outside, monitor, acted, book, wipe, owed, crossed>>
  /\ Recount

HandleDone ==
  /\ handler.at = "done" /\ handler' = Idle
  /\ mask' = [mask EXCEPT !.haveIp = TRUE]
  /\ UNCHANGED <<netif, link, outside, events, monitor, acted, book, wipe, mvars>>

\* mask_on_link_down; before it, the interface has let go of a leased address.
HandleDown ==
  /\ Head1("down")
  /\ mask' = [mask EXCEPT !.linkUp = FALSE, !.curIp = NOADDR,
                          !.downFor = IF mask.linkUp THEN 0 ELSE @]
  /\ netif' = [netif EXCEPT !.dhcp = FALSE, !.addr = IF netif.dhcp THEN NOADDR ELSE @]
  /\ UNCHANGED <<link, outside, handler, monitor, acted, book, wipe, mvars>>

\* got_ip_event_handler: the address gossip tells, then mask_on_got_ip.
HandleIp ==
  /\ Head1("ip")
  /\ mask' = [mask EXCEPT !.curIp = events[1][2], !.haveIp = TRUE]
  /\ handler' = [Idle EXCEPT !.at = "lease"]
  /\ UNCHANGED <<netif, link, outside, monitor, acted, book, wipe, mvars>>

\* Out of the mask, whatever address the interface has now is our own lease.
HandleLease ==
  /\ handler.at = "lease" /\ handler' = Idle
  /\ mask' = IF mask.wearing \/ netif.addr = NOADDR THEN mask
             ELSE [mask EXCEPT !.lease = netif.addr]
  /\ UNCHANGED <<netif, link, outside, events, monitor, acted, book, wipe, mvars>>

EventTask ==
  \/ HandleUp \/ HandleBranch \/ HandleApply \/ HandleDone
  \/ HandleDown \/ HandleIp \/ HandleLease

----------------------------------------------------------------------------
(* The statistics are wiped (swarm_reset_stats, from httpd) *)

\* A reign in progress is a reign.
WipeCount ==
  /\ wipe = "idle" /\ wipe' = "marking"
  /\ LET n == IF mask.wearing THEN 1 ELSE 0
     IN  book' = [book EXCEPT !.reigns = n, !.flash = n]
  /\ owed' = NEVER /\ crossed' = (crossed \/ monitor.at \in {"claim", "save"})
  /\ UNCHANGED <<mask, netif, link, outside, events, handler, monitor, acted, stranded>>

WipeDone ==
  /\ wipe = "marking" /\ wipe' = "idle"
  /\ book' = [book EXCEPT !.dirty = FALSE]
  /\ UNCHANGED <<mask, netif, link, outside, events, handler, monitor, acted, mvars>>

----------------------------------------------------------------------------
(* The outside *)

Room == Len(events) < MAX_EVENTS

\* "A relink takes 1-3 s": several turns of the monitor.
PhyUp ==
  /\ phy = "down" /\ relink = 0 /\ wire /\ Room
  /\ phy' = "up" /\ Post("up", NOADDR)
  /\ UNCHANGED <<relink, mask, netif, outside, handler, monitor, acted, book, wipe, owed, crossed>>
  /\ Recount

Unplug ==
  /\ wire /\ wire' = FALSE /\ Room
  /\ IF phy = "up" THEN phy' = "down" /\ relink' = RELINK /\ Post("down", NOADDR)
     ELSE UNCHANGED <<link, events>>
  /\ UNCHANGED <<mask, netif, able, handler, monitor, acted, book, wipe, mvars>>

Plug ==
  /\ ~wire /\ wire' = TRUE
  /\ UNCHANGED <<mask, netif, link, able, events, handler, monitor, acted, book, wipe, mvars>>

Lease ==
  /\ netif.dhcp /\ netif.addr = NOADDR /\ phy = "up" /\ Room
  /\ netif' = [netif EXCEPT !.addr = OWN] /\ Post("ip", OWN)
  /\ UNCHANGED <<mask, link, outside, handler, monitor, acted, book, wipe, mvars>>

Serves ==
  /\ able' = ~able
  /\ UNCHANGED <<mask, netif, link, wire, events, handler, monitor, acted, book, wipe, mvars>>

BootMask ==
  [wearing |-> FALSE, haveIp |-> FALSE, lease |-> NOADDR, linkUp |-> FALSE, downFor |-> NEVER,
   claimFor |-> 0, dhcpFor |-> NEVER, curIp |-> NOADDR]

BootWith(flash) ==
  /\ mask' = BootMask /\ netif' = [mac |-> OWN, addr |-> NOADDR, dhcp |-> FALSE]
  /\ phy' = "down" /\ relink' = RELINK /\ able' = FALSE /\ events' = <<>> /\ handler' = Idle /\ monitor' = AtRest
  /\ acted' = FALSE /\ wipe' = "idle"
  /\ book' = [leader |-> "none", reigns |-> flash, dirty |-> FALSE, since |-> 0, flash |-> flash]
  /\ owed' = NEVER /\ crossed' = FALSE /\ stranded' = 0

\* Power, panic, watchdog, at any step.
Reboot == BootWith(book.flash) /\ UNCHANGED wire

----------------------------------------------------------------------------
(* Time *)

Aged(t, bound) == IF t < bound THEN t + 1 ELSE bound
AgedMark(t, bound) == IF t = NEVER THEN NEVER ELSE Aged(t, bound)

MaskTime ==
  /\ monitor = AtRest /\ acted /\ handler = Idle /\ events = <<>> /\ wipe = "idle"
  /\ acted' = FALSE
  /\ mask' = [mask EXCEPT !.downFor = AgedMark(@, LINK_GRACE + 1),
                          !.claimFor = IF mask.wearing THEN Aged(@, CLAIM_TIMEOUT + 1) ELSE 0,
                          !.dhcpFor = AgedMark(@, DHCP_RETRY + 1)]
  /\ book' = [book EXCEPT !.since = Aged(@, SAVE + 1)]
  /\ owed' = AgedMark(owed, SAVE + 2)
  /\ stranded' = IF Stranded THEN Aged(stranded, CLAIM_TIMEOUT + LINK_GRACE + 3) ELSE 0
  /\ relink' = IF phy = "down" /\ relink > 0 THEN relink - 1 ELSE relink
  /\ UNCHANGED <<netif, phy, outside, events, handler, monitor, wipe, crossed>>

----------------------------------------------------------------------------
(* The specification *)

MaskInit ==
  /\ mask = BootMask /\ netif = [mac |-> OWN, addr |-> NOADDR, dhcp |-> FALSE]
  /\ phy = "down" /\ relink = RELINK /\ wire = TRUE /\ able = FALSE /\ events = <<>>
  /\ handler = Idle /\ monitor = AtRest /\ acted = FALSE /\ wipe = "idle"
  /\ book = [leader |-> "none", reigns |-> 0, dirty |-> FALSE, since |-> 0, flash |-> 0]
  /\ owed = NEVER /\ crossed = FALSE /\ stranded = 0

MaskNext ==
  \/ MonitorTask \/ EventTask \/ WipeCount \/ WipeDone
  \/ PhyUp \/ Unplug \/ Plug \/ Lease \/ Serves \/ Reboot \/ MaskTime

MaskSpec == MaskInit /\ [][MaskNext]_maskVars

----------------------------------------------------------------------------
(* Properties *)

\* Every event has been handled, and no task is in the middle of anything.
Settled == events = <<>> /\ handler = Idle /\ monitor = AtRest

\* However a swap, its bounce and the handlers of two links interleave, what
\* comes to rest on a live link is the address that goes with the MAC: the
\* mask's on a wearer, our own on the others once it is known.
AddressFits ==
  Settled /\ phy = "up" /\ mask.lease # VMAC =>
    /\ netif.mac = IF mask.wearing THEN VMAC ELSE OWN
    /\ mask.wearing => netif.addr = VMAC /\ mask.curIp = VMAC
    /\ ~mask.wearing => netif.addr # VMAC /\ (mask.lease = OWN => netif.addr = OWN)

\* "Revert to own identity so the node never strands itself": a wearer whose
\* address leads nowhere gives the mask up in time, whichever of the claim
\* timeout and the link grace is running, and whatever stale handler has said
\* that it has an address.
NeverStranded == stranded <= CLAIM_TIMEOUT + LINK_GRACE + 2

\* "A reboot inside the window loses at most a minute": a reign that flash does
\* not know is younger than that.
MinuteLost == owed <= SAVE + 1 /\ (book.flash # book.reigns => owed # NEVER)

\* "If we hold it now, we were elected at least once": no wearer counts zero
\* reigns.
WearerReigned == mask.wearing => book.reigns > 0

\* The book of reigns survives elections, wipes and reboots in any order, as
\* long as no wipe has crossed an election half way.
ReignsKept == ~crossed => MinuteLost /\ WearerReigned

\* "Followers keep their own identity and their own DHCP lease" (mask.c:7): the
\* remembered lease is never the mask's address.  The code does not keep this.
LeaseIsOwn == mask.lease # VMAC
=============================================================================
