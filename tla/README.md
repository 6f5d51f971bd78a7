# Bohun in TLA+

Formal models of the *Bohun* fleet: a handful of ESP32-S3 boards that gossip
over ESP-NOW, elect one of themselves, and serve one web site from behind one
address. The modules are translated from the firmware in `src/firmware`; TLC
model-checks them on small instances, TLAPS proves what matters most for every
value of the constants. `PROJECT.json` maps each definition to its source lines.

Contents: [the system](#the-system), [what is hard](#what-is-hard),
[modules](#the-modules-and-the-code), [runs](#the-runs), [findings](#findings),
[proofs](#the-proofs), [not modelled](#what-is-not-modelled), [plan](#plan).

## The system

Blades (ids 1-4, and a spare) have an Ethernet wire and a TLS server; witnesses
(two displays) have only the radio and never lead. All share `firmware/eth/main`.

| component | state | operations | what makes it correct |
|---|---|---|---|
| Control plane (`swarm.c`, kernels in `logic.h`) | roster of peers, elected leader, generation, clock | heartbeat every second, monitor turn every second, reception, abdication | one leader everybody agrees on, soon after every disturbance |
| The mask (`mask.c`, events in `eth_main.c`) | wearing, link, address, lease, claim clock | wear, drop, abdicate, tick, link up/down, got-IP | the public MAC and address are on one node, an elected one |
| Splicer (`splice.c`) | pair table, backend table, bench | accept, connect, relay, reap, refresh, drain, bind | caps kept, no visitor refused for the bench, no slot pinned |
| Readiness (`serve.c`) | probe streak, hold, standby | probe, judge, standby, abort | a dead server is out, a loaded one is not |
| OTA door and trial (`ota.c`, `selftest.c`) | two app slots, boot pointer, trial clocks | transfer, check, flip, poll, mark valid, give up | never without a bootable image; permanence is earned |
| Flight recorder (`blackbox.c`) | flash ring, boot counter, head | boot scan, erase, write, dump | the latest events survive crashes, in order |
| Serving (`serve.c`) | click tallies, error counts, refusal ring | HTTP handlers, NVS flush, wipe | counts not lost; a blade and its peers agree on its availability |
| Time beacon (`swarm.c`, `logic.h`) | each node's clock, beacons queued | NTP, beacon, adoption | clocks follow the truth, and do not wander |
| Observer OTA window (`ota_window.c`) | window, trial | open, expire, upload, trial | one window, always closing |
| The kobzar's memory (`mission/main/ui.c`) | last look at each peer, archive of clicks, rate ring, record reign | a look a second, fold, commit, restart | what the glass says happened, once |
| LED rail (`display/main/led.c`, touch in `tft.c`) | pixel buffer, strip, blinks, blackout, window rail | render, blink, blackout, wake, hold | dark when held dark, else the fleet as it is |
| Telemetry (`thermal.c`, `vitals.c`, `cpustat.c`), chart in `ui.c` | ring of temperature buckets, cached samples | sample, fold, draw | each point of the chart is what was measured then |
| Deployment scripts (`tools`) | - | discover, roll, check | followers first, leader last |

How they interact. `serve_is_ready()` is the one lever: heartbeats publish it,
the election and `mask_tick` obey it, the splicers of other blades route by it
and the image trial soaks on it. The monitor task drives election, mask and
drain; the Ethernet event task drives the link half of the mask; the splice
task, the probe task, the trial task and httpd run beside them and share flags.
The leader's splicer relays public port 443 to the blades' own 8080, its own
included only when it is the last one.

## What is hard

The full list, line by line, is under `hazards` in `PROJECT.json`. In short:

* The radio is lossy and a swap of identity takes the claimant's own link down,
  so every claim looks, for seconds, like a failure. Three timers (link grace,
  claim grace, claim timeout) run at once over that one bounce.
* The mask is taken off on four paths, only one of which is the election's.
* A node judges itself by another gate than its peers, at another moment.
* The backend table is rebuilt under open pairs; ends of pairs are evidence for
  the bench; a drain and an identity swap race the listener.
* The probe must tell a dead server from a full one, with evidence from another
  listener; its stamps wrap; the trial samples it from another task.
* The power may go in the middle of every flash command.
* One swap of identity is seen from two tasks: the monitor that orders it and the
  event task that handles the bounce it makes, with handlers that read the state
  of one moment and act in another.
* Books are kept twice (refusals by kind and in sum, reigns in RAM and in flash),
  under different locks or none, and wiped from a third task.
* Every clock but the blades' is set by hearsay in whole seconds, and whatever is
  filed by the clock must survive its being set back.
* Counters in heartbeats start at zero with each life of a blade: everything a
  display adds up must tell a restart from a loss, a silence and a wiped flash.

## The modules and the code

Each specification module has a map from its definitions to lines of code. A
unit of time is said in the header of each. Timers count units and are capped
one past their threshold. Definitions marked "Seeded slip" are deliberate
faults, one line away from the code's own definition; nothing in a specification
refers to them. They exist to show that each property can fail.

**`Logic`** - the kernels of `logic.h` shared by state machines: `PeerAlive`,
`BohunElect`, `ClaimGrace`, `BenchThreshold`, `BenchNext`, `PairSilent`.

**`Swarm`** (`MCSwarm` for instances) - control plane and mask of a set of
nodes. `node[i]` is what a node knows of itself (`mask.c` statics, readiness,
leader), `roster[i][j]` what it believes of a peer. `Turn` is one pass of
`swarm_monitor_task`: abdication, election, swap, `mask_tick`, in the code's
order. `Heartbeat` delivers to all running peers but any subset. `LinkUp`,
`GotIp`, `Readiness`, `WireCut`, `WirePlug`, `Crash`, `Boot` are the outside.
`Tick` lets a second pass once every running node has had its turn and its
heartbeat, in any order. Boards without a server use the weak
`serve_is_ready()`, which is always true, as the code does.

**`Splicer`** (`MCSplicer`) - the splice task and the monitor
task that asks it to drain. A slot is a pair; a direction is `clear`, `parked`
or `eof`; one `Relay` is one pass over a pair, with every outcome of each
`recv`/`send`. Backend choice keeps the code's order of preference (least loaded
of the roomy, suspects last) and leaves the tie open, where the code hashes the
client's address. `past` is history: how the last connections of each backend ended,
and how long ago. **`Breaker`** is what a circuit breaker promises; the bench of
each backend implements it (refinement mapping in the `INSTANCE` of `Splicer_proofs`).

**`SelfProbe`** - `serve.c`'s probe task, drill standby and `serve_is_ready()`.
The probe's errno is one of the set a listener in that state can cause. `mute`
and `deaf` are history: how long the listener has been dead with nothing (or
only visitors) to excuse the probe.

**`Release`** EXTENDS `SelfProbe` - `ota.c` and `selftest.c`, with the
bootloader and the chip library's OTA calls modelled from how the code uses
them. `slot`, `boot` and `run` are flash; everything else is lost by `Reboot`,
which `OtaRestart`, `ProbeAbort`, `TrialLost` and `Crash` share. The OTA handler
is a sequence of steps so that a crash may fall between any two.

**`BlackBox`** - the ring in flash, one step per flash command (`Erase`,
`Program`), torn forms of both (`TornErase`, `TornWrite`), and `Boot` with the
scan and the landing rule. `Mishaps` turns on three rarer faults: NVS wiped
(`nvs`), no memory to scan (`oom`), a torn write that leaves a good magic and a
too-high boot number (`stuck`). **`EventLog`** is what a recorder promises;
`BlackBox` implements it (`Log!Spec`, refinement mapping in the `INSTANCE`).

**`OtaWindow`** - `ota_window.c`, with the access point and the bootloader
external. `task[t]` is one incarnation of `window_task`: in its loop, showing a
failure, or inside `httpd_ssl_stop`. `Open` is the touch; `Turn` one pass of the
loop, 500 ms, which is the unit of time; `left` is `s_expiry_us` as the time to
it; `age` is history. `TrialWon`, `TrialLost` are the observers' own `trial_task`.

**`Kobzar`** (`MCKobzar`) - what the mission display makes of heartbeats. `blade`
is a blade's counters, in RAM and in flash; `heard` the display's roster entry;
`seen` what it compares the next look with; `archive`, `ring` and `hall` the
click archive, the ring of refusals and the record reign. `Render` is one turn
of `render_task`, `Heartbeat` a frame heard or lost, `Serve` the load of the
click ledger, which the code does seconds after the first heartbeat. One kind of
click stands for six. The archive has columns for four eligible blades, which is what
a roster has (`FleetAssumption`). A reign is read in whole seconds, of which none, one
or several pass from look to look. A heartbeat's sequence number stands for the uptime in it:
both grow with every frame of a life. The display's own flash is assumed to open.
`hist` counts what really happened.

**`Mask`** - one blade, step by step. `monitor` is where the monitor task is in
its turn (abdication, election, `mask_set_leader`, the three calls of
`swap_identity`, `mask_tick`, the reign book), `handler` where the event task is in
a handler; `events` is the queue between driver and event task. The driver, lwIP's
interface with its DHCP client, and the PHY are external. `Swarm` takes a whole
swap for one step; what a step of `Swarm` hides is here. **`Identity`** is what a fleet
takes for granted of a blade; each node of `Swarm` implements it, and so does `Mask`
(refinement mappings `Blade(i)` in `Swarm_proofs`, `Id` in `Blade_proofs`).

**`Ledger`** - a refusal is `Tally` (kind, under the error lock), `CountRefusal`
(sum, under the other), `Sample` (its face in the ring); the servers' tasks run
them at once, the splicer has a shorter way (`SpliceRefused`, `SpliceCount`), and a
wipe takes no lock. The kinds are two: 5xx and the rest.

**`Clicks`** - one slug's counter in RAM and in flash. **`TcpipBeat`** - the
watchdog of the tcpip thread, a heartbeat a step.

**`LedRail`** - every painter of the strip: `render` and `animator` paint pixel by
pixel outside `s_paint` and refresh inside it; `touch` is the gesture task with
`led_blackout` and `led_ota` in their steps. A view of a member is what the colour
law looks at. The host's pixel is painted twice, as in the code: with our own roster
entry (`RenderSelf`, blue or the slow amber of an update) and, last, by whether
anybody is heard (`RenderHost`). The glass is drawn every fourth turn; which turn that
is, is left open (`RenderSkips`, `RenderDone`).

**`Climate`** - the ring of UTC buckets, a pass of the render task per step, which files
what it hears and redraws the chart when it is due (`Redraw`, in words of `WORD`
values), and the three buttons (`SetMode`), which redraw it at once. `glass` is what
was drawn; `filed` is history: the passes, each with its second and its bucket.

**`FleetClock`** - a clock is kept as its error in parts of a second; a beacon
carries whole seconds and ages in its queue.

**`MCBlade`, `MCObserver`** - parts that share no state are explored one after the
other in one run: the initial state picks the part that moves (`scene`), the
others wait. The parts' state spaces add up and do not multiply.

The types of those parts are the invariants `BladeTypeOK` and `ObserverTypeOK`.

**`*_proofs`** - theorems about the module of that name; `Blade_proofs` about `MCBlade`
and its parts but for the recorder (`BlackBox_proofs`, which it extends),
`Observer_proofs` about `MCObserver` and its parts. **`Sums`** - lemmas about the
library's fold over a set, for the proofs about sums.

## The runs

Bounds are named constants of the modules. Times below are for two cores.

| run | question | instance and why it is enough |
|---|---|---|
| `swarm_fleet` | does a fleet find its face from power-on, and keep it through a fault? | real timers in seconds (3, 6, 5, 10) and one fault of any kind (crash, cut, stand-down, lossy heartbeat), unlimited recoveries; either two blades from power-on, or three at peace and below them an eligible board without a server. Three blades are the fewest in which a bounce can cascade past the next claimant. `OnlyElectedWear`, `OneFace`, `NoTwinFaces` (2 s), `SwiftTakeover` (3 s from power-on, 2 s at peace), `NoCascade`; 2 min |
| `swarm_dark` | *violation*, see below | two blades, a switch port slower than the claim timeout |
| `splicer_caps` | caps and solo mode under table rebuilds; does every slot come free again? | one peer and self, two slots over a cap of one, so the cap bites; fair task; 2.5 min |
| `splicer_bench` | does the bench shape choices only? | two peers, streak 2, first bench 1, ceiling 2, so that doubling and ceiling happen, and patience 0, as the ends of pairs are what matters here. One slot: that the less busy of two is taken is for `splicer_caps`' kind of table, and for every table in the theorem `BenchShapes`; 85 s |
| `blade_parts` | the parts of a blade, one at a time | recorder: three sectors of three records, 11 writes (the ring wraps), three resets, all mishaps, `KEEP` = 2 (what three resets in a row leave of nine slots). Mask: link grace 1, claim timeout 2, relink 2, so that a bounce outlasts the grace and a claim its timeout; one event outstanding when the outside adds the next; two reigns. Ledger: two servers and the splicer, four refusals over a ring of two and a tally of two, any wipe. Clicks: a counter to 4 and a minute of 2. Beat: 3 stalls after a settling of 2. 2.5 min |
| `mask_lease` | *violation* | the mask of `blade_parts` |
| `ledger_splice` | *violation* | the ledger of `blade_parts`, three refusals and a tally that cannot fill |
| `release_trial` | images, trials and probes together | scaled timers (probe 2, hold 4, soak 4, deadline 16, uptime 18 units); a trial can fail, stumble, be excused and be won, and both slots are used in turn; 35 s |
| `observer_parts` | what is behind the screens, one part at a time | window: scaled timers (join 2, failure display 2, window 5, extension 3, trial 3, deadline 7); three overlapping tasks, one more than a stop and a retry need. Rail: the host's pixel and one member that is well, lost or updating, every interleaving of the three tasks. Climate: two dies, two buckets of two seconds, readings on either side of zero (C rounds them differently), a clock of eight seconds in words of nine that goes anywhere, two passes (a slot filed twice, reused or left alone) and any presses. Clock: two blades and a watcher, two ticks to the second, a tolerance of 2 s, one power cut, chains of two beacons. 3 min |
| `kobzar_watch` | is what the glass says what happened? | one budget for each thing kept, chosen in `Init`: a radio that loses four of five frames of a blade that dies twice; two clicks, two deaths and a fault (flash wiped, or not opened); two blades' refusals with a death and a reset; four turns of reign. The hour is two minutes of two seconds, cells and wire saturate at one, so every ring goes round and every ceiling is hit; 130 s |
| `kobzar_twice` | *violation* | one click, one restart |
| `release_deaf` | *violation* | the firmware's own timers in polls of 2 s: probe 4, first probe 10, hold 30, soak 30 |

What the passing properties say:

* `OneFace`: a bounded time after the last disturbance the lowest fit blade is
  the only wearer and everybody names it. `SwiftTakeover` and `NoTwinFaces` bound
  how long the fleet is without a face, or shows two, between disturbances.
  `NoCascade`: nobody claims past a lower claimant that is only bouncing.
  The first two except `Stuck`, the known trap below.
* `InflightCap`, `SoloIsAlone`: no backend carries more pairs than its cap, and the
  leader serves for itself only when it is the last. `BenchShapesChoice`: while the door
  is open there is a backend to go to, be all benched; and by how the connections of
  each have really ended (`past`, a history apart from the bench's own books) no visitor
  passes over a backend that nothing speaks against, nor goes to one that just died
  while another with room is above doubt. `SlotReleased`: each slot comes free again and
  again, or is in the hands of a client that has spoken, with both sides there and bytes
  moving: the patience with silent clients and that with half-closed pairs are both
  needed, not the idle one alone.
* `Corpse`: a listener dead for long, with nothing to excuse it, is out of the fleet.
  `NoBrick`: there is always an image to boot. `Decided`: a trial ends by its
  deadline. `Earned`: only a soak of healthy polls makes an image permanent.
* `RadioPure`, `DoorIsThere`, `WindowCloses`: a cancelled, failed, retried window is
  gone a window's time after the last opening or transfer, and leaves nothing
  behind. `ImageNeverCut`: the trial's restart never cuts an image.
* `LossIsReal`, `OneLinePerDeath`, `OneFoldPerDeath`, `ChartedOnce`,
  `ChartIsSum`, `HallOfFame`: loss, deaths, folds, refusals and record are those
  that happened, whatever is lost, dies or restarts. They bound from above (no
  death told twice); a death between two unheard lives is not told, by design.
  `HallOfFame` excepts what follows a reign that fell in the second of the look
  before (`slip`): the code does lose that record, see the end of the findings.
* `AddressFits`: whatever interleaves, a blade at rest on a live link answers at the
  address that goes with its MAC (except after the trap of `mask_lease`).
  `NeverStranded`: a wearer whose address leads nowhere gives the mask up in time.
  `ReignsKept`: flash is at most a minute behind the reigns, and no wearer counts
  none, except where a wipe crosses an election.
* `RefusalsTold`: with two servers, a wipe and a ring, the kinds add up to the sum and
  the ring holds the newest faces; the exceptions are the splicer's refusals, a wipe
  that met a refusal half way, and a full tally. `ClicksForfeit`: a cut forfeits the
  clicks of one minute.
* `WatchdogSound`: the watchdog aborts no blade whose thread has run lately, and every
  armed one whose thread has not, wire or no wire in between.
* `HeldDark`: a rail held dark is dark, although both painters may be in the middle
  of a frame. `WholeFrame`: a frame nobody crossed is the roster as it was.
* `ChartTells`: each point of the chart is the statistic of what was filed under its
  bucket, and nothing inside the window has been given up. `GlassTells`: what stands on
  the glass is what the passes up to some moment told of the window that ended then,
  under the statistic its caption names; a pass it leaves out came less than ten seconds
  later and never, by the clock, before it (the clock may have been set back: the age of
  the chart is a difference of 32-bit words).
* `ClockHonest`: a clock set by hearsay is never ahead of the truth and is behind by no
  more than its chain of beacons explains. `NoWander`: no beacon moves a set clock
  while those chains are within the tolerance.
* `OrderKept` (no two events out of order in the ring, none in a dump), `CleanWrites`,
  `ForgetsOldest`. Each names the mishaps it does not survive: a wiped NVS breaks the order
  (`eth_main.c:80`, against `blackbox.c:143`), a boot without memory to scan can
  land a later write on flash that is not blank (against `blackbox.c:183`), and
  a stuck record hides newer ones (against `blackbox.c:7`).

Deadlock is checked everywhere but in `blade_parts`, `observer_parts` and the two runs
of `Kobzar`, in which budgets of writes, refusals, readings or reigns do end.

Fairness. Only `FairSpec` of `Splicer` has any: weak fairness of `Tick` (the
clock runs) and of `Reap(s)`, a pass over pair `s` in which nothing arrives and
nothing can be sent. `splice_task` is an endless loop that visits every pair in
each pass, with a bounded `select`, so both are justified; clients and backends
are owed nothing. In `Swarm` and `Release` "eventually" is stated as bounds on
units of time, which need no fairness.

## Findings

* **`swarm_dark` / `NeverDark`**: a blade whose link comes up only after the
  10 s claim timeout has dropped the mask but is still its own leader. The swap
  is only driven by a *change* of leader, so nobody ever wears the mask again.
* **`kobzar_twice` / `NeverTwice`**: each restart of a blade counts its clicks
  twice under EVER, since its first heartbeats say zero (`swarm_start` comes before
  `clicks_load`) and a zero is taken for a wiped flash.
* **`mask_lease` / `LeaseIsOwn`**: if the mask is dropped between its link-up and the
  handling of the address event that this posted, the event handler files the
  mask's address as the follower's own lease (`mask.c:117`), and each later link-up
  of the follower puts it on again, on the follower's MAC.
* **`ledger_splice` / `AvailAgrees`**: the splicer's refusals count against a blade's own
  availability but not against the one its peers compute for it.
* **`release_deaf` / `CertifiedListens`**: an image whose own listener is dead for
  the whole soak is marked valid when its node leads, because visitors admitted
  for other blades excuse each dead probe.

Known, with no run of their own. The stand-down stamp is never cleared, so the 60 s
hold is entered again each time the 32-bit millisecond counter comes round
(49.7 days after a stand-down); `Permanent` below is therefore proved for one
turn of the counter. The probe task is started only by a successful start
of the admin server, so a blade without its OTA door is also never probed.
The HTTP read-back takes the gap a torn write leaves for the end of history
(`blackbox.c:249`, "ran off the recorded history"). Of the splicer:

* A client that hangs up on a mute backend ends the pair as done, which forgives
  the backend (`splice.c:166`), so one that "accepts and returns nothing three times
  running" (`SYSTEM_DESIGN.md:119`) need not be benched.
* After the drain the listener is still open (`splice.c:632`), and the swap kills
  what it admits, against "a handover kills nothing" (`SYSTEM_DESIGN.md:133`).
* A verdict on a backend that is already benched counts at once (`Trip` of
  `Breaker`): of four pairs in flight that one stumble ends, the third benches the
  backend for 15 s and the fourth for 30 s, although "brief stumbles heal in
  seconds" (`splice.c:85-86`).

Of the displays:

* `swarm_snapshot` (`swarm.c:1098-1142`) never fills `req_err_srv`, so the tile's
  "ours (5xx)" is always zero; `FleetErrs` models what is left.
* The longest reign is to persist, "the hall of fame survives reboots" (`ui.c:19`). The
  record follows a reign that lasts in RAM; if the reign falls in the same whole second
  in which it was last looked at, it is compared with the record that it has set itself,
  is not longer, and is not written (`ui.c:1250`). Looks are 100 ticks apart, so this
  takes a look that is over within a tick of 10 ms. `HallOfFame` holds until then.
* The first look of a display takes the baseline before the blades are heard, so
  what each refused since it booted is charted as one second's spike (`ui.c:1517`).

* `px` writes the pixel buffer outside the strip lock, although "every painter takes
  this" (`led.c:47-51`, `24_display_led.md:97`). A pixel painted between a blackout's
  clear and its refresh therefore stays lit (`HeldDark` excepts it); a frame may mix
  two painters' work (`WholeFrame` excepts crossed frames).
* The window's "every pixel slow-blinks amber" (`led.c:198`) may be painted over by a
  frame that was under way when the window opened, and stays so until it closes.

Of a blade's books and clocks:

* A DHCP lease may go with the link while `s_have_ip` is set by the handler of an
  earlier event, so that no discovery is retried; `AddressFits` speaks of blades whose
  lease is known.
* `/temps` without memory (503), `/reset` (403) and an unknown click (404) answer by
  hand and are not tallied, although "every non-2xx" is to be (`swarm.c:232`).
* Two blades that lost their clocks and see no NTP follow each other's beacons; with a
  tolerance smaller than what a hop costs they drag each other back for ever. The
  model ends a chain at `MAX_HOPS`.

And of the update window:

* `ota_window_open` is "idempotent" (`ota_window.h:29`), but reopens while the last
  window's failure is on the glass for 4 s. The old task's teardown then kills the
  retry, and two tasks can come to stop one server, which the model takes for a
  panic.
* A transfer *sets* the time left to 60 s, which shortens a window that had more:
  the comment at `ota_window.c:226` says it "extends the window".
* A page transfer in the trial of a fresh image may be cut by the trial's restart;
  images may not (`ImageNeverCut`), as the chip library refuses them in a trial.
* The join is asked for once: a window whose AP drops it shows its old address
  until it closes.

## The proofs

Of the properties that passing runs check, TLAPS proves all but one (`SlotReleased`)
for every value of the constants. The assumptions on constants are the named `ASSUME`s of the
modules, and what a theorem says before its `=>`:

| assumed | by | in the code |
|---|---|---|
| `PEER_LOST > 1` | `NobodyClaimsPast`, `Converges`, `TwoBlades`, `ColdPair`, `OldFaceYields` | 3 s, heartbeats every second |
| `Bounces`: a relink fits the link grace and the claim timeout | `Converges` | "a relink takes 1-3 s" (`mask.c:134`), 6 s and 10 s |
| `SETTLE >= Enough` | `Converges` | how long a calm is meant by "settled": see below |
| `TAKEOVER >= Longest` | `TakesOver` (`SwiftFleet`: `>`) | 8 s: the longest of silence (3), link grace + 2 (8) and relink + 1 (4) |
| two blades that may lead (`TwoBlades`) or are switched on (`ColdPair`), `TWIN >= 2` | the same | the least fleet that can hand over |
| `Pair \subseteq Node` | whatever is said of `FleetSpec` | the two boards of the run's cold start are of the fleet |
| `SECTORS > 1` | `WritesClean`, `OrderedRing`, `RingIsLog` | the partition is 256 KB of 4 KB sectors (`partitions.csv`) |
| `KeepFits`: `KEEP` is at most the sectors less one, or their records less what each reset may step over | `RingIsLog` | what a ring erased by the sector can hold |
| `RELINK > 1` | `AddressRight` (`NotStranded`, `MaskWhole`: `RELINK > 0`) | a relink (1-3 s) outlasts a turn of the monitor (200 ms, `swarm.c:793`) |
| `LINK_GRACE <= CLAIM_TIMEOUT` | `NotStranded` | 6 s, 10 s |
| `OneWrap` | `Permanent` | one turn of the stamps is 49.7 days; a hold is 60 s, a poll 2 s |
| finite sets of nodes, servers and window tasks | all | four ids, two servers, one touch |

Each holds of the instance that TLC runs, except the bounds of `Swarm` that are
there in place of a budget of faults: `SETTLE >= Enough`, `TAKEOVER >= Longest`, two
blades. The run has three blades at peace and one fault, and promises that are tighter
for it; its other half, two blades from power-on, is an instance of `ColdPair`.

| theorem | statement | argument |
|---|---|---|
| `Swarm_proofs!Typed`, `ElectedWear` | types; a wearer is up, its own leader, eligible and real | `IInv` pairs `TypeOK` with `OnlyElectedWear`; the election's answer being the node itself implies `SelfOk` (lemma `ElectAnswers`), each other path only takes the mask off |
| `Swarm_proofs!NobodyClaimsPast` | `NoCascade` | `ClaimInv`: a claimant without its address has no link; inside its graces everybody running holds its heartbeat of this unit or of the last (`Vouched`), so that whoever elects in that time does not pass it |
| `Swarm_proofs!Converges` | `[]OneFace` after any number of faults | invariants of the calm, each with its deadline. `SilentInv`: who cannot be heard is forgotten. `GhostInv`: a willing node whose cable was out when it booted goes on electing itself, its claims time out, and by rank each is out of everybody's way (`Due`). `FaceInv`: the lowest willing node with a wire then climbs to a link and to its own leadership within three bounces, everybody hears it, everybody follows |
| `Swarm_proofs!TakesOver`, `SwiftFleet` | `[]TakenOver`, `[]SwiftTakeover`, any number of blades and faults | `DarkInv`: while nobody wears, every link that is down and every entry of a dead peer has aged as long as the dark has lasted (`LinksAge`, `DeadAge`), and what is still in a roster of the living is fit or on its way out (`ShownFit`); so after `Longest` units the lowest fit blade finds nobody below itself and is a wearer by its next turn (`Named`, `LowestNames`) |
| `Swarm_proofs!OldFaceYields` | of two live faces the lower is at most two undisturbed units old, any number of blades | `Heard(i, s)`: what the fleet knows of a blade that has been a face for `s` units: from the second everyone holds its heartbeat, so that no higher blade leaves its turn with the mask, and from the third none has it. The age is `stood`, a history variable that `StandSpec` adds to any of the specifications |
| `Swarm_proofs!TwoBlades` | `[]NoTwinFaces` for a fleet of two that may lead | `TwinInv`: both faces are then as old as the counter `twin` says, so that `Heard` ends it at two |
| `Swarm_proofs!ColdPair` | the same for the two blades switched on from nothing, on a site of any size | who is not of the pair is never up, which is all that `TwinInv` asks of a fleet of two |
| `Swarm_proofs!NodesWhole`, `Blade_proofs!MaskWhole` | a node of `Swarm`, and the blade of `Mask`, implement `Identity`: a face changes by a swap that takes the link down; the node at every step, the blade whenever its events are handled, is `Whole` | a swap of `Swarm` restarts the link or leaves it (`FaceMovesOnly`); one of `Mask` puts the monitor before `esp_eth_stop` in the step that changes the face (`FaceSteps`). `SeenInv` and `GraceInv`: what a turn has seen to; `CrownInv`, `HeldInv`: a wearer's leader and address, handler by handler |
| `Splicer_proofs!Typed`, `Capped`, `Solo`, `BenchShapes` | types, cap, solo mode, bench | cardinality of the pairs on a backend grows by one only on `Accept`, whose pick has room; solo is inductive with the table; for `BenchShapes`, `Tallied`: a backend is counted against as often as its connections died, and from the streak on is benched until its term has gone by since the last of them; so who is benched may be doubted and who just died is benched (`BenchIsDoubt`); `SomeonePicked`: a least busy backend exists in each finite set, by well-founded induction |
| `Splicer_proofs!BenchIsBreaker`, `WaitsGrow` | the bench implements `Breaker`; so a wait is served in full, and until a success none is shorter than the last | `Sentenced`: a sentence is only served out, and only a backend that is not benched or on probation has strikes. A pair's end is a verdict (lemma `JudgeTrips`); the ends of many pairs in one step, by a drain or a refresh, are none but forgiving ones (`CloseAllJudges`) |
| `BlackBox_proofs!Typed` | types, the head never leaves the ring | modular arithmetic on any number of sectors and records |
| `BlackBox_proofs!OrderedRing` | `[]OrderKept` | `Ordered`: boot and sequence numbers order the records as the writing did, so the scan finds the newest; `ReadsBack`: the k-th record behind it is the k-th last written |
| `BlackBox_proofs!WritesClean` | `CleanWrites` | `Fresh`, `Cleared`: the rest of the sector at the head is blank, and all of it once erased; a landing on dirt moves to the next sector |
| `BlackBox_proofs!RingIsLog` | step by step, `BlackBox` implements `EventLog` (`ForgetsOldest`) | `OldBySector`, `OldBySlot`: a record has been followed by one in each sector since its own, and by one in each slot but those that landings stepped over; what an erase takes is thus older than the latest `KEEP` (lemma `ErasedIsOld`) |
| `BlackBox_proofs!Remembered`, `ToldOnReboot` | what implementing `EventLog` comes to: the latest `KEEP` are always readable | induction over the abstract specification |
| `Observer_proofs!WindowTyped`, `Pure`, `NoFalseDoor` | types, `RadioPure`, `DoorIsThere`, any number of tasks | `Shape`: the state alone says whether there is a server, and at most one task is stopping it |
| `Observer_proofs!AlwaysCloses` | `[]WindowCloses` | `Clocks` adds the age by which a task must have left each phase; age plus time left never exceeds a window |
| `Observer_proofs!NeverCut` | `ImageNeverCut` | `OneImage`: a trial runs beside an unmarked image only, and none is received beside one |
| `Kobzar_proofs!TrueLoss` | `[]LossIsReal` | `WindowKept`: a blade that has not restarted is as far ahead as frames were lost; one that has cannot have sent more than were lost |
| `Kobzar_proofs!ToldOnce`, `FoldedOnce` | `[]OneLinePerDeath`, `[]OneFoldPerDeath` | `LinesDue`, `FoldsDue`: what is written plus what may still come of a restart unheard or unread is at most the deaths |
| `Kobzar_proofs!ChartsOnce` | `[]ChartedOnce` | `ChartInv`: what was charted, what the next look would chart and what the blades are ahead of the roster add up to no more than was refused; a blade that restarts only lowers the sum, since a count that falls charts nothing |
| `Kobzar_proofs!ChartSums` | `[]ChartIsSum` | `Charts(r, s)`: what each cell of the two rings holds of the seconds charted; a minute's roll-over moves one sum into a cell |
| `Kobzar_proofs!Remembered` | `[]HallOfFame` | `HallKept`: until a reign slips, a record not in flash is that of the reign that lasts |
| `Kobzar_proofs!Typed` | `[]TypeOK`, on which no run spends time | the invariants above type the roster, the history and the rings; `RestOK` types the archive and the budget, whose one sum is a natural (`FoldNat`, by `Sums`) |
| `Release_proofs!Typed` | types | |
| `Release_proofs!AlwaysBoots` | `[]NoBrick` | `FlashInv` adds what the handler's progress says of the spare slot and of the boot pointer, which `NoBrick` alone does not carry across a reset |
| `Release_proofs!Noticed` | `[]Corpse` | `ProbeInv`: the mute time is at most the failures it cost times the period, plus the part of a period since |
| `Release_proofs!Bounded` | `[]Decided` | `TrialInv`: the trial's elapsed time is the node's uptime |
| `Release_proofs!Permanent` | `Earned`, if the uptime stays below `WRAP` and the hold spans two polls | `SoakInv`: the current run of healthy polls began after the hold, or the next poll will break it |
| `Blade_proofs!BeatTyped`, `Watched` | types, `[]WatchdogSound` | `BeatInv`: the count of failures is the turns watched since the thread last ran, less one |
| `Blade_proofs!ClicksTyped`, `MinuteForfeit` | types, `ClicksForfeit` | `ClickInv`: no click unknown to flash is older than the stamp of the last write |
| `Blade_proofs!MaskTyped` | types | one part per task (`MaskParts`), since each action moves one task and reads the others |
| `Blade_proofs!Reigned` | `[]ReignsKept` | `ReignInv`: while no wipe crossed, an unwritten reign keeps the book open and is no older than the last write, a turn of the monitor leaves no open book a minute old, and a claim is counted before the mask is put on |
| `Blade_proofs!AddressRight` | `[]AddressFits` | `QueueInv`, `LinkInv`: which events may be outstanding in each state of the PHY and of the handler; `WearerInv`, `LeaseInv`: what each step of the handler holds in its hand; `DhcpInv`: no discovery outlives the bounce, which is where `RELINK > 1` is needed |
| `Blade_proofs!NotStranded` | `[]NeverStranded` | `GraceInv`, `StrandInv`: while a wearer's address leads nowhere the time it has been so is behind one of the two clocks that `mask_tick` and the abdication watch, and a link that comes back hands it from the one to the other |
| `Blade_proofs!LedgerTyped`, `Told` | types, `[]RefusalsTold` | `Books`: a kind is ahead of its sum by the refusals that raised the one and not the other; `Shown`: each of the last `RING` faces stands where its number says |
| `Observer_proofs!RailTyped`, `StaysDark` | types, `[]HeldDark` | `DarkInv`: unless a painter was caught in the middle of a frame, the buffer is dark between a blackout's clear and its refresh, and the strip after it |
| `Observer_proofs!FramesWhole` | `WholeFrame` | `FrameInv`: while nobody crosses a frame the animation sleeps and the buffer holds what has been drawn of it |
| `Observer_proofs!ClockTyped`, `HonestClocks` | types, `[]ClockHonest` | `ClockInv`: a beacon in a queue is behind by its chain, the fraction it lost and the time it has waited |
| `Observer_proofs!SteadyClocks` | `NoWander` | whole-second arithmetic on top of `ClockInv` (lemma `InTolerance`) |
| `Observer_proofs!ClimateTyped`, `ChartsClimate` | types, `[]ChartTells` | `ClimateInv`: a cell is the count, sum and extremes of the readings its key stands for (`CellsTell`); the key of a slot is that of the last reading filed in it (`KeysTell`); while the clock goes forward so do the buckets (`InOrder`), and two buckets of one window never share a slot |
| `Observer_proofs!GlassIsTrue` | `[]GlassTells` | `GlassInv`: the glass shows the passes up to some moment, and those after it are less than a redraw's time younger; a later pass that stays off the glass is one whose unsigned difference said so (`NotDue`), filed readings do not change what an earlier moment told (`StillPainted`), and what a redraw shows is what its passes told (`RenderPaints`, from `ClimateInv`) |
| `PartsApart` of `Blade_proofs` and of `Observer_proofs` | each part of a composed run behaves as it does alone | a step of a scene is a step of its part and a stutter of the others; so what is proved of a part is proved of the run |
| `BladeTyped`, `ObserverTyped` | `[]BladeTypeOK`, `[]ObserverTypeOK` | the parts' types, by `PartsApart` |

Each inductive invariant was checked with TLC on the runs' instances first.

Sums. `MapThenSumSet` is a fold that picks elements with `CHOOSE`, and no induction
theorem can be instantiated here. `Sums` proves what is needed by minimal
counterexample: of the subsets of a finite set on which a claim fails one has least
cardinality, and the fold's own equation refutes it there. `TotalChange`,
`TotalSupport` and `TotalMoved` are what the charts are proved from.

`OneFace` and its calm. The theorem lets any number of blades be cut, crashed and
revived in any order before the calm, and then asks for a calm of `Enough`: silence
and grace, a claim timeout for each blade that was booted without its cable, three
bounces; 73 s for three blades with the firmware's timers, nearly all of it for such
blades. `swarm_fleet` asks for 15 s, after one fault. Neither follows from the other.

No wearer, and its bound. `Longest` is met exactly: a self-named leader without the
mask (the trap of `swarm_dark`) goes on telling its peers that it is able; if its
cable is cut it stays able for its link grace, everyone waits for it, and the mask is
on six seconds of grace and two turns later. TLC, on small timers, walks to a dark of
`Longest` and to no longer one. "Another blade wears the mask in under four seconds"
is therefore a promise for a fleet that was at peace and met one fault, which is the
instance of `swarm_fleet`; of any fleet, under any faults, eight seconds are the truth.

Two faces, and their bound. Each pair of faces parts within two units, in any fleet.
Pairs may follow each other: with three blades from power-on, of which the lowest has
its cable pulled in its claim and put back before its link grace is over, TLC walks to
two faces for four units on end (and on that path not to five), since the middle blade
claims while the lowest is mute. So 2 s is the bound of two blades, and of three that
meet one fault; what a succession of pairs comes to with more blades is open.

One swap, two models. `Swarm` is about fleets and lets a swap be one step; `Mask` is
about one blade and lets it be many. What the fleet's proofs use of a node, that a wearer
leads, that one with a link has its address and one without is inside its graces after
a turn, is `Whole`, and `MaskWhole` says that the many steps come to rest in it. `Mask`
has one state at rest that a swap of `Swarm` does not leave: if the link comes up in the
very turn that claims, its handlers set `s_have_ip` after the swap has cleared it, and the
claim runs on the link grace in place of the claim timeout. A node of `Swarm` is in that
state only after a cut, so `MaskWhole` is about states and `Id!Spec` about faces; a step
by step refinement of all that a node is would be false.

Only model-checked:

* Two faces for at most two units on end in a fleet of three, after one fault (above).
* `SlotReleased`: liveness under fairness is out of the prover's reach, as is
  `ENABLED`. So is what a recursive function computes, except where it is the fold
  of `Sums`.

## What is not modelled

* HTTP handlers, TLS, page assets, JSON and all wording: I/O without protocol
  state. Percentiles, latency and load figures, hour labels: pure read-outs. The
  heap tiers and the panel driver of the displays, and the die and CPU samplers
  (`vitals.c`, `cpustat.c`), on which nothing else depends.
* The deployment scripts: operator-side shell without state of its own.
* The tcpip mailbox is assumed to have room, the clocks of the chips not to drift.
* Authentication: a refused request changes nothing and is left out.
* In `Swarm`: the generation number, the packet-loss and load figures, the receive
  queue (any heartbeat may be lost instead) and the inside of a swap (see `Mask`).
* In `Splicer`: bytes (a direction is empty, full or closed) and statistics.
* In `Release`: the announcement of a release to the displays, and the contents
  of an image beyond whole or torn.

## Plan

Done, in this order: `Logic`, `Swarm`, `Splicer`, `EventLog`/`BlackBox`,
`SelfProbe`/`Release`, `OtaWindow`, `Kobzar`, each with its proofs; then `Mask`, `Ledger`,
`Clicks`, `TcpipBeat`, `LedRail`, `Climate`, `FleetClock`; then the proofs of what the
runs check. To do, most important first:

1. `Handover`: `Splicer` and `Mask` composed - which of the four ways of losing the
   mask drains, and what an abdication cuts.
2. A bound on the succession of two faces with three blades and more.
3. A lease as an abstract specification, implemented by election and mask.
