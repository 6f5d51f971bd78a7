------------------------------- MODULE Kobzar -------------------------------
(***************************************************************************)
(* The fleet's long memory (mission/main/ui.c): what a display without a   *)
(* wire makes of the counters it hears in heartbeats.  Blades die and come *)
(* back with counters at zero, heartbeats are lost, the display itself     *)
(* restarts; out of that it keeps a rate of refusals, an archive of        *)
(* clicks, a line for every death and a record of the longest reign.       *)
(*                                                                         *)
(* Timers are choices: a minute since the last commit, three seconds of    *)
(* silence may or may not have passed.  A heartbeat a second: its sequence *)
(* number stands for the uptime in it too, both of which grow with each    *)
(* heartbeat of a life and start again with the next.                      *)
(***************************************************************************)
EXTENDS Integers, Sequences, FiniteSetsExt

CONSTANTS
  Blade,      \* the eligible members of the fleet
  WIRE,       \* the largest click count a heartbeat can carry
  CEIL,       \* the largest count a cell of the rate ring can hold
  SECS,       \* BOHUN_RATE_SECS
  MINS,       \* BOHUN_RATE_MINS
  Budget      \* how much may happen: the bounds of a behaviour, see Init

\* The roster has four eligible members; ui.c (1636) archives no more than that.
ASSUME FleetAssumption == IsFiniteSet(Blade) /\ Cardinality(Blade) <= 4
ASSUME SizesAssumption == {WIRE, CEIL, SECS, MINS} \subseteq Nat \ {0}
ASSUME BudgetAssumption ==
  Budget \subseteq [blades : SUBSET Blade, beats : Nat, losses : Nat, clicks : Nat, refusals : Nat,
                    faults : Nat, resets : Nat, deaths : Nat, reboots : Nat, turns : Nat, reign : Nat]

VARIABLES
  blade,    \* each blade: its life, its counters, its flash
  heard,    \* s_roster: the last heartbeat of each blade, and its window
  seen,     \* s_seen, s_last_up, s_conv_last: each blade at the last look
  archive,  \* s_conv_base, in RAM and in flash
  ring,     \* the rate ring, and the fleet's count at the last look
  hall,     \* the reign and the record, in RAM and in flash
  left,     \* what remains of the budget
  hist      \* history: what really happened (the records below)

vars == <<blade, heard, seen, archive, ring, hall, left, hist>>

Least(a, b) == IF a < b THEN a ELSE b

----------------------------------------------------------------------------
(* State *)

Off == [pc |-> "off", seq |-> 0, clicks |-> 0, errs |-> 0, nvs |-> FALSE, flash |-> 0]

Never == [fresh |-> "never", first |-> 0, last |-> 0, rx |-> 0, clicks |-> 0, errs |-> 0]

Unseen == [known |-> FALSE, up |-> 0, clicks |-> 0]

Empty(n) == [i \in 1..n |-> 0]

\* bohun_rate_ring_t, s_ref_last_err and s_ref_have_last
NewRing ==
  [sec |-> Empty(SECS), min |-> Empty(MINS), secPos |-> 0, minPos |-> 0, minN |-> 0,
   acc |-> 0, last |-> 0, have |-> FALSE]

NewHall(record) == [leader |-> "none", reign |-> 0, record |-> record, saved |-> record]

NewHist == [missed |-> 0, lost |-> 0, blur |-> FALSE, reborn |-> FALSE,
            deaths |-> 0, lines |-> 0, folds |-> 0]

BladeState ==
  [pc : {"off", "booting", "serving"}, seq : Nat, clicks : Nat, errs : Nat,
   nvs : BOOLEAN, flash : Nat]

HeardState ==
  [fresh : {"never", "new", "shown", "lost"}, first : Nat, last : Nat, rx : Nat,
   clicks : 0..WIRE, errs : Nat]

HistState ==
  [missed : Nat, lost : Nat, blur : BOOLEAN, reborn : BOOLEAN,
   deaths : Nat, lines : Nat, folds : Nat]

\* The history: of each blade; clicks and refusals made on any blade at any
\* time; what was charted, in all and second by second; the longest reign that
\* has ended under the display's eyes, and whether one slipped (see Slipped).
Histories ==
  [of : [Blade -> HistState], clicks : Nat, refused : Nat, charted : Nat, recent : Seq(Nat),
   ended : Nat, slip : BOOLEAN]

PeersOK ==
  /\ blade \in [Blade -> BladeState]
  /\ heard \in [Blade -> HeardState]
  /\ seen \in [Blade -> [known : BOOLEAN, up : Nat, clicks : 0..WIRE]]

HallOK == hall \in [leader : Blade \cup {"none"}, reign : Nat, record : Nat, saved : Nat]

TypeOK ==
  /\ PeersOK /\ HallOK
  /\ archive \in [base : Nat, saved : Nat]
  /\ ring \in [sec : [1..SECS -> 0..CEIL], min : [1..MINS -> 0..CEIL], secPos : 0..SECS - 1,
               minPos : 0..MINS - 1, minN : 0..MINS, acc : Nat, last : Nat, have : BOOLEAN]
  /\ left \in [blades : SUBSET Blade, beats : Nat, losses : Nat, clicks : Nat, refusals : Nat,
               faults : Nat, resets : Nat, deaths : Nat, reboots : Nat, turns : Nat, reign : Nat]
  /\ hist \in Histories

----------------------------------------------------------------------------
(* A blade: clicks in RAM and now and then in flash, refusals in RAM only *)

PowerUp(b) ==
  /\ b \in left.blades /\ blade[b].pc = "off"
  /\ blade' = [blade EXCEPT ![b].pc = "booting"]
  /\ UNCHANGED <<heard, seen, archive, ring, hall, left, hist>>

\* clicks_load, behind swarm_start: heartbeats are already on the air.
Serve(b) ==
  /\ blade[b].pc = "booting"
  /\ \E opened \in BOOLEAN :
       /\ opened \/ left.faults > 0
       /\ blade' = [blade EXCEPT ![b].pc = "serving", ![b].nvs = opened,
                                 ![b].clicks = IF opened THEN blade[b].flash ELSE 0]
       /\ left' = [left EXCEPT !.faults = IF opened THEN @ ELSE @ - 1]
  /\ UNCHANGED <<heard, seen, archive, ring, hall, hist>>

\* click_post_handler; due: a minute has passed since the last commit
Click(b) ==
  /\ blade[b].pc = "serving" /\ left.clicks > 0
  /\ \E due \in BOOLEAN :
       LET c == blade[b].clicks + 1 IN
         blade' = [blade EXCEPT ![b].clicks = c,
                                ![b].flash = IF blade[b].nvs /\ due THEN c ELSE @]
  /\ left' = [left EXCEPT !.clicks = @ - 1]
  /\ hist' = [hist EXCEPT !.clicks = @ + 1]
  /\ UNCHANGED <<heard, seen, archive, ring, hall>>

\* swarm_record_refusal
Refuse(b) ==
  /\ blade[b].pc = "serving" /\ left.refusals > 0
  /\ blade' = [blade EXCEPT ![b].errs = @ + 1]
  /\ left' = [left EXCEPT !.refusals = @ - 1]
  /\ hist' = [hist EXCEPT !.refused = @ + 1]
  /\ UNCHANGED <<heard, seen, archive, ring, hall>>

\* swarm_reset_stats, from POST /reset
ResetStats(b) ==
  /\ blade[b].pc = "serving" /\ left.resets > 0
  /\ blade' = [blade EXCEPT ![b].errs = 0]
  /\ left' = [left EXCEPT !.resets = @ - 1]
  /\ UNCHANGED <<heard, seen, archive, ring, hall, hist>>

Crash(b) ==
  /\ blade[b].pc # "off" /\ left.deaths > 0
  /\ blade' = [blade EXCEPT ![b] = [Off EXCEPT !.flash = blade[b].flash]]
  /\ left' = [left EXCEPT !.deaths = @ - 1]
  /\ hist' = [hist EXCEPT !.of[b].deaths = @ + 1, !.of[b].reborn = TRUE]
  /\ UNCHANGED <<heard, seen, archive, ring, hall>>

\* The board is replaced, or its NVS erased by the next boot.
Wipe(b) ==
  /\ blade[b].pc = "off" /\ blade[b].flash > 0 /\ left.faults > 0
  /\ blade' = [blade EXCEPT ![b].flash = 0]
  /\ left' = [left EXCEPT !.faults = @ - 1]
  /\ UNCHANGED <<heard, seen, archive, ring, hall, hist>>

----------------------------------------------------------------------------
(* The radio *)

\* Seeded slip: the window of a peer that came back is not started again.
NewWindowOnce(h, seq) == h.fresh = "never"

\* A peer heard for the first time, or whose numbering ran backwards.
NewWindow(h, seq) == h.fresh = "never" \/ seq < h.last

\* swarm_monitor_task, on a heartbeat
Received(h, seq, clicks, errs) ==
  [fresh |-> "new", first |-> IF NewWindow(h, seq) THEN seq ELSE h.first,
   last |-> seq, rx |-> IF NewWindow(h, seq) THEN 1 ELSE h.rx + 1,
   clicks |-> clicks, errs |-> errs]

\* What bohun_delivery_pct measures the frames received against.
Span(h) == h.last - h.first + 1

\* History: a frame got in closes the gap that the lost ones before it left.
Closed(o, fresh) ==
  IF fresh THEN [o EXCEPT !.missed = 0, !.lost = 0, !.blur = FALSE, !.reborn = FALSE]
  ELSE [o EXCEPT !.missed = 0, !.lost = @ + o.missed, !.blur = @ \/ o.reborn, !.reborn = FALSE]

\* swarm_hb_tx_task; what is heard, or lost
Heartbeat(b) ==
  /\ blade[b].pc # "off" /\ blade[b].seq < left.beats
  /\ LET s == blade[b].seq + 1
         h == heard[b]
     IN /\ blade' = [blade EXCEPT ![b].seq = s]
        /\ \/ /\ heard' = [heard EXCEPT
                    ![b] = Received(h, s, Least(blade[b].clicks, WIRE), blade[b].errs)]
              /\ hist' = [hist EXCEPT !.of[b] = Closed(@, h.fresh = "never" \/ s < h.last)]
              /\ UNCHANGED left
           \/ /\ left.losses > 0 /\ left' = [left EXCEPT !.losses = @ - 1]
              /\ hist' = [hist EXCEPT !.of[b].missed = @ + 1]
              /\ UNCHANGED heard
  /\ UNCHANGED <<seen, archive, ring, hall>>

\* Three seconds without one; the display has looked in the meantime.
Fade(b) ==
  /\ heard[b].fresh = "shown"
  /\ heard' = [heard EXCEPT ![b].fresh = "lost"]
  /\ UNCHANGED <<blade, seen, archive, ring, hall, left, hist>>

----------------------------------------------------------------------------
(* The look, once a second: ui_update *)

\* One step, although the clicks are read from a second snapshot (line 1632): a
\* frame in between is one that came just before or just after, and nothing
\* below compares what one snapshot gave with what the other did.

Alive(b) == heard[b].fresh \in {"new", "shown"}

\* The coroner's line: uptime ran backwards.
Told(b) == seen[b].known /\ Alive(b) /\ heard[b].last < seen[b].up

\* A count back at zero is taken for a wiped flash.
Wiped(b) == Alive(b) /\ heard[b].clicks = 0 /\ seen[b].clicks > 0

\* Seeded slip: the uptime a line was written for is kept to compare with.
LookedTwice(b) ==
  [known  |-> seen[b].known \/ heard[b].fresh # "never",
   up     |-> IF Told(b) THEN seen[b].up ELSE heard[b].last,
   clicks |-> IF Alive(b) THEN heard[b].clicks ELSE seen[b].clicks]

\* Seeded slip: a count that was folded is kept to compare with.
LookedBack(b) ==
  [known  |-> seen[b].known \/ heard[b].fresh # "never",
   up     |-> heard[b].last,
   clicks |-> IF Alive(b) /\ ~Wiped(b) THEN heard[b].clicks ELSE seen[b].clicks]

Looked(b) ==
  [known  |-> seen[b].known \/ heard[b].fresh # "never",
   up     |-> heard[b].last,
   clicks |-> IF Alive(b) THEN heard[b].clicks ELSE seen[b].clicks]

\* The fold, and its commit
Archived ==
  LET folded == MapThenSumSet(LAMBDA b : seen[b].clicks, {b \in Blade : Wiped(b)})
  IN IF folded = 0 THEN archive
     ELSE [base |-> archive.base + folded, saved |-> archive.base + folded]

\* bohun_sat16
Sat(v) == Least(v, CEIL)

\* Seeded slip: a count that ran backwards is all new.
DeltaFromZero(now, last, have) == IF have /\ now >= last THEN now - last ELSE now

\* bohun_delta
Delta(now, last, have) == IF have /\ now >= last THEN now - last ELSE 0

\* Seeded slip: the minute that is charted stays in the next one.
RateAddOn(r, d) ==
  LET s == [r EXCEPT !.sec[r.secPos + 1] = Sat(d), !.secPos = (@ + 1) % SECS, !.acc = @ + d]
  IN IF s.secPos # 0 THEN s
     ELSE [s EXCEPT !.min[r.minPos + 1] = Sat(s.acc), !.minPos = (@ + 1) % MINS,
                    !.minN = Least(@ + 1, MINS)]

\* bohun_rate_add.  sec_n, the seconds banked, goes round with sec_pos.
RateAdd(r, d) ==
  LET s == [r EXCEPT !.sec[r.secPos + 1] = Sat(d), !.secPos = (@ + 1) % SECS, !.acc = @ + d]
  IN IF s.secPos # 0 THEN s
     ELSE [s EXCEPT !.min[r.minPos + 1] = Sat(s.acc), !.minPos = (@ + 1) % MINS,
                    !.minN = Least(@ + 1, MINS), !.acc = 0]

\* The fleet's refusals, of the lost members too.  swarm_snapshot leaves
\* req_err_srv at zero, so all of them are charted as theirs.
FleetErrs == MapThenSumSet(LAMBDA b : heard[b].errs, Blade)

Charted == Delta(FleetErrs, ring.last, ring.have)

\* Seeded slip: the live record is kept before the fall is looked at.
HallAfterLive(leader, flush, passed) ==
  LET reign  == IF hall.leader = "none" THEN 0 ELSE hall.reign + passed
      turn   == leader # hall.leader
      live   == hall.leader # "none" /\ reign > hall.record
      record == IF live THEN reign ELSE hall.record
      fell   == turn /\ hall.leader # "none" /\ reign > record
  IN [leader |-> leader, reign |-> IF turn THEN 0 ELSE reign, record |-> record,
      saved  |-> IF fell \/ (live /\ flush) THEN record ELSE hall.saved]

\* The record: of a reign that ended, at once into flash; of one that lasts,
\* into flash now and then.  A reign is read in whole seconds, none, one or
\* several of which have passed since the last look.
HallAfter(leader, flush, passed) ==
  LET reign  == IF hall.leader = "none" THEN 0 ELSE hall.reign + passed
      turn   == leader # hall.leader
      fell   == turn /\ hall.leader # "none" /\ reign > hall.record
      live   == ~turn /\ leader # "none" /\ reign > hall.record
  IN [leader |-> leader, reign |-> IF turn THEN 0 ELSE reign,
      record |-> IF fell \/ live THEN reign ELSE hall.record,
      saved  |-> IF fell \/ (live /\ flush) THEN reign ELSE hall.saved]

\* The seconds of the minutes the ring holds, and the running one.
Recent(d) ==
  LET all == Append(hist.recent, d)
  IN IF Len(all) >= (MINS + 1) * SECS THEN SubSeq(all, SECS + 1, Len(all)) ELSE all

\* History: the longest reign that has ended, and whether one fell in the very
\* second in which it was last looked at, as the record and not yet in flash:
\* the code then compares it with itself, and does not write it.
Fell(leader) == leader # hall.leader /\ hall.leader # "none"
Ended(leader, passed) ==
  IF Fell(leader) /\ hall.reign + passed > hist.ended THEN hall.reign + passed ELSE hist.ended
Slipped(leader, passed) ==
  hist.slip \/ (Fell(leader) /\ passed = 0 /\ hall.saved < hall.record)

Render(leader) ==
  /\ leader # hall.leader => left.turns > 0
  /\ \E flush \in BOOLEAN, passed \in 0..left.reign :
       /\ hall' = HallAfter(leader, flush, passed) /\ hall'.reign <= left.reign
       /\ hist' = [hist EXCEPT
            !.of = [b \in Blade |-> [hist.of[b] EXCEPT !.lines = IF Told(b) THEN @ + 1 ELSE @,
                                                       !.folds = IF Wiped(b) THEN @ + 1 ELSE @]],
            !.charted = @ + Charted, !.recent = Recent(Charted),
            !.ended = Ended(leader, passed), !.slip = Slipped(leader, passed)]
  /\ left' = [left EXCEPT !.turns = IF leader # hall.leader THEN @ - 1 ELSE @]
  /\ seen' = [b \in Blade |-> Looked(b)]
  /\ archive' = Archived
  /\ ring' = [RateAdd(ring, Charted) EXCEPT !.last = FleetErrs, !.have = TRUE]
  /\ heard' = [b \in Blade |->
                 IF heard[b].fresh = "new" THEN [heard[b] EXCEPT !.fresh = "shown"] ELSE heard[b]]
  /\ UNCHANGED blade

\* The display restarts.  Its history starts again, but for what flash is to hold.
Reboot ==
  /\ left.reboots > 0 /\ left' = [left EXCEPT !.reboots = @ - 1]
  /\ heard' = [b \in Blade |-> Never] /\ seen' = [b \in Blade |-> Unseen]
  /\ archive' = [archive EXCEPT !.base = archive.saved]
  /\ ring' = NewRing /\ hall' = NewHall(hall.saved)
  /\ hist' = [hist EXCEPT !.of = [b \in Blade |-> NewHist], !.charted = 0, !.recent = <<>>]
  /\ UNCHANGED blade

----------------------------------------------------------------------------
(* The specification *)

Init ==
  /\ blade = [b \in Blade |-> Off] /\ heard = [b \in Blade |-> Never]
  /\ seen = [b \in Blade |-> Unseen] /\ archive = [base |-> 0, saved |-> 0]
  /\ ring = NewRing /\ hall = NewHall(0)
  /\ left \in Budget
  /\ hist = [of |-> [b \in Blade |-> NewHist], clicks |-> 0, refused |-> 0, charted |-> 0,
             recent |-> <<>>, ended |-> 0, slip |-> FALSE]

Next ==
  \/ \E b \in Blade : \/ PowerUp(b) \/ Serve(b) \/ Click(b) \/ Refuse(b) \/ ResetStats(b)
                      \/ Crash(b) \/ Wipe(b) \/ Heartbeat(b) \/ Fade(b)
  \/ \E leader \in Blade \cup {"none"} : Render(leader)
  \/ Reboot

Spec == Init /\ [][Next]_vars

----------------------------------------------------------------------------
(* Properties *)

\* The loss the glass shows is what the air lost: in the window of a peer the
\* frames received are the span less the frames lost, and never fewer, even
\* when a reboot went by unnoticed inside it.
LossIsReal ==
  \A b \in Blade :
    LET h == heard[b]  o == hist.of[b] IN
      h.fresh # "never" =>
        IF o.blur THEN h.rx >= Span(h) - o.lost ELSE h.rx = Span(h) - o.lost

\* The coroner's line "fires once per death": no loss, silence or restart of
\* the display makes it write a death that did not happen.
OneLinePerDeath == \A b \in Blade : hist.of[b].lines <= hist.of[b].deaths

\* A blade's count goes into the archive at most once for each of its deaths,
\* and never for a lost heartbeat, a silence or a restart of the display.
OneFoldPerDeath == \A b \in Blade : hist.of[b].folds <= hist.of[b].deaths

\* No refusal is charted twice, and none that was not made: blades that come
\* back with their counts at zero, or are reset, only make the fleet's sum dip.
ChartedOnce == hist.charted <= hist.refused

\* The hour and the minute on the glass are the sums of what was charted in
\* them, each cell at its ceiling at most.
SumOf(s) == MapThenSumSet(LAMBDA i : s[i], DOMAIN s)
Last60 == SumOf(ring.sec)
Hour == ring.acc + SumOf(SubSeq(ring.min, 1, ring.minN))
ChartIsSum ==
  LET n == Len(hist.recent)
      whole == n \div SECS
      minute(m) == SumOf(SubSeq(hist.recent, (m - 1) * SECS + 1, m * SECS))
      since == IF n < SECS THEN 1 ELSE n - SECS + 1
  IN /\ Last60 = SumOf([i \in since..n |-> Sat(hist.recent[i])])
     /\ Hour = SumOf([m \in 1..whole |-> Sat(minute(m))])
               + SumOf(SubSeq(hist.recent, whole * SECS + 1, n))

\* The hall of fame survives restarts: the record in flash is never shorter
\* than a reign the display has seen the end of, unless one has ended within the
\* second of the look before it.
HallOfFame == hist.slip \/ hall.saved >= hist.ended

\* ui.c: the archive is folded only when a blade's NVS is gone, lest "every
\* persisted click would be counted twice".  The code does not keep this: each
\* reboot sends a zero before the ledger is loaded.
Ever == archive.base + MapThenSumSet(LAMBDA b : heard[b].clicks, Blade)
NeverTwice == Ever <= hist.clicks
=============================================================================
