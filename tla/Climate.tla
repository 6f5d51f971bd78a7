------------------------------ MODULE Climate -------------------------------
(***************************************************************************)
(* The thermal history: the ring of UTC buckets into which the kobzar's    *)
(* render task and a blade's sampler fold the fleet's die temperatures     *)
(* (logic.h, thermal.c, ui.c), and the chart the kobzar draws of it.       *)
(*                                                                         *)
(* A pass over the roster holds the lock of the history.  The clock is the *)
(* one that beacons set: it may go anywhere at any time.                   *)
(***************************************************************************)
EXTENDS Integers, Sequences, FiniteSets, FiniteSetsExt

CONSTANTS
  Die,          \* the nodes that have a line: bohun_temp_slot(id) >= 0
  BUCKETS,      \* BOHUN_TEMP_BUCKETS
  BUCKET_S,     \* BOHUN_TEMP_BUCKET_S
  REDRAW_S,     \* TEMP_REDRAW_S
  SANE_S,       \* BOHUN_TIME_SANE_S
  WORD,         \* 2^32: the clock and its differences are words of this many values
  Degree,       \* readings, in tenths
  MAX_CLOCK,    \* bound: the last second of the run
  MAX_PASSES    \* bound: passes over the roster

ASSUME ClimateAssumption ==
  /\ BUCKETS \in Nat \ {0} /\ BUCKET_S \in Nat \ {0} /\ REDRAW_S \in Nat \ {0}
  /\ SANE_S \in Nat /\ SANE_S \div BUCKET_S >= BUCKETS
  /\ MAX_CLOCK \in Nat /\ SANE_S <= MAX_CLOCK /\ MAX_PASSES \in Nat
  /\ WORD \in Nat /\ MAX_CLOCK < WORD /\ REDRAW_S <= SANE_S
  /\ Degree \subseteq Int

VARIABLES
  clock,     \* time(NULL)
  temps,     \* s_temp_hist: the bucket each slot holds, and its cells
  stat,      \* s_temp_stat: the button that is lit
  drawn,     \* s_temp_drawn_s: when the chart was drawn last
  glass,     \* the chart: the statistic its caption names, and its points
  filed,     \* history: the passes, each with its second, its bucket and readings
  backward   \* history: the clock has gone backward

climateVars == <<clock, temps, stat, drawn, glass, filed, backward>>

Bin  == 0..BUCKETS - 1
Stat  == {"max", "min", "avg"}
NoCell == [sum |-> 0, n |-> 0, min |-> 0, max |-> 0]

Bucket(unix_s) == unix_s \div BUCKET_S
SlotOf(b) == b % BUCKETS
Sane(unix_s) == unix_s >= SANE_S
AnyBucket == 0..Bucket(MAX_CLOCK)

\* Division as C does it.
Quotient(a, b) == IF a < 0 THEN -((-a) \div b) ELSE a \div b

ClimateTypeOK ==
  /\ clock \in 0..MAX_CLOCK
  /\ temps.key \in [Bin -> AnyBucket]
  /\ \A i \in Die : \A s \in Bin :
       LET c == temps.cell[i][s]
       IN  c.n \in 0..MAX_PASSES /\ (c.n > 0 => c.n * c.min <= c.sum /\ c.sum <= c.n * c.max)
  /\ drawn \in 0..MAX_CLOCK /\ Len(filed) <= MAX_PASSES /\ backward \in BOOLEAN
  /\ stat \in Stat /\ glass.stat \in Stat

----------------------------------------------------------------------------
(* The ring *)

\* A reading goes into its cell.
Folded(c, t) ==
  IF c.n = 0 THEN [sum |-> t, n |-> 1, min |-> t, max |-> t]
  ELSE [sum |-> c.sum + t, n |-> c.n + 1,
        min |-> IF t < c.min THEN t ELSE c.min, max |-> IF t > c.max THEN t ELSE c.max]

\* Seeded slip: a slot whose day is over is emptied for the reading's node only.
RecordedOwn(h, b, heard) ==
  LET s == SlotOf(b)
      Kept(i) == IF h.key[s] = b \/ i \notin DOMAIN heard THEN h.cell[i][s] ELSE NoCell
  IN  [key  |-> [h.key EXCEPT ![s] = b],
       cell |-> [i \in Die |-> [h.cell[i] EXCEPT ![s] =
                   IF i \in DOMAIN heard THEN Folded(Kept(i), heard[i]) ELSE Kept(i)]]]

\* bohun_temp_record for each of the nodes heard: the first of them empties a
\* slot whose day is over, for every node.
Recorded(h, b, heard) ==
  LET s == SlotOf(b)
      Kept(i) == IF h.key[s] = b THEN h.cell[i][s] ELSE NoCell
  IN  [key  |-> [h.key EXCEPT ![s] = b],
       cell |-> [i \in Die |-> [h.cell[i] EXCEPT ![s] =
                   IF i \in DOMAIN heard THEN Folded(Kept(i), heard[i]) ELSE Kept(i)]]]

\* bohun_temp_value
Value(h, i, b, st) ==
  LET c == h.cell[i][SlotOf(b)]
  IN  IF h.key[SlotOf(b)] # b \/ c.n = 0 THEN 0
      ELSE CASE st = "max" -> c.max [] st = "min" -> c.min [] st = "avg" -> Quotient(c.sum, c.n)

\* bohun_temp_window_start
WindowStart(unix_s) == Bucket(unix_s) - (BUCKETS - 1)

\* What temp_render draws of a history: a line for each node over the window that
\* ends now.
Chart(h, st) ==
  [i \in Die |-> [k \in 0..BUCKETS - 1 |-> Value(h, i, WindowStart(clock) + k, st)]]

Blank == [i \in Die |-> [k \in 0..BUCKETS - 1 |-> 0]]

----------------------------------------------------------------------------
(* Steps *)

\* Seeded slip: the difference is taken as a signed number.
RedrawSigned == clock - drawn >= REDRAW_S

\* now_s - s_temp_drawn_s, of two uint32_t.
Redraw == (clock - drawn) % WORD >= REDRAW_S

Render(h, st) == drawn' = clock /\ glass' = [stat |-> st, point |-> Chart(h, st)]

\* The readings heard in a pass; a lost node has none.
File(heard) ==
  /\ temps' = IF DOMAIN heard = {} THEN temps ELSE Recorded(temps, Bucket(clock), heard)
  /\ filed' = Append(filed, [at |-> clock, bucket |-> Bucket(clock), heard |-> heard])

\* A second's pass over the roster, and the chart when it is due.
Pass ==
  /\ Sane(clock) /\ Len(filed) < MAX_PASSES
  /\ \E here \in SUBSET Die : \E heard \in [here -> Degree] : File(heard)
  /\ IF Redraw THEN Render(temps', stat) ELSE UNCHANGED <<drawn, glass>>
  /\ UNCHANGED <<clock, stat, backward>>

\* A finger on one of the three buttons (temp_mode_cb).
SetMode(st) ==
  /\ stat' = st
  /\ IF Sane(clock) THEN Render(temps, st) ELSE UNCHANGED <<drawn, glass>>
  /\ UNCHANGED <<clock, temps, filed, backward>>

\* The next second, a beacon, or NTP.
ClockGoes(t) ==
  /\ clock' = t /\ backward' = (backward \/ t < clock)
  /\ UNCHANGED <<temps, stat, drawn, glass, filed>>

ClimateInit ==
  /\ clock = 0
  /\ temps = [key |-> [s \in Bin |-> 0], cell |-> [i \in Die |-> [s \in Bin |-> NoCell]]]
  /\ stat = "avg" /\ drawn = 0 /\ glass = [stat |-> "avg", point |-> Blank]
  /\ filed = <<>> /\ backward = FALSE

ClimateNext ==
  \/ Pass
  \/ \E st \in Stat : SetMode(st)
  \/ \E t \in {0} \cup SANE_S..MAX_CLOCK : t # clock /\ ClockGoes(t)

ClimateSpec == ClimateInit /\ [][ClimateNext]_climateVars

----------------------------------------------------------------------------
(* Properties *)

\* Of the first n passes, those that b's slot then stood for: the ones under b since
\* the last one under another bucket of the same slot.
Standing(n, b) ==
  {k \in 1..n :
     /\ filed[k].bucket = b
     /\ \A j \in k + 1..n :
          SlotOf(filed[j].bucket) = SlotOf(b) /\ DOMAIN filed[j].heard # {} => filed[j].bucket = b}

\* The statistic of what those passes told of node i.
Told(n, i, b, st) ==
  LET heard == {j \in Standing(n, b) : i \in DOMAIN filed[j].heard}
      told  == {filed[j].heard[i] : j \in heard}
      total == MapThenSumSet(LAMBDA j : filed[j].heard[i], heard)
  IN  IF heard = {} THEN 0
      ELSE CASE st = "max" -> Max(told) [] st = "min" -> Min(told)
             [] st = "avg" -> Quotient(total, Cardinality(heard))

\* "A reused slot, a clock jump and a bucket nobody heard all read as zero":
\* wherever the clock has been, each point of the chart is the statistic of what
\* was filed under its bucket, for that node, and of nothing else.
PointsTell ==
  Sane(clock) =>
    \A st \in Stat, i \in Die, k \in 0..BUCKETS - 1 :
      Chart(temps, st)[i][k] = Told(Len(filed), i, WindowStart(clock) + k, st)

\* "The last 24 hours of buckets": while the clock has only gone forward, no
\* reading inside the window has been given up for a newer one.
WindowWhole ==
  ~backward =>
    \A k \in 1..Len(filed) : filed[k].bucket >= WindowStart(clock) => k \in Standing(Len(filed), filed[k].bucket)

\* The chart tells everything that it should, and nothing else.
ChartTells == PointsTell /\ WindowWhole

\* What stands on the glass is what the passes up to some moment told, under the
\* statistic that its caption names, of the window that ended then; any pass it
\* does not know of came less than ten seconds later, and never at a time that the
\* clock had been set back to; and, unless the clock ever went backward, its
\* statistic is the one whose button is lit.
GlassTells ==
  drawn # 0 =>
    /\ \E n \in 0..Len(filed) :
         /\ \A i \in Die, k \in 0..BUCKETS - 1 :
              glass.point[i][k] = Told(n, i, WindowStart(drawn) + k, glass.stat)
         /\ \A j \in n + 1..Len(filed) :
              drawn <= filed[j].at /\ filed[j].at - drawn < REDRAW_S
    /\ backward \/ glass.stat = stat
=============================================================================
