------------------------------ MODULE Splicer ------------------------------
(***************************************************************************)
(* The L4 balancer of splice.c: one task admits visitors, pairs each with  *)
(* a backend, relays bytes both ways, reaps what is dead and keeps the     *)
(* bench; the monitor task asks it to drain before it drops the mask.      *)
(*                                                                         *)
(* A slot of the pair table is one visitor.  A direction of the relay is   *)
(* "clear" (buffer empty), "parked" (bytes the sink has not taken) or      *)
(* "eof" (its source has closed: only read from an empty buffer, which is  *)
(* never filled again).  Time is in units between the code's timeouts; the *)
(* task makes any number of turns within one.  The statistics are left out.*)
(***************************************************************************)
EXTENDS Logic

CONSTANTS
  Slot,           \* the pair table, MAX_PAIRS of them
  Peer,           \* ids of the other blades
  Self,           \* our own id: the solo backend
  INFLIGHT_CAP,   \* pairs a backend may hold
  SILENT_KILL,    \* patience with a client that never spoke
  IDLE_KILL,      \* patience with a pair that moves nothing
  FLUSH,          \* patience with the rest of a half-closed pair
  FAIL_STREAK,    \* dead connections before the first bench
  SUSPECT,        \* first bench
  SUSPECT_MAX     \* longest bench

ASSUME TableAssumption == IsFiniteSet(Slot) /\ Self \notin Peer /\ INFLIGHT_CAP \in Nat \ {0}
ASSUME PatienceAssumption == SILENT_KILL \in Nat /\ IDLE_KILL \in Nat /\ FLUSH \in Nat
ASSUME BenchAssumption ==
  FAIL_STREAK \in Nat \ {0} /\ SUSPECT \in Nat \ {0} /\ SUSPECT_MAX \in Nat /\ SUSPECT <= SUSPECT_MAX

VARIABLES
  active,    \* s_active: the listener is bound
  pairs,     \* s_pairs
  table,     \* s_be: the ids of the backend table
  bench,     \* s_fails, s_bench_ms and what is left of s_suspect_until
  drainReq,  \* s_drain_req
  caller,    \* the monitor task, inside splice_drain or not
  past       \* history: how each backend's connections have ended

vars == <<active, pairs, table, bench, drainReq, caller, past>>

Id    == Peer \cup {Self}
NEVER == -1          \* t_half = 0: neither side has gone
Dir   == {"clear", "parked", "eof"}

Free == [used |-> FALSE]
Pair == [used : {TRUE}, be : Id, connecting : BOOLEAN, c2b : Dir, b2c : Dir,
         spoke : BOOLEAN,                \* c_spoke
         answered : BOOLEAN,             \* t_first # 0
         accepted : 0..SILENT_KILL + 1,  \* since t_accept, until the client spoke
         idle : 0..IDLE_KILL + 1,        \* since last_io_ms
         half : {NEVER} \cup 0..FLUSH + 1]  \* since t_half

Clean == [fails |-> 0, term |-> 0, left |-> 0]
Bench == [fails : 0..FAIL_STREAK - 1, term : 0..SUSPECT_MAX, left : 0..SUSPECT_MAX]

\* Connections that died since the last good one, counted as far as FAIL_STREAK,
\* and from then on the time since the last of them, as far as SUSPECT_MAX.
Past == [dead : 0..FAIL_STREAK, ago : 0..SUSPECT_MAX]
Spotless == [dead |-> 0, ago |-> 0]

TypeOK ==
  /\ active \in BOOLEAN /\ drainReq \in BOOLEAN /\ caller \in {"away", "waiting"}
  /\ pairs \in [Slot -> Pair \cup {Free}]
  /\ table \subseteq Id
  /\ bench \in [Id -> Bench] /\ past \in [Id -> Past]

----------------------------------------------------------------------------
(* The bench *)

\* Ends that speak against a backend; "silent" leaves it unjudged.
Blame == {"err", "refused", "timeout"}

\* judge_backend: what a pair's end does to its backend's record.
Judge(r, why, answered) ==
  IF why = "done" \/ answered THEN Clean
  ELSE IF why \notin Blame THEN r
  ELSE IF r.fails + 1 < BenchThreshold(r.term, FAIL_STREAK)
  THEN [r EXCEPT !.fails = @ + 1]
  ELSE LET b == BenchNext(r.term, SUSPECT, SUSPECT_MAX)
       IN  [fails |-> 0, term |-> b, left |-> b]

Benched(b) == bench[b].left > 0

\* The same end, as the history sees it.
Remember(h, why, answered) ==
  IF why = "done" \/ answered THEN Spotless
  ELSE IF why \notin Blame THEN h
  ELSE [dead |-> IF h.dead < FAIL_STREAK THEN h.dead + 1 ELSE h.dead, ago |-> 0]

----------------------------------------------------------------------------
(* The pair table *)

OnBackend(b) == {s \in Slot : pairs[s].used /\ pairs[s].be = b}
Inflight(b)  == Cardinality(OnBackend(b))
RoomyAtCap   == {b \in table : Inflight(b) <= INFLIGHT_CAP}  \* seeded slip: off by one
Roomy        == {b \in table : Inflight(b) < INFLIGHT_CAP}

\* capacity_exists and a free slot: the listener is in the read set.
DoorOpen == active /\ Roomy # {} /\ \E s \in Slot : ~pairs[s].used

LeastLoaded(S) == {b \in S : \A c \in S : Inflight(b) <= Inflight(c)}

\* Seeded slip: no second pass, so that a benched backend is never tried.
PicksTrusted == LeastLoaded({b \in Roomy : ~Benched(b)})

\* backend_pick: the least loaded of those not benched, else of all; the
\* rotating cursor only chooses among equals.
Picks ==
  LET trusted == {b \in Roomy : ~Benched(b)}
  IN  LeastLoaded(IF trusted # {} THEN trusted ELSE Roomy)

Newcomer(b) ==
  [used |-> TRUE, be |-> b, connecting |-> TRUE, c2b |-> "clear", b2c |-> "clear",
   spoke |-> FALSE, answered |-> FALSE, accepted |-> 0, idle |-> 0, half |-> NEVER]

\* pair_close of one slot.
Close(s, p, why) ==
  /\ pairs' = [pairs EXCEPT ![s] = Free]
  /\ bench' = [bench EXCEPT ![p.be] = Judge(@, why, p.answered)]
  /\ past' = [past EXCEPT ![p.be] = Remember(@, why, p.answered)]

\* pair_close(END_DONE) of all the slots in S.
CloseAllDone(S) ==
  /\ pairs' = [s \in Slot |-> IF s \in S THEN Free ELSE pairs[s]]
  /\ bench' = [b \in Id |-> IF \E s \in S : pairs[s].be = b THEN Clean ELSE bench[b]]
  /\ past' = [b \in Id |-> IF \E s \in S : pairs[s].be = b THEN Spotless ELSE past[b]]

UsedSlots == {s \in Slot : pairs[s].used}

----------------------------------------------------------------------------
(* The splice task *)

Bind ==
  /\ ~active /\ active' = TRUE
  /\ UNCHANGED <<pairs, table, bench, drainReq, caller, past>>

Drain ==
  /\ active /\ drainReq
  /\ CloseAllDone(UsedSlots)
  /\ drainReq' = FALSE
  /\ UNCHANGED <<active, table, caller>>

\* Seeded slip: pairs stay pinned to the loopback after solo.
RefreshPinned ==
  /\ active
  /\ \E usable \in SUBSET Peer, ready \in BOOLEAN :
       table' = IF usable # {} THEN usable ELSE IF ready THEN {Self} ELSE {}
  /\ UNCHANGED <<active, pairs, bench, drainReq, caller, past>>

\* refresh_backends: the usable peers of the roster at this moment, or
\* ourselves when there are none; leaving solo cuts the self-served pairs.
Refresh ==
  /\ active
  /\ \E usable \in SUBSET Peer, ready \in BOOLEAN :
       table' = IF usable # {} THEN usable ELSE IF ready THEN {Self} ELSE {}
  /\ IF Self \in table /\ Self \notin table'
     THEN CloseAllDone(OnBackend(Self)) ELSE UNCHANGED <<pairs, bench, past>>
  /\ UNCHANGED <<active, drainReq, caller>>

\* One turn of the accept loop whose connect() got under way.  A connect that
\* fails at once only closes the visitor: nothing modelled changes.
Accept(s) ==
  /\ DoorOpen /\ ~pairs[s].used
  /\ \E b \in Picks : pairs' = [pairs EXCEPT ![s] = Newcomer(b)]
  /\ UNCHANGED <<active, table, bench, drainReq, caller, past>>

\* The pair loop on a slot that waits for its connect().
ConnectEnds(s) ==
  LET p == pairs[s]
  IN  /\ p.used /\ p.connecting
      /\ \/ /\ pairs' = [pairs EXCEPT ![s] = [p EXCEPT !.connecting = FALSE, !.idle = 0]]
            /\ UNCHANGED <<bench, past>>
         \/ Close(s, p, "refused")
      /\ UNCHANGED <<active, table, drainReq, caller>>

ConnectTimeout(s) ==
  LET p == pairs[s]
  IN  /\ p.used /\ p.connecting /\ p.idle > IDLE_KILL
      /\ Close(s, p, "timeout")
      /\ UNCHANGED <<active, table, drainReq, caller>>

\* What one dir_step may come back with: the buffer it leaves, whether any
\* bytes reached the sink, and whether both sockets held.
DirStep(d) ==
  IF d = "eof" THEN {[to |-> "eof", moved |-> FALSE, ok |-> TRUE]}
  ELSE {[to |-> d, moved |-> m, ok |-> FALSE] : m \in BOOLEAN} \cup
       {[to |-> e, moved |-> TRUE, ok |-> TRUE] : e \in Dir} \cup
       {[to |-> e, moved |-> FALSE, ok |-> TRUE] : e \in IF d = "parked" THEN {d} ELSE Dir}

\* Nothing to read and nowhere to write.
Still(d) == [to |-> d, moved |-> FALSE, ok |-> TRUE]

\* Seeded slip: only silent clients are reaped.
EndOfPatient(q, ok) ==
  LET gone    == "eof" \in {q.c2b, q.b2c}
      flushed == "parked" \notin {q.c2b, q.b2c}
  IN  IF ~ok THEN "err"
      ELSE IF gone /\ flushed THEN "done"
      ELSE IF gone /\ q.half = NEVER THEN "no"
      ELSE IF q.half > FLUSH THEN "timeout"
      ELSE IF PairSilent(q.spoke, q.accepted, SILENT_KILL) THEN "silent"
      ELSE "no"

\* The end of a pair whose relay step left it as q, or "no" end yet.
EndOf(q, ok) ==
  LET gone    == "eof" \in {q.c2b, q.b2c}
      flushed == "parked" \notin {q.c2b, q.b2c}
  IN  IF ~ok THEN "err"
      ELSE IF gone /\ flushed THEN "done"
      ELSE IF gone /\ q.half = NEVER THEN "no"
      ELSE IF q.half > FLUSH THEN "timeout"
      ELSE IF PairSilent(q.spoke, q.accepted, SILENT_KILL) THEN "silent"
      ELSE IF q.idle > IDLE_KILL THEN "timeout"
      ELSE "no"

\* The pair loop on a connected slot, given what the two directions did (the
\* second runs only if the first held), then the verdict.
Relayed(s, in, out) ==
  [pairs[s] EXCEPT !.c2b = in.to, !.b2c = out.to,
                   !.idle = IF in.moved \/ out.moved THEN 0 ELSE @,
                   !.spoke = @ \/ in.moved,
                   !.accepted = IF in.moved THEN 0 ELSE @,
                   !.answered = @ \/ out.moved]

RelayWith(s, in, out) ==
  LET q   == Relayed(s, in, out)
      why == EndOf(q, in.ok /\ out.ok)
  IN  /\ in.ok \/ out = Still(pairs[s].b2c)
      /\ IF why # "no" THEN Close(s, q, why)
         ELSE /\ pairs' = [pairs EXCEPT ![s] =
                   IF "eof" \in {q.c2b, q.b2c} /\ q.half = NEVER
                   THEN [q EXCEPT !.half = 0] ELSE q]
              /\ UNCHANGED <<bench, past>>
      /\ UNCHANGED <<active, table, drainReq, caller>>

Relay(s) ==
  /\ pairs[s].used /\ ~pairs[s].connecting
  /\ \E in \in DirStep(pairs[s].c2b), out \in DirStep(pairs[s].b2c) : RelayWith(s, in, out)

PairStep(s) == ConnectEnds(s) \/ ConnectTimeout(s) \/ Relay(s)

\* A turn in which nothing arrives and nothing can be sent: only the patience
\* of the task ends the pair.
Reap(s) ==
  \/ ConnectTimeout(s)
  \/ /\ pairs[s].used /\ ~pairs[s].connecting
     /\ RelayWith(s, Still(pairs[s].c2b), Still(pairs[s].b2c))

----------------------------------------------------------------------------
(* The monitor task, dropping the mask *)

\* splice_drain: nothing to wait for without a listener.
Ask ==
  /\ caller = "away" /\ active
  /\ drainReq' = TRUE /\ caller' = "waiting"
  /\ UNCHANGED <<active, pairs, table, bench, past>>

\* The request was honoured, or 200 ms have gone by; the caller then swaps the
\* identity under whatever pairs there are.
Return ==
  /\ caller = "waiting" /\ caller' = "away"
  /\ UNCHANGED <<active, pairs, table, bench, drainReq, past>>

----------------------------------------------------------------------------
(* Time *)

Older(age, bound) == IF age < bound THEN age + 1 ELSE bound

OlderPair(p) ==
  IF ~p.used THEN p
  ELSE [p EXCEPT !.accepted = IF p.spoke THEN 0 ELSE Older(@, SILENT_KILL + 1),
                 !.idle     = Older(@, IDLE_KILL + 1),
                 !.half     = IF @ = NEVER THEN NEVER ELSE Older(@, FLUSH + 1)]

\* The task looks at every pair many times in a unit: none outstays its time.
Overdue(p) ==
  p.used /\ (p.idle > IDLE_KILL \/ (~p.connecting /\ EndOf(p, TRUE) # "no"))

Tick ==
  /\ active /\ \A s \in Slot : ~Overdue(pairs[s])
  /\ pairs' = [s \in Slot |-> OlderPair(pairs[s])]
  /\ bench' = [b \in Id |-> [bench[b] EXCEPT !.left = IF @ = 0 THEN 0 ELSE @ - 1]]
  /\ past' = [b \in Id |-> [past[b] EXCEPT !.ago =
                IF past[b].dead = FAIL_STREAK /\ @ < SUSPECT_MAX THEN @ + 1 ELSE @]]
  /\ UNCHANGED <<active, table, drainReq, caller>>

----------------------------------------------------------------------------
(* The specification *)

Init ==
  /\ active = FALSE /\ drainReq = FALSE /\ caller = "away"
  /\ pairs = [s \in Slot |-> Free]
  /\ table = {}
  /\ bench = [b \in Id |-> Clean] /\ past = [b \in Id |-> Spotless]

TableStep == Bind \/ Drain \/ Refresh \/ Ask \/ Return \/ Tick

Next == TableStep \/ \E s \in Slot : Accept(s) \/ PairStep(s)

Spec == Init /\ [][Next]_vars

\* The task never returns from its loop and looks at every pair in each turn,
\* and the clock runs.  Clients and backends owe nothing.
FairSpec == Spec /\ WF_vars(Tick) /\ \A s \in Slot : WF_vars(Reap(s))

----------------------------------------------------------------------------
(* Properties *)

\* A backend never holds more than its cap of relays, although the backend
\* table is rebuilt under the pairs, a blade leaves and comes back with its old
\* pairs still open, and the load is recounted from the pairs every time.
InflightCap == \A b \in Id : Inflight(b) <= INFLIGHT_CAP

\* A blade serves visitors over its own loopback only while it is the only
\* backend left: the moment the fleet heals none stays pinned to it.
SoloIsAlone == (OnBackend(Self) # {} \/ Self \in table) => table = {Self}

\* FAIL_STREAK connections in a row have died, the last of them just now: any
\* bench there is keeps visitors away from b; or so lately that the longest may.
Convicted(b) == past[b].dead = FAIL_STREAK /\ past[b].ago < SUSPECT
Doubted(b)   == past[b].dead = FAIL_STREAK /\ past[b].ago < SUSPECT_MAX

\* "The bench only shapes which backend is picked, never whether a visitor is
\* admitted": whenever the door is open there is a backend to go to, be they all
\* benched; and, by how its connections have ended and not by the bench's own
\* books, a visitor passes over no backend with room but one that may be doubted
\* or is busier, and goes to one that just died only when all with room may be.
BenchShapesChoice ==
  /\ [](DoorOpen => Picks # {})
  /\ [][\A s \in Slot : ~pairs[s].used /\ pairs'[s].used =>
         LET b == pairs'[s].be
         IN  \A c \in Roomy :
               Doubted(c) \/ (~Convicted(b) /\ Inflight(b) <= Inflight(c))]_vars

\* No visitor pins a slot: again and again each slot is free, or it is in the
\* hands of a client that has spoken, with both sides there and bytes just moved.
\* A client that is silent under a backend that talks, one that sips the rest of
\* a half-closed pair, and one that moves nothing must each be reaped by a
\* patience of its own.
SlotReleased ==
  \A s \in Slot :
    []<>(\/ ~pairs[s].used
         \/ pairs[s].spoke /\ pairs[s].half = NEVER /\ pairs[s].idle = 0)
=============================================================================
