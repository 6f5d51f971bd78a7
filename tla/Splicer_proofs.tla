-------------------------- MODULE Splicer_proofs ---------------------------
(***************************************************************************)
(* What holds of the splicer for every size of the pair table, every cap,  *)
(* every set of peers and every patience.                                  *)
(***************************************************************************)
EXTENDS Splicer, FiniteSetTheorems, WellFoundedInduction, TLAPS

----------------------------------------------------------------------------
(* The bench *)

\* A verdict keeps the record in its type: the streak stays below its limit
\* and no sentence passes the ceiling.
LEMMA JudgeTyped ==
  ASSUME NEW r \in Bench, NEW why, NEW answered \in BOOLEAN
  PROVE  Judge(r, why, answered) \in Bench
<1> DEFINE b == BenchNext(r.term, SUSPECT, SUSPECT_MAX)
<1>1. r.fails \in 0..FAIL_STREAK - 1 /\ r.term \in 0..SUSPECT_MAX /\ r.left \in 0..SUSPECT_MAX
  BY DEF Bench
<1>2. b \in 0..SUSPECT_MAX
  BY <1>1, BenchAssumption DEF BenchNext
<1>3. 0 \in 0..FAIL_STREAK - 1 /\ 0 \in 0..SUSPECT_MAX
  BY BenchAssumption
<1>4. r.fails + 1 < BenchThreshold(r.term, FAIL_STREAK) => r.fails + 1 \in 0..FAIL_STREAK - 1
  BY <1>1, BenchAssumption DEF BenchThreshold
<1>5. Clean \in Bench /\ [fails |-> 0, term |-> b, left |-> b] \in Bench
  BY <1>2, <1>3 DEF Clean, Bench
<1>6. r.fails + 1 < BenchThreshold(r.term, FAIL_STREAK)
        => [r EXCEPT !.fails = @ + 1] \in Bench
  BY <1>4 DEF Bench
<1> QED
  BY <1>5, <1>6 DEF Judge

\* A unit of time, as the history counts it.
Later(h) ==
  [h EXCEPT !.ago = IF h.dead = FAIL_STREAK /\ @ < SUSPECT_MAX THEN @ + 1 ELSE @]

\* What is remembered of it, too.
LEMMA RememberTyped ==
  ASSUME NEW h \in Past, NEW why, NEW answered \in BOOLEAN
  PROVE  Remember(h, why, answered) \in Past
<1>1. h.dead \in 0..FAIL_STREAK /\ h.ago \in 0..SUSPECT_MAX
  BY DEF Past
<1>2. 0 \in 0..FAIL_STREAK /\ 0 \in 0..SUSPECT_MAX
  BY BenchAssumption
<1>3. (IF h.dead < FAIL_STREAK THEN h.dead + 1 ELSE h.dead) \in 0..FAIL_STREAK
  BY <1>1, BenchAssumption
<1> QED
  BY <1>2, <1>3 DEF Remember, Spotless, Past

----------------------------------------------------------------------------
(* The pair table *)

\* Steps that admit nobody: every pair of the next state was there, on the same
\* backend.
NobodyNew ==
  \A s \in Slot : pairs'[s].used => pairs[s].used /\ pairs'[s].be = pairs[s].be

LEMMA LoadIsNatural ==
  ASSUME NEW b
  PROVE  IsFiniteSet(OnBackend(b)) /\ Inflight(b) \in Nat
<1>1. OnBackend(b) \subseteq Slot
  BY DEF OnBackend
<1> QED
  BY <1>1, FS_Subset, FS_CardinalityType, TableAssumption DEF Inflight

LEMMA LoadShrinks ==
  ASSUME NobodyNew, NEW b
  PROVE  OnBackend(b)' \subseteq OnBackend(b) /\ Inflight(b)' <= Inflight(b)
<1>1. OnBackend(b)' \subseteq OnBackend(b)
  BY DEF NobodyNew, OnBackend
<1>2. Cardinality(OnBackend(b)') <= Cardinality(OnBackend(b))
  BY <1>1, LoadIsNatural, FS_Subset
<1> QED
  BY <1>1, <1>2 DEF Inflight

LEMMA CapKept ==
  ASSUME InflightCap, NobodyNew
  PROVE  InflightCap'
<1> SUFFICES ASSUME NEW b \in Id PROVE Inflight(b)' <= INFLIGHT_CAP
  BY DEF InflightCap
<1>1. Inflight(b)' <= Inflight(b) /\ Inflight(b) <= INFLIGHT_CAP
  BY LoadShrinks DEF InflightCap
<1>2. Inflight(b) \in Nat /\ Inflight(b)' \in Nat
  <2>1. OnBackend(b)' \subseteq OnBackend(b)
    BY LoadShrinks
  <2>2. IsFiniteSet(OnBackend(b)')
    BY <2>1, LoadIsNatural, FS_Subset
  <2> QED
    BY <2>2, LoadIsNatural, FS_CardinalityType DEF Inflight
<1> QED
  BY <1>1, <1>2, TableAssumption

\* backend_pick only answers with a backend of the table that has room.
LEMMA PickHasRoom ==
  ASSUME NEW b \in Picks
  PROVE  b \in Roomy
BY DEF Picks, LeastLoaded

----------------------------------------------------------------------------
(* The types of what the task computes *)

LEMMA Constants ==
  /\ NEVER \in {NEVER} \cup 0..FLUSH + 1 /\ 0 \in {NEVER} \cup 0..FLUSH + 1
  /\ 0 \in 0..IDLE_KILL + 1 /\ 0 \in 0..SILENT_KILL + 1
BY PatienceAssumption

LEMMA DirStepTyped ==
  ASSUME NEW d \in Dir, NEW o \in DirStep(d) \cup {Still(d)}
  PROVE  o.to \in Dir /\ o.moved \in BOOLEAN /\ o.ok \in BOOLEAN
<1> DEFINE End == IF d = "parked" THEN {d} ELSE Dir
<1>1. "eof" \in Dir /\ End \subseteq Dir
  BY DEF Dir
<1>2. \/ o = [to |-> "eof", moved |-> FALSE, ok |-> TRUE]
      \/ o = [to |-> d, moved |-> FALSE, ok |-> TRUE]
      \/ \E m \in BOOLEAN : o = [to |-> d, moved |-> m, ok |-> FALSE]
      \/ \E e \in Dir : o = [to |-> e, moved |-> TRUE, ok |-> TRUE]
      \/ \E e \in End : o = [to |-> e, moved |-> FALSE, ok |-> TRUE]
  BY Zenon DEF DirStep, Still
<1> HIDE DEF End
<1>3. CASE o = [to |-> "eof", moved |-> FALSE, ok |-> TRUE]
  BY <1>1, <1>3
<1>4. CASE o = [to |-> d, moved |-> FALSE, ok |-> TRUE]
  BY <1>4
<1>5. CASE \E m \in BOOLEAN : o = [to |-> d, moved |-> m, ok |-> FALSE]
  BY <1>5
<1>6. CASE \E e \in Dir : o = [to |-> e, moved |-> TRUE, ok |-> TRUE]
  BY <1>6
<1>7. CASE \E e \in End : o = [to |-> e, moved |-> FALSE, ok |-> TRUE]
  BY <1>1, <1>7
<1> QED
  BY <1>2, <1>3, <1>4, <1>5, <1>6, <1>7

LEMMA RelayedTyped ==
  ASSUME NEW s \in Slot, pairs[s] \in Pair, NEW in, NEW out,
         in.to \in Dir, in.moved \in BOOLEAN, out.to \in Dir, out.moved \in BOOLEAN
  PROVE  /\ Relayed(s, in, out) \in Pair
         /\ [Relayed(s, in, out) EXCEPT !.half = 0] \in Pair
         /\ Relayed(s, in, out).be = pairs[s].be
<1>1. /\ Relayed(s, in, out) \in Pair
      /\ Relayed(s, in, out).be = pairs[s].be
  BY Constants DEF Relayed, Pair
<1>2. [Relayed(s, in, out) EXCEPT !.half = 0] \in Pair
  BY <1>1, Constants DEF Pair
<1> QED
  BY <1>1, <1>2

LEMMA OlderTyped ==
  ASSUME NEW p \in Pair \cup {Free}
  PROVE  /\ OlderPair(p) \in Pair \cup {Free}
         /\ OlderPair(p).used = p.used
         /\ p.used => OlderPair(p).be = p.be
<1>1. ASSUME NEW b \in Nat, NEW a \in 0..b PROVE Older(a, b) \in 0..b
  BY DEF Older
<1>2. CASE p = Free
  BY <1>2 DEF OlderPair, Free
<1>3. CASE p \in Pair
  <2> DEFINE acc == IF p.spoke THEN 0 ELSE Older(p.accepted, SILENT_KILL + 1)
             idl == Older(p.idle, IDLE_KILL + 1)
             hlf == IF p.half = NEVER THEN NEVER ELSE Older(p.half, FLUSH + 1)
  <2>1. /\ p.used = TRUE /\ p.accepted \in 0..SILENT_KILL + 1
        /\ p.idle \in 0..IDLE_KILL + 1 /\ p.half \in {NEVER} \cup 0..FLUSH + 1
    BY <1>3 DEF Pair
  <2>2. SILENT_KILL + 1 \in Nat /\ IDLE_KILL + 1 \in Nat /\ FLUSH + 1 \in Nat
    BY PatienceAssumption
  <2>3. acc \in 0..SILENT_KILL + 1
    BY <1>1, <2>1, <2>2
  <2>4. idl \in 0..IDLE_KILL + 1
    BY <1>1, <2>1, <2>2
  <2>5. hlf \in {NEVER} \cup 0..FLUSH + 1
    BY <1>1, <2>1, <2>2
  <2>6. OlderPair(p) = [p EXCEPT !.accepted = acc, !.idle = idl, !.half = hlf]
    BY <2>1 DEF OlderPair
  <2> HIDE DEF acc, idl, hlf
  <2> QED
    BY <1>3, <2>3, <2>4, <2>5, <2>6 DEF Pair
<1> QED
  BY <1>2, <1>3

LEMMA NewcomerTyped ==
  ASSUME NEW b \in Id
  PROVE  Newcomer(b) \in Pair
BY Constants DEF Newcomer, Pair, Dir

LEMMA CloseTyped ==
  ASSUME TypeOK, NEW s \in Slot, pairs[s].used, NEW p \in Pair, p.be = pairs[s].be,
         NEW why, Close(s, p, why)
  PROVE  /\ pairs' \in [Slot -> Pair \cup {Free}] /\ NobodyNew
         /\ bench' \in [Id -> Bench] /\ past' \in [Id -> Past]
<1>1. p.be \in Id /\ p.answered \in BOOLEAN
  BY DEF Pair
<1>2. Judge(bench[p.be], why, p.answered) \in Bench
  BY <1>1, JudgeTyped DEF TypeOK
<1>3. bench' = [bench EXCEPT ![p.be] = Judge(bench[p.be], why, p.answered)]
  BY DEF Close
<1>4. bench' \in [Id -> Bench]
  BY <1>1, <1>2, <1>3 DEF TypeOK
<1>5. pairs' \in [Slot -> Pair \cup {Free}] /\ NobodyNew
  BY DEF Close, TypeOK, NobodyNew, Free
<1>6. past' \in [Id -> Past]
  <2>1. Remember(past[p.be], why, p.answered) \in Past
    BY <1>1, RememberTyped DEF TypeOK
  <2>2. past' = [past EXCEPT ![p.be] = Remember(past[p.be], why, p.answered)]
    BY DEF Close
  <2> QED
    BY <1>1, <2>1, <2>2 DEF TypeOK
<1> QED
  BY <1>4, <1>5, <1>6

LEMMA CloseAllTyped ==
  ASSUME TypeOK, NEW S, CloseAllDone(S)
  PROVE  /\ pairs' \in [Slot -> Pair \cup {Free}] /\ NobodyNew
         /\ bench' \in [Id -> Bench] /\ past' \in [Id -> Past]
<1>1. Clean \in Bench /\ Spotless \in Past
  BY BenchAssumption DEF Clean, Bench, Spotless, Past
<1> QED
  BY <1>1 DEF CloseAllDone, TypeOK, NobodyNew, Free

----------------------------------------------------------------------------
(* The inductive invariant *)

IInv == TypeOK /\ InflightCap /\ SoloIsAlone

\* What SoloIsAlone asks of a step that keeps the table and admits nobody.
LEMMA SoloKept ==
  ASSUME SoloIsAlone, NobodyNew, table' = table
  PROVE  SoloIsAlone'
<1>1. OnBackend(Self)' \subseteq OnBackend(Self)
  BY LoadShrinks
<1> QED
  BY <1>1 DEF SoloIsAlone

LEMMA InitIInv == Init => IInv
<1> SUFFICES ASSUME Init PROVE IInv
  OBVIOUS
<1>1. Clean \in Bench /\ Spotless \in Past
  BY BenchAssumption DEF Clean, Bench, Spotless, Past
<1>2. \A b : OnBackend(b) = {}
  BY DEF Init, OnBackend, Free
<1>3. InflightCap
  BY <1>2, FS_EmptySet, TableAssumption DEF InflightCap, Inflight
<1>4. SoloIsAlone
  BY <1>2 DEF SoloIsAlone, Init
<1> QED
  BY <1>1, <1>3, <1>4 DEF IInv, TypeOK, Init

\* A step whose closings are well typed and that admits nobody keeps it all.
LEMMA QuietIInv ==
  ASSUME IInv, NobodyNew, table' = table,
         active' \in BOOLEAN, drainReq' \in BOOLEAN, caller' \in {"away", "waiting"},
         pairs' \in [Slot -> Pair \cup {Free}],
         bench' \in [Id -> Bench], past' \in [Id -> Past]
  PROVE  IInv'
BY CapKept, SoloKept DEF IInv, TypeOK

LEMMA AcceptIInv ==
  ASSUME IInv, NEW s \in Slot, Accept(s)
  PROVE  IInv'
<1> USE DEF IInv
<1>1. PICK b \in Picks : pairs' = [pairs EXCEPT ![s] = Newcomer(b)]
  BY DEF Accept
<1>2. b \in table /\ Inflight(b) < INFLIGHT_CAP
  BY PickHasRoom DEF Roomy
<1>3. b \in Id /\ ~pairs[s].used
  BY <1>2 DEF Accept, TypeOK
<1>4. TypeOK'
  BY <1>1, <1>3, NewcomerTyped DEF Accept, TypeOK
<1>5. /\ OnBackend(b)' = OnBackend(b) \cup {s} /\ s \notin OnBackend(b)
      /\ \A c \in Id \ {b} : OnBackend(c)' = OnBackend(c)
  BY <1>1, <1>3 DEF OnBackend, TypeOK, Newcomer
<1>6. InflightCap'
  <2> SUFFICES ASSUME NEW c \in Id PROVE Inflight(c)' <= INFLIGHT_CAP
    BY DEF InflightCap
  <2>1. CASE c = b
    <3>1. Inflight(b)' = Inflight(b) + 1
      BY <1>5, LoadIsNatural, FS_AddElement DEF Inflight
    <3> QED
      BY <2>1, <3>1, <1>2, LoadIsNatural, TableAssumption
  <2>2. CASE c # b
    BY <1>5, <2>2 DEF Inflight, InflightCap
  <2> QED
    BY <2>1, <2>2
<1>7. SoloIsAlone'
  <2>1. CASE b = Self
    BY <1>2, <2>1 DEF Accept, SoloIsAlone
  <2>2. CASE b # Self
    <3>1. Self \in Id \ {b}
      BY <2>2 DEF Id
    <3> QED
      BY <1>5, <3>1 DEF Accept, SoloIsAlone
  <2> QED
    BY <2>1, <2>2
<1> QED
  BY <1>4, <1>6, <1>7

LEMMA PairStepIInv ==
  ASSUME IInv, NEW s \in Slot, PairStep(s)
  PROVE  IInv' /\ NobodyNew
<1> USE DEF IInv
<1>1. pairs[s].used /\ pairs[s] \in Pair
  BY DEF PairStep, ConnectEnds, ConnectTimeout, Relay, TypeOK, Free
<1>2. /\ table' = table
      /\ active' \in BOOLEAN /\ drainReq' \in BOOLEAN /\ caller' \in {"away", "waiting"}
  BY DEF PairStep, ConnectEnds, ConnectTimeout, Relay, RelayWith, TypeOK
<1>3. ASSUME NEW q \in Pair, q.be = pairs[s].be, bench' = bench, past' = past,
             pairs' = [pairs EXCEPT ![s] = q]
      PROVE  IInv' /\ NobodyNew
  <2>1. /\ pairs' \in [Slot -> Pair \cup {Free}]
        /\ bench' \in [Id -> Bench] /\ past' \in [Id -> Past]
    BY <1>3 DEF TypeOK
  <2>2. NobodyNew
    BY <1>1, <1>3 DEF NobodyNew, TypeOK
  <2> QED
    BY <1>2, <2>1, <2>2, QuietIInv
<1>4. ASSUME NEW q \in Pair, q.be = pairs[s].be, NEW why, Close(s, q, why)
      PROVE  IInv' /\ NobodyNew
  BY <1>1, <1>2, <1>4, CloseTyped, QuietIInv
<1>5. CASE ConnectEnds(s)
  <2> DEFINE q == [pairs[s] EXCEPT !.connecting = FALSE, !.idle = 0]
  <2>1. q \in Pair /\ q.be = pairs[s].be
    BY <1>1, Constants DEF Pair
  <2>2. CASE pairs' = [pairs EXCEPT ![s] = q] /\ bench' = bench /\ past' = past
    BY <1>3, <2>1, <2>2
  <2>3. CASE Close(s, pairs[s], "refused")
    BY <1>1, <1>4, <2>3
  <2> QED
    BY <1>5, <2>2, <2>3 DEF ConnectEnds
<1>6. CASE ConnectTimeout(s)
  BY <1>1, <1>4, <1>6 DEF ConnectTimeout
<1>7. CASE Relay(s)
  <2>1. pairs[s].c2b \in Dir /\ pairs[s].b2c \in Dir
    BY <1>1 DEF Pair
  <2>2. PICK in \in DirStep(pairs[s].c2b), out \in DirStep(pairs[s].b2c) :
          RelayWith(s, in, out)
    BY <1>7 DEF Relay
  <2> DEFINE q == Relayed(s, in, out)
             h == [q EXCEPT !.half = 0]
             why == EndOf(q, in.ok /\ out.ok)
  <2>3. q \in Pair /\ h \in Pair /\ q.be = pairs[s].be
    <3>1. /\ in.to \in Dir /\ in.moved \in BOOLEAN
          /\ out.to \in Dir /\ out.moved \in BOOLEAN
      BY <2>1, DirStepTyped
    <3> QED
      BY <1>1, <3>1, RelayedTyped
  <2>4. h.be = q.be
    BY <2>3 DEF Pair
  <2>5. CASE why # "no"
    <3>1. Close(s, q, why)
      BY <2>2, <2>5 DEF RelayWith
    <3> HIDE DEF q, why
    <3> QED
      BY <1>4, <2>3, <3>1
  <2>6. CASE why = "no"
    <3>1. /\ bench' = bench /\ past' = past
          /\ \/ pairs' = [pairs EXCEPT ![s] = q]
             \/ pairs' = [pairs EXCEPT ![s] = h]
      BY <2>2, <2>6 DEF RelayWith
    <3> HIDE DEF q, h
    <3> QED
      BY <1>3, <2>3, <2>4, <3>1
  <2> QED
    BY <2>5, <2>6
<1> QED
  BY <1>5, <1>6, <1>7 DEF PairStep

LEMMA TableStepIInv ==
  ASSUME IInv, TableStep
  PROVE  IInv' /\ NobodyNew
<1> USE DEF IInv
<1>1. CASE Bind \/ Ask \/ Return
  <2>1. NobodyNew /\ table' = table /\ UNCHANGED <<pairs, bench, past>>
    BY <1>1 DEF Bind, Ask, Return, NobodyNew
  <2>2. active' \in BOOLEAN /\ drainReq' \in BOOLEAN /\ caller' \in {"away", "waiting"}
    BY <1>1 DEF Bind, Ask, Return, TypeOK
  <2>3. /\ pairs' \in [Slot -> Pair \cup {Free}]
        /\ bench' \in [Id -> Bench] /\ past' \in [Id -> Past]
    BY <2>1 DEF TypeOK
  <2> QED
    BY <2>1, <2>2, <2>3, QuietIInv
<1>2. CASE Drain
  BY <1>2, CloseAllTyped, QuietIInv DEF Drain, TypeOK
<1>3. CASE Tick
  <2>1. NobodyNew /\ pairs' \in [Slot -> Pair \cup {Free}]
    <3>1. \A s \in Slot : pairs[s] \in Pair \cup {Free} /\ pairs'[s] = OlderPair(pairs[s])
      BY <1>3 DEF Tick, TypeOK
    <3>2. \A s \in Slot : /\ pairs'[s] \in Pair \cup {Free}
                          /\ pairs'[s].used = pairs[s].used
                          /\ pairs[s].used => pairs'[s].be = pairs[s].be
      BY <3>1, OlderTyped
    <3> QED
      BY <1>3, <3>2 DEF Tick, NobodyNew
  <2>2. bench' \in [Id -> Bench]
    <3>1. ASSUME NEW b \in Id
          PROVE  [bench[b] EXCEPT !.left = IF @ = 0 THEN 0 ELSE @ - 1] \in Bench
      <4>1. bench[b] \in Bench
        BY DEF TypeOK
      <4>2. (IF bench[b].left = 0 THEN 0 ELSE bench[b].left - 1) \in 0..SUSPECT_MAX
        BY <4>1, BenchAssumption DEF Bench
      <4> QED
        BY <4>1, <4>2 DEF Bench
    <3> QED
      BY <1>3, <3>1 DEF Tick
  <2>3. past' \in [Id -> Past]
    <3>1. ASSUME NEW b \in Id PROVE Later(past[b]) \in Past
      <4>1. past[b] \in Past /\ past[b].ago \in 0..SUSPECT_MAX
        BY DEF TypeOK, Past
      <4>2. past[b].ago < SUSPECT_MAX => past[b].ago + 1 \in 0..SUSPECT_MAX
        BY <4>1, BenchAssumption
      <4> QED
        BY <4>1, <4>2 DEF Later, Past
    <3> QED
      BY <1>3, <3>1 DEF Tick, Later
  <2> QED
    BY <1>3, <2>1, <2>2, <2>3, QuietIInv DEF Tick, TypeOK
<1>4. CASE Refresh
  <2>1. /\ pairs' \in [Slot -> Pair \cup {Free}] /\ NobodyNew
        /\ bench' \in [Id -> Bench] /\ past' \in [Id -> Past]
    <3>1. CASE Self \in table /\ Self \notin table'
      BY <1>4, <3>1, CloseAllTyped DEF Refresh
    <3>2. CASE ~(Self \in table /\ Self \notin table')
      BY <1>4, <3>2 DEF Refresh, TypeOK, NobodyNew
    <3> QED
      BY <3>1, <3>2
  <2>2. table' \subseteq Id /\ (Self \in table' => table' = {Self})
    BY <1>4, TableAssumption DEF Refresh, Id
  <2>3. TypeOK' /\ InflightCap'
    BY <1>4, <2>1, <2>2, CapKept DEF Refresh, TypeOK
  <2>4. OnBackend(Self)' # {} => Self \in table'
    <3> SUFFICES ASSUME OnBackend(Self)' # {}, Self \notin table' PROVE FALSE
      OBVIOUS
    <3>1. OnBackend(Self)' \subseteq OnBackend(Self)
      BY <2>1, LoadShrinks
    <3>2. Self \in table
      BY <3>1 DEF SoloIsAlone
    <3>3. pairs' = [s \in Slot |-> IF s \in OnBackend(Self) THEN Free ELSE pairs[s]]
      BY <1>4, <3>2 DEF Refresh, CloseAllDone
    <3>4. OnBackend(Self)' = {}
      BY <3>3 DEF OnBackend, Free
    <3> QED
      BY <3>4
  <2> QED
    BY <2>1, <2>2, <2>3, <2>4 DEF SoloIsAlone
<1> QED
  BY <1>1, <1>2, <1>3, <1>4 DEF TableStep

LEMMA NextIInv == IInv /\ [Next]_vars => IInv'
<1> SUFFICES ASSUME IInv, [Next]_vars PROVE IInv'
  OBVIOUS
<1>1. CASE TableStep
  BY <1>1, TableStepIInv
<1>2. ASSUME NEW s \in Slot, Accept(s) PROVE IInv'
  BY <1>2, AcceptIInv
<1>3. ASSUME NEW s \in Slot, PairStep(s) PROVE IInv'
  BY <1>3, PairStepIInv
<1>4. CASE UNCHANGED vars
  <2>1. NobodyNew
    BY <1>4 DEF vars, NobodyNew
  <2> QED
    BY <1>4, <2>1, QuietIInv DEF vars, IInv, TypeOK
<1> QED
  BY <1>1, <1>2, <1>3, <1>4 DEF Next

----------------------------------------------------------------------------
(* The bench of each backend is a circuit breaker *)

Served(r, q) == q = [r EXCEPT !.left = IF @ = 0 THEN 0 ELSE @ - 1]

Mode(r) == IF r.left > 0 THEN "open" ELSE IF r.term > 0 THEN "probation" ELSE "closed"

Fuse(b) == INSTANCE Breaker WITH
  Streak <- FAIL_STREAK, First <- SUSPECT, Longest <- SUSPECT_MAX,
  mode <- Mode(bench[b]), strikes <- bench[b].fails, wait <- bench[b].term, clock <- bench[b].left

\* A sentence is only ever served out, and only a forgiven backend, or one that
\* was never benched, has strikes against it.
Sentence(r) ==
  /\ r.left <= r.term /\ (r.term > 0 => r.term >= SUSPECT /\ r.fails = 0)

Sentenced == \A b \in Id : Sentence(bench[b])

LEMMA JudgeTrips ==
  ASSUME NEW r \in Bench, Sentence(r), NEW why, NEW answered \in BOOLEAN
  PROVE  LET j == Judge(r, why, answered)
         IN  \/ j = Clean
             \/ j = r
             \/ /\ Mode(r) = "closed" /\ r.fails + 1 < FAIL_STREAK
                /\ j = [r EXCEPT !.fails = @ + 1]
             \/ /\ Mode(r) = "closed" => r.fails + 1 = FAIL_STREAK
                /\ j.fails = 0 /\ j.left = j.term /\ j.term > 0
                /\ j.term = IF Mode(r) = "closed" THEN SUSPECT
                            ELSE IF 2 * r.term < SUSPECT_MAX THEN 2 * r.term ELSE SUSPECT_MAX
<1>1. r.fails \in 0..FAIL_STREAK - 1 /\ r.term \in 0..SUSPECT_MAX /\ r.left \in 0..SUSPECT_MAX
  BY DEF Bench
<1>2. Mode(r) = "closed" <=> r.term = 0
  BY <1>1, BenchAssumption DEF Mode, Sentence
<1> DEFINE b == BenchNext(r.term, SUSPECT, SUSPECT_MAX)
<1>3. CASE why = "done" \/ answered \/ why \notin Blame
  BY <1>3 DEF Judge
<1>4. CASE ~(why = "done" \/ answered \/ why \notin Blame) /\ r.term = 0
  <2>1. b = SUSPECT
    BY <1>4, BenchAssumption DEF BenchNext
  <2>2. CASE r.fails + 1 < FAIL_STREAK
    <3>1. Judge(r, why, answered) = [r EXCEPT !.fails = @ + 1]
      BY <1>4, <2>2 DEF Judge, BenchThreshold
    <3> QED
      BY <1>2, <1>4, <2>2, <3>1
  <2>3. CASE ~(r.fails + 1 < FAIL_STREAK)
    <3>1. Judge(r, why, answered) = [fails |-> 0, term |-> b, left |-> b]
      BY <1>4, <2>3 DEF Judge, BenchThreshold
    <3>2. r.fails + 1 = FAIL_STREAK
      BY <1>1, <2>3, BenchAssumption
    <3> QED
      BY <1>2, <1>4, <2>1, <3>1, <3>2, BenchAssumption
  <2> QED
    BY <2>2, <2>3
<1>5. CASE ~(why = "done" \/ answered \/ why \notin Blame) /\ r.term > 0
  <2>1. b = IF 2 * r.term < SUSPECT_MAX THEN 2 * r.term ELSE SUSPECT_MAX
    BY <1>1, <1>5, BenchAssumption DEF BenchNext
  <2>2. b > 0
    BY <1>1, <1>5, <2>1, BenchAssumption
  <2>3. Judge(r, why, answered) = [fails |-> 0, term |-> b, left |-> b]
    BY <1>1, <1>5 DEF Judge, BenchThreshold, Sentence
  <2> HIDE DEF b
  <2> QED
    BY <1>2, <1>5, <2>1, <2>2, <2>3
<1> QED
  BY <1>1, <1>3, <1>4, <1>5

Why == Blame \cup {"done", "silent"}

\* What one step does to the record of one backend, and to what is remembered of
\* it: nothing, the end of a connection, or time.
Kept(b)  == bench'[b] = bench[b] /\ past'[b] = past[b]
Ended(b) == \E why \in Why, answered \in BOOLEAN :
              bench'[b] = Judge(bench[b], why, answered) /\ past'[b] = Remember(past[b], why, answered)
Aged(b)  == Served(bench[b], bench'[b]) /\ past'[b] = Later(past[b])

\* The record alone.
Verdict(r, q) == \E why \in Why, answered \in BOOLEAN : q = Judge(r, why, answered)

LEMMA CloseJudges ==
  ASSUME IInv, NEW s \in Slot, NEW p, p.be \in Id, p.answered \in BOOLEAN,
         NEW why \in Why, Close(s, p, why), NEW b \in Id
  PROVE  Kept(b) \/ Ended(b)
<1>1. /\ bench' = [bench EXCEPT ![p.be] = Judge(bench[p.be], why, p.answered)]
      /\ past' = [past EXCEPT ![p.be] = Remember(past[p.be], why, p.answered)]
      /\ bench \in [Id -> Bench] /\ past \in [Id -> Past]
  BY DEF Close, IInv, TypeOK
<1>2. CASE b = p.be
  BY <1>1, <1>2 DEF Ended
<1>3. CASE b # p.be
  BY <1>1, <1>3 DEF Kept
<1> QED
  BY <1>2, <1>3

LEMMA CloseAllJudges ==
  ASSUME IInv, NEW S, CloseAllDone(S), NEW b \in Id
  PROVE  Kept(b) \/ Ended(b)
<1>1. Kept(b) \/ (bench'[b] = Clean /\ past'[b] = Spotless)
  BY DEF CloseAllDone, Kept
<1>2. Clean = Judge(bench[b], "done", FALSE) /\ Spotless = Remember(past[b], "done", FALSE)
  BY DEF Judge, Remember
<1> QED
  BY <1>1, <1>2 DEF Ended, Why

LEMMA BenchSteps ==
  ASSUME IInv, [Next]_vars, NEW b \in Id
  PROVE  Kept(b) \/ Ended(b) \/ Aged(b)
<1>1. CASE Bind \/ Ask \/ Return \/ UNCHANGED vars
  BY <1>1 DEF Bind, Ask, Return, vars, Kept
<1>2. CASE Drain
  BY <1>2, CloseAllJudges DEF Drain
<1>3. CASE Refresh
  BY <1>3, CloseAllJudges DEF Refresh, Kept
<1>4. CASE Tick
  BY <1>4 DEF Tick, Aged, Served, Later
<1>5. ASSUME NEW s \in Slot, Accept(s) PROVE Kept(b)
  BY <1>5 DEF Accept, Kept
<1>6. ASSUME NEW s \in Slot, PairStep(s) PROVE Kept(b) \/ Ended(b)
  <2>1. pairs[s] \in Pair /\ pairs[s].be \in Id /\ pairs[s].answered \in BOOLEAN
    <3>1. pairs[s].used /\ pairs[s] \in Pair
      BY <1>6 DEF PairStep, ConnectEnds, ConnectTimeout, Relay, IInv, TypeOK, Free
    <3> QED
      BY <3>1 DEF Pair
  <2>2. "refused" \in Why /\ "timeout" \in Why
    BY DEF Why, Blame
  <2>3. CASE ConnectEnds(s)
    <3>1. Kept(b) \/ Close(s, pairs[s], "refused")
      BY <2>3 DEF ConnectEnds, Kept
    <3> QED
      BY <2>1, <2>2, <3>1, CloseJudges
  <2>4. CASE ConnectTimeout(s)
    BY <2>1, <2>2, <2>4, CloseJudges DEF ConnectTimeout
  <2>5. CASE Relay(s)
    <3>1. pairs[s].c2b \in Dir /\ pairs[s].b2c \in Dir
      BY <2>1 DEF Pair
    <3>2. PICK in \in DirStep(pairs[s].c2b), out \in DirStep(pairs[s].b2c) :
            RelayWith(s, in, out)
      BY <2>5 DEF Relay
    <3> DEFINE q == Relayed(s, in, out)
               why == EndOf(q, in.ok /\ out.ok)
    <3>3. q.be \in Id /\ q.answered \in BOOLEAN
      <4>1. /\ in.to \in Dir /\ in.moved \in BOOLEAN
            /\ out.to \in Dir /\ out.moved \in BOOLEAN
        BY <3>1, <3>2, DirStepTyped
      <4>2. q \in Pair
        BY <2>1, <4>1, RelayedTyped
      <4> QED
        BY <4>2 DEF Pair
    <3>4. why = "no" \/ why \in Why
      BY DEF EndOf, Why, Blame
    <3>5. Kept(b) \/ (why # "no" /\ Close(s, q, why))
      BY <3>2 DEF RelayWith, Kept
    <3> HIDE DEF q, why
    <3> QED
      BY <3>3, <3>4, <3>5, CloseJudges
  <2> QED
    BY <1>6, <2>3, <2>4, <2>5 DEF PairStep
<1> QED
  BY <1>1, <1>2, <1>3, <1>4, <1>5, <1>6 DEF Next, TableStep

\* Each step of the splicer is a step of the breaker of b, or none.
LEMMA FuseSteps ==
  ASSUME IInv, Sentenced, [Next]_vars, NEW b \in Id
  PROVE  Sentence(bench'[b]) /\ [Fuse(b)!Next]_(Fuse(b)!vars)
<1> DEFINE r == bench[b]
           q == bench'[b]
<1>1. r \in Bench /\ q \in Bench /\ Sentence(r)
  BY NextIInv DEF IInv, TypeOK, Sentenced
<1>2. /\ r.fails \in 0..FAIL_STREAK - 1 /\ r.term \in 0..SUSPECT_MAX /\ r.left \in 0..SUSPECT_MAX
      /\ q.fails \in 0..FAIL_STREAK - 1 /\ q.term \in 0..SUSPECT_MAX /\ q.left \in 0..SUSPECT_MAX
  BY <1>1 DEF Bench
<1>3. CASE q = r
  BY <1>1, <1>3 DEF Fuse!vars, Mode
<1>4. CASE q = Clean
  <2>1. q.fails = 0 /\ q.term = 0 /\ q.left = 0
    BY <1>4 DEF Clean
  <2>2. Sentence(q) /\ Mode(q) = "closed"
    BY <2>1, BenchAssumption DEF Sentence, Mode
  <2> QED
    BY <2>1, <2>2 DEF Fuse!Next, Fuse!Closed
<1>5. CASE Mode(r) = "closed" /\ r.fails + 1 < FAIL_STREAK /\ q = [r EXCEPT !.fails = @ + 1]
  <2>1. q.fails = r.fails + 1 /\ q.term = r.term /\ q.left = r.left
    BY <1>1, <1>5 DEF Bench
  <2>2. r.term = 0 /\ r.left = 0
    BY <1>1, <1>2, <1>5 DEF Mode
  <2>3. Sentence(q) /\ Mode(q) = Mode(r)
    BY <2>1, <2>2, BenchAssumption DEF Sentence, Mode
  <2>4. Fuse(b)!Strike
    BY <1>5, <2>1, <2>3 DEF Fuse!Strike
  <2> QED
    BY <2>3, <2>4 DEF Fuse!Next
<1>6. CASE /\ Mode(r) = "closed" => r.fails + 1 = FAIL_STREAK
           /\ q.fails = 0 /\ q.left = q.term /\ q.term > 0
           /\ q.term = IF Mode(r) = "closed" THEN SUSPECT
                       ELSE IF 2 * r.term < SUSPECT_MAX THEN 2 * r.term ELSE SUSPECT_MAX
  <2>1. Mode(q) = "open"
    BY <1>6 DEF Mode
  <2>2. Mode(r) # "closed" => r.term >= SUSPECT
    BY <1>1, <1>2 DEF Mode, Sentence
  <2>3. Sentence(q)
    BY <1>2, <1>6, <2>2, BenchAssumption DEF Sentence
  <2>4. Fuse(b)!Trip
    BY <1>6, <2>1 DEF Fuse!Trip
  <2> QED
    BY <2>3, <2>4 DEF Fuse!Next
<1>7. CASE Served(r, q) /\ r.left > 0
  <2>1. q.fails = r.fails /\ q.term = r.term /\ q.left = r.left - 1
    BY <1>1, <1>2, <1>7 DEF Served, Bench
  <2>2. Mode(r) = "open" /\ Mode(q) = (IF q.left = 0 THEN "probation" ELSE "open")
    BY <1>1, <1>2, <1>7, <2>1 DEF Mode, Sentence
  <2>3. Sentence(q)
    BY <1>1, <1>2, <2>1 DEF Sentence
  <2>4. Fuse(b)!Elapse
    BY <2>1, <2>2 DEF Fuse!Elapse
  <2> QED
    BY <2>3, <2>4 DEF Fuse!Next
<1>8. CASE Served(r, q) /\ r.left = 0
  BY <1>1, <1>3, <1>8 DEF Served, Bench
<1>9. ASSUME Verdict(r, q)
      PROVE  \/ q = Clean \/ q = r
             \/ Mode(r) = "closed" /\ r.fails + 1 < FAIL_STREAK /\ q = [r EXCEPT !.fails = @ + 1]
             \/ /\ Mode(r) = "closed" => r.fails + 1 = FAIL_STREAK
                /\ q.fails = 0 /\ q.left = q.term /\ q.term > 0
                /\ q.term = IF Mode(r) = "closed" THEN SUSPECT
                            ELSE IF 2 * r.term < SUSPECT_MAX THEN 2 * r.term ELSE SUSPECT_MAX
  <2>1. PICK why \in Why, answered \in BOOLEAN : q = Judge(r, why, answered)
    BY <1>9 DEF Verdict
  <2> HIDE DEF r, q
  <2> QED
    BY <1>1, <2>1, JudgeTrips
<1> HIDE DEF r, q
<1>10. q = r \/ Verdict(r, q) \/ Served(r, q)
  BY BenchSteps DEF r, q, Kept, Ended, Aged, Verdict
<1>11. r.left = 0 \/ r.left > 0
  BY <1>2
<1> QED
  BY <1>3, <1>4, <1>5, <1>6, <1>7, <1>8, <1>9, <1>10, <1>11 DEF q

----------------------------------------------------------------------------
(* The bench against what really happened *)

\* The record of a backend and the history of its connections tell the same: it
\* is counted against as often as its connections died, and from FAIL_STREAK on it
\* is benched until its term has gone by since the last of them.
Tally(r, h) ==
  IF r.term = 0 THEN h.dead = r.fails /\ r.left = 0
  ELSE /\ r.fails = 0 /\ r.term >= SUSPECT /\ h.dead = FAIL_STREAK
       /\ r.left = IF h.ago < r.term THEN r.term - h.ago ELSE 0

Tallied == \A b \in Id : Tally(bench[b], past[b])

LEMMA TallyInit == Init => Tallied
<1> SUFFICES ASSUME Init, NEW b \in Id PROVE Tally(bench[b], past[b])
  BY DEF Tallied
<1>1. bench[b] = Clean /\ past[b] = Spotless
  BY DEF Init
<1> QED
  BY <1>1 DEF Tally, Clean, Spotless

LEMMA TallyJudged ==
  ASSUME NEW r \in Bench, NEW h \in Past, Tally(r, h), NEW why, NEW answered \in BOOLEAN
  PROVE  Tally(Judge(r, why, answered), Remember(h, why, answered))
<1>1. /\ r.fails \in 0..FAIL_STREAK - 1 /\ r.term \in 0..SUSPECT_MAX /\ r.left \in 0..SUSPECT_MAX
      /\ h.dead \in 0..FAIL_STREAK /\ h.ago \in 0..SUSPECT_MAX
  BY DEF Bench, Past
<1> DEFINE b == BenchNext(r.term, SUSPECT, SUSPECT_MAX)
           g == Remember(h, why, answered)
           q == Judge(r, why, answered)
<1>2. CASE why = "done" \/ answered
  BY <1>2 DEF Judge, Remember, Tally, Clean, Spotless
<1>3. CASE ~(why = "done" \/ answered) /\ why \notin Blame
  BY <1>3 DEF Judge, Remember
<1>4. CASE ~(why = "done" \/ answered) /\ why \in Blame
  <2>1. g.ago = 0 /\ g.dead = (IF h.dead < FAIL_STREAK THEN h.dead + 1 ELSE h.dead)
    BY <1>4 DEF Remember
  <2>2. CASE r.fails + 1 < BenchThreshold(r.term, FAIL_STREAK)
    <3>1. q = [r EXCEPT !.fails = @ + 1]
      BY <1>4, <2>2 DEF Judge
    <3>2. r.term = 0
      BY <1>1, <2>2 DEF BenchThreshold
    <3>3. q.fails = r.fails + 1 /\ q.term = 0 /\ q.left = r.left
      BY <3>1, <3>2 DEF Bench
    <3>4. g.dead = h.dead + 1 /\ h.dead = r.fails /\ r.left = 0
      BY <1>1, <2>1, <2>2, <3>2, BenchAssumption DEF Tally, BenchThreshold
    <3> HIDE DEF q, g
    <3>5. Tally(q, g)
      BY <3>3, <3>4 DEF Tally
    <3> QED
      BY <3>5 DEF q, g
  <2>3. CASE ~(r.fails + 1 < BenchThreshold(r.term, FAIL_STREAK))
    <3>1. q = [fails |-> 0, term |-> b, left |-> b]
      BY <1>4, <2>3 DEF Judge
    <3>2. b \in Nat /\ b >= SUSPECT /\ b > 0
      BY <1>1, BenchAssumption DEF BenchNext, Tally
    <3>3. g.dead = FAIL_STREAK
      <4>1. CASE r.term = 0
        BY <1>1, <2>1, <2>3, <4>1, BenchAssumption DEF Tally, BenchThreshold
      <4>2. CASE r.term # 0
        BY <1>1, <2>1, <4>2, BenchAssumption DEF Tally
      <4> QED
        BY <4>1, <4>2
    <3>4. q.fails = 0 /\ q.term = b /\ q.left = b
      BY <3>1
    <3> HIDE DEF b, g, q
    <3>5. Tally(q, g)
      BY <2>1, <3>2, <3>3, <3>4 DEF Tally
    <3> QED
      BY <3>5 DEF q, g
  <2> QED
    BY <2>2, <2>3
<1> QED
  BY <1>2, <1>3, <1>4

LEMMA TallyAged ==
  ASSUME NEW r \in Bench, NEW h \in Past, Tally(r, h), NEW q, Served(r, q)
  PROVE  Tally(q, Later(h))
<1>1. /\ r.fails \in 0..FAIL_STREAK - 1 /\ r.term \in 0..SUSPECT_MAX /\ r.left \in 0..SUSPECT_MAX
      /\ h.dead \in 0..FAIL_STREAK /\ h.ago \in 0..SUSPECT_MAX
  BY DEF Bench, Past
<1>2. /\ q.fails = r.fails /\ q.term = r.term
      /\ q.left = IF r.left = 0 THEN 0 ELSE r.left - 1
  BY DEF Served, Bench
<1>3. /\ Later(h).dead = h.dead
      /\ Later(h).ago = IF h.dead = FAIL_STREAK /\ h.ago < SUSPECT_MAX THEN h.ago + 1 ELSE h.ago
  BY DEF Later, Past
<1> QED
  BY <1>1, <1>2, <1>3, BenchAssumption DEF Tally

LEMMA TallyKept ==
  ASSUME IInv, Tallied, [Next]_vars
  PROVE  Tallied'
<1> SUFFICES ASSUME NEW b \in Id PROVE Tally(bench'[b], past'[b])
  BY DEF Tallied
<1>1. bench[b] \in Bench /\ past[b] \in Past /\ Tally(bench[b], past[b])
  BY DEF IInv, TypeOK, Tallied
<1>2. CASE Kept(b)
  BY <1>1, <1>2 DEF Kept
<1>3. CASE Ended(b)
  BY <1>1, <1>3, TallyJudged DEF Ended
<1>4. CASE Aged(b)
  BY <1>1, <1>4, TallyAged DEF Aged
<1> QED
  BY <1>2, <1>3, <1>4, BenchSteps

\* A backend that just died is benched; one that is benched died of late.
LEMMA BenchIsDoubt ==
  ASSUME IInv, Tallied, NEW b \in Id
  PROVE  (Convicted(b) => Benched(b)) /\ (Benched(b) => Doubted(b))
<1>1. Tally(bench[b], past[b]) /\ bench[b] \in Bench /\ past[b] \in Past
  BY DEF IInv, TypeOK, Tallied
<1>2. /\ bench[b].fails \in 0..FAIL_STREAK - 1 /\ bench[b].term \in 0..SUSPECT_MAX
      /\ bench[b].left \in 0..SUSPECT_MAX
      /\ past[b].dead \in 0..FAIL_STREAK /\ past[b].ago \in 0..SUSPECT_MAX
  BY <1>1 DEF Bench, Past
<1> QED
  BY <1>1, <1>2, BenchAssumption DEF Tally, Convicted, Doubted, Benched

\* Of backends with room one is the least loaded, however many there are.
LEMMA LeastLoadedIs ==
  ASSUME NEW S, S # {}
  PROVE  LeastLoaded(S) # {}
<1> DEFINE Load == {Inflight(b) : b \in S}
<1>1. Load # {} /\ Load \subseteq Nat
  BY LoadIsNatural
<1>2. PICK m \in Load : \A k \in Load : ~ (<<k, m>> \in OpToRel(<, Nat))
  BY <1>1, NatLessThanWellFounded, WFMin
<1>3. PICK b \in S : m = Inflight(b)
  BY <1>2
<1>4. ASSUME NEW c \in S PROVE Inflight(b) <= Inflight(c)
  <2>1. Inflight(b) \in Nat /\ Inflight(c) \in Nat /\ ~ (Inflight(c) < Inflight(b))
    BY <1>2, <1>3, LoadIsNatural DEF OpToRel
  <2> QED
    BY <2>1
<1> QED
  BY <1>3, <1>4 DEF LeastLoaded

LEMMA SomeonePicked ==
  ASSUME Roomy # {}
  PROVE  Picks # {}
BY LeastLoadedIs DEF Picks

----------------------------------------------------------------------------
(* Theorems *)

\* Every variable of the splicer stays in its type: in particular a streak
\* never reaches its limit unjudged and no bench outlasts the ceiling.
THEOREM Typed == Spec => []TypeOK
<1>1. IInv => TypeOK
  BY DEF IInv
<1> QED
  BY InitIInv, NextIInv, <1>1, PTL DEF Spec

\* No backend ever holds more relays than its cap, whatever leaves, returns or
\* is cut.
THEOREM Capped == Spec => []InflightCap
<1>1. IInv => InflightCap
  BY DEF IInv
<1> QED
  BY InitIInv, NextIInv, <1>1, PTL DEF Spec

\* The loopback serves only while it is the only backend.
THEOREM Solo == Spec => []SoloIsAlone
<1>1. IInv => SoloIsAlone
  BY DEF IInv
<1> QED
  BY InitIInv, NextIInv, <1>1, PTL DEF Spec

\* The bench only shapes the choice.  However many backends are benched, a door
\* that is open has one of them behind it; and the books of the bench, read against
\* how the connections of each backend have really ended, send no visitor past a
\* backend that nothing speaks against to one that is busier or that just died.
THEOREM BenchShapes == Spec => BenchShapesChoice
<1> DEFINE Shaped == \A s \in Slot : ~pairs[s].used /\ pairs'[s].used =>
              LET b == pairs'[s].be
              IN  \A c \in Roomy :
                    Doubted(c) \/ (~Convicted(b) /\ Inflight(b) <= Inflight(c))
<1>1. Init => IInv /\ Tallied
  BY InitIInv, TallyInit
<1>2. IInv /\ Tallied /\ [Next]_vars => (IInv /\ Tallied)'
  BY NextIInv, TallyKept
<1>3. DoorOpen => Picks # {}
  BY SomeonePicked DEF DoorOpen
<1>4. IInv /\ Tallied /\ [Next]_vars => [Shaped]_vars
  <2> SUFFICES ASSUME IInv, Tallied, Next, NEW s \in Slot, ~pairs[s].used, pairs'[s].used,
                      NEW c \in Roomy, ~Doubted(c)
               PROVE  ~Convicted(pairs'[s].be) /\ Inflight(pairs'[s].be) <= Inflight(c)
    BY Zenon
  <2>1. ~NobodyNew
    BY DEF NobodyNew
  <2>2. PICK r \in Slot : Accept(r)
    BY <2>1, TableStepIInv, PairStepIInv DEF Next
  <2>3. PICK b \in Picks : pairs' = [pairs EXCEPT ![r] = Newcomer(b)]
    BY <2>2 DEF Accept
  <2>4. r = s /\ pairs'[s].be = b
    BY <2>3 DEF IInv, TypeOK, Newcomer
  <2>5. b \in Id /\ c \in Id
    BY PickHasRoom DEF Roomy, IInv, TypeOK
  <2>6. ~Benched(c)
    BY <2>5, BenchIsDoubt
  <2>7. ~Benched(b) /\ Inflight(b) <= Inflight(c)
    BY <2>3, <2>6 DEF Picks, LeastLoaded
  <2> QED
    BY <2>4, <2>5, <2>7, BenchIsDoubt
<1>5. Spec => [](DoorOpen => Picks # {})
  BY <1>3, PTL
<1>6. Spec => [][Shaped]_vars
  BY <1>1, <1>2, <1>4, PTL DEF Spec
<1> QED
  BY <1>5, <1>6 DEF BenchShapesChoice

\* The bench of every backend, under any load, any table and any number of
\* visitors that end at once, is a circuit breaker: it opens after FAIL_STREAK dead
\* connections that no answer has come between, for its whole wait, and again, for
\* twice as long, on the first dead connection after.
THEOREM BenchIsBreaker == ASSUME NEW b \in Id PROVE Spec => Fuse(b)!Spec
<1>1. Init => IInv /\ Sentenced /\ Fuse(b)!Closed
  <2> SUFFICES ASSUME Init PROVE Sentenced /\ Fuse(b)!Closed
    BY InitIInv
  <2>1. \A c \in Id : bench[c].fails = 0 /\ bench[c].term = 0 /\ bench[c].left = 0
    BY DEF Init, Clean
  <2> QED
    BY <2>1, BenchAssumption DEF Sentenced, Sentence, Fuse!Closed, Mode
<1>2. IInv /\ Sentenced /\ [Next]_vars => (IInv /\ Sentenced)' /\ [Fuse(b)!Next]_(Fuse(b)!vars)
  BY NextIInv, FuseSteps DEF Sentenced
<1> QED
  BY <1>1, <1>2, PTL DEF Spec, Fuse!Spec

\* What that comes to: until a success clears it no wait of a backend is shorter
\* than the one before, nobody is let through early, and no wait passes the ceiling.
THEOREM WaitsGrow == ASSUME NEW b \in Id PROVE Spec => Fuse(b)!NeverShorter /\ []Fuse(b)!InTime
<1>1. Init => IInv /\ Sentenced
  BY InitIInv, BenchAssumption DEF Init, Clean, Sentenced, Sentence
<1>2. IInv /\ Sentenced /\ [Next]_vars => (IInv /\ Sentenced)'
  BY NextIInv, FuseSteps DEF Sentenced
<1>3. IInv /\ Sentenced => Fuse(b)!InTime
  <2> SUFFICES ASSUME IInv, Sentenced PROVE Fuse(b)!InTime
    OBVIOUS
  <2>1. bench[b] \in Bench /\ Sentence(bench[b])
    BY DEF IInv, TypeOK, Sentenced
  <2> QED
    BY <2>1 DEF Fuse!InTime, Mode, Sentence, Bench
<1>4. IInv /\ Sentenced /\ [Next]_vars =>
        [(bench[b].term)' >= bench[b].term \/ Fuse(b)!Closed']_(Fuse(b)!vars)
  <2> SUFFICES ASSUME IInv, Sentenced, [Next]_vars, Fuse(b)!Next
               PROVE  bench'[b].term >= bench[b].term \/ Fuse(b)!Closed'
    BY FuseSteps
  <2>1. /\ bench[b].term \in 0..SUSPECT_MAX /\ bench[b].left \in 0..SUSPECT_MAX
        /\ Sentence(bench[b])
    BY DEF IInv, TypeOK, Sentenced, Bench
  <2>2. CASE Fuse(b)!Strike \/ Fuse(b)!Elapse
    BY <2>1, <2>2 DEF Fuse!Strike, Fuse!Elapse
  <2>3. CASE Fuse(b)!Trip
    BY <2>1, <2>3, BenchAssumption DEF Fuse!Trip, Mode, Sentence
  <2> QED
    BY <2>2, <2>3 DEF Fuse!Next
<1> QED
  BY <1>1, <1>2, <1>3, <1>4, PTL DEF Spec, Fuse!NeverShorter
=============================================================================
