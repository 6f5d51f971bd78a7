-------------------------- MODULE BlackBox_proofs --------------------------
(***************************************************************************)
(* What holds of the flight recorder for a partition of any size, and of   *)
(* one of two sectors or more: its types, the order of its records, that   *)
(* it writes on blank flash only, and that it is the log of EventLog.      *)
(***************************************************************************)
EXTENDS BlackBox, TLAPS

\* A ring has a slot, and stepping round it stays on it.
LEMMA RingClosed ==
  /\ SLOTS \in Nat \ {0} /\ SECTORS \in Nat \ {0} /\ RECS_PER_SECTOR \in Nat \ {0}
  /\ \A x \in Nat : x % SLOTS \in Slot
  /\ \A x \in Nat : (x % SECTORS) * RECS_PER_SECTOR \in Slot
<1>1. SECTORS \in Nat \ {0} /\ RECS_PER_SECTOR \in Nat \ {0}
  BY RingAssumption
<1>2. SLOTS \in Nat \ {0}
  BY <1>1, SMT DEF SLOTS
<1>3. \A x \in Nat : x % SLOTS \in Slot
  BY <1>2, SMT DEF Slot
<1>4. ASSUME NEW x \in Nat PROVE (x % SECTORS) * RECS_PER_SECTOR \in Slot
  <2>1. x % SECTORS \in 0..SECTORS - 1
    BY <1>1, SMT
  <2>2. \A k \in 0..SECTORS - 1 : k * RECS_PER_SECTOR \in 0..SECTORS * RECS_PER_SECTOR - 1
    <3> SUFFICES ASSUME NEW k \in 0..SECTORS - 1
                 PROVE  k * RECS_PER_SECTOR \in 0..SECTORS * RECS_PER_SECTOR - 1
      OBVIOUS
    <3>1. k * RECS_PER_SECTOR \in Nat
      BY <1>1, SMT
    <3>2. PICK d \in Nat : SECTORS = k + 1 + d
      <4>1. SECTORS - k - 1 \in Nat /\ SECTORS = k + 1 + (SECTORS - k - 1)
        BY <1>1, SMT
      <4> QED BY <4>1
    <3>3. SECTORS * RECS_PER_SECTOR = k * RECS_PER_SECTOR + RECS_PER_SECTOR + d * RECS_PER_SECTOR
      BY <1>1, <3>2, SMT
    <3>4. d * RECS_PER_SECTOR \in Nat
      BY <1>1, <3>2, SMT
    <3> QED BY <1>1, <3>1, <3>3, <3>4, SMT
  <2> QED BY <2>1, <2>2 DEF Slot, SLOTS
<1> QED BY <1>1, <1>2, <1>3, <1>4

\* Wherever the scan ends, the head lands on a slot.
LEMMA LandsOnSlot ==
  ASSUME NEW h \in Slot PROVE Landed(h) \in Slot
<1>1. h \div RECS_PER_SECTOR + 1 \in Nat
  BY RingClosed, SMT DEF Slot
<1>2. ((h \div RECS_PER_SECTOR + 1) % SECTORS) * RECS_PER_SECTOR \in Slot
  BY <1>1, RingClosed
<1> QED BY <1>2 DEF Landed

\* What programming can leave in the head's slot is a cell of the flash.
LEMMA BurntTyped ==
  ASSUME RecorderTypeOK, Writing, NEW r \in Burnt PROVE r \in Rec \cup {Blank, Junk}
<1>1. /\ boot \in Nat /\ boot <= MAX_CRASHES + 1 /\ seq \in 0..MAX_RECORDS
      /\ written + 1 \in 0..MAX_RECORDS /\ MAX_CRASHES \in Nat /\ MAX_RECORDS \in Nat
  BY BoundAssumption, SMT DEF RecorderTypeOK, Writing
<1>2. boot \in 0..HIGH /\ seq + 1 \in 0..MAX_RECORDS + 1
  BY <1>1, SMT DEF HIGH
<1>3. Record \in Rec
  BY <1>1, <1>2 DEF Record, Rec
<1>4. [magic : {"BBX1"}, boot : 0..boot, seq : 0..seq + 1, n : {0}] \subseteq Rec
  <2>1. 0..boot \subseteq 0..HIGH /\ 0..seq + 1 \subseteq 0..MAX_RECORDS + 1
    BY <1>1, <1>2, SMT DEF HIGH
  <2>2. {0} \subseteq 0..MAX_RECORDS
    BY <1>1, SMT
  <2> QED BY <2>1, <2>2 DEF Rec
<1> QED BY <1>3, <1>4 DEF Burnt

\* The counters are bounded by the resets and the writes there have been.
Counted ==
  /\ nvsBoot <= crashes + (IF up THEN 1 ELSE 0)
  /\ seq <= written

IInv == RecorderTypeOK /\ Counted

\* The initial partition and every step keep to the types.
LEMMA InitIInv == RecorderInit => IInv
<1>1. 0 \in Slot
  BY RingClosed, SMT DEF Slot
<1>2. 0 \in 0..MAX_RECORDS /\ 0 \in 0..MAX_CRASHES /\ 0 \in 0..MAX_CRASHES + 1
  BY BoundAssumption, SMT
<1>3. RecorderInit => flash \in [Slot -> Rec \cup {Blank, Junk}]
  BY DEF RecorderInit
<1>4. RecorderInit => RecorderTypeOK
  BY <1>1, <1>2, <1>3 DEF RecorderInit, RecorderTypeOK
<1>5. RecorderInit => Counted
  BY SMT DEF RecorderInit, Counted
<1> QED BY <1>4, <1>5 DEF IInv

\* The scan ends on the ring.
LEMMA ScannedOnRing == Scanned \in Slot
<1>1. 0 \in Slot /\ Slot \subseteq Nat
  BY RingClosed, SMT DEF Slot
<1>2. Best \subseteq Nat
  BY <1>1 DEF Best
<1>3. CASE Best # {}
  <2>1. Latest \in Nat
    BY <1>2, <1>3 DEF Latest
  <2>2. Latest + 1 \in Nat
    BY <2>1, SMT
  <2> QED BY <1>3, <2>2, RingClosed DEF Scanned
<1>4. CASE Best = {}
  BY <1>1, <1>4 DEF Scanned
<1> QED BY <1>3, <1>4

\* A boot: one more than the counter, a head on the ring.
LEMMA BootIInv == IInv /\ BlackboxInit => IInv'
<1> SUFFICES ASSUME IInv, BlackboxInit PROVE IInv'
  OBVIOUS
<1>1. 0 \in Slot /\ Slot \subseteq Nat
  BY RingClosed, SMT DEF Slot
<1>2. PICK odd \in SUBSET (Mishaps \cap {"nvs", "oom"}) :
        /\ nvsBoot' = 1 + (IF "nvs" \in odd THEN 0 ELSE nvsBoot)
        /\ head' = Landed(IF "oom" \in odd THEN 0 ELSE Scanned)
        /\ struck' = struck \cup odd
  BY DEF BlackboxInit
<1>3. nvsBoot' \in Nat /\ nvsBoot' <= crashes + 1 /\ boot' = nvsBoot'
  <2>1. nvsBoot \in Nat /\ crashes \in Nat /\ nvsBoot <= crashes
    BY BoundAssumption, SMT DEF IInv, RecorderTypeOK, Counted, BlackboxInit
  <2>2. nvsBoot' = 1 \/ nvsBoot' = 1 + nvsBoot
    BY <1>2, SMT
  <2>3. nvsBoot' \in Nat /\ nvsBoot' <= crashes + 1
    BY <2>1, <2>2, SMT
  <2> QED BY <2>3 DEF BlackboxInit
<1>4. Scanned \in Slot
  BY ScannedOnRing
<1>5. head' \in Slot /\ struck' \subseteq Mishaps
  <2>1. struck' \subseteq Mishaps
    BY <1>2 DEF IInv, RecorderTypeOK
  <2> QED BY <1>1, <1>2, <1>4, <2>1, LandsOnSlot
<1>6. /\ up' = TRUE /\ seq' = 0 /\ erased' = FALSE
      /\ flash' = flash /\ written' = written /\ crashes' = crashes
  BY DEF BlackboxInit
<1>7. /\ nvsBoot' \in 0..MAX_CRASHES + 1 /\ boot' \in 0..MAX_CRASHES + 1
      /\ nvsBoot' <= crashes' + 1
  BY <1>3, <1>6, BoundAssumption, SMT DEF IInv, RecorderTypeOK
<1>8. seq' \in 0..MAX_RECORDS /\ seq' <= written'
  BY <1>6, BoundAssumption, SMT DEF IInv, RecorderTypeOK
<1> QED BY <1>5, <1>6, <1>7, <1>8 DEF IInv, RecorderTypeOK, Counted

\* A write keeps to the types.
LEMMA WriteIInv == IInv /\ (Erase \/ Program) => IInv'
<1>1. ASSUME IInv, Erase PROVE IInv'
  <2>1. flash' \in [Slot -> Rec \cup {Blank, Junk}]
    BY <1>1 DEF IInv, RecorderTypeOK, Erase
  <2> QED BY <1>1, <2>1 DEF IInv, RecorderTypeOK, Counted, Erase, hist
<1>2. ASSUME IInv, Program PROVE IInv'
  <2>1. PICK r \in Burnt : flash' = [flash EXCEPT ![head] = r]
    BY <1>2 DEF Program
  <2>2. flash' \in [Slot -> Rec \cup {Blank, Junk}]
    BY <1>2, <2>1, BurntTyped DEF IInv, RecorderTypeOK, Program
  <2>3. head' \in Slot
    <3>1. head + 1 \in Nat
      BY <1>2, RingClosed, SMT DEF IInv, RecorderTypeOK, Slot
    <3> QED BY <1>2, <3>1, RingClosed DEF Program
  <2>4. /\ written' \in 0..MAX_RECORDS /\ seq' \in 0..MAX_RECORDS /\ seq' <= written'
    BY <1>2, BoundAssumption, SMT DEF IInv, RecorderTypeOK, Counted, Program, Writing
  <2> QED BY <1>2, <2>2, <2>3, <2>4 DEF IInv, RecorderTypeOK, Counted, Program
<1> QED BY <1>1, <1>2

\* A reset keeps to the types, whatever it does to the flash, if that is typed.
LEMMA ResetIInv ==
  ASSUME IInv, Reset, struck' \subseteq Mishaps,
         flash' \in [Slot -> Rec \cup {Blank, Junk}]
  PROVE  IInv'
<1>1. 0 \in Slot
  BY RingClosed, SMT DEF Slot
<1>2. crashes' \in 0..MAX_CRASHES /\ nvsBoot' <= crashes'
  BY BoundAssumption, SMT DEF IInv, RecorderTypeOK, Counted, Reset
<1>3. 0 \in 0..MAX_RECORDS /\ 0 \in 0..MAX_CRASHES + 1
  BY BoundAssumption, SMT
<1>4. seq' <= written'
  BY SMT DEF IInv, RecorderTypeOK, Reset
<1>5. RecorderTypeOK'
  BY <1>1, <1>2, <1>3 DEF IInv, RecorderTypeOK, Reset
<1>6. Counted'
  BY <1>2, <1>4, SMT DEF IInv, RecorderTypeOK, Counted, Reset
<1> QED BY <1>5, <1>6 DEF IInv

LEMMA NextIInv == IInv /\ [RecorderNext]_recorderVars => IInv'
<1>1. ASSUME IInv, PowerLoss PROVE IInv'
  BY <1>1, ResetIInv DEF PowerLoss, IInv, RecorderTypeOK
<1>2. ASSUME IInv, TornErase PROVE IInv'
  <2>1. flash' \in [Slot -> Rec \cup {Blank, Junk}]
    <3>1. PICK blank \in SUBSET Sector(head) : \E junk \in SUBSET (Sector(head) \ blank) :
            flash' = [s \in Slot |-> IF s \in blank THEN Blank
                                     ELSE IF s \in junk THEN Junk ELSE flash[s]]
      BY <1>2 DEF TornErase
    <3>2. PICK junk \in SUBSET (Sector(head) \ blank) :
            flash' = [s \in Slot |-> IF s \in blank THEN Blank
                                     ELSE IF s \in junk THEN Junk ELSE flash[s]]
      BY <3>1
    <3> QED BY <1>2, <3>2 DEF IInv, RecorderTypeOK
  <2> QED BY <1>2, <2>1, ResetIInv DEF TornErase, IInv, RecorderTypeOK
<1>3. ASSUME IInv, TornWrite PROVE IInv'
  <2>1. Stuck \in Rec
    BY BoundAssumption, SMT DEF Rec, HIGH, Stuck
  <2>2. flash' \in [Slot -> Rec \cup {Blank, Junk}]
    <3>1. PICK odd \in SUBSET (Mishaps \cap {"stuck"}) :
            flash' = [flash EXCEPT ![head] = IF odd = {} THEN Junk ELSE Stuck]
      BY <1>3 DEF TornWrite
    <3>2. (IF odd = {} THEN Junk ELSE Stuck) \in Rec \cup {Blank, Junk}
      BY <2>1
    <3> QED BY <1>3, <3>1, <3>2 DEF IInv, RecorderTypeOK
  <2>3. struck' \subseteq Mishaps
    <3>1. PICK odd \in SUBSET (Mishaps \cap {"stuck"}) : struck' = struck \cup odd
      BY <1>3 DEF TornWrite
    <3> QED BY <1>3, <3>1 DEF IInv, RecorderTypeOK
  <2> QED BY <1>3, <2>2, <2>3, ResetIInv DEF TornWrite
<1>4. ASSUME IInv, UNCHANGED recorderVars PROVE IInv'
  BY <1>4 DEF IInv, RecorderTypeOK, Counted, recorderVars, hist
<1> QED BY <1>1, <1>2, <1>3, <1>4, BootIInv, WriteIInv DEF RecorderNext

\* The recorder keeps to its types on a partition of any size, whatever the
\* mishaps: in particular its head never leaves the ring (blackbox.c 81-89,
\* 180-193).
THEOREM Typed == RecorderSpec => []RecorderTypeOK
<1>1. IInv => RecorderTypeOK
  BY DEF IInv
<1> QED BY <1>1, InitIInv, NextIInv, PTL DEF RecorderSpec

----------------------------------------------------------------------------
(* The arithmetic of the ring: a slot is a sector and an offset in it *)

R      == RECS_PER_SECTOR
Sec(s) == s \div R
Off(s) == s % R

\* The first slot past the sector of s, on the line.
End(s) == s - Off(s) + R

\* The slot before h, and the slots behind h, on the ring.
Behind(h) == IF h = 0 THEN SLOTS - 1 ELSE h - 1
Back(h, s) == IF s < h THEN h - 1 - s ELSE h - 1 - s + SLOTS

\* How many sectors the one of s is behind the one that was last written.
SecBack(h, s) ==
  LET d == Sec(Behind(h)) - Sec(s) IN IF d >= 0 THEN d ELSE d + SECTORS

\* A multiple of r as small as a remainder is nought.
LEMMA SmallMultiple ==
  ASSUME NEW r \in Nat \ {0}, NEW d \in Int, NEW e \in Int, r * d = e, e < r, e > -r
  PROVE  d = 0
<1>1. CASE d >= 1
  <2>1. r * d = r + r * (d - 1) BY SMT
  <2>2. r * (d - 1) >= 0 BY <1>1, SMT
  <2> QED BY <2>1, <2>2, SMT
<1>2. CASE d <= -1
  <2>1. r * d = r * (d + 1) - r BY SMT
  <2>2. r * (d + 1) <= 0 BY <1>2, SMT
  <2> QED BY <2>1, <2>2, SMT
<1> QED BY <1>1, <1>2, SMT

\* Division with remainder has one answer.
LEMMA OneQuotient ==
  ASSUME NEW r \in Nat \ {0}, NEW q \in Int, NEW o \in 0..r - 1
  PROVE  (r * q + o) \div r = q /\ (r * q + o) % r = o
<1> DEFINE x == r * q + o
           d == x \div r
           m == x % r
<1>1. x \in Int BY SMT
<1>2. x = r * d + m /\ d \in Int /\ m \in 0..r - 1
  BY <1>1, SMT
<1>3. x = r * q + o OBVIOUS
<1> HIDE DEF x, d, m
<1>4. r * (q - d) = m - o
  <2>1. r * (q - d) = r * q - r * d BY <1>2, SMT
  <2>2. r * q \in Int /\ r * d \in Int BY <1>2, SMT
  <2> QED BY <1>2, <1>3, <2>1, <2>2, SMT
<1>5. q - d = 0
  <2>1. m - o \in Int /\ m - o < r /\ m - o > -r /\ q - d \in Int
    BY <1>2, SMT
  <2> QED BY <1>4, <2>1, SmallMultiple
<1>6. d = q BY <1>2, <1>5, SMT
<1>7. m = o
  <2>1. r * 0 = 0 BY SMT
  <2> QED BY <1>2, <1>4, <1>5, <2>1, SMT
<1> QED BY <1>6, <1>7 DEF x, d, m

LEMMA Sizes ==
  /\ R \in Nat \ {0} /\ SECTORS \in Nat \ {0} /\ SLOTS \in Nat \ {0} /\ SLOTS = R * SECTORS
  /\ Slot = 0..SLOTS - 1
BY RingClosed, SMT DEF R, SLOTS, Slot

LEMMA Split ==
  ASSUME NEW s \in Slot
  PROVE  /\ Sec(s) \in 0..SECTORS - 1 /\ Off(s) \in 0..R - 1 /\ s = R * Sec(s) + Off(s)
         /\ End(s) \in 1..SLOTS /\ End(s) = R * (Sec(s) + 1)
         /\ End(s) = SLOTS <=> Sec(s) = SECTORS - 1
<1>1. s \in Int /\ s = R * Sec(s) + Off(s) /\ Sec(s) \in Int /\ Off(s) \in 0..R - 1
  BY Sizes, SMT DEF Sec, Off
<1>2. Sec(s) >= 0
  <2> SUFFICES ASSUME Sec(s) <= -1 PROVE FALSE
    BY <1>1, SMT
  <2>1. R * Sec(s) = R * (Sec(s) + 1) - R BY <1>1, Sizes, SMT
  <2>2. R * (Sec(s) + 1) <= 0 BY <1>1, Sizes, SMT
  <2> QED BY <1>1, <2>1, <2>2, Sizes, SMT
<1>3. R * (Sec(s) + 1) = R * Sec(s) + R
  BY <1>1, Sizes, SMT
<1>4. Sec(s) <= SECTORS - 1
  <2> SUFFICES ASSUME Sec(s) >= SECTORS PROVE FALSE
    BY <1>1, Sizes, SMT
  <2>1. R * Sec(s) = R * SECTORS + R * (Sec(s) - SECTORS) BY <1>1, Sizes, SMT
  <2>2. R * (Sec(s) - SECTORS) >= 0 BY <1>1, Sizes, SMT
  <2> QED BY <1>1, <2>1, <2>2, Sizes, SMT
<1>5. R * SECTORS = R * (Sec(s) + 1) + R * (SECTORS - 1 - Sec(s))
  BY <1>1, Sizes, SMT
<1>6. R * (SECTORS - 1 - Sec(s)) >= 0
  BY <1>1, <1>4, Sizes, SMT
<1>7. R * (SECTORS - 1 - Sec(s)) = 0 <=> Sec(s) = SECTORS - 1
  <2>1. ASSUME R * (SECTORS - 1 - Sec(s)) = 0 PROVE SECTORS - 1 - Sec(s) = 0
    <3>1. SECTORS - 1 - Sec(s) \in Int BY <1>1, Sizes, SMT
    <3> QED BY <2>1, <3>1, Sizes, SmallMultiple, SMT
  <2>2. ASSUME Sec(s) = SECTORS - 1 PROVE SECTORS - 1 - Sec(s) = 0
    BY <2>2, Sizes, SMT
  <2>3. R * 0 = 0 BY Sizes, SMT
  <2> QED BY <1>1, <2>1, <2>2, <2>3, Sizes, SMT
<1>8. End(s) = R * (Sec(s) + 1)
  BY <1>1, <1>3, Sizes, SMT DEF End
<1>9. R * Sec(s) \in Nat /\ R * (SECTORS - 1 - Sec(s)) \in Nat
  BY <1>1, <1>2, <1>6, Sizes, SMT
<1>10. End(s) \in 1..SLOTS
  BY <1>1, <1>3, <1>5, <1>8, <1>9, Sizes, SMT
<1>11. End(s) = SLOTS <=> Sec(s) = SECTORS - 1
  BY <1>1, <1>5, <1>7, <1>8, <1>9, <1>10, Sizes, SMT
<1> QED BY <1>1, <1>2, <1>4, <1>8, <1>10, <1>11, Sizes, SMT

\* The slots from the start of a sector to its end are those of that sector.
LEMMA SameSector ==
  ASSUME NEW s \in Slot, NEW t \in Slot
  PROVE  /\ Sec(t) = Sec(s) <=> t >= s - Off(s) /\ t < End(s)
         /\ Sec(t) = Sec(s) => Off(t) - Off(s) = t - s
<1>1. /\ Sec(s) \in 0..SECTORS - 1 /\ Off(s) \in 0..R - 1 /\ s = R * Sec(s) + Off(s)
      /\ Sec(t) \in 0..SECTORS - 1 /\ Off(t) \in 0..R - 1 /\ t = R * Sec(t) + Off(t)
  BY Split
<1>2. ASSUME Sec(t) = Sec(s)
      PROVE  t >= s - Off(s) /\ t < End(s) /\ Off(t) - Off(s) = t - s
  <2>1. R * Sec(s) \in Int BY <1>1, Sizes, SMT
  <2> QED BY <1>1, <1>2, <2>1, Sizes, SMT DEF End
<1>3. ASSUME t >= s - Off(s), t < End(s) PROVE Sec(t) = Sec(s)
  <2>1. t - (s - Off(s)) \in 0..R - 1
    BY <1>1, <1>3, Sizes, SMT DEF End, Slot
  <2>2. R * Sec(s) \in Int BY <1>1, Sizes, SMT
  <2>3. t = R * Sec(s) + (t - (s - Off(s)))
    BY <1>1, <2>2, Sizes, SMT
  <2>4. (R * Sec(s) + (t - (s - Off(s)))) \div R = Sec(s)
    <3>1. Sec(s) \in Int BY <1>1, SMT
    <3> QED BY <2>1, <3>1, Sizes, OneQuotient
  <2> QED BY <2>3, <2>4 DEF Sec
<1> QED BY <1>2, <1>3

\* A step along the ring: into the next slot of the sector, or, from its last
\* slot, to the start of the next sector.
LEMMA OneOn ==
  ASSUME NEW s \in Slot
  PROVE  LET n == (s + 1) % SLOTS
         IN  /\ n \in Slot /\ n = (IF s + 1 = SLOTS THEN 0 ELSE s + 1) /\ Behind(n) = s
             /\ Off(n) = 0 <=> s + 1 = End(s)
             /\ Off(n) # 0 => n = s + 1 /\ Sec(n) = Sec(s) /\ End(n) = End(s)
<1> DEFINE n == (s + 1) % SLOTS
<1>1. s + 1 = SLOTS => n = 0
  <2>1. SLOTS % SLOTS = 0 BY Sizes, SMT
  <2> QED BY <2>1
<1>2. s + 1 # SLOTS => n = s + 1
  BY Sizes, SMT
<1>3. n \in Slot /\ n = (IF s + 1 = SLOTS THEN 0 ELSE s + 1)
  BY <1>1, <1>2, Sizes, SMT
<1> HIDE DEF n
<1>10. /\ Off(s) \in 0..R - 1 /\ Sec(s) \in 0..SECTORS - 1
      /\ End(s) \in 1..SLOTS /\ End(s) = R * (Sec(s) + 1)
  BY Split
<1>11. End(s) = s - Off(s) + R
  BY DEF End
<1>12. R \in Nat \ {0} /\ SLOTS \in Nat /\ s \in 0..SLOTS - 1
  BY Sizes
<1>13. Off(s) \in 0..R - 1 /\ End(s) \in 1..SLOTS
  BY <1>10
<1>4. Behind(n) = s
  BY <1>3, Sizes, SMT DEF Behind
<1>5. Off(0) = 0
  BY Sizes, SMT DEF Off
<1>6. CASE s + 1 = SLOTS
  <2>1. End(s) = SLOTS
    BY <1>6, <1>11, <1>12, <1>13, SMT
  <2> QED BY <1>3, <1>4, <1>5, <1>6, <2>1 DEF n
<1>7. CASE s + 1 # SLOTS /\ s + 1 < End(s)
  <2>1. n = s + 1 BY <1>3, <1>7
  <2>2. n >= s - Off(s) /\ n < End(s)
    BY <1>7, <1>10, <1>11, <2>1, Sizes, SMT
  <2>3. Sec(n) = Sec(s) /\ Off(n) - Off(s) = n - s
    BY <1>3, <2>2, SameSector
  <2>4. Off(n) = Off(s) + 1 /\ End(n) = End(s) /\ s + 1 # End(s) /\ Off(n) # 0
    <3>1. Off(n) = Off(s) + 1
      <4>1. Off(n) \in 0..R - 1 BY <1>3, Split
      <4> QED BY <1>12, <1>13, <2>1, <2>3, <4>1, SMT
    <3>2. End(n) = End(s)
      BY <1>11, <1>12, <1>13, <2>1, <3>1, SMT DEF End
    <3> QED BY <1>7, <1>12, <1>13, <3>1, <3>2, SMT
  <2> QED BY <1>3, <1>4, <2>1, <2>3, <2>4 DEF n
<1>8. CASE s + 1 # SLOTS /\ s + 1 >= End(s)
  <2>1. s + 1 = End(s) /\ Sec(s) + 1 \in Int
    BY <1>8, <1>10, <1>11, Sizes, SMT
  <2>2. End(s) = R * (Sec(s) + 1) + 0
    BY <1>10, <2>1, Sizes, SMT
  <2>3. (R * (Sec(s) + 1) + 0) % R = 0
    <3>1. 0 \in 0..R - 1 BY Sizes, SMT
    <3> QED BY <2>1, <3>1, Sizes, OneQuotient
  <2>4. Off(n) = 0
    <3>1. n = R * (Sec(s) + 1) + 0 BY <1>3, <1>8, <2>1, <2>2
    <3> QED BY <2>3, <3>1 DEF Off
  <2> QED BY <1>3, <1>4, <2>1, <2>4 DEF n
<1>9. s + 1 \in Int /\ End(s) \in Int
  BY <1>10, Sizes, SMT
<1> QED BY <1>6, <1>7, <1>8, <1>9, SMT

\* The landing rule steps over what is left of a sector, to where it ends.
LEMMA SteppedOver ==
  ASSUME NEW h \in Slot
  PROVE  LET n == ((h \div R + 1) % SECTORS) * R
         IN  /\ n \in Slot /\ n = (IF End(h) = SLOTS THEN 0 ELSE End(h))
             /\ Off(n) = 0 /\ Behind(n) = End(h) - 1
<1> DEFINE n == ((h \div R + 1) % SECTORS) * R
<1>1. /\ Sec(h) \in 0..SECTORS - 1 /\ End(h) \in 1..SLOTS /\ End(h) = R * (Sec(h) + 1)
      /\ End(h) = SLOTS <=> Sec(h) = SECTORS - 1
  BY Split
<1>2. n = (IF End(h) = SLOTS THEN 0 ELSE End(h))
  <2>1. CASE Sec(h) = SECTORS - 1
    <3>1. Sec(h) + 1 = SECTORS BY <1>1, <2>1, Sizes, SMT
    <3>2. SECTORS % SECTORS = 0 /\ 0 * R = 0 BY Sizes, SMT
    <3> QED BY <1>1, <2>1, <3>1, <3>2 DEF Sec
  <2>2. CASE Sec(h) # SECTORS - 1
    <3>1. (Sec(h) + 1) % SECTORS = Sec(h) + 1 BY <1>1, <2>2, Sizes, SMT
    <3>2. (Sec(h) + 1) * R = R * (Sec(h) + 1) BY <1>1, Sizes, SMT
    <3> QED BY <1>1, <2>2, <3>1, <3>2 DEF Sec
  <2> QED BY <2>1, <2>2
<1>3. n \in Slot
  BY <1>1, <1>2, Sizes, SMT
<1>4. Off(n) = 0
  <2>1. CASE End(h) = SLOTS
    <3>1. 0 % R = 0 BY Sizes, SMT
    <3> QED BY <1>2, <2>1, <3>1 DEF Off
  <2>2. CASE End(h) # SLOTS
    <3>1. Sec(h) + 1 \in Int /\ 0 \in 0..R - 1 BY <1>1, Sizes, SMT
    <3>2. (R * (Sec(h) + 1) + 0) % R = 0 BY <3>1, Sizes, OneQuotient
    <3>3. n = R * (Sec(h) + 1) + 0 BY <1>1, <1>2, <2>2, <3>1, Sizes, SMT
    <3> QED BY <3>2, <3>3 DEF Off
  <2> QED BY <2>1, <2>2
<1>5. Behind(n) = End(h) - 1
  <2> HIDE DEF n
  <2> QED BY <1>1, <1>2, Sizes, SMT DEF Behind
<1> QED BY <1>2, <1>3, <1>4, <1>5

\* The sector before the one that starts at h.
LEMMA SectorBefore ==
  ASSUME NEW h \in Slot, Off(h) = 0
  PROVE  /\ Behind(h) \in Slot
         /\ Sec(Behind(h)) = IF Sec(h) = 0 THEN SECTORS - 1 ELSE Sec(h) - 1
<1>1. /\ Sec(h) \in 0..SECTORS - 1 /\ h = R * Sec(h) /\ End(h) = h + R
  <2>1. h = R * Sec(h) + 0 /\ Sec(h) \in 0..SECTORS - 1 BY Split
  <2>2. R * Sec(h) \in Int BY <2>1, Sizes, SMT
  <2> QED BY <2>1, <2>2, Sizes, SMT DEF End
<1>2. Behind(h) \in Slot
  BY <1>1, Sizes, SMT DEF Behind
<1>3. CASE h = 0
  <2>1. Sec(h) = 0
    <3>1. 0 \in 0..R - 1 /\ R * 0 + 0 = 0 BY Sizes, SMT
    <3>2. (R * 0 + 0) \div R = 0 BY <3>1, Sizes, OneQuotient
    <3> QED BY <1>3, <3>1, <3>2 DEF Sec
  <2>2. Behind(h) = R * (SECTORS - 1) + (R - 1)
    <3>1. R * SECTORS = R * (SECTORS - 1) + R BY Sizes, SMT
    <3>2. R * (SECTORS - 1) \in Int BY Sizes, SMT
    <3> QED BY <1>3, <3>1, <3>2, Sizes, SMT DEF Behind
  <2>3. (R * (SECTORS - 1) + (R - 1)) \div R = SECTORS - 1
    <3>1. SECTORS - 1 \in Int /\ R - 1 \in 0..R - 1 BY Sizes, SMT
    <3>2. \A q \in Int, o \in 0..R - 1 : (R * q + o) \div R = q BY Sizes, OneQuotient
    <3> QED BY <3>1, <3>2, Zenon
  <2> QED BY <1>2, <2>1, <2>2, <2>3 DEF Sec
<1>4. CASE h # 0
  <2>1. Sec(h) # 0
    <3>1. R * 0 = 0 BY Sizes, SMT
    <3> QED BY <1>1, <1>4, <3>1
  <2>2. Behind(h) = R * (Sec(h) - 1) + (R - 1)
    <3>1. R * Sec(h) = R * (Sec(h) - 1) + R BY <1>1, Sizes, SMT
    <3>2. R * (Sec(h) - 1) \in Int BY <1>1, Sizes, SMT
    <3> QED BY <1>1, <1>4, <3>1, <3>2, Sizes, SMT DEF Behind
  <2>3. (R * (Sec(h) - 1) + (R - 1)) \div R = Sec(h) - 1
    <3>1. Sec(h) - 1 \in Int /\ R - 1 \in 0..R - 1 BY <1>1, Sizes, SMT
    <3>2. \A q \in Int, o \in 0..R - 1 : (R * q + o) \div R = q BY Sizes, OneQuotient
    <3> QED BY <3>1, <3>2, Zenon
  <2> QED BY <1>2, <2>1, <2>2, <2>3 DEF Sec
<1> QED BY <1>3, <1>4

\* Within a sector the slot before is of the same sector.
LEMMA BehindInside ==
  ASSUME NEW h \in Slot, Off(h) # 0
  PROVE  Behind(h) = h - 1 /\ h - 1 \in Slot /\ Sec(h - 1) = Sec(h)
<1>1. Off(h) \in 0..R - 1 /\ End(h) \in Int /\ h - Off(h) \in Nat
  <2>1. Sec(h) \in 0..SECTORS - 1 /\ h = R * Sec(h) + Off(h) /\ Off(h) \in 0..R - 1 BY Split
  <2>2. R * Sec(h) \in Nat BY <2>1, Sizes, SMT
  <2> QED BY <2>1, <2>2, Split, Sizes, SMT
<1>2. h - 1 \in Slot /\ h - 1 >= h - Off(h) /\ h - 1 < End(h)
  BY <1>1, Sizes, SMT DEF End
<1>3. Sec(h - 1) = Sec(h)
  BY <1>2, SameSector
<1> QED BY <1>2, <1>3, Sizes, SMT DEF Behind

----------------------------------------------------------------------------
(* The ring: where the scan leaves the head, and what lies behind it *)

\* Where a boot would put the head.
Found == Landed(Scanned)

\* The record that the scan must find.
Wins(l) ==
  /\ Magic(l) /\ ~Beats(flash[l], flash[l])
  /\ \A t \in Slot : Magic(t) /\ t # l => Beats(flash[l], flash[t]) /\ ~Beats(flash[t], flash[l])

Newest(l) == Magic(l) /\ \A t \in Slot : Magic(t) /\ t # l => flash[t].n < flash[l].n

\* No record's boot is later than the counter's, none of this boot has a later
\* number in it, and the scan's order is that of the writing.
Ordered ==
  "nvs" \notin struck =>
    /\ up => boot = nvsBoot
    /\ \A s \in Slot :
         Magic(s) /\ flash[s].n > 0 =>
           /\ flash[s].n <= written /\ flash[s].boot <= nvsBoot
           /\ up /\ flash[s].boot = boot => flash[s].seq <= seq
    /\ TotalOrder

\* Each record is one that was written, and one of them is the newest.
Whole == \A s \in Slot : Magic(s) => flash[s].n \in 1..written
Tip   == (\A s \in Slot : ~Magic(s)) \/ \E l \in Slot : Newest(l)

\* The rest of the sector under the head is blank, and all of it once erased.
Fresh   == Off(Found) # 0 => \A s \in Slot : Sec(s) = Sec(Found) /\ s >= Found => flash[s] = Blank
Cleared == erased => up /\ Entering /\ \A s \in Sector(head) : flash[s] = Blank

\* A record has been followed by at least one in each sector since its own, and
\* by one in each slot since but those that a landing stepped over.
OldBySector == \A s \in Slot : Magic(s) => written - flash[s].n >= SecBack(Found, s)
OldBySlot ==
  \A s \in Slot : Magic(s) => written - flash[s].n + crashes * (R - 1) >= Back(Found, s)

\* The slot k behind h, and the read-back from there.
NthBack(h, k) == (h + SLOTS - k) % SLOTS
ReadsBack(h) ==
  \A k \in 1..SLOTS : (\A j \in 1..k : Magic(NthBack(h, j))) => flash[NthBack(h, k)].n = written + 1 - k

RingInv ==
  struck = {} =>
    /\ up => head = Found
    /\ Whole /\ Tip /\ Fresh /\ Cleared
    /\ OldBySector /\ OldBySlot /\ ReadsBack(Found)

FullInv == IInv /\ Ordered /\ RingInv

LEMMA ScanFinds == \A l \in Slot : Wins(l) => Scanned = (l + 1) % SLOTS
<1> SUFFICES ASSUME NEW l \in Slot, Wins(l) PROVE Scanned = (l + 1) % SLOTS
  OBVIOUS
<1>1. l \in Best
  <2>1. \A t \in Slot : t < l => t # l
    BY Sizes, SMT
  <2> QED BY <2>1, Zenon DEF Wins, Best
<1>2. \A s \in Best : s = l
  BY DEF Wins, Best
<1>3. Latest = l /\ Best # {}
  BY <1>1, <1>2 DEF Latest
<1> QED BY <1>3 DEF Scanned

LEMMA ScanEmpty == (\A s \in Slot : ~Magic(s)) => Scanned = 0
BY DEF Scanned, Best

\* While records are in order the newest is the one the scan finds.
LEMMA NewestWins ==
  \A l \in Slot :
    RecorderTypeOK /\ Ordered /\ struck = {} /\ Whole /\ Newest(l) => Wins(l)
<1> SUFFICES ASSUME NEW l \in Slot, RecorderTypeOK, Ordered, struck = {}, Whole, Newest(l)
             PROVE  Wins(l)
  OBVIOUS
<1>1. \A s \in Slot : Magic(s) => flash[s].boot \in Int /\ flash[s].seq \in Int /\ flash[s].n \in Int
  <2> SUFFICES ASSUME NEW s \in Slot, Magic(s)
               PROVE  flash[s].boot \in Int /\ flash[s].seq \in Int /\ flash[s].n \in Int
    OBVIOUS
  <2>1. flash[s] \in Rec
    BY DEF RecorderTypeOK, Magic, Blank, Junk
  <2> QED BY <2>1, BoundAssumption, SMT DEF Rec, HIGH
<1>2. \A t \in Slot : Magic(t) /\ t # l => Beats(flash[l], flash[t])
  <2> SUFFICES ASSUME NEW t \in Slot, Magic(t), t # l PROVE Beats(flash[l], flash[t])
    OBVIOUS
  <2>1. flash[t].n < flash[l].n /\ 0 < flash[t].n /\ Magic(l)
    BY <1>1, SMT DEF Newest, Whole
  <2> QED BY <2>1 DEF Ordered, TotalOrder
<1>3. \A t \in Slot : Magic(t) /\ t # l => ~Beats(flash[t], flash[l])
  <2> SUFFICES ASSUME NEW t \in Slot, Magic(t), t # l PROVE ~Beats(flash[t], flash[l])
    OBVIOUS
  <2>1. Beats(flash[l], flash[t]) BY <1>2
  <2> QED BY <1>1, <2>1, SMT DEF Newest, Beats
<1>4. ~Beats(flash[l], flash[l])
  BY <1>1, SMT DEF Newest, Beats
<1> QED BY <1>2, <1>3, <1>4 DEF Wins, Newest

LEMMA NewestWinsThen ==
  (\A l \in Slot :
     RecorderTypeOK /\ Ordered /\ struck = {} /\ Whole /\ Newest(l) => Wins(l))'
BY NewestWins, PTL

LEMMA ScanFindsThen == (\A l \in Slot : Wins(l) => Scanned = (l + 1) % SLOTS)'
BY ScanFinds, PTL

\* A step on moves each slot behind it one slot and at most one sector back.
LEMMA BackOn ==
  ASSUME NEW h \in Slot, NEW s \in Slot, s # h
  PROVE  LET n == (h + 1) % SLOTS
         IN  /\ Back(n, s) = Back(h, s) + 1
             /\ Off(h) # 0 \/ Sec(s) # Sec(h) => SecBack(n, s) <= SecBack(h, s) + 1
<1> DEFINE n == (h + 1) % SLOTS
<1>1. n \in Slot /\ n = (IF h + 1 = SLOTS THEN 0 ELSE h + 1) /\ Behind(n) = h
  BY OneOn
<1>2. SLOTS \in Nat \ {0} /\ h \in 0..SLOTS - 1 /\ s \in 0..SLOTS - 1 /\ SECTORS \in Nat \ {0}
  BY Sizes
<1>3. Sec(h) \in 0..SECTORS - 1 /\ Sec(s) \in 0..SECTORS - 1
  BY Split
<1> HIDE DEF n
<1>4. Back(n, s) = Back(h, s) + 1
  BY <1>1, <1>2, SMT DEF Back
<1>5. ASSUME Off(h) # 0 PROVE SecBack(n, s) = SecBack(h, s)
  <2>1. Sec(Behind(h)) = Sec(h) BY <1>5, BehindInside
  <2> QED BY <1>1, <2>1 DEF SecBack
<1>6. ASSUME Off(h) = 0, Sec(s) # Sec(h) PROVE SecBack(n, s) = SecBack(h, s) + 1
  <2>1. Sec(Behind(h)) = IF Sec(h) = 0 THEN SECTORS - 1 ELSE Sec(h) - 1
    BY <1>6, SectorBefore
  <2> QED BY <1>1, <1>2, <1>3, <1>6, <2>1, SMT DEF SecBack
<1>7. SecBack(h, s) \in Int
  <2>1. Behind(h) \in Slot BY <1>2, Sizes, SMT DEF Behind
  <2>2. Sec(Behind(h)) \in 0..SECTORS - 1 BY <2>1, Split
  <2> QED BY <1>2, <1>3, <2>2, SMT DEF SecBack
<1> QED BY <1>4, <1>5, <1>6, <1>7, SMT DEF n

\* The slot just written is right behind the head.
LEMMA BackHere ==
  ASSUME NEW h \in Slot
  PROVE  Back((h + 1) % SLOTS, h) = 0 /\ SecBack((h + 1) % SLOTS, h) = 0
<1> DEFINE n == (h + 1) % SLOTS
<1>1. n \in Slot /\ n = (IF h + 1 = SLOTS THEN 0 ELSE h + 1) /\ Behind(n) = h
  BY OneOn
<1>2. SLOTS \in Nat \ {0} /\ h \in 0..SLOTS - 1 /\ Sec(h) \in 0..SECTORS - 1
  BY Sizes, Split
<1> HIDE DEF n
<1>3. Back(n, h) = 0
  BY <1>1, <1>2, SMT DEF Back
<1>4. SecBack(n, h) = 0
  BY <1>1, <1>2, Sizes, SMT DEF SecBack
<1> QED BY <1>3, <1>4 DEF n

\* A landing moves each slot but those it steps over by what it steps over, and
\* none by a sector.
LEMMA BackOver ==
  ASSUME NEW h \in Slot, NEW s \in Slot, Off(h) # 0, s < h \/ Sec(s) # Sec(h)
  PROVE  LET n == ((h \div R + 1) % SECTORS) * R
         IN  Back(n, s) <= Back(h, s) + (R - 1) /\ SecBack(n, s) = SecBack(h, s)
<1> DEFINE n == ((h \div R + 1) % SECTORS) * R
<1>1. n \in Slot /\ n = (IF End(h) = SLOTS THEN 0 ELSE End(h)) /\ Behind(n) = End(h) - 1
  BY SteppedOver
<1>2. SLOTS \in Nat \ {0} /\ h \in 0..SLOTS - 1 /\ s \in 0..SLOTS - 1 /\ R \in Nat \ {0}
  BY Sizes
<1>3. Off(h) \in 1..R - 1 /\ End(h) \in 1..SLOTS /\ End(h) = h - Off(h) + R
  BY <1>2, Split, SMT DEF End
<1>4. s < h \/ s >= End(h)
  <2>1. Sec(s) = Sec(h) <=> s >= h - Off(h) /\ s < End(h) BY SameSector
  <2> QED BY <1>2, <1>3, <2>1, SMT
<1>5. Sec(End(h) - 1) = Sec(h)
  <2>1. End(h) - 1 \in Slot BY <1>3, Sizes, SMT
  <2>2. Sec(End(h) - 1) = Sec(h) <=> End(h) - 1 >= h - Off(h) /\ End(h) - 1 < End(h)
    BY <2>1, SameSector
  <2> QED BY <1>2, <1>3, <2>2, SMT
<1>6. Behind(h) = h - 1 /\ Sec(h - 1) = Sec(h)
  BY BehindInside
<1> HIDE DEF n
<1>7. Back(n, s) <= Back(h, s) + (R - 1)
  BY <1>1, <1>2, <1>3, <1>4, SMT DEF Back
<1>8. SecBack(n, s) = SecBack(h, s)
  BY <1>1, <1>5, <1>6 DEF SecBack
<1> QED BY <1>7, <1>8 DEF n

\* What stands in a sector that the head enters is the oldest there is.
LEMMA BackOldest ==
  ASSUME NEW h \in Slot, NEW s \in Slot, Off(h) = 0, Sec(s) = Sec(h)
  PROVE  SecBack(h, s) = SECTORS - 1 /\ Back(h, s) >= (SECTORS - 1) * R
<1>1. SLOTS \in Nat \ {0} /\ h \in 0..SLOTS - 1 /\ s \in 0..SLOTS - 1 /\ R \in Nat \ {0} /\ SECTORS \in Nat \ {0}
  BY Sizes
<1>2. Sec(h) \in 0..SECTORS - 1 /\ s >= h /\ s < h + R
  <2>1. Sec(s) = Sec(h) <=> s >= h - Off(h) /\ s < End(h) BY SameSector
  <2>2. End(h) = h + R BY <1>1, SMT DEF End
  <2> QED BY <1>1, <2>1, <2>2, Split, SMT
<1>3. (SECTORS - 1) * R = SLOTS - R
  <2>1. (SECTORS - 1) * R = SECTORS * R - R BY <1>1, SMT
  <2> QED BY <1>1, <2>1, SMT DEF SLOTS, R
<1>4. Back(h, s) >= (SECTORS - 1) * R
  BY <1>1, <1>2, <1>3, SMT DEF Back
<1>5. Sec(Behind(h)) = IF Sec(h) = 0 THEN SECTORS - 1 ELSE Sec(h) - 1
  BY SectorBefore
<1> QED BY <1>1, <1>2, <1>4, <1>5, SMT DEF SecBack

\* Counting back from a slot.
LEMMA AtSlot ==
  ASSUME NEW h \in Slot, NEW k \in 1..SLOTS
  PROVE  NthBack(h, k) \in Slot /\ NthBack(h, k) = (IF k <= h THEN h - k ELSE h + SLOTS - k)
<1>1. SLOTS \in Nat \ {0} /\ h \in 0..SLOTS - 1
  BY Sizes
<1>2. CASE k <= h
  <2>1. h + SLOTS - k = SLOTS * 1 + (h - k) /\ h - k \in 0..SLOTS - 1 BY <1>1, <1>2, SMT
  <2>2. (SLOTS * 1 + (h - k)) % SLOTS = h - k BY <1>1, <2>1, OneQuotient
  <2> QED BY <1>2, <2>1, <2>2, Sizes DEF NthBack
<1>3. CASE k > h
  <2>1. h + SLOTS - k \in 0..SLOTS - 1 /\ h + SLOTS - k = SLOTS * 0 + (h + SLOTS - k) BY <1>1, <1>3, SMT
  <2>2. (SLOTS * 0 + (h + SLOTS - k)) % SLOTS = h + SLOTS - k BY <1>1, <2>1, OneQuotient
  <2> QED BY <1>1, <1>3, <2>1, <2>2, Sizes, SMT DEF NthBack
<1> QED BY <1>1, <1>2, <1>3, SMT

\* Seen from one slot on, everything is one further back.
LEMMA AtOn ==
  ASSUME NEW h \in Slot
  PROVE  LET n == (h + 1) % SLOTS
         IN  NthBack(n, 1) = h /\ \A k \in 2..SLOTS : NthBack(n, k) = NthBack(h, k - 1) /\ NthBack(n, k) # h
<1> DEFINE n == (h + 1) % SLOTS
<1>1. n \in Slot /\ n = (IF h + 1 = SLOTS THEN 0 ELSE h + 1)
  BY OneOn
<1>2. SLOTS \in Nat \ {0} /\ h \in 0..SLOTS - 1
  BY Sizes
<1> HIDE DEF n
<1>3. NthBack(n, 1) = h
  <2>1. 1 \in 1..SLOTS BY <1>2, SMT
  <2>2. NthBack(n, 1) = (IF 1 <= n THEN n - 1 ELSE n + SLOTS - 1) BY <1>1, <2>1, AtSlot
  <2> QED BY <1>1, <1>2, <2>2, SMT
<1>4. ASSUME NEW k \in 2..SLOTS PROVE NthBack(n, k) = NthBack(h, k - 1) /\ NthBack(n, k) # h
  <2>1. k \in 1..SLOTS /\ k - 1 \in 1..SLOTS BY <1>2, SMT
  <2>2. /\ NthBack(n, k) = (IF k <= n THEN n - k ELSE n + SLOTS - k)
        /\ NthBack(h, k - 1) = (IF k - 1 <= h THEN h - (k - 1) ELSE h + SLOTS - (k - 1))
    BY <1>1, <2>1, AtSlot
  <2> QED BY <1>1, <1>2, <2>2, SMT
<1> QED BY <1>3, <1>4 DEF n

LEMMA FoundOnRing == Found \in Slot
BY ScannedOnRing, LandsOnSlot DEF Found

----------------------------------------------------------------------------
(* The order of the records *)

LEMMA RecTyped ==
  ASSUME RecorderTypeOK, NEW s \in Slot, Magic(s)
  PROVE  flash[s].boot \in Nat /\ flash[s].seq \in Nat /\ flash[s].n \in Nat
<1>1. flash[s] \in Rec
  BY DEF RecorderTypeOK, Magic, Blank, Junk
<1> QED BY <1>1, BoundAssumption, SMT DEF Rec, HIGH

\* What is not a record that somebody wrote does not disturb the order.
LEMMA OrderedLess ==
  ASSUME IInv, Ordered, struck \subseteq struck',
         \A s \in Slot : Magic(s)' => flash'[s] = flash[s] \/ flash'[s].n = 0,
         nvsBoot' = nvsBoot, written' = written,
         up' => up /\ boot' = boot /\ seq' = seq
  PROVE  Ordered'
<1> SUFFICES ASSUME "nvs" \notin struck'
             PROVE  /\ up' => boot' = nvsBoot'
                    /\ \A s \in Slot :
                         Magic(s)' /\ flash'[s].n > 0 =>
                           /\ flash'[s].n <= written' /\ flash'[s].boot <= nvsBoot'
                           /\ up' /\ flash'[s].boot = boot' => flash'[s].seq <= seq'
                    /\ TotalOrder'
  BY DEF Ordered
<1>1. "nvs" \notin struck
  OBVIOUS
<1>2. \A s \in Slot : Magic(s)' /\ flash'[s].n > 0 => Magic(s) /\ flash'[s] = flash[s]
  <2> SUFFICES ASSUME NEW s \in Slot, Magic(s)', flash'[s].n > 0 PROVE Magic(s) /\ flash'[s] = flash[s]
    OBVIOUS
  <2>1. flash'[s].n # 0 BY SMT
  <2> QED BY <2>1 DEF Magic
<1>3. up' => boot' = nvsBoot'
  BY <1>1 DEF Ordered
<1>4. ASSUME NEW s \in Slot, Magic(s)', flash'[s].n > 0
      PROVE  /\ flash'[s].n <= written' /\ flash'[s].boot <= nvsBoot'
             /\ up' /\ flash'[s].boot = boot' => flash'[s].seq <= seq'
  BY <1>1, <1>2, <1>4 DEF Ordered
<1>5. TotalOrder'
  <2> SUFFICES ASSUME NEW s \in Slot, NEW t \in Slot, Magic(s)', Magic(t)',
                      0 < flash'[s].n, flash'[s].n < flash'[t].n,
                      flash'[t].n > 0 \/ ~(flash'[t].n > 0)
               PROVE  Beats(flash'[t], flash'[s])
    BY DEF TotalOrder
  <2>1. Magic(s) /\ flash'[s] = flash[s]
    BY <1>2, SMT
  <2>2. flash'[t].n # 0
    <3>1. flash[s].n \in Nat BY <2>1, RecTyped DEF IInv
    <3> QED BY <2>1, <3>1, SMT
  <2>3. Magic(t) /\ flash'[t] = flash[t]
    BY <2>2 DEF Magic
  <2> QED BY <1>1, <2>1, <2>3 DEF Ordered, TotalOrder
<1> QED BY <1>3, <1>4, <1>5

\* A new record is the latest by the scan's order too.
LEMMA OrderedMore == IInv /\ Ordered /\ Program => Ordered'
<1> SUFFICES ASSUME IInv, Ordered, Program, "nvs" \notin struck'
             PROVE  /\ up' => boot' = nvsBoot'
                    /\ \A s \in Slot :
                         Magic(s)' /\ flash'[s].n > 0 =>
                           /\ flash'[s].n <= written' /\ flash'[s].boot <= nvsBoot'
                           /\ up' /\ flash'[s].boot = boot' => flash'[s].seq <= seq'
                    /\ TotalOrder'
  BY DEF Ordered
<1>1. PICK r \in Burnt : flash' = [flash EXCEPT ![head] = r]
  BY DEF Program
<1>2. /\ "nvs" \notin struck /\ up /\ up' /\ boot' = boot /\ nvsBoot' = nvsBoot /\ boot = nvsBoot
      /\ seq' = seq + 1 /\ written' = written + 1
  BY DEF Program, Writing, Ordered
<1>3. boot \in Nat /\ seq \in Nat /\ written \in Nat /\ head \in Slot /\ DOMAIN flash = Slot
  BY BoundAssumption, SMT DEF IInv, RecorderTypeOK
<1>4. flash'[head] = r /\ \A s \in Slot \ {head} : flash'[s] = flash[s]
  BY <1>1, <1>3
<1>5. r = Record \/ r = Junk \/ r.n = 0
  BY DEF Burnt
<1>6. \A s \in Slot : Magic(s)' /\ flash'[s].n # 0 => (s = head /\ r = Record) \/ (s # head /\ Magic(s))
  <2> SUFFICES ASSUME NEW s \in Slot, Magic(s)', flash'[s].n # 0
               PROVE  (s = head /\ r = Record) \/ (s # head /\ Magic(s))
    OBVIOUS
  <2>1. CASE s = head
    <3>1. r # Junk BY <1>4, <2>1 DEF Magic, Junk
    <3> QED BY <1>4, <1>5, <2>1, <3>1
  <2>2. CASE s # head
    BY <1>4, <2>2 DEF Magic
  <2> QED BY <2>1, <2>2
<1>7. ASSUME NEW s \in Slot, s # head, Magic(s), flash'[s].n > 0
      PROVE  /\ flash'[s] = flash[s] /\ flash[s].n <= written /\ flash[s].boot <= boot
             /\ flash[s].boot = boot => flash[s].seq <= seq
             /\ flash[s].n \in Nat /\ flash[s].boot \in Nat /\ flash[s].seq \in Nat
  BY <1>2, <1>4, <1>7, RecTyped DEF Ordered, IInv
<1>8. Record.n = written + 1 /\ Record.boot = boot /\ Record.seq = seq + 1
  BY DEF Record
<1>9. ASSUME NEW s \in Slot, Magic(s)', flash'[s].n > 0
      PROVE  /\ flash'[s].n <= written' /\ flash'[s].boot <= nvsBoot'
             /\ up' /\ flash'[s].boot = boot' => flash'[s].seq <= seq'
  <2>1. flash'[s].n # 0 BY <1>9, SMT
  <2>2. CASE s = head /\ r = Record
    BY <1>2, <1>3, <1>4, <1>8, <2>2, SMT
  <2>3. CASE s # head /\ Magic(s)
    BY <1>2, <1>3, <1>7, <1>9, <2>3, SMT
  <2> QED BY <1>6, <1>9, <2>1, <2>2, <2>3
<1>10. TotalOrder'
  <2> SUFFICES ASSUME NEW s \in Slot, NEW t \in Slot, Magic(s)', Magic(t)',
                      0 < flash'[s].n, flash'[s].n < flash'[t].n
               PROVE  Beats(flash'[t], flash'[s])
    BY DEF TotalOrder
  <2>1. flash'[s].n # 0 /\ flash'[s].n > 0 BY SMT
  <2>2. flash'[s].n \in Nat
    <3>1. CASE s = head /\ r = Record BY <1>3, <1>4, <1>8, <3>1, SMT
    <3>2. CASE s # head /\ Magic(s) BY <1>7, <2>1, <3>2
    <3> QED BY <1>6, <2>1, <3>1, <3>2
  <2>3. flash'[t].n # 0 BY <2>2, SMT
  <2>4. (s = head /\ r = Record) \/ (s # head /\ Magic(s)) BY <1>6, <2>1
  <2>5. (t = head /\ r = Record) \/ (t # head /\ Magic(t)) BY <1>6, <2>3
  <2>6. CASE t # head /\ Magic(t)
    <3>1. flash'[t] = flash[t] /\ flash[t].n \in Nat BY <1>4, <2>6, RecTyped DEF IInv
    <3>2. flash'[t].n > 0 BY <2>2, <3>1, SMT
    <3>3. flash[t].n <= written BY <1>7, <2>6, <3>2
    <3>4. s # head
      <4> SUFFICES ASSUME s = head PROVE FALSE OBVIOUS
      <4>1. flash'[s].n = written + 1 BY <1>4, <1>8, <2>4
      <4> QED BY <1>3, <3>1, <3>3, <4>1, SMT
    <3>5. Magic(s) /\ flash'[s] = flash[s] BY <1>4, <2>4, <3>4
    <3> QED BY <1>2, <2>6, <3>1, <3>5 DEF Ordered, TotalOrder
  <2>7. CASE t = head /\ r = Record
    <3>1. s # head
      <4> SUFFICES ASSUME s = head PROVE FALSE OBVIOUS
      <4> QED BY <2>2, <2>7, SMT
    <3>2. Magic(s) BY <2>4, <3>1
    <3>3. /\ flash'[s] = flash[s] /\ flash[s].boot <= boot /\ (flash[s].boot = boot => flash[s].seq <= seq)
          /\ flash[s].boot \in Nat /\ flash[s].seq \in Nat
      BY <1>7, <2>1, <3>1, <3>2
    <3>4. flash'[t].boot = boot /\ flash'[t].seq = seq + 1 BY <1>4, <1>8, <2>7
    <3> QED BY <1>3, <3>3, <3>4, SMT DEF Beats
  <2> QED BY <2>5, <2>6, <2>7
<1> QED BY <1>2, <1>9, <1>10

LEMMA OrderedBoot == IInv /\ Ordered /\ BlackboxInit => Ordered'
<1> SUFFICES ASSUME IInv, Ordered, BlackboxInit, "nvs" \notin struck' PROVE Ordered'
  BY DEF Ordered
<1>1. PICK odd \in SUBSET (Mishaps \cap {"nvs", "oom"}) :
        nvsBoot' = 1 + (IF "nvs" \in odd THEN 0 ELSE nvsBoot) /\ struck' = struck \cup odd
  BY DEF BlackboxInit
<1>2. "nvs" \notin struck /\ nvsBoot' = 1 + nvsBoot /\ boot' = nvsBoot' /\ flash' = flash /\ written' = written
  BY <1>1 DEF BlackboxInit, hist
<1>3. nvsBoot \in Nat
  BY BoundAssumption, SMT DEF IInv, RecorderTypeOK
<1>4. TotalOrder'
  BY <1>2 DEF Ordered, TotalOrder, Magic
<1>5. ASSUME NEW s \in Slot, Magic(s)', flash'[s].n > 0
      PROVE  flash'[s].n <= written' /\ flash'[s].boot < nvsBoot' /\ flash'[s].boot \in Nat
  <2>1. Magic(s) /\ flash'[s] = flash[s] BY <1>2, <1>5 DEF Magic
  <2>2. flash[s].boot \in Nat BY <2>1, RecTyped DEF IInv
  <2>3. flash[s].n <= written /\ flash[s].boot <= nvsBoot BY <1>2, <1>5, <2>1 DEF Ordered
  <2> QED BY <1>2, <1>3, <2>1, <2>2, <2>3, SMT
<1>6. ASSUME NEW s \in Slot, Magic(s)', flash'[s].n > 0
      PROVE  flash'[s].n <= written' /\ flash'[s].boot <= nvsBoot' /\ flash'[s].boot # boot'
  BY <1>2, <1>3, <1>5, <1>6, SMT
<1> QED BY <1>2, <1>4, <1>6 DEF Ordered

LEMMA OrderedKept == IInv /\ Ordered /\ [RecorderNext]_recorderVars => Ordered'
<1> SUFFICES ASSUME IInv, Ordered, [RecorderNext]_recorderVars PROVE Ordered'
  OBVIOUS
<1>1. CASE Erase
  <2>1. \A s \in Slot : Magic(s)' => flash'[s] = flash[s]
    BY <1>1 DEF Erase, Magic, Blank
  <2> QED BY <1>1, <2>1, OrderedLess DEF Erase, hist
<1>2. CASE PowerLoss
  BY <1>2, OrderedLess DEF PowerLoss, Reset, Magic
<1>3. CASE TornErase
  <2>1. \A s \in Slot : Magic(s)' => flash'[s] = flash[s]
    <3>1. PICK blank \in SUBSET Sector(head) : \E junk \in SUBSET (Sector(head) \ blank) :
            flash' = [s \in Slot |-> IF s \in blank THEN Blank
                                     ELSE IF s \in junk THEN Junk ELSE flash[s]]
      BY <1>3 DEF TornErase
    <3>2. PICK junk \in SUBSET (Sector(head) \ blank) :
            flash' = [s \in Slot |-> IF s \in blank THEN Blank
                                     ELSE IF s \in junk THEN Junk ELSE flash[s]]
      BY <3>1
    <3> QED BY <3>2 DEF Magic, Blank, Junk
  <2> QED BY <1>3, <2>1, OrderedLess DEF TornErase, Reset
<1>4. CASE TornWrite
  <2>1. PICK odd \in SUBSET (Mishaps \cap {"stuck"}) :
          /\ flash' = [flash EXCEPT ![head] = IF odd = {} THEN Junk ELSE Stuck]
          /\ struck' = struck \cup odd
    BY <1>4 DEF TornWrite
  <2>2. \A s \in Slot : Magic(s)' => flash'[s] = flash[s] \/ flash'[s].n = 0
    BY <2>1 DEF Magic, Junk, Stuck, IInv, RecorderTypeOK
  <2> QED BY <1>4, <2>1, <2>2, OrderedLess DEF TornWrite, Reset
<1>5. CASE UNCHANGED recorderVars
  BY <1>5, OrderedLess DEF recorderVars, hist, Magic
<1> QED BY <1>1, <1>2, <1>3, <1>4, <1>5, OrderedBoot, OrderedMore DEF RecorderNext

----------------------------------------------------------------------------
(* The ring of two sectors or more, until a mishap *)

\* The sector before the head's is that of the slot that was found.
LEMMA FoundAfter ==
  ASSUME SECTORS > 1, NEW l \in Slot, Scanned = (l + 1) % SLOTS
  PROVE  /\ Sec(Behind(Found)) = Sec(l)
         /\ Off(Scanned) # 0 => Sec(Scanned) = Sec(l)
         /\ Off(Found) = 0 => Sec(Found) # Sec(l)
<1>1. /\ Scanned \in Slot /\ Behind(Scanned) = l
      /\ Off(Scanned) # 0 => Sec(Scanned) = Sec(l)
  BY OneOn
<1>2. Sec(Behind(Found)) = Sec(l)
  <2>1. CASE Found = Scanned
    BY <1>1, <2>1
  <2>2. CASE Found # Scanned
    <3>1. Off(Scanned) # 0 /\ Found = ((Scanned \div R + 1) % SECTORS) * R
      BY <2>2 DEF Found, Landed, Off, R
    <3>2. Behind(Found) = End(Scanned) - 1
      BY <1>1, <3>1, SteppedOver
    <3>3. Sec(End(Scanned) - 1) = Sec(Scanned)
      <4>1. Off(Scanned) \in 0..R - 1 /\ End(Scanned) \in 1..SLOTS BY <1>1, Split
      <4>2. End(Scanned) - 1 \in Slot BY <4>1, Sizes, SMT
      <4>3. Sec(End(Scanned) - 1) = Sec(Scanned)
              <=> End(Scanned) - 1 >= Scanned - Off(Scanned) /\ End(Scanned) - 1 < End(Scanned)
        BY <1>1, <4>2, SameSector
      <4>4. End(Scanned) - 1 >= Scanned - Off(Scanned)
        BY <1>1, <4>1, Sizes, SMT DEF End
      <4> QED BY <4>1, <4>3, <4>4, SMT
    <3> QED BY <1>1, <3>1, <3>2, <3>3
  <2> QED BY <2>1, <2>2
<1>3. ASSUME Off(Found) = 0 PROVE Sec(Found) # Sec(l)
  <2>1. Sec(Behind(Found)) = IF Sec(Found) = 0 THEN SECTORS - 1 ELSE Sec(Found) - 1
    BY <1>3, FoundOnRing, SectorBefore
  <2>2. Sec(Found) \in 0..SECTORS - 1
    BY FoundOnRing, Split
  <2> QED BY <1>2, <2>1, <2>2, Sizes, SMT
<1> QED BY <1>1, <1>2, <1>3

\* Records go from the sector that the head is entering, and nowhere else.
Thinned ==
  \A s \in Slot : flash'[s] = flash[s] \/ (Sec(s) = Sec(Found) /\ ~Magic(s)')

LEMMA ThinnedMagic ==
  ASSUME Thinned, NEW s \in Slot, Magic(s)' PROVE Magic(s) /\ flash'[s] = flash[s]
BY DEF Thinned, Magic

\* That moves neither the newest record nor the place where the scan ends.
LEMMA ThinnedTip ==
  ASSUME SECTORS > 1, FullInv, struck = {}, struck' = {}, RecorderTypeOK', Ordered', Whole',
         Off(Found) = 0, Thinned
  PROVE  Found' = Found /\ Tip'
<1>1. Tip /\ Whole
  BY DEF FullInv, RingInv
<1>2. CASE \A s \in Slot : ~Magic(s)
  <2>1. \A s \in Slot : ~Magic(s)'
    BY <1>2, ThinnedMagic
  <2>2. Scanned = 0
    BY <1>2, ScanEmpty
  <2>3. ((\A s \in Slot : ~Magic(s)) => Scanned = 0)'
    BY ScanEmpty, PTL
  <2>4. Scanned' = 0 /\ Tip'
    BY <2>1, <2>3 DEF Tip
  <2>5. 0 % RECS_PER_SECTOR = 0
    BY RingClosed, SMT
  <2>6. Found = 0 /\ Found' = 0
    BY <2>2, <2>4, <2>5 DEF Found, Landed
  <2> QED BY <2>4, <2>6
<1>3. ASSUME NEW l \in Slot, Newest(l) PROVE Found' = Found /\ Tip'
  <2>1. Scanned = (l + 1) % SLOTS
    BY <1>1, <1>3, NewestWins, ScanFinds DEF FullInv, IInv
  <2>2. Sec(l) # Sec(Found) /\ (Off(Scanned) # 0 => Sec(Scanned) = Sec(l))
    BY <2>1, FoundAfter
  <2>3. flash'[l] = flash[l] /\ Magic(l)'
    BY <1>3, <2>2 DEF Thinned, Newest, Magic
  <2>4. Newest(l)'
    BY <1>3, <2>3, ThinnedMagic DEF Newest
  <2>5. Wins(l)'
    BY <2>4, NewestWinsThen
  <2>6. Scanned' = (l + 1) % SLOTS
    BY <2>5, ScanFindsThen
  <2>7. Off(Scanned) # 0 => flash'[Scanned] = flash[Scanned]
    BY <2>2, ScannedOnRing DEF Thinned
  <2>8. Found' = Found
    BY <2>1, <2>6, <2>7 DEF Found, Landed, Off, R
  <2> QED BY <2>4, <2>8 DEF Tip
<1> QED BY <1>1, <1>2, <1>3 DEF Tip

\* A slot that a landing has stepped over costs no more than its sector.
LEMMA MoreCrashes ==
  ASSUME NEW a \in Nat, NEW b \in Nat, a <= b
  PROVE  a * (R - 1) <= b * (R - 1) /\ (a + 1) * (R - 1) = a * (R - 1) + (R - 1) /\ a * (R - 1) \in Nat
<1>1. R - 1 \in Nat BY Sizes, SMT
<1>2. b * (R - 1) = a * (R - 1) + (b - a) * (R - 1) BY <1>1, SMT
<1>3. (b - a) * (R - 1) >= 0 /\ a * (R - 1) \in Nat BY <1>1, SMT
<1>4. (a + 1) * (R - 1) = a * (R - 1) + (R - 1) BY <1>1, SMT
<1> QED BY <1>1, <1>2, <1>3, <1>4, SMT

LEMMA BacksTyped == ASSUME NEW h \in Slot, NEW s \in Slot PROVE Back(h, s) \in Int /\ SecBack(h, s) \in Int
<1>1. SLOTS \in Nat \ {0} /\ SECTORS \in Nat /\ h \in 0..SLOTS - 1 /\ s \in 0..SLOTS - 1
  BY Sizes
<1>2. Back(h, s) \in Int BY <1>1, SMT DEF Back
<1>3. Behind(h) \in Slot BY <1>1, Sizes, SMT DEF Behind
<1>4. Sec(Behind(h)) \in 0..SECTORS - 1 /\ Sec(s) \in 0..SECTORS - 1 BY <1>3, Split
<1>5. SecBack(h, s) \in Int BY <1>1, <1>4, SMT DEF SecBack
<1> QED BY <1>2, <1>5

\* What is left is as old as it was.
LEMMA ThinnedRest ==
  ASSUME SECTORS > 1, FullInv, struck = {}, struck' = {}, IInv', Ordered',
         Off(Found) = 0, Thinned, written' = written, crashes' = crashes \/ crashes' = crashes + 1
  PROVE  /\ Found' = Found
         /\ Whole' /\ Tip' /\ Fresh' /\ OldBySector' /\ OldBySlot' /\ ReadsBack(Found)'
<1>1. Whole /\ OldBySector /\ OldBySlot /\ ReadsBack(Found)
  BY DEF FullInv, RingInv
<1>2. Whole'
  BY <1>1, ThinnedMagic DEF Whole
<1>3. Found' = Found /\ Tip'
  BY <1>2, ThinnedTip DEF IInv
<1>4. Fresh'
  BY <1>3 DEF Fresh
<1>5. OldBySector'
  <2> SUFFICES ASSUME NEW s \in Slot, Magic(s)' PROVE written' - flash'[s].n >= SecBack(Found', s)
    BY DEF OldBySector
  <2>1. Magic(s) /\ flash'[s] = flash[s] BY ThinnedMagic
  <2> QED BY <1>1, <1>3, <2>1 DEF OldBySector
<1>6. OldBySlot'
  <2> SUFFICES ASSUME NEW s \in Slot, Magic(s)'
               PROVE  written' - flash'[s].n + crashes' * (R - 1) >= Back(Found', s)
    BY DEF OldBySlot
  <2>1. Magic(s) /\ flash'[s] = flash[s] BY ThinnedMagic
  <2>2. written - flash[s].n + crashes * (R - 1) >= Back(Found, s)
    BY <1>1, <2>1 DEF OldBySlot
  <2>3. written \in Int /\ flash[s].n \in Int /\ crashes \in Nat /\ crashes' \in Nat /\ crashes <= crashes'
    BY <2>1, RecTyped, BoundAssumption, SMT DEF FullInv, IInv, RecorderTypeOK
  <2>4. crashes * (R - 1) <= crashes' * (R - 1) /\ crashes * (R - 1) \in Int /\ crashes' * (R - 1) \in Int
    BY <2>3, MoreCrashes, SMT
  <2>5. Back(Found, s) \in Int BY FoundOnRing, BacksTyped
  <2> HIDE DEF OldBySlot
  <2> QED BY <1>3, <2>1, <2>2, <2>3, <2>4, <2>5, SMT
<1>7. ReadsBack(Found)'
  <2> SUFFICES ASSUME NEW k \in 1..SLOTS, \A j \in 1..k : flash'[NthBack(Found, j)].magic = "BBX1"
               PROVE  flash'[NthBack(Found, k)].n = written' + 1 - k
    BY <1>3 DEF ReadsBack, Magic
  <2>1. \A j \in 1..k : NthBack(Found, j) \in Slot
    BY FoundOnRing, AtSlot, Sizes, SMT
  <2>2. \A j \in 1..k : Magic(NthBack(Found, j)) /\ flash'[NthBack(Found, j)] = flash[NthBack(Found, j)]
    BY <2>1, ThinnedMagic DEF Magic
  <2>3. k \in 1..k BY SMT
  <2> QED BY <1>1, <2>2, <2>3 DEF ReadsBack
<1> QED BY <1>2, <1>3, <1>4, <1>5, <1>6, <1>7

\* No mishap now, none before.
LEMMA StruckStays == [RecorderNext]_recorderVars => struck \subseteq struck'
<1> SUFFICES ASSUME [RecorderNext]_recorderVars PROVE struck \subseteq struck'
  OBVIOUS
<1>1. CASE BlackboxInit BY <1>1 DEF BlackboxInit
<1>2. CASE TornWrite BY <1>2 DEF TornWrite
<1>3. CASE UNCHANGED recorderVars BY <1>3 DEF recorderVars, hist
<1>4. CASE Erase \/ Program \/ PowerLoss \/ TornErase
  BY <1>4 DEF Erase, Program, PowerLoss, TornErase, hist
<1> QED BY <1>1, <1>2, <1>3, <1>4 DEF RecorderNext

\* A write lands where the rest of the sector is blank.
LEMMA RoomAhead ==
  ASSUME FullInv, struck = {}, up, Entering => erased
  PROVE  /\ head = Found
         /\ \A s \in Slot : Sec(s) = Sec(head) /\ s >= head => flash[s] = Blank
<1>1. head = Found /\ Fresh /\ Cleared
  BY DEF FullInv, RingInv
<1>2. CASE Entering
  BY <1>1, <1>2 DEF Cleared, Sector, Sec, R
<1>3. CASE ~Entering
  BY <1>1, <1>3 DEF Fresh, Entering, Off, R
<1> QED BY <1>1, <1>2, <1>3

\* The read-back, one record later.
LEMMA ToldOn ==
  ASSUME ReadsBack(Found), NEW h \in Slot, h = Found, written \in Nat,
         NEW r, r.n = written + 1, flash' = [flash EXCEPT ![h] = r], DOMAIN flash = Slot,
         written' = written + 1, Found' = (h + 1) % SLOTS
  PROVE  ReadsBack(Found)'
<1> SUFFICES ASSUME NEW k \in 1..SLOTS, \A j \in 1..k : flash'[NthBack(Found', j)].magic = "BBX1"
             PROVE  flash'[NthBack(Found', k)].n = written' + 1 - k
  BY DEF ReadsBack, Magic
<1> DEFINE n == (h + 1) % SLOTS
<1>1. NthBack(n, 1) = h /\ \A j \in 2..SLOTS : NthBack(n, j) = NthBack(h, j - 1) /\ NthBack(n, j) # h
  BY AtOn
<1>2. n \in Slot BY OneOn
<1>3. Found' = n OBVIOUS
<1> HIDE DEF n
<1>4. CASE k = 1
  BY <1>1, <1>3, <1>4, SMT
<1>5. CASE k # 1
  <2>1. k \in 2..SLOTS /\ k - 1 \in 1..SLOTS BY <1>5, Sizes, SMT
  <2>2. ASSUME NEW j \in 1..k - 1 PROVE Magic(NthBack(h, j))
    <3>1. j + 1 \in 2..SLOTS /\ j + 1 \in 1..k /\ (j + 1) - 1 = j /\ j \in 1..SLOTS
      BY <2>1, Sizes, SMT
    <3>2. NthBack(n, j + 1) = NthBack(h, j) /\ NthBack(n, j + 1) # h BY <1>1, <3>1
    <3>3. NthBack(h, j) \in Slot BY <3>1, AtSlot
    <3>4. flash'[NthBack(h, j)] = flash[NthBack(h, j)] BY <3>2, <3>3
    <3>5. flash'[NthBack(n, j + 1)].magic = "BBX1" BY <1>3, <3>1
    <3> QED BY <3>2, <3>4, <3>5 DEF Magic
  <2>3. flash[NthBack(h, k - 1)].n = written + 1 - (k - 1)
    BY <2>1, <2>2 DEF ReadsBack
  <2>4. NthBack(n, k) = NthBack(h, k - 1) /\ NthBack(n, k) # h /\ NthBack(h, k - 1) \in Slot
    BY <1>1, <2>1, AtSlot
  <2>5. flash'[NthBack(n, k)] = flash[NthBack(h, k - 1)]
    BY <2>4
  <2> QED BY <1>3, <2>1, <2>3, <2>5, SMT
<1> QED BY <1>4, <1>5

LEMMA ProgramRing ==
  ASSUME SECTORS > 1, FullInv, Program, struck = {}, IInv', Ordered'
  PROVE  RingInv'
<1>1. PICK h \in Slot : h = head
  BY DEF FullInv, IInv, RecorderTypeOK
<1> DEFINE n == (h + 1) % SLOTS
<1>2. /\ up /\ up' /\ (Entering => erased) /\ erased' = FALSE /\ struck' = {}
      /\ written' = written + 1 /\ head' = n /\ crashes' = crashes
  BY <1>1 DEF Program, Writing
<1>3. h = Found /\ \A s \in Slot : Sec(s) = Sec(h) /\ s >= h => flash[s] = Blank
  BY <1>1, <1>2, RoomAhead
<1>4. /\ written \in Nat /\ crashes \in Nat /\ flash \in [Slot -> Rec \cup {Blank, Junk}]
      /\ h \in 0..SLOTS - 1
  BY BoundAssumption, Sizes, SMT DEF FullInv, IInv, RecorderTypeOK
<1>5. /\ n \in Slot /\ n = (IF h + 1 = SLOTS THEN 0 ELSE h + 1)
      /\ Off(n) # 0 => n = h + 1 /\ Sec(n) = Sec(h)
  BY OneOn
<1> HIDE DEF n
<1>6. flash[h] = Blank
  BY <1>3, <1>4, SMT
<1>7. flash' = [flash EXCEPT ![h] = Record]
  BY <1>1, <1>6 DEF Program, Burnt
<1>8. Record.n = written + 1 /\ Record.magic = "BBX1"
  BY DEF Record
<1>9. flash'[h] = Record /\ Magic(h)' /\ \A s \in Slot : s # h => flash'[s] = flash[s]
  BY <1>4, <1>7, <1>8 DEF Magic
<1>10. ASSUME NEW s \in Slot, s # h, Magic(s)'
       PROVE  /\ Magic(s) /\ flash'[s] = flash[s] /\ flash[s].n \in 1..written /\ (Sec(s) # Sec(h) \/ s < h)
              /\ written - flash[s].n >= SecBack(h, s)
              /\ written - flash[s].n + crashes * (R - 1) >= Back(h, s)
  <2>1. Magic(s) /\ flash'[s] = flash[s] BY <1>9, <1>10 DEF Magic
  <2>2. flash[s] # Blank BY <2>1 DEF Magic, Blank
  <2>3. Sec(s) # Sec(h) \/ s < h BY <1>3, <1>4, <2>2, Sizes, SMT
  <2> QED BY <1>3, <2>1, <2>3 DEF FullInv, RingInv, Whole, OldBySector, OldBySlot
<1>11. Whole'
  <2> SUFFICES ASSUME NEW s \in Slot, Magic(s)' PROVE flash'[s].n \in 1..written'
    BY DEF Whole
  <2>1. CASE s = h BY <1>2, <1>4, <1>8, <1>9, <2>1, SMT
  <2>2. CASE s # h
    <3>1. flash'[s] = flash[s] /\ flash[s].n \in 1..written BY <1>10, <2>2
    <3> QED BY <1>2, <1>4, <3>1, SMT
  <2> QED BY <2>1, <2>2
<1>12. Newest(h)'
  <2> SUFFICES ASSUME NEW s \in Slot, Magic(s)', s # h PROVE flash'[s].n < flash'[h].n
    BY <1>9 DEF Newest
  <2>1. flash'[s] = flash[s] /\ flash[s].n \in 1..written BY <1>10
  <2>2. flash'[h].n = written + 1 BY <1>8, <1>9
  <2> QED BY <1>4, <2>1, <2>2, SMT
<1>13. Scanned' = n
  <2>1. Wins(h)' BY <1>2, <1>11, <1>12, NewestWinsThen DEF IInv
  <2> QED BY <2>1, ScanFindsThen DEF n
<1>14. ASSUME Off(n) # 0, NEW s \in Slot, Sec(s) = Sec(n), s >= n PROVE flash'[s] = Blank
  <2>1. Sec(s) = Sec(h) /\ s >= h /\ s # h
    BY <1>4, <1>5, <1>14, Sizes, SMT
  <2> QED BY <1>3, <1>9, <2>1
<1>15. Found' = n
  <2>1. Off(n) # 0 => flash'[n] = Blank
    <3>1. n >= n BY <1>5, Sizes, SMT
    <3> QED BY <1>5, <1>14, <3>1
  <2> QED BY <1>13, <2>1 DEF Found, Landed, Off, R
<1>16. Fresh' /\ Cleared' /\ Tip'
  BY <1>2, <1>12, <1>14, <1>15 DEF Fresh, Cleared, Tip
<1>17. OldBySector'
  <2> SUFFICES ASSUME NEW s \in Slot, Magic(s)' PROVE written' - flash'[s].n >= SecBack(n, s)
    BY <1>15 DEF OldBySector
  <2>1. CASE s = h
    <3>1. SecBack(n, h) = 0 BY BackHere DEF n
    <3> QED BY <1>2, <1>4, <1>8, <1>9, <2>1, <3>1, SMT
  <2>2. CASE s # h
    <3>1. Off(h) # 0 \/ Sec(s) # Sec(h)
      <4> SUFFICES ASSUME Off(h) = 0, Sec(s) = Sec(h) PROVE FALSE
        OBVIOUS
      <4>1. s >= h - Off(h) BY SameSector
      <4> QED BY <1>4, <1>10, <2>2, <4>1, Sizes, SMT
    <3>2. SecBack(n, s) <= SecBack(h, s) + 1 BY <2>2, <3>1, BackOn DEF n
    <3>3. SecBack(h, s) \in Int /\ SecBack(n, s) \in Int BY <1>5, BacksTyped
    <3>4. /\ flash'[s] = flash[s] /\ flash[s].n \in 1..written
          /\ written - flash[s].n >= SecBack(h, s)
      BY <1>10, <2>2
    <3> QED BY <1>2, <1>4, <3>2, <3>3, <3>4, SMT
  <2> QED BY <2>1, <2>2
<1>18. OldBySlot'
  <2> SUFFICES ASSUME NEW s \in Slot, Magic(s)'
               PROVE  written' - flash'[s].n + crashes * (R - 1) >= Back(n, s)
    BY <1>2, <1>15 DEF OldBySlot
  <2>1. crashes * (R - 1) \in Nat BY <1>4, MoreCrashes, SMT
  <2>2. CASE s = h
    <3>1. Back(n, h) = 0 BY BackHere DEF n
    <3> QED BY <1>2, <1>4, <1>8, <1>9, <2>1, <2>2, <3>1, SMT
  <2>3. CASE s # h
    <3>1. Back(n, s) = Back(h, s) + 1 BY <2>3, BackOn DEF n
    <3>2. Back(h, s) \in Int BY BacksTyped
    <3>3. /\ flash'[s] = flash[s] /\ flash[s].n \in 1..written
          /\ written - flash[s].n + crashes * (R - 1) >= Back(h, s)
      BY <1>10, <2>3
    <3> QED BY <1>2, <1>4, <2>1, <3>1, <3>2, <3>3, SMT
  <2> QED BY <2>2, <2>3
<1>19. ReadsBack(Found)'
  <2>1. ReadsBack(Found) BY DEF FullInv, RingInv
  <2>2. DOMAIN flash = Slot /\ Found' = (h + 1) % SLOTS BY <1>4, <1>15 DEF n
  <2> QED BY <1>2, <1>3, <1>4, <1>7, <1>8, <2>1, <2>2, ToldOn
<1> QED BY <1>2, <1>11, <1>15, <1>16, <1>17, <1>18, <1>19 DEF RingInv

\* A write cut short leaves a slot that is no record and is not blank.  If it is
\* in the middle of a sector, the next boot steps over it.
LEMMA TornWriteRing ==
  ASSUME SECTORS > 1, FullInv, TornWrite, struck = {}, struck' = {}, IInv', Ordered'
  PROVE  RingInv'
<1>1. PICK h \in Slot : h = head
  BY DEF FullInv, IInv, RecorderTypeOK
<1>2. /\ up /\ ~up' /\ (Entering => erased) /\ erased' = FALSE /\ flash[h] = Blank
      /\ written' = written /\ crashes' = crashes + 1
  BY <1>1 DEF TornWrite, Writing, Reset
<1>3. h = Found /\ \A s \in Slot : Sec(s) = Sec(h) /\ s >= h => flash[s] = Blank
  BY <1>1, <1>2, RoomAhead
<1>4. /\ written \in Nat /\ crashes \in Nat /\ flash \in [Slot -> Rec \cup {Blank, Junk}]
      /\ h \in 0..SLOTS - 1
  BY BoundAssumption, Sizes, SMT DEF FullInv, IInv, RecorderTypeOK
<1>5. flash' = [flash EXCEPT ![h] = Junk]
  <2>1. PICK odd \in SUBSET (Mishaps \cap {"stuck"}) :
          /\ flash' = [flash EXCEPT ![head] = IF odd = {} THEN Junk ELSE Stuck]
          /\ struck' = struck \cup odd
    BY DEF TornWrite
  <2>2. odd = {} BY <2>1
  <2> QED BY <1>1, <2>1, <2>2
<1>6. /\ flash'[h] = Junk /\ Junk # Blank /\ \A s \in Slot : s # h => flash'[s] = flash[s]
      /\ ~Magic(h) /\ ~Magic(h)'
  BY <1>2, <1>4, <1>5 DEF Magic, Junk, Blank
<1>7. \A s \in Slot : Magic(s)' <=> Magic(s)
  BY <1>6 DEF Magic
<1>8. \A s \in Slot : Magic(s) => flash'[s] = flash[s]
  BY <1>6
<1>9. Whole' /\ Tip'
  <2>1. Whole /\ Tip BY DEF FullInv, RingInv
  <2>2. Whole' BY <1>2, <1>7, <1>8, <2>1 DEF Whole
  <2>3. \A l \in Slot : Newest(l) => Newest(l)' BY <1>7, <1>8 DEF Newest
  <2>4. Tip' BY <1>7, <2>1, <2>3 DEF Tip
  <2> QED BY <2>2, <2>4
<1>10. Scanned' = Scanned
  <2>1. CASE \A s \in Slot : ~Magic(s)
    <3>1. \A s \in Slot : ~Magic(s)' BY <1>7, <2>1
    <3>2. ((\A s \in Slot : ~Magic(s)) => Scanned = 0)' BY ScanEmpty, PTL
    <3> QED BY <2>1, <3>1, <3>2, ScanEmpty
  <2>2. ASSUME NEW l \in Slot, Newest(l) PROVE Scanned' = Scanned
    <3>1. Wins(l) BY <2>2, NewestWins DEF FullInv, RingInv, IInv
    <3>2. Newest(l)' BY <1>7, <1>8, <2>2 DEF Newest
    <3>3. Wins(l)' BY <1>9, <3>2, NewestWinsThen DEF IInv
    <3> QED BY <3>1, <3>3, ScanFinds, ScanFindsThen
  <2>3. Tip BY DEF FullInv, RingInv
  <2> QED BY <2>1, <2>2, <2>3 DEF Tip
<1> DEFINE n == ((h \div R + 1) % SECTORS) * R
<1>11. /\ Off(h) = 0 => Found' = h
       /\ Off(h) # 0 => Found' = n
  <2>1. Found = Scanned \/ (Off(Scanned) # 0 /\ flash[Scanned] # Blank)
    BY DEF Found, Landed, Off, R
  <2>2. CASE Found = Scanned
    <3>1. Off(h) = 0 => Found' = h
      BY <1>3, <1>10, <2>2 DEF Found, Landed, Off, R
    <3>2. Off(h) # 0 => Found' = n
      BY <1>3, <1>6, <1>10, <2>2 DEF Found, Landed, Off, R
    <3> QED BY <3>1, <3>2
  <2>3. CASE Found # Scanned
    <3>1. Off(Scanned) # 0 /\ flash[Scanned] # Blank BY <2>1, <2>3
    <3>2. Found = ((Scanned \div R + 1) % SECTORS) * R
      BY <3>1 DEF Found, Landed, Off, R
    <3>3. Off(h) = 0 BY <1>3, <3>2, ScannedOnRing, SteppedOver
    <3>4. Scanned # h BY <1>3, <2>3
    <3>5. flash'[Scanned] = flash[Scanned] BY <1>6, <3>4, ScannedOnRing
    <3>6. Found' = Found BY <1>10, <3>1, <3>2, <3>5 DEF Found, Landed, Off, R
    <3> QED BY <1>3, <3>3, <3>6
  <2> QED BY <2>2, <2>3
<1>12. ASSUME NEW s \in Slot, Magic(s)'
       PROVE  /\ Magic(s) /\ flash'[s] = flash[s] /\ flash[s].n \in Int /\ (Sec(s) # Sec(h) \/ s < h)
              /\ written - flash[s].n >= SecBack(h, s)
              /\ written - flash[s].n + crashes * (R - 1) >= Back(h, s)
  <2>1. Magic(s) /\ flash'[s] = flash[s] BY <1>7, <1>8, <1>12
  <2>2. flash[s] # Blank BY <2>1 DEF Magic, Blank
  <2>3. Sec(s) # Sec(h) \/ s < h BY <1>3, <1>4, <2>2, Sizes, SMT
  <2>4. flash[s].n \in Int BY <2>1, RecTyped, SMT DEF FullInv, IInv
  <2> QED BY <1>3, <2>1, <2>3, <2>4 DEF FullInv, RingInv, OldBySector, OldBySlot
<1>13. Off(Found') = 0
  BY <1>11, SteppedOver
<1>14. Fresh' /\ Cleared' /\ (up' => head' = Found')
  BY <1>2, <1>13 DEF Fresh, Cleared
<1>15. ASSUME NEW s \in Slot, Magic(s)'
       PROVE  SecBack(Found', s) = SecBack(h, s) /\ Back(Found', s) <= Back(h, s) + (R - 1)
  <2>1. CASE Off(h) = 0
    <3>1. Back(h, s) \in Int /\ R - 1 >= 0 BY BacksTyped, Sizes, SMT
    <3>2. Back(h, s) <= Back(h, s) + (R - 1) BY <3>1, Sizes, SMT
    <3> QED BY <1>11, <2>1, <3>2
  <2>2. CASE Off(h) # 0
    BY <1>11, <1>12, <1>15, <2>2, BackOver
  <2> QED BY <2>1, <2>2
<1> HIDE DEF n
<1>16. OldBySector'
  BY <1>2, <1>12, <1>15 DEF OldBySector
<1>17. OldBySlot'
  <2> SUFFICES ASSUME NEW s \in Slot, Magic(s)'
               PROVE  written - flash[s].n + (crashes + 1) * (R - 1) >= Back(Found', s)
    BY <1>2, <1>12 DEF OldBySlot
  <2>1. (crashes + 1) * (R - 1) = crashes * (R - 1) + (R - 1) /\ crashes * (R - 1) \in Nat /\ R - 1 \in Nat
    BY <1>4, MoreCrashes, Sizes, SMT
  <2>2. Found' \in Slot
    BY <1>11, SteppedOver DEF n
  <2>3. Back(h, s) \in Int /\ Back(Found', s) \in Int
    BY <2>2, BacksTyped
  <2> QED BY <1>4, <1>12, <1>15, <2>1, <2>3, SMT
<1>18. ReadsBack(Found)'
  <2>1. ReadsBack(h) BY <1>3 DEF FullInv, RingInv
  <2> SUFFICES ASSUME NEW k \in 1..SLOTS, \A j \in 1..k : flash'[NthBack(Found', j)].magic = "BBX1"
               PROVE  flash'[NthBack(Found', k)].n = written + 1 - k
    BY <1>2 DEF ReadsBack, Magic
  <2>2. CASE Off(h) = 0
    <3>1. \A j \in 1..k : NthBack(h, j) \in Slot BY AtSlot, Sizes, SMT
    <3>2. \A j \in 1..k : Magic(NthBack(h, j)) /\ flash'[NthBack(h, j)] = flash[NthBack(h, j)]
      BY <1>6, <1>11, <2>2, <3>1 DEF Magic, Junk
    <3>3. k \in 1..k BY SMT
    <3> QED BY <1>11, <2>1, <2>2, <3>2, <3>3 DEF ReadsBack
  <2>3. CASE Off(h) # 0
    <3>1. 1 \in 1..k /\ 1 \in 1..SLOTS BY Sizes, SMT
    <3>2. /\ n \in Slot /\ n = (IF End(h) = SLOTS THEN 0 ELSE End(h)) /\ Found' = n
      BY <1>11, <2>3, SteppedOver DEF n
    <3>3. /\ Off(h) \in 0..R - 1 /\ End(h) \in 1..SLOTS /\ End(h) = h - Off(h) + R
      BY Split DEF End
    <3>4. NthBack(n, 1) = End(h) - 1
      <4>1. NthBack(n, 1) = (IF 1 <= n THEN n - 1 ELSE n + SLOTS - 1) BY <3>1, <3>2, AtSlot
      <4> QED BY <3>2, <3>3, <4>1, Sizes, SMT
    <3>5. End(h) - 1 \in Slot /\ Sec(End(h) - 1) = Sec(h) /\ End(h) - 1 >= h
      <4>1. End(h) - 1 \in Slot /\ End(h) - 1 >= h /\ End(h) - 1 >= h - Off(h) /\ End(h) - 1 < End(h)
        BY <1>4, <3>3, Sizes, SMT
      <4> QED BY <4>1, SameSector
    <3>6. flash[End(h) - 1] = Blank BY <1>3, <3>5
    <3>7. flash'[End(h) - 1].magic # "BBX1"
      BY <1>6, <3>5, <3>6 DEF Blank, Junk
    <3> QED BY <3>1, <3>2, <3>4, <3>7
  <2> QED BY <2>2, <2>3
<1> QED BY <1>9, <1>14, <1>16, <1>17, <1>18 DEF RingInv

\* Every other step leaves the ring as it is, or blanks what it enters.
LEMMA RingKept ==
  ASSUME SECTORS > 1, FullInv, [RecorderNext]_recorderVars, IInv', Ordered'
  PROVE  RingInv'
<1> SUFFICES ASSUME struck' = {} PROVE RingInv'
  BY DEF RingInv
<1>1. struck = {}
  BY StruckStays
<1>2. /\ (up => head = Found) /\ Whole /\ Tip /\ Fresh /\ Cleared
      /\ OldBySector /\ OldBySlot /\ ReadsBack(Found)
  BY <1>1 DEF FullInv, RingInv
<1>3. CASE flash' = flash /\ written' = written /\ crashes' = crashes
           /\ (up' => head' = Found) /\ (erased' => erased /\ up' /\ head' = head)
  <2>1. Found' = Found
    BY <1>3 DEF Found, Landed, Scanned, Latest, Best, Magic, Beats
  <2>2. Whole' /\ Tip' /\ Fresh' /\ OldBySector' /\ OldBySlot' /\ ReadsBack(Found)'
    BY <1>2, <1>3, <2>1 DEF Whole, Tip, Newest, Fresh, OldBySector, OldBySlot, ReadsBack, Magic
  <2>3. Cleared'
    BY <1>2, <1>3 DEF Cleared, Entering, Sector
  <2> QED BY <1>3, <2>1, <2>2, <2>3 DEF RingInv
<1>4. CASE BlackboxInit
  <2>1. PICK odd \in SUBSET (Mishaps \cap {"nvs", "oom"}) :
          head' = Landed(IF "oom" \in odd THEN 0 ELSE Scanned) /\ struck' = struck \cup odd
    BY <1>4 DEF BlackboxInit
  <2>2. odd = {} BY <2>1
  <2>3. head' = Found BY <2>1, <2>2 DEF Found
  <2> QED BY <1>3, <1>4, <2>3 DEF BlackboxInit, hist
<1>5. CASE UNCHANGED recorderVars
  BY <1>2, <1>3, <1>5 DEF recorderVars, hist, Cleared
<1>6. CASE Program
  BY <1>1, <1>6, ProgramRing
<1>7. CASE TornWrite
  BY <1>1, <1>7, TornWriteRing
<1>8. CASE Erase
  <2>1. up /\ head = Found /\ Off(Found) = 0 /\ Entering
    BY <1>2, <1>8 DEF Erase, Writing, Entering, Off, R
  <2>2. /\ flash' = [s \in Slot |-> IF s \in Sector(head) THEN Blank ELSE flash[s]]
        /\ written' = written /\ crashes' = crashes /\ head' = head /\ up' = up
    BY <1>8 DEF Erase, hist
  <2>3. Thinned
    BY <2>1, <2>2 DEF Thinned, Sector, Sec, R, Magic, Blank
  <2>4. /\ Found' = Found
        /\ Whole' /\ Tip' /\ Fresh' /\ OldBySector' /\ OldBySlot' /\ ReadsBack(Found)'
    BY <1>1, <2>1, <2>2, <2>3, ThinnedRest
  <2>5. Cleared'
    BY <2>1, <2>2 DEF Cleared, Entering, Sector
  <2> QED BY <2>1, <2>2, <2>4, <2>5 DEF RingInv
<1>9. CASE TornErase
  <2>1. up /\ head = Found /\ Off(Found) = 0
    BY <1>2, <1>9 DEF TornErase, Writing, Entering, Off, R
  <2>2. written' = written /\ crashes' = crashes + 1 /\ ~up' /\ ~erased'
    BY <1>9 DEF TornErase, Reset
  <2>3. Thinned
    <3>1. PICK blank \in SUBSET Sector(head) : \E junk \in SUBSET (Sector(head) \ blank) :
            flash' = [s \in Slot |-> IF s \in blank THEN Blank
                                     ELSE IF s \in junk THEN Junk ELSE flash[s]]
      BY <1>9 DEF TornErase
    <3>2. PICK junk \in SUBSET (Sector(head) \ blank) :
            flash' = [s \in Slot |-> IF s \in blank THEN Blank
                                     ELSE IF s \in junk THEN Junk ELSE flash[s]]
      BY <3>1
    <3> QED BY <2>1, <3>2 DEF Thinned, Sector, Sec, R, Magic, Blank, Junk
  <2>4. /\ Found' = Found
        /\ Whole' /\ Tip' /\ Fresh' /\ OldBySector' /\ OldBySlot' /\ ReadsBack(Found)'
    BY <1>1, <2>1, <2>2, <2>3, ThinnedRest
  <2> QED BY <2>2, <2>4 DEF RingInv, Cleared
<1>10. CASE PowerLoss
  <2>1. Found' = Found
    BY <1>10 DEF PowerLoss, Found, Landed, Scanned, Latest, Best, Magic, Beats
  <2>2. flash' = flash /\ written' = written /\ crashes' = crashes + 1 /\ ~up' /\ ~erased'
    BY <1>10 DEF PowerLoss, Reset
  <2>3. Whole' /\ Tip' /\ Fresh' /\ OldBySector' /\ ReadsBack(Found)'
    BY <1>2, <2>1, <2>2 DEF Whole, Tip, Newest, Fresh, OldBySector, ReadsBack, Magic
  <2>4. OldBySlot'
    <3> SUFFICES ASSUME NEW s \in Slot, Magic(s)
                 PROVE  written - flash[s].n + (crashes + 1) * (R - 1) >= Back(Found, s)
      BY <2>1, <2>2 DEF OldBySlot, Magic
    <3>1. written - flash[s].n + crashes * (R - 1) >= Back(Found, s)
      BY <1>2 DEF OldBySlot
    <3>2. written \in Nat /\ flash[s].n \in Nat /\ crashes \in Nat
      BY RecTyped, BoundAssumption, SMT DEF FullInv, IInv, RecorderTypeOK
    <3>3. (crashes + 1) * (R - 1) = crashes * (R - 1) + (R - 1) /\ crashes * (R - 1) \in Nat /\ R - 1 \in Nat
      BY <3>2, MoreCrashes, Sizes, SMT
    <3>4. Back(Found, s) \in Int BY FoundOnRing, BacksTyped
    <3> QED BY <3>1, <3>2, <3>3, <3>4, SMT
  <2> QED BY <2>2, <2>3, <2>4 DEF RingInv, Cleared
<1> QED BY <1>4, <1>5, <1>6, <1>7, <1>8, <1>9, <1>10 DEF RecorderNext

LEMMA RingStarts == RecorderInit => FullInv
<1> SUFFICES ASSUME RecorderInit PROVE Ordered /\ RingInv
  BY InitIInv DEF FullInv
<1>1. \A s \in Slot : ~Magic(s) /\ flash[s] = Blank
  BY DEF RecorderInit, Magic, Blank
<1>2. ~up /\ ~erased
  BY DEF RecorderInit
<1>3. Ordered
  BY <1>1, <1>2 DEF Ordered, TotalOrder
<1>4. Scanned = 0 /\ Off(0) = 0
  BY <1>1, ScanEmpty, Sizes, SMT DEF Off
<1>5. Found = 0
  BY <1>4 DEF Found, Landed, Off, R
<1>6. ReadsBack(Found)
  <2> SUFFICES ASSUME NEW k \in 1..SLOTS, \A j \in 1..k : Magic(NthBack(Found, j)) PROVE FALSE
    BY DEF ReadsBack
  <2>1. 1 \in 1..k /\ 1 \in 1..SLOTS BY Sizes, SMT
  <2>2. NthBack(Found, 1) \in Slot BY <2>1, FoundOnRing, AtSlot
  <2> QED BY <1>1, <2>1, <2>2
<1> QED BY <1>1, <1>2, <1>3, <1>4, <1>5, <1>6
    DEF RingInv, Whole, Tip, Fresh, Cleared, OldBySector, OldBySlot

LEMMA FullKept == SECTORS > 1 /\ FullInv /\ [RecorderNext]_recorderVars => FullInv'
<1> SUFFICES ASSUME SECTORS > 1, FullInv, [RecorderNext]_recorderVars PROVE FullInv'
  OBVIOUS
<1>1. IInv' BY NextIInv DEF FullInv
<1>2. Ordered' BY OrderedKept DEF FullInv
<1>3. RingInv' BY <1>1, <1>2, RingKept
<1> QED BY <1>1, <1>2, <1>3 DEF FullInv

\* A partition of two sectors or more keeps every write clean: until a mishap no
\* record is ever programmed over anything but blank flash, whatever was cut
\* short before (blackbox.c 183-192).
THEOREM WritesClean == SECTORS > 1 => (RecorderSpec => CleanWrites)
<1> SUFFICES ASSUME SECTORS > 1 PROVE RecorderSpec => CleanWrites
  OBVIOUS
<1>1. FullInv /\ [RecorderNext]_recorderVars
        => [Program /\ struck = {} => flash[head] = Blank]_recorderVars
  <2> SUFFICES ASSUME FullInv, Program, struck = {} PROVE flash[head] = Blank
    OBVIOUS
  <2>1. head \in Slot BY DEF FullInv, IInv, RecorderTypeOK
  <2>2. head >= head BY <2>1, Sizes, SMT
  <2> QED BY <2>1, <2>2, RoomAhead DEF Program, Writing
<1> QED BY <1>1, RingStarts, FullKept, PTL DEF RecorderSpec, CleanWrites

\* The boot counter orders all records across reboots, and the read-back is
\* newest first without a gap, on a partition of two sectors or more
\* (blackbox.c 143-150, 164-180, 243-261).
THEOREM OrderedRing == SECTORS > 1 => (RecorderSpec => []OrderKept)
<1> SUFFICES ASSUME SECTORS > 1 PROVE RecorderSpec => []OrderKept
  OBVIOUS
<1>1. FullInv => TotalOrder
  BY DEF FullInv, Ordered, TotalOrder
<1>2. FullInv => DumpInOrder
  <2> SUFFICES ASSUME FullInv, up, struck = {}, NEW k \in Dumped PROVE DumpLine(k) = written + 1 - k
    BY DEF DumpInOrder
  <2>1. head = Found /\ ReadsBack(Found) BY DEF FullInv, RingInv
  <2> QED BY <2>1 DEF ReadsBack, NthBack, Dumped, DumpLine
<1> QED BY <1>1, <1>2, RingStarts, FullKept, PTL DEF RecorderSpec, OrderKept

----------------------------------------------------------------------------
(* The promise *)

\* How much the ring is asked to keep: a record in each sector but the one being
\* entered, whatever the resets; or every slot of those sectors, less what a
\* landing may step over after each reset.
KeepFits ==
  \/ KEEP <= SECTORS - 1
  \/ KEEP <= (SECTORS - 1) * R - MAX_CRASHES * (R - 1)

\* What stands in the sector that an erase takes is older than that.
LEMMA ErasedIsOld ==
  ASSUME KeepFits, FullInv, struck = {}, Off(Found) = 0,
         NEW s \in Slot, Magic(s), Sec(s) = Sec(Found)
  PROVE  flash[s].n <= written - KEEP
<1>1. SecBack(Found, s) = SECTORS - 1 /\ Back(Found, s) >= (SECTORS - 1) * R
  BY FoundOnRing, BackOldest
<1>2. /\ written - flash[s].n >= SecBack(Found, s)
      /\ written - flash[s].n + crashes * (R - 1) >= Back(Found, s)
  BY DEF FullInv, RingInv, OldBySector, OldBySlot
<1>3. /\ flash[s].n \in Int /\ written \in Int /\ KEEP \in Int
      /\ crashes \in Nat /\ MAX_CRASHES \in Nat /\ crashes <= MAX_CRASHES
  BY RecTyped, BoundAssumption, SMT DEF FullInv, IInv, RecorderTypeOK
<1>4. CASE KEEP <= SECTORS - 1
  BY <1>1, <1>2, <1>3, <1>4, Sizes, SMT
<1>5. CASE KEEP <= (SECTORS - 1) * R - MAX_CRASHES * (R - 1)
  <2>1. /\ crashes * (R - 1) <= MAX_CRASHES * (R - 1)
        /\ crashes * (R - 1) \in Int /\ MAX_CRASHES * (R - 1) \in Int /\ (SECTORS - 1) * R \in Int
    <3>1. crashes * (R - 1) <= MAX_CRASHES * (R - 1) BY <1>3, MoreCrashes
    <3> QED BY <1>3, <3>1, Sizes, SMT
  <2>2. Back(Found, s) \in Int BY FoundOnRing, BacksTyped
  <2> QED BY <1>1, <1>2, <1>3, <1>5, <2>1, <2>2, SMT
<1> QED BY <1>4, <1>5 DEF KeepFits

\* So an erase, whole or cut short, only forgets.
LEMMA ThinnedForgets ==
  ASSUME KeepFits, FullInv, struck = {}, struck' = {}, Off(Found) = 0, Thinned, written' = written
  PROVE  Log!Forget
<1>1. Readable' \subseteq Readable
  <2> SUFFICES ASSUME NEW s \in Slot, Magic(s)', flash'[s].n # 0 PROVE flash'[s].n \in Readable
    BY DEF Readable
  <2> QED BY ThinnedMagic DEF Readable
<1>2. ASSUME NEW n \in Readable, n > written - KEEP PROVE n \in Readable'
  <2>1. PICK s \in Slot : Magic(s) /\ flash[s].n = n /\ n # 0
    BY DEF Readable
  <2>2. flash'[s] = flash[s]
    <3> SUFFICES ASSUME Sec(s) = Sec(Found) PROVE FALSE
      BY DEF Thinned
    <3>1. n <= written - KEEP BY <2>1, ErasedIsOld
    <3>2. n \in Nat /\ written \in Int /\ KEEP \in Int
      BY <2>1, RecTyped, BoundAssumption, SMT DEF FullInv, IInv, RecorderTypeOK
    <3> QED BY <1>2, <3>1, <3>2, SMT
  <2> QED BY <2>1, <2>2 DEF Readable, Magic
<1> QED BY <1>1, <1>2 DEF Log!Forget, Log!Latest

\* A whole write adds its event.
LEMMA ProgramWrites ==
  ASSUME FullInv, Program, struck = {} PROVE Log!Write
<1> PICK h \in Slot : h = head
  BY DEF FullInv, IInv, RecorderTypeOK
<1>1. DOMAIN flash = Slot /\ written \in Nat
  BY BoundAssumption, SMT DEF FullInv, IInv, RecorderTypeOK
<1>2. flash[h] = Blank
  <2>1. head >= head BY Sizes, SMT
  <2> QED BY <1>1, <2>1, RoomAhead DEF Program, Writing
<1>3. flash' = [flash EXCEPT ![h] = Record] /\ written' = written + 1 /\ struck' = struck
  BY <1>2 DEF Program, Burnt
<1>4. ~Magic(h) /\ Magic(h)' /\ flash'[h].n = written + 1
  BY <1>1, <1>2, <1>3 DEF Magic, Blank, Record
<1>5. \A s \in Slot \ {h} : flash'[s] = flash[s]
  BY <1>1, <1>3
<1>6. written + 1 # 0
  BY <1>1, SMT
<1>7. Readable' = Readable \cup {written + 1}
  <2>1. ASSUME NEW n \in Readable' PROVE n \in Readable \cup {written + 1}
    <3>1. PICK s \in Slot : Magic(s)' /\ flash'[s].n = n /\ n # 0 BY <2>1 DEF Readable
    <3> QED BY <1>4, <1>5, <3>1 DEF Readable, Magic
  <2>2. ASSUME NEW n \in Readable PROVE n \in Readable'
    <3>1. PICK s \in Slot : Magic(s) /\ flash[s].n = n /\ n # 0 BY <2>2 DEF Readable
    <3>2. s # h BY <1>4, <3>1
    <3> QED BY <1>5, <3>1, <3>2 DEF Readable, Magic
  <2>3. written + 1 \in Readable'
    BY <1>1, <1>4, <1>6 DEF Readable
  <2> QED BY <2>1, <2>2, <2>3
<1> QED BY <1>3, <1>7 DEF Log!Write

\* A step never makes up an event, whatever the mishap.
LEMMA NothingMadeUp ==
  ASSUME FullInv, [RecorderNext]_recorderVars
  PROVE  written' \in {written, written + 1} /\ Readable' \subseteq Readable \cup {written'}
<1> SUFFICES /\ written' \in {written, written + 1}
             /\ \A s \in Slot : Magic(s)' /\ flash'[s].n # 0
                                  => (Magic(s) /\ flash'[s] = flash[s]) \/ flash'[s].n = written'
  BY DEF Readable
<1>1. /\ flash \in [Slot -> Rec \cup {Blank, Junk}] /\ head \in Slot
  BY DEF FullInv, IInv, RecorderTypeOK
<1>2. CASE flash' = flash /\ written' = written
  BY <1>2 DEF Magic
<1>3. CASE Erase
  BY <1>3 DEF Erase, hist, Magic, Blank
<1>4. CASE TornErase
  <2>1. PICK blank \in SUBSET Sector(head) : \E junk \in SUBSET (Sector(head) \ blank) :
          flash' = [s \in Slot |-> IF s \in blank THEN Blank
                                   ELSE IF s \in junk THEN Junk ELSE flash[s]]
    BY <1>4 DEF TornErase
  <2>2. PICK junk \in SUBSET (Sector(head) \ blank) :
          flash' = [s \in Slot |-> IF s \in blank THEN Blank
                                   ELSE IF s \in junk THEN Junk ELSE flash[s]]
    BY <2>1
  <2> QED BY <1>4, <2>2 DEF TornErase, Reset, Magic, Blank, Junk
<1>5. CASE TornWrite
  <2>1. PICK odd \in SUBSET (Mishaps \cap {"stuck"}) :
          flash' = [flash EXCEPT ![head] = IF odd = {} THEN Junk ELSE Stuck]
    BY <1>5 DEF TornWrite
  <2> QED BY <1>1, <1>5, <2>1 DEF TornWrite, Reset, Magic, Junk, Stuck
<1>6. CASE Program
  <2>1. PICK r \in Burnt : flash' = [flash EXCEPT ![head] = r]
    BY <1>6 DEF Program
  <2>2. r = Record \/ r = Junk \/ r.n = 0
    BY DEF Burnt
  <2> QED BY <1>1, <1>6, <2>1, <2>2 DEF Program, Magic, Junk, Record
<1> QED BY <1>2, <1>3, <1>4, <1>5, <1>6
    DEF RecorderNext, BlackboxInit, PowerLoss, Reset, recorderVars, hist

\* One step of the recorder is one of the log, or none.
LEMMA LogStep ==
  ASSUME SECTORS > 1, KeepFits, FullInv, [RecorderNext]_recorderVars
  PROVE  [Log!Write \/ Log!Forget \/ Log!Mishap]_(Log!vars)
<1>1. CASE struck' # {}
  BY <1>1, NothingMadeUp DEF Log!Mishap
<1>2. ASSUME struck' = {} PROVE Log!Write \/ Log!Forget \/ UNCHANGED Log!vars
  <2>1. struck = {}
    BY <1>2, StruckStays
  <2>2. up => head = Found
    BY <2>1 DEF FullInv, RingInv
  <2>3. CASE flash' = flash /\ written' = written
    BY <1>2, <2>1, <2>3 DEF Log!vars, Readable, Magic
  <2>4. CASE Program
    BY <2>1, <2>4, ProgramWrites
  <2>5. CASE Erase
    <3>1. Off(Found) = 0 /\ written' = written
      BY <2>2, <2>5 DEF Erase, Writing, Entering, Off, R, hist
    <3>2. Thinned
      BY <2>2, <2>5 DEF Erase, Writing, Thinned, Sector, Sec, R, Magic, Blank
    <3> QED BY <1>2, <2>1, <3>1, <3>2, ThinnedForgets
  <2>6. CASE TornErase
    <3>1. Off(Found) = 0 /\ written' = written
      BY <2>2, <2>6 DEF TornErase, Writing, Entering, Reset, Off, R
    <3>2. Thinned
      <4>1. PICK blank \in SUBSET Sector(head) : \E junk \in SUBSET (Sector(head) \ blank) :
              flash' = [s \in Slot |-> IF s \in blank THEN Blank
                                       ELSE IF s \in junk THEN Junk ELSE flash[s]]
        BY <2>6 DEF TornErase
      <4>2. PICK junk \in SUBSET (Sector(head) \ blank) :
              flash' = [s \in Slot |-> IF s \in blank THEN Blank
                                       ELSE IF s \in junk THEN Junk ELSE flash[s]]
        BY <4>1
      <4> QED BY <2>2, <2>6, <4>2 DEF TornErase, Writing, Thinned, Sector, Sec, R, Magic, Blank, Junk
    <3> QED BY <1>2, <2>1, <3>1, <3>2, ThinnedForgets
  <2>7. CASE TornWrite
    <3>1. PICK odd \in SUBSET (Mishaps \cap {"stuck"}) :
            flash' = [flash EXCEPT ![head] = IF odd = {} THEN Junk ELSE Stuck] /\ struck' = struck \cup odd
      BY <2>7 DEF TornWrite
    <3>2. flash' = [flash EXCEPT ![head] = Junk]
      BY <1>2, <3>1
    <3>3. head \in Slot /\ DOMAIN flash = Slot /\ flash[head] = Blank /\ written' = written
      BY <2>7 DEF TornWrite, Reset, FullInv, IInv, RecorderTypeOK
    <3>4. \A s \in Slot : (Magic(s)' <=> Magic(s)) /\ (Magic(s) => flash'[s] = flash[s])
      BY <3>2, <3>3 DEF Magic, Blank, Junk
    <3>5. Readable' = Readable
      <4>1. \A n : n \in Readable <=> n # 0 /\ \E s \in Slot : Magic(s) /\ flash[s].n = n
        BY DEF Readable
      <4>2. \A n : n \in Readable' <=> n # 0 /\ \E s \in Slot : Magic(s)' /\ flash'[s].n = n
        BY DEF Readable
      <4>3. \A n : n \in Readable' <=> n \in Readable
        BY <3>4, <4>1, <4>2
      <4>4. Readable \subseteq Readable' /\ Readable' \subseteq Readable
        BY <4>3
      <4> QED BY <4>4
    <3> QED BY <1>2, <2>1, <3>3, <3>5 DEF Log!vars
  <2> QED BY <2>3, <2>4, <2>5, <2>6, <2>7
      DEF RecorderNext, BlackboxInit, PowerLoss, Reset, recorderVars, hist
<1> QED BY <1>1, <1>2

\* The ring of blackbox.c is the flight recorder it says it is: of a partition
\* of two sectors or more it keeps the latest KEEP records, through writes,
\* erases and resets at any moment, until one of the mishaps.
THEOREM RingIsLog == SECTORS > 1 /\ KeepFits => (RecorderSpec => ForgetsOldest)
<1> SUFFICES ASSUME SECTORS > 1, KeepFits PROVE RecorderSpec => ForgetsOldest
  OBVIOUS
<1>1. RecorderInit => Log!Init
  <2> SUFFICES ASSUME RecorderInit PROVE Log!Init
    OBVIOUS
  <2>1. \A s \in Slot : ~Magic(s) BY DEF RecorderInit, Magic, Blank
  <2> QED BY <2>1 DEF RecorderInit, Log!Init, Readable
<1>2. FullInv /\ [RecorderNext]_recorderVars => [Log!Write \/ Log!Forget \/ Log!Mishap]_(Log!vars)
  BY LogStep
<1> QED BY <1>1, <1>2, RingStarts, FullKept, PTL DEF RecorderSpec, ForgetsOldest, Log!Spec

\* A ring that only forgets its oldest records can always read back the latest
\* KEEP of them: what the refinement of EventLog means to whoever asks a blade
\* why it rebooted (blackbox.c 195-200, 243-261).
THEOREM Remembered == ForgetsOldest => []Log!LatestKept
<1> DEFINE I == written \in Nat /\ Log!LatestKept
<1> USE BoundAssumption
<1>1. Log!Init => I
  BY SMT DEF Log!Init, Log!LatestKept, Log!Latest
<1>2. I /\ [Log!Write \/ Log!Forget \/ Log!Mishap]_(Log!vars) => I'
  <2>1. ASSUME I, Log!Write PROVE I'
    BY <2>1, SMT DEF Log!Write, Log!LatestKept, Log!Latest
  <2>2. ASSUME I, Log!Forget PROVE I'
    BY <2>2 DEF Log!Forget, Log!LatestKept, Log!Latest
  <2>3. ASSUME I, Log!Mishap PROVE I'
    BY <2>3 DEF Log!Mishap, Log!LatestKept
  <2>4. ASSUME I, UNCHANGED Log!vars PROVE I'
    BY <2>4 DEF Log!vars, Log!LatestKept, Log!Latest
  <2> QED BY <2>1, <2>2, <2>3, <2>4
<1> QED BY <1>1, <1>2, PTL DEF ForgetsOldest, Log!Spec

\* So whoever asks the blade why it rebooted is told: the latest KEEP records
\* can always be read back.
COROLLARY ToldOnReboot == SECTORS > 1 /\ KeepFits => (RecorderSpec => []Log!LatestKept)
BY RingIsLog, Remembered
=============================================================================
