----------------------------- MODULE BlackBox ------------------------------
(***************************************************************************)
(* The flight recorder of blackbox.c: a ring of fixed records in raw flash *)
(* whose write head is found again, after every reset, by a scan for the   *)
(* highest (boot, seq).  A sector is erased just before its first slot is  *)
(* written.  The power may go at any moment, in the middle of an erase or  *)
(* of a write too.                                                         *)
(*                                                                         *)
(* A record carries a number of its own that the code does not have: how   *)
(* many have been written ever.  Only the properties look at it.           *)
(***************************************************************************)
EXTENDS Integers, FiniteSets

CONSTANTS
  SECTORS,           \* sectors of the partition
  RECS_PER_SECTOR,   \* records in one
  KEEP,              \* bound: records a crash-ridden ring still holds
  MAX_RECORDS,       \* bound: records written ever
  MAX_CRASHES,       \* bound: resets
  Mishaps            \* which rarer faults may come with a reset (below)

\* "nvs": app_main found the NVS partition full and erased it.
\* "oom": there is no memory for the scan.
\* "stuck": a torn write leaves a good magic before a boot number whose bits
\* were not all programmed, and reads higher than any real one.
ASSUME MishapAssumption == Mishaps \subseteq {"nvs", "oom", "stuck"}
ASSUME RingAssumption == SECTORS \in Nat \ {0} /\ RECS_PER_SECTOR \in Nat \ {0}
ASSUME BoundAssumption == KEEP \in Nat /\ MAX_RECORDS \in Nat /\ MAX_CRASHES \in Nat

SLOTS == SECTORS * RECS_PER_SECTOR
Slot  == 0..SLOTS - 1

VARIABLES
  flash,     \* the partition
  nvsBoot,   \* the boot counter in NVS
  up,        \* blackbox_init has run and power is on
  boot, seq, head,   \* s_boot, s_seq, s_head
  erased,    \* the sector under the head has been erased for this write
  written,   \* records ever written (history)
  struck,    \* the mishaps there have been (history)
  crashes    \* resets so far (bound)

hist == <<written, struck, crashes>>
recorderVars == <<flash, nvsBoot, up, boot, seq, head, erased, hist>>

Blank == [magic |-> "blank"]         \* erased flash: 0xffffffff
Junk  == [magic |-> "junk"]          \* neither blank nor the magic
HIGH  == MAX_CRASHES + 2             \* an unprogrammed boot number
Rec   == [magic : {"BBX1"}, boot : 0..HIGH, seq : 0..MAX_RECORDS + 1, n : 0..MAX_RECORDS]

RecorderTypeOK ==
  /\ flash \in [Slot -> Rec \cup {Blank, Junk}]
  /\ nvsBoot \in 0..MAX_CRASHES + 1 /\ boot \in 0..MAX_CRASHES + 1
  /\ up \in BOOLEAN /\ erased \in BOOLEAN
  /\ seq \in 0..MAX_RECORDS /\ head \in Slot
  /\ struck \subseteq Mishaps
  /\ written \in 0..MAX_RECORDS /\ crashes \in 0..MAX_CRASHES

Magic(s)  == flash[s].magic = "BBX1"
Sector(s) == {t \in Slot : t \div RECS_PER_SECTOR = s \div RECS_PER_SECTOR}
Entering  == head % RECS_PER_SECTOR = 0

----------------------------------------------------------------------------
(* blackbox_init *)

\* Seeded slip: the scan compares sequence numbers, forgetting the boot.
BeatsBySeq(a, b) == a.seq > b.seq

Beats(a, b) == a.boot > b.boot \/ (a.boot = b.boot /\ a.seq > b.seq)

\* The scan keeps the first slot that no other beats.
Best ==
  {s \in Slot :
    /\ Magic(s)
    /\ \A t \in Slot : Magic(t) => ~Beats(flash[t], flash[s])
    /\ \A t \in Slot : Magic(t) /\ t < s => Beats(flash[s], flash[t])}

Latest == CHOOSE s \in Best : TRUE

Scanned == IF Best = {} THEN 0 ELSE (Latest + 1) % SLOTS

\* Seeded slip: the landing slot is never looked at.
LandedAnyway(h) == h

\* Never resume in the middle of a sector on flash that is not blank.
Landed(h) ==
  IF h % RECS_PER_SECTOR # 0 /\ flash[h] # Blank
  THEN ((h \div RECS_PER_SECTOR + 1) % SECTORS) * RECS_PER_SECTOR ELSE h

\* Seeded slip: the counter is read but not advanced.
BootUncounted ==
  /\ ~up /\ up' = TRUE
  /\ nvsBoot' = nvsBoot /\ boot' = nvsBoot
  /\ head' = Landed(Scanned)
  /\ seq' = 0 /\ erased' = FALSE
  /\ UNCHANGED <<flash, hist>>

BlackboxInit ==
  /\ ~up /\ up' = TRUE
  /\ \E odd \in SUBSET (Mishaps \cap {"nvs", "oom"}) :
       /\ nvsBoot' = 1 + (IF "nvs" \in odd THEN 0 ELSE nvsBoot)
       /\ head' = Landed(IF "oom" \in odd THEN 0 ELSE Scanned)
       /\ struck' = struck \cup odd
  /\ boot' = nvsBoot'
  /\ seq' = 0 /\ erased' = FALSE
  /\ UNCHANGED <<flash, written, crashes>>

----------------------------------------------------------------------------
(* blackbox_event: write_record under the lock, one flash command at a time *)

Writing == up /\ written < MAX_RECORDS

Erase ==
  /\ Writing /\ Entering /\ ~erased
  /\ flash' = [s \in Slot |-> IF s \in Sector(head) THEN Blank ELSE flash[s]]
  /\ erased' = TRUE
  /\ UNCHANGED <<nvsBoot, up, boot, seq, head, hist>>

Record == [magic |-> "BBX1", boot |-> boot, seq |-> seq + 1, n |-> written + 1]

\* Programming flash only ever clears bits: on anything but blank flash it
\* leaves junk, or a record of lower numbers that nobody wrote.
Burnt ==
  IF flash[head] = Blank THEN {Record}
  ELSE {Junk} \cup [magic : {"BBX1"}, boot : 0..boot, seq : 0..seq + 1, n : {0}]

Program ==
  /\ Writing /\ (Entering => erased)
  /\ \E r \in Burnt : flash' = [flash EXCEPT ![head] = r]
  /\ seq' = seq + 1 /\ written' = written + 1
  /\ head' = (head + 1) % SLOTS /\ erased' = FALSE
  /\ UNCHANGED <<nvsBoot, up, boot, struck, crashes>>

----------------------------------------------------------------------------
(* Resets *)

Reset ==
  /\ up /\ crashes < MAX_CRASHES
  /\ up' = FALSE /\ crashes' = crashes + 1
  /\ boot' = 0 /\ seq' = 0 /\ head' = 0 /\ erased' = FALSE
  /\ UNCHANGED <<nvsBoot, written>>

PowerLoss == Reset /\ UNCHANGED <<flash, struck>>

\* In the middle of an erase, each slot of the sector is as it was, junk or
\* blank.
TornErase ==
  /\ Writing /\ Entering /\ ~erased
  /\ \E blank \in SUBSET Sector(head) : \E junk \in SUBSET (Sector(head) \ blank) :
       flash' = [s \in Slot |-> IF s \in blank THEN Blank
                                ELSE IF s \in junk THEN Junk ELSE flash[s]]
  /\ Reset /\ UNCHANGED struck

\* A record whose magic and, at best, nothing else was programmed in full.
Stuck == [magic |-> "BBX1", boot |-> HIGH, seq |-> MAX_RECORDS + 1, n |-> 0]

\* In the middle of a write: had nothing been programmed yet, that is PowerLoss.
TornWrite ==
  /\ Writing /\ (Entering => erased) /\ flash[head] = Blank
  /\ \E odd \in SUBSET (Mishaps \cap {"stuck"}) :
       /\ flash' = [flash EXCEPT ![head] = IF odd = {} THEN Junk ELSE Stuck]
       /\ struck' = struck \cup odd
  /\ Reset

----------------------------------------------------------------------------
(* The specification *)

\* A partition fresh from the factory.
RecorderInit ==
  /\ flash = [s \in Slot |-> Blank]
  /\ nvsBoot = 0 /\ up = FALSE
  /\ boot = 0 /\ seq = 0 /\ head = 0 /\ erased = FALSE
  /\ written = 0 /\ struck = {} /\ crashes = 0

RecorderNext == BlackboxInit \/ Erase \/ Program \/ PowerLoss \/ TornErase \/ TornWrite

RecorderSpec == RecorderInit /\ [][RecorderNext]_recorderVars

----------------------------------------------------------------------------
(* Properties *)

\* blackbox_http_dump: back from the head, up to the first slot without magic.
Dumped ==
  {k \in 1..SLOTS : \A j \in 1..k : Magic((head + SLOTS - j) % SLOTS)}

DumpLine(k) == flash[(head + SLOTS - k) % SLOTS].n

\* What a stuck record (number 0) says is not worth reading.
Readable == {flash[s].n : s \in {t \in Slot : Magic(t)}} \ {0}

\* blackbox.c says the landing check "keeps every write clean": a write only
\* ever lands on blank flash.  So it does while each scan succeeds; a boot with
\* no memory to scan restarts the ring at slot 0, an erase cut short there
\* leaves a sector of blanks and leftovers, and the next boot lands among them.
CleanWrites == [][Program /\ struck = {} => flash[head] = Blank]_recorderVars

\* The boot counter is a "total order across reboots": of two records in the
\* ring the one written later is the one the scan holds to be later.  It is
\* until a full NVS partition has been erased and counts from 1 again; neither
\* a boot without memory nor a torn write disturbs it.
TotalOrder ==
  "nvs" \notin struck =>
    \A s, t \in Slot :
      Magic(s) /\ Magic(t) /\ 0 < flash[s].n /\ flash[s].n < flash[t].n
        => Beats(flash[t], flash[s])

\* The read-back is newest first without a gap: its k-th line is the k-th
\* latest record.
DumpInOrder == up /\ struck = {} => \A k \in Dumped : DumpLine(k) = written + 1 - k

\* Both orders, the one of the scan and the one of the read-back.
OrderKept == TotalOrder /\ DumpInOrder

\* The ring is a flight recorder: until one of the mishaps strikes, it only
\* forgets its oldest records, and a torn write or erase costs nothing newer.
Log == INSTANCE EventLog WITH Keep <- KEEP, kept <- Readable, sound <- struck = {}
ForgetsOldest == Log!Spec
=============================================================================
