--------------------------- MODULE Kobzar_proofs ---------------------------
(***************************************************************************)
(* What the display keeps of its peers and of the mask, proved for any     *)
(* fleet, any sizes and any budget.  What it keeps of one blade comes of   *)
(* invariants of that blade's own; what it charts comes of sums over the   *)
(* fleet and over the cells of a ring, and rests on the lemmas of Sums.    *)
(***************************************************************************)
EXTENDS Kobzar, Sums, TLAPS

----------------------------------------------------------------------------
(* What is a blade's own *)

One(p) == IF p THEN 1 ELSE 0

\* The histories of a blade's own.
HistOK ==
  /\ hist = [of |-> hist.of, clicks |-> hist.clicks, refused |-> hist.refused,
             charted |-> hist.charted, recent |-> hist.recent, ended |-> hist.ended,
             slip |-> hist.slip]
  /\ hist.of \in [Blade -> HistState]
  /\ hist.ended \in Nat /\ hist.slip \in BOOLEAN

\* A line is owed when uptime has run backwards unread, and another when a
\* blade has restarted unheard; each has a death to itself.
LinesDue ==
  \A b \in Blade :
    hist.of[b].lines + One(seen[b].known /\ heard[b].last < seen[b].up)
      + One(blade[b].seq < heard[b].last) <= hist.of[b].deaths

\* A fold can come of a count that was seen, or heard, and is gone: heard as
\* zero already, or zero in the blade and still to be heard.
FoldAhead(b) ==
  /\ heard[b].clicks > 0 \/ seen[b].clicks > 0
  /\ heard[b].clicks = 0 \/ blade[b].clicks = 0

FoldsDue ==
  \A b \in Blade :
    /\ blade[b].pc # "serving" => blade[b].clicks = 0
    /\ hist.of[b].folds + One(FoldAhead(b)) <= hist.of[b].deaths

\* A blade that has not restarted is as far ahead as frames were lost; one that
\* has cannot have sent more frames than were lost.
WindowKept ==
  \A b \in Blade :
    LET h == heard[b]  o == hist.of[b] IN
      h.fresh # "never" =>
        /\ h.first <= h.last
        /\ IF o.reborn THEN o.missed >= blade[b].seq ELSE blade[b].seq = h.last + o.missed
        /\ IF o.blur THEN h.rx >= Span(h) - o.lost ELSE h.rx = Span(h) - o.lost

\* A record that is not in flash is that of the reign that lasts.
HallKept ==
  ~hist.slip =>
    /\ hist.ended <= hall.saved /\ hall.saved <= hall.record
    /\ hall.saved < hall.record => hall.leader # "none" /\ hall.record = hall.reign

PInv == PeersOK /\ HallOK /\ HistOK /\ LinesDue /\ FoldsDue /\ WindowKept /\ HallKept

----------------------------------------------------------------------------

LEMMA InitPInv == Init => PInv
<1> SUFFICES ASSUME Init PROVE PInv
  OBVIOUS
<1>1. PeersOK /\ HallOK /\ HistOK
  BY SizesAssumption DEF Init, PeersOK, HallOK, HistOK, BladeState, HeardState, HistState,
     Off, Never, Unseen, NewHist, NewHall
<1>2. LinesDue /\ FoldsDue /\ WindowKept /\ HallKept
  BY DEF Init, LinesDue, FoldsDue, FoldAhead, WindowKept, HallKept, One,
     Off, Never, Unseen, NewHist, NewHall
<1> QED BY <1>1, <1>2 DEF PInv

LEMMA Ledger ==
  ASSUME NEW r \in BladeState, NEW c \in Nat, NEW n \in Nat
  PROVE  LET v == [r EXCEPT !.clicks = c, !.flash = n]
         IN  v \in BladeState /\ v.pc = r.pc /\ v.seq = r.seq /\ v.clicks = c
BY DEF BladeState

\* A step of a blade that neither it nor the display can tell from the outside.
LEMMA BladeStep ==
  ASSUME PInv, NEW b \in Blade,
         PowerUp(b) \/ Serve(b) \/ Click(b) \/ Refuse(b) \/ ResetStats(b) \/ Wipe(b)
  PROVE  PInv'
<1>1. /\ heard' = heard /\ seen' = seen /\ hall' = hall
      /\ hist'.of = hist.of /\ hist'.ended = hist.ended
      /\ hist'.slip = hist.slip /\ HistOK'
  BY DEF PInv, HistOK, PowerUp, Serve, Click, Refuse, ResetStats, Wipe
<1>2. /\ blade' \in [Blade -> BladeState]
      /\ \A c \in Blade :
           /\ blade'[c].seq = blade[c].seq
           /\ blade[c].clicks > 0 => blade'[c].clicks > 0
           /\ blade'[c].pc # "serving" => blade'[c].clicks = 0
  <2>1. blade \in [Blade -> BladeState] /\ blade[b] \in BladeState
    BY DEF PInv, PeersOK
  <2>2. \A c \in Blade : blade[c].pc # "serving" => blade[c].clicks = 0
    BY DEF PInv, FoldsDue
  <2>3. CASE PowerUp(b)
    BY <2>1, <2>2, <2>3 DEF PowerUp, BladeState
  <2>4. CASE Serve(b)
    <3>1. PICK opened \in BOOLEAN :
            blade' = [blade EXCEPT ![b].pc = "serving", ![b].nvs = opened,
                                   ![b].clicks = IF opened THEN blade[b].flash ELSE 0]
      BY <2>4, Zenon DEF Serve
    <3>2. blade[b].pc = "booting"
      BY <2>4 DEF Serve
    <3>3. blade[b].clicks = 0
      BY <2>2, <3>2
    <3> DEFINE n == IF opened THEN blade[b].flash ELSE 0
    <3>4. n \in Nat
      BY <2>1 DEF BladeState
    <3>5. blade' = [blade EXCEPT ![b] = [blade[b] EXCEPT !.pc = "serving", !.nvs = opened,
                                                        !.clicks = n]]
      BY <3>1, <2>1
    <3> HIDE DEF n
    <3> DEFINE v == [blade[b] EXCEPT !.pc = "serving", !.nvs = opened, !.clicks = n]
    <3>6. v \in BladeState /\ v.pc = "serving" /\ v.seq = blade[b].seq
      BY <2>1, <3>4 DEF BladeState
    <3>7. blade' = [blade EXCEPT ![b] = v]
      BY <3>5
    <3> HIDE DEF v
    <3> QED BY <2>1, <2>2, <3>3, <3>6, <3>7
  <2>5. CASE Click(b)
    <3>1. PICK due \in BOOLEAN :
            blade' = [blade EXCEPT ![b].clicks = blade[b].clicks + 1,
                                   ![b].flash = IF blade[b].nvs /\ due
                                                THEN blade[b].clicks + 1 ELSE @]
      BY <2>5, Zenon DEF Click
    <3>2. blade[b].pc = "serving"
      BY <2>5, Zenon DEF Click
    <3> DEFINE n == IF blade[b].nvs /\ due THEN blade[b].clicks + 1 ELSE blade[b].flash
    <3>3. n \in Nat
      BY <2>1 DEF BladeState
    <3>4. blade' = [blade EXCEPT ![b] = [blade[b] EXCEPT !.clicks = blade[b].clicks + 1,
                                                        !.flash = n]]
      BY <3>1, <2>1
    <3> HIDE DEF n
    <3> DEFINE v == [blade[b] EXCEPT !.clicks = blade[b].clicks + 1, !.flash = n]
    <3>5. v \in BladeState /\ v.pc = "serving" /\ v.seq = blade[b].seq /\ v.clicks > 0
      <4>1. blade[b] \in BladeState /\ blade[b].clicks + 1 \in Nat /\ blade[b].clicks + 1 > 0
        BY <2>1 DEF BladeState
      <4> DEFINE c == blade[b].clicks + 1
      <4>2. v = [blade[b] EXCEPT !.clicks = c, !.flash = n]
        OBVIOUS
      <4> HIDE DEF c
      <4>3. v \in BladeState /\ v.pc = blade[b].pc /\ v.seq = blade[b].seq /\ v.clicks = c
        BY <3>3, <4>1, <4>2, Ledger DEF c
      <4> QED BY <3>2, <4>1, <4>3 DEF c
    <3>6. blade' = [blade EXCEPT ![b] = v]
      BY <3>4
    <3> HIDE DEF v
    <3> QED BY <2>1, <2>2, <3>5, <3>6
  <2>6. CASE Refuse(b) \/ ResetStats(b) \/ Wipe(b)
    BY <2>1, <2>2, <2>6 DEF Refuse, ResetStats, Wipe, BladeState
  <2> QED BY <2>3, <2>4, <2>5, <2>6
<1>3. PeersOK' /\ HallOK' /\ HallKept'
  BY <1>1, <1>2 DEF PInv, PeersOK, HallOK, HallKept
<1>4. LinesDue' /\ WindowKept'
  BY <1>1, <1>2 DEF PInv, LinesDue, WindowKept, Span
<1>5. FoldsDue'
  <2> SUFFICES ASSUME NEW c \in Blade
               PROVE  /\ blade'[c].pc # "serving" => blade'[c].clicks = 0
                      /\ hist'.of[c].folds + One(FoldAhead(c)') <= hist'.of[c].deaths
    BY DEF FoldsDue
  <2>1. FoldAhead(c)' => FoldAhead(c)
    BY <1>1, <1>2 DEF PInv, FoldAhead, PeersOK, BladeState, HeardState
  <2>2. hist.of[c].folds \in Nat /\ hist.of[c].deaths \in Nat
    BY DEF PInv, HistOK, HistState
  <2>3. hist.of[c].folds + One(FoldAhead(c)) <= hist.of[c].deaths
    BY DEF PInv, FoldsDue
  <2> QED BY <1>1, <1>2, <2>1, <2>2, <2>3 DEF One
<1> QED BY <1>1, <1>3, <1>4, <1>5 DEF PInv

LEMMA Died ==
  ASSUME NEW r \in HistState, NEW n \in Nat
  PROVE  LET o == [r EXCEPT !.deaths = n, !.reborn = TRUE]
         IN  /\ o \in HistState /\ o.deaths = n /\ o.reborn = TRUE
             /\ o.lines = r.lines /\ o.folds = r.folds
             /\ o.missed = r.missed /\ o.lost = r.lost /\ o.blur = r.blur
BY DEF HistState

\* A restart gives leave for one more of each.
LEMMA CrashStep == ASSUME PInv, NEW b \in Blade, Crash(b) PROVE PInv'
<1>1. /\ heard' = heard /\ seen' = seen /\ hall' = hall
      /\ blade' = [blade EXCEPT ![b] = [Off EXCEPT !.flash = blade[b].flash]]
      /\ hist' = [hist EXCEPT !.of[b].deaths = @ + 1, !.of[b].reborn = TRUE]
  BY DEF Crash
<1> DEFINE n == hist.of[b].deaths + 1
           o == [hist.of[b] EXCEPT !.deaths = n, !.reborn = TRUE]
<1>2. /\ o \in HistState /\ o.deaths = hist.of[b].deaths + 1 /\ o.reborn = TRUE
      /\ o.lines = hist.of[b].lines /\ o.folds = hist.of[b].folds
      /\ o.missed = hist.of[b].missed /\ o.lost = hist.of[b].lost /\ o.blur = hist.of[b].blur
  <2>1. hist.of[b] \in HistState /\ n \in Nat
    BY DEF PInv, HistOK, HistState
  <2> HIDE DEF n
  <2>2. /\ o \in HistState /\ o.deaths = n /\ o.reborn = TRUE
        /\ o.lines = hist.of[b].lines /\ o.folds = hist.of[b].folds
        /\ o.missed = hist.of[b].missed /\ o.lost = hist.of[b].lost
        /\ o.blur = hist.of[b].blur
    BY <2>1, Died
  <2> QED BY <2>2 DEF n
<1>3. /\ hist'.of = [hist.of EXCEPT ![b] = o] /\ hist'.ended = hist.ended
      /\ hist'.slip = hist.slip /\ HistOK'
  BY <1>1, <1>2 DEF PInv, HistOK
<1> HIDE DEF o
<1>4. /\ blade' \in [Blade -> BladeState]
      /\ blade'[b].seq = 0 /\ blade'[b].clicks = 0
      /\ \A c \in Blade \ {b} : blade'[c] = blade[c] /\ hist'.of[c] = hist.of[c]
      /\ hist'.of[b] = o
  BY <1>1, <1>3 DEF PInv, PeersOK, HistOK, BladeState, Off
<1>5. PeersOK' /\ HallOK' /\ HallKept'
  BY <1>1, <1>3, <1>4 DEF PInv, PeersOK, HallOK, HallKept
<1>6. LinesDue'
  BY <1>1, <1>2, <1>4 DEF PInv, LinesDue, HistOK, HistState, PeersOK, HeardState, One
<1>7. FoldsDue'
  BY <1>1, <1>2, <1>4 DEF PInv, FoldsDue, FoldAhead, HistOK, HistState, One
<1>8. WindowKept'
  BY <1>1, <1>2, <1>4 DEF PInv, WindowKept, HistOK, HistState, Span
<1> QED BY <1>3, <1>5, <1>6, <1>7, <1>8 DEF PInv

LEMMA FadeStep == ASSUME PInv, NEW b \in Blade, Fade(b) PROVE PInv'
<1>1. /\ blade' = blade /\ seen' = seen /\ hall' = hall /\ hist' = hist
      /\ heard[b].fresh = "shown" /\ heard' = [heard EXCEPT ![b].fresh = "lost"]
  BY DEF Fade
<1>2. /\ heard' \in [Blade -> HeardState]
      /\ \A c \in Blade :
           /\ heard'[c].fresh # "never" => heard[c].fresh # "never"
           /\ heard'[c].first = heard[c].first /\ heard'[c].last = heard[c].last
           /\ heard'[c].rx = heard[c].rx /\ heard'[c].clicks = heard[c].clicks
  BY <1>1 DEF PInv, PeersOK, HeardState
<1>3. PeersOK' /\ HallOK' /\ HistOK' /\ HallKept'
  BY <1>1, <1>2 DEF PInv, PeersOK, HallOK, HistOK, HallKept
<1>4. LinesDue' /\ FoldsDue' /\ WindowKept'
  BY <1>1, <1>2 DEF PInv, LinesDue, FoldsDue, FoldAhead, WindowKept, Span
<1> QED BY <1>3, <1>4 DEF PInv

\* The display forgets its peers, and what they owe it.
LEMMA RebootStep == ASSUME PInv, Reboot PROVE PInv'
<1>1. /\ blade' = blade /\ heard' = [b \in Blade |-> Never] /\ seen' = [b \in Blade |-> Unseen]
      /\ hall' = NewHall(hall.saved)
      /\ hist'.of = [b \in Blade |-> NewHist] /\ hist'.ended = hist.ended
      /\ hist'.slip = hist.slip
      /\ hist' = [of |-> hist'.of, clicks |-> hist'.clicks, refused |-> hist'.refused,
                  charted |-> hist'.charted, recent |-> hist'.recent, ended |-> hist'.ended,
                  slip |-> hist'.slip]
  BY DEF Reboot, PInv, HistOK
<1>2. PeersOK' /\ HallOK' /\ HistOK' /\ HallKept'
  BY <1>1, SizesAssumption DEF PInv, PeersOK, HallOK, HistOK, HallKept, HeardState, HistState,
     Never, Unseen, NewHist, NewHall
<1>3. LinesDue' /\ FoldsDue' /\ WindowKept'
  BY <1>1 DEF PInv, LinesDue, FoldsDue, FoldAhead, WindowKept, One, Never, Unseen, NewHist,
     PeersOK, BladeState
<1> QED BY <1>2, <1>3 DEF PInv

\* A frame that is lost: the blade is one ahead more.
LEMMA LostStep ==
  ASSUME PInv, NEW b \in Blade,
         blade' = [blade EXCEPT ![b].seq = blade[b].seq + 1],
         hist' = [hist EXCEPT !.of[b].missed = @ + 1],
         UNCHANGED <<heard, seen, hall>>
  PROVE  PInv'
<1>1. /\ hist'.of = [hist.of EXCEPT ![b].missed = @ + 1] /\ hist'.ended = hist.ended
      /\ hist'.slip = hist.slip
      /\ hist' = [of |-> hist'.of, clicks |-> hist'.clicks, refused |-> hist'.refused,
                  charted |-> hist'.charted, recent |-> hist'.recent, ended |-> hist'.ended,
                  slip |-> hist'.slip]
  BY DEF PInv, HistOK
<1>2. /\ hist'.of \in [Blade -> HistState]
      /\ \A c \in Blade :
           LET o == hist.of[c]  p == hist'.of[c] IN
             /\ p.deaths = o.deaths /\ p.lines = o.lines /\ p.folds = o.folds
             /\ p.lost = o.lost /\ p.blur = o.blur /\ p.reborn = o.reborn
             /\ p.missed = IF c = b THEN o.missed + 1 ELSE o.missed
  BY <1>1 DEF PInv, HistOK, HistState
<1>3. /\ blade' \in [Blade -> BladeState]
      /\ \A c \in Blade :
           /\ blade'[c].seq = IF c = b THEN blade[c].seq + 1 ELSE blade[c].seq
           /\ blade'[c].pc = blade[c].pc /\ blade'[c].clicks = blade[c].clicks
  BY DEF PInv, PeersOK, BladeState
<1>4. PeersOK' /\ HallOK' /\ HistOK' /\ HallKept'
  BY <1>1, <1>2, <1>3 DEF PInv, PeersOK, HallOK, HistOK, HallKept
<1>5. LinesDue'
  BY <1>2, <1>3 DEF PInv, LinesDue, One, HistOK, HistState, PeersOK, BladeState, HeardState
<1>6. FoldsDue'
  BY <1>2, <1>3 DEF PInv, FoldsDue, FoldAhead
<1>7. WindowKept'
  BY <1>2, <1>3 DEF PInv, WindowKept, Span, HistOK, HistState, PeersOK, BladeState, HeardState
<1> QED BY <1>4, <1>5, <1>6, <1>7 DEF PInv

\* A frame that gets in: the gap before it is counted, or the window is new.
LEMMA HeardStep ==
  ASSUME PInv, NEW b \in Blade,
         blade' = [blade EXCEPT ![b].seq = blade[b].seq + 1],
         heard' = [heard EXCEPT ![b] = Received(heard[b], blade[b].seq + 1,
                                         Least(blade[b].clicks, WIRE), blade[b].errs)],
         hist' = [hist EXCEPT !.of[b] = Closed(@, heard[b].fresh = "never"
                                                    \/ blade[b].seq + 1 < heard[b].last)],
         UNCHANGED <<seen, hall>>
  PROVE  PInv'
<1> DEFINE s == blade[b].seq + 1
           k == Least(blade[b].clicks, WIRE)
           new == heard[b].fresh = "never" \/ s < heard[b].last
           o == hist.of[b]
           p == Closed(o, new)
           h == heard[b]
           g == Received(h, s, k, blade[b].errs)
<1>1. /\ blade[b] \in BladeState /\ h \in HeardState /\ o \in HistState
      /\ s \in Nat /\ s > 0 /\ k \in 0..WIRE /\ (k = 0 <=> blade[b].clicks = 0)
  BY SizesAssumption DEF PInv, PeersOK, HistOK, BladeState, Least
<1>2. /\ g \in HeardState /\ g.fresh = "new" /\ g.last = s /\ g.clicks = k
      /\ new => g.first = s /\ g.rx = 1
      /\ ~new => g.first = h.first /\ g.rx = h.rx + 1
  <2> HIDE DEF s, k
  <2> QED BY <1>1 DEF Received, NewWindow, HeardState, BladeState
<1>3. /\ p \in HistState /\ p.deaths = o.deaths /\ p.lines = o.lines /\ p.folds = o.folds
      /\ p.missed = 0 /\ ~p.reborn
      /\ new => p.lost = 0 /\ ~p.blur
      /\ ~new => p.lost = o.lost + o.missed /\ (p.blur <=> o.blur \/ o.reborn)
  <2> HIDE DEF s, k, o
  <2>1. CASE new
    BY <1>1, <2>1 DEF Closed, HistState
  <2>2. CASE ~new
    <3> DEFINE n == o.lost + o.missed
               f == o.blur \/ o.reborn
    <3>1. n \in Nat /\ f \in BOOLEAN
      BY <1>1 DEF HistState
    <3>2. p = [o EXCEPT !.missed = 0, !.lost = n, !.blur = f, !.reborn = FALSE]
      BY <2>2 DEF Closed
    <3> HIDE DEF n, f, p
    <3>3. /\ p \in HistState /\ p.deaths = o.deaths /\ p.lines = o.lines
          /\ p.folds = o.folds /\ p.missed = 0 /\ p.reborn = FALSE
          /\ p.lost = n /\ p.blur = f
      <4>1. o \in HistState
        BY <1>1
      <4> DEFINE e == [o EXCEPT !.missed = 0, !.lost = n, !.blur = f, !.reborn = FALSE]
      <4>2. /\ e \in HistState /\ e.deaths = o.deaths /\ e.lines = o.lines
            /\ e.folds = o.folds /\ e.missed = 0 /\ e.reborn = FALSE
            /\ e.lost = n /\ e.blur = f
        BY <4>1, <3>1 DEF HistState
      <4>3. p = e
        BY <3>2
      <4> HIDE DEF e
      <4> QED BY <4>2, <4>3, Zenon
    <3> QED BY <2>2, <3>3 DEF n, f
  <2> QED BY <2>1, <2>2
<1>4. /\ hist'.of = [hist.of EXCEPT ![b] = p] /\ hist'.ended = hist.ended
      /\ hist'.slip = hist.slip /\ HistOK'
  BY <1>3 DEF PInv, HistOK
<1>5. /\ \A c \in Blade \ {b} : /\ blade'[c] = blade[c] /\ heard'[c] = heard[c]
                                /\ hist'.of[c] = hist.of[c]
      /\ heard'[b] = g /\ hist'.of[b] = p
      /\ blade'[b].seq = s /\ blade'[b].clicks = blade[b].clicks /\ blade'[b].pc = blade[b].pc
      /\ blade' \in [Blade -> BladeState] /\ heard' \in [Blade -> HeardState]
  BY <1>1, <1>2, <1>4 DEF PInv, PeersOK, HistOK, BladeState
<1> HIDE DEF g, p, k
<1>6. PeersOK' /\ HallOK' /\ HallKept'
  BY <1>4, <1>5 DEF PInv, PeersOK, HallOK, HallKept
<1>7. LinesDue'
  BY <1>1, <1>2, <1>3, <1>5
     DEF PInv, LinesDue, One, HistOK, HistState, PeersOK, BladeState, HeardState
<1>8. FoldsDue'
  BY <1>1, <1>2, <1>3, <1>5
     DEF PInv, FoldsDue, FoldAhead, One, HistOK, HistState, PeersOK, BladeState, HeardState
<1>9. WindowKept'
  BY <1>1, <1>2, <1>3, <1>5
     DEF PInv, WindowKept, Span, HistOK, HistState, PeersOK, BladeState, HeardState
<1> QED BY <1>4, <1>6, <1>7, <1>8, <1>9 DEF PInv

LEMMA HeartbeatStep == ASSUME PInv, NEW b \in Blade, Heartbeat(b) PROVE PInv'
BY LostStep, HeardStep DEF Heartbeat

----------------------------------------------------------------------------

\* A look takes what it saw for what to compare with: it owes nothing after it.
LEMMA LookStep == ASSUME PInv, NEW leader \in Blade \cup {"none"}, Render(leader) PROVE PInv'
<1>0. PICK flush \in BOOLEAN, passed \in 0..left.reign :
        /\ hall' = HallAfter(leader, flush, passed)
        /\ hist' = [hist EXCEPT
             !.of = [b \in Blade |-> [hist.of[b] EXCEPT !.lines = IF Told(b) THEN @ + 1 ELSE @,
                                                        !.folds = IF Wiped(b) THEN @ + 1 ELSE @]],
             !.charted = @ + Charted, !.recent = Recent(Charted),
             !.ended = Ended(leader, passed), !.slip = Slipped(leader, passed)]
  BY Zenon DEF Render
<1>a. passed \in Nat
  OBVIOUS
<1>1. /\ blade' = blade /\ seen' = [b \in Blade |-> Looked(b)]
      /\ heard' = [b \in Blade |-> IF heard[b].fresh = "new"
                                   THEN [heard[b] EXCEPT !.fresh = "shown"] ELSE heard[b]]
  BY DEF Render
<1>2. /\ hist'.of = [b \in Blade |->
                       [hist.of[b] EXCEPT !.lines = IF Told(b) THEN @ + 1 ELSE @,
                                          !.folds = IF Wiped(b) THEN @ + 1 ELSE @]]
      /\ hist'.ended = Ended(leader, passed) /\ hist'.slip = Slipped(leader, passed)
      /\ hist' = [of |-> hist'.of, clicks |-> hist'.clicks, refused |-> hist'.refused,
                  charted |-> hist'.charted, recent |-> hist'.recent, ended |-> hist'.ended,
                  slip |-> hist'.slip]
  BY <1>0 DEF PInv, HistOK
<1>3. ASSUME NEW b \in Blade
      PROVE  /\ seen'[b] \in [known : BOOLEAN, up : Nat, clicks : 0..WIRE]
             /\ seen'[b].up = heard[b].last
             /\ seen'[b].clicks = IF Alive(b) THEN heard[b].clicks ELSE seen[b].clicks
  BY <1>1 DEF Looked, PInv, PeersOK, HeardState
<1>4. ASSUME NEW b \in Blade
      PROVE  /\ heard'[b] \in HeardState
             /\ heard'[b].fresh # "never" => heard[b].fresh # "never"
             /\ heard'[b].first = heard[b].first /\ heard'[b].last = heard[b].last
             /\ heard'[b].rx = heard[b].rx /\ heard'[b].clicks = heard[b].clicks
  BY <1>1 DEF PInv, PeersOK, HeardState
<1>5. ASSUME NEW b \in Blade
      PROVE  LET o == hist.of[b]  p == hist'.of[b] IN
             /\ p \in HistState
             /\ p.deaths = o.deaths /\ p.missed = o.missed /\ p.lost = o.lost
             /\ p.blur = o.blur /\ p.reborn = o.reborn
             /\ p.lines = o.lines + One(Told(b)) /\ p.folds = o.folds + One(Wiped(b))
  <2> DEFINE o == hist.of[b]
             n == IF Told(b) THEN o.lines + 1 ELSE o.lines
             m == IF Wiped(b) THEN o.folds + 1 ELSE o.folds
  <2>1. o \in HistState
    BY DEF PInv, HistOK
  <2>2. n \in Nat /\ m \in Nat /\ n = o.lines + One(Told(b)) /\ m = o.folds + One(Wiped(b))
    BY <2>1 DEF HistState, One
  <2>3. hist'.of[b] = [o EXCEPT !.lines = n, !.folds = m]
    BY <1>2
  <2> HIDE DEF o, n, m
  <2>4. LET p == [o EXCEPT !.lines = n, !.folds = m] IN
        /\ p \in HistState
        /\ p.deaths = o.deaths /\ p.missed = o.missed /\ p.lost = o.lost
        /\ p.blur = o.blur /\ p.reborn = o.reborn /\ p.lines = n /\ p.folds = m
    BY <2>1, <2>2 DEF HistState
  <2> QED BY <2>2, <2>3, <2>4 DEF o
<1>6. PeersOK'
  BY <1>1, <1>3, <1>4 DEF PInv, PeersOK
<1>7. LinesDue'
  <2> SUFFICES ASSUME NEW b \in Blade
               PROVE  hist'.of[b].lines + One(seen'[b].known /\ heard'[b].last < seen'[b].up)
                        + One(blade'[b].seq < heard'[b].last) <= hist'.of[b].deaths
    BY DEF LinesDue
  <2>1. heard[b].last \in Nat /\ ~(heard'[b].last < seen'[b].up)
    BY <1>3, <1>4 DEF PInv, PeersOK, HeardState
  <2>2. hist.of[b].lines \in Nat /\ hist.of[b].deaths \in Nat
    BY DEF PInv, HistOK, HistState
  <2>3. hist.of[b].lines + One(seen[b].known /\ heard[b].last < seen[b].up)
          + One(blade[b].seq < heard[b].last) <= hist.of[b].deaths
    BY DEF PInv, LinesDue
  <2>4. Told(b) => seen[b].known /\ heard[b].last < seen[b].up
    BY DEF Told
  <2>5. blade'[b].seq = blade[b].seq /\ heard'[b].last = heard[b].last
    BY <1>1, <1>4
  <2> QED BY <1>5, <2>1, <2>2, <2>3, <2>4, <2>5 DEF One
<1>8. FoldsDue'
  <2> SUFFICES ASSUME NEW b \in Blade
               PROVE  /\ blade'[b].pc # "serving" => blade'[b].clicks = 0
                      /\ hist'.of[b].folds + One(FoldAhead(b)') <= hist'.of[b].deaths
    BY DEF FoldsDue
  <2>1. /\ Wiped(b) => FoldAhead(b) /\ ~FoldAhead(b)'
        /\ FoldAhead(b)' => FoldAhead(b)
    BY <1>1, <1>3, <1>4 DEF Wiped, FoldAhead, PInv, PeersOK, HeardState
  <2>2. hist.of[b].folds \in Nat /\ hist.of[b].deaths \in Nat
    BY DEF PInv, HistOK, HistState
  <2>3. /\ hist.of[b].folds + One(FoldAhead(b)) <= hist.of[b].deaths
        /\ blade[b].pc # "serving" => blade[b].clicks = 0
    BY DEF PInv, FoldsDue
  <2> QED BY <1>1, <1>5, <2>1, <2>2, <2>3 DEF One
<1>9. WindowKept'
  BY <1>1, <1>4, <1>5 DEF PInv, WindowKept, Span
<1>10. HallOK' /\ HallKept' /\ hist'.ended \in Nat /\ hist'.slip \in BOOLEAN
  <2>1. /\ hall \in [leader : Blade \cup {"none"}, reign : Nat, record : Nat, saved : Nat]
        /\ hist.ended \in Nat /\ hist.slip \in BOOLEAN /\ passed \in Nat
    BY <1>a DEF PInv, HallOK, HistOK
  <2> DEFINE reign == IF hall.leader = "none" THEN 0 ELSE hall.reign + passed
             longer == hall.reign + passed
  <2>2. longer \in Nat /\ reign \in Nat /\ (hall.leader # "none" => reign = longer)
    BY <2>1
  <2> HIDE DEF reign, longer
  <2>3. hist'.slip \in BOOLEAN
    BY <1>2, Zenon DEF Slipped
  <2>4. ~hist'.slip => ~hist.slip
    BY <1>2 DEF Slipped
  <2>5. ~hist.slip =>
          /\ hist.ended <= hall.saved /\ hall.saved <= hall.record
          /\ hall.saved < hall.record => hall.leader # "none" /\ hall.record = hall.reign
    BY DEF PInv, HallKept
  <2>6. Fell(leader) /\ ~hist'.slip => ~(passed = 0 /\ hall.saved < hall.record)
    BY <1>2 DEF Slipped
  <2>7. hist'.ended = IF Fell(leader) /\ longer > hist.ended THEN longer ELSE hist.ended
    BY <1>2 DEF longer, Ended
  <2>a. hist'.ended \in Nat
    BY ONLY <2>1, <2>2, <2>7
  <2> DEFINE kept ==
               /\ hall' \in [leader : Blade \cup {"none"}, reign : Nat, record : Nat, saved : Nat]
               /\ ~hist'.slip =>
                    /\ hist'.ended <= hall'.saved /\ hall'.saved <= hall'.record
                    /\ hall'.saved < hall'.record
                         => hall'.leader # "none" /\ hall'.record = hall'.reign
  <2>8. ASSUME leader = hall.leader /\ leader # "none" /\ reign > hall.record PROVE kept
    <3>1. hall' = [leader |-> leader, reign |-> reign, record |-> reign,
                   saved |-> IF flush THEN reign ELSE hall.saved]
      BY <1>0, <2>8 DEF HallAfter, reign
    <3> QED BY <2>1, <2>2, <2>4, <2>5, <2>7, <2>8, <3>1 DEF Fell
  <2>9. ASSUME leader = hall.leader /\ ~(leader # "none" /\ reign > hall.record) PROVE kept
    <3>1. hall' = [leader |-> leader, reign |-> reign, record |-> hall.record,
                   saved |-> hall.saved]
      BY <1>0, <2>9 DEF HallAfter, reign
    <3>2. ~hist.slip /\ hall.saved < hall.record => reign = hall.record
      <4>1. SUFFICES ASSUME ~hist.slip, hall.saved < hall.record PROVE reign = hall.record
        OBVIOUS
      <4>2. hall.leader # "none" /\ hall.record = hall.reign
        BY <2>5, <4>1
      <4>3. reign = hall.reign + passed
        BY <2>2, <4>2 DEF longer
      <4>4. reign <= hall.record
        BY <2>1, <2>2, <2>9, <4>2
      <4> QED BY <2>1, <4>2, <4>3, <4>4
    <3> QED BY <2>1, <2>2, <2>4, <2>5, <2>7, <2>9, <3>1, <3>2 DEF Fell
  <2>10. ASSUME leader # hall.leader /\ hall.leader # "none" /\ reign > hall.record PROVE kept
    <3>1. hall' = [leader |-> leader, reign |-> 0, record |-> reign, saved |-> reign]
      BY <1>0, <2>10 DEF HallAfter, reign
    <3> QED BY <2>1, <2>2, <2>4, <2>5, <2>7, <2>10, <3>1 DEF Fell
  <2>11. ASSUME leader # hall.leader /\ ~(hall.leader # "none" /\ reign > hall.record) PROVE kept
    <3>1. hall' = [leader |-> leader, reign |-> 0, record |-> hall.record,
                   saved |-> hall.saved]
      BY <1>0, <2>11 DEF HallAfter, reign
    <3>2. ~hist'.slip => hall.saved = hall.record
      <4>1. SUFFICES ASSUME ~hist'.slip, hall.saved # hall.record PROVE FALSE
        OBVIOUS
      <4>2. hall.saved < hall.record /\ hall.leader # "none" /\ hall.record = hall.reign
        BY <2>1, <2>4, <2>5, <4>1
      <4>3. passed # 0
        BY <2>6, <2>11, <4>1, <4>2 DEF Fell
      <4>4. longer <= hall.record
        BY <2>1, <2>2, <2>11, <4>2
      <4> QED BY <2>1, <4>2, <4>3, <4>4 DEF longer
    <3> QED BY <2>1, <2>2, <2>4, <2>5, <2>7, <2>11, <3>1, <3>2 DEF Fell
  <2>12. kept
    BY <2>8, <2>9, <2>10, <2>11
  <2>13. HallOK'
    BY <2>12 DEF HallOK
  <2>14. HallKept'
    BY <2>12 DEF HallKept
  <2> QED BY <2>3, <2>a, <2>13, <2>14
<1>11. HistOK'
  BY <1>2, <1>5, <1>10 DEF HistOK
<1> QED BY <1>6, <1>7, <1>8, <1>9, <1>10, <1>11 DEF PInv

LEMMA StepPInv == PInv /\ [Next]_vars => PInv'
<1> SUFFICES ASSUME PInv, [Next]_vars PROVE PInv'
  OBVIOUS
<1>1. CASE UNCHANGED vars
  BY <1>1 DEF vars, PInv, PeersOK, HallOK, HistOK, LinesDue, FoldsDue, FoldAhead, WindowKept,
     HallKept
<1>2. CASE \E b \in Blade : PowerUp(b) \/ Serve(b) \/ Click(b) \/ Refuse(b) \/ ResetStats(b)
                            \/ Wipe(b)
  BY <1>2, BladeStep
<1>3. CASE \E b \in Blade : Crash(b) \/ Heartbeat(b) \/ Fade(b)
  BY <1>3, CrashStep, HeartbeatStep, FadeStep
<1>4. CASE \E leader \in Blade \cup {"none"} : Render(leader)
  BY <1>4, LookStep
<1>5. CASE Reboot
  BY <1>5, RebootStep
<1> QED BY <1>1, <1>2, <1>3, <1>4, <1>5 DEF Next

----------------------------------------------------------------------------

\* In every state each peer's window, debts and the hall are as stated above.
THEOREM Kept == Spec => []PInv
BY InitPInv, StepPInv, PTL DEF Spec

\* The loss on the glass is what the air lost, for any number of deaths, losses
\* and restarts of the display.
THEOREM TrueLoss == Spec => []LossIsReal
<1>1. PInv => LossIsReal
  BY DEF PInv, WindowKept, LossIsReal
<1> QED BY <1>1, Kept, PTL

\* No death is told twice.
THEOREM ToldOnce == Spec => []OneLinePerDeath
<1>1. PInv => OneLinePerDeath
  BY DEF PInv, LinesDue, OneLinePerDeath, One, HistOK, HistState
<1> QED BY <1>1, Kept, PTL

\* No death puts a blade's count into the archive twice, and nothing else does.
THEOREM FoldedOnce == Spec => []OneFoldPerDeath
<1>1. PInv => OneFoldPerDeath
  BY DEF PInv, FoldsDue, OneFoldPerDeath, One, HistOK, HistState
<1> QED BY <1>1, Kept, PTL

\* A record survives whatever restart comes after the reign it is of.
THEOREM Remembered == Spec => []HallOfFame
<1>1. PInv => HallOfFame
  BY DEF PInv, HallKept, HallOfFame, HallOK, HistOK
<1> QED BY <1>1, Kept, PTL

----------------------------------------------------------------------------
(* The refusals *)

Made == [b \in Blade |-> blade[b].errs]
Known == [b \in Blade |-> heard[b].errs]

\* Of each blade, the refusals that its next heartbeat would bring.
Ahead == [b \in Blade |-> Delta(blade[b].errs, heard[b].errs, TRUE)]

RingState ==
  [sec : [1..SECS -> 0..CEIL], min : [1..MINS -> 0..CEIL], secPos : 0..SECS - 1,
   minPos : 0..MINS - 1, minN : 0..MINS, acc : Nat, last : Nat, have : BOOLEAN]

\* What the next look would chart.
Unread == IF ring.have THEN Delta(FleetErrs, ring.last, TRUE) ELSE 0

\* The fleet's count is bounded by the refusals made; so is what was charted,
\* with what the display has heard since and what it has still to hear.
ChartInv ==
  /\ hist.charted \in Nat /\ hist.refused \in Nat
  /\ ring \in RingState
  /\ Total(Made, Blade) <= hist.refused
  /\ hist.charted + Unread + Total(Ahead, Blade) <= hist.refused

\* The fold over heartbeats is the sum of a function.
LEMMA FoldSum ==
  ASSUME NEW h
  PROVE  MapThenSumSet(LAMBDA b : h[b].errs, Blade) = Total([b \in Blade |-> h[b].errs], Blade)
<1> DEFINE F == [b \in Blade |-> h[b].errs]
           Fold(g) == g = [s \in SUBSET Blade |->
                             IF s = {} THEN 0 ELSE h[First(s)].errs + g[s \ {First(s)}]]
           it == CHOOSE g : Fold(g)
<1>1. ASSUME NEW g PROVE Fold(g) <=> Builds(g, F, Blade)
  <2>1. \A s \in SUBSET Blade : s # {} => F[First(s)] = h[First(s)].errs
    BY FirstIn
  <2> HIDE DEF F
  <2> QED BY <2>1 DEF Builds, Folds
<1>2. \E g : Builds(g, F, Blade)
  BY FoldsAll, FleetAssumption
<1>3. Fold(it)
  <2> HIDE DEF Fold
  <2> QED BY <1>1, <1>2, Zenon
<1>4. MapThenSumSet(LAMBDA b : h[b].errs, Blade) = it[Blade]
  BY DEF MapThenSumSet, MapThenFoldSet, First
<1>5. PICK k : Builds(k, F, Blade) /\ Total(F, Blade) = k[Blade]
  BY TotalFolds, FleetAssumption
<1>6. Builds(it, F, Blade) /\ Builds(k, F, Blade)
  BY <1>1, <1>3, <1>5
<1> HIDE DEF it, F
<1>7. \A s \in SUBSET Blade : s \subseteq Blade /\ (\A x \in s : F[x] = F[x]) => it[s] = k[s]
  BY ONLY FleetAssumption, <1>6, FoldsSame
<1> QED BY <1>4, <1>5, <1>7 DEF F

LEMMA FleetSum ==
  /\ FleetErrs = Total(Known, Blade)
  /\ FleetErrs' = Total(Known', Blade)
<1>1. FleetErrs = Total(Known, Blade)
  BY FoldSum DEF FleetErrs, Known
<1>2. FleetErrs' = Total(Known', Blade)
  BY FoldSum DEF FleetErrs, Known, MapThenSumSet, MapThenFoldSet
<1> QED BY <1>1, <1>2

LEMMA Counts ==
  ASSUME PInv
  PROVE  /\ \A b \in Blade : /\ Made[b] \in Nat /\ Known[b] \in Nat /\ Ahead[b] \in Nat
                             /\ Ahead[b] <= Made[b]
         /\ FleetErrs \in Nat /\ Total(Made, Blade) \in Nat /\ Total(Ahead, Blade) \in Nat
         /\ Total(Ahead, Blade) <= Total(Made, Blade)
         /\ ring \in RingState => Unread \in Nat /\ Unread = Charted
<1>1. \A b \in Blade : /\ Made[b] \in Nat /\ Known[b] \in Nat /\ Ahead[b] \in Nat
                       /\ Ahead[b] <= Made[b]
  BY DEF PInv, PeersOK, BladeState, HeardState, Made, Known, Ahead, Delta
<1>2. FleetErrs \in Nat /\ Total(Made, Blade) \in Nat /\ Total(Ahead, Blade) \in Nat
  BY <1>1, FleetSum, TotalNat, FleetAssumption
<1>3. Total(Ahead, Blade) <= Total(Made, Blade)
  BY <1>1, TotalGrows, FleetAssumption
<1>4. ASSUME ring \in RingState PROVE Unread \in Nat /\ Unread = Charted
  <2>1. ring.last \in Nat /\ ring.have \in BOOLEAN
    BY <1>4 DEF RingState
  <2> QED BY <1>2, <2>1 DEF Unread, Charted, Delta
<1> QED BY <1>1, <1>2, <1>3, <1>4

\* A blade's count moves, in it or on the air, and no other's.
LEMMA Move ==
  ASSUME PInv, PInv', NEW b \in Blade,
         \A c \in Blade \ {b} : blade'[c].errs = blade[c].errs /\ heard'[c].errs = heard[c].errs
  PROVE  LET x == blade[b].errs  y == heard[b].errs  v == blade'[b].errs  w == heard'[b].errs
         IN  /\ x \in Nat /\ y \in Nat /\ v \in Nat /\ w \in Nat
             /\ Total(Made, Blade)' = Total(Made, Blade) - x + v
             /\ FleetErrs' = FleetErrs - y + w
             /\ Total(Ahead, Blade)' = Total(Ahead, Blade) - Delta(x, y, TRUE) + Delta(v, w, TRUE)
<1> DEFINE made == Made'
           known == Known'
           ahead == Ahead'
<1>1. /\ Made \in [Blade -> Int] /\ Known \in [Blade -> Int] /\ Ahead \in [Blade -> Int]
      /\ made \in [Blade -> Int] /\ known \in [Blade -> Int] /\ ahead \in [Blade -> Int]
  <2>1. \A c \in Blade : /\ blade[c].errs \in Nat /\ heard[c].errs \in Nat
                         /\ blade'[c].errs \in Nat /\ heard'[c].errs \in Nat
    BY DEF PInv, PeersOK, BladeState, HeardState
  <2> QED BY <2>1 DEF Made, Known, Ahead, Delta
<1>2. \A c \in Blade \ {b} : Made[c] = made[c] /\ Known[c] = known[c] /\ Ahead[c] = ahead[c]
  BY DEF Made, Known, Ahead
<1>3. /\ blade[b].errs \in Nat /\ heard[b].errs \in Nat
      /\ blade'[b].errs \in Nat /\ heard'[b].errs \in Nat
  BY DEF PInv, PeersOK, BladeState, HeardState
<1>4. /\ Made[b] = blade[b].errs /\ made[b] = blade'[b].errs
      /\ Known[b] = heard[b].errs /\ known[b] = heard'[b].errs
      /\ Ahead[b] = Delta(blade[b].errs, heard[b].errs, TRUE)
      /\ ahead[b] = Delta(blade'[b].errs, heard'[b].errs, TRUE)
  BY DEF Made, Known, Ahead
<1> HIDE DEF made, known, ahead
<1>5. Total(made, Blade) = Total(Made, Blade) - Made[b] + made[b]
  BY <1>1, <1>2, TotalChange, FleetAssumption
<1>6. Total(known, Blade) = Total(Known, Blade) - Known[b] + known[b]
  BY <1>1, <1>2, TotalChange, FleetAssumption
<1>7. Total(ahead, Blade) = Total(Ahead, Blade) - Ahead[b] + ahead[b]
  BY <1>1, <1>2, TotalChange, FleetAssumption
<1>8. FleetErrs = Total(Known, Blade) /\ FleetErrs' = Total(known, Blade)
  BY FleetSum DEF known
<1>9. Total(Made, Blade)' = Total(made, Blade) /\ Total(Ahead, Blade)' = Total(ahead, Blade)
  BY DEF made, ahead
<1> QED BY <1>3, <1>4, <1>5, <1>6, <1>7, <1>8, <1>9

\* A blade's own count grows by no more than is refused.
LEMMA BladeCounts ==
  ASSUME PInv, PInv', ChartInv, NEW b \in Blade,
         \A c \in Blade \ {b} : blade'[c].errs = blade[c].errs,
         \A c \in Blade : heard'[c].errs = heard[c].errs,
         ring' = ring, hist'.charted = hist.charted, hist'.refused \in Nat,
         hist'.refused >= hist.refused,
         blade'[b].errs <= blade[b].errs + (hist'.refused - hist.refused)
  PROVE  ChartInv'
<1>1. LET x == blade[b].errs  y == heard[b].errs  v == blade'[b].errs
      IN  /\ x \in Nat /\ y \in Nat /\ v \in Nat
          /\ Total(Made, Blade)' = Total(Made, Blade) - x + v
          /\ FleetErrs' = FleetErrs
          /\ Total(Ahead, Blade)' = Total(Ahead, Blade) - Delta(x, y, TRUE) + Delta(v, y, TRUE)
  <2>1. FleetErrs \in Nat
    BY Counts
  <2>2. /\ blade[b].errs \in Nat /\ heard[b].errs \in Nat /\ blade'[b].errs \in Nat
        /\ Total(Made, Blade)' = Total(Made, Blade) - blade[b].errs + blade'[b].errs
        /\ FleetErrs' = FleetErrs - heard[b].errs + heard'[b].errs
        /\ Total(Ahead, Blade)' = Total(Ahead, Blade) - Delta(blade[b].errs, heard[b].errs, TRUE)
             + Delta(blade'[b].errs, heard'[b].errs, TRUE)
    BY Move
  <2>3. heard'[b].errs = heard[b].errs
    OBVIOUS
  <2> QED BY ONLY <2>1, <2>2, <2>3
<1>2. /\ Total(Made, Blade) \in Nat /\ Total(Ahead, Blade) \in Nat /\ Unread \in Nat
  BY Counts DEF ChartInv
<1>3. Unread' = Unread
  BY <1>1 DEF Unread
<1>4. Delta(blade'[b].errs, heard[b].errs, TRUE)
        <= Delta(blade[b].errs, heard[b].errs, TRUE) + (hist'.refused - hist.refused)
  BY <1>1 DEF Delta, ChartInv
<1>5. /\ Delta(blade'[b].errs, heard[b].errs, TRUE) \in Nat
      /\ Delta(blade[b].errs, heard[b].errs, TRUE) \in Nat
  BY <1>1 DEF Delta
<1> DEFINE d == Delta(blade[b].errs, heard[b].errs, TRUE)
           e == Delta(blade'[b].errs, heard[b].errs, TRUE)
<1>6. /\ d \in Nat /\ e \in Nat /\ e <= d + (hist'.refused - hist.refused)
      /\ Total(Ahead, Blade)' = Total(Ahead, Blade) - d + e
  BY <1>1, <1>4, <1>5
<1> HIDE DEF d, e
<1>7. /\ hist.charted \in Nat /\ hist.refused \in Nat /\ ring \in RingState
      /\ Total(Made, Blade) <= hist.refused
      /\ hist.charted + Unread + Total(Ahead, Blade) <= hist.refused
  BY DEF ChartInv
<1>8. Total(Made, Blade)' <= hist'.refused
  BY <1>1, <1>2, <1>7
<1>9. hist'.charted + Unread' + Total(Ahead, Blade)' <= hist'.refused
  BY <1>2, <1>3, <1>6, <1>7
<1> QED BY <1>7, <1>8, <1>9 DEF ChartInv

\* A heartbeat brings what its blade was ahead by.
LEMMA HeardCounts ==
  ASSUME PInv, PInv', ChartInv, NEW b \in Blade,
         \A c \in Blade : blade'[c].errs = blade[c].errs,
         \A c \in Blade \ {b} : heard'[c].errs = heard[c].errs,
         heard'[b].errs = blade[b].errs,
         ring' = ring, hist'.charted = hist.charted, hist'.refused = hist.refused
  PROVE  ChartInv'
<1>1. Total(Made, Blade) \in Nat /\ Total(Ahead, Blade) \in Nat /\ FleetErrs \in Nat
  BY Counts
<1>2. /\ blade[b].errs \in Nat /\ heard[b].errs \in Nat
      /\ Total(Made, Blade)' = Total(Made, Blade) - blade[b].errs + blade'[b].errs
      /\ FleetErrs' = FleetErrs - heard[b].errs + heard'[b].errs
      /\ Total(Ahead, Blade)' = Total(Ahead, Blade) - Delta(blade[b].errs, heard[b].errs, TRUE)
           + Delta(blade'[b].errs, heard'[b].errs, TRUE)
  BY Move
<1>3. blade'[b].errs = blade[b].errs /\ heard'[b].errs = blade[b].errs
  OBVIOUS
<1> DEFINE d == Delta(blade[b].errs, heard[b].errs, TRUE)
<1>4. /\ Delta(blade[b].errs, blade[b].errs, TRUE) = 0
      /\ d \in Nat /\ blade[b].errs - heard[b].errs <= d
  BY <1>2 DEF Delta
<1> HIDE DEF d
<1>5. /\ Total(Made, Blade)' = Total(Made, Blade)
      /\ FleetErrs' = FleetErrs - heard[b].errs + blade[b].errs
      /\ Total(Ahead, Blade)' = Total(Ahead, Blade) - d
  <2>1. Delta(blade'[b].errs, heard'[b].errs, TRUE) = 0
    BY <1>3, <1>4
  <2>2. Total(Ahead, Blade)' = Total(Ahead, Blade) - d + 0
    BY <1>2, <2>1 DEF d
  <2>3. Total(Made, Blade)' = Total(Made, Blade)
    BY <1>1, <1>2, <1>3
  <2>4. FleetErrs' = FleetErrs - heard[b].errs + blade[b].errs
    BY <1>2, <1>3
  <2>5. Total(Ahead, Blade)' = Total(Ahead, Blade) - d
    BY <1>1, <1>4, <2>2
  <2> QED BY <2>3, <2>4, <2>5
<1>6. Unread' <= Unread + d /\ Unread' \in Nat /\ Unread \in Nat
  <2>1. ring.last \in Nat /\ ring.have \in BOOLEAN
    BY DEF ChartInv, RingState
  <2>2. CASE ring.have
    <3>1. Unread = Delta(FleetErrs, ring.last, TRUE) /\ Unread' = Delta(FleetErrs', ring.last, TRUE)
      BY <2>2 DEF Unread
    <3> QED BY <1>1, <1>2, <1>4, <1>5, <2>1, <3>1 DEF Delta
  <2>3. CASE ~ring.have
    BY <1>4, <2>3 DEF Unread
  <2> QED BY <2>2, <2>3
<1> QED BY <1>1, <1>4, <1>5, <1>6 DEF ChartInv

LEMMA RingKept ==
  ASSUME NEW r \in RingState, NEW d \in Nat
  PROVE  RateAdd(r, d) \in RingState
<1> DEFINE pos == (r.secPos + 1) % SECS
           sec == [r.sec EXCEPT ![r.secPos + 1] = Sat(d)]
           acc == r.acc + d
           s == [r EXCEPT !.sec = sec, !.secPos = pos, !.acc = acc]
<1>1. /\ pos \in 0..SECS - 1 /\ sec \in [1..SECS -> 0..CEIL] /\ acc \in Nat
  BY SizesAssumption DEF RingState, Sat, Least
<1> DEFINE mpos == (r.minPos + 1) % MINS
           min == [r.min EXCEPT ![r.minPos + 1] = Sat(acc)]
           n == Least(r.minN + 1, MINS)
<1>2. /\ mpos \in 0..MINS - 1 /\ min \in [1..MINS -> 0..CEIL] /\ n \in 0..MINS
  <2>1. r.minPos + 1 \in Nat /\ MINS \in Nat /\ MINS > 0
    BY SizesAssumption DEF RingState
  <2>2. mpos \in 0..MINS - 1
    BY <2>1
  <2>3. Sat(acc) \in 0..CEIL
    BY <1>1, SizesAssumption DEF Sat, Least
  <2>4. n \in 0..MINS
    BY SizesAssumption DEF RingState, Least
  <2>5. r.min \in [1..MINS -> 0..CEIL]
    BY DEF RingState
  <2> QED BY <2>2, <2>3, <2>4, <2>5
<1>3. RateAdd(r, d) = IF pos # 0 THEN s
                      ELSE [r EXCEPT !.sec = sec, !.secPos = pos, !.acc = 0,
                                     !.min = min, !.minPos = mpos, !.minN = n]
  BY DEF RateAdd, RingState
<1> HIDE DEF pos, sec, acc, mpos, min, n
<1>4. CASE pos # 0
  BY <1>1, <1>3, <1>4 DEF RingState
<1>5. CASE pos = 0
  <2>1. RateAdd(r, d) = [r EXCEPT !.sec = sec, !.secPos = pos, !.acc = 0,
                                  !.min = min, !.minPos = mpos, !.minN = n]
    BY <1>3, <1>5
  <2>2. RateAdd(r, d) = [sec |-> sec, min |-> min, secPos |-> pos, minPos |-> mpos, minN |-> n,
                         acc |-> 0, last |-> r.last, have |-> r.have]
    BY <2>1 DEF RingState
  <2>3. r.last \in Nat /\ r.have \in BOOLEAN
    BY DEF RingState
  <2> QED BY <1>1, <1>2, <2>2, <2>3 DEF RingState
<1> QED BY <1>4, <1>5

\* A look charts what it has heard, and has nothing left to chart.
LEMMA LookCounts ==
  ASSUME PInv, PInv', ChartInv, NEW leader \in Blade \cup {"none"}, Render(leader)
  PROVE  ChartInv'
<1>1. /\ blade' = blade
      /\ heard' = [b \in Blade |-> IF heard[b].fresh = "new"
                                   THEN [heard[b] EXCEPT !.fresh = "shown"] ELSE heard[b]]
      /\ ring' = [RateAdd(ring, Charted) EXCEPT !.last = FleetErrs, !.have = TRUE]
  BY DEF Render
<1>2. hist'.charted = hist.charted + Charted /\ hist'.refused = hist.refused
  BY DEF Render, PInv, HistOK
<1>3. \A b \in Blade : heard'[b].errs = heard[b].errs
  BY <1>1 DEF PInv, PeersOK, HeardState
<1>4. Made' = Made /\ Known' = Known /\ Ahead' = Ahead
  BY <1>1, <1>3 DEF Made, Known, Ahead
<1>5. /\ Total(Made, Blade)' = Total(Made, Blade) /\ Total(Ahead, Blade)' = Total(Ahead, Blade)
      /\ FleetErrs' = FleetErrs
  BY <1>4, FleetSum
<1>6. /\ Total(Made, Blade) \in Nat /\ Total(Ahead, Blade) \in Nat /\ FleetErrs \in Nat
  BY Counts
<1>7. Charted \in Nat /\ Charted = Unread
  BY Counts DEF ChartInv
<1>8. ring' \in RingState /\ ring'.last = FleetErrs /\ ring'.have = TRUE
  <2>1. RateAdd(ring, Charted) \in RingState
    BY <1>7, RingKept DEF ChartInv
  <2> QED BY <1>1, <1>6, <2>1 DEF RingState
<1>9. Unread' = 0
  BY <1>5, <1>6, <1>8 DEF Unread, Delta
<1> QED BY <1>2, <1>5, <1>6, <1>7, <1>8, <1>9 DEF ChartInv

\* The display forgets what it had charted, and the heartbeats it was waiting for.
LEMMA RebootCounts == ASSUME PInv, PInv', ChartInv, Reboot PROVE ChartInv'
<1>1. blade' = blade /\ hist'.charted = 0 /\ hist'.refused = hist.refused /\ ring' = NewRing
  BY DEF Reboot, PInv, HistOK
<1>2. NewRing \in RingState /\ NewRing.have = FALSE
  BY SizesAssumption DEF NewRing, Empty, RingState
<1> DEFINE ahead == Ahead'
<1>3. \A b \in Blade : ahead[b] \in Nat /\ Made[b] \in Nat /\ ahead[b] <= Made[b]
  BY <1>1 DEF PInv, PeersOK, BladeState, HeardState, Made, Ahead, Delta
<1>4. Total(Made, Blade)' = Total(Made, Blade)
  BY <1>1 DEF Made
<1>5. Total(Ahead, Blade)' = Total(ahead, Blade)
  OBVIOUS
<1> HIDE DEF ahead
<1>6. Total(ahead, Blade) <= Total(Made, Blade)
  BY <1>3, TotalGrows, FleetAssumption
<1>7. Total(ahead, Blade) \in Nat /\ Total(Made, Blade) \in Nat
  BY <1>3, TotalNat, FleetAssumption
<1>8. Unread' = 0
  BY <1>1, <1>2 DEF Unread
<1> QED BY <1>1, <1>2, <1>4, <1>5, <1>6, <1>7, <1>8 DEF ChartInv

LEMMA InitCounts == Init => ChartInv
<1> SUFFICES ASSUME Init PROVE ChartInv
  OBVIOUS
<1>1. hist.charted = 0 /\ hist.refused = 0 /\ ring = NewRing
  BY DEF Init
<1>2. NewRing \in RingState /\ NewRing.have = FALSE
  BY SizesAssumption DEF NewRing, Empty, RingState
<1>3. \A b \in Blade : Made[b] = 0 /\ Ahead[b] = 0
  BY DEF Init, Made, Ahead, Off, Never, Delta
<1>4. Total(Made, Blade) = 0 /\ Total(Ahead, Blade) = 0
  BY <1>3, TotalZero, FleetAssumption
<1>5. Unread = 0
  BY <1>1, <1>2 DEF Unread
<1> QED BY <1>1, <1>2, <1>4, <1>5 DEF ChartInv

LEMMA StepCounts == PInv /\ PInv' /\ ChartInv /\ [Next]_vars => ChartInv'
<1> SUFFICES ASSUME PInv, PInv', ChartInv, [Next]_vars PROVE ChartInv'
  OBVIOUS
<1>1. CASE UNCHANGED vars
  <2>1. Made' = Made /\ Known' = Known /\ Ahead' = Ahead
    BY <1>1 DEF vars, Made, Known, Ahead
  <2>2. ring' = ring /\ hist' = hist
    BY <1>1 DEF vars
  <2>3. FleetErrs' = FleetErrs
    BY <2>1, FleetSum
  <2>4. Unread' = Unread
    BY <2>2, <2>3 DEF Unread
  <2>5. Total(Made, Blade)' = Total(Made, Blade) /\ Total(Ahead, Blade)' = Total(Ahead, Blade)
    BY <2>1
  <2> QED BY <2>2, <2>4, <2>5 DEF ChartInv
<1>2. ASSUME NEW b \in Blade, PowerUp(b) \/ Serve(b) \/ Click(b) \/ Wipe(b)
      PROVE  ChartInv'
  <2>1. /\ heard' = heard /\ ring' = ring
        /\ hist'.charted = hist.charted /\ hist'.refused = hist.refused
    BY <1>2 DEF PInv, HistOK, PowerUp, Serve, Click, Wipe
  <2>2. \A c \in Blade : blade'[c].errs = blade[c].errs
    <3>1. CASE PowerUp(b) \/ Wipe(b)
      BY <3>1 DEF PInv, PeersOK, BladeState, PowerUp, Wipe
    <3>2. CASE Serve(b)
      <4>1. PICK opened \in BOOLEAN :
              blade' = [blade EXCEPT ![b].pc = "serving", ![b].nvs = opened,
                                     ![b].clicks = IF opened THEN blade[b].flash ELSE 0]
        BY <3>2, Zenon DEF Serve
      <4> QED BY <4>1 DEF PInv, PeersOK, BladeState
    <3>3. CASE Click(b)
      <4>1. PICK due \in BOOLEAN :
              blade' = [blade EXCEPT ![b].clicks = blade[b].clicks + 1,
                                     ![b].flash = IF blade[b].nvs /\ due
                                                  THEN blade[b].clicks + 1 ELSE @]
        BY <3>3, Zenon DEF Click
      <4> QED BY <4>1 DEF PInv, PeersOK, BladeState
    <3> QED BY <1>2, <3>1, <3>2, <3>3
  <2>3. hist.refused \in Nat /\ blade[b].errs \in Nat
    BY DEF ChartInv, PInv, PeersOK, BladeState
  <2> QED BY <2>1, <2>2, <2>3, BladeCounts
<1>3. ASSUME NEW b \in Blade, Refuse(b) \/ ResetStats(b) \/ Crash(b)
      PROVE  ChartInv'
  <2>1. /\ heard' = heard /\ ring' = ring
        /\ hist'.charted = hist.charted
        /\ Refuse(b) => hist'.refused = hist.refused + 1
        /\ ~Refuse(b) => hist'.refused = hist.refused
    BY <1>3 DEF PInv, HistOK, Refuse, ResetStats, Crash
  <2>2. \A c \in Blade \ {b} : blade'[c].errs = blade[c].errs
    BY <1>3 DEF PInv, PeersOK, BladeState, Refuse, ResetStats, Crash
  <2>3. /\ Refuse(b) => blade'[b].errs = blade[b].errs + 1
        /\ ~Refuse(b) => blade'[b].errs = 0
    BY <1>3 DEF PInv, PeersOK, BladeState, Refuse, ResetStats, Crash, Off
  <2>4. hist.refused \in Nat /\ blade[b].errs \in Nat
    BY DEF ChartInv, PInv, PeersOK, BladeState
  <2> QED BY <2>1, <2>2, <2>3, <2>4, BladeCounts
<1>4. ASSUME NEW b \in Blade, Fade(b) PROVE ChartInv'
  <2>1. \A c \in Blade : heard'[c].errs = heard[c].errs
    BY <1>4 DEF PInv, PeersOK, HeardState, Fade
  <2>2. blade' = blade /\ ring' = ring /\ hist' = hist
    BY <1>4 DEF Fade
  <2>3. hist.refused \in Nat /\ blade[b].errs \in Nat
    BY DEF ChartInv, PInv, PeersOK, BladeState
  <2> QED BY <2>1, <2>2, <2>3, BladeCounts
<1>5. ASSUME NEW b \in Blade, Heartbeat(b) PROVE ChartInv'
  <2>1. /\ ring' = ring /\ hist'.charted = hist.charted /\ hist'.refused = hist.refused
    BY <1>5 DEF Heartbeat, PInv, HistOK
  <2>2. \A c \in Blade : blade'[c].errs = blade[c].errs
    BY <1>5 DEF Heartbeat, PInv, PeersOK, BladeState
  <2>3. CASE UNCHANGED heard
    <3>1. hist.refused \in Nat /\ blade[b].errs \in Nat
      BY DEF ChartInv, PInv, PeersOK, BladeState
    <3> QED BY <2>1, <2>2, <2>3, <3>1, BladeCounts
  <2>4. CASE heard' = [heard EXCEPT ![b] = Received(heard[b], blade[b].seq + 1,
                                              Least(blade[b].clicks, WIRE), blade[b].errs)]
    <3>1. heard'[b].errs = blade[b].errs /\ \A c \in Blade \ {b} : heard'[c].errs = heard[c].errs
      BY <2>4 DEF PInv, PeersOK, HeardState, Received
    <3> QED BY <2>1, <2>2, <3>1, HeardCounts
  <2> QED BY <1>5, <2>3, <2>4 DEF Heartbeat
<1>6. CASE \E leader \in Blade \cup {"none"} : Render(leader)
  BY <1>6, LookCounts
<1>7. CASE Reboot
  BY <1>7, RebootCounts
<1> QED BY <1>1, <1>2, <1>3, <1>4, <1>5, <1>6, <1>7 DEF Next

\* No refusal is charted twice and none that was not made, for any fleet, however
\* often its blades come back with their counts at zero.
THEOREM ChartsOnce == Spec => []ChartedOnce
<1>1. PInv /\ ChartInv => ChartedOnce
  <2> SUFFICES ASSUME PInv, ChartInv PROVE ChartedOnce
    OBVIOUS
  <2>1. Unread \in Nat /\ Total(Ahead, Blade) \in Nat
    BY Counts DEF ChartInv
  <2> QED BY <2>1 DEF ChartInv, ChartedOnce
<1> QED BY <1>1, Kept, InitCounts, StepCounts, PTL DEF Spec

----------------------------------------------------------------------------
(* The chart *)

\* k terms of a sequence, after the first a.
Part(s, a, k) == [i \in 1..k |-> s[a + i]]

Minute(s, m) == Total(Part(s, (m - 1) * SECS, SECS), 1..SECS)

\* Where the ring has the m-th of the minutes it holds.
MinCell(r, m) ==
  IF r.minN < MINS THEN m
  ELSE IF r.minPos + m <= MINS THEN r.minPos + m ELSE r.minPos + m - MINS

\* What each cell of the ring r holds of the seconds s.
Charts(r, s) ==
  /\ r \in RingState /\ s \in Seq(Nat)
  /\ Len(s) = r.minN * SECS + r.secPos
  /\ r.minN < MINS => r.minPos = r.minN
  /\ r.acc = Total(Part(s, r.minN * SECS, r.secPos), 1..r.secPos)
  /\ \A k \in 1..SECS :
       r.sec[k] = IF k <= r.secPos THEN Sat(s[r.minN * SECS + k])
                  ELSE IF r.minN > 0 THEN Sat(s[(r.minN - 1) * SECS + k]) ELSE 0
  /\ \A m \in 1..r.minN : r.min[MinCell(r, m)] = Sat(Minute(s, m))

\* Recent, of any seconds.
After(s, d) ==
  LET all == Append(s, d)
  IN IF Len(all) >= (MINS + 1) * SECS THEN SubSeq(all, SECS + 1, Len(all)) ELSE all

LEMMA PartIs ==
  ASSUME NEW s \in Seq(Int), NEW a \in Nat, NEW k \in Nat, a + k <= Len(s)
  PROVE  /\ SubSeq(s, a + 1, a + k) = Part(s, a, k)
         /\ SubSeq(s, a + 1, a + k) \in Seq(Int) /\ Len(SubSeq(s, a + 1, a + k)) = k
BY DEF Part

LEMMA SumPart ==
  ASSUME NEW s \in Seq(Int), NEW a \in Nat, NEW k \in Nat, a + k <= Len(s)
  PROVE  SumOf(SubSeq(s, a + 1, a + k)) = Total(Part(s, a, k), 1..k)
<1>1. SubSeq(s, a + 1, a + k) = Part(s, a, k)
  BY PartIs
<1>2. DOMAIN Part(s, a, k) = 1..k
  BY DEF Part
<1>3. SumOf(Part(s, a, k)) = Total(Part(s, a, k), DOMAIN Part(s, a, k))
  BY DEF SumOf, Total
<1> QED BY <1>1, <1>2, <1>3

LEMMA Next1 ==
  ASSUME NEW k \in Nat
  PROVE  (1..k + 1) \ {k + 1} = 1..k /\ IsFiniteSet(1..k + 1) /\ IsFiniteSet(1..k)
<1>1. (1..k + 1) \ {k + 1} = 1..k
  OBVIOUS
<1>2. 1 \in Int /\ k \in Int /\ k + 1 \in Int
  OBVIOUS
<1>3. IsFiniteSet(1..k + 1) /\ IsFiniteSet(1..k)
  BY <1>2, FS_Interval
<1> QED BY <1>1, <1>3

\* One more term.
LEMMA SumMore ==
  ASSUME NEW k \in Nat, NEW n \in Nat, k < n, n <= k + 1,
         NEW f \in [1..n -> Int], NEW h \in [1..k -> Int], \A x \in 1..k : f[x] = h[x]
  PROVE  Total(f, 1..n) = Total(h, 1..k) + f[n]
<1>1. \A x \in 1..n : f[x] \in Int
  OBVIOUS
<1>2. n \in 1..n
  OBVIOUS
<1>3. \A x \in 1..k : f[x] = h[x]
  OBVIOUS
<1>4. (1..n) \ {n} = 1..k /\ IsFiniteSet(1..n) /\ IsFiniteSet(1..k)
  BY Next1
<1>5. Total(f, 1..n) = f[n] + Total(f, (1..n) \ {n}) /\ Total(f, (1..n) \ {n}) \in Int
  BY <1>1, <1>2, <1>4, TotalSplit
<1>6. Total(f, 1..k) = Total(h, 1..k)
  BY <1>3, <1>4, TotalSame
<1> DEFINE u == Total(f, 1..k)
<1>7. u \in Int /\ Total(f, 1..n) = f[n] + u
  BY <1>4, <1>5
<1> HIDE DEF u
<1>8. Total(f, 1..n) = u + f[n]
  BY <1>1, <1>2, <1>7
<1> QED BY <1>6, <1>8 DEF u

LEMMA Times ==
  ASSUME NEW a \in Nat, NEW b \in Nat, NEW c \in Nat
  PROVE  /\ a * c \in Nat
         /\ (a + 1) * c = a * c + c
         /\ a < b => a * c + c <= b * c
<1>1. a * c \in Nat /\ b * c \in Nat
  OBVIOUS
<1>2. (a + 1) * c = a * c + c
  OBVIOUS
<1>3. ASSUME a < b PROVE a * c + c <= b * c
  <2> DEFINE d == b - a - 1
  <2>1. d \in Nat /\ b = a + 1 + d
    BY <1>3
  <2> HIDE DEF d
  <2>2. b * c = a * c + c + d * c
    BY <2>1
  <2>3. d * c \in Nat
    BY <2>1
  <2> QED BY <1>1, <2>2, <2>3
<1> QED BY <1>1, <1>2, <1>3

LEMMA Quotient ==
  ASSUME NEW q \in Nat, NEW c \in Nat, NEW p \in 0..c - 1
  PROVE  (q * c + p) \div c = q
OBVIOUS

LEMMA WrapsTo ==
  ASSUME NEW c \in Nat \ {0}, NEW p \in 0..c - 1
  PROVE  (p + 1) % c = IF p + 1 = c THEN 0 ELSE p + 1
<1>1. CASE p + 1 = c
  <2>1. c % c = 0
    OBVIOUS
  <2> QED BY <1>1, <2>1
<1>2. CASE p + 1 # c
  BY <1>2
<1> QED BY <1>1, <1>2

\* What a second does to the cells, by cases.
LEMMA RateBy ==
  ASSUME NEW r \in RingState, NEW d \in Nat
  PROVE  LET t == RateAdd(r, d)
         IN  /\ t \in RingState /\ t.sec = [r.sec EXCEPT ![r.secPos + 1] = Sat(d)]
             /\ r.secPos + 1 # SECS =>
                  /\ t.secPos = r.secPos + 1 /\ t.acc = r.acc + d
                  /\ t.min = r.min /\ t.minPos = r.minPos /\ t.minN = r.minN
             /\ r.secPos + 1 = SECS =>
                  /\ t.secPos = 0 /\ t.acc = 0
                  /\ t.min = [r.min EXCEPT ![r.minPos + 1] = Sat(r.acc + d)]
                  /\ t.minPos = IF r.minPos + 1 = MINS THEN 0 ELSE r.minPos + 1
                  /\ t.minN = IF r.minN < MINS THEN r.minN + 1 ELSE MINS
<1> DEFINE pos == (r.secPos + 1) % SECS
           mpos == (r.minPos + 1) % MINS
           sec == [r.sec EXCEPT ![r.secPos + 1] = Sat(d)]
           acc == r.acc + d
           min == [r.min EXCEPT ![r.minPos + 1] = Sat(acc)]
           n == Least(r.minN + 1, MINS)
           s == [r EXCEPT !.sec = sec, !.secPos = pos, !.acc = acc]
<1>1. /\ r.secPos \in 0..SECS - 1 /\ r.minPos \in 0..MINS - 1 /\ r.minN \in 0..MINS
      /\ SECS \in Nat \ {0} /\ MINS \in Nat \ {0}
  BY SizesAssumption DEF RingState
<1>2. /\ pos = IF r.secPos + 1 = SECS THEN 0 ELSE r.secPos + 1
      /\ mpos = IF r.minPos + 1 = MINS THEN 0 ELSE r.minPos + 1
  BY <1>1, WrapsTo
<1>3. n = IF r.minN < MINS THEN r.minN + 1 ELSE MINS
  BY <1>1 DEF Least
<1>4. RateAdd(r, d) = IF pos # 0 THEN s
                      ELSE [r EXCEPT !.sec = sec, !.secPos = pos, !.acc = 0,
                                     !.min = min, !.minPos = mpos, !.minN = n]
  BY DEF RateAdd, RingState
<1>5. RateAdd(r, d) \in RingState
  BY RingKept
<1>6. r.secPos + 1 # SECS => pos # 0
  BY <1>1, <1>2
<1>7. r.secPos + 1 = SECS => pos = 0
  BY <1>1, <1>2
<1> HIDE DEF pos, mpos, sec, min, n
<1>8. CASE r.secPos + 1 # SECS
  BY <1>2, <1>4, <1>5, <1>6, <1>8 DEF RingState, sec
<1>9. CASE r.secPos + 1 = SECS
  <2>1. RateAdd(r, d) = [sec |-> sec, min |-> min, secPos |-> pos, minPos |-> mpos, minN |-> n,
                         acc |-> 0, last |-> r.last, have |-> r.have]
    BY <1>4, <1>7, <1>9 DEF RingState
  <2> QED BY <1>2, <1>3, <1>5, <1>9, <2>1 DEF sec, min
<1> QED BY <1>8, <1>9

\* The whole minutes, and the seconds of the running one.
LEMMA Shape ==
  ASSUME NEW r, NEW s, Charts(r, s)
  PROVE  /\ r \in RingState /\ s \in Seq(Nat) /\ Len(s) \in Nat
         /\ r.secPos \in 0..SECS - 1 /\ r.minN \in 0..MINS /\ r.minPos \in 0..MINS - 1
         /\ SECS \in Nat \ {0} /\ MINS \in Nat \ {0} /\ r.acc \in Nat
         /\ r.minN * SECS \in Nat /\ Len(s) = r.minN * SECS + r.secPos
         /\ (r.minN + 1) * SECS = r.minN * SECS + SECS
         /\ r.minN > 0 => (r.minN - 1) * SECS \in Nat /\ (r.minN - 1) * SECS + SECS = r.minN * SECS
<1>1. /\ r \in RingState /\ s \in Seq(Nat) /\ Len(s) \in Nat
      /\ r.secPos \in 0..SECS - 1 /\ r.minN \in 0..MINS /\ r.minPos \in 0..MINS - 1
      /\ SECS \in Nat \ {0} /\ MINS \in Nat \ {0} /\ r.acc \in Nat
      /\ Len(s) = r.minN * SECS + r.secPos
  BY SizesAssumption DEF Charts, RingState
<1>2. r.minN * SECS \in Nat /\ (r.minN + 1) * SECS = r.minN * SECS + SECS
  BY <1>1, Times
<1>3. ASSUME r.minN > 0
      PROVE  (r.minN - 1) * SECS \in Nat /\ (r.minN - 1) * SECS + SECS = r.minN * SECS
  <2>1. r.minN - 1 \in Nat
    BY <1>1, <1>3
  <2>2. (r.minN - 1) * SECS \in Nat /\ (r.minN - 1 + 1) * SECS = (r.minN - 1) * SECS + SECS
    BY <1>1, <2>1, Times
  <2>3. r.minN - 1 + 1 = r.minN
    BY <1>1
  <2> QED BY <2>2, <2>3
<1> QED BY <1>1, <1>2, <1>3

\* The seconds are cut when the ring has its minutes and the next is whole.
LEMMA Cut ==
  ASSUME NEW r, NEW s, Charts(r, s), NEW d \in Nat
  PROVE  LET all == Append(s, d)
             full == r.minN = MINS /\ r.secPos + 1 = SECS
         IN  /\ all \in Seq(Nat) /\ Len(all) = r.minN * SECS + r.secPos + 1
             /\ \A i \in 1..Len(s) : all[i] = s[i]
             /\ all[r.minN * SECS + (r.secPos + 1)] = d
             /\ ~full => After(s, d) = all
             /\ full => /\ After(s, d) \in Seq(Nat) /\ Len(After(s, d)) = MINS * SECS
                        /\ After(s, d) = Part(all, SECS, MINS * SECS)
<1> DEFINE all == Append(s, d)
           w == r.minN * SECS
           p == r.secPos
<1>1. /\ s \in Seq(Nat) /\ w \in Nat /\ p \in 0..SECS - 1 /\ Len(s) = w + p
      /\ SECS \in Nat \ {0} /\ MINS \in Nat \ {0} /\ r.minN \in 0..MINS
      /\ (r.minN + 1) * SECS = w + SECS
  BY Shape
<1> HIDE DEF w, p
<1>2. /\ all \in Seq(Nat) /\ Len(all) = w + p + 1 /\ all[w + (p + 1)] = d
      /\ \A i \in 1..Len(s) : all[i] = s[i]
  <2>1. all \in Seq(Nat) /\ Len(all) = Len(s) + 1 /\ all[Len(s) + 1] = d
        /\ \A i \in 1..Len(s) : all[i] = s[i]
    BY <1>1
  <2>2. Len(s) + 1 = w + (p + 1)
    BY <1>1
  <2> QED BY <1>1, <2>1, <2>2
<1>3. MINS * SECS \in Nat /\ (MINS + 1) * SECS = MINS * SECS + SECS
  BY <1>1, Times
<1> HIDE DEF all
<1>4. CASE ~(r.minN = MINS /\ p + 1 = SECS)
  <2>1. Len(all) < (MINS + 1) * SECS
    <3>1. CASE r.minN = MINS
      <4>1. w = MINS * SECS
        BY <3>1 DEF w
      <4> QED BY <1>1, <1>2, <1>3, <1>4, <3>1, <4>1
    <3>2. CASE r.minN < MINS
      <4>1. w + SECS <= MINS * SECS
        <5>1. r.minN \in Nat /\ MINS \in Nat /\ SECS \in Nat /\ r.minN < MINS
          BY <1>1, <3>2
        <5>2. r.minN * SECS + SECS <= MINS * SECS
          BY ONLY <5>1, Times
        <5> QED BY <5>2 DEF w
      <4> QED BY <1>1, <1>2, <1>3, <4>1
    <3> QED BY <1>1, <3>1, <3>2
  <2>2. After(s, d) = all
    <3>1. ~(Len(all) >= (MINS + 1) * SECS)
      BY <1>1, <1>2, <1>3, <2>1
    <3> QED BY <3>1 DEF After, all
  <2> QED BY <1>2, <1>4, <2>2 DEF all, w, p
<1>5. CASE r.minN = MINS /\ p + 1 = SECS
  <2>1. Len(all) = SECS + MINS * SECS /\ Len(all) = (MINS + 1) * SECS
    BY <1>1, <1>2, <1>3, <1>5 DEF w
  <2>2. After(s, d) = SubSeq(all, SECS + 1, SECS + MINS * SECS)
    <3>1. Len(all) >= (MINS + 1) * SECS
      BY <1>3, <2>1
    <3>2. After(s, d) = SubSeq(all, SECS + 1, Len(all))
      BY <3>1 DEF After, all
    <3> QED BY <2>1, <3>2
  <2> DEFINE k == MINS * SECS
  <2> HIDE DEF k
  <2>3. /\ After(s, d) \in Seq(Nat) /\ Len(After(s, d)) = k
        /\ After(s, d) = Part(all, SECS, k)
    <3>1. k \in Nat /\ SECS + k = Len(all) /\ After(s, d) = SubSeq(all, SECS + 1, SECS + k)
      BY <1>3, <2>1, <2>2 DEF k
    <3>2. /\ SubSeq(all, SECS + 1, SECS + k) \in Seq(Nat)
          /\ Len(SubSeq(all, SECS + 1, SECS + k)) = k
          /\ SubSeq(all, SECS + 1, SECS + k) = Part(all, SECS, k)
      BY <1>1, <1>2, <3>1 DEF Part
    <3> QED BY <3>1, <3>2
  <2> QED BY <1>2, <1>5, <2>3 DEF all, w, p, k
<1> QED BY <1>4, <1>5

\* The running minute, with its next second.
LEMMA MinuteGrows ==
  ASSUME NEW r, NEW s, Charts(r, s), NEW d \in Nat
  PROVE  Total(Part(Append(s, d), r.minN * SECS, r.secPos + 1), 1..r.secPos + 1) = r.acc + d
<1> DEFINE t == Append(s, d)
           w == r.minN * SECS
           p == r.secPos
<1>1. w \in Nat /\ p \in Nat /\ Len(s) = w + p /\ s \in Seq(Nat)
  BY Shape
<1>2. (\A i \in 1..Len(s) : t[i] = s[i]) /\ t[w + (p + 1)] = d
  BY Cut
<1>3. r.acc = Total(Part(s, w, p), 1..p)
  BY DEF Charts
<1> HIDE DEF t, w, p
<1>4. \A i \in 1..p : s[w + i] \in Int /\ t[w + i] = s[w + i]
  <2> SUFFICES ASSUME NEW i \in 1..p PROVE s[w + i] \in Int /\ t[w + i] = s[w + i]
    OBVIOUS
  <2>1. w + i \in 1..Len(s)
    BY <1>1
  <2> QED BY <1>1, <1>2, <2>1
<1> DEFINE n == p + 1
           f == Part(t, w, n)
           h == Part(s, w, p)
<1>5. /\ n \in Nat /\ p < n /\ n <= p + 1 /\ f[n] = d
      /\ f \in [1..n -> Int] /\ h \in [1..p -> Int] /\ \A i \in 1..p : f[i] = h[i]
  <2>1. h = [i \in 1..p |-> s[w + i]] /\ f = [i \in 1..n |-> t[w + i]]
    BY DEF Part
  <2>2. n \in Nat /\ p < n /\ n <= p + 1 /\ n \in 1..n /\ t[w + n] = d
    BY <1>1, <1>2
  <2> HIDE DEF n, f, h
  <2>3. \A i \in 1..n : i \in 1..p \/ i = n
    BY <1>1, <2>2
  <2>4. \A i \in 1..n : t[w + i] \in Int
    BY <1>4, <2>2, <2>3
  <2>5. \A i \in 1..p : i \in 1..n
    BY <1>1, <2>2
  <2>6. h \in [1..p -> Int]
    BY <1>4, <2>1
  <2>7. f \in [1..n -> Int]
    BY <2>1, <2>4
  <2> QED BY <1>4, <2>1, <2>2, <2>5, <2>6, <2>7
<1> HIDE DEF n, f, h
<1>6. Total(f, 1..n) = Total(h, 1..p) + f[n]
  BY ONLY <1>1, <1>5, SumMore
<1> QED BY <1>3, <1>5, <1>6 DEF t, w, p, n, f, h

\* The whole minutes stay what they are when a second is added.
LEMMA MinutesStay ==
  ASSUME NEW r, NEW s, Charts(r, s), NEW d \in Nat, NEW m \in 1..r.minN
  PROVE  Minute(Append(s, d), m) = Minute(s, m)
<1>1. /\ r.minN \in Nat /\ SECS \in Nat /\ r.secPos \in Nat /\ r.minN * SECS \in Nat
      /\ Len(s) = r.minN * SECS + r.secPos
  BY Shape
<1>2. (m - 1) * SECS \in Nat /\ (m - 1) * SECS + SECS <= r.minN * SECS
  <2>1. m - 1 \in Nat /\ m - 1 < r.minN
    BY <1>1
  <2> QED BY ONLY <1>1, <2>1, Times
<1>3. \A i \in 1..Len(s) : Append(s, d)[i] = s[i]
  BY Cut
<1> DEFINE w == (m - 1) * SECS
           t == Append(s, d)
<1>4. \A i \in 1..SECS : t[w + i] = s[w + i]
  <2> HIDE DEF w, t
  <2> SUFFICES ASSUME NEW i \in 1..SECS PROVE t[w + i] = s[w + i]
    OBVIOUS
  <2>1. w + i \in 1..Len(s)
    BY <1>1, <1>2 DEF w
  <2> QED BY <1>3, <2>1 DEF t
<1>5. Part(t, w, SECS) = Part(s, w, SECS)
  BY <1>4 DEF Part
<1> QED BY <1>5 DEF Minute

\* A second that does not end its minute.
LEMMA WithinMinute ==
  ASSUME NEW r, NEW s, Charts(r, s), NEW d \in Nat, r.secPos + 1 # SECS
  PROVE  Charts(RateAdd(r, d), After(s, d))
<1> DEFINE t == Append(s, d)
           q == RateAdd(r, d)
           w == r.minN * SECS
           p == r.secPos
<1>1. /\ t \in Seq(Nat) /\ Len(t) = w + p + 1 /\ After(s, d) = t
      /\ (\A i \in 1..Len(s) : t[i] = s[i]) /\ t[w + (p + 1)] = d
  BY Cut
<1>2. /\ q \in RingState /\ q.sec = [r.sec EXCEPT ![p + 1] = Sat(d)]
      /\ q.secPos = p + 1 /\ q.acc = r.acc + d
      /\ q.min = r.min /\ q.minPos = r.minPos /\ q.minN = r.minN
  BY Shape, RateBy
<1>3. /\ r.sec \in [1..SECS -> 0..CEIL] /\ w \in Nat /\ p \in 0..SECS - 1 /\ Len(s) = w + p
      /\ SECS \in Nat /\ r.minN \in Nat
      /\ r.minN > 0 => (r.minN - 1) * SECS \in Nat /\ (r.minN - 1) * SECS + SECS = w
  BY Shape DEF RingState
<1>4. Total(Part(t, w, p + 1), 1..p + 1) = r.acc + d
  BY MinuteGrows
<1>5. \A m \in 1..r.minN : Minute(t, m) = Minute(s, m) /\ MinCell(q, m) = MinCell(r, m)
  BY <1>2, MinutesStay DEF MinCell
<1>6. \A k \in 1..SECS :
        r.sec[k] = IF k <= p THEN Sat(s[w + k])
                   ELSE IF r.minN > 0 THEN Sat(s[(r.minN - 1) * SECS + k]) ELSE 0
  BY DEF Charts
<1>7. /\ r.minN < MINS => r.minPos = r.minN
      /\ \A m \in 1..r.minN : r.min[MinCell(r, m)] = Sat(Minute(s, m))
  BY DEF Charts
<1> DEFINE v == (r.minN - 1) * SECS
<1> HIDE DEF t, q, w, p, v
<1>8. ASSUME NEW k \in 1..SECS
      PROVE  q.sec[k] = IF k <= p + 1 THEN Sat(t[w + k])
                        ELSE IF r.minN > 0 THEN Sat(t[v + k]) ELSE 0
  <2>1. CASE k <= p
    <3>1. w + k \in 1..Len(s) /\ k # p + 1
      BY <1>3, <2>1
    <3>4. k <= p + 1 /\ p + 1 \in 1..SECS
      BY <1>3, <2>1
    <3>5. q.sec = [r.sec EXCEPT ![p + 1] = Sat(d)] /\ k # p + 1 /\ k \in 1..SECS
      BY <1>2, <3>1
    <3>6. q.sec[k] = r.sec[k]
      BY ONLY <1>3, <3>5
    <3>2. q.sec[k] = r.sec[k] /\ k <= p + 1
      BY <3>4, <3>6
    <3>3. r.sec[k] = Sat(s[w + k]) /\ t[w + k] = s[w + k]
      BY <1>1, <1>6, <2>1, <3>1
    <3> QED BY <3>2, <3>3
  <2>2. CASE k = p + 1
    <3>1. q.sec[p + 1] = Sat(d) /\ k <= p + 1
      BY <1>2, <1>3, <2>2
    <3> QED BY <1>1, <2>2, <3>1
  <2>3. CASE k > p + 1
    <3>1. r.minN > 0 => v + k \in 1..Len(s)
      BY <1>3, <2>3 DEF v
    <3>2. q.sec[k] = r.sec[k] /\ ~(k <= p) /\ ~(k <= p + 1)
      BY <1>2, <1>3, <2>3
    <3> QED BY <1>1, <1>6, <3>1, <3>2 DEF v
  <2> QED BY <1>3, <2>1, <2>2, <2>3
<1>9. Len(t) = q.minN * SECS + q.secPos /\ q.minN * SECS = w
  BY <1>1, <1>2, <1>3 DEF w
<1>10. Charts(q, t)
  BY <1>1, <1>2, <1>4, <1>5, <1>7, <1>8, <1>9 DEF Charts, v
<1> QED BY <1>1, <1>10 DEF q

\* A second that ends its minute, while there is a cell for it.
LEMMA MinuteKept ==
  ASSUME NEW r, NEW s, Charts(r, s), NEW d \in Nat, r.secPos + 1 = SECS, r.minN < MINS
  PROVE  Charts(RateAdd(r, d), After(s, d))
<1> DEFINE t == Append(s, d)
           q == RateAdd(r, d)
           w == r.minN * SECS
           p == r.secPos
           o == r.minN
<1>1. /\ t \in Seq(Nat) /\ Len(t) = w + p + 1 /\ After(s, d) = t
      /\ (\A i \in 1..Len(s) : t[i] = s[i]) /\ t[w + (p + 1)] = d
  <2>1. ~(r.minN = MINS /\ r.secPos + 1 = SECS)
    BY Shape
  <2> QED BY <2>1, Cut
<1>2. /\ q \in RingState /\ q.sec = [r.sec EXCEPT ![p + 1] = Sat(d)]
      /\ q.secPos = 0 /\ q.acc = 0 /\ q.minN = o + 1
      /\ q.min = [r.min EXCEPT ![r.minPos + 1] = Sat(r.acc + d)]
      /\ q.minPos = IF r.minPos + 1 = MINS THEN 0 ELSE r.minPos + 1
  BY Shape, RateBy
<1>3. /\ r.sec \in [1..SECS -> 0..CEIL] /\ r.min \in [1..MINS -> 0..CEIL]
      /\ w \in Nat /\ p \in 0..SECS - 1 /\ Len(s) = w + p /\ p + 1 = SECS
      /\ SECS \in Nat /\ MINS \in Nat /\ o \in Nat /\ o < MINS /\ (o + 1) * SECS = w + SECS
  <2>1. r.sec \in [1..SECS -> 0..CEIL] /\ r.min \in [1..MINS -> 0..CEIL]
    <3>1. r \in RingState
      BY Shape
    <3> QED BY <3>1 DEF RingState
  <2>2. /\ w \in Nat /\ p \in 0..SECS - 1 /\ Len(s) = w + p
        /\ SECS \in Nat /\ MINS \in Nat /\ o \in 0..MINS /\ (o + 1) * SECS = w + SECS
    BY Shape
  <2>3. p + 1 = SECS /\ o < MINS
    OBVIOUS
  <2> HIDE DEF w, p, o
  <2> QED BY <2>1, <2>2, <2>3
<1>4. r.minPos = o
  BY DEF Charts
<1>5. \A k \in 1..SECS : r.sec[k] = IF k <= p THEN Sat(s[w + k])
                                    ELSE IF r.minN > 0 THEN Sat(s[(r.minN - 1) * SECS + k]) ELSE 0
  BY DEF Charts
<1>6. Minute(t, o + 1) = r.acc + d
  <2>1. Total(Part(t, w, p + 1), 1..p + 1) = r.acc + d
    BY MinuteGrows
  <2>2. ((o + 1) - 1) * SECS = w /\ p + 1 = SECS
    BY <1>3
  <2> HIDE DEF t, w, p, o
  <2>3. Minute(t, o + 1) = Total(Part(t, ((o + 1) - 1) * SECS, SECS), 1..SECS)
    BY DEF Minute
  <2> QED BY <2>1, <2>2, <2>3
<1>7. ASSUME NEW m \in 1..o PROVE Minute(t, m) = Minute(s, m) /\ r.min[m] = Sat(Minute(s, m))
  <2>1. r.min[MinCell(r, m)] = Sat(Minute(s, m)) /\ MinCell(r, m) = m
    BY <1>3 DEF Charts, MinCell
  <2> QED BY <2>1, MinutesStay
<1> HIDE DEF t, q, w, p, o
<1>8. ASSUME NEW k \in 1..SECS
      PROVE  q.sec[k] = Sat(t[w + k])
  <2>1. CASE k <= p
    <3>1. w + k \in 1..Len(s) /\ k # p + 1
      BY <1>3, <2>1
    <3>2. q.sec[k] = r.sec[k]
      BY <1>2, <1>3, <3>1
    <3>3. r.sec[k] = Sat(s[w + k]) /\ t[w + k] = s[w + k]
      BY <1>1, <1>5, <2>1, <3>1
    <3> QED BY <3>2, <3>3
  <2>2. CASE ~(k <= p)
    <3>1. k = p + 1 /\ p + 1 \in 1..SECS
      BY <1>3, <2>2
    <3>2. q.sec[p + 1] = Sat(d)
      BY <1>2, <1>3, <3>1
    <3> QED BY <1>1, <3>1, <3>2
  <2> QED BY <2>1, <2>2
<1>9. ASSUME NEW m \in 1..o + 1
      PROVE  MinCell(q, m) = m /\ q.min[m] = Sat(Minute(t, m))
  <2>1. MinCell(q, m) = m
    <3>1. CASE o + 1 < MINS
      BY <1>2, <3>1 DEF MinCell
    <3>2. CASE o + 1 = MINS
      <4>1. q.minPos = 0 /\ q.minN = MINS /\ m <= MINS /\ m \in Nat
        BY <1>2, <1>3, <1>4, <3>2
      <4> QED BY <1>3, <4>1 DEF MinCell
    <3> QED BY <1>3, <3>1, <3>2
  <2>2. CASE m = o + 1
    <3>1. q.min[o + 1] = Sat(r.acc + d)
      BY <1>2, <1>3, <1>4
    <3> QED BY <1>6, <2>1, <2>2, <3>1
  <2>3. CASE m # o + 1
    <3>1. m \in 1..o /\ m \in 1..MINS
      BY <1>3, <2>3
    <3>2. q.min[m] = r.min[m]
      BY <1>2, <1>3, <1>4, <2>3, <3>1
    <3> QED BY <1>7, <2>1, <3>1, <3>2
  <2> QED BY <2>2, <2>3
<1>10. /\ Len(t) = q.minN * SECS + q.secPos
       /\ q.acc = Total(Part(t, q.minN * SECS, q.secPos), 1..q.secPos)
       /\ q.minN < MINS => q.minPos = q.minN
  <2>1. q.minN * SECS = w + SECS /\ w + SECS \in Nat
    BY <1>2, <1>3
  <2>2. 1..q.secPos = {}
    BY <1>2
  <2>3. Total(Part(t, q.minN * SECS, q.secPos), {}) = 0
    BY TotalEmpty
  <2> QED BY <1>1, <1>2, <1>3, <1>4, <2>1, <2>2, <2>3
<1>11. \A k \in 1..SECS :
         q.sec[k] = IF k <= q.secPos THEN Sat(t[q.minN * SECS + k])
                    ELSE IF q.minN > 0 THEN Sat(t[(q.minN - 1) * SECS + k]) ELSE 0
  <2> SUFFICES ASSUME NEW k \in 1..SECS
               PROVE  /\ ~(k <= q.secPos) /\ q.minN > 0 /\ (q.minN - 1) * SECS = w
                      /\ q.sec[k] = Sat(t[w + k])
    OBVIOUS
  <2>1. ~(k <= q.secPos) /\ q.minN > 0 /\ q.minN - 1 = o
    BY <1>2, <1>3
  <2> QED BY <1>8, <2>1 DEF w, o
<1>12. Charts(q, t)
  BY <1>1, <1>2, <1>9, <1>10, <1>11 DEF Charts
<1> QED BY <1>1, <1>12 DEF q

\* A second that ends its minute, when the oldest has to make room.
LEMMA MinuteOver ==
  ASSUME NEW r, NEW s, Charts(r, s), NEW d \in Nat, r.secPos + 1 = SECS, r.minN = MINS
  PROVE  Charts(RateAdd(r, d), After(s, d))
<1> DEFINE all == Append(s, d)
           t == After(s, d)
           q == RateAdd(r, d)
           w == MINS * SECS
           v == (MINS - 1) * SECS
           p == r.secPos
<1>1. /\ \A i \in 1..Len(s) : all[i] = s[i]
      /\ all[w + (p + 1)] = d
      /\ t \in Seq(Nat) /\ Len(t) = w /\ \A i \in 1..w : t[i] = all[SECS + i]
  <2>1. r.minN = MINS /\ r.secPos + 1 = SECS
    OBVIOUS
  <2>2. /\ \A i \in 1..Len(s) : all[i] = s[i]
        /\ all[r.minN * SECS + (r.secPos + 1)] = d
        /\ t \in Seq(Nat) /\ Len(t) = MINS * SECS
        /\ \A i \in 1..MINS * SECS : t[i] = all[SECS + i]
    <3>1. \A i \in 1..Len(s) : all[i] = s[i]
      BY Cut
    <3>2. all[r.minN * SECS + (r.secPos + 1)] = d
      BY Cut
    <3>3. t \in Seq(Nat) /\ Len(t) = MINS * SECS
      BY <2>1, Cut
    <3>4. t = Part(all, SECS, MINS * SECS)
      BY <2>1, Cut
    <3>5. \A i \in 1..MINS * SECS : t[i] = all[SECS + i]
      <4> HIDE DEF t, all
      <4> QED BY <3>4 DEF Part
    <3> QED BY <3>1, <3>2, <3>3, <3>5
  <2> HIDE DEF all, t
  <2> QED BY <2>1, <2>2
<1>2. /\ q \in RingState /\ q.sec = [r.sec EXCEPT ![p + 1] = Sat(d)]
      /\ q.secPos = 0 /\ q.acc = 0 /\ q.minN = MINS
      /\ q.min = [r.min EXCEPT ![r.minPos + 1] = Sat(r.acc + d)]
      /\ q.minPos = IF r.minPos + 1 = MINS THEN 0 ELSE r.minPos + 1
  <2>1. /\ q \in RingState /\ q.sec = [r.sec EXCEPT ![p + 1] = Sat(d)]
        /\ q.secPos = 0 /\ q.acc = 0
        /\ q.min = [r.min EXCEPT ![r.minPos + 1] = Sat(r.acc + d)]
        /\ q.minPos = IF r.minPos + 1 = MINS THEN 0 ELSE r.minPos + 1
        /\ q.minN = IF r.minN < MINS THEN r.minN + 1 ELSE MINS
    BY Shape, RateBy
  <2>2. ~(r.minN < MINS)
    BY Shape
  <2> HIDE DEF q, p
  <2> QED BY <2>1, <2>2
<1>3. /\ r.sec \in [1..SECS -> 0..CEIL] /\ r.min \in [1..MINS -> 0..CEIL]
      /\ w \in Nat /\ v \in Nat /\ v + SECS = w /\ p \in 0..SECS - 1 /\ Len(s) = w + p
      /\ p + 1 = SECS /\ SECS \in Nat /\ MINS \in Nat /\ MINS > 0 /\ r.minPos \in 0..MINS - 1
  <2>1. r.sec \in [1..SECS -> 0..CEIL] /\ r.min \in [1..MINS -> 0..CEIL]
    <3>1. r \in RingState
      BY Shape
    <3> QED BY <3>1 DEF RingState
  <2>2. /\ p \in 0..SECS - 1 /\ Len(s) = w + p /\ w \in Nat /\ p + 1 = SECS
        /\ SECS \in Nat /\ MINS \in Nat /\ MINS > 0 /\ r.minPos \in 0..MINS - 1
    BY Shape
  <2>3. v \in Nat /\ v + SECS = w
    <3>1. MINS - 1 \in Nat /\ (MINS - 1) + 1 = MINS
      BY <2>2
    <3>2. (MINS - 1) * SECS \in Nat /\ ((MINS - 1) + 1) * SECS = (MINS - 1) * SECS + SECS
      BY ONLY <2>2, <3>1, Times
    <3> QED BY <3>1, <3>2
  <2> QED BY <2>1, <2>2, <2>3
<1>4. \A k \in 1..SECS : r.sec[k] = IF k <= p THEN Sat(s[w + k])
                                    ELSE IF r.minN > 0 THEN Sat(s[(r.minN - 1) * SECS + k]) ELSE 0
  BY DEF Charts
<1>5. Total(Part(all, w, p + 1), 1..p + 1) = r.acc + d
  BY MinuteGrows
\* The minutes move up: the m-th is what the next one was.
<1>6. ASSUME NEW m \in 1..MINS, NEW i \in 1..SECS
      PROVE  t[(m - 1) * SECS + i] = all[m * SECS + i]
  <2>1. m - 1 \in Nat /\ m \in Nat /\ (m - 1) + 1 = m /\ m - 1 < MINS
    BY <1>3
  <2>2. (m - 1) * SECS \in Nat /\ ((m - 1) + 1) * SECS = (m - 1) * SECS + SECS
    BY ONLY <1>3, <2>1, Times
  <2>3. (m - 1) * SECS + SECS <= MINS * SECS
    BY ONLY <1>3, <2>1, Times
  <2> DEFINE u == (m - 1) * SECS
  <2>4. u \in Nat /\ m * SECS = u + SECS /\ u + SECS <= w
    BY <2>1, <2>2, <2>3
  <2> HIDE DEF u, w, t, all
  <2>5. u + i \in 1..w /\ SECS + (u + i) = m * SECS + i
    BY <1>3, <2>4
  <2>6. t[u + i] = all[SECS + (u + i)]
    BY <1>1, <2>5
  <2> QED BY <2>5, <2>6 DEF u
<1>7. ASSUME NEW m \in 1..MINS - 1 PROVE Minute(t, m) = Minute(s, m + 1)
  <2>1. m \in 1..MINS /\ m + 1 \in 1..r.minN /\ (m + 1) - 1 = m
    <3> HIDE DEF all, t, w, v, q, p
    <3>1. MINS \in Nat /\ MINS > 0 /\ r.minN = MINS
      BY <1>3
    <3> QED BY ONLY <3>1, m \in 1..MINS - 1
  <2>2. Minute(all, m + 1) = Minute(s, m + 1)
    BY <2>1, MinutesStay
  <2>3. Part(t, (m - 1) * SECS, SECS) = Part(all, ((m + 1) - 1) * SECS, SECS)
    <3>1. \A i \in 1..SECS : t[(m - 1) * SECS + i] = all[m * SECS + i]
      BY <1>6, <2>1
    <3> HIDE DEF t, all
    <3> QED BY <2>1, <3>1 DEF Part
  <2> QED BY <2>2, <2>3 DEF Minute
<1>8. Minute(t, MINS) = r.acc + d
  <2>1. Part(t, (MINS - 1) * SECS, SECS) = Part(all, w, SECS)
    <3>1. \A i \in 1..SECS : t[(MINS - 1) * SECS + i] = all[MINS * SECS + i]
      <4>1. MINS \in 1..MINS
        BY SizesAssumption
      <4> HIDE DEF t, all
      <4> QED BY <1>6, <4>1
    <3> HIDE DEF t, all
    <3> QED BY <3>1 DEF Part
  <2> HIDE DEF w, all
  <2>2. Total(Part(all, w, SECS), 1..SECS) = r.acc + d
    BY <1>3, <1>5
  <2> QED BY <2>1, <2>2 DEF Minute
<1>9. ASSUME NEW m \in 1..MINS PROVE r.min[MinCell(r, m)] = Sat(Minute(s, m))
  BY DEF Charts
<1> HIDE DEF all, t, q, w, v, p
<1>10. ASSUME NEW k \in 1..SECS PROVE q.sec[k] = Sat(t[v + k])
  <2>1. t[v + k] = all[w + k]
    <3>1. v + k \in 1..w /\ SECS + (v + k) = w + k
      BY <1>3
    <3> QED BY <1>1, <3>1
  <2>2. CASE k <= p
    <3>1. w + k \in 1..Len(s) /\ k # p + 1
      BY <1>3, <2>2
    <3>2. q.sec[k] = r.sec[k]
      BY <1>2, <1>3, <3>1
    <3>3. r.sec[k] = Sat(s[w + k]) /\ all[w + k] = s[w + k]
      BY <1>1, <1>4, <2>2, <3>1
    <3> QED BY <2>1, <3>2, <3>3
  <2>3. CASE ~(k <= p)
    <3>1. k = p + 1 /\ p + 1 \in 1..SECS
      BY <1>3, <2>3
    <3>2. q.sec[p + 1] = Sat(d)
      BY <1>2, <1>3, <3>1
    <3> QED BY <1>1, <2>1, <3>1, <3>2
  <2> QED BY <2>2, <2>3
<1>11. ASSUME NEW m \in 1..MINS
       PROVE  q.min[MinCell(q, m)] = Sat(Minute(t, m))
  <2>1. MinCell(q, m) = IF q.minPos + m <= MINS THEN q.minPos + m ELSE q.minPos + m - MINS
    BY <1>2, <1>3 DEF MinCell
  <2>2. CASE m = MINS
    <3>1. MinCell(q, m) = r.minPos + 1 /\ r.minPos + 1 \in 1..MINS
      <4>1. CASE r.minPos + 1 = MINS
        BY <1>2, <1>3, <2>1, <2>2, <4>1
      <4>2. CASE r.minPos + 1 # MINS
        <5>1. q.minPos = r.minPos + 1 /\ q.minPos + m > MINS
          BY <1>2, <1>3, <2>2, <4>2
        <5> QED BY <1>3, <2>1, <2>2, <5>1
      <4> QED BY <4>1, <4>2
    <3>2. q.min[r.minPos + 1] = Sat(r.acc + d)
      BY <1>2, <1>3, <3>1
    <3> QED BY <1>8, <2>2, <3>1, <3>2
  <2>3. CASE m # MINS
    <3>1. m \in 1..MINS - 1 /\ m + 1 \in 1..MINS
      BY <1>3, <2>3
    <3>2. /\ MinCell(r, m + 1) = IF r.minPos + (m + 1) <= MINS THEN r.minPos + (m + 1)
                                 ELSE r.minPos + (m + 1) - MINS
      BY <1>3 DEF MinCell
    <3>3. MinCell(q, m) = MinCell(r, m + 1) /\ MinCell(q, m) # r.minPos + 1 /\ MinCell(q, m) \in 1..MINS
      <4>1. CASE r.minPos + 1 = MINS
        <5>1. q.minPos = 0
          BY <1>2, <4>1
        <5> QED BY <1>3, <2>1, <3>1, <3>2, <4>1, <5>1
      <4>2. CASE r.minPos + 1 # MINS
        <5>1. q.minPos = r.minPos + 1
          BY <1>2, <4>2
        <5>2. MinCell(q, m) = IF r.minPos + 1 + m <= MINS THEN r.minPos + 1 + m
                              ELSE r.minPos + 1 + m - MINS
          BY <2>1, <5>1
        <5>3. /\ r.minPos \in Nat /\ r.minPos + 1 < MINS /\ MINS \in Nat
              /\ m \in Nat /\ m >= 1 /\ m < MINS
          BY <1>3, <3>1, <4>2
        <5>4. MinCell(q, m) = MinCell(r, m + 1)
          BY ONLY <3>2, <5>2, <5>3
        <5>5. MinCell(q, m) # r.minPos + 1 /\ MinCell(q, m) \in 1..MINS
          BY ONLY <5>2, <5>3
        <5> QED BY <5>4, <5>5
      <4> QED BY <4>1, <4>2
    <3>4. q.min[MinCell(q, m)] = r.min[MinCell(q, m)]
      BY <1>2, <1>3, <3>3
    <3> QED BY <1>7, <1>9, <3>1, <3>3, <3>4
  <2> QED BY <2>2, <2>3
<1>12. /\ Len(t) = q.minN * SECS + q.secPos
       /\ q.acc = Total(Part(t, q.minN * SECS, q.secPos), 1..q.secPos)
       /\ q.minN < MINS => q.minPos = q.minN
  <2>1. q.minN * SECS = w
    BY <1>2 DEF w
  <2>2. 1..q.secPos = {}
    BY <1>2
  <2>3. Total(Part(t, q.minN * SECS, q.secPos), {}) = 0
    BY TotalEmpty
  <2> QED BY <1>1, <1>2, <1>3, <2>1, <2>2, <2>3
<1>13. \A k \in 1..SECS :
         q.sec[k] = IF k <= q.secPos THEN Sat(t[q.minN * SECS + k])
                    ELSE IF q.minN > 0 THEN Sat(t[(q.minN - 1) * SECS + k]) ELSE 0
  <2> SUFFICES ASSUME NEW k \in 1..SECS
               PROVE  /\ ~(k <= q.secPos) /\ q.minN > 0 /\ (q.minN - 1) * SECS = v
                      /\ q.sec[k] = Sat(t[v + k])
    OBVIOUS
  <2>1. ~(k <= q.secPos) /\ q.minN > 0 /\ q.minN - 1 = MINS - 1
    BY <1>2, <1>3
  <2> QED BY <1>10, <2>1 DEF v
<1>14. Charts(q, t)
  BY <1>1, <1>2, <1>11, <1>12, <1>13 DEF Charts
<1> QED BY <1>14 DEF q, t

LEMMA SecondCharted ==
  ASSUME NEW r, NEW s, Charts(r, s), NEW d \in Nat
  PROVE  Charts(RateAdd(r, d), After(s, d))
<1>1. r.minN \in 0..MINS /\ MINS \in Nat
  BY Shape
<1> QED BY <1>1, WithinMinute, MinuteKept, MinuteOver

LEMMA ChartsNothing == Charts(NewRing, << >>)
<1> DEFINE r == NewRing
<1>1. /\ r \in RingState /\ r.minN = 0 /\ r.secPos = 0 /\ r.minPos = 0 /\ r.acc = 0
      /\ \A k \in 1..SECS : r.sec[k] = 0
  BY SizesAssumption DEF NewRing, Empty, RingState
<1>2. << >> \in Seq(Nat) /\ Len(<< >>) = 0 /\ 0 * SECS + 0 = 0 /\ 1..0 = {}
  BY SizesAssumption
<1>3. Total(Part(<< >>, 0 * SECS, 0), {}) = 0
  BY TotalEmpty
<1> HIDE DEF r
<1>4. Charts(r, << >>)
  BY <1>1, <1>2, <1>3 DEF Charts
<1> QED BY <1>4 DEF r

\* The chart does not hang on what the ring compares with.
LEMMA ChartsOnly ==
  ASSUME NEW r, NEW s, Charts(r, s), NEW n \in Nat, NEW h \in BOOLEAN
  PROVE  Charts([r EXCEPT !.last = n, !.have = h], s)
<1> DEFINE q == [r EXCEPT !.last = n, !.have = h]
<1>1. r \in RingState
  BY DEF Charts
<1>2. /\ q \in RingState /\ q.sec = r.sec /\ q.min = r.min /\ q.secPos = r.secPos
      /\ q.minPos = r.minPos /\ q.minN = r.minN /\ q.acc = r.acc
  BY <1>1 DEF RingState
<1> HIDE DEF q
<1>3. \A m \in 1..r.minN : MinCell(q, m) = MinCell(r, m)
  BY <1>2 DEF MinCell
<1>4. Charts(q, s)
  BY <1>2, <1>3 DEF Charts
<1> QED BY <1>4 DEF q

\* The minute on the glass.
LEMMA LastMinute ==
  ASSUME NEW r, NEW s, Charts(r, s)
  PROVE  LET n == Len(s)
             since == IF n < SECS THEN 1 ELSE n - SECS + 1
         IN  SumOf(r.sec) = SumOf([i \in since..n |-> Sat(s[i])])
<1> DEFINE n == Len(s)
           since == IF n < SECS THEN 1 ELSE n - SECS + 1
           w == r.minN * SECS
           v == (r.minN - 1) * SECS
           p == r.secPos
           h == [i \in since..n |-> Sat(s[i])]
<1>1. /\ w \in Nat /\ p \in 0..SECS - 1 /\ n = w + p /\ s \in Seq(Nat) /\ n \in Nat
      /\ SECS \in Nat \ {0} /\ r.minN \in Nat
      /\ r.minN > 0 => v \in Nat /\ v + SECS = w
      /\ r.minN = 0 => w = 0
  BY Shape
<1>2. r.sec \in [1..SECS -> Int]
  <2>1. r \in RingState
    BY Shape
  <2> QED BY <2>1, SizesAssumption DEF RingState
<1>3. \A k \in 1..SECS : r.sec[k] = IF k <= p THEN Sat(s[w + k])
                                    ELSE IF r.minN > 0 THEN Sat(s[v + k]) ELSE 0
  BY DEF Charts
<1>4. SumOf(r.sec) = Total(r.sec, 1..SECS) /\ SumOf(h) = Total(h, since..n)
  <2>1. DOMAIN r.sec = 1..SECS /\ DOMAIN h = since..n
    BY <1>2
  <2>2. SumOf(r.sec) = Total(r.sec, DOMAIN r.sec) /\ SumOf(h) = Total(h, DOMAIN h)
    <3> HIDE DEF h
    <3> QED BY DEF SumOf, Total
  <2> HIDE DEF h
  <2> QED BY <2>1, <2>2
<1>5. since \in Nat /\ since >= 1 /\ IsFiniteSet(since..n) /\ IsFiniteSet(1..SECS)
  <2>1. since \in Nat /\ since >= 1
    BY <1>1
  <2> HIDE DEF since, n
  <2>2. since \in Int /\ n \in Int /\ 1 \in Int /\ SECS \in Int
    BY <1>1, <2>1
  <2> QED BY <2>1, <2>2, FS_Interval
<1>6. h \in [since..n -> Int]
  <2>1. \A i \in since..n : s[i] \in Nat
    <3> HIDE DEF since
    <3> SUFFICES ASSUME NEW i \in since..n PROVE s[i] \in Nat
      OBVIOUS
    <3>1. s \in Seq(Nat) /\ n \in Nat /\ since \in Nat /\ since >= 1
      BY <1>1, <1>5
    <3>2. i \in 1..Len(s)
      BY <3>1
    <3> QED BY <3>1, <3>2
  <2> HIDE DEF since, n
  <2>2. CEIL \in Nat
    BY SizesAssumption
  <2> QED BY <2>1, <2>2 DEF Sat, Least
<1>7. CASE r.minN = 0
  <2>1. n = p /\ w = 0 /\ since = 1 /\ n < SECS
    BY <1>1, <1>7
  <2>2. \A x \in (1..SECS) \ (1..n) : r.sec[x] = 0
    <3> SUFFICES ASSUME NEW x \in (1..SECS) \ (1..n) PROVE r.sec[x] = 0
      OBVIOUS
    <3>1. ~(x <= p)
      BY <1>1, <2>1
    <3> QED BY <1>3, <1>7, <3>1
  <2>3. \A x \in 1..n : r.sec[x] = h[x]
    <3> SUFFICES ASSUME NEW x \in 1..n PROVE r.sec[x] = Sat(s[x])
      BY <2>1
    <3>1. x <= p /\ x \in 1..SECS /\ w + x = x
      BY <1>1, <2>1
    <3> QED BY <1>3, <3>1
  <2> HIDE DEF h, since, n, w, p
  <2>4. 1..n \in SUBSET (1..SECS)
    BY <1>1, <2>1
  <2>5. \A x \in 1..SECS : r.sec[x] \in Int
    BY <1>2
  <2>6. Total(r.sec, 1..SECS) = Total(r.sec, 1..n)
    BY ONLY <1>5, <2>2, <2>4, <2>5, TotalSupport
  <2>7. Total(r.sec, 1..n) = Total(h, 1..n)
    BY <1>5, <2>1, <2>3, TotalSame
  <2> QED BY <1>4, <2>1, <2>6, <2>7 DEF h, since, n
<1>8. CASE r.minN > 0
  <2> DEFINE a == [k \in 1..SECS |-> IF k <= p THEN w + k ELSE v + k]
             c == SECS
  <2>0. /\ w = v + c /\ v \in Nat /\ p \in Nat /\ c \in Nat /\ p < c /\ n = w + p
    <3> HIDE DEF n, v, w, p
    <3> QED BY <1>1, <1>8
  <2>1. since = v + p + 1 /\ n = v + p + c /\ ~(n < c)
    <3>1. since = IF n < c THEN 1 ELSE n - c + 1
      OBVIOUS
    <3> HIDE DEF n, v, w, p, since, c
    <3> QED BY ONLY <2>0, <3>1
  <2>2. a \in [1..c -> since..n]
    <3> SUFFICES ASSUME NEW k \in 1..c PROVE (IF k <= p THEN w + k ELSE v + k) \in since..n
      OBVIOUS
    <3> HIDE DEF n, v, w, p, since, c
    <3> QED BY ONLY <2>0, <2>1, k \in 1..c
  <2>7. \A x \in 1..c : a[x] = IF x <= p THEN w + x ELSE v + x
    OBVIOUS
  <2>3. \A x, y \in 1..c : a[x] = a[y] => x = y
    <3> HIDE DEF n, v, w, p, since, c, a
    <3> SUFFICES ASSUME NEW x \in 1..c, NEW y \in 1..c, a[x] = a[y] PROVE x = y
      OBVIOUS
    <3>1. a[x] = (IF x <= p THEN w + x ELSE v + x) /\ a[y] = (IF y <= p THEN w + y ELSE v + y)
      BY <2>7
    <3>2. x \in 1..c /\ y \in 1..c /\ a[x] = a[y]
      OBVIOUS
    <3> QED BY ONLY <2>0, <3>1, <3>2
  <2>4. \A x \in 1..c : r.sec[x] = h[a[x]]
    <3> SUFFICES ASSUME NEW x \in 1..SECS PROVE r.sec[x] = h[a[x]]
      OBVIOUS
    <3>1. h[a[x]] = Sat(s[a[x]])
      BY <2>2
    <3> QED BY <1>3, <1>8, <3>1
  <2> HIDE DEF n, v, w, p, since, c, a, h
  <2>5. \A i \in since..n : \E x \in 1..c : a[x] = i
    <3> SUFFICES ASSUME NEW i \in since..n PROVE \E x \in 1..c : a[x] = i
      OBVIOUS
    <3>0. i \in since..n
      OBVIOUS
    <3>1. CASE i > w
      <4>1. i - w \in 1..c /\ i - w <= p /\ w + (i - w) = i
        BY ONLY <2>0, <2>1, <3>0, <3>1
      <4>2. a[i - w] = i
        BY <2>7, <4>1
      <4> QED BY <4>1, <4>2
    <3>2. CASE ~(i > w)
      <4>1. i - v \in 1..c /\ ~(i - v <= p) /\ v + (i - v) = i
        BY ONLY <2>0, <2>1, <3>0, <3>2
      <4>2. a[i - v] = i
        BY <2>7, <4>1
      <4> QED BY <4>1, <4>2
    <3> QED BY <3>1, <3>2
  <2> DEFINE S == 1..c
             T == since..n
  <2>8. IsFiniteSet(S) /\ IsFiniteSet(T) /\ r.sec \in [S -> Int] /\ h \in [T -> Int]
    BY <1>2, <1>5, <1>6 DEF c
  <2>9. /\ a \in [S -> T] /\ (\A x, y \in S : a[x] = a[y] => x = y)
        /\ (\A y \in T : \E x \in S : a[x] = y) /\ \A x \in S : r.sec[x] = h[a[x]]
    BY <2>2, <2>3, <2>4, <2>5
  <2> HIDE DEF S, T
  <2>6. Total(r.sec, S) = Total(h, T)
    BY ONLY <2>8, <2>9, TotalMoved
  <2> QED BY <1>4, <2>6 DEF h, since, n, S, T, c
<1> QED BY <1>1, <1>7, <1>8

\* The ring holds each of its minutes in a cell of its own.
LEMMA MinCells ==
  ASSUME NEW r, NEW s, Charts(r, s), NEW c, c = [m \in 1..r.minN |-> MinCell(r, m)]
  PROVE  /\ c \in [1..r.minN -> 1..r.minN]
         /\ \A x, y \in 1..r.minN : c[x] = c[y] => x = y
         /\ \A y \in 1..r.minN : \E x \in 1..r.minN : c[x] = y
<1> DEFINE n == r.minN
           o == r.minPos
<1>1. n \in 0..MINS /\ o \in 0..MINS - 1 /\ MINS \in Nat
  BY Shape
<1>2. \A x \in 1..n : c[x] = IF n < MINS THEN x ELSE IF o + x <= MINS THEN o + x ELSE o + x - MINS
  BY DEF MinCell
<1>3. c = [m \in 1..n |-> c[m]]
  OBVIOUS
<1> HIDE DEF n, o
<1>4. \A x \in 1..n : c[x] \in 1..n
  <2> SUFFICES ASSUME NEW x \in 1..n PROVE c[x] \in 1..n
    OBVIOUS
  <2>1. x \in 1..n /\ c[x] = IF n < MINS THEN x ELSE IF o + x <= MINS THEN o + x ELSE o + x - MINS
    BY <1>2
  <2> QED BY ONLY <1>1, <2>1
<1>5. \A x, y \in 1..n : c[x] = c[y] => x = y
  <2> SUFFICES ASSUME NEW x \in 1..n, NEW y \in 1..n, c[x] = c[y] PROVE x = y
    OBVIOUS
  <2>1. /\ c[x] = IF n < MINS THEN x ELSE IF o + x <= MINS THEN o + x ELSE o + x - MINS
        /\ c[y] = IF n < MINS THEN y ELSE IF o + y <= MINS THEN o + y ELSE o + y - MINS
        /\ x \in 1..n /\ y \in 1..n /\ c[x] = c[y]
    BY <1>2
  <2> QED BY ONLY <1>1, <2>1
<1>6. \A y \in 1..n : \E x \in 1..n : c[x] = y
  <2> SUFFICES ASSUME NEW y \in 1..n PROVE \E x \in 1..n : c[x] = y
    OBVIOUS
  <2> DEFINE x == IF n < MINS THEN y ELSE IF y > o THEN y - o ELSE y - o + MINS
  <2>1. y \in 1..n
    OBVIOUS
  <2>2. /\ x \in 1..n
        /\ y = IF n < MINS THEN x ELSE IF o + x <= MINS THEN o + x ELSE o + x - MINS
    BY ONLY <1>1, <2>1
  <2> HIDE DEF x
  <2> QED BY <1>2, <2>2
<1>7. c \in [1..n -> 1..n]
  BY <1>3, <1>4
<1> QED BY <1>5, <1>6, <1>7 DEF n

\* The hour on the glass.
LEMMA LastHour ==
  ASSUME NEW r, NEW s, Charts(r, s)
  PROVE  LET n == Len(s)
             whole == n \div SECS
             minute(m) == SumOf(SubSeq(s, (m - 1) * SECS + 1, m * SECS))
         IN  r.acc + SumOf(SubSeq(r.min, 1, r.minN))
               = SumOf([m \in 1..whole |-> Sat(minute(m))])
                 + SumOf(SubSeq(s, whole * SECS + 1, n))
<1> DEFINE n == Len(s)
           whole == n \div SECS
           minute(m) == SumOf(SubSeq(s, (m - 1) * SECS + 1, m * SECS))
           N == r.minN
           w == N * SECS
           p == r.secPos
           G == [m \in 1..N |-> Sat(Minute(s, m))]
<1>1. /\ w \in Nat /\ p \in 0..SECS - 1 /\ n = w + p /\ s \in Seq(Int) /\ n \in Nat
      /\ s \in Seq(Nat) /\ SECS \in Nat \ {0} /\ N \in 0..MINS /\ MINS \in Nat
      /\ r \in RingState
  <2>1. s \in Seq(Nat) /\ n \in Nat
    BY Shape
  <2>2. s \in Seq(Int)
    BY <2>1
  <2> QED BY <2>1, <2>2, Shape
<1>2. whole = N
  <2>1. N \in Nat /\ SECS \in Nat
    BY <1>1
  <2> QED BY ONLY <1>1, <2>1, Quotient
<1>3. r.acc = Total(Part(s, w, p), 1..p)
  BY DEF Charts
<1>4. SumOf(SubSeq(s, w + 1, n)) = r.acc
  <2>1. p \in Nat
    BY <1>1
  <2>2. s \in Seq(Int) /\ w \in Nat /\ w + p <= Len(s) /\ n = w + p
    BY <1>1
  <2> HIDE DEF w, n, p
  <2>3. SumOf(SubSeq(s, w + 1, w + p)) = Total(Part(s, w, p), 1..p)
    BY ONLY <2>1, <2>2, SumPart
  <2> QED BY <1>3, <2>2, <2>3
<1>5. \A m \in 1..N : minute(m) = Minute(s, m) /\ Minute(s, m) \in Nat
  <2> SUFFICES ASSUME NEW m \in 1..N PROVE minute(m) = Minute(s, m) /\ Minute(s, m) \in Nat
    OBVIOUS
  <2> DEFINE a == (m - 1) * SECS
  <2>1. a \in Nat /\ m * SECS = a + SECS /\ a + SECS <= n
    <3>1. m - 1 \in Nat /\ m - 1 < N /\ N \in Nat /\ SECS \in Nat /\ m - 1 + 1 = m
      BY <1>1
    <3>2. /\ (m - 1) * SECS \in Nat /\ (m - 1 + 1) * SECS = (m - 1) * SECS + SECS
          /\ (m - 1) * SECS + SECS <= N * SECS
      BY ONLY <3>1, Times
    <3>3. a \in Nat /\ m * SECS = a + SECS /\ a + SECS <= w
      BY <3>1, <3>2
    <3> HIDE DEF a, w, n, p
    <3> QED BY <1>1, <3>3
  <2>7. s \in Seq(Int) /\ a \in Nat /\ SECS \in Nat /\ a + SECS <= Len(s)
    BY <1>1, <2>1
  <2> HIDE DEF a, n
  <2>2. SumOf(SubSeq(s, a + 1, a + SECS)) = Total(Part(s, a, SECS), 1..SECS)
    BY ONLY <2>7, SumPart
  <2>3. minute(m) = Minute(s, m)
    BY <2>1, <2>2 DEF Minute, a
  <2>4. \A i \in 1..SECS : Part(s, a, SECS)[i] \in Nat
    <3> SUFFICES ASSUME NEW i \in 1..SECS PROVE s[a + i] \in Nat
      BY DEF Part
    <3>1. a + i \in 1..Len(s)
      BY <1>1, <2>1 DEF n
    <3> QED BY <1>1, <3>1
  <2>5. IsFiniteSet(1..SECS)
    BY <1>1, FS_Interval
  <2>6. Total(Part(s, a, SECS), 1..SECS) \in Nat
    BY <2>4, <2>5, TotalNat
  <2> QED BY <2>3, <2>6 DEF Minute, a
<1>6. [m \in 1..whole |-> Sat(minute(m))] = G
  BY <1>2, <1>5
<1>7. r.min \in Seq(Int) /\ Len(r.min) = MINS /\ r.min \in [1..MINS -> 0..CEIL]
  BY <1>1, SizesAssumption DEF RingState
<1>8. SumOf(SubSeq(r.min, 1, N)) = Total(Part(r.min, 0, N), 1..N)
  <2>1. 0 \in Nat /\ N \in Nat /\ 0 + N <= Len(r.min) /\ 0 + 1 = 1 /\ 0 + N = N
    BY <1>1, <1>7
  <2>2. SumOf(SubSeq(r.min, 0 + 1, 0 + N)) = Total(Part(r.min, 0, N), 1..N)
    BY ONLY <1>7, <2>1, SumPart
  <2> QED BY <2>1, <2>2
<1>9. SumOf(G) = Total(G, 1..N)
  <2>1. DOMAIN G = 1..N
    OBVIOUS
  <2> HIDE DEF G
  <2>2. SumOf(G) = Total(G, DOMAIN G)
    BY DEF SumOf, Total
  <2> QED BY <2>1, <2>2
<1>10. Total(G, 1..N) = Total(Part(r.min, 0, N), 1..N) /\ Total(G, 1..N) \in Int
  <2> DEFINE S == 1..N
             f == Part(r.min, 0, N)
             c == [m \in 1..N |-> MinCell(r, m)]
  <2>1. \A m \in 1..N : r.min[c[m]] = G[m]
    BY DEF Charts
  <2>2. \A m \in 1..N : f[m] = r.min[m] /\ f[m] \in Int
    BY <1>1, <1>7 DEF Part
  <2>3. c \in [S -> S] /\ (\A x, y \in S : c[x] = c[y] => x = y) /\ \A y \in S : \E x \in S : c[x] = y
    BY MinCells
  <2>4. IsFiniteSet(S)
    <3>1. 1 \in Int /\ N \in Int
      BY <1>1
    <3> HIDE DEF N
    <3> QED BY <3>1, FS_Interval
  <2>5. f \in [S -> Int]
    BY <2>2 DEF Part
  <2>6. \A x \in S : G[x] = f[c[x]]
    BY <2>1, <2>2, <2>3
  <2>7. G \in [S -> Int]
    <3>1. \A x \in S : G[x] \in Int
      <4> HIDE DEF G, c, f
      <4> QED BY <2>3, <2>5, <2>6
    <3>2. G = [x \in S |-> G[x]]
      OBVIOUS
    <3> HIDE DEF G
    <3> QED BY <3>1, <3>2
  <2> HIDE DEF S, f, c, G
  <2>8. Total(G, S) = Total(f, S)
    BY ONLY <2>3, <2>4, <2>5, <2>6, <2>7, TotalMoved
  <2>9. Total(G, S) \in Int
    BY <2>4, <2>7, TotalInt
  <2> QED BY <2>8, <2>9 DEF S, f
<1> HIDE DEF G, n, w
<1>11. /\ SumOf(SubSeq(r.min, 1, N)) = SumOf(G) /\ SumOf(G) \in Int
       /\ SumOf(SubSeq(s, w + 1, n)) = r.acc /\ r.acc \in Int
  <2>1. r.acc \in Int
    BY Shape
  <2> QED BY <1>4, <1>8, <1>9, <1>10, <2>1
<1>12. r.acc + SumOf(SubSeq(r.min, 1, N)) = SumOf(G) + SumOf(SubSeq(s, w + 1, n))
  BY <1>11
<1> QED BY <1>2, <1>6, <1>12 DEF n, w

LEMMA ChartsTell == Charts(ring, hist.recent) => ChartIsSum
<1> SUFFICES ASSUME Charts(ring, hist.recent) PROVE ChartIsSum
  OBVIOUS
<1> QED BY LastMinute, LastHour DEF ChartIsSum, Last60, Hour

LEMMA InitCharts == Init => Charts(ring, hist.recent)
BY ChartsNothing DEF Init

LEMMA StepCharts ==
  PInv /\ ChartInv /\ Charts(ring, hist.recent) /\ [Next]_vars => Charts(ring, hist.recent)'
<1> SUFFICES ASSUME PInv, ChartInv, Charts(ring, hist.recent), [Next]_vars
             PROVE  Charts(ring', hist'.recent)
  OBVIOUS
<1>1. ASSUME NEW leader \in Blade \cup {"none"}, Render(leader)
      PROVE  Charts(ring', hist'.recent)
  <2>1. Charted \in Nat /\ FleetErrs \in Nat
    BY Counts DEF Charted, ChartInv
  <2>2. hist'.recent = Recent(Charted)
    BY <1>1 DEF Render, PInv, HistOK
  <2>3. Recent(Charted) = After(hist.recent, Charted)
    BY DEF Recent, After
  <2>4. ring' = [RateAdd(ring, Charted) EXCEPT !.last = FleetErrs, !.have = TRUE]
    BY <1>1 DEF Render
  <2>5. Charts(RateAdd(ring, Charted), After(hist.recent, Charted))
    BY <2>1, SecondCharted
  <2> QED BY ONLY <2>1, <2>2, <2>3, <2>4, <2>5, ChartsOnly
<1>2. ASSUME Reboot PROVE Charts(ring', hist'.recent)
  <2>1. ring' = NewRing /\ hist'.recent = << >>
    BY <1>2 DEF Reboot, PInv, HistOK
  <2> QED BY <2>1, ChartsNothing
<1>3. CASE UNCHANGED <<ring, hist>>
  BY <1>3
<1>4. ASSUME NEW b \in Blade,
             \/ PowerUp(b) \/ Serve(b) \/ Click(b) \/ Refuse(b) \/ ResetStats(b)
             \/ Crash(b) \/ Wipe(b) \/ Heartbeat(b) \/ Fade(b)
      PROVE  ring' = ring /\ hist'.recent = hist.recent
  <2>1. CASE PowerUp(b) \/ Serve(b) \/ ResetStats(b) \/ Wipe(b) \/ Fade(b)
    BY <2>1 DEF PowerUp, Serve, ResetStats, Wipe, Fade
  <2>2. CASE Click(b) \/ Refuse(b) \/ Crash(b)
    BY <2>2 DEF Click, Refuse, Crash, PInv, HistOK
  <2>3. CASE Heartbeat(b)
    BY <2>3 DEF Heartbeat, PInv, HistOK
  <2> QED BY <1>4, <2>1, <2>2, <2>3
<1> QED BY <1>1, <1>2, <1>3, <1>4 DEF Next, vars

\* The hour and the minute on the glass are the sums of what was charted in
\* them, each cell at its ceiling at most: over a history of any length, with
\* rings of any size, through restarts of the display.
THEOREM ChartSums == Spec => []ChartIsSum
<1> QED BY Kept, InitCounts, StepCounts, InitCharts, StepCharts, ChartsTell, PTL DEF Spec

----------------------------------------------------------------------------
(* The types of all the rest *)

LeftState ==
  [blades : SUBSET Blade, beats : Nat, losses : Nat, clicks : Nat, refusals : Nat,
   faults : Nat, resets : Nat, deaths : Nat, reboots : Nat, turns : Nat, reign : Nat]

RestOK == archive \in [base : Nat, saved : Nat] /\ left \in LeftState /\ hist.clicks \in Nat

\* What is folded into the archive is a count.
LEMMA FoldNat ==
  ASSUME NEW S \in SUBSET Blade, \A b \in S : seen[b].clicks \in Nat
  PROVE  MapThenSumSet(LAMBDA b : seen[b].clicks, S) \in Nat
<1> DEFINE F == [b \in S |-> seen[b].clicks]
           Fold(g) == g = [s \in SUBSET S |->
                             IF s = {} THEN 0 ELSE seen[First(s)].clicks + g[s \ {First(s)}]]
           it == CHOOSE g : Fold(g)
<1>0. IsFiniteSet(S)
  BY FS_Subset, FleetAssumption
<1>1. ASSUME NEW g PROVE Fold(g) <=> Builds(g, F, S)
  <2>1. \A s \in SUBSET S : s # {} => F[First(s)] = seen[First(s)].clicks
    BY FirstIn
  <2> HIDE DEF F
  <2> QED BY <2>1 DEF Builds, Folds
<1>2. \E g : Builds(g, F, S)
  BY <1>0, FoldsAll
<1>3. Fold(it)
  <2> HIDE DEF Fold
  <2> QED BY <1>1, <1>2, Zenon
<1>4. MapThenSumSet(LAMBDA b : seen[b].clicks, S) = it[S]
  BY DEF MapThenSumSet, MapThenFoldSet, First
<1>5. PICK k : Builds(k, F, S) /\ Total(F, S) = k[S]
  BY <1>0, TotalFolds
<1>6. Builds(it, F, S) /\ Builds(k, F, S)
  BY <1>1, <1>3, <1>5
<1>7. \A x \in S : F[x] \in Nat
  OBVIOUS
<1> HIDE DEF it, F
<1>8. \A s \in SUBSET S : s \subseteq S /\ (\A x \in s : F[x] = F[x]) => it[s] = k[s]
  BY ONLY <1>0, <1>6, FoldsSame
<1>9. Total(F, S) \in Nat
  BY <1>0, <1>7, TotalNat
<1> QED BY <1>4, <1>5, <1>8, <1>9

LEMMA RestKept == PInv /\ RestOK /\ [Next]_vars => RestOK'
<1> SUFFICES ASSUME PInv, RestOK, [Next]_vars PROVE RestOK'
  OBVIOUS
<1> USE DEF RestOK, LeftState
<1>1. ASSUME NEW b \in Blade,
             \/ PowerUp(b) \/ Serve(b) \/ Click(b) \/ Refuse(b) \/ ResetStats(b)
             \/ Crash(b) \/ Wipe(b) \/ Heartbeat(b) \/ Fade(b)
      PROVE  RestOK'
  <2>1. CASE PowerUp(b) \/ Fade(b)
    BY <2>1 DEF PowerUp, Fade
  <2>2. CASE Serve(b)
    <3>1. PICK opened \in BOOLEAN :
            /\ opened \/ left.faults > 0
            /\ left' = [left EXCEPT !.faults = IF opened THEN @ ELSE @ - 1]
      BY <2>2, Zenon DEF Serve
    <3>2. archive' = archive /\ hist' = hist
      BY <2>2 DEF Serve
    <3> QED BY <3>1, <3>2
  <2>3. CASE Click(b)
    <3>1. left.clicks > 0 /\ left' = [left EXCEPT !.clicks = @ - 1] /\ archive' = archive
          /\ hist' = [hist EXCEPT !.clicks = @ + 1]
      BY <2>3 DEF Click
    <3>2. hist'.clicks = hist.clicks + 1
      BY <3>1 DEF PInv, HistOK
    <3> QED BY <3>1, <3>2
  <2>4. CASE Refuse(b)
    <3>1. left.refusals > 0 /\ left' = [left EXCEPT !.refusals = @ - 1] /\ archive' = archive
          /\ hist' = [hist EXCEPT !.refused = @ + 1]
      BY <2>4 DEF Refuse
    <3>2. hist'.clicks = hist.clicks
      BY <3>1 DEF PInv, HistOK
    <3> QED BY <3>1, <3>2
  <2>5. CASE ResetStats(b) \/ Wipe(b)
    BY <2>5 DEF ResetStats, Wipe
  <2>6. CASE Crash(b)
    <3>1. left.deaths > 0 /\ left' = [left EXCEPT !.deaths = @ - 1] /\ archive' = archive
          /\ hist'.clicks = hist.clicks
      BY <2>6 DEF Crash, PInv, HistOK
    <3> QED BY <3>1
  <2>7. CASE Heartbeat(b)
    <3>1. archive' = archive /\ hist'.clicks = hist.clicks
      BY <2>7 DEF Heartbeat, PInv, HistOK
    <3>2. left' = left \/ (left.losses > 0 /\ left' = [left EXCEPT !.losses = @ - 1])
      BY <2>7 DEF Heartbeat
    <3> QED BY <3>1, <3>2
  <2> QED BY <1>1, <2>1, <2>2, <2>3, <2>4, <2>5, <2>6, <2>7
<1>2. ASSUME NEW leader \in Blade \cup {"none"}, Render(leader) PROVE RestOK'
  <2> DEFINE W == {b \in Blade : Wiped(b)}
             folded == MapThenSumSet(LAMBDA b : seen[b].clicks, W)
  <2>1. W \in SUBSET Blade /\ \A b \in W : seen[b].clicks \in Nat
    BY SizesAssumption DEF PInv, PeersOK
  <2>2. folded \in Nat
    BY <2>1, FoldNat
  <2>3. archive' = IF folded = 0 THEN archive
                   ELSE [base |-> archive.base + folded, saved |-> archive.base + folded]
    BY <1>2 DEF Render, Archived
  <2>4. leader # hall.leader => left.turns > 0
    BY <1>2 DEF Render
  <2>5. left' = [left EXCEPT !.turns = IF leader # hall.leader THEN @ - 1 ELSE @]
    BY <1>2 DEF Render
  <2>6. hist'.clicks = hist.clicks
    BY <1>2 DEF Render, PInv, HistOK
  <2> HIDE DEF folded
  <2>7. archive' \in [base : Nat, saved : Nat]
    BY <2>2, <2>3
  <2>8. left' \in LeftState
    BY <2>4, <2>5
  <2> QED BY <2>6, <2>7, <2>8
<1>3. CASE Reboot
  BY <1>3 DEF Reboot, PInv, HistOK
<1>4. CASE UNCHANGED vars
  BY <1>4 DEF vars
<1> QED BY <1>1, <1>2, <1>3, <1>4 DEF Next

\* The display and the fleet it looks at keep to their types: every count is a
\* natural, every cell is at its ceiling at most and both rings' heads stay on them
\* (bohun_rate_add), for any fleet, any sizes and any budget.
THEOREM Typed == Spec => []TypeOK
<1>1. Init => RestOK
  BY BudgetAssumption DEF Init, RestOK, LeftState
<1>2. PInv /\ ChartInv /\ Charts(ring, hist.recent) /\ RestOK => TypeOK
  <2> SUFFICES ASSUME PInv, ChartInv, Charts(ring, hist.recent), RestOK PROVE TypeOK
    OBVIOUS
  <2>1. hist \in Histories
    BY DEF PInv, HistOK, ChartInv, Charts, RestOK, Histories
  <2> QED BY <2>1 DEF PInv, Charts, RingState, RestOK, LeftState, TypeOK
<1> QED
  BY Kept, InitCounts, StepCounts, InitCharts, StepCharts, <1>1, RestKept, <1>2, PTL DEF Spec
=============================================================================
