------------------------------ MODULE LedRail ------------------------------
(***************************************************************************)
(* The LED rail of the small display: led.c, driven by the render task and *)
(* the animation task, with the blackout and the amber of an update window *)
(* that a finger orders from the touch task (display_main.c, tft.c).       *)
(*                                                                         *)
(* The pixel buffer belongs to the strip driver; a refresh copies it to    *)
(* the strip.  s_paint is held around refreshes only, so the tasks write   *)
(* pixels of one buffer in any order.  A record of s_anim and s_solid is   *)
(* read and written under s_anim_lock, in one step.  Colours stand for     *)
(* what the colour law tells apart; the phase of a wink is left open.      *)
(***************************************************************************)
EXTENDS Integers

CONSTANTS
  Member,     \* pixels of the roster's members: a subset of 0..LED_N - 1
  HOST,       \* PX_DISPLAY, the host's own pixel
  LED_N,      \* pixels on the strip
  View,       \* what the roster may say of a member
  LATCH       \* turns of the render task for which a release stays amber

ASSUME PixelAssumption ==
  LED_N \in Nat \ {0} /\ HOST \in 0..LED_N - 1 /\ Member \subseteq (0..LED_N - 1) \ {HOST}
ASSUME LatchAssumption == LATCH \in Nat

VARIABLES
  buf,        \* the driver's pixel buffer
  strip,      \* what the strip shows: the buffer as of the last refresh
  wink,       \* s_anim and s_solid, per pixel
  blackout,   \* s_blackout
  otaRail,    \* s_ota_rail
  blanked,    \* s_blanked: the screen's backlight is off
  otaw,       \* the update window, as ota_window_status tells it
  paint,      \* the holder of s_paint
  latch,      \* what is left of amber_until_us
  render,     \* the render task
  animator,   \* the animation task
  touch,      \* the touch task
  clean,      \* history: nobody crossed the frame being rendered
  smudged     \* history: a pixel was lit between a blackout's clear and its refresh

taskVars == <<render, animator, touch>>
ghosts   == <<clean, smudged>>
railVars == <<buf, strip, wink, blackout, otaRail, blanked, otaw, paint, latch, taskVars, ghosts>>

Pixel  == 0..LED_N - 1
Colour == {"dark", "red", "amber", "green", "white", "blue"}
Pace   == {"solid", "fast", "slow"}
Wink   == [pace : Pace, colour : Colour]
FREE   == "free"
Absent == [pace |-> "none", colour |-> "dark"]   \* the roster has no such member yet

SlowAmber == [pace |-> "slow", colour |-> "amber"]
Steady(c) == [pace |-> "solid", colour |-> c]
AllDark   == [p \in Pixel |-> "dark"]

\* The parts of a roster entry that the rail looks at.
AnyView == [alive : BOOLEAN, eligible : BOOLEAN, serving : BOOLEAN, leads : BOOLEAN,
            benched : BOOLEAN,         \* in the bench mask of the leader's heartbeat
            updating : BOOLEAN, back : BOOLEAN]   \* back: the uptime has run backwards

ASSUME ViewAssumption == View \subseteq AnyView

RailTypeOK ==
  /\ buf \in [Pixel -> Colour] /\ strip \in [Pixel -> Colour] /\ wink \in [Pixel -> Wink]
  /\ blackout \in BOOLEAN /\ otaRail \in BOOLEAN /\ blanked \in BOOLEAN
  /\ otaw \in {"idle", "nocreds", "open"}
  /\ paint \in {FREE, "render", "animator", "touch"}
  /\ latch \in [Member -> 0..LATCH]
  /\ render \in [at : {"rest", "self", "draw", "lock", "show", "glass", "amber", "flag"},
                 frame : [Member -> Wink \cup {Absent}], todo : SUBSET Member,
                 heard : BOOLEAN, ow : BOOLEAN]
  /\ animator \in [at : {"rest", "read", "px", "lock", "show"}, i : 0..LED_N,
                   colour : Colour, touched : BOOLEAN]
  /\ touch \in {"rest", "unwink", "lock", "clear", "again", "amber", "flag", "open"}
  /\ clean \in BOOLEAN /\ smudged \in BOOLEAN

----------------------------------------------------------------------------
(* The colour law *)

\* Seeded slip: the latch runs on below nought.
SpentOn(left) == left - 1

\* Time runs on for the latch, whether the turn renders or not.
Spent(left) == IF left > 0 THEN left - 1 ELSE 0

\* The latch of a member after this sample of the roster.
Latched(v, left) == IF v.back THEN 0 ELSE IF v.updating THEN LATCH ELSE Spent(left)

\* The chain of led_render, for a blade: the first that applies.
Lamp(v, left) ==
  IF ~v.alive THEN Steady("red")
  ELSE IF v.eligible /\ ~v.serving THEN [pace |-> "fast", colour |-> "amber"]
  ELSE IF left > 0 THEN SlowAmber
  ELSE IF v.leads THEN Steady("green")
  ELSE IF v.eligible /\ v.benched THEN Steady("amber")
  ELSE IF v.eligible THEN Steady("white")
  ELSE Steady("blue")

----------------------------------------------------------------------------
(* Painters *)

\* px, as the history sees it.
Px(p, c) ==
  /\ buf' = [buf EXCEPT ![p] = c]
  /\ smudged' = (smudged \/ (touch = "again" /\ c # "dark"))

\* led_ota in two steps: the amber, if it is new, and then the flag.
OtaAmber(active) ==
  wink' = IF active /\ ~otaRail THEN [p \in Pixel |-> SlowAmber] ELSE wink
OtaFlag(active) == otaRail' = active

\* A frame is kept from the refresh by a blackout that landed since.
Pushed(who, unlessDark) ==
  /\ paint = who /\ paint' = FREE
  /\ strip' = IF unlessDark /\ blackout THEN strip ELSE buf

Take(who) == paint = FREE /\ paint' = who

----------------------------------------------------------------------------
(* The render task, four times a second *)

NoFrame == [p \in Member |-> Absent]
Resting == [at |-> "rest", frame |-> NoFrame, todo |-> {}, heard |-> FALSE, ow |-> FALSE]

\* Every fourth turn goes on to the glass.
RenderDone == render' \in {Resting, [Resting EXCEPT !.at = "glass"]}

RenderSkips ==
  /\ render.at = "rest" /\ (blackout \/ otaRail)
  /\ RenderDone
  /\ latch' = [p \in Member |-> Spent(latch[p])]
  /\ UNCHANGED <<buf, strip, wink, blackout, otaRail, blanked, otaw, paint,
                 animator, touch, ghosts>>

\* Seeded slip: the pixels are not set to dark first.
RenderStartStale ==
  /\ render.at = "rest" /\ ~blackout /\ ~otaRail
  /\ \E here \in SUBSET Member : \E v \in [here -> View] :
       /\ latch' = [p \in Member |-> IF p \in here THEN Latched(v[p], latch[p])
                                      ELSE Spent(latch[p])]
       /\ render' = [render EXCEPT
            !.at = "self", !.todo = here,
            !.heard = \E p \in here : v[p].alive,
            !.frame = [p \in Member |-> IF p \in here THEN Lamp(v[p], latch'[p]) ELSE Absent]]
  /\ clean' = (animator.at = "rest")
  /\ UNCHANGED <<buf, strip, wink, blackout, otaRail, blanked, otaw, paint, animator, touch, smudged>>

\* The roster as it is when the frame begins, and every pixel to dark.
RenderStart ==
  /\ render.at = "rest" /\ ~blackout /\ ~otaRail
  /\ \E here \in SUBSET Member : \E v \in [here -> View] :
       /\ latch' = [p \in Member |-> IF p \in here THEN Latched(v[p], latch[p])
                                      ELSE Spent(latch[p])]
       /\ render' = [render EXCEPT
            !.at = "self", !.todo = here,
            !.heard = \E p \in here : v[p].alive,
            !.frame = [p \in Member |-> IF p \in here THEN Lamp(v[p], latch'[p]) ELSE Absent]]
  /\ buf' = AllDark
  /\ clean' = (animator.at = "rest")
  /\ UNCHANGED <<strip, wink, blackout, otaRail, blanked, otaw, paint, animator, touch, smudged>>

\* Our own entry, the first of the roster, goes to the host's pixel: blue, or the
\* amber of an image that we are taking (its latch is left open).
RenderSelf ==
  /\ render.at = "self"
  /\ \E w \in {Steady("blue"), SlowAmber} :
       wink' = [wink EXCEPT ![HOST] = w] /\ Px(HOST, w.colour)
  /\ render' = [render EXCEPT !.at = "draw"]
  /\ UNCHANGED <<strip, blackout, otaRail, blanked, otaw, paint, latch, animator, touch, clean>>

RenderDraw(p) ==
  /\ render.at = "draw" /\ p \in render.todo
  /\ wink' = [wink EXCEPT ![p] = render.frame[p]]
  /\ Px(p, render.frame[p].colour)
  /\ render' = [render EXCEPT !.todo = @ \ {p}]
  /\ UNCHANGED <<strip, blackout, otaRail, blanked, otaw, paint, latch, animator, touch, clean>>

\* The host's pixel for good; the colour that the animation knows stays its own.
RenderHost ==
  /\ render.at = "draw" /\ render.todo = {}
  /\ wink' = [wink EXCEPT ![HOST].pace = "solid"]
  /\ Px(HOST, IF render.heard THEN "blue" ELSE "red")
  /\ render' = [render EXCEPT !.at = "lock"]
  /\ UNCHANGED <<strip, blackout, otaRail, blanked, otaw, paint, latch, animator, touch, clean>>

RenderLock ==
  /\ render.at = "lock" /\ Take("render")
  /\ render' = [render EXCEPT !.at = "show"]
  /\ UNCHANGED <<buf, strip, wink, blackout, otaRail, blanked, otaw, latch, animator, touch, ghosts>>

\* Seeded slip: the blackout is not looked at again.
RenderShowBlind ==
  /\ render.at = "show" /\ Pushed("render", FALSE)
  /\ RenderDone
  /\ UNCHANGED <<buf, wink, blackout, otaRail, blanked, otaw, latch, animator, touch, ghosts>>

RenderShow ==
  /\ render.at = "show" /\ Pushed("render", TRUE)
  /\ RenderDone
  /\ UNCHANGED <<buf, wink, blackout, otaRail, blanked, otaw, latch, animator, touch, ghosts>>

\* tft_render: the window's status, and led_ota with what it was.
RenderGlass ==
  /\ render.at = "glass"
  /\ render' = [render EXCEPT !.at = "amber", !.ow = (otaw = "open")]
  /\ UNCHANGED <<buf, strip, wink, blackout, otaRail, blanked, otaw, paint, latch,
                 animator, touch, ghosts>>

RenderAmber ==
  /\ render.at = "amber" /\ OtaAmber(render.ow)
  /\ render' = [render EXCEPT !.at = "flag"]
  /\ UNCHANGED <<buf, strip, blackout, otaRail, blanked, otaw, paint, latch,
                 animator, touch, ghosts>>

RenderFlag ==
  /\ render.at = "flag" /\ OtaFlag(render.ow)
  /\ render' = Resting
  /\ UNCHANGED <<buf, strip, wink, blackout, blanked, otaw, paint, latch,
                 animator, touch, ghosts>>

RenderTask ==
  \/ RenderSkips \/ RenderStart \/ RenderSelf \/ (\E p \in Member : RenderDraw(p)) \/ RenderHost
  \/ RenderLock \/ RenderShow \/ RenderGlass \/ RenderAmber \/ RenderFlag

----------------------------------------------------------------------------
(* The animation task, when a phase has turned *)

Asleep == [at |-> "rest", i |-> 0, colour |-> "dark", touched |-> FALSE]

AnimWake ==
  /\ animator.at = "rest" /\ ~blackout
  /\ animator' = [Asleep EXCEPT !.at = "read"] /\ clean' = FALSE
  /\ UNCHANGED <<buf, strip, wink, blackout, otaRail, blanked, otaw, paint, latch,
                 render, touch, smudged>>

\* One pixel's anim and colour, read together under s_anim_lock.
AnimRead ==
  /\ animator.at = "read" /\ animator.i < LED_N
  /\ LET w == wink[animator.i]
     IN  IF w.pace = "solid" THEN animator' = [animator EXCEPT !.i = @ + 1]
         ELSE \E c \in {w.colour, "dark"} :
                animator' = [animator EXCEPT !.at = "px", !.colour = c]
  /\ UNCHANGED <<buf, strip, wink, blackout, otaRail, blanked, otaw, paint, latch,
                 render, touch, ghosts>>

AnimPx ==
  /\ animator.at = "px" /\ Px(animator.i, animator.colour)
  /\ animator' = [at |-> "read", i |-> animator.i + 1, colour |-> "dark", touched |-> TRUE]
  /\ UNCHANGED <<strip, wink, blackout, otaRail, blanked, otaw, paint, latch, render, touch, clean>>

AnimDone ==
  /\ animator.at = "read" /\ animator.i = LED_N
  /\ animator' = IF animator.touched THEN [Asleep EXCEPT !.at = "lock"] ELSE Asleep
  /\ UNCHANGED <<buf, strip, wink, blackout, otaRail, blanked, otaw, paint, latch,
                 render, touch, ghosts>>

AnimLock ==
  /\ animator.at = "lock" /\ Take("animator")
  /\ animator' = [animator EXCEPT !.at = "show"]
  /\ UNCHANGED <<buf, strip, wink, blackout, otaRail, blanked, otaw, latch, render, touch, ghosts>>

AnimShow ==
  /\ animator.at = "show" /\ Pushed("animator", TRUE)
  /\ animator' = Asleep
  /\ UNCHANGED <<buf, wink, blackout, otaRail, blanked, otaw, latch, render, touch, ghosts>>

AnimTask == AnimWake \/ AnimRead \/ AnimPx \/ AnimDone \/ AnimLock \/ AnimShow

----------------------------------------------------------------------------
(* The touch task: what a gesture orders *)

\* Held for 1.2 s: screen and rail dark (the start of led_blackout).
HoldDark ==
  /\ touch = "rest" /\ touch' = "unwink"
  /\ blanked' = TRUE /\ blackout' = TRUE /\ smudged' = FALSE
  /\ UNCHANGED <<buf, strip, wink, otaRail, otaw, paint, latch, render, animator, clean>>

DarkUnwink ==
  /\ touch = "unwink" /\ touch' = "lock"
  /\ wink' = [p \in Pixel |-> [wink[p] EXCEPT !.pace = "solid"]]
  /\ UNCHANGED <<buf, strip, blackout, otaRail, blanked, otaw, paint, latch,
                 render, animator, ghosts>>

DarkLock ==
  /\ touch = "lock" /\ Take("touch") /\ touch' = "clear"
  /\ UNCHANGED <<buf, strip, wink, blackout, otaRail, blanked, otaw, latch,
                 render, animator, ghosts>>

\* led_strip_clear empties the buffer and transmits it.
DarkClear ==
  /\ touch = "clear" /\ touch' = "again"
  /\ buf' = AllDark /\ strip' = AllDark /\ clean' = FALSE
  /\ UNCHANGED <<wink, blackout, otaRail, blanked, otaw, paint, latch, render, animator, smudged>>

\* led_strip_refresh transmits whatever the buffer holds by now.
DarkAgain ==
  /\ touch = "again" /\ Pushed("touch", FALSE) /\ touch' = "rest"
  /\ UNCHANGED <<buf, wink, blackout, otaRail, blanked, otaw, latch, render, animator, ghosts>>

\* Held for 4 s: light, amber, and the window.
HoldOta ==
  /\ touch = "rest" /\ touch' = "amber"
  /\ blanked' = FALSE /\ blackout' = FALSE
  /\ UNCHANGED <<buf, strip, wink, otaRail, otaw, paint, latch, render, animator, ghosts>>

TouchAmber ==
  /\ touch = "amber" /\ OtaAmber(TRUE) /\ touch' = "flag"
  /\ UNCHANGED <<buf, strip, blackout, otaRail, blanked, otaw, paint, latch,
                 render, animator, ghosts>>

TouchFlag ==
  /\ touch = "flag" /\ OtaFlag(TRUE) /\ touch' = "open"
  /\ UNCHANGED <<buf, strip, wink, blackout, blanked, otaw, paint, latch,
                 render, animator, ghosts>>

TouchOpen ==
  /\ touch = "open" /\ touch' = "rest"
  /\ otaw' \in IF otaw = "open" THEN {"open"} ELSE {"open", "nocreds"}
  /\ UNCHANGED <<buf, strip, wink, blackout, otaRail, blanked, paint, latch,
                 render, animator, ghosts>>

\* A tap cancels the window if there is one, or else toggles the screen; the
\* screen wakes the rail.
Tap ==
  /\ touch = "rest"
  /\ IF otaw # "idle"
     THEN otaw' \in {otaw, "idle"} /\ UNCHANGED <<blanked, blackout>>
     ELSE blanked' = ~blanked /\ blackout' = (blackout /\ ~blanked) /\ UNCHANGED otaw
  /\ UNCHANGED <<buf, strip, wink, otaRail, paint, latch, taskVars, ghosts>>

TouchTask ==
  \/ HoldDark \/ DarkUnwink \/ DarkLock \/ DarkClear \/ DarkAgain
  \/ HoldOta \/ TouchAmber \/ TouchFlag \/ TouchOpen \/ Tap

\* The window expires.
WindowEnds ==
  /\ otaw = "open" /\ otaw' = "idle"
  /\ UNCHANGED <<buf, strip, wink, blackout, otaRail, blanked, paint, latch, taskVars, ghosts>>

----------------------------------------------------------------------------
(* The specification *)

RailInit ==
  /\ buf = AllDark /\ strip = AllDark /\ wink = [p \in Pixel |-> Steady("dark")]
  /\ blackout = FALSE /\ otaRail = FALSE /\ blanked = FALSE /\ otaw = "idle"
  /\ paint = FREE /\ latch = [p \in Member |-> 0]
  /\ render = Resting /\ animator = Asleep /\ touch = "rest"
  /\ clean = FALSE /\ smudged = FALSE

RailNext == RenderTask \/ AnimTask \/ TouchTask \/ WindowEnds

RailSpec == RailInit /\ [][RailNext]_railVars

----------------------------------------------------------------------------
(* Properties *)

\* "The rail dark and held dark": once led_blackout has returned, the strip
\* stays dark until somebody wakes it, although both painters may be anywhere
\* in a frame when it strikes; except for a pixel painted between its clear and
\* its refresh (smudged), which then stays lit.
HeldDark == blackout /\ touch = "rest" /\ ~smudged => strip = AllDark

\* A frame that nobody crossed shows the roster as it was when the frame began:
\* every member in its colour, one the roster lacks dark, the host blue if the
\* air carries a heartbeat.
WholeFrame ==
  [][render.at = "show" /\ render'.at # "show" /\ ~blackout /\ clean =>
       /\ strip'[HOST] = IF render.heard THEN "blue" ELSE "red"
       /\ \A p \in Member : strip'[p] = render.frame[p].colour]_railVars
=============================================================================
