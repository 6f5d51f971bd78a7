------------------------------ MODULE MCKobzar ------------------------------
(***************************************************************************)
(* Kobzar for TLC: one budget for each thing the display keeps, so that    *)
(* each is pressed hard without multiplying the others.                    *)
(***************************************************************************)
EXTENDS Kobzar

CONSTANTS b1, b2

Nothing ==
  [blades |-> {b1, b2}, beats |-> 0, losses |-> 0, clicks |-> 0, refusals |-> 0, faults |-> 0,
   resets |-> 0, deaths |-> 0, reboots |-> 0, turns |-> 0, reign |-> 0]

One == [Nothing EXCEPT !.blades = {b1}]

\* A blade's window and its deaths, heard by a display that restarts.
Radio == [One EXCEPT !.beats = 5, !.losses = 4, !.deaths = 2, !.reboots = 1]
\* A blade's clicks, lost in every way they can be.
Clicks == [One EXCEPT !.beats = 3, !.losses = 1, !.clicks = 2, !.faults = 1, !.deaths = 2]
\* Two blades' refusals, over an hour that goes round.
Refusals == [Nothing EXCEPT !.beats = 2, !.refusals = 2, !.resets = 1, !.deaths = 1]
\* Reigns, and a display that restarts.
Reigns == [Nothing EXCEPT !.turns = 4, !.reign = 4, !.reboots = 2]
MCBudget == {Radio, Clicks, Refusals, Reigns}

\* A click and a restart of its blade, and nothing else.
Plain == [One EXCEPT !.beats = 3, !.clicks = 1, !.deaths = 1]
PlainBudget == {Plain}
=============================================================================
