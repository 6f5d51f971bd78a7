------------------------------- MODULE Clicks -------------------------------
(***************************************************************************)
(* The click counters of the page (serve.c): each slug is counted in RAM,  *)
(* and written to flash with a click that comes more than a minute after   *)
(* the last write.  The counters of the slugs do not meet: one is modelled.*)
(***************************************************************************)
EXTENDS Integers

CONSTANTS
  MINUTE,      \* units in a slug's minute
  CLICK_MAX    \* UINT32_MAX, where the counter stops

ASSUME ClicksAssumption == MINUTE \in Nat /\ CLICK_MAX \in Nat

VARIABLES
  clicks,     \* s_clicks, in RAM
  kept,       \* the slug's value in flash
  nvsOpen,    \* s_click_nvs
  sinceKept,  \* since s_click_commit_us, or since boot
  unkept      \* history: units since the first click that flash does not know

clickVars == <<clicks, kept, nvsOpen, sinceKept, unkept>>

NONE_UNKEPT == -1

ClicksTypeOK ==
  /\ clicks \in 0..CLICK_MAX /\ kept \in 0..CLICK_MAX /\ nvsOpen \in BOOLEAN
  /\ sinceKept \in 0..MINUTE + 1
  /\ unkept \in {NONE_UNKEPT} \cup 0..MINUTE + 1

Later(t) == IF t <= MINUTE THEN t + 1 ELSE t

\* Seeded slip: the stamp is moved by every click.
ClickStamped ==
  /\ clicks' = IF clicks < CLICK_MAX THEN clicks + 1 ELSE clicks
  /\ IF nvsOpen /\ sinceKept > MINUTE
     THEN kept' = clicks' /\ unkept' = NONE_UNKEPT
     ELSE kept' = kept /\ unkept' = (IF unkept = NONE_UNKEPT THEN 0 ELSE unkept)
  /\ sinceKept' = 0
  /\ UNCHANGED nvsOpen

\* click_post_handler, for a slug it knows.
Click ==
  /\ clicks' = IF clicks < CLICK_MAX THEN clicks + 1 ELSE clicks
  /\ IF nvsOpen /\ sinceKept > MINUTE
     THEN kept' = clicks' /\ sinceKept' = 0 /\ unkept' = NONE_UNKEPT
     ELSE /\ UNCHANGED <<kept, sinceKept>>
          /\ unkept' = IF unkept = NONE_UNKEPT THEN 0 ELSE unkept
  /\ UNCHANGED nvsOpen

\* Time, as a minute's count needs it.
ClickTime ==
  /\ sinceKept' = Later(sinceKept)
  /\ unkept' = IF unkept = NONE_UNKEPT THEN NONE_UNKEPT ELSE Later(unkept)
  /\ UNCHANGED <<clicks, kept, nvsOpen>>

\* Power, and clicks_load; the partition may not open.
ClickBoot ==
  /\ nvsOpen' \in BOOLEAN
  /\ clicks' = IF nvsOpen' THEN kept ELSE 0
  /\ sinceKept' = 0 /\ unkept' = NONE_UNKEPT
  /\ UNCHANGED kept

ClicksInit ==
  /\ clicks = 0 /\ kept = 0 /\ nvsOpen \in BOOLEAN /\ sinceKept = 0 /\ unkept = NONE_UNKEPT

ClicksNext == Click \/ ClickTime \/ ClickBoot

ClicksSpec == ClicksInit /\ [][ClicksNext]_clickVars

----------------------------------------------------------------------------
(* Properties *)

\* "A power cut forfeits at most one minute of one slug's clicks": the clicks that
\* flash does not know all came within one minute, however long ago that was.
ClicksForfeit ==
  [][nvsOpen /\ unkept > MINUTE /\ clicks' > clicks => kept' = clicks']_clickVars
=============================================================================
