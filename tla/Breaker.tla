------------------------------ MODULE Breaker ------------------------------
(***************************************************************************)
(* What a circuit breaker promises of one backend: it opens after a streak *)
(* of strikes that nothing has forgiven, and stays open for its whole      *)
(* wait; after that it is on probation, where one strike opens it again    *)
(* for twice as long; and one success forgives everything.                 *)
(***************************************************************************)
EXTENDS Integers

CONSTANTS Streak, First, Longest

VARIABLES
  mode,      \* "closed", "open", or on "probation"
  strikes,   \* against a closed breaker, since the last success
  wait,      \* the length of the last opening, 0 when forgiven
  clock      \* what is left of it

vars == <<mode, strikes, wait, clock>>

Closed == mode = "closed" /\ strikes = 0 /\ wait = 0 /\ clock = 0

Strike ==
  /\ mode = "closed" /\ strikes + 1 < Streak
  /\ strikes' = strikes + 1 /\ UNCHANGED <<mode, wait, clock>>

\* A strike against a breaker that is open or on probation counts at once.
Trip ==
  /\ mode = "closed" => strikes + 1 = Streak
  /\ mode' = "open" /\ strikes' = 0 /\ clock' = wait'
  /\ wait' = IF mode = "closed" THEN First ELSE IF 2 * wait < Longest THEN 2 * wait ELSE Longest

Elapse ==
  /\ mode = "open" /\ clock' = clock - 1
  /\ mode' = IF clock' = 0 THEN "probation" ELSE "open"
  /\ UNCHANGED <<strikes, wait>>

Next == Strike \/ Trip \/ Elapse \/ Closed'

Spec == Closed /\ [][Next]_vars

\* Until a success the waits never get shorter, and the first is the shortest.
NeverShorter == [][wait' >= wait \/ Closed']_vars

\* Nobody is let through before his time, and nobody waits longer than the
\* ceiling.
InTime == (mode = "open" <=> clock > 0) /\ clock <= wait /\ wait <= Longest
=============================================================================
