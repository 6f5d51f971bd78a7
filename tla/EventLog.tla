------------------------------ MODULE EventLog ------------------------------
(***************************************************************************)
(* What a flight recorder promises: events are numbered as they are        *)
(* written; the latest Keep of them can always be read back, room being    *)
(* made only among older ones; what is forgotten does not come back; and a *)
(* crash costs at most the event being written.  All of it until a mishap  *)
(* the recorder is not built for; after that, only that it makes up no     *)
(* event and goes on recording.                                            *)
(***************************************************************************)
EXTENDS Integers

CONSTANT Keep

VARIABLES
  written,   \* how many events have been written
  kept,      \* the numbers of those that can be read back
  sound      \* no mishap yet

vars == <<written, kept, sound>>

Init == written = 0 /\ kept = {} /\ sound = TRUE

Latest(k) == {n \in 1..written : n > written - k}

Write == sound /\ written' = written + 1 /\ kept' = kept \cup {written'} /\ sound'

Forget ==
  /\ sound /\ sound' /\ UNCHANGED written
  /\ kept' \subseteq kept /\ kept \cap Latest(Keep) \subseteq kept'

Mishap == ~sound' /\ written' \in {written, written + 1} /\ kept' \subseteq kept \cup {written'}

Spec == Init /\ [][Write \/ Forget \/ Mishap]_vars

\* The promise in one line.
LatestKept == sound => Latest(Keep) \subseteq kept
=============================================================================
