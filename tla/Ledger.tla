------------------------------- MODULE Ledger -------------------------------
(***************************************************************************)
(* What a blade counts of its own serving and what its peers make of it:   *)
(* the tally of refusals by kind and the ring of their faces (serve.c),    *)
(* the request and refusal counters that the heartbeat carries (swarm.c),  *)
(* and the availability that the blade and its peers each compute.         *)
(*                                                                         *)
(* The httpd tasks and the splicer's count under two locks.  The wipe runs *)
(* in the admin server's task and takes neither: where it meets somebody's *)
(* increment, one of its stores may be overwritten.                        *)
(***************************************************************************)
EXTENDS Integers, Sequences, FiniteSets, SequencesExt

CONSTANTS
  Server, ADMIN,  \* the httpd tasks, and the one that may wipe
  RING,           \* BOHUN_REFUSAL_N
  KIND_MAX,       \* where a kind's tally saturates
  MAX_SERVED,     \* bound: requests served
  MAX_REFUSED     \* bound: refusals

ASSUME LedgerAssumption ==
  /\ IsFiniteSet(Server) /\ ADMIN \in Server /\ "splicer" \notin Server
  /\ RING \in Nat \ {0} /\ KIND_MAX \in Nat /\ MAX_SERVED \in Nat /\ MAX_REFUSED \in Nat

VARIABLES
  served,    \* s_req_count
  err,       \* s_req_err and, of these, s_req_err_srv
  kinds,     \* s_err_kind: the 5xx kinds, and the rest
  faces,     \* s_refusals: the ring, and how many there ever were
  job,       \* what a task has left to do for the refusal it is in
  wiping,    \* swarm_reset_stats, under way
  sampled,   \* history: the refusals' listeners, in the order of sampling
  spliced,   \* history: the splicer has refused since the last wipe began
  muddled    \* history: the last wipe has met a refusal half way

ledgerVars == <<served, err, kinds, faces, job, wiping, sampled, spliced, muddled>>

SPLICER == "splicer"
Counter == Server \cup {SPLICER}
NOFACE  == "noface"
Doing   == {"rest", "tally", "count", "sample"}
NoJob   == [at |-> "rest", ours |-> FALSE]
Total   == 0..MAX_REFUSED

LedgerTypeOK ==
  /\ served \in 0..MAX_SERVED /\ err \in [all : Total, srv : Total]
  /\ kinds \in [srv : 0..KIND_MAX, rest : 0..KIND_MAX]
  /\ faces \in [rec : [0..RING - 1 -> Server \cup {NOFACE}], total : Total]
  /\ job \in [Counter -> [at : Doing, ours : BOOLEAN]]
  /\ wiping \in {"rest", "all", "srv", "kinds"}
  /\ sampled \in Seq(Server) /\ spliced \in BOOLEAN /\ muddled \in BOOLEAN

At(c, label) == job' = [job EXCEPT ![c].at = label]
Busy == \E c \in Server : job[c].at # "rest"

----------------------------------------------------------------------------
(* Requests and refusals *)

\* swarm_record_request
Serve ==
  /\ served < MAX_SERVED /\ served' = served + 1
  /\ UNCHANGED <<err, kinds, faces, job, wiping, sampled, spliced, muddled>>

\* Bound: there is room for one more refusal.
MoreRefusals ==
  \A n \in {err.all, err.srv, Len(sampled)} :
    n + Cardinality({c \in Counter : job[c].at # "rest"}) < MAX_REFUSED

\* counted_err, or a handler that refuses by hand.
Refusal(s) ==
  /\ job[s].at = "rest" /\ (s = ADMIN => wiping = "rest")
  /\ MoreRefusals
  /\ \E ours \in BOOLEAN : job' = [job EXCEPT ![s] = [at |-> "tally", ours |-> ours]]
  /\ muddled' = (muddled \/ wiping # "rest")
  /\ UNCHANGED <<served, err, kinds, faces, wiping, sampled, spliced>>

Raised(k) == IF k < KIND_MAX THEN k + 1 ELSE k

\* The first half of tally.
Tally(s) ==
  /\ job[s].at = "tally" /\ At(s, "count")
  /\ kinds' = IF job[s].ours THEN [kinds EXCEPT !.srv = Raised(@)]
                             ELSE [kinds EXCEPT !.rest = Raised(@)]
  /\ UNCHANGED <<served, err, faces, wiping, sampled, spliced, muddled>>

\* Seeded slip: swarm_record_error, "counts as theirs".
CountTheirs(s) ==
  /\ job[s].at = "count" /\ At(s, "sample")
  /\ err' = [err EXCEPT !.all = @ + 1]
  /\ UNCHANGED <<served, kinds, faces, wiping, sampled, spliced, muddled>>

\* The second half: swarm_record_refusal.
CountRefusal(s) ==
  /\ job[s].at = "count" /\ At(s, "sample")
  /\ err' = [all |-> err.all + 1, srv |-> err.srv + IF job[s].ours THEN 1 ELSE 0]
  /\ UNCHANGED <<served, kinds, faces, wiping, sampled, spliced, muddled>>

\* sample_refusal
Sample(s) ==
  /\ job[s].at = "sample" /\ job' = [job EXCEPT ![s] = NoJob]
  /\ faces' = [rec |-> [faces.rec EXCEPT ![faces.total % RING] = s], total |-> faces.total + 1]
  /\ sampled' = Append(sampled, s)
  /\ UNCHANGED <<served, err, kinds, wiping, spliced, muddled>>

\* The splicer's relay tells only the counters of a backend that refuses it.
SpliceRefused ==
  /\ job[SPLICER].at = "rest" /\ MoreRefusals /\ At(SPLICER, "count")
  /\ UNCHANGED <<served, err, kinds, faces, wiping, sampled, spliced, muddled>>

SpliceCount ==
  /\ job[SPLICER].at = "count" /\ At(SPLICER, "rest")
  /\ err' = [all |-> err.all + 1, srv |-> err.srv + 1] /\ spliced' = TRUE
  /\ UNCHANGED <<served, kinds, faces, wiping, sampled, muddled>>

----------------------------------------------------------------------------
(* The wipe *)

\* What a store of nought leaves behind: nought, or what an increment that it
\* has met writes back.
Wiped(value, label) == {0} \cup (IF \E c \in Counter : job[c].at = label THEN {value} ELSE {})

WipeServed ==
  /\ wiping = "rest" /\ job[ADMIN].at = "rest" /\ wiping' = "all"
  /\ served' = 0 /\ spliced' = FALSE /\ muddled' = Busy
  /\ UNCHANGED <<err, kinds, faces, job, sampled>>

WipeAll ==
  /\ wiping = "all" /\ wiping' = "srv"
  /\ \E v \in Wiped(err.all, "count") : err' = [err EXCEPT !.all = v]
  /\ UNCHANGED <<served, kinds, faces, job, sampled, spliced, muddled>>

WipeSrv ==
  /\ wiping = "srv" /\ wiping' = "kinds"
  /\ \E v \in Wiped(err.srv, "count") : err' = [err EXCEPT !.srv = v]
  /\ UNCHANGED <<served, kinds, faces, job, sampled, spliced, muddled>>

\* serve_reset_errors, after flash has been written.
WipeKinds ==
  /\ wiping = "kinds" /\ wiping' = "rest"
  /\ \E s \in Wiped(kinds.srv, "tally"), r \in Wiped(kinds.rest, "tally") :
       kinds' = [srv |-> s, rest |-> r]
  /\ UNCHANGED <<served, err, faces, job, sampled, spliced, muddled>>

----------------------------------------------------------------------------
(* The specification *)

LedgerInit ==
  /\ served = 0 /\ err = [all |-> 0, srv |-> 0] /\ kinds = [srv |-> 0, rest |-> 0]
  /\ faces = [rec |-> [k \in 0..RING - 1 |-> NOFACE], total |-> 0]
  /\ job = [c \in Counter |-> NoJob] /\ wiping = "rest"
  /\ sampled = <<>> /\ spliced = FALSE /\ muddled = FALSE

LedgerNext ==
  \/ Serve \/ SpliceRefused \/ SpliceCount
  \/ \E s \in Server : Refusal(s) \/ Tally(s) \/ CountRefusal(s) \/ Sample(s)
  \/ WipeServed \/ WipeAll \/ WipeSrv \/ WipeKinds

LedgerSpec == LedgerInit /\ [][LedgerNext]_ledgerVars

----------------------------------------------------------------------------
(* Properties *)

\* bohun_avail_x10
AvailX10(ok, all, srv) ==
  LET total == ok + all
      fault == IF srv > total THEN total ELSE srv
  IN  IF total = 0 THEN 1000 ELSE ((total - fault) * 1000) \div total

\* swarm_avail_x10
Own == AvailX10(served, err.all, err.srv)

\* peer_avail_x10, of a heartbeat that was put together now.
Peers == AvailX10(served, err.all, kinds.srv)

\* No refusal and no wipe is under way.
Quiet == wiping = "rest" /\ \A c \in Counter : job[c].at = "rest"

\* "On the SAME rule the node applies to itself": whichever servers refuse at
\* once, a blade and the peers that hear its next heartbeat come to the same
\* availability, and the two books agree; except after a refusal of the splicer,
\* a wipe that met a refusal half way, or with a tally that is full.
BooksAgree ==
  Quiet /\ ~spliced /\ ~muddled /\ kinds.srv < KIND_MAX /\ kinds.rest < KIND_MAX =>
    err.srv = kinds.srv /\ err.all = kinds.srv + kinds.rest /\ Own = Peers

\* bohun_refusal_dump, the newest first
Dump ==
  [i \in 1..IF faces.total < RING THEN faces.total ELSE RING |-> faces.rec[(faces.total - i) % RING]]

\* "The newest N": the dump is the refusals that were sampled last, in the order
\* in which the servers came to the ring.
FacesNewest ==
  Dump = SubSeq(Reverse(sampled), 1, IF Len(sampled) < RING THEN Len(sampled) ELSE RING)

\* What a blade tells of its refusals, to its operator and to its peers, is what
\* it refused.
RefusalsTold == BooksAgree /\ FacesNewest

\* "So they can never disagree" (swarm.c:412): a blade and the peers that hear
\* its next heartbeat come to the same availability.  The code does not keep this.
AvailAgrees == Quiet => Own = Peers
=============================================================================
