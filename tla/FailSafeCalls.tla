--------------------------- MODULE FailSafeCalls ---------------------------
(***************************************************************************)
(* The steps of FailSafe with the history its promise needs.  main.rs gives*)
(* the controller to two hot paths whose calls of record_latency may       *)
(* overlap; the promise is about the calls that do not.  It is off from the *)
(* moment two calls overlap until no call runs and what they left behind is*)
(* no count for an episode of DEGRADED still to come.                      *)
(***************************************************************************)
EXTENDS FailSafe

VARIABLES
  disturbed,  \* history: the promise is off
  packet      \* history: argument of the only call that runs, or NoLatency

cvars == <<vars, disturbed, packet>>

\* The calls of record_latency that run.
Busy == {w \in Workers : pc[w] # "idle"}

CInit == Init /\ disturbed = FALSE /\ packet = NoLatency

Quiet == Busy = {} /\ (mode = "DEGRADED" \/ degraded_clean = 0)

Track(w) ==
  /\ disturbed' = (~Quiet' /\ (disturbed \/ Cardinality(Busy') > 1))
  /\ packet' = IF disturbed' \/ pc'[w] = "idle" THEN NoLatency
                 ELSE IF pc[w] = "idle" THEN latency'[w] ELSE packet

CWorker(w) == Worker(w) /\ Track(w)

CNext ==
  \/ CalmDown /\ UNCHANGED <<disturbed, packet>>
  \/ \E w \in Workers : CWorker(w)

CSpec == CInit /\ [][CNext]_cvars

\* Each hot-path thread runs, and keeps getting packets it does not skip.
CFairSpec == CSpec /\ \A w \in Workers : WF_cvars(CWorker(w))

---------------------------------------------------------------------------
(* Properties.                                                             *)

\* record_latency keeps the promise of the state machine, whichever threads
\* make the calls: each packet has exactly the effect its latency calls for
\* (fail_safe.rs:79-117), so that only consecutive clean packets lead out of
\* DEGRADED and RECOVERY, however the streak is spread over the threads.  A
\* spike takes effect when the mode is loaded, anything else when a counter or
\* the mode is written; a count that has just been filled is still the streak
\* before it.
Aiming(m) == \E w \in Busy : target[w] = m /\ pc[w] # "publish"
Judged == \E w \in Busy : target[w] = "DEGRADED" \/ pc[w] = "publish"
Machine == INSTANCE FailSafeFSM WITH
  NoPacket <- NoLatency,
  packet   <- IF Judged THEN NoLatency ELSE packet,
  state    <- IF Aiming("DEGRADED") THEN "DEGRADED" ELSE mode,
  streak   <- IF disturbed \/ Aiming("DEGRADED") \/ mode = "NORMAL" THEN 0
                ELSE IF mode = "DEGRADED"
                  THEN IF Aiming("RECOVERY") THEN DegradedWindow - 1 ELSE degraded_clean
                  ELSE IF Aiming("NORMAL") THEN clean_cycles - 1 ELSE clean_cycles
RefinesMachine == Machine!Spec
=============================================================================
