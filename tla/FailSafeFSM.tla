---------------------------- MODULE FailSafeFSM ----------------------------
(***************************************************************************)
(* What record_latency promises for calls that do not overlap: a packet    *)
(* arrives with its latency and is judged, and the judgement is determined *)
(* by the state, the streak and the latency.  A spike degrades the system; *)
(* a window of consecutive clean packets leads out of DEGRADED, another out*)
(* of RECOVERY; any other packet starts the streak over.  While calls      *)
(* overlap (disturbed) nothing is promised about the judgements.           *)
(***************************************************************************)
EXTENDS Integers

CONSTANTS Latencies, NoPacket, JitterThreshold, RecoveryThreshold,
          DegradedWindow, RecoveryWindow

VARIABLES
  state,     \* NORMAL, DEGRADED or RECOVERY
  streak,    \* consecutive clean packets in this state
  packet,    \* latency of the packet to be judged, or NoPacket
  disturbed  \* calls overlap, or what they left behind is not cleared yet

Spike == packet > JitterThreshold
Clean == packet < RecoveryThreshold
Window == [DEGRADED |-> DegradedWindow, RECOVERY |-> RecoveryWindow]
Way    == [DEGRADED |-> "RECOVERY", RECOVERY |-> "NORMAL"]

Init == state = "NORMAL" /\ streak = 0 /\ packet = NoPacket /\ ~disturbed

Arrive ==
  /\ packet = NoPacket /\ packet' \in Latencies
  /\ UNCHANGED <<state, streak>>

Degrade ==
  /\ state # "DEGRADED" /\ Spike
  /\ state' = "DEGRADED" /\ streak' = 0

Ignore ==
  /\ state = "NORMAL" /\ ~Spike
  /\ UNCHANGED <<state, streak>>

CleanCounts ==
  /\ state # "NORMAL" /\ Clean /\ streak + 1 < Window[state]
  /\ streak' = streak + 1 /\ UNCHANGED state

MoveOn ==
  /\ state # "NORMAL" /\ Clean /\ streak + 1 >= Window[state]
  /\ state' = Way[state] /\ streak' = 0

StartOver ==
  /\ state # "NORMAL" /\ ~Clean /\ (Spike => state = "DEGRADED")
  /\ streak' = 0 /\ UNCHANGED state

\* Exactly one of the five applies to a packet.
Judge ==
  /\ packet # NoPacket /\ packet' = NoPacket
  /\ Degrade \/ Ignore \/ CleanCounts \/ MoveOn \/ StartOver

\* Calls that overlap may leave any count, but none in NORMAL.
Disturb ==
  /\ disturbed \/ disturbed'
  /\ state' \in {"NORMAL", "DEGRADED", "RECOVERY"} /\ streak' \in Nat
  /\ state' = "NORMAL" => streak' = 0
  /\ packet' = NoPacket

Next ==
  \/ Disturb
  \/ /\ ~disturbed /\ ~disturbed'
     /\ Arrive \/ Judge

Spec == Init /\ [][Next]_<<state, streak, packet, disturbed>>
=============================================================================
