----------------------------- MODULE FailSafe -----------------------------
(***************************************************************************)
(* Component E, the fail-safe mode controller.  main.rs gives one FailSafe *)
(* to two hot-path processors (async and threaded), so record_latency runs *)
(* concurrently on the same atomics.  Every load, fetch_add, store and swap *)
(* of record_latency and transition_to is a step of its own; the metrics   *)
(* update after the swap is another, and is skipped when try_lock fails.   *)
(*                                                                         *)
(* The hot path calls record_latency once for each packet it does not      *)
(* skip.  Latencies may be of any size until the load calms down (the end  *)
(* of the stress phase), and clean afterwards; MaxSpikes bounds how many   *)
(* exceed the jitter threshold, hence the counters of metrics.             *)
(***************************************************************************)
EXTENDS Integers, FiniteSets

CONSTANTS
  Workers,            \* the hot-path threads sharing the controller
  Latencies,          \* latencies a packet may have
  JitterThreshold,    \* JITTER_THRESHOLD_US
  RecoveryThreshold,  \* RECOVERY_THRESHOLD_US
  DegradedWindow,     \* the literal 25 of record_latency
  RecoveryWindow,     \* RECOVERY_WINDOW
  MaxSpikes

ASSUME WorkersAssumption == IsFiniteSet(Workers)
ASSUME FailSafeAssumption ==
  /\ Latencies \subseteq Nat
  /\ JitterThreshold \in Nat /\ RecoveryThreshold \in Nat
  /\ RecoveryThreshold <= JitterThreshold
  /\ DegradedWindow \in Nat \ {0}
  /\ RecoveryWindow \in Nat \ {0}
  /\ MaxSpikes \in Nat

VARIABLES
  mode,            \* the AtomicU8
  degraded_clean,  \* AtomicU32: clean cycles counted in DEGRADED
  clean_cycles,    \* AtomicU32: clean cycles counted in RECOVERY
  pc,              \* per worker: where it is in record_latency
  latency,         \* per worker: argument of record_latency, or NoLatency
  target,          \* per worker: argument of transition_to, or "NONE"
  current_mode,    \* SharedMetrics.current_mode
  activations,     \* SharedMetrics.fail_safe_activations
  entries,         \* history: how often mode was swapped to DEGRADED from another
  spikes,          \* latencies above the jitter threshold so far
  calm             \* the load has calmed down: only clean latencies

counters == <<degraded_clean, clean_cycles>>
metrics  == <<current_mode, activations>>
load     == <<spikes, calm>>
vars == <<mode, counters, pc, latency, target, metrics, entries, load>>

Mode == {"NORMAL", "DEGRADED", "RECOVERY"}
NoLatency == -1

\* The three ranges record_latency tells apart.
Spike(us) == us > JitterThreshold
Clean(us) == us < RecoveryThreshold

TypeOK ==
  /\ mode \in Mode
  /\ degraded_clean \in Nat /\ clean_cycles \in Nat
  /\ pc \in [Workers -> {"idle", "load", "add_degraded", "add_clean",
                         "clear_degraded", "clear_clean", "swap", "publish"}]
  /\ latency \in [Workers -> Latencies \cup {NoLatency}]
  /\ \A w \in Workers : latency[w] # NoLatency <=> pc[w] = "load"
  /\ target \in [Workers -> Mode \cup {"NONE"}]
  /\ \A w \in Workers :
       /\ pc[w] \in {"swap", "publish"} => target[w] # "NONE"
       /\ pc[w] \in {"idle", "load", "add_degraded", "add_clean"} => target[w] = "NONE"
  /\ current_mode \in Mode
  /\ activations \in Nat /\ entries \in Nat
  /\ spikes \in 0..MaxSpikes
  /\ calm \in BOOLEAN

Init ==
  /\ mode = "NORMAL"
  /\ degraded_clean = 0 /\ clean_cycles = 0
  /\ pc = [w \in Workers |-> "idle"]
  /\ latency = [w \in Workers |-> NoLatency]
  /\ target = [w \in Workers |-> "NONE"]
  /\ current_mode = "NORMAL" /\ activations = 0
  /\ entries = 0 /\ spikes = 0
  /\ calm = FALSE

---------------------------------------------------------------------------
(* record_latency, one atomic operation per step.                          *)

Goto(w, next) == pc' = [pc EXCEPT ![w] = next]
Aim(w, m)     == target' = [target EXCEPT ![w] = m]

\* The hot path has processed a packet and calls record_latency.
Call(w) ==
  /\ pc[w] = "idle"
  /\ \E us \in Latencies :
       /\ calm => Clean(us)
       /\ Spike(us) => spikes < MaxSpikes
       /\ latency' = [latency EXCEPT ![w] = us]
       /\ spikes' = IF Spike(us) THEN spikes + 1 ELSE spikes
  /\ Goto(w, "load")
  /\ UNCHANGED <<mode, counters, target, metrics, entries, calm>>

\* Everything that follows acts on the mode loaded here.
LoadMode(w) ==
  LET us == latency[w] IN
  /\ pc[w] = "load"
  /\ \/ /\ mode = "NORMAL" /\ Spike(us)
        /\ Goto(w, "swap") /\ Aim(w, "DEGRADED")
     \/ /\ mode = "NORMAL" /\ ~Spike(us)
        /\ Goto(w, "idle") /\ UNCHANGED target
     \/ /\ mode = "DEGRADED"
        /\ Goto(w, IF Clean(us) THEN "add_degraded" ELSE "clear_degraded")
        /\ UNCHANGED target
     \/ /\ mode = "RECOVERY" /\ Clean(us)
        /\ Goto(w, "add_clean") /\ UNCHANGED target
     \/ /\ mode = "RECOVERY" /\ ~Clean(us) /\ Spike(us)
        /\ Goto(w, "clear_degraded") /\ Aim(w, "DEGRADED")
     \/ /\ mode = "RECOVERY" /\ ~Clean(us) /\ ~Spike(us)
        /\ Goto(w, "clear_clean") /\ UNCHANGED target
  /\ latency' = [latency EXCEPT ![w] = NoLatency]
  /\ UNCHANGED <<mode, counters, metrics, entries, load>>

AddDegraded(w) ==
  /\ pc[w] = "add_degraded"
  /\ degraded_clean' = degraded_clean + 1
  /\ IF degraded_clean' >= DegradedWindow
       THEN Goto(w, "clear_degraded") /\ Aim(w, "RECOVERY")
       ELSE Goto(w, "idle") /\ UNCHANGED target
  /\ UNCHANGED <<mode, clean_cycles, latency, metrics, entries, load>>

\* Faulty variant of AddClean: only the exact count leaves RECOVERY (beyond
\* it, one value stands for all).
Faulty_ExactCount(w) ==
  /\ pc[w] = "add_clean"
  /\ clean_cycles' = clean_cycles + (IF clean_cycles <= RecoveryWindow THEN 1 ELSE 0)
  /\ IF clean_cycles' = RecoveryWindow
       THEN Goto(w, "swap") /\ Aim(w, "NORMAL")
       ELSE Goto(w, "idle") /\ UNCHANGED target
  /\ UNCHANGED <<mode, degraded_clean, latency, metrics, entries, load>>

AddClean(w) ==
  /\ pc[w] = "add_clean"
  /\ clean_cycles' = clean_cycles + 1
  /\ IF clean_cycles' >= RecoveryWindow
       THEN Goto(w, "swap") /\ Aim(w, "NORMAL")
       ELSE Goto(w, "idle") /\ UNCHANGED target
  /\ UNCHANGED <<mode, degraded_clean, latency, metrics, entries, load>>

\* Faulty variants of ClearDegraded: cleared at a mode change only; never.
Faulty_KeepStreak(w) ==
  /\ pc[w] = "clear_degraded"
  /\ degraded_clean' = IF target[w] = "NONE" THEN degraded_clean ELSE 0
  /\ Goto(w, IF target[w] = "NONE" THEN "idle" ELSE "clear_clean")
  /\ UNCHANGED <<mode, clean_cycles, latency, target, metrics, entries, load>>
Faulty_KeepDegraded(w) ==
  /\ pc[w] = "clear_degraded"
  /\ Goto(w, IF target[w] = "NONE" THEN "idle" ELSE "clear_clean")
  /\ UNCHANGED <<mode, counters, latency, target, metrics, entries, load>>

\* degraded_clean.store(0): at a mode change, or at a packet that is not clean.
ClearDegraded(w) ==
  /\ pc[w] = "clear_degraded"
  /\ degraded_clean' = 0
  /\ Goto(w, IF target[w] = "NONE" THEN "idle" ELSE "clear_clean")
  /\ UNCHANGED <<mode, clean_cycles, latency, target, metrics, entries, load>>

\* Faulty variant of ClearClean: a transition follows in any case.
Faulty_AlwaysTransition(w) ==
  /\ pc[w] = "clear_clean"
  /\ clean_cycles' = 0
  /\ Goto(w, "swap")
  /\ UNCHANGED <<mode, degraded_clean, latency, target, metrics, entries, load>>

\* clean_cycles.store(0), likewise.
ClearClean(w) ==
  /\ pc[w] = "clear_clean"
  /\ clean_cycles' = 0
  /\ Goto(w, IF target[w] = "NONE" THEN "idle" ELSE "swap")
  /\ UNCHANGED <<mode, degraded_clean, latency, target, metrics, entries, load>>

---------------------------------------------------------------------------
(* transition_to.                                                          *)

\* Only the thread that changed the mode reports it.
Swap(w) ==
  /\ pc[w] = "swap"
  /\ mode' = target[w]
  /\ IF mode # target[w]
       THEN /\ Goto(w, "publish") /\ UNCHANGED target
            /\ entries' = entries + (IF target[w] = "DEGRADED" THEN 1 ELSE 0)
       ELSE Goto(w, "idle") /\ Aim(w, "NONE") /\ UNCHANGED entries
  /\ UNCHANGED <<counters, latency, metrics, load>>

\* Faulty variant of Publish: the activation is counted whatever the mode.
Faulty_CountEveryMode(w) ==
  /\ pc[w] = "publish"
  /\ current_mode' = target[w]
  /\ activations' = activations + 1
  /\ Goto(w, "idle") /\ Aim(w, "NONE")
  /\ UNCHANGED <<mode, counters, latency, entries, load>>

\* Another one: when the metrics are locked, transition_to starts over.
Faulty_RetrySwap(w) ==
  /\ pc[w] = "publish"
  /\ \/ /\ current_mode' = target[w]
        /\ activations' = activations + (IF target[w] = "DEGRADED" THEN 1 ELSE 0)
        /\ Goto(w, "idle") /\ Aim(w, "NONE")
     \/ Goto(w, "swap") /\ UNCHANGED <<metrics, target>>
  /\ UNCHANGED <<mode, counters, latency, entries, load>>

Publish(w) ==
  /\ pc[w] = "publish"
  /\ \/ /\ current_mode' = target[w]
        /\ activations' = activations + (IF target[w] = "DEGRADED" THEN 1 ELSE 0)
     \/ UNCHANGED metrics
  /\ Goto(w, "idle") /\ Aim(w, "NONE")
  /\ UNCHANGED <<mode, counters, latency, entries, load>>

Worker(w) ==
  \/ Call(w) \/ LoadMode(w) \/ AddDegraded(w) \/ AddClean(w)
  \/ ClearDegraded(w) \/ ClearClean(w) \/ Swap(w) \/ Publish(w)

CalmDown ==
  /\ ~calm /\ calm' = TRUE
  /\ UNCHANGED <<mode, counters, pc, latency, target, metrics, entries, spikes>>

Next == CalmDown \/ \E w \in Workers : Worker(w)

Spec == Init /\ [][Next]_vars

\* Each hot-path thread runs, and keeps getting packets it does not skip.
FairSpec == Spec /\ \A w \in Workers : WF_vars(Worker(w))

---------------------------------------------------------------------------
(* Properties.                                                             *)

Clearing == {w \in Workers : pc[w] = "clear_degraded"}

\* Workers may count past the end of DEGRADED together, but each one that
\* reaches the window is about to clear the counter: however they interleave,
\* no full count is left behind for the next DEGRADED episode, which the
\* NORMAL arm of record_latency starts without a reset.
FullCountIsCleared ==
  degraded_clean < DegradedWindow + Cardinality(Clearing)

\* fail_safe_activations never counts an entry into DEGRADED that did not
\* happen, whichever publications are lost or late.
Publishing(m) == {w \in Workers : pc[w] = "publish" /\ target[w] = m}
ActivationsHappened ==
  activations + Cardinality(Publishing("DEGRADED")) <= entries

\* The controller does not degrade without cause: each entry into DEGRADED
\* has a spike, a missed deadline, of its own, although several threads may act
\* on the same old mode.
Degrading == {w \in Workers :
                \/ pc[w] = "load" /\ Spike(latency[w])
                \/ pc[w] # "publish" /\ target[w] = "DEGRADED"}
EntriesAreSpikes == entries + Cardinality(Degrading) <= spikes

\* Once the load is calm the system ends up in NORMAL for good, although
\* stale swaps may re-enter RECOVERY with a count that is already full.
Recovers == <>[]calm => <>[](mode = "NORMAL")

\* "Normal -> Degraded ..., Degraded -> Recovery ..., Recovery -> Normal"
\* (types.rs:175-178), and "jitter spiked again - fall back to Degraded"
\* (fail_safe.rs:106): no other change of mode.
LegalChange == { <<"NORMAL", "DEGRADED">>, <<"DEGRADED", "RECOVERY">>,
                 <<"RECOVERY", "NORMAL">>, <<"RECOVERY", "DEGRADED">> }
LegalTransitions == [][(<<mode, mode'>> \in LegalChange)]_mode
=============================================================================
