------------------------------ MODULE HotPath ------------------------------
(***************************************************************************)
(* Component B, the hot path, with the fail-safe controller it feeds: the  *)
(* loop of run_async / spawn_threaded and HotPathProcessor::process, for   *)
(* every thread that shares the controller.                                *)
(*                                                                         *)
(* process looks at the mode once, before it works on a packet; the mode   *)
(* may be another one when the work is done.  During the stress window of  *)
(* the demo (15 s to 25 s) each processor spins on every InjectEvery-th    *)
(* packet, counting its own packets.                                       *)
(*                                                                         *)
(* Left out: the drift and latency samples and the contents of the         *)
(* deadline-miss log (no decision depends on them), and the map that       *)
(* leaderboard.increment updates.                                          *)
(***************************************************************************)
EXTENDS FailSafe

CONSTANTS
  InjectEvery,       \* inject_latency_every_nth, 0 for none
  NaturalLatencies,  \* latencies of packets without an injected spin
  InjectedLatency    \* latency of one with it: about 3 ms

ASSUME HotPathAssumption ==
  /\ InjectEvery \in Nat
  /\ NaturalLatencies \subseteq Latencies
  /\ InjectedLatency \in Latencies /\ Spike(InjectedLatency)

VARIABLES
  hp,               \* per worker: next step of process, or "recv"
  priority,         \* per worker: class of its packet ("High" without one)
  stress_counter,   \* per worker: packets counted in the window, mod InjectEvery
  spin,             \* per worker: the latency of its packet is injected
  phase,            \* of the run: "before", "stress", "after", "stopped"
  deadline_misses,  \* SharedMetrics.deadline_misses
  late              \* history, per worker: bots it has worked on since the
                    \* mode last became DEGRADED; 2 stands for two or more

packet_vars == <<hp, priority, stress_counter, spin>>
hvars == <<vars, packet_vars, phase, deadline_misses, late>>

HTypeOK ==
  /\ TypeOK
  /\ hp \in [Workers -> {"recv", "check", "stress", "measure", "done"}]
  /\ \A w \in Workers : pc[w] # "idle" => hp[w] = "recv"
  /\ priority \in [Workers -> {"High", "Low"}]
  /\ stress_counter \in [Workers -> Nat]
  /\ \A w \in Workers : stress_counter[w] <= InjectEvery
  /\ spin \in [Workers -> BOOLEAN]
  /\ \A w \in Workers : spin[w] => hp[w] = "measure"
  /\ phase \in {"before", "stress", "after", "stopped"}
  /\ deadline_misses \in 0..spikes
  /\ late \in [Workers -> 0..2]

HInit ==
  /\ Init
  /\ hp = [w \in Workers |-> "recv"]
  /\ priority = [w \in Workers |-> "High"]
  /\ stress_counter = [w \in Workers |-> 0]
  /\ spin = [w \in Workers |-> FALSE]
  /\ phase = "before"
  /\ deadline_misses = 0
  /\ late = [w \in Workers |-> 0]

---------------------------------------------------------------------------
(* The loop and HotPathProcessor::process.                                 *)

HGoto(w, next) == hp' = [hp EXCEPT ![w] = next]

\* rx.recv: a packet from the dispatcher.
Take(w, class) ==
  /\ hp[w] = "recv" /\ pc[w] = "idle" /\ phase # "stopped"
  /\ priority' = [priority EXCEPT ![w] = class]
  /\ HGoto(w, "check")
  /\ UNCHANGED <<vars, stress_counter, spin, phase, deadline_misses, late>>

Exit(w) ==
  /\ hp[w] = "recv" /\ pc[w] = "idle" /\ phase = "stopped"
  /\ HGoto(w, "done")
  /\ UNCHANGED <<vars, priority, stress_counter, spin, phase, deadline_misses, late>>

\* Faulty variant of CheckMode: the label in the metrics is looked at.
Faulty_CheckLabel(w) ==
  /\ hp[w] = "check"
  /\ HGoto(w, IF current_mode = "DEGRADED" /\ priority[w] = "Low" THEN "recv" ELSE "stress")
  /\ UNCHANGED <<vars, priority, stress_counter, spin, phase, deadline_misses, late>>

\* Another one: every packet is skipped.
Faulty_SkipAll(w) ==
  /\ hp[w] = "check"
  /\ IF mode = "DEGRADED"
       THEN HGoto(w, "recv") /\ priority' = [priority EXCEPT ![w] = "High"]
       ELSE HGoto(w, "stress") /\ UNCHANGED priority
  /\ UNCHANGED <<vars, stress_counter, spin, phase, deadline_misses, late>>

\* is_degraded: a bot is skipped, and nothing is recorded for it.
CheckMode(w) ==
  /\ hp[w] = "check"
  /\ IF mode = "DEGRADED" /\ priority[w] = "Low"
       THEN HGoto(w, "recv") /\ priority' = [priority EXCEPT ![w] = "High"]
       ELSE HGoto(w, "stress") /\ UNCHANGED priority
  /\ UNCHANGED <<vars, stress_counter, spin, phase, deadline_misses, late>>

Injecting == InjectEvery > 0 /\ phase = "stress"
Spinning  == {w \in Workers : spin[w]}

\* In the window the packet is counted, and the first of every InjectEvery
\* is slow.  The window cannot outlast the spikes the model has to give.
Stress(w) ==
  /\ hp[w] = "stress"
  /\ IF Injecting
       THEN /\ spin' = [spin EXCEPT ![w] = stress_counter[w] = 0]
            /\ stress_counter' = [stress_counter EXCEPT ![w] = (@ + 1) % InjectEvery]
            /\ spin'[w] => spikes + Cardinality(Spinning) < MaxSpikes
       ELSE /\ spin' = [spin EXCEPT ![w] = FALSE]
            /\ UNCHANGED stress_counter
  /\ HGoto(w, "measure")
  /\ UNCHANGED <<vars, priority, phase, deadline_misses, late>>

\* Faulty variant of Measure: the miss is counted again outside the lock.
Faulty_CountMissTwice(w) ==
  /\ hp[w] = "measure"
  /\ Call(w)
  /\ IF spin[w] THEN latency'[w] = InjectedLatency ELSE latency'[w] \in NaturalLatencies
  /\ deadline_misses' \in {deadline_misses + (spikes' - spikes),
                            deadline_misses + 2 * (spikes' - spikes)}
  /\ HGoto(w, "recv")
  /\ priority' = [priority EXCEPT ![w] = "High"] /\ spin' = [spin EXCEPT ![w] = FALSE]
  /\ UNCHANGED <<stress_counter, phase, late>>

\* The packet is done: a spike is a deadline miss (HOT_DEADLINE is the jitter
\* threshold), which is counted if the metrics are free; then record_latency.
Measure(w) ==
  /\ hp[w] = "measure"
  /\ Call(w)
  /\ IF spin[w] THEN latency'[w] = InjectedLatency
                ELSE /\ latency'[w] \in NaturalLatencies
                     /\ Spike(latency'[w]) => spikes + Cardinality(Spinning) < MaxSpikes
  /\ deadline_misses' \in {deadline_misses, deadline_misses + (spikes' - spikes)}
  /\ late' = IF mode = "DEGRADED" /\ priority[w] = "Low" /\ late[w] < 2
               THEN [late EXCEPT ![w] = @ + 1] ELSE late
  /\ HGoto(w, "recv")
  /\ priority' = [priority EXCEPT ![w] = "High"] /\ spin' = [spin EXCEPT ![w] = FALSE]
  /\ UNCHANGED <<stress_counter, phase>>

\* The steps of record_latency and transition_to.
Record(w) ==
  /\ \/ LoadMode(w) \/ AddDegraded(w) \/ AddClean(w)
     \/ ClearDegraded(w) \/ ClearClean(w) \/ Swap(w) \/ Publish(w)
  /\ late' = IF mode # "DEGRADED" /\ mode' = "DEGRADED"
               THEN [v \in Workers |-> 0] ELSE late
  /\ UNCHANGED <<packet_vars, phase, deadline_misses>>

HWorker(w) ==
  \/ \E class \in {"High", "Low"} : Take(w, class)
  \/ Exit(w) \/ CheckMode(w) \/ Stress(w) \/ Measure(w) \/ Record(w)

---------------------------------------------------------------------------

NextPhase ==
  /\ \/ phase = "before" /\ phase' = "stress"
     \/ phase = "stress" /\ phase' = "after"
     \/ phase # "stopped" /\ phase' = "stopped"
  /\ UNCHANGED <<vars, packet_vars, deadline_misses, late>>

\* From here on nothing is slow any more, the injected spins included.
HCalmDown ==
  /\ CalmDown
  /\ phase \in {"after", "stopped"} /\ Spinning = {}
  /\ UNCHANGED <<packet_vars, phase, deadline_misses, late>>

Ended ==
  /\ \A w \in Workers : hp[w] = "done"
  /\ UNCHANGED hvars

HNext == NextPhase \/ HCalmDown \/ Ended \/ \E w \in Workers : HWorker(w)

HSpec == HInit /\ [][HNext]_hvars

\* The threads run, and the dispatcher hands out human packets for ever.
HFairSpec ==
  /\ HSpec
  /\ \A w \in Workers : WF_hvars(HWorker(w)) /\ SF_hvars(Take(w, "High"))

---------------------------------------------------------------------------
(* Properties.                                                             *)

\* Load is shed at once: in an episode of DEGRADED each thread works on at
\* most one bot, the one whose mode it had checked before, however the swaps
\* of the threads interleave with their checks.
BotsAreShed == \A w \in Workers : late[w] <= 1

\* Once the load is calm the system returns to NORMAL for good, even with the
\* bots skipped in DEGRADED, if human packets keep coming.
HRecovers ==
  <>[](calm /\ phase # "stopped") => <>[](mode = "NORMAL")
=============================================================================
