--------------------------- MODULE HotPath_proofs ---------------------------
(***************************************************************************)
(* Proofs about HotPath.  Every step of the hot path is a step of the      *)
(* controller or none, so what FailSafe_proofs shows holds here too; on    *)
(* top of it, bots are shed at once.                                       *)
(***************************************************************************)
EXTENDS HotPath, FailSafe_proofs

LEMMA StepOfController == [HNext]_hvars => [Next]_vars
<1>. SUFFICES ASSUME [HNext]_hvars PROVE [Next]_vars
  OBVIOUS
<1>1. CASE NextPhase \/ HCalmDown \/ Ended \/ UNCHANGED hvars
  BY <1>1 DEF NextPhase, HCalmDown, Ended, hvars, Next
<1>2. ASSUME NEW w \in Workers, HWorker(w) PROVE [Next]_vars
  <2>1. CASE Measure(w)
    BY <2>1 DEF Measure, Next, Worker
  <2>2. CASE Record(w)
    BY <2>2 DEF Record, Next, Worker
  <2>3. CASE (\E class \in {"High", "Low"} : Take(w, class))
               \/ Exit(w) \/ CheckMode(w) \/ Stress(w)
    BY <2>3 DEF Take, Exit, CheckMode, Stress
  <2>. QED  BY <1>2, <2>1, <2>2, <2>3 DEF HWorker
<1>. QED  BY <1>1, <1>2 DEF HNext

\* The hot path drives the controller as FailSafe says it is driven.
THEOREM DrivesController == HSpec => Spec
<1>1. HInit => Init  BY DEF HInit
<1>. QED  BY <1>1, StepOfController, PTL DEF HSpec, Spec

---------------------------------------------------------------------------
(* Types.                                                                  *)

LEMMA HInitType == HInit => HTypeOK
<1>. SUFFICES ASSUME HInit PROVE HTypeOK
  OBVIOUS
<1>1. TypeOK /\ spikes = 0  BY InitType DEF HInit, Init
<1>2. /\ \A w \in Workers : pc[w] = "idle" /\ hp[w] = "recv"
      /\ \A w \in Workers : stress_counter[w] = 0 /\ spin[w] = FALSE
  BY DEF HInit, Init
<1>3. 0 <= InjectEvery
  BY HotPathAssumption
<1>4. /\ hp \in [Workers -> {"recv", "check", "stress", "measure", "done"}]
      /\ priority \in [Workers -> {"High", "Low"}]
  BY DEF HInit
<1>5. /\ stress_counter \in [Workers -> Nat]
      /\ \A w \in Workers : stress_counter[w] <= InjectEvery
  BY <1>2, <1>3 DEF HInit
<1>6. spin \in [Workers -> BOOLEAN] /\ \A w \in Workers : spin[w] => hp[w] = "measure"
  BY <1>2 DEF HInit
<1>7. late \in [Workers -> 0..2]
  BY DEF HInit
<1>8. deadline_misses \in 0..spikes /\ phase = "before"
  BY <1>1 DEF HInit
<1>. QED  BY <1>1, <1>2, <1>4, <1>5, <1>6, <1>7, <1>8 DEF HTypeOK

LEMMA HWorkerType ==
  ASSUME HTypeOK, NEW w \in Workers, HWorker(w), TypeOK'
  PROVE  HTypeOK'
<1>. USE DEF HGoto, packet_vars
<1>0. InjectEvery \in Nat /\ spikes \in Nat
  BY HotPathAssumption, FailSafeAssumption DEF HTypeOK, TypeOK
<1>1. CASE \E class \in {"High", "Low"} : Take(w, class)
  BY <1>1 DEF HTypeOK, Take, vars, load
<1>2. CASE Exit(w)
  BY <1>2 DEF HTypeOK, Exit, vars, load
<1>3. CASE CheckMode(w)
  BY <1>3 DEF HTypeOK, CheckMode, vars, load
<1>4. CASE Stress(w)
  <2>1. /\ UNCHANGED <<pc, spikes, priority, phase, deadline_misses, late>>
        /\ hp' = [hp EXCEPT ![w] = "measure"]
        /\ \E b \in BOOLEAN : spin' = [spin EXCEPT ![w] = b]
        /\ hp[w] = "stress"
    BY <1>4 DEF Stress, vars, load
  <2>2. /\ stress_counter' \in [Workers -> Nat]
        /\ \A v \in Workers : stress_counter'[v] <= InjectEvery
    <3>1. CASE Injecting
      <4>1. stress_counter' = [stress_counter EXCEPT ![w] = (@ + 1) % InjectEvery]
        BY <1>4, <3>1 DEF Stress
      <4>2. (stress_counter[w] + 1) % InjectEvery \in 0..InjectEvery
        BY <1>0, <3>1 DEF Injecting, HTypeOK
      <4>. QED  BY <1>0, <4>1, <4>2 DEF HTypeOK
    <3>2. CASE ~Injecting
      BY <1>4, <3>2 DEF Stress, HTypeOK
    <3>. QED  BY <3>1, <3>2
  <2>. QED  BY <2>1, <2>2 DEF HTypeOK
<1>5. CASE Measure(w)
  <2>1. spikes' \in {spikes, spikes + 1} /\ pc' = [pc EXCEPT ![w] = "load"]
    BY <1>5 DEF Measure, Call, Goto
  <2>2. deadline_misses' \in 0..spikes'
    BY <1>0, <1>5, <2>1 DEF Measure, HTypeOK
  <2>3. late' \in [Workers -> 0..2]
    BY <1>5 DEF Measure, HTypeOK
  <2>. QED  BY <1>5, <2>1, <2>2, <2>3 DEF Measure, HTypeOK
<1>6. CASE Record(w)
  <2>1. /\ spikes' = spikes /\ pc[w] # "idle"
        /\ \A v \in Workers \ {w} : pc'[v] = pc[v]
    BY <1>6 DEF Record, LoadMode, AddDegraded, AddClean, ClearDegraded, ClearClean,
                Swap, Publish, Goto, load, HTypeOK, TypeOK
  <2>2. late' \in [Workers -> 0..2]
    BY <1>6 DEF Record, HTypeOK
  <2>. QED  BY <1>6, <2>1, <2>2 DEF Record, HTypeOK
<1>. QED  BY <1>1, <1>2, <1>3, <1>4, <1>5, <1>6 DEF HWorker

LEMMA HTypeStep == HTypeOK /\ [HNext]_hvars => HTypeOK'
<1>. SUFFICES ASSUME HTypeOK, [HNext]_hvars PROVE HTypeOK'
  OBVIOUS
<1>1. TypeOK'  BY StepOfController, TypeStep DEF HTypeOK
<1>2. CASE NextPhase \/ Ended \/ UNCHANGED hvars
  BY <1>1, <1>2 DEF NextPhase, Ended, hvars, vars, load, packet_vars, HTypeOK
<1>3. CASE HCalmDown
  BY <1>1, <1>3 DEF HCalmDown, CalmDown, packet_vars, HTypeOK
<1>. QED  BY <1>1, <1>2, <1>3, HWorkerType DEF HNext

\* Types, for any threads; deadline_misses never exceeds the misses, and a
\* thread is in record_latency only between two packets' steps of process.
THEOREM HTypeCorrect == HSpec => []HTypeOK
  BY HInitType, HTypeStep, PTL DEF HSpec

---------------------------------------------------------------------------
(* Shedding.                                                               *)

\* A thread that is working on a bot in DEGRADED has not finished one in this
\* episode yet: it had checked the mode before.
FirstBot ==
  \A w \in Workers :
    hp[w] \in {"stress", "measure"} /\ priority[w] = "Low" /\ mode = "DEGRADED"
      => late[w] = 0

ShedInv == HTypeOK /\ FirstBot /\ BotsAreShed

LEMMA WorkerSheds ==
  ASSUME ShedInv, NEW w \in Workers, HWorker(w)
  PROVE  FirstBot' /\ BotsAreShed'
<1>. USE DEF ShedInv, HTypeOK, HGoto, packet_vars
<1>1. CASE \E class \in {"High", "Low"} : Take(w, class)
  BY <1>1 DEF Take, vars, FirstBot, BotsAreShed
<1>2. CASE Exit(w)
  BY <1>2 DEF Exit, vars, FirstBot, BotsAreShed
<1>3. CASE CheckMode(w)
  BY <1>3 DEF CheckMode, vars, FirstBot, BotsAreShed
<1>4. CASE Stress(w)
  BY <1>4 DEF Stress, vars, FirstBot, BotsAreShed
<1>5. CASE Measure(w)
  <2>1. hp[w] = "measure" /\ mode' = mode /\ hp' = [hp EXCEPT ![w] = "recv"]
        /\ \A v \in Workers \ {w} : priority'[v] = priority[v] /\ late'[v] = late[v]
    BY <1>5 DEF Measure, Call
  <2>2. late'[w] <= 1
    BY <1>5, <2>1 DEF Measure, FirstBot, BotsAreShed
  <2>. QED  BY <2>1, <2>2 DEF FirstBot, BotsAreShed
<1>6. CASE Record(w)
  BY <1>6 DEF Record, FirstBot, BotsAreShed
<1>. QED  BY <1>1, <1>2, <1>3, <1>4, <1>5, <1>6 DEF HWorker

\* No thread works on more than one bot in an episode of DEGRADED, however
\* many threads there are.
THEOREM BotsShed == HSpec => []BotsAreShed
<1>1. HInit => ShedInv
  BY HInitType DEF HInit, ShedInv, FirstBot, BotsAreShed
<1>2. ShedInv /\ [HNext]_hvars => ShedInv'
  <2>. SUFFICES ASSUME ShedInv, [HNext]_hvars PROVE ShedInv'
    OBVIOUS
  <2>1. HTypeOK'  BY HTypeStep DEF ShedInv
  <2>2. CASE NextPhase \/ HCalmDown \/ Ended \/ UNCHANGED hvars
    <3>1. UNCHANGED <<mode, hp, priority, late>>
      BY <2>2 DEF NextPhase, HCalmDown, CalmDown, Ended, hvars, vars, packet_vars
    <3>. QED  BY <2>1, <3>1 DEF ShedInv, FirstBot, BotsAreShed
  <2>. QED  BY <2>1, <2>2, WorkerSheds DEF HNext, ShedInv
<1>3. ShedInv => BotsAreShed  BY DEF ShedInv
<1>. QED  BY <1>1, <1>2, <1>3, PTL DEF HSpec
=============================================================================
