--------------------------- MODULE FailSafe_proofs ---------------------------
(***************************************************************************)
(* Proofs about FailSafe, for any finite set of hot-path threads, any      *)
(* windows and thresholds.  TypeOK is inductive; FullCountIsCleared,       *)
(* ActivationsHappened and EntriesAreSpikes are inductive given TypeOK:    *)
(* each relates a shared counter to the number of threads that stand at    *)
(* certain steps.                                                          *)
(***************************************************************************)
EXTENDS FailSafeCalls, FiniteSetTheorems, TLAPS

\* Clearing and Publishing(m) are finite, like the set of workers.
LEMMA FiniteCounts ==
  \A T \in SUBSET Workers : IsFiniteSet(T) /\ Cardinality(T) \in Nat
  BY WorkersAssumption, FS_Subset, FS_CardinalityType

LEMMA InitType == Init => TypeOK
<1>. SUFFICES ASSUME Init PROVE TypeOK
  OBVIOUS
<1>. USE DEF Init
<1>1. latency \in [Workers -> Latencies \cup {NoLatency}]
  OBVIOUS
<1>2. \A w \in Workers : pc[w] = "idle" /\ target[w] = "NONE"
  OBVIOUS
<1>3. /\ pc \in [Workers -> {"idle", "load", "add_degraded", "add_clean",
                            "clear_degraded", "clear_clean", "swap", "publish"}]
      /\ target \in [Workers -> Mode \cup {"NONE"}]
  OBVIOUS
<1>4. spikes \in 0..MaxSpikes  BY FailSafeAssumption
<1>. QED  BY <1>1, <1>2, <1>3, <1>4 DEF TypeOK, Mode

LEMMA WorkerType ==
  ASSUME TypeOK, NEW w \in Workers, Worker(w)
  PROVE  TypeOK'
<1>. USE DEF Mode, Goto, Aim, counters, metrics, load
<1>1. CASE Call(w)
  BY <1>1, FailSafeAssumption DEF TypeOK, Call, NoLatency
<1>2. CASE LoadMode(w)
  BY <1>2 DEF TypeOK, LoadMode
<1>3. CASE AddDegraded(w)
  BY <1>3 DEF TypeOK, AddDegraded
<1>4. CASE AddClean(w)
  BY <1>4 DEF TypeOK, AddClean
<1>5. CASE ClearDegraded(w)
  BY <1>5 DEF TypeOK, ClearDegraded
<1>6. CASE ClearClean(w)
  BY <1>6 DEF TypeOK, ClearClean
<1>7. CASE Swap(w)
  BY <1>7 DEF TypeOK, Swap
<1>8. CASE Publish(w)
  BY <1>8 DEF TypeOK, Publish
<1>. QED
  BY <1>1, <1>2, <1>3, <1>4, <1>5, <1>6, <1>7, <1>8 DEF Worker

LEMMA TypeStep == TypeOK /\ [Next]_vars => TypeOK'
<1>. SUFFICES ASSUME TypeOK, [Next]_vars PROVE TypeOK'
  OBVIOUS
<1>1. CASE CalmDown
  BY <1>1 DEF CalmDown, TypeOK, counters, metrics, load
<1>2. CASE UNCHANGED vars
  BY <1>2 DEF vars, TypeOK, counters, metrics, load
<1>. QED  BY <1>1, <1>2, WorkerType DEF Next

\* Every variable has its type; a thread about to swap or to report a mode
\* knows which, and one that starts over has forgotten it.
THEOREM TypeCorrect == Spec => []TypeOK
  BY InitType, TypeStep, PTL DEF Spec

---------------------------------------------------------------------------
(* The counter of DEGRADED.                                                *)

CountInv == TypeOK /\ FullCountIsCleared

\* A step that keeps the counter and sends nobody away keeps the bound.
LEMMA CountKept ==
  ASSUME CountInv, degraded_clean' = degraded_clean, Clearing \subseteq Clearing'
  PROVE  FullCountIsCleared'
<1>1. Clearing' \in SUBSET Workers  BY DEF Clearing
<1>2. Cardinality(Clearing) <= Cardinality(Clearing')
  BY <1>1, FiniteCounts, FS_Subset
<1>3. Cardinality(Clearing) \in Nat /\ Cardinality(Clearing') \in Nat
  BY <1>1, FiniteCounts DEF Clearing
<1>. QED
  BY <1>2, <1>3, FailSafeAssumption DEF CountInv, TypeOK, FullCountIsCleared

LEMMA WorkerCount ==
  ASSUME CountInv, NEW w \in Workers, Worker(w)
  PROVE  FullCountIsCleared'
<1>. TypeOK /\ FullCountIsCleared  BY DEF CountInv
<1>0. /\ Clearing \in SUBSET Workers /\ Clearing' \in SUBSET Workers
      /\ Cardinality(Clearing) \in Nat /\ Cardinality(Clearing') \in Nat
      /\ IsFiniteSet(Clearing)
  <2>1. Clearing \in SUBSET Workers /\ Clearing' \in SUBSET Workers  BY DEF Clearing
  <2>. QED  BY <2>1, FiniteCounts
<1>. USE DEF Goto, counters
<1>1. CASE Call(w) \/ LoadMode(w) \/ AddClean(w) \/ ClearClean(w)
             \/ Swap(w) \/ Publish(w)
  <2>1. degraded_clean' = degraded_clean
    BY <1>1 DEF Call, LoadMode, AddClean, ClearClean, Swap, Publish
  <2>2. pc[w] # "clear_degraded" /\ \A v \in Workers \ {w} : pc'[v] = pc[v]
    BY <1>1 DEF Call, LoadMode, AddClean, ClearClean, Swap, Publish, TypeOK
  <2>3. Clearing \subseteq Clearing'  BY <2>2 DEF Clearing
  <2>. QED  BY <2>1, <2>3, CountKept
<1>2. CASE AddDegraded(w)
  <2>1. degraded_clean' = degraded_clean + 1 /\ w \notin Clearing
    BY <1>2 DEF AddDegraded, Clearing
  <2>2. CASE degraded_clean' >= DegradedWindow
    <3>1. Clearing' = Clearing \cup {w}
      BY <1>2, <2>2 DEF AddDegraded, Clearing, TypeOK
    <3>2. Cardinality(Clearing') = Cardinality(Clearing) + 1
      BY <1>0, <2>1, <3>1, FS_AddElement
    <3>. QED
      BY <1>0, <2>1, <3>2, FailSafeAssumption DEF FullCountIsCleared, TypeOK
  <2>3. CASE ~(degraded_clean' >= DegradedWindow)
    BY <1>0, <2>1, <2>3, FailSafeAssumption DEF FullCountIsCleared, TypeOK
  <2>. QED  BY <2>2, <2>3
<1>3. CASE ClearDegraded(w)
  <2>1. degraded_clean' = 0  BY <1>3 DEF ClearDegraded
  <2>. QED  BY <1>0, <2>1, FailSafeAssumption DEF FullCountIsCleared
<1>. QED  BY <1>1, <1>2, <1>3 DEF Worker

LEMMA CountStep ==
  ASSUME CountInv, [Next]_vars
  PROVE  CountInv'
<1>1. TypeOK'  BY TypeStep DEF CountInv
<1>2. CASE CalmDown \/ UNCHANGED vars
  <2>1. UNCHANGED <<degraded_clean, pc>>
    BY <1>2 DEF CalmDown, vars, counters
  <2>2. Clearing' = Clearing  BY <2>1 DEF Clearing
  <2>. QED  BY <1>1, <2>1, <2>2, CountKept DEF CountInv
<1>. QED  BY <1>1, <1>2, WorkerCount DEF Next, CountInv

\* Every worker that counts past the window is one that will clear the counter.
THEOREM CountIsCleared == Spec => []FullCountIsCleared
<1>1. Init => CountInv
  <2>1. Init => FullCountIsCleared
    <3>. SUFFICES ASSUME Init PROVE FullCountIsCleared
      OBVIOUS
    <3>1. Cardinality(Clearing) \in Nat  BY FiniteCounts DEF Clearing
    <3>. QED  BY <3>1, FailSafeAssumption DEF Init, FullCountIsCleared
  <2>. QED  BY <2>1, InitType DEF CountInv
<1>2. CountInv /\ [Next]_vars => CountInv'  BY CountStep
<1>3. CountInv => FullCountIsCleared  BY DEF CountInv
<1>. QED  BY <1>1, <1>2, <1>3, PTL DEF Spec

---------------------------------------------------------------------------
(* The activation metric.                                                  *)

ActInv == TypeOK /\ ActivationsHappened

LEMMA WorkerActivations ==
  ASSUME ActInv, NEW w \in Workers, Worker(w)
  PROVE  ActivationsHappened'
<1>. DEFINE P == Publishing("DEGRADED")
<1>. TypeOK /\ ActivationsHappened  BY DEF ActInv
<1>0. /\ P \in SUBSET Workers /\ P' \in SUBSET Workers
      /\ Cardinality(P) \in Nat /\ Cardinality(P') \in Nat /\ IsFiniteSet(P)
  <2>1. P \in SUBSET Workers /\ P' \in SUBSET Workers  BY DEF Publishing
  <2>. QED  BY <2>1, FiniteCounts
<1>. USE DEF Goto, Aim, metrics
<1>1. CASE Call(w) \/ LoadMode(w) \/ AddDegraded(w) \/ AddClean(w)
             \/ ClearDegraded(w) \/ ClearClean(w)
  <2>1. UNCHANGED <<activations, entries>>
    BY <1>1 DEF Call, LoadMode, AddDegraded, AddClean, ClearDegraded, ClearClean
  <2>2. /\ pc[w] # "publish" /\ pc'[w] # "publish"
        /\ \A v \in Workers \ {w} : pc'[v] = pc[v] /\ target'[v] = target[v]
    BY <1>1
       DEF Call, LoadMode, AddDegraded, AddClean, ClearDegraded, ClearClean, TypeOK
  <2>3. P' = P  BY <2>2 DEF Publishing
  <2>. QED  BY <2>1, <2>3 DEF ActivationsHappened
<1>2. CASE Swap(w)
  <2>1. w \notin P /\ activations' = activations
    BY <1>2 DEF Swap, Publishing
  <2>2. CASE mode # target[w] /\ target[w] = "DEGRADED"
    <3>1. P' = P \cup {w} /\ entries' = entries + 1
      BY <1>2, <2>2 DEF Swap, Publishing, TypeOK
    <3>2. Cardinality(P') = Cardinality(P) + 1
      BY <1>0, <2>1, <3>1, FS_AddElement
    <3>. QED  BY <1>0, <2>1, <3>1, <3>2 DEF ActivationsHappened, TypeOK
  <2>3. CASE ~(mode # target[w] /\ target[w] = "DEGRADED")
    <3>1. P' = P /\ entries' = entries
      BY <1>2, <2>3 DEF Swap, Publishing, TypeOK
    <3>. QED  BY <2>1, <3>1 DEF ActivationsHappened
  <2>. QED  BY <2>2, <2>3
<1>3. CASE Publish(w)
  <2>1. P' = P \ {w} /\ entries' = entries
    BY <1>3 DEF Publish, Publishing, TypeOK
  <2>2. Cardinality(P') = IF w \in P THEN Cardinality(P) - 1 ELSE Cardinality(P)
    BY <1>0, <2>1, FS_RemoveElement
  <2>3. w \in P <=> target[w] = "DEGRADED"  BY <1>3 DEF Publish, Publishing
  <2>4. activations' = activations
          \/ activations' = activations + (IF target[w] = "DEGRADED" THEN 1 ELSE 0)
    BY <1>3 DEF Publish
  <2>. QED  BY <1>0, <2>1, <2>2, <2>3, <2>4 DEF ActivationsHappened, TypeOK
<1>. QED  BY <1>1, <1>2, <1>3 DEF Worker

\* fail_safe_activations is at most the number of entries into DEGRADED, minus
\* those still to be reported.
THEOREM ActivationsAreReal == Spec => []ActivationsHappened
<1>1. Init => ActInv
  <2>1. Init => ActivationsHappened
    <3>. SUFFICES ASSUME Init PROVE ActivationsHappened
      OBVIOUS
    <3>1. Publishing("DEGRADED") = {}  BY DEF Init, Publishing
    <3>. QED  BY <3>1, FS_EmptySet DEF Init, ActivationsHappened
  <2>. QED  BY <2>1, InitType DEF ActInv
<1>2. ActInv /\ [Next]_vars => ActInv'
  <2>. SUFFICES ASSUME ActInv, [Next]_vars PROVE ActInv'
    OBVIOUS
  <2>1. TypeOK'  BY TypeStep DEF ActInv
  <2>2. CASE CalmDown \/ UNCHANGED vars
    <3>1. UNCHANGED <<activations, entries, pc, target>>
      BY <2>2 DEF CalmDown, vars, metrics
    <3>2. Publishing("DEGRADED")' = Publishing("DEGRADED")  BY <3>1 DEF Publishing
    <3>. QED  BY <2>1, <3>1, <3>2 DEF ActInv, ActivationsHappened
  <2>. QED  BY <2>1, <2>2, WorkerActivations DEF Next, ActInv
<1>3. ActInv => ActivationsHappened  BY DEF ActInv
<1>. QED  BY <1>1, <1>2, <1>3, PTL DEF Spec

---------------------------------------------------------------------------
(* Every entry into DEGRADED has its spike.                                *)

SpikeInv == TypeOK /\ EntriesAreSpikes

LEMMA WorkerSpikes ==
  ASSUME SpikeInv, NEW w \in Workers, Worker(w)
  PROVE  EntriesAreSpikes'
<1>. DEFINE D == Degrading
<1>. TypeOK /\ EntriesAreSpikes  BY DEF SpikeInv
<1>0. /\ D \in SUBSET Workers /\ D' \in SUBSET Workers
      /\ Cardinality(D) \in Nat /\ Cardinality(D') \in Nat /\ IsFiniteSet(D)
      /\ entries \in Nat /\ spikes \in Nat
  <2>1. D \in SUBSET Workers /\ D' \in SUBSET Workers  BY DEF Degrading
  <2>2. entries \in Nat /\ spikes \in Nat  BY FailSafeAssumption DEF TypeOK
  <2>. QED  BY <2>1, <2>2, FiniteCounts
<1>. USE DEF Goto, Aim
<1>1. CASE Call(w)
  <2>1. /\ entries' = entries /\ target' = target /\ pc[w] = "idle" /\ target[w] = "NONE"
        /\ pc' = [pc EXCEPT ![w] = "load"]
        /\ \A v \in Workers \ {w} : pc'[v] = pc[v] /\ latency'[v] = latency[v]
        /\ spikes' = IF Spike(latency'[w]) THEN spikes + 1 ELSE spikes
    BY <1>1 DEF Call, TypeOK
  <2>2. w \notin D  BY <2>1 DEF Degrading
  <2>3. CASE Spike(latency'[w])
    <3>1. D' = D \cup {w}  BY <2>1, <2>3 DEF Degrading, Spike, TypeOK
    <3>2. Cardinality(D') = Cardinality(D) + 1  BY <1>0, <2>2, <3>1, FS_AddElement
    <3>. QED  BY <1>0, <2>1, <2>3, <3>2 DEF EntriesAreSpikes
  <2>4. CASE ~Spike(latency'[w])
    <3>1. D' = D  BY <2>1, <2>2, <2>4 DEF Degrading, Spike, TypeOK
    <3>. QED  BY <2>1, <2>4, <3>1 DEF EntriesAreSpikes
  <2>. QED  BY <2>3, <2>4
<1>2. CASE Swap(w) /\ mode # target[w] /\ target[w] = "DEGRADED"
  <2>1. D' = D \ {w} /\ entries' = entries + 1 /\ spikes' = spikes
    BY <1>2 DEF Swap, Degrading, Spike, TypeOK, load
  <2>2. w \in D  BY <1>2 DEF Swap, Degrading
  <2>3. Cardinality(D') = Cardinality(D) - 1  BY <1>0, <2>1, <2>2, FS_RemoveElement
  <2>. QED  BY <1>0, <2>1, <2>3 DEF EntriesAreSpikes
<1>3. CASE \/ LoadMode(w) \/ AddDegraded(w) \/ AddClean(w)
           \/ ClearDegraded(w) \/ ClearClean(w) \/ Publish(w)
           \/ Swap(w) /\ ~(mode # target[w] /\ target[w] = "DEGRADED")
  <2>1. UNCHANGED <<entries, spikes>>
    BY <1>0, <1>3 DEF LoadMode, AddDegraded, AddClean, ClearDegraded, ClearClean,
                      Publish, Swap, load
  <2>2. \A v \in Workers \ {w} :
          pc'[v] = pc[v] /\ target'[v] = target[v] /\ latency'[v] = latency[v]
    BY <1>3 DEF LoadMode, AddDegraded, AddClean, ClearDegraded, ClearClean, Publish,
                Swap, TypeOK
  <2>3. w \in D' => w \in D
    <3>1. CASE LoadMode(w)
      BY <3>1 DEF LoadMode, Degrading, TypeOK
    <3>2. CASE AddDegraded(w) \/ AddClean(w)
      BY <3>2 DEF AddDegraded, AddClean, Degrading, TypeOK
    <3>3. CASE ClearDegraded(w) \/ ClearClean(w)
      BY <3>3 DEF ClearDegraded, ClearClean, Degrading, TypeOK
    <3>4. CASE Publish(w)
      BY <3>4 DEF Publish, Degrading, TypeOK
    <3>5. CASE Swap(w) /\ ~(mode # target[w] /\ target[w] = "DEGRADED")
      BY <3>5 DEF Swap, Degrading, TypeOK
    <3>. QED  BY <1>3, <3>1, <3>2, <3>3, <3>4, <3>5
  <2>4. D' \subseteq D  BY <2>2, <2>3 DEF Degrading, Spike
  <2>5. Cardinality(D') <= Cardinality(D)  BY <1>0, <2>4, FS_Subset
  <2>. QED  BY <1>0, <2>1, <2>5 DEF EntriesAreSpikes
<1>. QED  BY <1>1, <1>2, <1>3 DEF Worker

\* Each entry into DEGRADED, done or under way, has a spike of its own.
THEOREM DegradesForACause == Spec => []EntriesAreSpikes
<1>1. Init => SpikeInv
  <2>1. Init => EntriesAreSpikes
    <3>. SUFFICES ASSUME Init PROVE EntriesAreSpikes
      OBVIOUS
    <3>1. Degrading = {}  BY DEF Init, Degrading
    <3>. QED  BY <3>1, FS_EmptySet DEF Init, EntriesAreSpikes
  <2>. QED  BY <2>1, InitType DEF SpikeInv
<1>2. SpikeInv /\ [Next]_vars => SpikeInv'
  <2>. SUFFICES ASSUME SpikeInv, [Next]_vars PROVE SpikeInv'
    OBVIOUS
  <2>1. TypeOK'  BY TypeStep DEF SpikeInv
  <2>2. CASE CalmDown \/ UNCHANGED vars
    <3>1. UNCHANGED <<spikes, entries, pc, target, latency>>
      BY <2>2 DEF CalmDown, vars, load
    <3>2. Degrading' = Degrading  BY <3>1 DEF Degrading, Spike
    <3>. QED  BY <2>1, <3>1, <3>2 DEF SpikeInv, EntriesAreSpikes
  <2>. QED  BY <2>1, <2>2, WorkerSpikes DEF Next, SpikeInv
<1>3. SpikeInv => EntriesAreSpikes  BY DEF SpikeInv
<1>. QED  BY <1>1, <1>2, <1>3, PTL DEF Spec

---------------------------------------------------------------------------
(* Calls that do not overlap: the three-state machine.                     *)

State == IF Aiming("DEGRADED") THEN "DEGRADED" ELSE mode
Streak == IF disturbed \/ Aiming("DEGRADED") \/ mode = "NORMAL" THEN 0
            ELSE IF mode = "DEGRADED"
              THEN IF Aiming("RECOVERY") THEN DegradedWindow - 1 ELSE degraded_clean
              ELSE IF Aiming("NORMAL") THEN clean_cycles - 1 ELSE clean_cycles
Pending == IF Judged THEN NoLatency ELSE packet

\* Where the only call w is, the mode is still the one it loaded.
StillThere(w) ==
  /\ pc[w] = "add_degraded" => mode = "DEGRADED"
  /\ pc[w] = "add_clean" => mode = "RECOVERY"
  /\ pc[w] = "clear_degraded" /\ target[w] = "NONE" => mode = "DEGRADED"
  /\ pc[w] = "clear_clean" /\ target[w] = "NONE" => mode = "RECOVERY"
  /\ pc[w] = "publish" => mode = target[w]
  /\ pc[w] # "publish" =>
       /\ target[w] = "RECOVERY" => mode = "DEGRADED"
       /\ target[w] = "NORMAL" => mode = "RECOVERY" /\ pc[w] = "swap"
       /\ target[w] = "DEGRADED" => mode \in {"NORMAL", "RECOVERY"}

\* The count of DEGRADED is below its window unless it has just been filled,
\* and 0 wherever an episode that uses it can begin.
Counts(w) ==
  /\ mode # "DEGRADED" => degraded_clean = 0
  /\ mode = "DEGRADED" /\ target[w] # "RECOVERY" => degraded_clean < DegradedWindow
  /\ pc[w] \in {"clear_clean", "swap"} /\ target[w] = "RECOVERY" => degraded_clean = 0
  /\ pc[w] = "swap" /\ target[w] = "RECOVERY" => clean_cycles = 0
  /\ pc[w] = "swap" /\ target[w] = "NORMAL" => clean_cycles >= RecoveryWindow

\* The call has gone where its packet sends it.
Follows(w) ==
  /\ pc[w] = "idle" <=> packet = NoLatency
  /\ pc[w] = "load" => latency[w] = packet
  /\ pc[w] \in {"add_degraded", "add_clean"} => Clean(packet)
  /\ pc[w] = "clear_degraded" /\ target[w] = "NONE" => ~Clean(packet)
  /\ pc[w] = "clear_clean" /\ target[w] = "NONE" => ~Clean(packet) /\ ~Spike(packet)
  /\ target[w] \in {"RECOVERY", "NORMAL"} => Clean(packet)

OneCall(w) == StillThere(w) /\ Counts(w) /\ Follows(w)

HistoryType == disturbed \in BOOLEAN /\ packet \in Latencies \cup {NoLatency}

CallsInv ==
  /\ TypeOK /\ FullCountIsCleared /\ HistoryType
  /\ ~disturbed => /\ \A v, w \in Busy : v = w
                   /\ \A w \in Workers : Busy \subseteq {w} => OneCall(w)

\* What the state machine does with a packet.
LEMMA MachineJudges ==
  ASSUME ~disturbed, ~disturbed', Pending # NoLatency, Pending' = NoLatency,
         \/ /\ State # "DEGRADED" /\ Spike(Pending)
            /\ State' = "DEGRADED" /\ Streak' = 0
         \/ /\ State = "NORMAL" /\ ~Spike(Pending)
            /\ UNCHANGED <<State, Streak>>
         \/ /\ State = "DEGRADED" /\ Clean(Pending) /\ Streak + 1 < DegradedWindow
            /\ State' = State /\ Streak' = Streak + 1
         \/ /\ State = "RECOVERY" /\ Clean(Pending) /\ Streak + 1 < RecoveryWindow
            /\ State' = State /\ Streak' = Streak + 1
         \/ /\ State = "DEGRADED" /\ Clean(Pending) /\ Streak + 1 >= DegradedWindow
            /\ State' = "RECOVERY" /\ Streak' = 0
         \/ /\ State = "RECOVERY" /\ Clean(Pending) /\ Streak + 1 >= RecoveryWindow
            /\ State' = "NORMAL" /\ Streak' = 0
         \/ /\ State = "DEGRADED" /\ ~Clean(Pending)
            /\ State' = State /\ Streak' = 0
         \/ /\ State = "RECOVERY" /\ ~Clean(Pending) /\ ~Spike(Pending)
            /\ State' = State /\ Streak' = 0
  PROVE  Machine!Next
  BY DEF Machine!Next, Machine!Judge, Machine!Degrade, Machine!Ignore,
         Machine!CleanCounts, Machine!MoveOn, Machine!StartOver, Machine!Spike,
         Machine!Clean, Machine!Window, Machine!Way, State, Streak, Pending, Spike, Clean

\* Where the only call is.
LEMMA OnlyCall ==
  ASSUME TypeOK, NEW w \in Workers, Busy \subseteq {w}
  PROVE  /\ \A m \in Mode : Aiming(m) <=> target[w] = m /\ pc[w] # "publish"
         /\ Judged <=> target[w] = "DEGRADED" \/ pc[w] = "publish"
<1>1. w \in Busy <=> pc[w] # "idle"  BY DEF Busy
<1>2. pc[w] = "idle" => target[w] = "NONE"  BY DEF TypeOK
<1>3. \A v \in Busy : v = w  OBVIOUS
<1>. QED  BY <1>1, <1>2, <1>3 DEF Aiming, Judged, Mode

LEMMA TwoMembers ==
  ASSUME NEW S \in SUBSET Workers, NEW v \in S, NEW w \in S, v # w
  PROVE  Cardinality(S) > 1
<1>1. IsFiniteSet(S) /\ Cardinality(S) \in Nat  BY FiniteCounts
<1>2. Cardinality({v, w}) = 2
  <2>1. Cardinality({v}) = 1 /\ IsFiniteSet({v})  BY FS_Singleton
  <2>2. {v, w} = {v} \cup {w} /\ w \notin {v}  OBVIOUS
  <2>3. Cardinality({v} \cup {w}) = Cardinality({v}) + 1  BY <2>1, <2>2, FS_AddElement
  <2>. QED  BY <2>1, <2>2, <2>3
<1>3. {v, w} \subseteq S  OBVIOUS
<1>4. Cardinality({v, w}) <= Cardinality(S)  BY <1>1, <1>3, FS_Subset
<1>. QED  BY <1>1, <1>2, <1>4

\* The steps of the only call, one by one: it goes on as its packet demands,
\* and the state machine takes a step or none.
LEMMA CallStep ==
  ASSUME TypeOK, FullCountIsCleared, HistoryType, TypeOK',
         NEW w \in Workers, Worker(w), Track(w), ~disturbed, ~disturbed',
         Busy \subseteq {w}, Busy' \subseteq {w}, OneCall(w)
  PROVE  OneCall(w)' /\ (Machine!Next \/ UNCHANGED <<State, Streak, Pending>>)
<1>0. /\ mode \in Mode /\ degraded_clean \in Nat /\ clean_cycles \in Nat
      /\ pc \in [Workers -> {"idle", "load", "add_degraded", "add_clean",
                            "clear_degraded", "clear_clean", "swap", "publish"}]
      /\ target \in [Workers -> Mode \cup {"NONE"}]
      /\ latency \in [Workers -> Latencies \cup {NoLatency}]
      /\ pc[w] \in {"swap", "publish"} => target[w] # "NONE"
      /\ pc[w] \in {"idle", "load", "add_degraded", "add_clean"} => target[w] = "NONE"
      /\ StillThere(w) /\ Counts(w) /\ Follows(w)
  BY DEF OneCall, TypeOK
<1>1. packet' = IF pc'[w] = "idle" THEN NoLatency
                  ELSE IF pc[w] = "idle" THEN latency'[w] ELSE packet
  BY DEF Track
<1>2. /\ \A m \in Mode : Aiming(m) <=> target[w] = m /\ pc[w] # "publish"
      /\ Judged <=> target[w] = "DEGRADED" \/ pc[w] = "publish"
  BY OnlyCall
<1>3. /\ \A m \in Mode : Aiming(m)' <=> target'[w] = m /\ pc'[w] # "publish"
      /\ Judged' <=> target'[w] = "DEGRADED" \/ pc'[w] = "publish"
  <2>1. w \in Busy' <=> pc'[w] # "idle"  BY DEF Busy
  <2>2. pc'[w] = "idle" => target'[w] = "NONE"  BY DEF TypeOK
  <2>3. \A v \in Busy' : v = w  OBVIOUS
  <2>. QED  BY <2>1, <2>2, <2>3 DEF Aiming, Judged, Mode
<1>4. /\ DegradedWindow \in Nat \ {0} /\ RecoveryWindow \in Nat \ {0}
      /\ NoLatency \notin Latencies /\ NoLatency = -1
      /\ \A us \in Latencies : ~(Spike(us) /\ Clean(us))
  BY FailSafeAssumption DEF NoLatency, Spike, Clean
<1>5. packet # NoLatency => packet \in Latencies  BY DEF HistoryType
<1>6. pc[w] # "idle" => packet # NoLatency  BY <1>0 DEF Follows
<1>. USE DEF Goto, Aim, counters
<1>7. CASE Call(w)
  <2>1. StillThere(w)' /\ Counts(w)'
    BY <1>0, <1>7, FailSafeAssumption DEF Call, StillThere, Counts
  <2>2. /\ latency'[w] \in Latencies /\ packet' = latency'[w] /\ packet = NoLatency
        /\ pc'[w] = "load" /\ target'[w] = "NONE" /\ target[w] = "NONE"
        /\ pc[w] = "idle"
    BY <1>0, <1>1, <1>7 DEF Call, Follows
  <2>3. Follows(w)'  BY <1>4, <2>2 DEF Follows
  <2>4. UNCHANGED <<State, Streak>>
    BY <1>0, <1>2, <1>3, <1>7, <2>2 DEF Call, State, Streak, Mode
  <2>5. Pending = NoLatency /\ Pending' = latency'[w]
    BY <1>2, <1>3, <2>2 DEF Pending
  <2>6. Machine!Arrive
    BY <2>2, <2>4, <2>5 DEF Machine!Arrive, State, Streak, Pending
  <2>. QED  BY <2>1, <2>3, <2>6 DEF OneCall, Machine!Next
<1>8. CASE LoadMode(w)
  <2>0. /\ mode' = mode /\ UNCHANGED <<degraded_clean, clean_cycles>>
        /\ target[w] = "NONE" /\ pc[w] = "load" /\ latency[w] = packet
        /\ packet \in Latencies /\ Pending = packet /\ Pending # NoLatency
    BY <1>0, <1>2, <1>4, <1>5, <1>6, <1>8 DEF LoadMode, Follows, Pending
  <2>1. StillThere(w)' /\ Counts(w)'
    BY <1>0, <1>8 DEF LoadMode, StillThere, Counts
  <2>2. Follows(w)'
    BY <1>0, <1>1, <1>4, <1>8, <2>0 DEF LoadMode, Follows, Mode
  <2>3. State = mode  BY <1>2, <2>0 DEF State, Mode
  <2>4. CASE target'[w] = "DEGRADED"
    <3>1. mode \in {"NORMAL", "RECOVERY"} /\ pc'[w] # "publish" /\ Spike(packet)
      BY <1>0, <1>8, <2>0, <2>4 DEF LoadMode
    <3>2. State' = "DEGRADED" /\ Streak' = 0 /\ Pending' = NoLatency
      BY <1>3, <2>4, <3>1 DEF State, Streak, Pending, Mode
    <3>. QED  BY <2>0, <2>1, <2>2, <2>3, <3>1, <3>2, MachineJudges DEF OneCall
  <2>5. CASE target'[w] = "NONE" /\ pc'[w] = "idle"
    <3>1. mode = "NORMAL" /\ ~Spike(packet)
      BY <1>0, <1>8, <2>0, <2>5 DEF LoadMode
    <3>2. UNCHANGED <<State, Streak>> /\ Pending' = NoLatency
      BY <1>1, <1>2, <1>3, <2>0, <2>5, <3>1 DEF State, Streak, Pending, Mode
    <3>. QED  BY <2>0, <2>1, <2>2, <2>3, <3>1, <3>2, MachineJudges DEF OneCall
  <2>6. CASE target'[w] = "NONE" /\ pc'[w] # "idle"
    <3>1. pc'[w] # "publish" /\ packet' = packet  BY <1>0, <1>1, <1>8, <2>0, <2>6 DEF LoadMode
    <3>2. UNCHANGED <<State, Streak, Pending>>
      BY <1>2, <1>3, <2>0, <2>6, <3>1 DEF State, Streak, Pending, Mode
    <3>. QED  BY <2>1, <2>2, <3>2 DEF OneCall
  <2>. QED  BY <1>0, <1>8, <2>0, <2>4, <2>5, <2>6 DEF LoadMode
<1>9. CASE AddDegraded(w)
  <2>1. /\ degraded_clean < DegradedWindow /\ mode = "DEGRADED" /\ target[w] = "NONE"
        /\ degraded_clean' = degraded_clean + 1 /\ mode' = mode
        /\ clean_cycles' = clean_cycles /\ pc[w] = "add_degraded"
        /\ packet \in Latencies /\ Clean(packet)
    BY <1>0, <1>5, <1>6, <1>9 DEF AddDegraded, StillThere, Counts, Follows
  <2>2. StillThere(w)' /\ Counts(w)'
    BY <1>0, <1>4, <1>9, <2>1 DEF AddDegraded, StillThere, Counts
  <2>3. Follows(w)'
    BY <1>0, <1>1, <1>4, <1>9, <2>1 DEF AddDegraded, Follows, Mode
  <2>4. State = "DEGRADED" /\ Streak = degraded_clean /\ Pending = packet
    BY <1>2, <2>1 DEF State, Streak, Pending, Mode
  <2>5. CASE degraded_clean' >= DegradedWindow
    <3>1. pc'[w] = "clear_degraded" /\ target'[w] = "RECOVERY" /\ packet' = packet
      BY <1>0, <1>1, <1>9, <2>1, <2>5 DEF AddDegraded
    <3>2. State' = "DEGRADED" /\ Streak' = DegradedWindow - 1 /\ Pending' = packet
      BY <1>3, <2>1, <3>1 DEF State, Streak, Pending, Mode
    <3>3. degraded_clean = DegradedWindow - 1  BY <1>0, <1>4, <2>1, <2>5
    <3>. QED  BY <2>2, <2>3, <2>4, <3>2, <3>3 DEF OneCall
  <2>6. CASE ~(degraded_clean' >= DegradedWindow)
    <3>1. pc'[w] = "idle" /\ target'[w] = "NONE" /\ packet' = NoLatency
      BY <1>0, <1>1, <1>9, <2>1, <2>6 DEF AddDegraded
    <3>2. State' = "DEGRADED" /\ Streak' = degraded_clean + 1 /\ Pending' = NoLatency
      BY <1>3, <2>1, <3>1 DEF State, Streak, Pending, Mode
    <3>3. degraded_clean + 1 < DegradedWindow  BY <1>0, <1>4, <2>1, <2>6
    <3>. QED  BY <1>4, <2>1, <2>2, <2>3, <2>4, <3>2, <3>3, MachineJudges DEF OneCall
  <2>. QED  BY <2>5, <2>6
<1>10. CASE AddClean(w)
  <2>1. /\ mode = "RECOVERY" /\ target[w] = "NONE" /\ pc[w] = "add_clean"
        /\ clean_cycles' = clean_cycles + 1 /\ mode' = mode
        /\ degraded_clean' = degraded_clean
        /\ packet \in Latencies /\ Clean(packet)
    BY <1>0, <1>5, <1>6, <1>10 DEF AddClean, StillThere, Follows
  <2>2. StillThere(w)' /\ Counts(w)'
    BY <1>0, <1>4, <1>10, <2>1 DEF AddClean, StillThere, Counts
  <2>3. Follows(w)'
    BY <1>0, <1>1, <1>4, <1>10, <2>1 DEF AddClean, Follows, Mode
  <2>4. State = "RECOVERY" /\ Streak = clean_cycles /\ Pending = packet
    BY <1>2, <2>1 DEF State, Streak, Pending, Mode
  <2>5. CASE clean_cycles' >= RecoveryWindow
    <3>1. pc'[w] = "swap" /\ target'[w] = "NORMAL" /\ packet' = packet
      BY <1>0, <1>1, <1>10, <2>1, <2>5 DEF AddClean
    <3>2. State' = "RECOVERY" /\ Streak' = clean_cycles' - 1 /\ Pending' = packet
      BY <1>3, <2>1, <3>1 DEF State, Streak, Pending, Mode
    <3>3. clean_cycles' - 1 = clean_cycles  BY <1>0, <2>1
    <3>. QED  BY <2>2, <2>3, <2>4, <3>2, <3>3 DEF OneCall
  <2>6. CASE ~(clean_cycles' >= RecoveryWindow)
    <3>1. pc'[w] = "idle" /\ target'[w] = "NONE" /\ packet' = NoLatency
      BY <1>0, <1>1, <1>10, <2>1, <2>6 DEF AddClean
    <3>2. State' = "RECOVERY" /\ Streak' = clean_cycles + 1 /\ Pending' = NoLatency
      BY <1>3, <2>1, <3>1 DEF State, Streak, Pending, Mode
    <3>3. clean_cycles + 1 < RecoveryWindow  BY <1>0, <1>4, <2>1, <2>6
    <3>. QED  BY <1>4, <2>1, <2>2, <2>3, <2>4, <3>2, <3>3, MachineJudges DEF OneCall
  <2>. QED  BY <2>5, <2>6
<1>11. CASE ClearDegraded(w)
  <2>0. /\ pc[w] = "clear_degraded" /\ degraded_clean' = 0 /\ mode' = mode
        /\ clean_cycles' = clean_cycles /\ target' = target
        /\ packet \in Latencies
    BY <1>5, <1>6, <1>11 DEF ClearDegraded
  <2>1. StillThere(w)' /\ Counts(w)'
    BY <1>0, <1>4, <1>11 DEF ClearDegraded, StillThere, Counts
  <2>2. Follows(w)'
    BY <1>0, <1>1, <1>4, <1>11, <2>0 DEF ClearDegraded, Follows, Mode
  <2>3. CASE target[w] = "NONE"
    <3>1. pc'[w] = "idle" /\ packet' = NoLatency /\ mode = "DEGRADED" /\ ~Clean(packet)
      BY <1>0, <1>1, <1>11, <2>3 DEF ClearDegraded, StillThere, Follows
    <3>2. State = "DEGRADED" /\ Pending = packet
      BY <1>2, <2>0, <2>3, <3>1 DEF State, Pending, Mode
    <3>3. State' = "DEGRADED" /\ Streak' = 0 /\ Pending' = NoLatency
      BY <1>3, <2>0, <2>3, <3>1 DEF State, Streak, Pending, Mode
    <3>. QED  BY <1>4, <2>0, <2>1, <2>2, <3>1, <3>2, <3>3, MachineJudges DEF OneCall
  <2>4. CASE target[w] # "NONE"
    <3>1. pc'[w] = "clear_clean" /\ packet' = packet
      BY <1>0, <1>1, <1>11, <2>4 DEF ClearDegraded
    <3>2. target[w] \in Mode /\ target[w] # "NORMAL"
      BY <1>0, <2>0, <2>4 DEF StillThere, Mode
    <3>3. UNCHANGED <<State, Streak, Pending>>
      BY <1>0, <1>2, <1>3, <2>0, <3>1, <3>2
         DEF StillThere, Counts, State, Streak, Pending, Mode
    <3>. QED  BY <2>1, <2>2, <3>3 DEF OneCall
  <2>. QED  BY <2>3, <2>4
<1>12. CASE ClearClean(w)
  <2>0. /\ pc[w] = "clear_clean" /\ clean_cycles' = 0 /\ mode' = mode
        /\ degraded_clean' = degraded_clean /\ target' = target
        /\ packet \in Latencies
    BY <1>5, <1>6, <1>12 DEF ClearClean
  <2>1. StillThere(w)' /\ Counts(w)'
    BY <1>0, <1>4, <1>12 DEF ClearClean, StillThere, Counts
  <2>2. Follows(w)'
    BY <1>0, <1>1, <1>4, <1>12, <2>0 DEF ClearClean, Follows, Mode
  <2>3. CASE target[w] = "NONE"
    <3>1. /\ pc'[w] = "idle" /\ packet' = NoLatency /\ mode = "RECOVERY"
          /\ ~Clean(packet) /\ ~Spike(packet)
      BY <1>0, <1>1, <1>12, <2>3 DEF ClearClean, StillThere, Follows
    <3>2. State = "RECOVERY" /\ Pending = packet
      BY <1>2, <2>0, <2>3, <3>1 DEF State, Pending, Mode
    <3>3. State' = "RECOVERY" /\ Streak' = 0 /\ Pending' = NoLatency
      BY <1>3, <2>0, <2>3, <3>1 DEF State, Streak, Pending, Mode
    <3>. QED  BY <1>4, <2>0, <2>1, <2>2, <3>1, <3>2, <3>3, MachineJudges DEF OneCall
  <2>4. CASE target[w] # "NONE"
    <3>1. pc'[w] = "swap" /\ packet' = packet
      BY <1>0, <1>1, <1>12, <2>4 DEF ClearClean
    <3>2. target[w] \in {"DEGRADED", "RECOVERY"}
      BY <1>0, <2>0, <2>4 DEF StillThere, Mode
    <3>3. target[w] = "RECOVERY" => mode = "DEGRADED"
      BY <1>0, <2>0 DEF StillThere
    <3>4. UNCHANGED <<State, Streak, Pending>>
      BY <1>2, <1>3, <2>0, <3>1, <3>2, <3>3 DEF State, Streak, Pending, Mode
    <3>. QED  BY <2>1, <2>2, <3>4 DEF OneCall
  <2>. QED  BY <2>3, <2>4
<1>13. CASE Swap(w)
  <2>0. /\ mode' = target[w] /\ mode # target[w] /\ pc'[w] = "publish"
        /\ UNCHANGED <<target, degraded_clean, clean_cycles>>
        /\ pc[w] = "swap" /\ packet' = packet /\ packet \in Latencies
        /\ Judged' /\ target[w] \in Mode
    <3>1. pc[w] = "swap" /\ target[w] \in Mode /\ packet \in Latencies
      BY <1>0, <1>5, <1>6, <1>13 DEF Swap
    <3>2. mode # target[w]  BY <1>0, <3>1 DEF StillThere, Mode
    <3>3. /\ mode' = target[w] /\ pc'[w] = "publish"
          /\ UNCHANGED <<target, degraded_clean, clean_cycles>>
      BY <1>0, <1>13, <3>2 DEF Swap
    <3>. QED  BY <1>1, <1>3, <3>1, <3>2, <3>3
  <2>1. StillThere(w)' /\ Counts(w)'
    <3>1. StillThere(w)'  BY <2>0 DEF StillThere
    <3>2. mode = "RECOVERY" \/ mode = "NORMAL" \/ target[w] = "RECOVERY"
      BY <1>0, <2>0 DEF StillThere, Mode
    <3>3. degraded_clean = 0  BY <1>0, <2>0, <3>2 DEF Counts
    <3>. QED  BY <1>4, <2>0, <3>1, <3>3 DEF Counts
  <2>2. Follows(w)'
    BY <1>0, <1>4, <2>0 DEF Follows
  <2>3. Pending' = NoLatency /\ State' = target[w]
    BY <1>3, <2>0 DEF State, Pending, Mode
  <2>4. CASE target[w] = "DEGRADED"
    <3>1. Streak = 0 /\ State = "DEGRADED" /\ Pending = NoLatency
      BY <1>2, <2>0, <2>4 DEF State, Streak, Pending, Mode
    <3>2. degraded_clean = 0  BY <1>0, <2>0, <2>4 DEF Counts
    <3>3. Streak' = 0
      BY <1>3, <2>0, <2>4, <3>2 DEF Streak, Mode
    <3>. QED  BY <2>1, <2>2, <2>3, <2>4, <3>1, <3>3 DEF OneCall
  <2>5. CASE target[w] = "RECOVERY"
    <3>1. mode = "DEGRADED" /\ clean_cycles = 0 /\ Clean(packet)
      BY <1>0, <2>0, <2>5 DEF StillThere, Counts, Follows
    <3>2. State = "DEGRADED" /\ Streak = DegradedWindow - 1 /\ Pending = packet
      BY <1>2, <2>0, <2>5, <3>1 DEF State, Streak, Pending, Mode
    <3>3. Streak' = 0
      BY <1>3, <2>0, <2>5, <3>1 DEF Streak, Mode
    <3>4. Streak + 1 >= DegradedWindow  BY <1>4, <3>2
    <3>. QED
      BY <1>4, <2>0, <2>1, <2>2, <2>3, <2>5, <3>1, <3>2, <3>3, <3>4, MachineJudges DEF OneCall
  <2>6. CASE target[w] = "NORMAL"
    <3>1. mode = "RECOVERY" /\ clean_cycles >= RecoveryWindow /\ Clean(packet)
      BY <1>0, <2>0, <2>6 DEF StillThere, Counts, Follows
    <3>2. State = "RECOVERY" /\ Streak = clean_cycles - 1 /\ Pending = packet
      BY <1>2, <2>0, <2>6, <3>1 DEF State, Streak, Pending, Mode
    <3>3. Streak' = 0
      BY <2>0, <2>6 DEF Streak
    <3>4. Streak + 1 >= RecoveryWindow  BY <1>0, <1>4, <3>1, <3>2
    <3>. QED
      BY <1>4, <2>0, <2>1, <2>2, <2>3, <2>6, <3>1, <3>2, <3>3, <3>4, MachineJudges DEF OneCall
  <2>. QED  BY <2>0, <2>4, <2>5, <2>6 DEF Mode
<1>14. CASE Publish(w)
  <2>0. /\ pc[w] = "publish" /\ pc'[w] = "idle" /\ target'[w] = "NONE"
        /\ UNCHANGED <<mode, degraded_clean, clean_cycles>> /\ packet' = NoLatency
        /\ mode = target[w]
    BY <1>0, <1>1, <1>14 DEF Publish, StillThere
  <2>1. StillThere(w)' /\ Counts(w)'
    BY <1>0, <1>4, <2>0 DEF StillThere, Counts
  <2>2. Follows(w)'
    BY <2>0 DEF Follows
  <2>3. UNCHANGED <<State, Streak, Pending>>
    BY <1>2, <1>3, <2>0 DEF State, Streak, Pending, Mode
  <2>. QED  BY <2>1, <2>2, <2>3 DEF OneCall
<1>. QED
  BY <1>7, <1>8, <1>9, <1>10, <1>11, <1>12, <1>13, <1>14 DEF Worker

LEMMA CallsStep ==
  ASSUME CallsInv, [CNext]_cvars
  PROVE  CallsInv' /\ [Machine!Next]_<<State, Streak, Pending, disturbed>>
<1>. TypeOK /\ FullCountIsCleared /\ HistoryType  BY DEF CallsInv
<1>1. [Next]_vars  BY DEF CNext, CWorker, Next, cvars
<1>2. TypeOK'  BY <1>1, TypeStep
<1>3. FullCountIsCleared'
  <2>1. CountInv  BY DEF CountInv
  <2>. QED  BY <2>1, <1>1, CountStep DEF CountInv
<1>4. CASE \/ CalmDown /\ UNCHANGED <<disturbed, packet>>
           \/ UNCHANGED cvars
  <2>1. UNCHANGED <<mode, degraded_clean, clean_cycles, pc, target, latency, disturbed, packet>>
    BY <1>4 DEF CalmDown, cvars, vars, counters
  <2>2. HistoryType' /\ Busy' = Busy  BY <2>1 DEF HistoryType, Busy
  <2>3. \A w \in Workers : OneCall(w)' <=> OneCall(w)
    BY <2>1 DEF OneCall, StillThere, Counts, Follows, Clean, Spike
  <2>4. UNCHANGED <<State, Streak, Pending, disturbed>>
    BY <2>1, <2>2 DEF State, Streak, Pending, Aiming, Judged
  <2>. QED  BY <1>2, <1>3, <2>1, <2>2, <2>3, <2>4 DEF CallsInv
<1>5. ASSUME NEW w \in Workers, CWorker(w)
      PROVE  CallsInv' /\ [Machine!Next]_<<State, Streak, Pending, disturbed>>
  <2>0. Worker(w) /\ Track(w)  BY <1>5 DEF CWorker
  <2>1. HistoryType'
    <3>1. pc'[w] # "idle" /\ pc[w] = "idle" => latency'[w] \in Latencies \cup {NoLatency}
      BY <1>2 DEF TypeOK
    <3>. QED  BY <2>0, <3>1 DEF Track, HistoryType
  <2>2. \A v \in Workers \ {w} : pc'[v] = pc[v]
    BY <2>0 DEF Worker, Call, LoadMode, AddDegraded, AddClean, ClearDegraded, ClearClean,
                Swap, Publish, Goto, TypeOK
  <2>3. CASE disturbed'
    <3>1. Machine!Disturb
      <4>1. /\ State' \in {"NORMAL", "DEGRADED", "RECOVERY"} /\ Streak' = 0
        BY <1>2, <2>3 DEF State, Streak, TypeOK, Mode
      <4>2. Pending' = NoLatency  BY <2>0, <2>3 DEF Track, Pending
      <4>. QED  BY <2>3, <4>1, <4>2 DEF Machine!Disturb, State, Streak, Pending
    <3>. QED  BY <1>2, <1>3, <2>1, <2>3, <3>1 DEF CallsInv, Machine!Next
  <2>4. CASE disturbed /\ ~disturbed'
    <3>1. Busy' = {} /\ (mode' = "DEGRADED" \/ degraded_clean' = 0) /\ packet' = NoLatency
      <4>1. Quiet'  BY <2>0, <2>4 DEF Track
      <4>2. Busy' = {} /\ (mode' = "DEGRADED" \/ degraded_clean' = 0)  BY <4>1 DEF Quiet
      <4>3. pc'[w] = "idle"  BY <4>2 DEF Busy
      <4>. QED  BY <2>0, <2>4, <4>2, <4>3 DEF Track
    <3>2. \A v \in Workers : OneCall(v)'
      <4>. SUFFICES ASSUME NEW v \in Workers PROVE OneCall(v)'
        OBVIOUS
      <4>1. pc'[v] = "idle"  BY <3>1 DEF Busy
      <4>2. target'[v] = "NONE"  BY <1>2, <4>1 DEF TypeOK
      <4>3. degraded_clean' < DegradedWindow
        <5>1. Clearing' = {}  BY <3>1 DEF Busy, Clearing
        <5>2. Cardinality(Clearing') = 0  BY <5>1, FS_EmptySet
        <5>. QED  BY <1>2, <1>3, <5>2, FailSafeAssumption DEF FullCountIsCleared, TypeOK
      <4>. QED  BY <3>1, <4>1, <4>2, <4>3 DEF OneCall, StillThere, Counts, Follows
    <3>3. Machine!Disturb
      <4>1. ~Aiming("DEGRADED")' /\ ~Judged' /\ ~Aiming("RECOVERY")' /\ ~Aiming("NORMAL")'
        BY <3>1 DEF Aiming, Judged
      <4>2. /\ mode' \in {"NORMAL", "DEGRADED", "RECOVERY"}
            /\ degraded_clean' \in Nat /\ clean_cycles' \in Nat
        BY <1>2 DEF TypeOK, Mode
      <4>3. State' = mode' /\ Pending' = NoLatency  BY <3>1, <4>1 DEF State, Pending
      <4>4. Streak' \in Nat /\ (mode' = "NORMAL" => Streak' = 0)
        BY <4>1, <4>2 DEF Streak
      <4>. QED  BY <2>4, <4>2, <4>3, <4>4 DEF Machine!Disturb, State, Streak, Pending
    <3>. QED  BY <1>2, <1>3, <2>1, <2>4, <3>1, <3>2, <3>3 DEF CallsInv, Machine!Next
  <2>5. CASE ~disturbed /\ ~disturbed'
    <3>1. \A v \in Busy' : v = w
      <4>. SUFFICES ASSUME NEW v \in Busy', v # w PROVE FALSE
        OBVIOUS
      <4>1. v \in Workers /\ pc[v] # "idle"  BY <2>2 DEF Busy
      <4>2. Busy \subseteq {v}  BY <2>5, <4>1 DEF CallsInv, Busy
      <4>3. pc[w] = "idle"  BY <4>2 DEF Busy
      <4>4. pc'[w] = "load"
        BY <2>0, <4>3 DEF Worker, Call, LoadMode, AddDegraded, AddClean, ClearDegraded,
                          ClearClean, Swap, Publish, Goto, TypeOK
      <4>5. Cardinality(Busy)' > 1
        <5>1. v \in Busy' /\ w \in Busy' /\ Busy' \in SUBSET Workers  BY <4>1, <4>4 DEF Busy
        <5>. QED  BY <4>1, <5>1, TwoMembers
      <4>6. ~Quiet'  BY <4>4 DEF Quiet, Busy
      <4>. QED  BY <2>0, <2>5, <4>5, <4>6 DEF Track
    <3>2. Busy \subseteq {w}
      <4>. SUFFICES ASSUME NEW v \in Busy, v # w PROVE FALSE
        OBVIOUS
      <4>1. v \in Busy'  BY <2>2 DEF Busy
      <4>. QED  BY <3>1, <4>1
    <3>3. OneCall(w)' /\ (Machine!Next \/ UNCHANGED <<State, Streak, Pending>>)
      <4>1. OneCall(w)  BY <2>5, <3>2 DEF CallsInv
      <4>2. Busy' \subseteq {w}  BY <3>1
      <4>. QED  BY <1>2, <2>0, <2>5, <3>2, <4>1, <4>2, CallStep
    <3>4. \A v \in Workers : (Busy \subseteq {v})' => OneCall(v)'
      <4>. SUFFICES ASSUME NEW v \in Workers, Busy' \subseteq {v}, v # w PROVE OneCall(v)'
        BY <3>3
      <4>1. Busy' = {}  BY <3>1
      <4>2. pc'[v] = "idle" /\ pc'[w] = "idle"  BY <4>1 DEF Busy
      <4>3. target'[v] = "NONE" /\ target'[w] = "NONE"  BY <1>2, <4>2 DEF TypeOK
      <4>. QED  BY <3>3, <4>2, <4>3 DEF OneCall, StillThere, Counts, Follows
    <3>5. UNCHANGED disturbed  BY <2>1, <2>5 DEF HistoryType
    <3>. QED  BY <1>2, <1>3, <2>1, <3>1, <3>3, <3>4, <3>5 DEF CallsInv
  <2>. QED  BY <2>3, <2>4, <2>5
<1>. QED  BY <1>4, <1>5 DEF CNext

\* Calls that do not overlap do to the mode what the state machine says: every
\* packet is judged by its latency, and only full windows of consecutive clean
\* packets lead out of DEGRADED and RECOVERY, for any threads and windows.
THEOREM CallsImplementMachine == CSpec => RefinesMachine
<1>1. CInit => CallsInv
  <2>. SUFFICES ASSUME CInit PROVE CallsInv
    OBVIOUS
  <2>1. TypeOK  BY InitType DEF CInit
  <2>2. FullCountIsCleared
    <3>1. Clearing = {}  BY DEF CInit, Init, Clearing
    <3>. QED  BY <3>1, FS_EmptySet, FailSafeAssumption DEF CInit, Init, FullCountIsCleared
  <2>3. Busy = {} /\ HistoryType  BY DEF CInit, Init, Busy, HistoryType
  <2>4. \A w \in Workers : OneCall(w)
    BY FailSafeAssumption DEF CInit, Init, OneCall, StillThere, Counts, Follows
  <2>. QED  BY <2>1, <2>2, <2>3, <2>4 DEF CallsInv
<1>2. CallsInv /\ [CNext]_cvars
        => CallsInv' /\ [Machine!Next]_<<State, Streak, Pending, disturbed>>
  BY CallsStep
<1>3. CInit => Machine!Init
  BY DEF CInit, Init, Machine!Init, Aiming, Judged, Busy
<1>4. Machine!Spec <=>
        Machine!Init /\ [][Machine!Next]_<<State, Streak, Pending, disturbed>>
  BY DEF Machine!Spec, State, Streak, Pending
<1>. QED  BY <1>1, <1>2, <1>3, <1>4, PTL DEF CSpec, RefinesMachine
=============================================================================
