-------------------------- MODULE Pipelines_proofs --------------------------
(***************************************************************************)
(* Proofs about Pipelines, for any capacities, queue depth and number of   *)
(* events.  Neither invariant is inductive: that the statistics are final  *)
(* needs what the runner has waited for (Waited), and that the counts stay *)
(* within the events offered needs where those are now (Offered) and that  *)
(* an event overflows once and evicts once (OverflowsBounded).             *)
(***************************************************************************)
EXTENDS Pipelines, TLAPS

NatStatistics == [events : Nat, overflows : Nat]

\* PTypeOK with Nat in place of Count, in two parts: control and data.
PcTypes ==
  /\ stop \in BOOLEAN /\ printing \in BOOLEAN
  /\ src_pc \in [Pipe -> {"loop", "done"}]
  /\ bridge_pc \in [Pipe -> {"recv", "done"}]
  /\ parse_pc \in [Pipe -> {"loop", "enqueue", "overflow", "evict", "retry", "done"}]
  /\ disp_pc \in [Pipe -> {"loop", "done"}]
  /\ run_pc \in [Pipe -> {"sleep", "join", "report", "over"}]
  /\ main_pc \in {"await", "logs", "write", "summary", "print", "top_n", "tail", "exit"}
  /\ printing <=> main_pc \in {"write", "print", "tail"}

DataTypes ==
  /\ bridge \in [Pipe -> 0..ChannelCapacity] /\ raw \in [Pipe -> 0..ChannelCapacity]
  /\ backlog \in [Pipe -> 0..QueueDepth]
  /\ events \in [Pipe -> Nat] /\ overflows \in [Pipe -> Nat]
  /\ result \in [Pipe -> NatStatistics] /\ printed \in [Pipe -> NatStatistics]
  /\ m_events \in [Pipe -> Nat] /\ m_overflows \in [Pipe -> Nat]
  /\ made \in [Pipe -> Nat] /\ evicted \in [Pipe -> Nat]

\* An event in a channel or parsed has been offered.
Offered(p) ==
  /\ made[p] <= MaxEvents[p]
  /\ bridge[p] + raw[p] + events[p] <= made[p]

\* An event overflows at most once, and an overflow evicts at most once.
OverflowsBounded(p) ==
  /\ overflows[p] + (IF parse_pc[p] \in {"enqueue", "overflow"} THEN 1 ELSE 0)
       <= events[p]
  /\ evicted[p] + (IF parse_pc[p] = "evict" THEN 1 ELSE 0) <= overflows[p]

\* What the runner has waited for, and what has been written since.
Waited(p) ==
  /\ run_pc[p] \in {"report", "over"} =>
       /\ parse_pc[p] = "done"
       /\ result[p] = [events |-> events[p], overflows |-> overflows[p]]
  /\ run_pc[p] \in {"sleep", "join"} => result[p] = [events |-> 0, overflows |-> 0]
  /\ m_events[p] # 0 => /\ run_pc[p] = "over"
                        /\ m_events[p] = events[p] /\ m_overflows[p] = overflows[p]
  /\ m_overflows[p] <= overflows[p]
  /\ printed[p].events # 0 => run_pc[p] = "over" /\ printed[p] = result[p]
  /\ printed[p].overflows <= overflows[p]

PipeInv(p) ==
  Offered(p) /\ OverflowsBounded(p) /\ Waited(p)
PInv == PcTypes /\ DataTypes /\ \A p \in Pipe : PipeInv(p)

---------------------------------------------------------------------------

LEMMA InitInv == PInit => PInv
<1>. SUFFICES ASSUME PInit PROVE PInv
  OBVIOUS
<1>. USE PipelinesAssumption DEF PInit, None, NoStatistics
<1>1. PcTypes  BY DEF PcTypes
<1>2. DataTypes  BY DEF DataTypes, NatStatistics
<1>3. ASSUME NEW p \in Pipe PROVE PipeInv(p)
  BY <1>3 DEF PipeInv, Offered, OverflowsBounded, Waited
<1>. QED  BY <1>1, <1>2, <1>3 DEF PInv

LEMMA SourceStep ==
  ASSUME PInv, NEW p \in Pipe, Source(p) PROVE PInv'
<1>. USE PipelinesAssumption DEF PInv, chan_vars, stat_vars, m_vars, sum_vars, hist_vars
<1>1. CASE SourceEnds(p)
  <2>1. PcTypes'  BY <1>1 DEF SourceEnds, PcTypes, Go
  <2>2. DataTypes'  BY <1>1 DEF SourceEnds, DataTypes
  <2>3. ASSUME NEW q \in Pipe PROVE PipeInv(q)'
    BY <1>1, <2>3 DEF SourceEnds, PipeInv, Offered, OverflowsBounded, Waited
  <2>. QED  BY <2>1, <2>2, <2>3
<1>2. CASE Offer(p)
  <2>. USE DEF Offer, pc_vars
  <2>1. PcTypes'  BY <1>2 DEF PcTypes
  <2>2. DataTypes'
    BY <1>2 DEF DataTypes, Add, BridgeFits, RawFits
  <2>3. ASSUME NEW q \in Pipe PROVE PipeInv(q)'
    <3>1. Offered(q)'
      BY <1>2, <2>3 DEF DataTypes, PipeInv, Offered, Add, BridgeFits, RawFits
    <3>2. (OverflowsBounded(q) /\ Waited(q))'
      BY <1>2, <2>3 DEF PipeInv, OverflowsBounded, Waited
    <3>. QED  BY <3>1, <3>2 DEF PipeInv
  <2>. QED  BY <2>1, <2>2, <2>3
<1>. QED  BY <1>1, <1>2 DEF Source
LEMMA BridgeStep ==
  ASSUME PInv, NEW p \in Pipe, Bridge(p) PROVE PInv'
<1>. USE PipelinesAssumption DEF PInv, chan_vars, stat_vars, m_vars, sum_vars, hist_vars
<1>1. CASE Relay(p)
  <2>. USE DEF Relay, pc_vars
  <2>1. PcTypes'  BY <1>1 DEF PcTypes
  <2>2. DataTypes'  BY <1>1 DEF DataTypes, Add, RawFits
  <2>3. ASSUME NEW q \in Pipe PROVE PipeInv(q)'
    <3>1. Offered(q)'
      BY <1>1, <2>3 DEF DataTypes, PipeInv, Offered, Add, RawFits
    <3>2. (OverflowsBounded(q) /\ Waited(q))'
      BY <1>1, <2>3 DEF PipeInv, OverflowsBounded, Waited
    <3>. QED  BY <3>1, <3>2 DEF PipeInv
  <2>. QED  BY <2>1, <2>2, <2>3
<1>2. CASE BridgeEnds(p)
  <2>1. PcTypes'  BY <1>2 DEF BridgeEnds, PcTypes, Go
  <2>2. DataTypes'  BY <1>2 DEF BridgeEnds, DataTypes
  <2>3. ASSUME NEW q \in Pipe PROVE PipeInv(q)'
    BY <1>2, <2>3 DEF BridgeEnds, PipeInv, Offered, OverflowsBounded, Waited
  <2>. QED  BY <2>1, <2>2, <2>3
<1>. QED  BY <1>1, <1>2 DEF Bridge

\* While the parser runs, the pipeline's statistics have not been written.
LEMMA ParserStep ==
  ASSUME PInv, NEW p \in Pipe, Parser(p) PROVE PInv'
<1>. USE PipelinesAssumption DEF PInv, chan_vars, stat_vars, m_vars, sum_vars, hist_vars
<1>0. Waited(p) /\ parse_pc[p] # "done" => m_events[p] = 0 /\ printed[p].events = 0
  BY DEF Waited
<1>1. CASE ParserEnds(p)
  <2>. USE DEF ParserEnds
  <2>1. PcTypes'  BY <1>1 DEF PcTypes, Go
  <2>2. DataTypes'  BY <1>1 DEF DataTypes
  <2>3. ASSUME NEW q \in Pipe PROVE PipeInv(q)'
    BY <1>1, <2>3 DEF PcTypes, Go, PipeInv, Offered, OverflowsBounded, Waited
  <2>. QED  BY <2>1, <2>2, <2>3
<1>2. CASE ReceiveRaw(p)
  <2>. USE DEF ReceiveRaw
  <2>1. PcTypes'  BY <1>2 DEF PcTypes, Go
  <2>2. DataTypes'  BY <1>2 DEF DataTypes, Add
  <2>3. ASSUME NEW q \in Pipe PROVE PipeInv(q)'
    <3>1. Offered(q)'  BY <1>2, <2>3 DEF DataTypes, PipeInv, Offered, Add
    <3>2. (OverflowsBounded(q))'
      BY <1>2, <2>3 DEF PcTypes, DataTypes, PipeInv,
           OverflowsBounded, Add, Go
    <3>3. Waited(q)'
      BY <1>2, <2>3 DEF PcTypes, DataTypes, PipeInv, Waited, Add, Go
    <3>. QED  BY <3>1, <3>2, <3>3 DEF PipeInv
  <2>. QED  BY <2>1, <2>2, <2>3
<1>3. CASE EnqueuePacket(p)
  <2>. USE DEF EnqueuePacket
  <2>1. PcTypes'  BY <1>3 DEF PcTypes, Go
  <2>2. DataTypes'  BY <1>3 DEF DataTypes, Add
  <2>3. ASSUME NEW q \in Pipe PROVE PipeInv(q)'
    <3>1. (Offered(q) /\ Waited(q))'
      BY <1>3, <2>3 DEF PcTypes, PipeInv, Offered, Waited, Go
    <3>2. (OverflowsBounded(q))'
      BY <1>3, <2>3 DEF PcTypes, DataTypes, PipeInv,
           OverflowsBounded, Add, Go
    <3>. QED  BY <3>1, <3>2 DEF PipeInv
  <2>. QED  BY <2>1, <2>2, <2>3
<1>4. CASE CountOverflow(p)
  <2>. USE DEF CountOverflow
  <2>1. PcTypes'  BY <1>4 DEF PcTypes, Go
  <2>2. DataTypes'  BY <1>4 DEF DataTypes, Add
  <2>3. ASSUME NEW q \in Pipe PROVE PipeInv(q)'
    <3>1. Offered(q)'  BY <1>4, <2>3 DEF PipeInv, Offered
    <3>2. (OverflowsBounded(q))'
      BY <1>4, <2>3 DEF PcTypes, DataTypes, PipeInv,
           OverflowsBounded, Add, Go
    <3>3. Waited(q)'
      BY <1>4, <2>3 DEF PcTypes, DataTypes, NatStatistics, PipeInv, Waited, Add, Go
    <3>. QED  BY <3>1, <3>2, <3>3 DEF PipeInv
  <2>. QED  BY <2>1, <2>2, <2>3
<1>5. CASE EvictHead(p)
  <2>. USE DEF EvictHead
  <2>1. PcTypes'  BY <1>5 DEF PcTypes, Go
  <2>2. DataTypes'  BY <1>5 DEF DataTypes, Add
  <2>3. ASSUME NEW q \in Pipe PROVE PipeInv(q)'
    <3>1. (Offered(q) /\ Waited(q))'
      BY <1>5, <2>3 DEF PcTypes, PipeInv, Offered, Waited, Go
    <3>2. \E n \in {0, 1} : evicted'[p] = evicted[p] + n
      BY <1>5 DEF DataTypes, Add
    <3>3. /\ parse_pc[p] = "evict" /\ parse_pc'[p] = "retry"
          /\ UNCHANGED <<events, overflows>>
          /\ q # p => evicted'[q] = evicted[q] /\ parse_pc'[q] = parse_pc[q]
      BY <1>5, <2>3 DEF DataTypes, PcTypes, Add, Go
    <3>4. evicted[q] \in Nat /\ events[q] \in Nat /\ overflows[q] \in Nat
      BY <2>3 DEF DataTypes
    <3>5. OverflowsBounded(q)'
      BY <2>3, <3>2, <3>3, <3>4 DEF PipeInv, OverflowsBounded
    <3>. QED  BY <3>1, <3>5 DEF PipeInv
  <2>. QED  BY <2>1, <2>2, <2>3
<1>6. CASE RetryEnqueue(p)
  <2>. USE DEF RetryEnqueue
  <2>1. PcTypes'  BY <1>6 DEF PcTypes, Go
  <2>2. DataTypes'  BY <1>6 DEF DataTypes, Add
  <2>3. ASSUME NEW q \in Pipe PROVE PipeInv(q)'
    <3>1. (Offered(q) /\ Waited(q))'
      BY <1>6, <2>3 DEF PcTypes, PipeInv, Offered, Waited, Go
    <3>2. (OverflowsBounded(q))'
      BY <1>6, <2>3 DEF PcTypes, DataTypes, PipeInv,
           OverflowsBounded, Add, Go
    <3>. QED  BY <3>1, <3>2 DEF PipeInv
  <2>. QED  BY <2>1, <2>2, <2>3
<1>. QED  BY <1>1, <1>2, <1>3, <1>4, <1>5, <1>6 DEF Parser

LEMMA DispatcherStep ==
  ASSUME PInv, NEW p \in Pipe, Dispatcher(p) PROVE PInv'
<1>. USE PipelinesAssumption DEF PInv, chan_vars, stat_vars, m_vars, sum_vars, hist_vars
<1>1. CASE DispatcherEnds(p)
  <2>1. PcTypes'  BY <1>1 DEF DispatcherEnds, PcTypes, Go
  <2>2. DataTypes'  BY <1>1 DEF DispatcherEnds, DataTypes
  <2>3. ASSUME NEW q \in Pipe PROVE PipeInv(q)'
    BY <1>1, <2>3 DEF DispatcherEnds, PipeInv, Offered, OverflowsBounded, Waited
  <2>. QED  BY <2>1, <2>2, <2>3
<1>2. CASE Dequeue(p)
  <2>. USE DEF Dequeue, pc_vars
  <2>1. PcTypes'  BY <1>2 DEF PcTypes
  <2>2. DataTypes'  BY <1>2 DEF DataTypes, Add
  <2>3. ASSUME NEW q \in Pipe PROVE PipeInv(q)'
    BY <1>2, <2>3 DEF PipeInv, Offered, Waited, OverflowsBounded
  <2>. QED  BY <2>1, <2>2, <2>3
<1>. QED  BY <1>1, <1>2 DEF Dispatcher

\* Joining is what makes the counters final; the report needs that they were 0
\* in the metrics before.
LEMMA RunnerStep ==
  ASSUME PInv, NEW p \in Pipe, Runner(p) PROVE PInv'
<1>. USE PipelinesAssumption DEF PInv, chan_vars, stat_vars, m_vars, sum_vars, hist_vars
<1>1. CASE DurationOver(p)
  <2>. USE DEF DurationOver
  <2>1. PcTypes'  BY <1>1 DEF PcTypes, Go
  <2>2. DataTypes'  BY <1>1 DEF DataTypes
  <2>3. ASSUME NEW q \in Pipe PROVE PipeInv(q)'
    BY <1>1, <2>3 DEF PcTypes, Go, PipeInv, Offered, OverflowsBounded, Waited
  <2>. QED  BY <2>1, <2>2, <2>3
<1>2. CASE JoinThreads(p)
  <2>. USE DEF JoinThreads
  <2>1. PcTypes'  BY <1>2 DEF PcTypes, Go
  <2>2. DataTypes'  BY <1>2 DEF DataTypes, NatStatistics
  <2>3. ASSUME NEW q \in Pipe PROVE PipeInv(q)'
    <3>1. (Offered(q) /\ OverflowsBounded(q))'
      BY <1>2, <2>3 DEF PipeInv, Offered, OverflowsBounded
    <3>2. Waited(q)'
      BY <1>2, <2>3 DEF PcTypes, DataTypes, NatStatistics, PipeInv, Waited, Go
    <3>. QED  BY <3>1, <3>2 DEF PipeInv
  <2>. QED  BY <2>1, <2>2, <2>3
<1>3. CASE Report(p)
  <2>. USE DEF Report
  <2>1. PcTypes'  BY <1>3 DEF PcTypes, Go
  <2>2. DataTypes'  BY <1>3 DEF DataTypes, NatStatistics
  <2>3. ASSUME NEW q \in Pipe PROVE PipeInv(q)'
    <3>1. (Offered(q) /\ OverflowsBounded(q))'
      BY <1>3, <2>3 DEF PipeInv, Offered, OverflowsBounded
    <3>2. Waited(q)'
      BY <1>3, <2>3 DEF PcTypes, DataTypes, NatStatistics, PipeInv, Waited, Go
    <3>. QED  BY <3>1, <3>2 DEF PipeInv
  <2>. QED  BY <2>1, <2>2, <2>3
<1>. QED  BY <1>1, <1>2, <1>3 DEF Runner

LEMMA MainStep ==
  ASSUME PInv, Main PROVE PInv'
<1>. USE PipelinesAssumption DEF PInv, chan_vars, stat_vars, m_vars, sum_vars, hist_vars
<1>1. CASE MainStops \/ MainUnlocks
  <2>. USE DEF MainStops, MainUnlocks
  <2>1. PcTypes'
    <3>1. CASE MainStops  BY <3>1 DEF PcTypes
    <3>2. CASE MainUnlocks  BY <3>2 DEF PcTypes
    <3>. QED  BY <1>1, <3>1, <3>2
  <2>2. DataTypes'  BY <1>1 DEF DataTypes
  <2>3. ASSUME NEW q \in Pipe PROVE PipeInv(q)'
    BY <1>1, <2>3 DEF PipeInv, Offered, OverflowsBounded, Waited
  <2>. QED  BY <2>1, <2>2, <2>3
<1>2. CASE MainLocks
  <2>. USE DEF MainLocks
  <2>1. PcTypes'  BY <1>2 DEF PcTypes
  <2>2. DataTypes'  BY <1>2 DEF DataTypes, NatStatistics
  <2>3. ASSUME NEW q \in Pipe PROVE PipeInv(q)'
    <3>1. (Offered(q) /\ OverflowsBounded(q))'
      BY <1>2, <2>3 DEF PipeInv, Offered, OverflowsBounded
    <3>2. Waited(q)'
      BY <1>2, <2>3 DEF DataTypes, NatStatistics, PipeInv, Waited
    <3>. QED  BY <3>1, <3>2 DEF PipeInv
  <2>. QED  BY <2>1, <2>2, <2>3
<1>. QED  BY <1>1, <1>2 DEF Main

LEMMA StepInv == PInv /\ [PNext]_pvars => PInv'
<1>. SUFFICES ASSUME PInv, [PNext]_pvars PROVE PInv'
  OBVIOUS
<1>1. CASE UNCHANGED pvars
  BY <1>1 DEF PInv, PcTypes, DataTypes, PipeInv, Offered, OverflowsBounded, Waited, pvars, pc_vars, chan_vars, stat_vars,
       m_vars, sum_vars, hist_vars
<1>2. ASSUME NEW p \in Pipe,
             Source(p) \/ Bridge(p) \/ Parser(p) \/ Dispatcher(p) \/ Runner(p)
      PROVE  PInv'
  BY <1>2, SourceStep, BridgeStep, ParserStep, DispatcherStep, RunnerStep
<1>. QED  BY <1>1, <1>2, MainStep DEF PNext, Exited

---------------------------------------------------------------------------

\* The counters stay within the events that were offered.
LEMMA CountsBounded ==
  ASSUME PInv, NEW p \in Pipe
  PROVE  /\ made[p] \in Count /\ events[p] \in Count /\ evicted[p] \in Count
         /\ overflows[p] \in Count /\ m_events[p] \in Count /\ m_overflows[p] \in Count
         /\ result[p] \in Statistics /\ printed[p] \in Statistics
<1>1. MaxEvents[p] \in Nat /\ \A n \in Nat : n <= MaxEvents[p] => n \in Count
  BY PipelinesAssumption DEF Pipe, Count
<1>2. /\ made[p] \in Nat /\ events[p] \in Nat
      /\ evicted[p] \in Nat /\ overflows[p] \in Nat
      /\ m_events[p] \in Nat /\ m_overflows[p] \in Nat
      /\ bridge[p] \in Nat /\ raw[p] \in Nat /\ backlog[p] \in Nat
      /\ result[p] \in NatStatistics /\ printed[p] \in NatStatistics
  BY PipelinesAssumption DEF PInv, DataTypes
<1>3. Offered(p) /\ OverflowsBounded(p) /\ Waited(p)
  BY DEF PInv, PipeInv
<1>4. made[p] <= MaxEvents[p] /\ events[p] <= MaxEvents[p]
  BY <1>1, <1>2, <1>3 DEF Offered
<1>5. evicted[p] <= overflows[p]
  BY <1>2, <1>3 DEF OverflowsBounded
<1>6. overflows[p] <= MaxEvents[p] /\ evicted[p] <= MaxEvents[p]
  BY <1>5, <1>1, <1>2, <1>3, <1>4 DEF OverflowsBounded
<1>7. m_events[p] <= MaxEvents[p] /\ m_overflows[p] <= MaxEvents[p]
  BY <1>1, <1>2, <1>3, <1>4, <1>6 DEF Waited
<1>8. result[p] \in Statistics
  <2>1. run_pc[p] \in {"sleep", "join", "report", "over"}
    BY DEF PInv, PcTypes
  <2>2. 0 \in Count
    BY <1>1
  <2>. QED  BY <1>1, <1>2, <1>3, <1>4, <1>6, <2>1, <2>2 DEF Waited, Statistics
<1>9. printed[p] \in Statistics
  <2>1. printed[p].events \in Nat /\ printed[p].overflows \in Nat
    BY <1>2 DEF NatStatistics
  <2>2. printed[p].overflows \in Count
    BY <1>1, <1>2, <1>3, <1>6, <2>1 DEF Waited
  <2>3. printed[p].events \in Count
    BY <1>1, <1>3, <1>8, <2>1 DEF Waited, Statistics
  <2>. QED  BY <1>2, <2>2, <2>3 DEF NatStatistics, Statistics
<1>. QED  BY <1>1, <1>2, <1>4, <1>5, <1>6, <1>7, <1>8, <1>9

\* Types, and no counter exceeds the number of events the sources offered.
THEOREM PTypeCorrect == PSpec => []PTypeOK
<1>1. PInv => PTypeOK
  <2>. SUFFICES ASSUME PInv PROVE PTypeOK
    OBVIOUS
  <2>1. \A p \in Pipe :
          /\ made[p] \in Count /\ events[p] \in Count /\ evicted[p] \in Count
          /\ overflows[p] \in Count /\ m_events[p] \in Count
          /\ m_overflows[p] \in Count
          /\ result[p] \in Statistics /\ printed[p] \in Statistics
    BY CountsBounded
  <2>2. \A h \in {made, evicted, events, overflows, m_events, m_overflows} : h \in [Pipe -> Nat]
    BY DEF PInv, DataTypes
  <2>3. \A h \in {made, evicted, events, overflows, m_events, m_overflows} : h \in [Pipe -> Count]
    BY <2>1, <2>2
  <2>4. result \in [Pipe -> Statistics] /\ printed \in [Pipe -> Statistics]
    BY <2>1 DEF PInv, DataTypes
  <2>. QED  BY <2>3, <2>4 DEF PInv, PcTypes, DataTypes, PTypeOK
<1>. QED  BY <1>1, InitInv, StepInv, PTL DEF PSpec

\* Statistics that are shown are final, in the metrics and in the summary.
THEOREM StatisticsFinal == PSpec => []StatisticsAreFinal
<1>1. PInv => StatisticsAreFinal
  <2>. SUFFICES ASSUME PInv, NEW p \in Pipe
                PROVE  /\ m_events[p] # 0 =>
                            /\ parse_pc[p] = "done" /\ m_events[p] = events[p]
                            /\ m_overflows[p] = overflows[p]
                       /\ printed[p].events # 0 => /\ printed[p] = result[p]
                                                   /\ evicted[p] <= printed[p].overflows
                       /\ m_overflows[p] <= overflows[p]
    BY DEF StatisticsAreFinal
  <2>1. evicted[p] \in Nat /\ overflows[p] \in Nat
    BY DEF PInv, DataTypes
  <2>2. evicted[p] <= overflows[p]
    BY <2>1 DEF PInv, PipeInv, OverflowsBounded
  <2>3. Waited(p)
    BY DEF PInv, PipeInv
  <2>4. printed[p].events # 0 => printed[p].overflows = overflows[p]
    BY <2>3 DEF Waited
  <2>. QED  BY <2>2, <2>3, <2>4 DEF Waited
<1>. QED  BY <1>1, InitInv, StepInv, PTL DEF PSpec
=============================================================================
